\* Every stream of up to seven bytes, cut in every way.
SPECIFICATION Spec
CONSTANTS
  MaxStream = 7
  MaxPending = 3
INVARIANTS
  ShortLinesSurvive
  NoMixedLines
CHECK_DEADLOCK FALSE
