\* Windows of two rows, a horizon of two, a gate of 1/2 and a target of 1/3.
SPECIFICATION Spec
CONSTANTS
  Tables <- MCTables
  LastSecond = 5
  Links = {1, 2}
  WindowN = 2
  HorizonRows = 2
  Strides = {1, 2}
  MinNominal = 2
  FprParts = 3
  MaxScore = 2
  DefaultPoint = 1
INVARIANTS
  HorizonIsTrue
  BatchMatchesStream
  GateHolds
CHECK_DEADLOCK FALSE
