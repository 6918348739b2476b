\* One connection, no POST given up or lost, a healer that restarts.
SPECIFICATION Spec
CONSTANTS
  L1 = L1
  L2 = L2
  PWork1 = PWork1
  PProt2 = PProt2
  None = None
  Bad = Bad
  Unscorable = Unscorable
  Links = {L1, L2}
  PathNames = {PWork1, PProt2}
  PathOrder <- MCPathOrder
  PathLinks <- MCPathLinks
  Role <- MCRole
  Capacity <- MCCapacity
  Protection <- MCProtection
  Threads = {t1, t2}
  ConsecutiveWindows = 1
  Hysteresis = 2
  Timestamps = {0, 1, 4}
  ClockReadings = {2}
  GrpcStubs = TRUE
  MaxObservations = 3
  MaxHealerRestarts = 1
  Conns = {c1}
  MaxFrames = 3
  MaxInferRestarts = 0
  Unreliable = FALSE
SYMMETRY ThreadSymmetry
INVARIANTS
  JudgedAsScored
  IncarnationHoldsOff
PROPERTY ImplementsSerial
CHECK_DEADLOCK FALSE
