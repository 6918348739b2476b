\* One connection, POSTs may be given up.
SPECIFICATION Spec
CONSTANTS
  L1 = L1
  L2 = L2
  PWork1 = PWork1
  PProt2 = PProt2
  None = None
  Bad = Bad
  Unscorable = Unscorable
  Links = {L1}
  PathNames = {PWork1, PProt2}
  PathOrder <- MCPathOrder
  PathLinks <- MCPathLinks
  Role <- MCRole
  Capacity <- MCCapacity
  Protection <- MCProtection
  Threads = {t1, t2}
  ConsecutiveWindows = 2
  Hysteresis = 2
  Timestamps = {1, 2}
  ClockReadings = {}
  GrpcStubs = TRUE
  MaxObservations = 4
  MaxHealerRestarts = 0
  Conns = {c1}
  MaxFrames = 4
  MaxInferRestarts = 0
  Unreliable = TRUE
SYMMETRY ThreadSymmetry
INVARIANT HysteresisHolds
CHECK_DEADLOCK FALSE
