\* Two connections, POSTs given up and lost, both processes restart.
SPECIFICATION FairSpec
CONSTANTS
  L1 = L1
  L2 = L2
  PWork1 = PWork1
  PProt2 = PProt2
  None = None
  Bad = Bad
  Unscorable = Unscorable
  Links = {L1}
  PathNames = {PWork1, PProt2}
  PathOrder <- MCPathOrder
  PathLinks <- MCPathLinks
  Role <- MCRole
  Capacity <- MCCapacity
  Protection <- MCProtection
  Threads = {t1, t2}
  ConsecutiveWindows = 1
  Hysteresis = 2
  Timestamps = {1}
  ClockReadings = {}
  GrpcStubs = TRUE
  MaxObservations = 2
  MaxHealerRestarts = 1
  Conns = {c1, c2}
  MaxFrames = 2
  MaxInferRestarts = 1
  Unreliable = TRUE
INVARIANTS
  NoWindowCountsTwice
PROPERTY FramesAreRead
CHECK_DEADLOCK FALSE
