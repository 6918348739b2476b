\* Any two threads, two links, event times out of order, no stubs.
SPECIFICATION Spec
CONSTANTS
  L1 = L1
  L2 = L2
  PWork1 = PWork1
  PProt2 = PProt2
  None = None
  Links = {L1, L2}
  PathNames = {PWork1, PProt2}
  PathOrder <- MCPathOrder
  PathLinks <- MCPathLinks
  Role <- MCRole
  Capacity <- MCCapacity
  Protection <- MCProtection
  Threads = {t1, t2}
  ConsecutiveWindows = 2
  Hysteresis = 2
  Timestamps = {0, 1}
  ClockReadings = {3}
  GrpcStubs = TRUE
  MaxObservations = 3
  MaxHealerRestarts = 1
SYMMETRY ThreadSymmetry
INVARIANTS
  HealerTypeOK
  EmissionJustified
  CounterIsHotRun
  EmissionsAreRecorded
CHECK_DEADLOCK FALSE
