\* One fault of any kind, at any point: a call lost or late, a death of either process.
SPECIFICATION FairSpec
CONSTANTS
  L1 = L1
  L3 = L3
  PWork1 = PWork1
  PProt2 = PProt2
  PWork3 = PWork3
  None = None
  Links = {L1, L3}
  PathNames = {PWork1, PProt2, PWork3}
  PathOrder <- MCPathOrder
  PathLinks <- MCPathLinks
  Role <- MCRole
  Capacity <- MCCapacity
  Protection <- MCProtection
  Threads = {t1, t2}
  ConsecutiveWindows = 1
  Hysteresis = 1
  Timestamps = {1}
  ClockReadings = {}
  GrpcStubs = TRUE
  MaxObservations = 1
  MaxHealerRestarts = 1
  RestWorkers = {r1}
  GrpcWorkers = {g1}
  MaxRestarts = 1
  MaxFaults = 1
INVARIANTS
  SpareIsCapacityLessRiders
  DownLinksRideActivePath
  AcceptanceIsTrue
  HoldOffMeansSettled
PROPERTIES
  ImplementsProtection
  EmissionSettles
  ObservationsReturn
CHECK_DEADLOCK FALSE
