\* Two handler threads, arbitrary requests, a path with two slots, one restart.
SPECIFICATION Spec
CONSTANTS
  L1 = L1
  L2 = L2
  L3 = L3
  PWork1 = PWork1
  PProt2 = PProt2
  PWork3 = PWork3
  Nowhere = Nowhere
  None = None
  Links = {L1, L2, L3}
  PathNames = {PWork1, PProt2, PWork3, Nowhere}
  PathOrder <- MCPathOrder
  PathLinks <- MCPathLinks
  Role <- MCRole
  Capacity <- MCRoomy
  Protection <- MCProtection
  Workers = {w1, w2}
  Requests <- MCRequests
  MaxRestarts = 1
SYMMETRY WorkerSymmetry
INVARIANTS
  PMTypeOK
  CapacityAccounting
  MovedIsLatestReroute
  NoRepeatedMove
  StatusFollowsHistory
  LogAccounting
  AcceptedMeansMoved
PROPERTY ImplementsSwitch
