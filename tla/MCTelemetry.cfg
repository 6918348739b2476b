\* Two producers, of which the one that may loop is in a terminal, one place in
\* the backlog, two lines per connection, one pass of the loop until the service is
\* stopped, an infer service that stalls and dies once.
SPECIFICATION TelemetrySpec
CONSTANTS
  A = A
  B = B
  p1 = p1
  p2 = p2
  None = None
  Keys = {A, B}
  Clients = {p1, p2}
  WindowN = 2
  Backlog = 1
  MaxLines = 0
  MaxOutages = 1
  Streams <- MCStreams
  MaxPasses = 1
  Foreground = {p2}
  SocketBuffer = 2
  MaxAttempts = 1
INVARIANTS
  WindowIsRecentHistory
  LinesAccounted
  FramesAccounted
  FramesInOrder
PROPERTIES
  ShutdownCompletes
  ProducersEnd
  StreamsAreHandled
CHECK_DEADLOCK FALSE
