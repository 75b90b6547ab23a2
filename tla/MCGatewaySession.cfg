CONSTANTS
  c1 = c1
  c2 = c2
  c3 = c3
  attach = attach
  context_read = context_read
  d1 = d1
  d2 = d2
  d3 = d3
  b1 = b1
  b2 = b2
  Callers <- TwoCallers
  Tasks <- TasksTwoBounded
  Attach = attach
  ReadContext = context_read
  Detaches <- DetachTasks
  BoundedCalls <- TwoBounded
  ConcurrentClose = FALSE
  Stop = Stop
  NoTask = NoTask
SPECIFICATION SessionSpec
SYMMETRY TwoSymmetric
INVARIANTS
  HealthIsTruthful
  CleanCloseReleases
  FailedStartReleases
PROPERTIES
  ClosedSessionIsFinal
