CONSTANTS
  c1 = c1
  c2 = c2
  c3 = c3
  attach = attach
  context_read = context_read
  d1 = d1
  d2 = d2
  d3 = d3
  b1 = b1
  b2 = b2
  Callers <- TwoCallers
  Tasks <- TasksOneBounded
  Attach = attach
  ReadContext = context_read
  Detaches <- DetachTasks
  BoundedCalls <- OneBounded
  ConcurrentClose = TRUE
  Stop = Stop
  NoTask = NoTask
SPECIFICATION SessionSpec
INVARIANT ClosedIsNotHealthy
