CONSTANTS
  Callers = {c1, c2}
  Tasks = {t1, t2}
  Stop = Stop
  NoTask = NoTask
SPECIFICATION FairSpec
INVARIANTS
  TypeOK
  WithdrawnNeverRuns
  ClosedMeansQuiet
  NothingStranded
  PoisonSticks
PROPERTIES
  ClosedIsFinal
  ImplementsExecutor
  OperationsReturn
  StopEndsThread
