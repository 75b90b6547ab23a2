CONSTANTS
  start = start
  edited = edited
  malformed = malformed
  script = script
  Inputs <- SomeInputs
  WellFormed <- SomeWellFormed
  Programs <- SomePrograms
  Callers <- SomeCallers
  Default = start
  AuditFails = TRUE
  MaxEpoch = 3
  MaxForeign = 1
SPECIFICATION Spec
CHECK_DEADLOCK FALSE
INVARIANTS
  StoredResultIsCurrent
  RunningIsTrue
  ShownIsCurrent
  AgreedWhenReady
PROPERTIES
  SavedIsShown
  BusyEnds
