CONSTANTS
  v1 = v1
  v2 = v2
  dead = dead
  quake = quake
  modes = modes
  managed = managed
  unlocked = unlocked
  c1 = c1
  c2 = c2
  gravity = gravity
  seismic = seismic
  Versions <- SomeVersions
  Contents <- SomeContents
  Cases <- SomeCases
  Spectra <- SomeSpectra
  ModalOf <- SomeModalOf
  Needed = {}
  Managed <- SomeManaged
  Recreated <- SomeRecreated
  Before <- SomeBefore
  Scopes <- SomeScopes
  Columns <- SomeColumns
  Selections <- SomeSelections
  MaxMoves = 1
SPECIFICATION PipelineSpec
CHECK_DEADLOCK FALSE
INVARIANTS
  PipelineTypeOK
  ScratchIsExactCopy
  CleanupIsTruthful
  IssuedIsOwn
  IssuedLeavesScope
  RestoredIsTruthful
  NotRequiredBoundsDamage
  DesignIsOwn
  DesignIsSelected
  DesignRestsOnAnalysis
PROPERTY RunsFreshScope
