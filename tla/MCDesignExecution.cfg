CONSTANTS
  c1 = c1
  c2 = c2
  gravity = gravity
  seismic = seismic
  own = own
  foreign = foreign
  v1 = v1
  v2 = v2
  Columns <- SomeColumns
  Selections <- SomeSelections
  Populations <- SomePopulations
  Contents <- SomeContents
  MaxMoves = 1
SPECIFICATION Spec
CHECK_DEADLOCK FALSE
INVARIANT DesignedOnIntactSource
