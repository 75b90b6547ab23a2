CONSTANTS
  frame = frame
  area = area
  wall = wall
  Plan <- ThreeTargets
  MaxMoves = 1
SPECIFICATION Spec
CHECK_DEADLOCK FALSE
INVARIANTS
  IssuedIsEstablished
  NotRequiredMeansUntouched
  RestoredIsTruthful
