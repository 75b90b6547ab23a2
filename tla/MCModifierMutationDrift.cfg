CONSTANTS
  frame = frame
  area = area
  wall = wall
  Plan <- TwoTargets
  MaxMoves = 1
SPECIFICATION Spec
CHECK_DEADLOCK FALSE
PROPERTY RestorationSparesOthers
