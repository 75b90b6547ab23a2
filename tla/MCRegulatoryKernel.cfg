CONSTANTS
  Inputs <- SomeInputs
  Rank <- SomeRank
SPECIFICATION Spec
CHECK_DEADLOCK FALSE
INVARIANTS
  RefusedForCycle
  ExecutedIffUntroubled
  AssessmentAgrees
PROPERTY PlanIsCanonical
