--------------------------- MODULE MCModifierMutation ---------------------------
\* ModifierMutation with a plan of a few targets.
EXTENDS ModifierMutation

CONSTANTS frame, area, wall

TwoTargets == <<frame, area>>
ThreeTargets == <<frame, area, wall>>

================================================================================
