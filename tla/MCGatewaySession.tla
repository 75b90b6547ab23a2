---------------------------- MODULE MCGatewaySession ----------------------------
\* GatewaySession with a few callers and one task per worker call they may make.
EXTENDS GatewaySession, TLC

CONSTANTS c1, c2, c3, attach, context_read, d1, d2, d3, b1, b2

TwoCallers == {c1, c2}
ThreeCallers == {c1, c2, c3}
DetachTasks == {d1, d2, d3}
OneBounded == {b1}
TwoBounded == {b1, b2}
TasksOneBounded == {attach, context_read} \cup DetachTasks \cup OneBounded
TasksTwoBounded == {attach, context_read} \cup DetachTasks \cup TwoBounded

TwoSymmetric == Permutations(TwoCallers) \cup Permutations(DetachTasks)

================================================================================
