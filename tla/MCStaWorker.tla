------------------------------ MODULE MCStaWorker ------------------------------
\* StaWorker with a few interchangeable callers and tasks.
EXTENDS StaWorker, TLC

Symmetry == Permutations(Callers) \cup Permutations(Tasks)

================================================================================
