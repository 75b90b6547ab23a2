CONSTANTS
  Callers = {c1, c2}
  Tasks = {t1, t2}
  Stop = Stop
  NoTask = NoTask
SPECIFICATION Spec
SYMMETRY Symmetry
INVARIANT CallErrorMeansTaskFailed
