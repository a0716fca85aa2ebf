SPECIFICATION Spec
CONSTANTS
  Core = {c1, c2}
  Thread = {t1, t2, t3}
  NULL = NULL
  Boot = c1
  MainThread = t1
  MainProc = MainProc
SYMMETRY Symmetry
INVARIANTS
  CoreKeepsProcess
