SPECIFICATION FairSpec
CONSTANTS
  Core = {c1, c2}
  Thread = {t1, t2, t3, t4}
  NULL = NULL
  Boot = c1
  MainThread = t1
  MainProc = NULL
INVARIANTS
  ThreadsSound
  CountersSound
PROPERTIES
  QueuedThreadRuns
