CHECK_DEADLOCK FALSE
SPECIFICATION CondSpec
CONSTANTS
  Thread = {t1, t2, t3}
  Locker = {t1, t2, t3}
  Waiter = {t1, t2, t3}
  Broadcaster = {t1, t2, t3}
  NULL = NULL
  Sentinel = Sentinel
  MutexPtr = MutexPtr
  SizeMax = 2
SYMMETRY Symmetry
INVARIANTS
  CondExclusion
  CondFieldsSound
  WaiterInOnePlace
  CondListSound
