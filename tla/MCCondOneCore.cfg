SPECIFICATION CoresFairSpec
CHECK_DEADLOCK FALSE
CONSTANTS
  Thread = {w1, w2, b1}
  Locker = {w1, w2}
  Waiter = {w1, w2}
  Broadcaster = {b1}
  NULL = NULL
  Sentinel = Sentinel
  MutexPtr = MutexPtr
  SizeMax = 1
  Cores = 1
PROPERTIES
  BroadcastReturns
