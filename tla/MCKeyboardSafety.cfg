SPECIFICATION KbFairSpec
CHECK_DEADLOCK FALSE
CONSTANTS
  BufSize = 8
  IndexRange = 6
  ThreadBuf = 3
  MaxCodes = 15
INVARIANTS
  RingSound
  SleepSound
  CodesInOrder
PROPERTIES
  CodeHandled
