SPECIFICATION KbFairSpec
CHECK_DEADLOCK FALSE
CONSTANTS
  BufSize = 8
  IndexRange = 6
  ThreadBuf = 3
  MaxCodes = 8
PROPERTIES
  EveryCodeHandled
