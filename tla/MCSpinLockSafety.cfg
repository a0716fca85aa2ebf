SPECIFICATION FairSpec
CONSTANTS
  Core = {c1, c2, c3, c4}
  NULL = NULL
INVARIANTS
  MutualExclusion
  SpinInv
PROPERTIES
  ImplementsFifoLock
  LockEnds
