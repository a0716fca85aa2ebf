SPECIFICATION FairSpec
CONSTANTS
  Thread = {t1, t2, t3}
  NULL = NULL
  Sentinel = Sentinel
  SizeMax = 2
INVARIANTS
  MutualExclusion
  FieldsAgree
  WaitListSound
PROPERTIES
  BusyOnlyWhenTaken
  ImplementsFifoLock
  CallsReturn
