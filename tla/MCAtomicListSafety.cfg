SPECIFICATION FairSpec
CONSTANTS
  Node = {n1, n2, n3, n4}
  Consumer = {c1, c2}
  NULL = NULL
  MaxChain = 2
INVARIANTS
  ListSound
  NodeInOnePlace
  ForcedFindsNode
PROPERTIES
  ImplementsQueue
  DeletionEnds
