SPECIFICATION FairSpec
CONSTANTS
  o1 = o1
  o2 = o2
  o3 = o3
  str = str
  Objects <- ThreeObjects
  Leaves <- OneLeaf
  Null = Null
  Empty = Empty
  Owners <- TwoOwners
  Used <- AllUsed
  Limit = 2
  Quotas = {0, 1}
  Heaps <- AllHeaps
  Hangings <- SomeHangings
  RootSets <- TheRoot
INVARIANTS
  MarkedIsReachable
  HeapRestored
  HookSeesItsSlots
  FramesSound
PROPERTIES
  Terminates
