SPECIFICATION Spec
CONSTANTS
  s1 = s1
  s2 = s2
  i1 = i1
  i2 = i2
  i3 = i3
  Null = Null
  Nodes = {1, 2, 3, 4, 5, 6, 7, 8}
  Scopes <- TwoScopes
  Ids <- ThreeIds
  Kinds <- KindsByScope
  Shared = {"shared"}
  KidsPerChunk = 2
  HashThreshold = 3
  MaxSlots = 3
  MaxGarbage = 0
INVARIANTS
  ScopesSound
  TreeSound
PROPERTIES
  OthersKept
