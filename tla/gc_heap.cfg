SPECIFICATION Spec
CONSTANTS
  a1 = a1
  a2 = a2
  r1 = r1
  Null = Null
  Arenas <- TwoArenas
  ArenaSize = 2
  RootNames <- OneRoot
  MaxThings = 2
  ChunkSize = 2
  MaxHeld = 2
  MaxScopes = 2
SYMMETRY ArenaSymmetry
INVARIANTS
  HeapSound
  LocksCounted
  LocalRootsSound
PROPERTIES
  CollectsEverything
  FailsOnlyWhenFull
