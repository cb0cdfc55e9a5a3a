SPECIFICATION Spec
CONSTANTS
  k1 = k1
  k2 = k2
  k3 = k3
  k4 = k4
  k5 = k5
  NoKey = NoKey
  Keys <- FiveKeys
  KeyHash <- FiveHashes
  HASH_BITS = 4
  MIN_LOG2 = 2
  LIMIT_LOG2 = 4
  maxAlphaFrac = 192
  minAlphaFrac = 64
  MaxGeneration = 3
SYMMETRY KeySymmetry
INVARIANTS
  TableSound
  FindsEveryKey
  HeldIsFound
