SPECIFICATION Spec
CONSTANTS
  s1 = s1
  s2 = s2
  s3 = s3
  b1 = b1
  b2 = b2
  b3 = b3
  Strings <- ThreeStrings
  Buffers <- ThreeBuffers
  Nobody = Nobody
  Literals <- FewLiterals
  LENGTH_BITS = 2
  START_BITS = 1
  RECURSION_LIMIT = 0
  MaxLength = 3
  LocksMutable = FALSE
  MayRunOut = TRUE
SYMMETRY StringSymmetry
INVARIANTS
  MemorySound
  ValuesKept
  LentStays
  CacheIsFresh
