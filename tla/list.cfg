SPECIFICATION Spec
CONSTANTS
  a1 = a1
  a2 = a2
  a3 = a3
  a4 = a4
  Cells <- FourCells
  Null = Null
  Fds <- ThreeFds
  EventObjs = {}
  MaxLeaked = 1
SYMMETRY CellSymmetry
INVARIANTS
  ListWellFormed
PROPERTIES
  ImplementsSequence
