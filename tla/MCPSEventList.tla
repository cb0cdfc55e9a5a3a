--------------------------- MODULE MCPSEventList ----------------------------
(* A small instance of PSEventList for TLC. *)
EXTENDS PSEventList

CONSTANTS a1, a2, a3, a4

\* One address more than descriptors: the allocation before the removal in
\* ps_AddSelect needs it.
FourCells == {a1, a2, a3, a4}
ThreeFds  == {3, 4, 5}

CellSymmetry == Permutations(FourCells)
=============================================================================
