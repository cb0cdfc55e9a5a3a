------------------------------ MODULE MCGCHeap ------------------------------
(* A small instance of GCHeap. *)
EXTENDS GCHeap, TLC

CONSTANTS a1, a2, r1

TwoArenas == {a1, a2}
OneRoot   == {r1}

ArenaSymmetry == Permutations(TwoArenas)
=============================================================================
