------------------------------ MODULE MCDHash ------------------------------
(* A small instance of DHash: tables of four and eight entries. *)
EXTENDS DHash, TLC

CONSTANTS k1, k2, k3, k4, k5

FiveKeys == {k1, k2, k3, k4, k5}

\* k1 and k2 have the same hash, k3 and k4 the same first entry in the small table.
FiveHashes == k1 :> 4 @@ k2 :> 4 @@ k3 :> 8 @@ k4 :> 10 @@ k5 :> 14

KeySymmetry == Permutations({k1, k2})
=============================================================================
