------------------------------ MODULE MCReentry ------------------------------
(* Small instances of Reentry. *)
EXTENDS Reentry

TwoFds == {3, 4}

\* Without and with loops in callbacks.
AllStyles == [nests : BOOLEAN, drains : BOOLEAN]

\* Sockets are alike, and so are tests.
Symmetry == Permutations(EventObjs) \cup Permutations(Tests)
=============================================================================
