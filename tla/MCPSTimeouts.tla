---------------------------- MODULE MCPSTimeouts ----------------------------
(* Small instances of PSTimeouts for TLC, in units of a few nanoseconds. *)
EXTENDS PSTimeouts, TLC

CONSTANTS e1, e2

TwoSlots == {e1, e2}

SlotSymmetry == Permutations(TwoSlots)

\* None, at once, less than a second, a second, and a second and a part.
AllRequests == {-1, 0, 1, 2, 3}
=============================================================================
