----------------------------- MODULE MCJSScope -----------------------------
(* A small instance of JSScope. *)
EXTENDS JSScope, TLC

CONSTANTS s1, s2, i1, i2, i3

TwoScopes == {s1, s2}
ThreeIds  == {i1, i2, i3}

\* The first scope may have all three, and overwrite i1; i2 is in both.
KindsByScope ==
  s1 :> (i1 :> {"plain", "shared"} @@ i2 :> {"plain"} @@ i3 :> {"plain"}) @@
  s2 :> (i1 :> {} @@ i2 :> {"plain"} @@ i3 :> {})
=============================================================================
