------------------------------ MODULE MCGCMark ------------------------------
(* Small heaps for GCMark: all of them, for three objects and a string. *)
EXTENDS GCMark

CONSTANTS o1, o2, o3, str

ThreeObjects == {o1, o2, o3}
OneLeaf      == {str}

\* o3's slots are shared with its prototype's scope, so it has no hint.
TwoOwners == {o1, o2}

True == [tag |-> "boolean", ref |-> Null]
Void == [tag |-> "int", ref |-> Null]
Str  == [tag |-> "leaf", ref |-> str]
Objs == {ObjectVal(o) : o \in {o1, o2, o3}}

\* o1 has more slots than dswIndex has values, o2 one that is not in use.
AllUsed == (o1 :> 3) @@ (o2 :> 2) @@ (o3 :> 1)

AllHeaps ==
  {(o1 :> <<a, b, c>>) @@ (o2 :> <<d, e, Void>>) @@ (o3 :> <<f>>) :
     a \in Objs \cup {True}, b \in Objs \cup {ObjectVal(Null)},
     c \in Objs \cup {Str},  d \in Objs \cup {True, Str},
     e \in Objs, f \in Objs \cup {Str}}

\* A getter in the scope of o2, of o1 and of o3, or none.
SomeHangings ==
  {(o1 :> << >>) @@ (o2 :> <<o3>>) @@ (o3 :> << >>), [o \in ThreeObjects |-> << >>]}
    \cup {(o1 :> <<o2, o3>>) @@ (o2 :> << >>) @@ (o3 :> <<o1>>)}

TheRoot == {{o1}}
=============================================================================
