------------------------------- MODULE GCMark -------------------------------
(***************************************************************************)
(* The mark phase of the collector (js/src/jsgc.c).  MARK_GC_THING recurs  *)
(* over an object's slots until the C stack's quota is used up; from there *)
(* DeutschSchorrWaite goes on without a stack of its own: on the way down  *)
(* it stores the way back in the very slots it follows, tagged as booleans *)
(* so that they can be told from everything else, and on the way up it     *)
(* puts the slots back.  The way back is found by looking for the only     *)
(* such value in the parent, starting at a hint kept in the parent's scope.*)
(*                                                                         *)
(* The two nest.  Either calls the object's mark hook (js_Mark), which     *)
(* calls MARK_GC_THING for what hangs off the object elsewhere: getters,   *)
(* setters and ids in its scope, whatever its class marks.  Far down the   *)
(* stack that starts another DeutschSchorrWaite while the slots of objects *)
(* on the first one's way back are still reversed.                         *)
(*                                                                         *)
(* A thing without outgoing references (string, double, a newborn object   *)
(* that has no slots yet) is a leaf.  The block that holds an object's     *)
(* slots is part of the object.                                            *)
(***************************************************************************)
EXTENDS Integers, Sequences, SequencesExt, FiniteSets

CONSTANTS
  Objects, Leaves,  \* the things of the heap
  Null, Empty,      \* the reference of JSVAL_NULL, and the address of JSVAL_EMPTY
  Owners,           \* the objects that own their scope, and so have a hint
  Used,             \* slots of each object in use, which its hook returns
  Limit,            \* the number of values dswIndex can take (65536)
  Quotas,           \* how many frames may fit on the C stack
  Heaps,            \* the slots of all objects as the collection may find them
  Hangings,         \* what may hang off each object
  RootSets          \* what may be rooted

Things == Objects \cup Leaves

\* A jsval is a tagged reference.  JSVAL_NULL is a null "object", an ordinary
\* boolean is a "boolean" that refers to nothing.
Jsval == [tag : {"object", "leaf", "boolean", "int"},
          ref : Things \cup {Null, Empty}]

ObjectVal(o) == [tag |-> "object", ref |-> o]
JSVAL_EMPTY  == ObjectVal(Empty)

\* What a slot may hold outside of a collection: no reversed pointer.
Ordinary(v) ==
  \/ v.tag = "object" /\ v.ref \in Objects \cup {Null}
  \/ v.tag = "leaf"   /\ v.ref \in Leaves
  \/ v.tag \in {"boolean", "int"} /\ v.ref = Null

ASSUME ThingsAssumption ==
  /\ Objects \cap Leaves = {}
  /\ Null \notin Things /\ Empty \notin Things /\ Null # Empty
  /\ Owners \subseteq Objects
  /\ Used \in [Objects -> Nat]
  /\ Limit \in Nat \ {0}
  /\ Quotas \subseteq Nat

\* js_AllocSlot and js_FreeSlot keep the slots that are not in use void.
ASSUME HeapsAssumption ==
  \A h \in Heaps :
    /\ h \in [Objects -> Seq(Jsval)]
    /\ \A o \in Objects : \A k \in DOMAIN h[o] :
         /\ Ordinary(h[o][k])
         /\ o \in Owners /\ k > Used[o] => h[o][k].tag = "int"
    /\ \A o \in Owners : Used[o] <= Len(h[o])

ASSUME RootsAssumption ==
  /\ Hangings \subseteq [Objects -> Seq(Things)]
  /\ RootSets \subseteq SUBSET Things

VARIABLES
  slots,   \* obj->slots of every object
  marked,  \* the things with GCF_MARK
  hint,    \* scope->dswIndex
  frames,  \* the C stack, innermost call last
  todo,    \* roots js_GC has still to pass to GC_MARK
  before,  \* history: the slots when the collection began
  hung,    \* what hangs off each object
  roots,   \* history: all the roots
  quota,   \* how many frames fit on the C stack
  trail    \* history: the way back each object is part of

heapVars == <<slots, hint, trail>>
givenVars == <<before, hung, roots, quota>>
vars == <<slots, marked, hint, frames, todo, before, hung, roots, quota, trail>>

(***************************************************************************)
(* A frame is a call of MARK_GC_THING ("mark") or of DeutschSchorrWaite    *)
(* ("dsw").  step: about to look at the thing, in its mark hook, scanning  *)
(* its slots.  at: in the hook, the things it has passed on; scanning, the *)
(* position of vp, and end its limit.  top: the dsw variable.  len:        *)
(* history, the length of this dsw's way back.                             *)
(***************************************************************************)
Frame == [kind : {"mark", "dsw"}, thing : Things,
          step : {"enter", "hook", "scan"}, at : Nat, end : Nat,
          top : Jsval, len : Nat]

Entered(t) == [kind |-> "mark", thing |-> t, step |-> "enter", at |-> 0, end |-> 0,
               top |-> JSVAL_EMPTY, len |-> 0]

\* The object's slot that is reversed (0: none), by which frame, and how many
\* steps down its way this is.
NoTrail == [slot |-> 0, frame |-> 0, rank |-> 0]
Trail   == [slot : Nat, frame : Nat, rank : Nat]

TypeOK ==
  /\ slots \in [Objects -> Seq(Jsval)]
  /\ marked \subseteq Things
  /\ hint \in [Objects -> Nat]
  /\ frames \in Seq(Frame)
  /\ todo \subseteq Things
  /\ before \in [Objects -> Seq(Jsval)]
  /\ hung \in [Objects -> Seq(Things)]
  /\ roots \subseteq Things
  /\ quota \in Nat
  /\ trail \in [Objects -> Trail]

Init ==
  /\ slots \in Heaps
  /\ marked = {}
  /\ hint = [o \in Objects |-> 0]
  /\ frames = << >>
  /\ roots \in RootSets
  /\ todo = roots
  /\ before = slots
  /\ hung \in Hangings
  /\ quota \in Quotas
  /\ trail = [o \in Objects |-> NoTrail]

-----------------------------------------------------------------------------
Busy  == frames # << >>
Top   == Last(frames)
IsAt(kind, step) == Busy /\ Top.kind = kind /\ Top.step = step

Replace(f) == frames' = [frames EXCEPT ![Len(frames)] = f]
Call(t)    == frames' = Append(frames, Entered(t))
Return     == frames' = Front(frames)

\* Variant: the caller does not keep its place.
CallAgain(f, t) == Call(t)

\* The running frame goes on as f and calls MARK_GC_THING for t.
CallFrom(f, t) == frames' = Append([frames EXCEPT ![Len(frames)] = f], Entered(t))

JSVAL_IS_GCTHING(v) == v.tag \in {"object", "leaf"} /\ v.ref \in Things

\* NEXT_UNMARKED_GC_THING looks for the first of these.
Unmarked(o, from, end) ==
  {k \in from..end : JSVAL_IS_GCTHING(slots[o][k]) /\ slots[o][k].ref \notin marked}

IsFirst(k, positions) == k \in positions /\ \A j \in positions : k <= j

\* What js_Mark returns: a scope that is shared knows nothing of this object.
End(o) == IF o \in Owners THEN Used[o] ELSE Len(slots[o])

-----------------------------------------------------------------------------
(* js_GC and MARK_GC_THING.                                                *)

MarkRoot(r) ==
  /\ ~Busy
  /\ r \in todo
  /\ todo' = todo \ {r}
  /\ Call(r)
  /\ UNCHANGED <<marked, heapVars, givenVars>>

AlreadyMarked ==
  /\ IsAt("mark", "enter")
  /\ Top.thing \in marked
  /\ Return
  /\ UNCHANGED <<marked, todo, heapVars, givenVars>>

MarkLeaf ==
  /\ IsAt("mark", "enter")
  /\ Top.thing \in Leaves \ marked
  /\ marked' = marked \cup {Top.thing}
  /\ Return
  /\ UNCHANGED <<todo, heapVars, givenVars>>

\* Variant: one frame too many.
StackFitsOneMore == Len(frames) <= quota + 1

\* JS_CHECK_STACK_SIZE
StackFits == Len(frames) <= quota

MarkObject ==
  /\ IsAt("mark", "enter")
  /\ Top.thing \in Objects \ marked
  /\ marked' = marked \cup {Top.thing}
  /\ \/ /\ StackFits
        /\ Replace([Top EXCEPT !.step = "hook"])
     \/ /\ ~StackFits
        /\ Replace([Top EXCEPT !.kind = "dsw", !.step = "hook"])
  /\ UNCHANGED <<todo, heapVars, givenVars>>

\* The object's mark hook passes on what hangs off it.
MarkHung ==
  /\ Busy /\ Top.step = "hook"
  /\ Top.at < Len(hung[Top.thing])
  /\ CallFrom([Top EXCEPT !.at = @ + 1], hung[Top.thing][Top.at + 1])
  /\ UNCHANGED <<marked, todo, heapVars, givenVars>>

HookReturns(kind) == IsAt(kind, "hook") /\ Top.at = Len(hung[Top.thing])

ScanSlots ==
  /\ HookReturns("mark")
  /\ LET o == Top.thing
         found == Unmarked(o, 1, End(o))
     IN  \/ found = {} /\ Return
         \/ \E k \in found : /\ IsFirst(k, found)
                               /\ Replace([Top EXCEPT !.step = "scan", !.at = k, !.end = End(o)])
  /\ UNCHANGED <<marked, todo, heapVars, givenVars>>

\* Variant: a slot is skipped.
OthersFrom(o, k, end) == Unmarked(o, k + 2, end)

\* The unmarked things after position k, the one at k itself not counted again.
Others(o, k, end) ==
  {j \in Unmarked(o, k + 1, end) : slots[o][j].ref # slots[o][k].ref}

\* The thing found last is marked in a call, or, if it is the only one left, in
\* this frame.
MarkSlot ==
  /\ IsAt("mark", "scan")
  /\ LET o    == Top.thing
         t    == slots[o][Top.at].ref
         next == Others(o, Top.at, Top.end)
     IN  \/ next = {} /\ Replace(Entered(t))
         \/ \E k \in next : IsFirst(k, next) /\ CallFrom([Top EXCEPT !.at = k], t)
  /\ UNCHANGED <<marked, todo, heapVars, givenVars>>

-----------------------------------------------------------------------------
(* DeutschSchorrWaite.                                                     *)

\* Positions count from 0 in the code and from 1 here.
EncodeDSWIndex(k, n) == IF n > Limit THEN ((k - 1) * Limit) \div n ELSE k - 1
DecodeDSWIndex(d, n) == (IF n > Limit THEN (d * n) \div Limit ELSE d) + 1

SetBooleanTag(v) == [v EXCEPT !.tag = "boolean"]
ClrTag(v)        == [v EXCEPT !.tag = "object"]
IsReversed(v)    == v.tag = "boolean" /\ v.ref # Null

\* Variant: the object is not marked.
DSWScanUnmarked ==
  /\ HookReturns("dsw")
  /\ Replace([Top EXCEPT !.step = "scan", !.at = 1, !.end = End(Top.thing)])
  /\ UNCHANGED <<marked, todo, heapVars, givenVars>>

\* From the label "down" and the mark hook to the scan.
DSWScan ==
  /\ HookReturns("dsw")
  /\ marked' = marked \cup {Top.thing}
  /\ Replace([Top EXCEPT !.step = "scan", !.at = 1, !.end = End(Top.thing)])
  /\ UNCHANGED <<todo, heapVars, givenVars>>

DSWFound == Unmarked(Top.thing, Top.at, Top.end)

DSWLeaf ==
  /\ IsAt("dsw", "scan")
  /\ \E k \in DSWFound :
       LET t == slots[Top.thing][k].ref IN
       /\ IsFirst(k, DSWFound)
       /\ t \in Leaves
       /\ CallFrom([Top EXCEPT !.at = k], t)
  /\ UNCHANGED <<marked, todo, heapVars, givenVars>>

\* *vp = JSVAL_SETTAG(top, JSVAL_BOOLEAN); top = parent; goto down
DSWDown ==
  /\ IsAt("dsw", "scan")
  /\ \E k \in DSWFound :
       LET o == Top.thing
           t == slots[o][k].ref
       IN
       /\ IsFirst(k, DSWFound)
       /\ t \in Objects
       /\ slots' = [slots EXCEPT ![o][k] = SetBooleanTag(Top.top)]
       /\ hint' = [hint EXCEPT ![o] =
                     IF o \in Owners THEN EncodeDSWIndex(k, Len(slots[o])) ELSE @]
       /\ trail' = [trail EXCEPT ![o] =
                     [slot |-> k, frame |-> Len(frames), rank |-> Top.len + 1]]
       /\ Replace([Top EXCEPT !.thing = t, !.step = "hook", !.at = 0,
                              !.top = ObjectVal(o), !.len = @ + 1])
  /\ UNCHANGED <<marked, todo, givenVars>>

\* Variant: the pointer up is left in the slot.
Restored(o, k, child) == [slots EXCEPT ![o][k] = ClrTag(slots[o][k])]

\* *vp++ = parent
Unreversed(o, k, child) == [slots EXCEPT ![o][k] = ObjectVal(child)]

HintCleared == [hint EXCEPT ![Top.thing] = 0]

SearchStart(o) ==
  IF o \in Owners THEN DecodeDSWIndex(hint[o], Len(slots[o])) ELSE 1

\* The first reversed pointer at or after the hint.
WayBack(o) ==
  {k \in SearchStart(o)..Len(slots[o]) : IsReversed(slots[o][k])}

DSWUp ==
  /\ IsAt("dsw", "scan")
  /\ DSWFound = {}
  /\ Top.top # JSVAL_EMPTY
  /\ LET o == Top.top.ref IN
     \E k \in WayBack(o) :
       /\ IsFirst(k, WayBack(o))
       /\ slots' = Unreversed(o, k, Top.thing)
       /\ hint' = HintCleared
       /\ trail' = [trail EXCEPT ![o] = NoTrail]
       /\ Replace([Top EXCEPT !.thing = o, !.at = k + 1, !.end = Len(slots[o]),
                              !.top = ClrTag(slots[o][k]), !.len = @ - 1])
  /\ UNCHANGED <<marked, todo, givenVars>>

DSWReturn ==
  /\ IsAt("dsw", "scan")
  /\ DSWFound = {}
  /\ Top.top = JSVAL_EMPTY
  /\ hint' = HintCleared
  /\ Return
  /\ UNCHANGED <<marked, todo, slots, trail, givenVars>>

-----------------------------------------------------------------------------
Done == ~Busy /\ todo = {}

Collected == Done /\ UNCHANGED vars

MARK_GC_THING ==
  \/ AlreadyMarked
  \/ MarkLeaf
  \/ MarkObject
  \/ MarkHung
  \/ ScanSlots
  \/ MarkSlot

DeutschSchorrWaite ==
  \/ DSWScan
  \/ DSWLeaf
  \/ DSWDown
  \/ DSWUp
  \/ DSWReturn

Mark == (\E r \in todo : MarkRoot(r)) \/ MARK_GC_THING \/ DeutschSchorrWaite

Next == Mark \/ Collected

Spec == Init /\ [][Next]_vars

\* The collector runs to its end: nothing else runs meanwhile.
FairSpec == Spec /\ WF_vars(Mark)

-----------------------------------------------------------------------------
(* Properties.                                                             *)

Refs(o) ==
  {before[o][k].ref : k \in {j \in DOMAIN before[o] : JSVAL_IS_GCTHING(before[o][j])}}
    \cup {hung[o][k] : k \in DOMAIN hung[o]}

Closed(S) == \A o \in S \cap Objects : Refs(o) \subseteq S

\* In every closed set that holds the roots.
Reachable ==
  {t \in Things : \A S \in SUBSET Things : roots \subseteq S /\ Closed(S) => t \in S}

\* However the two markers nest, when the mark phase is over what is marked is
\* what can be reached from the roots: js_GC will free nothing that is in use,
\* and no reversed pointer has led the markers to anything else.
MarkedIsReachable == Done => marked = Reachable

\* As soon as no DeutschSchorrWaite is running, every slot holds what it held
\* before the collection, and no hint is left in a scope.
HeapRestored ==
  (\A i \in DOMAIN frames : frames[i].kind = "mark") =>
    /\ slots = before
    /\ \A o \in Objects : hint[o] = 0

\* An object's mark hook finds the object's own slots as they were, although
\* others may be reversed (js_Mark reads the class and the private data there).
HookSeesItsSlots ==
  Busy /\ Top.step = "hook" => slots[Top.thing] = before[Top.thing]

\* Past the quota nothing recurs but mark hooks, and a leaf at the end.
QuotaKept ==
  \A i \in quota + 1..Len(frames) - 1 :
    /\ frames[i].kind = "dsw"
    /\ \/ frames[i].step = "hook"
       \/ i = Len(frames) - 1 /\ Top.thing \in Leaves

\* The frames are well formed, and no more than the quota allows.
FramesSound == TypeOK /\ QuotaKept

\* The mark phase comes to an end, whatever cycles the heap has.
Terminates == <>Done
=============================================================================
