------------------------------- MODULE GCHeap -------------------------------
(***************************************************************************)
(* The collector's heap (js/src/jsgc.c, js/src/jscntxt.c): allocation,     *)
(* roots, locks, local root scopes, and js_GC around the mark phase, which *)
(* is GCMark's subject and is one step here.                               *)
(*                                                                         *)
(* A thing is a place <<arena, n>>.  Its flag byte is its type and whether *)
(* it is in "marked", "locked" and "final"; a thing that is final is free. *)
(* Memory pressure, and what finalizers call, is up to the rest of the     *)
(* program: a finalizer may take away roots and locks and ask for another  *)
(* collection, and may not allocate.                                       *)
(***************************************************************************)
EXTENDS Integers, Sequences, SequencesExt, FiniteSets, Functions

CONSTANTS
  Arenas,      \* addresses malloc() may return for an arena
  ArenaSize,   \* things in an arena
  Null,
  RootNames,   \* the variables that js_AddRoot may be given
  MaxThings,   \* rt->gcMaxBytes, counted in things
  ChunkSize,   \* JSLRS_CHUNK_SIZE
  MaxHeld,     \* bound: roots, local roots and locks together
  MaxScopes    \* bound: nested local root scopes

Things == Arenas \X (1..ArenaSize)
GCTypes == {"object", "double"}  \* deep, and with a finalizer; neither

ASSUME SizesAssumption ==
  /\ IsFiniteSet(Arenas)
  /\ ArenaSize \in Nat \ {0} /\ ChunkSize \in Nat \ {0} /\ MaxThings \in Nat
  /\ Null \notin Things

VARIABLES
  pool,       \* the arenas of the pool, first to last
  carved,     \* a->avail: how many things of each arena have been handed out
  freeList,   \* rt->gcFreeList
  type, marked, locked, final,  \* the flag bytes
  ref,        \* an object's only slot
  gcBytes,    \* rt->gcBytes, counted in things
  locksHash,  \* rt->gcLocksHash: a thing's count, 0 if it has no entry
  rooted, rootVal,              \* rt->gcRootsHash, and the variables themselves
  newborn,    \* cx->newborn
  lrs,        \* cx->localRootStack
  gcPoke, gcLevel,
  pc,         \* "run", "alloc", or where js_GC is: "mark", "sweep", "finalize", "swept", "free"
  unswept,    \* the things the sweep has yet to come to
  request,    \* what js_NewGCThing is to allocate, and whether it has collected
  calls       \* history: locks taken and not given back

heap   == <<pool, carved, freeList, type, marked, final, ref, gcBytes>>
lockVars == <<locked, locksHash, calls>>
rootVars == <<rooted, rootVal>>
gcVars == <<gcPoke, gcLevel, pc, unswept>>
vars   == <<heap, lockVars, rootVars, newborn, lrs, gcVars, request>>

NoRequest == [type |-> "none", tried |-> FALSE]

-----------------------------------------------------------------------------
(* Things.                                                                 *)

\* The places that have been handed out.
Carved == {t \in Things : t[1] \in ToSet(pool) /\ t[2] <= carved[t[1]]}

Allocated == Carved \ final

\* In the order of the pool; and of the sweep, arena by arena.
EarlierArena(a, b) == \E i, j \in DOMAIN pool : i < j /\ pool[i] = a /\ pool[j] = b
Earlier(t, u) == EarlierArena(t[1], u[1]) \/ (t[1] = u[1] /\ t[2] < u[2])

\* What is reachable from S by way of the slots r.
ReachBy(r, S) ==
  LET closed == {C \in SUBSET Things : /\ S \ {Null} \subseteq C
                                       /\ \A t \in C : r[t] \in C \cup {Null}}
  IN  {t \in Things : \A C \in closed : t \in C}

Reach(S) == ReachBy(ref, S)

-----------------------------------------------------------------------------
(* Local roots.  lrs.roots holds the roots of all scopes; the entry where  *)
(* a scope starts saves the mark of the scope around it.                   *)

NULL_MARK == -1
NoLRS     == [open |-> FALSE, roots |-> << >>, scopeMark |-> NULL_MARK, chunks |-> 0]
Root(t)   == [thing |-> t, mark |-> 0]
Mark(m)   == [thing |-> Null, mark |-> m]

NeedsChunk(l) == Len(l.roots) # 0 /\ Len(l.roots) % ChunkSize = 0

PushLocalRoot(l, v) ==
  [l EXCEPT !.roots = Append(@, v), !.chunks = IF NeedsChunk(l) THEN @ + 1 ELSE @]

\* Variant: the chunk is kept when its last root is popped.
PopLocalRootKeeps(l) == [l EXCEPT !.roots = Front(@)]

PopLocalRoot(l) ==
  [l EXCEPT !.roots = Front(@),
            !.chunks = IF (Len(l.roots) - 1) % ChunkSize = 0 THEN @ - 1 ELSE @]

\* js_EnterLocalRootScope.
EnterScope(l) ==
  LET opened == IF l.open THEN l ELSE [NoLRS EXCEPT !.open = TRUE, !.chunks = 1]
  IN  [PushLocalRoot(opened, Mark(l.scopeMark)) EXCEPT !.scopeMark = Len(l.roots)]

\* js_LeaveLocalRootScope.  The stack goes with its last scope.
LeaveScope(l) ==
  LET mark   == l.scopeMark
      popped == (Len(l.roots) - 1) \div ChunkSize - mark \div ChunkSize
  IN  IF mark = 0 THEN NoLRS
      ELSE [l EXCEPT !.roots = SubSeq(@, 1, mark),
                     !.scopeMark = l.roots[mark + 1].mark,
                     !.chunks = @ - popped - (IF mark % ChunkSize = 0 THEN 1 ELSE 0)]

\* js_ForgetLocalRoot: v is in the innermost scope; the last of its entries there
\* gets the value on top, which is popped.
ForgetRoot(l, v) ==
  LET top == Len(l.roots)
      i   == CHOOSE k \in l.scopeMark + 2..top :
               l.roots[k].thing = v /\ \A j \in k + 1..top : l.roots[j].thing # v
  IN  PopLocalRoot([l EXCEPT !.roots[i] = l.roots[top]])

\* The entries that hold marks, as js_MarkLocalRoots finds them: one leads to the next.
Marks(l) ==
  LET places == 0..Len(l.roots) - 1
      closed == {C \in SUBSET places : /\ l.scopeMark \in C \cup {NULL_MARK}
                                       /\ \A m \in C : l.roots[m + 1].mark \in C \cup {NULL_MARK}}
  IN  {m \in places : \A C \in closed : m \in C}

LocalRoots(l) ==
  LET marks == Marks(l) IN {l.roots[i].thing : i \in {k \in DOMAIN l.roots : k - 1 \notin marks}}

-----------------------------------------------------------------------------
Roots ==
  {rootVal[r] : r \in rooted}
    \cup {t \in Things : locksHash[t] > 0}
    \cup {newborn[y] : y \in GCTypes}
    \cup LocalRoots(lrs)

\* What the collector must keep: a thing locked once that is not deep has no
\* entry, and is not marked.
Live == Reach(Roots) \cup locked

Init ==
  /\ pool = << >>
  /\ carved = [a \in Arenas |-> 0]
  /\ freeList = << >>
  /\ type = [t \in Things |-> "object"]
  /\ marked = {} /\ locked = {} /\ final = {}
  /\ ref = [t \in Things |-> Null]
  /\ gcBytes = 0
  /\ locksHash = [t \in Things |-> 0]
  /\ rooted = {}
  /\ rootVal = [r \in RootNames |-> Null]
  /\ newborn = [y \in GCTypes |-> Null]
  /\ lrs = NoLRS
  /\ gcPoke = FALSE /\ gcLevel = 0
  /\ pc = "run" /\ unswept = {}
  /\ request = NoRequest
  /\ calls = [t \in Things |-> 0]

-----------------------------------------------------------------------------
(* The rest of the program.  It has what is reachable.                     *)

Running    == pc = "run"
Finalizing == pc = "finalize"
Held       == Reach(Roots)

Holds      == Cardinality(rooted) + Len(lrs.roots) - Cardinality(Marks(lrs)) + FoldFunctionOnSet(+, 0, calls, locked)

\* A property is set, which may drop what it held: GC_POKE.
SetSlot(o, v) ==
  /\ Running
  /\ type[o] = "object"
  /\ ref' = [ref EXCEPT ![o] = v]
  /\ gcPoke' = TRUE
  /\ UNCHANGED <<pool, carved, freeList, type, marked, final, gcBytes, lockVars, rootVars, newborn, lrs, gcLevel, pc, unswept, request>>

AddRoot(r, v) ==
  /\ Running /\ r \notin rooted /\ Holds < MaxHeld
  /\ rooted' = rooted \cup {r}
  /\ rootVal' = [rootVal EXCEPT ![r] = v]
  /\ UNCHANGED <<heap, lockVars, newborn, lrs, gcVars, request>>

RemoveRoot(r) ==
  /\ Running \/ Finalizing
  /\ r \in rooted
  /\ rooted' = rooted \ {r}
  /\ rootVal' = [rootVal EXCEPT ![r] = Null]
  /\ gcPoke' = TRUE
  /\ UNCHANGED <<heap, lockVars, newborn, lrs, gcLevel, pc, unswept, request>>

Deep(t) == type[t] = "object"

\* Variant: a shallow thing's first entry does not count the lock before it.
FirstCountOne(t) == 1

FirstCount(t) == IF Deep(t) THEN 1 ELSE 2

LockGCThing(t) ==
  /\ Running /\ t \in Held /\ Holds < MaxHeld
  /\ locksHash' = IF t \in locked \/ Deep(t)
                  THEN [locksHash EXCEPT ![t] = IF @ = 0 THEN FirstCount(t) ELSE @ + 1]
                  ELSE locksHash
  /\ locked' = locked \cup {t}
  /\ calls' = [calls EXCEPT ![t] = @ + 1]
  /\ UNCHANGED <<heap, rootVars, newborn, lrs, gcVars, request>>

\* The poke is for a thing that is not locked any more.
UnlockGCThing(t) ==
  /\ Running \/ Finalizing
  /\ calls[t] > 0
  /\ calls' = [calls EXCEPT ![t] = @ - 1]
  /\ IF locksHash[t] > 1
     THEN /\ locksHash' = [locksHash EXCEPT ![t] = @ - 1]
          /\ UNCHANGED <<locked, gcPoke>>
     ELSE /\ locksHash' = [locksHash EXCEPT ![t] = 0]
          /\ locked' = locked \ {t}
          /\ gcPoke' = TRUE
  /\ UNCHANGED <<heap, rootVars, newborn, lrs, gcLevel, pc, unswept, request>>

LocalRootOp(l) ==
  /\ Running
  /\ lrs' = l
  /\ UNCHANGED <<heap, lockVars, rootVars, newborn, gcVars, request>>

\* Without a chunk the stack is left as it is.
EnterLocalRootScope ==
  /\ Cardinality(Marks(lrs)) < MaxScopes
  /\ LocalRootOp(EnterScope(lrs))

LeaveLocalRootScope == lrs.open /\ LocalRootOp(LeaveScope(lrs))

ForgetLocalRoot(v) ==
  /\ lrs.open
  /\ \E i \in lrs.scopeMark + 2..Len(lrs.roots) : lrs.roots[i].thing = v
  /\ LocalRootOp(ForgetRoot(lrs, v))

-----------------------------------------------------------------------------
(* js_NewGCThing.  The second conjunct of its first step is a bound.        *)

NewGCThing(y) ==
  /\ Running
  /\ gcBytes <= MaxThings /\ (lrs.open => Holds < MaxHeld)
  /\ request' = [type |-> y, tried |-> FALSE]
  /\ pc' = "alloc"
  /\ UNCHANGED <<heap, lockVars, rootVars, newborn, lrs, gcPoke, gcLevel, unswept>>

Allocating == pc = "alloc"

MayGrow == freeList = << >> /\ gcBytes < MaxThings

\* pool->current is the last arena, or none.
Room == pool # << >> /\ carved[Last(pool)] < ArenaSize

Answered == request' = NoRequest /\ pc' = "run"

\* The thing is flagged, counted and cleared, and somebody holds it.
Born(t) ==
  /\ type' = [type EXCEPT ![t] = request.type]
  /\ final' = final \ {t}
  /\ gcBytes' = gcBytes + 1
  /\ ref' = [ref EXCEPT ![t] = Null]
  /\ IF lrs.open
     THEN lrs' = PushLocalRoot(lrs, Root(t)) /\ UNCHANGED newborn
     ELSE newborn' = [newborn EXCEPT ![request.type] = t] /\ UNCHANGED lrs
  /\ Answered

\* No chunk for the local root: the thing is free again, though on no free list.
Stillborn(t) ==
  /\ lrs.open /\ NeedsChunk(lrs)
  /\ final' = final \cup {t}
  /\ Answered
  /\ UNCHANGED <<type, gcBytes, ref, newborn, lrs>>

Delivered(t) ==
  /\ Born(t) \/ Stillborn(t)
  /\ UNCHANGED <<marked, lockVars, rootVars, gcPoke, gcLevel, unswept>>

Recycle ==
  /\ Allocating /\ freeList # << >>
  /\ freeList' = Tail(freeList)
  /\ UNCHANGED <<pool, carved>>
  /\ Delivered(Head(freeList))

Carve ==
  /\ Allocating /\ MayGrow /\ Room
  /\ carved' = [carved EXCEPT ![Last(pool)] = @ + 1]
  /\ UNCHANGED <<pool, freeList>>
  /\ Delivered(<<Last(pool), carved[Last(pool)] + 1>>)

NewArena(a) ==
  /\ Allocating /\ MayGrow /\ ~Room
  /\ a \notin ToSet(pool)
  /\ pool' = Append(pool, a)
  /\ carved' = [carved EXCEPT ![a] = 1]
  /\ UNCHANGED freeList
  /\ Delivered(<<a, 1>>)

\* At the first attempt too much of malloc()'s memory may be in use as well.
LastDitch ==
  /\ Allocating /\ freeList = << >> /\ ~request.tried
  /\ request' = [request EXCEPT !.tried = TRUE]
  /\ gcLevel' = 1 /\ gcPoke' = FALSE
  /\ pc' = "mark"
  /\ UNCHANGED <<heap, lockVars, rootVars, newborn, lrs, unswept>>

\* Variant: without a last-ditch collection.
OutOfMemoryAtOnce ==
  /\ Allocating /\ freeList = << >>
  /\ ~MayGrow \/ ~Room
  /\ Answered
  /\ UNCHANGED <<heap, lockVars, rootVars, newborn, lrs, gcPoke, gcLevel, unswept>>

\* The limit is reached, or malloc() has no arena.
OutOfMemory ==
  /\ Allocating /\ freeList = << >> /\ request.tried
  /\ ~MayGrow \/ ~Room
  /\ Answered
  /\ UNCHANGED <<heap, lockVars, rootVars, newborn, lrs, gcPoke, gcLevel, unswept>>

-----------------------------------------------------------------------------
(* js_GC.                                                                  *)

\* JS_GC, which forces it.
ForceGC ==
  /\ Running
  /\ newborn' = [y \in GCTypes |-> Null]
  /\ gcLevel' = 1 /\ gcPoke' = FALSE
  /\ pc' = "mark"
  /\ UNCHANGED <<heap, lockVars, rootVars, lrs, unswept, request>>

\* From a finalizer it has the collection that is under way start again.
NestedGC ==
  /\ Finalizing /\ gcLevel = 1
  /\ newborn' = [y \in GCTypes |-> Null]
  /\ gcLevel' = 2 /\ gcPoke' = FALSE
  /\ UNCHANGED <<heap, lockVars, rootVars, lrs, pc, unswept, request>>

MarkPhase ==
  /\ pc = "mark"
  /\ marked' = Reach(Roots)
  /\ unswept' = Carved
  /\ pc' = "sweep"
  /\ UNCHANGED <<pool, carved, freeList, type, final, ref, gcBytes, lockVars, rootVars, newborn, lrs, gcPoke, gcLevel, request>>

\* Variant: a locked thing that is not marked is taken for garbage.
SparedFinal(t) == t \in final

Spared(t) == t \in locked \cup final

Garbage == {t \in unswept : t \notin marked /\ ~Spared(t)}

\* The sweep of some things: their flags are reset, or they are garbage and are flagged
\* and cleared.  The type of a thing that is free is gone.
SweepOf(past) ==
  LET garbage == Garbage \cap past IN
  /\ unswept' = unswept \ past
  /\ marked' = marked \ past
  /\ final' = final \cup garbage
  /\ gcBytes' = gcBytes - Cardinality(garbage)
  /\ type' = [t \in Things |-> IF t \in garbage THEN "object" ELSE type[t]]
  /\ ref' = [t \in Things |-> IF t \in garbage THEN Null ELSE ref[t]]
  /\ UNCHANGED <<pool, carved, freeList, lockVars, rootVars, newborn, lrs, gcPoke, gcLevel, request>>

Doomed == {t \in Garbage : type[t] = "object"}

\* Up to the next finalizer, or to the end.
Sweep ==
  /\ pc = "sweep"
  /\ \/ \E t \in Doomed :
          /\ \A u \in Doomed : u = t \/ Earlier(t, u)
          /\ SweepOf({u \in unswept : u = t \/ Earlier(u, t)})
          /\ pc' = "finalize"
     \/ /\ Doomed = {}
        /\ SweepOf(unswept)
        /\ pc' = "swept"

FinalizerReturns ==
  /\ Finalizing
  /\ pc' = "sweep"
  /\ UNCHANGED <<heap, lockVars, rootVars, newborn, lrs, gcPoke, gcLevel, unswept, request>>

AllClear(a) == \A n \in 1..carved[a] : <<a, n>> \in final

FreeThings == {t \in Carved \cap final : ~AllClear(t[1])}

\* The sequences of the elements of S, each once, in the order that less gives.
Listings(S, less) ==
  {s \in [1..Cardinality(S) -> S] :
     /\ ToSet(s) = S
     /\ \A i, j \in DOMAIN s : i < j => <<s[i], s[j]>> \in less}

\* The free list is made anew, and an arena without a thing in use is destroyed.
FreePhase ==
  /\ pc = "swept"
  /\ freeList' \in Listings(FreeThings, {p \in Things \X Things : Earlier(p[1], p[2])})
  /\ pool' \in Listings({a \in ToSet(pool) : ~AllClear(a)},
                        {p \in Arenas \X Arenas : EarlierArena(p[1], p[2])})
  /\ carved' = [a \in Arenas |-> IF AllClear(a) THEN 0 ELSE carved[a]]
  /\ final' = {t \in final : ~AllClear(t[1])}
  /\ pc' = "free"
  /\ UNCHANGED <<type, marked, ref, gcBytes, lockVars, rootVars, newborn, lrs, gcPoke, gcLevel, unswept, request>>

\* Variant: a poke during the sweep is left for the next collection.
MustRestartLevel == gcLevel > 1

MustRestart == gcLevel > 1 \/ gcPoke

Restart ==
  /\ pc = "free" /\ MustRestart
  /\ gcLevel' = 1 /\ gcPoke' = FALSE
  /\ pc' = "mark"
  /\ UNCHANGED <<heap, lockVars, rootVars, newborn, lrs, unswept, request>>

EndGC ==
  /\ pc = "free" /\ ~MustRestart
  /\ gcLevel' = 0
  /\ pc' = IF request = NoRequest THEN "run" ELSE "alloc"
  /\ UNCHANGED <<heap, lockVars, rootVars, newborn, lrs, gcPoke, unswept, request>>

-----------------------------------------------------------------------------
Collect ==
  \/ MarkPhase
  \/ Sweep \/ FinalizerReturns
  \/ FreePhase \/ Restart \/ EndGC

Next ==
  \/ \E o \in Held : \E v \in (Held \ {o}) \cup {Null} : SetSlot(o, v)
  \/ \E r \in RootNames : RemoveRoot(r) \/ \E v \in Held \cup {Null} : AddRoot(r, v)
  \/ \E t \in Things : LockGCThing(t) \/ UnlockGCThing(t) \/ ForgetLocalRoot(t)
  \/ EnterLocalRootScope \/ LeaveLocalRootScope
  \/ \E y \in GCTypes : NewGCThing(y)
  \/ Recycle \/ Carve \/ \E a \in Arenas : NewArena(a)
  \/ LastDitch \/ OutOfMemory
  \/ ForceGC \/ NestedGC
  \/ Collect

Spec == Init /\ [][Next]_vars

-----------------------------------------------------------------------------
(* Properties.                                                             *)

RootEntry == [thing : Things \cup {Null}, mark : Int]

LocalRootStack ==
  [open : BOOLEAN, roots : Seq(RootEntry), scopeMark : Int, chunks : Int]

TypeOK ==
  /\ pool \in Seq(Arenas) /\ IsInjective(pool)
  /\ carved \in [Arenas -> 0..ArenaSize]
  /\ freeList \in Seq(Things)
  /\ type \in [Things -> GCTypes]
  /\ marked \subseteq Things /\ locked \subseteq Things /\ final \subseteq Things
  /\ ref \in [Things -> Things \cup {Null}]
  /\ gcBytes \in 0..Cardinality(Things)
  /\ locksHash \in [Things -> Nat] /\ calls \in [Things -> Nat]
  /\ rooted \subseteq RootNames /\ rootVal \in [RootNames -> Things \cup {Null}]
  /\ newborn \in [GCTypes -> Things \cup {Null}]
  /\ lrs \in LocalRootStack
  /\ gcPoke \in BOOLEAN /\ gcLevel \in 0..2
  /\ pc \in {"run", "alloc", "mark", "sweep", "finalize", "swept", "free"}
  /\ unswept \subseteq Carved
  /\ request \in [type : GCTypes \cup {"none"}, tried : BOOLEAN]

\* Nothing that a root, a lock, a newborn or a local root leads to is ever free,
\* not even while finalizers run.
LiveIsAllocated == Live \subseteq Allocated

\* The free list holds free places of arenas that exist, each once, and what is
\* not final is counted.
FreeListSound ==
  /\ IsInjective(freeList)
  /\ ToSet(freeList) \subseteq final \cap Carved
  /\ gcBytes = Cardinality(Allocated)

\* js_NewGCThing and js_GC keep the arenas, the free list and the count in step with
\* each other and with what the program can still reach.
HeapSound == TypeOK /\ LiveIsAllocated /\ FreeListSound

\* A thing is locked as long as there are more calls of lock than of unlock.
LocksCounted == \A t \in Things : t \in locked <=> calls[t] > 0

\* The chunks are those the roots need: js_MarkLocalRoots' walk ends with the last
\* of them, and with the outermost scope.
LocalRootsSound ==
  lrs.open =>
    /\ lrs.chunks = (Len(lrs.roots) - 1) \div ChunkSize + 1
    /\ 0 \in Marks(lrs)
    /\ Null \notin LocalRoots(lrs)

\* A collection that has ended has left nothing that nobody can reach, whatever
\* its finalizers have let go of.
CollectsEverything ==
  [][gcLevel > 0 /\ gcLevel' = 0 => Allocated' = Live']_vars

\* Nobody is told that memory is out while there is garbage.
FailsOnlyWhenFull ==
  [][OutOfMemory => Allocated = Live]_vars
=============================================================================
