------------------------------ MODULE JSScope ------------------------------
(***************************************************************************)
(* Scopes and the property tree (js/src/jsscope.c).  A scope is the map of *)
(* an object's properties.  All scopes share one forest: a scope's         *)
(* properties are the nodes from its lastProp up to a root, in the reverse *)
(* order of their creation, and a property that is added descends from the *)
(* last one, where a like child may be already, made for another scope.    *)
(*                                                                         *)
(* A property that is deleted from the middle stays on the line.  From     *)
(* then on the scope's table says what it has, until the next property is  *)
(* added: then what is left is copied to a line of its own.  The collector *)
(* frees the nodes that no scope has, and gives their children to their    *)
(* parents.                                                                *)
(*                                                                         *)
(* The search in a table is DHash's subject; here it is a function of ids. *)
(* Left out: aliases, duplicate formal parameters, watchpoints and sealed  *)
(* scopes.  Memory may run out where a fault says so, except for a root,   *)
(* half way through a fork, and for a chunk during a collection: the code  *)
(* is not safe there.                                                      *)
(***************************************************************************)
EXTENDS Integers, Sequences, SequencesExt, FiniteSets, FiniteSetsExt

CONSTANTS
  Nodes,           \* the nodes, as numbers; the bound on the tree
  Null,
  Scopes, Ids,
  Kinds,           \* for each scope and id, the getters, setters and attributes it may get
  Shared,          \* the kinds with JSPROP_SHARED, whose properties have no slot
  KidsPerChunk,    \* MAX_KIDS_PER_CHUNK
  HashThreshold,   \* SCOPE_HASH_THRESHOLD
  MaxSlots,        \* slots there is memory for
  MaxGarbage       \* nodes no scope has, above which they are collected first: a bound

ASSUME ScopeAssumption ==
  /\ Nodes \subseteq Nat /\ Null \notin Nodes
  /\ KidsPerChunk \in Nat \ {0, 1} /\ HashThreshold \in Nat
  /\ MaxSlots \in Nat /\ MaxGarbage \in Nat

VARIABLES
  tree,    \* the nodes and rt->propertyTreeHash, see Tree
  scope,   \* the scopes, see Scope
  props    \* history: what kind of property each id is to the owner of a scope

vars == <<tree, scope, props>>

NoSlot  == -1  \* SPROP_INVALID_SLOT
NoTable == << >>
None    == "none"
Label   == [id : Ids, kind : UNION {Kinds[s][id] : s \in Scopes, id \in Ids},
            slot : 0..MaxSlots - 1 \cup {NoSlot}]
NoLabel == [id |-> None, kind |-> None, slot |-> NoSlot]  \* on the free list
Faults  == {"no", "table", "vector", "node", "chunk"}  \* what there is no memory for

(***************************************************************************)
(* kids are in the order of the chunks, which have no gaps; a chunky node  *)
(* has a list of chunks, another one child at most.  roots are those nodes *)
(* without a parent that are in the hash table.                            *)
(***************************************************************************)
Tree == [label : [Nodes -> Label \cup {NoLabel}], parent : [Nodes -> Nodes \cup {Null}],
         kids : [Nodes -> Seq(Nodes)], chunky : [Nodes -> BOOLEAN], roots : SUBSET Nodes]

Scope == [lastProp : Nodes \cup {Null}, table : [Ids -> Nodes \cup {Null}] \cup {NoTable},
          middle : BOOLEAN, entryCount : Nat, freeslot : 0..MaxSlots]

\* InitMinimalScope, and js_Clear for the slots.
EmptyScope == [lastProp |-> Null, table |-> NoTable, middle |-> FALSE,
               entryCount |-> 0, freeslot |-> 0]

Init ==
  /\ tree = [label |-> [n \in Nodes |-> NoLabel], parent |-> [n \in Nodes |-> Null],
             kids |-> [n \in Nodes |-> << >>], chunky |-> [n \in Nodes |-> FALSE], roots |-> {}]
  /\ scope = [s \in Scopes |-> EmptyScope]
  /\ props = [s \in Scopes |-> [id \in Ids |-> None]]

Used(T) == {n \in Nodes : T.label[n] # NoLabel}

-----------------------------------------------------------------------------
(* The tree.                                                               *)

\* No more room in the chunks there are, or no chunk yet.
NeedsChunk(T, p) ==
  IF T.chunky[p] THEN Len(T.kids[p]) % KidsPerChunk = 0 ELSE Len(T.kids[p]) = 1

AppendKid(T, p, n) ==
  [T EXCEPT !.kids[p] = Append(@, n), !.parent[n] = p, !.chunky[p] = T.kids[p] # << >>]

\* Variant: a like node is left as it is.
InsertRootIfNew(T, n) ==
  IF \E r \in T.roots : T.label[r] = T.label[n] THEN T
  ELSE [T EXCEPT !.roots = @ \cup {n}, !.parent[n] = Null]

\* In the hash table only one of several like nodes can be.
InsertRoot(T, n) ==
  IF \E r \in T.roots : T.label[r] = T.label[n] THEN [T EXCEPT !.parent[n] = Null]
  ELSE [T EXCEPT !.roots = @ \cup {n}, !.parent[n] = Null]

\* The last child fills the gap.
RemovePropertyTreeChild(T, n) ==
  LET p    == T.parent[n]
      kids == T.kids[p]
      at   == {i \in DOMAIN kids : kids[i] = n}
      rest == Front([kids EXCEPT ![Min(at)] = Last(kids)])
  IN  IF p = Null THEN [T EXCEPT !.roots = @ \ {n}]
      ELSE IF at = {} THEN T
      ELSE [T EXCEPT !.kids[p] = rest, !.chunky[p] = @ /\ rest # << >>]

(***************************************************************************)
(* A child with that label, found or made.  One that cannot be inserted,   *)
(* for lack of a chunk, is left to the collector.  Which free node is      *)
(* taken matters only to the order of a later collection.                  *)
(***************************************************************************)
GetPropertyTreeChild(T, p, label, fault) ==
  LET siblings == IF p = Null THEN T.roots ELSE ToSet(T.kids[p])
      like     == {n \in siblings : T.label[n] = label}
      free     == Nodes \ Used(T)
      n        == Min(free)
      T1       == [T EXCEPT !.label[n] = label]
  IN  IF like # {}
      THEN [tree |-> T, node |-> IF p = Null THEN CHOOSE k \in like : TRUE
                                 ELSE SelectSeq(T.kids[p], LAMBDA k : k \in like)[1]]
      ELSE IF free = {} \/ (fault = "node" /\ p # Null) THEN [tree |-> T, node |-> Null]
      ELSE IF p = Null THEN [tree |-> [T1 EXCEPT !.roots = @ \cup {n}], node |-> n]
      ELSE IF NeedsChunk(T, p) /\ fault = "chunk" THEN [tree |-> T1, node |-> Null]
      ELSE [tree |-> AppendKid(T1, p, n), node |-> n]

-----------------------------------------------------------------------------
(* Scopes.                                                                 *)

\* From n up to its root.
Line(T, n) ==
  LET L[m \in Nodes \cup {Null}] == IF m = Null THEN << >> ELSE <<m>> \o L[T.parent[m]]
  IN  L[n]

\* js_SearchScope: SCOPE_GET_PROPERTY.
Get(T, sc, id) ==
  LET L[m \in Nodes \cup {Null}] ==
        IF m = Null \/ T.label[m].id = id THEN m ELSE L[T.parent[m]]
  IN  IF sc.table # NoTable THEN sc.table[id] ELSE L[sc.lastProp]

\* SCOPE_HAS_PROPERTY
Has(T, sc, n) == Get(T, sc, T.label[n].id) = n

CreateScopeTable(T, sc) == [sc EXCEPT !.table = [id \in Ids |-> Get(T, sc, id)]]

Store(sc, id, n) == IF sc.table = NoTable THEN sc ELSE [sc EXCEPT !.table[id] = n]

\* Variant: what has been deleted below the last property is not skipped.
RemoveLastOnly(T, sc) == [sc EXCEPT !.lastProp = T.parent[@]]

\* Of what is below the last property, what has been deleted goes with it.
RemoveLastProp(T, sc) ==
  LET below == Tail(Line(T, sc.lastProp))
      left  == IF sc.middle THEN SelectSeq(below, LAMBDA n : Has(T, sc, n)) ELSE below
  IN  [sc EXCEPT !.lastProp = IF left = << >> THEN Null ELSE left[1]]

(***************************************************************************)
(* Unbinds id from n, and takes n off the line: at once if it is the last, *)
(* or lazily, for which there must be a table.                             *)
(***************************************************************************)
Unbind(T, sc, id, n) ==
  LET off == IF n = sc.lastProp THEN RemoveLastProp(T, sc)
             ELSE [(IF sc.table = NoTable THEN CreateScopeTable(T, sc) ELSE sc)
                   EXCEPT !.middle = TRUE]
  IN  [Store(off, id, Null) EXCEPT !.entryCount = @ - 1]

\* There is no memory for the table that unbinding n needs.
NoTableFor(sc, n, fault) == sc.table = NoTable /\ n # sc.lastProp /\ fault = "table"

\* Variant: the vector is filled from its start.
BoundFromLast(T, sc) ==
  SelectSeq(Line(T, sc.lastProp), LAMBDA n : Get(T, sc, T.label[n].id) # Null)

\* What is bound, in the order of its creation.
Bound(T, sc) ==
  Reverse(SelectSeq(Line(T, sc.lastProp), LAMBDA n : Get(T, sc, T.label[n].id) # Null))

(***************************************************************************)
(* The fork: what is left on the line is made a line without gaps.  Nodes  *)
(* are taken over until the first gap, and copied from there.  A copy goes *)
(* into the table at once.                                                 *)
(***************************************************************************)
Fork(T, sc, fault) ==
  LET Step(f, n) ==
        LET g == GetPropertyTreeChild(f.tree, f.last, f.tree.label[n], fault)
        IN  IF f.failed THEN f
            ELSE IF f.tree.parent[n] = f.last THEN [f EXCEPT !.last = n]
            ELSE IF g.node = Null THEN [f EXCEPT !.tree = g.tree, !.failed = TRUE]
            ELSE [f EXCEPT !.tree = g.tree, !.last = g.node,
                           !.table[f.tree.label[n].id] = g.node]
  IN  FoldLeft(Step, [tree |-> T, table |-> sc.table, last |-> Null, failed |-> FALSE],
               Bound(T, sc))

\* Puts back what was to be overwritten, at the end if it has left the line.
FailOverwrite(T, sc, old, fault) ==
  LET again    == GetPropertyTreeChild(T, sc.lastProp, T.label[old], fault)
      Back(n)  == [Store(sc, T.label[old].id, n) EXCEPT !.entryCount = @ + 1]
  IN  IF old = Null THEN [tree |-> T, scope |-> sc]
      ELSE IF old \in ToSet(Line(T, sc.lastProp)) THEN [tree |-> T, scope |-> Back(old)]
      ELSE IF T.parent[old] = sc.lastProp
      THEN [tree |-> T, scope |-> [Back(old) EXCEPT !.lastProp = old]]
      ELSE IF again.node = Null THEN [tree |-> again.tree, scope |-> sc]
      ELSE [tree |-> again.tree, scope |-> [Back(again.node) EXCEPT !.lastProp = again.node]]

-----------------------------------------------------------------------------
(* The operations.                                                         *)

Log(s, id, kind) == props' = [props EXCEPT ![s][id] = kind]

\* What js_Mark marks of a scope: what it has on its line.
Marks(T, sc) == {n \in ToSet(Line(T, sc.lastProp)) : sc.middle => Has(T, sc, n)}

Garbage == Used(tree) \ UNION {Marks(tree, scope[s]) : s \in Scopes}

\* There is one node left, so that no operation has stopped at the bound.
Within == Used(tree') # Nodes

\* A table is made when there are enough properties, if there is memory.
Settle(T, sc, fault) ==
  IF sc.table = NoTable /\ sc.entryCount >= HashThreshold /\ fault # "table"
  THEN CreateScopeTable(T, sc) ELSE sc

\* js_AllocSlot, unless the property has a slot already or is to have none.
TakeSlot(sc, kind, slot) ==
  IF slot # NoSlot \/ kind \in Shared THEN [ok |-> TRUE, scope |-> sc, slot |-> slot]
  ELSE [ok |-> sc.freeslot < MaxSlots, slot |-> sc.freeslot,
        scope |-> [sc EXCEPT !.freeslot = Min({@ + 1, MaxSlots})]]

(***************************************************************************)
(* js_AddScopeProperty: id is a property of that kind from now on.  A      *)
(* property id that there is already is overwritten, and its slot kept; it *)
(* is put back if there is no memory for the new one, and may be lost if   *)
(* there is none for that, as the second fault says.                       *)
(***************************************************************************)
Add(s, id, kind, fault, again) ==
  LET sc    == scope[s]
      old   == Get(tree, sc, id)
      slot0 == IF old = Null \/ kind \in Shared THEN NoSlot ELSE tree.label[old].slot
      off   == IF old = Null THEN sc ELSE Unbind(tree, sc, id, old)
      f     == Fork(tree, off, fault)
      dense == IF off.middle
               THEN [off EXCEPT !.table = f.table, !.lastProp = f.last, !.middle = FALSE]
               ELSE off
      T     == IF off.middle THEN f.tree ELSE tree
      taken == TakeSlot(dense, kind, slot0)
      label == [id |-> id, kind |-> kind, slot |-> taken.slot]
      g     == GetPropertyTreeChild(T, dense.lastProp, label, fault)
      added == [Store(taken.scope, id, g.node) EXCEPT !.entryCount = @ + 1, !.lastProp = g.node]
      Fails(T1, sc1) ==
        LET o == FailOverwrite(T1, sc1, old, again)
        IN  /\ tree' = o.tree /\ scope' = [scope EXCEPT ![s] = o.scope]
            /\ IF o.scope.entryCount = sc.entryCount THEN UNCHANGED props ELSE Log(s, id, None)
  IN  /\ old # Null => tree.label[old].kind # kind /\ ~NoTableFor(sc, old, fault)
      /\ IF off.middle /\ off.entryCount > 0 /\ fault = "vector" THEN Fails(tree, off)
         ELSE IF off.middle /\ f.failed THEN f.table = off.table /\ Fails(f.tree, off)
         ELSE IF ~taken.ok THEN Fails(T, dense)
         ELSE IF g.node = Null THEN Fails(g.tree, taken.scope)
         ELSE /\ tree' = g.tree
              /\ scope' = [scope EXCEPT ![s] = Settle(g.tree, added, fault)]
              /\ Log(s, id, kind)
      /\ Within

(***************************************************************************)
(* js_ChangeScopePropertyAttrs, of the last property: its place is taken   *)
(* by a sibling.  Of another property it is Add.                           *)
(***************************************************************************)
ChangeLastAttrs(s, id, kind, fault) ==
  LET sc    == scope[s]
      old   == sc.lastProp
      label == tree.label[old]
      taken == TakeSlot(sc, kind, label.slot)
      g     == GetPropertyTreeChild(tree, tree.parent[old],
                                    [label EXCEPT !.kind = kind, !.slot = taken.slot], fault)
  IN  /\ old # Null /\ label.id = id
      /\ kind # label.kind /\ (kind \in Shared => label.kind \in Shared)
      /\ taken.ok
      /\ tree' = g.tree
      /\ IF g.node = Null
         THEN scope' = [scope EXCEPT ![s] = taken.scope] /\ UNCHANGED props
         ELSE /\ scope' = [scope EXCEPT ![s] = [Store(taken.scope, label.id, g.node)
                                                EXCEPT !.lastProp = g.node]]
              /\ Log(s, label.id, kind)
      /\ Within

\* js_RemoveScopeProperty.  The slot is only given back if it is the last one.
RemoveProperty(s, id) ==
  LET sc == scope[s]
      n  == Get(tree, sc, id)
      FreeSlot(slot) == IF slot # NoSlot /\ slot + 1 = sc.freeslot THEN slot ELSE sc.freeslot
  IN  /\ n # Null
      /\ scope' = [scope EXCEPT ![s] = [Unbind(tree, sc, id, n)
                                        EXCEPT !.freeslot = FreeSlot(tree.label[n].slot)]]
      /\ Log(s, id, None)
      /\ UNCHANGED tree

\* js_Clear and js_ClearScope; for the tree, js_DestroyScope is the same.
Clear(s) ==
  /\ scope' = [scope EXCEPT ![s] = EmptyScope]
  /\ props' = [props EXCEPT ![s] = [id \in Ids |-> None]]
  /\ UNCHANGED tree

(***************************************************************************)
(* A node is freed.  Its kids become its parent's; as roots, only those    *)
(* there is room for are in the hash table.                                *)
(***************************************************************************)
FreeNode(T, n, room) ==
  LET p == T.parent[n]
      Give(U, kid) == IF p # Null THEN AppendKid(U, p, kid)
                      ELSE IF room THEN InsertRoot(U, kid) ELSE [U EXCEPT !.parent[kid] = Null]
      handed == FoldLeft(Give, [RemovePropertyTreeChild(T, n) EXCEPT !.kids[n] = << >>],
                         T.kids[n])
  IN  [handed EXCEPT !.label[n] = NoLabel, !.parent[n] = Null, !.chunky[n] = FALSE]

\* js_SweepScopeProperties, after js_Mark: in the order of the addresses.
Collect(room) ==
  /\ Garbage # {}
  /\ tree' = FoldLeft(LAMBDA T, n : FreeNode(T, n, room), tree, SetToSortSeq(Garbage, <))
  /\ UNCHANGED <<scope, props>>

Operate ==
  \/ \E s \in Scopes, id \in Ids, fault \in Faults :
       \E kind \in Kinds[s][id], again \in {"no", fault} : Add(s, id, kind, fault, again)
  \/ \E s \in Scopes, id \in Ids, fault \in Faults :
       \E kind \in Kinds[s][id] : ChangeLastAttrs(s, id, kind, fault)
  \/ \E s \in Scopes, id \in Ids : RemoveProperty(s, id)
  \/ \E s \in Scopes : Clear(s)

Next ==
  \/ Cardinality(Garbage) <= MaxGarbage /\ Operate
  \/ \E room \in BOOLEAN : Collect(room)

Spec == Init /\ [][Next]_vars

-----------------------------------------------------------------------------
(* Properties.                                                             *)

\* What a scope has, in the order in which it is enumerated.
Enumerated(T, sc) == Reverse(SelectSeq(Line(T, sc.lastProp), LAMBDA n : Has(T, sc, n)))

\* Each scope has what its owner has put there and not deleted, whatever other
\* scopes do to the tree they share and whatever is collected: it enumerates
\* and finds the same, each once, and each with a slot of its own.
ScopesSound ==
  \A s \in Scopes :
    LET sc  == scope[s]
        has == Enumerated(tree, sc)
        slots == {tree.label[n].slot : n \in {m \in ToSet(has) : tree.label[m].slot # NoSlot}}
    IN  /\ sc.lastProp # Null => Has(tree, sc, sc.lastProp)
        /\ \A id \in Ids :
             IF props[s][id] = None THEN Get(tree, sc, id) = Null
             ELSE /\ Get(tree, sc, id) \in ToSet(has)
                  /\ tree.label[Get(tree, sc, id)].id = id
                  /\ tree.label[Get(tree, sc, id)].kind = props[s][id]
        /\ Len(has) = sc.entryCount /\ IsInjective(has)
        /\ ~sc.middle => Len(has) = Len(Line(tree, sc.lastProp))
        /\ Cardinality(slots) = Cardinality({i \in DOMAIN has :
                                             tree.label[has[i]].kind \notin Shared})
        /\ \A slot \in slots : slot < sc.freeslot

\* Every node is its parent's child, and linked there once, whatever has been
\* freed and handed on between them; no line has two nodes of the same id; like
\* roots are not in the hash table twice; nothing refers to a freed node.
TreeSound ==
  /\ \A n \in Used(tree) :
       /\ tree.parent[n] # Null =>
            Cardinality({i \in DOMAIN tree.kids[tree.parent[n]] :
                         tree.kids[tree.parent[n]][i] = n}) = 1
       /\ \A k \in ToSet(tree.kids[n]) : k \in Used(tree) /\ tree.parent[k] = n
       /\ Len(tree.kids[n]) > 1 => tree.chunky[n]
       /\ LET line == Line(tree, n)
          IN  /\ tree.parent[Last(line)] = Null
              /\ IsInjective([i \in DOMAIN line |-> tree.label[line[i]].id])
  /\ \A r \in tree.roots : r \in Used(tree) /\ tree.parent[r] = Null
  /\ \A q, r \in tree.roots : tree.label[q] = tree.label[r] => q = r
  /\ \A s \in Scopes :
       Range(scope[s].table) \cup {scope[s].lastProp} \subseteq Used(tree) \cup {Null}

\* The properties a scope has, in order.
Labels(T, sc) == LET has == Enumerated(T, sc) IN [i \in DOMAIN has |-> T.label[has[i]]]

Without(labels, id) == SelectSeq(labels, LAMBDA l : l.id # id)

\* A step changes at most one property of at most one scope, unless it clears
\* it: all others keep their kind, their slot and their order, however the line
\* they are on is forked, and a collection changes none.
OthersKept ==
  [][LET before  == [s \in Scopes |-> Labels(tree, scope[s])]
         after   == [s \in Scopes |-> Labels(tree', scope'[s])]
         changed == {s \in Scopes : before[s] # after[s]}
     IN  \A s \in changed :
           /\ changed = {s} /\ Used(tree) \subseteq Used(tree')
           /\ \/ after[s] = << >>
              \/ \E id \in Ids : Without(after[s], id) = Without(before[s], id)]_vars
=============================================================================
