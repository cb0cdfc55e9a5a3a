---------------------------- MODULE GCHeapProofs -----------------------------
(***************************************************************************)
(* Safety of the collector's heap, for any finite number of arenas of any  *)
(* size, any roots, locks and local roots.                                 *)
(***************************************************************************)
EXTENDS GCHeap, FiniteSetTheorems, SequenceTheorems, NumbersAndLists, TLAPS

\* There are finitely many things.
LEMMA ThingsFacts ==
  /\ IsFiniteSet(Things)
  /\ \A t \in Things : t[1] \in Arenas /\ t[2] \in 1..ArenaSize /\ t = <<t[1], t[2]>>
  /\ \A a \in Arenas, n \in 1..ArenaSize : <<a, n>> \in Things
<1>1. IsFiniteSet(1..ArenaSize)
  BY SizesAssumption, FS_Interval
<1> QED
  BY <1>1, SizesAssumption, FS_Product DEF Things

-----------------------------------------------------------------------------
(* Reachability.                                                           *)

\* What is reachable is closed, and in every closed set that has what it is
\* reachable from.
LEMMA ReachFacts ==
  ASSUME NEW r \in [Things -> Things \cup {Null}], NEW S \in SUBSET (Things \cup {Null})
  PROVE  /\ ReachBy(r, S) \subseteq Things
         /\ S \subseteq ReachBy(r, S) \cup {Null}
         /\ \A t \in ReachBy(r, S) : r[t] \in ReachBy(r, S) \cup {Null}
         /\ \A C \in SUBSET Things :
              S \subseteq C \cup {Null} /\ (\A t \in C : r[t] \in C \cup {Null}) =>
                ReachBy(r, S) \subseteq C
<1>1. \A t \in Things : r[t] \in Things \cup {Null}
  OBVIOUS
<1> QED
  BY <1>1 DEF ReachBy

\* What becomes reachable: slots that were reachable and are as before, or refer to
\* what was, lead to nothing new.
LEMMA ReachShrinks ==
  ASSUME NEW r \in [Things -> Things \cup {Null}], NEW S \in SUBSET (Things \cup {Null}),
         NEW q \in [Things -> Things \cup {Null}], NEW T \in SUBSET (Things \cup {Null}),
         T \subseteq ReachBy(r, S) \cup {Null},
         \A t \in ReachBy(r, S) : q[t] \in ReachBy(r, S) \cup {Null}
  PROVE  ReachBy(q, T) \subseteq ReachBy(r, S)
BY ReachFacts

\* Slots that are not reachable do not matter.
LEMMA ReachSame ==
  ASSUME NEW r \in [Things -> Things \cup {Null}], NEW S \in SUBSET (Things \cup {Null}),
         NEW q \in [Things -> Things \cup {Null}],
         \A t \in ReachBy(r, S) : q[t] = r[t]
  PROVE  ReachBy(q, S) = ReachBy(r, S)
<1>1. ReachBy(q, S) \subseteq ReachBy(r, S)
  BY ReachFacts, ReachShrinks
<1>2. \A t \in ReachBy(q, S) : q[t] = r[t]
  BY <1>1
<1>3. ReachBy(r, S) \subseteq ReachBy(q, S)
  BY <1>2, ReachFacts, ReachShrinks
<1> QED
  BY <1>1, <1>3

-----------------------------------------------------------------------------
(* Local roots.                                                            *)

\* The place m of the stack holds a mark.
IsMark(l, m) == l.roots[m + 1].thing = Null

Places(l) == 0..Len(l.roots) - 1

\* From the innermost scope each mark is that of the scope around it.
Chain(l) ==
  /\ 0 \in Places(l) /\ IsMark(l, 0)
  /\ l.scopeMark \in Places(l) /\ IsMark(l, l.scopeMark)
  /\ \A m \in Places(l) : m > l.scopeMark => ~IsMark(l, m)
  /\ \A m \in Places(l) : IsMark(l, m) =>
       LET outer == l.roots[m + 1].mark IN
       IF m = 0 THEN outer = NULL_MARK
       ELSE /\ outer \in 0..m - 1 /\ IsMark(l, outer)
            /\ \A k \in outer + 1..m - 1 : ~IsMark(l, k)

WellFormed(l) ==
  /\ l \in LocalRootStack
  /\ IF l.open THEN Chain(l) /\ l.chunks = (Len(l.roots) - 1) \div ChunkSize + 1
     ELSE l = NoLRS

\* The things on the stack.
Entries(l) == {l.roots[i].thing : i \in DOMAIN l.roots} \ {Null}

\* The walk finds every mark, and nothing else.
LEMMA MarksFacts ==
  ASSUME NEW l, WellFormed(l), l.open
  PROVE  Marks(l) = {m \in Places(l) : IsMark(l, m)}
<1> DEFINE all == {m \in Places(l) : IsMark(l, m)}
<1>1. l.scopeMark \in all /\ \A m \in all : l.roots[m + 1].mark \in all \cup {NULL_MARK}
  BY DEF WellFormed, Chain, Places
<1>2. Marks(l) \subseteq all
  BY <1>1 DEF Marks, Places
<1>3. ASSUME NEW C \in SUBSET Places(l), l.scopeMark \in C \cup {NULL_MARK},
             \A m \in C : l.roots[m + 1].mark \in C \cup {NULL_MARK}
      PROVE  all \subseteq C
  <2> DEFINE left == all \ C
  <2> SUFFICES ASSUME left # {} PROVE FALSE
    OBVIOUS
  <2>1. Len(l.roots) \in Nat
    BY DEF WellFormed, LocalRootStack
  <2>2. PICK m \in left : \A n \in left : n <= m
    <3>1. left \subseteq 0..Len(l.roots) - 1 /\ Len(l.roots) - 1 \in Int
      BY <2>1 DEF Places
    <3> HIDE DEF left
    <3> QED
      BY <3>1, Greatest
  <2>3. m # l.scopeMark /\ m < l.scopeMark
    BY <1>3, <2>1 DEF WellFormed, Chain, Places, NULL_MARK
  <2> DEFINE above == {n \in all : n > m}
  <2>4. PICK n \in above : \A k \in above : n <= k
    <3>1. above \subseteq Nat /\ l.scopeMark \in above
      BY <1>1, <2>1, <2>3 DEF Places
    <3> HIDE DEF above
    <3> QED
      BY <3>1, Least
  <2>5. n \in C /\ n # 0
    BY <2>1, <2>2, <2>4 DEF Places
  <2>6. l.roots[n + 1].mark = m
    <3> DEFINE outer == l.roots[n + 1].mark
    <3>1. /\ outer \in 0..n - 1 /\ IsMark(l, outer)
          /\ \A k \in outer + 1..n - 1 : ~IsMark(l, k)
      BY <2>5, <2>4 DEF WellFormed, Chain
    <3>2. outer \in all
      BY <3>1, <2>1 DEF Places
    <3>3. ~(outer > m)
      BY <3>1, <3>2, <2>1, <2>4 DEF Places
    <3>4. ~(outer < m)
      BY <3>1, <2>1, <2>2, <2>4 DEF Places
    <3> QED
      BY <3>1, <3>3, <3>4, <2>1, <2>2 DEF Places
  <2>7. m # NULL_MARK
    BY <2>2, <2>1 DEF Places, NULL_MARK
  <2> QED
    BY <1>3, <2>2, <2>5, <2>6, <2>7
<1> QED
  BY <1>2, <1>3 DEF Marks, Places

\* So the local roots are the things on the stack.
LEMMA LocalRootsFacts ==
  ASSUME NEW l, WellFormed(l)
  PROVE  /\ LocalRoots(l) = Entries(l)
         /\ Entries(l) \subseteq Things
         /\ l.open => 0 \in Marks(l)
<1>1. l \in LocalRootStack
  BY DEF WellFormed
<1>2. Entries(l) \subseteq Things
  <2>1. l.roots \in Seq(RootEntry)
    BY <1>1 DEF LocalRootStack
  <2>2. \A i \in DOMAIN l.roots : l.roots[i] \in RootEntry
    BY <2>1
  <2>3. \A i \in DOMAIN l.roots : l.roots[i].thing \in Things \cup {Null}
    BY <2>2 DEF RootEntry
  <2> QED
    BY <2>3 DEF Entries
<1>3. CASE l.open
  <2>1. DOMAIN l.roots = 1..Len(l.roots) /\ Len(l.roots) \in Nat
    BY <1>1 DEF LocalRootStack
  <2>2. \A k \in DOMAIN l.roots : k - 1 \notin Marks(l) <=> l.roots[k].thing # Null
    <3> TAKE k \in DOMAIN l.roots
    <3>1. k - 1 \in Places(l) /\ (k - 1) + 1 = k
      BY <2>1 DEF Places
    <3> QED
      BY <3>1, <1>3, MarksFacts DEF IsMark
  <2>3. LocalRoots(l) = Entries(l)
    BY <2>2 DEF LocalRoots, Entries
  <2>4. 0 \in Marks(l)
    BY <1>3, MarksFacts DEF WellFormed, Chain
  <2> QED
    BY <1>2, <2>3, <2>4
<1>4. CASE ~l.open
  <2>1. l.roots = << >>
    BY <1>4 DEF WellFormed, NoLRS
  <2> QED
    BY <1>2, <1>4, <2>1 DEF LocalRoots, Entries
<1> QED
  BY <1>3, <1>4

\* One more entry takes a chunk when the entries before it fill theirs.
LEMMA OneMore ==
  ASSUME NEW n \in Nat \ {0}
  PROVE  /\ n \div ChunkSize = IF n % ChunkSize = 0 THEN (n - 1) \div ChunkSize + 1
                               ELSE (n - 1) \div ChunkSize
         /\ n \div ChunkSize \in Nat
BY SizesAssumption

\* What js_PushLocalRoot does to the stack's fields.
LEMMA PushShape ==
  ASSUME NEW l \in LocalRootStack, NEW v \in RootEntry
  PROVE  LET p == PushLocalRoot(l, v) IN
           /\ p \in LocalRootStack
           /\ p.open = l.open /\ p.scopeMark = l.scopeMark
           /\ p.roots = Append(l.roots, v)
           /\ p.chunks = IF NeedsChunk(l) THEN l.chunks + 1 ELSE l.chunks
           /\ Len(p.roots) = Len(l.roots) + 1
           /\ \A i \in 1..Len(l.roots) : p.roots[i] = l.roots[i]
           /\ p.roots[Len(l.roots) + 1] = v
<1> DEFINE p == PushLocalRoot(l, v)
<1>1. l.roots \in Seq(RootEntry) /\ l.chunks \in Int /\ l.chunks + 1 \in Int
  BY DEF LocalRootStack
<1>2. Append(l.roots, v) \in Seq(RootEntry)
  BY <1>1
<1>3. /\ p.open = l.open /\ p.scopeMark = l.scopeMark
      /\ p.roots = Append(l.roots, v)
      /\ p.chunks = IF NeedsChunk(l) THEN l.chunks + 1 ELSE l.chunks
  BY <1>1 DEF PushLocalRoot, LocalRootStack
<1>4. p \in LocalRootStack
  BY <1>1, <1>2 DEF PushLocalRoot, LocalRootStack
<1>5. /\ Len(p.roots) = Len(l.roots) + 1
      /\ \A i \in 1..Len(l.roots) : p.roots[i] = l.roots[i]
      /\ p.roots[Len(l.roots) + 1] = v
  BY <1>1, <1>3
<1> QED
  BY <1>3, <1>4, <1>5

\* A new root keeps the stack well formed and is its only new entry.
LEMMA PushFacts ==
  ASSUME NEW l, WellFormed(l), l.open, NEW t \in Things
  PROVE  /\ WellFormed(PushLocalRoot(l, Root(t)))
         /\ Entries(PushLocalRoot(l, Root(t))) = Entries(l) \cup {t}
<1> DEFINE p == PushLocalRoot(l, Root(t))
           n == Len(l.roots)
<1>1. /\ l \in LocalRootStack /\ Chain(l) /\ l.chunks = (n - 1) \div ChunkSize + 1
      /\ l.roots \in Seq(RootEntry) /\ l.scopeMark \in Int /\ l.chunks \in Int
      /\ n \in Nat \ {0}
  BY DEF WellFormed, LocalRootStack, Chain, Places
<1>2. Root(t) \in RootEntry /\ Root(t).thing = t /\ t # Null
  BY SizesAssumption DEF Root, RootEntry
<1>3. /\ p \in LocalRootStack
      /\ p.open /\ p.scopeMark = l.scopeMark
      /\ p.chunks = IF NeedsChunk(l) THEN l.chunks + 1 ELSE l.chunks
  BY <1>1, <1>2, PushShape
<1>4. /\ Len(p.roots) = n + 1
      /\ \A i \in 1..n : p.roots[i] = l.roots[i]
      /\ p.roots[n + 1] = Root(t)
  BY <1>1, <1>2, PushShape
<1> HIDE DEF p
<1>5. p.chunks = (Len(p.roots) - 1) \div ChunkSize + 1
  BY <1>1, <1>3, <1>4, OneMore DEF NeedsChunk
<1>6. /\ \A m \in Places(l) : IsMark(p, m) <=> IsMark(l, m)
      /\ \A m \in Places(l) : p.roots[m + 1] = l.roots[m + 1]
      /\ Places(p) = Places(l) \cup {n}
      /\ ~IsMark(p, n)
  BY <1>1, <1>2, <1>4 DEF Places, IsMark
<1>7. Chain(p)
  <2>1. ASSUME NEW m \in Places(p), IsMark(p, m)
        PROVE  LET outer == p.roots[m + 1].mark IN
               IF m = 0 THEN outer = NULL_MARK
               ELSE /\ outer \in 0..m - 1 /\ IsMark(p, outer)
                    /\ \A k \in outer + 1..m - 1 : ~IsMark(p, k)
    <3>1. m \in Places(l) /\ IsMark(l, m)
      BY <1>6, <2>1
    <3>2. \A k \in 0..m - 1 : k \in Places(l)
      BY <3>1, <1>1 DEF Places
    <3>3. p.roots[m + 1].mark = l.roots[m + 1].mark
      BY <3>1, <1>6
    <3>4. LET outer == l.roots[m + 1].mark IN
          IF m = 0 THEN outer = NULL_MARK
          ELSE /\ outer \in 0..m - 1 /\ IsMark(l, outer)
               /\ \A k \in outer + 1..m - 1 : ~IsMark(l, k)
      BY <3>1, <1>1 DEF Chain
    <3>5. m \in Nat
      BY <3>1 DEF Places
    <3> QED
      BY <3>2, <3>3, <3>4, <3>5, <1>6
  <2> QED
    BY <2>1, <1>1, <1>3, <1>6 DEF Chain
<1>8. Entries(p) = Entries(l) \cup {t}
  <2>1. DOMAIN p.roots = 1..n + 1 /\ DOMAIN l.roots = 1..n
    BY <1>1, <1>3, <1>4 DEF LocalRootStack
  <2>2. \A i \in 1..n : p.roots[i].thing = l.roots[i].thing
    BY <1>4
  <2>3. p.roots[n + 1].thing = t /\ n + 1 \in 1..n + 1
    BY <1>1, <1>2, <1>4
  <2>4. \A i \in 1..n + 1 : i \in 1..n \/ i = n + 1
    BY <1>1
  <2>5. 1..n \subseteq 1..n + 1
    BY <1>1
  <2> QED
    BY <2>1, <2>2, <2>3, <2>4, <2>5, <1>2 DEF Entries
<1> QED
  BY <1>3, <1>5, <1>7, <1>8 DEF WellFormed, p

\* A new scope starts with its mark and has no root yet.
LEMMA EnterFacts ==
  ASSUME NEW l, WellFormed(l)
  PROVE  /\ WellFormed(EnterScope(l))
         /\ Entries(EnterScope(l)) = Entries(l)
<1> DEFINE e == EnterScope(l)
           n == Len(l.roots)
           v == Mark(l.scopeMark)
<1>1. /\ l.roots \in Seq(RootEntry) /\ l.scopeMark \in Int /\ l.chunks \in Int /\ n \in Nat
      /\ l \in LocalRootStack
  BY DEF WellFormed, LocalRootStack
<1>2. /\ l.open => Chain(l) /\ n # 0 /\ l.chunks = (n - 1) \div ChunkSize + 1
      /\ ~l.open => l.roots = << >> /\ n = 0 /\ l.scopeMark = NULL_MARK
  BY <1>1 DEF WellFormed, Chain, Places, NoLRS
<1>3. v \in RootEntry /\ v.thing = Null /\ v.mark = l.scopeMark
  BY <1>1 DEF Mark, RootEntry
<1>4. Append(l.roots, v) \in Seq(RootEntry)
  BY <1>1, <1>3
<1> DEFINE opened == IF l.open THEN l ELSE [NoLRS EXCEPT !.open = TRUE, !.chunks = 1]
           p == PushLocalRoot(opened, v)
<1>10. /\ opened \in LocalRootStack /\ opened.open /\ opened.roots = l.roots
       /\ opened.chunks = IF l.open THEN l.chunks ELSE 1
  <2>1. CASE l.open
    BY <1>1, <2>1
  <2>2. CASE ~l.open
    <3>1. opened = [open |-> TRUE, roots |-> << >>, scopeMark |-> NULL_MARK, chunks |-> 1]
      BY <2>2 DEF NoLRS
    <3>2. << >> \in Seq(RootEntry) /\ NULL_MARK \in Int
      BY DEF NULL_MARK
    <3> HIDE DEF opened
    <3>3. opened \in LocalRootStack
      BY <3>1, <3>2 DEF LocalRootStack
    <3> QED
      BY <1>2, <2>2, <3>1, <3>3
  <2> QED
    BY <2>1, <2>2
<1>11. e = [p EXCEPT !.scopeMark = n]
  BY DEF EnterScope
<1> HIDE DEF opened
<1>12. p \in LocalRootStack /\ p.open /\ p.roots = Append(l.roots, v) /\ Len(p.roots) = n + 1
       /\ (\A i \in 1..n : p.roots[i] = l.roots[i]) /\ p.roots[n + 1] = v
       /\ p.chunks = IF NeedsChunk(opened) THEN opened.chunks + 1 ELSE opened.chunks
  BY <1>3, <1>10, PushShape
<1> HIDE DEF p, e
<1>13. p.chunks = n \div ChunkSize + 1
  <2>1. CASE l.open
    BY <1>1, <1>2, <1>10, <1>12, <2>1, OneMore DEF NeedsChunk
  <2>2. CASE ~l.open
    <3>1. 0 \div ChunkSize = 0
      BY SizesAssumption
    <3> QED
      BY <1>2, <1>10, <1>12, <2>2, <3>1 DEF NeedsChunk
  <2> QED
    BY <2>1, <2>2
<1>5. /\ e \in LocalRootStack /\ e.open /\ e.scopeMark = n
      /\ e.roots = Append(l.roots, v) /\ Len(e.roots) = n + 1
      /\ (\A i \in 1..n : e.roots[i] = l.roots[i]) /\ e.roots[n + 1] = v
      /\ e.chunks = n \div ChunkSize + 1
  <2>1. n \in Int
    BY <1>1
  <2> QED
    BY <2>1, <1>11, <1>12, <1>13 DEF LocalRootStack
<1> HIDE DEF v
<1>6. /\ Len(e.roots) = n + 1 /\ DOMAIN e.roots = 1..n + 1 /\ DOMAIN l.roots = 1..n
      /\ \A i \in 1..n : e.roots[i] = l.roots[i]
      /\ e.roots[n + 1] = v
  BY <1>1, <1>3, <1>5
<1>7. /\ \A m \in Places(l) : IsMark(e, m) <=> IsMark(l, m)
      /\ \A m \in Places(l) : e.roots[m + 1] = l.roots[m + 1]
      /\ Places(e) = Places(l) \cup {n}
      /\ IsMark(e, n) /\ n \in Places(e)
      /\ \A m \in Places(e) : m = n \/ (m \in Places(l) /\ m < n)
  BY <1>1, <1>3, <1>6 DEF Places, IsMark
<1>8. Chain(e)
  <2>1. ASSUME NEW m \in Places(e), IsMark(e, m)
        PROVE  LET outer == e.roots[m + 1].mark IN
               IF m = 0 THEN outer = NULL_MARK
               ELSE /\ outer \in 0..m - 1 /\ IsMark(e, outer)
                    /\ \A k \in outer + 1..m - 1 : ~IsMark(e, k)
    <3>1. CASE m = n /\ n = 0
      BY <1>2, <1>3, <1>6, <3>1 DEF Chain, Places
    <3>2. CASE m = n /\ n # 0
      <4>1. l.open /\ e.roots[m + 1].mark = l.scopeMark
        BY <1>2, <1>3, <1>6, <3>2
      <4>2. l.scopeMark \in 0..n - 1 /\ IsMark(e, l.scopeMark)
        BY <4>1, <1>2, <1>7 DEF Chain, Places
      <4>3. \A k \in l.scopeMark + 1..n - 1 : ~IsMark(e, k)
        BY <4>1, <4>2, <1>1, <1>2, <1>7 DEF Chain, Places
      <4> QED
        BY <4>1, <4>2, <4>3, <3>2
    <3>3. CASE m # n
      <4>1. m \in Places(l) /\ m \in Nat /\ IsMark(l, m) /\ \A k \in 0..m - 1 : k \in Places(l)
        BY <1>1, <1>7, <2>1, <3>3 DEF Places
      <4>2. e.roots[m + 1].mark = l.roots[m + 1].mark
        BY <4>1, <1>7
      <4>3. l.open
        BY <4>1, <1>2 DEF Places
      <4>4. LET outer == l.roots[m + 1].mark IN
            IF m = 0 THEN outer = NULL_MARK
            ELSE /\ outer \in 0..m - 1 /\ IsMark(l, outer)
                 /\ \A k \in outer + 1..m - 1 : ~IsMark(l, k)
        BY <4>1, <4>3, <1>2 DEF Chain
      <4> QED
        BY <4>1, <4>2, <4>4, <1>7
    <3> QED
      BY <3>1, <3>2, <3>3
  <2>2. 0 \in Places(e) /\ IsMark(e, 0)
    BY <1>1, <1>2, <1>7 DEF Chain, Places
  <2>3. \A m \in Places(e) : m > e.scopeMark => ~IsMark(e, m)
    BY <1>1, <1>5, <1>7 DEF Places
  <2>4. e.scopeMark \in Places(e) /\ IsMark(e, e.scopeMark)
    BY <1>5, <1>7
  <2> QED
    BY <2>1, <2>2, <2>3, <2>4 DEF Chain
<1>9. Entries(e) = Entries(l)
  <2>1. \A i \in 1..n : e.roots[i].thing = l.roots[i].thing
    BY <1>6
  <2>2. e.roots[n + 1].thing = Null
    BY <1>3, <1>6
  <2>3. \A i \in 1..n + 1 : i \in 1..n \/ i = n + 1
    BY <1>1
  <2>4. 1..n \subseteq 1..n + 1
    BY <1>1
  <2>5. DOMAIN e.roots = 1..n + 1 /\ DOMAIN l.roots = 1..n
    BY <1>6
  <2> HIDE DEF e
  <2>6. \A x \in Entries(e) : x \in Entries(l)
    BY <2>1, <2>2, <2>3, <2>5, Zenon DEF Entries
  <2>7. \A x \in Entries(l) : x \in Entries(e)
    BY <2>1, <2>4, <2>5, Zenon DEF Entries
  <2> QED
    BY <2>6, <2>7
<1> QED
  BY <1>1, <1>5, <1>6, <1>8, <1>9 DEF WellFormed, e

\* An open stack.
LEMMA OpenFacts ==
  ASSUME NEW l, WellFormed(l), l.open
  PROVE  /\ Chain(l) /\ l \in LocalRootStack
         /\ l.roots \in Seq(RootEntry) /\ Len(l.roots) \in Nat
         /\ DOMAIN l.roots = 1..Len(l.roots)
         /\ l.chunks = (Len(l.roots) - 1) \div ChunkSize + 1
         /\ l.scopeMark \in 0..Len(l.roots) - 1
BY DEF WellFormed, LocalRootStack, Chain, Places

\* Cutting a well-formed stack short, after scopes have been closed.
LEMMA CutFacts ==
  ASSUME NEW l, WellFormed(l), l.open, NEW x \in LocalRootStack, x.open,
         Len(x.roots) \in 1..Len(l.roots),
         x.scopeMark \in Places(x), IsMark(l, x.scopeMark),
         \A m \in Places(x) : m <= x.scopeMark => x.roots[m + 1] = l.roots[m + 1],
         \A m \in Places(x) : m > x.scopeMark => ~IsMark(x, m),
         x.chunks = (Len(x.roots) - 1) \div ChunkSize + 1,
         \A m \in Places(x) : \E k \in Places(l) : x.roots[m + 1] = l.roots[k + 1]
  PROVE  WellFormed(x) /\ Entries(x) \subseteq Entries(l)
<1>1. /\ Chain(l) /\ l \in LocalRootStack
      /\ x.roots \in Seq(RootEntry) /\ l.roots \in Seq(RootEntry)
      /\ Len(x.roots) \in Nat /\ Len(l.roots) \in Nat
  BY DEF WellFormed, LocalRootStack
<1>2. Places(x) \subseteq Places(l) /\ Places(x) \subseteq Nat /\ 0 \in Places(x)
  BY <1>1 DEF Places
<1>3. \A m \in Places(x) : m <= x.scopeMark => (IsMark(x, m) <=> IsMark(l, m))
  BY DEF IsMark
<1>4. ASSUME NEW m \in Places(x), IsMark(x, m)
      PROVE  LET outer == x.roots[m + 1].mark IN
             IF m = 0 THEN outer = NULL_MARK
             ELSE /\ outer \in 0..m - 1 /\ IsMark(x, outer)
                  /\ \A k \in outer + 1..m - 1 : ~IsMark(x, k)
  <2>1. m <= x.scopeMark /\ m \in Nat /\ x.scopeMark \in Nat
    BY <1>2, <1>4
  <2>2. m \in Places(l) /\ IsMark(l, m) /\ x.roots[m + 1] = l.roots[m + 1]
    BY <1>2, <1>3, <1>4, <2>1
  <2>3. LET outer == l.roots[m + 1].mark IN
        IF m = 0 THEN outer = NULL_MARK
        ELSE /\ outer \in 0..m - 1 /\ IsMark(l, outer)
             /\ \A k \in outer + 1..m - 1 : ~IsMark(l, k)
    BY <1>1, <2>2 DEF Chain
  <2>4. \A k \in 0..m - 1 : k \in Places(x) /\ k <= x.scopeMark
    BY <1>1, <1>4, <2>1 DEF Places
  <2>5. CASE m = 0
    BY <2>2, <2>3, <2>5
  <2>6. CASE m # 0
    <3> DEFINE outer == l.roots[m + 1].mark
    <3>1. /\ outer \in 0..m - 1 /\ IsMark(l, outer)
          /\ \A k \in outer + 1..m - 1 : ~IsMark(l, k)
      BY <2>3, <2>6
    <3> HIDE DEF outer
    <3>2. IsMark(x, outer)
      BY <1>3, <2>4, <3>1
    <3>3. \A k \in outer + 1..m - 1 : k \in 0..m - 1
      BY <2>1, <3>1
    <3>4. \A k \in outer + 1..m - 1 : ~IsMark(x, k)
      BY <1>3, <2>4, <3>1, <3>3
    <3>5. x.roots[m + 1].mark = outer
      BY <2>2 DEF outer
    <3> QED
      BY <2>6, <3>1, <3>2, <3>4, <3>5
  <2> QED
    BY <2>5, <2>6
<1>5. IsMark(x, 0)
  BY <1>1, <1>2, <1>3 DEF Chain
<1>6. Chain(x)
  BY <1>2, <1>3, <1>4, <1>5 DEF Chain
<1>7. Entries(x) \subseteq Entries(l)
  <2>1. ASSUME NEW i \in DOMAIN x.roots
        PROVE  \E j \in DOMAIN l.roots : x.roots[i] = l.roots[j]
    <3>1. i - 1 \in Places(x) /\ (i - 1) + 1 = i
      BY <1>1, <2>1 DEF Places
    <3>2. PICK k \in Places(l) : x.roots[i] = l.roots[k + 1]
      BY <3>1
    <3>3. k + 1 \in DOMAIN l.roots
      BY <1>1 DEF Places
    <3> QED
      BY <3>2, <3>3
  <2> QED
    BY <2>1 DEF Entries
<1> QED
  BY <1>6, <1>7 DEF WellFormed

\* Leaving a scope drops its roots, and the whole stack with the last scope.
LEMMA LeaveFacts ==
  ASSUME NEW l, WellFormed(l), l.open
  PROVE  /\ WellFormed(LeaveScope(l))
         /\ Entries(LeaveScope(l)) \subseteq Entries(l)
<1> DEFINE x == LeaveScope(l)
           n == Len(l.roots)
           mark == l.scopeMark
<1>1. /\ Chain(l) /\ l \in LocalRootStack
      /\ l.roots \in Seq(RootEntry) /\ n \in Nat /\ DOMAIN l.roots = 1..n
      /\ l.chunks = (n - 1) \div ChunkSize + 1
      /\ mark \in 0..n - 1
  BY OpenFacts
<1>2. CASE mark = 0
  <2>1. x = NoLRS
    BY <1>2 DEF LeaveScope
  <2>2. NoLRS \in LocalRootStack
    <3>1. << >> \in Seq(RootEntry) /\ NULL_MARK \in Int
      BY DEF NULL_MARK
    <3> QED
      BY <3>1 DEF NoLRS, LocalRootStack
  <2> QED
    BY <2>1, <2>2 DEF WellFormed, Entries, NoLRS
<1>3. CASE mark # 0
  <2> DEFINE outer == l.roots[mark + 1].mark
             popped == (n - 1) \div ChunkSize - mark \div ChunkSize
             chunks == l.chunks - popped - (IF mark % ChunkSize = 0 THEN 1 ELSE 0)
             cut == SubSeq(l.roots, 1, mark)
  <2>1. x = [l EXCEPT !.roots = cut, !.scopeMark = outer, !.chunks = chunks]
    BY <1>1, <1>3 DEF LeaveScope, LocalRootStack
  <2>2. /\ outer \in 0..mark - 1 /\ IsMark(l, outer)
        /\ \A k \in outer + 1..mark - 1 : ~IsMark(l, k)
    BY <1>1, <1>3 DEF Chain
  <2>3. cut \in Seq(RootEntry) /\ Len(cut) = mark /\ \A i \in 1..mark : cut[i] = l.roots[i]
    BY <1>1, <1>3
  <2>4. chunks = (mark - 1) \div ChunkSize + 1 /\ chunks \in Int
    <3> HIDE DEF mark, n
    <3>1. mark \in Nat \ {0} /\ n - 1 \in Nat \ {0} /\ mark - 1 \in Nat
      BY <1>1, <1>3
    <3> DEFINE a == (n - 1) \div ChunkSize
               b == mark \div ChunkSize
               c == (mark - 1) \div ChunkSize
    <3>2. a \in Int /\ b \in Int /\ c \in Int
      BY <3>1, SizesAssumption
    <3>3. b = IF mark % ChunkSize = 0 THEN c + 1 ELSE c
      BY <3>1, OneMore
    <3>4. l.chunks = a + 1
      BY <1>1
    <3>5. chunks = l.chunks - (a - b) - (IF mark % ChunkSize = 0 THEN 1 ELSE 0)
      OBVIOUS
    <3> HIDE DEF a, b, c, chunks
    <3>6. chunks = c + 1
      BY <3>2, <3>3, <3>4, <3>5
    <3> QED
      BY <3>2, <3>6 DEF c
  <2> HIDE DEF outer, chunks, cut, x
  <2>5. /\ x \in LocalRootStack /\ x.open /\ x.roots = cut /\ x.scopeMark = outer
        /\ x.chunks = chunks
    <3>1. outer \in Int
      BY <1>1, <2>2
    <3> QED
      BY <1>1, <2>1, <2>3, <2>4, <3>1 DEF LocalRootStack
  <2>6. Places(x) = 0..mark - 1 /\ Places(x) \subseteq Places(l) /\ Places(x) \subseteq Nat
    BY <1>1, <2>3, <2>5 DEF Places
  <2>7. \A m \in Places(x) : x.roots[m + 1] = l.roots[m + 1]
    BY <1>1, <2>3, <2>5, <2>6
  <2>8. \A m \in Places(x) : m > x.scopeMark => ~IsMark(x, m)
    BY <1>1, <2>2, <2>5, <2>6, <2>7 DEF IsMark
  <2>9. Len(x.roots) = mark /\ Len(x.roots) \in 1..Len(l.roots)
    BY <1>1, <1>3, <2>3, <2>5
  <2>10. x.scopeMark \in Places(x) /\ IsMark(l, x.scopeMark)
    BY <2>2, <2>5, <2>6
  <2>11. x.chunks = (Len(x.roots) - 1) \div ChunkSize + 1
    BY <2>4, <2>5, <2>9
  <2>12. \A m \in Places(x) : \E k \in Places(l) : x.roots[m + 1] = l.roots[k + 1]
    BY <2>6, <2>7
  <2>13. WellFormed(x) /\ Entries(x) \subseteq Entries(l)
    BY <2>5, <2>7, <2>8, <2>9, <2>10, <2>11, <2>12, CutFacts
  <2> QED
    BY <2>13 DEF x
<1> QED
  BY <1>2, <1>3

\* v is in the innermost scope.
Inner(l, v) == \E i \in l.scopeMark + 2..Len(l.roots) : l.roots[i].thing = v

\* Forgetting a root of the innermost scope drops it and keeps the others.
LEMMA ForgetFacts ==
  ASSUME NEW l, WellFormed(l), l.open, NEW v \in Things, Inner(l, v)
  PROVE  /\ WellFormed(ForgetRoot(l, v))
         /\ Entries(ForgetRoot(l, v)) \subseteq Entries(l)
<1> DEFINE x == ForgetRoot(l, v)
           n == Len(l.roots)
           mark == l.scopeMark
<1>1. /\ Chain(l) /\ l \in LocalRootStack
      /\ l.roots \in Seq(RootEntry) /\ n \in Nat /\ DOMAIN l.roots = 1..n
      /\ l.chunks = (n - 1) \div ChunkSize + 1
      /\ mark \in 0..n - 1
  BY OpenFacts
<1> DEFINE last(k) == /\ l.roots[k].thing = v
                      /\ \A j \in k + 1..n : l.roots[j].thing # v
           i == CHOOSE k \in mark + 2..n : last(k)
<1>2. i \in mark + 2..n
  <2> DEFINE which == {k \in mark + 2..n : l.roots[k].thing = v}
  <2>1. which \subseteq 0..n /\ which # {}
    BY <1>1 DEF Inner
  <2>2. PICK k \in which : \A j \in which : j <= k
    <3>1. n \in Int
      BY <1>1
    <3> HIDE DEF which, n
    <3> QED
      BY <2>1, <3>1, Greatest
  <2>3. k \in mark + 2..n /\ last(k)
    BY <1>1, <2>2
  <2> HIDE DEF last
  <2> QED
    BY <2>3
<1> DEFINE moved == [l.roots EXCEPT ![i] = l.roots[n]]
           y == [l EXCEPT !.roots = moved]
<1>3. x = PopLocalRoot(y)
  BY <1>1 DEF ForgetRoot, LocalRootStack
<1> HIDE DEF i, x
<1>4. n \in Nat \ {0, 1} /\ n \in 1..n /\ i \in 1..n /\ n - 1 \in 1..n
  <2> HIDE DEF n, mark
  <2>1. n \in Nat /\ mark \in Nat /\ i \in Int /\ mark + 2 <= i /\ i <= n
    BY <1>1, <1>2
  <2> QED
    BY <2>1
<1>5. l.roots[n] \in RootEntry
  BY <1>1, <1>4
<1>6. /\ moved \in Seq(RootEntry) /\ Len(moved) = n
      /\ \A k \in 1..n : moved[k] = IF k = i THEN l.roots[n] ELSE l.roots[k]
  BY <1>1, <1>4, <1>5, ExceptSeq
<1> HIDE DEF moved
<1>7. y \in LocalRootStack /\ y.open /\ y.scopeMark = mark /\ y.roots = moved /\ y.chunks = l.chunks
  BY <1>1, <1>6 DEF LocalRootStack
<1> HIDE DEF y
<1>8. /\ Front(moved) \in Seq(RootEntry) /\ Len(Front(moved)) = n - 1
      /\ \A k \in 1..n - 1 : Front(moved)[k] = moved[k]
  BY <1>4, <1>6 DEF Front
<1>9. /\ x.open /\ x.scopeMark = mark /\ x.roots = Front(moved)
      /\ x.chunks = IF (n - 1) % ChunkSize = 0 THEN l.chunks - 1 ELSE l.chunks
  BY <1>3, <1>6, <1>7 DEF PopLocalRoot, LocalRootStack
<1>10. x \in LocalRootStack
  <2>1. l.chunks \in Int /\ l.chunks - 1 \in Int
    BY <1>1 DEF LocalRootStack
  <2> QED
    BY <1>3, <1>6, <1>7, <1>8, <2>1 DEF PopLocalRoot, LocalRootStack
<1>11. x.chunks = (Len(x.roots) - 1) \div ChunkSize + 1
  <2> DEFINE a == (n - 1) \div ChunkSize
             b == ((n - 1) - 1) \div ChunkSize
  <2> HIDE DEF n
  <2>1. n - 1 \in Nat \ {0} /\ (n - 1) - 1 \in Nat
    BY <1>4
  <2>2. a = IF (n - 1) % ChunkSize = 0 THEN b + 1 ELSE b
    BY <2>1, OneMore
  <2>3. a \in Int /\ b \in Int
    BY <2>1, SizesAssumption
  <2>4. l.chunks = a + 1
    BY <1>1
  <2>5. Len(x.roots) - 1 = (n - 1) - 1
    BY <1>8, <1>9
  <2> HIDE DEF a, b
  <2>6. x.chunks = b + 1
    BY <1>9, <2>2, <2>3, <2>4
  <2> QED
    BY <2>5, <2>6 DEF b
<1>12. Places(x) = 0..n - 2 /\ mark \in Places(x) /\ Places(x) \subseteq Places(l)
  BY <1>1, <1>2, <1>4, <1>8, <1>9 DEF Places
<1>13. \A m \in Places(x) : x.roots[m + 1] = IF m + 1 = i THEN l.roots[n] ELSE l.roots[m + 1]
  <2> TAKE m \in Places(x)
  <2>1. m + 1 \in 1..n - 1 /\ m + 1 \in 1..n
    BY <1>4, <1>12
  <2>2. x.roots[m + 1] = moved[m + 1]
    BY <1>8, <1>9, <2>1
  <2> QED
    BY <1>6, <2>1, <2>2
<1>14. \A m \in Places(x) : m <= mark => x.roots[m + 1] = l.roots[m + 1]
  BY <1>1, <1>2, <1>4, <1>12, <1>13
<1>15. /\ ~IsMark(l, n - 1) /\ n - 1 \in Places(l) /\ (n - 1) + 1 = n
       /\ \A m \in Places(l) : m > mark => ~IsMark(l, m)
  BY <1>1, <1>2, <1>4 DEF Chain, Places
<1>16. \A m \in Places(x) : m > mark => ~IsMark(x, m)
  BY <1>12, <1>13, <1>15 DEF IsMark
<1>17. \A m \in Places(x) : \E k \in Places(l) : x.roots[m + 1] = l.roots[k + 1]
  BY <1>12, <1>13, <1>15
<1>18. IsMark(l, mark)
  BY <1>1 DEF Chain
<1>19. Len(x.roots) \in 1..Len(l.roots)
  <2>1. Len(x.roots) = n - 1
    BY <1>8, <1>9
  <2> QED
    BY <1>4, <2>1
<1>20. WellFormed(x) /\ Entries(x) \subseteq Entries(l)
  BY <1>9, <1>10, <1>11, <1>12, <1>14, <1>16, <1>17, <1>18, <1>19, CutFacts
<1> QED
  BY <1>20 DEF x

-----------------------------------------------------------------------------
(* The inductive invariant.                                                *)

\* A thing has no entry, or the entry counts its locks; a shallow thing's first
\* lock has none.
LocksMatch ==
  \A t \in Things :
    IF calls[t] = 0 THEN t \notin locked /\ locksHash[t] = 0
    ELSE /\ t \in locked
         /\ \/ locksHash[t] = calls[t]
            \/ locksHash[t] = 0 /\ calls[t] = 1 /\ ~Deep(t)

\* What js_GC and js_NewGCThing know of each other.
PhasesAgree ==
  /\ pc \in {"run", "alloc"} <=> gcLevel = 0
  /\ pc = "mark" => gcLevel = 1 /\ ~gcPoke
  /\ pc \notin {"sweep", "finalize"} => unswept = {}
  /\ pc = "run" => request = NoRequest
  /\ pc = "alloc" => request.type \in GCTypes /\ (request.tried => Allocated = Live)
  /\ pc \notin {"run", "alloc"} => request = NoRequest \/ (request.type \in GCTypes /\ request.tried)

\* The sweep does not come to anything reachable that is not marked.
Collecting == pc \in {"sweep", "finalize"} => Reach(Roots) \cap unswept \subseteq marked

\* As long as nobody has let go of anything, what the sweep keeps is live.
Precise ==
  pc \in {"sweep", "finalize", "swept", "free"} /\ gcLevel = 1 /\ ~gcPoke =>
    Allocated \ unswept \subseteq Live /\ marked \cap unswept \subseteq Live

HeapInv ==
  /\ TypeOK /\ WellFormed(lrs) /\ LocksMatch /\ PhasesAgree
  /\ LiveIsAllocated /\ FreeListSound /\ Collecting /\ Precise

\* No stack is a stack without roots.
LEMMA NoLRSFacts == WellFormed(NoLRS) /\ Entries(NoLRS) = {}
<1>1. << >> \in Seq(RootEntry) /\ NULL_MARK \in Int
  BY DEF NULL_MARK
<1>2. NoLRS \in LocalRootStack /\ ~NoLRS.open /\ NoLRS.roots = << >>
  BY <1>1 DEF NoLRS, LocalRootStack
<1> QED
  BY <1>2 DEF WellFormed, Entries

\* The roots are things, or empty.
LEMMA RootsFacts ==
  ASSUME TypeOK, WellFormed(lrs)
  PROVE  /\ Roots \in SUBSET (Things \cup {Null})
         /\ LocalRoots(lrs) = Entries(lrs)
         /\ ref \in [Things -> Things \cup {Null}]
<1>1. LocalRoots(lrs) = Entries(lrs) /\ Entries(lrs) \subseteq Things
  BY LocalRootsFacts
<1>2. \A r \in rooted : rootVal[r] \in Things \cup {Null}
  BY DEF TypeOK
<1>3. \A y \in GCTypes : newborn[y] \in Things \cup {Null}
  BY DEF TypeOK
<1> QED
  BY <1>1, <1>2, <1>3 DEF Roots, TypeOK

\* What the program holds is what its roots lead to.
LEMMA HeldFacts ==
  ASSUME TypeOK, WellFormed(lrs)
  PROVE  /\ Held = Reach(Roots) /\ Held \subseteq Things
         /\ Roots \subseteq Held \cup {Null}
         /\ \A t \in Held : ref[t] \in Held \cup {Null}
BY RootsFacts, ReachFacts DEF Held, Reach

\* Nothing that was not live becomes live when the new roots and slots are of what was held.
LEMMA LiveShrinks ==
  ASSUME TypeOK, WellFormed(lrs), TypeOK', WellFormed(lrs)',
         Roots' \subseteq Held \cup {Null},
         \A t \in Held : ref'[t] \in Held \cup {Null},
         locked' \subseteq Live
  PROVE  Held' \subseteq Held /\ Live' \subseteq Live
<1>1. /\ Roots' \in SUBSET (Things \cup {Null})
      /\ ref' \in [Things -> Things \cup {Null}]
  BY HeldFacts DEF TypeOK
<1>2. /\ Roots \in SUBSET (Things \cup {Null})
      /\ ref \in [Things -> Things \cup {Null}]
  BY RootsFacts
<1>3. ReachBy(ref', Roots') \subseteq ReachBy(ref, Roots)
  BY <1>1, <1>2, ReachShrinks DEF Held, Reach
<1>4. Held' = ReachBy(ref', Roots') /\ Held = ReachBy(ref, Roots)
  BY DEF Held, Reach
<1> QED
  BY <1>3, <1>4 DEF Live, Held

\* So the places stay as sound as they were.
LEMMA HeapKept ==
  ASSUME TypeOK, WellFormed(lrs), LiveIsAllocated, FreeListSound, TypeOK', WellFormed(lrs)',
         UNCHANGED <<pool, carved, freeList, final, gcBytes>>,
         Roots' \subseteq Held \cup {Null},
         \A t \in Held : ref'[t] \in Held \cup {Null},
         locked' \subseteq Live
  PROVE  /\ LiveIsAllocated' /\ FreeListSound'
         /\ Held' \subseteq Held /\ Live' \subseteq Live
         /\ Allocated' = Allocated /\ Carved' = Carved
<1>1. Held' \subseteq Held /\ Live' \subseteq Live
  BY LiveShrinks
<1>2. Allocated' = Allocated /\ Carved' = Carved
  BY DEF Allocated, Carved
<1> QED
  BY <1>1, <1>2 DEF LiveIsAllocated, FreeListSound

\* Init puts nothing in the heap.
LEMMA InitHeap == Init => HeapInv
<1> SUFFICES ASSUME Init PROVE HeapInv
  OBVIOUS
<1>1. WellFormed(lrs) /\ LocalRoots(lrs) = {} /\ lrs \in LocalRootStack
  <2>1. lrs = NoLRS
    BY DEF Init
  <2> QED
    BY <2>1, NoLRSFacts, LocalRootsFacts DEF WellFormed
<1>2. Cardinality(Things) \in Nat
  BY ThingsFacts, FS_CardinalityType
<1>3. TypeOK
  <2>1. pool \in Seq(Arenas) /\ freeList \in Seq(Things) /\ IsInjective(pool)
    BY DEF Init, IsInjective
  <2>2. carved \in [Arenas -> 0..ArenaSize]
    BY SizesAssumption DEF Init
  <2>3. request \in [type : GCTypes \cup {"none"}, tried : BOOLEAN]
    BY DEF Init, NoRequest
  <2>4. /\ type \in [Things -> GCTypes] /\ ref \in [Things -> Things \cup {Null}]
        /\ locksHash \in [Things -> Nat] /\ calls \in [Things -> Nat]
        /\ rootVal \in [RootNames -> Things \cup {Null}]
        /\ newborn \in [GCTypes -> Things \cup {Null}]
    BY DEF Init, GCTypes
  <2>5. /\ marked \subseteq Things /\ locked \subseteq Things /\ final \subseteq Things
        /\ rooted \subseteq RootNames /\ unswept \subseteq Carved
        /\ gcLevel \in 0..2
        /\ pc \in {"run", "alloc", "mark", "sweep", "finalize", "swept", "free"}
    BY DEF Init
  <2>7. gcPoke \in BOOLEAN
    BY DEF Init
  <2>6. gcBytes \in 0..Cardinality(Things)
    BY <1>2 DEF Init
  <2> QED
    BY <1>1, <2>1, <2>2, <2>3, <2>4, <2>5, <2>6, <2>7 DEF TypeOK
<1>4. Carved = {}
  BY DEF Init, Carved, ToSet
<1>5. Held = {}
  <2>1. Roots \subseteq {Null}
    BY <1>1 DEF Init, Roots
  <2> QED
    BY <1>1, <1>3, <2>1, RootsFacts, ReachFacts DEF Held, Reach
<1>6. LiveIsAllocated
  BY <1>5 DEF LiveIsAllocated, Live, Held, Init
<1>7. FreeListSound
  BY <1>4, FS_EmptySet DEF FreeListSound, Init, IsInjective, ToSet, Allocated
<1>8. LocksMatch /\ PhasesAgree /\ Collecting /\ Precise
  BY DEF LocksMatch, PhasesAgree, Collecting, Precise, Init
<1> QED
  BY <1>1, <1>3, <1>6, <1>7, <1>8 DEF HeapInv

-----------------------------------------------------------------------------
(* The rest of the program.                                                *)

\* Steps of the program, and of finalizers, that make nothing live.
LEMMA ProgramStep ==
  ASSUME HeapInv, TypeOK', WellFormed(lrs)', LocksMatch',
         UNCHANGED <<pool, carved, freeList, marked, final, gcBytes, pc, unswept, request>>,
         Roots' \subseteq Held \cup {Null},
         \A t \in Held : ref'[t] \in Held \cup {Null},
         locked' \subseteq Live,
         \/ pc = "run" /\ gcLevel' = gcLevel
         \/ /\ pc = "finalize" /\ gcLevel' \in {1, 2}
            /\ \/ gcPoke' \/ gcLevel' = 2
               \/ Live \subseteq Live' /\ UNCHANGED <<gcPoke, gcLevel>>
  PROVE  HeapInv'
<1>1. /\ LiveIsAllocated' /\ FreeListSound' /\ Held' \subseteq Held /\ Live' \subseteq Live
      /\ Allocated' = Allocated /\ Carved' = Carved
  BY HeapKept DEF HeapInv
<1>2. PhasesAgree'
  BY DEF HeapInv, PhasesAgree
<1>3. Collecting'
  BY <1>1 DEF HeapInv, Collecting, Held
<1>4. Precise'
  BY <1>1 DEF HeapInv, Precise, PhasesAgree
<1> QED
  BY <1>1, <1>2, <1>3, <1>4 DEF HeapInv

\* A slot of what is held, set to what is held.
LEMMA SetSlotKeeps ==
  ASSUME HeapInv, NEW o \in Held, NEW v \in (Held \ {o}) \cup {Null}, SetSlot(o, v)
  PROVE  HeapInv'
<1>1. TypeOK /\ WellFormed(lrs)
  BY DEF HeapInv
<1>2. /\ o \in Things /\ v \in Things \cup {Null} /\ Roots \subseteq Held \cup {Null}
      /\ \A t \in Held : t \in Things /\ ref[t] \in Held \cup {Null}
  BY <1>1, HeldFacts
<1>3. ref' = [ref EXCEPT ![o] = v] /\ ref \in [Things -> Things \cup {Null}]
  BY <1>1 DEF SetSlot, TypeOK
<1>4. ref' \in [Things -> Things \cup {Null}] /\ \A t \in Held : ref'[t] \in Held \cup {Null}
  BY <1>2, <1>3
<1>5. /\ pc = "run" /\ gcPoke' = TRUE /\ UNCHANGED gcLevel
      /\ UNCHANGED <<pool, carved, freeList, type, marked, final, gcBytes, lockVars, rootVars,
                     newborn, lrs, pc, unswept, request>>
  BY DEF SetSlot, Running
<1>6. TypeOK' /\ WellFormed(lrs)' /\ LocksMatch'
  BY <1>1, <1>4, <1>5 DEF HeapInv, TypeOK, Carved, LocksMatch, Deep, lockVars, rootVars
<1>7. Roots' = Roots /\ locked' \subseteq Live
  BY <1>5 DEF Roots, Live, lockVars, rootVars
<1> QED
  BY <1>1, <1>2, <1>4, <1>5, <1>6, <1>7, ProgramStep

\* Roots change and the heap does not.
LEMMA RootsStep ==
  ASSUME HeapInv, UNCHANGED <<heap, lockVars, newborn, lrs, gcLevel, pc, unswept, request>>,
         rooted' \subseteq RootNames, rootVal' \in [RootNames -> Held \cup Things \cup {Null}],
         \A r \in rooted' : rootVal'[r] \in Held \cup {Null},
         \/ pc = "run" /\ gcPoke' \in BOOLEAN
         \/ pc = "finalize" /\ gcPoke' = TRUE
  PROVE  HeapInv'
<1>1. TypeOK /\ WellFormed(lrs)
  BY DEF HeapInv
<1>2. /\ Roots \subseteq Held \cup {Null} /\ Held \subseteq Things
      /\ \A t \in Held : ref[t] \in Held \cup {Null}
  BY <1>1, HeldFacts
<1>3. UNCHANGED <<pool, carved, freeList, type, marked, final, ref, gcBytes, locked, locksHash,
                  calls, newborn, lrs, gcLevel, pc, unswept, request>>
  BY DEF heap, lockVars
<1>4. TypeOK' /\ WellFormed(lrs)' /\ LocksMatch'
  BY <1>1, <1>2, <1>3 DEF HeapInv, TypeOK, Carved, LocksMatch, Deep
<1>5. Roots' \subseteq Held \cup {Null}
  BY <1>2, <1>3 DEF Roots
<1>6. locked' \subseteq Live
  BY <1>3 DEF Live
<1>7. pc = "finalize" => gcLevel \in {1, 2}
  BY <1>1 DEF HeapInv, PhasesAgree, TypeOK
<1> QED
  BY <1>2, <1>3, <1>4, <1>5, <1>6, <1>7, ProgramStep

\* js_AddRoot, of something that is held.
LEMMA AddRootKeeps ==
  ASSUME HeapInv, NEW r \in RootNames, NEW v \in Held \cup {Null}, AddRoot(r, v)
  PROVE  HeapInv'
<1>1. TypeOK /\ WellFormed(lrs)
  BY DEF HeapInv
<1>2. Roots \subseteq Held \cup {Null} /\ Held \subseteq Things
  BY <1>1, HeldFacts
<1>3. \A q \in rooted : rootVal[q] \in Held \cup {Null}
  BY <1>2 DEF Roots
<1>4. /\ rooted \subseteq RootNames /\ rootVal \in [RootNames -> Things \cup {Null}]
      /\ rooted' = rooted \cup {r} /\ rootVal' = [rootVal EXCEPT ![r] = v]
      /\ pc = "run" /\ UNCHANGED <<heap, lockVars, newborn, lrs, gcVars, request>>
  BY <1>1 DEF AddRoot, TypeOK, Running
<1>5. /\ rooted' \subseteq RootNames /\ rootVal' \in [RootNames -> Held \cup Things \cup {Null}]
      /\ \A q \in rooted' : rootVal'[q] \in Held \cup {Null}
  BY <1>2, <1>3, <1>4
<1>6. gcPoke' \in BOOLEAN /\ UNCHANGED <<gcLevel, pc, unswept>>
  BY <1>1, <1>4 DEF gcVars, TypeOK
<1> QED
  BY <1>4, <1>5, <1>6, RootsStep

\* js_RemoveRoot, by the program or by a finalizer.
LEMMA RemoveRootKeeps ==
  ASSUME HeapInv, NEW r \in RootNames, RemoveRoot(r)
  PROVE  HeapInv'
<1>1. TypeOK /\ WellFormed(lrs)
  BY DEF HeapInv
<1>2. Roots \subseteq Held \cup {Null} /\ Held \subseteq Things
  BY <1>1, HeldFacts
<1>3. \A q \in rooted : rootVal[q] \in Held \cup {Null}
  BY <1>2 DEF Roots
<1>4. /\ rooted \subseteq RootNames /\ rootVal \in [RootNames -> Things \cup {Null}]
      /\ rooted' = rooted \ {r} /\ rootVal' = [rootVal EXCEPT ![r] = Null]
      /\ pc \in {"run", "finalize"} /\ gcPoke' = TRUE
      /\ UNCHANGED <<heap, lockVars, newborn, lrs, gcLevel, pc, unswept, request>>
  BY <1>1 DEF RemoveRoot, TypeOK, Running, Finalizing
<1>5. /\ rooted' \subseteq RootNames /\ rootVal' \in [RootNames -> Held \cup Things \cup {Null}]
      /\ \A q \in rooted' : rootVal'[q] \in Held \cup {Null}
  BY <1>2, <1>3, <1>4
<1> QED
  BY <1>4, <1>5, RootsStep

\* Locks change and the heap does not.
LEMMA LockKeeps ==
  ASSUME HeapInv, NEW t \in Things, LockGCThing(t)
  PROVE  HeapInv'
<1>1. TypeOK /\ WellFormed(lrs) /\ LocksMatch
  BY DEF HeapInv
<1>2. /\ Roots \subseteq Held \cup {Null} /\ Held \subseteq Things /\ t \in Held
      /\ \A u \in Held : ref[u] \in Held \cup {Null}
  BY <1>1, HeldFacts DEF LockGCThing
<1>3. /\ UNCHANGED <<pool, carved, freeList, type, marked, final, ref, gcBytes, rooted, rootVal,
                     newborn, lrs, gcPoke, gcLevel, pc, unswept, request>>
      /\ pc = "run"
      /\ locked' = locked \cup {t} /\ calls' = [calls EXCEPT ![t] = @ + 1]
  BY DEF LockGCThing, heap, rootVars, gcVars, Running
<1>4. /\ locksHash \in [Things -> Nat] /\ calls \in [Things -> Nat]
      /\ calls' \in [Things -> Nat]
      /\ calls'[t] = calls[t] + 1 /\ \A u \in Things : u # t => calls'[u] = calls[u]
  BY <1>1, <1>3 DEF TypeOK
<1>5. /\ locksHash' \in [Things -> Nat]
      /\ \A u \in Things : u # t => locksHash'[u] = locksHash[u]
      /\ IF t \in locked \/ Deep(t)
         THEN locksHash'[t] = IF locksHash[t] = 0 THEN FirstCount(t) ELSE locksHash[t] + 1
         ELSE locksHash'[t] = locksHash[t]
  BY <1>1, <1>4 DEF LockGCThing, FirstCount
<1>6. TypeOK' /\ WellFormed(lrs)'
  BY <1>1, <1>2, <1>3, <1>4, <1>5 DEF TypeOK, Carved
<1>7. LocksMatch'
  <2> SUFFICES ASSUME NEW u \in Things
               PROVE  IF calls'[u] = 0 THEN u \notin locked' /\ locksHash'[u] = 0
                      ELSE /\ u \in locked'
                           /\ \/ locksHash'[u] = calls'[u]
                              \/ locksHash'[u] = 0 /\ calls'[u] = 1 /\ ~Deep(u)'
    BY DEF LocksMatch
  <2>1. Deep(u)' = Deep(u)
    BY <1>3 DEF Deep
  <2>2. CASE u = t
    BY <1>1, <1>3, <1>4, <1>5, <2>1, <2>2 DEF LocksMatch, FirstCount
  <2>3. CASE u # t
    BY <1>1, <1>3, <1>4, <1>5, <2>1, <2>3 DEF LocksMatch
  <2> QED
    BY <2>2, <2>3
<1>8. Roots' \subseteq Held \cup {Null}
  BY <1>2, <1>3, <1>5 DEF Roots
<1>9. locked' \subseteq Live
  BY <1>2, <1>3 DEF Live, Held
<1> QED
  BY <1>2, <1>3, <1>6, <1>7, <1>8, <1>9, ProgramStep

\* js_UnlockGCThing, by the program or by a finalizer.
LEMMA UnlockKeeps ==
  ASSUME HeapInv, NEW t \in Things, UnlockGCThing(t)
  PROVE  HeapInv'
<1>1. TypeOK /\ WellFormed(lrs) /\ LocksMatch
  BY DEF HeapInv
<1>2. /\ Roots \subseteq Held \cup {Null} /\ Held \subseteq Things
      /\ \A u \in Held : ref[u] \in Held \cup {Null}
  BY <1>1, HeldFacts
<1>3. /\ UNCHANGED <<pool, carved, freeList, type, marked, final, ref, gcBytes, rooted, rootVal,
                     newborn, lrs, gcLevel, pc, unswept, request>>
      /\ pc \in {"run", "finalize"}
      /\ calls[t] > 0 /\ calls' = [calls EXCEPT ![t] = @ - 1]
  BY DEF UnlockGCThing, heap, rootVars, Running, Finalizing
<1>4. /\ locksHash \in [Things -> Nat] /\ calls \in [Things -> Nat]
      /\ calls' \in [Things -> Nat]
      /\ calls'[t] = calls[t] - 1 /\ \A u \in Things : u # t => calls'[u] = calls[u]
  BY <1>1, <1>3 DEF TypeOK
<1>5. /\ locksHash' \in [Things -> Nat]
      /\ \A u \in Things : u # t => locksHash'[u] = locksHash[u]
      /\ IF locksHash[t] > 1
         THEN locksHash'[t] = locksHash[t] - 1 /\ UNCHANGED <<locked, gcPoke>>
         ELSE locksHash'[t] = 0 /\ locked' = locked \ {t} /\ gcPoke' = TRUE
  BY <1>4 DEF UnlockGCThing
<1>6. TypeOK' /\ WellFormed(lrs)'
  BY <1>1, <1>2, <1>3, <1>4, <1>5 DEF TypeOK, Carved
<1>7. LocksMatch'
  <2> SUFFICES ASSUME NEW u \in Things
               PROVE  IF calls'[u] = 0 THEN u \notin locked' /\ locksHash'[u] = 0
                      ELSE /\ u \in locked'
                           /\ \/ locksHash'[u] = calls'[u]
                              \/ locksHash'[u] = 0 /\ calls'[u] = 1 /\ ~Deep(u)'
    BY DEF LocksMatch
  <2>1. Deep(u)' = Deep(u)
    BY <1>3 DEF Deep
  <2>2. CASE u = t
    BY <1>1, <1>3, <1>4, <1>5, <2>1, <2>2 DEF LocksMatch
  <2>3. CASE u # t
    BY <1>1, <1>3, <1>4, <1>5, <2>1, <2>3 DEF LocksMatch
  <2> QED
    BY <2>2, <2>3
<1>8. \A u \in Things : locksHash'[u] > 0 => locksHash[u] > 0
  BY <1>4, <1>5
<1>9. Roots' \subseteq Held \cup {Null}
  BY <1>2, <1>3, <1>8 DEF Roots
<1>10. locked' \subseteq Live
  BY <1>5 DEF Live
<1>11. locksHash[t] > 1 => Live \subseteq Live'
  <2> SUFFICES ASSUME locksHash[t] > 1 PROVE Live \subseteq Live'
    OBVIOUS
  <2>1. \A u \in Things : locksHash'[u] > 0 <=> locksHash[u] > 0
    BY <1>4, <1>5
  <2>2. Roots' = Roots
    BY <1>3, <2>1 DEF Roots
  <2>3. Reach(Roots)' = Reach(Roots)
    BY <1>3, <2>2 DEF Reach
  <2> QED
    BY <1>5, <2>3 DEF Live
<1>12. pc = "finalize" => gcLevel \in {1, 2}
  BY <1>1 DEF HeapInv, PhasesAgree, TypeOK
<1> QED
  BY <1>2, <1>3, <1>5, <1>6, <1>7, <1>9, <1>10, <1>11, <1>12, ProgramStep

\* The stack of local roots changes, and has no new root.
LEMMA LocalRootsStep ==
  ASSUME HeapInv, NEW l, LocalRootOp(l), WellFormed(l), Entries(l) \subseteq Entries(lrs)
  PROVE  HeapInv'
<1>1. TypeOK /\ WellFormed(lrs) /\ LocksMatch
  BY DEF HeapInv
<1>2. /\ Roots \subseteq Held \cup {Null} /\ Held \subseteq Things
      /\ \A u \in Held : ref[u] \in Held \cup {Null}
  BY <1>1, HeldFacts
<1>3. /\ UNCHANGED <<pool, carved, freeList, type, marked, final, ref, gcBytes, locked, locksHash,
                     calls, rooted, rootVal, newborn, gcPoke, gcLevel, pc, unswept, request>>
      /\ pc = "run" /\ lrs' = l
  BY DEF LocalRootOp, heap, lockVars, rootVars, gcVars, Running
<1>4. WellFormed(lrs)' /\ lrs' \in LocalRootStack
  BY <1>3 DEF WellFormed
<1>5. LocalRoots(lrs) = Entries(lrs) /\ LocalRoots(lrs)' = Entries(l)
  BY <1>1, <1>3, LocalRootsFacts
<1>6. TypeOK' /\ LocksMatch'
  BY <1>1, <1>3, <1>4 DEF TypeOK, Carved, LocksMatch, Deep
<1>7. Roots' \subseteq Roots
  BY <1>3, <1>5 DEF Roots
<1>8. locked' \subseteq Live
  BY <1>3 DEF Live
<1> QED
  BY <1>2, <1>3, <1>4, <1>6, <1>7, <1>8, ProgramStep

\* A scope is entered or left, or a local root is forgotten.
LEMMA LocalRootOpsKeep ==
  ASSUME HeapInv,
         \/ EnterLocalRootScope \/ LeaveLocalRootScope
         \/ \E t \in Things : ForgetLocalRoot(t)
  PROVE  HeapInv'
<1>1. WellFormed(lrs)
  BY DEF HeapInv
<1>2. CASE EnterLocalRootScope
  BY <1>1, <1>2, EnterFacts, LocalRootsStep DEF EnterLocalRootScope
<1>3. CASE LeaveLocalRootScope
  BY <1>1, <1>3, LeaveFacts, LocalRootsStep DEF LeaveLocalRootScope
<1>4. ASSUME NEW t \in Things, ForgetLocalRoot(t) PROVE HeapInv'
  <2>1. lrs.open /\ Inner(lrs, t) /\ LocalRootOp(ForgetRoot(lrs, t))
    BY <1>4 DEF ForgetLocalRoot, Inner
  <2> QED
    BY <1>1, <2>1, ForgetFacts, LocalRootsStep
<1> QED
  BY <1>2, <1>3, <1>4

-----------------------------------------------------------------------------
(* js_NewGCThing, and js_GC's phases.                                      *)

\* What a step that moves no thing, no root and no lock keeps.
LEMMA PhaseStep ==
  ASSUME HeapInv, UNCHANGED <<heap, lockVars, rootVars, lrs, unswept>>,
         newborn' = newborn \/ newborn' = [y \in GCTypes |-> Null],
         gcPoke' \in BOOLEAN, gcLevel' \in 0..2,
         pc' \in {"run", "alloc", "mark", "sweep", "finalize", "swept", "free"},
         request' \in [type : GCTypes \cup {"none"}, tried : BOOLEAN]
  PROVE  /\ TypeOK' /\ WellFormed(lrs)' /\ LocksMatch' /\ LiveIsAllocated' /\ FreeListSound'
         /\ Held' \subseteq Held /\ Live' \subseteq Live /\ Allocated' = Allocated
         /\ newborn' = newborn => Held' = Held /\ Live' = Live
<1>1. TypeOK /\ WellFormed(lrs) /\ LocksMatch /\ LiveIsAllocated /\ FreeListSound
  BY DEF HeapInv
<1>2. /\ Roots \subseteq Held \cup {Null} /\ Held \subseteq Things
      /\ \A t \in Held : ref[t] \in Held \cup {Null}
  BY <1>1, HeldFacts
<1>3. UNCHANGED <<pool, carved, freeList, type, marked, final, ref, gcBytes, locked, locksHash,
                  calls, rooted, rootVal, lrs, unswept>>
  BY DEF heap, lockVars, rootVars
<1>4. newborn' \in [GCTypes -> Things \cup {Null}]
  BY <1>1 DEF TypeOK
<1>5. TypeOK' /\ WellFormed(lrs)' /\ LocksMatch'
  BY <1>1, <1>3, <1>4 DEF TypeOK, Carved, LocksMatch, Deep
<1>6. Roots' \subseteq Held \cup {Null}
  BY <1>2, <1>3 DEF Roots
<1>7. locked' \subseteq Live
  BY <1>3 DEF Live
<1>8. /\ LiveIsAllocated' /\ FreeListSound' /\ Held' \subseteq Held /\ Live' \subseteq Live
      /\ Allocated' = Allocated
  BY <1>1, <1>2, <1>3, <1>5, <1>6, <1>7, HeapKept
<1>9. ASSUME newborn' = newborn PROVE Held' = Held /\ Live' = Live
  BY <1>3, <1>9 DEF Held, Live, Reach, Roots
<1> QED
  BY <1>5, <1>8, <1>9

\* A request, which is not answered yet.
LEMMA NewGCThingKeeps ==
  ASSUME HeapInv, NEW y \in GCTypes, NewGCThing(y)
  PROVE  HeapInv'
<1>1. /\ UNCHANGED <<heap, lockVars, rootVars, newborn, lrs, gcPoke, gcLevel, unswept>>
      /\ pc = "run" /\ pc' = "alloc" /\ request' = [type |-> y, tried |-> FALSE]
  BY DEF NewGCThing, Running
<1>2. /\ gcPoke' \in BOOLEAN /\ gcLevel' \in 0..2
      /\ request' \in [type : GCTypes \cup {"none"}, tried : BOOLEAN]
  BY <1>1 DEF HeapInv, TypeOK
<1>3. TypeOK' /\ WellFormed(lrs)' /\ LocksMatch' /\ LiveIsAllocated' /\ FreeListSound'
  BY <1>1, <1>2, PhaseStep
<1>4. PhasesAgree' /\ Collecting' /\ Precise'
  BY <1>1 DEF HeapInv, PhasesAgree, Collecting, Precise
<1> QED
  BY <1>3, <1>4 DEF HeapInv

\* The collection that js_NewGCThing runs when it finds nothing.
LEMMA LastDitchKeeps ==
  ASSUME HeapInv, LastDitch
  PROVE  HeapInv'
<1>1. /\ UNCHANGED <<heap, lockVars, rootVars, newborn, lrs, unswept>>
      /\ pc = "alloc" /\ pc' = "mark" /\ gcLevel' = 1 /\ gcPoke' = FALSE
      /\ request' = [request EXCEPT !.tried = TRUE]
  BY DEF LastDitch, Allocating
<1>2. /\ request' \in [type : GCTypes \cup {"none"}, tried : BOOLEAN]
      /\ request'.type = request.type /\ request'.tried = TRUE
  BY <1>1 DEF HeapInv, TypeOK
<1>5. gcPoke' \in BOOLEAN /\ gcLevel' \in 0..2
  <2>1. gcPoke' \in BOOLEAN
    BY <1>1
  <2>2. gcLevel' \in 0..2
    BY <1>1
  <2> QED
    BY <2>1, <2>2
<1>3. TypeOK' /\ WellFormed(lrs)' /\ LocksMatch' /\ LiveIsAllocated' /\ FreeListSound'
  BY <1>1, <1>2, <1>5, PhaseStep
<1>4. PhasesAgree' /\ Collecting' /\ Precise'
  BY <1>1, <1>2 DEF HeapInv, PhasesAgree, Collecting, Precise
<1> QED
  BY <1>3, <1>4 DEF HeapInv

\* js_NewGCThing fails, and only when everything is live.
LEMMA OutOfMemoryKeeps ==
  ASSUME HeapInv, OutOfMemory
  PROVE  HeapInv' /\ Allocated = Live
<1>1. /\ UNCHANGED <<heap, lockVars, rootVars, newborn, lrs, gcPoke, gcLevel, unswept>>
      /\ pc = "alloc" /\ pc' = "run" /\ request' = NoRequest /\ request.tried
  BY DEF OutOfMemory, Allocating, Answered
<1>2. /\ gcPoke' \in BOOLEAN /\ gcLevel' \in 0..2
      /\ request' \in [type : GCTypes \cup {"none"}, tried : BOOLEAN]
  BY <1>1 DEF HeapInv, TypeOK, NoRequest
<1>3. TypeOK' /\ WellFormed(lrs)' /\ LocksMatch' /\ LiveIsAllocated' /\ FreeListSound'
  BY <1>1, <1>2, PhaseStep
<1>4. PhasesAgree' /\ Collecting' /\ Precise'
  BY <1>1 DEF HeapInv, PhasesAgree, Collecting, Precise
<1>5. Allocated = Live
  BY <1>1 DEF HeapInv, PhasesAgree
<1> QED
  BY <1>3, <1>4, <1>5 DEF HeapInv

\* JS_GC, from the program.
LEMMA ForceGCKeeps ==
  ASSUME HeapInv, ForceGC
  PROVE  HeapInv'
<1>1. /\ UNCHANGED <<heap, lockVars, rootVars, lrs, unswept, request>>
      /\ newborn' = [y \in GCTypes |-> Null]
      /\ pc = "run" /\ pc' = "mark" /\ gcLevel' = 1 /\ gcPoke' = FALSE
  BY DEF ForceGC, Running
<1>2. request' \in [type : GCTypes \cup {"none"}, tried : BOOLEAN]
  BY <1>1 DEF HeapInv, TypeOK
<1>6. gcPoke' \in BOOLEAN /\ gcLevel' \in 0..2
  <2>1. gcPoke' \in BOOLEAN
    BY <1>1
  <2>2. gcLevel' \in 0..2
    BY <1>1
  <2> QED
    BY <2>1, <2>2
<1>3. TypeOK' /\ WellFormed(lrs)' /\ LocksMatch' /\ LiveIsAllocated' /\ FreeListSound'
  BY <1>1, <1>2, <1>6, PhaseStep
<1>4. PhasesAgree' /\ Collecting' /\ Precise'
  BY <1>1 DEF HeapInv, PhasesAgree, Collecting, Precise
<1> QED
  BY <1>3, <1>4 DEF HeapInv

\* JS_GC, from a finalizer.
LEMMA NestedGCKeeps ==
  ASSUME HeapInv, NestedGC
  PROVE  HeapInv'
<1>1. /\ UNCHANGED <<heap, lockVars, rootVars, lrs, pc, unswept, request>>
      /\ newborn' = [y \in GCTypes |-> Null]
      /\ pc = "finalize" /\ gcLevel' = 2 /\ gcPoke' = FALSE
  BY DEF NestedGC, Finalizing
<1>2. /\ request' \in [type : GCTypes \cup {"none"}, tried : BOOLEAN]
      /\ pc' \in {"run", "alloc", "mark", "sweep", "finalize", "swept", "free"}
  BY <1>1 DEF HeapInv, TypeOK
<1>6. gcPoke' \in BOOLEAN /\ gcLevel' \in 0..2
  <2>1. gcPoke' \in BOOLEAN
    BY <1>1
  <2>2. gcLevel' \in 0..2
    BY <1>1
  <2> QED
    BY <2>1, <2>2
<1>3. /\ TypeOK' /\ WellFormed(lrs)' /\ LocksMatch' /\ LiveIsAllocated' /\ FreeListSound'
      /\ Held' \subseteq Held
  BY <1>1, <1>2, <1>6, PhaseStep
<1>4. PhasesAgree' /\ Precise'
  BY <1>1 DEF HeapInv, PhasesAgree, Precise
<1>5. Collecting'
  BY <1>1, <1>3 DEF HeapInv, Collecting, Held, heap
<1> QED
  BY <1>3, <1>4, <1>5 DEF HeapInv

\* The sweep goes on after a finalizer.
LEMMA FinalizerReturnsKeeps ==
  ASSUME HeapInv, FinalizerReturns
  PROVE  HeapInv'
<1>1. /\ UNCHANGED <<heap, lockVars, rootVars, newborn, lrs, gcPoke, gcLevel, unswept, request>>
      /\ pc = "finalize" /\ pc' = "sweep"
  BY DEF FinalizerReturns, Finalizing
<1>2. /\ request' \in [type : GCTypes \cup {"none"}, tried : BOOLEAN]
      /\ gcPoke' \in BOOLEAN /\ gcLevel' \in 0..2
  BY <1>1 DEF HeapInv, TypeOK
<1>3. /\ TypeOK' /\ WellFormed(lrs)' /\ LocksMatch' /\ LiveIsAllocated' /\ FreeListSound'
      /\ Held' = Held /\ Live' = Live /\ Allocated' = Allocated
  BY <1>1, <1>2, PhaseStep
<1>4. PhasesAgree'
  BY <1>1 DEF HeapInv, PhasesAgree
<1>5. Collecting' /\ Precise'
  BY <1>1, <1>3 DEF HeapInv, Collecting, Precise, Held, heap
<1> QED
  BY <1>3, <1>4, <1>5 DEF HeapInv

\* js_GC starts again.
LEMMA RestartKeeps ==
  ASSUME HeapInv, Restart
  PROVE  HeapInv'
<1>1. /\ UNCHANGED <<heap, lockVars, rootVars, newborn, lrs, unswept, request>>
      /\ pc = "free" /\ pc' = "mark" /\ gcLevel' = 1 /\ gcPoke' = FALSE
  BY DEF Restart
<1>2. request' \in [type : GCTypes \cup {"none"}, tried : BOOLEAN]
  BY <1>1 DEF HeapInv, TypeOK
<1>6. gcPoke' \in BOOLEAN /\ gcLevel' \in 0..2
  <2>1. gcPoke' \in BOOLEAN
    BY <1>1
  <2>2. gcLevel' \in 0..2
    BY <1>1
  <2> QED
    BY <2>1, <2>2
<1>3. TypeOK' /\ WellFormed(lrs)' /\ LocksMatch' /\ LiveIsAllocated' /\ FreeListSound'
  BY <1>1, <1>2, <1>6, PhaseStep
<1>4. PhasesAgree' /\ Collecting' /\ Precise'
  BY <1>1 DEF HeapInv, PhasesAgree, Collecting, Precise
<1> QED
  BY <1>3, <1>4 DEF HeapInv

\* js_GC returns: nothing was let go of, so what is left is live.
LEMMA EndGCKeeps ==
  ASSUME HeapInv, EndGC
  PROVE  HeapInv' /\ Allocated' = Live'
<1>1. /\ UNCHANGED <<heap, lockVars, rootVars, newborn, lrs, gcPoke, unswept, request>>
      /\ pc = "free" /\ gcLevel' = 0 /\ ~(gcLevel > 1) /\ ~gcPoke
      /\ pc' = IF request = NoRequest THEN "run" ELSE "alloc"
  BY DEF EndGC, MustRestart
<1>2. /\ request' \in [type : GCTypes \cup {"none"}, tried : BOOLEAN]
      /\ gcPoke' \in BOOLEAN /\ gcLevel \in 0..2
  BY <1>1 DEF HeapInv, TypeOK
<1>3. /\ TypeOK' /\ WellFormed(lrs)' /\ LocksMatch' /\ LiveIsAllocated' /\ FreeListSound'
      /\ Live' = Live /\ Allocated' = Allocated
  BY <1>1, <1>2, PhaseStep
<1>4. gcLevel = 1 /\ unswept = {}
  BY <1>1, <1>2 DEF HeapInv, PhasesAgree
<1>5. Allocated' = Live'
  BY <1>1, <1>3, <1>4 DEF HeapInv, Precise, LiveIsAllocated
<1>6. PhasesAgree' /\ Collecting' /\ Precise'
  BY <1>1, <1>4, <1>5 DEF HeapInv, PhasesAgree, Collecting, Precise
<1> QED
  BY <1>3, <1>5, <1>6 DEF HeapInv

-----------------------------------------------------------------------------
(* Allocation.                                                             *)

\* What is added at the end of a sequence is its only new element.
LEMMA AppendFacts ==
  ASSUME NEW S, NEW s \in Seq(S), NEW e \in S
  PROVE  /\ ToSet(Append(s, e)) = ToSet(s) \cup {e}
         /\ IsInjective(s) /\ e \notin ToSet(s) => IsInjective(Append(s, e))
<1> DEFINE n == Len(s)
           p == Append(s, e)
<1>1. /\ DOMAIN s = 1..n /\ n \in Nat /\ DOMAIN p = 1..n + 1
      /\ \A i \in 1..n : p[i] = s[i]
      /\ p[n + 1] = e
  OBVIOUS
<1>2. \A i \in 1..n + 1 : i \in 1..n \/ i = n + 1
  BY <1>1
<1>3. 1..n \subseteq 1..n + 1 /\ n + 1 \in 1..n + 1
  BY <1>1
<1> HIDE DEF n, p
<1>4. ToSet(p) = ToSet(s) \cup {e}
  BY <1>1, <1>2, <1>3 DEF ToSet
<1>5. ASSUME IsInjective(s), e \notin ToSet(s) PROVE IsInjective(p)
  <2>1. \A i, j \in 1..n : s[i] = s[j] => i = j
    BY <1>1, <1>5 DEF IsInjective
  <2>2. \A i \in 1..n : s[i] # e
    BY <1>1, <1>5 DEF ToSet
  <2> SUFFICES ASSUME NEW i \in 1..n + 1, NEW j \in 1..n + 1, p[i] = p[j] PROVE i = j
    BY <1>1 DEF IsInjective
  <2> QED
    BY <1>1, <1>2, <2>1, <2>2
<1> QED
  BY <1>4, <1>5 DEF p

\* Without its head, an injective sequence does not have that element.
LEMMA TailFacts ==
  ASSUME NEW S, NEW s \in Seq(S), s # << >>, IsInjective(s)
  PROVE  /\ Tail(s) \in Seq(S) /\ IsInjective(Tail(s))
         /\ Head(s) \in ToSet(s) /\ ToSet(Tail(s)) \subseteq ToSet(s) \ {Head(s)}
<1> DEFINE n == Len(s)
           q == Tail(s)
<1>1. /\ DOMAIN s = 1..n /\ n \in Nat \ {0}
      /\ q \in Seq(S) /\ Len(q) = n - 1 /\ DOMAIN q = 1..n - 1
      /\ \A i \in 1..n - 1 : q[i] = s[i + 1]
      /\ Head(s) = s[1]
  OBVIOUS
<1>2. \A i, j \in 1..n : s[i] = s[j] => i = j
  BY <1>1 DEF IsInjective
<1>3. \A i \in 1..n - 1 : i + 1 \in 1..n /\ i + 1 # 1
  BY <1>1
<1>4. 1 \in 1..n
  BY <1>1
<1> HIDE DEF n, q
<1>5. IsInjective(q)
  <2> SUFFICES ASSUME NEW i \in 1..n - 1, NEW j \in 1..n - 1, q[i] = q[j] PROVE i = j
    BY <1>1 DEF IsInjective
  <2>1. i + 1 = j + 1
    BY <1>1, <1>2, <1>3
  <2> QED
    BY <2>1
<1>6. Head(s) \in ToSet(s) /\ ToSet(q) \subseteq ToSet(s) \ {Head(s)}
  BY <1>1, <1>2, <1>3, <1>4 DEF ToSet
<1> QED
  BY <1>1, <1>5, <1>6 DEF q

\* A place that is not in use is handed out, or is free again.
LEMMA DeliveredKeeps ==
  ASSUME HeapInv, pc = "alloc", NEW t \in Things, t \notin Allocated, Delivered(t),
         pool' \in Seq(Arenas), IsInjective(pool)', carved' \in [Arenas -> 0..ArenaSize],
         Carved' = Carved \cup {t},
         freeList' \in Seq(Things), IsInjective(freeList)',
         ToSet(freeList') \subseteq (final \cap Carved) \ {t}
  PROVE  HeapInv'
<1>1. /\ TypeOK /\ WellFormed(lrs) /\ LocksMatch /\ PhasesAgree /\ LiveIsAllocated /\ FreeListSound
      /\ unswept = {} /\ gcLevel = 0 /\ request.type \in GCTypes
  BY DEF HeapInv, PhasesAgree
<1>2. /\ Roots \subseteq Held \cup {Null} /\ Held \subseteq Things
      /\ \A u \in Held : ref[u] \in Held \cup {Null}
  BY <1>1, HeldFacts
<1>3. /\ UNCHANGED <<marked, locked, locksHash, calls, rooted, rootVal, gcPoke, gcLevel, unswept>>
      /\ pc' = "run" /\ request' = NoRequest
  BY DEF Delivered, Born, Stillborn, Answered, lockVars, rootVars
<1>4. t \notin Held /\ t \notin locked /\ calls[t] = 0
  BY <1>1 DEF LiveIsAllocated, Live, Held, LocksMatch
<1>5. request' \in [type : GCTypes \cup {"none"}, tried : BOOLEAN]
  BY <1>3 DEF NoRequest
<1>6. PhasesAgree' /\ Collecting' /\ Precise'
  BY <1>1, <1>3 DEF PhasesAgree, Collecting, Precise
<1>7. IsFiniteSet(Allocated') /\ IsFiniteSet(Allocated) /\ Allocated' \subseteq Things
  BY ThingsFacts, FS_Subset DEF Allocated, Carved
<1>8. CASE Stillborn(t)
  <2>1. UNCHANGED <<type, gcBytes, ref, newborn, lrs>> /\ final' = final \cup {t}
    BY <1>8 DEF Stillborn
  <2>2. Allocated' = Allocated
    BY <2>1 DEF Allocated
  <2>3. Held' = Held /\ Live' = Live
    BY <1>3, <2>1 DEF Held, Live, Reach, Roots
  <2>4. LiveIsAllocated' /\ FreeListSound'
    BY <1>1, <2>1, <2>2, <2>3 DEF LiveIsAllocated, FreeListSound
  <2>5. WellFormed(lrs)' /\ LocksMatch'
    BY <1>1, <1>3, <2>1 DEF LocksMatch, Deep
  <2>6. TypeOK'
    BY <1>1, <1>3, <1>5, <2>1 DEF TypeOK
  <2> QED
    BY <1>6, <2>4, <2>5, <2>6 DEF HeapInv
<1>9. CASE Born(t)
  <2>1. /\ type' = [type EXCEPT ![t] = request.type] /\ final' = final \ {t}
        /\ gcBytes' = gcBytes + 1 /\ ref' = [ref EXCEPT ![t] = Null]
        /\ IF lrs.open THEN lrs' = PushLocalRoot(lrs, Root(t)) /\ UNCHANGED newborn
           ELSE newborn' = [newborn EXCEPT ![request.type] = t] /\ UNCHANGED lrs
    BY <1>9 DEF Born
  <2>2. Allocated' = Allocated \cup {t}
    BY <2>1 DEF Allocated
  <2>3. WellFormed(lrs)' /\ Entries(lrs') \subseteq Entries(lrs) \cup {t}
    BY <1>1, <2>1, PushFacts
  <2>4. /\ type' \in [Things -> GCTypes] /\ ref' \in [Things -> Things \cup {Null}]
        /\ newborn' \in [GCTypes -> Things \cup {Null}]
        /\ \A u \in Things : u # t => type'[u] = type[u] /\ ref'[u] = ref[u]
        /\ ref'[t] = Null
    BY <1>1, <2>1 DEF TypeOK
  <2>5. FreeListSound' /\ gcBytes' \in 0..Cardinality(Things)
    <3>1. Cardinality(Allocated') = Cardinality(Allocated) + 1
      BY <1>7, <2>2, FS_AddElement
    <3>2. gcBytes' = Cardinality(Allocated')
      BY <1>1, <2>1, <3>1 DEF FreeListSound
    <3>3. Cardinality(Allocated') <= Cardinality(Things) /\ Cardinality(Allocated') \in Nat
          /\ Cardinality(Things) \in Nat
      BY <1>7, ThingsFacts, FS_Subset, FS_CardinalityType
    <3>4. ToSet(freeList)' \subseteq final' \cap Carved'
      BY <2>1
    <3> QED
      BY <3>2, <3>3, <3>4 DEF FreeListSound
  <2>6. TypeOK'
    BY <1>1, <1>3, <1>5, <2>1, <2>3, <2>4, <2>5 DEF TypeOK, WellFormed
  <2>7. LocksMatch'
    BY <1>1, <1>3, <1>4, <2>4 DEF LocksMatch, Deep
  <2>8. Roots' \subseteq (Held \cup {t}) \cup {Null}
    <3>1. \A y \in GCTypes : newborn'[y] \in {newborn[y], t}
      BY <1>1, <2>1 DEF TypeOK
    <3>2. LocalRoots(lrs)' \subseteq Entries(lrs) \cup {t} /\ Entries(lrs) = LocalRoots(lrs)
      BY <1>1, <2>3, LocalRootsFacts
    <3> QED
      BY <1>2, <1>3, <3>1, <3>2 DEF Roots
  <2>9. Held' \subseteq Held \cup {t}
    <3>1. \A u \in Held \cup {t} : ref'[u] \in (Held \cup {t}) \cup {Null}
      BY <1>2, <1>4, <2>4
    <3>2. Roots' \in SUBSET (Things \cup {Null}) /\ Held \cup {t} \in SUBSET Things
      BY <1>2, <2>8
    <3>3. \A C \in SUBSET Things :
            Roots' \subseteq C \cup {Null} /\ (\A u \in C : ref'[u] \in C \cup {Null}) =>
              ReachBy(ref', Roots') \subseteq C
      BY <2>4, <3>2, ReachFacts
    <3>4. ReachBy(ref', Roots') \subseteq Held \cup {t}
      BY <2>8, <3>1, <3>2, <3>3
    <3> QED
      BY <3>4 DEF Held, Reach
  <2>10. LiveIsAllocated'
    BY <1>1, <1>3, <2>2, <2>9 DEF LiveIsAllocated, Live, Held
  <2> QED
    BY <1>6, <2>3, <2>5, <2>6, <2>7, <2>10 DEF HeapInv
<1> QED
  BY <1>8, <1>9 DEF Delivered

\* The first place of the free list.
LEMMA RecycleKeeps ==
  ASSUME HeapInv, Recycle
  PROVE  HeapInv'
<1>1. /\ pc = "alloc" /\ freeList # << >> /\ freeList' = Tail(freeList)
      /\ UNCHANGED <<pool, carved>> /\ Delivered(Head(freeList))
  BY DEF Recycle, Allocating
<1>2. TypeOK /\ FreeListSound
  BY DEF HeapInv
<1>3. freeList \in Seq(Things) /\ IsInjective(freeList) /\ ToSet(freeList) \subseteq final \cap Carved
  BY <1>2 DEF TypeOK, FreeListSound
<1>4. /\ freeList' \in Seq(Things) /\ IsInjective(freeList')
      /\ Head(freeList) \in ToSet(freeList)
      /\ ToSet(freeList') \subseteq ToSet(freeList) \ {Head(freeList)}
  BY <1>1, <1>3, TailFacts
<1>5. Head(freeList) \in Carved /\ Head(freeList) \in Things /\ Head(freeList) \notin Allocated
  BY <1>3, <1>4 DEF Carved, Allocated
<1>6. Carved' = Carved \cup {Head(freeList)}
  BY <1>1, <1>5 DEF Carved
<1>7. pool' \in Seq(Arenas) /\ IsInjective(pool)' /\ carved' \in [Arenas -> 0..ArenaSize]
  BY <1>1, <1>2 DEF TypeOK
<1>8. ToSet(freeList') \subseteq (final \cap Carved) \ {Head(freeList)}
  BY <1>3, <1>4
<1> QED
  BY <1>1, <1>4, <1>5, <1>6, <1>7, <1>8, DeliveredKeeps

\* The next place of the last arena.
LEMMA CarveKeeps ==
  ASSUME HeapInv, Carve
  PROVE  HeapInv'
<1> DEFINE a == Last(pool)
           t == <<a, carved[a] + 1>>
<1>1. /\ pc = "alloc" /\ freeList = << >> /\ pool # << >> /\ carved[a] < ArenaSize
      /\ carved' = [carved EXCEPT ![a] = carved[a] + 1]
      /\ UNCHANGED <<pool, freeList>> /\ Delivered(t)
  BY DEF Carve, Allocating, MayGrow, Room
<1>2. /\ pool \in Seq(Arenas) /\ IsInjective(pool) /\ carved \in [Arenas -> 0..ArenaSize]
      /\ freeList \in Seq(Things) /\ IsInjective(freeList)
  BY DEF HeapInv, TypeOK, FreeListSound
<1>3. a \in Arenas /\ a \in ToSet(pool)
  BY <1>1, <1>2 DEF ToSet, Last
<1> HIDE DEF a
<1>4. carved[a] \in Nat /\ carved[a] + 1 \in 1..ArenaSize
  BY <1>1, <1>2, <1>3, SizesAssumption
<1>5. t \in Things /\ t[1] = a /\ t[2] = carved[a] + 1
  BY <1>3, <1>4 DEF Things
<1>6. t \notin Carved
  BY <1>4, <1>5 DEF Carved
<1>7. carved' \in [Arenas -> 0..ArenaSize] /\ carved'[a] = carved[a] + 1
      /\ \A b \in Arenas : b # a => carved'[b] = carved[b]
  BY <1>1, <1>2, <1>3, <1>4
<1>8. Carved' = Carved \cup {t}
  <2> SUFFICES ASSUME NEW u \in Things
               PROVE  u \in Carved' <=> u \in Carved \/ u = t
    BY <1>5 DEF Carved
  <2>1. u[1] \in Arenas /\ u[2] \in 1..ArenaSize /\ u = <<u[1], u[2]>>
    BY ThingsFacts
  <2>2. CASE u[1] = a
    <3>1. u \in Carved' <=> u[2] <= carved[a] + 1
      BY <1>1, <1>3, <1>7, <2>2 DEF Carved
    <3>2. u \in Carved <=> u[2] <= carved[a]
      BY <1>3, <2>2 DEF Carved
    <3>3. u = t <=> u[2] = carved[a] + 1
      BY <1>5, <2>1, <2>2
    <3> QED
      BY <1>4, <2>1, <3>1, <3>2, <3>3
  <2>3. CASE u[1] # a
    BY <1>1, <1>5, <1>7, <2>1, <2>3 DEF Carved
  <2> QED
    BY <2>2, <2>3
<1>9. t \notin Allocated
  BY <1>6 DEF Allocated
<1>10. ToSet(freeList') \subseteq (final \cap Carved) \ {t}
  BY <1>1 DEF ToSet
<1>11. pool' \in Seq(Arenas) /\ IsInjective(pool)' /\ freeList' \in Seq(Things) /\ IsInjective(freeList)'
  BY <1>1, <1>2
<1> HIDE DEF t
<1> QED
  BY <1>1, <1>5, <1>7, <1>8, <1>9, <1>10, <1>11, DeliveredKeeps

\* The first place of a new arena.
LEMMA NewArenaKeeps ==
  ASSUME HeapInv, NEW a \in Arenas, NewArena(a)
  PROVE  HeapInv'
<1> DEFINE t == <<a, 1>>
<1>1. /\ pc = "alloc" /\ freeList = << >> /\ a \notin ToSet(pool)
      /\ pool' = Append(pool, a) /\ carved' = [carved EXCEPT ![a] = 1]
      /\ UNCHANGED freeList /\ Delivered(t)
  BY DEF NewArena, Allocating, MayGrow
<1>2. /\ pool \in Seq(Arenas) /\ IsInjective(pool) /\ carved \in [Arenas -> 0..ArenaSize]
      /\ freeList \in Seq(Things) /\ IsInjective(freeList)
  BY DEF HeapInv, TypeOK, FreeListSound
<1>3. /\ pool' \in Seq(Arenas) /\ IsInjective(pool)' /\ ToSet(pool') = ToSet(pool) \cup {a}
  BY <1>1, <1>2, AppendFacts
<1>4. t \in Things /\ t[1] = a /\ t[2] = 1 /\ t \notin Carved
  BY <1>1, SizesAssumption DEF Things, Carved
<1>5. carved' \in [Arenas -> 0..ArenaSize] /\ carved'[a] = 1
      /\ \A b \in Arenas : b # a => carved'[b] = carved[b]
  BY <1>1, <1>2, SizesAssumption
<1>6. Carved' = Carved \cup {t}
  <2> SUFFICES ASSUME NEW u \in Things
               PROVE  u \in Carved' <=> u \in Carved \/ u = t
    BY <1>4 DEF Carved
  <2>1. u[1] \in Arenas /\ u[2] \in 1..ArenaSize /\ u = <<u[1], u[2]>>
    BY ThingsFacts
  <2>2. CASE u[1] = a
    <3>1. u \in Carved' <=> u[2] <= 1
      BY <1>3, <1>5, <2>2 DEF Carved
    <3>2. u \notin Carved
      BY <1>1, <2>2 DEF Carved
    <3>3. u = t <=> u[2] = 1
      BY <1>4, <2>1, <2>2
    <3> QED
      BY <2>1, <3>1, <3>2, <3>3
  <2>3. CASE u[1] # a
    BY <1>3, <1>4, <1>5, <2>1, <2>3 DEF Carved
  <2> QED
    BY <2>2, <2>3
<1>7. t \notin Allocated
  BY <1>4 DEF Allocated
<1>8. ToSet(freeList') \subseteq (final \cap Carved) \ {t}
  BY <1>1 DEF ToSet
<1>9. freeList' \in Seq(Things) /\ IsInjective(freeList)'
  BY <1>1, <1>2
<1> HIDE DEF t
<1> QED
  BY <1>1, <1>3, <1>4, <1>5, <1>6, <1>7, <1>8, <1>9, DeliveredKeeps

-----------------------------------------------------------------------------
(* Marking, sweeping and freeing.                                          *)

\* Marking marks what is held, and has the sweep start at the first arena.
LEMMA MarkPhaseKeeps ==
  ASSUME HeapInv, MarkPhase
  PROVE  HeapInv'
<1>1. TypeOK /\ WellFormed(lrs) /\ PhasesAgree /\ LiveIsAllocated /\ FreeListSound
  BY DEF HeapInv
<1>2. Held \subseteq Things
  BY <1>1, HeldFacts
<1>3. /\ UNCHANGED <<pool, carved, freeList, type, final, ref, gcBytes, locked, locksHash, calls,
                     rooted, rootVal, newborn, lrs, gcPoke, gcLevel, request>>
      /\ marked' = Held /\ unswept' = Carved /\ pc = "mark" /\ pc' = "sweep"
  BY DEF MarkPhase, lockVars, rootVars, Held
<1>4. Held' = Held /\ Live' = Live /\ Allocated' = Allocated /\ Carved' = Carved
  BY <1>3 DEF Held, Live, Reach, Roots, Allocated, Carved
<1>5. TypeOK' /\ WellFormed(lrs)' /\ LocksMatch'
  BY <1>1, <1>2, <1>3, <1>4 DEF HeapInv, TypeOK, LocksMatch, Deep
<1>6. LiveIsAllocated' /\ FreeListSound'
  BY <1>1, <1>3, <1>4 DEF LiveIsAllocated, FreeListSound
<1>7. PhasesAgree'
  BY <1>1, <1>3 DEF PhasesAgree
<1>8. Collecting' /\ Precise'
  BY <1>3, <1>4 DEF Collecting, Precise, Held, Live, Allocated
<1> QED
  BY <1>5, <1>6, <1>7, <1>8 DEF HeapInv

\* A sweep of any things frees nothing that is live, and whatever it keeps was
\* marked or locked.
LEMMA SweepKeeps ==
  ASSUME HeapInv, pc = "sweep", NEW past, SweepOf(past),
         \/ pc' = "finalize"
         \/ pc' = "swept" /\ past = unswept
  PROVE  HeapInv'
<1> DEFINE garbage == Garbage \cap past
<1>1. /\ TypeOK /\ WellFormed(lrs) /\ LocksMatch /\ PhasesAgree /\ LiveIsAllocated /\ FreeListSound
      /\ Collecting /\ Precise
  BY DEF HeapInv
<1>2. /\ Roots \subseteq Held \cup {Null} /\ Held \subseteq Things
      /\ Roots \in SUBSET (Things \cup {Null}) /\ ref \in [Things -> Things \cup {Null}]
  BY <1>1, HeldFacts, RootsFacts
<1>3. /\ unswept' = unswept \ past /\ marked' = marked \ past /\ final' = final \cup garbage
      /\ gcBytes' = gcBytes - Cardinality(garbage)
      /\ type' = [t \in Things |-> IF t \in garbage THEN "object" ELSE type[t]]
      /\ ref' = [t \in Things |-> IF t \in garbage THEN Null ELSE ref[t]]
      /\ UNCHANGED <<pool, carved, freeList, locked, locksHash, calls, rooted, rootVal, newborn, lrs,
                     gcPoke, gcLevel, request>>
  BY DEF SweepOf, lockVars, rootVars
<1>4. /\ garbage \subseteq Allocated /\ garbage \subseteq unswept /\ garbage \cap marked = {}
      /\ garbage \cap locked = {} /\ Allocated \subseteq Things
      /\ \A t \in unswept \cap past : t \in Allocated => t \in garbage \cup marked \cup locked
  BY <1>1 DEF Garbage, Spared, Allocated, Carved, TypeOK
<1> HIDE DEF garbage
<1>5. garbage \cap Held = {} /\ garbage \cap Live = {}
  BY <1>1, <1>4 DEF Collecting, Held, Live
<1>6. ref' \in [Things -> Things \cup {Null}] /\ type' \in [Things -> GCTypes]
  BY <1>1, <1>2, <1>3 DEF TypeOK, GCTypes
<1>7. Held' = Held /\ Live' = Live
  <2>1. Roots' = Roots
    BY <1>3 DEF Roots
  <2>2. \A t \in ReachBy(ref, Roots) : ref'[t] = ref[t]
    BY <1>2, <1>3, <1>5 DEF Held, Reach
  <2>3. ReachBy(ref', Roots) = ReachBy(ref, Roots)
    BY <1>2, <1>6, <2>2, ReachSame
  <2>4. Held' = Held
    BY <2>1, <2>3 DEF Held, Reach
  <2> QED
    BY <1>3, <2>4 DEF Live, Held
<1>8. Carved' = Carved /\ Allocated' = Allocated \ garbage
  BY <1>3 DEF Carved, Allocated
<1>9. gcBytes' = Cardinality(Allocated') /\ gcBytes' \in 0..Cardinality(Things)
  <2>1. IsFiniteSet(Allocated) /\ IsFiniteSet(Things) /\ Allocated \cap garbage = garbage
    BY <1>4, ThingsFacts, FS_Subset
  <2>2. Cardinality(Allocated \ garbage) = Cardinality(Allocated) - Cardinality(Allocated \cap garbage)
    BY <2>1, FS_Difference
  <2>3. gcBytes = Cardinality(Allocated)
    BY <1>1 DEF FreeListSound
  <2>4. gcBytes' = Cardinality(Allocated')
    BY <1>3, <1>8, <2>1, <2>2, <2>3
  <2>5. /\ Cardinality(Allocated') \in Nat /\ Cardinality(Things) \in Nat
        /\ Cardinality(Allocated') <= Cardinality(Things)
    BY <1>4, <1>8, <2>1, FS_Subset, FS_CardinalityType
  <2> QED
    BY <2>4, <2>5
<1>10. FreeListSound'
  BY <1>1, <1>3, <1>8, <1>9 DEF FreeListSound
<1>11. LiveIsAllocated'
  BY <1>1, <1>5, <1>7, <1>8 DEF LiveIsAllocated
<1>12. TypeOK'
  <2>1. final' \subseteq Things /\ marked' \subseteq Things /\ unswept' \subseteq Carved'
    BY <1>1, <1>3, <1>4, <1>8 DEF TypeOK
  <2> QED
    BY <1>1, <1>3, <1>6, <1>9, <2>1 DEF TypeOK
<1>13. WellFormed(lrs)' /\ LocksMatch'
  <2>1. \A t \in Things : calls[t] > 0 => t \in locked /\ type'[t] = type[t]
    BY <1>1, <1>3, <1>4 DEF LocksMatch, TypeOK
  <2>2. \A t \in Things : calls[t] = 0 \/ calls[t] > 0
    BY <1>1 DEF TypeOK
  <2> QED
    BY <1>1, <1>3, <2>1, <2>2 DEF LocksMatch, Deep
<1>14. PhasesAgree'
  BY <1>1, <1>3 DEF PhasesAgree
<1>15. Collecting'
  BY <1>1, <1>3, <1>7 DEF Collecting, Held
<1>16. Precise'
  <2> SUFFICES ASSUME gcLevel' = 1, ~gcPoke'
               PROVE  Allocated' \ unswept' \subseteq Live' /\ marked' \cap unswept' \subseteq Live'
    BY DEF Precise
  <2>1. Allocated \ unswept \subseteq Live /\ marked \cap unswept \subseteq Live
    BY <1>1, <1>3 DEF Precise
  <2>2. locked \subseteq Live
    BY DEF Live
  <2> QED
    BY <1>3, <1>4, <1>7, <1>8, <2>1, <2>2
<1> QED
  BY <1>1, <1>10, <1>11, <1>12, <1>13, <1>14, <1>15, <1>16 DEF HeapInv

\* js_GC's sweep, up to the next finalizer or to the end.
LEMMA SweepPhaseKeeps ==
  ASSUME HeapInv, Sweep
  PROVE  HeapInv'
BY SweepKeeps DEF Sweep

\* A listing of S in a strict order has each element of S once.
LEMMA ListingFacts ==
  ASSUME NEW S, IsFiniteSet(S), NEW less, \A u : <<u, u>> \notin less, NEW s \in Listings(S, less)
  PROVE  s \in Seq(S) /\ IsInjective(s) /\ ToSet(s) = S
<1>1. /\ s \in [1..Cardinality(S) -> S] /\ ToSet(s) = S
      /\ \A i, j \in 1..Cardinality(S) : i < j => <<s[i], s[j]>> \in less
  BY DEF Listings
<1>2. Cardinality(S) \in Nat
  BY FS_CardinalityType
<1>3. s \in Seq(S)
  BY <1>1, <1>2
<1>4. IsInjective(s)
  <2> SUFFICES ASSUME NEW i \in 1..Cardinality(S), NEW j \in 1..Cardinality(S), s[i] = s[j]
               PROVE  i = j
    BY <1>1 DEF IsInjective
  <2>1. ~(i < j) /\ ~(j < i)
    BY <1>1
  <2> QED
    BY <1>2, <2>1
<1> QED
  BY <1>1, <1>3, <1>4

\* No arena and no thing comes before itself.
LEMMA EarlierFacts ==
  ASSUME TypeOK
  PROVE  (\A a : ~EarlierArena(a, a)) /\ \A t \in Things : ~Earlier(t, t)
<1>1. DOMAIN pool = 1..Len(pool)
  BY DEF TypeOK
<1>2. \A a : ~EarlierArena(a, a)
  BY <1>1 DEF EarlierArena, TypeOK, IsInjective
<1> QED
  BY <1>2, ThingsFacts DEF Earlier

\* The free list is made of all that is free, and only empty arenas go.
LEMMA FreePhaseKeeps ==
  ASSUME HeapInv, FreePhase
  PROVE  HeapInv'
<1> DEFINE kept == {a \in ToSet(pool) : ~AllClear(a)}
<1>1. /\ TypeOK /\ WellFormed(lrs) /\ LocksMatch /\ PhasesAgree /\ LiveIsAllocated /\ FreeListSound
      /\ Precise
  BY DEF HeapInv
<1>2. /\ freeList' \in Listings(FreeThings, {p \in Things \X Things : Earlier(p[1], p[2])})
      /\ pool' \in Listings(kept, {p \in Arenas \X Arenas : EarlierArena(p[1], p[2])})
      /\ carved' = [a \in Arenas |-> IF AllClear(a) THEN 0 ELSE carved[a]]
      /\ final' = {t \in final : ~AllClear(t[1])}
      /\ pc = "swept" /\ pc' = "free"
      /\ UNCHANGED <<type, marked, ref, gcBytes, locked, locksHash, calls, rooted, rootVal, newborn,
                     lrs, gcPoke, gcLevel, unswept, request>>
  BY DEF FreePhase, lockVars, rootVars
<1>3. kept \subseteq Arenas /\ IsFiniteSet(kept) /\ FreeThings \subseteq Things /\ IsFiniteSet(FreeThings)
  <2>1. kept \subseteq Arenas
    BY <1>1 DEF TypeOK, ToSet
  <2>2. FreeThings \subseteq Things
    BY DEF FreeThings, Carved
  <2> QED
    BY <2>1, <2>2, ThingsFacts, SizesAssumption, FS_Subset
<1>4. freeList' \in Seq(Things) /\ IsInjective(freeList') /\ ToSet(freeList') = FreeThings
  <2> DEFINE less == {p \in Things \X Things : Earlier(p[1], p[2])}
  <2>1. \A u : <<u, u>> \notin less
    BY <1>1, EarlierFacts
  <2> HIDE DEF less
  <2>2. freeList' \in Seq(FreeThings) /\ IsInjective(freeList') /\ ToSet(freeList') = FreeThings
    BY <1>2, <1>3, <2>1, ListingFacts DEF less
  <2> QED
    BY <1>3, <2>2
<1>5. pool' \in Seq(Arenas) /\ IsInjective(pool') /\ ToSet(pool') = kept
  <2> DEFINE less == {p \in Arenas \X Arenas : EarlierArena(p[1], p[2])}
  <2>1. \A u : <<u, u>> \notin less
    BY <1>1, EarlierFacts
  <2> HIDE DEF less, kept
  <2>2. pool' \in Seq(kept) /\ IsInjective(pool') /\ ToSet(pool') = kept
    BY <1>2, <1>3, <2>1, ListingFacts DEF less
  <2> QED
    BY <1>3, <2>2
<1>6. carved' \in [Arenas -> 0..ArenaSize]
  BY <1>1, <1>2, SizesAssumption DEF TypeOK
<1>7. Carved' = {t \in Carved : ~AllClear(t[1])}
  BY <1>1, <1>2, <1>5, ThingsFacts DEF Carved
<1>8. \A t \in Carved : AllClear(t[1]) => t \in final
  <2> SUFFICES ASSUME NEW t \in Carved, AllClear(t[1]) PROVE t \in final
    OBVIOUS
  <2>1. t \in Things /\ t[2] <= carved[t[1]] /\ t[1] \in Arenas /\ t[2] \in 1..ArenaSize
        /\ t = <<t[1], t[2]>>
    BY ThingsFacts DEF Carved
  <2>2. t[2] \in 1..carved[t[1]]
    BY <1>1, <2>1, SizesAssumption DEF TypeOK
  <2> QED
    BY <2>1, <2>2 DEF AllClear
<1>9. Allocated' = Allocated
  BY <1>2, <1>7, <1>8 DEF Allocated
<1>10. Held' = Held /\ Live' = Live
  BY <1>2 DEF Held, Live, Reach, Roots
<1>11. LiveIsAllocated'
  BY <1>1, <1>9, <1>10 DEF LiveIsAllocated
<1>12. FreeListSound'
  BY <1>1, <1>2, <1>4, <1>7, <1>9 DEF FreeListSound, FreeThings
<1>13. unswept = {} /\ gcLevel \in {1, 2}
  BY <1>1, <1>2 DEF PhasesAgree, TypeOK
<1>14. TypeOK'
  <2>1. final' \subseteq Things /\ unswept' \subseteq Carved'
    BY <1>1, <1>2, <1>13 DEF TypeOK
  <2> QED
    BY <1>1, <1>2, <1>4, <1>5, <1>6, <2>1 DEF TypeOK
<1>15. WellFormed(lrs)' /\ LocksMatch'
  BY <1>1, <1>2 DEF LocksMatch, Deep
<1>16. PhasesAgree' /\ Collecting'
  BY <1>1, <1>2, <1>13 DEF PhasesAgree, Collecting
<1>17. Precise'
  BY <1>1, <1>2, <1>9, <1>10 DEF Precise
<1> QED
  BY <1>11, <1>12, <1>14, <1>15, <1>16, <1>17 DEF HeapInv

\* A step that changes nothing.
LEMMA StutterKeeps ==
  ASSUME HeapInv, UNCHANGED vars
  PROVE  HeapInv'
<1>1. UNCHANGED <<pool, carved, freeList, type, marked, final, ref, gcBytes, locked, locksHash,
                  calls, rooted, rootVal, newborn, lrs, gcPoke, gcLevel, pc, unswept, request>>
  BY DEF vars, heap, lockVars, rootVars, gcVars
<1>2. TypeOK' /\ WellFormed(lrs)' /\ LocksMatch'
  BY <1>1 DEF HeapInv, TypeOK, Carved, LocksMatch, Deep
<1>3. Carved' = Carved /\ Allocated' = Allocated /\ Held' = Held /\ Live' = Live
  BY <1>1 DEF Carved, Allocated, Held, Live, Reach, Roots
<1>4. LiveIsAllocated' /\ FreeListSound' /\ PhasesAgree'
  BY <1>1, <1>3 DEF HeapInv, LiveIsAllocated, FreeListSound, PhasesAgree
<1>5. Collecting' /\ Precise'
  BY <1>1, <1>3 DEF HeapInv, Collecting, Precise, Held
<1> QED
  BY <1>2, <1>4, <1>5 DEF HeapInv

-----------------------------------------------------------------------------
(* The theorems.                                                           *)

\* Every step keeps the invariant.
LEMMA HeapStep == HeapInv /\ [Next]_vars => HeapInv'
<1> SUFFICES ASSUME HeapInv, [Next]_vars PROVE HeapInv'
  OBVIOUS
<1>1. ASSUME NEW o \in Held, NEW v \in (Held \ {o}) \cup {Null}, SetSlot(o, v) PROVE HeapInv'
  BY <1>1, SetSlotKeeps
<1>2. ASSUME NEW r \in RootNames, RemoveRoot(r) PROVE HeapInv'
  BY <1>2, RemoveRootKeeps
<1>3. ASSUME NEW r \in RootNames, NEW v \in Held \cup {Null}, AddRoot(r, v) PROVE HeapInv'
  BY <1>3, AddRootKeeps
<1>4. ASSUME NEW t \in Things, LockGCThing(t) PROVE HeapInv'
  BY <1>4, LockKeeps
<1>5. ASSUME NEW t \in Things, UnlockGCThing(t) PROVE HeapInv'
  BY <1>5, UnlockKeeps
<1>6. ASSUME NEW t \in Things, ForgetLocalRoot(t) PROVE HeapInv'
  BY <1>6, LocalRootOpsKeep
<1>7. CASE EnterLocalRootScope \/ LeaveLocalRootScope
  BY <1>7, LocalRootOpsKeep
<1>8. ASSUME NEW y \in GCTypes, NewGCThing(y) PROVE HeapInv'
  BY <1>8, NewGCThingKeeps
<1>9. CASE Recycle
  BY <1>9, RecycleKeeps
<1>10. CASE Carve
  BY <1>10, CarveKeeps
<1>11. ASSUME NEW a \in Arenas, NewArena(a) PROVE HeapInv'
  BY <1>11, NewArenaKeeps
<1>12. CASE LastDitch
  BY <1>12, LastDitchKeeps
<1>13. CASE OutOfMemory
  BY <1>13, OutOfMemoryKeeps
<1>14. CASE ForceGC
  BY <1>14, ForceGCKeeps
<1>15. CASE NestedGC
  BY <1>15, NestedGCKeeps
<1>16. CASE Collect
  <2>1. CASE MarkPhase
    BY <2>1, MarkPhaseKeeps
  <2>2. CASE Sweep
    BY <2>2, SweepPhaseKeeps
  <2>3. CASE FinalizerReturns
    BY <2>3, FinalizerReturnsKeeps
  <2>4. CASE FreePhase
    BY <2>4, FreePhaseKeeps
  <2>5. CASE Restart
    BY <2>5, RestartKeeps
  <2>6. CASE EndGC
    BY <2>6, EndGCKeeps
  <2> QED
    BY <1>16, <2>1, <2>2, <2>3, <2>4, <2>5, <2>6 DEF Collect
<1>17. CASE UNCHANGED vars
  BY <1>17, StutterKeeps
<1> QED
  BY <1>1, <1>2, <1>3, <1>4, <1>5, <1>6, <1>7, <1>8, <1>9, <1>10, <1>11, <1>12, <1>13, <1>14,
     <1>15, <1>16, <1>17 DEF Next

\* The inductive invariant always holds.
LEMMA HeapInvariant == Spec => []HeapInv
BY InitHeap, HeapStep, PTL DEF Spec

\* Whatever the program does and its finalizers call, nothing that js_GC must keep is
\* free, and the free list and gcBytes agree with the arenas.
THEOREM HeapIsSound == Spec => []HeapSound
<1>1. HeapInv => HeapSound
  BY DEF HeapInv, HeapSound
<1> QED
  BY <1>1, HeapInvariant, PTL

\* js_LockGCThing and js_UnlockGCThing count, with and without an entry for the
\* first lock.
THEOREM LocksAreCounted == Spec => []LocksCounted
<1>1. HeapInv => LocksCounted
  <2> SUFFICES ASSUME HeapInv, NEW t \in Things PROVE t \in locked <=> calls[t] > 0
    BY DEF LocksCounted
  <2> QED
    BY DEF HeapInv, LocksMatch, TypeOK
<1> QED
  BY <1>1, HeapInvariant, PTL

\* js_PushLocalRoot, js_ForgetLocalRoot and js_LeaveLocalRootScope leave a stack that
\* js_MarkLocalRoots can walk: every chunk has its roots and every mark its place.
THEOREM LocalRootsAreSound == Spec => []LocalRootsSound
<1>1. HeapInv => LocalRootsSound
  <2> SUFFICES ASSUME HeapInv PROVE LocalRootsSound
    OBVIOUS
  <2>1. WellFormed(lrs)
    BY DEF HeapInv
  <2>2. LocalRoots(lrs) = Entries(lrs) /\ (lrs.open => 0 \in Marks(lrs))
    BY <2>1, LocalRootsFacts
  <2>3. Null \notin LocalRoots(lrs)
    <3>1. Null \notin Entries(lrs)
      BY DEF Entries
    <3> QED
      BY <2>2, <3>1
  <2>4. lrs.open => lrs.chunks = (Len(lrs.roots) - 1) \div ChunkSize + 1
    BY <2>1 DEF WellFormed
  <2> QED
    BY <2>2, <2>3, <2>4 DEF LocalRootsSound
<1> QED
  BY <1>1, HeapInvariant, PTL

\* The steps that are not js_GC's.
SetSlotOrRoots ==
  \/ \E o \in Held : \E v \in (Held \ {o}) \cup {Null} : SetSlot(o, v)
  \/ \E r \in RootNames : RemoveRoot(r) \/ \E v \in Held \cup {Null} : AddRoot(r, v)

LocksOrScopes ==
  \/ \E t \in Things : LockGCThing(t) \/ UnlockGCThing(t) \/ ForgetLocalRoot(t)
  \/ EnterLocalRootScope \/ LeaveLocalRootScope

Allocation ==
  \/ \E y \in GCTypes : NewGCThing(y)
  \/ Recycle \/ Carve \/ \E a \in Arenas : NewArena(a)
  \/ OutOfMemory

\* When js_GC returns, everything in the heap is live: what finalizers let go of had it
\* start again.
THEOREM EverythingIsCollected == Spec => CollectsEverything
<1>1. HeapInv /\ [Next]_vars => (gcLevel > 0 /\ gcLevel' = 0 => Allocated' = Live')
  <2> SUFFICES ASSUME HeapInv, [Next]_vars, gcLevel > 0, gcLevel' = 0 PROVE Allocated' = Live'
    OBVIOUS
  <2>1. ~(UNCHANGED gcLevel) /\ gcLevel' \notin {1, 2}
    OBVIOUS
  <2>2. ~SetSlotOrRoots
    BY <2>1 DEF SetSlotOrRoots, SetSlot, AddRoot, RemoveRoot, gcVars
  <2>3. ~LocksOrScopes
    BY <2>1 DEF LocksOrScopes, LockGCThing, UnlockGCThing, ForgetLocalRoot, EnterLocalRootScope,
                LeaveLocalRootScope, LocalRootOp, gcVars
  <2>4. ~Allocation
    BY <2>1 DEF Allocation, NewGCThing, Recycle, Carve, NewArena, Delivered, OutOfMemory
  <2>5. ~LastDitch /\ ~ForceGC /\ ~NestedGC /\ ~Restart
    BY <2>1 DEF LastDitch, ForceGC, NestedGC, Restart
  <2>6. ~MarkPhase /\ ~Sweep /\ ~FinalizerReturns /\ ~FreePhase /\ ~UNCHANGED vars
    BY <2>1 DEF MarkPhase, Sweep, SweepOf, FinalizerReturns, FreePhase, vars, gcVars
  <2> QED
    BY <2>2, <2>3, <2>4, <2>5, <2>6, EndGCKeeps
       DEF Next, Collect, SetSlotOrRoots, LocksOrScopes, Allocation
<1> QED
  BY <1>1, HeapInvariant, PTL DEF Spec, CollectsEverything

\* js_NewGCThing reports that memory is out only when nothing in the heap is garbage.
THEOREM OnlyFullFails == Spec => FailsOnlyWhenFull
<1>1. HeapInv => (OutOfMemory => Allocated = Live)
  BY OutOfMemoryKeeps
<1> QED
  BY <1>1, HeapInvariant, PTL DEF Spec, FailsOnlyWhenFull
=============================================================================
