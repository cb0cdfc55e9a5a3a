------------------------- MODULE PSEventListProofs --------------------------
(***************************************************************************)
(* The linked list of psselect.c, for any memory and any descriptors: that *)
(* it is well formed, and that it implements the sequence of PSEventSeq.   *)
(***************************************************************************)
EXTENDS PSEventList, NumbersAndLists, FiniteSetTheorems, TLAPS

Contents == [fd : Fds, next : Pointer, prev : Pointer]

Heaps == [head : Pointer, cell : [Cells -> Contents], live : SUBSET Cells]

-----------------------------------------------------------------------------
(* Walks that end.                                                         *)

\* What follows the first n cells of w.
After(w, n) == IF n = Len(w) THEN Null ELSE w[n + 1]

\* w lists the cells from the head of h on, to the Null that ends them.
IsPath(h, w) ==
  /\ w \in Seq(Cells)
  /\ h.head = After(w, 0)
  /\ \A i \in 1 .. Len(w) : h.cell[w[i]].next = After(w, i)

\* A function on 1 .. k is a sequence.
LEMMA IsSeq ==
  ASSUME NEW S, NEW k \in Nat, NEW s \in [1 .. k -> S]
  PROVE  s \in Seq(S) /\ Len(s) = k
OBVIOUS

\* No cell is met twice: the walk would go on as it did the first time.
LEMMA PathInjective ==
  ASSUME NEW h, NEW w, IsPath(h, w),
         NEW i \in 1 .. Len(w), NEW j \in 1 .. Len(w), w[i] = w[j]
  PROVE  i = j
<1> DEFINE twice(k) == \E l \in 1 .. k - 1 : w[l] = w[k]
           S == {k \in 1 .. Len(w) : twice(k)}
<1>1. w \in Seq(Cells) /\ Len(w) \in Nat
  BY DEF IsPath
<1>2. SUFFICES ASSUME S # {} PROVE FALSE
  <2>1. CASE i < j
    <3>1. i \in 1 .. j - 1
      BY <1>1, <2>1
    <3>2. j \in S
      BY <3>1
    <3> QED
      BY <1>2, <3>2
  <2>2. CASE j < i
    <3>1. j \in 1 .. i - 1
      BY <1>1, <2>2
    <3>2. i \in S
      BY <3>1
    <3> QED
      BY <1>2, <3>2
  <2> QED
    BY <1>1, <2>1, <2>2
<1>3. PICK m \in S : \A n \in S : n <= m
  <2>1. S \subseteq 0 .. Len(w) /\ Len(w) \in Int /\ S # {}
    BY <1>1, <1>2
  <2> HIDE DEF S
  <2> QED
    BY ONLY <2>1, Greatest, Zenon
<1>4. PICK l \in 1 .. m - 1 : w[l] = w[m]
  BY <1>3
<1>5. l \in 1 .. Len(w) /\ l # Len(w) /\ l + 1 \in 1 .. Len(w) /\ m \in 1 .. Len(w)
  BY <1>1, <1>3, <1>4
<1>6. h.cell[w[l]].next = w[l + 1] /\ h.cell[w[m]].next = After(w, m)
  BY <1>5 DEF IsPath, After
<1>7. w[l + 1] \in Cells /\ w[l + 1] # Null
  BY <1>1, <1>5, CellsAssumption
<1>8. m # Len(w) /\ w[l + 1] = w[m + 1]
  BY <1>4, <1>6, <1>7 DEF After
<1>9. m + 1 \in 1 .. Len(w) /\ l + 1 \in 1 .. (m + 1) - 1
  BY <1>1, <1>4, <1>5, <1>8
<1>10. m + 1 \in S
  BY <1>8, <1>9
<1> QED
  BY <1>3, <1>5, <1>10

\* There are n numbers from 1 to n, and n from 0 to n - 1.
LEMMA CountUpTo ==
  ASSUME NEW n \in Nat
  PROVE  Cardinality(1 .. n) = n
<1>1. Cardinality(1 .. n) = IF 1 > n THEN 0 ELSE n - 1 + 1
  <2>1. 1 \in Int /\ n \in Int
    OBVIOUS
  <2> QED
    BY ONLY <2>1, FS_Interval, Zenon
<1> QED
  BY <1>1

LEMMA CountFromZero ==
  ASSUME NEW n \in Nat
  PROVE  Cardinality(0 .. n - 1) = n
<1>1. Cardinality(0 .. n - 1) = IF 0 > n - 1 THEN 0 ELSE (n - 1) - 0 + 1
  <2>1. 0 \in Int /\ n - 1 \in Int
    OBVIOUS
  <2> QED
    BY ONLY <2>1, FS_Interval, Zenon
<1> QED
  BY <1>1

\* A walk that ends is no longer than the memory it is in.
LEMMA PathLength ==
  ASSUME NEW h, NEW w, IsPath(h, w), NEW S, S \subseteq Cells,
         \A i \in 1 .. Len(w) : w[i] \in S
  PROVE  /\ IsFiniteSet(S) /\ Cardinality(S) \in Nat
         /\ Len(w) <= Cardinality(S)
<1>1. w \in Seq(Cells) /\ Len(w) \in Nat
  BY DEF IsPath
<1>2. IsFiniteSet(S) /\ Cardinality(S) \in Nat
  BY CellsAssumption, FS_Subset, FS_CardinalityType
<1> DEFINE F == [i \in 1 .. Len(w) |-> w[i]]
<1>3. F \in Injection(1 .. Len(w), S)
  BY PathInjective DEF Injection, IsInjective
<1>4. Cardinality(1 .. Len(w)) = Len(w)
  BY <1>1, CountUpTo
<1>5. Cardinality(1 .. Len(w)) <= Cardinality(S)
  BY <1>2, <1>3, FS_Injection
<1> QED
  BY <1>2, <1>4, <1>5

-----------------------------------------------------------------------------
(* Step and Walk.                                                          *)

Addresses == Cardinality(Cells)

\* What is known of Step(h).
IsStep(h, at) ==
  /\ at \in [0 .. Addresses -> Pointer]
  /\ at[0] = h.head
  /\ \A n \in 1 .. Addresses :
       at[n] = IF at[n - 1] = Null THEN Null ELSE h.cell[at[n - 1]].next

LEMMA AddressesType == Addresses \in Nat
BY CellsAssumption, FS_CardinalityType DEF Addresses

LEMMA StepFacts ==
  ASSUME NEW h \in Heaps
  PROVE  IsStep(h, Step(h))
<1> DEFINE N == Addresses
           next(n, at) == IF n = 0 THEN h.head
                          ELSE IF at[n - 1] = Null THEN Null ELSE h.cell[at[n - 1]].next
           F == [p \in Nat \X Pointer |->
                   IF p[2] = Null THEN Null ELSE h.cell[p[2]].next]
<1>1. N \in Nat
  BY AddressesType
<1>2. h.head \in Pointer /\ Null \in Pointer
  BY DEF Heaps, Pointer
<1>3. F \in [Nat \X Pointer -> Pointer]
  <2>1. ASSUME NEW p \in Nat \X Pointer
        PROVE  (IF p[2] = Null THEN Null ELSE h.cell[p[2]].next) \in Pointer
    <3>1. p[2] \in Pointer
      OBVIOUS
    <3>2. ASSUME p[2] # Null PROVE h.cell[p[2]].next \in Pointer
      <4>1. p[2] \in Cells
        BY <3>1, <3>2 DEF Pointer
      <4> QED
        BY <4>1 DEF Heaps, Contents
    <3> QED
      BY <1>2, <3>2
  <2> QED
    BY <2>1
<1>4. PICK C : IsRecursion(C, N, Pointer, h.head, F)
  <2> HIDE DEF F, N
  <2> QED
    BY <1>1, <1>2, <1>3, PrimitiveRecursion
<1>5. /\ C \in [0 .. N -> Pointer]
      /\ C[0] = h.head
      /\ \A n \in 1 .. N : C[n] = F[<<n, C[n - 1]>>]
  BY <1>4 DEF IsRecursion
<1>6. ASSUME NEW n \in 1 .. N
      PROVE  C[n] = IF C[n - 1] = Null THEN Null ELSE h.cell[C[n - 1]].next
  <2>1. n - 1 \in 0 .. N /\ n \in Nat
    BY <1>1
  <2>2. <<n, C[n - 1]>> \in Nat \X Pointer
    BY <1>5, <2>1
  <2> QED
    BY <1>5, <2>2
<1> HIDE DEF F
<1> DEFINE Solves(at) == at = [n \in 0 .. N |-> next(n, at)]
<1>7. Solves(C)
  <2>1. ASSUME NEW n \in 0 .. N PROVE C[n] = next(n, C)
    <3>1. CASE n = 0
      BY <1>5, <3>1
    <3>2. CASE n # 0
      <4>1. n \in 1 .. N
        BY <1>1, <3>2
      <4> QED
        BY <1>6, <3>2, <4>1
    <3> QED
      BY <3>1, <3>2
  <2> HIDE DEF next
  <2> QED
    BY <1>5, <2>1
<1> DEFINE K == Step(h)
<1>8. K = CHOOSE at : Solves(at)
  BY DEF Step, Addresses
<1>9. Solves(K)
  <2> HIDE DEF Solves
  <2> QED
    BY <1>7, <1>8
<1> HIDE DEF K
<1>10. /\ K[0] = h.head
       /\ \A n \in 1 .. N :
            K[n] = IF K[n - 1] = Null THEN Null ELSE h.cell[K[n - 1]].next
  <2>1. 0 \in 0 .. N /\ \A n \in 1 .. N : n \in 0 .. N /\ n # 0
    BY <1>1
  <2> QED
    BY <1>9, <2>1
<1> DEFINE S == {n \in 0 .. N : K[n] = C[n]}
<1>11. \A n \in 0 .. N : n \in S
  <2>1. 0 \in S /\ \A n \in 1 .. N : n - 1 \in S => n \in S
    BY <1>1, <1>5, <1>6, <1>10
  <2> HIDE DEF S, N
  <2> QED
    BY ONLY <1>1, <2>1, UpTo, Zenon
<1>12. K \in [0 .. N -> Pointer]
  <2>1. \A n \in 0 .. N : K[n] \in Pointer
    BY <1>5, <1>11
  <2> QED
    BY <1>9, <2>1
<1> QED
  BY <1>10, <1>12 DEF IsStep, K

\* A walk that has met Null stays there.
LEMMA NullStays ==
  ASSUME NEW h, NEW at, IsStep(h, at), NEW i \in 0 .. Addresses, at[i] = Null,
         NEW j \in 0 .. Addresses, i <= j
  PROVE  at[j] = Null
<1> DEFINE S == {k \in 0 .. Addresses : i <= k => at[k] = Null}
<1>1. Addresses \in Nat
  BY AddressesType
<1>2. 0 \in S
  BY <1>1
<1>3. ASSUME NEW n \in 1 .. Addresses, n - 1 \in S PROVE n \in S
  <2>1. at[n] = IF at[n - 1] = Null THEN Null ELSE h.cell[at[n - 1]].next
    BY DEF IsStep
  <2>2. CASE n = i
    BY <1>1, <2>2
  <2>3. CASE n # i
    BY <1>1, <1>3, <2>1, <2>3
  <2> QED
    BY <2>2, <2>3
<1>4. j \in S
  <2> HIDE DEF S
  <2> QED
    BY <1>1, <1>2, <1>3, UpTo, Zenon
<1> QED
  BY <1>4

\* The walk of h is of the n pointers that are not Null.
IsWalk(h, n) ==
  /\ n \in 0 .. Addresses + 1
  /\ \A i \in 0 .. Addresses : Step(h)[i] # Null <=> i < n
  /\ Walk(h) = [i \in 1 .. n |-> Step(h)[i - 1]]

LEMMA WalkExists ==
  ASSUME NEW h \in Heaps
  PROVE  \E n : IsWalk(h, n)
<1> DEFINE at == Step(h)
           nulls == {i \in 0 .. Addresses : at[i] = Null}
<1>1. Addresses \in Nat /\ IsStep(h, at)
  BY AddressesType, StepFacts
<1> HIDE DEF at
<1>2. \E n \in 0 .. Addresses + 1 : \A i \in 0 .. Addresses : at[i] # Null <=> i < n
  <2>1. CASE nulls = {}
    <3>1. Addresses + 1 \in 0 .. Addresses + 1
      BY <1>1
    <3>2. \A i \in 0 .. Addresses : at[i] # Null <=> i < Addresses + 1
      BY <1>1, <2>1
    <3> QED
      BY <3>1, <3>2
  <2>2. CASE nulls # {}
    <3>1. PICK n \in nulls : \A i \in nulls : n <= i
      <4>1. nulls \subseteq Nat /\ nulls # {}
        BY <2>2
      <4> HIDE DEF nulls
      <4> QED
        BY ONLY <4>1, Least, Zenon
    <3>2. n \in 0 .. Addresses + 1 /\ n \in 0 .. Addresses /\ at[n] = Null
      BY <1>1, <3>1
    <3>3. ASSUME NEW i \in 0 .. Addresses PROVE at[i] # Null <=> i < n
      <4>1. CASE i < n
        BY <1>1, <3>1, <3>2, <4>1
      <4>2. CASE ~(i < n)
        <5>1. n <= i
          BY <1>1, <3>2, <4>2
        <5>2. at[i] = Null
          BY <1>1, <3>2, <5>1, NullStays, SMT
        <5> QED
          BY <4>2, <5>2
      <4> QED
        BY <4>1, <4>2
    <3> QED
      BY <3>2, <3>3
  <2> QED
    BY <2>1, <2>2
<1>3. PICK n \in 0 .. Addresses + 1 : \A i \in 0 .. Addresses : at[i] # Null <=> i < n
  BY <1>2
<1>4. {i \in DOMAIN at : at[i] # Null} = 0 .. n - 1
  <2>1. DOMAIN at = 0 .. Addresses
    BY <1>1 DEF IsStep
  <2> QED
    BY <1>1, <1>3, <2>1
<1>5. Cardinality(0 .. n - 1) = n
  BY <1>1, CountFromZero
<1>6. Walk(h) = [i \in 1 .. n |-> at[i - 1]]
  BY <1>4, <1>5 DEF Walk, at
<1> QED
  BY <1>3, <1>6 DEF IsWalk, at

\* The walk is a sequence of cells, and ends unless it is Endless.
LEMMA WalkFacts ==
  ASSUME NEW h \in Heaps, NEW n, IsWalk(h, n)
  PROVE  /\ Walk(h) \in Seq(Cells) /\ Len(Walk(h)) = n
         /\ \A i \in 1 .. n : Walk(h)[i] = Step(h)[i - 1]
         /\ Endless(h) <=> n = Addresses + 1
<1>1. Addresses \in Nat /\ IsStep(h, Step(h))
  BY AddressesType, StepFacts
<1>2. /\ n \in 0 .. Addresses + 1
      /\ \A i \in 0 .. Addresses : Step(h)[i] # Null <=> i < n
      /\ Walk(h) = [i \in 1 .. n |-> Step(h)[i - 1]]
  BY DEF IsWalk
<1>3. ASSUME NEW i \in 1 .. n PROVE Step(h)[i - 1] \in Cells
  <2>1. i - 1 \in 0 .. Addresses /\ i - 1 < n
    BY <1>1, <1>2
  <2> QED
    BY <1>1, <1>2, <2>1 DEF IsStep, Pointer
<1>4. Walk(h) \in Seq(Cells) /\ Len(Walk(h)) = n
  BY <1>1, <1>2, <1>3
<1>5. Endless(h) <=> Addresses < n
  <2>1. Addresses \in 0 .. Addresses
    BY <1>1
  <2>2. Endless(h) <=> Step(h)[Addresses] # Null
    BY DEF Endless, Addresses
  <2> QED
    BY <1>2, <2>1, <2>2
<1> QED
  BY <1>1, <1>2, <1>4, <1>5

\* A walk that ends is a path ...
LEMMA WalkIsPath ==
  ASSUME NEW h \in Heaps, ~Endless(h)
  PROVE  IsPath(h, Walk(h))
<1>1. PICK n : IsWalk(h, n)
  BY WalkExists
<1> DEFINE w == Walk(h)
           at == Step(h)
<1>2. /\ w \in Seq(Cells) /\ Len(w) = n
      /\ \A i \in 1 .. n : w[i] = at[i - 1]
      /\ n # Addresses + 1
  BY <1>1, WalkFacts
<1>3. /\ n \in 0 .. Addresses + 1 /\ Addresses \in Nat
      /\ \A i \in 0 .. Addresses : at[i] # Null <=> i < n
  BY <1>1, AddressesType DEF IsWalk
<1>4. IsStep(h, at)
  BY StepFacts
<1> HIDE DEF w, at
<1>5. ASSUME NEW i \in 0 .. n PROVE at[i] = After(w, i)
  <2>1. i \in 0 .. Addresses
    BY <1>2, <1>3
  <2>2. CASE i = n
    BY <1>2, <1>3, <2>1, <2>2 DEF After
  <2>3. CASE i # n
    <3>1. i + 1 \in 1 .. n /\ (i + 1) - 1 = i
      BY <1>3, <2>3
    <3> QED
      BY <1>2, <2>3, <3>1 DEF After
  <2> QED
    BY <2>2, <2>3
<1>6. h.head = After(w, 0)
  BY <1>3, <1>4, <1>5 DEF IsStep
<1>7. ASSUME NEW i \in 1 .. n PROVE h.cell[w[i]].next = After(w, i)
  <2>1. i \in 1 .. Addresses /\ i - 1 \in 0 .. Addresses /\ i - 1 < n /\ i \in 0 .. n
    BY <1>2, <1>3
  <2>2. at[i] = h.cell[at[i - 1]].next
    BY <1>3, <1>4, <2>1 DEF IsStep
  <2> QED
    BY <1>2, <1>5, <2>1, <2>2
<1> QED
  BY <1>2, <1>6, <1>7 DEF IsPath, w

\* ... and a path is the walk, which then ends.
LEMMA PathIsWalk ==
  ASSUME NEW h \in Heaps, NEW w, IsPath(h, w)
  PROVE  Walk(h) = w /\ ~Endless(h)
<1> DEFINE at == Step(h)
<1>1. IsStep(h, at) /\ Addresses \in Nat
  BY StepFacts, AddressesType
<1>2. /\ w \in Seq(Cells) /\ Len(w) \in Nat /\ DOMAIN w = 1 .. Len(w)
      /\ h.head = After(w, 0)
      /\ \A i \in 1 .. Len(w) : h.cell[w[i]].next = After(w, i)
  BY DEF IsPath
<1>3. Len(w) <= Addresses
  <2>1. Cells \subseteq Cells /\ \A i \in 1 .. Len(w) : w[i] \in Cells
    BY <1>2
  <2> QED
    BY <2>1, PathLength DEF Addresses
<1>4. \A i \in 1 .. Len(w) : w[i] # Null
  BY <1>2, CellsAssumption
<1> HIDE DEF at
<1> DEFINE S == {i \in 0 .. Len(w) : at[i] = After(w, i)}
<1>5. 0 \in S
  BY <1>1, <1>2 DEF IsStep
<1>6. ASSUME NEW i \in 1 .. Len(w), i - 1 \in S PROVE i \in S
  <2>1. i \in 1 .. Addresses /\ i - 1 # Len(w) /\ (i - 1) + 1 = i /\ i \in 0 .. Len(w)
    BY <1>1, <1>2, <1>3
  <2>2. at[i - 1] = w[i]
    BY <1>6, <2>1 DEF After
  <2>3. at[i] = h.cell[w[i]].next
    BY <1>1, <1>4, <2>1, <2>2 DEF IsStep
  <2> QED
    BY <1>2, <2>1, <2>3
<1>7. \A i \in 0 .. Len(w) : i \in S
  <2> HIDE DEF S
  <2> QED
    BY <1>2, <1>5, <1>6, UpTo, Zenon
<1>8. PICK n : IsWalk(h, n)
  BY WalkExists
<1>9. /\ n \in 0 .. Addresses + 1
      /\ \A i \in 0 .. Addresses : at[i] # Null <=> i < n
      /\ Walk(h) = [i \in 1 .. n |-> at[i - 1]]
  BY <1>8, Zenon DEF IsWalk, at
<1>10. n \in Nat /\ Len(w) \in Nat /\ Addresses \in Nat /\ Len(w) <= Addresses
  BY <1>1, <1>2, <1>3, <1>9
<1>11. n = Len(w)
  <2>1. ~(Len(w) < n)
    <3>1. Len(w) \in 0 .. Addresses /\ Len(w) \in 0 .. Len(w)
      BY <1>1, <1>2, <1>3
    <3>2. at[Len(w)] = Null
      BY <1>7, <3>1 DEF After
    <3> QED
      BY <1>9, <3>1, <3>2
  <2>2. ASSUME n < Len(w) PROVE FALSE
    <3>1. n \in 0 .. Len(w) /\ n \in 0 .. Addresses /\ n + 1 \in 1 .. Len(w) /\ n # Len(w)
      BY ONLY <1>10, <2>2
    <3>2. at[n] = w[n + 1]
      BY <1>7, <3>1 DEF After
    <3> QED
      BY <1>4, <1>9, <3>1, <3>2
  <2> QED
    BY ONLY <1>10, <2>1, <2>2
<1>12. ASSUME NEW i \in 1 .. Len(w) PROVE at[i - 1] = w[i]
  <2>1. i - 1 \in 0 .. Len(w) /\ i - 1 # Len(w) /\ (i - 1) + 1 = i
    BY <1>2
  <2> QED
    BY <1>7, <2>1 DEF After
<1>13. Walk(h) = w
  <2>1. w = [i \in 1 .. Len(w) |-> w[i]]
    BY <1>2
  <2> QED
    BY <1>9, <1>11, <1>12, <2>1
<1>14. ~Endless(h)
  <2>1. n # Addresses + 1
    BY ONLY <1>10, <1>11
  <2> QED
    BY <1>8, <2>1, WalkFacts
<1> QED
  BY <1>13, <1>14

\* No pointer leads out of a set that the head is in and that is closed.
LEMMA LinkedClosed ==
  ASSUME NEW h \in Heaps, NEW S, h.head \in S \cup {Null},
         \A c \in Cells : c \in S => h.cell[c].next \in S \cup {Null}
  PROVE  Linked(h) \subseteq S
<1> DEFINE at == Step(h)
           T == {i \in 0 .. Addresses : at[i] \in S \cup {Null}}
<1>1. IsStep(h, at) /\ Addresses \in Nat
  BY StepFacts, AddressesType
<1> HIDE DEF at
<1>2. 0 \in T
  BY <1>1 DEF IsStep
<1>3. ASSUME NEW i \in 1 .. Addresses, i - 1 \in T PROVE i \in T
  <2>1. i \in 0 .. Addresses /\ i - 1 \in 0 .. Addresses
    BY <1>1
  <2>2. at[i] = IF at[i - 1] = Null THEN Null ELSE h.cell[at[i - 1]].next
    BY <1>1 DEF IsStep
  <2>3. at[i - 1] \in Pointer
    BY <1>1, <2>1 DEF IsStep
  <2>4. at[i - 1] \in S \cup {Null}
    BY <1>3
  <2> QED
    BY <2>1, <2>2, <2>3, <2>4 DEF Pointer
<1>4. \A i \in 0 .. Addresses : i \in T
  <2> HIDE DEF T
  <2> QED
    BY <1>1, <1>2, <1>3, UpTo, Zenon
<1>5. PICK n : IsWalk(h, n)
  BY WalkExists
<1>6. ASSUME NEW i \in 1 .. n PROVE Walk(h)[i] \in S
  <2>1. /\ n \in 0 .. Addresses + 1
        /\ \A j \in 0 .. Addresses : at[j] # Null <=> j < n
        /\ Walk(h)[i] = at[i - 1]
    BY <1>5 DEF IsWalk, at
  <2>2. i - 1 \in 0 .. Addresses /\ i - 1 < n
    BY <1>1, <2>1
  <2> QED
    BY <1>4, <2>1, <2>2
<1>7. DOMAIN Walk(h) = 1 .. n
  BY <1>5 DEF IsWalk
<1> QED
  BY <1>6, <1>7 DEF Linked, Range

\* The first cell is linked.
LEMMA HeadLinked ==
  ASSUME NEW h \in Heaps, h.head # Null
  PROVE  h.head \in Linked(h)
<1>1. PICK n : IsWalk(h, n)
  BY WalkExists
<1>2. IsStep(h, Step(h)) /\ Addresses \in Nat
  BY StepFacts, AddressesType
<1>3. Step(h)[0] # Null /\ 0 \in 0 .. Addresses
  BY <1>2 DEF IsStep
<1>4. 0 < n /\ n \in 0 .. Addresses + 1 /\ Walk(h) = [i \in 1 .. n |-> Step(h)[i - 1]]
  BY <1>1, <1>3 DEF IsWalk
<1>5. 1 \in DOMAIN Walk(h) /\ Walk(h)[1] = h.head
  BY <1>2, <1>4 DEF IsStep
<1> QED
  BY <1>5 DEF Linked, Range

-----------------------------------------------------------------------------
(* Shown.                                                                  *)

\* u[n] is what the first n cells of w show.
IsShowing(h, w, u) ==
  /\ u \in [0 .. Len(w) -> Seq(Fds)]
  /\ u[0] = << >>
  /\ \A n \in 1 .. Len(w) :
       u[n] = IF w[n] \in h.live THEN Append(u[n - 1], h.cell[w[n]].fd) ELSE u[n - 1]

LEMMA ShowingExists ==
  ASSUME NEW h \in Heaps, NEW w \in Seq(Cells), w = Walk(h)
  PROVE  \E u : IsShowing(h, w, u) /\ Shown(h) = u[Len(w)]
<1> DEFINE N == Len(w)
           X == Seq(Fds)
           next(n, u) == IF n = 0 THEN << >>
                         ELSE IF w[n] \in h.live THEN Append(u[n - 1], h.cell[w[n]].fd)
                         ELSE u[n - 1]
           F == [p \in Nat \X X |->
                   IF p[1] \in 1 .. N /\ w[p[1]] \in h.live
                   THEN Append(p[2], h.cell[w[p[1]]].fd) ELSE p[2]]
<1>1. N \in Nat /\ << >> \in X
  OBVIOUS
<1>2. \A n \in 1 .. N : w[n] \in Cells /\ h.cell[w[n]].fd \in Fds
  BY DEF Heaps, Contents
<1> HIDE DEF N
<1>3. F \in [Nat \X X -> X]
  <2>1. ASSUME NEW p \in Nat \X X
        PROVE  (IF p[1] \in 1 .. N /\ w[p[1]] \in h.live
                THEN Append(p[2], h.cell[w[p[1]]].fd) ELSE p[2]) \in X
    <3>1. p[2] \in X
      OBVIOUS
    <3>2. ASSUME p[1] \in 1 .. N PROVE Append(p[2], h.cell[w[p[1]]].fd) \in X
      BY <1>2, <3>1, <3>2
    <3> QED
      BY <3>1, <3>2
  <2> QED
    BY <2>1
<1>4. PICK C : IsRecursion(C, N, X, << >>, F)
  <2> HIDE DEF F, X
  <2> QED
    BY <1>1, <1>3, PrimitiveRecursion
<1>5. /\ C \in [0 .. N -> X]
      /\ C[0] = << >>
      /\ \A n \in 1 .. N : C[n] = F[<<n, C[n - 1]>>]
  BY <1>4, Zenon DEF IsRecursion
<1> HIDE DEF X
<1>6. ASSUME NEW n \in 1 .. N
      PROVE  C[n] = IF w[n] \in h.live THEN Append(C[n - 1], h.cell[w[n]].fd) ELSE C[n - 1]
  <2>1. n - 1 \in 0 .. N /\ n \in Nat
    BY <1>1
  <2>2. <<n, C[n - 1]>> \in Nat \X X
    BY <1>5, <2>1
  <2> QED
    BY <1>5, <2>2
<1> HIDE DEF F
<1> DEFINE Solves(u) == u = [n \in 0 .. N |-> next(n, u)]
<1>7. Solves(C)
  <2>1. ASSUME NEW n \in 0 .. N PROVE C[n] = next(n, C)
    <3>1. CASE n = 0
      BY <1>5, <3>1
    <3>2. CASE n # 0
      <4>1. n \in 1 .. N
        BY <1>1, <3>2
      <4> QED
        BY <1>6, <3>2, <4>1
    <3> QED
      BY <3>1, <3>2
  <2> HIDE DEF next
  <2> QED
    BY <1>5, <2>1
<1> DEFINE K == CHOOSE u : Solves(u)
<1>8. Solves(K)
  <2> HIDE DEF Solves
  <2> QED
    BY <1>7
<1>9. Shown(h) = K[N]
  BY DEF Shown, N
<1> HIDE DEF K
<1>10. /\ K[0] = << >>
       /\ \A n \in 1 .. N :
            K[n] = IF w[n] \in h.live THEN Append(K[n - 1], h.cell[w[n]].fd) ELSE K[n - 1]
  <2>1. 0 \in 0 .. N /\ \A n \in 1 .. N : n \in 0 .. N /\ n # 0
    BY <1>1
  <2> QED
    BY <1>8, <2>1
<1> DEFINE S == {n \in 0 .. N : K[n] = C[n]}
<1>11. \A n \in 0 .. N : n \in S
  <2>1. 0 \in S /\ \A n \in 1 .. N : n - 1 \in S => n \in S
    BY <1>1, <1>5, <1>6, <1>10
  <2> HIDE DEF S
  <2> QED
    BY ONLY <1>1, <2>1, UpTo, Zenon
<1>12. K \in [0 .. N -> X]
  <2>1. \A n \in 0 .. N : K[n] \in X
    BY <1>5, <1>11
  <2> QED
    BY <1>8, <2>1
<1>13. IsShowing(h, w, K)
  BY <1>10, <1>12 DEF IsShowing, N, X
<1> QED
  BY <1>9, <1>13 DEF N

\* Every descriptor shown is that of a cell that is linked and belongs to an event.
LEMMA ShownIsLinked ==
  ASSUME NEW h \in Heaps
  PROVE  /\ Shown(h) \in Seq(Fds)
         /\ \A i \in DOMAIN Shown(h) :
              \E c \in Linked(h) : c \in h.live /\ h.cell[c].fd = Shown(h)[i]
<1> DEFINE w == Walk(h)
           from(s) == /\ s \in Seq(Fds)
                      /\ \A i \in DOMAIN s :
                           \E c \in Linked(h) : c \in h.live /\ h.cell[c].fd = s[i]
<1>1. w \in Seq(Cells) /\ Len(w) \in Nat
  BY WalkExists, WalkFacts
<1>2. PICK u : IsShowing(h, w, u) /\ Shown(h) = u[Len(w)]
  BY <1>1, ShowingExists
<1>3. /\ u \in [0 .. Len(w) -> Seq(Fds)]
      /\ u[0] = << >>
      /\ \A n \in 1 .. Len(w) :
           u[n] = IF w[n] \in h.live THEN Append(u[n - 1], h.cell[w[n]].fd) ELSE u[n - 1]
  BY <1>2 DEF IsShowing
<1>4. \A n \in 1 .. Len(w) : w[n] \in Cells /\ w[n] \in Linked(h) /\ h.cell[w[n]].fd \in Fds
  BY <1>1 DEF Linked, Range, Heaps, Contents
<1> HIDE DEF w
<1> DEFINE S == {n \in 0 .. Len(w) : from(u[n])}
<1>5. 0 \in S
  <2>1. from(<< >>)
    OBVIOUS
  <2> QED
    BY <1>1, <1>3, <2>1
<1>6. ASSUME NEW n \in 1 .. Len(w), n - 1 \in S PROVE n \in S
  <2>1. n \in 0 .. Len(w) /\ from(u[n - 1])
    BY <1>1, <1>6
  <2>2. CASE w[n] \notin h.live
    BY <1>3, <2>1, <2>2
  <2>3. CASE w[n] \in h.live
    <3>1. from(Append(u[n - 1], h.cell[w[n]].fd))
      <4> DEFINE s == u[n - 1]
                 d == h.cell[w[n]].fd
                 t == Append(s, d)
      <4>1. t \in Seq(Fds) /\ DOMAIN t = 1 .. Len(s) + 1 /\ DOMAIN s = 1 .. Len(s)
            /\ Len(s) \in Nat /\ t[Len(s) + 1] = d /\ \A i \in 1 .. Len(s) : t[i] = s[i]
        BY <1>4, <2>1
      <4>2. ASSUME NEW i \in DOMAIN t
            PROVE  \E c \in Linked(h) : c \in h.live /\ h.cell[c].fd = t[i]
        <5>1. CASE i = Len(s) + 1
          BY <1>4, <2>3, <4>1, <5>1
        <5>2. CASE i # Len(s) + 1
          <6>1. i \in DOMAIN s /\ t[i] = s[i]
            BY <4>1, <5>2
          <6> QED
            BY <2>1, <6>1
        <5> QED
          BY <5>1, <5>2
      <4> QED
        BY <4>1, <4>2
    <3>2. u[n] = Append(u[n - 1], h.cell[w[n]].fd)
      BY <1>3, <2>3
    <3> HIDE DEF from
    <3> QED
      BY <2>1, <3>1, <3>2
  <2> QED
    BY <2>2, <2>3
<1>7. \A n \in 0 .. Len(w) : n \in S
  <2> HIDE DEF S
  <2> QED
    BY <1>1, <1>5, <1>6, UpTo, Zenon
<1> QED
  BY <1>1, <1>2, <1>7

\* The descriptors of the cells of w, but for that at k, if there is one.
AllBut(h, w, k) ==
  [i \in 1 .. IF k <= Len(w) THEN Len(w) - 1 ELSE Len(w) |->
     h.cell[w[IF i < k THEN i ELSE i + 1]].fd]

\* What a walk shows of which no other cell is freed.
LEMMA ShownBut ==
  ASSUME NEW h \in Heaps, NEW w \in Seq(Cells), w = Walk(h),
         NEW k \in 1 .. Len(w) + 1,
         \A i \in 1 .. Len(w) : w[i] \in h.live <=> i # k
  PROVE  Shown(h) = AllBut(h, w, k)
<1> DEFINE d(i) == h.cell[w[i]].fd
           q(n) == [i \in 1 .. IF k <= n THEN n - 1 ELSE n |->
                      d(IF i < k THEN i ELSE i + 1)]
<1>1. Len(w) \in Nat /\ k \in Nat
  OBVIOUS
<1>2. PICK u : IsShowing(h, w, u) /\ Shown(h) = u[Len(w)]
  BY ShowingExists
<1>3. /\ u[0] = << >>
      /\ \A n \in 1 .. Len(w) : u[n] = IF n # k THEN Append(u[n - 1], d(n)) ELSE u[n - 1]
  BY <1>2 DEF IsShowing
<1>4. \A i \in 1 .. Len(w) : d(i) \in Fds
  BY DEF Heaps, Contents
<1> HIDE DEF d
<1> DEFINE S == {n \in 0 .. Len(w) : u[n] = q(n)}
<1>5. 0 \in S
  <2>1. q(0) = << >>
    BY <1>1
  <2> QED
    BY <1>1, <1>3, <2>1
<1>6. ASSUME NEW n \in 1 .. Len(w), n - 1 \in S PROVE n \in S
  <2>1. u[n - 1] = q(n - 1) /\ n \in 0 .. Len(w) /\ n \in Nat
    BY <1>1, <1>6
  <2>2. CASE n = k
    <3>1. q(n) = q(n - 1)
      BY <1>1, <2>1, <2>2
    <3> QED
      BY <1>3, <2>1, <2>2, <3>1
  <2>3. CASE n # k
    <3> DEFINE l == IF k <= n - 1 THEN n - 2 ELSE n - 1
    <3>1. /\ l \in Nat /\ (IF k <= n THEN n - 1 ELSE n) = l + 1
          /\ (IF l + 1 < k THEN l + 1 ELSE (l + 1) + 1) = n
          /\ (n - 1) - 1 = n - 2
      BY <1>1, <2>1, <2>3
    <3>2. ASSUME NEW i \in 1 .. l PROVE d(IF i < k THEN i ELSE i + 1) \in Fds
      <4>1. (IF i < k THEN i ELSE i + 1) \in 1 .. Len(w)
        BY <1>1, <2>1
      <4> QED
        BY <1>4, <4>1
    <3>3. q(n - 1) = [i \in 1 .. l |-> d(IF i < k THEN i ELSE i + 1)]
      BY <3>1
    <3>4. q(n) = [i \in 1 .. l + 1 |-> d(IF i < k THEN i ELSE i + 1)]
      BY <3>1
    <3> HIDE DEF l
    <3>5. Append(q(n - 1), d(n)) = q(n)
      <4>1. q(n - 1) \in [1 .. l -> Fds] /\ l \in Nat
        BY <3>1, <3>2, <3>3
      <4>2. q(n - 1) \in Seq(Fds) /\ Len(q(n - 1)) = l
        BY ONLY <4>1
      <4> QED
        BY <1>4, <3>1, <3>3, <3>4, <4>1, <4>2
    <3> QED
      BY <1>3, <2>1, <2>3, <3>5
  <2> QED
    BY <2>2, <2>3
<1>7. \A n \in 0 .. Len(w) : n \in S
  <2> HIDE DEF S
  <2> QED
    BY <1>1, <1>5, <1>6, UpTo, Zenon
<1>8. Shown(h) = q(Len(w))
  BY <1>1, <1>2, <1>7
<1> QED
  BY <1>8 DEF d, AllBut

-----------------------------------------------------------------------------
(* What the operations do to a heap.                                       *)

\* h and g differ in no next pointer and no descriptor.
SameChain(h, g) ==
  \A c \in Cells : g.cell[c].next = h.cell[c].next /\ g.cell[c].fd = h.cell[c].fd

\* A store to a prev pointer.
LEMMA StorePrev ==
  ASSUME NEW cc \in [Cells -> Contents], NEW a \in Cells, NEW p \in Pointer,
         NEW dd, dd = [cc EXCEPT ![a].prev = p]
  PROVE  /\ dd \in [Cells -> Contents]
         /\ \A c \in Cells : /\ dd[c].next = cc[c].next /\ dd[c].fd = cc[c].fd
                             /\ dd[c].prev = IF c = a THEN p ELSE cc[c].prev
<1>1. dd[a] = [cc[a] EXCEPT !.prev = p] /\ \A c \in Cells : c # a => dd[c] = cc[c]
  OBVIOUS
<1>2. cc[a] \in Contents
  OBVIOUS
<1>3. dd[a] \in Contents /\ dd[a].next = cc[a].next /\ dd[a].fd = cc[a].fd /\ dd[a].prev = p
  BY <1>1, <1>2 DEF Contents
<1>4. \A c \in Cells : dd[c] \in Contents
  BY <1>1, <1>3
<1>5. dd \in [Cells -> Contents]
  BY <1>4
<1> QED
  BY <1>1, <1>3, <1>5

LEMMA UnlinkFacts ==
  ASSUME NEW h \in Heaps, NEW ev \in Cells
  PROVE  LET g == Unlink(h, ev) IN
           /\ g \in Heaps
           /\ SameChain(h, g)
           /\ g.live = h.live \ {ev}
           /\ g.head = IF ev = h.head THEN h.cell[ev].next ELSE h.head
           /\ h.cell[ev].prev = Null =>
                \A c \in Cells : g.cell[c].prev =
                  IF c = h.cell[ev].next /\ c # ev THEN Null ELSE h.cell[c].prev
<1> DEFINE c1 == IF h.cell[ev].prev # Null
                 THEN [h.cell EXCEPT ![ev].prev = h.cell[ev].next] ELSE h.cell
           c2 == IF c1[ev].next # Null
                 THEN [c1 EXCEPT ![c1[ev].next].prev = c1[ev].prev] ELSE c1
<1>1. h.cell \in [Cells -> Contents] /\ h.head \in Pointer /\ h.live \subseteq Cells
  BY DEF Heaps
<1>2. h.cell[ev].next \in Pointer /\ h.cell[ev].prev \in Pointer
  BY <1>1 DEF Contents
<1>3. /\ c1 \in [Cells -> Contents]
      /\ \A c \in Cells : c1[c].next = h.cell[c].next /\ c1[c].fd = h.cell[c].fd
      /\ h.cell[ev].prev = Null => c1 = h.cell
  <2>1. CASE h.cell[ev].prev # Null
    BY <1>1, <1>2, <2>1, StorePrev
  <2>2. CASE h.cell[ev].prev = Null
    BY <1>1, <2>2
  <2> QED
    BY <2>1, <2>2
<1> HIDE DEF c1
<1>4. c1[ev].next \in Pointer /\ c1[ev].prev \in Pointer
  BY <1>3 DEF Contents
<1>5. /\ c2 \in [Cells -> Contents]
      /\ \A c \in Cells : /\ c2[c].next = c1[c].next /\ c2[c].fd = c1[c].fd
                          /\ c2[c].prev = IF c = c1[ev].next THEN c1[ev].prev ELSE c1[c].prev
  <2>1. CASE c1[ev].next # Null
    <3>1. c1[ev].next \in Cells
      BY <1>4, <2>1 DEF Pointer
    <3>2. c2 = [c1 EXCEPT ![c1[ev].next].prev = c1[ev].prev]
      BY <2>1
    <3> HIDE DEF c2
    <3> QED
      BY <1>3, <1>4, <3>1, <3>2, StorePrev
  <2>2. CASE c1[ev].next = Null
    BY <1>3, <2>2, CellsAssumption
  <2> QED
    BY <2>1, <2>2
<1> HIDE DEF c2
<1> DEFINE g == [head |-> IF ev = h.head THEN c2[ev].next ELSE h.head,
                 cell |-> c2,
                 live |-> h.live \ {ev}]
<1>6. Unlink(h, ev) = g
  BY DEF Unlink, c1, c2
<1>7. c2[ev].next = h.cell[ev].next
  BY <1>3, <1>5
<1>8. g \in Heaps
  BY <1>1, <1>2, <1>5, <1>7 DEF Heaps
<1>9. SameChain(h, g)
  BY <1>3, <1>5 DEF SameChain
<1>10. ASSUME h.cell[ev].prev = Null, NEW c \in Cells
       PROVE  g.cell[c].prev = IF c = h.cell[ev].next /\ c # ev THEN Null ELSE h.cell[c].prev
  BY <1>3, <1>5, <1>10
<1> QED
  BY <1>6, <1>7, <1>8, <1>9, <1>10

\* The loop of ps_RemoveSelect over w: u[n] is what is left after n cells.
IsRemoving(h, f, w, u) ==
  /\ u \in [0 .. Len(w) -> Heaps]
  /\ u[0] = h
  /\ \A n \in 1 .. Len(w) : u[n] = Visited(u[n - 1], w[n], f)

LEMMA RemovingExists ==
  ASSUME NEW h \in Heaps, NEW f, NEW w \in Seq(Cells), w = Walk(h)
  PROVE  \E u : IsRemoving(h, f, w, u) /\ Removed(h, f) = u[Len(w)]
<1> DEFINE N == Len(w)
           next(n, u) == IF n = 0 THEN h ELSE Visited(u[n - 1], w[n], f)
           F == [p \in Nat \X Heaps |->
                   IF p[1] \in 1 .. N THEN Visited(p[2], w[p[1]], f) ELSE p[2]]
<1>1. N \in Nat
  OBVIOUS
<1>2. \A n \in 1 .. N : w[n] \in Cells
  OBVIOUS
<1> HIDE DEF N
<1>3. F \in [Nat \X Heaps -> Heaps]
  <2>1. ASSUME NEW p \in Nat \X Heaps
        PROVE  (IF p[1] \in 1 .. N THEN Visited(p[2], w[p[1]], f) ELSE p[2]) \in Heaps
    <3>1. p[2] \in Heaps
      OBVIOUS
    <3>2. ASSUME p[1] \in 1 .. N PROVE Visited(p[2], w[p[1]], f) \in Heaps
      <4>1. Unlink(p[2], w[p[1]]) \in Heaps
        BY <1>2, <3>1, <3>2, UnlinkFacts
      <4> QED
        BY <3>1, <4>1 DEF Visited
    <3> QED
      BY <3>1, <3>2
  <2> QED
    BY <2>1
<1>4. PICK C : IsRecursion(C, N, Heaps, h, F)
  <2> HIDE DEF F
  <2> QED
    BY <1>1, <1>3, PrimitiveRecursion
<1>5. /\ C \in [0 .. N -> Heaps]
      /\ C[0] = h
      /\ \A n \in 1 .. N : C[n] = F[<<n, C[n - 1]>>]
  BY <1>4, Zenon DEF IsRecursion
<1>6. ASSUME NEW n \in 1 .. N
      PROVE  C[n] = Visited(C[n - 1], w[n], f)
  <2>1. n - 1 \in 0 .. N /\ n \in Nat
    BY <1>1
  <2>2. <<n, C[n - 1]>> \in Nat \X Heaps
    BY <1>5, <2>1
  <2> QED
    BY <1>5, <2>2
<1> HIDE DEF F
<1> DEFINE Solves(u) == u = [n \in 0 .. N |-> next(n, u)]
<1>7. Solves(C)
  <2>1. ASSUME NEW n \in 0 .. N PROVE C[n] = next(n, C)
    <3>1. CASE n = 0
      BY <1>5, <3>1
    <3>2. CASE n # 0
      <4>1. n \in 1 .. N
        BY <1>1, <3>2
      <4> QED
        BY <1>6, <3>2, <4>1
    <3> QED
      BY <3>1, <3>2
  <2> HIDE DEF next
  <2> QED
    BY <1>5, <2>1
<1> DEFINE K == CHOOSE u : Solves(u)
<1>8. Solves(K)
  <2> HIDE DEF Solves
  <2> QED
    BY <1>7
<1>9. Removed(h, f) = K[N]
  BY DEF Removed, N
<1> HIDE DEF K
<1>10. /\ K[0] = h
       /\ \A n \in 1 .. N : K[n] = Visited(K[n - 1], w[n], f)
  <2>1. 0 \in 0 .. N /\ \A n \in 1 .. N : n \in 0 .. N /\ n # 0
    BY <1>1
  <2> QED
    BY <1>8, <2>1
<1> DEFINE S == {n \in 0 .. N : K[n] = C[n]}
<1>11. \A n \in 0 .. N : n \in S
  <2>1. 0 \in S /\ \A n \in 1 .. N : n - 1 \in S => n \in S
    BY <1>1, <1>5, <1>6, <1>10
  <2> HIDE DEF S
  <2> QED
    BY ONLY <1>1, <2>1, UpTo, Zenon
<1>12. K \in [0 .. N -> Heaps]
  <2>1. \A n \in 0 .. N : K[n] \in Heaps
    BY <1>5, <1>11
  <2> QED
    BY <1>8, <2>1
<1>13. IsRemoving(h, f, w, K)
  BY <1>10, <1>12 DEF IsRemoving, N
<1> QED
  BY <1>9, <1>13 DEF N

\* g is what is left of h when the loop has passed the first n cells of w, and
\* advanced the head m times, past cells that it has freed.
HasPassed(h, f, w, n, g, m) ==
  /\ g \in Heaps
  /\ SameChain(h, g)
  /\ \A c \in Cells :
       c \in g.live <=> /\ c \in h.live
                        /\ ~\E i \in 1 .. n : w[i] = c /\ h.cell[c].fd = f
  /\ m \in 0 .. n
  /\ g.head = After(w, m)
  /\ \A i \in 1 .. m : w[i] \in h.live /\ h.cell[w[i]].fd = f

LEMMA PassesNext ==
  ASSUME NEW h \in Heaps, NEW f, NEW w, IsPath(h, w), NEW n \in 1 .. Len(w),
         NEW g, NEW m, HasPassed(h, f, w, n - 1, g, m)
  PROVE  \E l : HasPassed(h, f, w, n, Visited(g, w[n], f), l)
<1>1. Len(w) \in Nat /\ \A i \in 1 .. Len(w) : w[i] \in Cells
  BY DEF IsPath
<1>2. \A i \in 1 .. Len(w) : h.cell[w[i]].next = After(w, i)
  BY DEF IsPath
<1>3. /\ g \in Heaps
      /\ SameChain(h, g)
      /\ m \in 0 .. n - 1
      /\ g.head = After(w, m)
      /\ \A i \in 1 .. m : w[i] \in h.live /\ h.cell[w[i]].fd = f
  BY DEF HasPassed
<1>4. \A c \in Cells :
        c \in g.live <=> /\ c \in h.live
                         /\ ~\E i \in 1 .. n - 1 : w[i] = c /\ h.cell[c].fd = f
  BY DEF HasPassed
<1>5. w[n] \in Cells /\ g.cell[w[n]].fd = h.cell[w[n]].fd /\ g.cell[w[n]].next = h.cell[w[n]].next
  BY <1>1, <1>3 DEF SameChain
<1>6. \A i \in 1 .. n : i = n \/ i \in 1 .. n - 1
  BY <1>1
<1>7. 1 .. n - 1 \subseteq 1 .. n /\ n \in 1 .. n
  BY <1>1
<1>8. CASE w[n] \in g.live /\ g.cell[w[n]].fd = f
  <2> DEFINE u == Unlink(g, w[n])
  <2>1. Visited(g, w[n], f) = u
    BY <1>8 DEF Visited
  <2>2. /\ u \in Heaps
        /\ SameChain(g, u)
        /\ u.live = g.live \ {w[n]}
        /\ u.head = IF w[n] = g.head THEN g.cell[w[n]].next ELSE g.head
    BY <1>3, <1>5, UnlinkFacts
  <2> HIDE DEF u
  <2>3. SameChain(h, u)
    BY <1>3, <2>2 DEF SameChain
  <2>4. ASSUME NEW c \in Cells
        PROVE  c \in u.live <=> /\ c \in h.live
                                /\ ~\E i \in 1 .. n : w[i] = c /\ h.cell[c].fd = f
    BY <1>4, <1>5, <1>6, <1>7, <1>8, <2>2
  <2>5. CASE w[n] = g.head
    <3>1. m # Len(w) /\ w[m + 1] = w[n]
      BY <1>3, <1>5, <2>5, CellsAssumption DEF After
    <3>2. m + 1 \in 1 .. Len(w) /\ m + 1 \in 0 .. n
      BY <1>1, <1>3, <3>1
    <3>3. u.head = After(w, m + 1)
      BY <1>2, <1>5, <2>2, <2>5, <3>1, <3>2
    <3>4. \A i \in 1 .. m + 1 : w[i] \in h.live /\ h.cell[w[i]].fd = f
      <4>1. \A i \in 1 .. m + 1 : i \in 1 .. m \/ i = m + 1
        BY <1>3
      <4>2. w[n] \in h.live /\ h.cell[w[n]].fd = f
        BY <1>4, <1>5, <1>8
      <4> QED
        BY <1>3, <3>1, <4>1, <4>2
    <3>5. HasPassed(h, f, w, n, u, m + 1)
      BY <2>2, <2>3, <2>4, <3>2, <3>3, <3>4 DEF HasPassed
    <3> QED
      BY <2>1, <3>5
  <2>6. CASE w[n] # g.head
    <3>1. m \in 0 .. n /\ u.head = After(w, m)
      BY <1>3, <2>2, <2>6
    <3>2. HasPassed(h, f, w, n, u, m)
      BY <1>3, <2>2, <2>3, <2>4, <3>1 DEF HasPassed
    <3> QED
      BY <2>1, <3>2
  <2> QED
    BY <2>5, <2>6
<1>9. CASE ~(w[n] \in g.live /\ g.cell[w[n]].fd = f)
  <2>1. Visited(g, w[n], f) = g
    BY <1>9 DEF Visited
  <2>2. m \in 0 .. n
    BY <1>3
  <2>3. ASSUME NEW c \in Cells
        PROVE  c \in g.live <=> /\ c \in h.live
                                /\ ~\E i \in 1 .. n : w[i] = c /\ h.cell[c].fd = f
    BY <1>4, <1>5, <1>6, <1>7, <1>9
  <2>4. HasPassed(h, f, w, n, g, m)
    BY <1>3, <2>2, <2>3 DEF HasPassed
  <2> QED
    BY <2>1, <2>4
<1> QED
  BY <1>8, <1>9

\* What ps_RemoveSelect leaves of a list that ends: nothing of f.
LEMMA RemovedFacts ==
  ASSUME NEW h \in Heaps, NEW f, NEW w, IsPath(h, w)
  PROVE  \E m : HasPassed(h, f, w, Len(w), Removed(h, f), m)
<1>1. w \in Seq(Cells) /\ Len(w) \in Nat /\ w = Walk(h) /\ h.head = After(w, 0)
  BY PathIsWalk DEF IsPath
<1>2. PICK u : IsRemoving(h, f, w, u) /\ Removed(h, f) = u[Len(w)]
  BY <1>1, RemovingExists
<1>3. /\ u[0] = h
      /\ \A n \in 1 .. Len(w) : u[n] = Visited(u[n - 1], w[n], f)
  BY <1>2 DEF IsRemoving
<1> DEFINE S == {n \in 0 .. Len(w) : \E m : HasPassed(h, f, w, n, u[n], m)}
<1>4. 0 \in S
  <2>1. 0 \in 0 .. 0 /\ 0 \in 0 .. Len(w) /\ 1 .. 0 = {}
    BY <1>1
  <2>2. HasPassed(h, f, w, 0, h, 0)
    BY <1>1, <2>1 DEF HasPassed, SameChain
  <2> QED
    BY <1>3, <2>1, <2>2
<1>5. ASSUME NEW n \in 1 .. Len(w), n - 1 \in S PROVE n \in S
  <2>1. PICK m : HasPassed(h, f, w, n - 1, u[n - 1], m)
    BY <1>5
  <2>2. \E l : HasPassed(h, f, w, n, Visited(u[n - 1], w[n], f), l)
    BY <2>1, PassesNext
  <2>3. n \in 0 .. Len(w)
    BY <1>1
  <2> QED
    BY <1>3, <2>2, <2>3
<1>6. \A n \in 0 .. Len(w) : n \in S
  <2> HIDE DEF S
  <2> QED
    BY <1>1, <1>4, <1>5, UpTo, Zenon
<1>7. Len(w) \in 0 .. Len(w)
  BY <1>1
<1>8. \E m : HasPassed(h, f, w, Len(w), u[Len(w)], m)
  BY <1>6, <1>7
<1> QED
  BY <1>2, <1>8

\* If no cell matches, nothing is done; if the one at k does, it is unlinked.
LEMMA RemovedNone ==
  ASSUME NEW h \in Heaps, NEW f, NEW w, IsPath(h, w),
         \A i \in 1 .. Len(w) : h.cell[w[i]].fd # f
  PROVE  Removed(h, f) = h
<1>1. w \in Seq(Cells) /\ Len(w) \in Nat /\ w = Walk(h)
  BY PathIsWalk DEF IsPath
<1>2. PICK u : IsRemoving(h, f, w, u) /\ Removed(h, f) = u[Len(w)]
  BY <1>1, RemovingExists
<1>3. /\ u[0] = h
      /\ \A n \in 1 .. Len(w) : u[n] = Visited(u[n - 1], w[n], f)
  BY <1>2 DEF IsRemoving
<1> DEFINE S == {n \in 0 .. Len(w) : u[n] = h}
<1>4. 0 \in S
  BY <1>1, <1>3
<1>5. ASSUME NEW n \in 1 .. Len(w), n - 1 \in S PROVE n \in S
  <2>1. u[n - 1] = h /\ n \in 0 .. Len(w)
    BY <1>1, <1>5
  <2> QED
    BY <1>3, <2>1 DEF Visited
<1>6. \A n \in 0 .. Len(w) : n \in S
  <2> HIDE DEF S
  <2> QED
    BY <1>1, <1>4, <1>5, UpTo, Zenon
<1>7. Len(w) \in 0 .. Len(w)
  BY <1>1
<1> QED
  BY <1>2, <1>6, <1>7

LEMMA RemovedOne ==
  ASSUME NEW h \in Heaps, NEW f, NEW w, IsPath(h, w),
         NEW k \in 1 .. Len(w), w[k] \in h.live, h.cell[w[k]].fd = f,
         \A i \in 1 .. Len(w) : i # k => h.cell[w[i]].fd # f
  PROVE  Removed(h, f) = Unlink(h, w[k])
<1>1. w \in Seq(Cells) /\ Len(w) \in Nat /\ w = Walk(h)
  BY PathIsWalk DEF IsPath
<1>2. PICK u : IsRemoving(h, f, w, u) /\ Removed(h, f) = u[Len(w)]
  BY <1>1, RemovingExists
<1>3. /\ u[0] = h
      /\ \A n \in 1 .. Len(w) : u[n] = Visited(u[n - 1], w[n], f)
  BY <1>2 DEF IsRemoving
<1>4. \A i \in 1 .. Len(w) : w[i] \in Cells
  BY <1>1
<1>5. SameChain(h, Unlink(h, w[k]))
  BY <1>4, UnlinkFacts
<1> DEFINE S == {n \in 0 .. Len(w) : u[n] = IF n < k THEN h ELSE Unlink(h, w[k])}
<1>6. 0 \in S
  BY <1>1, <1>3
<1>7. ASSUME NEW n \in 1 .. Len(w), n - 1 \in S PROVE n \in S
  <2>1. n \in 0 .. Len(w) /\ u[n] = Visited(u[n - 1], w[n], f)
    BY <1>1, <1>3
  <2>2. u[n - 1] = IF n - 1 < k THEN h ELSE Unlink(h, w[k])
    BY <1>7
  <2>3. CASE n < k
    <3>1. u[n - 1] = h /\ h.cell[w[n]].fd # f
      BY <1>1, <2>2, <2>3
    <3> QED
      BY <2>1, <2>3, <3>1 DEF Visited
  <2>4. CASE n = k
    <3>1. u[n - 1] = h
      BY <1>1, <2>2, <2>4
    <3> QED
      BY <2>1, <2>4, <3>1 DEF Visited
  <2>5. CASE n > k
    <3>1. u[n - 1] = Unlink(h, w[k]) /\ h.cell[w[n]].fd # f
      BY <1>1, <2>2, <2>5
    <3>2. Unlink(h, w[k]).cell[w[n]].fd # f
      BY <1>4, <1>5, <3>1 DEF SameChain
    <3> QED
      BY <2>1, <2>5, <3>1, <3>2 DEF Visited
  <2> QED
    BY <1>1, <2>3, <2>4, <2>5
<1>8. \A n \in 0 .. Len(w) : n \in S
  <2> HIDE DEF S
  <2> QED
    BY <1>1, <1>6, <1>7, UpTo, Zenon
<1>9. Len(w) \in 0 .. Len(w) /\ ~(Len(w) < k)
  BY <1>1
<1> QED
  BY <1>2, <1>8, <1>9

-----------------------------------------------------------------------------
(* Which cells stay linked.                                                *)

\* A list that ends is closed, and its cells are those of its path.
LEMMA LinkedFacts ==
  ASSUME NEW h \in Heaps, NEW w, IsPath(h, w)
  PROVE  /\ Linked(h) \subseteq Cells
         /\ \A c : c \in Linked(h) <=> \E i \in 1 .. Len(w) : w[i] = c
         /\ h.head \in Linked(h) \cup {Null}
         /\ \A c \in Linked(h) : h.cell[c].next \in Linked(h) \cup {Null}
<1>1. /\ w \in Seq(Cells) /\ Len(w) \in Nat /\ DOMAIN w = 1 .. Len(w)
      /\ h.head = After(w, 0)
      /\ \A i \in 1 .. Len(w) : h.cell[w[i]].next = After(w, i)
  BY DEF IsPath
<1>2. \A c : c \in Linked(h) <=> \E i \in 1 .. Len(w) : w[i] = c
  BY <1>1, PathIsWalk DEF Linked, Range
<1>3. Len(w) \in Nat
  BY <1>1
<1>4. ASSUME NEW i \in 0 .. Len(w) PROVE After(w, i) \in Linked(h) \cup {Null}
  <2>1. CASE i = Len(w)
    BY <2>1 DEF After
  <2>2. CASE i # Len(w)
    <3>1. i + 1 \in 1 .. Len(w)
      BY ONLY <1>3, <2>2, i \in 0 .. Len(w)
    <3>2. After(w, i) = w[i + 1]
      BY <2>2 DEF After
    <3> QED
      BY <1>2, <3>1, <3>2
  <2> QED
    BY <2>1, <2>2
<1>5. h.head \in Linked(h) \cup {Null}
  BY <1>1, <1>4
<1>6. ASSUME NEW c \in Linked(h) PROVE h.cell[c].next \in Linked(h) \cup {Null}
  <2>1. PICK i \in 1 .. Len(w) : w[i] = c
    BY <1>2
  <2>2. i \in 0 .. Len(w)
    BY <1>3
  <2> QED
    BY <1>1, <1>4, <2>1, <2>2
<1>7. Linked(h) \subseteq Cells
  BY <1>1, <1>2
<1> QED
  BY <1>2, <1>5, <1>6, <1>7

\* The part of a path from some cell on is a path.
LEMMA RestIsPath ==
  ASSUME NEW h, NEW g, SameChain(h, g), NEW w, IsPath(h, w),
         NEW m \in 0 .. Len(w), g.head = After(w, m)
  PROVE  IsPath(g, [i \in 1 .. Len(w) - m |-> w[m + i]])
<1> DEFINE v == [i \in 1 .. Len(w) - m |-> w[m + i]]
<1>1. /\ w \in Seq(Cells) /\ Len(w) \in Nat
      /\ \A i \in 1 .. Len(w) : w[i] \in Cells /\ h.cell[w[i]].next = After(w, i)
  BY DEF IsPath
<1> DEFINE N == Len(w)
<1>2. N \in Nat /\ m \in 0 .. N
  BY <1>1
<1> HIDE DEF N
<1>3. N - m \in Nat /\ \A i \in 1 .. N - m : m + i \in 1 .. N
  BY ONLY <1>2
<1>4. /\ v \in Seq(Cells) /\ Len(v) = N - m
      /\ \A i \in 1 .. N - m : v[i] = w[m + i]
  <2>1. v \in [1 .. N - m -> Cells]
    BY <1>1, <1>3 DEF N
  <2>2. \A i \in 1 .. N - m : v[i] = w[m + i]
    BY DEF N
  <2> HIDE DEF v
  <2> QED
    BY ONLY <1>3, <2>1, <2>2, IsSeq
<1> HIDE DEF v
<1>5. ASSUME NEW i \in 0 .. Len(v) PROVE After(v, i) = After(w, m + i)
  <2>1. CASE i = Len(v)
    <3>1. m + i = N
      BY ONLY <1>2, <1>4, <2>1
    <3> QED
      BY <2>1, <3>1 DEF After, N
  <2>2. CASE i # Len(v)
    <3>1. i + 1 \in 1 .. N - m /\ m + i # N /\ m + (i + 1) = (m + i) + 1
      BY ONLY <1>2, <1>3, <1>4, <2>2, i \in 0 .. Len(v)
    <3>2. After(v, i) = v[i + 1] /\ After(w, m + i) = w[(m + i) + 1]
      BY <2>2, <3>1 DEF After, N
    <3> QED
      BY <1>4, <3>1, <3>2
  <2> QED
    BY <2>1, <2>2
<1>6. g.head = After(v, 0)
  <2>1. 0 \in 0 .. Len(v) /\ m + 0 = m
    BY ONLY <1>2, <1>3, <1>4
  <2> QED
    BY <1>5, <2>1
<1>7. ASSUME NEW i \in 1 .. Len(v) PROVE g.cell[v[i]].next = After(v, i)
  <2>1. i \in 0 .. Len(v) /\ i \in 1 .. N - m
    BY ONLY <1>3, <1>4, i \in 1 .. Len(v)
  <2>2. v[i] = w[m + i] /\ m + i \in 1 .. Len(w)
    BY <1>3, <1>4, <2>1 DEF N
  <2>3. g.cell[w[m + i]].next = h.cell[w[m + i]].next
    BY <1>1, <2>2 DEF SameChain
  <2> QED
    BY <1>1, <1>5, <2>1, <2>2, <2>3
<1> QED
  BY <1>4, <1>6, <1>7 DEF IsPath, v

\* ps_RemoveSelect unlinks no cell but those it frees, and frees all that match.
LEMMA RemovedKeeps ==
  ASSUME NEW h \in Heaps, ~Endless(h), NEW f, NEW g, g = Removed(h, f)
  PROVE  /\ g \in Heaps /\ SameChain(h, g) /\ ~Endless(g)
         /\ Linked(g) \subseteq Linked(h)
         /\ \A c \in Linked(h) : c \in Linked(g) \/ (c \in h.live /\ h.cell[c].fd = f)
         /\ \A c \in Cells : c \in g.live <=>
              c \in h.live /\ ~(c \in Linked(h) /\ h.cell[c].fd = f)
<1> DEFINE w == Walk(h)
<1>1. IsPath(h, w)
  BY WalkIsPath
<1> HIDE DEF w
<1>2. PICK m : HasPassed(h, f, w, Len(w), g, m)
  BY <1>1, RemovedFacts
<1>3. /\ g \in Heaps
      /\ SameChain(h, g)
      /\ m \in 0 .. Len(w)
      /\ g.head = After(w, m)
      /\ \A i \in 1 .. m : w[i] \in h.live /\ h.cell[w[i]].fd = f
  BY <1>2 DEF HasPassed
<1>4. \A c \in Cells :
        c \in g.live <=> c \in h.live /\ ~\E i \in 1 .. Len(w) : w[i] = c /\ h.cell[c].fd = f
  BY <1>2 DEF HasPassed
<1> DEFINE v == [i \in 1 .. Len(w) - m |-> w[m + i]]
<1>5. IsPath(g, v)
  BY <1>1, <1>3, RestIsPath
<1>6. ~Endless(g)
  BY <1>3, <1>5, PathIsWalk
<1>7. Len(w) \in Nat /\ m \in Nat /\ Len(v) = Len(w) - m
  <2>1. Len(w) \in Nat
    BY <1>1 DEF IsPath
  <2>2. Len(w) - m \in Nat
    BY <1>3, <2>1
  <2> QED
    BY <1>3, <2>1, <2>2
<1>8. \A i \in 1 .. Len(w) - m : v[i] = w[m + i]
  OBVIOUS
<1> HIDE DEF v
<1>9. /\ \A c : c \in Linked(h) <=> \E i \in 1 .. Len(w) : w[i] = c
      /\ \A c : c \in Linked(g) <=> \E i \in 1 .. Len(v) : v[i] = c
  BY <1>1, <1>3, <1>5, LinkedFacts
<1>10. ASSUME NEW c \in Linked(g) PROVE c \in Linked(h)
  <2>1. PICK i \in 1 .. Len(v) : v[i] = c
    BY <1>9
  <2>2. m + i \in 1 .. Len(w) /\ v[i] = w[m + i]
    BY <1>7, <1>8
  <2> QED
    BY <1>9, <2>1, <2>2
<1>11. ASSUME NEW c \in Linked(h), ~(c \in h.live /\ h.cell[c].fd = f)
       PROVE  c \in Linked(g)
  <2>1. PICK i \in 1 .. Len(w) : w[i] = c
    BY <1>9
  <2>2. i \notin 1 .. m
    BY <1>3, <1>11, <2>1
  <2>3. i - m \in 1 .. Len(v) /\ m + (i - m) = i
    BY <1>7, <2>2
  <2>4. v[i - m] = c
    BY <1>7, <1>8, <2>1, <2>3
  <2> QED
    BY <1>9, <2>3, <2>4
<1>12. \A c \in Cells :
         c \in g.live <=> c \in h.live /\ ~(c \in Linked(h) /\ h.cell[c].fd = f)
  BY <1>4, <1>9
<1> QED
  BY <1>3, <1>6, <1>10, <1>11, <1>12

\* Allocating a cell changes no other one.
LEMMA AllocatedFacts ==
  ASSUME NEW h \in Heaps, NEW a \in Cells, NEW f \in Fds, NEW g, g = Allocated(h, a, f)
  PROVE  /\ g \in Heaps /\ g.head = h.head /\ g.live = h.live \cup {a}
         /\ g.cell[a] = [fd |-> f, next |-> Null, prev |-> Null]
         /\ \A c \in Cells : c # a => g.cell[c] = h.cell[c]
<1>1. h.head \in Pointer /\ h.cell \in [Cells -> Contents] /\ h.live \subseteq Cells
  BY DEF Heaps
<1> DEFINE e == [fd |-> f, next |-> Null, prev |-> Null]
<1>2. e \in Contents
  BY DEF Contents, Pointer
<1>3. /\ g.head = h.head
      /\ g.cell = [h.cell EXCEPT ![a] = e]
      /\ g.live = h.live \cup {a}
      /\ g = [head |-> g.head, cell |-> g.cell, live |-> g.live]
  BY DEF Allocated, Heaps
<1> HIDE DEF e
<1>4. /\ g.cell \in [Cells -> Contents] /\ g.cell[a] = e
      /\ \A c \in Cells : c # a => g.cell[c] = h.cell[c]
  BY <1>1, <1>2, <1>3
<1>5. g \in Heaps
  BY <1>1, <1>3, <1>4 DEF Heaps
<1> QED
  BY <1>3, <1>4, <1>5 DEF e

\* If it is not linked, the walk does not change.
LEMMA AllocatedPath ==
  ASSUME NEW h \in Heaps, NEW a \in Cells, NEW f \in Fds, NEW g, g = Allocated(h, a, f),
         NEW w, IsPath(h, w), \A i \in 1 .. Len(w) : w[i] # a
  PROVE  IsPath(g, w)
<1>1. /\ g.head = h.head
      /\ g.cell[a] = [fd |-> f, next |-> Null, prev |-> Null]
      /\ \A c \in Cells : c # a => g.cell[c] = h.cell[c]
  BY AllocatedFacts
<1>2. /\ w \in Seq(Cells) /\ h.head = After(w, 0)
      /\ \A i \in 1 .. Len(w) : w[i] \in Cells /\ h.cell[w[i]].next = After(w, i)
  BY DEF IsPath
<1>3. ASSUME NEW i \in 1 .. Len(w) PROVE g.cell[w[i]].next = After(w, i)
  <2>1. w[i] \in Cells /\ w[i] # a /\ h.cell[w[i]].next = After(w, i)
    BY <1>2
  <2> QED
    BY <1>1, <2>1
<1> QED
  BY <1>1, <1>2, <1>3 DEF IsPath

\* Linking a cell first makes it the head, and sets its next pointer if there was
\* a head before.
LEMMA LinkedFirstCells ==
  ASSUME NEW h \in Heaps, NEW a \in Cells, NEW g, g = LinkedFirst(h, a)
  PROVE  /\ g \in Heaps /\ g.head = a /\ g.live = h.live
         /\ \A c \in Cells :
              /\ g.cell[c].fd = h.cell[c].fd
              /\ g.cell[c].next = IF c = a /\ h.head # Null THEN h.head ELSE h.cell[c].next
              /\ g.cell[c].prev = IF c = h.head THEN a ELSE h.cell[c].prev
<1>1. h.head \in Pointer /\ h.cell \in [Cells -> Contents] /\ h.live \subseteq Cells
  BY DEF Heaps
<1>2. CASE h.head = Null
  <2>1. g = [h EXCEPT !.head = a]
    BY <1>2 DEF LinkedFirst
  <2>2. /\ g.head = a /\ g.cell = h.cell /\ g.live = h.live
        /\ g = [head |-> a, cell |-> h.cell, live |-> h.live]
    BY <2>1 DEF Heaps
  <2>3. g \in Heaps
    BY <1>1, <2>2 DEF Heaps, Pointer
  <2>4. \A c \in Cells : c # h.head
    BY <1>2, CellsAssumption
  <2> QED
    BY <1>2, <2>2, <2>3, <2>4
<1>3. CASE h.head # Null
  <2> DEFINE b == h.head
             c1 == [h.cell EXCEPT ![a].next = b]
             c2 == [c1 EXCEPT ![b].prev = a]
  <2>1. g = [h EXCEPT !.head = a, !.cell = c2]
    BY <1>3 DEF LinkedFirst
  <2>2. b \in Cells
    BY <1>1, <1>3 DEF Pointer
  <2>3. a \in Pointer /\ b \in Pointer
    BY <1>1 DEF Pointer
  <2>4. /\ c1 \in [Cells -> Contents]
        /\ \A c \in Cells : /\ c1[c].next = IF c = a THEN b ELSE h.cell[c].next
                            /\ c1[c].fd = h.cell[c].fd /\ c1[c].prev = h.cell[c].prev
    <3>1. c1[a] = [h.cell[a] EXCEPT !.next = b] /\ \A c \in Cells : c # a => c1[c] = h.cell[c]
      BY <1>1
    <3>2. h.cell[a] \in Contents
      BY <1>1
    <3>3. /\ c1[a] \in Contents /\ c1[a].next = b
          /\ c1[a].fd = h.cell[a].fd /\ c1[a].prev = h.cell[a].prev
      BY <2>3, <3>1, <3>2 DEF Contents
    <3>4. \A c \in Cells : c1[c] \in Contents
      BY <1>1, <3>1, <3>3
    <3>5. c1 \in [Cells -> Contents]
      BY <1>1, <3>4
    <3> QED
      BY <3>1, <3>3, <3>5
  <2> HIDE DEF c1
  <2>5. /\ c2 \in [Cells -> Contents]
        /\ \A c \in Cells : /\ c2[c].next = c1[c].next /\ c2[c].fd = c1[c].fd
                            /\ c2[c].prev = IF c = b THEN a ELSE c1[c].prev
    <3>1. c2 = [c1 EXCEPT ![b].prev = a]
      OBVIOUS
    <3> HIDE DEF c2, b
    <3> QED
      BY <2>2, <2>3, <2>4, <3>1, StorePrev
  <2> HIDE DEF c2
  <2>6. /\ g.head = a /\ g.cell = c2 /\ g.live = h.live
        /\ g = [head |-> a, cell |-> c2, live |-> h.live]
    BY <2>1 DEF Heaps
  <2>7. g \in Heaps
    BY <1>1, <2>3, <2>5, <2>6 DEF Heaps
  <2> QED
    BY <1>3, <2>4, <2>5, <2>6, <2>7
<1> QED
  BY <1>2, <1>3

\* Linking a cell first puts it before the path, and changes no other chain.
LEMMA LinkedFirstPath ==
  ASSUME NEW h \in Heaps, NEW w, IsPath(h, w), NEW a \in Cells,
         \A i \in 1 .. Len(w) : w[i] # a, h.cell[a].next = Null,
         NEW g, g = LinkedFirst(h, a)
  PROVE  IsPath(g, <<a>> \o w)
<1> DEFINE N == Len(w)
           x == <<a>> \o w
<1>1. /\ w \in Seq(Cells) /\ N \in Nat
      /\ h.head = After(w, 0)
      /\ \A i \in 1 .. N : w[i] \in Cells /\ h.cell[w[i]].next = After(w, i)
  BY DEF IsPath
<1>2. /\ x \in Seq(Cells) /\ Len(x) = N + 1 /\ x[1] = a
      /\ \A i \in 1 .. N : x[i + 1] = w[i]
  BY <1>1
<1> HIDE DEF N, x
<1>3. ASSUME NEW i \in 0 .. N PROVE After(x, i + 1) = After(w, i)
  <2>1. CASE i = N
    BY <1>1, <1>2, <2>1 DEF After, N
  <2>2. CASE i # N
    <3>1. i + 1 \in 1 .. N /\ i + 1 # N + 1
      BY ONLY <1>1, <2>2, i \in 0 .. N
    <3> QED
      BY <1>2, <2>2, <3>1 DEF After, N
  <2> QED
    BY <2>1, <2>2
<1>4. \A i \in 1 .. N + 1 : i = 1 \/ (i - 1 \in 1 .. N /\ (i - 1) + 1 = i /\ i - 1 \in 0 .. N)
  BY ONLY <1>1
<1>5. After(x, 0) = a /\ After(x, 1) = h.head
  <2>1. 0 # N + 1 /\ 0 \in 0 .. N /\ 0 + 1 = 1
    BY ONLY <1>1
  <2> QED
    BY <1>1, <1>2, <1>3, <2>1 DEF After
<1>6. /\ g.head = a
      /\ \A c \in Cells : g.cell[c].next =
           IF c = a /\ h.head # Null THEN h.head ELSE h.cell[c].next
  BY LinkedFirstCells
<1>7. ASSUME NEW i \in 1 .. N + 1 PROVE g.cell[x[i]].next = After(x, i)
  <2>1. CASE i = 1
    BY <1>2, <1>5, <1>6, <2>1
  <2>2. CASE i # 1
    <3>1. i - 1 \in 1 .. N /\ (i - 1) + 1 = i /\ i - 1 \in 0 .. N
      BY <1>4, <2>2
    <3>2. x[i] = w[i - 1] /\ After(x, i) = After(w, i - 1)
      BY <1>2, <1>3, <3>1
    <3>3. w[i - 1] \in Cells /\ w[i - 1] # a /\ h.cell[w[i - 1]].next = After(w, i - 1)
      BY <1>1, <3>1 DEF N
    <3> QED
      BY <1>6, <3>2, <3>3
  <2> QED
    BY <2>1, <2>2
<1>8. IsPath(g, x)
  BY <1>2, <1>5, <1>6, <1>7 DEF IsPath
<1> QED
  BY <1>8 DEF x

\* What is shown then is the new cell's descriptor, and what was shown before.
LEMMA LinkedFirstShown ==
  ASSUME NEW h \in Heaps, NEW w, IsPath(h, w), NEW a \in Cells,
         \A i \in 1 .. Len(w) : w[i] # a, h.cell[a].next = Null, a \in h.live,
         NEW g, g = LinkedFirst(h, a)
  PROVE  Shown(g) = <<h.cell[a].fd>> \o Shown(h)
<1> DEFINE N == Len(w)
           x == <<a>> \o w
           d == h.cell[a].fd
<1>1. /\ g \in Heaps /\ g.live = h.live
      /\ \A c \in Cells : g.cell[c].fd = h.cell[c].fd
      /\ IsPath(g, x)
  BY LinkedFirstCells, LinkedFirstPath
<1>2. /\ w \in Seq(Cells) /\ N \in Nat /\ w = Walk(h)
      /\ x \in Seq(Cells) /\ x = Walk(g)
  <2>1. w \in Seq(Cells) /\ w = Walk(h)
    BY PathIsWalk DEF IsPath
  <2>2. x \in Seq(Cells) /\ x = Walk(g)
    BY <1>1, PathIsWalk DEF IsPath
  <2> QED
    BY <2>1, <2>2
<1>3. Len(x) = N + 1 /\ x[1] = a /\ \A i \in 1 .. N : x[i + 1] = w[i]
  BY <1>2
<1>4. d \in Fds /\ \A i \in 1 .. N : w[i] \in Cells
  BY <1>2 DEF Heaps, Contents
<1> HIDE DEF x, d
<1>5. PICK u : IsShowing(h, w, u) /\ Shown(h) = u[N]
  BY <1>2, ShowingExists
<1>6. PICK t : IsShowing(g, x, t) /\ Shown(g) = t[Len(x)]
  BY <1>1, <1>2, ShowingExists
<1> HIDE DEF N
<1>7. /\ \A n \in 0 .. N : u[n] \in Seq(Fds)
      /\ u[0] = << >>
      /\ \A n \in 1 .. N :
           u[n] = IF w[n] \in h.live THEN Append(u[n - 1], h.cell[w[n]].fd) ELSE u[n - 1]
  BY <1>5 DEF IsShowing, N
<1>8. /\ t[0] = << >>
      /\ \A n \in 1 .. N + 1 :
           t[n] = IF x[n] \in g.live THEN Append(t[n - 1], g.cell[x[n]].fd) ELSE t[n - 1]
  BY <1>3, <1>6 DEF IsShowing
<1>9. t[1] = <<d>>
  <2>1. 1 \in 1 .. N + 1 /\ 1 - 1 = 0
    BY <1>2
  <2>2. t[1] = Append(t[0], d)
    BY <1>1, <1>3, <1>8, <2>1 DEF d
  <2> QED
    BY <1>8, <2>2
<1> DEFINE S == {n \in 0 .. N : t[n + 1] = <<d>> \o u[n]}
<1>10. 0 \in S
  <2>1. <<d>> \o << >> = <<d>> /\ 0 \in 0 .. N /\ 0 + 1 = 1
    BY <1>2
  <2> QED
    BY <1>7, <1>9, <2>1
<1>11. ASSUME NEW n \in 1 .. N, n - 1 \in S PROVE n \in S
  <2>1. /\ n \in 0 .. N /\ n - 1 \in 0 .. N /\ n + 1 \in 1 .. N + 1
        /\ (n + 1) - 1 = n /\ (n - 1) + 1 = n
    BY <1>2
  <2>2. t[n] = <<d>> \o u[n - 1]
    BY <1>11, <2>1
  <2>3. w[n] \in Cells /\ x[n + 1] = w[n] /\ g.cell[w[n]].fd = h.cell[w[n]].fd
    BY <1>1, <1>3, <1>4
  <2>4. t[n + 1] = IF w[n] \in h.live THEN Append(t[n], h.cell[w[n]].fd) ELSE t[n]
    BY <1>1, <1>8, <2>1, <2>3
  <2>5. CASE w[n] \in h.live
    <3> DEFINE e == h.cell[w[n]].fd
               q == u[n - 1]
    <3>1. e \in Fds /\ q \in Seq(Fds)
      BY <1>7, <2>1, <2>3 DEF Heaps, Contents
    <3>2. u[n] = Append(q, e) /\ t[n + 1] = Append(<<d>> \o q, e)
      BY <1>7, <2>2, <2>4, <2>5
    <3> HIDE DEF e, q
    <3>3. Append(<<d>> \o q, e) = <<d>> \o Append(q, e)
      BY ONLY <1>4, <3>1
    <3> QED
      BY <2>1, <3>2, <3>3
  <2>6. CASE w[n] \notin h.live
    BY <1>7, <2>1, <2>2, <2>4, <2>6
  <2> QED
    BY <2>5, <2>6
<1>12. \A n \in 0 .. N : n \in S
  <2> HIDE DEF S
  <2> QED
    BY <1>2, <1>10, <1>11, UpTo, Zenon
<1>13. N \in 0 .. N
  BY <1>2
<1> QED
  BY <1>3, <1>5, <1>6, <1>12, <1>13 DEF d

-----------------------------------------------------------------------------
(* A list without a freed cell.                                            *)

Registrations == [fd : Fds]

Descriptors(evs) == [i \in DOMAIN evs |-> evs[i].fd]

\* The list of the cells w is that of the events evs, and as it should be.
Fits(h, w, evs) ==
  /\ IsPath(h, w)
  /\ Len(w) = Len(evs)
  /\ \A i \in 1 .. Len(w) :
       /\ w[i] \in h.live
       /\ h.cell[w[i]].fd = evs[i].fd
       /\ h.cell[w[i]].prev = IF i = 1 THEN Null ELSE w[i - 1]

\* It shows the events.
LEMMA FitShows ==
  ASSUME NEW h \in Heaps, NEW w, NEW evs \in Seq(Registrations), Fits(h, w, evs)
  PROVE  Shown(h) = Descriptors(evs)
<1> DEFINE N == Len(w)
           d(i) == h.cell[w[i]].fd
<1>1. /\ w \in Seq(Cells) /\ w = Walk(h) /\ N \in Nat
      /\ N = Len(evs) /\ \A i \in 1 .. N : w[i] \in h.live /\ d(i) = evs[i].fd
  <2>1. IsPath(h, w) /\ w \in Seq(Cells)
    BY DEF Fits, IsPath
  <2> QED
    BY <2>1, PathIsWalk DEF Fits
<1>2. N + 1 \in 1 .. N + 1 /\ \A i \in 1 .. N : w[i] \in h.live <=> i # N + 1
  BY <1>1
<1>3. Shown(h) = [i \in 1 .. IF N + 1 <= N THEN N - 1 ELSE N |->
                    d(IF i < N + 1 THEN i ELSE i + 1)]
  <2>1. Shown(h) = AllBut(h, w, N + 1)
    BY <1>1, <1>2, ShownBut
  <2> QED
    BY <2>1 DEF AllBut
<1>4. DOMAIN evs = 1 .. N
  BY <1>1
<1> HIDE DEF N, d
<1>5. Shown(h) = [i \in 1 .. N |-> d(i)]
  <2>1. ~(N + 1 <= N) /\ \A i \in 1 .. N : i < N + 1
    BY ONLY <1>1
  <2> QED
    BY <1>3, <2>1
<1> QED
  BY <1>1, <1>4, <1>5 DEF Descriptors

\* What RemoveSelect makes of the registrations.
LEMMA RemoveSelectCases ==
  ASSUME NEW evs \in Seq(Registrations), Unique(evs), NEW f
  PROVE  \/ /\ \A i \in 1 .. Len(evs) : evs[i].fd # f
            /\ RemoveSelect(evs, f) = evs
            /\ ~LeavesFreed(evs, f)
         \/ \E k \in 1 .. Len(evs) :
              /\ evs[k].fd = f
              /\ \A i \in 1 .. Len(evs) : i # k => evs[i].fd # f
              /\ RemoveSelect(evs, f) \in Seq(Registrations)
              /\ RemoveSelect(evs, f) =
                   [i \in 1 .. Len(evs) - 1 |-> evs[IF i < k THEN i ELSE i + 1]]
              /\ LeavesFreed(evs, f) <=> k # 1
<1>1. CASE Watching(evs, f) = {}
  BY <1>1 DEF Watching, RemoveSelect, LeavesFreed
<1>2. CASE Watching(evs, f) # {}
  <2>1. PICK k \in DOMAIN evs : evs[k].fd = f /\ RemoveSelect(evs, f) = Deleted(evs, k)
    BY <1>2 DEF Watching, RemoveSelect, RemoveAt, Deleted
  <2> DEFINE r == Deleted(evs, k)
  <2>2. /\ r \in Seq(Registrations) /\ Len(r) = Len(evs) - 1
        /\ \A i \in 1 .. Len(evs) - 1 : r[i] = evs[IF i < k THEN i ELSE i + 1]
    BY DeletedFacts
  <2> HIDE DEF r
  <2>3. r = [i \in 1 .. Len(evs) - 1 |-> evs[IF i < k THEN i ELSE i + 1]]
    <3>1. r = [i \in 1 .. Len(r) |-> r[i]]
      BY <2>2
    <3> QED
      BY <2>2, <3>1
  <2>4. \A i \in 1 .. Len(evs) : i # k => evs[i].fd # f
    BY <2>1 DEF Unique
  <2>5. LeavesFreed(evs, f) <=> k # 1
    BY <2>1, <2>4 DEF LeavesFreed, Watching
  <2> QED
    BY <2>1, <2>2, <2>3, <2>4, <2>5 DEF r
<1> QED
  BY <1>1, <1>2

\* ps_RemoveSelect of a list that is as it should be: the list shows the events
\* that remain, and is as it should be unless the event was not the first.  Nor
\* is a prev pointer that is Null set then.
LEMMA RemovedFits ==
  ASSUME NEW h \in Heaps, NEW w, NEW evs \in Seq(Registrations), Fits(h, w, evs),
         Unique(evs), NEW f, NEW g, g = Removed(h, f),
         NEW s, s = RemoveSelect(evs, f)
  PROVE  /\ Shown(g) = Descriptors(s)
         /\ LeavesFreed(evs, f) => FreedIsLinked(g)
         /\ ~LeavesFreed(evs, f) =>
              /\ \E v : Fits(g, v, s)
              /\ \A c \in Cells : h.cell[c].prev = Null => g.cell[c].prev = Null
<1> DEFINE N == Len(w)
<1>1. /\ IsPath(h, w) /\ w \in Seq(Cells) /\ N \in Nat /\ N = Len(evs)
      /\ \A i \in 1 .. N :
           /\ w[i] \in Cells
           /\ w[i] \in h.live
           /\ h.cell[w[i]].fd = evs[i].fd
           /\ h.cell[w[i]].prev = IF i = 1 THEN Null ELSE w[i - 1]
           /\ h.cell[w[i]].next = After(w, i)
  BY DEF Fits, IsPath
<1> HIDE DEF N
<1>2. CASE /\ \A i \in 1 .. Len(evs) : evs[i].fd # f
           /\ RemoveSelect(evs, f) = evs
           /\ ~LeavesFreed(evs, f)
  <2>1. g = h
    <3>1. \A i \in 1 .. Len(w) : h.cell[w[i]].fd # f
      BY <1>1, <1>2 DEF N
    <3> QED
      BY <1>1, <3>1, RemovedNone
  <2> QED
    BY <1>2, <2>1, FitShows
<1>3. ASSUME NEW k \in 1 .. Len(evs), evs[k].fd = f,
             \A i \in 1 .. Len(evs) : i # k => evs[i].fd # f,
             s \in Seq(Registrations),
             s = [i \in 1 .. Len(evs) - 1 |-> evs[IF i < k THEN i ELSE i + 1]],
             LeavesFreed(evs, f) <=> k # 1
      PROVE  /\ Shown(g) = Descriptors(s)
             /\ LeavesFreed(evs, f) => FreedIsLinked(g)
             /\ ~LeavesFreed(evs, f) =>
                  /\ \E v : Fits(g, v, s)
                  /\ \A c \in Cells : h.cell[c].prev = Null => g.cell[c].prev = Null
  <2>1. k \in 1 .. N /\ w[k] \in Cells /\ w[k] \in h.live
    BY <1>1, <1>3
  <2>2. g = Unlink(h, w[k])
    <3>1. /\ k \in 1 .. Len(w)
          /\ h.cell[w[k]].fd = f
          /\ \A i \in 1 .. Len(w) : i # k => h.cell[w[i]].fd # f
      <4>1. h.cell[w[k]].fd = f
        BY <1>1, <1>3, <2>1
      <4>2. ASSUME NEW i \in 1 .. N, i # k PROVE h.cell[w[i]].fd # f
        <5>1. i \in 1 .. Len(evs) /\ h.cell[w[i]].fd = evs[i].fd
          BY <1>1
        <5> QED
          BY <1>3, <4>2, <5>1
      <4> QED
        BY <2>1, <4>1, <4>2 DEF N
    <3> QED
      BY <1>1, <2>1, <3>1, RemovedOne
  <2>3. /\ g \in Heaps
        /\ SameChain(h, g)
        /\ g.live = h.live \ {w[k]}
        /\ g.head = IF w[k] = h.head THEN h.cell[w[k]].next ELSE h.head
        /\ h.cell[w[k]].prev = Null =>
             \A c \in Cells : g.cell[c].prev =
               IF c = h.cell[w[k]].next /\ c # w[k] THEN Null ELSE h.cell[c].prev
    BY <2>1, <2>2, UnlinkFacts
  <2>4. \A i \in 1 .. N : g.cell[w[i]].fd = evs[i].fd /\ g.cell[w[i]].next = After(w, i)
    <3>1. ASSUME NEW i \in 1 .. N
          PROVE  g.cell[w[i]].fd = evs[i].fd /\ g.cell[w[i]].next = After(w, i)
      <4>1. /\ w[i] \in Cells /\ h.cell[w[i]].fd = evs[i].fd
            /\ h.cell[w[i]].next = After(w, i)
        BY <1>1
      <4>2. g.cell[w[i]].next = h.cell[w[i]].next /\ g.cell[w[i]].fd = h.cell[w[i]].fd
        BY <2>3, <4>1 DEF SameChain
      <4> QED
        BY <4>1, <4>2, Zenon
    <3> QED
      BY <3>1
  <2>5. \A i, j \in 1 .. N : w[i] = w[j] => i = j
    BY <1>1, PathInjective DEF N
  <2>6. h.head = w[1]
    BY <1>1, <2>1 DEF IsPath, After, N
  <2>7. \A i \in 1 .. N : w[i] \in g.live <=> i # k
    <3>1. ASSUME NEW i \in 1 .. N PROVE w[i] \in g.live <=> i # k
      <4>1. w[i] \in h.live /\ (w[i] = w[k] <=> i = k)
        BY <1>1, <2>1, <2>5
      <4>2. w[i] \in g.live <=> w[i] \in h.live /\ w[i] # w[k]
        BY <2>3, Zenon
      <4> QED
        BY <4>1, <4>2, Zenon
    <3> QED
      BY <3>1
  <2>8. CASE k # 1
    <3>1. g.head = h.head
      <4>1. 1 \in 1 .. N
        BY ONLY <1>1, <2>1
      <4>2. w[k] # w[1]
        BY <2>1, <2>5, <2>8, <4>1, Zenon
      <4> QED
        BY <2>3, <2>6, <4>2, Zenon
    <3>2. IsPath(g, w)
      BY <1>1, <2>4, <3>1 DEF IsPath, N
    <3>3. w = Walk(g)
      BY <2>3, <3>2, PathIsWalk
    <3>4. FreedIsLinked(g)
      <4>1. w[k] \in Linked(g) /\ w[k] \notin g.live
        BY <2>1, <2>3, <3>2, <3>3, LinkedFacts DEF N
      <4> QED
        BY <4>1 DEF FreedIsLinked
    <3>5. Shown(g) = [i \in 1 .. IF k <= N THEN N - 1 ELSE N |->
                        g.cell[w[IF i < k THEN i ELSE i + 1]].fd]
      <4>1. k \in 1 .. N + 1
        BY ONLY <1>1, <2>1
      <4>2. k \in 1 .. Len(w) + 1 /\ \A i \in 1 .. Len(w) : w[i] \in g.live <=> i # k
        BY <2>7, <4>1 DEF N
      <4>3. Shown(g) = AllBut(g, w, k)
        <5>1. w \in Seq(Cells) /\ g \in Heaps
          BY <1>1, <2>3, Zenon
        <5> QED
          BY <3>3, <4>2, <5>1, ShownBut
      <4> QED
        BY <4>3, Zenon DEF N, AllBut
    <3>6. k <= N /\ N - 1 \in Nat /\ \A i \in 1 .. N - 1 : (IF i < k THEN i ELSE i + 1) \in 1 .. N
      BY ONLY <1>1, <2>1
    <3>7. DOMAIN s = 1 .. N - 1 /\ \A i \in 1 .. N - 1 : s[i] = evs[IF i < k THEN i ELSE i + 1]
      BY <1>1, <1>3
    <3>8. Shown(g) = Descriptors(s)
      BY <2>4, <3>5, <3>6, <3>7 DEF Descriptors
    <3> QED
      BY <1>3, <2>8, <3>4, <3>8
  <2>9. CASE k = 1
    <3> DEFINE v == [i \in 1 .. N - 1 |-> w[1 + i]]
    <3>1. N - 1 \in Nat /\ 1 \in 0 .. N /\ 1 \in 1 .. N
          /\ \A i \in 1 .. N - 1 : i + 1 \in 1 .. N /\ 1 + i = i + 1 /\ ~(i < 1) /\ (i + 1) - 1 = i
      BY ONLY <1>1, <2>1, <2>9
    <3>2. g.head = After(w, 1)
      BY <1>1, <2>3, <2>6, <2>9, <3>1
    <3>3. IsPath(g, v)
      BY <1>1, <2>3, <3>1, <3>2, RestIsPath DEF N
    <3>4. Len(v) = N - 1 /\ \A i \in 1 .. N - 1 : v[i] = w[i + 1]
      BY <3>1
    <3>5. Len(s) = N - 1 /\ \A i \in 1 .. N - 1 : s[i] = evs[i + 1]
      BY <1>1, <1>3, <2>9, <3>1
    <3> HIDE DEF v
    <3>6. h.cell[w[1]].prev = Null
      BY <1>1, <3>1
    <3>7. ASSUME NEW i \in 1 .. N - 1
          PROVE  /\ v[i] \in g.live
                 /\ g.cell[v[i]].fd = s[i].fd
                 /\ g.cell[v[i]].prev = IF i = 1 THEN Null ELSE v[i - 1]
      <4>1. i + 1 \in 1 .. N /\ v[i] = w[i + 1] /\ s[i] = evs[i + 1] /\ i + 1 # 1
        BY <3>1, <3>4, <3>5
      <4>2. v[i] \in g.live /\ g.cell[v[i]].fd = s[i].fd
        BY <2>4, <2>7, <2>9, <4>1
      <4>3. w[i + 1] \in Cells /\ w[i + 1] # w[1]
        BY <1>1, <2>5, <3>1, <4>1
      <4>4. g.cell[w[i + 1]].prev =
              IF w[i + 1] = After(w, 1) THEN Null ELSE h.cell[w[i + 1]].prev
        BY <1>1, <2>3, <2>9, <3>1, <3>6, <4>3
      <4>5. CASE i = 1
        <5>1. After(w, 1) = w[1 + 1]
          BY <1>1, <4>1, <4>5 DEF After, N
        <5> QED
          BY <4>1, <4>2, <4>4, <4>5, <5>1
      <4>6. CASE i # 1
        <5>1. i - 1 \in 1 .. N - 1 /\ (i - 1) + 1 = i /\ (i + 1) - 1 = i
          BY ONLY <3>1, <4>6, i \in 1 .. N - 1
        <5>2. w[i + 1] # After(w, 1)
          <6>1. 1 # N /\ 1 + 1 \in 1 .. N /\ 1 + 1 # i + 1
            <7>1. N \in Nat /\ i \in 1 .. N - 1 /\ i # 1
              BY <1>1, <4>6
            <7> QED
              BY ONLY <7>1
          <6>2. After(w, 1) = w[1 + 1]
            BY <6>1 DEF After, N
          <6> QED
            BY <2>5, <4>1, <6>1, <6>2
        <5>3. h.cell[w[i + 1]].prev = w[i] /\ v[i - 1] = w[i]
          BY <1>1, <3>4, <4>1, <5>1
        <5> QED
          BY <4>1, <4>2, <4>4, <4>6, <5>2, <5>3
      <4> QED
        BY <4>5, <4>6
    <3>8. Fits(g, v, s)
      BY <3>3, <3>4, <3>5, <3>7 DEF Fits
    <3>9. Shown(g) = Descriptors(s)
      <4>1. g \in Heaps /\ s \in Seq(Registrations)
        BY <1>3, <2>3, Zenon
      <4> QED
        BY <3>8, <4>1, FitShows
    <3>10. \A c \in Cells : h.cell[c].prev = Null => g.cell[c].prev = Null
      BY <2>3, <2>9, <3>6
    <3> QED
      BY <1>3, <2>9, <3>8, <3>9, <3>10
  <2> QED
    BY <2>8, <2>9
<1> QED
  BY <1>2, <1>3, RemoveSelectCases

-----------------------------------------------------------------------------
(* The calls.                                                              *)

\* What holds of the heap h and the registrations evs until a walk goes astray.
InOrder(h, evs) ==
  /\ h \in Heaps
  /\ evs \in Seq(Registrations)
  /\ Unique(evs)
  /\ ~Endless(h)
  /\ h.live \subseteq Linked(h)
  /\ ~FreedIsLinked(h) => \E w : Fits(h, w, evs)

\* What a call that edits the registrations of f does.  It finds the heap h and
\* the registrations evs, walks the list of k, and leaves g and s.
HasCalled(h, evs, f, k, g, s) ==
  /\ g \in Heaps /\ s \in Seq(Registrations) /\ Unique(s)
  /\ FreedIsLinked(g) <=> FreedIsLinked(h) \/ LeavesFreed(evs, f)
  /\ ~FreedIsLinked(h) =>
       ~Endless(k) /\ ~FreedIsLinked(k) /\ Shown(g) = Descriptors(s)
  /\ ~Endless(k) /\ Shown(g) = Descriptors(s) =>
       ~Endless(g) /\ g.live \subseteq Linked(g)
  /\ ~FreedIsLinked(g) => \E v : Fits(g, v, s)

\* A list that is as it should be has no freed cell.
LEMMA FitsIsLive ==
  ASSUME NEW h \in Heaps, NEW w, NEW evs, Fits(h, w, evs)
  PROVE  ~FreedIsLinked(h) /\ ~Endless(h)
<1>1. IsPath(h, w) /\ \A i \in 1 .. Len(w) : w[i] \in h.live
  BY DEF Fits
<1>2. \A c \in Linked(h) : c \in h.live
  BY <1>1, LinkedFacts
<1>3. ~Endless(h)
  BY <1>1, PathIsWalk
<1> QED
  BY <1>2, <1>3 DEF FreedIsLinked

\* The registrations that ps_RemoveSelect leaves.
LEMMA RegistrationsLeft ==
  ASSUME NEW evs \in Seq(Registrations), Unique(evs), NEW f \in Fds,
         NEW q, q = RemoveSelect(evs, f)
  PROVE  /\ q \in Seq(Registrations) /\ Unique(q) /\ \A i \in DOMAIN q : q[i].fd # f
         /\ AddSelect(evs, [fd |-> f]) = <<[fd |-> f]>> \o q
         /\ <<[fd |-> f]>> \o q \in Seq(Registrations)
         /\ Unique(<<[fd |-> f]>> \o q)
<1> DEFINE ev == [fd |-> f]
<1>1. ev \in Registrations /\ ev.fd = f
  BY DEF Registrations
<1>2. HasDropped(Registrations, evs, f, q)
  <2>1. CASE Watching(evs, f) = {}
    BY <2>1 DEF RemoveSelect, Watching, Unique, HasDropped
  <2>2. CASE Watching(evs, f) # {}
    <3>1. PICK k \in DOMAIN evs : evs[k].fd = f /\ RemoveSelect(evs, f) = Deleted(evs, k)
      BY <2>2 DEF RemoveSelect, Watching, RemoveAt, Deleted
    <3> QED
      BY <3>1, DeletedList
  <2> QED
    BY <2>1, <2>2
<1>3. AddSelect(evs, ev) = <<ev>> \o q
  BY <1>1 DEF AddSelect, Cons
<1> HIDE DEF ev
<1>4. HasAdded(Registrations, evs, ev, <<ev>> \o q)
  BY <1>1, <1>2, PrependedList
<1>5. q \in Seq(Registrations) /\ Unique(q) /\ \A i \in DOMAIN q : q[i].fd # f
  BY <1>2 DEF HasDropped
<1>6. <<ev>> \o q \in Seq(Registrations) /\ Unique(<<ev>> \o q)
  BY <1>4 DEF HasAdded
<1> QED
  BY <1>3, <1>5, <1>6 DEF ev

\* ps_RemoveSelect.
LEMMA RemoveCall ==
  ASSUME NEW h, NEW evs, InOrder(h, evs), NEW f \in Fds,
         NEW g, g = Removed(h, f), NEW s, s = RemoveSelect(evs, f)
  PROVE  HasCalled(h, evs, f, h, g, s)
<1>1. /\ h \in Heaps /\ evs \in Seq(Registrations) /\ Unique(evs) /\ ~Endless(h)
      /\ h.live \subseteq Linked(h)
      /\ ~FreedIsLinked(h) => \E w : Fits(h, w, evs)
  BY DEF InOrder
<1>2. /\ g \in Heaps /\ ~Endless(g)
      /\ \A c \in Linked(h) : c \in Linked(g) \/ (c \in h.live /\ h.cell[c].fd = f)
      /\ \A c \in Cells : c \in g.live <=>
           c \in h.live /\ ~(c \in Linked(h) /\ h.cell[c].fd = f)
  BY <1>1, RemovedKeeps
<1>3. s \in Seq(Registrations) /\ Unique(s)
  BY <1>1, RegistrationsLeft
<1>4. h.live \subseteq Cells /\ g.live \subseteq Cells /\ Linked(h) \subseteq Cells
  <2>1. Linked(h) \subseteq Cells
    BY <1>1, WalkIsPath, LinkedFacts
  <2> QED
    BY <1>1, <1>2, <2>1 DEF Heaps
<1>5. g.live \subseteq Linked(g)
  BY <1>1, <1>2, <1>4
<1>6. CASE FreedIsLinked(h)
  <2>1. PICK c \in Linked(h) : c \notin h.live
    BY <1>6 DEF FreedIsLinked
  <2>2. c \in Linked(g) /\ c \notin g.live
    BY <1>2, <1>4, <2>1
  <2>3. FreedIsLinked(g)
    BY <2>2 DEF FreedIsLinked
  <2> QED
    BY <1>2, <1>3, <1>5, <1>6, <2>3 DEF HasCalled
<1>7. CASE ~FreedIsLinked(h)
  <2>1. PICK w : Fits(h, w, evs)
    BY <1>1, <1>7
  <2>2. /\ Shown(g) = Descriptors(s)
        /\ LeavesFreed(evs, f) => FreedIsLinked(g)
        /\ ~LeavesFreed(evs, f) => \E v : Fits(g, v, s)
    BY <1>1, <2>1, RemovedFits
  <2>3. ~LeavesFreed(evs, f) => ~FreedIsLinked(g)
    BY <1>2, <2>2, FitsIsLive
  <2> QED
    BY <1>1, <1>2, <1>3, <1>5, <1>7, <2>2, <2>3 DEF HasCalled
<1> QED
  BY <1>6, <1>7

\* Allocating a cell that is linked still ends the list there.
LEMMA AllocatedLinked ==
  ASSUME NEW h \in Heaps, NEW w, IsPath(h, w), NEW j \in 1 .. Len(w), NEW f \in Fds,
         NEW k, k = Allocated(h, w[j], f)
  PROVE  IsPath(k, [i \in 1 .. j |-> w[i]])
<1> DEFINE N == Len(w)
           v == [i \in 1 .. j |-> w[i]]
<1>1. /\ w \in Seq(Cells) /\ N \in Nat /\ j \in 1 .. N /\ h.head = After(w, 0)
      /\ \A i \in 1 .. N : w[i] \in Cells /\ h.cell[w[i]].next = After(w, i)
      /\ \A i \in 1 .. N : w[i] = w[j] => i = j
  BY PathInjective DEF IsPath
<1>2. /\ k.head = h.head
      /\ k.cell[w[j]].next = Null
      /\ \A c \in Cells : c # w[j] => k.cell[c] = h.cell[c]
  <2>1. w[j] \in Cells
    BY <1>1
  <2>2. /\ k.head = h.head
        /\ k.cell[w[j]] = [fd |-> f, next |-> Null, prev |-> Null]
        /\ \A c \in Cells : c # w[j] => k.cell[c] = h.cell[c]
    BY <2>1, AllocatedFacts
  <2> QED
    BY <2>2
<1> HIDE DEF N
<1>3. /\ j \in Nat /\ 1 \in 1 .. j /\ 0 # j /\ 0 # N
      /\ \A i \in 1 .. j : i \in 1 .. N /\ (i # j => i # N /\ i + 1 \in 1 .. j)
  BY ONLY <1>1
<1>4. v \in Seq(Cells) /\ Len(v) = j /\ \A i \in 1 .. j : v[i] = w[i]
  <2>1. v \in [1 .. j -> Cells]
    BY <1>1, <1>3
  <2> HIDE DEF v
  <2>2. v \in Seq(Cells) /\ Len(v) = j
    BY <1>3, <2>1, IsSeq
  <2> QED
    BY <2>2 DEF v
<1> HIDE DEF v
<1>5. k.head = After(v, 0)
  BY <1>1, <1>2, <1>3, <1>4 DEF After, N
<1>6. ASSUME NEW i \in 1 .. j PROVE k.cell[v[i]].next = After(v, i)
  <2>1. CASE i = j
    BY <1>2, <1>4, <2>1 DEF After
  <2>2. CASE i # j
    <3>1. i \in 1 .. N /\ i # N /\ i + 1 \in 1 .. j /\ v[i] = w[i] /\ v[i + 1] = w[i + 1]
      BY <1>3, <1>4, <2>2
    <3>2. w[i] \in Cells /\ w[i] # w[j] /\ h.cell[w[i]].next = w[i + 1]
      BY <1>1, <2>2, <3>1 DEF After, N
    <3> QED
      BY <1>2, <1>4, <2>2, <3>1, <3>2 DEF After
  <2> QED
    BY <2>1, <2>2
<1>7. IsPath(k, v)
  BY <1>4, <1>5, <1>6 DEF IsPath
<1> QED
  BY <1>7 DEF v

\* ps_AddSelect, when malloc(3) returns a freed cell that is linked still: the
\* removal frees it once more, and the list does not show its registration.
LEMMA AddCallReused ==
  ASSUME NEW h, NEW evs, InOrder(h, evs), NEW f \in Fds,
         NEW a \in Cells, a \notin h.live, a \in Linked(h),
         NEW k, k = Allocated(h, a, f), NEW r, r = Removed(k, f),
         NEW g, g = LinkedFirst(r, a), NEW s, s = AddSelect(evs, [fd |-> f])
  PROVE  HasCalled(h, evs, f, k, g, s)
<1>1. h \in Heaps /\ evs \in Seq(Registrations) /\ Unique(evs) /\ ~Endless(h)
  BY DEF InOrder
<1>2. FreedIsLinked(h)
  BY DEF FreedIsLinked
<1>3. /\ s \in Seq(Registrations) /\ Unique(s)
      /\ \E q \in Seq(Registrations) : s = <<[fd |-> f]>> \o q
  <2> DEFINE q == RemoveSelect(evs, f)
  <2>1. /\ q \in Seq(Registrations)
        /\ AddSelect(evs, [fd |-> f]) = <<[fd |-> f]>> \o q
        /\ <<[fd |-> f]>> \o q \in Seq(Registrations)
        /\ Unique(<<[fd |-> f]>> \o q)
    BY <1>1, RegistrationsLeft
  <2> HIDE DEF q
  <2>2. s = <<[fd |-> f]>> \o q
    BY <2>1, Zenon
  <2> QED
    BY <2>1, <2>2, Zenon
<1> DEFINE w == Walk(h)
<1>4. PICK j \in 1 .. Len(w) : w[j] = a
  <2>1. IsPath(h, w)
    BY <1>1, WalkIsPath
  <2> HIDE DEF w
  <2> QED
    BY <1>1, <2>1, LinkedFacts
<1>5. PICK v : IsPath(k, v) /\ \E i \in 1 .. Len(v) : v[i] = a
  <2>1. IsPath(h, w)
    BY <1>1, WalkIsPath
  <2> HIDE DEF w
  <2> DEFINE x == [i \in 1 .. j |-> w[i]]
  <2>2. IsPath(k, x)
    BY <1>1, <1>4, <2>1, AllocatedLinked
  <2>3. Len(x) = j /\ j \in 1 .. j /\ x[j] = a
    BY <1>4, <2>1 DEF IsPath
  <2> HIDE DEF x
  <2> QED
    BY <2>2, <2>3
<1>6. k \in Heaps /\ k.cell[a].fd = f /\ k.live = h.live \cup {a}
  <2>1. /\ k \in Heaps /\ k.live = h.live \cup {a}
        /\ k.cell[a] = [fd |-> f, next |-> Null, prev |-> Null]
    BY <1>1, AllocatedFacts
  <2> QED
    BY <2>1
<1>7. /\ Linked(k) \subseteq Cells /\ a \in Linked(k) /\ ~Endless(k)
      /\ \A c \in Linked(k) : k.cell[c].next \in Linked(k) \cup {Null}
  BY <1>5, <1>6, LinkedFacts, PathIsWalk
<1>8. /\ r \in Heaps /\ SameChain(k, r) /\ Linked(r) \subseteq Linked(k)
      /\ \A c \in Cells : c \in r.live <=>
           c \in k.live /\ ~(c \in Linked(k) /\ k.cell[c].fd = f)
  BY <1>6, <1>7, RemovedKeeps
<1>9. /\ g \in Heaps /\ g.head = a /\ g.live = r.live
      /\ \A c \in Cells :
           /\ g.cell[c].fd = r.cell[c].fd
           /\ g.cell[c].next = IF c = a /\ r.head # Null THEN r.head ELSE r.cell[c].next
  BY <1>8, LinkedFirstCells
<1>10. FreedIsLinked(g)
  <2>1. a \notin g.live
    BY <1>6, <1>7, <1>8, <1>9
  <2>2. a # Null
    BY CellsAssumption
  <2>3. a \in Linked(g)
    BY <1>9, <2>2, HeadLinked
  <2> QED
    BY <2>1, <2>3 DEF FreedIsLinked
<1>11. Linked(g) \subseteq Linked(k)
  <2>1. ASSUME NEW c \in Cells, c \in Linked(k) PROVE g.cell[c].next \in Linked(k) \cup {Null}
    <3>1. CASE c = a /\ r.head # Null
      <4>1. r.head \in Linked(r)
        BY <1>8, <3>1, HeadLinked
      <4> QED
        BY <1>8, <1>9, <3>1, <4>1
    <3>2. CASE ~(c = a /\ r.head # Null)
      <4>1. g.cell[c].next = k.cell[c].next
        BY <1>8, <1>9, <3>2 DEF SameChain
      <4> QED
        BY <1>7, <2>1, <4>1
    <3> QED
      BY <3>1, <3>2
  <2>2. g.head \in Linked(k) \cup {Null}
    BY <1>7, <1>9
  <2> QED
    BY <1>9, <2>1, <2>2, LinkedClosed
<1>12. Shown(g) # Descriptors(s)
  <2>1. SUFFICES ASSUME Shown(g) = Descriptors(s) PROVE FALSE
    OBVIOUS
  <2>2. 1 \in DOMAIN s /\ s[1].fd = f
    BY <1>3
  <2>3. 1 \in DOMAIN Shown(g) /\ Shown(g)[1] = f
    BY <2>1, <2>2 DEF Descriptors
  <2>4. PICK c \in Linked(g) : c \in g.live /\ g.cell[c].fd = f
    BY <1>9, <2>3, ShownIsLinked
  <2>5. c \in Cells /\ c \in Linked(k)
    BY <1>7, <1>11
  <2>6. c \in r.live /\ k.cell[c].fd = f
    BY <1>8, <1>9, <2>4, <2>5 DEF SameChain
  <2> QED
    BY <1>8, <2>5, <2>6
<1> QED
  BY <1>2, <1>3, <1>9, <1>10, <1>12 DEF HasCalled

\* A new first registration shows first.
LEMMA DescriptorsFirst ==
  ASSUME NEW q \in Seq(Registrations), NEW f \in Fds
  PROVE  Descriptors(<<[fd |-> f]>> \o q) = <<f>> \o Descriptors(q)
<1> DEFINE s == <<[fd |-> f]>> \o q
           d == Descriptors(q)
           N == Len(q)
<1>1. /\ N \in Nat /\ DOMAIN s = 1 .. N + 1 /\ s[1].fd = f
      /\ \A i \in 1 .. N : s[i + 1] = q[i]
  OBVIOUS
<1>2. /\ d \in Seq(Fds) /\ Len(d) = N
      /\ \A i \in 1 .. N : d[i] = q[i].fd
  <2>1. d \in [1 .. N -> Fds]
    <3>1. \A i \in 1 .. N : q[i] \in Registrations
      OBVIOUS
    <3>2. \A i \in 1 .. N : q[i].fd \in Fds
      BY <3>1 DEF Registrations
    <3>3. d = [i \in 1 .. N |-> q[i].fd]
      BY DEF Descriptors
    <3> QED
      BY <3>2, <3>3
  <2> HIDE DEF d
  <2>2. d \in Seq(Fds) /\ Len(d) = N
    BY <1>1, <2>1, IsSeq
  <2> QED
    BY <2>2 DEF d, Descriptors
<1> HIDE DEF s, d, N
<1>3. <<f>> \o d = [i \in 1 .. N + 1 |-> IF i = 1 THEN f ELSE d[i - 1]]
  BY <1>1, <1>2
<1>4. ASSUME NEW i \in 1 .. N + 1 PROVE s[i].fd = IF i = 1 THEN f ELSE d[i - 1]
  <2>1. CASE i = 1
    BY <1>1, <2>1
  <2>2. CASE i # 1
    <3>1. i - 1 \in 1 .. N /\ (i - 1) + 1 = i
      BY <1>1, <2>2
    <3>2. s[i] = q[i - 1] /\ d[i - 1] = q[i - 1].fd
      BY <1>1, <1>2, <3>1
    <3> QED
      BY <2>2, <3>2
  <2> QED
    BY <2>1, <2>2
<1>5. Descriptors(s) = <<f>> \o d
  BY <1>1, <1>3, <1>4 DEF Descriptors
<1> QED
  BY <1>5 DEF s, d

\* Linking the cell of a new registration first in a list that is as it should be.
LEMMA LinkedFirstFits ==
  ASSUME NEW h \in Heaps, NEW v, NEW q \in Seq(Registrations), Fits(h, v, q),
         NEW a \in Cells, a \in h.live, \A i \in 1 .. Len(v) : v[i] # a,
         h.cell[a].next = Null, h.cell[a].prev = Null,
         NEW f \in Fds, h.cell[a].fd = f, NEW g, g = LinkedFirst(h, a)
  PROVE  Fits(g, <<a>> \o v, <<[fd |-> f]>> \o q)
<1> DEFINE N == Len(v)
           x == <<a>> \o v
           s == <<[fd |-> f]>> \o q
<1>1. /\ IsPath(h, v) /\ v \in Seq(Cells) /\ N \in Nat /\ N = Len(q)
      /\ h.head = After(v, 0)
      /\ \A i \in 1 .. N :
           /\ v[i] \in Cells
           /\ v[i] \in h.live
           /\ h.cell[v[i]].fd = q[i].fd
           /\ h.cell[v[i]].prev = IF i = 1 THEN Null ELSE v[i - 1]
  BY DEF Fits, IsPath
<1>2. /\ Len(x) = N + 1 /\ x[1] = a
      /\ \A i \in 1 .. N : x[i + 1] = v[i]
  BY <1>1
<1>3. /\ Len(s) = N + 1 /\ s[1].fd = f
      /\ \A i \in 1 .. N : s[i + 1] = q[i]
  BY <1>1
<1>4. IsPath(g, x)
  BY <1>1, LinkedFirstPath
<1>5. /\ g.live = h.live
      /\ \A c \in Cells : /\ g.cell[c].fd = h.cell[c].fd
                          /\ g.cell[c].prev = IF c = h.head THEN a ELSE h.cell[c].prev
  BY LinkedFirstCells
<1>6. \A i, j \in 1 .. N : v[i] = v[j] => i = j
  BY <1>1, PathInjective
<1>7. h.head # a
  <2>1. 0 # N => 0 + 1 \in 1 .. N
    BY ONLY <1>1
  <2> QED
    BY <1>1, <2>1, CellsAssumption DEF After
<1> HIDE DEF N, x, s
<1>8. ASSUME NEW i \in 1 .. N + 1
      PROVE  /\ x[i] \in g.live
             /\ g.cell[x[i]].fd = s[i].fd
             /\ g.cell[x[i]].prev = IF i = 1 THEN Null ELSE x[i - 1]
  <2>1. CASE i = 1
    BY <1>2, <1>3, <1>5, <1>7, <2>1
  <2>2. CASE i # 1
    <3> DEFINE j == i - 1
    <3>1. j \in 1 .. N /\ j + 1 = i /\ i - 1 = j /\ 0 # N /\ 1 \in 1 .. N /\ 0 + 1 = 1
      BY <1>1, <2>2
    <3> HIDE DEF j
    <3>2. x[i] = v[j] /\ s[i] = q[j] /\ v[j] \in Cells /\ v[j] \in h.live
      BY <1>1, <1>2, <1>3, <3>1
    <3>3. h.head = v[1]
      BY <1>1, <3>1 DEF After, N
    <3>4. g.cell[v[j]].prev = x[j]
      <4>1. CASE j = 1
        BY <1>2, <1>5, <3>2, <3>3, <4>1
      <4>2. CASE j # 1
        <5>1. j - 1 \in 1 .. N /\ (j - 1) + 1 = j
          BY ONLY <1>1, <3>1, <4>2
        <5>2. h.cell[v[j]].prev = v[j - 1] /\ x[j] = v[j - 1]
          BY <1>1, <1>2, <3>1, <4>2, <5>1
        <5>3. v[j] # v[1]
          BY <1>6, <3>1, <4>2
        <5> QED
          BY <1>5, <3>2, <3>3, <5>2, <5>3
      <4> QED
        BY <4>1, <4>2
    <3>5. g.cell[v[j]].fd = q[j].fd
      <4>1. h.cell[v[j]].fd = q[j].fd
        BY <1>1, <3>1
      <4>2. g.cell[v[j]].fd = h.cell[v[j]].fd
        BY <1>5, <3>2
      <4> QED
        BY <4>1, <4>2, Zenon
    <3> QED
      BY <1>5, <2>2, <3>1, <3>2, <3>4, <3>5
  <2> QED
    BY <2>1, <2>2
<1>9. Fits(g, x, s)
  BY <1>2, <1>3, <1>4, <1>8 DEF Fits
<1> QED
  BY <1>9 DEF x, s

\* ps_AddSelect, when malloc(3) returns a cell that is not linked: the removal is
\* that of ps_RemoveSelect, and the new cell comes before what it leaves.
LEMMA AddCallFresh ==
  ASSUME NEW h, NEW evs, InOrder(h, evs), NEW f \in Fds,
         NEW a \in Cells, a \notin h.live, a \notin Linked(h),
         NEW k, k = Allocated(h, a, f), NEW r, r = Removed(k, f),
         NEW g, g = LinkedFirst(r, a), NEW s, s = AddSelect(evs, [fd |-> f])
  PROVE  HasCalled(h, evs, f, k, g, s)
<1> DEFINE w == Walk(h)
           q == RemoveSelect(evs, f)
<1>1. /\ h \in Heaps /\ evs \in Seq(Registrations) /\ Unique(evs)
      /\ h.live \subseteq Linked(h) /\ IsPath(h, w)
      /\ ~FreedIsLinked(h) => \E u : Fits(h, u, evs)
  BY WalkIsPath DEF InOrder
<1>2. q \in Seq(Registrations) /\ s \in Seq(Registrations) /\ Unique(s)
  <2>1. /\ q \in Seq(Registrations)
        /\ AddSelect(evs, [fd |-> f]) = <<[fd |-> f]>> \o q
        /\ <<[fd |-> f]>> \o q \in Seq(Registrations)
        /\ Unique(<<[fd |-> f]>> \o q)
    BY <1>1, RegistrationsLeft
  <2> HIDE DEF q
  <2> QED
    BY <2>1, Zenon
<1>3. s = <<[fd |-> f]>> \o q
  BY <1>1, RegistrationsLeft
<1> HIDE DEF w, q
\* The new cell changes nothing that a walk reads.
<1>4. /\ k \in Heaps /\ k.live = h.live \cup {a}
      /\ k.cell[a].fd = f /\ k.cell[a].next = Null /\ k.cell[a].prev = Null
      /\ \A c \in Cells : c # a => k.cell[c] = h.cell[c]
  <2>1. /\ k \in Heaps /\ k.live = h.live \cup {a}
        /\ k.cell[a] = [fd |-> f, next |-> Null, prev |-> Null]
        /\ \A c \in Cells : c # a => k.cell[c] = h.cell[c]
    BY <1>1, AllocatedFacts
  <2> QED
    BY <2>1
<1>5. /\ IsPath(k, w) /\ ~Endless(k)
      /\ \A c : c \in Linked(k) <=> c \in Linked(h)
      /\ Linked(h) \subseteq Cells
  <2>1. /\ Linked(h) \subseteq Cells
        /\ \A c : c \in Linked(h) <=> \E i \in 1 .. Len(w) : w[i] = c
    BY <1>1, LinkedFacts
  <2>2. IsPath(k, w)
    BY <1>1, <2>1, AllocatedPath
  <2>3. ~Endless(k) /\ \A c : c \in Linked(k) <=> \E i \in 1 .. Len(w) : w[i] = c
    BY <1>4, <2>2, PathIsWalk, LinkedFacts
  <2> QED
    BY <2>1, <2>2, <2>3
\* What the removal leaves.
<1>6. /\ r \in Heaps /\ SameChain(k, r) /\ ~Endless(r)
      /\ \A c \in Linked(r) : c \in Linked(h)
      /\ \A c \in Linked(h) : c \in Linked(r) \/ (c \in k.live /\ k.cell[c].fd = f)
      /\ \A c \in Cells : c \in r.live <=>
           c \in k.live /\ ~(c \in Linked(h) /\ k.cell[c].fd = f)
  BY <1>4, <1>5, RemovedKeeps
<1>7. a \in r.live /\ r.cell[a].fd = f /\ r.cell[a].next = Null
  BY <1>4, <1>6 DEF SameChain
<1>8. PICK v : IsPath(r, v)
  BY <1>6, WalkIsPath
<1>9. \A i \in 1 .. Len(v) : v[i] # a
  BY <1>6, <1>8, LinkedFacts
\* The list in the end.
<1>10. /\ g \in Heaps /\ g.live = r.live /\ IsPath(g, <<a>> \o v)
  BY <1>6, <1>7, <1>8, <1>9, LinkedFirstCells, LinkedFirstPath
<1>11. Shown(g) = <<f>> \o Shown(r)
  BY <1>6, <1>7, <1>8, <1>9, LinkedFirstShown
<1>12. /\ ~Endless(g)
       /\ \A c : c \in Linked(g) <=> c = a \/ c \in Linked(r)
  <2> DEFINE x == <<a>> \o v
  <2>1. /\ v \in Seq(Cells) /\ Len(x) = Len(v) + 1 /\ Len(v) \in Nat
        /\ x[1] = a /\ \A i \in 1 .. Len(v) : x[i + 1] = v[i]
    BY <1>8 DEF IsPath
  <2>2. \A c : (\E i \in 1 .. Len(x) : x[i] = c) <=>
                 (c = a \/ \E i \in 1 .. Len(v) : v[i] = c)
    <3>1. \A i \in 1 .. Len(x) : i = 1 \/ (i - 1 \in 1 .. Len(v) /\ (i - 1) + 1 = i)
      BY <2>1
    <3>2. 1 \in 1 .. Len(x) /\ \A i \in 1 .. Len(v) : i + 1 \in 1 .. Len(x)
      BY <2>1
    <3> HIDE DEF x
    <3>3. ASSUME NEW i \in 1 .. Len(x)
          PROVE  x[i] = a \/ \E j \in 1 .. Len(v) : v[j] = x[i]
      <4>1. CASE i = 1
        BY <2>1, <4>1
      <4>2. CASE i # 1
        <5>1. i - 1 \in 1 .. Len(v) /\ (i - 1) + 1 = i
          BY <3>1, <4>2
        <5>2. v[i - 1] = x[i]
          BY <2>1, <5>1
        <5> QED
          BY <5>1, <5>2
      <4> QED
        BY <4>1, <4>2
    <3>4. ASSUME NEW j \in 1 .. Len(v) PROVE \E i \in 1 .. Len(x) : x[i] = v[j]
      BY <2>1, <3>2
    <3>5. \A c : (\E i \in 1 .. Len(x) : x[i] = c) =>
                   c = a \/ \E i \in 1 .. Len(v) : v[i] = c
      BY <3>3, Zenon
    <3>6. \A c : c = a => \E i \in 1 .. Len(x) : x[i] = c
      BY <2>1, <3>2, Zenon
    <3>7. \A c : (\E i \in 1 .. Len(v) : v[i] = c) => \E i \in 1 .. Len(x) : x[i] = c
      BY <3>4, Zenon
    <3> QED
      BY <3>5, <3>6, <3>7, Zenon
  <2> HIDE DEF x
  <2>3. IsPath(g, x)
    BY <1>10 DEF x
  <2>4. ~Endless(g) /\ \A c : c \in Linked(g) <=> \E i \in 1 .. Len(x) : x[i] = c
    BY <1>10, <2>3, PathIsWalk, LinkedFacts
  <2>5. \A c : c \in Linked(r) <=> \E i \in 1 .. Len(v) : v[i] = c
    BY <1>6, <1>8, LinkedFacts
  <2> QED
    BY <2>2, <2>4, <2>5, Zenon
<1>13. g.live \subseteq Linked(g)
  <2>1. ASSUME NEW c \in r.live, c # a PROVE c \in Linked(r)
    <3>1. c \in Cells /\ c \in k.live /\ ~(c \in Linked(h) /\ k.cell[c].fd = f)
      BY <1>6 DEF Heaps
    <3>2. c \in Linked(h)
      BY <1>1, <1>4, <2>1, <3>1
    <3> QED
      BY <1>6, <3>1, <3>2
  <2> QED
    BY <1>10, <1>12, <2>1
<1>14. FreedIsLinked(g) <=> FreedIsLinked(r)
  BY <1>7, <1>10, <1>12 DEF FreedIsLinked
<1>15. CASE FreedIsLinked(h)
  <2>1. PICK c \in Linked(h) : c \notin h.live
    BY <1>15 DEF FreedIsLinked
  <2>2. c # a /\ c \in Cells
    BY <1>5, <2>1
  <2>3. c \notin k.live
    BY <1>4, <2>1, <2>2
  <2>4. c \in Linked(r) /\ c \notin r.live
    BY <1>6, <2>1, <2>2, <2>3
  <2>5. FreedIsLinked(g)
    BY <1>14, <2>4 DEF FreedIsLinked
  <2> QED
    BY <1>2, <1>10, <1>12, <1>13, <1>15, <2>5 DEF HasCalled
<1>16. CASE ~FreedIsLinked(h)
  <2>1. PICK u : Fits(h, u, evs)
    BY <1>1, <1>16
  <2>2. /\ IsPath(h, u) /\ Len(u) = Len(evs)
        /\ \A i \in 1 .. Len(u) :
             /\ u[i] \in Cells /\ u[i] # a
             /\ u[i] \in h.live
             /\ h.cell[u[i]].fd = evs[i].fd
             /\ h.cell[u[i]].prev = IF i = 1 THEN Null ELSE u[i - 1]
    <3>1. IsPath(h, u) /\ \A i \in 1 .. Len(u) : u[i] \in Cells
      BY <2>1 DEF Fits, IsPath
    <3>2. \A i \in 1 .. Len(u) : u[i] # a
      BY <1>1, <3>1, LinkedFacts
    <3> QED
      BY <2>1, <3>1, <3>2 DEF Fits
  <2>3. Fits(k, u, evs)
    <3>1. IsPath(k, u)
      BY <1>1, <2>2, AllocatedPath
    <3>2. \A i \in 1 .. Len(u) : k.cell[u[i]] = h.cell[u[i]] /\ u[i] \in k.live
      BY <1>4, <2>2
    <3> QED
      BY <2>2, <3>1, <3>2 DEF Fits
  <2>4. /\ Shown(r) = Descriptors(q)
        /\ LeavesFreed(evs, f) => FreedIsLinked(r)
        /\ ~LeavesFreed(evs, f) =>
             /\ \E t : Fits(r, t, q)
             /\ \A c \in Cells : k.cell[c].prev = Null => r.cell[c].prev = Null
    BY <1>1, <1>4, <2>3, RemovedFits DEF q
  <2>5. Shown(g) = Descriptors(s)
    BY <1>2, <1>3, <1>11, <2>4, DescriptorsFirst
  <2>6. ~FreedIsLinked(k)
    BY <1>4, <2>3, FitsIsLive
  <2>7. CASE LeavesFreed(evs, f)
    <3>1. FreedIsLinked(g)
      BY <1>14, <2>4, <2>7
    <3> QED
      BY <1>2, <1>5, <1>10, <1>12, <1>13, <1>16, <2>5, <2>6, <2>7, <3>1 DEF HasCalled
  <2>8. CASE ~LeavesFreed(evs, f)
    <3>1. PICK t : Fits(r, t, q)
      BY <2>4, <2>8
    <3>2. ~FreedIsLinked(g)
      BY <1>6, <1>14, <3>1, FitsIsLive
    <3>3. \A i \in 1 .. Len(t) : t[i] # a
      <4>1. IsPath(r, t)
        BY <3>1 DEF Fits
      <4> QED
        BY <1>6, <4>1, LinkedFacts
    <3>4. r.cell[a].prev = Null
      BY <1>4, <2>4, <2>8
    <3>5. Fits(g, <<a>> \o t, s)
      <4>1. Fits(g, <<a>> \o t, <<[fd |-> f]>> \o q)
        BY <1>2, <1>6, <1>7, <3>1, <3>3, <3>4, LinkedFirstFits
      <4> QED
        BY <1>3, <4>1, Zenon
    <3> QED
      BY <1>2, <1>5, <1>10, <1>12, <1>13, <1>16, <2>5, <2>6, <2>8, <3>2, <3>5 DEF HasCalled
  <2> QED
    BY <2>7, <2>8
<1> QED
  BY <1>15, <1>16

\* ps_AddSelect.
LEMMA AddCall ==
  ASSUME NEW h, NEW evs, InOrder(h, evs), NEW f \in Fds,
         NEW a \in Cells, a \notin h.live,
         NEW k, k = Allocated(h, a, f), NEW r, r = Removed(k, f),
         NEW g, g = LinkedFirst(r, a), NEW s, s = AddSelect(evs, [fd |-> f])
  PROVE  HasCalled(h, evs, f, k, g, s)
BY AddCallReused, AddCallFresh, Zenon

-----------------------------------------------------------------------------
(* The invariant.  A walk can go astray only when a freed cell is linked:  *)
(* until then the list is as it should be, prev pointers included, and it  *)
(* is they that the next removal reads.                                    *)

ListInv ==
  /\ TypeOK
  /\ Unique(events)
  /\ ~astray => InOrder(Heap, events)
  /\ ~FreedIsLinked(Heap) => ~astray

\* What PSEventSeq calls dangling is that a freed cell is linked.
Dangling == FreedIsLinked(Heap) \/ Endless(Heap) \/ astray

LEMMA DanglingIsFreed ==
  ASSUME ListInv
  PROVE  Dangling <=> FreedIsLinked(Heap)
<1>1. CASE FreedIsLinked(Heap)
  BY <1>1 DEF Dangling
<1>2. CASE ~FreedIsLinked(Heap)
  BY <1>2 DEF ListInv, InOrder, Dangling
<1> QED
  BY <1>1, <1>2

\* The three variables of the heap are one.
LEMMA HeapType ==
  /\ TypeOK => Heap \in Heaps
  /\ \A g \in Heaps : Becomes(g) => Heap' = g
  /\ Heap' \in Heaps <=>
       /\ ps_Events' \in Pointer
       /\ cell' \in [Cells -> [fd : Fds, next : Pointer, prev : Pointer]]
       /\ allocated' \subseteq Cells
<1>1. TypeOK => Heap \in Heaps
  BY DEF TypeOK, Heap, Heaps, Contents
<1>2. ASSUME NEW g \in Heaps, Becomes(g) PROVE Heap' = g
  <2>1. g = [head |-> g.head, cell |-> g.cell, live |-> g.live]
    BY DEF Heaps
  <2> QED
    BY <1>2, <2>1 DEF Becomes, Heap
<1>3. Heap' \in Heaps <=>
        /\ ps_Events' \in Pointer
        /\ cell' \in [Cells -> [fd : Fds, next : Pointer, prev : Pointer]]
        /\ allocated' \subseteq Cells
  BY DEF Heap, Heaps, Contents
<1> QED
  BY <1>1, <1>2, <1>3

\* A call that edits the list keeps the invariant, and is a step of PSEventSeq.
LEMMA CallEnds ==
  ASSUME ListInv, NEW f \in Fds, NEW k, NEW g,
         InOrder(Heap, events) => HasCalled(Heap, events, f, k, g, events'),
         Becomes(g), Ends(k, g), leaked' = leaked
  PROVE  /\ ListInv'
         /\ ~astray /\ astray' \in {Dangling, FALSE}
         /\ Dangling' <=> Dangling \/ LeavesFreed(events, f)
<1>1. TypeOK /\ ~astray /\ InOrder(Heap, events)
  BY DEF ListInv, Ends
<1>2. /\ g \in Heaps /\ events' \in Seq(Registrations) /\ Unique(events')
      /\ FreedIsLinked(g) <=> FreedIsLinked(Heap) \/ LeavesFreed(events, f)
      /\ ~FreedIsLinked(Heap) =>
           ~Endless(k) /\ ~FreedIsLinked(k) /\ Shown(g) = Descriptors(events')
      /\ ~Endless(k) /\ Shown(g) = Descriptors(events') =>
           ~Endless(g) /\ g.live \subseteq Linked(g)
      /\ ~FreedIsLinked(g) => \E v : Fits(g, v, events')
  BY <1>1 DEF HasCalled
<1>3. Heap' = g
  BY <1>2, HeapType
<1>4. astray' \in IF Endless(k) \/ Shown(g) # Descriptors(events')
                  THEN {TRUE} ELSE {FreedIsLinked(k), FALSE}
  BY DEF Ends, Descriptors
<1>5. /\ astray' \in BOOLEAN
      /\ astray' => FreedIsLinked(Heap)
      /\ ~astray' => ~Endless(k) /\ Shown(g) = Descriptors(events')
  <2>1. FreedIsLinked(k) \in BOOLEAN
    BY DEF FreedIsLinked
  <2>2. CASE Endless(k) \/ Shown(g) # Descriptors(events')
    BY <1>2, <1>4, <2>2
  <2>3. CASE ~(Endless(k) \/ Shown(g) # Descriptors(events'))
    BY <1>2, <1>4, <2>1, <2>3
  <2> QED
    BY <2>2, <2>3
<1>6. TypeOK'
  <2>1. leaked' \in 0 .. MaxLeaked /\ events' \in Seq([fd : Fds])
    BY <1>1, <1>2 DEF TypeOK, Registrations
  <2> QED
    BY <1>2, <1>3, <1>5, <2>1, HeapType DEF TypeOK
<1>7. ~astray' => InOrder(g, events')
  BY <1>2, <1>5 DEF InOrder
<1>8. ~FreedIsLinked(g) => ~astray'
  BY <1>2, <1>5
<1>9. ListInv'
  BY <1>2, <1>3, <1>6, <1>7, <1>8 DEF ListInv
<1>10. (Dangling <=> FreedIsLinked(Heap)) /\ (Dangling' <=> FreedIsLinked(g))
  <2>1. ~FreedIsLinked(g) => ~Endless(g)
    BY <1>2, FitsIsLive
  <2>2. Dangling' <=> FreedIsLinked(g)
    BY <1>3, <1>8, <2>1 DEF Dangling
  <2> QED
    BY <2>2, DanglingIsFreed
<1>11. astray' \in {Dangling, FALSE}
  <2>1. Dangling \in BOOLEAN /\ (astray' => Dangling)
    BY <1>5, <1>10 DEF Dangling, FreedIsLinked, Endless
  <2> QED
    BY <1>5, <2>1
<1> QED
  BY <1>1, <1>2, <1>9, <1>10, <1>11

\* AsSequence has its own copies of the operators of PSEvents.
LEMMA SameEdits ==
  ASSUME NEW evs, NEW f
  PROVE  /\ AsSequence!RemoveSelect(evs, f) = RemoveSelect(evs, f)
         /\ AsSequence!AddSelect(evs, [fd |-> f]) = AddSelect(evs, [fd |-> f])
         /\ AsSequence!LeavesFreed(evs, f) <=> LeavesFreed(evs, f)
BY DEF AsSequence!RemoveSelect, RemoveSelect, AsSequence!AddSelect, AddSelect,
   AsSequence!LeavesFreed, LeavesFreed, AsSequence!Watching, Watching,
   AsSequence!RemoveAt, RemoveAt, AsSequence!Cons, Cons

LEMMA RemoveSelectStep ==
  ASSUME ListInv, NEW f \in Fds, ps_RemoveSelect(f)
  PROVE  ListInv' /\ AsSequence!Unregister(f)
<1> DEFINE g == Removed(Heap, f)
<1>1. /\ Becomes(g) /\ Ends(Heap, g) /\ leaked' = leaked
      /\ events' = RemoveSelect(events, f)
  BY DEF ps_RemoveSelect
<1> HIDE DEF g
<1>2. InOrder(Heap, events) => HasCalled(Heap, events, f, Heap, g, events')
  BY <1>1, RemoveCall DEF g
<1>3. /\ ListInv' /\ ~astray /\ astray' \in {Dangling, FALSE}
      /\ Dangling' <=> Dangling \/ LeavesFreed(events, f)
  BY <1>1, <1>2, CallEnds
<1> QED
  BY <1>1, <1>3, SameEdits
  DEF AsSequence!Unregister, AsSequence!Walks, AsSequence!Edits, Dangling

LEMMA AddSelectStep ==
  ASSUME ListInv, NEW f \in Fds, ps_AddSelect(f)
  PROVE  ListInv' /\ AsSequence!Register(f)
<1>1. PICK a \in Cells \ allocated :
        LET k == Allocated(Heap, a, f)
            g == LinkedFirst(Removed(k, f), a)
        IN  /\ Becomes(g)
            /\ events' = AddSelect(events, [fd |-> f])
            /\ Ends(k, g)
            /\ UNCHANGED leaked
  BY DEF ps_AddSelect
<1> DEFINE k == Allocated(Heap, a, f)
           g == LinkedFirst(Removed(k, f), a)
<1>2. /\ Becomes(g) /\ Ends(k, g) /\ leaked' = leaked
      /\ events' = AddSelect(events, [fd |-> f])
      /\ a \in Cells /\ a \notin Heap.live
  BY <1>1 DEF Heap
<1> HIDE DEF g, k
<1>3. InOrder(Heap, events) => HasCalled(Heap, events, f, k, g, events')
  BY <1>2, AddCall DEF g, k
<1>4. /\ ListInv' /\ ~astray /\ astray' \in {Dangling, FALSE}
      /\ Dangling' <=> Dangling \/ LeavesFreed(events, f)
  BY <1>2, <1>3, CallEnds
<1> QED
  BY <1>2, <1>4, SameEdits
  DEF AsSequence!Register, AsSequence!Walks, AsSequence!Edits, AsSequence!Registration, Dangling

LEMMA HandleSelectStep ==
  ASSUME ListInv, ps_HandleSelect
  PROVE  ListInv' /\ AsSequence!Handle
<1>1. /\ Heap' = Heap /\ events' = events
      /\ ps_Events' = ps_Events /\ cell' = cell /\ allocated' = allocated
      /\ ~astray
      /\ astray' \in IF Endless(Heap) \/ Shown(Heap) # Descriptors(events)
                     THEN {TRUE} ELSE {FreedIsLinked(Heap), FALSE}
  BY DEF ps_HandleSelect, heapVars, Heap, Ends, Descriptors
<1>2. TypeOK /\ InOrder(Heap, events)
  BY <1>1 DEF ListInv
<1>3. leaked' \in 0 .. MaxLeaked
  <2>1. PICK n \in Nat : leaked' = leaked + CopiesKept(n)
    <3>1. Len(Shown(Heap)) \in Nat
      BY <1>2, ShownIsLinked DEF InOrder
    <3> QED
      BY <3>1 DEF ps_HandleSelect
  <2>2. leaked \in 0 .. MaxLeaked /\ leaked < MaxLeaked /\ MaxLeaked \in Nat
    BY <1>2, CellsAssumption DEF TypeOK, ps_HandleSelect
  <2>3. CopiesKept(n) \in 0 .. 1
    BY DEF CopiesKept
  <2> QED
    BY <2>1, <2>2, <2>3
<1>4. ~FreedIsLinked(Heap) => ~Endless(Heap) /\ Shown(Heap) = Descriptors(events)
  <2>1. ASSUME NEW w, Fits(Heap, w, events) PROVE Shown(Heap) = Descriptors(events)
    BY <1>2, <2>1, FitShows DEF InOrder
  <2> QED
    BY <1>2, <2>1 DEF InOrder
<1>5. astray' \in BOOLEAN /\ (astray' => FreedIsLinked(Heap))
  <2>1. FreedIsLinked(Heap) \in BOOLEAN
    BY DEF FreedIsLinked
  <2>2. CASE Endless(Heap) \/ Shown(Heap) # Descriptors(events)
    BY <1>1, <1>4, <2>2
  <2>3. CASE ~(Endless(Heap) \/ Shown(Heap) # Descriptors(events))
    BY <1>1, <2>1, <2>3
  <2> QED
    BY <2>2, <2>3
<1>6. ListInv'
  <2>1. TypeOK'
    BY <1>1, <1>2, <1>3, <1>5 DEF TypeOK
  <2>2. Unique(events)
    BY DEF ListInv
  <2> QED
    BY <1>1, <1>2, <1>5, <2>1, <2>2 DEF ListInv
<1>7. astray' \in {Dangling, FALSE} /\ (Dangling' <=> Dangling)
  <2>1. Dangling <=> FreedIsLinked(Heap)
    BY DanglingIsFreed
  <2>2. Dangling \in BOOLEAN /\ (astray' => Dangling)
    BY <1>5, <2>1 DEF Dangling, FreedIsLinked, Endless
  <2>3. Dangling' <=> Dangling
    BY <1>1, <2>2 DEF Dangling
  <2> QED
    BY <1>5, <2>2, <2>3
<1> QED
  BY <1>1, <1>6, <1>7 DEF AsSequence!Handle, AsSequence!Walks, Dangling

-----------------------------------------------------------------------------
\* At first there is no cell, and no registration.
LEMMA InitInv == Init => ListInv /\ AsSequence!Init
<1> SUFFICES ASSUME Init PROVE ListInv /\ AsSequence!Init
  OBVIOUS
<1>1. /\ ps_Events = Null /\ allocated = {} /\ leaked = 0 /\ events = << >> /\ astray = FALSE
      /\ cell \in [Cells -> [fd : {CHOOSE f \in Fds : TRUE}, next : {Null}, prev : {Null}]]
  BY DEF Init
<1>2. TypeOK
  <2>1. (CHOOSE f \in Fds : TRUE) \in Fds
    BY CellsAssumption
  <2>2. cell \in [Cells -> [fd : Fds, next : Pointer, prev : Pointer]]
    BY <1>1, <2>1 DEF Pointer
  <2>3. events \in Seq([fd : Fds]) /\ leaked \in 0 .. MaxLeaked /\ ps_Events \in Pointer
    BY <1>1, CellsAssumption DEF Pointer
  <2>4. allocated \subseteq Cells /\ astray \in BOOLEAN
    BY <1>1
  <2> QED
    BY <2>2, <2>3, <2>4 DEF TypeOK
<1>3. Heap \in Heaps /\ Heap.head = Null /\ Heap.live = {}
  BY <1>1, <1>2, HeapType DEF Heap
<1>4. events \in Seq(Registrations) /\ Unique(events) /\ Len(events) = 0
  BY <1>1 DEF Unique
<1>5. IsPath(Heap, << >>) /\ Fits(Heap, << >>, events)
  BY <1>1, <1>3 DEF IsPath, After, Fits
<1>6. ~FreedIsLinked(Heap) /\ ~Endless(Heap)
  BY <1>3, <1>5, FitsIsLive
<1>7. InOrder(Heap, events)
  BY <1>3, <1>4, <1>5, <1>6 DEF InOrder
<1>8. ListInv
  BY <1>1, <1>2, <1>4, <1>7 DEF ListInv
<1>9. AsSequence!Init
  BY <1>1, <1>6 DEF AsSequence!Init
<1> QED
  BY <1>8, <1>9

\* Every call keeps the invariant, and is a step of PSEventSeq or none.
LEMMA NextInv ==
  ListInv /\ [Next]_vars => ListInv' /\ [AsSequence!Next]_(AsSequence!vars)
<1> SUFFICES ASSUME ListInv, [Next]_vars
             PROVE  ListInv' /\ [AsSequence!Next]_(AsSequence!vars)
  OBVIOUS
<1>1. CASE UNCHANGED vars
  <2>1. /\ Heap' = Heap /\ events' = events /\ astray' = astray /\ leaked' = leaked
        /\ ps_Events' = ps_Events /\ cell' = cell /\ allocated' = allocated
    BY <1>1 DEF vars, heapVars, Heap
  <2>2. ListInv'
    BY <2>1 DEF ListInv, TypeOK
  <2>3. UNCHANGED AsSequence!vars
    BY <2>1 DEF AsSequence!vars
  <2> QED
    BY <2>2, <2>3
<1>2. ASSUME NEW f \in Fds, ps_AddSelect(f)
      PROVE  ListInv' /\ AsSequence!Next
  BY <1>2, AddSelectStep DEF AsSequence!Next
<1>3. ASSUME NEW f \in Fds, ps_RemoveSelect(f)
      PROVE  ListInv' /\ AsSequence!Next
  BY <1>3, RemoveSelectStep DEF AsSequence!Next
<1>4. CASE ps_HandleSelect
  BY <1>4, HandleSelectStep DEF AsSequence!Next
<1> QED
  BY <1>1, <1>2, <1>3, <1>4 DEF Next, Stopped

\* Until a freed cell is linked, the prev pointers are right; as long as no walk
\* has gone astray, no cell is lost.
LEMMA InvWellFormed == ListInv => ListWellFormed
<1> SUFFICES ASSUME ListInv PROVE ListWellFormed
  OBVIOUS
<1>1. TypeOK /\ CellsAreLinked
  BY DEF ListInv, InOrder, CellsAreLinked, Heap
<1>2. ASSUME ~FreedIsLinked(Heap)
      PROVE  \A i \in DOMAIN Walk(Heap) :
               cell[Walk(Heap)[i]].prev = IF i = 1 THEN Null ELSE Walk(Heap)[i - 1]
  <2>1. PICK w : Heap \in Heaps /\ Fits(Heap, w, events)
    BY <1>2 DEF ListInv, InOrder
  <2>2. /\ Walk(Heap) = w /\ DOMAIN w = 1 .. Len(w)
        /\ \A i \in 1 .. Len(w) : Heap.cell[w[i]].prev = IF i = 1 THEN Null ELSE w[i - 1]
    BY <2>1, PathIsWalk DEF Fits, IsPath
  <2>3. Heap.cell = cell
    BY DEF Heap
  <2> QED
    BY <2>2, <2>3
<1>3. PrevMirrorsNext
  BY <1>2 DEF PrevMirrorsNext
<1> QED
  BY <1>1, <1>3 DEF ListWellFormed

\* Whatever the memory, the descriptors and the calls: the fields keep their
\* types, the prev pointers that ps_RemoveSelect reads to tell the first cell
\* from others mirror the next pointers until it frees a cell that stays linked,
\* and no cell is lost before a walk has gone astray.
THEOREM ListIsWellFormed == Spec => []ListWellFormed
<1>1. Init => ListInv
  BY InitInv
<1>2. ListInv /\ [Next]_vars => ListInv'
  BY NextInv
<1>3. ListInv => ListWellFormed
  BY InvWellFormed
<1> QED
  BY <1>1, <1>2, <1>3, PTL DEF Spec

\* What ps_AddSelect, ps_RemoveSelect and ps_HandleSelect do to the linked list
\* is what PSEventSeq, and with it TCPSocket, says of the registrations: a removal
\* damages the list exactly if it is not of the first event, and until then every
\* walk shows the registrations, the latest first.
THEOREM ListImplementsSequence == Spec => ImplementsSequence
<1>1. Init => ListInv /\ AsSequence!Init
  BY InitInv
<1>2. ListInv /\ [Next]_vars => ListInv' /\ [AsSequence!Next]_(AsSequence!vars)
  BY NextInv
<1> QED
  BY <1>1, <1>2, PTL DEF Spec, ImplementsSequence, AsSequence!Spec
=============================================================================
