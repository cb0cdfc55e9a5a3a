---------------------------- MODULE DHashProofs ----------------------------
(***************************************************************************)
(* The hash table never loses an entry and never becomes too full to be    *)
(* searched, for any keys and hashes and any sizes.                        *)
(***************************************************************************)
EXTENDS DHash, NumbersAndLists, FiniteSetTheorems, TLAPS

-----------------------------------------------------------------------------
(* Powers of two.                                                          *)

Doubled(f) == [n \in 0..HASH_BITS |-> IF n = 0 THEN 1 ELSE 2 * f[n - 1]]

LEMMA BitsAreDoubled == JS_BIT = Doubled(JS_BIT)
<1> DEFINE F == [p \in Nat \X Nat |-> 2 * p[2]]
<1>1. HASH_BITS \in Nat
  BY SizesAssumption
<1>2. F \in [Nat \X Nat -> Nat] /\ \A n, m \in Nat : F[<<n, m>>] = 2 * m
  OBVIOUS
<1>3. PICK C : IsRecursion(C, HASH_BITS, Nat, 1, F)
  <2> HIDE DEF F
  <2> QED
    BY <1>1, <1>2, PrimitiveRecursion
<1>4. C = Doubled(C)
  <2> HIDE DEF F
  <2>1. C \in [0..HASH_BITS -> Nat] /\ C[0] = 1
    BY <1>3 DEF IsRecursion
  <2>2. ASSUME NEW n \in 0..HASH_BITS, n # 0 PROVE C[n] = 2 * C[n - 1]
    <3>1. n \in 1..HASH_BITS /\ n \in Nat /\ n - 1 \in 0..HASH_BITS
      BY <1>1, <2>2
    <3>2. C[n] = F[<<n, C[n - 1]>>] /\ C[n - 1] \in Nat
      BY <1>3, <2>1, <3>1 DEF IsRecursion
    <3> QED
      BY <1>2, <3>1, <3>2
  <2> QED
    BY <2>1, <2>2 DEF Doubled
<1>5. JS_BIT = CHOOSE f : f = Doubled(f)
  BY DEF JS_BIT, Doubled
<1> QED
  BY <1>4, <1>5

LEMMA BitFacts ==
  /\ JS_BIT[0] = 1
  /\ \A n \in 0..HASH_BITS : JS_BIT[n] \in Nat \ {0}
  /\ \A n \in 1..HASH_BITS : n - 1 \in 0..HASH_BITS /\ JS_BIT[n] = 2 * JS_BIT[n - 1]
<1>1. HASH_BITS \in Nat
  BY SizesAssumption
<1>2. JS_BIT[0] = 1 /\ \A n \in 1..HASH_BITS : n - 1 \in 0..HASH_BITS /\ JS_BIT[n] = 2 * JS_BIT[n - 1]
  BY <1>1, BitsAreDoubled DEF Doubled
<1> DEFINE bad == {n \in 0..HASH_BITS : JS_BIT[n] \notin Nat \ {0}}
<1>3. bad = {}
  <2>1. SUFFICES ASSUME bad # {} PROVE FALSE
    OBVIOUS
  <2>2. PICK m \in bad : \A n \in bad : m <= n
    <3>1. bad \subseteq Nat
      BY <1>1
    <3> HIDE DEF bad
    <3> QED
      BY <2>1, <3>1, Least
  <2>3. m # 0
    BY <1>2
  <2>4. m \in 1..HASH_BITS /\ m - 1 \in 0..HASH_BITS /\ ~(m <= m - 1)
    BY <1>1, <2>3
  <2>5. m - 1 \notin bad
    BY <2>2, <2>4
  <2>6. JS_BIT[m - 1] \in Nat \ {0} /\ JS_BIT[m] = 2 * JS_BIT[m - 1]
    BY <1>2, <2>4, <2>5
  <2> QED
    BY <2>6
<1> QED
  BY <1>2, <1>3

\* JS_BIT is increasing, and doubles at least.
LEMMA BitGrows ==
  ASSUME NEW i \in 0..HASH_BITS, NEW j \in 0..HASH_BITS, i < j
  PROVE  2 * JS_BIT[i] <= JS_BIT[j] /\ JS_BIT[i] < JS_BIT[j]
<1>1. HASH_BITS \in Nat
  BY SizesAssumption
<1> DEFINE bad == {n \in 0..HASH_BITS : i < n /\ ~(2 * JS_BIT[i] <= JS_BIT[n])}
<1>2. bad = {}
  <2>1. SUFFICES ASSUME bad # {} PROVE FALSE
    OBVIOUS
  <2>2. PICK m \in bad : \A n \in bad : m <= n
    <3>1. bad \subseteq Nat
      BY <1>1
    <3> HIDE DEF bad
    <3> QED
      BY <2>1, <3>1, Least
  <2>3. /\ m \in 1..HASH_BITS /\ m - 1 \in 0..HASH_BITS /\ ~(m <= m - 1)
        /\ i < m /\ ~(2 * JS_BIT[i] <= JS_BIT[m])
    BY <1>1
  <2>4. JS_BIT[m] = 2 * JS_BIT[m - 1] /\ JS_BIT[m - 1] \in Nat /\ JS_BIT[i] \in Nat
    BY <2>3, BitFacts
  <2>5. m - 1 \notin bad
    BY <2>2, <2>3
  <2>6. m - 1 = i \/ i < m - 1
    BY <1>1, <2>3
  <2>7. JS_BIT[i] <= JS_BIT[m - 1]
    BY <2>3, <2>4, <2>5, <2>6
  <2> QED
    BY <2>3, <2>4, <2>7
<1>3. JS_BIT[i] \in Nat \ {0} /\ JS_BIT[j] \in Nat
  BY BitFacts
<1>4. 2 * JS_BIT[i] <= JS_BIT[j]
  BY <1>2
<1> QED
  BY <1>3, <1>4

-----------------------------------------------------------------------------
(* A step of odd width comes by every entry.                               *)

LEMMA Division ==
  ASSUME NEW a \in Int, NEW b \in Nat \ {0}
  PROVE  /\ a \div b \in Int
         /\ a % b \in 0..b - 1
         /\ a = (a \div b) * b + (a % b)
OBVIOUS

\* An odd factor does not help to divide by a power of two.
LEMMA OddFactor ==
  ASSUME NEW n \in 0..HASH_BITS, NEW d \in Int, NEW q \in Int, NEW e \in Int,
         d * (2 * e + 1) = q * JS_BIT[n]
  PROVE  \E r \in Int : d = r * JS_BIT[n]
<1>1. HASH_BITS \in Nat
  BY SizesAssumption
<1> DEFINE Divides(m, a) == \E r \in Int : a = r * JS_BIT[m]
           bad == {m \in 0..HASH_BITS :
                     \E a \in Int : Divides(m, a * (2 * e + 1)) /\ ~Divides(m, a)}
<1>2. bad = {}
  <2>1. SUFFICES ASSUME bad # {} PROVE FALSE
    OBVIOUS
  <2>2. PICK m \in bad : \A k \in bad : m <= k
    <3>1. bad \subseteq Nat
      BY <1>1
    <3> HIDE DEF bad
    <3> QED
      BY <2>1, <3>1, Least
  <2>3. PICK a \in Int : Divides(m, a * (2 * e + 1)) /\ ~Divides(m, a)
    OBVIOUS
  <2>4. PICK p \in Int : a * (2 * e + 1) = p * JS_BIT[m]
    BY <2>3
  <2>5. m # 0
    <3>1. ASSUME m = 0 PROVE FALSE
      <4>1. a = a * JS_BIT[m]
        BY <3>1, BitFacts
      <4> QED
        BY <2>3, <4>1
    <3> QED
      BY <3>1
  <2>6. m \in 1..HASH_BITS /\ m - 1 \in 0..HASH_BITS /\ ~(m <= m - 1)
    BY <1>1, <2>5
  <2> DEFINE b == JS_BIT[m - 1]
             c == p * b - a * e
  <2>7. b \in Nat /\ JS_BIT[m] = 2 * b
    BY <2>6, BitFacts
  <2> HIDE DEF b
  <2>8. a * e \in Int /\ p * b \in Int /\ c \in Int
    BY <2>7
  <2>9. a * (2 * e + 1) = 2 * (a * e) + a /\ p * (2 * b) = 2 * (p * b)
    BY <2>7, <2>8
  <2>10. a = 2 * c
    BY <2>4, <2>7, <2>8, <2>9
  <2> HIDE DEF c
  <2>11. c * (2 * e + 1) \in Int /\ a * (2 * e + 1) = 2 * (c * (2 * e + 1))
    BY <2>8, <2>10
  <2>12. c * (2 * e + 1) = p * b
    BY <2>4, <2>7, <2>8, <2>9, <2>11
  <2>13. Divides(m - 1, c * (2 * e + 1))
    BY <2>12 DEF b
  <2>14. m - 1 \notin bad
    BY <2>2, <2>6
  <2>15. PICK r \in Int : c = r * b
    BY <2>6, <2>8, <2>13, <2>14 DEF b
  <2>16. a = r * (2 * b)
    BY <2>7, <2>10, <2>15
  <2> QED
    BY <2>3, <2>7, <2>16
<1> QED
  BY <1>2

\* The entries that are tried from x on, in steps of odd width, are all different.
LEMMA StepsDiffer ==
  ASSUME NEW lg \in 0..HASH_BITS, NEW x \in Int, NEW e \in Int,
         NEW i \in 0..JS_BIT[lg] - 1, NEW j \in 0..JS_BIT[lg] - 1,
         (x - i * (2 * e + 1)) % JS_BIT[lg] = (x - j * (2 * e + 1)) % JS_BIT[lg]
  PROVE  i = j
<1> DEFINE s == JS_BIT[lg]
           c == 2 * e + 1
           a == x - i * c
           b == x - j * c
<1>1. s \in Nat \ {0} /\ c \in Int /\ i \in Int /\ j \in Int
  BY BitFacts
<1> HIDE DEF c
<1>2. i * c \in Int /\ j * c \in Int /\ a \in Int /\ b \in Int
  BY <1>1
<1> DEFINE p == a \div s
           q == b \div s
<1>3. p \in Int /\ q \in Int /\ a = p * s + (a % s) /\ b = q * s + (b % s) /\ a % s = b % s
     /\ a % s \in Int
  <2> HIDE DEF a, b, s
  <2>1. \A y \in Int : y \div s \in Int /\ y = (y \div s) * s + (y % s) /\ y % s \in Int
    BY <1>1, Division
  <2> QED
    BY <1>2, <2>1 DEF a, b, c, s
<1> HIDE DEF p, q, s
<1>4. p * s \in Int /\ q * s \in Int /\ (q - p) * s = q * s - p * s /\ (i - j) * c = i * c - j * c
  BY <1>1, <1>3
<1>5. (i - j) * c = (q - p) * s
  BY <1>1, <1>2, <1>3, <1>4
<1>6. i - j \in Int /\ q - p \in Int
  BY <1>1, <1>3
<1>7. PICK r \in Int : i - j = r * s
  <2>1. (i - j) * (2 * e + 1) = (q - p) * JS_BIT[lg]
    BY <1>5 DEF c, s
  <2>2. \E r \in Int : i - j = r * JS_BIT[lg]
    BY ONLY <1>6, <2>1, lg \in 0..HASH_BITS, e \in Int, OddFactor, ZenonT(40)
  <2> QED
    BY <2>2 DEF s
<1>8. r = 0
  <2>1. -s < r * s /\ r * s < s
    BY <1>1, <1>7 DEF s
  <2>2. ASSUME r >= 1 PROVE FALSE
    <3>1. r * s >= s
      BY <1>1, <2>2
    <3> QED
      BY <1>1, <2>1, <3>1
  <2>3. ASSUME r <= -1 PROVE FALSE
    <3>1. (-r) * s >= s /\ (-r) * s = -(r * s)
      BY <1>1, <2>3
    <3> QED
      BY <1>1, <2>1, <3>1
  <2> QED
    BY <2>2, <2>3
<1> QED
  BY <1>1, <1>7, <1>8

\* The places in a table.
Places(lg) == 0..JS_BIT[lg] - 1

LEMMA HashFacts ==
  ASSUME NEW k \in Keys, NEW lg \in 0..HASH_BITS
  PROVE  /\ HASH1(KeyHash[k], lg) \in Int
         /\ \E e \in Int : HASH2(KeyHash[k], lg) = 2 * e + 1
<1> DEFINE h == KeyHash[k]
           b == JS_BIT[HASH_BITS - lg]
           s == JS_BIT[lg]
           w == JS_BIT[HASH_BITS]
           y == ((h * s) % w) \div b
<1>1. HASH_BITS \in Nat /\ HASH_BITS \in 0..HASH_BITS /\ HASH_BITS - lg \in 0..HASH_BITS
  BY SizesAssumption
<1>2. b \in Nat \ {0} /\ s \in Nat \ {0} /\ w \in Nat \ {0} /\ h \in Int
  BY <1>1, BitFacts, HashAssumption
<1>3. HASH1(h, lg) = h \div b /\ HASH2(h, lg) = (y - (y % 2)) + 1
  BY DEF HASH1, HASH2
<1> HIDE DEF h, b, s, w
<1>4. h \div b \in Int
  BY <1>2, Division
<1>5. y \in Int
  <2>1. h * s \in Int
    BY <1>2
  <2>2. (h * s) % w \in Int
    BY <1>2, <2>1, Division
  <2> QED
    BY <1>2, <2>2, Division
<1> HIDE DEF y
<1>6. y \div 2 \in Int /\ (y - (y % 2)) + 1 = 2 * (y \div 2) + 1
  BY <1>5
<1> QED
  BY <1>3, <1>4, <1>6 DEF h

LEMMA ProbeType ==
  ASSUME NEW k \in Keys, NEW lg \in 0..HASH_BITS, NEW i \in Int
  PROVE  Probe(k, lg, i) \in Places(lg)
<1> DEFINE y == HASH1(KeyHash[k], lg) - i * HASH2(KeyHash[k], lg)
<1>1. y \in Int
  BY HashFacts
<1>2. JS_BIT[lg] \in Nat \ {0}
  BY BitFacts
<1> HIDE DEF y
<1>3. y % JS_BIT[lg] \in 0..JS_BIT[lg] - 1
  BY <1>1, <1>2, Division
<1> QED
  BY <1>3 DEF Probe, Places, y

LEMMA ProbesDiffer ==
  ASSUME NEW k \in Keys, NEW lg \in 0..HASH_BITS, NEW i \in Places(lg), NEW j \in Places(lg),
         Probe(k, lg, i) = Probe(k, lg, j)
  PROVE  i = j
<1>1. PICK e \in Int : HASH2(KeyHash[k], lg) = 2 * e + 1
  BY HashFacts
<1>2. HASH1(KeyHash[k], lg) \in Int
  BY HashFacts
<1> DEFINE x == HASH1(KeyHash[k], lg)
<1>3. (x - i * (2 * e + 1)) % JS_BIT[lg] = (x - j * (2 * e + 1)) % JS_BIT[lg]
  BY <1>1 DEF Probe
<1> HIDE DEF x
<1> QED
  BY <1>2, <1>3, StepsDiffer DEF x, Places

LEMMA PlacesFacts ==
  ASSUME NEW lg \in 0..HASH_BITS
  PROVE  /\ Places(lg) \subseteq Nat /\ 0 \in Places(lg)
         /\ IsFiniteSet(Places(lg)) /\ Cardinality(Places(lg)) = JS_BIT[lg]
         /\ \A n \in Places(lg) : \A m \in 0..n - 1 : m \in Places(lg)
<1>1. JS_BIT[lg] \in Nat \ {0}
  BY BitFacts
<1> DEFINE b == JS_BIT[lg] - 1
<1>2. b \in Nat /\ JS_BIT[lg] = b + 1
  BY <1>1
<1> HIDE DEF b
<1>3. IsFiniteSet(0..b) /\ Cardinality(0..b) = IF 0 > b THEN 0 ELSE b - 0 + 1
  BY <1>2, FS_Interval
<1>4. Places(lg) = 0..b
  BY DEF Places, b
<1> QED
  BY <1>2, <1>3, <1>4

\* A search tries every entry of the table.
LEMMA ProbesCover ==
  ASSUME NEW k \in Keys, NEW lg \in 0..HASH_BITS
  PROVE  /\ \A p \in Places(lg) : \E n \in Places(lg) : Probe(k, lg, n) = p
         /\ {Probe(k, lg, n) : n \in Places(lg)} = Places(lg)
<1> DEFINE f == [n \in Places(lg) |-> Probe(k, lg, n)]
<1>1. \A n \in Places(lg) : n \in Int /\ Probe(k, lg, n) \in Places(lg)
  BY PlacesFacts, ProbeType
<1>2. f \in Injection(Places(lg), Places(lg))
  BY <1>1, ProbesDiffer DEF Injection, IsInjective
<1>3. f \in Surjection(Places(lg), Places(lg))
  <2> HIDE DEF f
  <2> QED
    BY <1>2, PlacesFacts, FS_Injection
<1>4. \A p \in Places(lg) : \E n \in Places(lg) : f[n] = p
  BY <1>3 DEF Surjection
<1> QED
  BY <1>1, <1>4

-----------------------------------------------------------------------------
(* Entries.                                                                *)

Entry == [hash : Nat, key : Keys \cup {NoKey}]

LEMMA EntryKinds ==
  ASSUME NEW e \in Entry
  PROVE  /\ IsFree(e) \/ IsRemoved(e) \/ IsLive(e)
         /\ ~(IsFree(e) /\ IsRemoved(e)) /\ ~(IsFree(e) /\ IsLive(e)) /\ ~(IsRemoved(e) /\ IsLive(e))
BY DEF Entry, IsFree, IsRemoved, IsLive

LEMMA FreeAndRemoved ==
  /\ FreeEntry \in Entry /\ IsFree(FreeEntry)
  /\ RemovedEntry \in Entry /\ IsRemoved(RemovedEntry)
BY DEF Entry, FreeEntry, RemovedEntry, IsFree, IsRemoved

LEMMA FlaggedFacts ==
  ASSUME NEW e \in Entry, IsLive(e)
  PROVE  /\ Flagged(e) \in Entry /\ IsLive(Flagged(e)) /\ IsFlagged(Flagged(e))
         /\ Flagged(e).key = e.key /\ Unflagged(Flagged(e)).hash = Unflagged(e).hash
<1> DEFINE h == e.hash
           u == h - (h % 2)
<1>1. h \in Nat /\ h >= 2 /\ e.key \in Keys \cup {NoKey}
  BY DEF Entry, IsLive
<1>2. /\ Flagged(e) \in [hash : {u + 1}, key : {e.key}]
      /\ Unflagged(e).hash = u
  BY DEF Flagged, Unflagged, Entry
<1> HIDE DEF h
<1>3. u \in Nat /\ u >= 2 /\ (u + 1) % 2 = 1 /\ (u + 1) - ((u + 1) % 2) = u
  BY <1>1
<1> HIDE DEF u
<1>4. Flagged(e) \in Entry /\ Flagged(e).hash = u + 1 /\ Flagged(e).key = e.key
  BY <1>1, <1>2, <1>3 DEF Entry
<1>5. Unflagged(Flagged(e)).hash = (u + 1) - ((u + 1) % 2)
  BY <1>4 DEF Unflagged, Entry
<1> QED
  BY <1>1, <1>2, <1>3, <1>4, <1>5 DEF IsLive, IsFlagged

LEMMA UnflaggedFacts ==
  ASSUME NEW e \in Entry, IsLive(e)
  PROVE  /\ Unflagged(e) \in Entry /\ IsLive(Unflagged(e))
         /\ Unflagged(e).key = e.key /\ Unflagged(Unflagged(e)).hash = Unflagged(e).hash
<1> DEFINE h == e.hash
           u == h - (h % 2)
<1>1. h \in Nat /\ h >= 2 /\ e.key \in Keys \cup {NoKey}
  BY DEF Entry, IsLive
<1>2. Unflagged(e) \in [hash : {u}, key : {e.key}]
  BY DEF Unflagged, Entry
<1> HIDE DEF h
<1>3. u \in Nat /\ u >= 2 /\ u - (u % 2) = u
  BY <1>1
<1> HIDE DEF u
<1>4. Unflagged(e) \in Entry /\ Unflagged(e).hash = u /\ Unflagged(e).key = e.key
  BY <1>1, <1>2, <1>3 DEF Entry
<1>5. Unflagged(Unflagged(e)).hash = u - (u % 2)
  BY <1>4 DEF Unflagged, Entry
<1> QED
  BY <1>3, <1>4, <1>5 DEF IsLive

-----------------------------------------------------------------------------
(* Tables.                                                                 *)

LiveIn(st)    == {i \in DOMAIN st : IsLive(st[i])}
RemovedIn(st) == {i \in DOMAIN st : IsRemoved(st[i])}
KeysIn(st)    == {st[i].key : i \in LiveIn(st)}
HasFree(st)   == \E i \in DOMAIN st : IsFree(st[i])

Proper(st, lg) ==
  /\ st \in [Places(lg) -> Entry]
  /\ \A i \in LiveIn(st) : st[i].key \in Keys /\ Unflagged(st[i]).hash = KeyHash[st[i].key]

\* The search for another key goes past the entry, and still will when it is removed.
Passes(e, k) == IsRemoved(e) \/ (IsLive(e) /\ IsFlagged(e) /\ e.key # k)

\* A search for k gets to place i.
Reaches(st, lg, k, i) ==
  \E n \in Places(lg) :
    Probe(k, lg, n) = i /\ \A m \in 0..n - 1 : Passes(st[Probe(k, lg, m)], k)

Chained(st, lg) == \A i \in LiveIn(st) : Reaches(st, lg, st[i].key, i)

Sound(st, lg) == Proper(st, lg) /\ Chained(st, lg)

\* The search ends at the n-th try.
Stops(st, lg, k, n) == IsFree(st[Probe(k, lg, n)]) \/ Matches(st[Probe(k, lg, n)], k)

StopsFirst(st, lg, k, n) ==
  n \in Places(lg) /\ Stops(st, lg, k, n) /\ \A i \in 0..n - 1 : ~Stops(st, lg, k, i)

LEMMA StopsOnce ==
  ASSUME NEW st, NEW lg \in 0..HASH_BITS, NEW k, NEW n, StopsFirst(st, lg, k, n)
  PROVE  Passed(st, lg, k) = n
<1>1. \A m \in Places(lg) : StopsFirst(st, lg, k, m) => m = n
  <2> TAKE m \in Places(lg)
  <2>1. m \in Nat /\ n \in Nat
    BY PlacesFacts DEF StopsFirst
  <2> QED
    BY <2>1 DEF StopsFirst
<1>2. Passed(st, lg, k) = CHOOSE m \in Places(lg) : StopsFirst(st, lg, k, m)
  BY DEF Passed, Places, StopsFirst, Stops
<1>3. n \in Places(lg)
  BY DEF StopsFirst
<1> QED
  BY <1>1, <1>2, <1>3

\* A search ends if there is a free entry.
LEMMA SearchEnds ==
  ASSUME NEW lg \in 0..HASH_BITS, NEW k \in Keys, NEW st, Proper(st, lg), HasFree(st)
  PROVE  StopsFirst(st, lg, k, Passed(st, lg, k))
<1> DEFINE stops == {n \in Places(lg) : Stops(st, lg, k, n)}
<1>1. DOMAIN st = Places(lg)
  BY DEF Proper
<1>2. PICK i \in Places(lg) : IsFree(st[i])
  BY <1>1 DEF HasFree
<1>3. stops # {}
  BY <1>2, ProbesCover DEF Stops
<1>4. PICK n \in stops : \A m \in stops : n <= m
  <2>1. stops \subseteq Nat
    BY PlacesFacts
  <2> HIDE DEF stops
  <2> QED
    BY <1>3, <2>1, Least
<1>5. \A m \in 0..n - 1 : m \in Places(lg) /\ ~(n <= m)
  BY PlacesFacts
<1>6. StopsFirst(st, lg, k, n)
  BY <1>4, <1>5 DEF StopsFirst
<1> QED
  BY <1>6, StopsOnce

\* An entry that the search reaches is found.
LEMMA ReachedIsFound ==
  ASSUME NEW lg \in 0..HASH_BITS, NEW st, Sound(st, lg), NEW i \in LiveIn(st)
  PROVE  /\ st[i].key \in Keys
         /\ Found(st, lg, st[i].key) = i
<1> DEFINE k == st[i].key
<1>1. k \in Keys /\ Reaches(st, lg, k, i) /\ DOMAIN st = Places(lg) /\ IsLive(st[i])
  BY DEF Sound, Proper, Chained, LiveIn
<1>2. PICK n \in Places(lg) :
        Probe(k, lg, n) = i /\ \A m \in 0..n - 1 : Passes(st[Probe(k, lg, m)], k)
  BY <1>1 DEF Reaches
<1>3. ASSUME NEW m \in 0..n - 1 PROVE ~Stops(st, lg, k, m)
  <2>1. m \in Int /\ Probe(k, lg, m) \in Places(lg)
    BY <1>1, PlacesFacts, ProbeType
  <2>2. st[Probe(k, lg, m)] \in Entry
    BY <2>1 DEF Sound, Proper
  <2> QED
    BY <1>2, <2>2, EntryKinds DEF Stops, Matches, Passes
<1>4. StopsFirst(st, lg, k, n)
  BY <1>1, <1>2, <1>3 DEF StopsFirst, Stops, Matches
<1> QED
  BY <1>1, <1>2, <1>4, StopsOnce DEF Found

\* No key is there twice.
LEMMA KeysOnce ==
  ASSUME NEW lg \in 0..HASH_BITS, NEW st, Sound(st, lg),
         NEW i \in LiveIn(st), NEW j \in LiveIn(st), st[i].key = st[j].key
  PROVE  i = j
BY ReachedIsFound

\* The same entries in the same places, though more of them flagged.
SameEntries(st, new) ==
  /\ new = [i \in DOMAIN st |-> new[i]]
  /\ \A i \in DOMAIN st : \/ new[i] = st[i]
                          \/ IsLive(st[i]) /\ new[i] = Flagged(st[i])

LEMMA SameEntriesFacts ==
  ASSUME NEW st, NEW new, NEW lg \in 0..HASH_BITS, SameEntries(st, new), Proper(st, lg)
  PROVE  /\ Proper(new, lg)
         /\ LiveIn(new) = LiveIn(st) /\ RemovedIn(new) = RemovedIn(st)
         /\ \A i \in DOMAIN st : IsFree(new[i]) <=> IsFree(st[i])
         /\ \A i \in LiveIn(st) : new[i].key = st[i].key
         /\ KeysIn(new) = KeysIn(st)
         /\ \A i \in DOMAIN st : \A k : Passes(st[i], k) => Passes(new[i], k)
         /\ Chained(st, lg) => Chained(new, lg)
<1>1. DOMAIN st = Places(lg) /\ DOMAIN new = Places(lg) /\ \A i \in Places(lg) : st[i] \in Entry
  BY DEF Proper, SameEntries
<1>2. ASSUME NEW i \in Places(lg)
      PROVE  /\ new[i] \in Entry /\ new[i].key = st[i].key
             /\ IsLive(new[i]) <=> IsLive(st[i])
             /\ IsRemoved(new[i]) <=> IsRemoved(st[i])
             /\ IsFree(new[i]) <=> IsFree(st[i])
             /\ IsLive(st[i]) => Unflagged(new[i]).hash = Unflagged(st[i]).hash
             /\ \A k : Passes(st[i], k) => Passes(new[i], k)
  <2>1. CASE new[i] = st[i]
    BY <1>1, <2>1
  <2>2. CASE IsLive(st[i]) /\ new[i] = Flagged(st[i])
    <3>1. /\ Flagged(st[i]) \in Entry /\ IsLive(Flagged(st[i])) /\ IsFlagged(Flagged(st[i]))
          /\ Flagged(st[i]).key = st[i].key
          /\ Unflagged(Flagged(st[i])).hash = Unflagged(st[i]).hash
      BY <1>1, <2>2, FlaggedFacts
    <3>2. /\ ~IsRemoved(st[i]) /\ ~IsFree(st[i])
          /\ ~IsRemoved(Flagged(st[i])) /\ ~IsFree(Flagged(st[i]))
      BY <1>1, <2>2, <3>1, EntryKinds
    <3> QED
      BY <2>2, <3>1, <3>2 DEF Passes
  <2> QED
    BY <1>1, <2>1, <2>2 DEF SameEntries
<1>3. new \in [Places(lg) -> Entry]
  BY <1>1, <1>2 DEF SameEntries
<1>4. LiveIn(new) = LiveIn(st) /\ RemovedIn(new) = RemovedIn(st) /\ LiveIn(st) \subseteq Places(lg)
  BY <1>1, <1>2 DEF LiveIn, RemovedIn
<1>5. \A i \in LiveIn(st) : new[i].key = st[i].key
  BY <1>2, <1>4
<1>6. KeysIn(new) = KeysIn(st)
  BY <1>4, <1>5 DEF KeysIn
<1>7. Proper(new, lg)
  BY <1>2, <1>3, <1>4 DEF Proper, LiveIn
<1>8. ASSUME Chained(st, lg) PROVE Chained(new, lg)
  <2>1. SUFFICES ASSUME NEW i \in LiveIn(st) PROVE Reaches(new, lg, st[i].key, i)
    BY <1>4, <1>5 DEF Chained
  <2>2. PICK n \in Places(lg) :
          /\ Probe(st[i].key, lg, n) = i
          /\ \A m \in 0..n - 1 : Passes(st[Probe(st[i].key, lg, m)], st[i].key)
    BY <1>8 DEF Chained, Reaches
  <2>3. \A m \in 0..n - 1 : Probe(st[i].key, lg, m) \in Places(lg)
    BY ProbeType, PlacesFacts DEF Proper
  <2> QED
    BY <1>1, <1>2, <2>2, <2>3 DEF Reaches
<1> QED
  BY <1>1, <1>2, <1>4, <1>5, <1>6, <1>7, <1>8

\* JS_DHASH_ADD only flags.
LEMMA WayIsSame ==
  ASSUME NEW st, NEW lg, NEW k PROVE SameEntries(st, WayFlagged(st, lg, k))
BY DEF SameEntries, WayFlagged

\* Where an entry is added, and how the search for it gets there.
LEMMA PlaceFacts ==
  ASSUME NEW lg \in 0..HASH_BITS, NEW k \in Keys, NEW st, Proper(st, lg), HasFree(st)
  PROVE  LET p == PlaceFor(st, lg, k)
             w == WayFlagged(st, lg, k)
         IN  /\ p \in Places(lg)
             /\ IsLive(st[p]) => st[p].key = k
             /\ k \notin KeysIn(st) => ~IsLive(st[p])
             /\ Reaches(w, lg, k, p)
<1> DEFINE p == PlaceFor(st, lg, k)
           w == WayFlagged(st, lg, k)
           n == Passed(st, lg, k)
           removed == {i \in 0..n - 1 : IsRemoved(st[Probe(k, lg, i)])}
           first == CHOOSE i \in removed : \A j \in removed : i <= j
<1>1. /\ n \in Places(lg) /\ Stops(st, lg, k, n)
      /\ \A i \in 0..n - 1 : ~Stops(st, lg, k, i)
  BY SearchEnds DEF StopsFirst
<1>2. p = IF removed = {} \/ Matches(st[Probe(k, lg, n)], k) THEN Probe(k, lg, n)
          ELSE Probe(k, lg, first)
  BY DEF PlaceFor
<1>3. DOMAIN st = Places(lg) /\ \A i \in Places(lg) : st[i] \in Entry
  BY DEF Proper
<1>4. n \in Nat /\ n \in Int /\ \A i \in 0..n - 1 : i \in Places(lg) /\ i \in Int
  BY <1>1, PlacesFacts
<1> HIDE DEF p, n
<1>5. \A i \in 0..n - 1 : /\ Probe(k, lg, i) \in Places(lg)
                          /\ Passes(w[Probe(k, lg, i)], k)
  <2> SUFFICES ASSUME NEW i \in 0..n - 1
               PROVE  /\ Probe(k, lg, i) \in Places(lg)
                      /\ Passes(w[Probe(k, lg, i)], k)
    OBVIOUS
  <2> DEFINE q == Probe(k, lg, i)
  <2>1. q \in Places(lg)
    BY <1>4, ProbeType
  <2>2. w[q] = IF IsLive(st[q]) THEN Flagged(st[q]) ELSE st[q]
    <3>1. q \in {Probe(k, lg, j) : j \in 0..n - 1}
      OBVIOUS
    <3> QED
      BY <1>3, <2>1, <3>1 DEF WayFlagged, n
  <2>3. ~IsFree(st[q]) /\ ~Matches(st[q], k)
    BY <1>1 DEF Stops
  <2>4. CASE IsLive(st[q])
    BY <1>3, <2>1, <2>2, <2>3, <2>4, FlaggedFacts DEF Passes, Matches
  <2>5. CASE ~IsLive(st[q])
    <3>1. IsRemoved(st[q]) /\ w[q] = st[q]
      BY <1>3, <2>1, <2>2, <2>3, <2>5, EntryKinds
    <3> QED
      BY <2>1, <3>1 DEF Passes
  <2> QED
    BY <2>1, <2>4, <2>5
<1>6. CASE removed = {} \/ Matches(st[Probe(k, lg, n)], k)
  <2>1. p = Probe(k, lg, n) /\ p \in Places(lg)
    BY <1>2, <1>4, <1>6, ProbeType
  <2>2. Reaches(w, lg, k, p)
    BY <1>1, <1>5, <2>1 DEF Reaches
  <2>3. IsLive(st[p]) => st[p].key = k
    BY <1>1, <1>3, <2>1, EntryKinds DEF Stops, Matches
  <2>4. k \notin KeysIn(st) => ~IsLive(st[p])
    BY <1>3, <2>1, <2>3 DEF KeysIn, LiveIn
  <2> QED
    BY <2>1, <2>2, <2>3, <2>4 DEF p
<1>7. CASE removed # {} /\ ~Matches(st[Probe(k, lg, n)], k)
  <2>1. \E i \in removed : \A j \in removed : i <= j
    <3>1. removed \subseteq Nat
      OBVIOUS
    <3> HIDE DEF removed
    <3> QED
      BY <1>7, <3>1, Least
  <2>2. first \in removed
    BY <2>1
  <2> HIDE DEF first
  <2>3. p = Probe(k, lg, first) /\ first \in 0..n - 1 /\ IsRemoved(st[p])
    BY <1>2, <1>7, <2>2
  <2>4. first \in Places(lg) /\ p \in Places(lg) /\ \A m \in 0..first - 1 : m \in 0..n - 1
    BY <1>4, <1>5, <2>3
  <2>5. Reaches(w, lg, k, p)
    BY <1>5, <2>3, <2>4 DEF Reaches
  <2>6. ~IsLive(st[p])
    BY <1>3, <2>3, <2>4, EntryKinds
  <2> QED
    BY <2>4, <2>5, <2>6 DEF p
<1> QED
  BY <1>6, <1>7

\* An entry is put where its key is to go.
Insert(st, lg, k, e) == [WayFlagged(st, lg, k) EXCEPT ![PlaceFor(st, lg, k)] = e]

\* Adding a key that is not there.
LEMMA Inserted ==
  ASSUME NEW lg \in 0..HASH_BITS, NEW k \in Keys, NEW st, Sound(st, lg), HasFree(st),
         k \notin KeysIn(st), NEW e \in Entry, IsLive(e), e.key = k,
         Unflagged(e).hash = KeyHash[k],
         NEW p, p = PlaceFor(st, lg, k), IsRemoved(st[p]) => IsFlagged(e),
         NEW new, new = Insert(st, lg, k, e)
  PROVE  /\ p \in Places(lg) /\ p \notin LiveIn(st)
         /\ Sound(new, lg)
         /\ LiveIn(new) = LiveIn(st) \cup {p} /\ RemovedIn(new) = RemovedIn(st) \ {p}
         /\ KeysIn(new) = KeysIn(st) \cup {k}
         /\ new[p] = e /\ \A i \in LiveIn(st) : new[i].key = st[i].key
<1> DEFINE w == WayFlagged(st, lg, k)
<1>1. Proper(st, lg) /\ Chained(st, lg)
  BY DEF Sound
<1>2. p \in Places(lg) /\ ~IsLive(st[p]) /\ Reaches(w, lg, k, p)
  BY <1>1, PlaceFacts
<1>3. /\ Proper(w, lg) /\ Chained(w, lg)
      /\ LiveIn(w) = LiveIn(st) /\ RemovedIn(w) = RemovedIn(st)
      /\ \A i \in DOMAIN st : IsFree(w[i]) <=> IsFree(st[i])
      /\ \A i \in LiveIn(st) : w[i].key = st[i].key
      /\ KeysIn(w) = KeysIn(st)
  BY <1>1, WayIsSame, SameEntriesFacts
<1> DEFINE flags == IsRemoved(st[p]) => IsFlagged(e)
<1>4. flags
  OBVIOUS
<1>0. new = [w EXCEPT ![p] = e]
  BY DEF Insert
<1> HIDE DEF w, flags
<1>5. DOMAIN st = Places(lg) /\ w \in [Places(lg) -> Entry] /\ new \in [Places(lg) -> Entry]
  BY <1>0, <1>1, <1>2, <1>3 DEF Proper
<1>6. new[p] = e /\ \A i \in Places(lg) \ {p} : new[i] = w[i]
  BY <1>0, <1>2, <1>5
<1>7. ~IsRemoved(e) /\ ~IsFree(e)
  BY EntryKinds
<1>8. /\ LiveIn(new) = {i \in Places(lg) : IsLive(new[i])}
      /\ RemovedIn(new) = {i \in Places(lg) : IsRemoved(new[i])}
      /\ LiveIn(w) = {i \in Places(lg) : IsLive(w[i])}
      /\ RemovedIn(w) = {i \in Places(lg) : IsRemoved(w[i])}
      /\ LiveIn(st) = {i \in Places(lg) : IsLive(st[i])}
  BY <1>5 DEF LiveIn, RemovedIn
<1>9. LiveIn(new) = LiveIn(st) \cup {p} /\ RemovedIn(new) = RemovedIn(st) \ {p}
  BY <1>2, <1>3, <1>6, <1>7, <1>8
<1>10. p \notin LiveIn(st) /\ \A i \in LiveIn(st) : i \in Places(lg) \ {p} /\ new[i] = w[i]
  BY <1>2, <1>6, <1>8
<1>11. \A i \in LiveIn(st) : new[i].key = st[i].key
  BY <1>3, <1>10
<1>12. KeysIn(new) = KeysIn(st) \cup {k}
  BY <1>6, <1>9, <1>11 DEF KeysIn
<1>13. Proper(new, lg)
  <2>1. \A i \in LiveIn(new) : new[i].key \in Keys /\ Unflagged(new[i]).hash = KeyHash[new[i].key]
    BY <1>3, <1>6, <1>9, <1>10 DEF Proper
  <2> QED
    BY <1>5, <2>1 DEF Proper
<1>14. ASSUME NEW h \in Keys, NEW i \in Places(lg), Reaches(w, lg, h, i),
              h \in KeysIn(st) \/ (i = p /\ h = k)
       PROVE  Reaches(new, lg, h, i)
  <2>1. PICK n \in Places(lg) : 
          Probe(h, lg, n) = i /\ \A m \in 0..n - 1 : Passes(w[Probe(h, lg, m)], h)
    BY <1>14 DEF Reaches
  <2>2. ASSUME NEW m \in 0..n - 1 PROVE Passes(new[Probe(h, lg, m)], h)
    <3> DEFINE q == Probe(h, lg, m)
    <3>1. q \in Places(lg) /\ m \in Places(lg) /\ m # n
      BY ProbeType, PlacesFacts
    <3>2. CASE q # p
      BY <1>6, <2>1, <3>1, <3>2
    <3>3. CASE q = p
      <4>1. i # p
        BY <2>1, <3>1, <3>3, ProbesDiffer
      <4>2. h # k
        BY <1>14, <4>1
      <4>3. Passes(w[p], h)
        BY <2>1, <3>3
      <4>4. IsRemoved(w[p])
        BY <1>2, <1>3, <1>8, <4>3 DEF Passes
      <4>5. IsRemoved(st[p])
        BY <1>2, <1>3, <1>5, <1>8, <4>4 DEF RemovedIn
      <4> QED
        BY <1>4, <1>6, <3>3, <4>2, <4>5 DEF Passes, flags
    <3> QED
      BY <3>2, <3>3
  <2> QED
    BY <2>1, <2>2 DEF Reaches
<1>15. Chained(new, lg)
  <2>1. Reaches(new, lg, new[p].key, p)
    BY <1>2, <1>6, <1>14
  <2>2. ASSUME NEW i \in LiveIn(st) PROVE Reaches(new, lg, new[i].key, i)
    <3>1. w[i].key = st[i].key /\ new[i].key = st[i].key /\ st[i].key \in KeysIn(st) /\ st[i].key \in Keys
      BY <1>1, <1>3, <1>11 DEF KeysIn, Proper
    <3>2. Reaches(w, lg, st[i].key, i) /\ i \in Places(lg)
      BY <1>3, <1>8, <3>1 DEF Chained
    <3>3. Reaches(new, lg, st[i].key, i)
      BY ONLY <1>14, <3>1, <3>2
    <3> QED
      BY <3>1, <3>3
  <2> QED
    BY <1>9, <2>1, <2>2 DEF Chained
<1> QED
  BY <1>2, <1>6, <1>9, <1>10, <1>11, <1>12, <1>13, <1>15 DEF Sound

\* There are as many live entries as keys.
LEMMA KeysCount ==
  ASSUME NEW lg \in 0..HASH_BITS, NEW st, Sound(st, lg)
  PROVE  /\ IsFiniteSet(LiveIn(st)) /\ Cardinality(LiveIn(st)) \in Nat
         /\ IsFiniteSet(KeysIn(st)) /\ Cardinality(KeysIn(st)) = Cardinality(LiveIn(st))
         /\ IsFiniteSet(RemovedIn(st)) /\ Cardinality(RemovedIn(st)) \in Nat
         /\ LiveIn(st) \cap RemovedIn(st) = {}
<1> DEFINE f == [i \in LiveIn(st) |-> st[i].key]
<1>1. DOMAIN st = Places(lg) /\ \A i \in Places(lg) : st[i] \in Entry
  BY DEF Sound, Proper
<1>2. LiveIn(st) \in SUBSET Places(lg) /\ RemovedIn(st) \in SUBSET Places(lg)
  BY <1>1 DEF LiveIn, RemovedIn
<1>3. /\ IsFiniteSet(LiveIn(st)) /\ Cardinality(LiveIn(st)) \in Nat
      /\ IsFiniteSet(RemovedIn(st)) /\ Cardinality(RemovedIn(st)) \in Nat
  BY <1>2, PlacesFacts, FS_Subset, FS_CardinalityType
<1>4. f \in Surjection(LiveIn(st), KeysIn(st))
  BY DEF KeysIn, Surjection
<1>5. f \in Injection(LiveIn(st), KeysIn(st))
  BY KeysOnce DEF KeysIn, Injection, IsInjective
<1>6. IsFiniteSet(KeysIn(st)) /\ Cardinality(KeysIn(st)) = Cardinality(LiveIn(st))
  <2> HIDE DEF f
  <2> QED
    BY <1>3, <1>4, <1>5, FS_Surjection
<1>7. LiveIn(st) \cap RemovedIn(st) = {}
  BY <1>1, EntryKinds DEF LiveIn, RemovedIn
<1> QED
  BY <1>3, <1>6, <1>7

\* What is neither live nor removed is free.
LEMMA FreeByCount ==
  ASSUME NEW lg \in 0..HASH_BITS, NEW st, Sound(st, lg),
         Cardinality(LiveIn(st)) + Cardinality(RemovedIn(st)) < JS_BIT[lg]
  PROVE  HasFree(st)
<1>1. DOMAIN st = Places(lg) /\ \A i \in Places(lg) : st[i] \in Entry
  BY DEF Sound, Proper
<1>2. SUFFICES ASSUME ~HasFree(st) PROVE FALSE
  OBVIOUS
<1>3. \A i \in Places(lg) : IsLive(st[i]) \/ IsRemoved(st[i])
  BY <1>1, <1>2, EntryKinds DEF HasFree
<1>4. Places(lg) = LiveIn(st) \cup RemovedIn(st)
  BY <1>1, <1>3 DEF LiveIn, RemovedIn
<1>5. Cardinality(Places(lg)) = Cardinality(LiveIn(st)) + Cardinality(RemovedIn(st)) - Cardinality({})
  BY <1>4, KeysCount, FS_Union
<1>6. Cardinality({}) = 0 /\ Cardinality(Places(lg)) = JS_BIT[lg] /\ JS_BIT[lg] \in Nat
  BY FS_EmptySet, PlacesFacts, BitFacts
<1>7. Cardinality(LiveIn(st)) \in Nat /\ Cardinality(RemovedIn(st)) \in Nat
  BY KeysCount
<1> QED
  BY <1>5, <1>6, <1>7

\* A fresh table.
LEMMA EmptyFacts ==
  ASSUME NEW lg \in 0..HASH_BITS
  PROVE  /\ Sound(Empty(lg), lg)
         /\ LiveIn(Empty(lg)) = {} /\ RemovedIn(Empty(lg)) = {} /\ KeysIn(Empty(lg)) = {}
<1>1. Empty(lg) \in [Places(lg) -> Entry] /\ \A i \in Places(lg) : Empty(lg)[i] = FreeEntry
  BY FreeAndRemoved DEF Empty, Places
<1>2. ~IsLive(FreeEntry) /\ ~IsRemoved(FreeEntry)
  BY FreeAndRemoved, EntryKinds
<1>3. LiveIn(Empty(lg)) = {} /\ RemovedIn(Empty(lg)) = {}
  BY <1>1, <1>2 DEF LiveIn, RemovedIn
<1> QED
  BY <1>1, <1>3 DEF Sound, Proper, Chained, KeysIn

\* Removing entries, without moving the others.
LEMMA WithoutFacts ==
  ASSUME NEW lg \in 0..HASH_BITS, Sound(store, lg), NEW is, is \subseteq LiveIn(store)
  PROVE  LET new  == WithoutEntries(is)
             gone == {i \in is : IsRemoved(new[i])}
         IN  /\ Sound(new, lg)
             /\ LiveIn(new) = LiveIn(store) \ is
             /\ RemovedIn(new) = RemovedIn(store) \cup gone /\ gone \subseteq is
             /\ KeysIn(new) = KeysIn(store) \ {store[i].key : i \in is}
             /\ \A i \in LiveIn(new) : new[i] = store[i]
<1> DEFINE new  == WithoutEntries(is)
           gone == {i \in is : IsRemoved(new[i])}
<1>1. DOMAIN store = Places(lg) /\ \A i \in Places(lg) : store[i] \in Entry
  BY DEF Sound, Proper
<1>2. is \subseteq Places(lg) /\ \A i \in is : IsLive(store[i])
  BY <1>1 DEF LiveIn
<1>3. /\ DOMAIN new = Places(lg)
      /\ \A i \in Places(lg) : new[i] = IF i \in is THEN Unclaimed(store[i]) ELSE store[i]
      /\ new = [i \in Places(lg) |-> new[i]]
  BY <1>1 DEF WithoutEntries
<1> HIDE DEF new
<1>4. \A e : Unclaimed(e) \in Entry /\ ~IsLive(Unclaimed(e)) /\ (IsFlagged(e) => IsRemoved(Unclaimed(e)))
  BY FreeAndRemoved, EntryKinds DEF Unclaimed
<1>5. new \in [Places(lg) -> Entry]
  <2>1. \A i \in Places(lg) : new[i] \in Entry
    BY <1>1, <1>3, <1>4
  <2> QED
    BY <1>3, <2>1
<1>6. /\ LiveIn(new) = {i \in Places(lg) : IsLive(new[i])}
      /\ RemovedIn(new) = {i \in Places(lg) : IsRemoved(new[i])}
      /\ LiveIn(store) = {i \in Places(lg) : IsLive(store[i])}
      /\ RemovedIn(store) = {i \in Places(lg) : IsRemoved(store[i])}
  BY <1>1, <1>3 DEF LiveIn, RemovedIn
<1>7. LiveIn(new) = LiveIn(store) \ is /\ \A i \in LiveIn(new) : new[i] = store[i]
  BY <1>3, <1>4, <1>6
<1>8. RemovedIn(new) = RemovedIn(store) \cup gone
  <2>1. \A i \in is : ~IsRemoved(store[i])
    BY <1>1, <1>2, EntryKinds
  <2> QED
    BY <1>2, <1>3, <1>6, <2>1
<1>9. KeysIn(new) = KeysIn(store) \ {store[i].key : i \in is}
  <2>1. \A i \in LiveIn(store), j \in LiveIn(store) : store[i].key = store[j].key => i = j
    BY KeysOnce
  <2> QED
    BY <1>7, <2>1 DEF KeysIn
<1>10. Proper(new, lg)
  BY <1>5, <1>7 DEF Sound, Proper
<1>11. Chained(new, lg)
  <2>1. SUFFICES ASSUME NEW i \in LiveIn(new) PROVE Reaches(new, lg, store[i].key, i)
    BY <1>7 DEF Chained
  <2> DEFINE k == store[i].key
  <2>2. i \in LiveIn(store) /\ k \in Keys /\ Reaches(store, lg, k, i)
    BY <1>7 DEF Sound, Proper, Chained
  <2> HIDE DEF k
  <2>3. PICK n \in Places(lg) :
          Probe(k, lg, n) = i /\ \A m \in 0..n - 1 : Passes(store[Probe(k, lg, m)], k)
    BY <2>2 DEF Reaches
  <2>4. ASSUME NEW m \in 0..n - 1 PROVE Passes(new[Probe(k, lg, m)], k)
    <3> DEFINE q == Probe(k, lg, m)
    <3>1. q \in Places(lg)
      BY <2>2, ProbeType, PlacesFacts
    <3>2. Passes(store[q], k)
      BY <2>3
    <3>3. CASE q \notin is
      BY <1>3, <3>1, <3>2, <3>3
    <3>4. CASE q \in is
      <4>1. IsFlagged(store[q])
        BY <1>1, <1>2, <3>1, <3>2, <3>4, EntryKinds DEF Passes
      <4> QED
        BY <1>3, <1>4, <3>1, <3>4, <4>1 DEF Passes
    <3> QED
      BY <3>3, <3>4
  <2> QED
    BY <2>3, <2>4 DEF Reaches, k
<1> QED
  BY <1>7, <1>8, <1>9, <1>10, <1>11 DEF Sound, new

-----------------------------------------------------------------------------
(* ChangeTable.                                                            *)

\* One entry is moved.
Moving(lg, new, e) ==
  IF ~IsLive(e) THEN new
  ELSE Insert(new, lg, e.key, Unflagged(e))

\* The tables that ChangeTable goes through.
IsMove(st, lg, M) ==
  M = [i \in 0..SizeOf(st) |-> IF i = 0 THEN Empty(lg) ELSE Moving(lg, M[i - 1], st[i - 1])]

LEMMA MoveExists ==
  ASSUME NEW lg \in 0..HASH_BITS, NEW old \in 0..HASH_BITS, NEW st, Sound(st, old)
  PROVE  \E M : IsMove(st, lg, M)
<1> DEFINE X == [Places(lg) -> Entry]
           N == SizeOf(st)
           F == [p \in Nat \X X |-> IF p[1] \in 1..N THEN Moving(lg, p[2], st[p[1] - 1]) ELSE p[2]]
<1>1. /\ DOMAIN st = Places(old) /\ N = JS_BIT[old] /\ N \in Nat
      /\ \A i \in 1..N : st[i - 1] \in Entry
  <2>1. DOMAIN st = Places(old) /\ \A i \in Places(old) : st[i] \in Entry
    BY DEF Sound, Proper
  <2>2. N = JS_BIT[old] /\ N \in Nat
    BY <2>1, PlacesFacts, BitFacts DEF SizeOf
  <2> HIDE DEF N
  <2>3. \A i \in 1..N : i - 1 \in Places(old)
    BY <2>2 DEF Places
  <2> QED
    BY <2>1, <2>2, <2>3
<1> HIDE DEF N
<1>2. ASSUME NEW T \in X, NEW e \in Entry PROVE Moving(lg, T, e) \in X
  <2> DEFINE w == WayFlagged(T, lg, e.key)
  <2>1. w \in X
    <3>1. DOMAIN T = Places(lg) /\ \A i \in Places(lg) : T[i] \in Entry
      OBVIOUS
    <3>2. \A i \in Places(lg) : IsLive(T[i]) => Flagged(T[i]) \in Entry
      BY <3>1, FlaggedFacts
    <3> QED
      BY <3>1, <3>2 DEF WayFlagged
  <2>2. IsLive(e) => Unflagged(e) \in Entry
    BY UnflaggedFacts
  <2> HIDE DEF w
  <2> QED
    BY <2>1, <2>2 DEF Moving, Insert, w
<1>3. Empty(lg) \in X
  BY EmptyFacts DEF Sound, Proper
<1> HIDE DEF X
<1>4. F \in [Nat \X X -> X]
  <2>1. ASSUME NEW p \in Nat \X X
        PROVE  (IF p[1] \in 1..N THEN Moving(lg, p[2], st[p[1] - 1]) ELSE p[2]) \in X
    BY <1>1, <1>2
  <2> QED
    BY <2>1
<1>5. \A n \in 1..N, T \in X : F[<<n, T>>] = Moving(lg, T, st[n - 1])
  <2> TAKE n \in 1..N, T \in X
  <2>1. <<n, T>> \in Nat \X X /\ <<n, T>>[1] = n /\ <<n, T>>[2] = T
    OBVIOUS
  <2> QED
    BY <2>1
<1> HIDE DEF F
<1>6. PICK M : IsRecursion(M, N, X, Empty(lg), F)
  BY <1>1, <1>3, <1>4, PrimitiveRecursion
<1>7. /\ M \in [0..N -> X] /\ M[0] = Empty(lg)
      /\ \A n \in 1..N : M[n] = Moving(lg, M[n - 1], st[n - 1])
  <2>1. M \in [0..N -> X] /\ M[0] = Empty(lg) /\ \A n \in 1..N : M[n] = F[<<n, M[n - 1]>>]
    BY <1>6 DEF IsRecursion
  <2>2. \A n \in 1..N : n - 1 \in 0..N
    BY <1>1
  <2> QED
    BY <1>5, <2>1, <2>2
<1>8. \A n \in 0..N : n # 0 => n \in 1..N
  BY <1>1
<1>9. M = [i \in 0..N |-> IF i = 0 THEN Empty(lg) ELSE Moving(lg, M[i - 1], st[i - 1])]
  BY <1>7, <1>8
<1> QED
  BY <1>9 DEF IsMove, N

\* ChangeTable loses no key, and leaves no removed entry.
LEMMA RehashFacts ==
  ASSUME NEW lg \in 0..HASH_BITS, NEW old \in 0..HASH_BITS, NEW st, Sound(st, old),
         Cardinality(LiveIn(st)) < JS_BIT[lg]
  PROVE  LET new == Rehashed(st, lg)
         IN  /\ Sound(new, lg) /\ RemovedIn(new) = {} /\ KeysIn(new) = KeysIn(st)
             /\ Cardinality(LiveIn(new)) = Cardinality(LiveIn(st))
<1> DEFINE N == SizeOf(st)
           M == CHOOSE D : IsMove(st, lg, D)
           Before(n) == {st[j].key : j \in {i \in LiveIn(st) : i < n}}
           Good(n) == Sound(M[n], lg) /\ RemovedIn(M[n]) = {} /\ KeysIn(M[n]) = Before(n)
           bad == {n \in 0..N : ~Good(n)}
<1>1. IsMove(st, lg, M)
  BY MoveExists
<1>2. Rehashed(st, lg) = M[N]
  BY DEF Rehashed, IsMove, Moving, Insert
<1> HIDE DEF M
<1>3. DOMAIN st = Places(old) /\ N = JS_BIT[old] /\ N \in Nat
  BY PlacesFacts, BitFacts DEF SizeOf, Sound, Proper
<1>4. \A i \in 1..N : i - 1 \in Places(old) /\ i - 1 \in 0..N /\ i \in Nat
  <2> HIDE DEF N
  <2> QED
    BY <1>3 DEF Places
<1>5. M[0] = Empty(lg) /\ \A n \in 1..N : M[n] = Moving(lg, M[n - 1], st[n - 1])
  BY <1>1, <1>3 DEF IsMove
<1> HIDE DEF N
<1>6. Good(0)
  <2>1. \A i \in LiveIn(st) : i \in Nat
    BY <1>3, PlacesFacts DEF LiveIn
  <2>2. Before(0) = {}
    BY <2>1
  <2> QED
    BY <1>5, <2>2, EmptyFacts
<1>7. ASSUME NEW n \in 1..N, Good(n - 1) PROVE Good(n)
  <2> DEFINE e == st[n - 1]
             T == M[n - 1]
  <2>1. M[n] = Moving(lg, T, e) /\ n \in Nat /\ n - 1 \in Places(old)
    BY <1>4, <1>5
  <2>2. Sound(T, lg) /\ RemovedIn(T) = {} /\ KeysIn(T) = Before(n - 1)
    BY <1>7
  <2>3. e \in Entry /\ (IsLive(e) <=> n - 1 \in LiveIn(st))
    BY <1>3, <2>1 DEF Sound, Proper, LiveIn
  <2>4. \A i \in LiveIn(st) : i \in Nat
    BY <1>3, PlacesFacts DEF LiveIn
  <2>5. CASE ~IsLive(e)
    <3>1. M[n] = T
      BY <2>1, <2>5 DEF Moving
    <3>2. \A i \in LiveIn(st) : i < n <=> i < n - 1
      BY <2>1, <2>3, <2>4, <2>5
    <3>3. Before(n) = Before(n - 1)
      BY <3>2
    <3> HIDE DEF T, Before
    <3> QED
      BY <2>2, <3>1, <3>3
  <2>6. CASE IsLive(e)
    <3> DEFINE k == e.key
    <3>1. /\ n - 1 \in LiveIn(st) /\ k \in Keys /\ Unflagged(e).hash = KeyHash[k]
          /\ k \in KeysIn(st)
      BY <2>3, <2>6 DEF Sound, Proper, KeysIn
    <3>2. \A i \in LiveIn(st) : i < n <=> (i < n - 1 \/ i = n - 1)
      BY <2>1, <2>4
    <3>3. Before(n) = Before(n - 1) \cup {k}
      BY <3>1, <3>2
    <3>4. k \notin Before(n - 1)
      <4>1. \A i \in LiveIn(st) : st[i].key = k => i = n - 1
        BY <3>1, KeysOnce
      <4> QED
        BY <2>1, <4>1
    <3>5. Before(n - 1) \subseteq KeysIn(st)
      BY DEF KeysIn
    <3> HIDE DEF T, Before, k
    <3>6. HasFree(T)
      <4>1. Cardinality(KeysIn(T)) <= Cardinality(KeysIn(st))
        BY <2>2, <3>5, KeysCount, FS_Subset
      <4>2. /\ Cardinality(KeysIn(T)) = Cardinality(LiveIn(T)) /\ Cardinality(LiveIn(T)) \in Nat
            /\ Cardinality(KeysIn(st)) = Cardinality(LiveIn(st)) /\ Cardinality(LiveIn(st)) \in Nat
        BY <2>2, KeysCount
      <4>3. Cardinality(RemovedIn(T)) = 0 /\ JS_BIT[lg] \in Nat
        BY <2>2, FS_EmptySet, BitFacts
      <4> QED
        BY <2>2, <4>1, <4>2, <4>3, FreeByCount
    <3>7. k \notin KeysIn(T)
      BY <2>2, <3>4
    <3> DEFINE u == Unflagged(e)
               p == PlaceFor(T, lg, k)
    <3>8. u \in Entry /\ IsLive(u) /\ u.key = k /\ Unflagged(u).hash = KeyHash[k]
      BY <2>3, <2>6, <3>1, UnflaggedFacts DEF k
    <3> HIDE DEF u
    <3>9. ~IsRemoved(T[p])
      <4>1. p \in Places(lg) /\ DOMAIN T = Places(lg)
        BY <2>2, <3>1, <3>6, PlaceFacts DEF Sound, Proper
      <4> QED
        BY <2>2, <4>1 DEF RemovedIn
    <3> DEFINE new == Insert(T, lg, k, u)
    <3>10. Sound(new, lg) /\ RemovedIn(new) = {} /\ KeysIn(new) = KeysIn(T) \cup {k}
      BY <2>2, <3>1, <3>6, <3>7, <3>8, <3>9, Inserted
    <3>11. M[n] = new
      BY <2>1, <2>6 DEF Moving, u, k, T
    <3> HIDE DEF new
    <3> QED
      BY <2>2, <3>3, <3>10, <3>11
  <2> QED
    BY <2>5, <2>6
<1>8. bad = {}
  <2>1. SUFFICES ASSUME bad # {} PROVE FALSE
    OBVIOUS
  <2>2. PICK m \in bad : \A n \in bad : m <= n
    <3>1. bad \subseteq Nat
      BY <1>3
    <3> HIDE DEF bad
    <3> QED
      BY <2>1, <3>1, Least
  <2> HIDE DEF Good
  <2>3. m \in 1..N /\ m - 1 \in 0..N /\ ~(m <= m - 1)
    BY <1>3, <1>6
  <2>4. Good(m - 1)
    BY <2>2, <2>3
  <2> QED
    BY <1>7, <2>3, <2>4
<1>9. Good(N)
  <2> HIDE DEF Good
  <2>1. N \in 0..N
    BY <1>3
  <2> QED
    BY <1>8, <2>1
<1>10. Before(N) = KeysIn(st)
  <2>1. \A i \in LiveIn(st) : i < N
    BY <1>3 DEF LiveIn, Places
  <2> QED
    BY <2>1 DEF KeysIn
<1>11. Sound(M[N], lg) /\ RemovedIn(M[N]) = {} /\ KeysIn(M[N]) = KeysIn(st)
  BY <1>9, <1>10
<1>12. Cardinality(LiveIn(M[N])) = Cardinality(LiveIn(st))
  BY <1>11, KeysCount
<1> QED
  BY <1>2, <1>11, <1>12

-----------------------------------------------------------------------------
(* The table of a state, and what the callers keep.                        *)

\* The counts are right, and leave an entry free.
Counted(st, lg, live, removed) ==
  /\ Sound(st, lg)
  /\ live = Cardinality(LiveIn(st)) /\ removed = Cardinality(RemovedIn(st))
  /\ live + removed < JS_BIT[lg]

\* What is kept for k is of a key that is there, and is its entry unless the table has changed.
HeldOK(k) ==
  held[k].entry >= 0 =>
    /\ k \in KeysIn(store) /\ held[k].generation <= generation
    /\ held[k].generation = generation =>
         /\ held[k].entry \in LiveIn(store)
         /\ store[held[k].entry].key = k

TableInv ==
  /\ log2 \in MIN_LOG2..LIMIT_LOG2 - 1
  /\ Counted(store, log2, entryCount, removedCount)

HeldInv ==
  /\ generation \in Nat
  /\ held \in [Keys -> [entry : Int, generation : Int]]
  /\ \A k \in Keys : HeldOK(k)

LEMMA SizesFacts ==
  ASSUME NEW lg \in MIN_LOG2..LIMIT_LOG2 - 1
  PROVE  /\ lg \in 0..HASH_BITS /\ lg + 1 \in 0..HASH_BITS /\ lg \in Nat
         /\ JS_BIT[lg] \in Nat /\ JS_BIT[lg] >= 4
         /\ JS_BIT[lg + 1] = 2 * JS_BIT[lg]
<1>1. lg \in 0..HASH_BITS /\ lg + 1 \in 1..HASH_BITS /\ lg \in Nat /\ lg > 1 /\ lg = (lg + 1) - 1
      /\ HASH_BITS \in Nat
  BY SizesAssumption
<1>2. JS_BIT[lg] \in Nat /\ JS_BIT[lg + 1] = 2 * JS_BIT[lg]
  BY <1>1, BitFacts
<1>3. JS_BIT[0] = 1 /\ JS_BIT[1] = 2 * JS_BIT[0] /\ 0 \in 0..HASH_BITS /\ 1 \in 0..HASH_BITS
  <2>1. 1 \in 1..HASH_BITS /\ 1 - 1 = 0
    BY <1>1
  <2> QED
    BY <2>1, <1>1, BitFacts
<1>4. 2 * JS_BIT[1] <= JS_BIT[lg]
  BY <1>1, <1>3, BitGrows
<1> QED
  BY <1>1, <1>2, <1>3, <1>4

LEMMA SomeFree ==
  ASSUME NEW lg \in 0..HASH_BITS, NEW st, NEW live, NEW removed, Counted(st, lg, live, removed)
  PROVE  /\ HasFree(st) /\ live \in Nat /\ removed \in Nat
         /\ Proper(st, lg) /\ Sound(st, lg)
BY FreeByCount, KeysCount DEF Counted, Sound

\* What a claimed entry is made of.
LEMMA ClaimedEntry ==
  ASSUME NEW k \in Keys, NEW flag \in {0, 1}, NEW e, e = [hash |-> KeyHash[k] + flag, key |-> k]
  PROVE  /\ e \in Entry /\ IsLive(e) /\ e.key = k /\ Unflagged(e).hash = KeyHash[k]
         /\ flag = 1 => IsFlagged(e)
<1> DEFINE h == KeyHash[k]
<1>1. h \in Nat /\ h >= 2 /\ h % 2 = 0
  <2>1. HASH_BITS \in 0..HASH_BITS
    BY SizesAssumption
  <2>2. JS_BIT[HASH_BITS] \in Nat
    BY <2>1, BitFacts
  <2> QED
    BY <2>2, HashAssumption
<1>2. e.hash = h + flag /\ e.key = k /\ e = [hash |-> h + flag, key |-> k]
  OBVIOUS
<1> HIDE DEF h
<1>3. h + flag \in Nat /\ h + flag >= 2 /\ (h + flag) - ((h + flag) % 2) = h
      /\ (flag = 1 => (h + flag) % 2 = 1)
  BY <1>1
<1>4. e \in Entry /\ Unflagged(e).hash = e.hash - (e.hash % 2)
  BY <1>2, <1>3 DEF Entry, Unflagged
<1> QED
  BY <1>2, <1>3, <1>4 DEF IsLive, IsFlagged, h

\* JS_DHASH_ADD once the table has room.
LEMMA Claimed ==
  ASSUME NEW lg \in 0..HASH_BITS, NEW k \in Keys, NEW st, NEW removed,
         Counted(st, lg, entryCount, removed), entryCount + removed + 1 < JS_BIT[lg],
         Claim(st, lg, k, removed)
  PROVE  /\ Counted(store', lg, entryCount', removedCount')
         /\ KeysIn(store') = KeysIn(st) \cup {k}
         /\ \A j \in LiveIn(st) : j \in LiveIn(store') /\ store'[j].key = st[j].key
         /\ \E i \in Places(lg) :
              /\ held' = [held EXCEPT ![k] = [entry |-> i, generation |-> generation']]
              /\ i \in LiveIn(store') /\ store'[i].key = k
<1> DEFINE i    == PlaceFor(st, lg, k)
           flag == IF IsRemoved(st[i]) THEN 1 ELSE 0
           w    == WayFlagged(st, lg, k)
           e    == [hash |-> KeyHash[k] + flag, key |-> k]
<1>1. HasFree(st) /\ entryCount \in Nat /\ removed \in Nat /\ Proper(st, lg) /\ Sound(st, lg)
  BY SomeFree
<1>2. /\ i \in Places(lg)
      /\ IsLive(st[i]) => st[i].key = k
      /\ k \notin KeysIn(st) => ~IsLive(st[i])
  BY <1>1, PlaceFacts
<1>3. /\ store' = IF IsLive(st[i]) THEN w ELSE Insert(st, lg, k, e)
      /\ entryCount' = IF IsLive(st[i]) THEN entryCount ELSE entryCount + 1
      /\ removedCount' = removed - flag
      /\ held' = [held EXCEPT ![k] = [entry |-> i, generation |-> generation']]
  BY DEF Claim, Insert
<1>4. DOMAIN st = Places(lg) /\ \A j \in Places(lg) : st[j] \in Entry
  BY <1>1 DEF Proper
<1>5. CASE IsLive(st[i])
  <2>1. ~IsRemoved(st[i]) /\ flag = 0
    BY <1>2, <1>4, <1>5, EntryKinds
  <2>2. store' = w /\ entryCount' = entryCount /\ removedCount' = removed
    BY <1>1, <1>3, <1>5, <2>1
  <2>3. /\ Sound(w, lg) /\ LiveIn(w) = LiveIn(st) /\ RemovedIn(w) = RemovedIn(st)
        /\ \A j \in LiveIn(st) : w[j].key = st[j].key
        /\ KeysIn(w) = KeysIn(st)
    BY <1>1, WayIsSame, SameEntriesFacts DEF Sound
  <2>4. i \in LiveIn(st) /\ k \in KeysIn(st)
    BY <1>2, <1>4, <1>5 DEF LiveIn, KeysIn
  <2> HIDE DEF i, w, flag
  <2>5. Counted(store', lg, entryCount', removedCount')
    BY <2>2, <2>3 DEF Counted
  <2> QED
    BY <1>2, <1>3, <1>5, <2>2, <2>3, <2>4, <2>5
<1>6. CASE ~IsLive(st[i])
  <2> DEFINE new == Insert(st, lg, k, e)
  <2>1. store' = new /\ entryCount' = entryCount + 1
    BY <1>3, <1>6
  <2>2. k \notin KeysIn(st)
    <3>1. ASSUME k \in KeysIn(st) PROVE FALSE
      <4>1. PICK j \in LiveIn(st) : st[j].key = k
        BY <3>1 DEF KeysIn
      <4>2. j \in Places(lg) /\ Matches(st[j], k)
        BY <1>4, <4>1 DEF LiveIn, Matches
      <4>3. Matches(st[Found(st, lg, k)], k)
        BY <1>1, <4>1, <4>2, ReachedIsFound
      <4>4. i = Found(st, lg, k)
        BY <4>3 DEF PlaceFor, Found
      <4> QED
        BY <1>6, <4>3, <4>4 DEF Matches
    <3> QED
      BY <3>1
  <2>3. e \in Entry /\ IsLive(e) /\ e.key = k /\ Unflagged(e).hash = KeyHash[k]
        /\ (flag = 1 => IsFlagged(e))
    <3>1. flag \in {0, 1}
      OBVIOUS
    <3> HIDE DEF flag
    <3> QED
      BY <3>1, ClaimedEntry
  <2>4. IsRemoved(st[i]) => IsFlagged(e)
    BY <2>3
  <2> HIDE DEF e, new
  <2>5. /\ i \notin LiveIn(st)
        /\ Sound(new, lg)
        /\ LiveIn(new) = LiveIn(st) \cup {i} /\ RemovedIn(new) = RemovedIn(st) \ {i}
        /\ KeysIn(new) = KeysIn(st) \cup {k}
        /\ new[i] = e /\ \A j \in LiveIn(st) : new[j].key = st[j].key
    <3> DEFINE q == i
    <3>1. q = PlaceFor(st, lg, k) /\ (IsRemoved(st[q]) => IsFlagged(e))
      BY <2>4
    <3> HIDE DEF q
    <3> QED
      BY <1>1, <2>2, <2>3, <3>1, Inserted DEF new
  <2> HIDE DEF i
  <2>6. /\ IsFiniteSet(LiveIn(st)) /\ Cardinality(LiveIn(st)) = entryCount
        /\ IsFiniteSet(RemovedIn(st)) /\ Cardinality(RemovedIn(st)) = removed
    BY <1>1, KeysCount DEF Counted
  <2>7. Cardinality(LiveIn(new)) = entryCount + 1
    BY <2>5, <2>6, FS_AddElement
  <2>8. Cardinality(RemovedIn(new)) = removed - flag
    <3>1. IsRemoved(st[i]) <=> i \in RemovedIn(st)
      BY <1>2, <1>4 DEF RemovedIn
    <3>2. Cardinality(RemovedIn(new)) = IF i \in RemovedIn(st) THEN removed - 1 ELSE removed
      BY <2>5, <2>6, FS_RemoveElement
    <3> QED
      BY <1>1, <3>1, <3>2
  <2>9. flag \in {0, 1} /\ JS_BIT[lg] \in Nat
    BY BitFacts
  <2> HIDE DEF flag
  <2>10. Counted(store', lg, entryCount', removedCount')
    <3>1. entryCount + 1 + (removed - flag) < JS_BIT[lg]
      BY <1>1, <2>9
    <3> QED
      BY <1>3, <2>1, <2>5, <2>7, <2>8, <3>1 DEF Counted
  <2> QED
    BY <1>2, <1>3, <2>1, <2>3, <2>5, <2>10
<1> QED
  BY <1>5, <1>6

\* What a change of the table leaves of it, and of what callers keep.
Changed(keys) ==
  /\ TableInv'
  /\ KeysIn(store') = keys
  /\ \/ generation' = generation + 1
     \/ /\ generation' = generation
        /\ \A j \in LiveIn(store) : store[j].key \in keys =>
             j \in LiveIn(store') /\ store'[j].key = store[j].key

\* Who kept an entry of a key that is still there may go on.
LEMMA KeptOK ==
  ASSUME HeldInv, NEW keys, Changed(keys), NEW k \in keys, k \in Keys, held'[k] = held[k]
  PROVE  HeldOK(k)'
<1>1. CASE held[k].entry >= 0
  <2>1. /\ k \in KeysIn(store) /\ held[k].generation <= generation
        /\ held[k].generation = generation =>
             /\ held[k].entry \in LiveIn(store)
             /\ store[held[k].entry].key = k
    BY <1>1 DEF HeldInv, HeldOK
  <2>2. held[k].generation \in Int /\ generation \in Nat
    BY DEF HeldInv
  <2>3. CASE generation' = generation + 1
    <3>1. held'[k].generation <= generation' /\ held'[k].generation # generation'
      BY <2>1, <2>2, <2>3
    <3> QED
      BY <3>1 DEF HeldOK, Changed
  <2>4. CASE /\ generation' = generation
             /\ \A j \in LiveIn(store) : store[j].key \in keys =>
                  j \in LiveIn(store') /\ store'[j].key = store[j].key
    BY <2>1, <2>4 DEF HeldOK, Changed
  <2> QED
    BY <2>3, <2>4 DEF Changed
<1>2. CASE ~(held[k].entry >= 0)
  BY <1>2 DEF HeldOK
<1> QED
  BY <1>1, <1>2

\* Who gave up what was kept has nothing to go wrong.
LEMMA DroppedOK ==
  ASSUME NEW k, held'[k] = [entry |-> -1, generation |-> -1] PROVE HeldOK(k)'
BY DEF HeldOK

LEMMA AddStep ==
  ASSUME TableInv, HeldInv, NEW k \in Keys, NEW ok \in BOOLEAN, Add(k, ok)
  PROVE  TableInv' /\ HeldInv'
<1> DEFINE changes == Overloaded /\ ok /\ CanChange(LogToAdd)
           lg == IF changes THEN LogToAdd ELSE log2
           st == IF changes THEN Rehashed(store, LogToAdd) ELSE store
           removed == IF changes THEN 0 ELSE removedCount
           b == JS_BIT[log2]
<1>1. /\ log2 \in 0..HASH_BITS /\ log2 + 1 \in 0..HASH_BITS /\ log2 \in Nat
      /\ b \in Nat /\ b >= 4 /\ JS_BIT[log2 + 1] = 2 * b
  BY SizesFacts DEF TableInv
<1>2. /\ Sound(store, log2) /\ entryCount + removedCount < b
      /\ entryCount = Cardinality(LiveIn(store)) /\ removedCount = Cardinality(RemovedIn(store))
      /\ entryCount \in Nat /\ removedCount \in Nat
  BY <1>1, SomeFree DEF TableInv, Counted
<1>3. /\ log2' = lg
      /\ generation' = IF changes THEN generation + 1 ELSE generation
      /\ ~AddFails(changes)
      /\ Claim(st, lg, k, removed)
  BY DEF Add
<1>4. /\ lg \in MIN_LOG2..LIMIT_LOG2 - 1 /\ lg \in 0..HASH_BITS
      /\ Counted(st, lg, entryCount, removed)
      /\ entryCount + removed + 1 < JS_BIT[lg]
      /\ KeysIn(st) = KeysIn(store)
      /\ ~changes => st = store
  <2>1. CASE changes
    <3>1. lg = LogToAdd /\ lg < LIMIT_LOG2 /\ removed = 0 /\ st = Rehashed(store, lg)
      BY <2>1 DEF CanChange
    <3>2. /\ lg \in MIN_LOG2..LIMIT_LOG2 - 1 /\ lg \in 0..HASH_BITS
          /\ entryCount + 1 < JS_BIT[lg]
      <4>1. CASE removedCount >= b \div 4
        <5>1. lg = log2
          BY <3>1, <4>1 DEF LogToAdd
        <5>2. removedCount >= 1
          BY <1>1, <1>2, <4>1
        <5> QED
          BY <1>1, <1>2, <5>1, <5>2 DEF TableInv
      <4>2. CASE ~(removedCount >= b \div 4)
        <5>1. lg = log2 + 1
          BY <3>1, <4>2 DEF LogToAdd
        <5>2. lg \in MIN_LOG2..LIMIT_LOG2 - 1
          BY <3>1, <5>1, SizesAssumption DEF TableInv
        <5> QED
          BY <1>1, <1>2, <5>1, <5>2
      <4> QED
        BY <4>1, <4>2
    <3>3. JS_BIT[lg] \in Nat
      BY <3>2, BitFacts
    <3> HIDE DEF changes, lg, b
    <3>4. Cardinality(LiveIn(store)) < JS_BIT[lg]
      BY <1>2, <3>2, <3>3
    <3>5. /\ Sound(st, lg) /\ RemovedIn(st) = {} /\ KeysIn(st) = KeysIn(store)
          /\ Cardinality(LiveIn(st)) = entryCount
      BY <1>1, <1>2, <3>1, <3>2, <3>4, RehashFacts
    <3>6. Cardinality(RemovedIn(st)) = 0
      BY <3>5, FS_EmptySet
    <3> QED
      BY <1>2, <2>1, <3>1, <3>2, <3>3, <3>5, <3>6 DEF Counted
  <2>2. CASE ~changes
    <3>1. lg = log2 /\ st = store /\ removed = removedCount
      BY <2>2
    <3>2. entryCount + removedCount + 1 < b
      <4>1. CASE Overloaded
        <5>1. entryCount + removedCount # b - 1
          BY <1>3, <2>2, <4>1 DEF AddFails
        <5> QED
          BY <1>1, <1>2, <5>1
      <4>2. CASE ~Overloaded
        <5>1. entryCount + removedCount < MAX_LOAD(log2)
          <6>1. MAX_LOAD(log2) \in Int
            BY <1>1, AlphaAssumption DEF MAX_LOAD
          <6> QED
            BY <1>2, <4>2, <6>1 DEF Overloaded
        <5>2. MAX_LOAD(log2) \in Int /\ MAX_LOAD(log2) < b
          <6> DEFINE m == maxAlphaFrac * b
          <6>1. m \in Nat /\ m <= 255 * b
            BY <1>1, AlphaAssumption
          <6>2. MAX_LOAD(log2) = m \div 256
            BY DEF MAX_LOAD
          <6> HIDE DEF m, b
          <6> QED
            BY <1>1, <6>1, <6>2
        <5> QED
          BY <1>1, <1>2, <5>1, <5>2
      <4> QED
        BY <4>1, <4>2
    <3> QED
      BY <1>1, <1>2, <2>2, <3>1, <3>2 DEF TableInv, Counted
  <2> QED
    BY <2>1, <2>2
<1>5. changes => generation' = generation + 1
  BY <1>3
<1>6. ~changes => generation' = generation
  BY <1>3
<1> HIDE DEF changes, lg, st, removed, b
<1>7. /\ Counted(store', lg, entryCount', removedCount')
      /\ KeysIn(store') = KeysIn(store) \cup {k}
      /\ \A j \in LiveIn(st) : j \in LiveIn(store') /\ store'[j].key = st[j].key
      /\ \E i \in Places(lg) :
           /\ held' = [held EXCEPT ![k] = [entry |-> i, generation |-> generation']]
           /\ i \in LiveIn(store') /\ store'[i].key = k
  BY <1>3, <1>4, Claimed
<1>8. TableInv'
  BY <1>3, <1>4, <1>7 DEF TableInv
<1>9. Changed(KeysIn(store) \cup {k})
  <2>1. CASE changes
    BY <1>5, <1>7, <1>8, <2>1 DEF Changed
  <2>2. CASE ~changes
    BY <1>4, <1>6, <1>7, <1>8, <2>2 DEF Changed
  <2> QED
    BY <2>1, <2>2
<1>10. PICK i \in Places(lg) :
         /\ held' = [held EXCEPT ![k] = [entry |-> i, generation |-> generation']]
         /\ i \in LiveIn(store') /\ store'[i].key = k
  BY <1>7
<1>11. generation' \in Nat /\ i \in Int
  BY <1>4, <1>5, <1>6, PlacesFacts DEF HeldInv
<1>12. held' \in [Keys -> [entry : Int, generation : Int]]
  BY <1>10, <1>11 DEF HeldInv
<1>13. HeldOK(k)'
  <2>1. held'[k].entry = i /\ held'[k].generation = generation'
    BY <1>10 DEF HeldInv
  <2> QED
    BY <1>7, <1>10, <1>11, <2>1 DEF HeldOK
<1>14. ASSUME NEW h \in Keys, h # k PROVE HeldOK(h)'
  <2>1. held'[h] = held[h]
    BY <1>10, <1>14 DEF HeldInv
  <2>2. CASE held[h].entry >= 0
    <3>1. h \in KeysIn(store) \cup {k}
      BY <2>2 DEF HeldInv, HeldOK
    <3> QED
      BY <1>9, <1>14, <2>1, <3>1, KeptOK
  <2>3. CASE ~(held[h].entry >= 0)
    BY <2>1, <2>3 DEF HeldOK
  <2> QED
    BY <2>2, <2>3
<1> QED
  BY <1>8, <1>11, <1>12, <1>13, <1>14 DEF HeldInv

\* The counts after entries have been removed.
LEMMA WithoutCounted ==
  ASSUME TableInv, NEW is, is \subseteq LiveIn(store)
  PROVE  /\ Cardinality(is) \in Nat /\ entryCount \in Nat /\ Cardinality(is) <= entryCount
         /\ Counted(WithoutEntries(is), log2, entryCount - Cardinality(is), RemovedAfter(is))
         /\ KeysIn(WithoutEntries(is)) = KeysIn(store) \ {store[i].key : i \in is}
         /\ LiveIn(WithoutEntries(is)) = LiveIn(store) \ is
         /\ \A i \in LiveIn(store) \ is : WithoutEntries(is)[i] = store[i]
<1> DEFINE new  == WithoutEntries(is)
           gone == {i \in is : IsRemoved(new[i])}
<1>1. log2 \in 0..HASH_BITS /\ JS_BIT[log2] \in Nat
  BY SizesFacts DEF TableInv
<1>2. /\ Sound(store, log2) /\ entryCount + removedCount < JS_BIT[log2]
      /\ entryCount = Cardinality(LiveIn(store)) /\ removedCount = Cardinality(RemovedIn(store))
      /\ entryCount \in Nat /\ removedCount \in Nat
  BY <1>1, SomeFree DEF TableInv, Counted
<1>3. /\ Sound(new, log2)
      /\ LiveIn(new) = LiveIn(store) \ is
      /\ RemovedIn(new) = RemovedIn(store) \cup gone /\ gone \subseteq is
      /\ KeysIn(new) = KeysIn(store) \ {store[i].key : i \in is}
      /\ \A i \in LiveIn(new) : new[i] = store[i]
  BY <1>1, <1>2, WithoutFacts
<1>4. RemovedAfter(is) = removedCount + Cardinality(gone)
  BY DEF RemovedAfter
<1> HIDE DEF new, gone
<1>5. /\ IsFiniteSet(LiveIn(store)) /\ IsFiniteSet(RemovedIn(store))
      /\ LiveIn(store) \cap RemovedIn(store) = {}
  BY <1>1, <1>2, KeysCount
<1>6. /\ IsFiniteSet(is) /\ Cardinality(is) \in Nat /\ Cardinality(is) <= entryCount
      /\ IsFiniteSet(gone) /\ Cardinality(gone) \in Nat /\ Cardinality(gone) <= Cardinality(is)
  <2>1. IsFiniteSet(is) /\ Cardinality(is) <= entryCount
    BY <1>2, <1>5, FS_Subset
  <2>2. IsFiniteSet(gone) /\ Cardinality(gone) <= Cardinality(is)
    BY <1>3, <2>1, FS_Subset
  <2> QED
    BY <2>1, <2>2, FS_CardinalityType
<1>7. Cardinality(LiveIn(new)) = entryCount - Cardinality(is)
  <2>1. LiveIn(store) \cap is = is
    OBVIOUS
  <2> QED
    BY <1>2, <1>3, <1>5, <2>1, FS_Difference
<1>8. Cardinality(RemovedIn(new)) = removedCount + Cardinality(gone)
  <2>1. RemovedIn(store) \cap gone = {}
    BY <1>3, <1>5
  <2>2. Cardinality(RemovedIn(new))
          = Cardinality(RemovedIn(store)) + Cardinality(gone) - Cardinality({})
    BY <1>3, <1>5, <1>6, <2>1, FS_Union
  <2> QED
    BY <1>2, <1>6, <2>2, FS_EmptySet
<1>9. (entryCount - Cardinality(is)) + (removedCount + Cardinality(gone)) < JS_BIT[log2]
  BY <1>1, <1>2, <1>6
<1>10. Counted(new, log2, entryCount - Cardinality(is), RemovedAfter(is))
  BY <1>3, <1>4, <1>7, <1>8, <1>9 DEF Counted
<1> QED
  BY <1>2, <1>3, <1>6, <1>10 DEF new

\* Entries are removed and the others stay where they are.
LEMMA RawRemoved ==
  ASSUME TableInv, NEW is, is \subseteq LiveIn(store),
         store' = WithoutEntries(is), entryCount' = entryCount - Cardinality(is),
         removedCount' = RemovedAfter(is), Keep
  PROVE  Changed(KeysIn(store) \ {store[i].key : i \in is}) /\ generation' = generation
<1>1. log2' = log2 /\ generation' = generation
  BY DEF Keep
<1>2. /\ Counted(store', log2, entryCount', removedCount')
      /\ KeysIn(store') = KeysIn(store) \ {store[i].key : i \in is}
      /\ LiveIn(store') = LiveIn(store) \ is
      /\ \A i \in LiveIn(store) \ is : store'[i] = store[i]
  BY WithoutCounted
<1>3. TableInv'
  BY <1>1, <1>2 DEF TableInv
<1>4. \A j \in LiveIn(store) : store[j].key \notin {store[i].key : i \in is} => j \notin is
  OBVIOUS
<1> QED
  BY <1>1, <1>2, <1>3, <1>4 DEF Changed

\* Entries are removed and the others are moved.
LEMMA RemovedAndMoved ==
  ASSUME TableInv, NEW is, is \subseteq LiveIn(store),
         NEW lg \in MIN_LOG2..LIMIT_LOG2 - 1, entryCount - Cardinality(is) < JS_BIT[lg],
         log2' = lg, store' = Rehashed(WithoutEntries(is), lg),
         entryCount' = entryCount - Cardinality(is), removedCount' = 0,
         generation' = generation + 1
  PROVE  Changed(KeysIn(store) \ {store[i].key : i \in is})
<1> DEFINE st == WithoutEntries(is)
<1>1. log2 \in 0..HASH_BITS /\ lg \in 0..HASH_BITS /\ JS_BIT[lg] \in Nat
  BY SizesFacts DEF TableInv
<1>2. /\ Sound(st, log2) /\ Cardinality(LiveIn(st)) = entryCount - Cardinality(is)
      /\ entryCount - Cardinality(is) \in Nat
      /\ KeysIn(st) = KeysIn(store) \ {store[i].key : i \in is}
  BY WithoutCounted DEF Counted
<1> HIDE DEF st
<1>3. /\ Sound(store', lg) /\ RemovedIn(store') = {} /\ KeysIn(store') = KeysIn(st)
      /\ Cardinality(LiveIn(store')) = entryCount - Cardinality(is)
  BY <1>1, <1>2, RehashFacts DEF st
<1>4. Cardinality(RemovedIn(store')) = 0
  BY <1>3, FS_EmptySet
<1>5. Counted(store', lg, entryCount', removedCount')
  BY <1>1, <1>2, <1>3, <1>4 DEF Counted
<1>6. TableInv'
  BY <1>5 DEF TableInv
<1> QED
  BY <1>2, <1>3, <1>6 DEF Changed

\* JS_DHASH_REMOVE of a key that is there.
LEMMA RemoveOfOK ==
  ASSUME TableInv, NEW i \in LiveIn(store), NEW ok \in BOOLEAN, RemoveOf(i, ok), generation \in Nat
  PROVE  Changed(KeysIn(store) \ {store[i].key}) /\ generation' \in Nat
<1>1. {i} \subseteq LiveIn(store) /\ Cardinality({i}) = 1 /\ {store[j].key : j \in {i}} = {store[i].key}
  BY FS_Singleton
<1>2. CASE RawRemoveOf(i)
  BY <1>1, <1>2, RawRemoved DEF RawRemoveOf
<1>3. CASE log2 > MIN_LOG2 /\ entryCount - 1 <= MIN_LOAD(log2) /\ ok /\ CanChange(log2 - 1)
  <2> DEFINE b == JS_BIT[log2 - 1]
             m == minAlphaFrac * JS_BIT[log2]
  <2>1. log2 - 1 \in MIN_LOG2..LIMIT_LOG2 - 1 /\ log2 - 1 \in 0..HASH_BITS /\ (log2 - 1) + 1 = log2
    BY <1>3, SizesAssumption DEF TableInv
  <2>2. b \in Nat /\ b >= 4 /\ JS_BIT[log2] = 2 * b
    BY <2>1, SizesFacts
  <2> HIDE DEF b
  <2>3. m \in Nat /\ m <= 127 * (2 * b)
    <3>1. minAlphaFrac \in Nat /\ minAlphaFrac <= 127
      BY AlphaAssumption
    <3> QED
      BY <2>2, <3>1
  <2>4. MIN_LOAD(log2) = m \div 256
    BY DEF MIN_LOAD
  <2> HIDE DEF m
  <2>5. MIN_LOAD(log2) \in Int /\ MIN_LOAD(log2) < b
    BY <2>2, <2>3, <2>4
  <2>6. entryCount \in Nat
    BY <1>1, WithoutCounted
  <2>7. entryCount - Cardinality({i}) < JS_BIT[log2 - 1]
    BY <1>1, <1>3, <2>2, <2>5, <2>6 DEF b
  <2>8. /\ log2' = log2 - 1 /\ store' = Rehashed(WithoutEntries({i}), log2 - 1)
        /\ entryCount' = entryCount - 1 /\ removedCount' = 0 /\ generation' = generation + 1
    BY <1>3 DEF RemoveOf
  <2>9. Changed(KeysIn(store) \ {store[j].key : j \in {i}})
    BY <1>1, <2>1, <2>7, <2>8, RemovedAndMoved
  <2>10. generation' \in Nat
    BY <2>8
  <2>11. Changed(KeysIn(store) \ {store[i].key})
    BY ONLY <1>1, <2>9
  <2> QED
    BY <2>10, <2>11
<1> QED
  BY <1>2, <1>3 DEF RemoveOf

\* What the callers keep, when keys have been removed.
LEMMA HeldStep ==
  ASSUME HeldInv, NEW gone, Changed(KeysIn(store) \ gone), generation' \in Nat,
         held' \in [Keys -> [entry : Int, generation : Int]],
         \A k \in Keys : \/ held'[k] = [entry |-> -1, generation |-> -1]
                         \/ held'[k] = held[k] /\ k \notin gone
  PROVE  HeldInv'
<1>1. ASSUME NEW k \in Keys PROVE HeldOK(k)'
  <2>1. CASE held'[k] = [entry |-> -1, generation |-> -1]
    BY <2>1, DroppedOK
  <2>2. CASE held'[k] = held[k] /\ k \notin gone
    <3>1. CASE held[k].entry >= 0
      <4>1. k \in KeysIn(store) \ gone
        BY <2>2, <3>1 DEF HeldInv, HeldOK
      <4> QED
        BY <2>2, <4>1, KeptOK
    <3>2. CASE ~(held[k].entry >= 0)
      BY <2>2, <3>2 DEF HeldOK
    <3> QED
      BY <3>1, <3>2
  <2> QED
    BY <2>1, <2>2
<1> QED
  BY <1>1 DEF HeldInv

LEMMA RemoveStep ==
  ASSUME TableInv, HeldInv, NEW k \in Keys, NEW ok \in BOOLEAN,
         Remove(k, ok) \/ StopResolving(k, ok)
  PROVE  TableInv' /\ HeldInv'
<1> DEFINE dropped == [held EXCEPT ![k] = [entry |-> -1, generation |-> -1]]
<1>1. log2 \in 0..HASH_BITS /\ Sound(store, log2) /\ generation \in Nat /\ HasFree(store)
      /\ DOMAIN store = Places(log2)
  BY SizesFacts, SomeFree DEF TableInv, HeldInv, Proper
<1>2. ASSUME k \in KeysIn(store)
      PROVE  Found(store, log2, k) \in LiveIn(store) /\ store[Found(store, log2, k)].key = k
  <2>1. PICK i \in LiveIn(store) : store[i].key = k
    BY <1>2 DEF KeysIn
  <2> QED
    BY <1>1, <2>1, ReachedIsFound
<1>3. SUFFICES ASSUME held' = dropped
               PROVE  Changed(KeysIn(store) \ {k}) /\ generation' \in Nat
  <2>1. held' = dropped
    BY DEF Remove, StopResolving
  <2>2. Changed(KeysIn(store) \ {k}) /\ generation' \in Nat
    BY <1>3, <2>1
  <2>3. /\ held' \in [Keys -> [entry : Int, generation : Int]]
        /\ held'[k] = [entry |-> -1, generation |-> -1]
        /\ \A h \in Keys \ {k} : held'[h] = held[h]
    BY <2>1 DEF HeldInv
  <2>4. \A h \in Keys : \/ held'[h] = [entry |-> -1, generation |-> -1]
                        \/ held'[h] = held[h] /\ h \notin {k}
    BY <2>3
  <2>5. HeldInv'
    BY ONLY <2>2, <2>3, <2>4, HeldInv, HeldStep
  <2> QED
    BY <2>2, <2>5 DEF Changed
<1>4. CASE Remove(k, ok)
  <2> DEFINE i == Found(store, log2, k)
  <2>1. IsLive(store[i]) /\ RemoveOf(i, ok)
    BY <1>4 DEF Remove
  <2>2. i \in Places(log2) /\ Stops(store, log2, k, Passed(store, log2, k))
    <3>1. Proper(store, log2)
      BY <1>1 DEF Sound
    <3>2. StopsFirst(store, log2, k, Passed(store, log2, k))
      BY <1>1, <3>1, SearchEnds
    <3> QED
      BY <1>1, <3>2, ProbeType, PlacesFacts DEF StopsFirst, Found
  <2>3. ~IsFree(store[i])
    BY <1>1, <2>1, <2>2, EntryKinds DEF Sound, Proper
  <2>4. i \in LiveIn(store) /\ store[i].key = k
    BY <1>1, <2>1, <2>2, <2>3 DEF Stops, Matches, Found, LiveIn
  <2> HIDE DEF i
  <2> QED
    BY <1>1, <2>1, <2>4, RemoveOfOK
<1>5. CASE StopResolving(k, ok)
  <2>1. held[k].entry >= 0
    BY <1>5 DEF StopResolving
  <2>2. /\ k \in KeysIn(store)
        /\ held[k].generation = generation =>
             held[k].entry \in LiveIn(store) /\ store[held[k].entry].key = k
    BY <2>1 DEF HeldInv, HeldOK
  <2>3. EntryOf(k) \in LiveIn(store) /\ store[EntryOf(k)].key = k
    BY <1>2, <2>2 DEF EntryOf
  <2>4. ASSUME NEW i \in LiveIn(store), store[i].key = k, RawRemoveOf(i)
        PROVE  Changed(KeysIn(store) \ {k}) /\ generation' \in Nat
    <3>1. {i} \subseteq LiveIn(store) /\ Cardinality({i}) = 1
      BY FS_Singleton
    <3>2. {store[j].key : j \in {i}} = {k}
      BY <2>4
    <3> QED
      BY <1>1, <2>4, <3>1, <3>2, RawRemoved DEF RawRemoveOf
  <2>5. ASSUME NEW i \in LiveIn(store), store[i].key = k, RemoveOf(i, ok)
        PROVE  Changed(KeysIn(store) \ {k}) /\ generation' \in Nat
    BY <1>1, <2>5, RemoveOfOK
  <2> QED
    BY <1>2, <1>5, <2>2, <2>3, <2>4, <2>5 DEF StopResolving
<1> QED
  BY <1>4, <1>5

\* The size that holds what an enumeration leaves.
LEMMA CeilingFacts ==
  ASSUME NEW n \in Nat, n <= JS_BIT[HASH_BITS]
  PROVE  CEILING_LOG2(n) \in 0..HASH_BITS /\ n <= JS_BIT[CEILING_LOG2(n)]
<1> DEFINE fits == {lg \in 0..HASH_BITS : n <= JS_BIT[lg]}
           Fit(lg) == n <= JS_BIT[lg] /\ \A j \in 0..lg - 1 : JS_BIT[j] < n
<1>1. HASH_BITS \in Nat
  BY SizesAssumption
<1>2. fits \subseteq Nat /\ fits # {}
  BY <1>1
<1>3. PICK m \in fits : \A j \in fits : m <= j
  <2> HIDE DEF fits
  <2> QED
    BY <1>2, Least
<1>4. m \in 0..HASH_BITS /\ n <= JS_BIT[m]
  OBVIOUS
<1>5. ASSUME NEW j \in 0..m - 1 PROVE JS_BIT[j] < n
  <2>1. j \in 0..HASH_BITS /\ ~(m <= j)
    BY <1>1, <1>4
  <2>2. JS_BIT[j] \in Nat /\ ~(n <= JS_BIT[j])
    BY <1>3, <2>1, BitFacts
  <2> QED
    BY <2>2
<1>6. \E lg \in 0..HASH_BITS : Fit(lg)
  BY <1>4, <1>5
<1>7. CEILING_LOG2(n) = CHOOSE lg \in 0..HASH_BITS : Fit(lg)
  BY DEF CEILING_LOG2
<1> QED
  BY <1>6, <1>7

LEMMA EnumerateStep ==
  ASSUME TableInv, HeldInv, NEW ks \in SUBSET Keys, NEW ok \in BOOLEAN, Enumerate(ks, ok)
  PROVE  TableInv' /\ HeldInv'
<1> DEFINE is    == {i \in DOMAIN store : IsLive(store[i]) /\ store[i].key \in ks}
           left  == entryCount - Cardinality(is)
           wants == left + left \div 2
           least == JS_BIT[MIN_LOG2]
           n     == IF wants < least THEN least ELSE wants
           lg    == CEILING_LOG2(n)
           gone  == {store[i].key : i \in is}
<1>1. is \subseteq LiveIn(store) /\ gone \subseteq ks
  BY DEF LiveIn
<1>2. /\ held' = [k \in Keys |-> IF k \in ks THEN [entry |-> -1, generation |-> -1] ELSE held[k]]
      /\ entryCount' = left
      /\ \/ /\ CanChange(lg)
            /\ log2' = lg
            /\ store' = Rehashed(WithoutEntries(is), lg)
            /\ removedCount' = 0
            /\ generation' = generation + 1
         \/ /\ store' = WithoutEntries(is)
            /\ removedCount' = RemovedAfter(is)
            /\ Keep
  BY DEF Enumerate
<1>3. Cardinality(is) \in Nat /\ entryCount \in Nat /\ left \in Nat
  BY <1>1, WithoutCounted
<1>4. generation \in Nat
  BY DEF HeldInv
<1>5. Changed(KeysIn(store) \ gone) /\ generation' \in Nat
  <2>1. CASE /\ CanChange(lg)
             /\ log2' = lg
             /\ store' = Rehashed(WithoutEntries(is), lg)
             /\ removedCount' = 0
             /\ generation' = generation + 1
    <3> DEFINE b == JS_BIT[log2]
    <3>1. /\ log2 \in 0..HASH_BITS /\ log2 + 1 \in 0..HASH_BITS /\ b \in Nat
          /\ JS_BIT[log2 + 1] = 2 * b
          /\ MIN_LOG2 \in MIN_LOG2..LIMIT_LOG2 - 1 /\ MIN_LOG2 \in 0..HASH_BITS
          /\ least \in Nat /\ least >= 4
      BY SizesFacts, SizesAssumption DEF TableInv
    <3>2. entryCount < b
      BY <3>1, SomeFree DEF TableInv, Counted
    <3>3. HASH_BITS \in 0..HASH_BITS /\ HASH_BITS \in Nat /\ JS_BIT[HASH_BITS] \in Nat
      BY SizesAssumption, BitFacts
    <3>4. least <= JS_BIT[HASH_BITS] /\ 2 * b <= JS_BIT[HASH_BITS]
      <4>1. ASSUME NEW j \in 0..HASH_BITS PROVE JS_BIT[j] <= JS_BIT[HASH_BITS]
        <5>1. CASE j = HASH_BITS
          BY <3>3, <5>1
        <5>2. CASE j # HASH_BITS
          <6>1. j < HASH_BITS /\ JS_BIT[j] \in Nat
            BY <3>3, <5>2, BitFacts
          <6> QED
            BY <3>3, <6>1, BitGrows
        <5> QED
          BY <5>1, <5>2
      <4> QED
        BY <3>1, <4>1
    <3> HIDE DEF b, least, left
    <3>5. wants \in Nat /\ wants <= 2 * b /\ left <= entryCount
      <4>1. left <= entryCount
        BY <1>3 DEF left
      <4> QED
        BY <1>3, <3>1, <3>2, <4>1
    <3>6. n \in Nat /\ n <= JS_BIT[HASH_BITS] /\ least <= n /\ wants <= n
      BY <3>1, <3>3, <3>4, <3>5
    <3>7. lg \in 0..HASH_BITS /\ n <= JS_BIT[lg]
      <4> HIDE DEF n
      <4> QED
        BY <3>6, CeilingFacts
    <3> HIDE DEF n, lg
    <3>8. JS_BIT[lg] \in Nat /\ lg \in Int /\ MIN_LOG2 \in Int
      BY <3>7, BitFacts, SizesAssumption
    <3>9. lg >= MIN_LOG2
      <4>1. ASSUME lg < MIN_LOG2 PROVE FALSE
        <5>1. JS_BIT[lg] < least
          BY <3>1, <3>7, <4>1, BitGrows DEF least
        <5> QED
          BY <3>1, <3>6, <3>7, <3>8, <5>1
      <4> QED
        BY <3>8, <4>1
    <3>10. lg \in MIN_LOG2..LIMIT_LOG2 - 1
      BY <2>1, <3>8, <3>9, SizesAssumption DEF CanChange
    <3>11. left < JS_BIT[lg]
      BY <1>3, <3>1, <3>5, <3>6, <3>7, <3>8
    <3> HIDE DEF is
    <3>12. entryCount - Cardinality(is) < JS_BIT[lg] /\ entryCount' = entryCount - Cardinality(is)
      BY <1>2, <3>11 DEF left
    <3>13. Changed(KeysIn(store) \ gone)
      BY <1>1, <2>1, <3>10, <3>12, RemovedAndMoved
    <3> QED
      BY <1>4, <2>1, <3>13
  <2>2. CASE /\ store' = WithoutEntries(is)
             /\ removedCount' = RemovedAfter(is)
             /\ Keep
    <3> HIDE DEF is
    <3>1. Changed(KeysIn(store) \ gone) /\ generation' = generation
      BY <1>1, <1>2, <2>2, RawRemoved
    <3> QED
      BY <1>4, <3>1
  <2> QED
    BY <1>2, <2>1, <2>2
<1> HIDE DEF is, left, lg, gone
<1>6. held' \in [Keys -> [entry : Int, generation : Int]]
  BY <1>2 DEF HeldInv
<1>7. \A k \in Keys : \/ held'[k] = [entry |-> -1, generation |-> -1]
                      \/ held'[k] = held[k] /\ k \notin gone
  BY <1>1, <1>2
<1>8. HeldInv'
  BY <1>5, <1>6, <1>7, HeldStep
<1> QED
  BY <1>5, <1>8 DEF Changed

-----------------------------------------------------------------------------

LEMMA TableInductive == Spec => [](TableInv /\ HeldInv)
<1>1. Init => TableInv /\ HeldInv
  <2> SUFFICES ASSUME Init PROVE TableInv /\ HeldInv
    OBVIOUS
  <2>1. MIN_LOG2 \in MIN_LOG2..LIMIT_LOG2 - 1 /\ MIN_LOG2 \in 0..HASH_BITS
    BY SizesAssumption
  <2>2. JS_BIT[MIN_LOG2] \in Nat /\ JS_BIT[MIN_LOG2] >= 4
    BY <2>1, SizesFacts
  <2>3. Counted(Empty(MIN_LOG2), MIN_LOG2, 0, 0)
    BY <2>1, <2>2, EmptyFacts, FS_EmptySet DEF Counted
  <2>4. TableInv
    BY <2>1, <2>3 DEF Init, TableInv
  <2>5. HeldInv
    BY DEF Init, HeldInv, HeldOK
  <2> QED
    BY <2>4, <2>5
<1>2. ASSUME TableInv, HeldInv, [Next]_vars PROVE TableInv' /\ HeldInv'
  <2>1. CASE UNCHANGED vars
    BY <1>2, <2>1 DEF vars, TableInv, HeldInv, HeldOK
  <2>2. CASE Next
    BY <1>2, <2>2, AddStep, RemoveStep, EnumerateStep DEF Next
  <2> QED
    BY <1>2, <2>1, <2>2
<1> QED
  BY <1>1, <1>2, PTL DEF Spec

\* The counts of live and of removed entries are exact and leave an entry free, so that
\* every search ends, however often the table could not grow and whatever it was shrunk to.
THEOREM TableIsSound == Spec => []TableSound
<1>1. TableInv => TableSound
  <2> SUFFICES ASSUME TableInv PROVE TableSound
    OBVIOUS
  <2>1. /\ log2 \in 0..HASH_BITS /\ HasFree(store) /\ Sound(store, log2)
        /\ entryCount = Cardinality(LiveIn(store)) /\ removedCount = Cardinality(RemovedIn(store))
    BY SizesFacts, SomeFree DEF TableInv, Counted
  <2>2. DOMAIN store = Places(log2) /\ Live = LiveIn(store)
    BY <2>1 DEF Sound, Proper, Live, LiveIn
  <2>3. TypeOK
    BY <2>1, <2>2 DEF TypeOK, TableInv, Places, Sound, Proper
  <2>4. SearchesEnd
    BY <2>1, <2>2, ProbesCover DEF SearchesEnd, HasFree, RemovedIn
  <2> QED
    BY <2>3, <2>4 DEF TableSound
<1> QED
  BY <1>1, TableInductive, PTL

\* Whatever was added, removed and moved, a search for a key that is there ends at its entry:
\* the chain of flagged and removed entries before it is never broken.
THEOREM KeysAreFound == Spec => []FindsEveryKey
<1>1. TableInv => FindsEveryKey
  BY ReachedIsFound, SizesFacts DEF TableInv, Counted, FindsEveryKey, Live, LiveIn
<1> QED
  BY <1>1, TableInductive, PTL

\* js_StopResolving comes back to the entry of its own key: where the generation is the one it
\* kept, nothing has been moved, and otherwise the search finds it.
THEOREM HeldAreFound == Spec => []HeldIsFound
<1>1. TableInv /\ HeldInv => HeldIsFound
  <2> SUFFICES ASSUME TableInv, HeldInv, NEW k \in Keys, held[k].entry >= 0
               PROVE  Matches(store[EntryOf(k)], k)
    BY DEF HeldIsFound
  <2>1. /\ k \in KeysIn(store)
        /\ held[k].generation = generation =>
             held[k].entry \in LiveIn(store) /\ store[held[k].entry].key = k
    BY DEF HeldInv, HeldOK
  <2>2. PICK i \in LiveIn(store) : store[i].key = k
    BY <2>1 DEF KeysIn
  <2>3. Found(store, log2, k) = i
    BY <2>2, ReachedIsFound, SizesFacts DEF TableInv, Counted
  <2>4. EntryOf(k) \in LiveIn(store) /\ store[EntryOf(k)].key = k
    BY <2>1, <2>2, <2>3 DEF EntryOf
  <2> QED
    BY <2>4 DEF Matches, LiveIn
<1> QED
  BY <1>1, TableInductive, PTL
=============================================================================
