--------------------------- MODULE NumbersAndLists ---------------------------
(***************************************************************************)
(* What the proofs of several components rest on.  In place of induction:  *)
(* a claim that fails for some number fails for a least one, and a         *)
(* function may be defined by primitive recursion.  Of lists: what         *)
(* deleting one element and linking another first leave.                   *)
(***************************************************************************)
EXTENDS Integers, Sequences, WellFoundedInduction, TLAPS

\* Every set of numbers has a least one.
LEMMA Least ==
  ASSUME NEW S, S \subseteq Nat, S # {}
  PROVE  \E m \in S : \A n \in S : m <= n
<1> DEFINE R == OpToRel(<, Nat)
<1>1. IsWellFoundedOn(R, Nat)
  BY NatLessThanWellFounded, Zenon
<1>2. PICK m \in S : \A n \in S : ~(<<n, m>> \in R)
  <2> HIDE DEF R
  <2> QED
    BY <1>1, WFMin
<1>3. \A n \in S : ~(n < m)
  BY <1>2 DEF OpToRel
<1> QED
  BY <1>3

\* Every set of numbers up to N has a greatest one.
LEMMA Greatest ==
  ASSUME NEW N \in Int, NEW S, S \subseteq 0..N, S # {}
  PROVE  \E m \in S : \A n \in S : n <= m
<1> DEFINE T == {N - n : n \in S}
<1>1. T \subseteq Nat /\ T # {}
  <2>1. \A n \in S : n \in 0..N /\ N - n \in Nat
    OBVIOUS
  <2> QED
    BY <2>1
<1>2. PICK k \in T : \A n \in T : k <= n
  <2> HIDE DEF T
  <2> QED
    BY <1>1, Least
<1>3. PICK m \in S : k = N - m
  OBVIOUS
<1>4. \A n \in S : N - m <= N - n
  BY <1>2, <1>3
<1> QED
  BY <1>4

\* A set that holds 0 and with each number the next one holds all up to N.
LEMMA UpTo ==
  ASSUME NEW N \in Nat, NEW S, 0 \in S, \A n \in 1..N : n - 1 \in S => n \in S
  PROVE  \A n \in 0..N : n \in S
<1> DEFINE bad == (0..N) \ S
<1>1. SUFFICES ASSUME bad # {} PROVE FALSE
  OBVIOUS
<1>2. PICK m \in bad : \A n \in bad : m <= n
  <2>1. bad \subseteq Nat /\ bad # {}
    BY <1>1
  <2> HIDE DEF bad
  <2> QED
    BY ONLY <2>1, Least, Zenon
<1>3. m \in 1..N /\ m - 1 \in 0..N /\ ~(m <= m - 1)
  BY <1>2
<1>4. m - 1 \in S
  BY <1>2, <1>3
<1> QED
  BY <1>2, <1>3, <1>4

\* The first N values of a function defined by primitive recursion.
IsRecursion(C, N, X, x, F) ==
  /\ C \in [0..N -> X]
  /\ C[0] = x
  /\ \A n \in 1..N : C[n] = F[<<n, C[n - 1]>>]

\* There is such a function.
LEMMA PrimitiveRecursion ==
  ASSUME NEW X, NEW x \in X, NEW F \in [Nat \X X -> X], NEW N \in Nat
  PROVE  \E C : IsRecursion(C, N, X, x, F)
<1> DEFINE bad == {m \in Nat : ~\E C : IsRecursion(C, m, X, x, F)}
<1>1. SUFFICES ASSUME bad # {} PROVE FALSE
  OBVIOUS
<1>2. PICK m \in bad : \A n \in bad : m <= n
  <2>1. bad \subseteq Nat
    OBVIOUS
  <2> HIDE DEF bad
  <2> QED
    BY <1>1, <2>1, Least
<1>3. m # 0
  <2> DEFINE C == [i \in 0..0 |-> x]
  <2>1. C \in [0..0 -> X] /\ C[0] = x /\ 1..0 = {}
    OBVIOUS
  <2>2. IsRecursion(C, 0, X, x, F)
    BY <2>1 DEF IsRecursion
  <2> QED
    BY <2>2
<1>4. m \in Nat /\ m - 1 \in Nat /\ ~(m <= m - 1)
  BY <1>3
<1>5. m - 1 \notin bad
  BY <1>2, <1>4
<1>6. PICK C : IsRecursion(C, m - 1, X, x, F)
  BY <1>4, <1>5
<1> DEFINE D == [i \in 0..m |-> IF i = m THEN F[<<m, C[m - 1]>>] ELSE C[i]]
<1>7. C[m - 1] \in X /\ F[<<m, C[m - 1]>>] \in X
  BY <1>4, <1>6 DEF IsRecursion
<1>8. \A i \in 0..m : i # m => i \in 0..m - 1 /\ C[i] \in X
  BY <1>4, <1>6 DEF IsRecursion
<1>9. D \in [0..m -> X]
  BY <1>7, <1>8
<1>10. D[0] = x
  BY <1>3, <1>4, <1>6 DEF IsRecursion
<1>11. ASSUME NEW n \in 1..m PROVE D[n] = F[<<n, D[n - 1]>>]
  <2>1. n \in Nat /\ n - 1 \in 0..m /\ n \in 0..m /\ n - 1 # m /\ D[n - 1] = C[n - 1]
    BY <1>4
  <2>2. CASE n = m
    BY <2>1, <2>2
  <2>3. CASE n # m
    <3>1. n \in 1..m - 1 /\ D[n] = C[n]
      BY <1>4, <2>1, <2>3
    <3> QED
      BY <1>6, <2>1, <3>1 DEF IsRecursion
  <2> QED
    BY <2>2, <2>3
<1>12. IsRecursion(D, m, X, x, F)
  <2> HIDE DEF D
  <2> QED
    BY <1>9, <1>10, <1>11 DEF IsRecursion
<1> QED
  BY <1>2, <1>12

-----------------------------------------------------------------------------
\* At most one event per descriptor.
Unique(evs) == \A i, j \in DOMAIN evs : evs[i].fd = evs[j].fd => i = j

\* RemoveAt of SequencesExt.
Deleted(s, k) == SubSeq(s, 1, k - 1) \o SubSeq(s, k + 1, Len(s))

\* Taking position k out of a sequence closes the gap and changes nothing else.
LEMMA DeletedFacts ==
  ASSUME NEW S, NEW s \in Seq(S), NEW k \in DOMAIN s
  PROVE  /\ Deleted(s, k) \in Seq(S)
         /\ Len(Deleted(s, k)) = Len(s) - 1
         /\ \A i \in 1 .. Len(s) - 1 :
              Deleted(s, k)[i] = s[IF i < k THEN i ELSE i + 1]
<1> DEFINE a == SubSeq(s, 1, k - 1)
           b == SubSeq(s, k + 1, Len(s))
<1>1. /\ a \in Seq(S) /\ Len(a) = k - 1
      /\ \A i \in 1 .. k - 1 : a[i] = s[i]
  OBVIOUS
<1>2. /\ b \in Seq(S) /\ Len(b) = Len(s) - k
      /\ \A i \in 1 .. Len(s) - k : b[i] = s[k + i]
  OBVIOUS
<1>3. Deleted(s, k) = a \o b
  BY DEF Deleted
<1> HIDE DEF a, b
<1>4. a \o b \in Seq(S) /\ Len(a \o b) = Len(s) - 1
  BY <1>1, <1>2
<1>5. ASSUME NEW i \in 1 .. Len(s) - 1
      PROVE  (a \o b)[i] = s[IF i < k THEN i ELSE i + 1]
  <2>1. CASE i < k
    BY <1>1, <1>2, <2>1
  <2>2. CASE ~(i < k)
    <3>1. (a \o b)[i] = b[i - (k - 1)]
      BY <1>1, <1>2, <2>2
    <3>2. i - (k - 1) \in 1 .. Len(s) - k /\ k + (i - (k - 1)) = i + 1
      BY <2>2
    <3> QED
      BY <1>2, <2>2, <3>1, <3>2
  <2> QED
    BY <2>1, <2>2
<1> QED
  BY <1>3, <1>4, <1>5

\* r holds the events of evs but one of f: if it was the only one, none is left.
HasDropped(E, evs, f, r) ==
  /\ r \in Seq(E)
  /\ \A i \in DOMAIN r : \E j \in DOMAIN evs : r[i] = evs[j]
  /\ Unique(evs) => Unique(r) /\ \A i \in DOMAIN r : r[i].fd # f
  /\ \A j \in DOMAIN evs : evs[j].fd # f => \E i \in DOMAIN r : r[i] = evs[j]

\* r holds the event ev and, besides those of its descriptor, the events of evs.
HasAdded(E, evs, ev, r) ==
  /\ r \in Seq(E)
  /\ \A i \in DOMAIN r : r[i] = ev \/ \E j \in DOMAIN evs : r[i] = evs[j]
  /\ Unique(evs) =>
       /\ Unique(r)
       /\ \A i \in DOMAIN r : r[i].fd = ev.fd => r[i] = ev
  /\ \E i \in DOMAIN r : r[i] = ev
  /\ \A j \in DOMAIN evs : evs[j].fd # ev.fd => \E i \in DOMAIN r : r[i] = evs[j]

\* Deleting one event drops it.
LEMMA DeletedList ==
  ASSUME NEW E, NEW evs \in Seq(E), NEW k \in DOMAIN evs, NEW f, evs[k].fd = f
  PROVE  HasDropped(E, evs, f, Deleted(evs, k))
<1> DEFINE r == Deleted(evs, k)
<1>1. evs[k].fd = f
  OBVIOUS
<1>2. /\ r \in Seq(E) /\ Len(r) = Len(evs) - 1
      /\ \A i \in 1 .. Len(evs) - 1 : r[i] = evs[IF i < k THEN i ELSE i + 1]
  BY DeletedFacts
<1>3. DOMAIN evs = 1 .. Len(evs) /\ DOMAIN r = 1 .. Len(evs) - 1 /\ Len(evs) \in Nat
  BY <1>2
<1> HIDE DEF r
<1>4. \A i \in DOMAIN r : \E j \in DOMAIN evs : j # k /\ r[i] = evs[j]
  BY <1>2, <1>3
<1>5. ASSUME Unique(evs), NEW i \in DOMAIN r, NEW j \in DOMAIN r, r[i].fd = r[j].fd
      PROVE  i = j
  <2> DEFINE m(n) == IF n < k THEN n ELSE n + 1
  <2>1. m(i) \in DOMAIN evs /\ m(j) \in DOMAIN evs /\ r[i] = evs[m(i)] /\ r[j] = evs[m(j)]
    BY <1>2, <1>3
  <2>2. m(i) = m(j)
    BY <1>5, <2>1 DEF Unique
  <2> QED
    BY <1>3, <2>2
<1>6. Unique(evs) => Unique(r)
  BY <1>5 DEF Unique
<1>7. Unique(evs) => \A i \in DOMAIN r : r[i].fd # f
  BY <1>1, <1>4 DEF Unique
<1>8. ASSUME NEW j \in DOMAIN evs, evs[j].fd # f
      PROVE  \E i \in DOMAIN r : r[i] = evs[j]
  <2>1. CASE j < k
    BY <1>1, <1>2, <1>3, <2>1
  <2>2. CASE j > k
    <3>1. j - 1 \in 1 .. Len(evs) - 1 /\ ~(j - 1 < k) /\ (j - 1) + 1 = j
      BY <1>3, <2>2
    <3>2. j - 1 \in DOMAIN r /\ r[j - 1] = evs[j]
      BY <1>2, <1>3, <3>1
    <3> QED
      BY <3>2
  <2> QED
    BY <1>1, <1>3, <1>8, <2>1, <2>2
<1> QED
  BY <1>2, <1>4, <1>6, <1>7, <1>8 DEF r, HasDropped

\* Dropping the events of its descriptor and linking an event first adds it.
LEMMA PrependedList ==
  ASSUME NEW E, NEW evs \in Seq(E), NEW ev \in E, NEW q, HasDropped(E, evs, ev.fd, q)
  PROVE  HasAdded(E, evs, ev, <<ev>> \o q)
<1> DEFINE r == <<ev>> \o q
<1>1. /\ q \in Seq(E)
      /\ \A i \in DOMAIN q : \E j \in DOMAIN evs : q[i] = evs[j]
      /\ Unique(evs) => Unique(q) /\ \A i \in DOMAIN q : q[i].fd # ev.fd
      /\ \A j \in DOMAIN evs : evs[j].fd # ev.fd => \E i \in DOMAIN q : q[i] = evs[j]
  BY DEF HasDropped
<1>2. /\ r \in Seq(E) /\ Len(r) = Len(q) + 1 /\ Len(q) \in Nat
      /\ r[1] = ev
      /\ \A i \in 2 .. Len(q) + 1 : r[i] = q[i - 1]
  BY <1>1
<1> HIDE DEF r
<1>3. DOMAIN r = 1 .. Len(q) + 1 /\ DOMAIN q = 1 .. Len(q)
  BY <1>1, <1>2
<1>4. \A i \in DOMAIN r : i = 1 \/ (i - 1 \in DOMAIN q /\ r[i] = q[i - 1])
  BY <1>2, <1>3
<1>5. \A i \in DOMAIN q : i + 1 \in DOMAIN r /\ r[i + 1] = q[i]
  BY <1>2, <1>3
<1>6. ASSUME Unique(evs), NEW i \in DOMAIN r, NEW j \in DOMAIN r, r[i].fd = r[j].fd
      PROVE  i = j
  <2>1. Unique(q) /\ \A n \in DOMAIN q : q[n].fd # ev.fd
    BY <1>1, <1>6
  <2>2. CASE i = 1 /\ j = 1
    BY <2>2
  <2>3. CASE i = 1 /\ j # 1
    BY <1>2, <1>4, <1>6, <2>1, <2>3
  <2>4. CASE i # 1 /\ j = 1
    BY <1>2, <1>4, <1>6, <2>1, <2>4
  <2>5. CASE i # 1 /\ j # 1
    <3>1. i - 1 \in DOMAIN q /\ j - 1 \in DOMAIN q /\ q[i - 1].fd = q[j - 1].fd
      BY <1>4, <1>6, <2>5
    <3>2. i - 1 = j - 1
      BY <2>1, <3>1 DEF Unique
    <3> QED
      BY <1>2, <1>3, <3>2
  <2> QED
    BY <2>2, <2>3, <2>4, <2>5
<1>7. Unique(evs) => Unique(r)
  BY <1>6 DEF Unique
<1>8. Unique(evs) => \A i \in DOMAIN r : r[i].fd = ev.fd => r[i] = ev
  BY <1>1, <1>2, <1>4
<1>9. 1 \in DOMAIN r
  BY <1>2, <1>3
<1>10. \A i \in DOMAIN r : r[i] = ev \/ \E j \in DOMAIN evs : r[i] = evs[j]
  BY <1>1, <1>2, <1>4
<1>11. \A j \in DOMAIN evs :
         evs[j].fd # ev.fd => \E i \in DOMAIN r : r[i] = evs[j]
  BY <1>1, <1>5
<1>12. \E i \in DOMAIN r : r[i] = ev
  BY <1>2, <1>9
<1> QED
  BY <1>2, <1>7, <1>8, <1>10, <1>11, <1>12 DEF r, HasAdded
=============================================================================
