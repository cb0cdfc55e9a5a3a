-------------------------- MODULE JSStringsProofs ---------------------------
(***************************************************************************)
(* What dependent strings keep, for any strings, buffers and widths of the *)
(* two fields that share a word.                                           *)
(***************************************************************************)
EXTENDS JSStrings, FiniteSetTheorems, SequenceTheorems, NumbersAndLists, TLAPS

-----------------------------------------------------------------------------
(* The words of a string.                                                  *)

Words == [dependent : BOOLEAN, prefix : BOOLEAN, length : Nat,
          ptr : Strings \cup Buffers \cup {Nobody}]

\* Both fields are numbers; the length that shares its word is a short one, and a
\* prefix starts at 0.
LEMMA FieldFacts ==
  ASSUME NEW x \in Words
  PROVE  /\ LENGTH(x) \in Nat /\ START(x) \in Nat
         /\ x.dependent /\ ~x.prefix => LENGTH(x) < 2^LENGTH_BITS
         /\ x.prefix => START(x) = 0
         /\ ~x.dependent => LENGTH(x) = x.length
<1> DEFINE K == 2^LENGTH_BITS
           S == 2^START_BITS
<1>1. K \in Nat \ {0} /\ S \in Nat \ {0}
  BY BitsAssumption
<1>2. x.length \in Nat
  BY DEF Words
<1> HIDE DEF K, S
<1>3. x.length % K \in 0..K - 1 /\ x.length \div K \in Nat
  BY <1>1, <1>2
<1>4. (x.length \div K) % S \in 0..S - 1
  BY <1>1, <1>3
<1>5. /\ LENGTH(x) = IF x.dependent /\ ~x.prefix THEN x.length % K ELSE x.length
      /\ START(x) = IF x.prefix THEN 0 ELSE (x.length \div K) % S
  BY DEF LENGTH, START, K, S
<1>6. /\ LENGTH(x) \in Nat /\ START(x) \in Nat
      /\ x.dependent /\ ~x.prefix => LENGTH(x) < K
      /\ x.prefix => START(x) = 0
      /\ ~x.dependent => LENGTH(x) = x.length
  BY <1>1, <1>2, <1>3, <1>4, <1>5
<1> QED
  BY <1>6 DEF K

\* The words are read as they were written, if both fields have room.
LEMMA WrittenFacts ==
  ASSUME NEW n \in Nat, NEW b \in Strings \cup Buffers \cup {Nobody}
  PROVE  /\ Flat(n, b) \in Words /\ ~Flat(n, b).dependent /\ Flat(n, b).ptr = b
         /\ LENGTH(Flat(n, b)) = n
         /\ Prefix(n, b) \in Words /\ Prefix(n, b).dependent /\ Prefix(n, b).ptr = b
         /\ LENGTH(Prefix(n, b)) = n /\ START(Prefix(n, b)) = 0
         /\ \A start \in Nat : start < 2^START_BITS /\ n < 2^LENGTH_BITS =>
              /\ Sub(start, n, b) \in Words /\ Sub(start, n, b).dependent
              /\ Sub(start, n, b).ptr = b
              /\ LENGTH(Sub(start, n, b)) = n /\ START(Sub(start, n, b)) = start
<1>1. /\ Flat(n, b) \in Words /\ ~Flat(n, b).dependent /\ Flat(n, b).ptr = b
      /\ LENGTH(Flat(n, b)) = n
  BY DEF Flat, Words, LENGTH
<1>2. /\ Prefix(n, b) \in Words /\ Prefix(n, b).dependent /\ Prefix(n, b).ptr = b
      /\ LENGTH(Prefix(n, b)) = n /\ START(Prefix(n, b)) = 0
  BY DEF Prefix, Words, LENGTH, START
<1>3. ASSUME NEW start \in Nat, start < 2^START_BITS, n < 2^LENGTH_BITS
      PROVE  /\ Sub(start, n, b) \in Words /\ Sub(start, n, b).dependent
             /\ Sub(start, n, b).ptr = b
             /\ LENGTH(Sub(start, n, b)) = n /\ START(Sub(start, n, b)) = start
  <2> DEFINE K == 2^LENGTH_BITS
             S == 2^START_BITS
             word == start * K + n
  <2>1. K \in Nat \ {0} /\ S \in Nat \ {0} /\ start < S /\ n < K
    BY <1>3, BitsAssumption
  <2>2. /\ Sub(start, n, b) = [dependent |-> TRUE, prefix |-> FALSE, length |-> word, ptr |-> b]
        /\ LENGTH(Sub(start, n, b)) = word % K
        /\ START(Sub(start, n, b)) = (word \div K) % S
    BY DEF Sub, LENGTH, START
  <2> HIDE DEF K, S
  <2>3. start * K \in Nat
    BY <2>1
  <2>4. word \in Nat /\ word % K = n /\ word \div K = start
    BY <2>1, <2>3
  <2>5. start % S = start
    BY <2>1
  <2> HIDE DEF word
  <2>6. Sub(start, n, b) \in Words
    BY <2>2, <2>4 DEF Words
  <2> QED
    BY <2>2, <2>4, <2>5, <2>6
<1> QED
  BY <1>1, <1>2, <1>3

-----------------------------------------------------------------------------
(* Parts of sequences.                                                     *)

\* The part of w of length n that follows its first a elements.
Portion(w, a, n) == SubSeq(w, a + 1, a + n)

\* What a part is made of.
LEMMA PortionFacts ==
  ASSUME NEW w \in Seq(Nat), NEW a \in Nat, NEW n \in Nat, a + n <= Len(w)
  PROVE  /\ Portion(w, a, n) \in Seq(Nat)
         /\ Len(Portion(w, a, n)) = n
         /\ \A i \in 1..n : Portion(w, a, n)[i] = w[a + i]
<1>1. \A i \in a + 1..a + n : w[i] \in Nat
  <2>1. \A i \in 1..Len(w) : w[i] \in Nat
    OBVIOUS
  <2> QED
    BY <2>1
<1>2. a + 1 \in Int /\ a + n \in Int
  OBVIOUS
<1>3. /\ SubSeq(w, a + 1, a + n) \in Seq(Nat)
      /\ Len(SubSeq(w, a + 1, a + n)) = IF a + 1 <= a + n THEN a + n - (a + 1) + 1 ELSE 0
      /\ \A i \in 1..a + n - (a + 1) + 1 : SubSeq(w, a + 1, a + n)[i] = w[a + 1 + i - 1]
  BY <1>1, <1>2, SubSeqProperties
<1>4. a + n - (a + 1) + 1 = n /\ (a + 1 <= a + n <=> n # 0)
  OBVIOUS
<1>5. \A i \in 1..n : a + 1 + i - 1 = a + i
  OBVIOUS
<1> QED
  BY <1>3, <1>4, <1>5 DEF Portion

\* Sequences with the same elements are the same.
LEMMA SameElements ==
  ASSUME NEW v \in Seq(Nat), NEW w \in Seq(Nat), Len(v) = Len(w),
         \A i \in 1..Len(v) : v[i] = w[i]
  PROVE  v = w
OBVIOUS

\* A part of a part.
LEMMA PartOfPart ==
  ASSUME NEW w \in Seq(Nat), NEW a \in Nat, NEW m \in Nat, a + m <= Len(w),
         NEW b \in Nat, NEW n \in Nat, b + n <= m
  PROVE  Portion(Portion(w, a, m), b, n) = Portion(w, b + a, n)
<1> DEFINE v == Portion(w, a, m)
<1>1. v \in Seq(Nat) /\ Len(v) = m /\ \A i \in 1..m : v[i] = w[a + i]
  BY PortionFacts
<1>2. b + a \in Nat /\ b + a + n <= Len(w)
  OBVIOUS
<1> HIDE DEF v
<1>3. /\ Portion(v, b, n) \in Seq(Nat) /\ Len(Portion(v, b, n)) = n
      /\ \A i \in 1..n : Portion(v, b, n)[i] = v[b + i]
  BY <1>1, PortionFacts
<1>4. /\ Portion(w, b + a, n) \in Seq(Nat) /\ Len(Portion(w, b + a, n)) = n
      /\ \A i \in 1..n : Portion(w, b + a, n)[i] = w[b + a + i]
  BY <1>2, PortionFacts
<1>5. \A i \in 1..n : b + i \in 1..m /\ a + (b + i) = b + a + i
  OBVIOUS
<1>6. \A i \in 1..n : Portion(v, b, n)[i] = Portion(w, b + a, n)[i]
  BY <1>1, <1>3, <1>4, <1>5
<1>7. Portion(v, b, n) = Portion(w, b + a, n)
  BY <1>3, <1>4, <1>6, SameElements
<1> QED
  BY <1>7 DEF v

\* The whole; the first of two sequences; what precedes a last element.
LEMMA WholePortions ==
  ASSUME NEW v \in Seq(Nat)
  PROVE  /\ Portion(v, 0, Len(v)) = v
         /\ \A w \in Seq(Nat) : /\ v \o w \in Seq(Nat) /\ Len(v \o w) = Len(v) + Len(w)
                                /\ Portion(v \o w, 0, Len(v)) = v
         /\ /\ Terminated(v) \in Seq(Nat) /\ Len(Terminated(v)) = Len(v) + 1
            /\ Portion(Terminated(v), 0, Len(v)) = v
<1>1. ASSUME NEW w \in Seq(Nat), Len(v) <= Len(w), \A i \in 1..Len(v) : w[i] = v[i]
      PROVE  Portion(w, 0, Len(v)) = v
  <2>1. /\ Portion(w, 0, Len(v)) \in Seq(Nat) /\ Len(Portion(w, 0, Len(v))) = Len(v)
        /\ \A i \in 1..Len(v) : Portion(w, 0, Len(v))[i] = w[0 + i]
    BY <1>1, PortionFacts
  <2>2. \A i \in 1..Len(v) : 0 + i = i
    OBVIOUS
  <2> QED
    BY <1>1, <2>1, <2>2, SameElements
<1>2. Portion(v, 0, Len(v)) = v
  BY <1>1
<1>3. ASSUME NEW w \in Seq(Nat)
      PROVE  /\ v \o w \in Seq(Nat) /\ Len(v \o w) = Len(v) + Len(w)
             /\ Portion(v \o w, 0, Len(v)) = v
  <2>1. v \o w \in Seq(Nat) /\ Len(v \o w) = Len(v) + Len(w)
    OBVIOUS
  <2>2. \A i \in 1..Len(v) : (v \o w)[i] = v[i]
    OBVIOUS
  <2>3. Len(v) <= Len(v \o w)
    BY <2>1
  <2>4. Portion(v \o w, 0, Len(v)) = v
    BY <1>1, <2>1, <2>2, <2>3
  <2> QED
    BY <2>1, <2>4
<1>4. /\ Terminated(v) \in Seq(Nat) /\ Len(Terminated(v)) = Len(v) + 1
      /\ \A i \in 1..Len(v) : Terminated(v)[i] = v[i]
  BY DEF Terminated
<1>5. Portion(Terminated(v), 0, Len(v)) = v
  BY <1>1, <1>4
<1> QED
  BY <1>2, <1>3, <1>4, <1>5
-----------------------------------------------------------------------------
(* Chains.                                                                 *)

\* A dependent string is a part of its base, and shorter.
DependsOnBase(T, L, V, s) ==
  LET t == T[s].ptr IN
  /\ t \in L
  /\ LENGTH(T[s]) < LENGTH(T[t])
  /\ START(T[s]) + LENGTH(T[s]) <= LENGTH(T[t])
  /\ V[s] = Portion(V[t], START(T[s]), LENGTH(T[s]))

\* A flat string is what its buffer begins with.
HasBuffer(T, V, M, s) ==
  LET b == T[s].ptr IN
  /\ b \in Buffers
  /\ LENGTH(T[s]) < Len(M[b])
  /\ V[s] = Portion(M[b], 0, LENGTH(T[s]))

\* Table T gives each of the strings L the value it has in V, with the memory M.
Sound(T, L, V, M) ==
  /\ T \in [Strings -> Words] /\ L \subseteq Strings
  /\ V \in [Strings -> Seq(Nat)] /\ M \in [Buffers -> Seq(Nat)]
  /\ \A s \in L :
       /\ Len(V[s]) = LENGTH(T[s])
       /\ IF T[s].dependent THEN DependsOnBase(T, L, V, s) ELSE HasBuffer(T, V, M, s)

\* Each of the strings c, the first of which is s, is the base of the one before.
IsPath(T, L, c, s) ==
  /\ c \in Seq(L) /\ Len(c) >= 1 /\ c[1] = s
  /\ \A i \in 1..Len(c) - 1 : T[c[i]].dependent /\ c[i + 1] = T[c[i]].ptr

\* Along a path the strings get longer.
LEMMA PathGrows ==
  ASSUME NEW T, NEW L, NEW V, NEW M, Sound(T, L, V, M), NEW s, NEW c, IsPath(T, L, c, s),
         NEW i \in 1..Len(c), NEW j \in 1..Len(c), i < j
  PROVE  LENGTH(T[c[i]]) < LENGTH(T[c[j]])
<1> DEFINE len == [k \in 1..Len(c) |-> LENGTH(T[c[k]])]
           bad == {k \in 1..Len(c) : i < k /\ ~(len[i] < len[k])}
<1>1. Len(c) \in Nat /\ \A k \in 1..Len(c) : c[k] \in L
  BY DEF IsPath
<1>2. \A k \in 1..Len(c) : len[k] \in Nat
  BY <1>1, FieldFacts DEF Sound
<1>3. \A k \in 1..Len(c) - 1 : k \in 1..Len(c) /\ k + 1 \in 1..Len(c)
  BY <1>1
<1>4. \A k \in 1..Len(c) - 1 : len[k] < len[k + 1]
  <2> TAKE k \in 1..Len(c) - 1
  <2>1. T[c[k]].dependent /\ c[k + 1] = T[c[k]].ptr /\ c[k] \in L
    BY <1>1, <1>3 DEF IsPath
  <2>2. LENGTH(T[c[k]]) < LENGTH(T[c[k + 1]])
    BY <2>1 DEF Sound, DependsOnBase
  <2> QED
    BY <1>3, <2>2
<1>5. bad \subseteq Nat
  OBVIOUS
<1>6. ASSUME bad # {} PROVE FALSE
  <2>1. PICK k \in bad : \A m \in bad : k <= m
    <3> HIDE DEF bad
    <3> QED
      BY <1>5, <1>6, Least
  <2>2. k \in 1..Len(c) /\ i < k /\ ~(len[i] < len[k])
    OBVIOUS
  <2> HIDE DEF len
  <2>3. k - 1 \in 1..Len(c) - 1 /\ k - 1 \in 1..Len(c) /\ (k - 1) + 1 = k /\ ~(k <= k - 1)
    BY <1>1, <2>2
  <2>4. len[k - 1] < len[k]
    BY <1>4, <2>3
  <2>5. k - 1 \notin bad
    BY <2>1, <2>3
  <2>6. ~(i < k - 1) \/ len[i] < len[k - 1]
    BY <2>3, <2>5
  <2>7. i = k - 1 \/ len[i] < len[k - 1]
    BY <2>2, <2>3, <2>6
  <2> QED
    BY <1>2, <2>2, <2>3, <2>4, <2>7
<1>7. len[i] < len[j]
  BY <1>6
<1> QED
  BY <1>7

\* What Chain counts up to.
Links(T, s) ==
  CHOOSE C : C = [n \in 0..Cardinality(Strings) |->
    IF n = 0 THEN <<s>>
    ELSE LET c == C[n - 1] IN IF T[Last(c)].dependent THEN Append(c, T[Last(c)].ptr) ELSE c]

\* One more string, unless the last one is flat.
Hop(T, c) == IF T[Last(c)].dependent THEN Append(c, T[Last(c)].ptr) ELSE c

\* A path that goes on is a path.
LEMMA HopKeeps ==
  ASSUME NEW T, NEW L, NEW V, NEW M, Sound(T, L, V, M), NEW s, NEW c, IsPath(T, L, c, s)
  PROVE  /\ IsPath(T, L, Hop(T, c), s)
         /\ IF T[Last(c)].dependent THEN Len(Hop(T, c)) = Len(c) + 1 ELSE Hop(T, c) = c
<1> DEFINE t == T[Last(c)].ptr
           d == Append(c, t)
<1>1. c \in Seq(L) /\ Len(c) \in Nat /\ Len(c) >= 1 /\ Last(c) = c[Len(c)] /\ c[Len(c)] \in L
  BY DEF IsPath, Last
<1>2. CASE ~T[Last(c)].dependent
  BY <1>2 DEF Hop
<1>3. CASE T[Last(c)].dependent
  <2>1. t \in L
    BY <1>1, <1>3 DEF Sound, DependsOnBase
  <2> HIDE DEF t
  <2>2. /\ d \in Seq(L) /\ Len(d) = Len(c) + 1
        /\ (\A i \in 1..Len(c) : d[i] = c[i]) /\ d[Len(c) + 1] = t
    BY <1>1, <2>1
  <2>3. d[1] = s
    BY <1>1, <2>2 DEF IsPath
  <2>4. ASSUME NEW i \in 1..Len(d) - 1 PROVE T[d[i]].dependent /\ d[i + 1] = T[d[i]].ptr
    <3>1. i \in 1..Len(c) /\ d[i] = c[i]
      BY <1>1, <2>2
    <3>2. CASE i = Len(c)
      BY <1>1, <1>3, <2>2, <3>1, <3>2 DEF t
    <3>3. CASE i # Len(c)
      <4>1. i \in 1..Len(c) - 1 /\ i + 1 \in 1..Len(c)
        BY <1>1, <3>1, <3>3
      <4> QED
        BY <2>2, <3>1, <4>1 DEF IsPath
    <3> QED
      BY <3>2, <3>3
  <2>5. Hop(T, c) = d
    BY <1>3 DEF Hop, t
  <2> HIDE DEF d
  <2>6. Len(d) >= 1
    BY <1>1, <2>2
  <2>7. IsPath(T, L, d, s)
    BY <2>2, <2>3, <2>4, <2>6 DEF IsPath
  <2> QED
    BY <1>3, <2>2, <2>5, <2>7
<1> QED
  BY <1>2, <1>3

\* The recursion that Chain is defined by has a solution, and it is one of paths.
LEMMA LinksFacts ==
  ASSUME NEW T, NEW L, NEW V, NEW M, Sound(T, L, V, M), NEW s \in L
  PROVE  /\ Links(T, s)[0] = <<s>>
         /\ \A n \in 1..Cardinality(Strings) : Links(T, s)[n] = Hop(T, Links(T, s)[n - 1])
         /\ \A n \in 0..Cardinality(Strings) : IsPath(T, L, Links(T, s)[n], s)
<1> DEFINE N == Cardinality(Strings)
           X == {c \in Seq(L) : IsPath(T, L, c, s)}
           F == [p \in Nat \X X |-> Hop(T, p[2])]
<1>1. N \in Nat
  BY StringsAssumption, FS_CardinalityType
<1>2. <<s>> \in X
  BY DEF IsPath
<1>3. \A c \in X : Hop(T, c) \in X
  <2> TAKE c \in X
  <2>1. IsPath(T, L, Hop(T, c), s)
    BY HopKeeps
  <2> QED
    BY <2>1 DEF IsPath
<1>4. F \in [Nat \X X -> X]
  BY <1>3
<1>5. \A n \in Nat, c \in X : F[<<n, c>>] = Hop(T, c)
  OBVIOUS
<1> HIDE DEF N, X, F
<1>6. PICK C : IsRecursion(C, N, X, <<s>>, F)
  BY <1>1, <1>2, <1>4, PrimitiveRecursion
<1>7. /\ C \in [0..N -> X] /\ C[0] = <<s>>
      /\ \A n \in 1..N : C[n] = Hop(T, C[n - 1])
  <2>1. C \in [0..N -> X] /\ C[0] = <<s>> /\ \A n \in 1..N : C[n] = F[<<n, C[n - 1]>>]
    BY <1>6 DEF IsRecursion
  <2>2. \A n \in 1..N : n \in Nat /\ n - 1 \in 0..N
    BY <1>1
  <2>3. \A n \in 1..N : C[n - 1] \in X
    BY <2>1, <2>2
  <2> QED
    BY <1>5, <2>1, <2>2, <2>3
<1> DEFINE Solves(D) ==
      D = [n \in 0..N |->
        IF n = 0 THEN <<s>>
        ELSE LET c == D[n - 1] IN IF T[Last(c)].dependent THEN Append(c, T[Last(c)].ptr) ELSE c]
<1>8. Solves(C)
  <2>1. \A n \in 0..N : n # 0 => n \in 1..N
    BY <1>1
  <2>2. \A n \in 0..N : C[n] =
          IF n = 0 THEN <<s>>
          ELSE LET c == C[n - 1] IN IF T[Last(c)].dependent THEN Append(c, T[Last(c)].ptr) ELSE c
    BY <1>7, <2>1 DEF Hop
  <2> QED
    BY <1>7, <2>2
<1>9. Links(T, s) = CHOOSE D : Solves(D)
  BY DEF Links, N
<1> DEFINE K == Links(T, s)
<1>10. Solves(K)
  <2> HIDE DEF Solves
  <2> QED
    BY <1>8, <1>9
<1> HIDE DEF K
<1>11. K[0] = <<s>> /\ \A n \in 1..N : K[n] = Hop(T, K[n - 1])
  <2>1. 0 \in 0..N /\ \A n \in 1..N : n \in 0..N /\ n # 0
    BY <1>1
  <2> QED
    BY <1>10, <2>1 DEF Hop
<1> DEFINE bad == {n \in 0..N : K[n] # C[n]}
<1>12. bad = {}
  <2>1. SUFFICES ASSUME bad # {} PROVE FALSE
    OBVIOUS
  <2>2. bad \subseteq Nat
    OBVIOUS
  <2>3. PICK m \in bad : \A n \in bad : m <= n
    <3> HIDE DEF bad
    <3> QED
      BY <2>1, <2>2, Least
  <2>4. m # 0
    BY <1>7, <1>11
  <2>5. m \in 1..N /\ m - 1 \in 0..N /\ ~(m <= m - 1)
    BY <1>1, <2>3, <2>4
  <2>6. K[m - 1] = C[m - 1]
    BY <2>3, <2>5
  <2> QED
    BY <1>7, <1>11, <2>3, <2>5, <2>6
<1>13. \A n \in 0..N : IsPath(T, L, K[n], s)
  BY <1>7, <1>12 DEF X
<1> QED
  BY <1>11, <1>13 DEF K, N
\* A chain goes from the string to a flat one.
LEMMA ChainFacts ==
  ASSUME NEW T, NEW L, NEW V, NEW M, Sound(T, L, V, M), NEW s \in L
  PROVE  /\ IsPath(T, L, Chain(T, s), s)
         /\ ~T[Last(Chain(T, s))].dependent
<1> DEFINE N == Cardinality(Strings)
           K == Links(T, s)
           c == K[N]
           bad == {n \in 0..N : T[Last(K[n])].dependent /\ Len(K[n]) # n + 1}
<1>1. N \in Nat
  BY StringsAssumption, FS_CardinalityType
<1>2. /\ K[0] = <<s>>
      /\ \A n \in 1..N : K[n] = Hop(T, K[n - 1])
      /\ \A n \in 0..N : IsPath(T, L, K[n], s)
  BY LinksFacts
<1>3. Chain(T, s) = c
  BY DEF Chain, Links
<1> HIDE DEF N, K
<1>4. bad = {}
  <2>1. SUFFICES ASSUME bad # {} PROVE FALSE
    OBVIOUS
  <2>2. bad \subseteq Nat
    OBVIOUS
  <2>3. PICK m \in bad : \A n \in bad : m <= n
    <3> HIDE DEF bad
    <3> QED
      BY <2>1, <2>2, Least
  <2>4. m # 0
    <3>1. Len(<<s>>) = 0 + 1
      OBVIOUS
    <3> QED
      BY <1>2, <3>1
  <2>5. m \in 1..N /\ m - 1 \in 0..N /\ ~(m <= m - 1) /\ (m - 1) + 1 = m
    BY <1>1, <2>3, <2>4
  <2>6. T[Last(K[m - 1])].dependent => Len(K[m - 1]) = m
    BY <2>3, <2>5
  <2>7. K[m] = Hop(T, K[m - 1]) /\ IsPath(T, L, K[m - 1], s)
    BY <1>2, <2>5
  <2>8. IF T[Last(K[m - 1])].dependent THEN Len(K[m]) = Len(K[m - 1]) + 1 ELSE K[m] = K[m - 1]
    BY <2>7, HopKeeps
  <2> QED
    BY <2>3, <2>6, <2>8
<1>5. IsPath(T, L, c, s)
  BY <1>1, <1>2
<1>6. ASSUME T[Last(c)].dependent PROVE FALSE
  <2>1. Len(c) = N + 1
    BY <1>1, <1>4, <1>6
  <2>2. \A i \in 1..N + 1 : c[i] \in Strings
    BY <1>5, <2>1 DEF IsPath, Sound
  <2> DEFINE f == [i \in 1..N + 1 |-> c[i]]
  <2>3. f \in [1..N + 1 -> Strings]
    BY <2>2
  <2>4. IsFiniteSet(1..N + 1) /\ Cardinality(1..N + 1) = N + 1
    <3>1. 1 \in Int /\ N + 1 \in Int /\ ~(1 > N + 1) /\ N + 1 - 1 + 1 = N + 1
      BY <1>1
    <3> QED
      BY <3>1, FS_Interval
  <2>5. Cardinality(Strings) < Cardinality(1..N + 1)
    BY <1>1, <2>4 DEF N
  <2> HIDE DEF f
  <2>6. PICK i, j \in 1..N + 1 : i # j /\ f[i] = f[j]
    BY <2>3, <2>4, <2>5, StringsAssumption, FS_PigeonHole
  <2>7. c[i] = c[j]
    BY <2>6 DEF f
  <2>8. c[i] \in L
    BY <1>5, <2>1, <2>6 DEF IsPath
  <2>9. LENGTH(T[c[i]]) \in Nat
    BY <2>8, FieldFacts DEF Sound
  <2>10. CASE i < j
    <3>1. LENGTH(T[c[i]]) < LENGTH(T[c[j]])
      BY <1>5, <2>1, <2>6, <2>10, PathGrows
    <3> QED
      BY <2>7, <2>9, <3>1
  <2>11. CASE j < i
    <3>1. LENGTH(T[c[j]]) < LENGTH(T[c[i]])
      BY <1>5, <2>1, <2>6, <2>11, PathGrows
    <3> QED
      BY <2>7, <2>9, <3>1
  <2> QED
    BY <1>1, <2>6, <2>10, <2>11
<1> QED
  BY <1>3, <1>5, <1>6

\* Where each string of a path starts is a sum that comes to an end.
LEMMA OffsetsFacts ==
  ASSUME NEW T, NEW L, NEW V, NEW M, Sound(T, L, V, M), NEW s, NEW c, IsPath(T, L, c, s)
  PROVE  /\ \A i \in 1..Len(c) : Offsets(T, c)[i] \in Nat
         /\ Offsets(T, c)[Len(c)] = 0
         /\ \A i \in 1..Len(c) - 1 :
              Offsets(T, c)[i] = START(T[c[i]]) + Offsets(T, c)[i + 1]
<1> DEFINE n == Len(c)
           F == [p \in Nat \X Nat |->
                   IF p[1] \in 1..n - 1 THEN START(T[c[n - p[1]]]) + p[2] ELSE 0]
<1>1. n \in Nat /\ n >= 1 /\ DOMAIN c = 1..n
  BY DEF IsPath
<1>2. \A i \in 1..n : START(T[c[i]]) \in Nat
  <2>1. \A i \in 1..n : c[i] \in L
    BY DEF IsPath
  <2> QED
    BY <2>1, FieldFacts DEF Sound
<1>3. F \in [Nat \X Nat -> Nat]
  <2>1. \A k \in 1..n - 1 : n - k \in 1..n
    BY <1>1
  <2> QED
    BY <1>2, <2>1
<1>4. \A k \in 1..n - 1, v \in Nat : F[<<k, v>>] = START(T[c[n - k]]) + v
  OBVIOUS
<1> HIDE DEF n, F
<1>5. PICK C : IsRecursion(C, n - 1, Nat, 0, F)
  <2>1. n - 1 \in Nat /\ 0 \in Nat
    BY <1>1
  <2> QED
    BY <1>3, <2>1, PrimitiveRecursion
<1> DEFINE O == [i \in 1..n |-> C[n - i]]
           Solves(D) == D = [i \in DOMAIN c |-> IF i = Len(c) THEN 0 ELSE START(T[c[i]]) + D[i + 1]]
<1>6. /\ O \in [1..n -> Nat] /\ O[n] = 0
      /\ \A i \in 1..n - 1 : O[i] = START(T[c[i]]) + O[i + 1]
  <2>1. C \in [0..n - 1 -> Nat] /\ C[0] = 0 /\ \A k \in 1..n - 1 : C[k] = F[<<k, C[k - 1]>>]
    BY <1>5 DEF IsRecursion
  <2>2. O \in [1..n -> Nat]
    <3>1. \A i \in 1..n : n - i \in 0..n - 1
      BY <1>1
    <3> QED
      BY <2>1, <3>1
  <2>3. O[n] = 0
    <3>1. n \in 1..n /\ n - n = 0
      BY <1>1
    <3> QED
      BY <2>1, <3>1
  <2>4. ASSUME NEW i \in 1..n - 1 PROVE O[i] = START(T[c[i]]) + O[i + 1]
    <3>1. /\ n - i \in 1..n - 1 /\ n - (n - i) = i /\ (n - i) - 1 \in 0..n - 1
          /\ (n - i) - 1 = n - (i + 1) /\ i \in 1..n /\ i + 1 \in 1..n
      BY <1>1
    <3>2. C[n - i] = START(T[c[i]]) + C[n - (i + 1)]
      <4>1. C[n - i] = F[<<n - i, C[(n - i) - 1]>>] /\ C[(n - i) - 1] \in Nat
        BY <2>1, <3>1, Zenon
      <4>2. F[<<n - i, C[(n - i) - 1]>>] = START(T[c[n - (n - i)]]) + C[(n - i) - 1]
        BY <1>4, <3>1, <4>1, Zenon
      <4> QED
        BY <3>1, <4>1, <4>2, Zenon
    <3> QED
      BY <3>1, <3>2
  <2> QED
    BY <2>2, <2>3, <2>4
<1>7. Solves(O)
  <2>1. \A i \in 1..n : i = n \/ i \in 1..n - 1
    BY <1>1
  <2>2. \A i \in 1..n : O[i] = IF i = n THEN 0 ELSE START(T[c[i]]) + O[i + 1]
    BY <1>6, <2>1
  <2> HIDE DEF O
  <2> QED
    BY <1>1, <1>6, <2>2 DEF n
<1>8. Offsets(T, c) = CHOOSE D : Solves(D)
  BY DEF Offsets
<1> DEFINE K == Offsets(T, c)
<1>9. Solves(K)
  <2> HIDE DEF Solves, O
  <2> QED
    BY <1>7, <1>8
<1> HIDE DEF K, O
<1>10. K[n] = 0 /\ \A i \in 1..n - 1 : K[i] = START(T[c[i]]) + K[i + 1]
  <2>1. n \in 1..n /\ \A i \in 1..n - 1 : i \in 1..n /\ i # n
    BY <1>1
  <2> QED
    BY <1>1, <1>9, <2>1, Zenon DEF n
<1> DEFINE bad == {i \in 1..n : K[i] # O[i]}
<1>11. bad = {}
  <2>1. SUFFICES ASSUME bad # {} PROVE FALSE
    OBVIOUS
  <2>2. bad \subseteq 0..n /\ n \in Int
    BY <1>1
  <2>3. PICK m \in bad : \A k \in bad : k <= m
    <3> HIDE DEF bad
    <3> QED
      BY <2>1, <2>2, Greatest
  <2>4. m # n
    BY <1>6, <1>10
  <2>5. m \in 1..n - 1 /\ m + 1 \in 1..n /\ ~(m + 1 <= m)
    BY <1>1, <2>3, <2>4
  <2>6. K[m + 1] = O[m + 1]
    BY <2>3, <2>5
  <2> QED
    BY <1>6, <1>10, <2>3, <2>5, <2>6
<1>12. \A i \in 1..n : K[i] \in Nat
  BY <1>6, <1>11
<1> QED
  BY <1>10, <1>12 DEF K, n

\* Each string of a chain is a part of the last one, and a short one unless it starts at 0.
LEMMA PartOfLast ==
  ASSUME NEW T, NEW L, NEW V, NEW M, Sound(T, L, V, M), NEW s, NEW c, IsPath(T, L, c, s),
         NEW i \in 1..Len(c)
  PROVE  /\ Offsets(T, c)[i] + LENGTH(T[c[i]]) <= LENGTH(T[Last(c)])
         /\ V[c[i]] = Portion(V[Last(c)], Offsets(T, c)[i], LENGTH(T[c[i]]))
         /\ Offsets(T, c)[i] # 0 => LENGTH(T[c[i]]) < 2^LENGTH_BITS
<1> DEFINE n == Len(c)
           O == Offsets(T, c)
           last == c[n]
           Good(k) == /\ O[k] + LENGTH(T[c[k]]) <= LENGTH(T[last])
                      /\ V[c[k]] = Portion(V[last], O[k], LENGTH(T[c[k]]))
                      /\ O[k] # 0 => LENGTH(T[c[k]]) < 2^LENGTH_BITS
           bad == {k \in 1..n : ~Good(k)}
<1>1. n \in Nat /\ n >= 1 /\ last = Last(c) /\ \A k \in 1..n : c[k] \in L
  BY DEF IsPath, Last
<1>2. \A k \in 1..n : /\ LENGTH(T[c[k]]) \in Nat /\ START(T[c[k]]) \in Nat
                      /\ V[c[k]] \in Seq(Nat) /\ Len(V[c[k]]) = LENGTH(T[c[k]])
  <2>1. \A k \in 1..n : c[k] \in Strings /\ T[c[k]] \in Words
    BY <1>1 DEF Sound
  <2> QED
    BY <1>1, <2>1, FieldFacts DEF Sound
<1>3. /\ \A k \in 1..n : O[k] \in Nat
      /\ O[n] = 0
      /\ \A k \in 1..n - 1 : O[k] = START(T[c[k]]) + O[k + 1]
  BY OffsetsFacts
<1> HIDE DEF n, O
<1>4. bad = {}
  <2>1. SUFFICES ASSUME bad # {} PROVE FALSE
    OBVIOUS
  <2>2. bad \subseteq 0..n /\ n \in Int
    BY <1>1
  <2>3. PICK m \in bad : \A k \in bad : k <= m
    <3> HIDE DEF bad
    <3> QED
      BY <2>1, <2>2, Greatest
  <2>4. m \in 1..n /\ ~Good(m)
    OBVIOUS
  <2>5. CASE m = n
    <3>1. O[m] + LENGTH(T[c[m]]) <= LENGTH(T[last])
      BY <1>2, <1>3, <2>4, <2>5
    <3>2. V[c[m]] = Portion(V[last], O[m], LENGTH(T[c[m]]))
      BY <1>2, <1>3, <2>4, <2>5, WholePortions
    <3> QED
      BY <1>3, <2>4, <2>5, <3>1, <3>2
  <2>6. CASE m # n
    <3>1. m \in 1..n - 1 /\ m + 1 \in 1..n /\ ~(m + 1 <= m) /\ n \in 1..n
      BY <1>1, <2>4, <2>6
    <3>2. Good(m + 1)
      BY <2>3, <3>1
    <3>3. T[c[m]].dependent /\ c[m + 1] = T[c[m]].ptr /\ c[m] \in L /\ c[m] \in Strings
      BY <1>1, <3>1 DEF IsPath, n, Sound
    <3>4. DependsOnBase(T, L, V, c[m])
      BY <3>3 DEF Sound
    <3> DEFINE x == LENGTH(T[c[m]])
               y == LENGTH(T[c[m + 1]])
               z == LENGTH(T[last])
               a == START(T[c[m]])
               o == O[m + 1]
               w == V[last]
    <3>5. x \in Nat /\ y \in Nat /\ z \in Nat /\ a \in Nat /\ o \in Nat /\ w \in Seq(Nat) /\ Len(w) = z
      BY <1>2, <1>3, <2>4, <3>1
    <3>6. x < y /\ a + x <= y /\ V[c[m]] = Portion(V[c[m + 1]], a, x)
      BY <3>3, <3>4 DEF DependsOnBase
    <3>7. O[m] = a + o /\ o + y <= z /\ V[c[m + 1]] = Portion(w, o, y) /\ (o # 0 => y < 2^LENGTH_BITS)
      BY <1>3, <3>1, <3>2
    <3>8. a # 0 => x < 2^LENGTH_BITS
      <4>1. T[c[m]] \in Words
        BY <3>3 DEF Sound
      <4> QED
        BY <3>3, <4>1, FieldFacts
    <3>9. 2^LENGTH_BITS \in Nat
      BY BitsAssumption
    <3> HIDE DEF x, y, z, a, o, w
    <3>10. a + o + x <= z /\ (a + o # 0 => x < 2^LENGTH_BITS)
      BY <3>5, <3>6, <3>7, <3>8, <3>9
    <3>11. V[c[m]] = Portion(w, a + o, x)
      <4>1. o + y <= Len(w)
        BY <3>5, <3>7
      <4>2. w \in Seq(Nat) /\ o \in Nat /\ y \in Nat /\ a \in Nat /\ x \in Nat /\ a + x <= y
        BY <3>5, <3>6
      <4>3. Portion(Portion(w, o, y), a, x) = Portion(w, a + o, x)
        BY ONLY <4>1, <4>2, PartOfPart
      <4> QED
        BY <3>6, <3>7, <4>3
    <3>12. Good(m)
      BY <3>7, <3>10, <3>11 DEF x, z, w
    <3> QED
      BY <2>4, <3>12
  <2> QED
    BY <2>5, <2>6
<1>5. Good(i)
  BY <1>4 DEF n
<1> QED
  BY <1>1, <1>5 DEF O
-----------------------------------------------------------------------------
(* Reading.                                                                *)

\* The characters of a string are its value.
LEMMA CharsFacts ==
  ASSUME Sound(str, live, value, memory), NEW s \in live
  PROVE  /\ Chars(s) = value[s]
         /\ value[s] \in Seq(Nat) /\ Len(value[s]) = LENGTH(str[s])
<1> DEFINE c == Chain(str, s)
           O == Offsets(str, c)
           last == Last(c)
           w == memory[str[last].ptr]
<1>1. IsPath(str, live, c, s) /\ ~str[last].dependent
  BY ChainFacts
<1>2. /\ Len(c) \in Nat /\ Len(c) >= 1 /\ c[1] = s /\ last = c[Len(c)]
      /\ 1 \in 1..Len(c) /\ last \in live
  BY <1>1 DEF IsPath, Last
<1> HIDE DEF c
<1>3. /\ O[1] + LENGTH(str[s]) <= LENGTH(str[last])
      /\ value[s] = Portion(value[last], O[1], LENGTH(str[s]))
  BY <1>1, <1>2, PartOfLast
<1>4. O[1] \in Nat
  BY <1>1, <1>2, OffsetsFacts
<1>5. HasBuffer(str, value, memory, last)
  BY <1>1, <1>2 DEF Sound
<1>6. /\ w \in Seq(Nat) /\ LENGTH(str[last]) < Len(w)
      /\ value[last] = Portion(w, 0, LENGTH(str[last]))
  BY <1>5 DEF HasBuffer, Sound
<1>7. LENGTH(str[s]) \in Nat /\ LENGTH(str[last]) \in Nat
  BY <1>2, FieldFacts DEF Sound
<1>8. value[s] \in Seq(Nat) /\ Len(value[s]) = LENGTH(str[s])
  BY DEF Sound
<1>9. Chars(s) = SubSeq(w, O[1] + 1, O[1] + LENGTH(str[s]))
  BY DEF Chars, c
<1> DEFINE o == O[1]
           x == LENGTH(str[s])
           z == LENGTH(str[last])
<1>10. /\ w \in Seq(Nat) /\ o \in Nat /\ x \in Nat /\ z \in Nat /\ 0 \in Nat
       /\ o + x <= z /\ 0 + z <= Len(w)
  <2> HIDE DEF w
  <2> QED
    BY <1>3, <1>4, <1>6, <1>7
<1> HIDE DEF o, x, z, w, O, last
<1>11. Portion(Portion(w, 0, z), o, x) = Portion(w, o + 0, x)
  BY ONLY <1>10, PartOfPart
<1>12. o + 0 = o
  BY <1>10
<1>13. value[s] = Portion(w, o, x)
  BY <1>3, <1>6, <1>11, <1>12 DEF o, x, z
<1> QED
  BY <1>8, <1>9, <1>13 DEF Portion, o, x

\* Two words that differ in what they point to.
LEMMA RebasedPrefix ==
  ASSUME NEW x \in Words, NEW t \in Strings
  PROVE  LET y == [x EXCEPT !.ptr = t] IN
         /\ y \in Words /\ y.ptr = t /\ y.dependent = x.dependent
         /\ LENGTH(y) = LENGTH(x) /\ START(y) = START(x)
<1> DEFINE y == [x EXCEPT !.ptr = t]
<1>1. /\ y \in Words /\ y.ptr = t /\ y.dependent = x.dependent
      /\ y.prefix = x.prefix /\ y.length = x.length
  BY DEF Words
<1> HIDE DEF y
<1>2. LENGTH(y) = LENGTH(x) /\ START(y) = START(x)
  BY <1>1 DEF LENGTH, START
<1> QED
  BY <1>1, <1>2 DEF y

\* What a string that is given the end of its chain for a base has to say.
IsRebased(T, L, V, t, x, last) ==
  /\ x \in Words /\ x.dependent /\ x.ptr = last
  /\ LENGTH(x) = LENGTH(T[t])
  /\ LENGTH(T[t]) < LENGTH(T[last])
  /\ START(x) + LENGTH(T[t]) <= LENGTH(T[last])
  /\ V[t] = Portion(V[last], START(x), LENGTH(T[t]))

\* js_MinimizeDependentStrings gives the strings it comes to such a base, and leaves
\* the others as they are.
LEMMA Minimizes ==
  ASSUME NEW T, NEW L, NEW V, NEW M, Sound(T, L, V, M), NEW s \in L, NEW t \in Strings,
         WithChars(T, s)[t] # T[t]
  PROVE  /\ t \in L /\ T[t].dependent
         /\ \E last \in L : /\ ~T[last].dependent
                            /\ IsRebased(T, L, V, t, WithChars(T, s)[t], last)
<1> DEFINE c == Chain(T, s)
           O == Offsets(T, c)
           rebased == {i \in 1..Len(c) - 2 : i <= RECURSION_LIMIT + 1 /\ Fits(O[i])}
           Rebased(i) == IF O[i] = 0 THEN [T[c[i]] EXCEPT !.ptr = Last(c)]
                         ELSE Sub(O[i], LENGTH(T[c[i]]), Last(c))
           U == WithChars(T, s)
<1>1. IsPath(T, L, c, s) /\ ~T[Last(c)].dependent
  BY ChainFacts
<1>2. U = IF rebased = {} THEN T ELSE [u \in Strings |->
           IF \E i \in rebased : c[i] = u
           THEN Rebased(CHOOSE i \in rebased : c[i] = u) ELSE T[u]]
  BY DEF WithChars
<1> HIDE DEF c, O, rebased, Rebased, U
<1>3. rebased # {} /\ (\E i \in rebased : c[i] = t) /\ U[t] = Rebased(CHOOSE i \in rebased : c[i] = t)
  BY <1>2 DEF U
<1>4. PICK i \in rebased : c[i] = t /\ U[t] = Rebased(i)
  BY <1>3
<1>5. /\ Len(c) \in Nat /\ i \in 1..Len(c) /\ i \in 1..Len(c) - 1 /\ Len(c) \in 1..Len(c)
      /\ i < Len(c) /\ i + 1 \in 1..Len(c) /\ Fits(O[i])
  <2>1. Len(c) \in Nat
    BY <1>1 DEF IsPath
  <2> QED
    BY <2>1 DEF rebased
<1>6. /\ t \in L /\ T[t].dependent
      /\ Last(c) \in L /\ Last(c) = c[Len(c)]
  BY <1>1, <1>4, <1>5 DEF IsPath, Last
<1> DEFINE last == Last(c)
<1>7. LENGTH(T[t]) < LENGTH(T[last])
  BY <1>1, <1>4, <1>5, <1>6, PathGrows
<1>8. /\ O[i] + LENGTH(T[t]) <= LENGTH(T[last])
      /\ V[t] = Portion(V[last], O[i], LENGTH(T[t]))
      /\ O[i] # 0 => LENGTH(T[t]) < 2^LENGTH_BITS
  BY <1>1, <1>4, <1>5, PartOfLast DEF O
<1>9. /\ O[i] \in Nat /\ O[i + 1] \in Nat
      /\ O[i] = START(T[t]) + O[i + 1]
  BY <1>1, <1>4, <1>5, OffsetsFacts DEF O
<1>10. T[t] \in Words /\ last \in Strings /\ LENGTH(T[t]) \in Nat /\ START(T[t]) \in Nat
  BY <1>6, FieldFacts DEF Sound
<1> HIDE DEF last
<1>11. CASE O[i] = 0
  <2>1. START(T[t]) = 0
    BY <1>9, <1>10, <1>11
  <2>2. U[t] = [T[t] EXCEPT !.ptr = last]
    BY <1>4, <1>11 DEF Rebased, last
  <2>3. /\ U[t] \in Words /\ U[t].ptr = last /\ U[t].dependent
        /\ LENGTH(U[t]) = LENGTH(T[t]) /\ START(U[t]) = O[i]
    BY <1>6, <1>10, <1>11, <2>1, <2>2, RebasedPrefix
  <2>4. IsRebased(T, L, V, t, U[t], last)
    BY <1>7, <1>8, <2>3 DEF IsRebased
  <2> QED
    BY <1>1, <1>6, <2>4 DEF U, last
<1>12. CASE O[i] # 0
  <2>1. U[t] = Sub(O[i], LENGTH(T[t]), last)
    BY <1>4, <1>12 DEF Rebased, last
  <2>2. O[i] < 2^START_BITS
    <3>1. 2^START_BITS \in Nat
      BY BitsAssumption
    <3>2. O[i] <= 2^START_BITS - 1
      BY <1>5 DEF Fits, MASK
    <3> QED
      BY <1>9, <3>1, <3>2
  <2>3. /\ U[t] \in Words /\ U[t].ptr = last /\ U[t].dependent
        /\ LENGTH(U[t]) = LENGTH(T[t]) /\ START(U[t]) = O[i]
    BY <1>8, <1>9, <1>10, <1>12, <2>1, <2>2, WrittenFacts
  <2>4. IsRebased(T, L, V, t, U[t], last)
    BY <1>7, <1>8, <2>3 DEF IsRebased
  <2> QED
    BY <1>1, <1>6, <2>4 DEF U, last
<1> QED
  BY <1>11, <1>12

\* Reading changes no value, and nothing that is flat.
LEMMA ReadingKeeps ==
  ASSUME NEW T, NEW L, NEW V, NEW M, Sound(T, L, V, M), NEW s \in L
  PROVE  /\ Sound(WithChars(T, s), L, V, M)
         /\ \A t \in Strings : /\ WithChars(T, s)[t].dependent = T[t].dependent
                               /\ ~T[t].dependent \/ t \notin L => WithChars(T, s)[t] = T[t]
<1> DEFINE U == WithChars(T, s)
<1>1. \A t \in Strings : U[t] # T[t] =>
        /\ t \in L /\ T[t].dependent
        /\ \E last \in L : ~T[last].dependent /\ IsRebased(T, L, V, t, U[t], last)
  BY Minimizes
<1>2. \E f : U = [t \in Strings |-> f[t]]
  <2>1. T = [t \in Strings |-> T[t]]
    BY DEF Sound
  <2> DEFINE c == Chain(T, s)
             O == Offsets(T, c)
             rebased == {i \in 1..Len(c) - 2 : i <= RECURSION_LIMIT + 1 /\ Fits(O[i])}
             Rebased(i) == IF O[i] = 0 THEN [T[c[i]] EXCEPT !.ptr = Last(c)]
                           ELSE Sub(O[i], LENGTH(T[c[i]]), Last(c))
             D == [u \in Strings |->
           IF \E i \in rebased : c[i] = u
           THEN Rebased(CHOOSE i \in rebased : c[i] = u) ELSE T[u]]
  <2>2. U = IF rebased = {} THEN T ELSE D
    BY DEF WithChars
  <2>3. D = [u \in Strings |-> D[u]]
    OBVIOUS
  <2> HIDE DEF D, rebased, U
  <2> QED
    BY <2>1, <2>2, <2>3
<1> HIDE DEF U
<1>3. T \in [Strings -> Words] /\ L \subseteq Strings
  BY DEF Sound
<1>4. \A t \in Strings : U[t] \in Words /\ U[t].dependent = T[t].dependent
  <2> TAKE t \in Strings
  <2>1. CASE U[t] = T[t]
    BY <1>3, <2>1
  <2>2. CASE U[t] # T[t]
    <3>1. U[t] \in Words /\ T[t] \in Words /\ U[t].dependent /\ T[t].dependent
      BY <1>1, <1>3, <2>2 DEF IsRebased
    <3>2. U[t].dependent \in BOOLEAN /\ T[t].dependent \in BOOLEAN
      BY <3>1 DEF Words
    <3> QED
      BY <3>1, <3>2
  <2> QED
    BY <2>1, <2>2
<1>5. U \in [Strings -> Words]
  BY <1>2, <1>4
<1>6. \A t \in Strings : LENGTH(U[t]) = LENGTH(T[t])
  BY <1>1 DEF IsRebased
<1>7. \A t \in Strings : ~T[t].dependent \/ t \notin L => U[t] = T[t]
  BY <1>1
<1>8. ASSUME NEW t \in L
      PROVE  /\ Len(V[t]) = LENGTH(U[t])
             /\ IF U[t].dependent THEN DependsOnBase(U, L, V, t) ELSE HasBuffer(U, V, M, t)
  <2>1. /\ t \in Strings /\ Len(V[t]) = LENGTH(U[t])
        /\ U[t].dependent = T[t].dependent
    BY <1>3, <1>4, <1>6 DEF Sound
  <2>2. CASE U[t] # T[t]
    <3>1. T[t].dependent
      BY <1>1, <2>1, <2>2
    <3>2. PICK last \in L : ~T[last].dependent /\ IsRebased(T, L, V, t, U[t], last)
      BY <1>1, <2>1, <2>2
    <3>3. LENGTH(U[last]) = LENGTH(T[last])
      BY <1>3, <1>6
    <3>4. DependsOnBase(U, L, V, t)
      BY <3>2, <3>3 DEF IsRebased, DependsOnBase
    <3> QED
      BY <2>1, <3>1, <3>4
  <2>3. CASE U[t] = T[t] /\ T[t].dependent
    <3>1. DependsOnBase(T, L, V, t)
      BY <2>3 DEF Sound
    <3>2. T[t].ptr \in L /\ LENGTH(U[T[t].ptr]) = LENGTH(T[T[t].ptr])
      BY <1>3, <1>6, <3>1 DEF DependsOnBase
    <3>3. DependsOnBase(U, L, V, t)
      BY <2>3, <3>1, <3>2 DEF DependsOnBase
    <3> QED
      BY <2>1, <2>3, <3>3
  <2>4. CASE U[t] = T[t] /\ ~T[t].dependent
    <3>1. HasBuffer(T, V, M, t)
      BY <2>4 DEF Sound
    <3>2. HasBuffer(U, V, M, t)
      BY <2>4, <3>1 DEF HasBuffer
    <3> QED
      BY <2>1, <2>4, <3>2
  <2> QED
    BY <2>2, <2>3, <2>4
<1>9. Sound(U, L, V, M)
  BY <1>5, <1>8 DEF Sound
<1> QED
  BY <1>4, <1>7, <1>9 DEF U
-----------------------------------------------------------------------------
(* Writing.                                                                *)

\* Each flat string has a buffer of its own, and each buffer in use a string.
Owned(T, L, M) ==
  /\ \A s, t \in L : ~T[s].dependent /\ ~T[t].dependent /\ T[s].ptr = T[t].ptr => s = t
  /\ \A b \in Buffers : M[b] # << >> => \E s \in L : ~T[s].dependent /\ T[s].ptr = b

Table(T, L, V, M) == Sound(T, L, V, M) /\ Owned(T, L, M)

\* What is said of t in Sound.
Backed(T, L, V, M, t) ==
  /\ Len(V[t]) = LENGTH(T[t])
  /\ IF T[t].dependent THEN DependsOnBase(T, L, V, t) ELSE HasBuffer(T, V, M, t)

\* A string that is as it was keeps its value if what it points to does.
LEMMA BackedStays ==
  ASSUME NEW T, NEW L, NEW V, NEW M, Sound(T, L, V, M),
         NEW U, NEW K, NEW W, NEW N,
         \A t \in L \cap K : LENGTH(U[t]) = LENGTH(T[t]) /\ W[t] = V[t],
         NEW t \in L \cap K, U[t] = T[t],
         T[t].dependent => T[t].ptr \in K,
         ~T[t].dependent => N[T[t].ptr] = M[T[t].ptr]
  PROVE  Backed(U, K, W, N, t)
<1>1. Len(W[t]) = LENGTH(U[t])
  BY DEF Sound
<1>2. CASE T[t].dependent
  <2>1. DependsOnBase(T, L, V, t)
    BY <1>2 DEF Sound
  <2>2. /\ T[t].ptr \in L \cap K /\ LENGTH(U[T[t].ptr]) = LENGTH(T[T[t].ptr])
        /\ W[T[t].ptr] = V[T[t].ptr] /\ W[t] = V[t]
    BY <1>2, <2>1 DEF DependsOnBase
  <2>3. DependsOnBase(U, K, W, t)
    BY <2>1, <2>2 DEF DependsOnBase
  <2> QED
    BY <1>1, <1>2, <2>3 DEF Backed
<1>3. CASE ~T[t].dependent
  <2>1. HasBuffer(T, V, M, t) /\ W[t] = V[t]
    BY <1>3 DEF Sound
  <2>2. HasBuffer(U, W, N, t)
    BY <1>3, <2>1 DEF HasBuffer
  <2> QED
    BY <1>1, <1>3, <2>2 DEF Backed
<1> QED
  BY <1>2, <1>3

\* The buffer of a flat string is not free.
LEMMA FlatHasBuffer ==
  ASSUME NEW T, NEW L, NEW V, NEW M, Sound(T, L, V, M), NEW t \in L, ~T[t].dependent
  PROVE  T[t].ptr \in Buffers /\ M[T[t].ptr] # << >> /\ LENGTH(T[t]) \in Nat
<1>1. HasBuffer(T, V, M, t) /\ LENGTH(T[t]) \in Nat
  BY FieldFacts DEF Sound
<1>2. Len(<< >>) = 0
  OBVIOUS
<1> QED
  BY <1>1, <1>2 DEF HasBuffer

\* js_MinimizeDependentStrings keeps the table.
LEMMA TableIsRead ==
  ASSUME NEW T, NEW L, NEW V, NEW M, Table(T, L, V, M), NEW s \in L
  PROVE  /\ Table(WithChars(T, s), L, V, M)
         /\ \A t \in Strings : /\ WithChars(T, s)[t].dependent = T[t].dependent
                               /\ ~T[t].dependent \/ t \notin L => WithChars(T, s)[t] = T[t]
<1> DEFINE U == WithChars(T, s)
<1>1. /\ Sound(U, L, V, M)
      /\ \A t \in Strings : /\ U[t].dependent = T[t].dependent
                            /\ ~T[t].dependent \/ t \notin L => U[t] = T[t]
  BY ReadingKeeps DEF Table
<1>2. L \subseteq Strings
  BY DEF Table, Sound
<1> HIDE DEF U
<1>3. Owned(U, L, M)
  <2>1. \A t \in L : ~U[t].dependent <=> ~T[t].dependent
    BY <1>1, <1>2
  <2>2. \A t \in L : ~T[t].dependent => U[t] = T[t]
    BY <1>1, <1>2
  <2> QED
    BY <2>1, <2>2 DEF Table, Owned
<1> QED
  BY <1>1, <1>3 DEF Table, U

\* A string that is new, or that depended on another one, gets a free buffer.
LEMMA BufferTaken ==
  ASSUME NEW T, NEW L, NEW V, NEW M, Table(T, L, V, M),
         NEW s \in Strings, s \notin L \/ T[s].dependent,
         NEW b \in Buffers, M[b] = << >>,
         NEW v \in Seq(Nat), s \in L => v = V[s]
  PROVE  Table([T EXCEPT ![s] = Flat(Len(v), b)], L \cup {s},
               [V EXCEPT ![s] = v], [M EXCEPT ![b] = Terminated(v)])
<1> DEFINE x == Flat(Len(v), b)
           U == [T EXCEPT ![s] = x]
           K == L \cup {s}
           W == [V EXCEPT ![s] = v]
           N == [M EXCEPT ![b] = Terminated(v)]
<1>1. /\ T \in [Strings -> Words] /\ L \subseteq Strings
      /\ V \in [Strings -> Seq(Nat)] /\ M \in [Buffers -> Seq(Nat)]
  BY DEF Table, Sound
<1>2. Len(v) \in Nat
  OBVIOUS
<1>3. x \in Words /\ ~x.dependent /\ x.ptr = b /\ LENGTH(x) = Len(v)
  BY <1>2, WrittenFacts
<1>4. /\ Terminated(v) \in Seq(Nat) /\ Len(Terminated(v)) = Len(v) + 1
      /\ Portion(Terminated(v), 0, Len(v)) = v
  BY WholePortions
<1> HIDE DEF x
<1>5. /\ U \in [Strings -> Words] /\ U[s] = x /\ \A t \in Strings \ {s} : U[t] = T[t]
      /\ W \in [Strings -> Seq(Nat)] /\ W[s] = v /\ \A t \in Strings \ {s} : W[t] = V[t]
      /\ N \in [Buffers -> Seq(Nat)] /\ N[b] = Terminated(v) /\ \A c \in Buffers \ {b} : N[c] = M[c]
      /\ K \subseteq Strings
  BY <1>1, <1>3, <1>4
<1> HIDE DEF U, W, N
<1>6. \A t \in L : Len(V[t]) = LENGTH(T[t])
  BY DEF Table, Sound
<1>7. \A t \in L \cap K : LENGTH(U[t]) = LENGTH(T[t]) /\ W[t] = V[t]
  <2> TAKE t \in L \cap K
  <2>1. CASE t = s
    BY <1>3, <1>5, <1>6, <2>1
  <2>2. CASE t # s
    BY <1>1, <1>5, <2>2
  <2> QED
    BY <2>1, <2>2
<1>8. \A t \in L : ~T[t].dependent => T[t].ptr \in Buffers \ {b}
  BY FlatHasBuffer DEF Table
<1>9. Backed(U, K, W, N, s)
  <2>1. HasBuffer(U, W, N, s)
    <3>1. Len(v) < Len(Terminated(v))
      BY <1>2, <1>4
    <3> QED
      BY <1>3, <1>4, <1>5, <3>1 DEF HasBuffer
  <2> QED
    BY <1>3, <1>5, <2>1 DEF Backed
<1>10. ASSUME NEW t \in L, t # s PROVE Backed(U, K, W, N, t)
  <2>1. t \in L \cap K /\ U[t] = T[t]
    BY <1>1, <1>5, <1>10
  <2>2. T[t].dependent => T[t].ptr \in K
    BY DEF Table, Sound, DependsOnBase
  <2>3. ~T[t].dependent => N[T[t].ptr] = M[T[t].ptr]
    BY <1>5, <1>8
  <2>4. Sound(T, L, V, M)
    BY DEF Table
  <2> HIDE DEF K
  <2> QED
    BY <1>7, <2>1, <2>2, <2>3, <2>4, BackedStays
<1>11. Sound(U, K, W, N)
  <2>1. \A t \in K : Backed(U, K, W, N, t)
    BY <1>9, <1>10
  <2> HIDE DEF K
  <2> QED
    BY <1>5, <2>1 DEF Sound, Backed
<1>12. Owned(U, K, N)
  <2>1. \A t \in K : ~U[t].dependent =>
          \/ t = s /\ U[t].ptr = b
          \/ t # s /\ t \in L /\ ~T[t].dependent /\ U[t] = T[t] /\ U[t].ptr # b
    <3> TAKE t \in K
    <3>1. CASE t = s
      BY <1>3, <1>5, <3>1
    <3>2. CASE t # s
      <4>1. t \in L /\ U[t] = T[t]
        BY <1>1, <1>5, <3>2
      <4> QED
        BY <1>8, <3>2, <4>1
    <3> QED
      BY <3>1, <3>2
  <2>2. \A t, u \in K : ~U[t].dependent /\ ~U[u].dependent /\ U[t].ptr = U[u].ptr => t = u
    BY <2>1 DEF Table, Owned
  <2>3. ASSUME NEW c \in Buffers, N[c] # << >>
        PROVE  \E t \in K : ~U[t].dependent /\ U[t].ptr = c
    <3>1. CASE c = b
      BY <1>3, <1>5, <3>1
    <3>2. CASE c # b
      <4>1. PICK t \in L : ~T[t].dependent /\ T[t].ptr = c
        BY <1>5, <2>3, <3>2 DEF Table, Owned
      <4>2. t # s
        BY <4>1
      <4>3. U[t] = T[t] /\ t \in K
        BY <1>1, <1>5, <4>2
      <4> QED
        BY <4>1, <4>3
    <3> QED
      BY <3>1, <3>2
  <2> QED
    BY <2>2, <2>3 DEF Owned
<1> QED
  BY <1>11, <1>12 DEF Table, U, W, N, x

\* A new string is a part of one that is there.
LEMMA PartTaken ==
  ASSUME NEW T, NEW L, NEW V, NEW M, Table(T, L, V, M),
         NEW s \in Strings \ L, NEW t \in L, NEW x \in Words, x.dependent, x.ptr = t,
         LENGTH(x) < LENGTH(T[t]), START(x) + LENGTH(x) <= LENGTH(T[t])
  PROVE  Table([T EXCEPT ![s] = x], L \cup {s},
               [V EXCEPT ![s] = Portion(V[t], START(x), LENGTH(x))], M)
<1> DEFINE v == Portion(V[t], START(x), LENGTH(x))
           U == [T EXCEPT ![s] = x]
           K == L \cup {s}
           W == [V EXCEPT ![s] = v]
<1>1. /\ T \in [Strings -> Words] /\ L \subseteq Strings
      /\ V \in [Strings -> Seq(Nat)] /\ M \in [Buffers -> Seq(Nat)]
      /\ V[t] \in Seq(Nat) /\ Len(V[t]) = LENGTH(T[t])
  BY DEF Table, Sound
<1>2. LENGTH(x) \in Nat /\ START(x) \in Nat
  BY FieldFacts
<1>3. v \in Seq(Nat) /\ Len(v) = LENGTH(x)
  <2>1. START(x) + LENGTH(x) <= Len(V[t])
    BY <1>1, <1>2
  <2> QED
    BY ONLY <1>1, <1>2, <2>1, PortionFacts
<1>4. /\ U \in [Strings -> Words] /\ U[s] = x /\ \A u \in L : u # s /\ U[u] = T[u]
      /\ W \in [Strings -> Seq(Nat)] /\ W[s] = v /\ \A u \in L : W[u] = V[u]
      /\ K \subseteq Strings
  BY <1>1, <1>3
<1>5. W[s] = Portion(V[t], START(x), LENGTH(x))
  BY <1>4
<1> HIDE DEF U, W, v
<1>6. Backed(U, K, W, M, s)
  <2>1. DependsOnBase(U, K, W, s)
    BY <1>4, <1>5 DEF DependsOnBase
  <2> QED
    BY <1>3, <1>4, <2>1 DEF Backed
<1>7. ASSUME NEW u \in L PROVE Backed(U, K, W, M, u)
  <2>1. u \in L \cap K /\ U[u] = T[u] /\ \A z \in L \cap K : LENGTH(U[z]) = LENGTH(T[z]) /\ W[z] = V[z]
    BY <1>4
  <2>2. T[u].dependent => T[u].ptr \in K
    BY DEF Table, Sound, DependsOnBase
  <2>3. Sound(T, L, V, M)
    BY DEF Table
  <2> HIDE DEF K
  <2> QED
    BY <2>1, <2>2, <2>3, BackedStays
<1>8. Sound(U, K, W, M)
  <2>1. \A u \in K : Backed(U, K, W, M, u)
    BY <1>6, <1>7
  <2> HIDE DEF K
  <2> QED
    BY <1>1, <1>4, <2>1 DEF Sound, Backed
<1>9. Owned(U, K, M)
  <2>1. \A u \in K : ~U[u].dependent => u \in L /\ ~T[u].dependent /\ U[u] = T[u]
    BY <1>4
  <2>2. \A u \in L : u \in K /\ U[u] = T[u]
    BY <1>4
  <2> HIDE DEF K
  <2>3. \A u, z \in K : ~U[u].dependent /\ ~U[z].dependent /\ U[u].ptr = U[z].ptr => u = z
    BY <2>1 DEF Table, Owned
  <2>4. \A b \in Buffers : M[b] # << >> => \E u \in K : ~U[u].dependent /\ U[u].ptr = b
    BY <2>2 DEF Table, Owned
  <2> QED
    BY <2>3, <2>4 DEF Owned
<1> QED
  BY <1>8, <1>9 DEF Table, U, W, v
\* The buffer of left, which may move, becomes that of a new string that begins as left does.
LEMMA BufferPassedOn ==
  ASSUME NEW T, NEW L, NEW V, NEW M, Table(T, L, V, M),
         NEW left \in L, ~T[left].dependent, NEW s \in Strings \ L,
         NEW b \in Buffers, b = T[left].ptr \/ M[b] = << >>,
         NEW w \in Seq(Nat), Len(w) > 0
  PROVE  Table([T EXCEPT ![left] = Prefix(LENGTH(T[left]), s),
                         ![s] = Flat(Len(V[left] \o w), b)],
               L \cup {s}, [V EXCEPT ![s] = V[left] \o w],
               [[M EXCEPT ![T[left].ptr] = << >>] EXCEPT ![b] = Terminated(V[left] \o w)])
<1> DEFINE v == V[left] \o w
           n == LENGTH(T[left])
           p == T[left].ptr
           x == Flat(Len(v), b)
           y == Prefix(n, s)
           U == [T EXCEPT ![left] = y, ![s] = x]
           K == L \cup {s}
           W == [V EXCEPT ![s] = v]
           N == [[M EXCEPT ![p] = << >>] EXCEPT ![b] = Terminated(v)]
<1>1. /\ T \in [Strings -> Words] /\ L \subseteq Strings /\ left # s /\ s \in Strings
      /\ V \in [Strings -> Seq(Nat)] /\ M \in [Buffers -> Seq(Nat)]
      /\ V[left] \in Seq(Nat) /\ Len(V[left]) = n
  BY DEF Table, Sound
<1>2. p \in Buffers /\ n \in Nat
  BY FlatHasBuffer DEF Table
<1>3. v \in Seq(Nat) /\ Len(v) = n + Len(w) /\ Portion(v, 0, n) = V[left]
  <2> HIDE DEF n, p
  <2>1. /\ V[left] \o w \in Seq(Nat) /\ Len(V[left] \o w) = Len(V[left]) + Len(w)
        /\ Portion(V[left] \o w, 0, Len(V[left])) = V[left]
    BY <1>1, WholePortions
  <2> QED
    BY <1>1, <2>1
<1>4. Len(v) \in Nat /\ n < Len(v) /\ 0 + n <= Len(v)
  BY <1>2, <1>3
<1> HIDE DEF v
<1>5. /\ Terminated(v) \in Seq(Nat) /\ Len(Terminated(v)) = Len(v) + 1
      /\ Portion(Terminated(v), 0, Len(v)) = v
  BY <1>3, WholePortions
<1>6. /\ x \in Words /\ ~x.dependent /\ x.ptr = b /\ LENGTH(x) = Len(v)
      /\ y \in Words /\ y.dependent /\ y.ptr = s /\ LENGTH(y) = n /\ START(y) = 0
  BY <1>2, <1>4, WrittenFacts
<1> HIDE DEF x, y, n
<1>7. /\ U \in [Strings -> Words] /\ U[s] = x /\ U[left] = y
      /\ \A t \in Strings \ {s, left} : U[t] = T[t]
      /\ W \in [Strings -> Seq(Nat)] /\ W[s] = v /\ \A t \in Strings \ {s} : W[t] = V[t]
      /\ K \subseteq Strings
  BY <1>1, <1>3, <1>6
<1>8. /\ N \in [Buffers -> Seq(Nat)] /\ N[b] = Terminated(v)
      /\ \A c \in Buffers \ {b, p} : N[c] = M[c]
      /\ p # b => N[p] = << >>
  BY <1>1, <1>2, <1>5
<1> HIDE DEF U, W, N
<1>9. \A t \in L : t # left /\ ~T[t].dependent => T[t].ptr \in Buffers \ {b, p}
  <2> TAKE t \in L
  <2> HAVE t # left /\ ~T[t].dependent
  <2>1. T[t].ptr \in Buffers /\ M[T[t].ptr] # << >>
    BY FlatHasBuffer DEF Table
  <2>2. T[t].ptr # p
    BY DEF Table, Owned
  <2> QED
    BY <2>1, <2>2
<1>10. \A t \in L \cap K : LENGTH(U[t]) = LENGTH(T[t]) /\ W[t] = V[t]
  <2> TAKE t \in L \cap K
  <2>1. W[t] = V[t] /\ t # s
    BY <1>1, <1>7
  <2>2. CASE t = left
    BY <1>6, <1>7, <2>1, <2>2 DEF n
  <2>3. CASE t # left
    BY <1>1, <1>7, <2>1, <2>3
  <2> QED
    BY <2>2, <2>3
<1>11. Backed(U, K, W, N, s)
  <2>1. HasBuffer(U, W, N, s)
    <3>1. Len(v) < Len(Terminated(v))
      BY <1>4, <1>5
    <3> QED
      BY <1>5, <1>6, <1>7, <1>8, <3>1 DEF HasBuffer
  <2> QED
    BY <1>6, <1>7, <2>1 DEF Backed
<1>12. Backed(U, K, W, N, left)
  <2>1. W[left] = V[left]
    BY <1>1, <1>7
  <2>2. DependsOnBase(U, K, W, left)
    <3>1. U[left].ptr = s /\ s \in K /\ LENGTH(U[s]) = Len(v) /\ LENGTH(U[left]) = n /\ START(U[left]) = 0
      BY <1>6, <1>7
    <3>2. W[left] = Portion(W[s], 0, n)
      BY <1>3, <1>7, <2>1
    <3> QED
      BY <1>4, <3>1, <3>2 DEF DependsOnBase
  <2> QED
    BY <1>1, <1>6, <1>7, <2>1, <2>2 DEF Backed
<1>13. ASSUME NEW t \in L, t # left PROVE Backed(U, K, W, N, t)
  <2>1. t \in L \cap K /\ U[t] = T[t]
    BY <1>1, <1>7, <1>13
  <2>2. T[t].dependent => T[t].ptr \in K
    BY DEF Table, Sound, DependsOnBase
  <2>3. ~T[t].dependent => N[T[t].ptr] = M[T[t].ptr]
    BY <1>8, <1>9, <1>13
  <2>4. Sound(T, L, V, M)
    BY DEF Table
  <2> HIDE DEF K
  <2> QED
    BY <1>10, <2>1, <2>2, <2>3, <2>4, BackedStays
<1>14. Sound(U, K, W, N)
  <2>1. \A t \in K : Backed(U, K, W, N, t)
    BY <1>11, <1>12, <1>13
  <2> HIDE DEF K
  <2> QED
    BY <1>7, <1>8, <2>1 DEF Sound, Backed
<1>15. Owned(U, K, N)
  <2>1. \A t \in K : ~U[t].dependent =>
          \/ t = s /\ U[t].ptr = b
          \/ t # s /\ t \in L /\ ~T[t].dependent /\ U[t] = T[t] /\ U[t].ptr # b
    <3> TAKE t \in K
    <3>1. CASE t = s
      BY <1>6, <1>7, <3>1
    <3>2. CASE t = left
      BY <1>6, <1>7, <3>2
    <3>3. CASE t # s /\ t # left
      <4>1. t \in L /\ U[t] = T[t]
        BY <1>1, <1>7, <3>3
      <4> QED
        BY <1>9, <3>3, <4>1
    <3> QED
      BY <3>1, <3>2, <3>3
  <2>2. \A t, u \in K : ~U[t].dependent /\ ~U[u].dependent /\ U[t].ptr = U[u].ptr => t = u
    BY <2>1 DEF Table, Owned
  <2>3. ASSUME NEW c \in Buffers, N[c] # << >>
        PROVE  \E t \in K : ~U[t].dependent /\ U[t].ptr = c
    <3>1. CASE c = b
      BY <1>6, <1>7, <3>1
    <3>2. CASE c # b
      <4>1. c # p /\ M[c] # << >>
        BY <1>8, <2>3, <3>2
      <4>2. PICK t \in L : ~T[t].dependent /\ T[t].ptr = c
        BY <4>1 DEF Table, Owned
      <4>3. t # left /\ t # s
        BY <4>1, <4>2
      <4>4. U[t] = T[t] /\ t \in K
        BY <1>1, <1>7, <4>3
      <4> QED
        BY <4>2, <4>4
    <3> QED
      BY <3>1, <3>2
  <2> QED
    BY <2>2, <2>3 DEF Owned
<1> QED
  BY <1>14, <1>15 DEF Table, U, W, N, x, y, v, n

\* The buffer of left moves, and keeps what left needs.
LEMMA BufferMoved ==
  ASSUME NEW T, NEW L, NEW V, NEW M, Table(T, L, V, M),
         NEW left \in L, ~T[left].dependent,
         NEW b \in Buffers, b = T[left].ptr \/ M[b] = << >>,
         NEW w \in Seq(Nat), Len(w) > 0
  PROVE  Table([T EXCEPT ![left].ptr = b], L, V,
               [[M EXCEPT ![T[left].ptr] = << >>]
                  EXCEPT ![b] = SubSeq(V[left] \o w, 1, LENGTH(T[left]) + 1)])
<1> DEFINE v == V[left] \o w
           n == LENGTH(T[left])
           p == T[left].ptr
           cut == SubSeq(v, 1, n + 1)
           x == [T[left] EXCEPT !.ptr = b]
           U == [T EXCEPT ![left].ptr = b]
           N == [[M EXCEPT ![p] = << >>] EXCEPT ![b] = cut]
<1>1. /\ T \in [Strings -> Words] /\ L \subseteq Strings
      /\ V \in [Strings -> Seq(Nat)] /\ M \in [Buffers -> Seq(Nat)]
      /\ V[left] \in Seq(Nat) /\ Len(V[left]) = n /\ T[left] \in Words
  BY DEF Table, Sound
<1>2. p \in Buffers /\ n \in Nat
  BY FlatHasBuffer DEF Table
<1>3. v \in Seq(Nat) /\ Len(v) = n + Len(w) /\ Portion(v, 0, n) = V[left]
  <2> HIDE DEF n, p
  <2>1. /\ V[left] \o w \in Seq(Nat) /\ Len(V[left] \o w) = Len(V[left]) + Len(w)
        /\ Portion(V[left] \o w, 0, Len(V[left])) = V[left]
    BY <1>1, WholePortions
  <2> QED
    BY <1>1, <2>1
<1>4. n + 1 \in Nat /\ 0 + (n + 1) <= Len(v) /\ 0 + n <= n + 1 /\ 0 + 0 = 0 /\ 0 + 1 = 1 /\ 0 + (n + 1) = n + 1
  BY <1>2, <1>3
<1> HIDE DEF v
<1>5. cut = Portion(v, 0, n + 1)
  BY <1>4 DEF Portion
<1>6. cut \in Seq(Nat) /\ Len(cut) = n + 1
  <2>1. 0 \in Nat
    OBVIOUS
  <2>2. Portion(v, 0, n + 1) \in Seq(Nat) /\ Len(Portion(v, 0, n + 1)) = n + 1
    <3> HIDE DEF n
    <3> QED
      BY ONLY <1>3, <1>4, <2>1, PortionFacts
  <2> QED
    BY <1>5, <2>2
<1>7. Portion(cut, 0, n) = V[left]
  <2>1. 0 \in Nat /\ n \in Nat /\ n + 1 \in Nat
    BY <1>2
  <2> HIDE DEF n
  <2> DEFINE z == 0
             m == n + 1
  <2>2. v \in Seq(Nat) /\ z \in Nat /\ m \in Nat /\ z + m <= Len(v) /\ z + n <= m /\ z + z = z
    BY <1>3, <1>4, <2>1
  <2> HIDE DEF z, m
  <2>3. Portion(Portion(v, z, m), z, n) = Portion(v, z + z, n)
    BY ONLY <2>1, <2>2, PartOfPart
  <2>4. Portion(Portion(v, z, m), z, n) = Portion(v, z, n)
    BY <2>2, <2>3
  <2> QED
    BY <1>3, <1>5, <2>4 DEF z, m
<1>8. x \in Words /\ ~x.dependent /\ x.ptr = b /\ LENGTH(x) = n
  BY <1>1 DEF Words, LENGTH
<1> HIDE DEF cut, n
<1>9. U \in [Strings -> Words] /\ U[left] = x /\ \A t \in Strings \ {left} : U[t] = T[t]
  BY <1>1, <1>8
<1>10. /\ N \in [Buffers -> Seq(Nat)] /\ N[b] = cut
       /\ \A c \in Buffers \ {b, p} : N[c] = M[c]
       /\ p # b => N[p] = << >>
  BY <1>1, <1>2, <1>6
<1> HIDE DEF U, N, x
<1>11. \A t \in L : t # left /\ ~T[t].dependent => T[t].ptr \in Buffers \ {b, p}
  <2> TAKE t \in L
  <2> HAVE t # left /\ ~T[t].dependent
  <2>1. T[t].ptr \in Buffers /\ M[T[t].ptr] # << >>
    BY FlatHasBuffer DEF Table
  <2>2. T[t].ptr # p
    BY DEF Table, Owned
  <2> QED
    BY <2>1, <2>2
<1>12. \A t \in L \cap L : LENGTH(U[t]) = LENGTH(T[t]) /\ V[t] = V[t]
  BY <1>1, <1>8, <1>9 DEF n
<1>13. Backed(U, L, V, N, left)
  <2>1. HasBuffer(U, V, N, left)
    <3>1. n < Len(cut)
      BY <1>2, <1>6
    <3> QED
      BY <1>7, <1>8, <1>9, <1>10, <3>1 DEF HasBuffer
  <2> QED
    BY <1>1, <1>8, <1>9, <2>1 DEF Backed
<1>14. ASSUME NEW t \in L, t # left PROVE Backed(U, L, V, N, t)
  <2>1. t \in L \cap L /\ U[t] = T[t]
    BY <1>1, <1>9, <1>14
  <2>2. T[t].dependent => T[t].ptr \in L
    BY DEF Table, Sound, DependsOnBase
  <2>3. ~T[t].dependent => N[T[t].ptr] = M[T[t].ptr]
    BY <1>10, <1>11, <1>14
  <2>4. Sound(T, L, V, M)
    BY DEF Table
  <2> QED
    BY <1>12, <2>1, <2>2, <2>3, <2>4, BackedStays
<1>15. Sound(U, L, V, N)
  <2>1. \A t \in L : Backed(U, L, V, N, t)
    BY <1>13, <1>14
  <2> QED
    BY <1>1, <1>9, <1>10, <2>1 DEF Sound, Backed
<1>16. Owned(U, L, N)
  <2>1. \A t \in L : ~U[t].dependent =>
          \/ t = left /\ U[t].ptr = b
          \/ t # left /\ ~T[t].dependent /\ U[t] = T[t] /\ U[t].ptr # b
    BY <1>1, <1>8, <1>9, <1>11
  <2>2. \A t, u \in L : ~U[t].dependent /\ ~U[u].dependent /\ U[t].ptr = U[u].ptr => t = u
    BY <2>1 DEF Table, Owned
  <2>3. ASSUME NEW c \in Buffers, N[c] # << >>
        PROVE  \E t \in L : ~U[t].dependent /\ U[t].ptr = c
    <3>1. CASE c = b
      BY <1>8, <1>9, <3>1
    <3>2. CASE c # b
      <4>1. c # p /\ M[c] # << >>
        BY <1>10, <2>3, <3>2
      <4>2. PICK t \in L : ~T[t].dependent /\ T[t].ptr = c
        BY <4>1 DEF Table, Owned
      <4>3. t # left
        BY <4>1, <4>2
      <4>4. U[t] = T[t]
        BY <1>1, <1>9, <4>3
      <4> QED
        BY <4>2, <4>4
    <3> QED
      BY <3>1, <3>2
  <2> QED
    BY <2>2, <2>3 DEF Owned
<1> QED
  BY <1>15, <1>16 DEF Table, U, N, v, n, cut
-----------------------------------------------------------------------------
(* The inductive invariant.                                                *)

\* Who has its buffer lent is not dependent any more and never will be; who is locked
\* is neither.
StringsInv ==
  /\ Table(str, live, value, memory)
  /\ mutable \subseteq live /\ rooted \subseteq live /\ locked \subseteq live
  /\ \A s \in live : str[s].dependent => s \in mutable
  /\ locked \cap mutable = {}
  /\ cache \in [Strings -> Seq(Nat)] /\ CacheIsFresh
  /\ lent \in [Strings -> Buffers \cup {Nobody}]
  /\ \A s \in Strings : lent[s] # Nobody => s \in live \ mutable /\ str[s].ptr = lent[s]
\* No string, no buffer.
LEMMA StringsStart == Init => StringsInv
<1> SUFFICES ASSUME Init PROVE StringsInv
  OBVIOUS
<1>1. live = {} /\ mutable = {} /\ rooted = {} /\ locked = {}
  BY DEF Init
<1>2. Flat(0, Nobody) \in Words
  BY WrittenFacts
<1>3. << >> \in Seq(Nat)
  OBVIOUS
<1>4. str \in [Strings -> Words] /\ value \in [Strings -> Seq(Nat)]
  BY <1>2, <1>3 DEF Init
<1>5. memory \in [Buffers -> Seq(Nat)] /\ \A b \in Buffers : memory[b] = << >>
  BY <1>3 DEF Init
<1>6. cache \in [Strings -> Seq(Nat)] /\ \A s \in Strings : cache[s] = << >>
  BY <1>3 DEF Init
<1>7. lent \in [Strings -> Buffers \cup {Nobody}] /\ \A s \in Strings : lent[s] = Nobody
  BY DEF Init
<1>8. Table(str, live, value, memory)
  BY <1>1, <1>4, <1>5 DEF Table, Sound, Owned
<1> QED
  BY <1>1, <1>6, <1>7, <1>8 DEF StringsInv, CacheIsFresh

\* What js_MinimizeDependentStrings does to the strings there are.
LEMMA StringsAreRead ==
  ASSUME StringsInv, NEW s \in live
  PROVE  LET T == WithChars(str, s) IN
         /\ Table(T, live, value, memory)
         /\ \A t \in Strings : /\ T[t].dependent = str[t].dependent
                               /\ ~str[t].dependent \/ t \notin live => T[t] = str[t]
BY TableIsRead DEF StringsInv

\* What is the same in all states of the invariant.
LEMMA TypesOf ==
  ASSUME StringsInv
  PROVE  /\ str \in [Strings -> Words] /\ live \subseteq Strings
         /\ value \in [Strings -> Seq(Nat)] /\ memory \in [Buffers -> Seq(Nat)]
         /\ Sound(str, live, value, memory)
         /\ \A s \in live : /\ Chars(s) = value[s] /\ Len(value[s]) = LENGTH(str[s])
                            /\ LENGTH(str[s]) \in Nat /\ value[s] \in Seq(Nat)
<1>1. Sound(str, live, value, memory)
  BY DEF StringsInv, Table
<1>2. /\ str \in [Strings -> Words] /\ live \subseteq Strings
      /\ value \in [Strings -> Seq(Nat)] /\ memory \in [Buffers -> Seq(Nat)]
  BY <1>1 DEF Sound
<1>3. \A s \in live : Chars(s) = value[s] /\ Len(value[s]) = LENGTH(str[s])
  BY <1>1, CharsFacts
<1>4. \A s \in live : LENGTH(str[s]) \in Nat /\ value[s] \in Seq(Nat)
  BY <1>2, FieldFacts
<1> QED
  BY <1>1, <1>2, <1>3, <1>4

-----------------------------------------------------------------------------
(* New strings.                                                            *)

\* What the operations that make a string have in common.
LEMMA MadeKeeps ==
  ASSUME StringsInv, NEW s \in Strings \ live, NEW v \in Seq(Nat), NEW grows \in BOOLEAN,
         Made(s, v, grows),
         Table(str', live', value', memory'),
         str'[s].dependent => grows,
         \A t \in live : /\ str'[t].dependent => str[t].dependent \/ t \in mutable
                         /\ lent[t] # Nobody => str'[t].ptr = str[t].ptr
  PROVE  StringsInv'
<1>1. /\ live' = live \cup {s}
      /\ mutable' = IF grows THEN mutable \cup {s} ELSE mutable \ {s}
      /\ value' = [value EXCEPT ![s] = v]
      /\ rooted' = rooted \cup {s}
      /\ locked' = locked /\ cache' = cache /\ lent' = lent
  BY DEF Made
<1>2. value \in [Strings -> Seq(Nat)] /\ live \subseteq Strings
  BY TypesOf
<1>3. mutable \subseteq live /\ rooted \subseteq live /\ locked \subseteq live
  BY DEF StringsInv
<1>4. mutable' \subseteq live' /\ rooted' \subseteq live' /\ locked' \subseteq live'
  BY <1>1, <1>3
<1>5. \A t \in live' : str'[t].dependent => t \in mutable'
  <2> TAKE t \in live'
  <2>1. CASE t = s
    BY <1>1, <2>1
  <2>2. CASE t # s
    <3>1. t \in live
      BY <1>1, <2>2
    <3>2. str'[t].dependent => t \in mutable
      BY <3>1 DEF StringsInv
    <3> QED
      BY <1>1, <2>2, <3>2
  <2> QED
    BY <2>1, <2>2
<1>6. locked' \cap mutable' = {}
  <2>1. s \notin locked /\ locked \cap mutable = {}
    BY <1>3 DEF StringsInv
  <2> QED
    BY <1>1, <2>1
<1>7. cache' \in [Strings -> Seq(Nat)] /\ CacheIsFresh'
  <2>1. cache \in [Strings -> Seq(Nat)] /\ CacheIsFresh
    BY DEF StringsInv
  <2>2. \A t \in live : value'[t] = value[t] /\ t \in live'
    BY <1>1, <1>2
  <2> QED
    BY <1>1, <2>1, <2>2 DEF CacheIsFresh
<1>8. /\ lent' \in [Strings -> Buffers \cup {Nobody}]
      /\ \A t \in Strings : lent'[t] # Nobody => t \in live' \ mutable' /\ str'[t].ptr = lent'[t]
  <2>1. /\ lent \in [Strings -> Buffers \cup {Nobody}]
        /\ \A t \in Strings : lent[t] # Nobody => t \in live \ mutable /\ str[t].ptr = lent[t]
    BY DEF StringsInv
  <2>2. \A t \in live \ mutable : t \in live' \ mutable'
    BY <1>1
  <2> QED
    BY <1>1, <2>1, <2>2
<1> QED
  BY <1>4, <1>5, <1>6, <1>7, <1>8 DEF StringsInv

\* js_NewStringCopyN and JS_NewGrowableString.
LEMMA NewStringKeeps ==
  ASSUME StringsInv, NEW s \in Strings \ live, NEW b \in FreeBuffers, NEW v \in Literals,
         NEW grows \in BOOLEAN, NewString(s, b, v, grows)
  PROVE  StringsInv'
<1>1. v \in Seq(Nat) /\ b \in Buffers /\ memory[b] = << >>
  BY StringsAssumption DEF FreeBuffers
<1>2. /\ memory' = [memory EXCEPT ![b] = Terminated(v)]
      /\ str' = [str EXCEPT ![s] = Flat(Len(v), b)]
      /\ Made(s, v, grows)
      /\ live' = live \cup {s} /\ value' = [value EXCEPT ![s] = v]
  BY DEF NewString, Made
<1>3. Table(str, live, value, memory)
  BY DEF StringsInv
<1>4. Table([str EXCEPT ![s] = Flat(Len(v), b)], live \cup {s},
            [value EXCEPT ![s] = v], [memory EXCEPT ![b] = Terminated(v)])
  BY <1>1, <1>3, BufferTaken
<1>5. Table(str', live', value', memory')
  BY <1>2, <1>4
<1>6. str'[s] = Flat(Len(v), b) /\ \A t \in live : str'[t] = str[t]
  BY <1>2, TypesOf
<1>7. ~str'[s].dependent
  BY <1>6 DEF Flat
<1> QED
  BY <1>1, <1>2, <1>5, <1>6, <1>7, MadeKeeps

\* The part of a string that a new one is to be.
LEMMA PartFacts ==
  ASSUME StringsInv, NEW t \in rooted, NEW start \in 0..MaxLength, NEW n \in 1..MaxLength,
         IsPart(t, start, n)
  PROVE  /\ t \in live /\ start \in Nat /\ n \in Nat
         /\ n < LENGTH(str[t]) /\ start + n <= LENGTH(str[t])
         /\ Part(t, start, n) = Portion(value[t], start, n)
         /\ Part(t, start, n) \in Seq(Nat) /\ Len(Part(t, start, n)) = n
<1>1. t \in live
  BY DEF StringsInv
<1>2. /\ Chars(t) = value[t] /\ Len(value[t]) = LENGTH(str[t])
      /\ LENGTH(str[t]) \in Nat /\ value[t] \in Seq(Nat)
  BY <1>1, TypesOf
<1>3. start \in Nat /\ n \in Nat
  BY BitsAssumption
<1>4. n < LENGTH(str[t]) /\ start + n <= LENGTH(str[t])
  BY DEF IsPart
<1>5. Part(t, start, n) = Portion(value[t], start, n)
  BY <1>2 DEF Part, Portion
<1>6. Portion(value[t], start, n) \in Seq(Nat) /\ Len(Portion(value[t], start, n)) = n
  <2>1. value[t] \in Seq(Nat) /\ start + n <= Len(value[t])
    BY <1>2, <1>4
  <2> QED
    BY ONLY <1>3, <2>1, PortionFacts
<1> QED
  BY <1>1, <1>3, <1>4, <1>5, <1>6

\* js_NewDependentString.
LEMMA NewDependentStringKeeps ==
  ASSUME StringsInv, NEW s \in Strings \ live, NEW t \in rooted,
         NEW start \in 0..MaxLength, NEW n \in 1..MaxLength, NewDependentString(s, t, start, n)
  PROVE  StringsInv'
<1> DEFINE x == IF start = 0 THEN Prefix(n, t) ELSE Sub(start, n, t)
           v == Part(t, start, n)
<1>1. /\ IsPart(t, start, n) /\ ~TooLarge(start, n)
      /\ str' = [str EXCEPT ![s] = x] /\ memory' = memory
      /\ Made(s, v, TRUE)
      /\ live' = live \cup {s} /\ value' = [value EXCEPT ![s] = v]
  BY DEF NewDependentString, Made
<1>2. /\ t \in live /\ t \in Strings /\ start \in Nat /\ n \in Nat
      /\ n < LENGTH(str[t]) /\ start + n <= LENGTH(str[t])
      /\ v = Portion(value[t], start, n) /\ v \in Seq(Nat)
  BY <1>1, PartFacts, TypesOf
<1>3. /\ x \in Words /\ x.dependent /\ x.ptr = t
      /\ LENGTH(x) = n /\ START(x) = start
  <2>1. CASE start = 0
    <3>1. x = Prefix(n, t)
      BY <2>1
    <3> QED
      BY <1>2, <2>1, <3>1, WrittenFacts
  <2>2. CASE start # 0
    <3>1. 2^START_BITS \in Nat /\ 2^LENGTH_BITS \in Nat
      BY BitsAssumption
    <3>2. ~(start > 2^START_BITS - 1) /\ ~(n > 2^LENGTH_BITS - 1)
      BY <1>1, <2>2 DEF TooLarge, MASK
    <3>3. start < 2^START_BITS /\ n < 2^LENGTH_BITS
      BY <1>2, <3>1, <3>2
    <3>4. x = Sub(start, n, t)
      BY <2>2
    <3> QED
      BY <1>2, <3>3, <3>4, WrittenFacts
  <2> QED
    BY <2>1, <2>2
<1> HIDE DEF x, v
<1>4. Table(str, live, value, memory)
  BY DEF StringsInv
<1>5. LENGTH(x) < LENGTH(str[t]) /\ START(x) + LENGTH(x) <= LENGTH(str[t])
  BY <1>2, <1>3
<1>6. Table([str EXCEPT ![s] = x], live \cup {s},
            [value EXCEPT ![s] = Portion(value[t], START(x), LENGTH(x))], memory)
  BY <1>2, <1>3, <1>4, <1>5, PartTaken
<1>7. Table(str', live', value', memory')
  BY <1>1, <1>2, <1>3, <1>6
<1>8. \A u \in live : str'[u] = str[u]
  BY <1>1, TypesOf
<1> QED
  BY <1>1, <1>2, <1>7, <1>8, MadeKeeps

\* js_NewStringCopyN, where the fields of a dependent string have no room.
LEMMA NewStringCopyNKeeps ==
  ASSUME StringsInv, NEW s \in Strings \ live, NEW b \in FreeBuffers, NEW t \in rooted,
         NEW start \in 0..MaxLength, NEW n \in 1..MaxLength, NewStringCopyN(s, b, t, start, n)
  PROVE  StringsInv'
<1> DEFINE v == Part(t, start, n)
           T == WithChars(str, t)
<1>1. /\ IsPart(t, start, n)
      /\ memory' = [memory EXCEPT ![b] = Terminated(v)]
      /\ str' = [T EXCEPT ![s] = Flat(n, b)]
      /\ Made(s, v, FALSE)
      /\ live' = live \cup {s} /\ value' = [value EXCEPT ![s] = v]
  BY DEF NewStringCopyN, Made
<1>2. t \in live /\ v \in Seq(Nat) /\ Len(v) = n
  BY <1>1, PartFacts
<1>3. /\ Table(T, live, value, memory)
      /\ \A u \in Strings : /\ T[u].dependent = str[u].dependent
                            /\ ~str[u].dependent \/ u \notin live => T[u] = str[u]
  BY <1>2, StringsAreRead
<1>4. b \in Buffers /\ memory[b] = << >>
  BY DEF FreeBuffers
<1> HIDE DEF T, v
<1>5. Table([T EXCEPT ![s] = Flat(Len(v), b)], live \cup {s},
            [value EXCEPT ![s] = v], [memory EXCEPT ![b] = Terminated(v)])
  BY <1>2, <1>3, <1>4, BufferTaken
<1>6. Table(str', live', value', memory')
  BY <1>1, <1>2, <1>5
<1>7. T \in [Strings -> Words] /\ live \subseteq Strings
  BY <1>3 DEF Table, Sound
<1>8. str'[s] = Flat(n, b) /\ \A u \in live : str'[u] = T[u]
  BY <1>1, <1>7
<1>9. ~str'[s].dependent
  BY <1>8 DEF Flat
<1>10. \A u \in live : lent[u] # Nobody => ~str[u].dependent
  BY <1>7 DEF StringsInv
<1>11. \A u \in live : /\ str'[u].dependent => str[u].dependent \/ u \in mutable
                       /\ lent[u] # Nobody => str'[u].ptr = str[u].ptr
  BY <1>3, <1>7, <1>8, <1>10
<1> QED
  BY <1>1, <1>2, <1>6, <1>9, <1>11, MadeKeeps
-----------------------------------------------------------------------------
(* Operations on the strings there are.                                    *)

\* The operations that make no string and let go of none.
LEMMA NoneMadeKeeps ==
  ASSUME StringsInv, UNCHANGED <<live, rooted, value>>,
         Table(str', live, value, memory'),
         mutable' \subseteq mutable,
         \A t \in live : str'[t].dependent => t \in mutable',
         locked' \subseteq live, locked' \cap mutable' = {},
         cache' \in [Strings -> Seq(Nat)],
         \A t \in Strings : cache'[t] # << >> => t \in live /\ cache'[t] = value[t],
         lent' \in [Strings -> Buffers \cup {Nobody}],
         \A t \in Strings : lent'[t] # Nobody => t \in live \ mutable' /\ str'[t].ptr = lent'[t]
  PROVE  StringsInv'
<1>1. live' = live /\ rooted' = rooted /\ value' = value
  OBVIOUS
<1>2. mutable' \subseteq live' /\ rooted' \subseteq live' /\ locked' \subseteq live'
  BY <1>1 DEF StringsInv
<1>3. Table(str', live', value', memory')
  BY <1>1
<1>4. CacheIsFresh'
  BY <1>1 DEF CacheIsFresh
<1> QED
  BY <1>1, <1>2, <1>3, <1>4 DEF StringsInv

\* What the invariant says of the strings that do not change.
LEMMA OldFacts ==
  ASSUME StringsInv
  PROVE  /\ \A t \in live : str[t].dependent => t \in mutable
         /\ locked \subseteq live /\ locked \cap mutable = {} /\ mutable \subseteq live
         /\ rooted \subseteq live
         /\ cache \in [Strings -> Seq(Nat)]
         /\ \A t \in Strings : cache[t] # << >> => t \in live /\ cache[t] = value[t]
         /\ lent \in [Strings -> Buffers \cup {Nobody}]
         /\ \A t \in Strings : lent[t] # Nobody =>
              t \in live \ mutable /\ str[t].ptr = lent[t] /\ ~str[t].dependent
BY DEF StringsInv, CacheIsFresh

\* JSSTRING_CHARS.
LEMMA ReadStringKeeps ==
  ASSUME StringsInv, NEW s \in rooted,
         str' = WithChars(str, s),
         UNCHANGED <<live, mutable, memory, rooted, locked, value, lent>>,
         cache' = cache \/ cache' = [cache EXCEPT ![s] = Chars(s)]
  PROVE  StringsInv'
<1>1. s \in live
  BY OldFacts
<1>2. /\ Table(str', live, value, memory')
      /\ \A t \in Strings : /\ str'[t].dependent = str[t].dependent
                            /\ ~str[t].dependent \/ t \notin live => str'[t] = str[t]
  BY <1>1, StringsAreRead
<1>3. Chars(s) = value[s] /\ value[s] \in Seq(Nat) /\ live \subseteq Strings
  BY <1>1, TypesOf
<1>4. /\ cache' \in [Strings -> Seq(Nat)]
      /\ \A t \in Strings : cache'[t] # << >> => t \in live /\ cache'[t] = value[t]
  BY <1>1, <1>3, OldFacts
<1>5. /\ \A t \in live : str'[t].dependent => t \in mutable'
      /\ \A t \in Strings : lent'[t] # Nobody => t \in live \ mutable' /\ str'[t].ptr = lent'[t]
  BY <1>2, <1>3, OldFacts
<1>6. /\ mutable' \subseteq mutable /\ locked' \subseteq live /\ locked' \cap mutable' = {}
      /\ lent' \in [Strings -> Buffers \cup {Nobody}]
  BY OldFacts
<1> QED
  BY <1>2, <1>4, <1>5, <1>6, NoneMadeKeeps

\* js_UndependString gives the string a buffer of its own.
LEMMA UndependedFacts ==
  ASSUME StringsInv, NEW s \in live, NEW b \in Buffers, Undepended(s, b)
  PROVE  /\ Table(str', live, value, memory')
         /\ ~str'[s].dependent /\ str'[s].ptr = b
         /\ \A t \in Strings \ {s} : /\ str'[t].dependent = str[t].dependent
                                     /\ ~str[t].dependent => str'[t] = str[t]
<1>1. CASE ~str[s].dependent
  <2>1. b = str[s].ptr /\ memory' = memory /\ str' = str
    BY <1>1 DEF Undepended
  <2>2. Table(str, live, value, memory)
    BY DEF StringsInv
  <2> QED
    BY <1>1, <2>1, <2>2
<1>2. CASE str[s].dependent
  <2> DEFINE T == WithChars(str, s)
             v == value[s]
  <2>1. /\ Chars(s) = v /\ Len(v) = LENGTH(str[s]) /\ v \in Seq(Nat)
        /\ live \subseteq Strings /\ value \in [Strings -> Seq(Nat)]
    BY TypesOf
  <2>2. /\ b \in Buffers /\ memory[b] = << >>
        /\ memory' = [memory EXCEPT ![b] = Terminated(v)]
        /\ str' = [T EXCEPT ![s] = Flat(Len(v), b)]
    BY <1>2, <2>1 DEF Undepended, FreeBuffers
  <2>3. /\ Table(T, live, value, memory)
        /\ \A t \in Strings : /\ T[t].dependent = str[t].dependent
                              /\ ~str[t].dependent \/ t \notin live => T[t] = str[t]
    BY StringsAreRead
  <2>4. s \in Strings /\ T[s].dependent
    BY <1>2, <2>1, <2>3
  <2> HIDE DEF T
  <2>5. Table([T EXCEPT ![s] = Flat(Len(v), b)], live \cup {s},
              [value EXCEPT ![s] = v], [memory EXCEPT ![b] = Terminated(v)])
    BY <2>1, <2>2, <2>3, <2>4, BufferTaken
  <2>6. live \cup {s} = live /\ [value EXCEPT ![s] = v] = value
    BY <2>1, <2>4
  <2>7. Table(str', live, value, memory')
    BY <2>2, <2>5, <2>6
  <2>8. T \in [Strings -> Words]
    BY <2>3 DEF Table, Sound
  <2>9. str'[s] = Flat(Len(v), b) /\ \A t \in Strings \ {s} : str'[t] = T[t]
    BY <2>2, <2>4, <2>8
  <2>10. ~str'[s].dependent /\ str'[s].ptr = b
    BY <2>9 DEF Flat
  <2> QED
    BY <2>3, <2>7, <2>9, <2>10
<1> QED
  BY <1>1, <1>2

LEMMA UndependStringKeeps ==
  ASSUME StringsInv, NEW s \in rooted, NEW b \in Buffers, UndependString(s, b)
  PROVE  StringsInv'
<1>1. /\ s \in live /\ Undepended(s, b) /\ str[s].dependent
      /\ UNCHANGED <<live, mutable, rooted, locked, cache, value, lent>>
  BY OldFacts DEF UndependString
<1>2. /\ Table(str', live, value, memory')
      /\ ~str'[s].dependent /\ str'[s].ptr = b
      /\ \A t \in Strings \ {s} : /\ str'[t].dependent = str[t].dependent
                                  /\ ~str[t].dependent => str'[t] = str[t]
  BY <1>1, UndependedFacts
<1>3. live \subseteq Strings
  BY TypesOf
<1>4. /\ \A t \in live : str'[t].dependent => t \in mutable'
      /\ \A t \in Strings : lent'[t] # Nobody => t \in live \ mutable' /\ str'[t].ptr = lent'[t]
  BY <1>1, <1>2, <1>3, OldFacts
<1>5. /\ mutable' \subseteq mutable /\ locked' \subseteq live /\ locked' \cap mutable' = {}
      /\ lent' \in [Strings -> Buffers \cup {Nobody}]
      /\ cache' \in [Strings -> Seq(Nat)]
      /\ \A t \in Strings : cache'[t] # << >> => t \in live /\ cache'[t] = value[t]
  BY <1>1, OldFacts
<1> QED
  BY <1>1, <1>2, <1>4, <1>5, NoneMadeKeeps

\* js_GetStringChars makes it so for good.
LEMMA GetStringCharsKeeps ==
  ASSUME StringsInv, NEW s \in rooted, NEW b \in Buffers, GetStringChars(s, b)
  PROVE  StringsInv'
<1>1. /\ s \in live /\ Undepended(s, b)
      /\ mutable' = mutable \ {s} /\ lent' = [lent EXCEPT ![s] = b]
      /\ UNCHANGED <<live, rooted, locked, cache, value>>
  BY OldFacts DEF GetStringChars
<1>2. /\ Table(str', live, value, memory')
      /\ ~str'[s].dependent /\ str'[s].ptr = b
      /\ \A t \in Strings \ {s} : /\ str'[t].dependent = str[t].dependent
                                  /\ ~str[t].dependent => str'[t] = str[t]
  BY <1>1, UndependedFacts
<1>3. live \subseteq Strings /\ s \in Strings
  BY <1>1, TypesOf
<1>4. \A t \in live : str'[t].dependent => t \in mutable'
  <2> TAKE t \in live
  <2>1. CASE t = s
    BY <1>2, <2>1
  <2>2. CASE t # s
    BY <1>1, <1>2, <1>3, <2>2, OldFacts
  <2> QED
    BY <2>1, <2>2
<1>5. \A t \in Strings : lent'[t] # Nobody => t \in live \ mutable' /\ str'[t].ptr = lent'[t]
  <2> TAKE t \in Strings
  <2> HAVE lent'[t] # Nobody
  <2>1. CASE t = s
    BY <1>1, <1>2, <2>1, OldFacts
  <2>2. CASE t # s
    <3>1. lent'[t] = lent[t]
      BY <1>1, <2>2, OldFacts
    <3> QED
      BY <1>1, <1>2, <2>2, <3>1, OldFacts
  <2> QED
    BY <2>1, <2>2
<1>6. lent' \in [Strings -> Buffers \cup {Nobody}]
  BY <1>1, OldFacts
<1>7. /\ mutable' \subseteq mutable /\ locked' \subseteq live /\ locked' \cap mutable' = {}
      /\ cache' \in [Strings -> Seq(Nat)]
      /\ \A t \in Strings : cache'[t] # << >> => t \in live /\ cache'[t] = value[t]
  BY <1>1, OldFacts
<1> QED
  BY <1>1, <1>2, <1>4, <1>5, <1>6, <1>7, NoneMadeKeeps

\* js_LockGCThing, which is not called for mutable strings.
LEMMA LockKeeps ==
  ASSUME ~LocksMutable, StringsInv, NEW s \in rooted, LockGCThing(s)
  PROVE  StringsInv'
<1>1. /\ s \in live /\ s \notin mutable /\ locked' = locked \cup {s}
      /\ UNCHANGED <<live, str, mutable, memory, rooted, cache, value, lent>>
  BY OldFacts DEF LockGCThing
<1>2. Table(str', live, value, memory')
  BY <1>1 DEF StringsInv
<1>3. \A t \in live : str'[t].dependent => t \in mutable'
  BY <1>1, OldFacts
<1>4. \A t \in Strings : lent'[t] # Nobody => t \in live \ mutable' /\ str'[t].ptr = lent'[t]
  BY <1>1, OldFacts
<1>5. /\ mutable' \subseteq mutable /\ locked' \subseteq live /\ locked' \cap mutable' = {}
      /\ lent' \in [Strings -> Buffers \cup {Nobody}]
      /\ cache' \in [Strings -> Seq(Nat)]
      /\ \A t \in Strings : cache'[t] # << >> => t \in live /\ cache'[t] = value[t]
  BY <1>1, OldFacts
<1> QED
  BY <1>1, <1>2, <1>3, <1>4, <1>5, NoneMadeKeeps
-----------------------------------------------------------------------------
(* js_ConcatStrings.                                                       *)

\* What two strings are put together from.
LEMMA NonemptyFacts ==
  ASSUME StringsInv, NEW left \in rooted, NEW right \in rooted, Nonempty(left, right)
  PROVE  /\ left \in live /\ right \in live
         /\ Chars(left) = value[left] /\ Chars(right) = value[right]
         /\ value[left] \in Seq(Nat) /\ value[right] \in Seq(Nat)
         /\ Len(value[right]) > 0
         /\ Chars(left) \o Chars(right) \in Seq(Nat)
<1>1. left \in live /\ right \in live
  BY OldFacts
<1>2. /\ Chars(left) = value[left] /\ Chars(right) = value[right]
      /\ value[left] \in Seq(Nat) /\ value[right] \in Seq(Nat)
      /\ Len(value[right]) = LENGTH(str[right])
  BY <1>1, TypesOf
<1>3. Len(value[right]) > 0
  BY <1>2 DEF Nonempty
<1>4. value[left] \o value[right] \in Seq(Nat)
  BY <1>2
<1> QED
  BY <1>1, <1>2, <1>3, <1>4

\* Both are read; then the result, if there is one, takes a free buffer.
LEMMA ConcatCopiesKeeps ==
  ASSUME StringsInv, NEW s \in Strings \ live, NEW b \in Buffers,
         NEW left \in rooted, NEW right \in rooted, NEW ok \in BOOLEAN,
         ConcatCopies(s, b, left, right, ok)
  PROVE  StringsInv'
<1> DEFINE v == Chars(left) \o Chars(right)
           R == WithChars(str, right)
           T == WithChars(R, left)
<1>1. Nonempty(left, right) /\ b \in Buffers /\ memory[b] = << >>
  BY DEF ConcatCopies, FreeBuffers
<1>2. left \in live /\ right \in live /\ v \in Seq(Nat) /\ live \subseteq Strings
  BY <1>1, NonemptyFacts, TypesOf
<1>3. /\ Table(R, live, value, memory)
      /\ \A t \in Strings : /\ R[t].dependent = str[t].dependent
                            /\ ~str[t].dependent \/ t \notin live => R[t] = str[t]
  BY <1>2, StringsAreRead
<1>4. /\ Table(T, live, value, memory)
      /\ \A t \in Strings : /\ T[t].dependent = R[t].dependent
                            /\ ~R[t].dependent \/ t \notin live => T[t] = R[t]
  <2> HIDE DEF R
  <2> QED
    BY <1>2, <1>3, TableIsRead
<1>5. \/ /\ memory' = [memory EXCEPT ![b] = Terminated(v)]
         /\ str' = [T EXCEPT ![s] = Flat(Len(v), b)]
         /\ Made(s, v, TRUE)
      \/ /\ str' = T
         /\ UNCHANGED <<live, mutable, memory, rooted, locked, cache, value, lent>>
  BY DEF ConcatCopies
<1> HIDE DEF v, T, R
<1>6. \A t \in Strings : /\ T[t].dependent = str[t].dependent
                         /\ ~str[t].dependent \/ t \notin live => T[t] = str[t]
  BY <1>3, <1>4
<1>7. CASE /\ memory' = [memory EXCEPT ![b] = Terminated(v)]
           /\ str' = [T EXCEPT ![s] = Flat(Len(v), b)]
           /\ Made(s, v, TRUE)
  <2>1. Table([T EXCEPT ![s] = Flat(Len(v), b)], live \cup {s},
              [value EXCEPT ![s] = v], [memory EXCEPT ![b] = Terminated(v)])
    BY <1>1, <1>2, <1>4, BufferTaken
  <2>2. live' = live \cup {s} /\ value' = [value EXCEPT ![s] = v]
    BY <1>7 DEF Made
  <2>3. Table(str', live', value', memory')
    BY <1>7, <2>1, <2>2
  <2>4. \A t \in live : str'[t] = T[t]
    BY <1>2, <1>4, <1>7 DEF Table, Sound
  <2>5. \A t \in live : /\ str'[t].dependent => str[t].dependent \/ t \in mutable
                        /\ lent[t] # Nobody => str'[t].ptr = str[t].ptr
    BY <1>2, <1>6, <2>4, OldFacts
  <2> QED
    BY <1>2, <1>7, <2>3, <2>5, MadeKeeps
<1>8. CASE /\ str' = T
           /\ UNCHANGED <<live, mutable, memory, rooted, locked, cache, value, lent>>
  <2>1. Table(str', live, value, memory')
    BY <1>4, <1>8
  <2>2. \A t \in live : str'[t].dependent => t \in mutable'
    BY <1>2, <1>6, <1>8, OldFacts
  <2>3. \A t \in Strings : lent'[t] # Nobody => t \in live \ mutable' /\ str'[t].ptr = lent'[t]
    BY <1>6, <1>8, OldFacts
  <2>4. /\ mutable' \subseteq mutable /\ locked' \subseteq live /\ locked' \cap mutable' = {}
        /\ lent' \in [Strings -> Buffers \cup {Nobody}]
        /\ cache' \in [Strings -> Seq(Nat)]
        /\ \A t \in Strings : cache'[t] # << >> => t \in live /\ cache'[t] = value[t]
    BY <1>8, OldFacts
  <2> QED
    BY <1>8, <2>1, <2>2, <2>3, <2>4, NoneMadeKeeps
<1> QED
  BY <1>5, <1>7, <1>8

\* The result takes left's buffer over, which nobody has been lent as left is mutable.
LEMMA ConcatGrowsKeeps ==
  ASSUME StringsInv, NEW s \in Strings \ live, NEW b \in Buffers,
         NEW left \in rooted, NEW right \in rooted, NEW ok \in BOOLEAN,
         ConcatGrows(s, b, left, right, ok)
  PROVE  StringsInv'
<1> DEFINE v == value[left] \o value[right]
           T == WithChars(str, right)
           n == LENGTH(str[left])
           grown(seq) == [[memory EXCEPT ![str[left].ptr] = << >>] EXCEPT ![b] = seq]
<1>1. Nonempty(left, right) /\ ~str[left].dependent /\ left \in mutable
  BY DEF ConcatGrows, Grows
<1>2. b = str[left].ptr \/ memory[b] = << >>
  BY DEF ConcatGrows, FreeBuffers
<1>3. /\ left \in live /\ right \in live /\ live \subseteq Strings
      /\ Chars(left) \o Chars(right) = v /\ v \in Seq(Nat)
      /\ value[right] \in Seq(Nat) /\ Len(value[right]) > 0
  BY <1>1, NonemptyFacts, TypesOf
<1>4. /\ Table(T, live, value, memory)
      /\ \A t \in Strings : /\ T[t].dependent = str[t].dependent
                            /\ ~str[t].dependent \/ t \notin live => T[t] = str[t]
  BY <1>3, StringsAreRead
<1>5. \/ /\ memory' = grown(Terminated(v))
         /\ str' = [T EXCEPT ![left] = Prefix(n, s), ![s] = Flat(Len(v), b)]
         /\ Made(s, v, TRUE)
      \/ /\ memory' = grown(SubSeq(v, 1, n + 1))
         /\ str' = [T EXCEPT ![left].ptr = b]
         /\ UNCHANGED <<live, mutable, rooted, locked, cache, value, lent>>
  BY <1>3 DEF ConcatGrows, LeftPrefix
<1> HIDE DEF T
<1>6. T[left] = str[left] /\ ~T[left].dependent /\ lent[left] = Nobody /\ T \in [Strings -> Words]
  BY <1>1, <1>3, <1>4, OldFacts DEF Table, Sound
<1>7. CASE /\ memory' = grown(Terminated(v))
           /\ str' = [T EXCEPT ![left] = Prefix(n, s), ![s] = Flat(Len(v), b)]
           /\ Made(s, v, TRUE)
  <2>1. Table([T EXCEPT ![left] = Prefix(LENGTH(T[left]), s), ![s] = Flat(Len(v), b)],
              live \cup {s}, [value EXCEPT ![s] = v],
              [[memory EXCEPT ![T[left].ptr] = << >>] EXCEPT ![b] = Terminated(v)])
    BY <1>2, <1>3, <1>4, <1>6, BufferPassedOn
  <2>2. live' = live \cup {s} /\ value' = [value EXCEPT ![s] = v]
    BY <1>7 DEF Made
  <2>3. Table(str', live', value', memory')
    BY <1>6, <1>7, <2>1, <2>2
  <2>4. \A t \in live : t # left => str'[t] = T[t]
    BY <1>3, <1>6, <1>7
  <2>5. \A t \in live : /\ str'[t].dependent => str[t].dependent \/ t \in mutable
                        /\ lent[t] # Nobody => str'[t].ptr = str[t].ptr
    BY <1>1, <1>3, <1>4, <1>6, <2>4, OldFacts
  <2> QED
    BY <1>3, <1>7, <2>3, <2>5, MadeKeeps
<1>8. CASE /\ memory' = grown(SubSeq(v, 1, n + 1))
           /\ str' = [T EXCEPT ![left].ptr = b]
           /\ UNCHANGED <<live, mutable, rooted, locked, cache, value, lent>>
  <2>1. Table([T EXCEPT ![left].ptr = b], live, value,
              [[memory EXCEPT ![T[left].ptr] = << >>]
                 EXCEPT ![b] = SubSeq(v, 1, LENGTH(T[left]) + 1)])
    BY <1>2, <1>3, <1>4, <1>6, BufferMoved
  <2>2. Table(str', live, value, memory')
    BY <1>6, <1>8, <2>1
  <2>3. \A t \in Strings : t # left => str'[t] = T[t]
    BY <1>3, <1>6, <1>8
  <2>4. \A t \in live : str'[t].dependent => t \in mutable'
    BY <1>1, <1>3, <1>4, <1>8, <2>3, OldFacts
  <2>5. \A t \in Strings : lent'[t] # Nobody => t \in live \ mutable' /\ str'[t].ptr = lent'[t]
    BY <1>4, <1>6, <1>8, <2>3, OldFacts
  <2>6. /\ mutable' \subseteq mutable /\ locked' \subseteq live /\ locked' \cap mutable' = {}
        /\ lent' \in [Strings -> Buffers \cup {Nobody}]
        /\ cache' \in [Strings -> Seq(Nat)]
        /\ \A t \in Strings : cache'[t] # << >> => t \in live /\ cache'[t] = value[t]
    BY <1>8, OldFacts
  <2> QED
    BY <1>8, <2>2, <2>4, <2>5, <2>6, NoneMadeKeeps
<1> QED
  BY <1>5, <1>7, <1>8
-----------------------------------------------------------------------------
(* js_FinalizeString.                                                      *)

\* What is marked is there, with what it depends on; what is kept is marked.
LEMMA MarkedFacts ==
  ASSUME StringsInv, NEW kept \in SUBSET rooted
  PROVE  /\ kept \subseteq Marked(kept) /\ Marked(kept) \subseteq live
         /\ \A t \in Marked(kept) : str[t].dependent => str[t].ptr \in Marked(kept)
<1>1. ASSUME NEW s \in kept
      PROVE  /\ s \in ToSet(Chain(str, s))
             /\ ToSet(Chain(str, s)) \subseteq live
             /\ \A t \in ToSet(Chain(str, s)) : str[t].dependent => str[t].ptr \in ToSet(Chain(str, s))
  <2> DEFINE c == Chain(str, s)
  <2>1. s \in live
    BY OldFacts
  <2>2. IsPath(str, live, c, s) /\ ~str[Last(c)].dependent
    BY <2>1, TypesOf, ChainFacts
  <2> HIDE DEF c
  <2>3. /\ c \in Seq(live) /\ Len(c) \in Nat /\ Len(c) >= 1 /\ c[1] = s /\ DOMAIN c = 1..Len(c)
        /\ Last(c) = c[Len(c)]
    BY <2>2 DEF IsPath, Last
  <2>4. ToSet(c) = {c[i] : i \in 1..Len(c)}
    BY <2>3 DEF ToSet
  <2>5. s \in ToSet(c)
    BY <2>3, <2>4
  <2>6. ToSet(c) \subseteq live
    BY <2>3, <2>4
  <2>7. ASSUME NEW t \in ToSet(c), str[t].dependent PROVE str[t].ptr \in ToSet(c)
    <3>1. PICK i \in 1..Len(c) : c[i] = t
      BY <2>4
    <3>2. i # Len(c)
      BY <2>2, <2>3, <2>7, <3>1, Zenon
    <3>3. i \in 1..Len(c) - 1 /\ i + 1 \in 1..Len(c)
      <4>1. Len(c) \in Nat
        BY <2>3
      <4> QED
        BY ONLY <3>2, <4>1
    <3>4. c[i + 1] = str[t].ptr
      BY <2>2, <3>1, <3>3 DEF IsPath
    <3> QED
      BY <2>4, <3>3, <3>4
  <2> QED
    BY <2>5, <2>6, <2>7 DEF c
<1>2. Marked(kept) = UNION {ToSet(Chain(str, s)) : s \in kept}
  BY DEF Marked
<1>3. kept \subseteq Marked(kept)
  BY <1>1, <1>2
<1>4. Marked(kept) \subseteq live
  BY <1>1, <1>2
<1>5. ASSUME NEW t \in Marked(kept), str[t].dependent PROVE str[t].ptr \in Marked(kept)
  <2>1. PICK s \in kept : t \in ToSet(Chain(str, s))
    BY <1>2
  <2> QED
    BY <1>1, <1>2, <1>5, <2>1
<1> QED
  BY <1>3, <1>4, <1>5

\* The flat strings of D.
FlatIn(D, b) == \E s \in D : ~str[s].dependent /\ str[s].ptr = b

\* Nothing that is left points to what is not.  What is locked is not mutable and depends
\* on nothing.
LEMMA CollectGarbageKeeps ==
  ASSUME StringsInv, NEW kept \in SUBSET rooted, CollectGarbage(kept)
  PROVE  StringsInv'
<1> DEFINE dead == live \ (Marked(kept) \cup locked)
<1>1. /\ live' = live \ dead /\ mutable' = mutable \ dead /\ rooted' = kept /\ locked' = locked
      /\ memory' = [b \in Buffers |-> IF FlatIn(dead, b) THEN << >> ELSE memory[b]]
      /\ str' = [s \in Strings |-> IF s \in dead THEN Flat(0, Nobody) ELSE str[s]]
      /\ cache' = [s \in Strings |-> IF s \in dead THEN << >> ELSE cache[s]]
      /\ value' = [s \in Strings |-> IF s \in dead THEN << >> ELSE value[s]]
      /\ lent' = [s \in Strings |-> IF s \in dead THEN Nobody ELSE lent[s]]
  BY DEF CollectGarbage, FlatIn, Purged
<1>2. /\ str \in [Strings -> Words] /\ live \subseteq Strings
      /\ value \in [Strings -> Seq(Nat)] /\ memory \in [Buffers -> Seq(Nat)]
      /\ Sound(str, live, value, memory) /\ Owned(str, live, memory)
  BY TypesOf DEF StringsInv, Table
<1>3. /\ kept \subseteq Marked(kept) /\ Marked(kept) \subseteq live
      /\ \A t \in Marked(kept) : str[t].dependent => str[t].ptr \in Marked(kept)
  BY MarkedFacts
<1>4. /\ live' \subseteq live /\ kept \subseteq live' /\ locked \subseteq live'
      /\ Marked(kept) \subseteq live'
      /\ \A t \in live' : t \notin dead /\ (t \in Marked(kept) \/ t \in locked)
      /\ \A t \in live : t \in dead \/ t \in live'
      /\ dead \subseteq live
  BY <1>1, <1>3, OldFacts
<1> HIDE DEF dead
<1>5. Flat(0, Nobody) \in Words /\ << >> \in Seq(Nat)
  BY WrittenFacts
<1>6. str' \in [Strings -> Words] /\ \A t \in live' : str'[t] = str[t]
  BY <1>1, <1>2, <1>4, <1>5
<1>7. value' \in [Strings -> Seq(Nat)] /\ \A t \in live' : value'[t] = value[t]
  BY <1>1, <1>2, <1>4, <1>5
<1>8. /\ memory' \in [Buffers -> Seq(Nat)]
      /\ \A b \in Buffers : memory'[b] = IF FlatIn(dead, b) THEN << >> ELSE memory[b]
  BY <1>1, <1>2, <1>5
<1>9. \A t \in live' : str[t].dependent => str[t].ptr \in live'
  <2> TAKE t \in live'
  <2> HAVE str[t].dependent
  <2>1. t \in live /\ t \in mutable
    BY <1>4, OldFacts
  <2>2. t \notin locked
    BY <2>1, OldFacts
  <2> QED
    BY <1>3, <1>4, <2>2
<1>10. \A t \in live' : ~str[t].dependent => memory'[str[t].ptr] = memory[str[t].ptr]
  <2> TAKE t \in live'
  <2> HAVE ~str[t].dependent
  <2>1. str[t].ptr \in Buffers /\ t \in live /\ t \notin dead
    BY <1>2, <1>4, FlatHasBuffer
  <2>2. ~FlatIn(dead, str[t].ptr)
    BY <1>2, <1>4, <2>1 DEF FlatIn, Owned
  <2> QED
    BY <1>8, <2>1, <2>2
<1>11. Sound(str', live', value', memory')
  <2>1. \A t \in live \cap live' : LENGTH(str'[t]) = LENGTH(str[t]) /\ value'[t] = value[t]
    BY <1>6, <1>7
  <2>2. ASSUME NEW t \in live' PROVE Backed(str', live', value', memory', t)
    <3>1. t \in live \cap live' /\ str'[t] = str[t]
      BY <1>4, <1>6
    <3>2. /\ str[t].dependent => str[t].ptr \in live'
          /\ ~str[t].dependent => memory'[str[t].ptr] = memory[str[t].ptr]
      BY <1>9, <1>10
    <3> QED
      BY <1>2, <2>1, <3>1, <3>2, BackedStays
  <2>3. live' \subseteq Strings
    BY <1>2, <1>4
  <2> QED
    BY <1>6, <1>7, <1>8, <2>2, <2>3 DEF Sound, Backed
<1>12. Owned(str', live', memory')
  <2>1. \A s, t \in live' :
          ~str'[s].dependent /\ ~str'[t].dependent /\ str'[s].ptr = str'[t].ptr => s = t
    BY <1>2, <1>4, <1>6 DEF Owned
  <2>2. ASSUME NEW b \in Buffers, memory'[b] # << >>
        PROVE  \E s \in live' : ~str'[s].dependent /\ str'[s].ptr = b
    <3>1. ~FlatIn(dead, b) /\ memory[b] # << >>
      BY <1>8, <2>2
    <3>2. PICK s \in live : ~str[s].dependent /\ str[s].ptr = b
      BY <1>2, <3>1 DEF Owned
    <3>3. s \in live'
      BY <1>4, <3>1, <3>2 DEF FlatIn
    <3> QED
      BY <1>6, <3>2, <3>3
  <2> QED
    BY <2>1, <2>2 DEF Owned
<1>13. Table(str', live', value', memory')
  BY <1>11, <1>12 DEF Table
<1>14. mutable' \subseteq live' /\ rooted' \subseteq live' /\ locked' \subseteq live'
  BY <1>1, <1>4, OldFacts
<1>15. \A t \in live' : str'[t].dependent => t \in mutable'
  BY <1>1, <1>4, <1>6, OldFacts
<1>16. locked' \cap mutable' = {}
  BY <1>1, OldFacts
<1>17. cache' \in [Strings -> Seq(Nat)] /\ CacheIsFresh'
  <2>1. cache' \in [Strings -> Seq(Nat)]
    BY <1>1, <1>5, OldFacts
  <2>2. ASSUME NEW t \in Strings, cache'[t] # << >> PROVE t \in live' /\ cache'[t] = value'[t]
    <3>1. t \notin dead /\ cache'[t] = cache[t]
      BY <1>1, <2>2
    <3>2. t \in live /\ cache[t] = value[t]
      BY <2>2, <3>1, OldFacts
    <3> QED
      BY <1>4, <1>7, <3>1, <3>2
  <2> QED
    BY <2>1, <2>2 DEF CacheIsFresh
<1>18. lent' \in [Strings -> Buffers \cup {Nobody}]
  BY <1>1, OldFacts
<1>19. \A t \in Strings : lent'[t] # Nobody => t \in live' \ mutable' /\ str'[t].ptr = lent'[t]
  <2> TAKE t \in Strings
  <2> HAVE lent'[t] # Nobody
  <2>1. t \notin dead /\ lent'[t] = lent[t]
    BY <1>1
  <2>2. t \in live \ mutable /\ str[t].ptr = lent[t]
    BY <2>1, OldFacts
  <2> QED
    BY <1>1, <1>4, <1>6, <2>1, <2>2
<1> QED
  BY <1>13, <1>14, <1>15, <1>16, <1>17, <1>18, <1>19 DEF StringsInv

-----------------------------------------------------------------------------
(* The theorems.                                                           *)

LEMMA StringsStep == ASSUME ~LocksMutable, StringsInv, [Next]_vars PROVE StringsInv'
<1>1. ASSUME NEW s \in Strings \ live, NEW b \in FreeBuffers, NEW v \in Literals,
             NEW grows \in BOOLEAN, NewString(s, b, v, grows)
      PROVE  StringsInv'
  BY <1>1, NewStringKeeps
<1>2. ASSUME NEW s \in Strings \ live, NEW t \in rooted,
             NEW start \in 0..MaxLength, NEW n \in 1..MaxLength,
             NewDependentString(s, t, start, n)
      PROVE  StringsInv'
  BY <1>2, NewDependentStringKeeps
<1>3. ASSUME NEW s \in Strings \ live, NEW b \in FreeBuffers, NEW t \in rooted,
             NEW start \in 0..MaxLength, NEW n \in 1..MaxLength,
             NewStringCopyN(s, b, t, start, n)
      PROVE  StringsInv'
  BY <1>3, NewStringCopyNKeeps
<1>4. ASSUME NEW s \in Strings \ live, NEW b \in Buffers, NEW left \in rooted,
             NEW right \in rooted, NEW ok \in BOOLEAN,
             ConcatCopies(s, b, left, right, ok)
      PROVE  StringsInv'
  BY <1>4, ConcatCopiesKeeps
<1>5. ASSUME NEW s \in Strings \ live, NEW b \in Buffers, NEW left \in rooted,
             NEW right \in rooted, NEW ok \in BOOLEAN,
             ConcatGrows(s, b, left, right, ok)
      PROVE  StringsInv'
  BY <1>5, ConcatGrowsKeeps
<1>6. ASSUME NEW s \in rooted, NEW b \in Buffers, UndependString(s, b)
      PROVE  StringsInv'
  BY <1>6, UndependStringKeeps
<1>7. ASSUME NEW s \in rooted, NEW b \in Buffers, GetStringChars(s, b)
      PROVE  StringsInv'
  BY <1>7, GetStringCharsKeeps
<1>8. ASSUME NEW s \in rooted, ReadString(s) PROVE StringsInv'
  <2>1. /\ str' = WithChars(str, s) /\ cache' = cache
        /\ UNCHANGED <<live, mutable, memory, rooted, locked, value, lent>>
    BY <1>8 DEF ReadString
  <2> QED
    BY <2>1, ReadStringKeeps
<1>9. ASSUME NEW s \in rooted, GetStringBytes(s) PROVE StringsInv'
  <2>1. /\ str' = WithChars(str, s) /\ cache' = [cache EXCEPT ![s] = Chars(s)]
        /\ UNCHANGED <<live, mutable, memory, rooted, locked, value, lent>>
    BY <1>9 DEF GetStringBytes
  <2> QED
    BY <2>1, ReadStringKeeps
<1>10. ASSUME NEW s \in rooted, LockGCThing(s) PROVE StringsInv'
  BY <1>10, LockKeeps
<1>11. ASSUME NEW kept \in SUBSET rooted, CollectGarbage(kept) PROVE StringsInv'
  BY <1>11, CollectGarbageKeeps
<1>12. CASE UNCHANGED vars
  BY <1>12 DEF vars, StringsInv, CacheIsFresh
<1> QED
  BY <1>1, <1>2, <1>3, <1>4, <1>5, <1>6, <1>7, <1>8, <1>9, <1>10, <1>11, <1>12 DEF Next

LEMMA StringsInvariant == ASSUME ~LocksMutable PROVE Spec => []StringsInv
BY StringsStart, StringsStep, PTL DEF Spec

\* Strings and buffers stay well formed, and every buffer in use belongs to one flat string:
\* js_ConcatStrings and js_FinalizeString neither leak one nor free one twice.
THEOREM MemoryIsSound == ASSUME ~LocksMutable PROVE Spec => []MemorySound
<1>1. ASSUME StringsInv PROVE MemorySound
  <2>1. Sound(str, live, value, memory) /\ Owned(str, live, memory)
    BY <1>1 DEF StringsInv, Table
  <2>2. /\ live \subseteq Strings /\ mutable \subseteq live /\ rooted \subseteq live
        /\ memory \in [Buffers -> Seq(Nat)]
    BY <1>1, <2>1 DEF StringsInv, Sound
  <2>3. \A s \in live : str[s].ptr \in IF str[s].dependent THEN Strings ELSE Buffers
    BY <2>1, <2>2 DEF Sound, DependsOnBase, HasBuffer
  <2>4. ASSUME NEW b \in Buffers
        PROVE  Cardinality(Owner(b)) = IF memory[b] = << >> THEN 0 ELSE 1
    <3>1. CASE memory[b] = << >>
      <4>1. Owner(b) = {}
        BY <2>1, <3>1, FlatHasBuffer DEF Owner
      <4> QED
        BY <3>1, <4>1, FS_EmptySet
    <3>2. CASE memory[b] # << >>
      <4>1. PICK s \in live : ~str[s].dependent /\ str[s].ptr = b
        BY <2>1, <3>2 DEF Owned
      <4>2. Owner(b) = {s}
        BY <2>1, <4>1 DEF Owner, Owned
      <4> QED
        BY <3>2, <4>2, FS_Singleton
    <3> QED
      BY <3>1, <3>2
  <2> QED
    BY <2>2, <2>3, <2>4 DEF MemorySound, TypeOK, BuffersOwned
<1> QED
  BY <1>1, StringsInvariant, PTL

\* A string is what it was when it was made, through js_ConcatStrings taking its buffer over,
\* js_MinimizeDependentStrings changing its base and the collector freeing what is not
\* marked, and what it depends on is there as long as it is.
THEOREM ValuesAreKept == ASSUME ~LocksMutable PROVE Spec => []ValuesKept
<1>1. ASSUME StringsInv PROVE ValuesKept
  <2>1. ASSUME NEW s \in live PROVE ToSet(Chain(str, s)) \subseteq live
    <3> DEFINE c == Chain(str, s)
    <3>1. IsPath(str, live, c, s)
      BY <1>1, TypesOf, ChainFacts
    <3> HIDE DEF c
    <3>2. c \in Seq(live)
      BY <3>1 DEF IsPath
    <3>3. ToSet(c) \subseteq live
      BY <3>2 DEF ToSet
    <3> QED
      BY <3>3 DEF c
  <2>2. \A s \in live : Chars(s) = value[s]
    BY <1>1, TypesOf
  <2> QED
    BY <2>1, <2>2 DEF ValuesKept
<1> QED
  BY <1>1, StringsInvariant, PTL

\* The pointer js_GetStringChars has returned stays good while the string lives: it has made
\* the string immutable, and js_ConcatStrings takes a mutable one's buffer only.
THEOREM LentStay == ASSUME ~LocksMutable PROVE Spec => []LentStays
<1>1. ASSUME StringsInv PROVE LentStays
  BY <1>1, TypesOf, OldFacts DEF LentStays
<1> QED
  BY <1>1, StringsInvariant, PTL

\* deflated_string_cache, which js_GetStringBytes fills and js_FinalizeString purges, has no
\* bytes of a string that was at the address before.
THEOREM CacheStaysFresh == ASSUME ~LocksMutable PROVE Spec => []CacheIsFresh
<1>1. StringsInv => CacheIsFresh
  BY DEF StringsInv
<1> QED
  BY <1>1, StringsInvariant, PTL
=============================================================================
