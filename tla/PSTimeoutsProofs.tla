-------------------------- MODULE PSTimeoutsProofs --------------------------
(***************************************************************************)
(* The timespec arithmetic of psselect.c is exact, and the loop charges    *)
(* every event just the time spent in select(), in any units and for any   *)
(* number of events.                                                       *)
(***************************************************************************)
EXTENDS PSTimeouts, NumbersAndLists, FiniteSetTheorems, TLAPS

LEMMA UnitsFacts ==
  /\ NS_PER_SEC \in Nat /\ NS_PER_SEC >= 1
  /\ NS_PER_MS \in Nat /\ NS_PER_MS >= 1
  /\ MS_PER_SEC \in Nat /\ MS_PER_SEC >= 1
  /\ NS_PER_SEC = MS_PER_SEC * NS_PER_MS
BY UnitsAssumption

\* Dividing by a positive number.
LEMMA Division ==
  ASSUME NEW a \in Nat, NEW b \in Nat \ {0}
  PROVE  /\ a \div b \in Nat
         /\ a % b \in 0 .. b - 1
         /\ a = (a \div b) * b + (a % b)
OBVIOUS

\* A timespec with more seconds is longer, whatever the nanoseconds.
LEMMA LongerBySeconds ==
  ASSUME NEW s1 \in Int, NEW s2 \in Int, s1 < s2,
         NEW n1 \in 0 .. NS_PER_SEC - 1, NEW n2 \in Nat
  PROVE  s1 * NS_PER_SEC + n1 < s2 * NS_PER_SEC + n2
<1>1. PICK k \in Nat : s2 = s1 + 1 + k
  <2>1. s2 - s1 - 1 \in Nat /\ s2 = s1 + 1 + (s2 - s1 - 1)
    OBVIOUS
  <2> QED
    BY <2>1
<1>2. s2 * NS_PER_SEC = s1 * NS_PER_SEC + NS_PER_SEC + k * NS_PER_SEC
  BY <1>1, UnitsFacts
<1>3. k * NS_PER_SEC \in Nat /\ s1 * NS_PER_SEC \in Int
  BY <1>1, UnitsFacts
<1> QED
  BY <1>2, <1>3, UnitsFacts

\* diff_timespec is exact, and proper when the end is not before the start.
LEMMA DiffExact ==
  ASSUME NEW a, NEW b, Normal(a), Normal(b)
  PROVE  LET d == diff_timespec(a, b) IN
           /\ d = Ts(d.sec, d.nsec) /\ d.sec \in Int /\ d.nsec \in 0 .. NS_PER_SEC - 1
           /\ Ns(d) = Ns(b) - Ns(a)
           /\ d.sec < 0 <=> Ns(b) < Ns(a)
<1> DEFINE d == diff_timespec(a, b)
<1>1. /\ a.sec \in Nat /\ a.nsec \in Nat /\ a.nsec < NS_PER_SEC
      /\ b.sec \in Nat /\ b.nsec \in Nat /\ b.nsec < NS_PER_SEC
  BY UnitsFacts DEF Normal
<1>2. d = Ts(d.sec, d.nsec) /\ d.sec \in Int /\ d.nsec \in 0 .. NS_PER_SEC - 1
  BY <1>1, UnitsFacts DEF diff_timespec, Ts
<1>3. Ns(d) = Ns(b) - Ns(a)
  <2>1. CASE b.nsec - a.nsec < 0
    <3>1. d.sec = b.sec - a.sec - 1 /\ d.nsec = b.nsec - a.nsec + NS_PER_SEC
      BY <2>1 DEF diff_timespec, Ts
    <3>2. (b.sec - a.sec - 1) * NS_PER_SEC
            = b.sec * NS_PER_SEC - a.sec * NS_PER_SEC - NS_PER_SEC
      BY <1>1, UnitsFacts
    <3> QED
      BY <1>1, <3>1, <3>2, UnitsFacts DEF Ns
  <2>2. CASE ~(b.nsec - a.nsec < 0)
    <3>1. d.sec = b.sec - a.sec /\ d.nsec = b.nsec - a.nsec
      BY <2>2 DEF diff_timespec, Ts
    <3>2. (b.sec - a.sec) * NS_PER_SEC = b.sec * NS_PER_SEC - a.sec * NS_PER_SEC
      BY <1>1, UnitsFacts
    <3> QED
      BY <1>1, <3>1, <3>2, UnitsFacts DEF Ns
  <2> QED
    BY <2>1, <2>2
<1> HIDE DEF d
<1>4. d.sec < 0 => Ns(d) < 0
  BY <1>2, LongerBySeconds, UnitsFacts DEF Ns
<1>5. d.sec >= 0 => Ns(d) >= 0
  BY <1>2, UnitsFacts DEF Ns
<1>6. Ns(a) \in Int /\ Ns(b) \in Int
  BY <1>1, UnitsFacts DEF Ns
<1> QED
  BY <1>2, <1>3, <1>4, <1>5, <1>6 DEF d

\* A timeout of no less than a second never was a missing one.
LEMMA NormalIsATimeout == ASSUME NEW t, Normal(t) PROVE t # NoTimeout
BY DEF Normal, NoTimeout, Ts

\* update_timeout subtracts exactly and stops at zero.
LEMMA UpdateExact ==
  ASSUME NEW d, NEW t, Normal(d), Normal(t)
  PROVE  /\ Normal(update_timeout(d, t))
         /\ Ns(update_timeout(d, t)) = AtLeastZero(Ns(t) - Ns(d))
<1> DEFINE left == diff_timespec(d, t)
<1>1. /\ left = Ts(left.sec, left.nsec)
      /\ left.sec \in Int /\ left.nsec \in 0 .. NS_PER_SEC - 1
      /\ Ns(left) = Ns(t) - Ns(d)
      /\ left.sec < 0 <=> Ns(t) < Ns(d)
  BY DiffExact
<1>2. update_timeout(d, t) = IF left.sec < 0 THEN Zero ELSE left
  BY NormalIsATimeout DEF update_timeout
<1>3. Ns(t) \in Int /\ Ns(d) \in Int
  BY UnitsFacts DEF Ns, Normal
<1>4. Normal(Zero) /\ Ns(Zero) = 0
  BY UnitsFacts DEF Normal, Zero, Ts, Ns
<1> HIDE DEF left
<1>5. CASE left.sec < 0
  BY <1>1, <1>2, <1>3, <1>4, <1>5 DEF AtLeastZero
<1>6. CASE ~(left.sec < 0)
  <2>1. Normal(left)
    BY <1>1, <1>6 DEF Normal
  <2> QED
    BY <1>1, <1>2, <1>3, <1>6, <2>1 DEF AtLeastZero
<1> QED
  BY <1>5, <1>6

\* minimum_timeout returns one of its arguments, and the shorter one.
LEMMA MinimumExact ==
  ASSUME NEW a, NEW b, Normal(a), Normal(b)
  PROVE  /\ minimum_timeout(a, b) \in {a, b}
         /\ Ns(minimum_timeout(a, b)) <= Ns(a)
         /\ Ns(minimum_timeout(a, b)) <= Ns(b)
<1>1. /\ a.sec \in Nat /\ a.nsec \in 0 .. NS_PER_SEC - 1
      /\ b.sec \in Nat /\ b.nsec \in 0 .. NS_PER_SEC - 1
  BY DEF Normal
<1>2. a.sec < b.sec => Ns(a) < Ns(b)
  BY <1>1, LongerBySeconds, UnitsFacts DEF Ns
<1>3. b.sec < a.sec => Ns(b) < Ns(a)
  BY <1>1, LongerBySeconds, UnitsFacts DEF Ns
<1>4. a.sec = b.sec => (a.nsec < b.nsec <=> Ns(a) < Ns(b))
  BY <1>1, UnitsFacts DEF Ns
<1>5. Ns(a) \in Int /\ Ns(b) \in Int
  BY <1>1, UnitsFacts DEF Ns
<1> QED
  BY <1>1, <1>2, <1>3, <1>4, <1>5, NormalIsATimeout DEF minimum_timeout

\* A clock reading is a proper timespec for the number it shows.
LEMMA ClockExact ==
  ASSUME NEW n \in Nat PROVE Normal(Clock(n)) /\ Ns(Clock(n)) = n
<1>1. /\ n \div NS_PER_SEC \in Nat
      /\ n % NS_PER_SEC \in 0 .. NS_PER_SEC - 1
      /\ n = (n \div NS_PER_SEC) * NS_PER_SEC + (n % NS_PER_SEC)
  <2>1. NS_PER_SEC \in Nat \ {0}
    BY UnitsFacts
  <2> QED
    BY <2>1, Division
<1> QED
  BY <1>1 DEF Clock, Normal, Ns, Ts

\* The timeout argument of ps_AddSelect, unless negative, becomes that many
\* milliseconds.
LEMMA FromMsExact ==
  ASSUME NEW ms \in Nat
  PROVE  Normal(FromMs(ms)) /\ Ns(FromMs(ms)) = ms * NS_PER_MS
<1> DEFINE q == ms \div MS_PER_SEC
           r == ms % MS_PER_SEC
<1>1. q \in Nat /\ r \in 0 .. MS_PER_SEC - 1 /\ ms = q * MS_PER_SEC + r
  <2>1. MS_PER_SEC \in Nat \ {0}
    BY UnitsFacts
  <2> QED
    BY <2>1, Division
<1>2. FromMs(ms) = Ts(q, r * NS_PER_MS)
  BY DEF FromMs
<1> HIDE DEF q, r
<1>4. r * NS_PER_MS \in 0 .. NS_PER_SEC - 1
  <2>1. PICK k \in Nat : MS_PER_SEC = r + 1 + k
    <3>1. MS_PER_SEC - r - 1 \in Nat /\ MS_PER_SEC = r + 1 + (MS_PER_SEC - r - 1)
      BY <1>1, UnitsFacts
    <3> QED
      BY <3>1
  <2>2. NS_PER_SEC = r * NS_PER_MS + NS_PER_MS + k * NS_PER_MS
    BY <1>1, <2>1, UnitsFacts
  <2>3. r * NS_PER_MS \in Nat /\ k * NS_PER_MS \in Nat
    BY <1>1, <2>1, UnitsFacts
  <2> QED
    BY <2>2, <2>3, UnitsFacts
<1>5. q * NS_PER_SEC + r * NS_PER_MS = ms * NS_PER_MS
  <2>1. q * (MS_PER_SEC * NS_PER_MS) = (q * MS_PER_SEC) * NS_PER_MS
    BY <1>1, UnitsFacts
  <2>2. q * MS_PER_SEC \in Nat
    BY <1>1, UnitsFacts
  <2>3. (q * MS_PER_SEC + r) * NS_PER_MS = (q * MS_PER_SEC) * NS_PER_MS + r * NS_PER_MS
    BY <1>1, <2>2, UnitsFacts
  <2> QED
    BY <1>1, <2>1, <2>3, UnitsFacts
<1> QED
  BY <1>1, <1>2, <1>4, <1>5 DEF Normal, Ns, Ts

-----------------------------------------------------------------------------
(* The loop.                                                               *)

\* An event's timeout field, and what it is made of.
SlotOK(s) ==
  IF asked[s] = -1
  THEN timeout[s] = NoTimeout
  ELSE /\ Normal(timeout[s])
       /\ Ns(timeout[s]) = AtLeastZero(asked[s] * NS_PER_MS - spent[s])

\* The inductive invariant of TypeOK and TimeAccounted.
Accounted ==
  /\ phase \in {"running", "waiting"}
  /\ now \in Nat /\ start \in Nat /\ start <= now
  /\ DOMAIN timeout = Slots
  /\ asked \in [Slots -> Nat \cup {-1}]
  /\ spent \in [Slots -> Nat]
  /\ \A s \in Used : SlotOK(s)

\* The event ps_AddSelect has just made.
LEMMA FreshSlot ==
  ASSUME NEW ms \in Nat \cup {-1}
  PROVE  IF ms = -1 THEN FromMs(ms) = NoTimeout
         ELSE Normal(FromMs(ms)) /\ Ns(FromMs(ms)) = AtLeastZero(ms * NS_PER_MS - 0)
<1>1. CASE ms = -1
  BY <1>1 DEF FromMs
<1>2. CASE ms \in Nat
  <2>1. ms * NS_PER_MS \in Nat
    BY <1>2, UnitsFacts
  <2> QED
    BY <1>2, <2>1, FromMsExact DEF AtLeastZero
<1> QED
  BY <1>1, <1>2

\* What the loop takes for the duration of a wait is its duration.
LEMMA DurationExact ==
  ASSUME now \in Nat, start \in Nat, start <= now,
         NEW duration, duration = diff_timespec(Clock(start), Clock(now))
  PROVE  Normal(duration) /\ Ns(duration) = now - start
<1>1. /\ Normal(Clock(start)) /\ Ns(Clock(start)) = start
      /\ Normal(Clock(now)) /\ Ns(Clock(now)) = now
  BY ClockExact
<1>2. /\ duration = Ts(duration.sec, duration.nsec)
      /\ duration.sec \in Int /\ duration.nsec \in 0 .. NS_PER_SEC - 1
      /\ Ns(duration) = now - start
      /\ duration.sec < 0 <=> now < start
  BY <1>1, DiffExact
<1> QED
  BY <1>2 DEF Normal

\* Charging the duration of a wait takes just that off what was left.
LEMMA ChargedSlot ==
  ASSUME Accounted, NEW s \in Used, NEW duration, NEW t,
         duration = diff_timespec(Clock(start), Clock(now)),
         t = update_timeout(duration, timeout[s])
  PROVE  IF asked[s] = -1 THEN t = NoTimeout
         ELSE /\ Normal(t)
              /\ Ns(t) = AtLeastZero(asked[s] * NS_PER_MS - (spent[s] + (now - start)))
<1>1. now \in Nat /\ start \in Nat /\ start <= now /\ SlotOK(s)
  BY DEF Accounted
<1>3. Normal(duration) /\ Ns(duration) = now - start
  BY <1>1, DurationExact
<1>4. CASE asked[s] = -1
  BY <1>1, <1>4 DEF SlotOK, update_timeout
<1>5. CASE asked[s] # -1
  <2>1. Normal(timeout[s]) /\ Ns(timeout[s]) = AtLeastZero(asked[s] * NS_PER_MS - spent[s])
    BY <1>1, <1>5 DEF SlotOK
  <2>2. Normal(t) /\ Ns(t) = AtLeastZero(Ns(timeout[s]) - (now - start))
    BY <1>3, <2>1, UpdateExact
  <2>3. asked[s] * NS_PER_MS \in Int /\ spent[s] \in Nat
    BY UnitsFacts DEF Accounted, Used
  <2>4. AtLeastZero(AtLeastZero(asked[s] * NS_PER_MS - spent[s]) - (now - start))
          = AtLeastZero(asked[s] * NS_PER_MS - (spent[s] + (now - start)))
    BY <1>1, <2>3 DEF AtLeastZero
  <2> QED
    BY <1>5, <2>1, <2>2, <2>4
<1> QED
  BY <1>4, <1>5

LEMMA AccountedInductive ==
  (Init => Accounted) /\ (Accounted /\ [Next]_vars => Accounted')
<1>1. Init => Accounted
  BY DEF Init, Accounted, Used
<1>2. ASSUME Accounted, [Next]_vars PROVE Accounted'
  <2> USE <1>2
  <2>1. ASSUME NEW s \in Slots, NEW ms \in Requests, AddSelect(s, ms) PROVE Accounted'
    <3>1. /\ DOMAIN timeout' = Slots /\ timeout'[s] = FromMs(ms)
          /\ asked' \in [Slots -> Nat \cup {-1}] /\ asked'[s] = ms
          /\ spent' \in [Slots -> Nat] /\ spent'[s] = 0
          /\ UNCHANGED <<phase, now, start>>
      BY <2>1, RequestsAssumption DEF AddSelect, Accounted
    <3>2. \A u \in Slots \ {s} :
            timeout'[u] = timeout[u] /\ asked'[u] = asked[u] /\ spent'[u] = spent[u]
      BY <2>1 DEF AddSelect, Accounted
    <3>3. SlotOK(s)'
      BY <3>1, FreshSlot, RequestsAssumption DEF SlotOK
    <3>4. \A u \in Used' \ {s} : SlotOK(u)'
      BY <3>2 DEF SlotOK, Accounted, Used
    <3> QED
      BY <3>1, <3>3, <3>4 DEF Accounted
  <2>2. ASSUME NEW s \in Slots, RemoveSelect(s) PROVE Accounted'
    BY <2>2 DEF RemoveSelect, Accounted, Used, SlotOK
  <2>3. CASE ScriptRuns(1)
    BY <2>3 DEF ScriptRuns, Accounted, Used, SlotOK
  <2>4. CASE EnterSelect
    BY <2>4 DEF EnterSelect, Accounted, Used, SlotOK
  <2>5. CASE Wait
    BY <2>5 DEF Wait, Accounted, Used, SlotOK
  <2>6. CASE Charge
    <3> DEFINE duration == diff_timespec(Clock(start), Clock(now))
    <3>1. \A s \in Used : /\ timeout'[s] = update_timeout(duration, timeout[s])
                          /\ spent'[s] = spent[s] + (now - start)
                          /\ asked'[s] = asked[s]
      BY <2>6 DEF Charge, Used
    <3>2. Used' \subseteq Used
      BY <2>6 DEF Charge, Used
    <3>3. \A s \in Used : SlotOK(s)'
      BY <3>1, ChargedSlot DEF SlotOK
    <3>4. spent' \in [Slots -> Nat]
      BY <2>6 DEF Charge, Accounted
    <3> QED
      BY <2>6, <3>2, <3>3, <3>4 DEF Charge, Accounted
  <2>7. CASE UNCHANGED vars
    BY <2>7 DEF vars, Accounted, Used, SlotOK
  <2> QED
    BY <2>1, <2>2, <2>3, <2>4, <2>5, <2>6, <2>7 DEF Next, Ready, TimesOut, Stopped
<1> QED
  BY <1>1, <1>2

\* Each event's timeout is always what was asked for less the time spent in
\* select(), never below zero.
THEOREM Accounting == Spec => []TimeAccounted
<1>1. Accounted => TimeAccounted
  BY DEF Accounted, SlotOK, TimeAccounted
<1> QED
  BY <1>1, AccountedInductive, PTL DEF Spec

\* Every timespec in the list is proper: no negative part, nanoseconds below a
\* second.
THEOREM TimespecsProper == Spec => []TypeOK
<1>1. Accounted => TypeOK
  BY DEF Accounted, SlotOK, TypeOK
<1> QED
  BY <1>1, AccountedInductive, PTL DEF Spec

-----------------------------------------------------------------------------
(* The shortest timeout.  FoldSet is a recursive function on the subsets   *)
(* of the set that is folded; there is one if the set is finite, since a   *)
(* set of n elements needs no more than n unfoldings.                      *)

Chosen(T) == CHOOSE x \in T : TRUE

Unfolded(S, G) ==
  [T \in SUBSET S |-> IF T = {} THEN NoTimeout
                      ELSE minimum_timeout(Chosen(T), G[T \ {Chosen(T)}])]

LEMMA ChosenIsThere == ASSUME NEW T, T # {} PROVE Chosen(T) \in T
BY DEF Chosen

\* minimum_timeout returns one of its arguments.
LEMMA MinimumIsOne == ASSUME NEW a, NEW b PROVE minimum_timeout(a, b) \in {a, b}
BY DEF minimum_timeout

LEMMA UnfoldedType ==
  ASSUME NEW S, NEW G \in [SUBSET S -> S \cup {NoTimeout}]
  PROVE  Unfolded(S, G) \in [SUBSET S -> S \cup {NoTimeout}]
<1>1. ASSUME NEW T \in SUBSET S, T # {}
      PROVE  minimum_timeout(Chosen(T), G[T \ {Chosen(T)}]) \in S \cup {NoTimeout}
  BY <1>1, ChosenIsThere, MinimumIsOne
<1> QED
  BY <1>1 DEF Unfolded

\* The function FoldSet chooses exists.
LEMMA FoldExists ==
  ASSUME NEW S, IsFiniteSet(S) PROVE \E G : G = Unfolded(S, G)
<1> DEFINE X == [SUBSET S -> S \cup {NoTimeout}]
           F == [p \in Nat \X X |-> Unfolded(S, p[2])]
           z == [T \in SUBSET S |-> NoTimeout]
           N == Cardinality(S) + 1
<1>1. N \in Nat /\ N >= 1 /\ Cardinality(S) \in Nat
  BY FS_CardinalityType
<1>2. z \in X
  OBVIOUS
<1>3. \A n \in Nat, G \in X : F[<<n, G>>] = Unfolded(S, G)
  <2>1. ASSUME NEW n \in Nat, NEW G \in X PROVE F[<<n, G>>] = Unfolded(S, G)
    <3>1. <<n, G>> \in Nat \X X /\ <<n, G>>[2] = G
      OBVIOUS
    <3> HIDE DEF X
    <3> QED
      BY <3>1
  <2> QED
    BY <2>1, Zenon
<1>4. F \in [Nat \X X -> X]
  <2>1. \A p \in Nat \X X : Unfolded(S, p[2]) \in X
    BY UnfoldedType
  <2> HIDE DEF X
  <2> QED
    BY <2>1
<1>5. PICK C : IsRecursion(C, N, X, z, F)
  <2> HIDE DEF X, F, z, N
  <2> QED
    BY <1>1, <1>2, <1>4, PrimitiveRecursion
<1>6. /\ \A n \in 0..N : C[n] \in X
      /\ \A n \in 1..N : C[n] = Unfolded(S, C[n - 1])
  <2> HIDE DEF X, F, N
  <2>1. \A n \in 0..N : C[n] \in X
    BY <1>5 DEF IsRecursion
  <2>2. \A n \in 1..N : n - 1 \in Nat /\ n - 1 \in 0..N /\ n \in Nat
    BY <1>1
  <2> QED
    BY <1>3, <1>5, <2>1, <2>2 DEF IsRecursion
<1> DEFINE early == {n \in 1..N : \E T \in SUBSET S : Cardinality(T) < n /\ C[n][T] # C[n - 1][T]}
<1>7. early = {}
  <2>1. SUFFICES ASSUME early # {} PROVE FALSE
    OBVIOUS
  <2>2. PICK n \in early : \A m \in early : n <= m
    <3>1. early \subseteq Nat
      BY <1>1
    <3> HIDE DEF early
    <3> QED
      BY <2>1, <3>1, Least
  <2>3. n \in 1..N /\ n \in Nat
    BY <1>1
  <2>4. PICK T \in SUBSET S : Cardinality(T) < n /\ C[n][T] # C[n - 1][T]
    OBVIOUS
  <2>5. IsFiniteSet(T) /\ Cardinality(T) \in Nat
    BY FS_Subset, FS_CardinalityType
  <2>6. CASE T = {}
    <3>1. C[n][T] = NoTimeout
      BY <1>6, <2>3, <2>6 DEF Unfolded
    <3>2. CASE n = 1
      <4>1. C[n - 1] = z
        <5> HIDE DEF X, F, z
        <5> QED
          BY <1>5, <3>2 DEF IsRecursion
      <4> QED
        BY <2>4, <3>1, <4>1
    <3>3. CASE n # 1
      <4>1. n - 1 \in 1..N
        BY <2>3, <3>3, <1>1
      <4> QED
        BY <1>6, <2>4, <2>6, <3>1, <4>1 DEF Unfolded
    <3> QED
      BY <3>2, <3>3
  <2>7. CASE T # {}
    <3> DEFINE U == T \ {Chosen(T)}
    <3>1. Chosen(T) \in T /\ U \in SUBSET S
      BY <2>7, ChosenIsThere
    <3>2. Cardinality(U) = Cardinality(T) - 1
      BY <2>5, <3>1, FS_RemoveElement
    <3>3. Cardinality(T) # 0
      BY <2>5, <2>7, FS_EmptySet
    <3> HIDE DEF N
    <3>4. n - 1 \in 1..N /\ Cardinality(U) < n - 1 /\ (n - 1) - 1 \in Nat
      BY <1>1, <2>3, <2>4, <2>5, <3>2, <3>3
    <3>5. C[n][T] = minimum_timeout(Chosen(T), C[n - 1][U])
      <4>1. Unfolded(S, C[n - 1])[T] = minimum_timeout(Chosen(T), C[n - 1][U])
        BY <2>7 DEF Unfolded
      <4>2. C[n] = Unfolded(S, C[n - 1])
        BY <1>6, <2>3
      <4> QED
        BY <4>1, <4>2
    <3>6. C[n - 1][T] = minimum_timeout(Chosen(T), C[(n - 1) - 1][U])
      <4>1. Unfolded(S, C[(n - 1) - 1])[T] = minimum_timeout(Chosen(T), C[(n - 1) - 1][U])
        BY <2>7 DEF Unfolded
      <4>2. C[n - 1] = Unfolded(S, C[(n - 1) - 1])
        BY <1>6, <3>4
      <4> QED
        BY <4>1, <4>2
    <3>7. C[n - 1][U] # C[(n - 1) - 1][U]
      BY <2>4, <3>5, <3>6
    <3>8. n - 1 \in early
      BY <3>1, <3>4, <3>7
    <3> QED
      BY <2>2, <2>3, <3>8
  <2> QED
    BY <2>6, <2>7
<1>8. \A T \in SUBSET S : C[N][T] = C[N - 1][T]
  <2>1. ASSUME NEW T \in SUBSET S PROVE C[N][T] = C[N - 1][T]
    <3>1. Cardinality(T) <= Cardinality(S) /\ Cardinality(T) \in Nat
      BY FS_Subset, FS_CardinalityType
    <3>2. Cardinality(T) < N /\ N \in 1..N
      BY <1>1, <3>1
    <3> QED
      BY <1>7, <3>2
  <2> QED
    BY <2>1
<1>9. N \in 1..N /\ N \in 0..N /\ N - 1 \in 0..N
  BY <1>1
<1>10. C[N] = C[N - 1]
  <2> HIDE DEF N
  <2> QED
    BY <1>6, <1>8, <1>9
<1> QED
  BY <1>6, <1>9, <1>10

\* What FoldSet makes of a set of timeouts is one of them, or no timeout.
LEMMA MinimumOfSet ==
  ASSUME NEW S, IsFiniteSet(S)
  PROVE  FoldSet(minimum_timeout, NoTimeout, S) \in S \cup {NoTimeout}
<1> DEFINE fold == CHOOSE G : G = Unfolded(S, G)
<1>1. FoldSet(minimum_timeout, NoTimeout, S) = fold[S]
  BY DEF FoldSet, MapThenFoldSet, Unfolded, Chosen
<1>2. fold = Unfolded(S, fold)
  BY FoldExists
<1> HIDE DEF fold
<1> DEFINE bad   == {T \in SUBSET S : fold[T] \notin S \cup {NoTimeout}}
           sizes == {Cardinality(T) : T \in bad}
<1>3. ASSUME NEW T \in bad
      PROVE  \E U \in bad : Cardinality(U) < Cardinality(T)
  <2>1. T \in SUBSET S /\ fold[T] \notin S \cup {NoTimeout}
    OBVIOUS
  <2>2. fold[T] = IF T = {} THEN NoTimeout
                  ELSE minimum_timeout(Chosen(T), fold[T \ {Chosen(T)}])
    BY <1>2, <2>1 DEF Unfolded
  <2>3. T # {} /\ Chosen(T) \in T
    BY <2>1, <2>2, ChosenIsThere
  <2>4. fold[T \ {Chosen(T)}] \notin S \cup {NoTimeout}
    BY <2>1, <2>2, <2>3, MinimumIsOne
  <2>5. T \ {Chosen(T)} \in bad
    BY <2>1, <2>4
  <2>6. IsFiniteSet(T) /\ Cardinality(T) \in Nat
    BY <2>1, FS_Subset, FS_CardinalityType
  <2>7. Cardinality(T \ {Chosen(T)}) = Cardinality(T) - 1
    BY <2>3, <2>6, FS_RemoveElement
  <2> QED
    BY <2>5, <2>6, <2>7
<1>4. sizes \subseteq Nat
  BY FS_Subset, FS_CardinalityType
<1>5. sizes = {}
  <2>1. SUFFICES ASSUME sizes # {} PROVE FALSE
    OBVIOUS
  <2>2. PICK n \in sizes : \A m \in sizes : n <= m
    <3> HIDE DEF sizes
    <3> QED
      BY <1>4, <2>1, Least
  <2>3. PICK T \in bad : n = Cardinality(T)
    OBVIOUS
  <2>4. PICK U \in bad : Cardinality(U) < Cardinality(T)
    BY <1>3
  <2>5. Cardinality(U) \in sizes
    OBVIOUS
  <2>6. n \in Nat /\ n = Cardinality(T) /\ Cardinality(U) \in Nat /\ n <= Cardinality(U)
    BY <1>4, <2>2, <2>3, <2>5
  <2> QED
    BY ONLY <2>4, <2>6
<1>6. S \notin bad
  BY <1>5
<1> QED
  BY <1>1, <1>6

\* While the loop waits, its wait was made of the timeout of some event.
WaitIsSomeones ==
  phase = "waiting" /\ tv # NoTimeout =>
    \E s \in Used : timeout[s] # NoTimeout /\ tv = Timeval(timeout[s])

LEMMA WaitInductive ==
  (Init => WaitIsSomeones) /\ (Accounted /\ WaitIsSomeones /\ [Next]_vars => WaitIsSomeones')
<1>1. Init => WaitIsSomeones
  BY DEF Init, WaitIsSomeones
<1>2. ASSUME Accounted, WaitIsSomeones, [Next]_vars PROVE WaitIsSomeones'
  <2> USE <1>2
  <2>1. CASE phase' = "running"
    BY <2>1 DEF WaitIsSomeones
  <2>2. CASE UNCHANGED <<phase, tv, timeout>>
    BY <2>2 DEF WaitIsSomeones, Used
  <2>3. CASE EnterSelect
    <3> DEFINE given == {timeout[s] : s \in Used}
               field == [s \in Used |-> timeout[s]]
    <3>1. IsFiniteSet(Used) /\ field \in Surjection(Used, given)
      <4>1. Used \subseteq Slots
        BY DEF Used
      <4> QED
        BY <4>1, SlotsAssumption, FS_Subset DEF Surjection
    <3>2. IsFiniteSet(given)
      BY <3>1, FS_Surjection
    <3>3. Minimum \in given \cup {NoTimeout}
      BY <3>2, MinimumOfSet DEF Minimum
    <3>4. tv' = IF Minimum = NoTimeout THEN NoTimeout ELSE Timeval(Minimum)
      BY <2>3 DEF EnterSelect
    <3>5. UNCHANGED timeout
      BY <2>3 DEF EnterSelect
    <3> HIDE DEF field
    <3>6. ASSUME tv' # NoTimeout
          PROVE  \E s \in Used : timeout[s] # NoTimeout /\ tv' = Timeval(timeout[s])
      BY <3>3, <3>4, <3>6
    <3> QED
      BY <3>5, <3>6 DEF WaitIsSomeones, Used
  <2> QED
    BY <2>1, <2>2, <2>3
       DEF Next, AddSelect, RemoveSelect, ScriptRuns, Wait, Ready, TimesOut, Charge, Stopped, vars
<1> QED
  BY <1>1, <1>2

\* select() is told to wait no less than the timeout it is given.
LEMMA WaitsItsTime ==
  ASSUME NEW t, Normal(t) PROVE WaitNs(Timeval(t)) \in Int /\ WaitNs(Timeval(t)) >= Ns(t)
<1> DEFINE a == t.sec * NS_PER_SEC
           n == t.nsec
           u == NS_PER_US
<1>1. /\ Timeval(t).sec = t.sec /\ Timeval(t).usec = t.nsec * NS_PER_US
      /\ a \in Nat /\ n \in Nat
  BY UnitsFacts DEF Normal, Timeval
<1>2. u \in Nat /\ u >= 1
  BY UnitsAssumption
<1>3. WaitNs(Timeval(t)) = a + (n * u) * u /\ Ns(t) = a + n
  BY <1>1 DEF WaitNs, Ns
<1> HIDE DEF a, n, u
<1>4. n * u \in Nat /\ n * u >= n
  BY <1>1, <1>2
<1>5. (n * u) * u \in Nat /\ (n * u) * u >= n * u
  BY <1>2, <1>4
<1> QED
  BY <1>1, <1>3, <1>4, <1>5

\* When select() returns zero, the charge leaves some event with a timeout of
\* zero, however many events there are and whatever their timeouts: the loop
\* does not wake up for nothing.
THEOREM SomeoneDue == Spec => SomeoneIsDue
<1>1. ASSUME Accounted, WaitIsSomeones, TimesOut
      PROVE  \E s \in Slots : timeout'[s] = Zero
  <2>1. Charge /\ tv # NoTimeout /\ now - start >= WaitNs(tv) /\ phase = "waiting"
    BY <1>1 DEF TimesOut, WaitOver
  <2>2. PICK s \in Used : timeout[s] # NoTimeout /\ tv = Timeval(timeout[s])
    BY <1>1, <2>1 DEF WaitIsSomeones
  <2>3. Normal(timeout[s]) /\ s \in Slots
    BY <1>1, <2>2 DEF Accounted, SlotOK, Used
  <2> DEFINE duration == diff_timespec(Clock(start), Clock(now))
             left     == update_timeout(duration, timeout[s])
  <2>4. now \in Nat /\ start \in Nat /\ Normal(duration) /\ Ns(duration) = now - start
    BY <1>1, DurationExact DEF Accounted
  <2>5. timeout'[s] = left
    BY <2>1, <2>3 DEF Charge
  <2> HIDE DEF duration
  <2>6. Normal(left) /\ Ns(left) = AtLeastZero(Ns(timeout[s]) - (now - start))
    BY <2>3, <2>4, UpdateExact
  <2>7. Ns(timeout[s]) \in Int /\ now - start >= Ns(timeout[s])
    BY <2>1, <2>2, <2>3, <2>4, WaitsItsTime, UnitsFacts DEF Ns, Normal
  <2>8. Ns(left) = 0
    BY <2>4, <2>6, <2>7 DEF AtLeastZero
  <2> HIDE DEF left
  <2>9. left.sec = 0 /\ left.nsec = 0
    <3>1. left.sec \in Nat /\ left.nsec \in Nat /\ left.sec * NS_PER_SEC + left.nsec = 0
      BY <2>6, <2>8, UnitsFacts DEF Normal, Ns
    <3>2. ASSUME left.sec >= 1 PROVE left.sec * NS_PER_SEC >= 1
      BY <3>1, <3>2, UnitsFacts
    <3> QED
      BY <3>1, <3>2, UnitsFacts
  <2> QED
    BY <2>3, <2>5, <2>6, <2>9 DEF Normal, Zero
<1>2. Accounted /\ WaitIsSomeones /\ [Next]_vars
        => [TimesOut => \E s \in Slots : timeout'[s] = Zero]_vars
  BY <1>1
<1> QED
  BY <1>2, AccountedInductive, WaitInductive, PTL DEF Spec, SomeoneIsDue
=============================================================================
