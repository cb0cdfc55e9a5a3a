----------------------------- MODULE JSStrings -----------------------------
(***************************************************************************)
(* Dependent strings (js/src/jsstr.c).  A substring points into another    *)
(* string, its base, which may have a base itself; a + b, when a may grow, *)
(* takes a's buffer over and leaves a as a prefix of the result.  All the  *)
(* while a string is immutable for everybody who has it.                   *)
(*                                                                         *)
(* Memory is modelled as it is used: a string is a thing of the collected  *)
(* heap, a buffer of characters is malloc()'s.  A buffer holds what has    *)
(* been written to it, the terminator included; realloc() may move it.     *)
(***************************************************************************)
EXTENDS Integers, Sequences, SequencesExt, FiniteSets, Functions

CONSTANTS
  Strings, Buffers, Nobody,
  Literals,         \* what strings may be made from
  LENGTH_BITS,      \* JSSTRDEP_LENGTH_BITS
  START_BITS,       \* JSSTRDEP_START_BITS
  RECURSION_LIMIT,  \* JSSTRDEP_RECURSION_LIMIT
  MaxLength,        \* bound on the length of a string
  LocksMutable,     \* JS_LockGCThing is called for mutable strings too
  MayRunOut         \* js_NewGCThing may fail

\* That 2^n is a number is no assumption, but no prover knows it.
ASSUME BitsAssumption ==
  /\ LENGTH_BITS \in Nat \ {0} /\ START_BITS \in Nat \ {0}
  /\ 2^LENGTH_BITS \in Nat \ {0} /\ 2^START_BITS \in Nat \ {0}
  /\ RECURSION_LIMIT \in Nat /\ MaxLength \in Nat

ASSUME StringsAssumption ==
  /\ IsFiniteSet(Strings) /\ Nobody \notin Buffers
  /\ Literals \subseteq Seq(Nat)

VARIABLES
  live,     \* the strings of the heap
  str,      \* their two words
  mutable,  \* GCF_MUTABLE
  memory,   \* the contents of the buffers, << >> if free
  rooted,   \* the strings the rest of the program has
  locked,   \* GCF_LOCK
  cache,    \* deflated_string_cache, << >> where it has no entry
  value,    \* history: what a string was when it was made
  lent      \* history: the buffer js_GetStringChars has returned for a string

vars == <<live, str, mutable, memory, rooted, locked, cache, value, lent>>

MASK(bits) == 2^bits - 1

(***************************************************************************)
(* A string is flat, with a buffer of its own, or depends on a base: as a  *)
(* prefix, which has its length in all of the first word, or with a start  *)
(* and a length that share it.                                             *)
(***************************************************************************)
Flat(n, b)   == [dependent |-> FALSE, prefix |-> FALSE, length |-> n, ptr |-> b]
Prefix(n, t) == [dependent |-> TRUE, prefix |-> TRUE, length |-> n, ptr |-> t]
Sub(start, n, t) ==
  [dependent |-> TRUE, prefix |-> FALSE, length |-> start * 2^LENGTH_BITS + n, ptr |-> t]

START(x) == IF x.prefix THEN 0 ELSE (x.length \div 2^LENGTH_BITS) % 2^START_BITS
LENGTH(x) == IF x.dependent /\ ~x.prefix THEN x.length % 2^LENGTH_BITS ELSE x.length

\* The strings of table T from s on, each the base of the one before; the last is flat.
Chain(T, s) ==
  LET longest == Cardinality(Strings)
      C[n \in 0..longest] ==
        IF n = 0 THEN <<s>>
        ELSE LET c == C[n - 1] IN IF T[Last(c)].dependent THEN Append(c, T[Last(c)].ptr) ELSE c
  IN  C[longest]

\* Where in the last string of the chain each of its strings starts.
Offsets(T, chain) ==
  LET O[i \in DOMAIN chain] ==
        IF i = Len(chain) THEN 0 ELSE START(T[chain[i]]) + O[i + 1]
  IN  O

Chars(s) ==
  LET chain == Chain(str, s)
      start == Offsets(str, chain)[1]
  IN  SubSeq(memory[str[Last(chain)].ptr], start + 1, start + LENGTH(str[s]))

\* Variant: a start that needs more bits is stored all the same.
FitsAlways(start) == TRUE

Fits(start) == start <= MASK(START_BITS)

(***************************************************************************)
(* JSSTRING_CHARS(s), for what it does to the strings.  If the base is     *)
(* dependent js_MinimizeDependentStrings gives the strings of the chain    *)
(* the flat one for a base, as far as its recursion goes.                  *)
(***************************************************************************)
WithChars(T, s) ==
  LET chain   == Chain(T, s)
      starts  == Offsets(T, chain)
      rebased == {i \in 1..Len(chain) - 2 : i <= RECURSION_LIMIT + 1 /\ Fits(starts[i])}
      Rebased(i) ==
        IF starts[i] = 0 THEN [T[chain[i]] EXCEPT !.ptr = Last(chain)]
        ELSE Sub(starts[i], LENGTH(T[chain[i]]), Last(chain))
  IN  IF rebased = {} THEN T ELSE [t \in Strings |->
         IF \E i \in rebased : chain[i] = t
         THEN Rebased(CHOOSE i \in rebased : chain[i] = t) ELSE T[t]]

Init ==
  /\ live = {} /\ mutable = {} /\ rooted = {} /\ locked = {}
  /\ str = [s \in Strings |-> Flat(0, Nobody)]
  /\ memory = [b \in Buffers |-> << >>]
  /\ cache = [s \in Strings |-> << >>]
  /\ value = [s \in Strings |-> << >>]
  /\ lent = [s \in Strings |-> Nobody]

-----------------------------------------------------------------------------
Terminated(v) == Append(v, 0)
FreeBuffers   == {b \in Buffers : memory[b] = << >>}

\* A thing for the string, and somebody who has it.
Made(s, v, grows) ==
  /\ s \notin live
  /\ live' = live \cup {s}
  /\ mutable' = IF grows THEN mutable \cup {s} ELSE mutable \ {s}
  /\ value' = [value EXCEPT ![s] = v]
  /\ rooted' = rooted \cup {s}
  /\ UNCHANGED <<locked, cache, lent>>

\* js_NewStringCopyN, and JS_NewGrowableString.
NewString(s, b, v, grows) ==
  /\ memory' = [memory EXCEPT ![b] = Terminated(v)]
  /\ str' = [str EXCEPT ![s] = Flat(Len(v), b)]
  /\ Made(s, v, grows)

\* js_NewDependentString, of a part of t.
IsPart(t, start, n) ==
  t \in rooted /\ n > 0 /\ start + n <= LENGTH(str[t]) /\ n < LENGTH(str[t])

Part(t, start, n) == SubSeq(Chars(t), start + 1, start + n)

TooLarge(start, n) == start > MASK(START_BITS) \/ (start # 0 /\ n > MASK(LENGTH_BITS))

NewDependentString(s, t, start, n) ==
  /\ IsPart(t, start, n) /\ ~TooLarge(start, n)
  /\ str' = [str EXCEPT ![s] = IF start = 0 THEN Prefix(n, t) ELSE Sub(start, n, t)]
  /\ UNCHANGED memory
  /\ Made(s, Part(t, start, n), TRUE)

NewStringCopyN(s, b, t, start, n) ==
  /\ IsPart(t, start, n) /\ TooLarge(start, n)
  /\ memory' = [memory EXCEPT ![b] = Terminated(Part(t, start, n))]
  /\ str' = [WithChars(str, t) EXCEPT ![s] = Flat(n, b)]
  /\ Made(s, Part(t, start, n), FALSE)

\* JSSTRING_CHARS, from whatever reads a string.
ReadString(s) ==
  /\ s \in rooted
  /\ str' = WithChars(str, s)
  /\ UNCHANGED <<live, mutable, memory, rooted, locked, cache, value, lent>>

-----------------------------------------------------------------------------
(* js_ConcatStrings.  ok: js_NewGCThing finds a thing for the result.      *)

Nonempty(left, right) ==
  {left, right} \subseteq rooted /\ LENGTH(str[left]) > 0 /\ LENGTH(str[right]) > 0
  /\ LENGTH(str[left]) + LENGTH(str[right]) <= MaxLength

\* Variant: a string whose buffer has been lent may grow as well.
GrowsIfFlat(left) == ~str[left].dependent

Grows(left) == ~str[left].dependent /\ left \in mutable

\* The buffer is copied.
ConcatCopies(s, b, left, right, ok) ==
  /\ Nonempty(left, right) /\ ~Grows(left)
  /\ b \in FreeBuffers
  /\ LET read == WithChars(WithChars(str, right), left)
         v    == Chars(left) \o Chars(right)
     IN
     \/ /\ ok
        /\ memory' = [memory EXCEPT ![b] = Terminated(v)]
        /\ str' = [read EXCEPT ![s] = Flat(Len(v), b)]
        /\ Made(s, v, TRUE)
     \/ /\ MayRunOut /\ ~ok
        /\ str' = read
        /\ UNCHANGED <<live, mutable, memory, rooted, locked, cache, value, lent>>

\* Variant: it goes on as a string of its own.
LeftAsItWas(left, s, b) == Flat(LENGTH(str[left]), b)

LeftPrefix(left, s, b) == Prefix(LENGTH(str[left]), s)

\* The left string's buffer is b after realloc(), the one it was or another one; so is
\* whatever right may have in it.  The left one becomes a prefix of the result.
ConcatGrows(s, b, left, right, ok) ==
  /\ Nonempty(left, right) /\ Grows(left)
  /\ b \in FreeBuffers \cup {str[left].ptr}
  /\ LET read == WithChars(str, right)
         v    == Chars(left) \o Chars(right)
         grown(seq) == [[memory EXCEPT ![str[left].ptr] = << >>] EXCEPT ![b] = seq]
     IN
     \/ /\ ok
        /\ memory' = grown(Terminated(v))
        /\ str' = [read EXCEPT ![left] = LeftPrefix(left, s, b), ![s] = Flat(Len(v), b)]
        /\ Made(s, v, TRUE)
     \/ \* Out of memory: the buffer is cut to its old size.
        /\ MayRunOut /\ ~ok
        /\ memory' = grown(SubSeq(v, 1, LENGTH(str[left]) + 1))
        /\ str' = [read EXCEPT ![left].ptr = b]
        /\ UNCHANGED <<live, mutable, rooted, locked, cache, value, lent>>

-----------------------------------------------------------------------------
\* js_UndependString.
Undepended(s, b) ==
  IF str[s].dependent
  THEN /\ b \in FreeBuffers
       /\ memory' = [memory EXCEPT ![b] = Terminated(Chars(s))]
       /\ str' = [WithChars(str, s) EXCEPT ![s] = Flat(LENGTH(str[s]), b)]
  ELSE b = str[s].ptr /\ UNCHANGED <<memory, str>>

UndependString(s, b) ==
  /\ s \in rooted /\ str[s].dependent
  /\ Undepended(s, b)
  /\ UNCHANGED <<live, mutable, rooted, locked, cache, value, lent>>

\* js_GetStringChars: the caller may keep the pointer as long as the string lives.
GetStringChars(s, b) ==
  /\ s \in rooted
  /\ Undepended(s, b)
  /\ mutable' = mutable \ {s}
  /\ lent' = [lent EXCEPT ![s] = b]
  /\ UNCHANGED <<live, rooted, locked, cache, value>>

\* js_GetStringBytes.
GetStringBytes(s) ==
  /\ s \in rooted /\ cache[s] = << >>
  /\ cache' = [cache EXCEPT ![s] = Chars(s)]
  /\ str' = WithChars(str, s)
  /\ UNCHANGED <<live, mutable, memory, rooted, locked, value, lent>>

-----------------------------------------------------------------------------
\* js_LockGCThing takes any string for shallow, as dependent ones are always mutable: the
\* lock keeps the string and does not lead the collector to its base.
LockGCThing(s) ==
  /\ s \in rooted \ locked
  /\ s \in mutable => LocksMutable
  /\ locked' = locked \cup {s}
  /\ UNCHANGED <<live, str, mutable, memory, rooted, cache, value, lent>>

\* What the mark phase reaches from the strings kept.
Marked(kept) == UNION {ToSet(Chain(str, s)) : s \in kept}

\* Variant: the strings without a buffer are left out.
PurgedIfFlat(dead) ==
  [s \in Strings |-> IF s \in dead /\ ~str[s].dependent THEN << >> ELSE cache[s]]

\* js_PurgeDeflatedStringCache, from the finalizer.
Purged(dead) == [s \in Strings |-> IF s \in dead THEN << >> ELSE cache[s]]

\* js_FinalizeString and js_FreeStringBytes for all that is left.  kept: what the rest of
\* the program has not let go of since the last collection.
CollectGarbage(kept) ==
  LET dead == live \ (Marked(kept) \cup locked) IN
  /\ dead # {}
  /\ live' = live \ dead
  /\ memory' = [b \in Buffers |->
       IF \E s \in dead : ~str[s].dependent /\ str[s].ptr = b THEN << >> ELSE memory[b]]
  /\ str' = [s \in Strings |-> IF s \in dead THEN Flat(0, Nobody) ELSE str[s]]
  /\ mutable' = mutable \ dead
  /\ cache' = Purged(dead)
  /\ value' = [s \in Strings |-> IF s \in dead THEN << >> ELSE value[s]]
  /\ lent' = [s \in Strings |-> IF s \in dead THEN Nobody ELSE lent[s]]
  /\ rooted' = kept
  /\ UNCHANGED locked

Next ==
  \/ \E s \in Strings \ live :
       \/ \E b \in FreeBuffers, v \in Literals, grows \in BOOLEAN : NewString(s, b, v, grows)
       \/ \E t \in rooted, start \in 0..MaxLength, n \in 1..MaxLength :
            \/ NewDependentString(s, t, start, n)
            \/ \E b \in FreeBuffers : NewStringCopyN(s, b, t, start, n)
       \/ \E left, right \in rooted, ok \in BOOLEAN, b \in Buffers :
            ConcatCopies(s, b, left, right, ok) \/ ConcatGrows(s, b, left, right, ok)
  \/ \E s \in rooted :
       \/ \E b \in Buffers : UndependString(s, b) \/ GetStringChars(s, b)
       \/ ReadString(s) \/ GetStringBytes(s) \/ LockGCThing(s)
  \/ \E kept \in SUBSET rooted : CollectGarbage(kept)

Spec == Init /\ [][Next]_vars

-----------------------------------------------------------------------------
(* Properties.                                                             *)

Owner(b) == {s \in live : ~str[s].dependent /\ str[s].ptr = b}

TypeOK ==
  /\ live \subseteq Strings /\ mutable \subseteq live /\ rooted \subseteq live
  /\ \A s \in live : str[s].ptr \in IF str[s].dependent THEN Strings ELSE Buffers
  /\ memory \in [Buffers -> Seq(Nat)]

\* Every buffer belongs to one flat string, so that none is leaked or freed twice.
BuffersOwned ==
  \A b \in Buffers : Cardinality(Owner(b)) = IF memory[b] = << >> THEN 0 ELSE 1

\* Strings and buffers are well formed and go together.
MemorySound == TypeOK /\ BuffersOwned

\* A string is what it was when it was made, whatever has become of it, of its base
\* and of its buffer since.
ValuesKept ==
  \A s \in live : ToSet(Chain(str, s)) \subseteq live /\ Chars(s) = value[s]

\* What js_GetStringChars has returned stays where it is while the string lives.
LentStays ==
  \A s \in live : lent[s] # Nobody => ~str[s].dependent /\ str[s].ptr = lent[s]

\* The cache has the bytes of the string that is at that address now.
CacheIsFresh == \A s \in Strings : cache[s] # << >> => s \in live /\ cache[s] = value[s]

\* What a locked string depends on is kept with it.
LockedKeepsBase == \A s \in locked : ToSet(Chain(str, s)) \subseteq live

\* A flat string is terminated; what is not so once js_ConcatStrings has run out of memory.
FlatIsTerminated ==
  \A s \in live : ~str[s].dependent => memory[str[s].ptr][LENGTH(str[s]) + 1] = 0
=============================================================================
