------------------------------- MODULE DHash -------------------------------
(***************************************************************************)
(* The double hashing table (js/src/jsdhash.c), which holds the roots and  *)
(* the locks of the collector, the property tree and the lookups that are  *)
(* going on.  A removed entry leaves a sentinel where others may have been *)
(* put behind it; the table grows, is compressed and shrinks, which moves  *)
(* every entry and changes its generation.                                 *)
(*                                                                         *)
(* The callers are those that keep what JS_DHashTableOperate returned for  *)
(* a key and come back to it later, as js_StartResolving and               *)
(* js_StopResolving of jscntxt.c do.  No table of the program has an       *)
(* initEntry callback.                                                     *)
(***************************************************************************)
EXTENDS Integers, FiniteSets

CONSTANTS
  Keys, NoKey,
  HASH_BITS,                   \* JS_DHASH_BITS
  KeyHash,                     \* hashKey times the golden ratio, without the collision flag
  MIN_LOG2, LIMIT_LOG2,        \* JS_DHASH_MIN_SIZE, JS_DHASH_SIZE_LIMIT
  maxAlphaFrac, minAlphaFrac,  \* in 256ths
  MaxGeneration                \* bound on the changes of the table

JS_BIT[n \in 0..HASH_BITS] == IF n = 0 THEN 1 ELSE 2 * JS_BIT[n - 1]

\* A quarter of the smallest table is at least an entry (JS_DHASH_MIN_SIZE is 16).
ASSUME SizesAssumption ==
  /\ HASH_BITS \in Nat /\ MIN_LOG2 \in Nat /\ LIMIT_LOG2 \in Nat
  /\ 1 < MIN_LOG2 /\ MIN_LOG2 < LIMIT_LOG2 /\ LIMIT_LOG2 <= HASH_BITS

ASSUME HashAssumption ==
  \A k \in Keys : KeyHash[k] \in 2..JS_BIT[HASH_BITS] - 1 /\ KeyHash[k] % 2 = 0

\* What JS_DHashTableSetAlphaBounds asserts of its arguments.
ASSUME AlphaAssumption ==
  /\ maxAlphaFrac \in 128..255
  /\ minAlphaFrac \in Nat /\ 2 * minAlphaFrac <= maxAlphaFrac

VARIABLES
  log2,          \* JS_DHASH_BITS - hashShift
  store,         \* entryStore
  entryCount, removedCount, generation,
  held           \* for a key, the entry its caller keeps and the generation it is of

counts == <<entryCount, removedCount>>
vars   == <<log2, store, entryCount, removedCount, generation, held>>

-----------------------------------------------------------------------------
(* Entries.  The low bit of the hash is COLLISION_FLAG.                    *)

FreeEntry    == [hash |-> 0, key |-> NoKey]
RemovedEntry == [hash |-> 1, key |-> NoKey]

IsFree(e)    == e.hash = 0
IsRemoved(e) == e.hash = 1
IsLive(e)    == e.hash >= 2
IsFlagged(e) == e.hash % 2 = 1
Flagged(e)   == [e EXCEPT !.hash = (@ - (@ % 2)) + 1]
Unflagged(e) == [e EXCEPT !.hash = @ - (@ % 2)]
Matches(e, k) == IsLive(e) /\ e.key = k

SizeOf(st) == Cardinality(DOMAIN st)
Empty(lg)  == [i \in 0..JS_BIT[lg] - 1 |-> FreeEntry]

MAX_LOAD(lg) == (maxAlphaFrac * JS_BIT[lg]) \div 256
MIN_LOAD(lg) == (minAlphaFrac * JS_BIT[lg]) \div 256

-----------------------------------------------------------------------------
(* SearchTable.                                                            *)

HASH1(h, lg) == h \div JS_BIT[HASH_BITS - lg]
HASH2(h, lg) ==
  LET hash2 == ((h * JS_BIT[lg]) % JS_BIT[HASH_BITS]) \div JS_BIT[HASH_BITS - lg]
  IN  (hash2 - (hash2 % 2)) + 1

\* The i-th entry that is tried for k.
Probe(k, lg, i) == (HASH1(KeyHash[k], lg) - i * HASH2(KeyHash[k], lg)) % JS_BIT[lg]

\* How many entries are passed before the search for k ends.
Passed(st, lg, k) ==
  CHOOSE n \in 0..JS_BIT[lg] - 1 :
    /\ IsFree(st[Probe(k, lg, n)]) \/ Matches(st[Probe(k, lg, n)], k)
    /\ \A i \in 0..n - 1 : ~IsFree(st[Probe(k, lg, i)]) /\ ~Matches(st[Probe(k, lg, i)], k)

Found(st, lg, k) == Probe(k, lg, Passed(st, lg, k))

\* The entry JS_DHASH_ADD gets: the first removed one if the key is not there.
PlaceFor(st, lg, k) ==
  LET n       == Passed(st, lg, k)
      removed == {i \in 0..n - 1 : IsRemoved(st[Probe(k, lg, i)])}
  IN  IF removed = {} \/ Matches(st[Probe(k, lg, n)], k) THEN Probe(k, lg, n)
      ELSE Probe(k, lg, CHOOSE i \in removed : \A j \in removed : i <= j)

\* Variant: only the first entry that is passed is flagged.
FirstFlagged(st, lg, k) ==
  LET first == Probe(k, lg, 0) IN
  [st EXCEPT ![first] = IF Passed(st, lg, k) > 0 /\ IsLive(@) THEN Flagged(@) ELSE @]

\* JS_DHASH_ADD flags the entries it passes.
WayFlagged(st, lg, k) ==
  LET way == {Probe(k, lg, i) : i \in 0..Passed(st, lg, k) - 1}
  IN  [i \in DOMAIN st |-> IF i \in way /\ IsLive(st[i]) THEN Flagged(st[i]) ELSE st[i]]

(***************************************************************************)
(* ChangeTable, once it has the new store: the live entries are added to   *)
(* it in their order.                                                      *)
(***************************************************************************)
Rehashed(st, lg) ==
  LET Moved[i \in 0..SizeOf(st)] ==
        IF i = 0 THEN Empty(lg)
        ELSE LET new == Moved[i - 1]
                 old == st[i - 1]
             IN  IF ~IsLive(old) THEN new
                 ELSE [WayFlagged(new, lg, old.key) EXCEPT
                         ![PlaceFor(new, lg, old.key)] = Unflagged(old)]
  IN  Moved[SizeOf(st)]

CanChange(lg) == lg < LIMIT_LOG2 /\ generation < MaxGeneration

Init ==
  /\ log2 = MIN_LOG2
  /\ store = Empty(MIN_LOG2)
  /\ entryCount = 0 /\ removedCount = 0 /\ generation = 0
  /\ held = [k \in Keys |-> [entry |-> -1, generation |-> -1]]

-----------------------------------------------------------------------------
(* JS_DHashTableOperate.  ok: there is memory for a new store.             *)

Overloaded == entryCount + removedCount >= MAX_LOAD(log2)

\* Variant: a failure to grow is never one to add.
FailsNever(changes) == FALSE

\* Falling through might claim the last free entry.
AddFails(changes) == Overloaded /\ ~changes /\ entryCount + removedCount = JS_BIT[log2] - 1

\* Compressed if a quarter or more of all entries are removed, else grown.
LogToAdd == IF removedCount >= JS_BIT[log2] \div 4 THEN log2 ELSE log2 + 1

\* Where an entry that is not live becomes k's.
Claim(st, lg, k, removed) ==
  LET i    == PlaceFor(st, lg, k)
      flag == IF IsRemoved(st[i]) THEN 1 ELSE 0
  IN  /\ store' = IF IsLive(st[i]) THEN WayFlagged(st, lg, k)
                  ELSE [WayFlagged(st, lg, k) EXCEPT ![i] = [hash |-> KeyHash[k] + flag, key |-> k]]
      /\ entryCount' = IF IsLive(st[i]) THEN entryCount ELSE entryCount + 1
      /\ removedCount' = removed - flag
      /\ held' = [held EXCEPT ![k] = [entry |-> i, generation |-> generation']]

Add(k, ok) ==
  LET changes == Overloaded /\ ok /\ CanChange(LogToAdd) IN
  /\ ~AddFails(changes)
  /\ log2' = IF changes THEN LogToAdd ELSE log2
  /\ generation' = IF changes THEN generation + 1 ELSE generation
  /\ IF changes THEN Claim(Rehashed(store, LogToAdd), LogToAdd, k, 0)
     ELSE Claim(store, log2, k, removedCount)

\* JS_DHashTableRawRemove, for what becomes of the entry.
Unclaimed(e) == IF IsFlagged(e) THEN RemovedEntry ELSE FreeEntry

WithoutEntries(is) == [i \in DOMAIN store |-> IF i \in is THEN Unclaimed(store[i]) ELSE store[i]]

RemovedAfter(is) == removedCount + Cardinality({i \in is : IsRemoved(WithoutEntries(is)[i])})

Keep == UNCHANGED <<log2, generation>>

RawRemoveOf(i) ==
  /\ store' = WithoutEntries({i})
  /\ entryCount' = entryCount - 1
  /\ removedCount' = RemovedAfter({i})
  /\ Keep

\* JS_DHASH_REMOVE: shrinks if alpha is <= .25 and the table isn't too small already.
RemoveOf(i, ok) ==
  IF log2 > MIN_LOG2 /\ entryCount - 1 <= MIN_LOAD(log2) /\ ok /\ CanChange(log2 - 1)
  THEN /\ log2' = log2 - 1
       /\ store' = Rehashed(WithoutEntries({i}), log2 - 1)
       /\ entryCount' = entryCount - 1
       /\ removedCount' = 0
       /\ generation' = generation + 1
  ELSE RawRemoveOf(i)

Remove(k, ok) ==
  /\ IsLive(store[Found(store, log2, k)])
  /\ RemoveOf(Found(store, log2, k), ok)
  /\ held' = [held EXCEPT ![k] = [entry |-> -1, generation |-> -1]]

-----------------------------------------------------------------------------
\* Variant: the entry is taken to be where it was.
EntryAsHeld(k) == IF held[k].entry \in DOMAIN store THEN held[k].entry ELSE 0

\* js_StopResolving, for the entry it works on.
EntryOf(k) ==
  IF held[k].generation = generation THEN held[k].entry ELSE Found(store, log2, k)

\* js_StopResolving: a raw remove unless a quarter of the entries are removed ones.
StopResolving(k, ok) ==
  /\ held[k].entry >= 0
  /\ held' = [held EXCEPT ![k] = [entry |-> -1, generation |-> -1]]
  /\ IF removedCount < JS_BIT[log2] \div 4 THEN RawRemoveOf(EntryOf(k))
     ELSE RemoveOf(Found(store, log2, k), ok)

CEILING_LOG2(n) ==
  CHOOSE lg \in 0..HASH_BITS : n <= JS_BIT[lg] /\ \A j \in 0..lg - 1 : JS_BIT[j] < n

\* JS_DHashTableEnumerate with an enumerator that removes the keys ks.
Enumerate(ks, ok) ==
  LET is    == {i \in DOMAIN store : IsLive(store[i]) /\ store[i].key \in ks}
      left  == entryCount - Cardinality(is)
      wants == left + left \div 2
      lg    == CEILING_LOG2(IF wants < JS_BIT[MIN_LOG2] THEN JS_BIT[MIN_LOG2] ELSE wants)
  IN
  /\ ks # {} /\ Cardinality(is) = Cardinality(ks)
  /\ held' = [k \in Keys |-> IF k \in ks THEN [entry |-> -1, generation |-> -1] ELSE held[k]]
  /\ entryCount' = left
  /\ IF /\ \/ RemovedAfter(is) >= JS_BIT[log2] \div 4
           \/ log2 > MIN_LOG2 /\ left <= MIN_LOAD(log2)
        /\ ok /\ CanChange(lg)
     THEN /\ log2' = lg
          /\ store' = Rehashed(WithoutEntries(is), lg)
          /\ removedCount' = 0
          /\ generation' = generation + 1
     ELSE /\ store' = WithoutEntries(is)
          /\ removedCount' = RemovedAfter(is)
          /\ Keep

Next ==
  \/ \E k \in Keys, ok \in BOOLEAN : Add(k, ok) \/ Remove(k, ok) \/ StopResolving(k, ok)
  \/ \E ks \in SUBSET Keys, ok \in BOOLEAN : Enumerate(ks, ok)

Spec == Init /\ [][Next]_vars

-----------------------------------------------------------------------------
(* Properties.                                                             *)

Live == {i \in DOMAIN store : IsLive(store[i])}

TypeOK ==
  /\ log2 \in MIN_LOG2..LIMIT_LOG2 - 1 /\ DOMAIN store = 0..JS_BIT[log2] - 1
  /\ \A i \in Live : store[i].key \in Keys /\ Unflagged(store[i]).hash = KeyHash[store[i].key]

(***************************************************************************)
(* A search ends: it goes through all entries, and one of them is free.    *)
(* The counts that see to it are those of the entries.                     *)
(***************************************************************************)
SearchesEnd ==
  /\ \E i \in DOMAIN store : IsFree(store[i])
  /\ \A k \in Keys : {Probe(k, log2, i) : i \in DOMAIN store} = DOMAIN store
  /\ entryCount = Cardinality(Live)
  /\ removedCount = Cardinality({i \in DOMAIN store : IsRemoved(store[i])})

\* The table is well formed and never too full to be searched.
TableSound == TypeOK /\ SearchesEnd

\* Every key that is in the table is found, and is there once.
FindsEveryKey == \A i \in Live : Found(store, log2, store[i].key) = i

\* Who comes back to an entry finds the key's.
HeldIsFound ==
  \A k \in Keys : held[k].entry >= 0 => Matches(store[EntryOf(k)], k)
=============================================================================
