---------------------------- MODULE PSEventList -----------------------------
(***************************************************************************)
(* The event list of js/src/ext/psselect.c as the code keeps it: cells     *)
(* allocated on the heap, linked by next and prev pointers from ps_Events, *)
(* and freed without regard to who still links them.  A cell is reduced to *)
(* its descriptor and its pointers, since no list operation reads more.    *)
(***************************************************************************)
EXTENDS PSEvents

CONSTANTS
  Cells,     \* addresses malloc(3) may return for an event
  Null,      \* the null pointer
  MaxLeaked  \* ps_HandleSelect is called until this many copies have leaked

ASSUME CellsAssumption ==
  /\ IsFiniteSet(Cells) /\ Null \notin Cells
  /\ Fds # {} /\ MaxLeaked \in Nat

VARIABLES
  ps_Events,  \* the first cell, or Null
  cell,       \* the contents of memory, whether or not it is allocated
  allocated,  \* the addresses that belong to events
  leaked,     \* copies that ps_HandleSelect did not free
  events,     \* history: the registrations its callers mean to have, latest first
  astray      \* history: a walk has read what is no event, or events is not in it

heapVars == <<ps_Events, cell, allocated>>
vars == <<heapVars, leaked, events, astray>>

Pointer == Cells \cup {Null}

-----------------------------------------------------------------------------
(* A walk along the next pointers.  The heap is the record of the three    *)
(* heap variables.                                                         *)

Heap == [head |-> ps_Events, cell |-> cell, live |-> allocated]

\* The pointer after n steps.  A walk that has not met Null when it has made
\* one step for every address never will.
Step(h) ==
  LET at[n \in 0 .. Cardinality(Cells)] ==
        IF n = 0 THEN h.head
        ELSE IF at[n - 1] = Null THEN Null ELSE h.cell[at[n - 1]].next
  IN  at

Endless(h) == Step(h)[Cardinality(Cells)] # Null

Walk(h) ==
  LET at == Step(h)
      n  == Cardinality({i \in DOMAIN at : at[i] # Null})
  IN  [i \in 1 .. n |-> at[i - 1]]

Linked(h) == Range(Walk(h))

\* The descriptors of the cells of a walk that belong to events.
Shown(h) ==
  LET w == Walk(h)
      upTo[n \in 0 .. Len(w)] ==
        IF n = 0 THEN << >>
        ELSE IF w[n] \in h.live THEN Append(upTo[n - 1], h.cell[w[n]].fd) ELSE upTo[n - 1]
  IN  upTo[Len(w)]

FreedIsLinked(h) == Linked(h) \ h.live # {}

-----------------------------------------------------------------------------
(* The operations on a heap.                                               *)

\* Variant: ps_Events is not advanced.
UnlinkHeadKept(h, ev) == [h EXCEPT !.live = @ \ {ev}]

\* The body of the loop of ps_RemoveSelect, at a cell that matches.  The second
\* store is meant for the cell before ev, and goes to ev.
Unlink(h, ev) ==
  LET c1 == IF h.cell[ev].prev # Null
            THEN [h.cell EXCEPT ![ev].prev = h.cell[ev].next] ELSE h.cell
      c2 == IF c1[ev].next # Null
            THEN [c1 EXCEPT ![c1[ev].next].prev = c1[ev].prev] ELSE c1
  IN  [head |-> IF ev = h.head THEN c2[ev].next ELSE h.head,
       cell |-> c2,
       live |-> h.live \ {ev}]

\* What ps_RemoveSelect reads in a freed cell is taken not to match: if it does,
\* the cell is freed again, and the program astray.
Visited(h, ev, f) == IF ev \in h.live /\ h.cell[ev].fd = f THEN Unlink(h, ev) ELSE h

\* ps_RemoveSelect visits the whole list.
Removed(h, f) ==
  LET w == Walk(h)
      past[n \in 0 .. Len(w)] ==
        IF n = 0 THEN h ELSE Visited(past[n - 1], w[n], f)
  IN  past[Len(w)]

\* ps_AddSelect allocates the cell before it removes the old event ...
Allocated(h, a, f) ==
  [h EXCEPT !.cell[a] = [fd |-> f, next |-> Null, prev |-> Null],
            !.live    = @ \cup {a}]

\* Variant: the old first cell is not told of the new one.
LinkedFirstHalf(h, a) ==
  IF h.head = Null THEN [h EXCEPT !.head = a]
  ELSE [h EXCEPT !.head = a, !.cell[a].next = h.head]

\* ... and links it when that is done, whatever has become of it.
LinkedFirst(h, a) ==
  IF h.head = Null
  THEN [h EXCEPT !.head = a]
  ELSE [h EXCEPT !.head = a,
                 !.cell = [@ EXCEPT ![a].next = h.head, ![h.head].prev = a]]

-----------------------------------------------------------------------------
(* The calls.                                                              *)

Becomes(h) == ps_Events' = h.head /\ cell' = h.cell /\ allocated' = h.live

\* How a call that walks h and leaves g ends.  A walk of freed cells may get
\* through, but a list that does not show the events has gone wrong already.
Ends(h, g) ==
  /\ ~astray
  /\ astray' \in (IF Endless(h) \/ Shown(g) # [i \in DOMAIN events' |-> events'[i].fd]
                  THEN {TRUE} ELSE {FreedIsLinked(h), FALSE})

Init ==
  /\ ps_Events = Null
  /\ cell \in [Cells -> [fd : {CHOOSE f \in Fds : TRUE}, next : {Null}, prev : {Null}]]
  /\ allocated = {}
  /\ leaked = 0
  /\ events = << >>
  /\ astray = FALSE

ps_AddSelect(f) ==
  \E a \in Cells \ allocated :
    LET h == Allocated(Heap, a, f)
        g == LinkedFirst(Removed(h, f), a)
    IN  /\ Becomes(g)
        /\ events' = AddSelect(events, [fd |-> f])
        /\ Ends(h, g)
        /\ UNCHANGED leaked

ps_RemoveSelect(f) ==
  LET g == Removed(Heap, f) IN
  /\ Becomes(g)
  /\ events' = RemoveSelect(events, f)
  /\ Ends(Heap, g)
  /\ UNCHANGED leaked

\* The cleanup of a list of n copies frees the copy after the one it is at, so
\* that the first one stays.
CopiesKept(n) == IF n = 0 THEN 0 ELSE 1

\* The walks of ps_HandleSelect, with the copies of those that fired.
ps_HandleSelect ==
  /\ ps_Events # Null
  /\ leaked < MaxLeaked
  /\ \E fired \in 0 .. Len(Shown(Heap)) : leaked' = leaked + CopiesKept(fired)
  /\ UNCHANGED <<heapVars, events>>
  /\ Ends(Heap, Heap)

Stopped == astray /\ UNCHANGED vars

Next ==
  \/ \E f \in Fds : ps_AddSelect(f) \/ ps_RemoveSelect(f)
  \/ ps_HandleSelect
  \/ Stopped

Spec == Init /\ [][Next]_vars

-----------------------------------------------------------------------------
(* Properties.                                                             *)

TypeOK ==
  /\ ps_Events \in Pointer
  /\ cell \in [Cells -> [fd : Fds, next : Pointer, prev : Pointer]]
  /\ allocated \subseteq Cells
  /\ leaked \in 0 .. MaxLeaked
  /\ events \in Seq([fd : Fds])
  /\ astray \in BOOLEAN

\* As long as no freed cell is linked, the prev pointers mirror the next
\* pointers: ps_RemoveSelect relies on prev to tell the first cell from others.
PrevMirrorsNext ==
  ~FreedIsLinked(Heap) =>
    LET w == Walk(Heap) IN
    \A i \in DOMAIN w : cell[w[i]].prev = IF i = 1 THEN Null ELSE w[i - 1]

\* An allocated cell is in the list, so that some later call can free it.
CellsAreLinked == ~astray => allocated \subseteq Linked(Heap)

\* Cells and pointers, as ps_AddSelect and ps_RemoveSelect leave them.
ListWellFormed == TypeOK /\ PrevMirrorsNext /\ CellsAreLinked

AsSequence ==
  INSTANCE PSEventSeq WITH
    dangling <- FreedIsLinked(Heap) \/ Endless(Heap) \/ astray

\* What ps_AddSelect and ps_RemoveSelect do with pointers is the sequence of
\* registrations that TCPSocket takes the list to be: a removal leaves a freed
\* cell exactly when it is not of the first event, and no walk goes astray, or
\* shows anything but the registrations in order, before that has happened.
ImplementsSequence == AsSequence!Spec

\* "Remove the file-descriptor from the asynchroneous mechanism" (psselect.h:84):
\* a cell that ps_RemoveSelect has freed is in the list no more.
RemovedIsUnlinked == ~FreedIsLinked(Heap)
=============================================================================
