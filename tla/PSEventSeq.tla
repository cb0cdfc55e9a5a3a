----------------------------- MODULE PSEventSeq -----------------------------
(***************************************************************************)
(* What TCPSocket takes the event list of psselect.c to be: a sequence of  *)
(* events edited by AddSelect and RemoveSelect, which a walk shows in      *)
(* order, until a removal leaves a freed cell in the list.  From then on   *)
(* any call may lead the program astray, and before that none does.        *)
(***************************************************************************)
EXTENDS PSEvents

VARIABLES
  events,    \* the events that are registered, the latest first
  dangling,  \* a freed cell is linked
  astray     \* a walk has not shown just these events, in this order

vars == <<events, dangling, astray>>

Registration(f) == [fd |-> f]

Init ==
  /\ events = << >>
  /\ dangling = FALSE
  /\ astray = FALSE

\* A call that walks the list, so that it may go astray if it has a freed cell.
Walks == ~astray /\ astray' \in {dangling, FALSE}

Edits(f) == dangling' = (dangling \/ LeavesFreed(events, f))

Register(f) ==
  /\ Walks
  /\ events' = AddSelect(events, Registration(f))
  /\ Edits(f)

Unregister(f) ==
  /\ Walks
  /\ events' = RemoveSelect(events, f)
  /\ Edits(f)

Handle ==
  /\ Walks
  /\ UNCHANGED <<events, dangling>>

\* Nothing is promised of a program that has gone astray.
Astray == astray /\ astray'

Next ==
  \/ \E f \in Fds : Register(f) \/ Unregister(f)
  \/ Handle
  \/ Astray

Spec == Init /\ [][Next]_vars
=============================================================================
