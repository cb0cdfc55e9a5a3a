------------------------------ MODULE PSEvents ------------------------------
(***************************************************************************)
(* The event list of js/src/ext/psselect.c as a value, and what its two    *)
(* editing functions do to it.                                             *)
(*                                                                         *)
(* ps_Events is a doubly linked list, but no function of the file reads a  *)
(* prev pointer to move along the list, and the only store that would have *)
(* unlinked a cell from its predecessor writes the cell's own prev field   *)
(* (psselect.c:391).  The list is therefore the chain of next pointers     *)
(* from ps_Events, a sequence.  Removing its first cell advances           *)
(* ps_Events; removing any other cell frees the cell and leaves it in the  *)
(* chain: from then on the list is dangling, and it stays so, because      *)
(* nothing ever unlinks that cell again.                                   *)
(*                                                                         *)
(* A walk of a dangling list reads memory the allocator owns.  Either what *)
(* it finds there matches no descriptor and the walk goes on, or the       *)
(* program does something nobody can say (abort, wild descriptor, a walk   *)
(* that ends early or never, because the cell was handed out again).  The  *)
(* sequence below holds the cells that are still allocated; PSEventList    *)
(* models the pointers, and is shown to implement this view of them.       *)
(*                                                                         *)
(* Here and in the other modules, a definition marked "Variant" is a wrong *)
(* version of the one that follows it.  No specification uses it; it shows *)
(* which property would notice such a slip in the code.                    *)
(***************************************************************************)
EXTENDS Integers, Sequences, SequencesExt

CONSTANTS
  EventObjs,  \* the JavaScript objects that may own a registration
  Fds         \* the descriptor numbers of the process

ASSUME FdsAssumption == Fds \subseteq Nat

\* An armed timeout runs down to zero ("due"); a timeout of -1 is "none".
TimeoutState == {"none", "armed", "due"}

Event == [fd : Fds, mask : {"read", "write"}, obj : EventObjs,
          timeout : TimeoutState]

Watching(evs, f) == {i \in DOMAIN evs : evs[i].fd = f}

(***************************************************************************)
(* ps_RemoveSelect.  Its loop goes on after a match, but there is at most  *)
(* one, since ps_AddSelect, which alone links events, removes before it    *)
(* links (the invariant OneEventPerFd of TCPSocket).                       *)
(***************************************************************************)
RemoveSelect(evs, f) ==
  IF Watching(evs, f) = {}
  THEN evs
  ELSE RemoveAt(evs, CHOOSE i \in Watching(evs, f) : TRUE)

\* Variant: the test for the first cell (psselect.c:396) is forgotten.
LeavesFreedAlways(evs, f) == Watching(evs, f) # {}

\* ... which frees a cell its predecessor still links, unless it is the first.
LeavesFreed(evs, f) == \E i \in Watching(evs, f) : i # 1

\* Variant: ps_AddSelect does not remove.  Variant: it removes too late.
AddSelectKeepsOld(evs, ev)  == Cons(ev, evs)
AddSelectThenDrop(evs, ev) == RemoveSelect(Cons(ev, evs), ev.fd)

\* ps_AddSelect: drop any event of the same descriptor, link the new one first.
AddSelect(evs, ev) == Cons(ev, RemoveSelect(evs, ev.fd))

(***************************************************************************)
(* The temporary copies ps_HandleSelect makes of some cells of the list.   *)
(* Each is prepended to its own list while the event list is walked        *)
(* forwards, so the copies are called from the highest position down.      *)
(***************************************************************************)
Copies(evs, positions, how) ==
  {[pos |-> i, obj |-> evs[i].obj, how |-> how] : i \in positions}

Copy == [pos : Nat, obj : EventObjs, how : {"func", "errfunc"}]

IsNextCopy(c, batch) == c \in batch /\ \A d \in batch : d.pos <= c.pos
=============================================================================
