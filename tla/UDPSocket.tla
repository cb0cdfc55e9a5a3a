------------------------------ MODULE UDPSocket ------------------------------
(***************************************************************************)
(* The UDPSocket class (js/src/ext/psudpsocket.c): its objects, their      *)
(* events in the list, and the kernel's queues of datagrams.  Reentry says *)
(* who calls these operations and when.                                    *)
(*                                                                         *)
(* A datagram is its number in the order of arrival.  The constructor      *)
(* never gets the port it is asked for: it refuses numbers and takes the   *)
(* bits of anything else (psudpsocket.c:380), so which port it binds is    *)
(* left open, and binding may fail at any time.  The script sets onData    *)
(* when it makes a socket.                                                 *)
(***************************************************************************)
EXTENDS PSEvents, FiniteSets

CONSTANTS NoFd, MaxSent

ASSUME NoFdAssumption == NoFd \notin Fds
ASSUME MaxSentAssumption == MaxSent \in Nat

VARIABLES
  events, dangling,  \* the event list, see PSEvents
  udp,       \* the objects that have their private data
  fd,        \* udp->fd
  open,      \* the open descriptors
  queue,     \* the datagrams waiting at each descriptor
  sent,      \* history: how many datagrams have arrived so far
  got,       \* history: the datagrams each socket has passed to onData
  dropped,   \* history: the datagrams thrown away by close(2)
  leaked     \* history: descriptors a failed constructor has left open

udpVars == <<events, dangling, udp, fd, open, queue, sent, got, dropped, leaked>>

UDPTypeOK ==
  /\ events \in Seq(Event)
  /\ dangling \in BOOLEAN
  /\ udp \subseteq EventObjs
  /\ fd \in [EventObjs -> Fds \cup {NoFd}]
  /\ open \subseteq Fds
  /\ queue \in [Fds -> Seq(1..MaxSent)]
  /\ sent \in 0..MaxSent
  /\ got \in [EventObjs -> Seq(1..MaxSent)]
  /\ dropped \subseteq 1..MaxSent
  /\ leaked \subseteq open

UDPInit ==
  /\ events = << >> /\ dangling = FALSE
  /\ udp = {}
  /\ fd = [s \in EventObjs |-> NoFd]
  /\ open = {}
  /\ queue = [f \in Fds |-> << >>]
  /\ sent = 0
  /\ got = [s \in EventObjs |-> << >>]
  /\ dropped = {}
  /\ leaked = {}

\* socket(2) hands out the lowest number that is free.
LowestFree(f) == f \in Fds \ open /\ \A g \in Fds \ open : f <= g

Registration(s, f) == [fd |-> f, mask |-> "read", obj |-> s, timeout |-> "none"]

\* Up to ps_AddSelect and JS_SetPrivate.
UDPSocket_CT(s) ==
  /\ s \notin udp
  /\ \E f \in Fds :
       /\ LowestFree(f)
       /\ open' = open \cup {f}
       /\ fd' = [fd EXCEPT ![s] = f]
       /\ events' = AddSelect(events, Registration(s, f))
       /\ dangling' = (dangling \/ LeavesFreed(events, f))
  /\ udp' = udp \cup {s}
  /\ UNCHANGED <<queue, sent, got, dropped, leaked>>

\* bind(2) or fcntl(2) fails: the object has no private data yet, and nothing
\* will close the descriptor.
UDPSocket_CTFails(s) ==
  /\ s \notin udp
  /\ \E f \in Fds :
       /\ LowestFree(f)
       /\ open' = open \cup {f}
       /\ leaked' = leaked \cup {f}
  /\ UNCHANGED <<events, dangling, udp, fd, queue, sent, got, dropped>>

\* Variant: the event is left.
UnwatchNot(f) == UNCHANGED <<events, dangling>>

Unwatch(f) ==
  /\ events' = RemoveSelect(events, f)
  /\ dangling' = (dangling \/ LeavesFreed(events, f))

UDPSocket_Close(s) ==
  /\ s \in udp
  /\ fd[s] # NoFd
  /\ Unwatch(fd[s])
  /\ open' = open \ {fd[s]}
  /\ dropped' = dropped \cup Range(queue[fd[s]])
  /\ queue' = [queue EXCEPT ![fd[s]] = << >>]
  /\ fd' = [fd EXCEPT ![s] = NoFd]
  /\ UNCHANGED <<udp, sent, got, leaked>>

\* A datagram from anywhere reaches a socket's port.
Arrive(f) ==
  /\ sent < MaxSent
  /\ \E s \in udp : fd[s] = f
  /\ sent' = sent + 1
  /\ queue' = [queue EXCEPT ![f] = Append(@, sent + 1)]
  /\ UNCHANGED <<events, dangling, udp, fd, open, got, dropped, leaked>>

\* sendto(2): it may reach one of this program's own sockets.
UDPSocket_Send(s, f) == s \in udp /\ fd[s] # NoFd /\ Arrive(f)

\* Variant: each recvfrom(2) overwrites what the one before it has read.
ReceivedLast(s) == IF queue[fd[s]] = << >> THEN << >> ELSE <<Last(queue[fd[s]])>>

\* recvfrom(2) until it would block, one datagram after the other.
Received(s) == queue[fd[s]]

Emptied(s) == [queue EXCEPT ![fd[s]] = << >>]

\* UDPSocket_SelectCallback, before it calls onData.
Receive(s) ==
  /\ s \in udp /\ fd[s] # NoFd
  /\ got' = [got EXCEPT ![s] = @ \o Received(s)]
  /\ queue' = Emptied(s)
  /\ UNCHANGED <<events, dangling, udp, fd, open, sent, dropped, leaked>>

\* ... and when it finds the socket closed: an error, and onData is not called.
ReceiveFails(s) == s \in udp /\ fd[s] = NoFd /\ UNCHANGED udpVars

\* What select(2) finds readable.
Ready == {i \in DOMAIN events : queue[events[i].fd] # << >>}

-----------------------------------------------------------------------------
(* Properties.                                                             *)

Increasing(s) == \A i, j \in DOMAIN s : i < j => s[i] < s[j]

Queued == UNION {Range(queue[f]) : f \in Fds}
Heard  == UNION {Range(got[s]) : s \in EventObjs}

\* No datagram is lost between the kernel and onData unless its socket is
\* closed, none is passed on twice, and each socket passes them on in order,
\* however many loops are reading.
DatagramsKept ==
  /\ Queued \cup Heard \cup dropped = 1..sent
  /\ Queued \cap Heard = {}
  /\ \A s, t \in EventObjs : s # t => Range(got[s]) \cap Range(got[t]) = {}
  /\ \A s \in EventObjs :
       Increasing(IF fd[s] = NoFd THEN got[s] ELSE got[s] \o queue[fd[s]])

\* An event stands for an open socket: each socket with a descriptor has one
\* event, each event is that of the descriptor's owner, and a descriptor that
\* is open without an owner is one that a failed constructor has leaked.
EventsMatchOwners ==
  /\ \A s \in EventObjs :
       fd[s] # NoFd <=> \E i \in DOMAIN events : events[i].obj = s
  /\ \A i \in DOMAIN events :
       /\ fd[events[i].obj] = events[i].fd
       /\ \A j \in DOMAIN events : events[i].fd = events[j].fd => i = j
  /\ open \ leaked = {fd[s] : s \in udp} \ {NoFd}
=============================================================================
