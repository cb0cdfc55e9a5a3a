-------------------------- MODULE TCPSocketProofs ---------------------------
(***************************************************************************)
(* Safety of TCPSocket for any number of sockets and descriptors.          *)
(***************************************************************************)
EXTENDS TCPSocket, NumbersAndLists, TLAPS

-----------------------------------------------------------------------------
(* The list of events.                                                     *)

\* The list ps_RemoveSelect leaves: no event of f, all others, in their order.
LEMMA RemoveSelectDrops ==
  ASSUME NEW E, NEW evs \in Seq(E), NEW f
  PROVE  HasDropped(E, evs, f, RemoveSelect(evs, f))
<1>1. CASE Watching(evs, f) = {}
  BY <1>1 DEF RemoveSelect, Watching, Unique, HasDropped
<1>2. CASE Watching(evs, f) # {}
  <2>1. PICK k \in DOMAIN evs : evs[k].fd = f /\ RemoveSelect(evs, f) = Deleted(evs, k)
    BY <1>2 DEF RemoveSelect, Watching, RemoveAt, Deleted
  <2> QED
    BY <2>1, DeletedList
<1> QED
  BY <1>1, <1>2

\* The list ps_AddSelect leaves: the new event first, then what remains.
LEMMA AddSelectAdds ==
  ASSUME NEW E, NEW evs \in Seq(E), NEW ev \in E
  PROVE  HasAdded(E, evs, ev, AddSelect(evs, ev))
<1>1. AddSelect(evs, ev) = <<ev>> \o RemoveSelect(evs, ev.fd)
  BY DEF AddSelect, Cons
<1> QED
  BY <1>1, RemoveSelectDrops, PrependedList

-----------------------------------------------------------------------------
\* Watching a descriptor keeps the list a list of events.
LEMMA WatchType ==
  ASSUME events \in Seq(Event), dangling \in BOOLEAN,
         NEW ev \in Event, NEW p, Watch(ev, p)
  PROVE  events' \in Seq(Event) /\ dangling' \in BOOLEAN /\ pc' \in {p, "lost"}
BY AddSelectAdds DEF HasAdded, Watch, LeavesFreed, AfterWalk

\* Unwatching one does too.
LEMMA UnwatchType ==
  ASSUME events \in Seq(Event), dangling \in BOOLEAN,
         NEW f, NEW p, Unwatch(f, p)
  PROVE  events' \in Seq(Event) /\ dangling' \in BOOLEAN /\ pc' \in {p, "lost"}
BY RemoveSelectDrops DEF HasDropped, Unwatch, LeavesFreed, AfterWalk

\* Letting timeouts run down changes nothing else.
LEMMA ElapseFacts ==
  ASSUME events \in Seq(Event), NEW X, Elapse(X)
  PROVE  /\ events' \in Seq(Event)
         /\ DOMAIN events' = DOMAIN events
         /\ \A i \in DOMAIN events :
              /\ events'[i].fd = events[i].fd
              /\ events'[i].mask = events[i].mask
              /\ events'[i].obj = events[i].obj
<1>1. DOMAIN events = 1 .. Len(events) /\ Len(events) \in Nat
  OBVIOUS
<1>2. \A i \in DOMAIN events : events[i] \in Event
  OBVIOUS
<1>3. \A i \in DOMAIN events :
        /\ events'[i] \in Event
        /\ events'[i].fd = events[i].fd
        /\ events'[i].mask = events[i].mask
        /\ events'[i].obj = events[i].obj
  BY <1>2 DEF Elapse, Event, TimeoutState
<1>4. events' = [i \in 1 .. Len(events) |-> events'[i]]
  BY <1>1 DEF Elapse
<1> QED
  BY <1>1, <1>3, <1>4

\* A copy for each of some positions of the list is a set of copies.
LEMMA CopiesType ==
  ASSUME NEW evs \in Seq(Event), NEW P \in SUBSET DOMAIN evs,
         NEW how \in {"func", "errfunc"}
  PROVE  Copies(evs, P, how) \subseteq Copy
<1>1. \A i \in DOMAIN evs : i \in Nat /\ evs[i] \in Event
  OBVIOUS
<1>2. \A i \in P : i \in Nat /\ evs[i].obj \in EventObjs
  BY <1>1 DEF Event
<1> QED
  BY <1>2 DEF Copies, Copy

-----------------------------------------------------------------------------
\* The kernel's side of the descriptors keeps its type.
LEMMA KernType ==
  ASSUME kern \in [Fds -> KernStates], fd \in [Sockets -> Fds \cup {NoFd}],
         NEW s \in Sockets
  PROVE  /\ KernAfterClose(s) \in [Fds -> KernStates]
         /\ KernForConnect(s) \in [Fds -> KernStates]
         /\ KernAfterReport(s) \in [Fds -> KernStates]
BY DEF KernAfterClose, KernForConnect, KernAfterReport, KernStates

\* What recv(2) and the peers make of a descriptor's state is a state.
LEMMA KernMoveType ==
  ASSUME NEW k \in KernStates
  PROVE  AfterRecv(k) \subseteq KernStates /\ KernMoves[k] \subseteq KernStates
BY DEF AfterRecv, KernMoves, KernStates

\* close() keeps the type of everything it changes.
LEMMA CloseType ==
  ASSUME TypeOK, NEW s \in Sockets, NEW p, CloseSocket(s, p)
  PROVE  /\ events' \in Seq(Event)
         /\ dangling' \in BOOLEAN
         /\ pc' \in {p, "lost"}
         /\ kern' \in [Fds -> KernStates]
         /\ fd' \in [Sockets -> Fds \cup {NoFd}]
BY UnwatchType, KernType DEF TypeOK, CloseSocket, FdAfterClose, listVars

\* Every variable keeps its type, whatever the script, the kernel and the peers do.
THEOREM TypeCorrect == Spec => []TypeOK
<1>1. Init => TypeOK
  <2>1. << >> \in Seq(Event)
    OBVIOUS
  <2> SUFFICES ASSUME Init PROVE TypeOK
    OBVIOUS
  <2>2. mode \in [Sockets -> {"unmade", "async", "sync"}]
    BY DEF Init
  <2>3. state \in [Sockets -> SocketStates] /\ fd \in [Sockets -> Fds \cup {NoFd}]
    BY DEF Init, SocketStates
  <2>4. kern \in [Fds -> KernStates] /\ told \in [Sockets -> {"nothing", "connected", "over"}]
    BY DEF Init, KernStates
  <2> QED
    BY <2>1, <2>2, <2>3, <2>4 DEF Init, TypeOK
<1>2. ASSUME TypeOK, [Next]_vars PROVE TypeOK'
  <2> USE <1>2
  <2>1. ASSUME NEW s \in Sockets, Method(s) PROVE TypeOK'
    <3> USE <2>1
    <3>1. CASE TCPSocket_CT(s)
      BY <3>1, SocketsAssumption DEF TypeOK, TCPSocket_CT, ScriptRuns, listVars, loopVars
    <3>2. CASE ConnectWithoutDescriptor(s)
      BY <3>2, KernType DEF TypeOK, ConnectWithoutDescriptor, StateForConnect,
         SocketStates, listVars, loopVars
    <3>3. CASE ConnectInProgress(s)
      <4>1. PICK f \in Fds, t \in Timeouts :
              /\ kern' = [KernForConnect(s) EXCEPT ![f] = "syn"]
              /\ fd' = [fd EXCEPT ![s] = f]
              /\ Watch([fd |-> f, mask |-> "write", obj |-> s, timeout |-> t], pc)
        BY <3>3 DEF ConnectInProgress
      <4>2. [fd |-> f, mask |-> "write", obj |-> s, timeout |-> t] \in Event
        BY SocketsAssumption DEF Event
      <4>3. events' \in Seq(Event) /\ dangling' \in BOOLEAN /\ pc' \in {pc, "lost"}
        BY <4>1, <4>2, WatchType DEF TypeOK
      <4>4. kern' \in [Fds -> KernStates]
        BY <4>1, KernType DEF TypeOK, KernStates
      <4> QED
        BY <3>3, <4>1, <4>3, <4>4 DEF TypeOK, ConnectInProgress, SocketStates, loopVars
    <3>4. CASE ConnectDone(s)
      BY <3>4, KernType DEF TypeOK, ConnectDone, SocketStates, KernStates, listVars, loopVars
    <3>5. CASE ConnectError(s)
      BY <3>5, KernType DEF TypeOK, ConnectError, StateForConnect, SocketStates,
         KernStates, listVars, loopVars
    <3>6. CASE TCPSocket_Close(s)
      BY <3>6, CloseType DEF TypeOK, TCPSocket_Close, loopVars
    <3>7. CASE TCPSocket_Read(s)
      BY <3>7, KernMoveType DEF TypeOK, TCPSocket_Read, listVars, loopVars
    <3>8. CASE TCPSocket_Write(s)
      BY <3>8 DEF TypeOK, TCPSocket_Write, KernStates, listVars, loopVars
    <3> QED
      BY <3>1, <3>2, <3>3, <3>4, <3>5, <3>6, <3>7, <3>8 DEF Method
  <2>2. CASE ScriptReturns \/ ScriptThrows \/ LoopEnds \/ SelectAstray \/ BatchDone
    BY <2>2 DEF TypeOK, ScriptReturns, ScriptThrows, LoopEnds, SelectAstray, BatchDone,
       listVars, loopVars
  <2>3. CASE SelectReady
    <3>1. PICK expired \in SUBSET Armed : Elapse(expired)
      BY <2>3 DEF SelectReady
    <3>2. events' \in Seq(Event)
      BY <3>1, ElapseFacts DEF TypeOK
    <3>3. batch' \subseteq Copy
      BY <2>3, CopiesType DEF SelectReady, Ready, TypeOK
    <3> QED
      BY <2>3, <3>2, <3>3 DEF TypeOK, SelectReady
  <2>4. CASE SelectTimeout
    <3>1. PICK expired \in SUBSET Armed :
            Elapse(expired) /\ batch' = Copies(events, Due \cup expired, "func")
      BY <2>4 DEF SelectTimeout, TimedOut
    <3>2. events' \in Seq(Event)
      BY <3>1, ElapseFacts DEF TypeOK
    <3>3. Due \cup expired \in SUBSET DOMAIN events
      BY DEF Due, Armed
    <3>4. batch' \subseteq Copy
      BY <3>1, <3>3, CopiesType DEF TypeOK
    <3> QED
      BY <2>4, <3>2, <3>4 DEF TypeOK, SelectTimeout
  <2>5. CASE SelectFails
    BY <2>5, CopiesType DEF TypeOK, SelectFails, listVars
  <2>6. ASSUME NEW c \in batch, Call(c) PROVE TypeOK'
    <3> USE <2>6
    <3>1. c \in Copy /\ c.obj \in Sockets /\ c.how \in {"func", "errfunc"}
      BY SocketsAssumption DEF TypeOK, Copy
    <3>2. CASE CallbackUnconnected(c)
      BY <3>2 DEF TypeOK, CallbackUnconnected, TakeCopy, listVars
    <3>3. ASSUME TakeCopy(c, "func"), MonitorAndInvoke(c), fd[c.obj] # NoFd PROVE TypeOK'
      <4>1. [fd |-> fd[c.obj], mask |-> "read", obj |-> c.obj, timeout |-> "none"] \in Event
        BY <3>1, <3>3, SocketsAssumption DEF TypeOK, Event, TimeoutState
      <4>2. events' \in Seq(Event) /\ dangling' \in BOOLEAN /\ pc' \in {"callback", "lost"}
        BY <3>3, <4>1, WatchType DEF TypeOK, MonitorAndInvoke
      <4> QED
        BY SocketsAssumption, <3>1, <3>3, <4>2 DEF TypeOK, MonitorAndInvoke, TakeCopy, Invoke, SocketStates
    <3>4. ASSUME TakeCopy(c, "func"), ForgetAndInvoke(c),
                 kern' \in [Fds -> KernStates], fd' \in [Sockets -> Fds \cup {NoFd}]
          PROVE  TypeOK'
      <4>1. events' \in Seq(Event) /\ dangling' \in BOOLEAN /\ pc' \in {"callback", "lost"}
        BY <3>4, UnwatchType DEF TypeOK, ForgetAndInvoke
      <4> QED
        BY SocketsAssumption, <3>1, <3>4, <4>1 DEF TypeOK, ForgetAndInvoke, TakeCopy, Invoke, SocketStates
    <3>5. CASE CallbackConnect(c)
      BY <3>3, <3>5 DEF CallbackConnect, HasPeer
    <3>6. CASE CallbackConnectFailed(c)
      BY <3>4, <3>6 DEF CallbackConnectFailed, TypeOK
    <3>7. CASE CallbackData(c)
      BY <3>3, <3>7 DEF CallbackData, Peek
    <3>8. CASE CallbackClose(c)
      <4>1. kern' \in [Fds -> KernStates] /\ fd' \in [Sockets -> Fds \cup {NoFd}]
        BY <3>1, <3>8, KernType DEF CallbackClose, FdAfterClose, TypeOK
      <4> QED
        BY <3>4, <3>8, <4>1 DEF CallbackClose
    <3>9. CASE CallbackIOError(c)
      <4>1. kern' \in [Fds -> KernStates] /\ fd' \in [Sockets -> Fds \cup {NoFd}]
        BY <3>1, <3>9, KernType DEF CallbackIOError, TypeOK
      <4> QED
        BY <3>4, <3>9, <4>1 DEF CallbackIOError
    <3>10. CASE ErrorCallback(c)
      BY <3>1, <3>10, SocketsAssumption DEF TypeOK, ErrorCallback, TakeCopy, Invoke, listVars
    <3> QED
      BY <3>2, <3>5, <3>6, <3>7, <3>8, <3>9, <3>10 DEF Call
  <2>7. CASE CallbackReturns
    BY <2>7 DEF TypeOK, CallbackReturns, listVars
  <2>8. CASE ErrorCallbackReturns
    <3>1. callback.obj \in Sockets
      BY <2>8 DEF TypeOK, ErrorCallbackReturns
    <3> QED
      BY <2>8, <3>1, CloseType DEF TypeOK, ErrorCallbackReturns
  <2>9. ASSUME NEW f \in Fds, PeerMoves(f) PROVE TypeOK'
    BY <2>9, KernMoveType DEF TypeOK, PeerMoves, listVars, loopVars
  <2>10. CASE UNCHANGED vars
    BY <2>10 DEF TypeOK, vars
  <2> QED
    BY <2>1, <2>2, <2>3, <2>4, <2>5, <2>6, <2>7, <2>8, <2>9, <2>10
       DEF Next, Engine, HandleSelect, Dispatch, Terminated
<1> QED
  BY <1>1, <1>2, PTL DEF Spec

-----------------------------------------------------------------------------
\* A step leaves the list alone, links an event, unlinks one, or lets timeouts
\* run down.
LEMMA ListStep ==
  ASSUME TypeOK, [Next]_vars
  PROVE  \/ UNCHANGED listVars
         \/ \E ev \in Event : \E p : Watch(ev, p)
         \/ \E f, p : Unwatch(f, p)
         \/ \E X : Elapse(X) /\ dangling' = dangling
<1> DEFINE Goal == \/ UNCHANGED listVars
                   \/ \E ev \in Event : \E p : Watch(ev, p)
                   \/ \E f, p : Unwatch(f, p)
                   \/ \E X : Elapse(X) /\ dangling' = dangling
<1>1. ASSUME NEW s \in Sockets, Method(s) PROVE Goal
  <2>1. CASE ConnectInProgress(s)
    <3>1. PICK f \in Fds, t \in Timeouts :
            Watch([fd |-> f, mask |-> "write", obj |-> s, timeout |-> t], pc)
      BY <2>1 DEF ConnectInProgress
    <3>2. [fd |-> f, mask |-> "write", obj |-> s, timeout |-> t] \in Event
      BY SocketsAssumption DEF Event
    <3> QED
      BY <3>1, <3>2
  <2>2. CASE TCPSocket_Close(s)
    BY <2>2 DEF TCPSocket_Close, CloseSocket, listVars
  <2>3. CASE TCPSocket_CT(s) \/ ConnectWithoutDescriptor(s) \/ ConnectDone(s)
             \/ ConnectError(s) \/ TCPSocket_Read(s) \/ TCPSocket_Write(s)
    BY <2>3 DEF TCPSocket_CT, ConnectWithoutDescriptor, ConnectDone, ConnectError,
       TCPSocket_Read, TCPSocket_Write, listVars
  <2> QED
    BY <1>1, <2>1, <2>2, <2>3 DEF Method
<1>2. CASE SelectReady \/ SelectTimeout
  BY <1>2 DEF SelectReady, SelectTimeout
<1>3. CASE ScriptReturns \/ ScriptThrows \/ LoopEnds \/ SelectAstray \/ SelectFails
           \/ BatchDone \/ CallbackReturns \/ UNCHANGED vars
  BY <1>3 DEF ScriptReturns, ScriptThrows, LoopEnds, SelectAstray, SelectFails,
     BatchDone, CallbackReturns, listVars, vars
<1>4. ASSUME NEW c \in batch, Call(c) PROVE Goal
  <2>1. c.obj \in Sockets
    BY SocketsAssumption DEF TypeOK, Copy
  <2>2. CASE CallbackUnconnected(c) \/ ErrorCallback(c)
    BY <2>2 DEF CallbackUnconnected, ErrorCallback, listVars
  <2>3. CASE CallbackConnect(c) \/ CallbackData(c)
    <3>1. fd[c.obj] \in Fds /\ MonitorAndInvoke(c)
      BY <2>1, <2>3 DEF TypeOK, CallbackConnect, HasPeer, CallbackData, Peek
    <3>2. [fd |-> fd[c.obj], mask |-> "read", obj |-> c.obj, timeout |-> "none"] \in Event
      BY <2>1, <3>1, SocketsAssumption DEF Event, TimeoutState
    <3> QED
      BY <3>1, <3>2 DEF MonitorAndInvoke
  <2>4. CASE CallbackConnectFailed(c) \/ CallbackClose(c) \/ CallbackIOError(c)
    BY <2>4 DEF CallbackConnectFailed, CallbackClose, CallbackIOError, ForgetAndInvoke
  <2> QED
    BY <1>4, <2>2, <2>3, <2>4 DEF Call
<1>5. CASE ErrorCallbackReturns
  BY <1>5 DEF ErrorCallbackReturns, CloseSocket, listVars
<1>6. ASSUME NEW f \in Fds, PeerMoves(f) PROVE Goal
  BY <1>6 DEF PeerMoves, listVars
<1> QED
  BY <1>1, <1>2, <1>3, <1>4, <1>5, <1>6
     DEF Next, Engine, HandleSelect, Dispatch, Terminated

\* Whatever a script does, ps_AddSelect and ps_RemoveSelect keep at most one
\* event per descriptor in the list.
THEOREM OneEvent == Spec => []OneEventPerFd
<1>1. Init => OneEventPerFd
  BY DEF Init, OneEventPerFd
<1>2. ASSUME TypeOK, OneEventPerFd, [Next]_vars PROVE OneEventPerFd'
  <2>1. events \in Seq(Event) /\ Unique(events)
    BY <1>2 DEF TypeOK, OneEventPerFd, Unique
  <2>2. Unique(events')
    <3>1. CASE UNCHANGED listVars
      BY <2>1, <3>1 DEF listVars
    <3>2. ASSUME NEW ev \in Event, NEW p, Watch(ev, p) PROVE Unique(events')
      BY <2>1, <3>2, AddSelectAdds DEF HasAdded, Watch
    <3>3. ASSUME NEW f, NEW p, Unwatch(f, p) PROVE Unique(events')
      BY <2>1, <3>3, RemoveSelectDrops DEF HasDropped, Unwatch
    <3>4. ASSUME NEW X, Elapse(X) PROVE Unique(events')
      BY <2>1, <3>4, ElapseFacts DEF Unique
    <3> QED
      BY <1>2, <3>1, <3>2, <3>3, <3>4, ListStep
  <2> QED
    BY <2>2 DEF OneEventPerFd, Unique
<1> QED
  BY <1>1, <1>2, TypeCorrect, PTL DEF Spec

-----------------------------------------------------------------------------
(* The descriptors: what a step does to the fd fields and to the kernel.   *)

\* Nothing is opened or closed and no fd field changes.
SameOwners ==
  /\ fd' = fd
  /\ \A f \in Fds : kern'[f] = "closed" <=> kern[f] = "closed"

\* The object closes what it holds.
Closes(s) ==
  /\ fd' = [fd EXCEPT ![s] = NoFd]
  /\ kern' = KernAfterClose(s)

\* The object closes what it holds, if it was connected, and gets f.
Opens(s, f) ==
  /\ MayConnect(s)
  /\ KernForConnect(s)[f] = "closed"
  /\ fd' = [fd EXCEPT ![s] = f]
  /\ \E k \in KernStates \ {"closed"} : kern' = [KernForConnect(s) EXCEPT ![f] = k]

\* The object closes what it holds, if it was connected, and gets nothing.
OpensNothing(s) ==
  /\ MayConnect(s)
  /\ fd' = [fd EXCEPT ![s] = NoFd]
  /\ kern' = KernForConnect(s)

\* Every step is one of these four.
LEMMA OwnerStep ==
  ASSUME TypeOK, [Next]_vars
  PROVE  \/ SameOwners
         \/ \E s \in Sockets : Closes(s) \/ OpensNothing(s) \/ \E f \in Fds : Opens(s, f)
<1> DEFINE Goal ==
      \/ SameOwners
      \/ \E s \in Sockets : Closes(s) \/ OpensNothing(s) \/ \E f \in Fds : Opens(s, f)
<1>1. (fd' = fd /\ kern' = kern) => SameOwners
  BY DEF SameOwners
<1>2. ASSUME NEW s \in Sockets, CloseSocket(s, pc) \/ CloseSocket(s, "dispatch") PROVE Goal
  BY <1>1, <1>2 DEF CloseSocket, FdAfterClose, Closes
<1>3. ASSUME NEW s \in Sockets, Method(s) PROVE Goal
  <2>1. CASE TCPSocket_CT(s)
    BY <1>1, <2>1 DEF TCPSocket_CT
  <2>2. CASE ConnectWithoutDescriptor(s)
    BY <2>2 DEF ConnectWithoutDescriptor, OpensNothing
  <2>3. CASE ConnectInProgress(s) \/ ConnectDone(s) \/ ConnectError(s)
    <3>1. \E f \in Fds : Opens(s, f)
      BY <2>3 DEF ConnectInProgress, ConnectDone, ConnectError, Opens, LowestFree, KernStates
    <3> QED
      BY <3>1
  <2>4. CASE TCPSocket_Close(s)
    BY <1>2, <2>4 DEF TCPSocket_Close
  <2>5. CASE TCPSocket_Read(s)
    <3>1. fd[s] \in Fds /\ fd' = fd
      BY <2>5 DEF TypeOK, TCPSocket_Read
    <3>2. PICK k \in AfterRecv(kern[fd[s]]) : kern' = [kern EXCEPT ![fd[s]] = k]
      BY <2>5 DEF TCPSocket_Read
    <3>3. k = "closed" <=> kern[fd[s]] = "closed"
      BY <3>1, <3>2 DEF TypeOK, AfterRecv, KernStates
    <3>4. SameOwners
      BY <3>1, <3>2, <3>3 DEF TypeOK, SameOwners
    <3> QED
      BY <3>4
  <2>6. CASE TCPSocket_Write(s)
    BY <2>6 DEF TypeOK, TCPSocket_Write, SameOwners
  <2> QED
    BY <1>3, <2>1, <2>2, <2>3, <2>4, <2>5, <2>6 DEF Method
<1>4. CASE ScriptReturns \/ ScriptThrows \/ LoopEnds \/ HandleSelect \/ CallbackReturns
           \/ UNCHANGED vars
  BY <1>1, <1>4 DEF ScriptReturns, ScriptThrows, LoopEnds, HandleSelect, SelectAstray,
     SelectReady, SelectTimeout, SelectFails, BatchDone, CallbackReturns, vars
<1>5. ASSUME NEW c \in batch, Call(c) PROVE Goal
  <2>1. c.obj \in Sockets
    BY SocketsAssumption DEF TypeOK, Copy
  <2>2. CASE CallbackUnconnected(c) \/ ErrorCallback(c) \/ CallbackConnect(c)
             \/ CallbackData(c) \/ CallbackConnectFailed(c)
    BY <1>1, <2>2 DEF CallbackUnconnected, ErrorCallback, CallbackConnect, CallbackData,
       CallbackConnectFailed, MonitorAndInvoke
  <2>3. CASE CallbackClose(c)
    BY <2>1, <2>3 DEF CallbackClose, FdAfterClose, Closes
  <2>4. CASE CallbackIOError(c)
    <3>1. fd' = fd /\ kern' = KernAfterReport(c.obj)
      BY <2>4 DEF CallbackIOError
    <3>2. SameOwners
      BY <2>1, <3>1 DEF TypeOK, KernAfterReport, SameOwners
    <3> QED
      BY <3>2
  <2> QED
    BY <1>5, <2>2, <2>3, <2>4 DEF Call
<1>6. CASE ErrorCallbackReturns
  BY <1>2, <1>6 DEF TypeOK, ErrorCallbackReturns
<1>7. ASSUME NEW f \in Fds, PeerMoves(f) PROVE Goal
  <2>1. PICK k \in KernMoves[kern[f]] : kern' = [kern EXCEPT ![f] = k]
    BY <1>7 DEF PeerMoves
  <2>2. kern[f] # "closed" /\ k # "closed"
    BY <1>7, <2>1 DEF TypeOK, KernMoves, KernStates
  <2>3. SameOwners
    BY <1>7, <2>1, <2>2 DEF TypeOK, PeerMoves, SameOwners
  <2> QED
    BY <2>3
<1> QED
  BY <1>3, <1>4, <1>5, <1>6, <1>7 DEF Next, Engine, Dispatch, Terminated

\* No socket's fd field names a closed descriptor, or one another socket holds:
\* no call of the class can reach a connection that is not its own.
THEOREM Exclusive == Spec => []DescriptorsExclusive
<1>1. Init => DescriptorsExclusive
  BY DEF Init, DescriptorsExclusive
<1>2. ASSUME TypeOK, DescriptorsExclusive, [Next]_vars PROVE DescriptorsExclusive'
  <2>1. CASE SameOwners
    BY <1>2, <2>1 DEF TypeOK, SameOwners, DescriptorsExclusive
  <2>2. ASSUME NEW s \in Sockets, Closes(s) PROVE DescriptorsExclusive'
    BY <1>2, <2>2 DEF TypeOK, Closes, KernAfterClose, DescriptorsExclusive
  <2>3. ASSUME NEW s \in Sockets, OpensNothing(s) PROVE DescriptorsExclusive'
    BY <1>2, <2>3 DEF TypeOK, OpensNothing, KernForConnect, KernAfterClose,
       DescriptorsExclusive
  <2>4. ASSUME NEW s \in Sockets, NEW f \in Fds, Opens(s, f) PROVE DescriptorsExclusive'
    <3>1. PICK k \in KernStates \ {"closed"} : kern' = [KernForConnect(s) EXCEPT ![f] = k]
      BY <2>4 DEF Opens
    <3>2. \A t \in Sockets \ {s} : fd[t] # NoFd => KernForConnect(s)[fd[t]] # "closed"
      BY <1>2 DEF TypeOK, KernForConnect, KernAfterClose, DescriptorsExclusive
    <3>3. \A t \in Sockets \ {s} : fd[t] # f
      BY <2>4, <3>2, SocketsAssumption DEF Opens
    <3>4. fd'[s] = f /\ \A t \in Sockets \ {s} : fd'[t] = fd[t]
      BY <1>2, <2>4 DEF TypeOK, Opens
    <3>5. kern'[f] = k /\ \A g \in Fds \ {f} : kern'[g] = KernForConnect(s)[g]
      BY <1>2, <3>1, KernType DEF TypeOK
    <3> QED
      BY <1>2, <3>1, <3>2, <3>3, <3>4, <3>5 DEF TypeOK, DescriptorsExclusive
  <2> QED
    BY <1>2, <2>1, <2>2, <2>3, <2>4, OwnerStep
<1> QED
  BY <1>1, <1>2, TypeCorrect, PTL DEF Spec

-----------------------------------------------------------------------------
(* Scripts that call connect() only on a socket that holds no descriptor.  *)

\* With such scripts no descriptor is ever lost: each open one is in some
\* socket's fd field.
THEOREM NoLeak == ASSUME ~BusyConnect PROVE Spec => []NoDescriptorLeak
<1>1. Init => NoDescriptorLeak
  BY DEF Init, NoDescriptorLeak
<1>2. ASSUME TypeOK, DescriptorsExclusive, NoDescriptorLeak, [Next]_vars, ~BusyConnect
      PROVE  NoDescriptorLeak'
  <2>1. CASE SameOwners
    BY <1>2, <2>1 DEF SameOwners, NoDescriptorLeak
  <2>2. ASSUME NEW s \in Sockets, Closes(s) PROVE NoDescriptorLeak'
    BY <1>2, <2>2 DEF TypeOK, Closes, KernAfterClose, NoDescriptorLeak
  <2>3. ASSUME NEW s \in Sockets, OpensNothing(s) PROVE NoDescriptorLeak'
    <3>1. fd[s] = NoFd /\ kern' = kern
      BY <1>2, <2>3 DEF OpensNothing, MayConnect, KernForConnect, KernAfterClose
    <3> QED
      BY <1>2, <2>3, <3>1, SocketsAssumption DEF TypeOK, OpensNothing, NoDescriptorLeak
  <2>4. ASSUME NEW s \in Sockets, NEW f \in Fds, Opens(s, f) PROVE NoDescriptorLeak'
    <3>1. PICK k \in KernStates : kern' = [kern EXCEPT ![f] = k]
      BY <1>2, <2>4 DEF Opens, MayConnect, KernForConnect, KernAfterClose
    <3>2. fd[s] = NoFd /\ fd' = [fd EXCEPT ![s] = f]
      BY <1>2, <2>4 DEF Opens, MayConnect
    <3> QED
      BY <1>2, <3>1, <3>2, SocketsAssumption DEF TypeOK, NoDescriptorLeak
  <2> QED
    BY <1>2, <2>1, <2>2, <2>3, <2>4, OwnerStep
<1> QED
  BY <1>1, <1>2, TypeCorrect, Exclusive, PTL DEF Spec

\* What EventsMatchSockets asks of one event.
Matching(e, m, f, st) ==
  /\ m[e.obj] = "async"
  /\ e.fd = f[e.obj]
  /\ \/ st[e.obj] = "CONNECTING" /\ e.mask = "write"
     \/ st[e.obj] = "CONNECTED"  /\ e.mask = "read"

\* EventsMatchSockets, now and after a step, one event at a time.
LEMMA EventsMatchDef ==
  /\ EventsMatchSockets <=> \A i \in DOMAIN events : Matching(events[i], mode, fd, state)
  /\ EventsMatchSockets' <=>
       \A i \in DOMAIN events' : Matching(events'[i], mode', fd', state')
BY DEF EventsMatchSockets, Matching

\* When the object of a watched descriptor links its new event, the events of
\* the other objects are what is left beside it.
LEMMA WatchMatches ==
  ASSUME TypeOK, OneEventPerFd, EventsMatchSockets,
         NEW ev \in Event, NEW p, Watch(ev, p),
         Matching(ev, mode', fd', state'),
         fd[ev.obj] \in {ev.fd, NoFd},
         \A s \in Sockets \ {ev.obj} :
           mode'[s] = mode[s] /\ fd'[s] = fd[s] /\ state'[s] = state[s]
  PROVE  EventsMatchSockets'
<1>1. events \in Seq(Event) /\ Unique(events)
  BY DEF TypeOK, OneEventPerFd, Unique
<1>2. events' = AddSelect(events, ev)
  BY DEF Watch
<1>3. \A i \in DOMAIN events' : events'[i] = ev \/ \E j \in DOMAIN events : events'[i] = events[j]
  BY <1>1, <1>2, AddSelectAdds DEF HasAdded
<1>4. \A i \in DOMAIN events' : events'[i].fd = ev.fd => events'[i] = ev
  BY <1>1, <1>2, AddSelectAdds DEF HasAdded
<1>5. ASSUME NEW i \in DOMAIN events', events'[i] # ev PROVE Matching(events'[i], mode', fd', state')
  <2>1. PICK j \in DOMAIN events : events'[i] = events[j]
    BY <1>3, <1>5
  <2>2. events[j] \in Event /\ Matching(events[j], mode, fd, state) /\ events[j].fd # ev.fd
    BY <1>1, <1>4, <1>5, <2>1, EventsMatchDef
  <2>3. events[j].obj \in Sockets \ {ev.obj}
    BY <2>2, SocketsAssumption DEF Event, Matching
  <2> QED
    BY <2>1, <2>2, <2>3 DEF Matching
<1> QED
  BY <1>5, EventsMatchDef

\* When an object's descriptor is unwatched, only other objects' events remain.
LEMMA UnwatchMatches ==
  ASSUME TypeOK, OneEventPerFd, EventsMatchSockets,
         NEW s \in Sockets, NEW p, Unwatch(fd[s], p),
         \A t \in Sockets \ {s} :
           mode'[t] = mode[t] /\ fd'[t] = fd[t] /\ state'[t] = state[t]
  PROVE  EventsMatchSockets'
<1>1. events \in Seq(Event) /\ Unique(events)
  BY DEF TypeOK, OneEventPerFd, Unique
<1>2. events' = RemoveSelect(events, fd[s])
  BY DEF Unwatch
<1>3. /\ \A i \in DOMAIN events' : \E j \in DOMAIN events : events'[i] = events[j]
      /\ \A i \in DOMAIN events' : events'[i].fd # fd[s]
  BY <1>1, <1>2, RemoveSelectDrops DEF HasDropped
<1>4. ASSUME NEW i \in DOMAIN events' PROVE Matching(events'[i], mode', fd', state')
  <2>1. PICK j \in DOMAIN events : events'[i] = events[j]
    BY <1>3
  <2>2. events[j] \in Event /\ Matching(events[j], mode, fd, state) /\ events[j].fd # fd[s]
    BY <1>1, <1>3, <2>1, EventsMatchDef
  <2>3. events[j].obj \in Sockets \ {s}
    BY <2>2, SocketsAssumption DEF Event, Matching
  <2> QED
    BY <2>1, <2>2, <2>3 DEF Matching
<1> QED
  BY <1>4, EventsMatchDef

\* With such scripts every event belongs to a socket that holds its descriptor
\* and waits for just that event, so ps_HandleSelect never watches a descriptor
\* that is closed or that nobody waits for.
THEOREM EventsMatch == ASSUME ~BusyConnect PROVE Spec => []EventsMatchSockets
<1>1. Init => EventsMatchSockets
  BY DEF Init, EventsMatchSockets
<1>2. ASSUME TypeOK, OneEventPerFd, EventsMatchSockets, [Next]_vars, ~BusyConnect
      PROVE  EventsMatchSockets'
  <2> USE <1>2
  <2>1. ASSUME NEW s \in Sockets, events' = events, mode' = mode,
               fd[s] = NoFd,
               \A t \in Sockets \ {s} : fd'[t] = fd[t] /\ state'[t] = state[t]
        PROVE  EventsMatchSockets'
    <3>1. \A i \in DOMAIN events : events[i] \in Event
      BY DEF TypeOK
    <3>2. \A i \in DOMAIN events : events[i].obj \in Sockets \ {s}
      BY <2>1, <3>1, SocketsAssumption DEF Event, EventsMatchSockets
    <3> QED
      BY <2>1, <3>2 DEF EventsMatchSockets
  <2>2. ASSUME NEW s \in Sockets, NEW p, CloseSocket(s, p), mode' = mode, state' = state
        PROVE  EventsMatchSockets'
    <3>1. CASE fd[s] = NoFd
      BY <2>1, <2>2, <3>1, SocketsAssumption DEF CloseSocket, listVars, EventsMatchSockets
    <3>2. CASE fd[s] # NoFd
      BY <2>2, <3>2, UnwatchMatches DEF CloseSocket, FdAfterClose, TypeOK
    <3> QED
      BY <3>1, <3>2
  <2>3. ASSUME NEW s \in Sockets, Method(s) PROVE EventsMatchSockets'
    <3>1. CASE TCPSocket_CT(s)
      <4>1. \A i \in DOMAIN events : events[i].obj # s
        BY <3>1 DEF TCPSocket_CT, EventsMatchSockets
      <4>2. \A i \in DOMAIN events : events[i] \in Event
        BY DEF TypeOK
      <4>3. \A i \in DOMAIN events : mode'[events[i].obj] = mode[events[i].obj]
        BY <3>1, <4>1, <4>2, SocketsAssumption DEF TCPSocket_CT, TypeOK, Event
      <4> QED
        BY <3>1, <4>3 DEF TCPSocket_CT, listVars, EventsMatchSockets
    <3>2. CASE ConnectWithoutDescriptor(s) \/ ConnectDone(s) \/ ConnectError(s)
      BY <2>1, <3>2 DEF ConnectWithoutDescriptor, ConnectDone, ConnectError, MayConnect,
         TypeOK, listVars
    <3>3. CASE ConnectInProgress(s)
      <4>1. PICK f \in Fds, t \in Timeouts :
              /\ fd' = [fd EXCEPT ![s] = f]
              /\ Watch([fd |-> f, mask |-> "write", obj |-> s, timeout |-> t], pc)
        BY <3>3 DEF ConnectInProgress
      <4> DEFINE ev == [fd |-> f, mask |-> "write", obj |-> s, timeout |-> t]
      <4>2. ev \in Event /\ fd[s] = NoFd
        BY <3>3, SocketsAssumption DEF Event, ConnectInProgress, MayConnect
      <4>3. Matching(ev, mode', fd', state')
        BY <3>3, <4>1 DEF ConnectInProgress, TypeOK, Matching
      <4>4. \A u \in Sockets \ {s} :
              mode'[u] = mode[u] /\ fd'[u] = fd[u] /\ state'[u] = state[u]
        BY <3>3, <4>1 DEF ConnectInProgress, TypeOK
      <4> QED
        BY <4>1, <4>2, <4>3, <4>4, WatchMatches
    <3>4. CASE TCPSocket_Close(s)
      BY <2>2, <3>4 DEF TCPSocket_Close
    <3>5. CASE TCPSocket_Read(s) \/ TCPSocket_Write(s)
      BY <3>5 DEF TCPSocket_Read, TCPSocket_Write, listVars, EventsMatchSockets
    <3> QED
      BY <2>3, <3>1, <3>2, <3>3, <3>4, <3>5 DEF Method
  <2>4. CASE SelectReady \/ SelectTimeout
    <3>1. PICK X : Elapse(X)
      BY <2>4 DEF SelectReady, SelectTimeout
    <3>2. /\ DOMAIN events' = DOMAIN events
          /\ \A i \in DOMAIN events :
               /\ events'[i].fd = events[i].fd
               /\ events'[i].mask = events[i].mask
               /\ events'[i].obj = events[i].obj
      BY <3>1, ElapseFacts DEF TypeOK
    <3>3. mode' = mode /\ fd' = fd /\ state' = state
      BY <2>4 DEF SelectReady, SelectTimeout
    <3> QED
      BY <3>2, <3>3 DEF EventsMatchSockets
  <2>5. CASE ScriptReturns \/ ScriptThrows \/ LoopEnds \/ SelectAstray \/ SelectFails
             \/ BatchDone \/ CallbackReturns \/ UNCHANGED vars
    BY <2>5 DEF ScriptReturns, ScriptThrows, LoopEnds, SelectAstray, SelectFails,
       BatchDone, CallbackReturns, listVars, vars, EventsMatchSockets
  <2>6. ASSUME NEW c \in batch, Call(c) PROVE EventsMatchSockets'
    <3>1. c.obj \in Sockets
      BY SocketsAssumption DEF TypeOK, Copy
    <3>2. CASE CallbackUnconnected(c) \/ ErrorCallback(c)
      BY <3>2 DEF CallbackUnconnected, ErrorCallback, listVars, EventsMatchSockets
    <3>3. CASE CallbackConnect(c) \/ CallbackData(c)
      <4> DEFINE ev == [fd |-> fd[c.obj], mask |-> "read", obj |-> c.obj, timeout |-> "none"]
      <4>1. fd[c.obj] \in Fds /\ mode[c.obj] = "async" /\ MonitorAndInvoke(c)
        BY <3>1, <3>3 DEF TypeOK, CallbackConnect, HasPeer, CallbackData, Peek
      <4>2. ev \in Event
        BY <3>1, <4>1, SocketsAssumption DEF Event, TimeoutState
      <4>3. Matching(ev, mode', fd', state')
        BY <3>1, <4>1 DEF MonitorAndInvoke, TypeOK, Matching
      <4>4. \A u \in Sockets \ {c.obj} :
              mode'[u] = mode[u] /\ fd'[u] = fd[u] /\ state'[u] = state[u]
        BY <4>1 DEF MonitorAndInvoke, TypeOK
      <4>5. Watch(ev, "callback")
        BY <4>1 DEF MonitorAndInvoke
      <4> QED
        BY <4>2, <4>3, <4>4, <4>5, WatchMatches
    <3>4. CASE CallbackConnectFailed(c) \/ CallbackClose(c) \/ CallbackIOError(c)
      <4>1. ForgetAndInvoke(c) /\ \A u \in Sockets \ {c.obj} : fd'[u] = fd[u]
        BY <3>1, <3>4 DEF CallbackConnectFailed, CallbackClose, CallbackIOError, FdAfterClose, TypeOK
      <4>2. \A u \in Sockets \ {c.obj} :
              mode'[u] = mode[u] /\ fd'[u] = fd[u] /\ state'[u] = state[u]
        BY <3>1, <4>1 DEF ForgetAndInvoke, TypeOK
      <4> QED
        BY <3>1, <4>1, <4>2, UnwatchMatches DEF ForgetAndInvoke
    <3> QED
      BY <2>6, <3>2, <3>3, <3>4 DEF Call
  <2>7. CASE ErrorCallbackReturns
    <3>1. callback.obj \in Sockets
      BY <2>7 DEF TypeOK, ErrorCallbackReturns
    <3> QED
      BY <2>2, <2>7, <3>1 DEF ErrorCallbackReturns
  <2>8. ASSUME NEW f \in Fds, PeerMoves(f) PROVE EventsMatchSockets'
    BY <2>8 DEF PeerMoves, listVars, EventsMatchSockets
  <2> QED
    BY <2>3, <2>4, <2>5, <2>6, <2>7, <2>8
       DEF Next, Engine, HandleSelect, Dispatch, Terminated
<1> QED
  BY <1>1, <1>2, TypeCorrect, OneEvent, PTL DEF Spec

\* A single socket never makes the list dangling: its only event is the first
\* of the list whenever it is removed.
THEOREM OneSocketListSound ==
  ASSUME ~BusyConnect, \A s, t \in Sockets : s = t
  PROVE  Spec => []ListSound
<1>1. Init => ListSound
  BY DEF Init, ListSound
<1>2. ASSUME TypeOK, OneEventPerFd, EventsMatchSockets, ListSound, [Next]_vars,
             \A s, t \in Sockets : s = t
      PROVE  ListSound'
  <2>1. \A i \in DOMAIN events : i \in 1 .. Len(events) /\ events[i] \in Event
    BY <1>2 DEF TypeOK
  <2>2. \A i \in DOMAIN events : 1 \in DOMAIN events
    BY <1>2 DEF TypeOK
  <2>3. \A i, j \in DOMAIN events : events[i].obj = events[j].obj
    BY <1>2, <2>1, SocketsAssumption DEF Event
  <2>4. \A i, j \in DOMAIN events : i = j
    BY <1>2, <2>3 DEF EventsMatchSockets, OneEventPerFd
  <2>5. \A f : ~LeavesFreed(events, f)
    BY <2>2, <2>4 DEF LeavesFreed, Watching
  <2>6. CASE UNCHANGED listVars
    BY <1>2, <2>6 DEF listVars, ListSound
  <2>7. ASSUME NEW ev \in Event, NEW p, Watch(ev, p) PROVE ListSound'
    BY <1>2, <2>5, <2>7 DEF Watch, ListSound
  <2>8. ASSUME NEW f, NEW p, Unwatch(f, p) PROVE ListSound'
    BY <1>2, <2>5, <2>8 DEF Unwatch, ListSound
  <2>9. ASSUME NEW X, Elapse(X), dangling' = dangling PROVE ListSound'
    BY <1>2, <2>9 DEF ListSound
  <2> QED
    BY <1>2, <2>6, <2>7, <2>8, <2>9, ListStep
<1> QED
  BY <1>1, <1>2, TypeCorrect, OneEvent, EventsMatch, PTL DEF Spec

-----------------------------------------------------------------------------
(* What the script is told.                                                *)

\* What the script knows follows the state field, and no event was ever called
\* as errored, since no watched descriptor is closed.
ToldMatchesState ==
  /\ \A s \in Sockets :
       /\ told[s] = "over" => state[s] = "UNCONNECTED"
       /\ state[s] = "CONNECTING" => told[s] = "nothing"
  /\ \A c \in batch : c.how = "func"
  /\ callback # Nobody => callback.how = "func"

\* The descriptors ps_HandleSelect watches are open.
LEMMA NoBadDescriptor ==
  ASSUME TypeOK, EventsMatchSockets, DescriptorsExclusive
  PROVE  ~BadDescriptor
<1>1. \A i \in DOMAIN events : events[i] \in Event
  BY DEF TypeOK
<1>2. \A i \in DOMAIN events : kern[events[i].fd] # "closed"
  BY <1>1, SocketsAssumption DEF Event, EventsMatchSockets, DescriptorsExclusive
<1> QED
  BY <1>2 DEF BadDescriptor

\* ToldMatchesState is inductive where the list matches the sockets.
LEMMA ToldInductive ==
  ASSUME TypeOK, EventsMatchSockets, DescriptorsExclusive, ToldMatchesState,
         ~BusyConnect, [Next]_vars
  PROVE  ToldMatchesState'
<1>1. ASSUME NEW s \in Sockets, Method(s) PROVE ToldMatchesState'
  <2>1. CASE ConnectWithoutDescriptor(s) \/ ConnectInProgress(s) \/ ConnectDone(s)
             \/ ConnectError(s)
    BY <2>1 DEF ConnectWithoutDescriptor, ConnectInProgress, ConnectDone, ConnectError,
       StateForConnect, TypeOK, loopVars, ToldMatchesState
  <2>2. CASE TCPSocket_CT(s) \/ TCPSocket_Close(s) \/ TCPSocket_Read(s) \/ TCPSocket_Write(s)
    BY <2>2 DEF TCPSocket_CT, TCPSocket_Close, TCPSocket_Read, TCPSocket_Write, loopVars,
       ToldMatchesState
  <2> QED
    BY <1>1, <2>1, <2>2 DEF Method
<1>2. CASE SelectReady \/ SelectTimeout
  BY <1>2 DEF SelectReady, SelectTimeout, Copies, ToldMatchesState
<1>3. CASE SelectFails
  BY <1>3, NoBadDescriptor DEF SelectFails
<1>4. CASE ScriptReturns \/ ScriptThrows \/ LoopEnds \/ SelectAstray \/ BatchDone
           \/ CallbackReturns \/ ErrorCallbackReturns \/ UNCHANGED vars
  BY <1>4 DEF ScriptReturns, ScriptThrows, LoopEnds, SelectAstray, BatchDone,
     CallbackReturns, ErrorCallbackReturns, loopVars, vars, ToldMatchesState
<1>5. ASSUME NEW c \in batch, Call(c) PROVE ToldMatchesState'
  <2>1. c.obj \in Sockets /\ c.how = "func"
    BY SocketsAssumption DEF TypeOK, Copy, ToldMatchesState
  <2>2. CASE CallbackUnconnected(c)
    BY <2>2 DEF CallbackUnconnected, TakeCopy, ToldMatchesState
  <2>3. ASSUME TakeCopy(c, "func"), MonitorAndInvoke(c) PROVE ToldMatchesState'
    BY <2>1, <2>3 DEF TakeCopy, MonitorAndInvoke, Invoke, TypeOK, ToldMatchesState
  <2>4. ASSUME TakeCopy(c, "func"), ForgetAndInvoke(c) PROVE ToldMatchesState'
    BY <2>1, <2>4 DEF TakeCopy, ForgetAndInvoke, Invoke, TypeOK, ToldMatchesState
  <2>5. CASE ErrorCallback(c)
    BY <2>1, <2>5 DEF ErrorCallback, TakeCopy
  <2> QED
    BY <1>5, <2>2, <2>3, <2>4, <2>5 DEF Call, CallbackConnect, CallbackData,
       CallbackConnectFailed, CallbackClose, CallbackIOError
<1>6. ASSUME NEW f \in Fds, PeerMoves(f) PROVE ToldMatchesState'
  BY <1>6 DEF PeerMoves, loopVars, ToldMatchesState
<1> QED
  BY <1>1, <1>2, <1>3, <1>4, <1>5, <1>6
     DEF Next, Engine, HandleSelect, Dispatch, Terminated

\* What a step tells the script, given ToldMatchesState before it.
OrderStep ==
  \A s \in Sockets : InvokedOn(s) =>
    /\ told[s] # "over"
    /\ told[s] = "connected" => state'[s] # "CONNECTING"
    /\ state[s] = "CONNECTING" => told[s] = "nothing"

\* Only the call of a copy runs a script function.
LEMMA InvokedByCall ==
  ASSUME TypeOK, [Next]_vars, callback = Nobody, callback' # Nobody
  PROVE  \E c \in batch : Call(c)
<1>1. ASSUME NEW s \in Sockets, Method(s) PROVE FALSE
  BY <1>1 DEF Method, TCPSocket_CT, ConnectWithoutDescriptor, ConnectInProgress,
     ConnectDone, ConnectError, TCPSocket_Close, TCPSocket_Read, TCPSocket_Write, loopVars
<1>2. ASSUME NEW f \in Fds, PeerMoves(f) PROVE FALSE
  BY <1>2 DEF PeerMoves, loopVars
<1>3. CASE ScriptReturns \/ ScriptThrows \/ LoopEnds \/ HandleSelect \/ CallbackReturns
           \/ ErrorCallbackReturns \/ UNCHANGED vars
  BY <1>3 DEF ScriptReturns, ScriptThrows, LoopEnds, HandleSelect, SelectAstray,
     SelectReady, SelectTimeout, SelectFails, BatchDone, CallbackReturns,
     ErrorCallbackReturns, loopVars, vars
<1> QED
  BY <1>1, <1>2, <1>3 DEF Next, Engine, Dispatch, Terminated

\* With such scripts a connection attempt is reported in order: at most one
\* onConnect, then data, then at most one onClose or onIOError.
THEOREM Notified == ASSUME ~BusyConnect PROVE Spec => NotifiedInOrder
<1>1. Init => ToldMatchesState
  BY DEF Init, ToldMatchesState
<1>2. ASSUME TypeOK, ToldMatchesState, [Next]_vars PROVE OrderStep
  <2>1. SUFFICES ASSUME NEW s \in Sockets, InvokedOn(s)
                 PROVE  /\ told[s] # "over"
                        /\ told[s] = "connected" => state'[s] # "CONNECTING"
                        /\ state[s] = "CONNECTING" => told[s] = "nothing"
    BY DEF OrderStep
  <2>2. PICK c \in batch : Call(c)
    BY <1>2, <2>1, InvokedByCall DEF InvokedOn
  <2>3. c.obj \in Sockets /\ c.how = "func"
    BY <1>2, SocketsAssumption DEF TypeOK, Copy, ToldMatchesState
  <2>4. ~ErrorCallback(c) /\ ~CallbackUnconnected(c)
    BY <2>1, <2>3 DEF ErrorCallback, CallbackUnconnected, TakeCopy, InvokedOn
  <2>5. c.obj = s /\ state[s] # "UNCONNECTED" /\ state'[s] # "CONNECTING"
    BY <1>2, <2>1, <2>2, <2>3, <2>4 DEF Call, CallbackConnect, CallbackConnectFailed,
       CallbackData, CallbackClose, CallbackIOError, MonitorAndInvoke, ForgetAndInvoke,
       Invoke, InvokedOn, TypeOK
  <2> QED
    BY <1>2, <2>1, <2>5 DEF ToldMatchesState
<1>3. ASSUME TypeOK, ToldMatchesState, UNCHANGED vars PROVE OrderStep
  BY <1>3 DEF vars, OrderStep, InvokedOn
<1>4. NotifiedInOrder <=> [][OrderStep]_vars
  BY PTL DEF NotifiedInOrder, OrderStep
<1> QED
  BY <1>1, <1>2, <1>4, ToldInductive, TypeCorrect, EventsMatch, Exclusive, PTL DEF Spec
-----------------------------------------------------------------------------
(* Waiting sockets are watched.                                            *)

\* What SocketsWatched asks of one socket.
IsWatched(s, evs, m, f, st) ==
  m[s] = "async" /\ f[s] # NoFd /\ st[s] # "UNCONNECTED"
    => \E i \in DOMAIN evs : evs[i].fd = f[s] /\ evs[i].obj = s

\* SocketsWatched, now and after a step, one socket at a time.
LEMMA WatchedDef ==
  /\ SocketsWatched <=> \A s \in Sockets : IsWatched(s, events, mode, fd, state)
  /\ SocketsWatched' <=> \A s \in Sockets : IsWatched(s, events', mode', fd', state')
BY DEF SocketsWatched, IsWatched

\* A socket that does not change stays watched if its events stay, and s need not be if it
\* has no descriptor or is not connected any more.
LEMMA WatchedStays ==
  ASSUME TypeOK, SocketsWatched, NEW s \in Sockets,
         \A t \in Sockets \ {s} :
           /\ mode'[t] = mode[t] /\ fd'[t] = fd[t] /\ state'[t] = state[t]
           /\ fd[t] # NoFd => \A j \in DOMAIN events :
                events[j].fd = fd[t] => \E i \in DOMAIN events' : events'[i] = events[j],
         IsWatched(s, events', mode', fd', state')
  PROVE  SocketsWatched'
<1>1. ASSUME NEW t \in Sockets \ {s} PROVE IsWatched(t, events', mode', fd', state')
  <2>1. IsWatched(t, events, mode, fd, state)
    BY WatchedDef
  <2> QED
    BY <2>1 DEF IsWatched
<1> QED
  BY <1>1, WatchedDef

\* A socket links the event of its descriptor, which no other socket holds.
LEMMA WatchKeepsWatched ==
  ASSUME TypeOK, SocketsWatched, NEW ev \in Event, NEW p, Watch(ev, p),
         fd'[ev.obj] = ev.fd,
         \A t \in Sockets \ {ev.obj} :
           /\ mode'[t] = mode[t] /\ fd'[t] = fd[t] /\ state'[t] = state[t]
           /\ fd[t] # ev.fd
  PROVE  SocketsWatched'
<1>1. ev.obj \in Sockets /\ events \in Seq(Event) /\ events' = AddSelect(events, ev)
  BY SocketsAssumption DEF TypeOK, Event, Watch
<1>2. \E i \in DOMAIN events' : events'[i] = ev
  BY <1>1, AddSelectAdds DEF HasAdded
<1>3. \A j \in DOMAIN events :
        events[j].fd # ev.fd => \E i \in DOMAIN events' : events'[i] = events[j]
  BY <1>1, AddSelectAdds DEF HasAdded
<1>4. IsWatched(ev.obj, events', mode', fd', state')
  BY <1>2 DEF IsWatched
<1> QED
  BY <1>1, <1>3, <1>4, WatchedStays

\* A socket that needs its event no more has it removed.
LEMMA UnwatchKeepsWatched ==
  ASSUME TypeOK, SocketsWatched, DescriptorsExclusive,
         NEW s \in Sockets, NEW p, Unwatch(fd[s], p),
         \A t \in Sockets \ {s} :
           mode'[t] = mode[t] /\ fd'[t] = fd[t] /\ state'[t] = state[t],
         fd'[s] = NoFd \/ state'[s] = "UNCONNECTED"
  PROVE  SocketsWatched'
<1>1. events \in Seq(Event) /\ events' = RemoveSelect(events, fd[s])
  BY DEF TypeOK, Unwatch
<1>2. \A j \in DOMAIN events :
        events[j].fd # fd[s] => \E i \in DOMAIN events' : events'[i] = events[j]
  BY <1>1, RemoveSelectDrops DEF HasDropped
<1>3. \A t \in Sockets \ {s} : fd[t] # NoFd => fd[t] # fd[s]
  BY DEF DescriptorsExclusive
<1>4. IsWatched(s, events', mode', fd', state')
  BY DEF IsWatched
<1> QED
  BY <1>2, <1>3, <1>4, WatchedStays

\* A socket has no descriptor before it is constructed.
UnmadeHoldNothing == \A s \in Sockets : mode[s] = "unmade" => fd[s] = NoFd

\* ... since only connect() gives it one.
LEMMA UnmadeInductive ==
  ASSUME TypeOK, UnmadeHoldNothing, [Next]_vars PROVE UnmadeHoldNothing'
<1>1. \A t \in Sockets : mode'[t] = "unmade" => mode[t] = "unmade"
  <2>1. ASSUME NEW s \in Sockets, TCPSocket_CT(s)
        PROVE  \A t \in Sockets : mode'[t] = "unmade" => mode[t] = "unmade"
    BY <2>1 DEF TCPSocket_CT, TypeOK
  <2>2. (\A s \in Sockets : ~TCPSocket_CT(s)) => UNCHANGED mode
    BY DEF Next, Engine, Method, HandleSelect, Dispatch, Call, Terminated, vars, ScriptReturns,
       ScriptThrows, LoopEnds, SelectAstray, SelectReady, SelectTimeout, SelectFails, BatchDone,
       CallbackReturns, ErrorCallbackReturns, PeerMoves, ConnectWithoutDescriptor,
       ConnectInProgress, ConnectDone, ConnectError, TCPSocket_Close, TCPSocket_Read,
       TCPSocket_Write, CallbackUnconnected, CallbackConnect, CallbackConnectFailed,
       CallbackData, CallbackClose, CallbackIOError, ErrorCallback, MonitorAndInvoke,
       ForgetAndInvoke
  <2> QED
    BY <2>1, <2>2
<1>2. CASE SameOwners
  BY <1>1, <1>2 DEF SameOwners, UnmadeHoldNothing
<1>3. ASSUME NEW s \in Sockets, Closes(s) \/ OpensNothing(s) PROVE UnmadeHoldNothing'
  BY <1>1, <1>3 DEF Closes, OpensNothing, UnmadeHoldNothing, TypeOK
<1>4. ASSUME NEW s \in Sockets, NEW f \in Fds, Opens(s, f) PROVE UnmadeHoldNothing'
  BY <1>1, <1>4 DEF Opens, MayConnect, UnmadeHoldNothing, TypeOK
<1> QED
  BY <1>2, <1>3, <1>4, OwnerStep

\* Where asynchronous connections take their time, a socket that waits for its connection, or
\* for data, has an event, however sockets are connected, reconnected and closed: no
\* ps_AddSelect or ps_RemoveSelect of another socket takes it away.
THEOREM Watched ==
  ASSUME ConnectResults \subseteq {"inprogress"} PROVE Spec => []SocketsWatched
<1>1. Init => SocketsWatched /\ UnmadeHoldNothing
  BY DEF Init, SocketsWatched, UnmadeHoldNothing
<1>2. ASSUME TypeOK, DescriptorsExclusive, UnmadeHoldNothing, SocketsWatched, [Next]_vars,
             ConnectResults \subseteq {"inprogress"}
      PROVE  SocketsWatched'
  <2>1. ASSUME UNCHANGED <<events, mode, fd, state>> PROVE SocketsWatched'
    BY <1>2, <2>1 DEF SocketsWatched
  <2>2. ASSUME NEW s \in Sockets, NEW p, CloseSocket(s, p), UNCHANGED <<mode, state>>
        PROVE  SocketsWatched'
    <3>1. CASE fd[s] = NoFd
      BY <2>1, <2>2, <3>1 DEF CloseSocket, listVars
    <3>2. CASE fd[s] # NoFd
      <4>1. Unwatch(fd[s], p) /\ fd' = [fd EXCEPT ![s] = NoFd]
        BY <2>2, <3>2 DEF CloseSocket, FdAfterClose
      <4>2. fd'[s] = NoFd /\ \A t \in Sockets \ {s} :
              mode'[t] = mode[t] /\ fd'[t] = fd[t] /\ state'[t] = state[t]
        BY <1>2, <2>2, <4>1 DEF TypeOK
      <4> QED
        BY <1>2, <4>1, <4>2, UnwatchKeepsWatched
    <3> QED
      BY <3>1, <3>2
  <2>3. ASSUME NEW s \in Sockets, Method(s) PROVE SocketsWatched'
    <3>1. CASE TCPSocket_CT(s)
      <4>1. /\ mode[s] = "unmade" /\ UNCHANGED <<events, fd, state>>
            /\ \A t \in Sockets \ {s} : mode'[t] = mode[t]
        BY <1>2, <3>1 DEF TCPSocket_CT, listVars, TypeOK
      <4>2. fd[s] = NoFd
        BY <1>2, <4>1 DEF UnmadeHoldNothing
      <4> QED
        BY <1>2, <4>1, <4>2, WatchedStays DEF IsWatched
    <3>2. CASE ConnectWithoutDescriptor(s)
      <4>1. /\ events' = events /\ fd'[s] = NoFd
            /\ \A t \in Sockets \ {s} :
                 mode'[t] = mode[t] /\ fd'[t] = fd[t] /\ state'[t] = state[t]
        BY <1>2, <3>2 DEF ConnectWithoutDescriptor, listVars, TypeOK
      <4> QED
        BY <1>2, <4>1, WatchedStays DEF IsWatched
    <3>3. CASE ConnectInProgress(s)
      <4>1. PICK f \in Fds, t \in Timeouts :
              /\ KernForConnect(s)[f] = "closed"
              /\ fd' = [fd EXCEPT ![s] = f]
              /\ Watch([fd |-> f, mask |-> "write", obj |-> s, timeout |-> t], pc)
        BY <3>3 DEF ConnectInProgress, LowestFree
      <4> DEFINE ev == [fd |-> f, mask |-> "write", obj |-> s, timeout |-> t]
      <4>2. ev \in Event /\ ev.fd = f /\ ev.obj = s
        BY SocketsAssumption DEF Event
      <4>3. \A u \in Sockets \ {s} : fd[u] # f
        <5>1. \A u \in Sockets \ {s} : fd[u] # NoFd => KernForConnect(s)[fd[u]] # "closed"
          BY <1>2 DEF TypeOK, KernForConnect, KernAfterClose, DescriptorsExclusive
        <5> QED
          BY <4>1, <5>1, SocketsAssumption
      <4>4. fd'[s] = f /\ \A u \in Sockets \ {s} :
              mode'[u] = mode[u] /\ fd'[u] = fd[u] /\ state'[u] = state[u]
        BY <1>2, <3>3, <4>1 DEF ConnectInProgress, TypeOK
      <4>5. Watch(ev, pc)
        BY <4>1
      <4> HIDE DEF ev
      <4> QED
        BY <1>2, <4>2, <4>3, <4>4, <4>5, WatchKeepsWatched
    <3>4. CASE ConnectDone(s) \/ ConnectError(s)
      BY <1>2, <3>4 DEF ConnectDone, ConnectError
    <3>5. CASE TCPSocket_Close(s)
      BY <2>2, <3>5 DEF TCPSocket_Close
    <3>6. CASE TCPSocket_Read(s) \/ TCPSocket_Write(s)
      BY <2>1, <3>6 DEF TCPSocket_Read, TCPSocket_Write, listVars
    <3> QED
      BY <2>3, <3>1, <3>2, <3>3, <3>4, <3>5, <3>6 DEF Method
  <2>4. CASE ScriptReturns \/ ScriptThrows \/ LoopEnds \/ SelectAstray \/ SelectFails
             \/ BatchDone \/ CallbackReturns \/ UNCHANGED vars
    BY <2>1, <2>4 DEF ScriptReturns, ScriptThrows, LoopEnds, SelectAstray, SelectFails,
       BatchDone, CallbackReturns, listVars, vars
  <2>5. CASE SelectReady \/ SelectTimeout
    <3>1. PICK X : Elapse(X)
      BY <2>5 DEF SelectReady, SelectTimeout
    <3>2. UNCHANGED <<mode, fd, state>>
      BY <2>5 DEF SelectReady, SelectTimeout
    <3> QED
      BY <1>2, <3>1, <3>2, ElapseFacts DEF TypeOK, SocketsWatched
  <2>6. ASSUME NEW c \in batch, Call(c) PROVE SocketsWatched'
    <3>1. c.obj \in Sockets
      BY <1>2, SocketsAssumption DEF TypeOK, Copy
    <3>2. CASE CallbackUnconnected(c) \/ ErrorCallback(c)
      BY <2>1, <3>2 DEF CallbackUnconnected, ErrorCallback, listVars
    <3>3. CASE CallbackConnect(c) \/ CallbackData(c)
      <4>1. fd[c.obj] # NoFd /\ MonitorAndInvoke(c)
        BY <3>1, <3>3 DEF CallbackConnect, HasPeer, CallbackData, Peek
      <4> DEFINE ev == [fd |-> fd[c.obj], mask |-> "read", obj |-> c.obj, timeout |-> "none"]
      <4>2. ev \in Event /\ ev.fd = fd[c.obj] /\ ev.obj = c.obj
        BY <1>2, <3>1, <4>1, SocketsAssumption DEF Event, TimeoutState, TypeOK
      <4>3. Watch(ev, "callback") /\ UNCHANGED <<mode, fd>>
        BY <4>1 DEF MonitorAndInvoke
      <4>4. \A u \in Sockets \ {c.obj} : state'[u] = state[u] /\ fd[u] # fd[c.obj]
        BY <1>2, <3>1, <4>1 DEF MonitorAndInvoke, TypeOK, DescriptorsExclusive
      <4> HIDE DEF ev
      <4> QED
        BY <1>2, <4>2, <4>3, <4>4, WatchKeepsWatched
    <3>4. CASE CallbackConnectFailed(c) \/ CallbackClose(c) \/ CallbackIOError(c)
      <4>1. ForgetAndInvoke(c) /\ \A u \in Sockets \ {c.obj} : fd'[u] = fd[u]
        BY <1>2, <3>1, <3>4
           DEF CallbackConnectFailed, CallbackClose, CallbackIOError, FdAfterClose, TypeOK
      <4>2. /\ Unwatch(fd[c.obj], "callback") /\ state'[c.obj] = "UNCONNECTED"
            /\ \A u \in Sockets \ {c.obj} :
                 mode'[u] = mode[u] /\ fd'[u] = fd[u] /\ state'[u] = state[u]
        BY <1>2, <3>1, <4>1 DEF ForgetAndInvoke, TypeOK
      <4> QED
        BY <1>2, <3>1, <4>2, UnwatchKeepsWatched
    <3> QED
      BY <2>6, <3>2, <3>3, <3>4 DEF Call
  <2>7. CASE ErrorCallbackReturns
    <3>1. callback.obj \in Sockets
      BY <1>2, <2>7 DEF TypeOK, ErrorCallbackReturns
    <3> QED
      BY <2>2, <2>7, <3>1 DEF ErrorCallbackReturns
  <2>8. ASSUME NEW f \in Fds, PeerMoves(f) PROVE SocketsWatched'
    BY <2>1, <2>8 DEF PeerMoves, listVars
  <2> QED
    BY <1>2, <2>3, <2>4, <2>5, <2>6, <2>7, <2>8
       DEF Next, Engine, HandleSelect, Dispatch, Terminated
<1> QED
  BY <1>1, <1>2, UnmadeInductive, TypeCorrect, Exclusive, PTL DEF Spec
-----------------------------------------------------------------------------
(* One socket is given up for cause.                                       *)

\* The kernel has an answer for the socket, or its time is over.
HasCause(s) ==
  \/ kern[fd[s]] \notin {"closed", "syn"}
  \/ \E i \in DOMAIN events : events[i].obj = s /\ events[i].timeout = "due"

\* Between select() and the one copy it makes nothing happens but what the peers do.
CopyForCause ==
  /\ batch # {} => pc = "dispatch"
  /\ \A c, d \in batch : c = d
  /\ batch # {} => \A s \in Sockets : Pending(s) => HasCause(s)

\* What a select() returns is the one event of the socket.
LEMMA OneCopy ==
  ASSUME TypeOK, OneEventPerFd, EventsMatchSockets, \A s, t \in Sockets : s = t
  PROVE  /\ \A i, j \in DOMAIN events : i = j
         /\ \A i \in DOMAIN events, s \in Sockets : events[i].obj = s
         /\ \A P \in SUBSET DOMAIN events : \A how : \A c, d \in Copies(events, P, how) : c = d
<1>1. \A i \in DOMAIN events : events[i] \in Event
  BY DEF TypeOK
<1>2. \A i \in DOMAIN events, s \in Sockets : events[i].obj = s
  BY <1>1, SocketsAssumption DEF Event
<1>3. \A i, j \in DOMAIN events : i = j
  <2> TAKE i, j \in DOMAIN events
  <2>1. events[i].obj = events[j].obj
    BY <1>1, SocketsAssumption DEF Event
  <2>2. events[i].fd = events[j].fd
    BY <2>1 DEF EventsMatchSockets
  <2> QED
    BY <2>2 DEF OneEventPerFd
<1>4. \A P \in SUBSET DOMAIN events : \A how : \A c, d \in Copies(events, P, how) : c = d
  BY <1>3 DEF Copies
<1> QED
  BY <1>2, <1>3, <1>4

\* CopyForCause is inductive for one socket.
LEMMA CopyInductive ==
  ASSUME TypeOK, OneEventPerFd, EventsMatchSockets, DescriptorsExclusive, CopyForCause,
         [Next]_vars, \A s, t \in Sockets : s = t
  PROVE  CopyForCause'
<1>1. ASSUME batch' = {} PROVE CopyForCause'
  BY <1>1 DEF CopyForCause
<1>2. ASSUME NEW s \in Sockets, Method(s) PROVE CopyForCause'
  <2>1. batch = {}
    BY <1>2 DEF CopyForCause, Method, TCPSocket_CT, ConnectWithoutDescriptor,
       ConnectInProgress, ConnectDone, ConnectError, TCPSocket_Close, TCPSocket_Read,
       TCPSocket_Write, MayConnect, ScriptRuns
  <2>2. batch' = batch
    BY <1>2 DEF Method, TCPSocket_CT, ConnectWithoutDescriptor,
       ConnectInProgress, ConnectDone, ConnectError, TCPSocket_Close, TCPSocket_Read,
       TCPSocket_Write, loopVars
  <2> QED
    BY <1>1, <2>1, <2>2
<1>3. CASE SelectReady
  <2>1. /\ batch' = Copies(events, Ready, "func") /\ pc' = "dispatch"
        /\ UNCHANGED <<fd, kern, state>>
    BY <1>3 DEF SelectReady
  <2>2. \A c, d \in batch' : c = d
    BY <2>1, OneCopy DEF Ready
  <2>3. ASSUME NEW s \in Sockets, Pending(s) PROVE kern[fd[s]] \notin {"closed", "syn"}
    <3>1. PICK i \in DOMAIN events :
            \/ events[i].mask = "read"  /\ kern[events[i].fd] \in Readable
            \/ events[i].mask = "write" /\ kern[events[i].fd] \in Writable
      BY <1>3 DEF SelectReady, Ready
    <3>2. events[i].obj = s
      BY OneCopy
    <3>3. events[i].fd = fd[s] /\ events[i].mask = "write"
      BY <2>3, <3>2 DEF EventsMatchSockets, Pending
    <3> QED
      BY <3>1, <3>3 DEF Writable
  <2> QED
    BY <2>1, <2>2, <2>3 DEF CopyForCause, HasCause, Pending
<1>4. CASE SelectTimeout
  <2>1. PICK expired \in SUBSET Armed :
          /\ Due \cup expired # {} /\ Elapse(expired)
          /\ batch' = Copies(events, Due \cup expired, "func")
    BY <1>4 DEF SelectTimeout, TimedOut
  <2>2. pc' = "dispatch" /\ Due \cup expired \in SUBSET DOMAIN events
    BY <1>4 DEF SelectTimeout, Due, Armed
  <2>3. \A c, d \in batch' : c = d
    BY <2>1, <2>2, OneCopy
  <2>4. PICK i \in DOMAIN events : i \in Due \cup expired
    BY <2>1, <2>2
  <2>5. i \in DOMAIN events' /\ events'[i].timeout = "due" /\ events'[i].obj = events[i].obj
    <3>1. events[i] \in Event
      BY DEF TypeOK
    <3> QED
      BY <2>1, <2>4, <3>1 DEF Elapse, Due, Event
  <2>6. \A s \in Sockets : events'[i].obj = s
    BY <2>5, OneCopy
  <2> QED
    BY <2>2, <2>3, <2>5, <2>6 DEF CopyForCause, HasCause
<1>5. CASE SelectFails
  BY <1>5, NoBadDescriptor DEF SelectFails
<1>6. CASE UNCHANGED vars
  BY <1>6 DEF vars, CopyForCause, HasCause, Pending
<1>7. CASE ScriptReturns \/ ScriptThrows \/ LoopEnds \/ SelectAstray \/ BatchDone
           \/ CallbackReturns \/ ErrorCallbackReturns
  <2>1. batch = {} /\ batch' = batch
    BY <1>7 DEF ScriptReturns, ScriptThrows, LoopEnds, SelectAstray, BatchDone, Waits,
       CallbackReturns, ErrorCallbackReturns, loopVars, CopyForCause
  <2> QED
    BY <1>1, <2>1
<1>8. ASSUME NEW c \in batch, Call(c) PROVE CopyForCause'
  <2>1. batch' = batch \ {c}
    BY <1>8 DEF Call, CallbackUnconnected, CallbackConnect, CallbackConnectFailed,
       CallbackData, CallbackClose, CallbackIOError, ErrorCallback, TakeCopy
  <2>2. batch' = {}
    BY <1>8, <2>1 DEF CopyForCause
  <2> QED
    BY <1>1, <2>2
<1>9. ASSUME NEW f \in Fds, PeerMoves(f) PROVE CopyForCause'
  <2>1. UNCHANGED <<pc, events, batch, fd, state>>
    BY <1>9 DEF PeerMoves, listVars, loopVars
  <2>2. \A g \in Fds : kern[g] \notin {"closed", "syn"} => kern'[g] \notin {"closed", "syn"}
    BY <1>9 DEF PeerMoves, KernMoves, TypeOK, KernStates
  <2>3. \A s \in Sockets : Pending(s) => fd[s] \in Fds
    BY DEF Pending, TypeOK
  <2> QED
    BY <2>1, <2>2, <2>3 DEF CopyForCause, HasCause, Pending
<1> QED
  BY <1>2, <1>3, <1>4, <1>5, <1>6, <1>7, <1>8, <1>9
     DEF Next, Engine, HandleSelect, Dispatch, Terminated

\* What GivesUpForCause says of a step.
CauseStep ==
  \A s \in Sockets :
    InvokedOn(s) /\ Pending(s) /\ state'[s] = "UNCONNECTED" =>
      \/ kern[fd[s]] \notin Established \cup {"syn"}
      \/ \E i \in DOMAIN events : events[i].obj = s /\ events[i].timeout = "due"

\* A socket on its own gives a connection attempt up only when the kernel has reported that
\* it failed or its time is over: the copy that makes TCPSocket_SelectCallback give up is of
\* the event that fired.
THEOREM GivesUp ==
  ASSUME ~BusyConnect, \A s, t \in Sockets : s = t
  PROVE  Spec => GivesUpForCause
<1>1. Init => CopyForCause
  BY DEF Init, CopyForCause
<1>2. ASSUME TypeOK, DescriptorsExclusive, CopyForCause, [Next]_vars PROVE CauseStep
  <2>1. SUFFICES ASSUME NEW s \in Sockets,
                        InvokedOn(s), Pending(s), state'[s] = "UNCONNECTED"
                 PROVE  \/ kern[fd[s]] \notin Established \cup {"syn"}
                        \/ \E i \in DOMAIN events :
                             events[i].obj = s /\ events[i].timeout = "due"
    BY DEF CauseStep
  <2>2. PICK c \in batch : Call(c)
    BY <1>2, <2>1, InvokedByCall DEF InvokedOn
  <2>3. c.obj \in Sockets /\ state[s] = "CONNECTING" /\ fd[s] # NoFd /\ callback'.obj = s
    BY <1>2, <2>1, SocketsAssumption DEF TypeOK, Copy, Pending, InvokedOn
  <2>4. ~ErrorCallback(c) /\ ~CallbackUnconnected(c)
    BY <2>1, <2>3 DEF ErrorCallback, CallbackUnconnected, InvokedOn
  <2>5. c.obj = s
    BY <2>2, <2>3, <2>4 DEF Call, CallbackConnect, CallbackConnectFailed,
       CallbackData, CallbackClose, CallbackIOError, MonitorAndInvoke, ForgetAndInvoke, Invoke
  <2>6. ~CallbackConnect(c)
    BY <1>2, <2>1, <2>5 DEF CallbackConnect, MonitorAndInvoke, TypeOK
  <2>7. CallbackConnectFailed(c)
    BY <2>2, <2>3, <2>4, <2>5, <2>6 DEF Call, CallbackData, CallbackClose, CallbackIOError
  <2>8. kern[fd[s]] \notin Established
    BY <2>3, <2>5, <2>7 DEF CallbackConnectFailed, HasPeer
  <2>9. HasCause(s)
    BY <1>2, <2>1, <2>2 DEF CopyForCause
  <2> QED
    BY <2>8, <2>9 DEF HasCause
<1>3. ASSUME TypeOK, CopyForCause, UNCHANGED vars PROVE CauseStep
  BY <1>3 DEF vars, CauseStep, InvokedOn
<1>4. GivesUpForCause <=> [][CauseStep]_vars
  BY PTL DEF GivesUpForCause, CauseStep
<1> QED
  BY <1>1, <1>2, <1>4, CopyInductive, TypeCorrect, OneEvent, EventsMatch, Exclusive, PTL
     DEF Spec
=============================================================================
