----------------------------- MODULE TCPSocket ------------------------------
(***************************************************************************)
(* The TCPSocket class (js/src/ext/pstcpsocket.c) together with the        *)
(* select loop that drives it (ps_HandleSelect in psselect.c, called at    *)
(* the end of js_Execute in jsinterp.c), one script, and the kernel's side *)
(* of each descriptor.                                                     *)
(*                                                                         *)
(* The program is one thread: it runs the script, then alternates between  *)
(* waiting in select() and calling the copies of the events that fired.  A *)
(* callback runs script code again.  The kernel and the peers move at any  *)
(* time in between.                                                        *)
(***************************************************************************)
EXTENDS PSEvents

CONSTANTS
  Sockets,         \* the TCPSocket objects a script may create
  NoFd,            \* the -1 of TCPSocket.fd
  Nobody,          \* no callback is running
  Modes,           \* constructor arguments in use: subset of {"async","sync"}
  ConnectResults,  \* connect(2) answers: "inprogress", "connected", "error"
  Timeouts,        \* timeout argument of connect(): -1, more than 0, or 0
  BusyConnect      \* may a script call connect() on a socket holding a descriptor?

ASSUME SocketsAssumption ==
  /\ Sockets = EventObjs
  /\ NoFd \notin Fds
  /\ Nobody \notin [obj : Sockets, how : {"func", "errfunc"}]
  /\ Modes \subseteq {"async", "sync"}
  /\ ConnectResults \subseteq {"inprogress", "connected", "error"}
  /\ Timeouts \subseteq TimeoutState
  /\ BusyConnect \in BOOLEAN

VARIABLES
  pc,        \* what the thread is doing
  events,    \* ps_Events, the cells that are still allocated
  dangling,  \* some cell of ps_Events was freed while still linked
  batch,     \* copies of fired events still to be called
  callback,  \* the copy whose script function is running, or Nobody
  mode,      \* "unmade" until constructed, then the blocking field
  state,     \* TCPSocket.state
  fd,        \* TCPSocket.fd
  kern,      \* the kernel's state of each descriptor
  told       \* history: what the script knows of its latest connection

vars == <<pc, events, dangling, batch, callback, mode, state, fd, kern, told>>
listVars == <<events, dangling>>
loopVars == <<batch, callback>>

-----------------------------------------------------------------------------
(* The kernel's side of a descriptor.                                      *)

\* syn: connecting.  failed: refused.  quiet/data: established, without or with
\* unread data; eof/dataeof: the peer has closed; reset: an error that no call
\* has reported yet (it is seen after unread data); dead: after that report.
KernStates == {"closed", "syn", "failed", "quiet", "data",
               "eof", "dataeof", "reset", "dead"}

Established == {"quiet", "data", "eof", "dataeof"}
HasData     == {"data", "dataeof"}
Readable    == KernStates \ {"closed", "syn", "quiet"}
Writable    == KernStates \ {"closed", "syn"}

-----------------------------------------------------------------------------
SocketStates == {"UNCONNECTED", "CONNECTING", "CONNECTED"}

TypeOK ==
  /\ pc \in {"script", "loop", "dispatch", "callback", "exited", "killed", "lost"}
  /\ events \in Seq(Event)
  /\ dangling \in BOOLEAN
  /\ batch \subseteq Copy
  /\ callback \in [obj : Sockets, how : {"func", "errfunc"}] \cup {Nobody}
  /\ pc = "callback" => callback # Nobody
  /\ mode \in [Sockets -> {"unmade", "async", "sync"}]
  /\ state \in [Sockets -> SocketStates]
  /\ fd \in [Sockets -> Fds \cup {NoFd}]
  /\ kern \in [Fds -> KernStates]
  /\ told \in [Sockets -> {"nothing", "connected", "over"}]

Init ==
  /\ pc = "script"
  /\ events = << >>
  /\ dangling = FALSE
  /\ batch = {}
  /\ callback = Nobody
  /\ mode = [s \in Sockets |-> "unmade"]
  /\ state = [s \in Sockets |-> "UNCONNECTED"]
  /\ fd = [s \in Sockets |-> NoFd]
  /\ kern = [f \in Fds |-> "closed"]
  /\ told = [s \in Sockets |-> "over"]

ScriptRuns == pc \in {"script", "callback"}

\* ps_Events is NULL: the list has no cell left, allocated or freed.
ListEmpty == events = << >> /\ ~dangling

\* A walk of the event list in mid-step, after which the thread is at p.  The
\* walk reads the next field of a cell it has just freed, which free(3) leaves
\* alone; only a cell freed by an earlier call leads it astray.
AfterWalk(p) == IF dangling THEN {p, "lost"} ELSE {p}

\* Variant: the event is left in the list.
UnwatchForgotten(f, p) == pc' = p /\ UNCHANGED listVars

Unwatch(f, p) ==
  /\ events' = RemoveSelect(events, f)
  /\ dangling' = (dangling \/ LeavesFreed(events, f))
  /\ pc' \in AfterWalk(p)

Watch(ev, p) ==
  /\ events' = AddSelect(events, ev)
  /\ dangling' = (dangling \/ LeavesFreed(events, ev.fd))
  /\ pc' \in AfterWalk(p)

-----------------------------------------------------------------------------
(* The methods a script calls, from its main body or from a callback.      *)

TCPSocket_CT(s) ==
  /\ ScriptRuns
  /\ mode[s] = "unmade"
  /\ \E m \in Modes : mode' = [mode EXCEPT ![s] = m]
  /\ UNCHANGED <<pc, listVars, loopVars, state, fd, kern, told>>

\* Variant: shutdown(2) alone.
KernAfterShutdown(s) == kern

\* close(2) on whatever the object holds; on -1 it does nothing.
KernAfterClose(s) ==
  IF fd[s] = NoFd THEN kern ELSE [kern EXCEPT ![fd[s]] = "closed"]

\* Variant: the field keeps the number of the closed descriptor.
FdAfterCloseKept(s) == fd

FdAfterClose(s) == [fd EXCEPT ![s] = NoFd]

\* connect() on a connected socket closes the old connection first.
KernForConnect(s) == IF state[s] = "CONNECTED" THEN KernAfterClose(s) ELSE kern
StateForConnect(s) == IF state[s] = "CONNECTED" THEN "UNCONNECTED" ELSE state[s]

MayConnect(s) == ScriptRuns /\ mode[s] # "unmade" /\ (BusyConnect \/ fd[s] = NoFd)

\* socket(2) returns the lowest free number.
LowestFree(k, f) == k[f] = "closed" /\ \A g \in Fds : k[g] = "closed" => f <= g

\* No descriptor is left: the failure of socket(2) shows up at the next call.
ConnectWithoutDescriptor(s) ==
  /\ MayConnect(s)
  /\ \A f \in Fds : KernForConnect(s)[f] # "closed"
  /\ kern' = KernForConnect(s)
  /\ fd' = [fd EXCEPT ![s] = NoFd]
  /\ state' = [state EXCEPT ![s] = StateForConnect(s)]
  /\ UNCHANGED <<pc, listVars, loopVars, mode, told>>

\* connect(2) answers EINPROGRESS: wait for the descriptor to be writable.
ConnectInProgress(s) ==
  /\ MayConnect(s)
  /\ mode[s] = "async"
  /\ "inprogress" \in ConnectResults
  /\ \E f \in Fds, t \in Timeouts :
       /\ LowestFree(KernForConnect(s), f)
       /\ kern' = [KernForConnect(s) EXCEPT ![f] = "syn"]
       /\ fd' = [fd EXCEPT ![s] = f]
       /\ Watch([fd |-> f, mask |-> "write", obj |-> s, timeout |-> t], pc)
  /\ state' = [state EXCEPT ![s] = "CONNECTING"]
  /\ told' = [told EXCEPT ![s] = "nothing"]
  /\ UNCHANGED <<loopVars, mode>>

\* connect(2) succeeds at once, as it does on every blocking socket that connects.
ConnectDone(s) ==
  /\ MayConnect(s)
  /\ "connected" \in ConnectResults
  /\ \E f \in Fds :
       /\ LowestFree(KernForConnect(s), f)
       /\ kern' = [KernForConnect(s) EXCEPT ![f] = "quiet"]
       /\ fd' = [fd EXCEPT ![s] = f]
  /\ state' = [state EXCEPT ![s] = "CONNECTED"]
  /\ told' = [told EXCEPT ![s] = "connected"]
  /\ UNCHANGED <<pc, listVars, loopVars, mode>>

\* connect(2) fails at once: an exception, and the new descriptor stays open.
ConnectError(s) ==
  /\ MayConnect(s)
  /\ "error" \in ConnectResults
  /\ \E f \in Fds :
       /\ LowestFree(KernForConnect(s), f)
       /\ kern' = [KernForConnect(s) EXCEPT ![f] = "failed"]
       /\ fd' = [fd EXCEPT ![s] = f]
  /\ state' = [state EXCEPT ![s] = StateForConnect(s)]
  /\ UNCHANGED <<pc, listVars, loopVars, mode, told>>

\* The body of TCPSocket_Close: the state field is left as it was.
CloseSocket(s, p) ==
  \/ /\ fd[s] = NoFd
     /\ pc' = p
     /\ UNCHANGED <<listVars, kern, fd>>
  \/ /\ fd[s] # NoFd
     /\ Unwatch(fd[s], p)
     /\ kern' = KernAfterClose(s)
     /\ fd' = FdAfterClose(s)

TCPSocket_Close(s) ==
  /\ ScriptRuns
  /\ mode[s] # "unmade"
  /\ CloseSocket(s, pc)
  /\ UNCHANGED <<loopVars, mode, state, told>>

\* recv(2) in a loop.  A count up to what is there leaves the rest; otherwise
\* the loop ends at the end of file or with an error that consumes a reset.  On
\* a blocking socket recv(2) waits for data, and the script with it.
AfterRecv(k) ==
  CASE k = "data"    -> {"data", "quiet"}
    [] k = "dataeof" -> {"dataeof", "eof"}
    [] k = "reset"   -> {"dead"}
    [] OTHER         -> {k}

TCPSocket_Read(s) ==
  /\ ScriptRuns
  /\ state[s] = "CONNECTED"
  /\ fd[s] # NoFd
  /\ mode[s] = "sync" => kern[fd[s]] # "quiet"
  /\ \E k \in AfterRecv(kern[fd[s]]) : kern' = [kern EXCEPT ![fd[s]] = k]
  /\ UNCHANGED <<pc, listVars, loopVars, mode, state, fd, told>>

\* send(2) without MSG_NOSIGNAL: the first call after a reset reports it, the
\* next one raises SIGPIPE, which the shell leaves at its default.
TCPSocket_Write(s) ==
  /\ ScriptRuns
  /\ state[s] = "CONNECTED"
  /\ fd[s] # NoFd
  /\ \/ /\ kern[fd[s]] = "reset"
        /\ kern' = [kern EXCEPT ![fd[s]] = "dead"]
        /\ UNCHANGED pc
     \/ /\ kern[fd[s]] = "dead"
        /\ pc' = "killed"
        /\ UNCHANGED kern
  /\ UNCHANGED <<listVars, loopVars, mode, state, fd, told>>

-----------------------------------------------------------------------------
(* js_Execute: the script's main body, then the loop over ps_HandleSelect. *)

ScriptReturns ==
  /\ pc = "script"
  /\ pc' = "loop"
  /\ UNCHANGED <<listVars, loopVars, mode, state, fd, kern, told>>

\* An uncaught exception: the loop is not entered.
ScriptThrows ==
  /\ pc = "script"
  /\ pc' = "exited"
  /\ UNCHANGED <<listVars, loopVars, mode, state, fd, kern, told>>

LoopEnds ==
  /\ pc = "loop"
  /\ ListEmpty
  /\ pc' = "exited"
  /\ UNCHANGED <<listVars, loopVars, mode, state, fd, kern, told>>

-----------------------------------------------------------------------------
(* ps_HandleSelect.                                                        *)

Ready == {i \in DOMAIN events :
            \/ events[i].mask = "read"  /\ kern[events[i].fd] \in Readable
            \/ events[i].mask = "write" /\ kern[events[i].fd] \in Writable}

BadDescriptor == \E i \in DOMAIN events : kern[events[i].fd] = "closed"

\* Variant: the timeout argument never reaches the event.
NeverArmed == {}

\* Variant: an event counts as timed out when it has a timeout at all.
DueOrArmed == {i \in DOMAIN events : events[i].timeout # "none"}

Armed == {i \in DOMAIN events : events[i].timeout = "armed"}
Due   == {i \in DOMAIN events : events[i].timeout = "due"}

\* update_timeout after the wait: some of the armed timeouts have run down.
Elapse(expired) ==
  events' = [i \in DOMAIN events |->
               IF i \in expired THEN [events[i] EXCEPT !.timeout = "due"]
                                ELSE events[i]]

\* The events whose timeout is zero after update_timeout.
TimedOut(expired) == Due \cup expired

Waits == pc = "loop" /\ ~ListEmpty

\* Either walk of the list, before select() or after it, meets a freed cell.
SelectAstray ==
  /\ Waits
  /\ dangling
  /\ pc' = "lost"
  /\ UNCHANGED <<listVars, loopVars, mode, state, fd, kern, told>>

\* result > 0: the descriptors that are ready, and no timeout, are handled.
SelectReady ==
  /\ Waits
  /\ ~BadDescriptor /\ Ready # {}
  /\ \E expired \in SUBSET Armed : Elapse(expired)
  /\ batch' = Copies(events, Ready, "func")
  /\ pc' = "dispatch"
  /\ UNCHANGED <<dangling, callback, mode, state, fd, kern, told>>

\* result = 0: everything whose timeout has reached zero is handled.
SelectTimeout ==
  /\ Waits
  /\ ~BadDescriptor /\ Ready = {}
  /\ \E expired \in SUBSET Armed :
       /\ Due \cup expired # {}
       /\ Elapse(expired)
       /\ batch' = Copies(events, TimedOut(expired), "func")
  /\ pc' = "dispatch"
  /\ UNCHANGED <<dangling, callback, mode, state, fd, kern, told>>

\* result < 0: the sets are as they were, so every event counts as errored.
SelectFails ==
  /\ Waits
  /\ BadDescriptor
  /\ batch' = Copies(events, DOMAIN events, "errfunc")
  /\ pc' = "dispatch"
  /\ UNCHANGED <<listVars, callback, mode, state, fd, kern, told>>

BatchDone ==
  /\ pc = "dispatch"
  /\ batch = {}
  /\ pc' = "loop"
  /\ UNCHANGED <<listVars, loopVars, mode, state, fd, kern, told>>

-----------------------------------------------------------------------------
(* The socket's side of the loop: TCPSocket_SelectCallback up to the call  *)
(* of the script function, TCPSocket_SelectErrorCallback, and their ends.  *)

TakeCopy(c, how) ==
  /\ pc = "dispatch"
  /\ IsNextCopy(c, batch)
  /\ c.how = how
  /\ batch' = batch \ {c}

\* The script function is about to run.
Invoke(c) == callback' = [obj |-> c.obj, how |-> c.how]

\* A blocking socket would be taken off the list, but none is ever on it
\* (EventsMatchSockets).  An unconnected one is left alone, its event included.
CallbackUnconnected(c) ==
  /\ TakeCopy(c, "func")
  /\ mode[c.obj] = "async" /\ state[c.obj] = "UNCONNECTED"
  /\ UNCHANGED <<pc, listVars, callback, mode, state, fd, kern, told>>

\* getpeername(2) and recv(2, MSG_PEEK) on the descriptor the object holds now.
HasPeer(s) == fd[s] # NoFd /\ kern[fd[s]] \in Established
Peek(s) == IF fd[s] = NoFd THEN "error"
           ELSE CASE kern[fd[s]] \in HasData         -> "data"
                  [] kern[fd[s]] \in {"eof", "dead"} -> "end"
                  [] OTHER                           -> "error"

\* A failing recv(2) consumes the error it reports.
KernAfterReport(s) ==
  IF fd[s] # NoFd /\ kern[fd[s]] = "reset" THEN [kern EXCEPT ![fd[s]] = "dead"]
                                           ELSE kern

\* Variant: the state stays CONNECTING.
MonitorWithoutState(c) ==
  /\ Watch([fd |-> fd[c.obj], mask |-> "read", obj |-> c.obj, timeout |-> "none"],
           "callback")
  /\ told' = [told EXCEPT ![c.obj] = "connected"]
  /\ Invoke(c)
  /\ UNCHANGED <<state, mode, fd, kern>>

\* Connected, newly or still: wait for (more) data, then call the script.
MonitorAndInvoke(c) ==
  /\ Watch([fd |-> fd[c.obj], mask |-> "read", obj |-> c.obj, timeout |-> "none"],
           "callback")
  /\ state' = [state EXCEPT ![c.obj] = "CONNECTED"]
  /\ told' = [told EXCEPT ![c.obj] = "connected"]
  /\ Invoke(c)
  /\ UNCHANGED <<mode, fd, kern>>

\* Connection over: stop watching the descriptor, then call the script.
ForgetAndInvoke(c) ==
  /\ Unwatch(fd[c.obj], "callback")
  /\ state' = [state EXCEPT ![c.obj] = "UNCONNECTED"]
  /\ told' = [told EXCEPT ![c.obj] = "over"]
  /\ Invoke(c)
  /\ UNCHANGED mode

CallbackConnect(c) ==
  /\ TakeCopy(c, "func")
  /\ mode[c.obj] = "async" /\ state[c.obj] = "CONNECTING"
  /\ HasPeer(c.obj)
  /\ MonitorAndInvoke(c)

CallbackConnectFailed(c) ==
  /\ TakeCopy(c, "func")
  /\ mode[c.obj] = "async" /\ state[c.obj] = "CONNECTING"
  /\ ~HasPeer(c.obj)
  /\ ForgetAndInvoke(c)
  /\ UNCHANGED <<fd, kern>>

CallbackData(c) ==
  /\ TakeCopy(c, "func")
  /\ mode[c.obj] = "async" /\ state[c.obj] = "CONNECTED"
  /\ Peek(c.obj) = "data"
  /\ MonitorAndInvoke(c)

CallbackClose(c) ==
  /\ TakeCopy(c, "func")
  /\ mode[c.obj] = "async" /\ state[c.obj] = "CONNECTED"
  /\ Peek(c.obj) = "end"
  /\ ForgetAndInvoke(c)
  /\ kern' = KernAfterClose(c.obj)
  /\ fd' = FdAfterClose(c.obj)

CallbackIOError(c) ==
  /\ TakeCopy(c, "func")
  /\ mode[c.obj] = "async" /\ state[c.obj] = "CONNECTED"
  /\ Peek(c.obj) = "error"
  /\ ForgetAndInvoke(c)
  /\ kern' = KernAfterReport(c.obj)
  /\ UNCHANGED fd

\* TCPSocket_SelectErrorCallback calls the script before anything else.
ErrorCallback(c) ==
  /\ TakeCopy(c, "errfunc")
  /\ pc' = "callback"
  /\ Invoke(c)
  /\ told' = [told EXCEPT ![c.obj] = "over"]
  /\ UNCHANGED <<listVars, mode, state, fd, kern>>

CallbackReturns ==
  /\ pc = "callback"
  /\ callback.how = "func"
  /\ pc' = "dispatch"
  /\ callback' = Nobody
  /\ UNCHANGED <<listVars, batch, mode, state, fd, kern, told>>

\* ... and closes whatever the socket holds when the script function is done.
ErrorCallbackReturns ==
  /\ pc = "callback"
  /\ callback.how = "errfunc"
  /\ CloseSocket(callback.obj, "dispatch")
  /\ callback' = Nobody
  /\ UNCHANGED <<batch, mode, state, told>>

-----------------------------------------------------------------------------
(* The kernel and the peers.                                               *)

KernMoves == [closed  |-> {}, failed |-> {}, reset |-> {}, dead |-> {},
              syn     |-> {"quiet", "failed"},
              quiet   |-> {"data", "eof", "reset"},
              data    |-> {"dataeof"},
              dataeof |-> {},
              eof     |-> {"dead"}]

\* The process is gone, one way or another.
Gone == {"exited", "killed", "lost"}

PeerMoves(f) ==
  /\ pc \notin Gone
  /\ \E k \in KernMoves[kern[f]] : kern' = [kern EXCEPT ![f] = k]
  /\ UNCHANGED <<pc, listVars, loopVars, mode, state, fd, told>>

Terminated ==
  /\ pc \in Gone
  /\ UNCHANGED vars

-----------------------------------------------------------------------------
Method(s) ==
  \/ TCPSocket_CT(s)
  \/ ConnectWithoutDescriptor(s)
  \/ ConnectInProgress(s)
  \/ ConnectDone(s)
  \/ ConnectError(s)
  \/ TCPSocket_Close(s)
  \/ TCPSocket_Read(s)
  \/ TCPSocket_Write(s)

HandleSelect ==
  \/ SelectAstray
  \/ SelectReady
  \/ SelectTimeout
  \/ SelectFails
  \/ BatchDone

Call(c) ==
  \/ CallbackUnconnected(c)
  \/ CallbackConnect(c)
  \/ CallbackConnectFailed(c)
  \/ CallbackData(c)
  \/ CallbackClose(c)
  \/ CallbackIOError(c)
  \/ ErrorCallback(c)

Dispatch == \E c \in batch : Call(c)

\* What the thread does of itself, as opposed to what a script asks for.
Engine ==
  \/ ScriptReturns
  \/ LoopEnds
  \/ HandleSelect
  \/ Dispatch
  \/ CallbackReturns
  \/ ErrorCallbackReturns

Next ==
  \/ Engine
  \/ \E s \in Sockets : Method(s)
  \/ ScriptThrows
  \/ \E f \in Fds : PeerMoves(f)
  \/ Terminated

Spec == Init /\ [][Next]_vars

\* Script code returns and the engine keeps going; nothing is owed by peers.
FairSpec == Spec /\ WF_vars(Engine)

-----------------------------------------------------------------------------
(* Properties that hold whatever the script does.                          *)

\* However sockets are connected, reconnected and closed, and whichever
\* descriptor numbers the kernel hands out again, ps_AddSelect and
\* ps_RemoveSelect keep at most one event per descriptor.
OneEventPerFd ==
  \A i, j \in DOMAIN events : events[i].fd = events[j].fd => i = j

\* The descriptor in a TCPSocket's fd field is open and no other socket holds
\* the same one, so no close(2) of the class can hit another connection.
DescriptorsExclusive ==
  \A s, t \in Sockets : fd[s] # NoFd =>
    /\ kern[fd[s]] # "closed"
    /\ fd[s] = fd[t] => s = t

-----------------------------------------------------------------------------
(* Properties that hold when a script calls connect() only on a socket     *)
(* that holds no descriptor (~BusyConnect).                                *)

\* The event list agrees with the sockets: an event watches the descriptor its
\* object holds, for the direction the object's state waits for, so a select()
\* never fails with EBADF and no event is left over to fire for nothing.
EventsMatchSockets ==
  \A i \in DOMAIN events : LET e == events[i] IN
    /\ mode[e.obj] = "async"
    /\ e.fd = fd[e.obj]
    /\ \/ state[e.obj] = "CONNECTING" /\ e.mask = "write"
       \/ state[e.obj] = "CONNECTED"  /\ e.mask = "read"

\* Every open descriptor is in some socket's fd field, so that the script, or
\* the object's finalizer, can still close it.
NoDescriptorLeak ==
  \A f \in Fds : kern[f] # "closed" => \E s \in Sockets : fd[s] = f

\* The script function of s is called in this step.
InvokedOn(s) == callback = Nobody /\ callback' # Nobody /\ callback'.obj = s

\* What one connection attempt tells the script: at most one onConnect, then
\* onData, then at most one of onClose and onIOError, and nothing after that.
NotifiedInOrder ==
  [][\A s \in Sockets : InvokedOn(s) =>
       /\ told[s] # "over"
       /\ told[s] = "connected" => state'[s] # "CONNECTING"
       /\ state[s] = "CONNECTING" => told[s] = "nothing"]_vars

-----------------------------------------------------------------------------
(* Properties that hold of one socket on its own, and not of two; the      *)
(* second holds of any number whose attempts to connect take their time.   *)

\* Removing an event unlinks its cell.
ListSound == ~dangling

\* The other direction of EventsMatchSockets: a socket that is waiting for its
\* connection, or for data, is being watched.
SocketsWatched ==
  \A s \in Sockets :
    mode[s] = "async" /\ fd[s] # NoFd /\ state[s] # "UNCONNECTED"
      => \E i \in DOMAIN events : events[i].fd = fd[s] /\ events[i].obj = s

\* The script is called for a socket only while the socket has an event: once
\* ps_RemoveSelect has removed it, nothing calls the object any more.
CalledOnlyWhileWatched ==
  [][\A s \in Sockets :
       InvokedOn(s) => \E i \in DOMAIN events : events[i].obj = s]_vars

\* The socket has been asked to connect and has not answered yet.
Pending(s) == state[s] = "CONNECTING" /\ fd[s] # NoFd

\* A connection attempt is given up because it failed or its time is over,
\* never while the kernel is still connecting within the timeout.
GivesUpForCause ==
  [][\A s \in Sockets :
       InvokedOn(s) /\ Pending(s) /\ state'[s] = "UNCONNECTED" =>
         \/ kern[fd[s]] \notin Established \cup {"syn"}
         \/ \E i \in DOMAIN events : events[i].obj = s /\ events[i].timeout = "due"]_vars

\* When ps_HandleSelect returns from its wait, it handles every event whose
\* timeout has run down.
DueHandled ==
  [][pc = "loop" /\ pc' = "dispatch" =>
       \A i \in DOMAIN events' :
         events'[i].timeout = "due" => \E c \in batch' : c.obj = events'[i].obj]_vars

\* A connection attempt does not stay without an answer.
AttemptAnswered == \A s \in Sockets : Pending(s) ~> (~Pending(s) \/ pc \in Gone)

\* When no socket is watched any more, the program ends of itself.
LoopTerminates ==
  (pc = "loop" /\ events = << >>) ~> (pc \in {"exited", "killed"})

-----------------------------------------------------------------------------
(* Statements of the documentation that the code does not keep.            *)

\* An established asynchronous connection is announced: "the onConnect is
\* called as soon as the connection is effective" (pstcpsocket.c:533-534), which
\* takes an event that will call it.
ConnectionAnnounced ==
  \A s \in Sockets :
    mode[s] = "async" /\ fd[s] # NoFd /\ state[s] = "CONNECTED"
      => \E i \in DOMAIN events : events[i].obj = s

\* write() on a connection that is gone throws "Socket error"
\* (pstcpsocket.c:835); it does not end the program.
WriteNeverKills == pc # "killed"

\* "remove the descriptor so we're not triggered over and over again"
\* (pstcpsocket.c:305-306): an unconnected socket has no event left.
NotTriggeredOverAndOver ==
  pc = "loop" => \A i \in DOMAIN events : state[events[i].obj] # "UNCONNECTED"
=============================================================================
