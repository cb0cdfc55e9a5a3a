------------------------------- MODULE Reentry -------------------------------
(***************************************************************************)
(* The select loop inside itself.  ps_HandleSelect is called in a loop at  *)
(* the end of every js_Execute, so also when System.include() has run a    *)
(* file (pssystem.c, js.c), and by JSUnit.events() (jsunit.c).  Either may *)
(* be called from a callback of a socket, half way through a batch of an   *)
(* outer ps_HandleSelect.  The sockets are UDPSockets; JSUnit runs its     *)
(* tests in between.                                                       *)
(*                                                                         *)
(* An exception that leaves a callback is ignored by everybody.  One that  *)
(* leaves an included file ends that file only.                            *)
(***************************************************************************)
EXTENDS UDPSocket

CONSTANTS
  Tests,     \* the functions given to add()
  Main,      \* what is not part of any test
  MaxDepth,  \* frames on the C stack
  Styles     \* how the scripts behave, see below

ASSUME MainAssumption == Main \notin Tests

(***************************************************************************)
(* style.nests: callbacks start loops (include, events, run).              *)
(* style.drains: a test function calls events() before it returns.         *)
(***************************************************************************)
ASSUME StylesAssumption == Styles \subseteq [nests : BOOLEAN, drains : BOOLEAN]

VARIABLES
  pc,       \* "running", "exited", or "lost": nobody can say what happens
  stack,    \* the calls that are active, innermost last
  style,
  cases,    \* suite->cases
  result,   \* test_case->result
  current,  \* suite->test
  printed,  \* history: what run() has printed last of each test
  owner,    \* history: the test that has made each socket
  broke     \* history: the tests of which an assertion has failed

suiteVars == <<cases, result, current, printed, broke>>
vars == <<udpVars, pc, stack, style, suiteVars, owner>>

(***************************************************************************)
(* body:     js_Execute in a script                                        *)
(* tail:     js_Execute in its loop                                        *)
(* loop:     JSUnit_Events                                                 *)
(* select:   ps_HandleSelect, with the copies still to call                *)
(* callback: onData, of the socket obj, with the datagrams it was given    *)
(* run:      JSUnit_Run, at the test number at                             *)
(* test:     a test function                                               *)
(* unit: the test on whose behalf this is done.                            *)
(***************************************************************************)
Kinds == {"body", "tail", "loop", "select", "callback", "run", "test"}
Frame == [kind : Kinds, unit : Tests \cup {Main}, batch : SUBSET Copy,
          data : Seq(1..MaxSent), at : Nat]

Called(kind, unit) ==
  [kind |-> kind, unit |-> unit, batch |-> {}, data |-> << >>, at |-> 0]

TypeOK ==
  /\ UDPTypeOK
  /\ pc \in {"running", "exited", "lost"}
  /\ stack \in Seq(Frame)
  /\ style \in Styles
  /\ cases \in Seq(Tests)
  /\ result \in [Tests -> {"NOT_RUN", "PASS", "FAIL"}]
  /\ current \in Tests \cup {Main}
  /\ printed \in [Tests -> {"nothing", "PASS", "FAIL"}]
  /\ owner \in [EventObjs -> Tests \cup {Main}]
  /\ broke \subseteq Tests

Init ==
  /\ UDPInit
  /\ pc = "running"
  /\ stack = <<Called("body", Main)>>
  /\ style \in Styles
  /\ cases = << >>
  /\ result = [t \in Tests |-> "NOT_RUN"]
  /\ current = Main  \* suite->test == NULL
  /\ printed = [t \in Tests |-> "nothing"]
  /\ owner = [s \in EventObjs |-> Main]
  /\ broke = {}

-----------------------------------------------------------------------------
Top == Last(stack)
In(kind) == pc = "running" /\ Top.kind = kind

ScriptRuns == In("body") \/ In("callback") \/ In("test")

Active(kind) == \E i \in DOMAIN stack : stack[i].kind = kind

Push(f)    == stack' = Append(stack, f)
Replace(f) == stack' = [stack EXCEPT ![Len(stack)] = f]

\* The outermost js_Execute is the program.
Pop == IF Len(stack) = 1
       THEN pc' = "exited" /\ UNCHANGED stack
       ELSE stack' = Front(stack) /\ UNCHANGED pc

\* A script may start another loop.
MayNest == Len(stack) < MaxDepth /\ (Active("select") => style.nests)

-----------------------------------------------------------------------------
(* What scripts call.                                                      *)

New(s) ==
  /\ ScriptRuns
  /\ \/ UDPSocket_CT(s) /\ owner' = [owner EXCEPT ![s] = Top.unit]
     \/ UDPSocket_CTFails(s) /\ UNCHANGED owner
  /\ UNCHANGED <<pc, stack, style, suiteVars>>

Close(s) ==
  /\ ScriptRuns
  /\ UDPSocket_Close(s)
  /\ UNCHANGED <<pc, stack, style, suiteVars, owner>>

Send(s, f) ==
  /\ ScriptRuns
  /\ UDPSocket_Send(s, f)
  /\ UNCHANGED <<pc, stack, style, suiteVars, owner>>

System_Include ==
  /\ ScriptRuns /\ MayNest
  /\ Push(Called("body", Top.unit))
  /\ UNCHANGED <<udpVars, pc, style, suiteVars, owner>>

JSUnit_Events ==
  /\ ScriptRuns /\ MayNest
  /\ Push(Called("loop", Top.unit))
  /\ UNCHANGED <<udpVars, pc, style, suiteVars, owner>>

JSUnit_Add(t) ==
  /\ ScriptRuns
  /\ t \notin Range(cases)
  /\ cases' = Append(cases, t)
  /\ UNCHANGED <<udpVars, pc, stack, style, result, current, printed, broke, owner>>

\* Variant: it marks the case that was added last.
FailLast == [result EXCEPT ![Last(cases)] = "FAIL"]

Fail == [result EXCEPT ![current] = "FAIL"]

\* An assertion that fails.  Before the first test there is none to mark.
JSUnit_Assert ==
  /\ ScriptRuns
  /\ \/ current = Main /\ pc' = "lost" /\ UNCHANGED result
     \/ current # Main /\ result' = Fail /\ UNCHANGED pc
  /\ broke' = broke \cup ({Top.unit} \ {Main})
  /\ UNCHANGED <<udpVars, stack, style, cases, current, printed, owner>>

\* A script runs its tests once.
JSUnit_Run ==
  /\ In("body") /\ MayNest
  /\ current = Main
  /\ Push([Called("run", Main) EXCEPT !.at = 1])
  /\ UNCHANGED <<udpVars, pc, style, suiteVars, owner>>

-----------------------------------------------------------------------------
(* js_Execute and ps_HandleSelect.                                         *)

ScriptReturns ==
  /\ In("body")
  /\ Replace([Top EXCEPT !.kind = "tail"])
  /\ UNCHANGED <<udpVars, pc, style, suiteVars, owner>>

\* ... without the loop.
ScriptThrows ==
  /\ In("body")
  /\ Pop
  /\ UNCHANGED <<udpVars, style, suiteVars, owner>>

InLoop == In("tail") \/ In("loop")

LoopEnds ==
  /\ InLoop
  /\ events = << >>
  /\ Pop
  /\ UNCHANGED <<udpVars, style, suiteVars, owner>>

\* ps_HandleSelect up to the first callback.
Select ==
  /\ InLoop
  /\ Ready # {}
  /\ Push([Called("select", Main) EXCEPT !.batch = Copies(events, Ready, "func")])
  /\ UNCHANGED <<udpVars, pc, style, suiteVars, owner>>

\* A walk of the list meets a freed cell, see PSEvents.
Astray ==
  /\ dangling
  /\ InLoop \/ ScriptRuns
  /\ pc' = "lost"
  /\ UNCHANGED <<udpVars, stack, style, suiteVars, owner>>

Waits ==
  /\ InLoop
  /\ events # << >> /\ Ready = {}
  /\ UNCHANGED vars

Without(c) == [Top EXCEPT !.batch = @ \ {c}]

Dispatch(c) ==
  /\ In("select")
  /\ IsNextCopy(c, Top.batch)
  /\ \/ /\ Receive(c.obj)
        /\ stack' = Append([stack EXCEPT ![Len(stack)] = Without(c)],
                           [Called("callback", owner[c.obj]) EXCEPT !.data = Received(c.obj)])
     \/ /\ ReceiveFails(c.obj)
        /\ Replace(Without(c))
  /\ UNCHANGED <<pc, style, suiteVars, owner>>

BatchDone ==
  /\ In("select")
  /\ Top.batch = {}
  /\ Pop
  /\ UNCHANGED <<udpVars, style, suiteVars, owner>>

CallbackReturns ==
  /\ In("callback")
  /\ Pop
  /\ UNCHANGED <<udpVars, style, suiteVars, owner>>

-----------------------------------------------------------------------------
(* JSUnit_Run.                                                             *)

\* Variant: one case is left out.
AtLast == Top.at >= Len(cases)

AtEnd == Top.at > Len(cases)

Started(t) == [result EXCEPT ![t] = "PASS"]

RunNext ==
  /\ In("run")
  /\ ~AtEnd
  /\ LET t == cases[Top.at] IN
     /\ current' = t
     /\ result' = Started(t)
     /\ Push(Called("test", t))
  /\ UNCHANGED <<udpVars, pc, style, cases, printed, broke, owner>>

\* Back in run(): the test's result is printed, and the next one is up.
TestEnds(r) ==
  /\ result' = [result EXCEPT ![Top.unit] = r]
  /\ printed' = [printed EXCEPT ![Top.unit] = r]
  /\ stack' = [Front(stack) EXCEPT ![Len(stack) - 1].at = @ + 1]
  /\ UNCHANGED <<udpVars, pc, style, cases, current, broke, owner>>

TestReturns ==
  /\ In("test")
  /\ style.drains => events = << >>
  /\ TestEnds(result[Top.unit])

TestThrows == In("test") /\ TestEnds("FAIL")

\* The summary; run() throws when a test has failed, which its caller may catch.
RunEnds ==
  /\ In("run")
  /\ AtEnd
  /\ Pop
  /\ UNCHANGED <<udpVars, style, suiteVars, owner>>

-----------------------------------------------------------------------------
KernelArrives(f) ==
  /\ pc = "running"
  /\ Arrive(f)
  /\ UNCHANGED <<pc, stack, style, suiteVars, owner>>

Terminated == pc # "running" /\ UNCHANGED vars

Next ==
  \/ \E s \in EventObjs : New(s) \/ Close(s) \/ \E f \in Fds : Send(s, f)
  \/ System_Include \/ JSUnit_Events \/ JSUnit_Run \/ JSUnit_Assert
  \/ \E t \in Tests : JSUnit_Add(t)
  \/ ScriptReturns \/ ScriptThrows
  \/ LoopEnds \/ Select \/ Astray \/ Waits
  \/ In("select") /\ \E c \in Top.batch : Dispatch(c)
  \/ BatchDone \/ CallbackReturns
  \/ RunNext \/ TestReturns \/ TestThrows \/ RunEnds
  \/ \E f \in Fds : KernelArrives(f)
  \/ Terminated

Spec == Init /\ [][Next]_vars

-----------------------------------------------------------------------------
(* Properties.                                                             *)

\* onData is called with data.  If callbacks start loops it is not so: the inner
\* loop takes the data, and the outer batch then calls onData with an empty
\* string and the address 0.0.0.0.
CalledWithData ==
  ~style.nests =>
    \A i \in DOMAIN stack : stack[i].kind = "callback" => stack[i].data # << >>

\* A test that has been reported as passed has had no failing assertion, neither
\* in its function nor in a callback of a socket it has made, if test functions
\* call events() before they return, as the one in test/json-list.js does.
VerdictsAreTrue ==
  style.drains => \A t \in broke : printed[t] # "PASS"

\* When run() comes to its end, it has run every case, those included that were
\* added while it ran: its check at jsunit.c:538 never fails.
AllCasesRun ==
  In("run") /\ AtEnd => \A t \in Range(cases) : result[t] # "NOT_RUN"

\* No call is made that its function does not expect: neither of onData, nor of the check
\* at the end of run().
CallsSound == TypeOK /\ CalledWithData /\ AllCasesRun

\* README.md:86-88: asynchronous events are handled only after the script has
\* been executed, except where it calls events().
EventsAfterScript ==
  \A i, j \in DOMAIN stack :
    i < j /\ stack[i].kind = "body" /\ stack[j].kind = "callback" =>
      \E k \in i..j : stack[k].kind = "loop"
=============================================================================
