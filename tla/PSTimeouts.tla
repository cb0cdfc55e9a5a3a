----------------------------- MODULE PSTimeouts -----------------------------
(***************************************************************************)
(* The timeouts of js/src/ext/psselect.c: the arithmetic on struct         *)
(* timespec, and how ps_HandleSelect measures its wait and charges it to   *)
(* every event.  TCPSocket abstracts all this to "armed" and "due"; here   *)
(* the numbers are real, in units the constants choose.                    *)
(*                                                                         *)
(* Time passes in two places: inside select(), where it is measured with   *)
(* CLOCK_MONOTONIC and subtracted from every timeout, and outside, while   *)
(* script functions run, where nobody measures it.                         *)
(***************************************************************************)
EXTENDS Integers, FiniteSets, FiniteSetsExt

CONSTANTS
  NS_PER_SEC,  \* 1000000000
  MS_PER_SEC,  \* 1000
  NS_PER_MS,   \* 1000000
  NS_PER_US    \* 1000

ASSUME UnitsAssumption ==
  /\ MS_PER_SEC \in Nat \ {0} /\ NS_PER_MS \in Nat \ {0} /\ NS_PER_US \in Nat \ {0}
  /\ NS_PER_SEC = MS_PER_SEC * NS_PER_MS

-----------------------------------------------------------------------------
(* The arithmetic.                                                         *)

Ts(sec, nsec) == [sec |-> sec, nsec |-> nsec]
Zero      == Ts(0, 0)
NoTimeout == Ts(-1, -1)

\* The length of time a timespec stands for, and the timespecs that are proper.
Ns(t)     == t.sec * NS_PER_SEC + t.nsec
Normal(t) == t = Ts(t.sec, t.nsec) /\ t.sec \in Nat /\ t.nsec \in 0 .. NS_PER_SEC - 1

\* Variant: a borrow that is not paid for.
diff_timespec_unpaid(start, end) ==
  Ts(end.sec - start.sec, (end.nsec - start.nsec) % NS_PER_SEC)

diff_timespec(start, end) ==
  IF end.nsec - start.nsec < 0
  THEN Ts(end.sec - start.sec - 1, end.nsec - start.nsec + NS_PER_SEC)
  ELSE Ts(end.sec - start.sec, end.nsec - start.nsec)

\* A timeout never becomes negative: it stops at zero.
update_timeout(duration, timeout) ==
  LET left == diff_timespec(duration, timeout) IN
  IF timeout = NoTimeout THEN timeout ELSE IF left.sec < 0 THEN Zero ELSE left

minimum_timeout(first, second) ==
  IF first = NoTimeout THEN second
  ELSE IF second = NoTimeout THEN first
  ELSE IF \/ first.sec < second.sec
          \/ first.sec = second.sec /\ first.nsec < second.nsec
       THEN first ELSE second

\* What ps_AddSelect makes of its timeout argument, in milliseconds.
FromMs(ms) ==
  IF ms = -1 THEN NoTimeout ELSE Ts(ms \div MS_PER_SEC, (ms % MS_PER_SEC) * NS_PER_MS)

\* Variant: whole seconds only.
TimevalTruncated(t) == [sec |-> t.sec, usec |-> 0]

\* The struct timeval given to select(), and how long the kernel waits for it:
\* it accepts more than a second's worth of microseconds.
Timeval(t) == [sec |-> t.sec, usec |-> t.nsec * NS_PER_US]
WaitNs(v) == v.sec * NS_PER_SEC + v.usec * NS_PER_US

-----------------------------------------------------------------------------
(* The loop.                                                               *)

CONSTANTS
  Slots,     \* the events that may have a timeout
  Requests,  \* the timeout arguments in use, in milliseconds
  MaxNow     \* the clock stops here

\* connect() takes any number, but one below -1 makes select() refuse its
\* timeval, and the loop then has an outcome that this module leaves out.
ASSUME RequestsAssumption == Requests \subseteq Nat \cup {-1} /\ MaxNow \in Nat

\* The events are in a list.
ASSUME SlotsAssumption == IsFiniteSet(Slots)

VARIABLES
  phase,    \* "running" scripts, or "waiting" in select()
  now,      \* CLOCK_MONOTONIC, in nanoseconds
  start,    \* the clock when select() was entered
  tv,       \* the timeval select() was given, or NoTimeout for NULL
  timeout,  \* the timeout field of each event, or Unused
  asked,    \* history: the timeout argument of each event
  spent     \* history: the time each event has spent inside select()

CONSTANT Unused

vars == <<phase, now, start, tv, timeout, asked, spent>>

Used == {s \in Slots : timeout[s] # Unused}

Clock(ns) == Ts(ns \div NS_PER_SEC, ns % NS_PER_SEC)

Init ==
  /\ phase = "running"
  /\ now = 0 /\ start = 0
  /\ tv = NoTimeout
  /\ timeout = [s \in Slots |-> Unused]
  /\ asked = [s \in Slots |-> 0]
  /\ spent = [s \in Slots |-> 0]

\* A script has an event added, or replaced.
AddSelect(s, ms) ==
  /\ phase = "running"
  /\ timeout' = [timeout EXCEPT ![s] = FromMs(ms)]
  /\ asked' = [asked EXCEPT ![s] = ms]
  /\ spent' = [spent EXCEPT ![s] = 0]
  /\ UNCHANGED <<phase, now, start, tv>>

RemoveSelect(s) ==
  /\ phase = "running"
  /\ s \in Used
  /\ timeout' = [timeout EXCEPT ![s] = Unused]
  /\ UNCHANGED <<phase, now, start, tv, asked, spent>>

\* A script function takes its time.
ScriptRuns(d) ==
  /\ phase = "running"
  /\ now + d <= MaxNow
  /\ now' = now + d
  /\ UNCHANGED <<phase, start, tv, timeout, asked, spent>>

Minimum == FoldSet(minimum_timeout, NoTimeout, {timeout[s] : s \in Used})

EnterSelect ==
  /\ phase = "running"
  /\ Used # {}
  /\ tv' = IF Minimum = NoTimeout THEN NoTimeout ELSE Timeval(Minimum)
  /\ start' = now
  /\ phase' = "waiting"
  /\ UNCHANGED <<now, timeout, asked, spent>>

\* The end of the wait: every timeout is charged the same duration.
Charge ==
  LET duration == diff_timespec(Clock(start), Clock(now)) IN
  /\ phase' = "running"
  /\ timeout' = [s \in Slots |-> IF s \in Used THEN update_timeout(duration, timeout[s])
                                              ELSE Unused]
  /\ spent' = [s \in Slots |-> IF s \in Used THEN spent[s] + (now - start) ELSE spent[s]]
  /\ UNCHANGED <<now, start, tv, asked>>

WaitOver == tv # NoTimeout /\ now - start >= WaitNs(tv)

\* Time passes in select(), though not beyond the end of the wait.
Wait ==
  /\ phase = "waiting"
  /\ ~WaitOver
  /\ now < MaxNow
  /\ now' = now + 1
  /\ UNCHANGED <<phase, start, tv, timeout, asked, spent>>

\* select() returns more than zero: some descriptor is ready.
Ready == phase = "waiting" /\ Charge

\* select() returns zero.
TimesOut == phase = "waiting" /\ WaitOver /\ Charge

\* The clock has come to MaxNow.
Stopped == now = MaxNow /\ UNCHANGED vars

Next ==
  \/ \E s \in Slots, ms \in Requests : AddSelect(s, ms)
  \/ \E s \in Slots : RemoveSelect(s)
  \/ ScriptRuns(1)
  \/ EnterSelect
  \/ Wait
  \/ Ready
  \/ TimesOut
  \/ Stopped

Spec == Init /\ [][Next]_vars

-----------------------------------------------------------------------------
(* Properties.                                                             *)

TypeOK ==
  /\ phase \in {"running", "waiting"}
  /\ now \in Nat /\ start \in Nat /\ start <= now
  /\ asked \in [Slots -> Int]
  /\ spent \in [Slots -> Nat]
  /\ \A s \in Used : timeout[s] = NoTimeout \/ Normal(timeout[s])

AtLeastZero(n) == IF n < 0 THEN 0 ELSE n

\* However many waits, interruptions and borrows there were, an event's timeout
\* is what was asked for less the time spent in select(), and stops at zero; so
\* no attempt to connect is given up before its time.
TimeAccounted ==
  \A s \in Used : asked[s] # -1 =>
    Ns(timeout[s]) = AtLeastZero(asked[s] * NS_PER_MS - spent[s])

\* When select() returns zero some event is due, so ps_HandleSelect never wakes
\* up for nothing and goes round again with a wait of zero.
SomeoneIsDue ==
  [][TimesOut => \E s \in Slots : timeout'[s] = Zero]_vars

\* "Maximum time in milliseconds to establish an asynchroneous connection"
\* (pstcpsocket.c:520-521): select() does not wait beyond the first timeout.
WaitsNoLonger ==
  phase = "waiting" /\ tv # NoTimeout =>
    \A s \in Used : timeout[s] # NoTimeout => WaitNs(tv) <= Ns(timeout[s])
=============================================================================
