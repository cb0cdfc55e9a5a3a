--------------------------- MODULE ReentryProofs ----------------------------
(***************************************************************************)
(* What loops inside loops keep, for any number of sockets, tests and      *)
(* datagrams and any depth of calls.                                       *)
(***************************************************************************)
EXTENDS Reentry, NumbersAndLists, TLAPS

-----------------------------------------------------------------------------
(* The list of events.                                                     *)

\* The list ps_RemoveSelect leaves: no event of f, all others, in their order.
LEMMA RemoveSelectDrops ==
  ASSUME NEW E, NEW evs \in Seq(E), NEW f
  PROVE  HasDropped(E, evs, f, RemoveSelect(evs, f))
<1>1. CASE Watching(evs, f) = {}
  BY <1>1 DEF RemoveSelect, Watching, Unique, HasDropped
<1>2. CASE Watching(evs, f) # {}
  <2>1. PICK k \in DOMAIN evs : evs[k].fd = f /\ RemoveSelect(evs, f) = Deleted(evs, k)
    BY <1>2 DEF RemoveSelect, Watching, RemoveAt, Deleted
  <2> QED
    BY <2>1, DeletedList
<1> QED
  BY <1>1, <1>2

\* The list ps_AddSelect leaves: the new event first, then what remains.
LEMMA AddSelectAdds ==
  ASSUME NEW E, NEW evs \in Seq(E), NEW ev \in E
  PROVE  HasAdded(E, evs, ev, AddSelect(evs, ev))
<1>1. AddSelect(evs, ev) = <<ev>> \o RemoveSelect(evs, ev.fd)
  BY DEF AddSelect, Cons
<1> QED
  BY <1>1, RemoveSelectDrops, PrependedList

-----------------------------------------------------------------------------
(* Sequences of datagrams.                                                 *)

\* Two sequences one after the other have the elements of both.
LEMMA ConcatRange ==
  ASSUME NEW S, NEW a \in Seq(S), NEW b \in Seq(S)
  PROVE  Range(a \o b) = Range(a) \cup Range(b)
<1> DEFINE m == Len(a)
           n == Len(b)
           c == a \o b
<1>1. /\ m \in Nat /\ n \in Nat /\ DOMAIN a = 1..m /\ DOMAIN b = 1..n /\ DOMAIN c = 1..m + n
      /\ \A i \in 1..m : c[i] = a[i]
      /\ \A i \in 1..n : c[m + i] = b[i]
  OBVIOUS
<1>2. \A i \in 1..m + n : i \in 1..m \/ (i - m \in 1..n /\ m + (i - m) = i)
  BY <1>1
<1>3. (\A i \in 1..m : i \in 1..m + n) /\ (\A i \in 1..n : m + i \in 1..m + n)
  BY <1>1
<1> HIDE DEF m, n, c
<1>4. ASSUME NEW i \in DOMAIN c PROVE c[i] \in Range(a) \cup Range(b)
  <2>1. CASE i \in 1..m
    BY <1>1, <2>1 DEF Range
  <2>2. CASE i - m \in 1..n /\ m + (i - m) = i
    <3>1. c[i] = b[i - m]
      BY <1>1, <2>2
    <3> QED
      BY <1>1, <2>2, <3>1 DEF Range
  <2> QED
    BY <1>1, <1>2, <1>4, <2>1, <2>2
<1>5. \A i \in DOMAIN a : a[i] \in Range(c)
  BY <1>1, <1>3 DEF Range
<1>6. \A i \in DOMAIN b : b[i] \in Range(c)
  BY <1>1, <1>3 DEF Range
<1>7. Range(c) = Range(a) \cup Range(b)
  BY <1>4, <1>5, <1>6 DEF Range
<1> QED
  BY <1>7 DEF c

\* What is appended to a sequence is its one new element.
LEMMA AppendRange ==
  ASSUME NEW a \in Seq(Nat), NEW e \in Nat
  PROVE  Range(Append(a, e)) = Range(a) \cup {e}
<1> DEFINE n == Len(a)
           c == Append(a, e)
<1>1. /\ n \in Nat /\ DOMAIN a = 1..n /\ DOMAIN c = 1..n + 1
      /\ (\A i \in 1..n : c[i] = a[i]) /\ c[n + 1] = e
  OBVIOUS
<1> HIDE DEF n, c
<1>2. \A i \in 1..n + 1 : i \in 1..n \/ i = n + 1
  BY <1>1
<1>3. n + 1 \in 1..n + 1 /\ \A i \in 1..n : i \in 1..n + 1
  BY <1>1
<1>4. Range(c) = Range(a) \cup {e}
  BY <1>1, <1>2, <1>3 DEF Range
<1> QED
  BY <1>4 DEF c

\* The elements of a sequence over S are in S.
LEMMA ElementsOf ==
  ASSUME NEW S, NEW a \in Seq(S)
  PROVE  \A x \in Range(a) : x \in S
<1>1. \A i \in DOMAIN a : a[i] \in S
  OBVIOUS
<1> QED
  BY <1>1 DEF Range

\* What is appended to the second of two sequences is appended to both.
LEMMA AppendToConcat ==
  ASSUME NEW e \in Nat, NEW a \in Seq(Nat), NEW b \in Seq(Nat)
  PROVE  a \o b \in Seq(Nat) /\ a \o Append(b, e) = Append(a \o b, e)
<1> DEFINE c == a \o Append(b, e)
           d == Append(a \o b, e)
           m == Len(a) + Len(b)
<1>1. /\ a \o b \in Seq(Nat) /\ c \in Seq(Nat) /\ d \in Seq(Nat)
      /\ Len(a) \in Nat /\ Len(b) \in Nat /\ m \in Nat
  OBVIOUS
<1>2. Len(c) = m + 1 /\ Len(d) = m + 1
  OBVIOUS
<1>3. ASSUME NEW i \in 1..m + 1 PROVE c[i] = d[i]
  <2>1. CASE i <= Len(a)
    BY <2>1
  <2>2. CASE i > Len(a) /\ i <= Len(a) + Len(b)
    BY <2>2
  <2>3. CASE i = Len(a) + Len(b) + 1
    BY <2>3
  <2> QED
    BY <2>1, <2>2, <2>3
<1>4. c = d
  <2> HIDE DEF c, d, m
  <2> QED
    BY <1>1, <1>2, <1>3
<1> QED
  BY <1>1, <1>4

\* The first part of what increases increases.
LEMMA PrefixIncreasing ==
  ASSUME NEW a \in Seq(Nat), NEW b \in Seq(Nat), Increasing(a \o b)
  PROVE  Increasing(a)
<1>1. DOMAIN a = 1..Len(a) /\ DOMAIN (a \o b) = 1..Len(a) + Len(b) /\ Len(a) \in Nat /\ Len(b) \in Nat
      /\ \A i \in 1..Len(a) : (a \o b)[i] = a[i]
  OBVIOUS
<1>2. \A i \in 1..Len(a) : i \in 1..Len(a) + Len(b)
  BY <1>1
<1> QED
  BY <1>1, <1>2 DEF Increasing

\* A number above all that came before may follow them.
LEMMA AppendIncreasing ==
  ASSUME NEW a \in Seq(Nat), Increasing(a), NEW e \in Nat, \A x \in Range(a) : x < e
  PROVE  Increasing(Append(a, e))
<1> DEFINE n == Len(a)
           c == Append(a, e)
<1>1. /\ n \in Nat /\ DOMAIN a = 1..n /\ DOMAIN c = 1..n + 1
      /\ \A i \in 1..n : c[i] = a[i]
      /\ c[n + 1] = e
  OBVIOUS
<1>2. \A i \in 1..n : a[i] < e
  BY <1>1 DEF Range
<1>3. \A i, j \in 1..n : i < j => a[i] < a[j]
  BY <1>1 DEF Increasing
<1> HIDE DEF n, c
<1>4. ASSUME NEW i \in 1..n + 1, NEW j \in 1..n + 1, i < j PROVE c[i] < c[j]
  <2>1. i \in 1..n
    BY <1>1, <1>4
  <2>2. CASE j = n + 1
    BY <1>1, <1>2, <2>1, <2>2
  <2>3. CASE j # n + 1
    <3>1. j \in 1..n
      BY <1>1, <2>3
    <3> QED
      BY <1>1, <1>3, <1>4, <2>1, <3>1
  <2> QED
    BY <2>2, <2>3
<1>5. Increasing(c)
  BY <1>1, <1>4 DEF Increasing
<1> QED
  BY <1>5 DEF c

-----------------------------------------------------------------------------
(* Sockets, events and datagrams.                                          *)

\* Each datagram that waits does so at a socket, and at one only.
QueuesSound ==
  /\ \A f \in Fds : queue[f] # << >> => \E s \in udp : fd[s] = f
  /\ \A f, g \in Fds : f # g => Range(queue[f]) \cap Range(queue[g]) = {}

UDPInv ==
  /\ UDPTypeOK /\ EventsMatchOwners /\ DatagramsKept /\ QueuesSound
  /\ \A s \in EventObjs : fd[s] # NoFd => s \in udp

\* A number that is held is open and has one owner and one event.
LEMMA Exclusively ==
  ASSUME UDPInv
  PROVE  /\ \A s \in EventObjs : fd[s] # NoFd => fd[s] \in open \ leaked /\ fd[s] \in Fds
         /\ \A s, t \in EventObjs : fd[s] = fd[t] /\ fd[s] # NoFd => s = t
         /\ \A i \in DOMAIN events : /\ events[i] \in Event
                                     /\ events[i].fd \in Fds /\ events[i].fd # NoFd
                                     /\ fd[events[i].obj] = events[i].fd
                                     /\ events[i].obj \in udp
         /\ Unique(events)
<1>1. \A i \in DOMAIN events : events[i] \in Event
  BY DEF UDPInv, UDPTypeOK
<1>2. \A i \in DOMAIN events : /\ events[i].fd \in Fds /\ events[i].fd # NoFd
                               /\ events[i].obj \in EventObjs
                               /\ fd[events[i].obj] = events[i].fd
                               /\ events[i].obj \in udp
  BY <1>1, NoFdAssumption DEF UDPInv, EventsMatchOwners, Event
<1>3. \A s \in EventObjs : fd[s] # NoFd => fd[s] \in open \ leaked /\ fd[s] \in Fds
  BY DEF UDPInv, UDPTypeOK, EventsMatchOwners
<1>4. Unique(events)
  BY DEF UDPInv, EventsMatchOwners, Unique
<1>5. ASSUME NEW s \in EventObjs, NEW t \in EventObjs, fd[s] = fd[t], fd[s] # NoFd PROVE s = t
  <2>1. PICK i \in DOMAIN events : events[i].obj = s
    BY <1>5 DEF UDPInv, EventsMatchOwners
  <2>2. PICK j \in DOMAIN events : events[j].obj = t
    BY <1>5 DEF UDPInv, EventsMatchOwners
  <2>3. events[i].fd = events[j].fd
    BY <1>2, <1>5, <2>1, <2>2
  <2> QED
    BY <1>4, <2>1, <2>2, <2>3 DEF Unique
<1> QED
  BY <1>1, <1>2, <1>3, <1>4, <1>5

\* What waits and what was heard are sequences of numbers up to sent.
LEMMA Sequences ==
  ASSUME UDPInv
  PROVE  /\ \A f \in Fds : queue[f] \in Seq(1..MaxSent) /\ queue[f] \in Seq(Nat)
         /\ \A s \in EventObjs : got[s] \in Seq(1..MaxSent) /\ got[s] \in Seq(Nat)
         /\ sent \in Nat
         /\ \A f \in Fds : Range(queue[f]) \subseteq Queued
         /\ \A s \in EventObjs : Range(got[s]) \subseteq Heard
<1>1. /\ \A f \in Fds : queue[f] \in Seq(1..MaxSent)
      /\ \A s \in EventObjs : got[s] \in Seq(1..MaxSent)
      /\ sent \in 0..MaxSent
  BY DEF UDPInv, UDPTypeOK
<1>2. \A a \in Seq(1..MaxSent) : a \in Seq(Nat)
  BY MaxSentAssumption
<1> QED
  BY <1>1, <1>2, MaxSentAssumption DEF Queued, Heard

\* The list changes, and with it at most one socket's descriptor.
LEMMA CTKeeps ==
  ASSUME UDPInv, NEW s \in EventObjs, UDPSocket_CT(s)
  PROVE  UDPInv'
<1>1. PICK f \in Fds : /\ f \notin open
                       /\ open' = open \cup {f} /\ fd' = [fd EXCEPT ![s] = f]
                       /\ events' = AddSelect(events, Registration(s, f))
                       /\ dangling' = (dangling \/ LeavesFreed(events, f))
  BY DEF UDPSocket_CT, LowestFree
<1>2. /\ s \notin udp /\ udp' = udp \cup {s}
      /\ UNCHANGED <<queue, sent, got, dropped, leaked>>
  BY DEF UDPSocket_CT
<1> DEFINE ev == Registration(s, f)
<1>3. ev \in Event /\ ev.fd = f /\ ev.obj = s
  BY DEF Registration, Event, TimeoutState
<1>4. UDPTypeOK /\ events \in Seq(Event) /\ f # NoFd /\ fd[s] = NoFd
  BY <1>2, NoFdAssumption DEF UDPInv, UDPTypeOK
<1>5. /\ events' \in Seq(Event) /\ Unique(events')
      /\ \A i \in DOMAIN events' : events'[i] = ev \/ \E j \in DOMAIN events : events'[i] = events[j]
      /\ \E i \in DOMAIN events' : events'[i] = ev
      /\ \A j \in DOMAIN events : events[j].fd # f => \E i \in DOMAIN events' : events'[i] = events[j]
  <2>1. Unique(events)
    BY Exclusively
  <2>2. events' = AddSelect(events, ev)
    BY <1>1
  <2> HIDE DEF ev
  <2>3. ev \in Event /\ events \in Seq(Event)
    BY <1>3, <1>4
  <2>4. HasAdded(Event, events, ev, events')
    BY <2>2, <2>3, AddSelectAdds
  <2> QED
    BY <1>3, <2>1, <2>4 DEF HasAdded
<1> HIDE DEF ev
<1>6. /\ fd' \in [EventObjs -> Fds \cup {NoFd}] /\ fd'[s] = f
      /\ \A t \in EventObjs : t # s => fd'[t] = fd[t]
  BY <1>1, <1>4 DEF UDPTypeOK
<1>7. UDPTypeOK'
  <2>1. dangling' \in BOOLEAN
    BY <1>1, <1>4 DEF UDPTypeOK, LeavesFreed
  <2> QED
    BY <1>1, <1>2, <1>4, <1>5, <1>6, <2>1 DEF UDPTypeOK
<1>8. \A t \in EventObjs : fd[t] # f
  BY <1>1, <1>4, Exclusively
<1>9. EventsMatchOwners'
  <2>1. ASSUME NEW t \in EventObjs
        PROVE  fd'[t] # NoFd <=> \E i \in DOMAIN events' : events'[i].obj = t
    <3>1. CASE t = s
      BY <1>3, <1>4, <1>5, <1>6, <3>1
    <3>2. CASE t # s
      <4>1. ASSUME fd'[t] # NoFd PROVE \E i \in DOMAIN events' : events'[i].obj = t
        <5>1. PICK j \in DOMAIN events : events[j].obj = t
          BY <1>6, <3>2, <4>1 DEF UDPInv, EventsMatchOwners
        <5>2. events[j].fd # f
          BY <1>8, <5>1, Exclusively
        <5> QED
          BY <1>5, <5>1, <5>2
      <4>2. ASSUME NEW i \in DOMAIN events', events'[i].obj = t PROVE fd'[t] # NoFd
        <5>1. PICK j \in DOMAIN events : events'[i] = events[j]
          BY <1>3, <1>5, <3>2, <4>2
        <5> QED
          BY <1>6, <3>2, <4>2, <5>1, Exclusively
      <4> QED
        BY <4>1, <4>2
    <3> QED
      BY <3>1, <3>2
  <2>2. ASSUME NEW i \in DOMAIN events'
        PROVE  /\ fd'[events'[i].obj] = events'[i].fd
               /\ \A j \in DOMAIN events' : events'[i].fd = events'[j].fd => i = j
    <3>1. \A j \in DOMAIN events' : events'[i].fd = events'[j].fd => i = j
      BY <1>5 DEF Unique
    <3>2. CASE events'[i] = ev
      BY <1>3, <1>6, <3>1, <3>2
    <3>3. CASE \E j \in DOMAIN events : events'[i] = events[j]
      <4>1. PICK j \in DOMAIN events : events'[i] = events[j]
        BY <3>3
      <4>2. events[j].obj \in udp /\ fd[events[j].obj] = events[j].fd /\ events[j].obj \in EventObjs
        BY Exclusively, <1>4 DEF UDPTypeOK
      <4> QED
        BY <1>2, <1>6, <3>1, <4>1, <4>2
    <3> QED
      BY <1>5, <3>2, <3>3
  <2>3. open' \ leaked' = {fd'[t] : t \in udp'} \ {NoFd}
    <3>1. open \ leaked = {fd[t] : t \in udp} \ {NoFd} /\ f \notin leaked /\ udp \subseteq EventObjs
      BY <1>1, <1>4 DEF UDPInv, EventsMatchOwners, UDPTypeOK
    <3>2. {fd'[t] : t \in udp'} = {fd[t] : t \in udp} \cup {f}
      BY <1>2, <1>6, <3>1
    <3> QED
      BY <1>1, <1>2, <1>4, <3>1, <3>2
  <2> QED
    BY <2>1, <2>2, <2>3 DEF EventsMatchOwners
<1>10. QueuesSound'
  <2>1. ASSUME NEW g \in Fds, queue[g] # << >> PROVE \E t \in udp' : fd'[t] = g
    <3>1. PICK t \in udp : fd[t] = g
      BY <2>1 DEF UDPInv, QueuesSound
    <3> QED
      BY <1>2, <1>4, <1>6, <3>1 DEF UDPTypeOK
  <2> QED
    BY <1>2, <2>1 DEF UDPInv, QueuesSound
<1>11. DatagramsKept'
  <2>1. Queued' = Queued /\ Heard' = Heard
    BY <1>2 DEF Queued, Heard
  <2>2. queue[f] = << >>
    BY <1>4, <1>8 DEF UDPInv, QueuesSound, UDPTypeOK
  <2>3. \A a \in Seq(Nat) : a \o << >> = a
    OBVIOUS
  <2>4. got[s] \o queue[f] = got[s]
    BY <2>2, <2>3, Sequences
  <2>5. ASSUME NEW t \in EventObjs
        PROVE  Increasing(IF fd'[t] = NoFd THEN got[t] ELSE got[t] \o queue[fd'[t]])
    <3>1. Increasing(IF fd[t] = NoFd THEN got[t] ELSE got[t] \o queue[fd[t]])
      BY DEF UDPInv, DatagramsKept
    <3>2. CASE t = s
      BY <1>4, <1>6, <2>4, <3>1, <3>2
    <3>3. CASE t # s
      BY <1>6, <3>1, <3>3
    <3> QED
      BY <3>2, <3>3
  <2> QED
    BY <1>2, <2>1, <2>5 DEF UDPInv, DatagramsKept
<1>12. \A t \in EventObjs : fd'[t] # NoFd => t \in udp'
  BY <1>2, <1>6 DEF UDPInv
<1> QED
  BY <1>7, <1>9, <1>10, <1>11, <1>12 DEF UDPInv

\* A constructor that fails leaves the sockets alone.
LEMMA CTFailsKeeps ==
  ASSUME UDPInv, NEW s \in EventObjs, UDPSocket_CTFails(s)
  PROVE  UDPInv'
<1>1. PICK f \in Fds : f \notin open /\ open' = open \cup {f} /\ leaked' = leaked \cup {f}
  BY DEF UDPSocket_CTFails, LowestFree
<1>2. UNCHANGED <<events, dangling, udp, fd, queue, sent, got, dropped>>
  BY DEF UDPSocket_CTFails
<1>3. open' \ leaked' = open \ leaked
  BY <1>1
<1>4. UDPTypeOK' /\ EventsMatchOwners'
  BY <1>1, <1>2, <1>3 DEF UDPInv, UDPTypeOK, EventsMatchOwners
<1>5. Queued' = Queued /\ Heard' = Heard
  BY <1>2 DEF Queued, Heard
<1> QED
  BY <1>2, <1>4, <1>5 DEF UDPInv, DatagramsKept, QueuesSound

\* What waits at a socket that is closed is dropped, and its number is free again.
LEMMA CloseKeeps ==
  ASSUME UDPInv, NEW s \in EventObjs, UDPSocket_Close(s)
  PROVE  UDPInv'
<1> DEFINE f == fd[s]
<1>1. /\ s \in udp /\ f # NoFd /\ f \in Fds /\ f \in open /\ f \notin leaked
      /\ UDPTypeOK /\ events \in Seq(Event)
  BY Exclusively DEF UDPSocket_Close, UDPInv, UDPTypeOK
<1>2. /\ events' = RemoveSelect(events, f) /\ dangling' = (dangling \/ LeavesFreed(events, f))
      /\ open' = open \ {f} /\ dropped' = dropped \cup Range(queue[f])
      /\ queue' = [queue EXCEPT ![f] = << >>] /\ fd' = [fd EXCEPT ![s] = NoFd]
      /\ UNCHANGED <<udp, sent, got, leaked>>
  BY DEF UDPSocket_Close, Unwatch
<1>3. /\ events' \in Seq(Event) /\ Unique(events')
      /\ \A i \in DOMAIN events' : \E j \in DOMAIN events : events'[i] = events[j]
      /\ \A i \in DOMAIN events' : events'[i].fd # f
      /\ \A j \in DOMAIN events : events[j].fd # f => \E i \in DOMAIN events' : events'[i] = events[j]
  BY <1>1, <1>2, RemoveSelectDrops, Exclusively DEF HasDropped
<1>4. \A t \in EventObjs : t # s => fd[t] # f
  BY <1>1, Exclusively
<1> HIDE DEF f
<1>5. /\ fd' \in [EventObjs -> Fds \cup {NoFd}] /\ fd'[s] = NoFd
      /\ \A t \in EventObjs : t # s => fd'[t] = fd[t]
      /\ queue' \in [Fds -> Seq(1..MaxSent)] /\ queue'[f] = << >>
      /\ \A g \in Fds : g # f => queue'[g] = queue[g]
  BY <1>1, <1>2 DEF UDPTypeOK
<1>6. \A g \in Fds : queue[g] \in Seq(1..MaxSent) /\ Range(queue[g]) \subseteq 1..MaxSent
  <2>1. \A g \in Fds : queue[g] \in Seq(1..MaxSent)
    BY <1>1 DEF UDPTypeOK
  <2> QED
    BY <2>1, ElementsOf
<1>7. UDPTypeOK'
  <2>1. dangling' \in BOOLEAN
    BY <1>1, <1>2 DEF UDPTypeOK, LeavesFreed
  <2> QED
    BY <1>1, <1>2, <1>3, <1>5, <1>6, <2>1 DEF UDPTypeOK
<1>8. EventsMatchOwners'
  <2>1. ASSUME NEW t \in EventObjs
        PROVE  fd'[t] # NoFd <=> \E i \in DOMAIN events' : events'[i].obj = t
    <3>1. ASSUME fd'[t] # NoFd PROVE \E i \in DOMAIN events' : events'[i].obj = t
      <4>1. t # s /\ fd[t] # NoFd /\ fd[t] # f
        BY <1>4, <1>5, <3>1
      <4>2. PICK j \in DOMAIN events : events[j].obj = t
        BY <4>1 DEF UDPInv, EventsMatchOwners
      <4>3. events[j].fd # f
        BY <4>1, <4>2, Exclusively
      <4> QED
        BY <1>3, <4>2, <4>3
    <3>2. ASSUME NEW i \in DOMAIN events', events'[i].obj = t PROVE fd'[t] # NoFd
      <4>1. PICK j \in DOMAIN events : events'[i] = events[j] /\ events[j].fd # f
        BY <1>3
      <4>2. fd[t] = events[j].fd /\ fd[t] # NoFd
        BY <3>2, <4>1, Exclusively
      <4> QED
        BY <1>5, <4>1, <4>2 DEF f
    <3> QED
      BY <3>1, <3>2
  <2>2. ASSUME NEW i \in DOMAIN events'
        PROVE  /\ fd'[events'[i].obj] = events'[i].fd
               /\ \A j \in DOMAIN events' : events'[i].fd = events'[j].fd => i = j
    <3>1. \A j \in DOMAIN events' : events'[i].fd = events'[j].fd => i = j
      BY <1>3 DEF Unique
    <3>2. PICK j \in DOMAIN events : events'[i] = events[j] /\ events[j].fd # f
      BY <1>3
    <3>3. fd[events[j].obj] = events[j].fd /\ events[j].obj \in EventObjs
      BY Exclusively, <1>1 DEF UDPTypeOK
    <3>4. events[j].obj # s
      BY <3>2, <3>3 DEF f
    <3> QED
      BY <1>5, <3>1, <3>2, <3>3, <3>4
  <2>3. open' \ leaked' = {fd'[t] : t \in udp'} \ {NoFd}
    <3>1. open \ leaked = {fd[t] : t \in udp} \ {NoFd} /\ udp \subseteq EventObjs
      BY <1>1 DEF UDPInv, EventsMatchOwners, UDPTypeOK
    <3>2. {fd'[t] : t \in udp} \ {NoFd} = ({fd[t] : t \in udp} \ {NoFd}) \ {f}
      <4>1. ASSUME NEW t \in udp, fd'[t] # NoFd PROVE fd[t] = fd'[t] /\ fd[t] # f
        BY <1>4, <1>5, <3>1, <4>1
      <4>2. ASSUME NEW t \in udp, fd[t] # f PROVE fd'[t] = fd[t]
        BY <1>5, <3>1, <4>2 DEF f
      <4> QED
        BY <4>1, <4>2
    <3> QED
      BY <1>1, <1>2, <3>1, <3>2
  <2> QED
    BY <2>1, <2>2, <2>3 DEF EventsMatchOwners
<1>9. QueuesSound'
  <2>1. ASSUME NEW g \in Fds, queue'[g] # << >> PROVE \E t \in udp' : fd'[t] = g
    <3>1. g # f /\ queue[g] # << >>
      BY <1>5, <2>1
    <3>2. PICK t \in udp : fd[t] = g
      BY <3>1 DEF UDPInv, QueuesSound
    <3> QED
      BY <1>1, <1>2, <1>5, <3>1, <3>2 DEF UDPTypeOK, f
  <2>2. \A g \in Fds : Range(queue'[g]) \subseteq Range(queue[g])
    BY <1>5 DEF Range
  <2>3. \A g, h \in Fds : g # h => Range(queue'[g]) \cap Range(queue'[h]) = {}
    BY <2>2 DEF UDPInv, QueuesSound
  <2> QED
    BY <2>1, <2>3 DEF QueuesSound
<1>10. DatagramsKept'
  <2>1. Heard' = Heard
    BY <1>2 DEF Heard
  <2>2. Queued' \subseteq Queued /\ Queued \subseteq Queued' \cup Range(queue[f])
        /\ Range(queue[f]) \subseteq Queued
    <3>1. \A g \in Fds : Range(queue'[g]) \subseteq Range(queue[g])
      BY <1>5 DEF Range
    <3> QED
      BY <1>1, <1>5, <3>1 DEF Queued
  <2>3. Queued' \cup Heard' \cup dropped' = 1..sent'
    BY <1>2, <2>1, <2>2 DEF UDPInv, DatagramsKept
  <2>4. ASSUME NEW t \in EventObjs
        PROVE  Increasing(IF fd'[t] = NoFd THEN got[t] ELSE got[t] \o queue'[fd'[t]])
    <3>1. Increasing(IF fd[t] = NoFd THEN got[t] ELSE got[t] \o queue[fd[t]])
      BY DEF UDPInv, DatagramsKept
    <3>2. CASE t = s
      <4>1. Increasing(got[s] \o queue[f])
        BY <1>1, <3>1, <3>2 DEF f
      <4>2. Increasing(got[s])
        BY <1>1, <4>1, Sequences, PrefixIncreasing
      <4> QED
        BY <1>5, <3>2, <4>2
    <3>3. CASE t # s /\ fd[t] = NoFd
      BY <1>5, <3>1, <3>3
    <3>4. CASE t # s /\ fd[t] # NoFd
      <4>1. fd[t] # f /\ fd[t] \in Fds
        BY <1>4, <3>4, Exclusively
      <4> QED
        BY <1>5, <3>1, <3>4, <4>1
    <3> QED
      BY <3>2, <3>3, <3>4
  <2> QED
    BY <1>2, <2>1, <2>2, <2>3, <2>4 DEF UDPInv, DatagramsKept
<1>11. \A t \in EventObjs : fd'[t] # NoFd => t \in udp'
  BY <1>2, <1>5 DEF UDPInv
<1> QED
  BY <1>7, <1>8, <1>9, <1>10, <1>11 DEF UDPInv

\* A datagram that arrives is the latest, so it may wait behind all others.
LEMMA ArriveKeeps ==
  ASSUME UDPInv, NEW f \in Fds, Arrive(f)
  PROVE  UDPInv'
<1> DEFINE e == sent + 1
<1>1. /\ sent < MaxSent /\ sent' = e /\ queue' = [queue EXCEPT ![f] = Append(@, e)]
      /\ UNCHANGED <<events, dangling, udp, fd, open, got, dropped, leaked>>
  BY DEF Arrive
<1>2. PICK s \in udp : fd[s] = f
  BY DEF Arrive
<1>3. UDPTypeOK /\ e \in 1..MaxSent /\ e \in Nat /\ sent \in Nat /\ sent < e
  BY <1>1, MaxSentAssumption DEF UDPInv, UDPTypeOK
<1>4. 1..e = (1..sent) \cup {e}
  BY <1>3
<1> HIDE DEF e
<1>5. /\ queue[f] \in Seq(1..MaxSent) /\ queue[f] \in Seq(Nat)
      /\ Append(queue[f], e) \in Seq(1..MaxSent)
      /\ Range(Append(queue[f], e)) = Range(queue[f]) \cup {e}
  <2>1. queue[f] \in Seq(1..MaxSent) /\ queue[f] \in Seq(Nat)
    BY Sequences
  <2>2. Range(Append(queue[f], e)) = Range(queue[f]) \cup {e}
    BY <1>3, <2>1, AppendRange
  <2>3. Append(queue[f], e) \in Seq(1..MaxSent)
    BY <1>3, <2>1
  <2> QED
    BY <2>1, <2>2, <2>3
<1>6. /\ queue' \in [Fds -> Seq(1..MaxSent)] /\ queue'[f] = Append(queue[f], e)
      /\ \A g \in Fds : g # f => queue'[g] = queue[g]
  BY <1>1, <1>3, <1>5 DEF UDPTypeOK
<1>7. UDPTypeOK' /\ EventsMatchOwners'
  BY <1>1, <1>3, <1>6 DEF UDPInv, UDPTypeOK, EventsMatchOwners
<1>8. Queued \subseteq 1..sent /\ Heard \subseteq 1..sent /\ e \notin 1..sent
  BY <1>3 DEF UDPInv, DatagramsKept
<1>9. QueuesSound'
  <2>1. ASSUME NEW g \in Fds, queue'[g] # << >> PROVE \E t \in udp' : fd'[t] = g
    <3>1. CASE g = f
      BY <1>1, <1>2, <3>1
    <3>2. CASE g # f
      BY <1>1, <1>6, <2>1, <3>2 DEF UDPInv, QueuesSound
    <3> QED
      BY <3>1, <3>2
  <2>2. ASSUME NEW g \in Fds, NEW h \in Fds, g # h PROVE Range(queue'[g]) \cap Range(queue'[h]) = {}
    <3>1. Range(queue[g]) \cap Range(queue[h]) = {} /\ e \notin Range(queue[g]) /\ e \notin Range(queue[h])
      BY <1>8, <2>2, Sequences DEF UDPInv, QueuesSound
    <3> QED
      BY <1>5, <1>6, <2>2, <3>1
  <2> QED
    BY <2>1, <2>2 DEF QueuesSound
<1>10. Queued' = Queued \cup {e} /\ Heard' = Heard
  <2>1. ASSUME NEW g \in Fds PROVE Range(queue'[g]) \subseteq Queued \cup {e} /\ Range(queue[g]) \subseteq Queued'
    <3>1. Range(queue'[g]) \subseteq Range(queue[g]) \cup {e} /\ Range(queue[g]) \subseteq Range(queue'[g])
      BY <1>5, <1>6
    <3>2. Range(queue[g]) \subseteq Queued /\ Range(queue'[g]) \subseteq Queued'
      BY DEF Queued
    <3> QED
      BY <3>1, <3>2
  <2>2. e \in Queued'
    BY <1>5, <1>6 DEF Queued
  <2> QED
    BY <1>1, <2>1, <2>2 DEF Queued, Heard
<1>11. DatagramsKept'
  <2>1. Queued' \cup Heard' \cup dropped' = 1..sent' /\ Queued' \cap Heard' = {}
    BY <1>1, <1>4, <1>8, <1>10 DEF UDPInv, DatagramsKept
  <2>2. ASSUME NEW t \in EventObjs
        PROVE  Increasing(IF fd'[t] = NoFd THEN got'[t] ELSE got'[t] \o queue'[fd'[t]])
    <3>1. Increasing(IF fd[t] = NoFd THEN got[t] ELSE got[t] \o queue[fd[t]])
      BY DEF UDPInv, DatagramsKept
    <3>2. CASE fd[t] = NoFd
      BY <1>1, <3>1, <3>2
    <3>3. CASE fd[t] # NoFd /\ fd[t] # f
      <4>1. fd[t] \in Fds
        BY <3>3, Exclusively
      <4> QED
        BY <1>1, <1>6, <3>1, <3>3, <4>1
    <3>4. CASE fd[t] # NoFd /\ fd[t] = f
      <4> DEFINE a == got[t] \o queue[f]
      <4>1. Increasing(a)
        BY <3>1, <3>4
      <4>2. got[t] \in Seq(Nat) /\ a \in Seq(Nat) /\ got[t] \o Append(queue[f], e) = Append(a, e)
        <5>1. got[t] \in Seq(Nat) /\ queue[f] \in Seq(Nat)
          BY <1>5, Sequences
        <5> QED
          BY <1>3, <5>1, AppendToConcat
      <4>3. Range(a) = Range(got[t]) \cup Range(queue[f])
        BY <1>5, <4>2, ConcatRange
      <4>4. Range(got[t]) \subseteq 1..sent /\ Range(queue[f]) \subseteq 1..sent
        BY <1>8, Sequences
      <4>5. \A x \in Range(a) : x < e
        BY <1>3, <4>3, <4>4
      <4> HIDE DEF a
      <4>6. Increasing(Append(a, e))
        BY <1>3, <4>1, <4>2, <4>5, AppendIncreasing
      <4> QED
        BY <1>1, <1>6, <3>4, <4>2, <4>6
    <3> QED
      BY <3>2, <3>3, <3>4
  <2> QED
    BY <1>1, <2>1, <2>2 DEF UDPInv, DatagramsKept
<1> QED
  BY <1>1, <1>7, <1>9, <1>11 DEF UDPInv

\* What waited at a socket has been heard by it afterwards, in the same order.
LEMMA ReceiveKeeps ==
  ASSUME UDPInv, NEW s \in EventObjs, Receive(s)
  PROVE  UDPInv'
<1> DEFINE f == fd[s]
           q == queue[f]
<1>1. /\ s \in udp /\ f # NoFd /\ f \in Fds /\ UDPTypeOK
  BY Exclusively DEF Receive, UDPInv
<1>2. /\ got' = [got EXCEPT ![s] = @ \o q] /\ queue' = [queue EXCEPT ![f] = << >>]
      /\ UNCHANGED <<events, dangling, udp, fd, open, sent, dropped, leaked>>
  BY DEF Receive, Received, Emptied
<1>3. /\ q \in Seq(1..MaxSent) /\ got[s] \in Seq(1..MaxSent)
      /\ Range(got[s] \o q) = Range(got[s]) \cup Range(q)
      /\ got[s] \o q \in Seq(1..MaxSent)
  <2>1. q \in Seq(1..MaxSent) /\ got[s] \in Seq(1..MaxSent)
    BY <1>1, Sequences
  <2> HIDE DEF q
  <2> QED
    BY <2>1, ConcatRange
<1>4. \A t \in EventObjs : t # s => fd[t] # f
  BY <1>1, Exclusively
<1>5. Range(q) \subseteq Queued
  BY <1>1 DEF Queued
<1> HIDE DEF f, q
<1>6. /\ queue' \in [Fds -> Seq(1..MaxSent)] /\ queue'[f] = << >>
      /\ \A g \in Fds : g # f => queue'[g] = queue[g]
  BY <1>1, <1>2 DEF UDPTypeOK
<1>7. /\ got' \in [EventObjs -> Seq(1..MaxSent)] /\ got'[s] = got[s] \o q
      /\ \A t \in EventObjs : t # s => got'[t] = got[t]
  BY <1>1, <1>2, <1>3 DEF UDPTypeOK
<1>8. UDPTypeOK' /\ EventsMatchOwners'
  BY <1>1, <1>2, <1>6, <1>7 DEF UDPInv, UDPTypeOK, EventsMatchOwners
<1>9. \A g \in Fds : Range(queue'[g]) \subseteq Range(queue[g])
  BY <1>6 DEF Range
<1>10. QueuesSound'
  <2>1. ASSUME NEW g \in Fds, queue'[g] # << >> PROVE \E t \in udp' : fd'[t] = g
    BY <1>2, <1>6, <2>1 DEF UDPInv, QueuesSound
  <2>2. \A g, h \in Fds : g # h => Range(queue'[g]) \cap Range(queue'[h]) = {}
    BY <1>9 DEF UDPInv, QueuesSound
  <2> QED
    BY <2>1, <2>2 DEF QueuesSound
<1>11. Queued' \cup Range(q) = Queued /\ Queued' \cap Range(q) = {}
  <2>1. ASSUME NEW g \in Fds
        PROVE  /\ Range(queue'[g]) \subseteq Queued /\ Range(queue'[g]) \cap Range(q) = {}
               /\ Range(queue[g]) \subseteq Queued' \cup Range(q)
    <3>1. Range(queue[g]) \subseteq Queued /\ Range(queue'[g]) \subseteq Queued'
      BY DEF Queued
    <3>2. CASE g = f
      BY <1>6, <3>1, <3>2 DEF q, Range
    <3>3. CASE g # f
      BY <1>1, <1>6, <3>1, <3>3 DEF UDPInv, QueuesSound, q
    <3> QED
      BY <3>2, <3>3
  <2> QED
    BY <1>5, <2>1 DEF Queued
<1>12. Heard' = Heard \cup Range(q)
  <2>1. ASSUME NEW t \in EventObjs
        PROVE  Range(got'[t]) \subseteq Heard \cup Range(q) /\ Range(got[t]) \subseteq Heard'
    <3>1. Range(got[t]) \subseteq Heard /\ Range(got'[t]) \subseteq Heard'
      BY DEF Heard
    <3>2. CASE t = s
      BY <1>3, <1>7, <3>1, <3>2
    <3>3. CASE t # s
      BY <1>7, <3>1, <3>3
    <3> QED
      BY <3>2, <3>3
  <2>2. Range(q) \subseteq Heard'
    BY <1>3, <1>7 DEF Heard
  <2> QED
    BY <2>1, <2>2 DEF Heard
<1>13. DatagramsKept'
  <2>1. Queued' \cup Heard' \cup dropped' = 1..sent' /\ Queued' \cap Heard' = {}
    BY <1>2, <1>11, <1>12 DEF UDPInv, DatagramsKept
  <2>2. ASSUME NEW t \in EventObjs, NEW u \in EventObjs, t # u
        PROVE  Range(got'[t]) \cap Range(got'[u]) = {}
    <3>1. Range(got[t]) \cap Range(got[u]) = {} /\ Range(q) \cap Heard = {}
      BY <1>5, <2>2 DEF UDPInv, DatagramsKept
    <3>2. Range(got[t]) \subseteq Heard /\ Range(got[u]) \subseteq Heard
      BY DEF Heard
    <3> QED
      BY <1>3, <1>7, <2>2, <3>1, <3>2
  <2>3. ASSUME NEW t \in EventObjs
        PROVE  Increasing(IF fd'[t] = NoFd THEN got'[t] ELSE got'[t] \o queue'[fd'[t]])
    <3>1. Increasing(IF fd[t] = NoFd THEN got[t] ELSE got[t] \o queue[fd[t]])
      BY DEF UDPInv, DatagramsKept
    <3>2. CASE t = s
      <4>1. Increasing(got[s] \o q)
        BY <1>1, <3>1, <3>2 DEF f, q
      <4>2. \A a \in Seq(1..MaxSent) : a \o << >> = a
        OBVIOUS
      <4>3. got'[s] \o queue'[f] = got[s] \o q
        BY <1>3, <1>6, <1>7, <4>2
      <4>4. fd'[s] = f
        BY <1>2 DEF f
      <4> QED
        BY <1>1, <3>2, <4>1, <4>3, <4>4
    <3>3. CASE t # s /\ fd[t] = NoFd
      BY <1>2, <1>7, <3>1, <3>3
    <3>4. CASE t # s /\ fd[t] # NoFd
      <4>1. fd[t] # f /\ fd[t] \in Fds
        BY <1>4, <3>4, Exclusively
      <4> QED
        BY <1>2, <1>6, <1>7, <3>1, <3>4, <4>1
    <3> QED
      BY <3>2, <3>3, <3>4
  <2> QED
    BY <2>1, <2>2, <2>3 DEF DatagramsKept
<1> QED
  BY <1>2, <1>8, <1>10, <1>13 DEF UDPInv
\* No socket, no event, no datagram.
LEMMA UDPStarts == UDPInit => UDPInv
<1> SUFFICES ASSUME UDPInit PROVE UDPInv
  OBVIOUS
<1>1. /\ events = << >> /\ dangling = FALSE /\ udp = {} /\ open = {} /\ sent = 0 /\ dropped = {} /\ leaked = {}
      /\ fd = [s \in EventObjs |-> NoFd] /\ queue = [f \in Fds |-> << >>] /\ got = [s \in EventObjs |-> << >>]
  BY DEF UDPInit
<1>2. << >> \in Seq(1..MaxSent) /\ << >> \in Seq(Event) /\ DOMAIN events = {}
  BY <1>1
<1>3. Range(<< >>) = {} /\ Increasing(<< >>)
  BY DEF Range, Increasing
<1>4. Queued = {} /\ Heard = {} /\ 1..sent = {}
  BY <1>1, <1>3 DEF Queued, Heard
<1>5. dangling \in BOOLEAN
  BY <1>1
<1>6. UDPTypeOK
  BY <1>1, <1>2, <1>5, MaxSentAssumption DEF UDPTypeOK
<1>7. DatagramsKept
  BY <1>1, <1>3, <1>4 DEF DatagramsKept
<1>8. QueuesSound /\ EventsMatchOwners
  BY <1>1, <1>2, <1>3 DEF QueuesSound, EventsMatchOwners
<1> QED
  BY <1>1, <1>6, <1>7, <1>8 DEF UDPInv

\* Where the sockets are left alone.
LEMMA UDPStays == ASSUME UDPInv, UNCHANGED udpVars PROVE UDPInv'
<1>1. UNCHANGED <<events, dangling, udp, fd, open, queue, sent, got, dropped, leaked>>
  BY DEF udpVars
<1>2. UDPTypeOK' /\ EventsMatchOwners' /\ QueuesSound'
  BY <1>1 DEF UDPInv, UDPTypeOK, EventsMatchOwners, QueuesSound
<1>3. DatagramsKept'
  BY <1>1 DEF UDPInv, DatagramsKept, Queued, Heard
<1> QED
  BY <1>1, <1>2, <1>3 DEF UDPInv

\* Whoever calls, and however deep.
LEMMA UDPStep == UDPInv /\ [Next]_vars => UDPInv'
<1> SUFFICES ASSUME UDPInv, [Next]_vars PROVE UDPInv'
  OBVIOUS
<1>1. CASE UNCHANGED udpVars
  BY <1>1, UDPStays
<1>2. ASSUME NEW s \in EventObjs, New(s) PROVE UDPInv'
  <2>1. CASE UDPSocket_CT(s)
    BY <2>1, CTKeeps
  <2>2. CASE UDPSocket_CTFails(s)
    BY <2>2, CTFailsKeeps
  <2> QED
    BY <1>2, <2>1, <2>2 DEF New
<1>3. ASSUME NEW s \in EventObjs, Close(s) PROVE UDPInv'
  BY <1>3, CloseKeeps DEF Close
<1>4. ASSUME NEW s \in EventObjs, NEW f \in Fds, Send(s, f) PROVE UDPInv'
  BY <1>4, ArriveKeeps DEF Send, UDPSocket_Send
<1>5. ASSUME NEW f \in Fds, KernelArrives(f) PROVE UDPInv'
  BY <1>5, ArriveKeeps DEF KernelArrives
<1>6. ASSUME NEW c \in Top.batch, Dispatch(c) PROVE UDPInv'
  <2>1. CASE Receive(c.obj)
    <3>1. c.obj \in EventObjs
      BY <2>1 DEF Receive, UDPInv, UDPTypeOK
    <3> QED
      BY <2>1, <3>1, ReceiveKeeps
  <2>2. CASE ReceiveFails(c.obj)
    BY <2>2, UDPStays DEF ReceiveFails
  <2> QED
    BY <1>6, <2>1, <2>2 DEF Dispatch
<1>7. CASE UNCHANGED vars
  BY <1>1, <1>7 DEF vars
<1>8. CASE Next
  <2>1. CASE System_Include \/ JSUnit_Events \/ JSUnit_Run \/ JSUnit_Assert \/ \E t \in Tests : JSUnit_Add(t)
    BY <1>1, <2>1 DEF System_Include, JSUnit_Events, JSUnit_Run, JSUnit_Assert, JSUnit_Add
  <2>2. CASE ScriptReturns \/ ScriptThrows \/ LoopEnds \/ Select \/ Astray \/ BatchDone \/ CallbackReturns
    BY <1>1, <2>2 DEF ScriptReturns, ScriptThrows, LoopEnds, Select, Astray, BatchDone, CallbackReturns
  <2>3. CASE RunNext \/ TestReturns \/ TestThrows \/ RunEnds
    BY <1>1, <2>3 DEF RunNext, TestReturns, TestThrows, TestEnds, RunEnds
  <2>4. CASE Waits \/ Terminated
    BY <1>7, <2>4 DEF Waits, Terminated
  <2> QED
    BY <1>2, <1>3, <1>4, <1>5, <1>6, <1>8, <2>1, <2>2, <2>3, <2>4 DEF Next
<1> QED
  BY <1>7, <1>8

\* So it always holds.
LEMMA UDPInvariant == Spec => []UDPInv
<1>1. Init => UDPInv
  BY UDPStarts DEF Init
<1> QED
  BY <1>1, UDPStep, PTL DEF Spec

\* Whichever loops read from the sockets, and however many of them inside one
\* another, no datagram is lost, passed on twice or out of order, except those
\* that close(2) throws away.
THEOREM DatagramsAreKept == Spec => []DatagramsKept
<1>1. UDPInv => DatagramsKept
  BY DEF UDPInv
<1> QED
  BY <1>1, UDPInvariant, PTL

\* The list has one event for each open socket, and none for anything else,
\* wherever in the nesting of loops the sockets were made and closed.
THEOREM EventsMatchTheirOwners == Spec => []EventsMatchOwners
<1>1. UDPInv => EventsMatchOwners
  BY DEF UDPInv
<1> QED
  BY <1>1, UDPInvariant, PTL

-----------------------------------------------------------------------------
(* The calls that are active, and the suite.                               *)

(***************************************************************************)
(* onData runs on a ps_HandleSelect, a test on the run() that called it,   *)
(* and on nothing else; there is one run() at most, and what lies under it *)
(* was not called on behalf of a test.                                     *)
(***************************************************************************)
Shaped(st) ==
  /\ Len(st) >= 1
  /\ st[1].kind \notin {"callback", "test"}
  /\ \A i \in 1..Len(st) - 1 : /\ st[i + 1].kind = "callback" <=> st[i].kind = "select"
                               /\ st[i + 1].kind = "test" <=> st[i].kind = "run"
  /\ \A i, j \in DOMAIN st : st[i].kind = "run" /\ st[j].kind = "run" => i = j
  /\ \A i, j \in DOMAIN st : i <= j /\ st[j].kind = "run" => st[i].unit = Main

\* A copy that waits in a batch stands for a socket that is closed or has data.
Waiting(o) == o \in udp /\ (fd[o] # NoFd => queue[fd[o]] # << >>)

\* Without loops in callbacks.
BatchesSound ==
  ~style.nests =>
    \A i \in DOMAIN stack :
      /\ stack[i].kind = "select" =>
           /\ i >= Len(stack) - 1
           /\ \A c \in stack[i].batch : Waiting(c.obj)
           /\ \A c, d \in stack[i].batch : c.obj = d.obj => c = d
      /\ stack[i].kind = "callback" => stack[i].data # << >>

Begun(t)    == result[t] # "NOT_RUN"
Reported(t) == printed[t] # "nothing"

\* How far the run() has come that is the i-th call: the case at its number is
\* the one it has called, if it is not the innermost call.
Progress(i) ==
  /\ stack[i].at >= 1
  /\ i < Len(stack) => stack[i].at \in DOMAIN cases /\ cases[stack[i].at] = current
  /\ \A k \in DOMAIN cases :
       /\ k < stack[i].at => Begun(cases[k]) /\ Reported(cases[k])
       /\ k > stack[i].at => ~Begun(cases[k])
       /\ k = stack[i].at => (Begun(cases[k]) <=> i < Len(stack))

SuiteSound ==
  /\ \A k, m \in DOMAIN cases : cases[k] = cases[m] => k = m
  /\ \A t \in Tests : t \notin Range(cases) => ~Begun(t)
  /\ \A t \in Tests : ~Begun(t) => ~Reported(t) /\ t \notin broke
  /\ IF current = Main THEN \A t \in Tests : ~Begun(t) ELSE Begun(current)
  /\ \A t \in Tests : Begun(t) /\ ~Reported(t) => t = current /\ Active("test")
  /\ \A t \in broke : ~Reported(t) => result[t] = "FAIL"

\* What a test has left behind: calls on its behalf, and sockets that are open.
Leftover(t) ==
  \/ \E i \in DOMAIN stack : stack[i].unit = t
  \/ \E s \in EventObjs : owner[s] = t /\ fd[s] # NoFd

CallsOfTests ==
  /\ \A i \in DOMAIN stack :
       /\ stack[i].kind = "run" => Progress(i)
       /\ stack[i].kind = "test" => stack[i].unit = current /\ current # Main /\ ~Reported(current)
  /\ \A t \in Tests : ~Begun(t) =>
       /\ \A i \in DOMAIN stack : stack[i].unit # t
       /\ \A s \in EventObjs : owner[s] # t
  /\ style.drains => \A t \in Tests : printed[t] = "PASS" => ~Leftover(t) /\ t \notin broke

ReentryInv ==
  /\ TypeOK /\ UDPInv
  /\ Shaped(stack) /\ BatchesSound /\ SuiteSound /\ CallsOfTests
-----------------------------------------------------------------------------
(* The stack.                                                              *)

\* A call on top.
LEMMA Pushed ==
  ASSUME NEW st \in Seq(Frame), NEW f \in Frame
  PROVE  LET p == Append(st, f) IN
           /\ p \in Seq(Frame) /\ Len(p) = Len(st) + 1
           /\ p[Len(st) + 1] = f /\ Last(p) = f
           /\ \A i \in 1..Len(st) : p[i] = st[i]
  BY DEF Last

\* A return.
LEMMA Popped ==
  ASSUME NEW st \in Seq(Frame), Len(st) > 1
  PROVE  /\ Front(st) \in Seq(Frame) /\ Len(Front(st)) = Len(st) - 1
         /\ \A i \in 1..Len(st) - 1 : Front(st)[i] = st[i]
  BY DEF Front

\* The innermost call moves on.
LEMMA Replaced ==
  ASSUME NEW st \in Seq(Frame), NEW n, n = Len(st), n >= 1, NEW f \in Frame,
         NEW r, r = [st EXCEPT ![n] = f]
  PROVE  /\ r \in Seq(Frame) /\ Len(r) = n /\ r[n] = f
         /\ \A i \in 1..n - 1 : r[i] = st[i]
  OBVIOUS

\* What is under the innermost call, and that call.
LEMMA StackFacts ==
  ASSUME TypeOK, Shaped(stack)
  PROVE  /\ stack \in Seq(Frame) /\ Len(stack) \in Nat /\ Len(stack) >= 1
         /\ DOMAIN stack = 1..Len(stack)
         /\ Top = stack[Len(stack)] /\ Top \in Frame
         /\ \A i \in 1..Len(stack) : stack[i] \in Frame
<1>1. stack \in Seq(Frame) /\ Len(stack) >= 1
  BY DEF TypeOK, Shaped
<1>2. Len(stack) \in Nat /\ DOMAIN stack = 1..Len(stack) /\ \A i \in 1..Len(stack) : stack[i] \in Frame
  BY <1>1
<1> QED
  BY <1>1, <1>2 DEF Top, Last

\* The kinds and units of calls that have only just been made.
LEMMA CalledFacts ==
  ASSUME NEW k \in Kinds, NEW u \in Tests \cup {Main}
  PROVE  /\ Called(k, u) \in Frame
         /\ Called(k, u).kind = k /\ Called(k, u).unit = u
         /\ Called(k, u).data = << >> /\ Called(k, u).batch = {} /\ Called(k, u).at = 0
<1>1. << >> \in Seq(1..MaxSent) /\ {} \in SUBSET Copy /\ 0 \in Nat
  OBVIOUS
<1> QED
  BY <1>1 DEF Called, Frame

\* A call of which one thing changes.
LEMMA ChangedFacts ==
  ASSUME NEW g \in Frame
  PROVE  /\ \A a \in Nat : /\ [g EXCEPT !.at = a] \in Frame /\ [g EXCEPT !.at = a].at = a
                           /\ [g EXCEPT !.at = a].kind = g.kind /\ [g EXCEPT !.at = a].unit = g.unit
         /\ \A b \in SUBSET Copy :
              /\ [g EXCEPT !.batch = b] \in Frame /\ [g EXCEPT !.batch = b].batch = b
              /\ [g EXCEPT !.batch = b].kind = g.kind /\ [g EXCEPT !.batch = b].unit = g.unit
         /\ \A d \in Seq(1..MaxSent) :
              /\ [g EXCEPT !.data = d] \in Frame /\ [g EXCEPT !.data = d].data = d
              /\ [g EXCEPT !.data = d].kind = g.kind /\ [g EXCEPT !.data = d].unit = g.unit
         /\ \A k \in Kinds :
              /\ [g EXCEPT !.kind = k] \in Frame /\ [g EXCEPT !.kind = k].kind = k
              /\ [g EXCEPT !.kind = k].unit = g.unit
<1> DEFINE D == Seq(1..MaxSent)
           B == SUBSET Copy
<1>1. g \in [kind : Kinds, unit : Tests \cup {Main}, batch : B, data : D, at : Nat]
  BY DEF Frame
<1>2. Frame = [kind : Kinds, unit : Tests \cup {Main}, batch : B, data : D, at : Nat]
  BY DEF Frame
<1> HIDE DEF D, B
<1>3. ASSUME NEW a \in Nat
      PROVE  /\ [g EXCEPT !.at = a] \in Frame /\ [g EXCEPT !.at = a].at = a
             /\ [g EXCEPT !.at = a].kind = g.kind /\ [g EXCEPT !.at = a].unit = g.unit
  BY <1>1, <1>2
<1>4. ASSUME NEW b \in B
      PROVE  /\ [g EXCEPT !.batch = b] \in Frame /\ [g EXCEPT !.batch = b].batch = b
             /\ [g EXCEPT !.batch = b].kind = g.kind /\ [g EXCEPT !.batch = b].unit = g.unit
  BY <1>1, <1>2
<1>5. ASSUME NEW d \in D
      PROVE  /\ [g EXCEPT !.data = d] \in Frame /\ [g EXCEPT !.data = d].data = d
             /\ [g EXCEPT !.data = d].kind = g.kind /\ [g EXCEPT !.data = d].unit = g.unit
  BY <1>1, <1>2
<1>6. ASSUME NEW k \in Kinds
      PROVE  /\ [g EXCEPT !.kind = k] \in Frame /\ [g EXCEPT !.kind = k].kind = k
             /\ [g EXCEPT !.kind = k].unit = g.unit
  BY <1>1, <1>2
<1> QED
  BY <1>3, <1>4, <1>5, <1>6 DEF B, D

\* Which calls may be made from which.
LEMMA PushShapes ==
  ASSUME NEW st \in Seq(Frame), Shaped(st), NEW f \in Frame,
         f.kind = "callback" <=> st[Len(st)].kind = "select",
         f.kind = "test" <=> st[Len(st)].kind = "run",
         f.kind = "run" => /\ f.unit = Main
                           /\ \A i \in 1..Len(st) : st[i].unit = Main /\ st[i].kind # "run"
  PROVE  Shaped(Append(st, f))
<1> DEFINE p == Append(st, f)
           n == Len(st)
<1>1. /\ n \in Nat /\ n >= 1 /\ Len(p) = n + 1 /\ p[n + 1] = f /\ \A i \in 1..n : p[i] = st[i]
      /\ DOMAIN st = 1..n /\ DOMAIN p = 1..n + 1
  BY Pushed DEF Shaped
<1>2. /\ st[1].kind \notin {"callback", "test"}
      /\ \A i \in 1..n - 1 : /\ st[i + 1].kind = "callback" <=> st[i].kind = "select"
                             /\ st[i + 1].kind = "test" <=> st[i].kind = "run"
      /\ \A i, j \in 1..n : st[i].kind = "run" /\ st[j].kind = "run" => i = j
      /\ \A i, j \in 1..n : i <= j /\ st[j].kind = "run" => st[i].unit = Main
  BY <1>1 DEF Shaped
<1>3. f.kind = "callback" <=> st[n].kind = "select"
  OBVIOUS
<1>4. f.kind = "test" <=> st[n].kind = "run"
  OBVIOUS
<1>5. f.kind = "run" => f.unit = Main /\ \A i \in 1..n : st[i].unit = Main /\ st[i].kind # "run"
  OBVIOUS
<1> HIDE DEF p, n
<1>6. p[1].kind \notin {"callback", "test"}
  BY <1>1, <1>2
<1>7. ASSUME NEW i \in 1..n
      PROVE  /\ p[i + 1].kind = "callback" <=> p[i].kind = "select"
             /\ p[i + 1].kind = "test" <=> p[i].kind = "run"
  <2>1. CASE i = n
    BY <1>1, <1>3, <1>4, <2>1
  <2>2. CASE i # n
    <3>1. i \in 1..n - 1 /\ i + 1 \in 1..n
      BY <1>1, <2>2
    <3> QED
      BY <1>1, <1>2, <3>1
  <2> QED
    BY <2>1, <2>2
<1>8. ASSUME NEW i \in 1..n + 1, NEW j \in 1..n + 1, p[i].kind = "run", p[j].kind = "run"
      PROVE  i = j
  <2>1. CASE i = n + 1 /\ j \in 1..n
    BY <1>1, <1>5, <1>8, <2>1
  <2>2. CASE j = n + 1 /\ i \in 1..n
    BY <1>1, <1>5, <1>8, <2>2
  <2>3. CASE i \in 1..n /\ j \in 1..n
    BY <1>1, <1>2, <1>8, <2>3
  <2> QED
    BY <1>1, <2>1, <2>2, <2>3
<1>9. ASSUME NEW i \in 1..n + 1, NEW j \in 1..n + 1, i <= j, p[j].kind = "run"
      PROVE  p[i].unit = Main
  <2>1. CASE j = n + 1
    BY <1>1, <1>5, <1>9, <2>1
  <2>2. CASE j \in 1..n
    <3>1. i \in 1..n
      BY <1>1, <1>9, <2>2
    <3> QED
      BY <1>1, <1>2, <1>9, <2>2, <3>1
  <2> QED
    BY <1>1, <2>1, <2>2
<1>10. Len(p) >= 1 /\ Len(p) - 1 = n
  BY <1>1
<1>11. Shaped(p)
  <2>1. \A i \in 1..Len(p) - 1 : /\ p[i + 1].kind = "callback" <=> p[i].kind = "select"
                                 /\ p[i + 1].kind = "test" <=> p[i].kind = "run"
    BY <1>7, <1>10
  <2>2. \A i, j \in DOMAIN p : p[i].kind = "run" /\ p[j].kind = "run" => i = j
    BY <1>1, <1>8
  <2>3. \A i, j \in DOMAIN p : i <= j /\ p[j].kind = "run" => p[i].unit = Main
    BY <1>1, <1>9
  <2> QED
    BY ONLY <1>6, <1>10, <2>1, <2>2, <2>3 DEF Shaped
<1> QED
  BY <1>11 DEF p

\* Whatever is a first part of the stack, with the same kinds and units.
LEMMA PartShapes ==
  ASSUME NEW st \in Seq(Frame), Shaped(st), NEW r \in Seq(Frame), 1 <= Len(r), Len(r) <= Len(st),
         \A i \in 1..Len(r) : r[i].unit = st[i].unit,
         \A i \in 1..Len(r) : \/ r[i].kind = st[i].kind
                              \/ /\ i = Len(r) /\ i = Len(st)
                                 /\ {r[i].kind, st[i].kind} \cap {"callback", "test", "run"} = {}
  PROVE  Shaped(r)
<1> DEFINE m == Len(r)
           n == Len(st)
<1>1. /\ m \in Nat /\ n \in Nat /\ 1 <= m /\ m <= n /\ DOMAIN st = 1..n /\ DOMAIN r = 1..m
      /\ \A i \in 1..m : r[i].unit = st[i].unit
  OBVIOUS
<1>2. \A i \in 1..m : \/ r[i].kind = st[i].kind
                      \/ i = m /\ i = n /\ {r[i].kind, st[i].kind} \cap {"callback", "test", "run"} = {}
  OBVIOUS
<1>3. /\ st[1].kind \notin {"callback", "test"}
      /\ \A i \in 1..n - 1 : /\ st[i + 1].kind = "callback" <=> st[i].kind = "select"
                             /\ st[i + 1].kind = "test" <=> st[i].kind = "run"
      /\ \A i, j \in 1..n : st[i].kind = "run" /\ st[j].kind = "run" => i = j
      /\ \A i, j \in 1..n : i <= j /\ st[j].kind = "run" => st[i].unit = Main
  BY <1>1, Zenon DEF Shaped
<1> HIDE DEF m, n
<1>4. \A i \in 1..m : i \in 1..n
  BY <1>1
<1>5. \A i \in 1..m : /\ r[i].kind = "run" <=> st[i].kind = "run"
                      /\ r[i].kind = "callback" <=> st[i].kind = "callback"
                      /\ r[i].kind = "test" <=> st[i].kind = "test"
  BY <1>2
<1>6. \A i \in 1..m - 1 : i \in 1..m /\ i + 1 \in 1..m /\ i \in 1..n - 1 /\ i # m
  BY <1>1
<1>7. \A i \in 1..m - 1 : r[i].kind = st[i].kind
  BY <1>2, <1>6
<1>8. 1 \in 1..m
  BY <1>1
<1>9. Shaped(r)
  <2>1. r[1].kind \notin {"callback", "test"}
    BY <1>3, <1>5, <1>8
  <2>2. \A i \in 1..m - 1 : /\ r[i + 1].kind = "callback" <=> r[i].kind = "select"
                            /\ r[i + 1].kind = "test" <=> r[i].kind = "run"
    BY <1>3, <1>5, <1>6, <1>7
  <2>3. \A i, j \in 1..m : r[i].kind = "run" /\ r[j].kind = "run" => i = j
    BY <1>3, <1>4, <1>5
  <2>4. \A i, j \in 1..m : i <= j /\ r[j].kind = "run" => r[i].unit = Main
    BY <1>1, <1>3, <1>4, <1>5
  <2> QED
    BY <1>1, <2>1, <2>2, <2>3, <2>4, Zenon DEF Shaped, m
<1> QED
  BY <1>9
-----------------------------------------------------------------------------
(* Steps that leave the suite alone.                                       *)

\* Nobody, or a test with calls or sockets.
OfUnit(u) == u = Main \/ Leftover(u)

\* The suite stays, nothing is done for a test that had nothing left, and the
\* calls of run() and of tests are the same, or a run() has just been called.
Quiet ==
  /\ UNCHANGED <<style, suiteVars>>
  /\ \A i \in DOMAIN stack' : OfUnit(stack'[i].unit)
  /\ \A s \in EventObjs : owner'[s] = owner[s] \/ OfUnit(owner'[s])
  /\ \A s \in EventObjs : fd'[s] # NoFd => OfUnit(owner'[s])
  /\ \A i \in DOMAIN stack' :
       /\ stack'[i].kind = "run" =>
            \/ stack'[i].at = 1 /\ i = Len(stack') /\ current = Main
            \/ /\ i \in DOMAIN stack /\ stack[i].kind = "run" /\ stack'[i].at = stack[i].at
               /\ i < Len(stack') <=> i < Len(stack)
       /\ stack'[i].kind = "test" =>
            i \in DOMAIN stack /\ stack[i].kind = "test" /\ stack'[i].unit = stack[i].unit
  /\ Active("test") => Active("test")'

\* What is done for a test is done for one that has begun.
LEMMA UnitsBegun ==
  ASSUME TypeOK, CallsOfTests, NEW u \in Tests, OfUnit(u)
  PROVE  Begun(u) /\ (style.drains => printed[u] # "PASS")
<1>1. u # Main /\ Leftover(u)
  BY MainAssumption DEF OfUnit
<1>2. Begun(u)
  BY <1>1 DEF CallsOfTests, Leftover
<1>3. style.drains => printed[u] # "PASS"
  BY <1>1 DEF CallsOfTests
<1> QED
  BY <1>2, <1>3

\* The active calls, and the owners of what is open, are such.
LEMMA UnitsOf ==
  /\ \A i \in DOMAIN stack : OfUnit(stack[i].unit)
  /\ \A s \in EventObjs : fd[s] # NoFd => OfUnit(owner[s])
  BY DEF OfUnit, Leftover

\* A quiet step keeps what is known of the suite and its calls.
LEMMA QuietKeeps ==
  ASSUME TypeOK, SuiteSound, CallsOfTests, Quiet
  PROVE  SuiteSound' /\ CallsOfTests'
<1>1. UNCHANGED <<style, cases, result, current, printed, broke>>
  BY DEF Quiet, suiteVars
<1>2. \A t \in Tests : (Begun(t)' <=> Begun(t)) /\ (Reported(t)' <=> Reported(t))
  BY <1>1 DEF Begun, Reported
<1>3. SuiteSound'
  <2>1. Active("test") => Active("test")'
    BY DEF Quiet
  <2>2. ASSUME NEW t \in broke, ~Reported(t)' PROVE result'[t] = "FAIL"
    BY <1>1, <2>2 DEF SuiteSound, Reported
  <2>3. IF current' = Main THEN \A t \in Tests : ~Begun(t)' ELSE Begun(current)'
    BY <1>1 DEF SuiteSound, Begun
  <2>4. \A t \in Tests : Begun(t)' /\ ~Reported(t)' => t = current' /\ Active("test")'
    BY <1>1, <1>2, <2>1 DEF SuiteSound
  <2>5. \A t \in Tests : t \notin Range(cases') => ~Begun(t)'
    BY <1>1, <1>2 DEF SuiteSound
  <2>6. \A t \in Tests : ~Begun(t)' => ~Reported(t)' /\ t \notin broke'
    BY <1>1, <1>2 DEF SuiteSound
  <2>7. \A k, m \in DOMAIN cases' : cases'[k] = cases'[m] => k = m
    BY <1>1 DEF SuiteSound
  <2> QED
    BY <1>1, <2>2, <2>3, <2>4, <2>5, <2>6, <2>7 DEF SuiteSound
<1>4. \A k \in DOMAIN cases : cases[k] \in Tests
  BY DEF TypeOK
<1>5. ASSUME NEW i \in DOMAIN stack', stack'[i].kind = "run"
      PROVE  Progress(i)'
  <2>1. CASE stack'[i].at = 1 /\ i = Len(stack') /\ current = Main
    <3>1. ~(i < Len(stack')) /\ stack'[i].at >= 1
      BY <2>1
    <3>2. \A k \in DOMAIN cases : k \in Nat /\ ~(k < stack'[i].at)
      BY <2>1 DEF TypeOK
    <3>3. \A k \in DOMAIN cases : ~Begun(cases[k])
      BY <1>4, <2>1 DEF SuiteSound
    <3>4. \A k \in DOMAIN cases' : ~Begun(cases[k])' /\ ~(k < stack'[i].at)
      BY <1>1, <1>2, <1>4, <3>2, <3>3
    <3> QED
      BY <3>1, <3>4 DEF Progress
  <2>2. CASE /\ i \in DOMAIN stack /\ stack[i].kind = "run" /\ stack'[i].at = stack[i].at
             /\ i < Len(stack') <=> i < Len(stack)
    <3>1. Progress(i)
      BY <2>2 DEF CallsOfTests
    <3>2. \A k \in DOMAIN cases : /\ Begun(cases[k])' <=> Begun(cases[k])
                                  /\ Reported(cases[k])' <=> Reported(cases[k])
      BY <1>1, <1>2, <1>4
    <3>3. i < Len(stack') => stack'[i].at \in DOMAIN cases' /\ cases'[stack'[i].at] = current'
      BY <1>1, <2>2, <3>1 DEF Progress
    <3>4. \A k \in DOMAIN cases' :
            /\ k < stack'[i].at => Begun(cases[k])' /\ Reported(cases[k])'
            /\ k > stack'[i].at => ~Begun(cases[k])'
            /\ k = stack'[i].at => (Begun(cases[k])' <=> i < Len(stack'))
      BY <1>1, <2>2, <3>1, <3>2 DEF Progress
    <3>5. stack'[i].at >= 1
      BY <2>2, <3>1 DEF Progress
    <3> QED
      BY <3>3, <3>4, <3>5 DEF Progress
  <2> QED
    BY <1>5, <2>1, <2>2 DEF Quiet
<1>6. ASSUME NEW i \in DOMAIN stack', stack'[i].kind = "test"
      PROVE  stack'[i].unit = current' /\ current' # Main /\ ~Reported(current)'
  <2>1. i \in DOMAIN stack /\ stack[i].kind = "test" /\ stack'[i].unit = stack[i].unit
    BY <1>6 DEF Quiet
  <2> QED
    BY <1>1, <2>1 DEF CallsOfTests, Reported
<1>7. ASSUME NEW t \in Tests, ~Begun(t)'
      PROVE  /\ \A i \in DOMAIN stack' : stack'[i].unit # t
             /\ \A s \in EventObjs : owner'[s] # t
  <2>1. ~OfUnit(t)
    BY <1>2, <1>7, UnitsBegun
  <2>2. \A s \in EventObjs : owner[s] # t
    BY <1>2, <1>7 DEF CallsOfTests
  <2> QED
    BY <2>1, <2>2 DEF Quiet
<1>8. ASSUME style'.drains, NEW t \in Tests, printed'[t] = "PASS"
      PROVE  ~Leftover(t)' /\ t \notin broke'
  <2>1. ~OfUnit(t) /\ t \notin broke
    BY <1>1, <1>8, UnitsBegun DEF CallsOfTests
  <2>2. \A i \in DOMAIN stack' : stack'[i].unit # t
    BY <2>1 DEF Quiet
  <2>3. \A s \in EventObjs : owner'[s] = t => fd'[s] = NoFd
    BY <2>1 DEF Quiet
  <2> QED
    BY <1>1, <2>1, <2>2, <2>3 DEF Leftover
<1> QED
  BY <1>3, <1>5, <1>6, <1>7, <1>8 DEF CallsOfTests

\* A socket has a descriptor that waits: what the network and other sockets do
\* does not change it.
StillWaiting == \A o \in EventObjs : Waiting(o) => Waiting(o)'

\* Constructors, close(2) and arrivals leave each socket closed or with data that was so.
LEMMA WaitsOn ==
  ASSUME UDPInv,
         \/ \E s \in EventObjs : UDPSocket_CT(s) \/ UDPSocket_CTFails(s) \/ UDPSocket_Close(s)
         \/ \E f \in Fds : Arrive(f)
         \/ UNCHANGED udpVars
  PROVE  StillWaiting
<1> USE DEF StillWaiting, Waiting
<1>1. UDPTypeOK
  BY DEF UDPInv
<1>2. ASSUME NEW s \in EventObjs, UDPSocket_CT(s) PROVE StillWaiting
  <2>1. PICK f \in Fds : fd' = [fd EXCEPT ![s] = f]
    BY <1>2 DEF UDPSocket_CT, LowestFree
  <2>2. s \notin udp /\ udp' = udp \cup {s} /\ queue' = queue
    BY <1>2 DEF UDPSocket_CT
  <2> QED
    BY <1>1, <2>1, <2>2 DEF UDPTypeOK
<1>3. ASSUME NEW s \in EventObjs, UDPSocket_CTFails(s) PROVE StillWaiting
  BY <1>3 DEF UDPSocket_CTFails
<1>4. ASSUME NEW s \in EventObjs, UDPSocket_Close(s) PROVE StillWaiting
  <2>1. /\ udp' = udp /\ fd' = [fd EXCEPT ![s] = NoFd]
        /\ fd[s] # NoFd /\ queue' = [queue EXCEPT ![fd[s]] = << >>]
    BY <1>4 DEF UDPSocket_Close
  <2>2. \A o \in EventObjs : o # s /\ fd[o] # NoFd => fd[o] # fd[s] /\ fd[o] \in Fds
    BY <2>1, Exclusively
  <2>3. ASSUME NEW o \in EventObjs, Waiting(o) PROVE Waiting(o)'
    <3>1. CASE o = s
      BY <1>1, <2>1, <2>3, <3>1 DEF UDPTypeOK
    <3>2. CASE o # s
      <4>1. fd'[o] = fd[o]
        BY <1>1, <2>1, <3>2 DEF UDPTypeOK
      <4>2. fd[o] # NoFd => queue'[fd[o]] = queue[fd[o]]
        BY <1>1, <2>1, <2>2, <3>2 DEF UDPTypeOK
      <4> QED
        BY <2>1, <2>3, <4>1, <4>2
    <3> QED
      BY <3>1, <3>2
  <2> QED
    BY <2>3
<1>5. ASSUME NEW f \in Fds, Arrive(f) PROVE StillWaiting
  <2>1. udp' = udp /\ fd' = fd /\ queue' = [queue EXCEPT ![f] = Append(@, sent + 1)]
    BY <1>5 DEF Arrive
  <2>2. queue[f] \in Seq(Nat) /\ sent + 1 \in Nat
    BY Sequences
  <2>3. Append(queue[f], sent + 1) # << >>
    BY <2>2
  <2>4. \A g \in Fds : queue[g] # << >> => queue'[g] # << >>
    BY <1>1, <2>1, <2>3 DEF UDPTypeOK
  <2>5. \A o \in EventObjs : fd[o] # NoFd => fd[o] \in Fds
    BY <1>1 DEF UDPTypeOK
  <2> QED
    BY <2>1, <2>4, <2>5
<1>6. CASE UNCHANGED udpVars
  BY <1>6 DEF udpVars
<1> QED
  BY <1>2, <1>3, <1>4, <1>5, <1>6
\* Steps of scripts and of the network at sockets, with the calls as they are.
LEMMA StackStays ==
  ASSUME ReentryInv, UDPInv', StillWaiting, UNCHANGED <<stack, style, suiteVars>>,
         pc' \in {"running", "exited", "lost"}, owner' \in [EventObjs -> Tests \cup {Main}],
         \A s \in EventObjs : owner'[s] = owner[s] \/ OfUnit(owner'[s]),
         \A s \in EventObjs : fd'[s] # NoFd => OfUnit(owner'[s])
  PROVE  ReentryInv'
<1>1. UNCHANGED <<stack, style, cases, result, current, printed, broke>>
  BY DEF suiteVars
<1>2. TypeOK' /\ Shaped(stack)'
  BY <1>1 DEF ReentryInv, TypeOK, UDPInv, Shaped
<1>3. BatchesSound'
  <2>1. ASSUME NEW i \in DOMAIN stack, NEW c \in stack[i].batch, Waiting(c.obj) PROVE Waiting(c.obj)'
    <3>1. c.obj \in EventObjs
      BY <2>1 DEF Waiting, ReentryInv, TypeOK, UDPTypeOK
    <3> QED
      BY <2>1, <3>1 DEF StillWaiting
  <2> QED
    BY <1>1, <2>1 DEF ReentryInv, BatchesSound
<1>4. Quiet
  <2>1. \A i \in DOMAIN stack' : OfUnit(stack'[i].unit)
    BY <1>1, UnitsOf
  <2>2. Active("test") => Active("test")'
    BY <1>1 DEF Active
  <2> QED
    BY <1>1, <2>1, <2>2 DEF Quiet, suiteVars
<1> QED
  BY <1>2, <1>3, <1>4, QuietKeeps DEF ReentryInv

\* A socket belongs to whoever makes it.
LEMMA NewKeeps == ASSUME ReentryInv, UDPInv', NEW s \in EventObjs, New(s) PROVE ReentryInv'
<1>1. StillWaiting
  BY WaitsOn DEF New, ReentryInv
<1>2. UNCHANGED <<pc, stack, style, suiteVars>> /\ pc' \in {"running", "exited", "lost"}
  BY DEF New, ReentryInv, TypeOK
<1>3. TypeOK /\ Shaped(stack) /\ UDPTypeOK
  BY DEF ReentryInv, TypeOK
<1>4. Top.unit \in Tests \cup {Main} /\ OfUnit(Top.unit)
  <2>1. Top \in Frame /\ \E i \in DOMAIN stack : Top = stack[i]
    BY <1>3, StackFacts
  <2> QED
    BY <2>1, UnitsOf DEF Frame
<1>5. CASE UDPSocket_CT(s) /\ owner' = [owner EXCEPT ![s] = Top.unit]
  <2>1. \A t \in EventObjs : t # s => fd'[t] = fd[t]
    BY <1>3, <1>5 DEF UDPSocket_CT, UDPTypeOK
  <2>2. /\ owner' \in [EventObjs -> Tests \cup {Main}] /\ owner'[s] = Top.unit
        /\ \A t \in EventObjs : t # s => owner'[t] = owner[t]
    BY <1>3, <1>4, <1>5 DEF TypeOK
  <2>3. \A t \in EventObjs : owner'[t] = owner[t] \/ OfUnit(owner'[t])
    BY <1>4, <2>2
  <2>4. \A t \in EventObjs : fd'[t] # NoFd => OfUnit(owner'[t])
    BY <1>4, <2>1, <2>2, UnitsOf
  <2> QED
    BY <1>1, <1>2, <2>2, <2>3, <2>4, StackStays
<1>6. CASE UDPSocket_CTFails(s) /\ UNCHANGED owner
  <2>1. fd' = fd /\ owner' = owner /\ owner \in [EventObjs -> Tests \cup {Main}]
    BY <1>3, <1>6 DEF UDPSocket_CTFails, TypeOK
  <2>2. \A t \in EventObjs : owner'[t] = owner[t] \/ OfUnit(owner'[t])
    BY <2>1
  <2>3. \A t \in EventObjs : fd'[t] # NoFd => OfUnit(owner'[t])
    BY <2>1, UnitsOf
  <2> QED
    BY <1>1, <1>2, <2>1, <2>2, <2>3, StackStays
<1> QED
  BY <1>5, <1>6 DEF New

\* No socket is opened, and none changes hands.
LEMMA SocketsStay ==
  ASSUME ReentryInv, UDPInv', StillWaiting, UNCHANGED <<stack, style, suiteVars, owner>>,
         pc' \in {"running", "exited", "lost"},
         \A s \in EventObjs : fd'[s] # NoFd => fd'[s] = fd[s]
  PROVE  ReentryInv'
<1>1. owner' = owner /\ owner \in [EventObjs -> Tests \cup {Main}]
  BY DEF ReentryInv, TypeOK
<1>2. \A s \in EventObjs : owner'[s] = owner[s] \/ OfUnit(owner'[s])
  BY <1>1
<1>3. \A s \in EventObjs : fd'[s] # NoFd => OfUnit(owner'[s])
  BY <1>1, UnitsOf
<1> QED
  BY <1>1, <1>2, <1>3, StackStays

\* Closing, sending, arrivals, waiting, and the end.
LEMMA OthersKeep ==
  ASSUME ReentryInv, UDPInv',
         \/ \E s \in EventObjs : Close(s) \/ \E f \in Fds : Send(s, f)
         \/ \E f \in Fds : KernelArrives(f)
         \/ Astray
         \/ UNCHANGED vars
  PROVE  ReentryInv'
<1>1. UDPInv /\ UDPTypeOK /\ pc \in {"running", "exited", "lost"}
  BY DEF ReentryInv, TypeOK
<1>2. ASSUME NEW s \in EventObjs, Close(s) PROVE ReentryInv'
  <2>1. UDPSocket_Close(s) /\ UNCHANGED <<pc, stack, style, suiteVars, owner>>
    BY <1>2 DEF Close
  <2>2. fd' = [fd EXCEPT ![s] = NoFd]
    BY <2>1 DEF UDPSocket_Close
  <2>3. \A t \in EventObjs : fd'[t] # NoFd => fd'[t] = fd[t]
    BY <1>1, <2>2 DEF UDPTypeOK
  <2>4. StillWaiting
    BY <1>1, <2>1, WaitsOn
  <2> QED
    BY <1>1, <2>1, <2>3, <2>4, SocketsStay
<1>3. ASSUME NEW f \in Fds, Arrive(f), UNCHANGED <<pc, stack, style, suiteVars, owner>> PROVE ReentryInv'
  <2>1. \A t \in EventObjs : fd'[t] # NoFd => fd'[t] = fd[t]
    BY <1>3 DEF Arrive
  <2>2. StillWaiting
    BY <1>1, <1>3, WaitsOn
  <2> QED
    BY <1>1, <1>3, <2>1, <2>2, SocketsStay
<1>4. ASSUME UNCHANGED <<udpVars, stack, style, suiteVars, owner>>, pc' \in {"running", "exited", "lost"}
      PROVE  ReentryInv'
  <2>1. \A t \in EventObjs : fd'[t] # NoFd => fd'[t] = fd[t]
    BY <1>4 DEF udpVars
  <2>2. StillWaiting
    BY <1>1, <1>4, WaitsOn
  <2> QED
    BY <1>4, <2>1, <2>2, SocketsStay
<1>5. CASE Astray
  BY <1>4, <1>5 DEF Astray
<1>6. CASE UNCHANGED vars
  BY <1>1, <1>4, <1>6 DEF vars
<1>7. ASSUME NEW s \in EventObjs, NEW f \in Fds, Send(s, f) PROVE ReentryInv'
  BY <1>3, <1>7 DEF Send, UDPSocket_Send
<1>8. ASSUME NEW f \in Fds, KernelArrives(f) PROVE ReentryInv'
  BY <1>3, <1>8 DEF KernelArrives
<1> QED
  BY <1>2, <1>5, <1>6, <1>7, <1>8
\* Without loops in callbacks, a batch is the innermost call, or what it calls is.
LEMMA NoBatch ==
  ASSUME TypeOK, Shaped(stack), BatchesSound, ~style.nests, Top.kind \notin {"select", "callback"}
  PROVE  \A i \in DOMAIN stack : stack[i].kind \notin {"select", "callback"}
<1> DEFINE n == Len(stack)
<1>1. n \in Nat /\ n >= 1 /\ DOMAIN stack = 1..n /\ Top = stack[n]
  BY StackFacts
<1>2. /\ stack[1].kind \notin {"callback", "test"}
      /\ \A i \in 1..n - 1 : stack[i + 1].kind = "callback" <=> stack[i].kind = "select"
  BY DEF Shaped
<1>3. \A i \in 1..n : stack[i].kind = "select" => i >= n - 1
  BY <1>1 DEF BatchesSound
<1> HIDE DEF n
<1>4. ASSUME NEW i \in 1..n PROVE stack[i].kind # "select"
  <2>1. CASE i = n
    BY <1>1, <2>1
  <2>2. CASE i = n - 1
    <3>1. i \in 1..n - 1 /\ i + 1 = n
      BY <1>1, <2>2
    <3> QED
      BY <1>1, <1>2, <3>1
  <2> QED
    BY <1>1, <1>3, <2>1, <2>2
<1>5. ASSUME NEW i \in 1..n PROVE stack[i].kind # "callback"
  <2>1. CASE i = 1
    BY <1>2, <2>1
  <2>2. CASE i > 1
    <3>1. i - 1 \in 1..n - 1 /\ i - 1 \in 1..n /\ (i - 1) + 1 = i
      BY <1>1, <2>2
    <3> QED
      BY <1>2, <1>4, <3>1
  <2> QED
    BY <1>1, <2>1, <2>2
<1> QED
  BY <1>1, <1>4, <1>5

\* Before the first test, nothing is done for one, and no run() calls one.
LEMMA BeforeTests ==
  ASSUME TypeOK, Shaped(stack), SuiteSound, CallsOfTests, current = Main, Top.kind # "run"
  PROVE  \A i \in 1..Len(stack) : stack[i].unit = Main /\ stack[i].kind # "run"
<1>1. /\ Len(stack) \in Nat /\ DOMAIN stack = 1..Len(stack) /\ Top = stack[Len(stack)]
      /\ \A i \in 1..Len(stack) : stack[i] \in Frame
  BY StackFacts
<1>2. \A t \in Tests : ~Begun(t)
  BY DEF SuiteSound
<1>3. ASSUME NEW i \in 1..Len(stack) PROVE stack[i].unit = Main
  <2>1. stack[i].unit \in Tests \cup {Main}
    BY <1>1 DEF Frame
  <2>2. stack[i].unit \notin Tests
    BY <1>1, <1>2 DEF CallsOfTests
  <2> QED
    BY <2>1, <2>2
<1>4. ASSUME NEW i \in 1..Len(stack), stack[i].kind = "run" PROVE FALSE
  <2>1. i < Len(stack)
    BY <1>1, <1>4
  <2>2. stack[i].at \in DOMAIN cases /\ cases[stack[i].at] = current
    BY <1>1, <1>4, <2>1 DEF CallsOfTests, Progress
  <2>3. current \in Tests
    BY <2>2 DEF TypeOK
  <2> QED
    BY <2>3, MainAssumption
<1> QED
  BY <1>3, <1>4

\* A loop, an included file, a batch or run() is called.
LEMMA PushKeeps ==
  ASSUME ReentryInv, UDPInv', UNCHANGED <<udpVars, pc, style, suiteVars, owner>>,
         NEW f \in Frame, Push(f),
         f.kind \in {"body", "loop", "select", "run"}, Top.kind \notin {"run", "select"},
         OfUnit(f.unit),
         ~style.nests => Top.kind # "callback",
         f.kind = "run" => f.at = 1 /\ f.unit = Main /\ current = Main,
         f.kind = "select" => /\ \A c \in f.batch : Waiting(c.obj)
                              /\ \A c, d \in f.batch : c.obj = d.obj => c = d
  PROVE  ReentryInv'
<1> DEFINE n == Len(stack)
<1>1. TypeOK /\ Shaped(stack) /\ BatchesSound /\ SuiteSound /\ CallsOfTests
  BY DEF ReentryInv
<1>2. /\ stack \in Seq(Frame) /\ n \in Nat /\ n >= 1 /\ DOMAIN stack = 1..n /\ Top = stack[n]
      /\ stack' = Append(stack, f)
  BY <1>1, StackFacts DEF Push
<1>3. /\ stack' \in Seq(Frame) /\ Len(stack') = n + 1 /\ DOMAIN stack' = 1..n + 1
      /\ stack'[n + 1] = f /\ \A i \in 1..n : stack'[i] = stack[i]
  BY <1>2, Pushed
<1>4. TypeOK'
  BY <1>1, <1>3 DEF TypeOK, UDPInv, suiteVars
<1>5. f.kind = "run" => /\ f.unit = Main
                        /\ \A i \in 1..Len(stack) : stack[i].unit = Main /\ stack[i].kind # "run"
  BY <1>1, BeforeTests
<1>6. Shaped(stack')
  <2>1. f.kind = "callback" <=> stack[Len(stack)].kind = "select"
    BY <1>2
  <2>2. f.kind = "test" <=> stack[Len(stack)].kind = "run"
    BY <1>2
  <2> QED
    BY <1>1, <1>2, <1>5, <2>1, <2>2, PushShapes
<1> HIDE DEF n
<1>7. \A i \in 1..n + 1 : i \in 1..n \/ i = n + 1
  BY <1>2
<1>8. BatchesSound'
  <2>1. SUFFICES ASSUME ~style'.nests, NEW i \in DOMAIN stack'
                 PROVE  /\ stack'[i].kind = "select" =>
                             /\ i >= Len(stack') - 1
                             /\ \A c \in stack'[i].batch : Waiting(c.obj)'
                             /\ \A c, d \in stack'[i].batch : c.obj = d.obj => c = d
                        /\ stack'[i].kind = "callback" => stack'[i].data # << >>
    BY DEF BatchesSound
  <2>2. \A j \in 1..n : stack[j].kind \notin {"select", "callback"}
    BY <1>1, <1>2, <2>1, NoBatch
  <2>3. CASE i \in 1..n
    BY <1>3, <2>2, <2>3
  <2>4. CASE i = n + 1
    <3>1. \A o : Waiting(o) => Waiting(o)'
      BY DEF Waiting, udpVars
    <3> QED
      BY <1>2, <1>3, <2>4, <3>1
  <2> QED
    BY <1>3, <1>7, <2>3, <2>4
<1>9. Quiet
  <2>1. \A i \in DOMAIN stack' : OfUnit(stack'[i].unit)
    BY <1>2, <1>3, <1>7, UnitsOf
  <2>2. \A s \in EventObjs : fd'[s] # NoFd => OfUnit(owner'[s])
    BY UnitsOf DEF udpVars
  <2>3. ASSUME NEW i \in DOMAIN stack', stack'[i].kind = "run"
        PROVE  \/ stack'[i].at = 1 /\ i = Len(stack') /\ current = Main
               \/ /\ i \in DOMAIN stack /\ stack[i].kind = "run" /\ stack'[i].at = stack[i].at
                  /\ i < Len(stack') <=> i < Len(stack)
    <3>1. CASE i \in 1..n
      <4>1. i # n
        BY <1>2, <1>3, <2>3, <3>1
      <4>2. i < n /\ i < n + 1
        BY <1>2, <3>1, <4>1
      <4> QED
        BY <1>2, <1>3, <2>3, <3>1, <4>2 DEF n
    <3>2. CASE i = n + 1
      BY <1>3, <2>3, <3>2
    <3> QED
      BY <1>3, <1>7, <3>1, <3>2
  <2>4. ASSUME NEW i \in DOMAIN stack', stack'[i].kind = "test"
        PROVE  i \in DOMAIN stack /\ stack[i].kind = "test" /\ stack'[i].unit = stack[i].unit
    BY <1>2, <1>3, <1>7, <2>4
  <2>5. Active("test") => Active("test")'
    <3>1. \A i \in 1..n : i \in 1..n + 1
      BY <1>2
    <3> QED
      BY <1>2, <1>3, <3>1 DEF Active
  <2> QED
    BY <2>1, <2>2, <2>3, <2>4, <2>5 DEF Quiet
<1> QED
  BY <1>1, <1>4, <1>6, <1>8, <1>9, QuietKeeps DEF ReentryInv
\* Where a script may start a loop, onData is not the innermost call, or loops
\* in callbacks are allowed.
LEMMA MayNestFacts ==
  ASSUME TypeOK, Shaped(stack), MayNest, ~style.nests
  PROVE  Top.kind # "callback"
<1> DEFINE n == Len(stack)
<1>1. n \in Nat /\ n >= 1 /\ DOMAIN stack = 1..n /\ Top = stack[n]
  BY StackFacts
<1>2. \A i \in 1..n : stack[i].kind # "select"
  BY <1>1 DEF MayNest, Active
<1>3. /\ stack[1].kind \notin {"callback", "test"}
      /\ \A i \in 1..n - 1 : stack[i + 1].kind = "callback" <=> stack[i].kind = "select"
  BY DEF Shaped
<1> HIDE DEF n
<1>4. CASE n = 1
  BY <1>1, <1>3, <1>4
<1>5. CASE n > 1
  <2>1. n - 1 \in 1..n - 1 /\ n - 1 \in 1..n /\ (n - 1) + 1 = n
    BY <1>1, <1>5
  <2> QED
    BY <1>1, <1>2, <1>3, <2>1
<1> QED
  BY <1>1, <1>4, <1>5

\* include(), events() and run().
LEMMA ScriptCallsKeep ==
  ASSUME ReentryInv, UDPInv', System_Include \/ JSUnit_Events \/ JSUnit_Run
  PROVE  ReentryInv'
<1>1. TypeOK /\ Shaped(stack)
  BY DEF ReentryInv
<1>2. ~style.nests => Top.kind # "callback"
  BY <1>1, MayNestFacts DEF System_Include, JSUnit_Events, JSUnit_Run
<1>3. Top.unit \in Tests \cup {Main} /\ OfUnit(Top.unit)
  <2>1. Top \in Frame /\ \E i \in DOMAIN stack : Top = stack[i]
    BY <1>1, StackFacts
  <2> QED
    BY <2>1, UnitsOf DEF Frame
<1>4. ASSUME NEW k \in {"body", "loop"}, Push(Called(k, Top.unit)), ScriptRuns,
             UNCHANGED <<udpVars, pc, style, suiteVars, owner>>
      PROVE  ReentryInv'
  <2> DEFINE f == Called(k, Top.unit)
  <2>1. f \in Frame /\ f.kind = k /\ f.unit = Top.unit
    BY <1>3, CalledFacts DEF Kinds
  <2>2. Top.kind \notin {"run", "select"}
    BY <1>4 DEF ScriptRuns, In
  <2>3. Push(f)
    BY <1>4
  <2> HIDE DEF f
  <2> QED
    BY <1>2, <1>3, <1>4, <2>1, <2>2, <2>3, PushKeeps
<1>5. CASE JSUnit_Run
  <2> DEFINE f == [Called("run", Main) EXCEPT !.at = 1]
  <2>1. f \in Frame /\ f.kind = "run" /\ f.unit = Main /\ f.at = 1
    <3> DEFINE g == Called("run", Main)
    <3>1. g \in Frame /\ g.kind = "run" /\ g.unit = Main /\ 1 \in Nat
      BY CalledFacts DEF Kinds
    <3>2. f = [g EXCEPT !.at = 1]
      OBVIOUS
    <3> HIDE DEF f, g
    <3> QED
      BY <3>1, <3>2, ChangedFacts
  <2>2. Top.kind \notin {"run", "select"} /\ current = Main
    BY <1>5 DEF JSUnit_Run, In
  <2>3. Push(f) /\ UNCHANGED <<udpVars, pc, style, suiteVars, owner>>
    BY <1>5 DEF JSUnit_Run
  <2>4. OfUnit(f.unit)
    BY <2>1 DEF OfUnit
  <2> HIDE DEF f
  <2> QED
    BY <1>2, <2>1, <2>2, <2>3, <2>4, PushKeeps
<1> QED
  BY <1>4, <1>5 DEF System_Include, JSUnit_Events

\* A batch is of copies of different sockets' events, each of which has data.
LEMMA SelectKeeps == ASSUME ReentryInv, UDPInv', Select PROVE ReentryInv'
<1> DEFINE b == Copies(events, Ready, "func")
           f == [Called("select", Main) EXCEPT !.batch = b]
<1>1. Ready \subseteq DOMAIN events /\ \A i \in Ready : queue[events[i].fd] # << >>
  BY DEF Ready
<1>2. DOMAIN events \subseteq Nat /\ UDPInv
  BY DEF ReentryInv, TypeOK, UDPTypeOK
<1>3. \A i \in DOMAIN events : /\ events[i].obj \in EventObjs
                               /\ events[i].obj \in udp
                               /\ fd[events[i].obj] = events[i].fd
  BY <1>2, Exclusively DEF Event
<1>4. Unique(events)
  BY <1>2, Exclusively
<1>5. \A c \in b : \E i \in Ready : c = [pos |-> i, obj |-> events[i].obj, how |-> "func"]
  BY DEF Copies
<1> HIDE DEF b
<1>6. b \in SUBSET Copy
  BY <1>1, <1>2, <1>3, <1>5 DEF Copy
<1>7. \A c \in b : Waiting(c.obj)
  BY <1>1, <1>3, <1>5 DEF Waiting
<1>8. ASSUME NEW c \in b, NEW d \in b, c.obj = d.obj PROVE c = d
  <2>1. PICK i \in Ready : c = [pos |-> i, obj |-> events[i].obj, how |-> "func"]
    BY <1>5
  <2>2. PICK j \in Ready : d = [pos |-> j, obj |-> events[j].obj, how |-> "func"]
    BY <1>5
  <2>3. events[i].fd = events[j].fd
    BY <1>1, <1>3, <1>8, <2>1, <2>2
  <2>4. i = j
    BY <1>1, <1>4, <2>3 DEF Unique
  <2> QED
    BY <2>1, <2>2, <2>4
<1>9. f \in Frame /\ f.kind = "select" /\ f.unit = Main /\ f.batch = b
  <2> DEFINE g == Called("select", Main)
  <2>1. g \in Frame /\ g.kind = "select" /\ g.unit = Main
    BY CalledFacts DEF Kinds
  <2>2. f = [g EXCEPT !.batch = b]
    OBVIOUS
  <2> HIDE DEF f, g
  <2> QED
    BY <1>6, <2>1, <2>2, ChangedFacts
<1>10. Push(f) /\ UNCHANGED <<udpVars, pc, style, suiteVars, owner>>
  BY DEF Select, b
<1>11. Top.kind \notin {"run", "select", "callback"}
  BY DEF Select, InLoop, In
<1>12. OfUnit(f.unit)
  BY <1>9 DEF OfUnit
<1> HIDE DEF f
<1> QED
  BY <1>7, <1>8, <1>9, <1>10, <1>11, <1>12, PushKeeps

\* A call returns that is not a test.
LEMMA PopKeeps ==
  ASSUME ReentryInv, UDPInv', Pop, UNCHANGED <<udpVars, style, suiteVars, owner>>, Top.kind # "test"
  PROVE  ReentryInv'
<1> DEFINE n == Len(stack)
<1>1. TypeOK /\ Shaped(stack) /\ BatchesSound /\ SuiteSound /\ CallsOfTests
  BY DEF ReentryInv
<1>2. /\ stack \in Seq(Frame) /\ n \in Nat /\ n >= 1 /\ DOMAIN stack = 1..n /\ Top = stack[n]
  BY <1>1, StackFacts
<1>3. \A i \in 1..n - 1 : /\ stack[i + 1].kind = "callback" <=> stack[i].kind = "select"
                          /\ stack[i + 1].kind = "test" <=> stack[i].kind = "run"
  BY <1>1 DEF Shaped
<1>4. CASE n = 1
  <2>1. pc' = "exited" /\ UNCHANGED stack
    BY <1>4 DEF Pop
  <2>2. StillWaiting
    BY WaitsOn DEF ReentryInv
  <2>3. \A s \in EventObjs : fd'[s] # NoFd => fd'[s] = fd[s]
    BY DEF udpVars
  <2> QED
    BY <2>1, <2>2, <2>3, SocketsStay
<1>5. CASE n > 1
  <2>1. stack' = Front(stack) /\ pc' = pc
    BY <1>2, <1>5 DEF Pop
  <2>2. /\ stack' \in Seq(Frame) /\ Len(stack') = n - 1 /\ DOMAIN stack' = 1..n - 1
        /\ \A i \in 1..n - 1 : stack'[i] = stack[i]
    <3>1. /\ stack' \in Seq(Frame) /\ Len(stack') = n - 1
          /\ \A i \in 1..n - 1 : stack'[i] = stack[i]
      BY <1>2, <1>5, <2>1, Popped, Zenon
    <3>2. DOMAIN stack' = 1..Len(stack')
      BY <3>1
    <3> QED
      BY <3>1, <3>2
  <2>3. TypeOK'
    BY <1>1, <2>1, <2>2 DEF TypeOK, UDPInv, suiteVars
  <2>4. Shaped(stack')
    BY <1>1, <1>2, <1>5, <2>2, PartShapes
  <2> HIDE DEF n
  <2>5. \A i \in 1..n - 1 : i \in 1..n /\ i # n
    BY <1>2
  <2>6. BatchesSound'
    <3>1. SUFFICES ASSUME ~style.nests, NEW i \in 1..n - 1
                   PROVE  /\ stack[i].kind = "select" =>
                               /\ i >= (n - 1) - 1
                               /\ \A c \in stack[i].batch : Waiting(c.obj)'
                               /\ \A c, d \in stack[i].batch : c.obj = d.obj => c = d
                          /\ stack[i].kind = "callback" => stack[i].data # << >>
      BY <2>2 DEF BatchesSound
    <3>2. /\ stack[i].kind = "select" =>
               /\ i >= n - 1
               /\ \A c \in stack[i].batch : Waiting(c.obj)
               /\ \A c, d \in stack[i].batch : c.obj = d.obj => c = d
          /\ stack[i].kind = "callback" => stack[i].data # << >>
      BY <1>1, <1>2, <2>5, <3>1, Zenon DEF BatchesSound, n
    <3>3. \A o : Waiting(o) => Waiting(o)'
      BY DEF Waiting, udpVars
    <3>4. i >= n - 1 => i >= (n - 1) - 1
      BY <1>2
    <3> QED
      BY <3>2, <3>3, <3>4
  <2>7. Quiet
    <3>1. \A i \in DOMAIN stack' : OfUnit(stack'[i].unit)
      BY <1>2, <2>2, <2>5, UnitsOf
    <3>2. \A s \in EventObjs : fd'[s] # NoFd => OfUnit(owner'[s])
      BY UnitsOf DEF udpVars
    <3>3. ASSUME NEW i \in DOMAIN stack', stack'[i].kind = "run"
          PROVE  /\ i \in DOMAIN stack /\ stack[i].kind = "run" /\ stack'[i].at = stack[i].at
                 /\ i < Len(stack') <=> i < Len(stack)
      <4>1. i \in 1..n - 1 /\ stack[i].kind = "run"
        BY <2>2, <3>3
      <4>2. stack[i + 1].kind = "test"
        BY <1>3, <4>1 DEF n
      <4>3. i + 1 # n
        BY <1>2, <4>2
      <4>4. i < n - 1 /\ i < n
        BY <1>2, <4>1, <4>3
      <4> QED
        BY <1>2, <2>2, <2>5, <4>1, <4>4, Zenon DEF n
    <3>4. ASSUME NEW i \in DOMAIN stack', stack'[i].kind = "test"
          PROVE  i \in DOMAIN stack /\ stack[i].kind = "test" /\ stack'[i].unit = stack[i].unit
      BY <1>2, <2>2, <2>5, <3>4
    <3>5. Active("test") => Active("test")'
      <4>1. SUFFICES ASSUME NEW i \in 1..n, stack[i].kind = "test" PROVE Active("test")'
        BY <1>2 DEF Active
      <4>2. i # n
        BY <1>2, <4>1
      <4>3. i \in 1..n - 1
        BY <1>2, <4>2
      <4> QED
        BY <2>2, <4>1, <4>3 DEF Active
    <3> QED
      BY <3>1, <3>2, <3>3, <3>4, <3>5 DEF Quiet
  <2> QED
    BY <1>1, <2>3, <2>4, <2>6, <2>7, QuietKeeps DEF ReentryInv
<1> QED
  BY <1>2, <1>4, <1>5
\* The innermost call moves on: a script to its loop, a batch by one copy.
LEMMA ReplaceKeeps ==
  ASSUME ReentryInv, UDPInv', UNCHANGED <<udpVars, pc, style, suiteVars, owner>>,
         NEW f \in Frame, Replace(f), f.unit = Top.unit,
         \/ f.kind = "tail" /\ Top.kind = "body"
         \/ f.kind = "select" /\ Top.kind = "select" /\ f.batch \subseteq Top.batch
  PROVE  ReentryInv'
<1> DEFINE n == Len(stack)
<1>1. TypeOK /\ Shaped(stack) /\ BatchesSound /\ SuiteSound /\ CallsOfTests
  BY DEF ReentryInv
<1>2. /\ stack \in Seq(Frame) /\ n \in Nat /\ n >= 1 /\ DOMAIN stack = 1..n /\ Top = stack[n]
      /\ stack' = [stack EXCEPT ![n] = f]
  BY <1>1, StackFacts DEF Replace
<1>3. /\ stack' \in Seq(Frame) /\ Len(stack') = n /\ stack'[n] = f
      /\ \A i \in 1..n - 1 : stack'[i] = stack[i]
  <2>1. stack \in Seq(Frame) /\ n = Len(stack) /\ n >= 1 /\ stack' = [stack EXCEPT ![n] = f]
    BY <1>2
  <2> HIDE DEF n
  <2> QED
    BY ONLY <2>1, f \in Frame, Replaced
<1>4. DOMAIN stack' = 1..n
  BY <1>3
<1>5. TypeOK'
  BY <1>1, <1>3 DEF TypeOK, UDPInv, suiteVars
<1> HIDE DEF n
<1>6. \A i \in 1..n : i \in 1..n - 1 \/ i = n
  BY <1>2
<1>7. \A i \in 1..n : stack'[i].unit = stack[i].unit
  BY <1>2, <1>3, <1>6
<1>8. \A i \in 1..n : \/ stack'[i].kind = stack[i].kind
                      \/ /\ i = n /\ stack'[i].kind = "tail" /\ stack[i].kind = "body"
  BY <1>2, <1>3, <1>6
<1>9. Shaped(stack')
  <2>1. \A i \in 1..n : \/ stack'[i].kind = stack[i].kind
                        \/ /\ i = n
                           /\ {stack'[i].kind, stack[i].kind} \cap {"callback", "test", "run"} = {}
    BY <1>8
  <2>2. 1 <= n /\ n <= n
    BY <1>2
  <2> QED
    BY <1>1, <1>2, <1>3, <1>7, <2>1, <2>2, PartShapes, Zenon DEF n
<1>10. BatchesSound'
  <2>1. SUFFICES ASSUME ~style.nests, NEW i \in 1..n
                 PROVE  /\ stack'[i].kind = "select" =>
                             /\ i >= n - 1
                             /\ \A c \in stack'[i].batch : Waiting(c.obj)'
                             /\ \A c, d \in stack'[i].batch : c.obj = d.obj => c = d
                        /\ stack'[i].kind = "callback" => stack'[i].data # << >>
    BY <1>3, <1>4 DEF BatchesSound
  <2>2. /\ stack[i].kind = "select" =>
             /\ i >= n - 1
             /\ \A c \in stack[i].batch : Waiting(c.obj)
             /\ \A c, d \in stack[i].batch : c.obj = d.obj => c = d
        /\ stack[i].kind = "callback" => stack[i].data # << >>
    BY <1>1, <1>2, <2>1 DEF BatchesSound, n
  <2>3. \A o : Waiting(o) => Waiting(o)'
    BY DEF Waiting, udpVars
  <2>4. CASE i = n
    BY <1>2, <1>3, <2>2, <2>3, <2>4
  <2>5. CASE i \in 1..n - 1
    <3>1. stack'[i] = stack[i]
      BY <1>3, <2>5
    <3> QED
      BY ONLY <2>2, <2>3, <3>1
  <2> QED
    BY <1>6, <2>4, <2>5
<1>11. Quiet
  <2>1. \A i \in DOMAIN stack' : OfUnit(stack'[i].unit)
    BY <1>2, <1>4, <1>7, UnitsOf
  <2>2. \A s \in EventObjs : fd'[s] # NoFd => OfUnit(owner'[s])
    BY UnitsOf DEF udpVars
  <2>3. \A i \in 1..n : stack'[i].kind = "run" => stack[i].kind = "run" /\ stack'[i].at = stack[i].at
    BY <1>2, <1>3, <1>6
  <2>4. \A i \in 1..n : stack'[i].kind = "test" <=> stack[i].kind = "test"
    BY <1>8
  <2>5. Active("test") => Active("test")'
    BY <1>2, <1>4, <2>4 DEF Active
  <2> QED
    BY <1>2, <1>3, <1>4, <1>7, <2>1, <2>2, <2>3, <2>4, <2>5, Zenon DEF Quiet, n
<1> QED
  BY <1>1, <1>5, <1>9, <1>10, <1>11, QuietKeeps DEF ReentryInv

\* A script that has run goes on to handle events.
LEMMA ScriptReturnsKeeps == ASSUME ReentryInv, UDPInv', ScriptReturns PROVE ReentryInv'
<1>1. Top \in Frame
  BY StackFacts DEF ReentryInv
<1> DEFINE f == [Top EXCEPT !.kind = "tail"]
<1>2. f \in Frame /\ f.kind = "tail" /\ f.unit = Top.unit
  <2>1. "tail" \in Kinds
    BY DEF Kinds
  <2> QED
    BY <1>1, <2>1, ChangedFacts
<1>3. Replace(f) /\ Top.kind = "body" /\ UNCHANGED <<udpVars, pc, style, suiteVars, owner>>
  BY DEF ScriptReturns, In
<1> HIDE DEF f
<1> QED
  BY <1>2, <1>3, ReplaceKeeps

\* The batch without one of its copies.
LEMMA WithoutFacts ==
  ASSUME TypeOK, Shaped(stack), NEW c
  PROVE  /\ Without(c) \in Frame /\ Without(c).kind = Top.kind /\ Without(c).unit = Top.unit
         /\ Without(c).batch = Top.batch \ {c}
<1>1. Top \in Frame /\ Top.batch \in SUBSET Copy
  BY StackFacts DEF Frame
<1> DEFINE b == Top.batch \ {c}
<1>2. b \in SUBSET Copy
  BY <1>1
<1>3. Without(c) = [Top EXCEPT !.batch = b]
  BY DEF Without
<1> HIDE DEF b
<1>4. Without(c).batch = b /\ Without(c) \in Frame /\ Without(c).kind = Top.kind /\ Without(c).unit = Top.unit
  <2>1. /\ [Top EXCEPT !.batch = b] \in Frame /\ [Top EXCEPT !.batch = b].batch = b
        /\ [Top EXCEPT !.batch = b].kind = Top.kind /\ [Top EXCEPT !.batch = b].unit = Top.unit
    BY <1>1, <1>2, ChangedFacts
  <2> QED
    BY <1>3, <2>1
<1> QED
  BY <1>4 DEF b

\* onData is called with what has waited at its socket; other copies' sockets
\* still wait, and this one's has no other copy.
LEMMA ReceivedKeeps ==
  ASSUME ReentryInv, UDPInv', NEW c \in Top.batch, In("select"), Receive(c.obj),
         stack' = Append([stack EXCEPT ![Len(stack)] = Without(c)],
                         [Called("callback", owner[c.obj]) EXCEPT !.data = Received(c.obj)]),
         UNCHANGED <<pc, style, suiteVars, owner>>
  PROVE  ReentryInv'
<1> DEFINE n == Len(stack)
           w == Without(c)
           r == [stack EXCEPT ![n] = w]
           f == [Called("callback", owner[c.obj]) EXCEPT !.data = Received(c.obj)]
<1>1. /\ TypeOK /\ Shaped(stack) /\ BatchesSound /\ SuiteSound /\ CallsOfTests
      /\ UDPTypeOK /\ UDPInv
  BY DEF ReentryInv, TypeOK
<1>2. /\ stack \in Seq(Frame) /\ n \in Nat /\ n >= 1 /\ DOMAIN stack = 1..n /\ Top = stack[n]
      /\ Top.kind = "select" /\ stack' = Append(r, f)
  BY <1>1, StackFacts DEF In
<1>3. w \in Frame /\ w.kind = "select" /\ w.unit = Top.unit /\ w.batch = Top.batch \ {c}
  BY <1>1, <1>2, WithoutFacts
<1>4. c.obj \in udp /\ fd[c.obj] # NoFd /\ c.obj \in EventObjs /\ fd[c.obj] \in Fds
  BY <1>1, Exclusively DEF Receive, UDPTypeOK
<1>5. f \in Frame /\ f.kind = "callback" /\ f.unit = owner[c.obj] /\ f.data = queue[fd[c.obj]]
  <2> DEFINE g == Called("callback", owner[c.obj])
  <2>1. owner[c.obj] \in Tests \cup {Main} /\ Received(c.obj) \in Seq(1..MaxSent)
    BY <1>1, <1>4 DEF TypeOK, UDPTypeOK, Received
  <2>2. g \in Frame /\ g.kind = "callback" /\ g.unit = owner[c.obj]
    BY <2>1, CalledFacts DEF Kinds
  <2>3. f = [g EXCEPT !.data = Received(c.obj)]
    OBVIOUS
  <2> HIDE DEF f, g
  <2> QED
    BY <2>1, <2>2, <2>3, ChangedFacts DEF Received
<1> HIDE DEF f, w
<1>6. /\ r \in Seq(Frame) /\ Len(r) = n /\ r[n] = w /\ \A i \in 1..n - 1 : r[i] = stack[i]
  <2>1. stack \in Seq(Frame) /\ n = Len(stack) /\ n >= 1 /\ r = [stack EXCEPT ![n] = w]
    BY <1>2
  <2> HIDE DEF n, r
  <2> QED
    BY ONLY <1>3, <2>1, Replaced
<1> HIDE DEF r
<1>7. /\ stack' \in Seq(Frame) /\ Len(stack') = n + 1
      /\ stack'[n + 1] = f /\ \A i \in 1..n : stack'[i] = r[i]
  <2>1. LET p == Append(r, f) IN
          /\ p \in Seq(Frame) /\ Len(p) = Len(r) + 1
          /\ p[Len(r) + 1] = f
          /\ \A i \in 1..Len(r) : p[i] = r[i]
    BY <1>5, <1>6, Pushed
  <2> QED
    BY <1>2, <1>6, <2>1, Zenon
<1>8. DOMAIN stack' = 1..n + 1
  BY <1>7
<1>9. TypeOK'
  BY <1>1, <1>7 DEF TypeOK, UDPInv, suiteVars
<1>10. Shaped(stack')
  <2>1. \A i \in 1..n : r[i].unit = stack[i].unit /\ r[i].kind = stack[i].kind
    <3>1. n \in Nat /\ n >= 1
      BY <1>2
    <3> HIDE DEF n
    <3>2. \A i \in 1..n : i \in 1..n - 1 \/ i = n
      BY <3>1
    <3> QED
      BY <1>2, <1>3, <1>6, <3>2
  <2>2. Shaped(r)
    BY <1>1, <1>2, <1>6, <2>1, PartShapes
  <2>3. f.kind = "callback" <=> r[Len(r)].kind = "select"
    BY <1>3, <1>5, <1>6
  <2>4. f.kind = "test" <=> r[Len(r)].kind = "run"
    BY <1>3, <1>5, <1>6
  <2> QED
    BY <1>2, <1>5, <1>6, <2>2, <2>3, <2>4, PushShapes
<1> HIDE DEF n
<1>11. \A i \in 1..n + 1 : i \in 1..n - 1 \/ i = n \/ i = n + 1
  BY <1>2
<1>12. /\ \A i \in 1..n - 1 : stack'[i] = stack[i]
       /\ stack'[n] = w
  <2>1. n \in 1..n /\ \A i \in 1..n - 1 : i \in 1..n
    BY <1>2
  <2> QED
    BY <1>6, <1>7, <2>1
<1>13. \A i \in 1..n - 1 : i \in 1..n
  BY <1>2
<1>14. ASSUME NEW o \in EventObjs, o # c.obj, Waiting(o) PROVE Waiting(o)'
  <2>1. udp' = udp /\ fd' = fd /\ queue' = [queue EXCEPT ![fd[c.obj]] = << >>]
    BY DEF Receive, Emptied
  <2>2. fd[o] # NoFd => fd[o] # fd[c.obj] /\ fd[o] \in Fds
    BY <1>1, <1>4, <1>14, Exclusively
  <2> QED
    BY <1>1, <1>14, <2>1, <2>2 DEF Waiting, UDPTypeOK
<1>15. BatchesSound'
  <2>1. SUFFICES ASSUME ~style.nests, NEW i \in 1..n + 1
                 PROVE  /\ stack'[i].kind = "select" =>
                             /\ i >= (n + 1) - 1
                             /\ \A e \in stack'[i].batch : Waiting(e.obj)'
                             /\ \A e, d \in stack'[i].batch : e.obj = d.obj => e = d
                        /\ stack'[i].kind = "callback" => stack'[i].data # << >>
    BY <1>7, <1>8 DEF BatchesSound
  <2>2. \A j \in 1..n :
          /\ stack[j].kind = "select" =>
               /\ j >= n - 1
               /\ \A e \in stack[j].batch : Waiting(e.obj)
               /\ \A e, d \in stack[j].batch : e.obj = d.obj => e = d
          /\ stack[j].kind = "callback" => stack[j].data # << >>
    BY <1>1, <1>2, <2>1 DEF BatchesSound, n
  <2>3. \A j \in 1..n - 1 : /\ stack[j + 1].kind = "callback" <=> stack[j].kind = "select"
    BY <1>1 DEF Shaped, n
  <2>4. CASE i \in 1..n - 1
    <3>1. stack[i].kind # "select"
      <4>1. SUFFICES ASSUME stack[i].kind = "select" PROVE FALSE
        OBVIOUS
      <4>2. i + 1 = n
        BY <1>2, <1>13, <2>2, <2>4, <4>1
      <4> QED
        BY <1>2, <2>3, <2>4, <4>1, <4>2
    <3> QED
      BY <1>12, <1>13, <2>2, <2>4, <3>1
  <2>5. CASE i = n
    <3>1. n \in 1..n /\ n >= (n + 1) - 1
      BY <1>2
    <3>2. \A e \in Top.batch : Waiting(e.obj)
      BY <1>2, <2>2, <3>1
    <3>3. \A e, d \in Top.batch : e.obj = d.obj => e = d
      BY <1>2, <2>2, <3>1
    <3>4. \A e \in w.batch : e \in Top.batch /\ e # c
      BY <1>3
    <3>5. \A e \in w.batch : Waiting(e.obj)'
      <4>1. ASSUME NEW e \in w.batch PROVE Waiting(e.obj)'
        <5>1. e.obj # c.obj /\ Waiting(e.obj)
          BY <3>2, <3>3, <3>4
        <5>2. e.obj \in EventObjs
          BY <1>1, <5>1 DEF Waiting, UDPTypeOK
        <5> QED
          BY <1>14, <5>1, <5>2
      <4> QED
        BY <4>1
    <3>6. \A e, d \in w.batch : e.obj = d.obj => e = d
      BY <3>3, <3>4
    <3> QED
      BY <1>3, <1>12, <2>5, <3>1, <3>5, <3>6, Zenon
  <2>6. CASE i = n + 1
    <3>1. queue[fd[c.obj]] # << >>
      <4>1. n \in 1..n
        BY <1>2
      <4> QED
        BY <1>2, <1>4, <2>2, <4>1 DEF Waiting
    <3> QED
      BY <1>5, <1>7, <2>6, <3>1
  <2> QED
    BY <1>11, <2>4, <2>5, <2>6
<1>16. Quiet
  <2>1. \A i \in DOMAIN stack' : OfUnit(stack'[i].unit)
    <3>1. OfUnit(owner[c.obj]) /\ \A i \in 1..n : OfUnit(stack[i].unit)
      BY <1>2, <1>4, UnitsOf DEF n
    <3>2. n \in 1..n
      BY <1>2
    <3> QED
      BY <1>2, <1>3, <1>5, <1>7, <1>8, <1>11, <1>12, <1>13, <3>1, <3>2
  <2>2. \A s \in EventObjs : fd'[s] # NoFd => OfUnit(owner'[s])
    BY UnitsOf DEF Receive
  <2>3. \A i \in 1..n + 1 : stack'[i].kind \in {"run", "test"} => i \in 1..n - 1
    BY <1>3, <1>5, <1>7, <1>11, <1>12
  <2>4. ASSUME NEW i \in DOMAIN stack', stack'[i].kind = "run"
        PROVE  /\ i \in DOMAIN stack /\ stack[i].kind = "run" /\ stack'[i].at = stack[i].at
               /\ i < Len(stack') <=> i < Len(stack)
    <3>1. i \in 1..n - 1
      BY <1>8, <2>3, <2>4
    <3>2. i < n /\ i < n + 1
      BY <1>2, <3>1
    <3> QED
      BY <1>2, <1>7, <1>12, <1>13, <2>4, <3>1, <3>2, Zenon DEF n
  <2>5. ASSUME NEW i \in DOMAIN stack', stack'[i].kind = "test"
        PROVE  i \in DOMAIN stack /\ stack[i].kind = "test" /\ stack'[i].unit = stack[i].unit
    <3>1. i \in 1..n - 1
      BY <1>8, <2>3, <2>5
    <3> QED
      BY <1>2, <1>12, <1>13, <2>5, <3>1
  <2>6. Active("test") => Active("test")'
    <3>1. SUFFICES ASSUME NEW i \in 1..n, stack[i].kind = "test" PROVE Active("test")'
      BY <1>2 DEF Active
    <3>2. i \in 1..n - 1 /\ i \in 1..n + 1
      BY <1>2, <3>1
    <3> QED
      BY <1>8, <1>12, <3>1, <3>2 DEF Active
  <2> QED
    BY <2>1, <2>2, <2>4, <2>5, <2>6 DEF Quiet
<1> QED
  BY <1>1, <1>9, <1>10, <1>15, <1>16, QuietKeeps DEF ReentryInv
-----------------------------------------------------------------------------
(* Steps of the suite.                                                     *)

\* Where a script runs, or a test, no run() is the innermost call.
LEMMA ScriptOnTop == ScriptRuns => Top.kind \notin {"run", "select"}
  BY DEF ScriptRuns, In

\* A case that is added is the last one, and a run() that is at work will come to it.
LEMMA AddKeeps == ASSUME ReentryInv, UDPInv', NEW t \in Tests, JSUnit_Add(t) PROVE ReentryInv'
<1> DEFINE m == Len(cases)
<1>1. /\ TypeOK /\ Shaped(stack) /\ BatchesSound /\ SuiteSound /\ CallsOfTests /\ cases \in Seq(Tests)
      /\ m \in Nat /\ DOMAIN cases = 1..m
  BY DEF ReentryInv, TypeOK
<1>2. /\ t \notin Range(cases) /\ cases' = Append(cases, t) /\ Top.kind # "run"
      /\ UNCHANGED <<udpVars, pc, stack, style, result, current, printed, broke, owner>>
  BY ScriptOnTop DEF JSUnit_Add
<1>3. /\ cases' \in Seq(Tests) /\ DOMAIN cases' = 1..m + 1
      /\ cases'[m + 1] = t /\ \A k \in 1..m : cases'[k] = cases[k]
  BY <1>1, <1>2
<1>4. TypeOK' /\ Shaped(stack')
  BY <1>1, <1>2, <1>3 DEF TypeOK, UDPInv
<1> HIDE DEF m
<1>5. BatchesSound'
  <2>1. \A o : Waiting(o) => Waiting(o)'
    BY <1>2 DEF Waiting, udpVars
  <2> QED
    BY <1>1, <1>2, <2>1 DEF BatchesSound
<1>6. \A k \in 1..m + 1 : k \in 1..m \/ k = m + 1
  BY <1>1
<1>7. ~Begun(t) /\ \A k \in 1..m : cases[k] # t
  BY <1>1, <1>2 DEF SuiteSound, Range
<1>8. SuiteSound'
  <2>1. \A k, j \in DOMAIN cases' : cases'[k] = cases'[j] => k = j
    BY <1>1, <1>3, <1>6, <1>7 DEF SuiteSound
  <2>2. \A k \in 1..m : k \in 1..m + 1
    BY <1>1
  <2>3. Range(cases) \subseteq Range(cases')
    BY <1>1, <1>3, <2>2 DEF Range
  <2>4. \A u \in Tests : u \notin Range(cases') => ~Begun(u)'
    BY <1>1, <1>2, <2>3 DEF SuiteSound, Begun
  <2>5. Active("test") => Active("test")'
    BY <1>2 DEF Active
  <2>6. \A u \in Tests : ~Begun(u)' => ~Reported(u)' /\ u \notin broke'
    BY <1>1, <1>2 DEF SuiteSound, Begun, Reported
  <2>7. \A u \in Tests : Begun(u)' /\ ~Reported(u)' => u = current' /\ Active("test")'
    BY <1>1, <1>2, <2>5 DEF SuiteSound, Begun, Reported
  <2>8. IF current' = Main THEN \A u \in Tests : ~Begun(u)' ELSE Begun(current)'
    BY <1>1, <1>2 DEF SuiteSound, Begun
  <2>9. \A u \in broke' : ~Reported(u)' => result'[u] = "FAIL"
    BY <1>1, <1>2 DEF SuiteSound, Reported
  <2> QED
    BY <2>1, <2>4, <2>6, <2>7, <2>8, <2>9 DEF SuiteSound
<1>9. CallsOfTests'
  <2>1. ASSUME NEW i \in DOMAIN stack, stack[i].kind = "run" PROVE Progress(i)'
    <3>1. i \in Nat /\ i < Len(stack)
      BY <1>1, <1>2, <2>1, StackFacts
    <3>2. Progress(i) /\ stack[i].at \in 1..m /\ cases[stack[i].at] = current
      BY <1>1, <2>1, <3>1 DEF CallsOfTests, Progress
    <3>3. stack[i].at \in 1..m + 1 /\ m + 1 > stack[i].at /\ ~(m + 1 < stack[i].at) /\ m + 1 # stack[i].at
      BY <1>1, <3>2
    <3>4. \A k \in 1..m + 1 :
            /\ k < stack[i].at => Begun(cases'[k]) /\ Reported(cases'[k])
            /\ k > stack[i].at => ~Begun(cases'[k])
            /\ k = stack[i].at => (Begun(cases'[k]) <=> i < Len(stack))
      BY <1>1, <1>3, <1>6, <1>7, <3>2, <3>3 DEF Progress
    <3>5. cases'[stack[i].at] = current
      BY <1>3, <3>2
    <3>6. stack[i].at >= 1
      BY <3>2 DEF Progress
    <3> QED
      BY <1>2, <1>3, <3>3, <3>4, <3>5, <3>6 DEF Progress, Begun, Reported
  <2>2. \A i \in DOMAIN stack : stack[i].kind = "test" => stack[i].unit = current /\ current # Main /\ ~Reported(current)
    BY <1>1 DEF CallsOfTests
  <2>3. \A u \in Tests : ~Begun(u) => /\ \A i \in DOMAIN stack : stack[i].unit # u
                                      /\ \A s \in EventObjs : owner[s] # u
    BY <1>1 DEF CallsOfTests
  <2>4. style.drains => \A u \in Tests : printed[u] = "PASS" => ~Leftover(u) /\ u \notin broke
    BY <1>1 DEF CallsOfTests
  <2>5. \A u : Leftover(u)' => Leftover(u)
    BY <1>2 DEF Leftover, udpVars
  <2> QED
    BY <1>2, <2>1, <2>2, <2>3, <2>4, <2>5 DEF CallsOfTests, Begun, Reported
<1> QED
  BY <1>4, <1>5, <1>8, <1>9 DEF ReentryInv

\* An assertion marks the case that runs; the test on whose behalf it is made is
\* that one, or has been reported without a pass.
LEMMA AssertKeeps == ASSUME ReentryInv, UDPInv', JSUnit_Assert PROVE ReentryInv'
<1>1. TypeOK /\ Shaped(stack) /\ BatchesSound /\ SuiteSound /\ CallsOfTests
  BY DEF ReentryInv
<1>2. /\ broke' = broke \cup ({Top.unit} \ {Main}) /\ Top.kind # "run"
      /\ UNCHANGED <<udpVars, stack, style, cases, current, printed, owner>>
  BY ScriptOnTop DEF JSUnit_Assert
<1>3. Top.unit \in Tests \cup {Main} /\ OfUnit(Top.unit)
  <2>1. Top \in Frame /\ \E i \in DOMAIN stack : Top = stack[i]
    BY <1>1, StackFacts
  <2> QED
    BY <2>1, UnitsOf DEF Frame
<1>4. CASE current = Main /\ pc' = "lost" /\ UNCHANGED result
  <2>1. Top.unit = Main
    BY <1>1, <1>2, <1>4, BeforeTests, StackFacts
  <2>2. UNCHANGED <<stack, style, suiteVars, owner>>
    BY <1>2, <1>4, <2>1 DEF suiteVars
  <2>3. StillWaiting
    BY <1>2, WaitsOn DEF ReentryInv
  <2>4. \A s \in EventObjs : fd'[s] # NoFd => fd'[s] = fd[s]
    BY <1>2 DEF udpVars
  <2> QED
    BY <1>4, <2>2, <2>3, <2>4, SocketsStay
<1>5. CASE current # Main /\ result' = Fail /\ UNCHANGED pc
  <2>1. /\ result' \in [Tests -> {"NOT_RUN", "PASS", "FAIL"}] /\ result'[current] = "FAIL"
        /\ current \in Tests
        /\ \A u \in Tests : u # current => result'[u] = result[u]
    BY <1>1, <1>5 DEF Fail, TypeOK
  <2>2. TypeOK' /\ Shaped(stack')
    BY <1>1, <1>2, <1>3, <1>5, <2>1 DEF TypeOK, UDPInv
  <2>3. BatchesSound'
    <3>1. \A o : Waiting(o) => Waiting(o)'
      BY <1>2 DEF Waiting, udpVars
    <3> QED
      BY <1>1, <1>2, <3>1 DEF BatchesSound
  <2>4. \A u \in Tests : (Begun(u)' <=> Begun(u)) /\ (Reported(u)' <=> Reported(u))
    <3>1. Begun(current)
      BY <1>1, <1>5 DEF SuiteSound
    <3> QED
      BY <1>2, <2>1, <3>1 DEF Begun, Reported
  <2>5. ASSUME NEW u \in broke', u \notin broke
        PROVE  u \in Tests /\ u = Top.unit /\ Begun(u) /\ (style.drains => printed[u] # "PASS")
    <3>1. u = Top.unit /\ u \in Tests
      BY <1>2, <1>3, <2>5
    <3> QED
      BY <1>1, <1>3, <3>1, UnitsBegun
  <2>6. broke \subseteq Tests
    BY <1>1 DEF TypeOK
  <2>7. \A k \in DOMAIN cases : cases[k] \in Tests
    BY <1>1 DEF TypeOK
  <2>8. SuiteSound'
    <3>1. \A u \in broke' : ~Reported(u)' => result'[u] = "FAIL"
      BY <1>1, <2>1, <2>4, <2>5, <2>6 DEF SuiteSound
    <3>2. \A u \in Tests : ~Begun(u)' => ~Reported(u)' /\ u \notin broke'
      BY <1>1, <2>4, <2>5 DEF SuiteSound
    <3>3. Active("test") => Active("test")'
      BY <1>2 DEF Active
    <3>4. \A u \in Tests : Begun(u)' /\ ~Reported(u)' => u = current' /\ Active("test")'
      BY <1>1, <1>2, <2>4, <3>3 DEF SuiteSound
    <3>5. IF current' = Main THEN \A u \in Tests : ~Begun(u)' ELSE Begun(current)'
      BY <1>1, <1>2, <1>5, <2>1, <2>4 DEF SuiteSound, Begun
    <3>6. \A u \in Tests : u \notin Range(cases') => ~Begun(u)'
      BY <1>1, <1>2, <2>4 DEF SuiteSound
    <3>7. \A k, j \in DOMAIN cases' : cases'[k] = cases'[j] => k = j
      BY <1>1, <1>2 DEF SuiteSound
    <3> QED
      BY <3>1, <3>2, <3>4, <3>5, <3>6, <3>7 DEF SuiteSound
  <2>9. CallsOfTests'
    <3>1. ASSUME NEW i \in DOMAIN stack, stack[i].kind = "run" PROVE Progress(i)'
      <4>1. Progress(i)
        BY <1>1, <3>1 DEF CallsOfTests
      <4>2. \A k \in DOMAIN cases : /\ Begun(cases[k])' <=> Begun(cases[k])
                                    /\ Reported(cases[k])' <=> Reported(cases[k])
        BY <1>2, <2>4, <2>7
      <4>3. /\ stack'[i].at >= 1
            /\ i < Len(stack') => stack'[i].at \in DOMAIN cases' /\ cases'[stack'[i].at] = current'
        BY <1>2, <4>1 DEF Progress
      <4>4. \A k \in DOMAIN cases' :
              /\ k < stack'[i].at => Begun(cases[k])' /\ Reported(cases[k])'
              /\ k > stack'[i].at => ~Begun(cases[k])'
              /\ k = stack'[i].at => (Begun(cases[k])' <=> i < Len(stack'))
        BY <1>2, <4>1, <4>2 DEF Progress
      <4> QED
        BY <4>3, <4>4 DEF Progress
    <3>2. \A i \in DOMAIN stack' : stack'[i].kind = "test" => stack'[i].unit = current' /\ current' # Main /\ ~Reported(current)'
      BY <1>1, <1>2 DEF CallsOfTests, Reported
    <3>3. \A u \in Tests : ~Begun(u)' => /\ \A i \in DOMAIN stack' : stack'[i].unit # u
                                         /\ \A s \in EventObjs : owner'[s] # u
      BY <1>1, <1>2, <2>4 DEF CallsOfTests
    <3>4. style'.drains => \A u \in Tests : printed'[u] = "PASS" => ~Leftover(u)' /\ u \notin broke'
      <4>1. \A u : Leftover(u)' => Leftover(u)
        BY <1>2 DEF Leftover, udpVars
      <4> QED
        BY <1>1, <1>2, <2>5, <4>1 DEF CallsOfTests
    <3>5. \A i \in DOMAIN stack' : stack'[i].kind = "run" => Progress(i)'
      BY <1>2, <3>1
    <3> QED
      BY <3>2, <3>3, <3>4, <3>5 DEF CallsOfTests
  <2> QED
    BY <2>2, <2>3, <2>8, <2>9 DEF ReentryInv
<1> QED
  BY <1>4, <1>5 DEF JSUnit_Assert
\* The innermost run(), which has called no test, calls the case at its number.
LEMMA RunNextKeeps == ASSUME ReentryInv, UDPInv', RunNext PROVE ReentryInv'
<1> DEFINE n == Len(stack)
           t == cases[Top.at]
           f == Called("test", t)
<1>1. TypeOK /\ Shaped(stack) /\ BatchesSound /\ SuiteSound /\ CallsOfTests
  BY DEF ReentryInv
<1>2. /\ stack \in Seq(Frame) /\ n \in Nat /\ n >= 1 /\ DOMAIN stack = 1..n /\ Top = stack[n]
      /\ Top \in Frame /\ Top.kind = "run" /\ n \in DOMAIN stack
  BY <1>1, StackFacts DEF RunNext, In
<1>3. Progress(n)
  BY <1>1, <1>2 DEF CallsOfTests
<1>4. Top.at \in DOMAIN cases /\ t \in Tests /\ t # Main
  <2>1. Top.at \in Nat /\ Top.at >= 1 /\ Top.at <= Len(cases)
    BY <1>2, <1>3 DEF RunNext, AtEnd, Progress, Frame, TypeOK
  <2>2. cases \in Seq(Tests)
    BY <1>1 DEF TypeOK
  <2>3. Top.at \in DOMAIN cases
    BY <2>1, <2>2
  <2> QED
    BY <2>2, <2>3, MainAssumption
<1>5. f \in Frame /\ f.kind = "test" /\ f.unit = t
  BY <1>4, CalledFacts DEF Kinds
<1>6. /\ current' = t /\ result' = [result EXCEPT ![t] = "PASS"] /\ stack' = Append(stack, f)
      /\ UNCHANGED <<udpVars, pc, style, cases, printed, broke, owner>>
  BY DEF RunNext, Started, Push
<1>7. ~Begun(t) /\ ~Reported(t) /\ t \notin broke
  <2>1. ~Begun(t)
    <3>1. ~(n < Len(stack)) /\ Top.at = stack[n].at
      BY <1>2
    <3> QED
      BY <1>3, <1>4, <3>1 DEF Progress
  <2> QED
    BY <1>1, <1>4, <2>1 DEF SuiteSound
<1>8. \A i \in 1..n : stack[i].kind = "run" => i = n
  BY <1>1, <1>2, Zenon DEF Shaped
<1>9. \A i \in 1..n : stack[i].kind # "test"
  <2>1. SUFFICES ASSUME NEW i \in 1..n, stack[i].kind = "test" PROVE FALSE
    OBVIOUS
  <2>2. /\ stack[1].kind # "test"
        /\ \A j \in 1..n - 1 : stack[j + 1].kind = "test" <=> stack[j].kind = "run"
    BY <1>1 DEF Shaped
  <2>3. n \in Nat
    BY <1>2
  <2> HIDE DEF n
  <2>4. CASE i = 1
    BY <2>1, <2>2, <2>4
  <2>5. CASE i # 1
    <3>1. i - 1 \in 1..n - 1 /\ (i - 1) + 1 = i /\ i - 1 \in 1..n /\ i - 1 # n
      BY <2>3, <2>5
    <3> QED
      BY <1>8, <2>1, <2>2, <3>1
  <2> QED
    BY <2>4, <2>5
<1> HIDE DEF f, t
<1>10. /\ stack' \in Seq(Frame) /\ Len(stack') = n + 1
       /\ stack'[n + 1] = f /\ \A i \in 1..n : stack'[i] = stack[i]
  <2>1. LET p == Append(stack, f) IN
          /\ p \in Seq(Frame) /\ Len(p) = Len(stack) + 1
          /\ p[Len(stack) + 1] = f
          /\ \A i \in 1..Len(stack) : p[i] = stack[i]
    BY <1>2, <1>5, Pushed
  <2> QED
    BY <1>6, <2>1
<1>11. DOMAIN stack' = 1..n + 1
  BY <1>10
<1>12. Shaped(stack')
  <2>1. f.kind = "callback" <=> stack[Len(stack)].kind = "select"
    BY <1>2, <1>5
  <2>2. f.kind = "test" <=> stack[Len(stack)].kind = "run"
    BY <1>2, <1>5
  <2> QED
    BY <1>1, <1>2, <1>5, <1>6, <2>1, <2>2, PushShapes
<1>13. /\ result' \in [Tests -> {"NOT_RUN", "PASS", "FAIL"}] /\ result'[t] = "PASS"
       /\ \A u \in Tests : u # t => result'[u] = result[u]
  BY <1>1, <1>4, <1>6 DEF TypeOK
<1>14. TypeOK'
  BY <1>1, <1>4, <1>6, <1>10, <1>13 DEF TypeOK, UDPInv
<1> HIDE DEF n
<1>15. \A i \in 1..n + 1 : i \in 1..n \/ i = n + 1
  BY <1>2
<1>16. BatchesSound'
  <2>1. SUFFICES ASSUME ~style.nests, NEW i \in 1..n + 1
                 PROVE  stack'[i].kind \notin {"select", "callback"}
    BY <1>6, <1>11 DEF BatchesSound
  <2>2. \A j \in 1..n : stack[j].kind \notin {"select", "callback"}
    BY <1>1, <1>2, <2>1, NoBatch
  <2> QED
    BY <1>5, <1>10, <1>15, <2>2
<1>17. \A u \in Tests : /\ Begun(u)' <=> Begun(u) \/ u = t
                        /\ Reported(u)' <=> Reported(u)
  BY <1>6, <1>13 DEF Begun, Reported
<1>18. ASSUME NEW u \in Tests, Begun(u), ~Reported(u) PROVE FALSE
  <2>1. Active("test")
    BY <1>1, <1>18 DEF SuiteSound
  <2> QED
    BY <1>2, <1>9, <2>1 DEF Active
<1>19. n + 1 \in DOMAIN stack' /\ stack'[n + 1].kind = "test"
  BY <1>2, <1>5, <1>10, <1>11
<1>20. SuiteSound'
  <2>1. Active("test")'
    BY <1>19 DEF Active
  <2>2. \A u \in Tests : Begun(u)' /\ ~Reported(u)' => u = current' /\ Active("test")'
    BY <1>6, <1>17, <1>18, <2>1
  <2>3. Begun(current)' /\ current' # Main
    BY <1>4, <1>6, <1>13 DEF Begun
  <2>4. ASSUME NEW u \in broke', ~Reported(u)' PROVE result'[u] = "FAIL"
    <3>1. u \in broke /\ u \in Tests /\ u # t
      BY <1>1, <1>6, <1>7, <2>4 DEF TypeOK
    <3> QED
      BY <1>1, <1>13, <1>17, <2>4, <3>1 DEF SuiteSound
  <2>5. t \in Range(cases)
    BY <1>4 DEF t, Range
  <2>6. \A u \in Tests : u \notin Range(cases') => ~Begun(u)'
    BY <1>1, <1>6, <1>17, <2>5 DEF SuiteSound
  <2>7. \A u \in Tests : ~Begun(u)' => ~Reported(u)' /\ u \notin broke'
    BY <1>1, <1>6, <1>17 DEF SuiteSound
  <2>8. \A k, j \in DOMAIN cases' : cases'[k] = cases'[j] => k = j
    BY <1>1, <1>6 DEF SuiteSound
  <2> QED
    BY <2>2, <2>3, <2>4, <2>6, <2>7, <2>8 DEF SuiteSound
<1>21. CallsOfTests'
  <2>1. ASSUME NEW i \in DOMAIN stack', stack'[i].kind = "run" PROVE Progress(i)'
    <3>1. i = n /\ stack'[i].at = Top.at /\ n \in 1..n
      BY <1>2, <1>5, <1>8, <1>10, <1>11, <1>15, <2>1
    <3>2. i < Len(stack')
      BY <1>2, <1>10, <3>1
    <3>3. /\ Top.at >= 1
          /\ \A k \in DOMAIN cases : /\ k < Top.at => Begun(cases[k]) /\ Reported(cases[k])
                                     /\ k > Top.at => ~Begun(cases[k])
      BY <1>2, <1>3 DEF Progress
    <3>4. \A k \in DOMAIN cases : cases[k] \in Tests /\ k \in Nat
      BY <1>1 DEF TypeOK
    <3>5. \A k \in DOMAIN cases : cases[k] = t => k = Top.at
      BY <1>1, <1>4 DEF SuiteSound, t
    <3>6. Top.at \in Nat
      BY <1>2 DEF Frame
    <3>7. \A k \in DOMAIN cases :
            /\ k < Top.at => Begun(cases[k])' /\ Reported(cases[k])'
            /\ k > Top.at => ~Begun(cases[k])'
            /\ k = Top.at => Begun(cases[k])'
      <4>1. ASSUME NEW k \in DOMAIN cases, k < Top.at PROVE Begun(cases[k])' /\ Reported(cases[k])'
        BY <1>6, <1>17, <3>3, <3>4, <4>1
      <4>2. ASSUME NEW k \in DOMAIN cases, k > Top.at PROVE ~Begun(cases[k])'
        <5>1. cases[k] # t
          BY <3>4, <3>5, <3>6, <4>2
        <5> QED
          BY <1>6, <1>17, <3>3, <3>4, <4>2, <5>1
      <4>3. ASSUME NEW k \in DOMAIN cases, k = Top.at PROVE Begun(cases[k])'
        BY <1>6, <1>13, <4>3 DEF Begun, t
      <4> QED
        BY <4>1, <4>2, <4>3
    <3>8. cases[Top.at] = current' /\ cases' = cases
      BY <1>6 DEF t
    <3> QED
      BY <1>4, <3>1, <3>2, <3>3, <3>7, <3>8 DEF Progress
  <2>2. ASSUME NEW i \in DOMAIN stack', stack'[i].kind = "test"
        PROVE  stack'[i].unit = current' /\ current' # Main /\ ~Reported(current)'
    <3>1. i = n + 1
      BY <1>9, <1>10, <1>11, <1>15, <2>2
    <3>2. ~Reported(current)'
      BY <1>6, <1>7 DEF Reported
    <3> QED
      BY <1>4, <1>5, <1>6, <1>10, <3>1, <3>2
  <2>3. ASSUME NEW u \in Tests, ~Begun(u)'
        PROVE  /\ \A i \in DOMAIN stack' : stack'[i].unit # u
               /\ \A s \in EventObjs : owner'[s] # u
    <3>1. ~Begun(u) /\ u # t
      BY <1>17, <2>3
    <3> QED
      BY <1>1, <1>2, <1>5, <1>6, <1>10, <1>11, <1>15, <3>1 DEF CallsOfTests
  <2>4. ASSUME style'.drains, NEW u \in Tests, printed'[u] = "PASS"
        PROVE  ~Leftover(u)' /\ u \notin broke'
    <3>1. u # t
      BY <1>6, <1>7, <2>4 DEF Reported
    <3>2. ~Leftover(u) /\ u \notin broke
      BY <1>1, <1>6, <2>4 DEF CallsOfTests
    <3>3. \A i \in DOMAIN stack' : stack'[i].unit # u
      BY <1>2, <1>5, <1>10, <1>11, <1>15, <3>1, <3>2 DEF Leftover
    <3>4. \A s \in EventObjs : owner'[s] = u => fd'[s] = NoFd
      BY <1>6, <3>2 DEF Leftover, udpVars
    <3> QED
      BY <1>6, <3>2, <3>3, <3>4 DEF Leftover
  <2> QED
    BY <2>1, <2>2, <2>3, <2>4 DEF CallsOfTests
<1> QED
  BY <1>12, <1>14, <1>16, <1>20, <1>21 DEF ReentryInv

\* A test that ends has no calls left under it; it passes if it has not failed by
\* then, and if it has drained the list no socket of its own is open any more.
LEMMA TestEndsKeeps ==
  ASSUME ReentryInv, UDPInv', In("test"), NEW r, TestEnds(r),
         r = "FAIL" \/ (r = result[Top.unit] /\ (style.drains => events = << >>))
  PROVE  ReentryInv'
<1> DEFINE n == Len(stack)
           t == Top.unit
           g == stack[n - 1]
           h == [g EXCEPT !.at = @ + 1]
<1>1. TypeOK /\ Shaped(stack) /\ BatchesSound /\ SuiteSound /\ CallsOfTests /\ UDPInv
  BY DEF ReentryInv
<1>2. /\ stack \in Seq(Frame) /\ n \in Nat /\ n >= 1 /\ DOMAIN stack = 1..n /\ Top = stack[n]
      /\ Top.kind = "test" /\ n \in DOMAIN stack /\ \A i \in 1..n : stack[i] \in Frame
  BY <1>1, StackFacts DEF In
<1>3. /\ stack[1].kind # "test"
      /\ \A j \in 1..n - 1 : stack[j + 1].kind = "test" <=> stack[j].kind = "run"
  BY <1>1 DEF Shaped
<1>4. t = current /\ current \in Tests /\ current # Main /\ ~Reported(t) /\ Begun(t)
  <2>1. t = current /\ current # Main /\ ~Reported(current)
    BY <1>1, <1>2 DEF CallsOfTests
  <2> QED
    BY <1>1, <2>1 DEF TypeOK, SuiteSound
<1>5. n > 1 /\ n - 1 \in 1..n - 1 /\ n - 1 \in 1..n /\ n - 1 < n /\ (n - 1) + 1 = n
  <2>1. n # 1
    BY <1>2, <1>3
  <2>2. n \in Nat /\ n >= 1
    BY <1>2
  <2> HIDE DEF n
  <2> QED
    BY <2>1, <2>2
<1>6. g \in Frame /\ g.kind = "run"
  BY <1>2, <1>3, <1>5
<1>7. Progress(n - 1)
  BY <1>1, <1>2, <1>5, <1>6 DEF CallsOfTests
<1>8. g.at \in DOMAIN cases /\ cases[g.at] = t /\ g.at \in Nat /\ g.at >= 1
  BY <1>4, <1>5, <1>6, <1>7 DEF Progress, Frame
<1>9. /\ result' = [result EXCEPT ![t] = r] /\ printed' = [printed EXCEPT ![t] = r]
      /\ stack' = [Front(stack) EXCEPT ![n - 1].at = @ + 1]
      /\ UNCHANGED <<udpVars, pc, style, cases, current, broke, owner>>
  BY DEF TestEnds
<1>10. h \in Frame /\ h.kind = "run" /\ h.unit = g.unit /\ h.at = g.at + 1
  <2> DEFINE a == g.at + 1
  <2>1. a \in Nat /\ h = [g EXCEPT !.at = a]
    BY <1>8
  <2> HIDE DEF h, a, g
  <2>2. h \in Frame /\ h.kind = "run" /\ h.unit = g.unit /\ h.at = a
    BY <1>6, <2>1, ChangedFacts
  <2> QED
    BY <2>2 DEF a
<1>11. /\ Front(stack) \in Seq(Frame) /\ Len(Front(stack)) = n - 1
       /\ \A i \in 1..n - 1 : Front(stack)[i] = stack[i]
  BY <1>2, <1>5, Popped, Zenon
<1>12. /\ stack' \in Seq(Frame) /\ Len(stack') = n - 1 /\ DOMAIN stack' = 1..n - 1
       /\ stack'[n - 1] = h /\ \A i \in 1..n - 1 : i # n - 1 => stack'[i] = stack[i]
  <2> DEFINE q == Front(stack)
  <2>1. stack' = [q EXCEPT ![n - 1] = h]
    BY <1>5, <1>9, <1>11
  <2>2. q \in Seq(Frame) /\ Len(q) = n - 1 /\ \A i \in 1..n - 1 : q[i] = stack[i]
    BY <1>11
  <2>3. n - 1 \in 1..n - 1 /\ n \in Nat
    BY <1>2, <1>5
  <2> HIDE DEF q, h, n
  <2> QED
    BY <1>10, <2>1, <2>2, <2>3
<1> HIDE DEF h
<1>13. \A i \in 1..n - 1 : /\ i \in 1..n /\ stack'[i].kind = stack[i].kind /\ stack'[i].unit = stack[i].unit
  <2>1. n \in Nat /\ stack'[n - 1].kind = stack[n - 1].kind /\ stack'[n - 1].unit = stack[n - 1].unit
    BY <1>2, <1>6, <1>10, <1>12, Zenon
  <2> HIDE DEF n
  <2>2. \A i \in 1..n - 1 : i \in 1..n
    BY <2>1
  <2> QED
    BY <1>12, <2>1, <2>2
<1>14. Shaped(stack')
  <2>1. 1 <= Len(stack') /\ Len(stack') <= Len(stack)
    <3>1. n \in Nat /\ n > 1 /\ Len(stack') = n - 1
      BY <1>2, <1>5, <1>12, Zenon
    <3> QED
      BY <3>1
  <2>2. \A i \in 1..Len(stack') : stack'[i].unit = stack[i].unit /\ stack'[i].kind = stack[i].kind
    BY <1>12, <1>13
  <2> QED
    BY <1>1, <1>2, <1>12, <2>1, <2>2, PartShapes, Zenon
<1>15. r \in {"PASS", "FAIL"}
  BY <1>1, <1>4 DEF TypeOK, Begun
<1>16. /\ result' \in [Tests -> {"NOT_RUN", "PASS", "FAIL"}] /\ result'[t] = r
       /\ \A u \in Tests : u # t => result'[u] = result[u]
  BY <1>1, <1>4, <1>9, <1>15 DEF TypeOK
<1>17. /\ printed' \in [Tests -> {"nothing", "PASS", "FAIL"}] /\ printed'[t] = r
       /\ \A u \in Tests : u # t => printed'[u] = printed[u]
  BY <1>1, <1>4, <1>9, <1>15 DEF TypeOK
<1>18. TypeOK'
  BY <1>1, <1>9, <1>12, <1>16, <1>17 DEF TypeOK, UDPInv
<1>19. BatchesSound'
  <2>1. SUFFICES ASSUME ~style.nests, NEW i \in 1..n - 1
                 PROVE  stack'[i].kind \notin {"select", "callback"}
    BY <1>9, <1>12 DEF BatchesSound
  <2>2. \A j \in 1..n : stack[j].kind \notin {"select", "callback"}
    BY <1>1, <1>2, <2>1, NoBatch
  <2> QED
    BY <1>13, <2>2
<1>20. \A u \in Tests : /\ Begun(u)' <=> Begun(u)
                        /\ Reported(u)' <=> Reported(u) \/ u = t
  BY <1>4, <1>15, <1>16, <1>17 DEF Begun, Reported
<1>21. SuiteSound'
  <2>1. \A u \in Tests : Begun(u) /\ ~Reported(u) => u = t
    BY <1>1, <1>4 DEF SuiteSound
  <2>2. \A u \in Tests : Begun(u)' /\ ~Reported(u)' => u = current' /\ Active("test")'
    BY <1>20, <2>1
  <2>3. ASSUME NEW u \in broke', ~Reported(u)' PROVE result'[u] = "FAIL"
    <3>1. u \in broke /\ u \in Tests
      BY <1>1, <1>9 DEF TypeOK
    <3> QED
      BY <1>1, <1>16, <1>20, <2>3, <3>1 DEF SuiteSound
  <2>4. IF current' = Main THEN \A u \in Tests : ~Begun(u)' ELSE Begun(current)'
    BY <1>4, <1>9, <1>15, <1>16 DEF Begun
  <2>5. \A u \in Tests : u \notin Range(cases') => ~Begun(u)'
    BY <1>1, <1>9, <1>20 DEF SuiteSound
  <2>6. \A u \in Tests : ~Begun(u)' => ~Reported(u)' /\ u \notin broke'
    BY <1>1, <1>4, <1>9, <1>20 DEF SuiteSound
  <2>7. \A k, j \in DOMAIN cases' : cases'[k] = cases'[j] => k = j
    BY <1>1, <1>9 DEF SuiteSound
  <2> QED
    BY <2>2, <2>3, <2>4, <2>5, <2>6, <2>7 DEF SuiteSound
<1>22. \A i \in 1..n : stack[i].kind = "run" => i = n - 1
  BY <1>1, <1>2, <1>5, <1>6, Zenon DEF Shaped
<1>23. \A i \in 1..n - 1 : stack[i].unit = Main
  <2>1. \A i, j \in 1..n : i <= j /\ stack[j].kind = "run" => stack[i].unit = Main
    BY <1>1, <1>2 DEF Shaped
  <2>2. \A i \in 1..n - 1 : i <= n - 1
    BY <1>2
  <2> QED
    BY <1>5, <1>6, <1>13, <2>1, <2>2
<1>24. \A i \in 1..n - 1 : stack[i].kind # "test"
  <2>1. SUFFICES ASSUME NEW i \in 1..n - 1, stack[i].kind = "test" PROVE FALSE
    OBVIOUS
  <2>2. n \in Nat
    BY <1>2
  <2> HIDE DEF n
  <2>3. CASE i = 1
    BY <1>3, <2>1, <2>3
  <2>4. CASE i # 1
    <3>1. i - 1 \in 1..n - 1 /\ (i - 1) + 1 = i /\ i - 1 \in 1..n /\ i - 1 # n - 1
      BY <2>2, <2>4
    <3> QED
      BY <1>3, <1>22, <2>1, <3>1
  <2> QED
    BY <2>3, <2>4
<1>25. CallsOfTests'
  <2>1. ASSUME NEW i \in DOMAIN stack', stack'[i].kind = "run" PROVE Progress(i)'
    <3>1. i = n - 1 /\ stack'[i].at = g.at + 1 /\ ~(i < Len(stack'))
      <4>1. i = n - 1
        BY <1>12, <1>13, <1>22, <2>1
      <4>2. ~(n - 1 < n - 1)
        BY <1>2
      <4> QED
        BY <1>10, <1>12, <4>1, <4>2
    <3>2. \A k \in DOMAIN cases : cases[k] \in Tests /\ k \in Nat
      BY <1>1 DEF TypeOK
    <3>3. \A k \in DOMAIN cases : /\ k < g.at => Begun(cases[k]) /\ Reported(cases[k])
                                  /\ k > g.at => ~Begun(cases[k])
      BY <1>7 DEF Progress
    <3>4. ASSUME NEW k \in DOMAIN cases
          PROVE  /\ k < g.at + 1 => Begun(cases[k])' /\ Reported(cases[k])'
                 /\ k > g.at + 1 => ~Begun(cases[k])'
                 /\ k = g.at + 1 => ~Begun(cases[k])'
      <4>1. CASE k < g.at
        BY <1>8, <1>9, <1>20, <3>2, <3>3, <4>1
      <4>2. CASE k = g.at
        BY <1>4, <1>8, <1>9, <1>20, <3>2, <4>2
      <4>3. CASE k > g.at
        BY <1>8, <1>9, <1>20, <3>2, <3>3, <4>3
      <4> QED
        BY <1>8, <3>2, <4>1, <4>2, <4>3
    <3>5. g.at + 1 >= 1 /\ cases' = cases
      BY <1>8, <1>9
    <3> QED
      BY <3>1, <3>4, <3>5 DEF Progress
  <2>2. \A i \in DOMAIN stack' : stack'[i].kind # "test"
    BY <1>12, <1>13, <1>24
  <2>3. ASSUME NEW u \in Tests, ~Begun(u)'
        PROVE  /\ \A i \in DOMAIN stack' : stack'[i].unit # u
               /\ \A s \in EventObjs : owner'[s] # u
    BY <1>1, <1>2, <1>9, <1>12, <1>13, <1>20, <2>3 DEF CallsOfTests
  <2>4. ASSUME style'.drains, NEW u \in Tests, printed'[u] = "PASS"
        PROVE  ~Leftover(u)' /\ u \notin broke'
    <3>1. \A i \in DOMAIN stack' : stack'[i].unit # u
      BY <1>12, <1>13, <1>23, <2>4, MainAssumption
    <3>2. CASE u = t
      <4>1. r = "PASS" /\ result[t] = "PASS" /\ events = << >>
        BY <1>9, <1>17, <2>4, <3>2
      <4>2. \A s \in EventObjs : fd[s] = NoFd
        <5>1. DOMAIN events = {}
          BY <4>1
        <5> QED
          BY <1>1, <5>1 DEF UDPInv, EventsMatchOwners
      <4>3. t \notin broke
        BY <1>1, <1>4, <4>1 DEF SuiteSound
      <4> QED
        BY <1>9, <3>1, <3>2, <4>2, <4>3 DEF Leftover, udpVars
    <3>3. CASE u # t
      <4>1. ~Leftover(u) /\ u \notin broke
        BY <1>1, <1>9, <1>17, <2>4, <3>3 DEF CallsOfTests
      <4>2. \A s \in EventObjs : owner'[s] = u => fd'[s] = NoFd
        BY <1>9, <4>1 DEF Leftover, udpVars
      <4> QED
        BY <1>9, <3>1, <4>1, <4>2 DEF Leftover
    <3> QED
      BY <3>2, <3>3
  <2> QED
    BY <2>1, <2>2, <2>3, <2>4 DEF CallsOfTests
<1> QED
  BY <1>14, <1>18, <1>19, <1>21, <1>25 DEF ReentryInv
\* Each step keeps all of it.
LEMMA ReentryStep == ReentryInv /\ [Next]_vars => ReentryInv'
<1> SUFFICES ASSUME ReentryInv, [Next]_vars PROVE ReentryInv'
  OBVIOUS
<1>1. UDPInv'
  BY UDPStep DEF ReentryInv
<1>2. TypeOK /\ Shaped(stack)
  BY DEF ReentryInv
<1>3. CASE UNCHANGED vars
  BY <1>1, <1>3, OthersKeep
<1>4. CASE \E s \in EventObjs : New(s) \/ Close(s) \/ \E f \in Fds : Send(s, f)
  BY <1>1, <1>4, NewKeeps, OthersKeep
<1>5. CASE System_Include \/ JSUnit_Events \/ JSUnit_Run
  BY <1>1, <1>5, ScriptCallsKeep
<1>6. CASE JSUnit_Assert
  BY <1>1, <1>6, AssertKeeps
<1>7. CASE \E t \in Tests : JSUnit_Add(t)
  BY <1>1, <1>7, AddKeeps
<1>8. CASE ScriptReturns
  BY <1>1, <1>8, ScriptReturnsKeeps
<1>9. CASE ScriptThrows \/ LoopEnds \/ BatchDone \/ CallbackReturns \/ RunEnds
  <2>1. Pop /\ UNCHANGED <<udpVars, style, suiteVars, owner>>
    BY <1>9 DEF ScriptThrows, LoopEnds, BatchDone, CallbackReturns, RunEnds
  <2>2. Top.kind # "test"
    BY <1>9 DEF ScriptThrows, LoopEnds, InLoop, BatchDone, CallbackReturns, RunEnds, In
  <2> QED
    BY <1>1, <2>1, <2>2, PopKeeps
<1>10. CASE Select
  BY <1>1, <1>10, SelectKeeps
<1>11. CASE Astray
  BY <1>1, <1>11, OthersKeep
<1>12. CASE Waits \/ Terminated
  BY <1>3, <1>12 DEF Waits, Terminated
<1>13. ASSUME NEW c \in Top.batch, In("select"), Dispatch(c) PROVE ReentryInv'
  <2>1. UNCHANGED <<pc, style, suiteVars, owner>>
    BY <1>13 DEF Dispatch
  <2>2. CASE /\ Receive(c.obj)
             /\ stack' = Append([stack EXCEPT ![Len(stack)] = Without(c)],
                                [Called("callback", owner[c.obj]) EXCEPT !.data = Received(c.obj)])
    BY <1>1, <1>13, <2>1, <2>2, ReceivedKeeps
  <2>3. CASE ReceiveFails(c.obj) /\ Replace(Without(c))
    <3>1. /\ Without(c) \in Frame /\ Without(c).kind = Top.kind /\ Without(c).unit = Top.unit
          /\ Without(c).batch = Top.batch \ {c}
      BY <1>2, WithoutFacts
    <3>2. Top.kind = "select" /\ UNCHANGED udpVars
      BY <1>13, <2>3 DEF In, ReceiveFails
    <3> QED
      BY <1>1, <2>1, <2>3, <3>1, <3>2, ReplaceKeeps
  <2> QED
    BY <1>13, <2>2, <2>3 DEF Dispatch
<1>14. CASE RunNext
  BY <1>1, <1>14, RunNextKeeps
<1>15. CASE TestReturns
  <2>1. In("test") /\ (style.drains => events = << >>) /\ TestEnds(result[Top.unit])
    BY <1>15 DEF TestReturns
  <2> QED
    BY <1>1, <2>1, TestEndsKeeps
<1>16. CASE TestThrows
  BY <1>1, <1>16, TestEndsKeeps DEF TestThrows
<1>17. CASE \E f \in Fds : KernelArrives(f)
  BY <1>1, <1>17, OthersKeep
<1> QED
  BY <1>3, <1>4, <1>5, <1>6, <1>7, <1>8, <1>9, <1>10, <1>11, <1>12, <1>13, <1>14, <1>15, <1>16, <1>17 DEF Next

\* One script, no cases, no sockets.
LEMMA ReentryStarts == Init => ReentryInv
<1> SUFFICES ASSUME Init PROVE ReentryInv
  OBVIOUS
<1>1. UDPInv
  BY UDPStarts DEF Init
<1>2. /\ pc = "running" /\ style \in Styles /\ cases = << >> /\ current = Main /\ broke = {}
      /\ result = [t \in Tests |-> "NOT_RUN"] /\ printed = [t \in Tests |-> "nothing"]
      /\ owner = [s \in EventObjs |-> Main]
      /\ stack = <<Called("body", Main)>>
  BY DEF Init
<1> DEFINE f == Called("body", Main)
<1>3. f \in Frame /\ f.kind = "body" /\ f.unit = Main
  BY CalledFacts DEF Kinds
<1> HIDE DEF f
<1>4. stack \in Seq(Frame) /\ Len(stack) = 1 /\ DOMAIN stack = {1} /\ stack[1] = f
  BY <1>2, <1>3 DEF f
<1>5. DOMAIN cases = {} /\ Range(cases) = {} /\ cases \in Seq(Tests)
  BY <1>2 DEF Range
<1>6. TypeOK
  BY <1>1, <1>2, <1>4, <1>5 DEF TypeOK, UDPInv
<1>7. Shaped(stack)
  BY <1>3, <1>4 DEF Shaped
<1>8. BatchesSound
  BY <1>3, <1>4 DEF BatchesSound
<1>9. \A t \in Tests : ~Begun(t) /\ ~Reported(t)
  BY <1>2 DEF Begun, Reported
<1>10. SuiteSound
  BY <1>2, <1>5, <1>9 DEF SuiteSound
<1>11. CallsOfTests
  <2>1. \A t \in Tests : printed[t] # "PASS"
    BY <1>2
  <2>2. \A i \in DOMAIN stack : stack[i].kind \notin {"run", "test"} /\ stack[i].unit = Main
    BY <1>3, <1>4
  <2> QED
    BY <1>2, <2>1, <2>2, MainAssumption DEF CallsOfTests
<1> QED
  BY <1>1, <1>6, <1>7, <1>8, <1>10, <1>11 DEF ReentryInv

\* So it always holds.
LEMMA ReentryInvariant == Spec => []ReentryInv
  BY ReentryStarts, ReentryStep, PTL DEF Spec

\* A test that has been reported as passed has had no failing assertion: none in
\* its function, since an assertion marks the case that runs, and none later, since
\* it had drained the list, and so has left neither a socket nor a call.
THEOREM VerdictsTrue == Spec => []VerdictsAreTrue
<1>1. ASSUME ReentryInv PROVE VerdictsAreTrue
  <2>1. broke \subseteq Tests /\ CallsOfTests
    BY <1>1 DEF ReentryInv, TypeOK
  <2> QED
    BY <2>1 DEF CallsOfTests, VerdictsAreTrue
<1> QED
  BY <1>1, ReentryInvariant, PTL

\* Types; onData is called with data where callbacks start no loops, for a copy that
\* waits in a batch is of a socket that is closed or still has its data; and when
\* run() has come to its end, each case before its number, which is each of them, has
\* been run.
THEOREM CallsAreSound == Spec => []CallsSound
<1>1. ASSUME ReentryInv PROVE CallsSound
  <2>1. TypeOK /\ Shaped(stack)
    BY <1>1 DEF ReentryInv
  <2>2. CalledWithData
    BY <1>1 DEF ReentryInv, BatchesSound, CalledWithData
  <2>3. ASSUME In("run"), AtEnd, NEW t \in Range(cases) PROVE result[t] # "NOT_RUN"
    <3>1. PICK k \in DOMAIN cases : cases[k] = t
      BY DEF Range
    <3>2. Top = stack[Len(stack)] /\ Len(stack) \in DOMAIN stack
      BY <2>1, StackFacts
    <3>3. Progress(Len(stack))
      BY <1>1, <2>3, <3>2 DEF In, ReentryInv, CallsOfTests
    <3>4. k \in Nat /\ k <= Len(cases) /\ Len(cases) \in Nat /\ Top.at \in Nat
      BY <2>1, StackFacts DEF TypeOK, Frame
    <3>5. k < stack[Len(stack)].at
      BY <2>3, <3>2, <3>4 DEF AtEnd
    <3> QED
      BY <3>1, <3>3, <3>5 DEF Progress, Begun
  <2> QED
    BY <2>1, <2>2, <2>3 DEF CallsSound, AllCasesRun
<1> QED
  BY <1>1, ReentryInvariant, PTL
=============================================================================
