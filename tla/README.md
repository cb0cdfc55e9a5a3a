# ProntoScript: specifications

ProntoScript is SpiderMonkey 1.6 with a handful of host classes added in
`js/src/ext` (`TCPSocket`, `UDPSocket`, `System`, `JSUnit`) and an event loop
hooked into the end of `js_Execute`. The specifications cover what the project
itself wrote, the event loop and the sockets it drives, and those parts of the
engine that have state of their own and are hard to get right: the collector, the
representation of strings, the hash table everything is kept in, the tree that
holds the properties of objects, and the code for statements that leave other
statements.

## 1. The system

| Part | State | Operations | Talks to |
|---|---|---|---|
| Select loop, `psselect.c` | `ps_Events`, a linked list of `PSSelectEvent` (descriptor, read/write mask, owner, two callbacks, time left) | `ps_AddSelect`, `ps_RemoveSelect`, `ps_HandleSelect` (one `select()`, then the callbacks of copies of what fired) | called by the socket classes, by `js_Execute` and `JSUnit.events`; calls the callbacks |
| TCP sockets, `pstcpsocket.c` | per object: `blocking`, `fd`, `state` (unconnected, connecting, connected), four handler functions | constructor, `connect`, `close`, `read`, `write`, select callback, select error callback, finalizer | the list; the kernel; script functions |
| UDP sockets, `psudpsocket.c` | per object: `fd`, `port`, two handlers | constructor, `close`, `send`, callbacks, finalizer | the list; the kernel; script functions |
| Script execution, `jsinterp.c` | frames, operand stack, scope chain, pending exception | run a script, then call `ps_HandleSelect` until it says the list is empty | entered again from `eval`, `System.include`, `JSUnit.events` |
| System, `pssystem.c` | none | `print`, `include` | `js_Execute` |
| JSUnit, `jsunit.c` | list of test functions with results, the test that is running | `add`, `assert*`, `events`, `run` | `ps_HandleSelect` |
| Collector, `jsgc.c`, local roots in `jscntxt.c` | arenas, free lists, flag bytes, roots, locks, local root stacks | allocate, add and remove roots, lock and unlock, enter and leave scopes, collect | runs finalizers and mark hooks |
| Strings, `jsstr.c` | two words per string, buffers, cache of deflated strings | concatenate, cut, undepend, lend characters or bytes, finalize | the collector |
| Hash tables, `jsdhash.c` | entry store with flags and sentinels, counts, generation | look up, add, remove, change size, enumerate | used by the collector, the atoms, the scopes, the resolving table |
| Property tree, `jsscope.c` | per object a scope: last property, table, count, slots; for all of them one forest of property nodes and a hash table of its roots | add, overwrite, change, delete, clear, mark, sweep | objects; the collector |
| Compiler of statements, `jsemit.c` | code, try notes, statement stack | emit, fix up jumps that leave statements, backpatch | its code is run by `js_Interpret` |
| Shell, `js.c` | options | reads a file, compiles it, executes it | `js_Execute` |
| The rest of the engine | atoms, scripts | parser, built-in classes, decompiler, XML, regular expressions | the above |

`JS_THREADSAFE` is not defined in this build: there is one thread, and the lock
around the list does nothing. Concurrency comes from other places. A callback runs
script code, which calls any method of any socket in the middle of a batch, or
starts another loop inside the one that called it. The kernel and the peers change
the state of a descriptor between any two calls. Descriptor numbers and addresses
are reused as soon as they are released. A collection may start in any allocation,
and its finalizers and mark hooks call back into it.

What makes the parts correct, and what is hard about it (each item is a hazard in
`PROJECT.json` with its line):

* **List**: one event per descriptor; a removed event is gone; what is walked is
  what was registered. Hard: freed cells, allocation order, addresses reused.
* **Loop**: everything that is due is handled, nothing that was removed is called,
  it ends when nothing is registered and only then. Hard: batches are made of
  copies that go stale; `select()` reports one of three outcomes and the code
  handles only that one; one bad descriptor fails the call for everybody; a loop
  may run inside a callback of another.
* **Timeouts**: each attempt gets the time it asked for. Hard: mixed units,
  borrows, time spent outside `select()`.
* **TCP sockets**: the list, the state field and the descriptor agree; no
  descriptor is lost or closed twice; the script is notified in order, once, and
  for a reason. Hard: callbacks that close or reconnect sockets, connections that
  succeed or fail at once, exhausted descriptors, resets.
* **UDP sockets**: what arrives reaches the script once and in order, each event
  belongs to a socket that has its descriptor. Hard: datagrams run together, inner
  loops that take what an outer batch was called for.
* **JSUnit**: a test that failed is reported as failed. Hard: assertions in
  callbacks that run while another test does, or none.
* **Collector**: what is reachable survives, what is not goes, and the heap looks as
  before. Hard: pointers turned round to save stack while hooks run; finalizers that
  make more garbage; locks and local roots with special cases at their limits.
* **Strings**: a string never changes for those who have it. Hard: buffers that
  change hands, chains of dependent strings, widths, pointers lent out, caches.
* **Hash tables**: a key that was added is found. Hard: sentinels, collision flags,
  growth that fails, entries kept by callers.
* **Property tree**: an object has the properties it was given, in order, whatever other
  objects do to the nodes it shares with them. Hard: deletions from the middle that are
  made good only at the next addition, nodes freed out of the middle of lines, memory
  that runs out while a property is being replaced.
* **Statements**: `finally` blocks run once each, from the inside out, with stack and
  scope chain as they should be. Hard: jumps, returns and exceptions pending across
  them.

## 2. Modules

| Module | What it is |
|---|---|
| `PSEvents` | the event list as a value: a sequence of events, and what adding, removing and copying do to it; whether a removal leaves a freed cell behind |
| `PSEventSeq` | that sequence as a specification, with the one promise the pointers keep: until a freed cell is linked, a walk shows the registrations in order |
| `PSEventList` | `psselect.c`'s list with its pointers: cells, `next`, `prev`, `malloc` and `free`, addresses handed out again; implements `PSEventSeq` |
| `TCPSocket` | sockets, select loop, script and kernel composed: every method and callback of the class, `ps_HandleSelect`, the end of `js_Execute` |
| `PSTimeouts` | the timespec arithmetic and the way the loop measures and charges time, with real numbers in scaled-down units |
| `UDPSocket` | the methods and callbacks of the class as operators on the events, the kernel's queues and what the scripts have heard |
| `Reentry` | `UDPSocket`, `JSUnit`, `System.include`, `js_Execute` and `ps_HandleSelect` composed, with an explicit stack of the calls that are active |
| `GCMark` | the mark phase: `MARK_GC_THING`, `DeutschSchorrWaite` and `js_Mark` calling each other |
| `GCHeap` | the rest of the collector: allocation, roots, locks, local root scopes, sweep, finalizers, freeing of arenas, restarts; marking is one step |
| `JSStrings` | flat, prefix and dependent strings over malloc'ed buffers |
| `DHash` | the double hashing table, with callers that keep entries |
| `JSScope` | the scopes of objects and the property tree they share, with failing allocations and the collector |
| `TryFinally` | the compiler and the interpreter for statements that leave others, and a reference semantics of the same statements |
| `TCPSocketProofs`, `PSEventListProofs`, `PSTimeoutsProofs`, `GCHeapProofs`, `ReentryProofs`, `JSStringsProofs`, `DHashProofs` | theorems and proofs |
| `NumbersAndLists` | the facts about numbers that stand in for induction in the proofs, and what deleting and prepending do to a list of events |
| `MC...` | small instances for TLC |

`TCPSocket` and `UDPSocket` extend `PSEvents`, so the list they edit is the sequence;
that this is what the pointers do is the run `list`, and the theorem `ListImplementsSequence`. Timeouts are two-valued in
`TCPSocket` ("armed", "due") and `PSTimeouts` shows what stands behind the step from
one to the other. `GCHeap` takes marking as one step, and `GCMark` shows that the
steps behind it mark just what is reachable.

A definition whose comment starts with "Variant" is wrong on purpose: a plausible
slip in the definition after it. No specification uses it; `PROJECT.json` pairs it
with the property that notices the slip.

### TCPSocket

`pc` says what the single thread is doing: running the script's main body
("script"), about to call `ps_HandleSelect` ("loop"), between two copies of a batch
("dispatch"), in a script function called by a callback ("callback"), or gone:
"exited", "killed" by SIGPIPE, or "lost", which is a walk that has met a freed cell
and of which nothing can be said. `events` and `dangling` are the list; `batch` the
copies not called yet, with their positions, because they are called in the reverse
order of the list; `callback` the copy whose script function is running. `mode`,
`state`, `fd` are the object's fields. `kern` is the kernel's state of each
descriptor number. `told` is a history variable: what the script knows.

* Methods run in "script" and "callback": `TCPSocket_CT`, `TCPSocket_Close`,
  `TCPSocket_Read`, `TCPSocket_Write`, and `TCPSocket_Connect` split by the answer of
  the system: `ConnectInProgress`, `ConnectDone`, `ConnectError`,
  `ConnectWithoutDescriptor`. Calls that throw before they change anything are not
  actions.
* `ps_HandleSelect` is `SelectReady`, `SelectTimeout` or `SelectFails` for the three
  results of `select()`, `SelectAstray` for a walk that meets a freed cell, then one
  step per copy, then `BatchDone`. The copies are made in the step of the wait, as
  in the code; the callbacks see the fields as they are when they run.
* `TCPSocket_SelectCallback` up to the call of the script function is one of
  `CallbackUnconnected`, `CallbackConnect`, `CallbackConnectFailed`, `CallbackData`,
  `CallbackClose`, `CallbackIOError`; the error callback is `ErrorCallback` and, after
  the script function, `ErrorCallbackReturns`, which closes the socket. The branch
  for a blocking socket is left out because a blocking socket never has an event
  (`EventsMatchSockets`).
* `PeerMoves` is the rest of the world: a connection is established or refused, data
  arrives (in two steps to "dataeof"), the peer closes, or resets.

`BusyConnect` says whether scripts may call `connect()` on a socket that still holds
a descriptor. Much of what the class promises holds only if they do not.

### PSEventList

The heap is `ps_Events`, the contents of every address, and the set of addresses that
belong to events. `Unlink` is the loop body of `ps_RemoveSelect` store by store,
including the store that goes to `ev->prev` and is meant for `ev->prev->next`.
`ps_AddSelect` allocates, removes, links, in that order. A walk that crosses a freed
cell either gets through, finding nothing that matches, or is astray. `events` and
`astray` are history variables: what the callers mean to have registered, and whether
a walk has gone wrong or the list no longer shows it.

### UDPSocket and Reentry

`stack` holds the calls that are active: `js_Execute` in its script ("body") or in its
loop ("tail"), `JSUnit_Events` ("loop"), `ps_HandleSelect` with the copies it has still
to call ("select"), `onData` ("callback"), `JSUnit_Run` and a test function. An
operation is possible when the top frame is one that runs script code. `Select` polls
every event, as the code does with one `select()`, and pushes the batch; `Dispatch`
takes the next copy and is the whole of `UDPSocket_SelectCallback`: receive until the
queue is empty, run the datagrams together, call `onData`. `queue` is what the kernel
has for each descriptor; `got` and the frames' `data` are what the script has heard.
A walk over the list that meets a freed cell leads to `pc = "lost"`, from where
nothing is claimed. `style` chooses at the start whether scripts nest loops and
whether tests call `events()` before they return, which is how the tests under
`test/` are written.

### GCMark

`frames` is the C stack: a frame of `MARK_GC_THING` with the slot it is at, of `js_Mark`
with what it has still to pass on, or of `DeutschSchorrWaite` with `obj` and `parent`.
A slot is a tagged reference, so that a turned pointer, tagged as a boolean, can be
told from everything else, which is the very argument of the code. `hint` is
`scope->dswIndex`, which takes `Limit` values: `EncodeDSWIndex` and `DecodeDSWIndex` scale
with the same integer divisions as the code. Whether the next call fits on the stack
is `StackFits`, for a quota chosen at the start.

### GCHeap

A thing is a place in an arena. `NewGCThing` begins an allocation; `Recycle`, `Carve`,
`NewArena`, `LastDitch` and `OutOfMemory` are the ways it goes on. `js_GC` is
`MarkPhase`, then one `Sweep` step up to each finalizer and one to the end (what
finalizers call is taken between the steps; `unswept` is where the sweep has got to),
`FreePhase`, and `EndGC` or `Restart`. `lrs` is the local root stack with the chunks it
has allocated. A finalizer may remove roots, unlock, set slots, and ask for a
collection (`NestedGC`); it may not allocate.

What the code finds by a walk is defined here by what it finds: `ReachBy` and `Marks`
are the least closed sets, and `Listings` are the sequences of a set in a given order,
of which there is one. That keeps the module within what can be proved about.

### JSStrings

`str` is the two words of each string, `memory` the contents of the buffers including
terminators, `value` what each string was when it was made. Every operation that
reads characters goes through `js_MinimizeDependentStrings` (`WithChars`), which rewrites
chains as far as its recursion limit goes and the start fits. `ConcatGrows` is the
branch of `js_ConcatStrings` that takes the left string's buffer over.

### DHash

Entries are hash and key; the low bit of the hash is the collision flag and a hash of
1 the sentinel of a removed entry, as in the code. Double hashing is computed with
small words (`HASH_BITS` 4); `JS_BIT` is a function and not `2^n`, so that proofs can use
it. `SizesAssumption` excludes tables of two entries, of which a quarter is none, so that
such a table would be compressed where it must grow; `AlphaAssumption` is what
`JS_DHashTableSetAlphaBounds` asserts. `held` is an entry that a caller keeps with the generation
it is of, as `js_StartResolving` and `js_StopResolving` do.

### JSScope

`tree` is the forest: each node's label (id, kind, slot), parent and kids, whether the
kids are in chunks, and which roots the hash table has. `scope` is the scopes. An
operation is one step, with what there is no memory for as a parameter: `Add` is
`js_AddScopeProperty` with the squeeze of deleted properties (`Fork`), the slot, the node
and the ways back (`FailOverwrite`); `ChangeLastAttrs` the branch of
`js_ChangeScopePropertyAttrs` that does not end in `js_AddScopeProperty`; then
`RemoveProperty`, `Clear`, and `Collect`, which marks and sweeps. `props` is a history
variable: what the owner of a scope has put there.

### TryFinally

The first half is `js_EmitTree` on a small syntax, with the statement stack, the fixups
of jumps that leave statements, backpatch chains and try notes; the second the
operations of `js_Interpret` that the code uses, one action each. `Meaning` is what the
language says of the same program, in terms of completions. `trace` records each
expression that is evaluated together with the scope chain it is evaluated in.

## 3. Runs

All runs check for deadlock. Sizes are those of the instance in the cfg.

| Run | Instance | Checks |
|---|---|---|
| `tcp_one` | 1 asynchronous socket, 2 descriptors, fair engine, no busy connect | `SocketsWatched`, `GivesUpForCause`, `AttemptAnswered`, `LoopTerminates` |
| `tcp_two` | 2 sockets of either mode, 2 descriptors, all answers of `connect(2)`, no busy connect | `EventsMatchSockets`, `NoDescriptorLeak`, `NotifiedInOrder` |
| `tcp_any` | 2 asynchronous sockets, 2 descriptors, busy connect allowed | `OneEventPerFd`, `DescriptorsExclusive` |
| `list` | 3 descriptors, 4 addresses | `ListWellFormed`, `ImplementsSequence` |
| `timeouts` | 2 events, clock up to 14, seconds of 4 units | `TimeAccounted`, `SomeoneIsDue` |
| `reentry` | 2 UDP sockets, 2 tests, 2 descriptors, 2 datagrams per socket, 6 frames | `DatagramsKept`, `EventsMatchOwners`, `VerdictsAreTrue`, `CallsSound` |
| `gc_mark` | all heaps of 3 objects and a string, with 3 ways of hanging things off them, stack quotas 0 and 1 | `MarkedIsReachable`, `HeapRestored`, `HookSeesItsSlots`, `FramesSound`, `Terminates` |
| `gc_heap` | 2 arenas of 2 things, a limit of 2 things, 1 named root, chunks of 2 local roots, 2 scopes, 2 roots and locks at a time | `HeapSound`, `LocksCounted`, `LocalRootsSound`, `CollectsEverything`, `FailsOnlyWhenFull` |
| `strings` | 3 strings, 3 buffers, up to 3 characters, 2 bits of length, 1 bit of start, no recursion | `MemorySound`, `ValuesKept`, `LentStays`, `CacheIsFresh` |
| `dhash` | 5 keys, tables of 4 and 8 entries, 3 generations | `TableSound`, `FindsEveryKey`, `HeldIsFound` |
| `finally` | the programs of `MCTryFinally`: every try statement over seven simple statements, and two and three statements nested | `RunsAsWritten`, `StackSound`, `Ends` |
| `scope` | 2 scopes, one of 3 properties (one of them of two kinds) and one of 1, 7 nodes, 3 slots, chunks of 2 kids | `ScopesSound`, `TreeSound`, `OthersKept` |

**Why one socket and two.** With one socket a batch of one copy is never stale, and a
wait with one event has one outcome; `DueHandled` and `CalledOnlyWhileWatched`
(section 4) hold of one socket and of one only. With one socket the loop keeps every promise; it is the interplay
that breaks them.

**Bounds.** Two sockets and two descriptors suffice for every interplay of a batch: one
callback acting on the other's copy, a number given back and handed out again, an
exhausted table when one socket leaks. The list of `TCPSocket` has at most two
events; `list` takes three, with one in the middle, and four addresses because
`ps_AddSelect` allocates before it frees. In `timeouts` two events give a minimum and a
borrow; the clock's end at 14 lets each of the requested times (none, zero, half a
second, one, one and a half, in seconds of four units) run down with other waits
before it. `MaxLeaked` only stops the count of leaked copies, and with it calls of
`ps_HandleSelect` that would make it larger.

In `reentry` six frames hold a script, its loop, a batch, a callback, an inner loop and
its batch, so that an inner batch takes what an outer one was called for; two
datagrams per socket are what can be out of order. In `gc_mark` one object has more
slots than the hint has values, one has a slot not in use, one has no hint; with
three objects a trail of turned pointers is two long while a hook starts another
marker. In `gc_heap` the limit of two of four things makes every allocation path
occur; two scopes with chunks of two meet all four cases of a chunk's boundary. In
`strings` a width of one bit for the start makes three-letter strings too wide, and
three strings are a base, one that depends on it, and one that depends on that. In
`dhash` five keys with chosen hashes collide in both probes and make a table of four
both grow and fail to grow; `MaxGeneration` ends a behaviour's changes of size. In
`scope` three properties make a fork copy two nodes and take over one; the property
that the scopes have in common is a node that one deletes while the other keeps it;
a property that is overwritten is for a while its successor's sibling, which takes a
chunk. `MaxGarbage` 0 lets the collector run before each operation that would find
something to collect; with 1, where an unused node may also be found and used again,
the same properties hold (480,126 states with two slots, three minutes and a half).

Symmetry is over sockets, addresses, events, arenas, strings, keys and tests where
nothing orders them, and in no run with liveness. (`gc_heap`'s two temporal properties
are action properties, of steps.)

**Fairness.** `tcp_one`'s `FairSpec` is weak fairness of `Engine`: the interpreter returns
from a script and from a callback, and the loop takes its next step when it can. The
code justifies it as there is one thread and nothing in it waits except `select()` and
script code; a script that never returns is excluded. A blocking `read()` is not
covered and `tcp_one` has no blocking socket. Nothing is assumed of peers, so
`AttemptAnswered` rests on the timeout alone. In `gc_mark` and `finally` nothing but the
marker, or the function, runs, and weak fairness says that it does.

## 4. Where the code departs from what it says

The following statements are definitions in the modules that no run checks, because
TLC refutes them; each can be put into the cfg named to see it.

| Statement | Where | What happens |
|---|---|---|
| `DueHandled`, two sockets | `TCPSocket`, tcp_two | a due event is dropped because another descriptor is ready (`psselect.c:302`) |
| `CalledOnlyWhileWatched`, two sockets | `TCPSocket`, tcp_two | one callback closes another socket whose copy is still to be called (`psselect.c:303`) |
| `RemovedIsUnlinked` | `PSEventList`, list | `ps_RemoveSelect` frees a cell after storing `ev->next` in `ev->prev` instead of `ev->prev->next`: after two registrations and the removal of the older one, its freed cell is still in the list (`psselect.c:391`, against `psselect.h:84`), and everything else has to live with it |
| `ListSound`, two sockets | `TCPSocket`, tcp_two | the same, seen from the sockets |
| `ConnectionAnnounced` | `TCPSocket`, tcp_two | `connect(2)` succeeds at once: no event, no `onConnect`, no `onData` (`pstcpsocket.c:685`, against the comment at 533) |
| `NotTriggeredOverAndOver`, `EventsMatchSockets`, `NoDescriptorLeak` | `TCPSocket`, tcp_any | a second `connect()` leaks the first descriptor and leaves an event that fires for ever (`pstcpsocket.c:284`, 646) |
| `WriteNeverKills` | `TCPSocket`, tcp_one | a second `write()` after a reset raises SIGPIPE (`pstcpsocket.c:877`) |
| `WaitsNoLonger` | `PSTimeouts`, timeouts | nanoseconds are multiplied by 1000 to get microseconds (`psselect.c:242`) |
| `EventsAfterScript` | `Reentry`, reentry | `README.md:86-88` says events are handled only after the script has ended; `include()` and `events()` handle them within it, and `include()` does not return while a socket listens |
| `LockedKeepsBase` | `JSStrings`, strings with `LocksMutable = TRUE` | a locked string that becomes dependent is not marked through, so its base goes (`jsgc.c:715-731`) |
| `FlatIsTerminated` | `JSStrings`, strings | when the new string of a concatenation in place cannot be allocated, the left one is left without its terminator (`jsstr.c:189`, against `jsstr.h:63-66`) |
| `RunsAsWritten`, `Programs <- Overwritten` | `TryFinally`, finally | a return in a finally block, itself abandoned by a break, has overwritten the pending return's value (`jsemit.c:1259-1263`) |
| `RunsAsWritten`, `Programs <- Pending`, `Extended = TRUE` | `TryFinally`, finally | `JSOP_GOSUBX` does not clear `cx->throwing` as `JSOP_GOSUB` does |
| `RunsAsWritten`, `Programs <- Guarded` or `Hosted` | `TryFinally`, finally | an exception that a host function or a guard's own try leaves pending or replaces is taken for the one being handled |

Seen while modelling and not stated: `close()` leaves `connected` true; the first copy
of every batch leaks (`CopiesKept`); an uncaught exception ends the program with events
pending, where `README.md:70-73` says it waits for them; a negative timeout makes
`select()` fail for every socket; a stale copy can end a connection attempt that a
callback has just started; the `UDPSocket` constructor refuses numbers, so that a port
asked for is never bound, and leaks its descriptor when it fails; with nested loops
`onData` may be called with an empty string; an assertion outside `run()`'s tests finds no test
to fail, one that fails after the verdict was printed changes nothing; `gcBytes`
may pass `gcMaxBytes` by what a recycled thing adds (`jsgc.c:590`); a table with a
failing `initEntry` would miscount removed entries (`jsdhash.c:540-549`), but the
program has none; tests of the form `!js_Emit1(...) < 0` (`jsemit.c:3610`, 3742) never
detect a failure. And in `jsscope.c`, where `JSScope` assumes that memory does not run
out: when a fork fails half way, the table refers to nodes that are not on the
scope's line, which the collector does not mark (1083-1096); when a root cannot be
allocated its hash entry stays without a node and the next look-up reads it (733-805);
a swept node's second child needs a new chunk in a parent that had no other child,
although the node's own is at hand, and if there is none the child is cut off
(`jsscope.c:629`, 1610, against the comment at 1568-1581). An overwrite that fails
may lose the property, if memory runs out again while it is put back, and keeps its
slot taken; the model has both.

## 5. Proofs

`TCPSocketProofs`, for any sets of sockets and descriptors:

* `TypeCorrect`, `OneEvent`, `Exclusive`: whatever the script does. `OneEvent` rests on
  `RemoveSelectDrops` and `AddSelectAdds`: adding removes first, so no descriptor occurs
  twice. `Exclusive` rests on `OwnerStep`: every step leaves the
  owners alone, or one object closes what it holds, or one object gets the lowest
  closed number; so "an open number has at most one owner, and a held number is open"
  is inductive.
* With `~BusyConnect`: `NoLeak` (the same step lemma; a socket that gets a number holds
  none), `EventsMatch`, `Notified`, and for one socket `OneSocketListSound`.
  `EventsMatchSockets` is inductive only together with `OneEventPerFd`,
  `DescriptorsExclusive` and the types: a removal by number is the removal of this
  socket's event because numbers are exclusive and events unique
  (`UnwatchMatches`, `WatchMatches`). It follows that `select()` never meets a closed
  descriptor (`NoBadDescriptor`), so the error callback never runs, and that is
  what makes the notifications ordered: `NotifiedInOrder` follows from
  `ToldMatchesState`, which ties what the script was told to the state field, and
  needs that no error callback intervenes.
* `Watched`, where `connect(2)` on an asynchronous socket answers "in progress": for any
  number of sockets, and with `BusyConnect`. It rests on `DescriptorsExclusive` (watching
  and unwatching another socket's number leaves this one's event alone: `WatchKeepsWatched`,
  `UnwatchKeepsWatched`) and on `UnmadeHoldNothing`. The other two answers break it: a
  connection made at once is never watched (a hazard of `PROJECT.json`), and an attempt that
  is refused at once after a `close()` while connecting leaves the state at "CONNECTING".
* `GivesUp`, for one socket and `~BusyConnect`. It rests on `CopyForCause`: a batch has at
  most one copy, only while it is handed out, and if the socket is pending that copy was
  made because the attempt failed or its time was over. With two sockets a stale copy of a
  socket that was closed and connected again breaks it.

`PSEventListProofs`, for any finite memory and any descriptors (`CellsAssumption`):
`ListIsWellFormed`, and `ListImplementsSequence`, which is the refinement of `PSEventSeq` and
so what entitles `TCPSocket` and `Reentry` to treat the linked list as a sequence. `PSEventSeq`'s
`dangling` stands for three things, a freed cell linked, a walk without end, a program astray;
`DanglingIsFreed` says that the first comes before the others.

* `IsPath` names the cells from the head to the Null, and what a list that ends comes to:
  no cell occurs twice (`PathInjective`), so `Walk` finds just these cells (`PathIsWalk`,
  `WalkIsPath`), and no list is longer than the memory.
* The inductive invariant `ListInv` says `InOrder` of the heap until a walk goes astray:
  every walk ends, every allocated cell is linked, and if no freed cell is linked the
  list `Fits` the registrations: same length, same descriptors in the same order, every
  cell allocated, every `prev` the cell before. The last is what makes it inductive: the
  removal reads `prev` to tell the first cell from others, and only a first cell with
  `prev` Null comes out of the list.
* `UnlinkFacts`: whatever the heap, the stores of the loop body change no `next` pointer.
  From it, `RemovedFacts` (a removal only ever advances the head past cells it has freed),
  `RemovedKeeps` (what is linked and freed stays linked and freed, which is why `dangling`
  never becomes false) and `RemovedFits` (on an undamaged list a freed cell stays linked
  exactly if the event was not the first).
* Adding has two cases, since `malloc` may return an address that is linked still.
  `AddCallFresh`: it is not, and then the new cell is no part of the removal. `AddCallReused`:
  it is, and then the removal, coming after the allocation and before the linking, frees
  the new cell as well; the list is damaged already, and the call leads astray, because
  no allocated cell shows the new registration.

`PSTimeoutsProofs`, for any units with `UnitsAssumption`, any finite number of events and any
timeouts of -1 or more (`RequestsAssumption`, `SlotsAssumption`): `Accounting`,
`TimespecsProper` and `SomeoneDue`. `DiffExact`, `UpdateExact`, `MinimumExact`, `ClockExact` and
`FromMsExact` say that each piece of arithmetic is exact; `Accounted`, the inductive
invariant, adds to `TimeAccounted` that each timespec is proper and that the clock has
not gone back since `select()` was entered. `SomeoneDue` rests on `WaitIsSomeones`: the
timeval of a wait was made of the timeout of some event that is still there. That needs
`MinimumOfSet`, of the fold over all events: the recursive function that `FoldSet` chooses
exists on a finite set (`FoldExists`), and what it returns is one of the timeouts.

`GCHeapProofs`, for any finite number of arenas, any size of an arena and of a chunk of
local roots, and any limit (`SizesAssumption`): `HeapIsSound`, `LocksAreCounted`,
`LocalRootsAreSound`, and the action properties `EverythingIsCollected` and
`OnlyFullFails`. The inductive invariant `HeapInv` adds to what the run checks

* what each phase of `js_GC` may rely on (`Collecting`, `PhasesAgree`): while things are
  swept, what is reachable and has not been swept is marked, so that `Live` is never
  final; the things swept are marked no more;
* `Precise`: unless a poke or a nested call has asked for another collection, what
  is left when the sweep has passed is what is reachable. It makes
  `EverythingIsCollected` and, since a failing allocation has just collected,
  `OnlyFullFails`;
* `LocksMatch`, which ties the flag, the count in the hash table and the calls together
  for both kinds of things;
* `WellFormed`, of the local root stack: the marks form a chain that goes down to 0,
  and no entry in between is a mark. `EnterFacts`, `PushFacts`, `LeaveFacts` and
  `ForgetFacts` show that the four operations keep it and say what becomes of the roots
  and of the number of chunks at a chunk's boundary.

`ReachShrinks` carries most of the steps: what becomes reachable in a step was so before.

`ReentryProofs`, for any sockets, tests, descriptors and nesting of calls
(`NoFdAssumption`, `FdsAssumption`, `MaxSentAssumption`, `MainAssumption`):

* `DatagramsAreKept` and `EventsMatchTheirOwners`, through `UDPInv`. It adds that queues
  have nothing in common and hold nothing unless a socket has their descriptor,
  without which a descriptor handed out again would bring another socket's data.
* `VerdictsTrue` and `CallsAreSound`, through `ReentryInv`. `Shaped` says who may be
  called by whom, and that nothing under a `run()` was called on behalf of a test;
  `BatchesSound` that, if loops do not nest in callbacks, each copy still to be called
  stands for a socket with data or a closed one, which is why `onData` is not called
  for nothing; `SuiteSound` and `CallsOfTests` how far `run()` has come, and that a
  test that was reported as passed has left neither calls nor open sockets behind.
  It is the last of these that makes a verdict final: nothing that could still fail
  an assertion in its name is left. It rests on `EventsMatchOwners`: where no event
  is left when a test returns, no socket is open.

`JSStringsProofs`, for any finite number of strings, any buffers, literals and widths of
the two fields (`BitsAssumption`, `StringsAssumption`) and with `~LocksMutable`:
`MemoryIsSound`, `ValuesAreKept`, `LentStay`, `CacheStaysFresh`. Without the last
assumption `LockedKeepsBase` of section 4 is false, and the base of a locked string may be
freed. The inductive invariant `StringsInv` has two parts.

* `Table` says of each string, and only of it and its base, that it is a proper part of
  its base (`DependsOnBase`), or flat and what its buffer begins with (`HasBuffer`), and
  that no two flat strings have the same buffer. That chains end follows from it: the
  strings of a chain get longer, so none occurs twice and there are no more than there are
  strings (`PathGrows`, `ChainFacts`). That `JSSTRING_CHARS` finds the value at the end of
  the chain follows too (`PartOfLast`, `CharsFacts`). `ReadingKeeps` shows that
  `js_MinimizeDependentStrings` keeps it, wherever its recursion limit and the width of the
  start let it stop; `BufferTaken`, `PartTaken`, `BufferPassedOn` and `BufferMoved` are the
  four ways in which the operations write.
* A dependent string is mutable, a locked one is not, and one whose buffer is lent is not
  either. This is why concatenation leaves a lent buffer alone, and why the collector may
  take a lock for shallow.

`DHashProofs`, for any keys and hashes, any sizes and any alpha bounds that the code
accepts (`SizesAssumption`, `HashAssumption`, `AlphaAssumption`): `TableIsSound`,
`KeysAreFound`, `HeldAreFound`.

* A search tries every entry (`ProbesCover`): its step is odd, an odd factor does not help
  to divide by a power of two (`OddFactor`), so the entries it tries are all different
  (`StepsDiffer`), and there are as many as the table has.
* `Sound` of a table: the search for a live entry's key reaches it, and what it passes
  before is a removed entry or a flagged one of another key. This chain is what the flag is
  for: it survives the removal of any entry it passes (`WithoutFacts`), and an addition
  either flags the way to the new entry or takes the place of a removed one with its flag
  (`PlaceFacts`, `Inserted`). That no key is there twice follows (`KeysOnce`).
* `RehashFacts`, by a least counterexample over the entries that `ChangeTable` has come to:
  the new table has the same keys and no removed entry. It needs that the new table has
  room (`AddStep`, `RemoveOfOK`, `EnumerateStep`), which is where the alpha bounds and the
  arithmetic of the sizes come in.
* `HeldInv`: a key for which an entry is kept is in the table, and the entry is its own
  while the generation is the one that was kept.

Model-checked only: liveness (`AttemptAnswered`, `LoopTerminates`, `Terminates`, `Ends`); the
properties of `GCMark` and `JSScope`; and `TryFinally`, whose
compiler and meaning are recursive. What a recursive function computes for every input is out of the
prover's reach; where a least or a greatest counterexample among numbers does
instead it is used: `NumbersAndLists` has `Least`, `Greatest`, `UpTo`, which is induction over
a set of numbers, and `PrimitiveRecursion`, which says that such a function exists. So the
walk of a list, what it shows and what a removal makes of it are recursive functions that
`PSEventListProofs` reasons about through the equations they satisfy (`StepFacts`,
`ShowingExists`, `RemovingExists`).

## 6. Not modelled

Of the host classes: the data of a TCP connection (`read` and `write` change the
kernel's state only), datagrams over 256 bytes, name lookup, allocation failure,
descriptors beyond `FD_SETSIZE`, out-of-band data, the handler setters (a handler that
was never set makes the call of the script function fail, which changes nothing
here), finalizers.

Of the engine, 80,000 lines of SpiderMonkey 1.6: the parser, the scanner, the
decompiler, XML, regular expressions, dates, numbers, arrays, functions, the getters
and setters and the prototypes of objects, serialization of scripts. They are sequential functions from
input to output; what the models take is where state is shared between callers,
between a caller and a callback, or between a thing and the collector. Also not
modelled: the property cache, objects that share a scope until they are written to, the arenas of `jsarena.c`, the
marking of frames and atoms, and of `js_Interpret` every operation that `TryFinally`
does not need. The threading primitives are compiled out. `js/jsd`, LiveConnect,
PerlConnect, `fdlibm` and `editline` are bundled and not linked or without state.

## 7. Plan

1. Done: the modules above and the theorems of section 5.
2. `Connection`: what one socket promises a script, as a specification of its own
   (connect, then onConnect or onIOError, then onData, then onClose or onIOError), and
   `TCPSocket` shown to implement it for each socket.
3. Proofs: the lines of `JSScope`; the pointer reversal of `GCMark`.
4. Scopes shared by an object and its prototype until one is written to, and the
   property cache, on top of `JSScope`.
5. `TCPStream`: the bytes: `read` until EAGAIN, partial `send`.
