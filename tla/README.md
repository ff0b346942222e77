# TLA+ project for libeventLearn

The repository is a study of event-driven network programming: one complete
program, an epoll reactor (`src/reactor/reactorServer.cpp`), an earlier epoll
demo with its client (`src/epollDemo/`), excerpts of libevent's internals typed
in by hand (`src/event2/`, `src/log.c`), and small programs that use the real
libevent (`src/eventBaseDemo/`). This directory holds TLA+ models of the code
that has behaviour of its own, TLC configurations that check them, and proofs
that TLAPS checks. Paths below are relative to the repository root.

## 1. Inventory

| Component | State it keeps | Operations | Hard behaviour | What makes it correct |
|---|---|---|---|---|
| **Reactor server** `src/reactor/reactorServer.cpp` | slot table `g_events[1025]`, `checkpos`, epoll list behind `g_efd`, event array of one `epoll_wait` | `event_set`, `event_add`, `event_del`, `acceptconn`, `recvdata`, `senddata`, sweep and dispatch loop of `main` | slots and descriptor numbers reused while events that name them are in hand; timeouts racing data; partial sends; an uninitialised slot index | slots, epoll list and descriptors agree; replies go to their sender; silent clients are closed and others are not; the listener survives |
| **Epoll demo server** `src/epollDemo/epollServer.cpp` | one global 4096-byte buffer, epoll list | accept, read 5 bytes and upper-case, write back, write again on EPOLLOUT | tests the first array entry for every event; every call blocks; edge- then level-triggered | every event handled as what it is; no call blocks for ever; what is sent is answered |
| **Epoll demo client** `src/epollDemo/epollClient.cpp` | `recvline[1025]`, `count` | send 100 bytes, read until a short read | blocking read against a server that answers in pieces; `recvline + count` | never writes past `recvline`; goes on reading lines |
| **Min-heap** `src/event2/minheap-internal.h` | array `p`, `n`, `a`; `min_heap_idx` in each event | push, pop, top, erase, adjust, reserve, three shifts | inverted test in `top_`, hole and parent mixed up in the shifts, indices modulo 2^32 over memory nobody wrote, realloc that fails | array is a heap, indices name positions, every loop ends |
| **Timeval macros** `src/event2/util.h:174-196` | none | add, sub, clear, compare | carry and borrow of microseconds, results used again | results stand for the right time; order is that of the times |
| **Logging** `src/log.c`, `src/event2/log-internal.h` | `fatal_fn`, `log_fn`, debug mask, `buf[1024]` | `event_logv_`, `event_log`, `event_exit`, the `event_err` family, setting callbacks | splice of the error text; callbacks that return, log, or set callbacks | both writes stay in `buf`; fatal errors do not return; the exit code is the last one told |
| **bufferevent callbacks** `src/eventBaseDemo/buffereventwatermark.cc`, `buffereventdemo.cc` | `info.total_drained`, `struct count`, the contexts' lifetime | read, event, upper-case, proxy, Fibonacci callbacks, set-up | callbacks called for bytes that come in only; context freed while callbacks are due; `tmp[n]`; unsigned wrap-around | no bytes forgotten, all counted once, nothing used after it is freed, loops that end |
| **Event loop demos** `src/eventBaseDemo/eventLoopDemo.cc`, `eventnew.cc` | events and flags of an `event_base` | `loopexit` + `dispatch` loop, watchdog `loopbreak`, persistent read event with timeout beside a write event | a `loopexit` left pending by an early end of the loop or never set; a timeout racing data | ticks ten seconds apart, for ever; a timeout means silence; no event starves |
| **Event set-up macros** `src/event2/event.h`, `event_compat.h` | fields of `struct event` | `evtimer_`, `evsignal_`, `evuser_`, `timeout_`, `signal_` assign, new, add, del, trigger | a macro that ignores its arguments; signals between add, del and callback | an event added for a signal hears of it |
| **List check** `src/event2/util-internal.h:91-116`, `event_struct.h` | two pointers that chase each other, a pointer to a cell | `EVUTIL_ASSERT_LIST_OK` | lists with cycles | ends, passes lists and nothing else |
| **event, event_base** `src/event2/event_struct.h`, `event-internal.h` | flags, results, timeouts, loop state | libevent's, not in the repository | none of its own | modelled as far as the demos and macros use them |
| other headers, feature report, build files | declarations only | none | none | not modelled, section 7 |

How they interact: the reactor and the epoll demo talk to the kernel
(`accept`, `recv`, `send`, `close`, `epoll_*`) and through it to TCP clients;
the epoll demo's client and server talk to each other. The min-heap compares
with the timeval macros, and so does its model. `EVUTIL_ASSERT` of the list
check ends in `event_errx` of the log. The event-loop and bufferevent demos run
inside the external library, which calls their callbacks; the set-up macros make
the events that library's loop runs. What drives the min-heap, the list check and
the logging calls is not in the repository, so their callers are any program that
keeps the contract named in the module.

## 2. Modules

| Module | What it is |
|---|---|
| `Sockets` | External world of the reactor: descriptor table `fdt`, level-triggered interest list `interest`, accept queue `backlog`, TCP state `sock` of each client, results of the system calls, actions of the clients. Modelled from how the reactor uses them. |
| `Reactor` | `reactorServer.cpp`: slot table and event loop. |
| `ReactorProperties` | What the reactor promises, and the statement of its comments that the code does not keep. |
| `EchoService` | The abstract service: connections wait, are admitted up to a capacity, take turns of request and reply, are dropped, or are turned away and forgotten. |
| `ReactorService` | The refinement mapping from `Reactor` to `EchoService`: `stage` from the slot that holds a connection and its callback, `mode` from `clobbered` and `pc`. |
| `EpollWire` | What lies between the epoll demo's programs: one connection per client with the bytes in both directions, over blocking sockets. |
| `EpollServer`, `EpollClient`, `EpollDemo` | `epollServer.cpp` and `epollClient.cpp`, each over `EpollWire`, and the two composed: a client's bytes and end of file are the server's edges; fairness; what they promise. |
| `TimeVal`, `TimerWalk` | The timeval macros as operators; sequences of them, each result the operand of later ones. |
| `MinHeap` | `minheap-internal.h` over `TimeVal`: one iteration of a loop is a step. |
| `Log` | `log.c`, with callbacks as user code that logs in turn. |
| `Bufferevent` | External: a socket bufferevent as its callbacks see it. |
| `BufferCallbacks` | The callbacks and set-up functions of the two bufferevent demos. |
| `EventBase` | `struct event`, `struct event_base` and, external, the loop that works on them. |
| `LoopDemo`, `NewDemo` | `eventLoopDemo.cc` and `eventnew.cc`, each an instance of `EventBase`. |
| `EventKinds` | The macros that set up, add, delete and trigger events, over `EventBase`. |
| `ListCheck` | `EVUTIL_ASSERT_LIST_OK`. |
| `EventParts` | The parts that run by themselves (`EventKinds`, `TimerWalk`, `LoopDemo`, `NewDemo`, `ListCheck`) in one specification: a behaviour is one of a part chosen at its beginning, under the fairness that part's module states. |
| `MCReactor`, `MCHeap`, `MCLog`, `MCBuffer`, `MCParts` | Instances for TLC: symmetry, sets of values, state constraints. |
| `ReactorProof`, `RegistryProof`, `ServiceProof`, `EpollProof`, `HeapProof`, `LogProof`, `PartsProof`, `BufferProof` | TLAPS proofs, section 4. |

### Reactor: state and actions

`g_events` is a function from `0..MAX_EVENTS` to records with the fields of
`struct myevent_s`. Three of them are abstracted: `arg` always is the slot's own
address and is dropped; `last_active` becomes `age`, the time since, saturating
at `TIMEOUT`, the only value it is compared with; the contents of `buf` become
`from` and `got`, whose bytes they are and how many were received. `pc` says
where `main`'s loop is, `batch` which events of the last `epoll_wait` are still to
be handled, in any order. `clobbered` is a history variable: `acceptconn` has
stored a connection over a slot whose `status` was 1.

| Action | Code |
|---|---|
| `Sweep` | the for loop of lines 228-244, all of its window at once (nothing in it waits and it reads the clock once) |
| `Wait`, `WaitError` | `epoll_wait` and its error exit, 247-251 |
| `Skip` | neither `if` of 255-261 applies |
| `AcceptFail/Store/Leak/Wild` | `acceptconn`: accept fails; stored in a slot; limit branch or `fcntl` failure; index outside the table |
| `RecvSome`, `RecvEnd` | `recvdata`: bytes, or end of file and errors |
| `SendSome`, `SendFail`, `SendKilled` | `senddata`: something sent, nothing sent, SIGPIPE |
| `Clients`, `Tick` | the environment: connect, send, read, FIN, reset; a second passes |

A client may act between any two of these steps, so an event in `batch` may be
out of date with the socket, and a client's bytes may arrive after the
`epoll_wait` that the next sweep relies on.

Undefined behaviour. (1) `acceptconn` line 113 declares an inner `i`; the
outer one (line 102) is never assigned. `StrayIndex` is the set of values it may
have; the action takes any. A value outside `0..MAX_EVENTS` is a wild write, kept
as the end of the process (a silent corruption of other memory is not
modelled). (2) Line 153 writes one byte past `buf` when `recv` filled it. The next
member is `len`: on a little-endian machine 128 becomes 0, unless the compiler
stores `len` last. `StoredLen` allows both.

### Epoll demo: state and actions

The server handles one event between two points where it may block, so `pc` is
`wait`, `dispatch`, `accept` or `write`, and a `write` proceeds by what the kernel
takes (`task` says to whom, how much is left, and whether it is the answer of
line 121 or the second write of line 134). `buffer` is whose bytes the global buffer
holds. `batch` is handled with the entry `first` (`my_event[0]`) first, the others in
any order, since only the first one's place matters to the code. A connection
stands for its descriptor number: the server closes a number only in the step
that handles its event, so no event in hand outlives its number. `watch` is how
epoll watches a connection, `fresh` the edges not reported yet: EPOLLET lasts from
line 101 until the first EPOLL_CTL_MOD. `skipped` is a history variable, the clients
whose event the first-entry test took for the listener's.

| Action | Code |
|---|---|
| `Wait` | `epoll_wait` without a timeout, line 84 |
| `CallAccept`, `AcceptConn`, `AcceptRefused` | lines 88-103; `client_len` is never set, so the kernel may refuse it |
| `ReadFails`, `ReadEnd`, `ReadSome` | lines 104-121, with `n` < 0, = 0, > 0 |
| `WriteBuffer`, `WriteSome`, `WriteLost`, `Sigpipe`, `WriteDone` | both writes, `memset`, EPOLL_CTL_MOD |
| `Connect`, `TypeLine`, `SendLine`, `ReadReply`, `ReadNothing`, `Quit`, `LostServer`, `Crash` | the client: connect, `fgets`, `send`, `read`, end of input, a connection the server has closed, the aftermath of writing past `recvline` |

`strlen(buffer)` may be anything up to what was read, because the client sends its
whole array, NUL bytes included. `setnoblocking` calls `fcntl(fd, F_SETFL)` without
the flags, so whether a client's socket blocks is undefined, but once for all: `NonBlocking`
is the set of clients whose socket does not. Their `send` takes what there is room for, or
fails, and `main` goes on to read either way; their `read` may find nothing (`ReadNothing`). A
client whose socket blocks waits in `send` until there is room for the whole array, and in
`read` until something comes.

### Min-heap

`cell` is the array `p`, `n` and `a` its count and capacity, `idx` the
`min_heap_idx` of each event. `Push`, `PushFails`, `Adjust`, `AdjustNew`, `Erase`,
`Dtor` are the calls, `Lift`, `Climb`, `ShiftUp`, `ShiftDown` the iterations of the
shift loops, in the order of the code's writes. Everything the header gets wrong is
kept: `min_heap_top_` gives NULL unless the heap is empty (so `PopFaults` and
`TopFaults`), `shift_up_` and the end of `shift_down_` write the parent's or the
child's cell instead of the hole's, an erase through the shift-up branch leaves
the element's index. Undefined behaviour: memory from `realloc` holds any of
`Junk`; an access outside the array ends the process or is survived. The first
push meets it: the parent of 0 is `(0u - 1) / 2`, whose cell on a 32-bit machine is
the word before the array, since `4 * 0x7fffffff` wraps to -4. Histories: `member`
(the events the caller pushed), `below` (an erase has taken `n` below zero), `had` (the
pointers in the array when an adjust began).

### Logging

A stack of frames: a logging call, or user code (the program, frame 0, or a
callback). A frame's `at` is `logv` (in `event_logv_`), `said` (the text is
delivered), `told` (`fatal_fn` was called) or `user`. A text is what became of it: how
many characters of the message it keeps, whether the text of errno shows, the
index of the last byte written. `event_logv_` passes its `va_list` to
`evutil_snprintf` as if it were the first argument, so a message with a conversion has
any length (`Texts`) or ends the process (`Misread`); the error text is written at
its own length instead of the message's (`Spliced`). `event_errx` passes
`strerror(errno)` like `event_err`. `EVENT_LOG_WRAN` and `EVENT_LOG_WARN` are taken as one.
`event.h:74` declares `event_set_fatal_callback`, `log.c:36` defines
`event_setfatal_callback`; the latter is modelled.

### bufferevent callbacks

`bev` is the external bufferevent: its two buffers as counts, its low mark, which
callbacks are due. A read callback becomes due when bytes come in and the mark is
reached, not because of bytes that are there; callbacks are deferred, the event
callback comes last. `info` and `last_fib` are the contexts, `running` the loop that
runs. `main` of `buffereventwatermark.cc` calls none of its callbacks and
`setup_bufferevent` as it stands dereferences NULL (`b1`): `SetupFaults`; the other
actions are those of a program that completes it. `read_callback_uppercase` turns
`tmp[n]` too, past the array when `tmp` is full (`UpperFaults`: survived or not).
`read_callback_proxy` takes the bufferevent for its context; what then happens to the
input is left open, and so is the end of the process. Memory of evbuffers does
not run out.

### Event loop, set-up macros, list check, timevals

`EventBase` has one priority, one thread and no flags; active events run in any
order; a persistent event's timer starts again when its callback runs (`Restarts`), and one
without a timeout stays inserted only if it was (`Stays`).
`LoopDemo` runs turns of `event_base_loopexit` (`Turn`, `TurnFails`: the
result is not looked at) and `event_base_dispatch`; a watchdog's callback breaks the
loop and leaves that turn's loopexit pending for a later one. Histories: `breaks`, the turns
broken, and for the ten seconds after a tick that the model watches, any one of them, `since` and
`count`, the time and the turns that have ended since then, those whose own loopexit had failed
aside. `main` only ticks, a program here may add watchdogs first as `main_loop` does. `NewDemo` is `main_loop` of
`eventnew.cc`, whose `main` calls nothing. In `EventKinds` a program calls the macros,
from outside the loop and from callbacks, on events that are not active;
`evsignal_assign` drops the signal it is given. A signal nobody is added for may
end the process. In `ListCheck` the pointers may be anything that leads to an element
or NULL; the macro uses `filed` for its parameter in places, so it works only for links of that
name. `TimerWalk` walks through timevals by add, subtract, clear and exchange.
`PartsProof` states its theorems of `EventParts`, the specification the run `parts`
checks; lemmas (`KindsRun`, `ReadsRun`, `TicksRun`, `ListRuns`) say that each part there runs as its
own module says.

Small slips such as `event_set_KeepsAge` or `Window_NoWrap` stand next to the
definitions they are variants of: each is a plausible bug that breaks one
property, and shows that the property depends on that line of the code.

## 3. Runs

| Run | Checks | Instance | What it shows |
|---|---|---|---|
| `reactor_table` | `TypeOK`, `RegistryAgrees`, `SlotOwnsConn`, `BatchFresh`, `HeldUntilClosed`, `ServiceKept` | 2 clients, 2 slots, 3 numbers, window 2 | until a slot in use is overwritten, what epoll watches is exactly what the live slots say, no two slots share a number, no event in hand is stale, a connection stays in the table until closed, and the loop implements `EchoService`, sweeps that end both connections in one step included |
| `reactor_bytes` | `ListenerIntact`, `CallbackReady`, `EchoHonest`, `CloseJust` | 2 clients, 1 slot, any index, failing `fcntl`, buffer 3, up to 4 unread bytes | what survives overwritten slots: the listener and usable callbacks; only a client's own bytes are sent back, and a client that reads its replies loses the connection, timeouts apart, only for a full buffer (line 153) |
| `reactor_live` | `IdleClosed`, `TimeoutJust` | 1 client, 3 slots, window 2, TIMEOUT 2 | with a window smaller than the table every silent connection in a slot is closed in the end, and the sweep closes only clients silent for TIMEOUT or with bytes still unread in the kernel |
| `epoll_echo` | `TypeOK`, `EchoPrivate`, `EdgeKept`, `Answered` | 2 clients, lines of 2 reads, second write of 3 units, 3 units of room; one client's socket blocks, the other's does not | the shared buffer never leaks a client's bytes to another; no edge is lost but through line 88; what is sent is answered but for the named ways to get stuck |
| `heap` | `TypeOK`, `NInArray`, `NoPointerLost`, `LoopsEnd` | 3 events, 2 timeouts, arrays of 2 and 4 cells, junk that is an event or none | the count stays in the array through failed and granted `realloc`s, an adjust upwards is a permutation, every loop ends over any array |
| `log` | `TypeOK`, `LastWords`, `TextFits`, `FatalStays` | buffer 8, messages of 3 and 9, error texts of 3 to 5, 3 nested calls | fatal calls do not return and end with the code last logged and told; no write leaves the buffer |
| `buffer` | `NothingForgotten`, `BytesAccounted`, `LiveTogether`, `FibContinues`, `CallbacksReturn` | one bufferevent per kind of callback, two in use at a time, mark 2, `tmp` 2, `unsigned long` of 8 bits | no bytes wait that no callback is due for, counts and reports are true, contexts die with their bufferevents, the numbers go on past the wrap, callbacks return |
| `parts` | `SumExact`, `OrderExact`, `DifferenceShort` (timevals), `TicksSpaced`, `Leftovers`, `TicksGoOn` (ticks), `TimeoutMeansSilence`, `HeardAgain` (read and write event), `NewOnesHear` (set-up macros), `Verdict`, `Ends` (list check) | a second of 4 microseconds; 2 watchdogs, 3 loopexits, 2 seconds; 3 seconds; 2 events, 2 signals; 3 elements | the smaller parts, each by itself |
| `reactor_leak` | `SilentClosed` (violated, FairSpec) | 1 client, 1 slot, any index in the table | comment of line 227 against the unassigned index and the branch of line 121 |
| `epoll_first` | `AcceptsForListener` (violated) | 2 clients | comment of line 87 against the test of line 88 |
| `epoll_stuck` | `KeepsReading` (violated, FairSpec) | 1 client whose socket blocks | the client's comment of line 72 against two programs that wait for each other |
| `heap_smallest` | `SmallestOnTop` (violated) | as `heap` | the comment on `timeheap`, event-internal.h:121, against the shifts |

Bounds. Reactor: `MAX_EVENTS` 1 to 3 for 1024, `SWEEP` 1 or 2 for 100, `BUFLEN` 2 or 3
for 128, `TIMEOUT` 1 or 2 for 60. The code uses these numbers only in comparisons, so
what matters is that the window is smaller than the table (slots skipped, then
reached), that it wraps (with 3 slots and window 2 in the middle), that a
message can be shorter than, equal to and longer than the buffer, and that
there are two slots and two clients to confuse. There are as many descriptor
numbers as clients plus the listener's, so a number freed by one client is the
next one's, and with a leaked descriptor `accept` runs out. `InboxCap` bounds the
unread bytes of a client. Runs whose promises end with `clobbered` may cut the
behaviours there (`CONSTRAINT Unclobbered`): `clobbered` never becomes false again,
so nothing such a promise says is lost. Clients are symmetric where only safety
is checked.

Epoll demo: one read takes 1 unit (5 bytes), a line is 2 (100 bytes), the second
write 3 (4096), one client read 2 (1024), and the client's queue holds 3, or 4 where the
two programs are to block each other with one client (there a client read takes 5, more than
can be queued, so that `recvline` is not overrun and the stop is not a crash), so that
a line takes more than one read, the second write more than one client read, and
a few answers fill the queue. Two clients are enough for a batch of a client's
event and a connection request, and for two owners of one buffer.

Min-heap: three events and an array that grows once, so that a parent has two
children and a cell of junk; `Wrap` is 2^16 for 2^32, larger than any index by far as
in the code. One of the events always has the earlier timeout (`MCEarly`). Behaviours go a little way
past the point where `n` has gone below zero (`MCBelow`): there an adjust may read a parent
outside the array (`AdjustFaults`), and nothing but types is promised. Log: `MaxDepth` 3 lets a callback log a fatal error
from within the callback of another; a message longer than the buffer and error texts that fit
behind it, just fit and do not. Buffer: no callback touches a bufferevent but
its own, so two in use at a time show every interleaving (`MCInUse`); `MaxMade` 20 takes
the Fibonacci numbers past 8 bits; `MaxReceived` and the bound on the output end histories
that nobody drains. Parts: `Onces` is one more than the watchdogs can leave behind; every
arrangement of `lh_first`, `le_next` and `le_prev` over three elements is an
initial state, among them cycles of length 1 to 3 with and without a tail;
`MaxSec` and `MaxUsec` bound the walk.

Deadlock is checked for the reactor. The other programs may really stop: the epoll demo blocks, the
process of the log ends, a heap is freed, a callback's process faults, the list check is over.

Fairness. `FairSpec` of the reactor assumes weak fairness of the server's steps and of time. The
loop never blocks: the listener and the clients' sockets are non-blocking and
`epoll_wait` has a timeout, so a process that is scheduled keeps going.
`WaitError` is not part of the fair steps, and no client need ever do anything.
In the epoll demo the server is fair while it is not blocked (a blocked call is a
disabled step), clients send, read and notice a closed connection, and users go
on typing lines; nobody need ever end the input. The heap's and the callbacks' loops are
straight-line code that the process goes on with (`Loop`, `Iterate`); no caller need
call. In `LoopDemo` and `NewDemo` the process runs (a turn, the loop, callbacks) and time passes;
descriptors need never be ready. `LoopDemo` is fair to a turn, whether its loopexit fails or not, and
`NewDemo` to the callbacks together and not to one of them: that the read event is heard
is the loop's doing, which runs every active event before it sleeps again. `EventParts` takes these over as `Turns`, `Time` and `Steps`; exactly
one part runs, so each is that part's own.

## 4. Proofs

Eight modules hold theorems; what they assume are the named assumptions of the modules
they extend (`SocketsAssumption`, `ReactorAssumption`, `WireAssumption`, `ServerAssumption`, `ClientAssumption`, `MinHeapAssumption`,
`LogAssumption`, `MillionAssumption`, `StartAssumption`, `KindsAssumption`, `PartsAssumption`, `CallbacksAssumption`), which TLC
evaluates. `PartsAssumption` has the elements of a list finite in number, since they lie in memory.
Every invariant, action property and refinement that a passing run checks is the property of a theorem.

* `ReactorProof`, for every table size, buffer, window, timeout, set of clients and of stray
  indices. `TypeCorrect`: the content is in `SweepRange` (the window stays
  on client slots, `checkpos` in the table), `RecvBytes` and the lemmas on the
  helpers. `ListenerSafe`, `CallbackSafe`: `ListenerIntact` and `CallbackReady` hold even after
  slots have been overwritten. Neither is inductive: a stale slot closes
  whatever number it still names. `Guarded` adds that no client slot ever names the
  listener's number, dead slots included, and that every event not the
  listener's leads to a client slot whose callback is set and fits its direction.
* `RegistryProof`: `RegistrySafe`, `OwnershipSafe`, `BatchSafe` and `EchoSafe`. The first three are
  proved together (`Matched`), each needing the others:
  re-registering by number touches one slot only because numbers are not shared;
  an event is still its slot's because the events before it left that slot alone;
  a sweep finds no event in hand.
  `EchoSafe` rests on them: a number a slot is about to send to has not been given to
  another client, because only its own slot closes it (`HonestStep`, one lemma per action).
  What is kept of a slot about to send (`Stored`) also says that its length is 0 only behind a full
  buffer, which `CloseSafe` below needs.
* `ServiceProof`: what the clients see. `ServiceImplemented` is the refinement: `InitService`, then
  every step of the loop under the mapping of `ReactorService` (`Stage`, `Mode`) is a step of
  `EchoService` or none. A client step, a read, a send and a close each change the stage of one
  connection and leave the others' (`StageFacts`); a sweep ends a set of them at once. Two facts
  carry it. `Placed`: a client's connection is in one place, the backlog or one number; it is about
  the kernel and holds whatever is overwritten. And the service has room whenever the
  reactor stores a connection: the connections admitted inject into the live slots, of which the
  one stored at is not a member. `HeldSafe` follows from the same steps. `CloseSafe`
  (`CloseJust`) needs that a connection reported readable is still so at its
  turn (`Heard`), else an empty `recv` would close it, and `Stored`. `TimeoutSafe` (`TimeoutJust`)
  needs `Silent`: the age of a slot never exceeds the silence of a client whose bytes it has read.
* `EpollProof`: `EchoPrivateSafe`, `EdgeSafe`, `EpollTypeCorrect`, for all sizes and any number of
  clients. `EdgeKept` needs that a read never fails on an edge-triggered connection (line 112 would leave
  it watched and silent), which holds because only a client with unread
  replies resets, and before its first answer there are none (`Untouched`);
  `InHand` says that the server never works on a connection it has closed.
* `HeapProof`: `HeapTypeCorrect` and `ArraySafe`, for any memory, any outcome of
  `realloc` and number of events. The invariant adds to `TypeOK` that `n` stays below the
  modulus and in the array; the arithmetic modulo `Wrap` is in `Unsigned`. `PointersKept`:
  a step of the climb swaps what the hole would hold with the parent's cell (`Swapped`), and a swap
  leaves the number of cells of each pointer alone (`SwapCount`, a bijection of preimages); the
  invariant (`Whole`) adds that the hole is a cell of the array, and not the root before its first move.
* `LogProof`: `LogTypeCorrect`, `LastWordsSafe`, `FatalStaysSafe`, and `TextFitsSafe` for any
  buffer larger than three and texts of any length. `LastWords` needs what a frame that has
  told `fatal_fn` still knows after the callback has logged: that every frame above
  it has been popped, and that a fatal frame is never popped.
* `PartsProof`. Timevals: `SumCorrect`, `OrderCorrect`, `DifferenceCorrect`, for all timevals; lemmas
  `SubShort` and `SubNormal` say what the borrow of `evutil_timersub` computes. Set-up macros:
  `NewOnesHearAlways`; the invariant says of each event what the macro that set it up
  left in it (`evsignal_assign`: nothing), and that one that is added for a signal stays inserted until it is
  deleted, whatever the loop, signals and other calls do. Read event: `TimeoutsAreSilence`, because
  what its timer has left and the silence so far never make less than the timeout (`Waiting`).
  Ticks: `LeftoversAreFew`, by counting the pending loopexits through adding one, running one and
  breaking (`Counted`), and `TicksAreSpaced`: a turn ends within ten seconds
  of the watched tick only by a break or by a loopexit set before that tick (`Soon`: those active or due
  before the ten seconds are over), and of these there are, with the turns that have
  ended and the one about to end, no more than breaks (`Spaced`).
  List check: `VerdictIsRight`, for lists of any length: what the walk has passed is a chain from the head whose
  back pointers fit (`Passed`), so a check that ends well has passed a whole list. On a list the two pointers of the
  chase are at two different places and the walk is at one of its elements (`Unfailing`), so none fails.
* `BufferProof`: `NothingForgottenSafe`, `BytesAccountedSafe` and `LiveTogetherSafe`, for any
  bufferevents, low mark, size of `tmp` and bound on unread bytes. They are proved together
  (`Sound`): what `event_callback` prints is true because it comes only when no read callback
  is due, so by `NothingForgotten` less than a mark is left; it stays true because a freed
  bufferevent is not used again (`Fresh`). `CallbacksAssumption` says that the
  bufferevents of `setup_bufferevent` and of `read_callback_uppercase` have no second callback set.
  `FibonacciContinues`: `FibContinues` compares `last_fib` with a recursive function, tabled up to
  `MaxMade`, a constant no action reads, so the theorem covers callbacks of any number. That the
  table satisfies its equation is an induction over a set of naturals (`Induct`, by the least
  element outside it); the sums modulo an unsigned long are `SumWraps`.

Layout: one lemma per action, lemmas that collect them, the theorem adds
`PTL`. TLC checked each invariant on the runs' instances before it was proved. Only model-checked is liveness, which is
out of the prover's reach: `IdleClosed`, `Answered`, `LoopsEnd`, `CallbacksReturn`, `TicksGoOn`,
`HeardAgain` and `Ends`.

## 5. Findings

* `reactor_leak`: line 227 says that a client silent for 60 seconds is closed. The index of
  `acceptconn` is never assigned (line 113 declares another `i`). When it equals `MAX_EVENTS`, the branch of
  line 121 leaves the accepted descriptor neither stored nor closed, and the sweep looks only at slots: in
  the run it stays open for ever. A failed `fcntl` does the same (line 126), and so does, with two clients, an index
  whose slot is in use: the connection that loses its slot is never seen again. With
  indices of client slots, no failing `fcntl` and no slot overwritten the property holds, so these are its causes.
  The consequences of an overwritten slot go further: its old descriptor stays registered with a pointer
  to it, and the next event runs the callback on the new connection's number.
* `epoll_first`: line 87 says "if fd == listen_fd", line 88 tests `my_event->data.fd`,
  the first entry, for every `i`. A client's event behind a connection request is
  handled by a second `accept`, which blocks until somebody else connects, and
  the client's edge is spent.
* `epoll_stuck`: line 72 of the client says it keeps reading lines. The server
  writes over 4 KB for every 5 bytes it reads, the client reads one short read
  per line; both queues fill, the client blocks in `send`, and the server can
  write no more.
* `heap_smallest`: `event-internal.h:121` calls `timeheap` the min-heap that manages time. `shift_up_`
  (line 166) writes the parent's cell instead of the hole's. The first push has its hole at 0, whose
  parent is `(0u - 1) / 2`, outside the array: if the process survives that write, the array of one
  event does not hold the event pushed.
* Stated exactly by a property that holds: a difference that borrows is two seconds of
  microseconds short and never normal (`DifferenceShort`, util.h:189); an event added for a signal hears of it
  if `evsignal_new` set it up and never if `evsignal_assign` did (`NewOnesHear`, event.h:114); within ten seconds
  of a tick there are at most as many early ones as there were `loopbreak`s, failed loopexits aside
  (`TicksSpaced`, `Leftovers`), and ticks stop for good only when a loopexit failed with a watchdog
  still pending (`TicksGoOn`); a timeout that comes together with data shortens the next one
  (`TimeoutMeansSilence`).
* Modelled, without a property that says it should be otherwise, since no document does: a message of exactly
  `BUFLEN` bytes loses its reply and the connection (line 153), the rest of a short
  send is dropped (line 180), SIGPIPE and any `epoll_wait` error end the server, a
  timeout may close a client whose bytes the server has not read yet; the error text of a log message is
  written at its own length (log.c:130; `TextFits` only bounds it and lets nothing else cut a
  message); `read_callback_uppercase` turns `tmp[n]` (buffereventwatermark.cc:93); a second
  `min_heap_erase_` of an event removes another one (minheap-internal.h:98; `below` is where
  `NInArray` ends).

## 6. What could be added

The safety half of the liveness properties: for the loops of the min-heap and the list check, a
measure that every iteration lowers; for `Answered`, an invariant that names what a stuck
client waits for. What the reactor still keeps after a slot in use has been overwritten, besides the
listener and the callbacks.

## 7. Not modelled

* `event_baseDemo.cc` prints what the library supports; `evbufferdemo.cc` and
  `evconnlistenerdemo.cc` contain no code; `event_config.h` and the build files have no behaviour.
* Declarations and structures of libevent whose functions are not in the repository:
  the evmap, changelist, evsignal, time, mm, thread, keyvalq and ipv6 headers, the rest of
  `event.h`, `util.h`, `event_struct.h`, `event-internal.h`.
* Macros that cannot be used as typed: `evuser_del` and `timeout_pending` call what is not
  declared so, `evsignal_initialized` has no parameter; the TAILQ macros and
  `EVUTIL_ERR_IS_EAGIN` do not compile. `evuser_pending` asks `event_pending` for no events.
* Contents of messages, wording and printing; `bind`/`listen` failures at start-up; the accept
  queue's limit of 20; clock jumps and the 2038 limit of `last_active`; overflow of
  `tv_sec`; memory exhaustion inside evbuffers; what a write through
  `read_callback_proxy`'s bad cast does to an `event_base`; priorities, threads and flags
  of libevent's loop.
