------------------------------- MODULE Reactor -------------------------------
(***************************************************************************)
(* The single-threaded epoll reactor of src/src/reactor/reactorServer.cpp: *)
(* an echo server whose event loop sweeps a window of its slot table for   *)
(* silent clients, waits for events, and calls back the slot each event    *)
(* points to.                                                              *)
(*                                                                         *)
(* The loop is split into steps wherever a client can act in between: one  *)
(* Sweep, one Wait, one callback per reported event.  Names are the        *)
(* source's; age stands for now - last_active, from stands for the         *)
(* contents of buf (whose bytes they are, received how many).              *)
(***************************************************************************)
EXTENDS Sockets

CONSTANTS
  MAX_EVENTS,   \* client slots; slot MAX_EVENTS is the listener's
  BUFLEN,       \* bytes one recv may take
  SWEEP,        \* slots tested for silence in one turn of the loop (100)
  StrayIndex,   \* what the uninitialised i of acceptconn may hold
  FcntlMayFail  \* whether fcntl(cfd, F_SETFL, O_NONBLOCK) may fail

ASSUME ReactorAssumption ==
  /\ MAX_EVENTS \in Nat \ {0}
  /\ BUFLEN \in Nat \ {0}
  /\ SWEEP \in Nat \ {0}
  /\ StrayIndex \subseteq Int /\ StrayIndex # {}
  /\ FcntlMayFail \in BOOLEAN

VARIABLES
  g_events,   \* the slot table
  checkpos,   \* where the next sweep starts
  pc,         \* where the loop of main is
  batch,      \* events returned by epoll_wait and not handled yet
  clobbered   \* history: acceptconn has overwritten a slot in use

vars == <<socketVars, g_events, checkpos, pc, batch, clobbered>>

Slots == 0..MAX_EVENTS
ClientSlots == 0..(MAX_EVENTS - 1)

Slot == [fd : Fds \cup {0}, events : Directions \cup {"none"},
         call_back : {"NULL", "acceptconn", "recvdata", "senddata"},
         status : {0, 1}, from : Conns \cup {Free}, got : 0..BUFLEN,
         len : 0..BUFLEN, age : 0..TIMEOUT]

Item == [fd : Fds, events : Directions, slot : Slots]

(* Static storage is zeroed: last_active is 1970. *)
ZeroSlot == [fd |-> 0, events |-> "none", call_back |-> "NULL", status |-> 0,
             from |-> Free, got |-> 0, len |-> 0, age |-> TIMEOUT]

-----------------------------------------------------------------------------
(* The three helpers, as the slot and the interest list they leave.  epv of *)
(* event_add carries the address of the slot, arg is that address too.      *)

event_set_KeepsAge(ev, fd, call_back) ==      \* slip: last_active not set
  [ev EXCEPT !.fd = fd, !.call_back = call_back, !.status = 0, !.events = "none"]

event_set(ev, fd, call_back) ==
  [ev EXCEPT !.fd = fd, !.call_back = call_back, !.status = 0,
             !.age = 0, !.events = "none"]

event_add(ev, dir) == [ev EXCEPT !.events = dir, !.status = 1]

AddTo(list, ev, dir, slot) ==
  LET item == [fd |-> ev.fd, events |-> dir, slot |-> slot] IN
  IF ev.status = 1 THEN EpollMod(list, item) ELSE EpollAdd(list, item)

event_del_KeepsStatus(ev) == ev                \* slip: status not cleared

event_del(ev) == [ev EXCEPT !.status = 0]

DelFrom_Nothing(list, ev) == list              \* slip: EPOLL_CTL_DEL forgotten

DelFrom(list, ev) == IF ev.status = 1 THEN EpollDel(list, ev.fd) ELSE list

(* event_set and event_add on one slot, as the callbacks do them. *)
Rearm(ev, fd, call_back, dir) == event_add(event_set(ev, fd, call_back), dir)

RearmList(list, ev, fd, call_back, dir, slot) ==
  AddTo(list, event_set(ev, fd, call_back), dir, slot)

Close_Forgotten(list, fds) ==                  \* slip: the number leaks
  interest' = list /\ UNCHANGED <<fdt, sock>>

(* close() of the numbers fds, with list what event_del has left. *)
Close(list, fds) ==
  /\ fdt' = ClosedTable(fds)
  /\ sock' = ClosedSocks(fds)
  /\ interest' = ClosedList(list, fds)

-----------------------------------------------------------------------------
(* After initlistensocket.  bind and listen are taken to succeed. *)
Init ==
  /\ fdt = [fd \in Fds |-> IF fd = ListenFd THEN Listener ELSE Free]
  /\ interest = {[fd |-> ListenFd, events |-> "IN", slot |-> MAX_EVENTS]}
  /\ backlog = {}
  /\ sock = [c \in Conns |-> GoneSocket]
  /\ g_events = [s \in Slots |->
                   IF s = MAX_EVENTS THEN Rearm(ZeroSlot, ListenFd, "acceptconn", "IN")
                   ELSE ZeroSlot]
  /\ checkpos = 0
  /\ pc = "sweep"
  /\ batch = {}
  /\ clobbered = FALSE

(* The slots one sweep tests: SWEEP of them from checkpos on, wrapping     *)
(* before the listener's.  After the last one checkpos may be MAX_EVENTS.  *)
Window_NoWrap ==                               \* slip: reaches the listener
  {checkpos + k : k \in 0..(SWEEP - 1)}

Window == {(checkpos + k) % MAX_EVENTS : k \in 0..(SWEEP - 1)}

NextCheckpos_NoWrap == checkpos + SWEEP        \* slip: the test at MAX_EVENTS

NextCheckpos_Restart == 0                      \* slip: declared in the loop

NextCheckpos == ((checkpos + SWEEP - 1) % MAX_EVENTS) + 1

Expired == {s \in Window : g_events[s].status = 1 /\ TIMEOUT <= g_events[s].age}

SweepDue_AnyTime == pc # "halted"              \* slip: a thread of its own

SweepDue == pc = "sweep"

(* close comes before event_del, whose EPOLL_CTL_DEL then fails unnoticed: *)
(* close has taken the number off the list already.                        *)
Sweep ==
  /\ SweepDue
  /\ Close(interest, {g_events[s].fd : s \in Expired})
  /\ g_events' = [s \in Slots |-> IF s \in Expired THEN event_del(g_events[s])
                                  ELSE g_events[s]]
  /\ checkpos' = NextCheckpos
  /\ pc' = "wait"
  /\ UNCHANGED <<backlog, batch, clobbered>>

Wait ==
  /\ pc = "wait"
  /\ batch' \in Batches(MAX_EVENTS + 1)
  /\ pc' = IF batch' = {} THEN "sweep" ELSE "dispatch"
  /\ UNCHANGED <<socketVars, g_events, checkpos, clobbered>>

(* The process ends, and its memory with it. *)
Halt ==
  /\ Exit
  /\ g_events' = [s \in Slots |-> ZeroSlot]
  /\ checkpos' = 0
  /\ pc' = "halted"
  /\ batch' = {}
  /\ UNCHANGED clobbered

(* epoll_wait fails, for one with EINTR, and main returns. *)
WaitError ==
  /\ pc = "wait"
  /\ Halt

-----------------------------------------------------------------------------
(* The dispatch loop.  An item registered for one direction is reported    *)
(* for that direction only, so at most one of the two ifs calls back.      *)

Remaining(i) == batch \ {i}

Take(i) ==
  /\ pc = "dispatch"
  /\ i \in batch
  /\ batch' = Remaining(i)
  /\ pc' = IF Remaining(i) = {} THEN "sweep" ELSE "dispatch"
  /\ UNCHANGED checkpos

Calls(i, call_back) ==
  /\ g_events[i.slot].events = i.events
  /\ g_events[i.slot].call_back = call_back

Skip(i) ==
  /\ Take(i)
  /\ g_events[i.slot].events # i.events
  /\ UNCHANGED <<socketVars, g_events, clobbered>>

(* acceptconn *)

AcceptFail(i) ==
  /\ Take(i)
  /\ Calls(i, "acceptconn")
  /\ ~Acceptable(g_events[i.slot].fd)
  /\ UNCHANGED <<socketVars, g_events, clobbered>>

(* accept(lfd) returns cfd for the connection c. *)
Accepted(i, c, cfd) ==
  /\ Take(i)
  /\ Calls(i, "acceptconn")
  /\ Acceptable(g_events[i.slot].fd)
  /\ c \in backlog
  /\ LowestFree(cfd)
  /\ backlog' = backlog \ {c}
  /\ fdt' = [fdt EXCEPT ![cfd] = c]
  /\ UNCHANGED sock

(* The loop that looks for a free slot declares an i of its own; the slot  *)
(* used is the one the outer, never assigned i happens to name, whether it *)
(* is free or not.                                                         *)
StoreSlots_Unchecked == StrayIndex \cap Slots   \* slip: MAX_EVENTS == i untested

StoreSlots == StrayIndex \cap ClientSlots

AcceptStore(i) ==
  \E c \in Conns, cfd \in Fds, slot \in StoreSlots :
    /\ Accepted(i, c, cfd)
    /\ g_events' = [g_events EXCEPT ![slot] = Rearm(@, cfd, "recvdata", "IN")]
    /\ interest' = interest \cup {[fd |-> cfd, events |-> "IN", slot |-> slot]}
    /\ clobbered' = (clobbered \/ g_events[slot].status = 1)

(* The stray i equals MAX_EVENTS, or fcntl fails: both break out of the    *)
(* block and leave cfd open, in no slot.                                   *)
AcceptLeak(i) ==
  \E c \in Conns, cfd \in Fds :
    /\ Accepted(i, c, cfd)
    /\ MAX_EVENTS \in StrayIndex \/ FcntlMayFail
    /\ UNCHANGED <<interest, g_events, clobbered>>

(* The stray i is no index of g_events: the write is undefined behaviour,  *)
(* of which the model keeps the crash.                                     *)
AcceptWild(i) ==
  /\ pc = "dispatch" /\ i \in batch
  /\ Calls(i, "acceptconn")
  /\ Acceptable(g_events[i.slot].fd)
  /\ StrayIndex \ Slots # {}
  /\ Halt

(* recvdata *)

(* buf[len] = 0 after a recv that filled buf falls on the low byte of      *)
(* ev->len, stored just before: BUFLEN (128) turns into 0, unless the      *)
(* compiler orders the two stores the other way.                           *)
StoredLen_WholeBuffer(n) == {BUFLEN}           \* slip: sizeof(buf) for len

StoredLen(n) == IF n = BUFLEN THEN {0, BUFLEN} ELSE {n}

RecvSome(i) ==
  LET s == i.slot
      ev == g_events[s]
      n == RecvResult(ev.fd, BUFLEN)
  IN /\ Take(i)
     /\ Calls(i, "recvdata")
     /\ n > 0
     /\ sock' = [sock EXCEPT ![fdt[ev.fd]].inbox = @ - n]
     /\ \E len \in StoredLen(n) :
          g_events' = [g_events EXCEPT ![s] =
            Rearm([event_del(ev) EXCEPT !.from = fdt[ev.fd], !.got = n, !.len = len],
                  ev.fd, "senddata", "OUT")]
     /\ interest' = RearmList(DelFrom(interest, ev), event_del(ev),
                              ev.fd, "senddata", "OUT", s)
     /\ UNCHANGED <<fdt, backlog, clobbered>>

(* End of file or an error: event_del, then close. *)
RecvEnd(i) ==
  LET ev == g_events[i.slot]
  IN /\ Take(i)
     /\ Calls(i, "recvdata")
     /\ RecvResult(ev.fd, BUFLEN) <= 0
     /\ g_events' = [g_events EXCEPT ![i.slot] = event_del(ev)]
     /\ Close(DelFrom(interest, ev), {ev.fd})
     /\ UNCHANGED <<backlog, clobbered>>

(* senddata *)

SendFails_Short(n, len) == n < len             \* slip: a short send is fatal

SendFails(n, len) == n <= 0

(* What a short send leaves over is not kept; it means the buffer is full. *)
SendSome(i) ==
  LET s == i.slot
      ev == g_events[s]
  IN /\ Take(i)
     /\ Calls(i, "senddata")
     /\ \E n \in SendResults(ev.fd, ev.len), full \in BOOLEAN :
          /\ ~SendFails(n, ev.len)
          /\ n < ev.len => full
          /\ sock' = [sock EXCEPT ![fdt[ev.fd]].full = full]
     /\ g_events' = [g_events EXCEPT ![s] =
                       Rearm(event_del(ev), ev.fd, "recvdata", "IN")]
     /\ interest' = RearmList(DelFrom(interest, ev), event_del(ev),
                              ev.fd, "recvdata", "IN", s)
     /\ UNCHANGED <<fdt, backlog, clobbered>>

SendFail(i) ==
  LET ev == g_events[i.slot]
  IN /\ Take(i)
     /\ Calls(i, "senddata")
     /\ \E n \in SendResults(ev.fd, ev.len) : SendFails(n, ev.len)
     /\ g_events' = [g_events EXCEPT ![i.slot] = event_del(ev)]
     /\ Close(DelFrom(interest, ev), {ev.fd})
     /\ UNCHANGED <<backlog, clobbered>>

SendKilled(i) ==
  /\ pc = "dispatch" /\ i \in batch
  /\ Calls(i, "senddata")
  /\ MayRaiseSigpipe(g_events[i.slot].fd)
  /\ Halt

Dispatch(i) ==
  \/ Skip(i)
  \/ AcceptFail(i) \/ AcceptStore(i) \/ AcceptLeak(i) \/ AcceptWild(i)
  \/ RecvSome(i) \/ RecvEnd(i)
  \/ SendSome(i) \/ SendFail(i) \/ SendKilled(i)

-----------------------------------------------------------------------------
Server == Sweep \/ Wait \/ \E i \in batch : Dispatch(i)

Clients ==
  /\ \E c \in Conns : Client(c)
  /\ UNCHANGED <<g_events, checkpos, pc, batch, clobbered>>

(* A second passes, for the clients and for last_active. *)
Tick ==
  /\ SocketTick
  /\ g_events' = [s \in Slots |-> [g_events[s] EXCEPT !.age = Older(@)]]
  /\ UNCHANGED <<checkpos, pc, batch, clobbered>>

Next == Server \/ WaitError \/ Clients \/ Tick

Spec == Init /\ [][Next]_vars

(* Nothing the loop calls blocks: the process is scheduled, time passes.   *)
(* No client need ever do anything.                                        *)
FairSpec == Spec /\ WF_vars(Server) /\ WF_vars(Tick)

=============================================================================
