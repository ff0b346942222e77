----------------------------- MODULE ReactorProof -----------------------------
(* Proofs about the reactor, for every table size, buffer size, sweep      *)
(* width, timeout, set of clients and set of stray indices.                *)
EXTENDS ReactorProperties, TLAPS

LEMMA ModRange ==
  ASSUME NEW a \in Nat, NEW n \in Nat \ {0}
  PROVE  a % n \in 0..(n - 1)
OBVIOUS

(* The sweep tests client slots only, and leaves checkpos in range. *)
LEMMA SweepRange ==
  ASSUME checkpos \in 0..MAX_EVENTS
  PROVE  Window \subseteq ClientSlots /\ NextCheckpos \in 0..MAX_EVENTS
<1>1. ASSUME NEW k \in 0..(SWEEP - 1)
      PROVE  (checkpos + k) % MAX_EVENTS \in ClientSlots
  <2>1. checkpos + k \in Nat
    BY ReactorAssumption
  <2> QED
    BY <2>1, ModRange, ReactorAssumption DEF ClientSlots
<1>2. NextCheckpos \in 0..MAX_EVENTS
  <2>1. checkpos + SWEEP - 1 \in Nat
    BY ReactorAssumption
  <2>2. (checkpos + SWEEP - 1) % MAX_EVENTS \in 0..(MAX_EVENTS - 1)
    BY <2>1, ModRange, ReactorAssumption
  <2> QED
    BY <2>2, ReactorAssumption DEF NextCheckpos
<1> QED
  BY <1>1, <1>2 DEF Window

-----------------------------------------------------------------------------
(* What the system calls leave behind is well typed. *)

LEMMA ClosedType ==
  ASSUME TypeOK, NEW list \in SUBSET Item, NEW fds, Close(list, fds)
  PROVE  /\ fdt' \in [Fds -> Conns \cup {Listener, Free}]
         /\ sock' \in [Conns -> Socket]
         /\ interest' \subseteq Item
<1>1. GoneSocket \in Socket
  BY SocketsAssumption DEF GoneSocket, Socket
<1> QED
  BY <1>1 DEF TypeOK, Close, ClosedTable, ClosedSocks, ClosedList

LEMMA SlotFields ==
  ASSUME NEW ev \in Slot
  PROVE  /\ \A fd \in Fds : [ev EXCEPT !.fd = fd] \in Slot
         /\ \A dir \in Directions \cup {"none"} : [ev EXCEPT !.events = dir] \in Slot
         /\ \A status \in {0, 1} : [ev EXCEPT !.status = status] \in Slot
         /\ \A age \in 0..TIMEOUT : [ev EXCEPT !.age = age] \in Slot
         /\ \A call_back \in {"acceptconn", "recvdata", "senddata"} :
              [ev EXCEPT !.call_back = call_back] \in Slot
         /\ \A c \in Conns : [ev EXCEPT !.from = c] \in Slot
         /\ \A n \in 0..BUFLEN : [ev EXCEPT !.got = n] \in Slot
         /\ \A n \in 0..BUFLEN : [ev EXCEPT !.len = n] \in Slot
  BY DEF Slot

(* event_set and event_add leave a slot that names fd, waits for dir and   *)
(* calls call_back; the buffer is left alone.                              *)
LEMMA SlotOps ==
  ASSUME NEW ev \in Slot, NEW fd \in Fds, NEW dir \in Directions,
         NEW call_back \in {"acceptconn", "recvdata", "senddata"}
  PROVE  /\ event_del(ev) \in Slot
         /\ event_set(ev, fd, call_back) \in Slot
         /\ Rearm(ev, fd, call_back, dir) \in Slot
<1>1. event_del(ev) \in Slot
  BY SlotFields DEF event_del
<1>2. event_set(ev, fd, call_back) \in Slot
  <2> DEFINE ev1 == [ev EXCEPT !.fd = fd]
             ev2 == [ev1 EXCEPT !.call_back = call_back]
             ev3 == [ev2 EXCEPT !.status = 0]
             ev4 == [ev3 EXCEPT !.age = 0]
             ev5 == [ev4 EXCEPT !.events = "none"]
  <2>1. ev1 \in Slot
    BY SlotFields
  <2>2. ev2 \in Slot
    <3> HIDE DEF ev1
    <3> QED BY <2>1, SlotFields
  <2>3. ev3 \in Slot
    <3> HIDE DEF ev2
    <3> QED BY <2>2, SlotFields
  <2>4. ev4 \in Slot
    <3> HIDE DEF ev3
    <3>1. 0 \in 0..TIMEOUT
      BY SocketsAssumption
    <3> QED BY <2>3, <3>1, SlotFields
  <2>5. ev5 \in Slot
    <3> HIDE DEF ev4
    <3> QED BY <2>4, SlotFields
  <2> QED
    BY <2>5, Zenon DEF event_set
<1>3. Rearm(ev, fd, call_back, dir) \in Slot
  <2> DEFINE set == event_set(ev, fd, call_back)
             added == [set EXCEPT !.events = dir]
  <2>1. added \in Slot
    <3> HIDE DEF set
    <3> QED BY <1>2, SlotFields DEF set
  <2>2. [added EXCEPT !.status = 1] \in Slot
    <3> HIDE DEF added
    <3> QED BY <2>1, SlotFields
  <2> QED
    BY <2>2, Zenon DEF Rearm, event_add
<1> QED
  BY <1>1, <1>2, <1>3

LEMMA RearmFields ==
  ASSUME NEW ev \in Slot, NEW fd, NEW dir, NEW call_back
  PROVE  LET armed == Rearm(ev, fd, call_back, dir) IN
         /\ armed.fd = fd /\ armed.events = dir
         /\ armed.call_back = call_back /\ armed.status = 1
  BY DEF Rearm, event_set, event_add, Slot

LEMMA ListOps ==
  ASSUME NEW list \in SUBSET Item, NEW ev \in Slot, NEW fd \in Fds,
         NEW slot \in Slots, NEW dir \in Directions, NEW call_back
  PROVE  /\ DelFrom(list, ev) \in SUBSET Item
         /\ RearmList(list, ev, fd, call_back, dir, slot) \in SUBSET Item
<1>1. DelFrom(list, ev) \in SUBSET Item
  BY DEF DelFrom, EpollDel
<1>2. event_set(ev, fd, call_back).fd = fd
  BY DEF Slot, event_set
<1>3. [fd |-> fd, events |-> dir, slot |-> slot] \in Item
  BY DEF Item
<1> QED
  BY <1>1, <1>2, <1>3 DEF RearmList, AddTo, EpollAdd, EpollMod

(* recv returns bytes of a connection, as many as it has at most. *)
LEMMA RecvBytes ==
  ASSUME TypeOK, NEW fd, RecvResult(fd, BUFLEN) > 0
  PROVE  /\ IsConn(fd) /\ fd \in Fds /\ fdt[fd] \in Conns
         /\ RecvResult(fd, BUFLEN) \in 1..BUFLEN
         /\ sock[fdt[fd]].inbox - RecvResult(fd, BUFLEN) \in 0..InboxCap
<1>1. IsConn(fd)
  BY DEF RecvResult
<1>2. fd \in Fds /\ fdt[fd] \in Conns
  BY <1>1 DEF IsConn
<1>3. sock[fdt[fd]] \in Socket
  BY <1>2 DEF TypeOK
<1>4. sock[fdt[fd]].inbox \in 0..InboxCap
  BY <1>3 DEF Socket
<1> QED
  BY <1>1, <1>2, <1>4, ReactorAssumption, SocketsAssumption DEF RecvResult

(* send delivers only to a connection. *)
LEMMA SendBytes ==
  ASSUME NEW fd, NEW len \in 0..BUFLEN, NEW n \in SendResults(fd, len), n > 0
  PROVE  IsConn(fd) /\ fd \in Fds /\ fdt[fd] \in Conns
  BY DEF SendResults, IsConn

-----------------------------------------------------------------------------
(* Type correctness. *)

LEMMA InitType == Init => TypeOK
<1> SUFFICES ASSUME Init PROVE TypeOK
  OBVIOUS
<1>1. ZeroSlot \in Slot
  BY SocketsAssumption, ReactorAssumption DEF ZeroSlot, Slot
<1>2. Rearm(ZeroSlot, ListenFd, "acceptconn", "IN") \in Slot
  BY <1>1, SlotOps, SocketsAssumption DEF Directions
<1>3. g_events \in [Slots -> Slot]
  BY <1>1, <1>2 DEF Init
<1>4. interest \subseteq Item
  BY SocketsAssumption, ReactorAssumption DEF Init, Item, Directions, Slots
<1>5. sock \in [Conns -> Socket]
  BY SocketsAssumption DEF Init, GoneSocket, Socket
<1>6. fdt \in [Fds -> Conns \cup {Listener, Free}]
  BY DEF Init
<1>7. checkpos \in 0..MAX_EVENTS
  BY ReactorAssumption DEF Init
<1> QED
  BY <1>3, <1>4, <1>5, <1>6, <1>7 DEF Init, TypeOK

LEMMA HaltType == TypeOK /\ Halt => TypeOK'
<1> SUFFICES ASSUME TypeOK, Halt PROVE TypeOK'
  OBVIOUS
<1>1. ZeroSlot \in Slot
  BY SocketsAssumption, ReactorAssumption DEF ZeroSlot, Slot
<1>2. GoneSocket \in Socket
  BY SocketsAssumption DEF GoneSocket, Socket
<1> QED
  BY <1>1, <1>2, ReactorAssumption DEF TypeOK, Halt, Exit

LEMMA SweepType == TypeOK /\ Sweep => TypeOK'
<1> SUFFICES ASSUME TypeOK, Sweep PROVE TypeOK'
  OBVIOUS
<1>1. /\ fdt' \in [Fds -> Conns \cup {Listener, Free}]
      /\ sock' \in [Conns -> Socket]
      /\ interest' \subseteq Item
  BY ClosedType DEF Sweep, TypeOK
<1>2. g_events' \in [Slots -> Slot]
  <2>1. ASSUME NEW ev \in Slot PROVE event_del(ev) \in Slot
    BY DEF Slot, event_del
  <2> QED
    BY <2>1 DEF Sweep, TypeOK
<1>3. checkpos' \in 0..MAX_EVENTS
  BY SweepRange DEF Sweep, TypeOK
<1> QED
  BY <1>1, <1>2, <1>3 DEF Sweep, TypeOK

LEMMA WaitType == TypeOK /\ Wait => TypeOK'
<1> SUFFICES ASSUME TypeOK, Wait PROVE TypeOK'
  OBVIOUS
<1>1. batch' \subseteq interest
  BY DEF Wait, Batches, ReadyItems
<1> QED
  BY <1>1 DEF Wait, TypeOK, socketVars

LEMMA ClientsType == TypeOK /\ Clients => TypeOK'
<1> SUFFICES ASSUME TypeOK, NEW c \in Conns, Client(c),
                    UNCHANGED <<g_events, checkpos, pc, batch, clobbered>>
             PROVE  TypeOK'
  BY DEF Clients
<1>1. sock[c] \in Socket
  BY DEF TypeOK
<1>2. CASE Connect(c)
  <2>1. ASSUME NEW k \in Socket PROVE [k EXCEPT !.peer = "open"] \in Socket
    BY DEF Socket
  <2>2. GoneSocket \in Socket
    BY SocketsAssumption DEF GoneSocket, Socket
  <2>3. [GoneSocket EXCEPT !.peer = "open"] \in Socket
    BY <2>1, <2>2
  <2> QED
    BY <1>2, <2>3 DEF Connect, TypeOK
<1>3. CASE \E n \in 1..InboxCap : ClientSend(c, n)
  <2>1. PICK n \in 1..InboxCap : ClientSend(c, n)
    BY <1>3
  <2>2. sock[c].inbox + n \in 0..InboxCap
    BY <1>1, <2>1, SocketsAssumption DEF Socket, ClientSend
  <2>3. [sock[c] EXCEPT !.inbox = sock[c].inbox + n, !.idle = 0] \in Socket
    <3>1. ASSUME NEW k \in Socket PROVE [k EXCEPT !.idle = 0] \in Socket
      BY SocketsAssumption DEF Socket
    <3>2. [sock[c] EXCEPT !.inbox = sock[c].inbox + n] \in Socket
      BY <1>1, <2>2 DEF Socket
    <3>3. [[sock[c] EXCEPT !.inbox = sock[c].inbox + n] EXCEPT !.idle = 0] \in Socket
      BY <3>1, <3>2
    <3> QED
      BY <3>3, Zenon
  <2> QED
    BY <2>1, <2>3 DEF ClientSend, TypeOK
<1>4. CASE ClientDrain(c)
  BY <1>1, <1>4 DEF ClientDrain, Socket, TypeOK
<1>5. CASE ClientFin(c)
  BY <1>1, <1>5 DEF ClientFin, Socket, TypeOK
<1>6. CASE ClientReset(c)
  BY <1>1, <1>6 DEF ClientReset, Socket, TypeOK
<1> QED
  BY <1>2, <1>3, <1>4, <1>5, <1>6 DEF Client

LEMMA TickType == TypeOK /\ Tick => TypeOK'
<1> SUFFICES ASSUME TypeOK, Tick PROVE TypeOK'
  OBVIOUS
<1>1. ASSUME NEW age \in 0..TIMEOUT PROVE Older(age) \in 0..TIMEOUT
  BY SocketsAssumption DEF Older
<1>2. sock' \in [Conns -> Socket]
  BY <1>1 DEF Tick, SocketTick, TypeOK, Socket
<1>3. g_events' \in [Slots -> Slot]
  <2>1. ASSUME NEW ev \in Slot PROVE [ev EXCEPT !.age = Older(@)] \in Slot
    BY <1>1 DEF Slot
  <2> QED
    BY <2>1 DEF Tick, TypeOK
<1> QED
  BY <1>2, <1>3 DEF Tick, SocketTick, TypeOK

LEMMA TakeType ==
  ASSUME TypeOK, NEW i \in batch, Take(i)
  PROVE  /\ i \in Item /\ g_events[i.slot] \in Slot /\ i.slot \in Slots
         /\ checkpos' \in 0..MAX_EVENTS
         /\ pc' \in {"sweep", "wait", "dispatch", "halted"}
         /\ batch' \subseteq Item
  BY DEF TypeOK, Take, Remaining, Item

LEMMA AcceptType ==
  ASSUME TypeOK, NEW i \in batch, AcceptStore(i)
  PROVE  TypeOK'
<1>1. PICK c \in Conns, cfd \in Fds, slot \in StoreSlots :
        /\ Accepted(i, c, cfd)
        /\ g_events' = [g_events EXCEPT ![slot] = Rearm(@, cfd, "recvdata", "IN")]
        /\ interest' = interest \cup {[fd |-> cfd, events |-> "IN", slot |-> slot]}
        /\ clobbered' = (clobbered \/ g_events[slot].status = 1)
  BY DEF AcceptStore
<1>2. slot \in Slots
  BY ReactorAssumption DEF StoreSlots, ClientSlots, Slots
<1>3. Rearm(g_events[slot], cfd, "recvdata", "IN") \in Slot
  BY <1>2, SlotOps DEF TypeOK, Directions
<1>4. g_events' \in [Slots -> Slot]
  BY <1>1, <1>3 DEF TypeOK
<1>5. interest' \subseteq Item
  BY <1>1, <1>2 DEF TypeOK, Item, Directions
<1>6. /\ fdt' \in [Fds -> Conns \cup {Listener, Free}]
      /\ backlog' \subseteq Conns
      /\ sock' \in [Conns -> Socket]
  BY <1>1 DEF Accepted, TypeOK
<1>7. clobbered' \in BOOLEAN
  BY <1>1 DEF TypeOK
<1> QED
  BY <1>1, <1>4, <1>5, <1>6, <1>7, TakeType DEF Accepted, TypeOK

LEMMA RecvType ==
  ASSUME TypeOK, NEW i \in batch, RecvSome(i)
  PROVE  TypeOK'
<1> DEFINE s == i.slot
           ev == g_events[s]
           n == RecvResult(ev.fd, BUFLEN)
<1>1. /\ Take(i) /\ n > 0
      /\ sock' = [sock EXCEPT ![fdt[ev.fd]].inbox = @ - n]
      /\ interest' = RearmList(DelFrom(interest, ev), event_del(ev),
                               ev.fd, "senddata", "OUT", s)
      /\ UNCHANGED <<fdt, backlog, clobbered>>
  BY DEF RecvSome
<1>2. PICK len \in StoredLen(n) :
        g_events' = [g_events EXCEPT ![s] =
          Rearm([event_del(ev) EXCEPT !.from = fdt[ev.fd], !.got = n, !.len = len],
                ev.fd, "senddata", "OUT")]
  BY DEF RecvSome
<1>3. ev \in Slot /\ s \in Slots
  BY <1>1, TakeType
<1>4. /\ ev.fd \in Fds /\ fdt[ev.fd] \in Conns
      /\ n \in 1..BUFLEN
      /\ sock[fdt[ev.fd]].inbox - n \in 0..InboxCap
  BY <1>1, RecvBytes
<1>5. sock' \in [Conns -> Socket]
  <2>1. ASSUME NEW k \in Socket, NEW inbox \in 0..InboxCap
        PROVE  [k EXCEPT !.inbox = inbox] \in Socket
    BY DEF Socket
  <2>2. sock[fdt[ev.fd]] \in Socket
    BY <1>4 DEF TypeOK
  <2>3. [sock[fdt[ev.fd]] EXCEPT !.inbox = @ - n] \in Socket
    BY <1>4, <2>1, <2>2
  <2> QED
    BY <1>1, <1>4, <2>3 DEF TypeOK
<1>6. interest' \in SUBSET Item
  BY <1>1, <1>3, <1>4, ListOps, SlotOps DEF TypeOK, Directions
<1>7. g_events' \in [Slots -> Slot]
  <2> DEFINE ev1 == [event_del(ev) EXCEPT !.from = fdt[ev.fd]]
             ev2 == [ev1 EXCEPT !.got = n]
             ev3 == [ev2 EXCEPT !.len = len]
  <2>1. n \in 0..BUFLEN /\ len \in 0..BUFLEN
    BY <1>4, <1>2, ReactorAssumption DEF StoredLen
  <2>2. event_del(ev) \in Slot
    BY <1>3, SlotFields DEF event_del
  <2>3. ev1 \in Slot
    BY <1>4, <2>2, SlotFields
  <2>4. ev2 \in Slot
    <3> HIDE DEF ev1
    <3> QED BY <2>1, <2>3, SlotFields
  <2>5. ev3 \in Slot
    <3> HIDE DEF ev2
    <3> QED BY <2>1, <2>4, SlotFields
  <2>6. Rearm(ev3, ev.fd, "senddata", "OUT") \in Slot
    <3> HIDE DEF ev3
    <3> QED BY <1>4, <2>5, SlotOps DEF Directions
  <2>7. Rearm([event_del(ev) EXCEPT !.from = fdt[ev.fd], !.got = n, !.len = len],
              ev.fd, "senddata", "OUT") \in Slot
    BY <2>6, Zenon
  <2> QED
    BY <1>2, <1>3, <2>7 DEF TypeOK
<1> QED
  BY <1>1, <1>5, <1>6, <1>7, TakeType DEF TypeOK

LEMMA SendType ==
  ASSUME TypeOK, NEW i \in batch, SendSome(i)
  PROVE  TypeOK'
<1> DEFINE s == i.slot
           ev == g_events[s]
<1>1. /\ Take(i)
      /\ g_events' = [g_events EXCEPT ![s] =
                        Rearm(event_del(ev), ev.fd, "recvdata", "IN")]
      /\ interest' = RearmList(DelFrom(interest, ev), event_del(ev),
                               ev.fd, "recvdata", "IN", s)
      /\ UNCHANGED <<fdt, backlog, clobbered>>
  BY DEF SendSome
<1>2. PICK n \in SendResults(ev.fd, ev.len), full \in BOOLEAN :
        ~SendFails(n, ev.len) /\ sock' = [sock EXCEPT ![fdt[ev.fd]].full = full]
  BY DEF SendSome
<1>3. ev \in Slot /\ s \in Slots
  BY <1>1, TakeType
<1>4. ev.fd \in Fds /\ fdt[ev.fd] \in Conns
  <2>1. ev.len \in 0..BUFLEN
    BY <1>3 DEF Slot
  <2>2. n \in Int
    BY <2>1, ReactorAssumption DEF SendResults
  <2>3. n > 0
    BY <1>2, <2>2 DEF SendFails
  <2> QED
    BY <2>1, <2>3, SendBytes
<1>5. sock' \in [Conns -> Socket]
  <2>1. ASSUME NEW k \in Socket PROVE [k EXCEPT !.full = full] \in Socket
    BY DEF Socket
  <2> QED
    BY <1>2, <1>4, <2>1 DEF TypeOK
<1>6. interest' \in SUBSET Item
  BY <1>1, <1>3, <1>4, ListOps, SlotOps DEF TypeOK, Directions
<1>7. g_events' \in [Slots -> Slot]
  <2>1. event_del(ev) \in Slot
    BY <1>3, SlotFields DEF event_del
  <2>2. Rearm(event_del(ev), ev.fd, "recvdata", "IN") \in Slot
    BY <1>4, <2>1, SlotOps DEF Directions
  <2> QED
    BY <1>1, <1>3, <2>2 DEF TypeOK
<1> QED
  BY <1>1, <1>5, <1>6, <1>7, TakeType DEF TypeOK

(* RecvEnd and SendFail leave the same state. *)
LEMMA EndType ==
  ASSUME TypeOK, NEW i \in batch, RecvEnd(i) \/ SendFail(i)
  PROVE  TypeOK'
<1> DEFINE ev == g_events[i.slot]
<1>1. /\ Take(i)
      /\ g_events' = [g_events EXCEPT ![i.slot] = event_del(ev)]
      /\ Close(DelFrom(interest, ev), {ev.fd})
      /\ UNCHANGED <<backlog, clobbered>>
  BY DEF RecvEnd, SendFail
<1>2. ev \in Slot /\ i.slot \in Slots
  BY <1>1, TakeType
<1>3. event_del(ev) \in Slot
  BY <1>2, SlotFields DEF event_del
<1>4. DelFrom(interest, ev) \in SUBSET Item
  BY DEF TypeOK, DelFrom, EpollDel
<1>5. /\ fdt' \in [Fds -> Conns \cup {Listener, Free}]
      /\ sock' \in [Conns -> Socket]
      /\ interest' \subseteq Item
  BY <1>1, <1>4, ClosedType
<1> QED
  BY <1>1, <1>2, <1>3, <1>5, TakeType DEF TypeOK

LEMMA DispatchType ==
  ASSUME TypeOK, NEW i \in batch, Dispatch(i)
  PROVE  TypeOK'
<1>1. CASE Skip(i) \/ AcceptFail(i)
  BY <1>1, TakeType DEF Skip, AcceptFail, TypeOK, socketVars
<1>2. CASE AcceptStore(i)
  BY <1>2, AcceptType
<1>3. CASE AcceptLeak(i)
  BY <1>3, TakeType DEF AcceptLeak, Accepted, TypeOK
<1>4. CASE AcceptWild(i) \/ SendKilled(i)
  BY <1>4, HaltType DEF AcceptWild, SendKilled
<1>5. CASE RecvSome(i)
  BY <1>5, RecvType
<1>6. CASE SendSome(i)
  BY <1>6, SendType
<1>7. CASE RecvEnd(i) \/ SendFail(i)
  BY <1>7, EndType
<1> QED
  BY <1>1, <1>2, <1>3, <1>4, <1>5, <1>6, <1>7 DEF Dispatch

LEMMA NextType == TypeOK /\ [Next]_vars => TypeOK'
<1> SUFFICES ASSUME TypeOK, [Next]_vars PROVE TypeOK'
  OBVIOUS
<1>1. CASE Sweep
  BY <1>1, SweepType
<1>2. CASE Wait
  BY <1>2, WaitType
<1>3. CASE \E i \in batch : Dispatch(i)
  BY <1>3, DispatchType
<1>4. CASE WaitError
  BY <1>4, HaltType DEF WaitError
<1>5. CASE Clients
  BY <1>5, ClientsType
<1>6. CASE Tick
  BY <1>6, TickType
<1>7. CASE UNCHANGED vars
  BY <1>7 DEF vars, socketVars, TypeOK
<1> QED
  BY <1>1, <1>2, <1>3, <1>4, <1>5, <1>6, <1>7 DEF Next, Server

(* Type correctness: no step takes a variable out of its range; checkpos   *)
(* stays within the table and no length exceeds the buffer.                *)
THEOREM TypeCorrect == Spec => []TypeOK
  BY InitType, NextType, PTL DEF Spec

-----------------------------------------------------------------------------
(* The listener and the callbacks, whatever acceptconn overwrites.          *)
(*                                                                          *)
(* ListenerIntact and CallbackReady are not inductive by themselves: that   *)
(* no callback closes or re-registers the listener's number needs, besides, *)
(* that every event, registered or in hand, that is not the listener's      *)
(* leads to a client slot whose callback has been set, and that a client    *)
(* slot never names the listener's number, not even after its connection    *)
(* has ended.                                                               *)

ListenerItem == [fd |-> ListenFd, events |-> "IN", slot |-> MAX_EVENTS]

ListenerKept ==
  /\ fdt[ListenFd] = Listener
  /\ g_events[MAX_EVENTS].fd = ListenFd
  /\ g_events[MAX_EVENTS].events = "IN"
  /\ g_events[MAX_EVENTS].call_back = "acceptconn"
  /\ g_events[MAX_EVENTS].status = 1
  /\ ListenerItem \in interest

Fits(ev) == \/ ev.call_back = "NULL"
            \/ ev.call_back = "recvdata" /\ ev.events = "IN"
            \/ ev.call_back = "senddata" /\ ev.events = "OUT"

SlotsApart == \A s \in ClientSlots : g_events[s].fd # ListenFd /\ Fits(g_events[s])

LeadsRight(i) ==
  /\ i.fd = ListenFd <=> i.slot = MAX_EVENTS
  /\ i.fd = ListenFd => i.events = "IN"
  /\ g_events[i.slot].call_back # "NULL"

EventsApart == \A i \in interest \cup batch : LeadsRight(i)

Guarded ==
  /\ Running => ListenerKept /\ SlotsApart /\ EventsApart
  /\ ~Running => interest = {} /\ batch = {}

LEMMA SlotCases ==
  ASSUME NEW s \in Slots
  PROVE  /\ s = MAX_EVENTS \/ s \in ClientSlots
         /\ ClientSlots \subseteq Slots /\ MAX_EVENTS \in Slots
         /\ MAX_EVENTS \notin ClientSlots
  BY ReactorAssumption DEF Slots, ClientSlots

LEMMA ClientInSlots == ClientSlots \subseteq Slots /\ MAX_EVENTS \notin ClientSlots
  BY ReactorAssumption DEF Slots, ClientSlots

LEMMA GuardedImplies ==
  ASSUME TypeOK, Guarded
  PROVE  ListenerIntact /\ CallbackReady
<1>1. ListenerIntact
  <2> SUFFICES ASSUME Running PROVE ListenerIntact
    BY DEF ListenerIntact
  <2>1. ListenerKept /\ SlotsApart /\ EventsApart
    BY DEF Guarded
  <2>2. Registration(MAX_EVENTS) = ListenerItem
    BY <2>1 DEF Registration, ListenerItem, ListenerKept
  <2>3. ASSUME NEW i \in interest, i.fd = ListenFd PROVE i = ListenerItem
    BY <2>1, <2>3 DEF EventsApart, LeadsRight, TypeOK, Item, ListenerItem
  <2>4. {i \in interest : i.fd = ListenFd} = {ListenerItem}
    BY <2>1, <2>3 DEF ListenerKept, ListenerItem
  <2> QED
    BY <2>1, <2>2, <2>4 DEF ListenerIntact, ListenerKept, SlotsApart, Live
<1>2. CallbackReady
  <2> SUFFICES ASSUME NEW i \in interest \cup batch
      PROVE LET ev == g_events[i.slot] IN
            CASE ev.call_back = "acceptconn" -> i.slot = MAX_EVENTS /\ ev.events = "IN"
              [] ev.call_back = "recvdata"   -> i.slot # MAX_EVENTS /\ ev.events = "IN"
              [] ev.call_back = "senddata"   -> i.slot # MAX_EVENTS /\ ev.events = "OUT"
              [] OTHER                       -> FALSE
    BY DEF CallbackReady
  <2>1. ListenerKept /\ SlotsApart /\ EventsApart
    BY DEF Guarded
  <2>2. i.slot \in Slots
    BY DEF TypeOK, Item
  <2>3. CASE i.slot = MAX_EVENTS
    BY <2>1, <2>3 DEF ListenerKept
  <2>4. CASE i.slot \in ClientSlots
    <3>1. i.slot # MAX_EVENTS
      BY <2>4, SlotCases, <2>2
    <3>2. Fits(g_events[i.slot]) /\ g_events[i.slot].call_back # "NULL"
      BY <2>1, <2>4 DEF SlotsApart, EventsApart, LeadsRight
    <3> QED
      BY <3>1, <3>2 DEF Fits
  <2> QED
    BY <2>2, <2>3, <2>4, SlotCases
<1> QED
  BY <1>1, <1>2

LEMMA InitGuarded == Init => Guarded
<1> SUFFICES ASSUME Init PROVE Guarded
  OBVIOUS
<1>1. g_events[MAX_EVENTS] = Rearm(ZeroSlot, ListenFd, "acceptconn", "IN")
  BY ReactorAssumption DEF Init, Slots
<1>2. ZeroSlot \in Slot
  BY SocketsAssumption, ReactorAssumption DEF ZeroSlot, Slot
<1>3. ListenerKept
  BY <1>1, <1>2, RearmFields, SocketsAssumption DEF Init, ListenerKept, ListenerItem
<1>4. \A s \in ClientSlots : g_events[s] = ZeroSlot
  BY ReactorAssumption DEF Init, Slots, ClientSlots
<1>5. SlotsApart
  BY <1>4, SocketsAssumption DEF SlotsApart, Fits, ZeroSlot
<1>6. EventsApart
  BY <1>3 DEF Init, EventsApart, LeadsRight, ListenerKept
<1> QED
  BY <1>3, <1>5, <1>6 DEF Guarded, Running, Init

(* One callback changes one client slot and registers that slot at most.   *)
LEMMA SlotStep ==
  ASSUME TypeOK, ListenerKept, SlotsApart, EventsApart,
         NEW s \in ClientSlots, NEW ev, NEW item \in Item,
         ev.fd # ListenFd, Fits(ev), ev.call_back # "NULL",
         item.fd # ListenFd, item.slot = s,
         g_events' = [g_events EXCEPT ![s] = ev],
         fdt'[ListenFd] = Listener,
         interest' \subseteq interest \cup {item}, ListenerItem \in interest',
         batch' \subseteq batch
  PROVE  ListenerKept' /\ SlotsApart' /\ EventsApart'
<1>1. s \in Slots /\ s # MAX_EVENTS
  BY ReactorAssumption DEF Slots, ClientSlots
<1>2. /\ g_events'[s] = ev
      /\ \A t \in Slots : t # s => g_events'[t] = g_events[t]
      /\ MAX_EVENTS \in Slots /\ ClientSlots \subseteq Slots
  BY <1>1, SlotCases DEF TypeOK
<1>3. ListenerKept'
  BY <1>1, <1>2 DEF ListenerKept, ListenerItem
<1>4. SlotsApart'
  <2> SUFFICES ASSUME NEW t \in ClientSlots
               PROVE  g_events'[t].fd # ListenFd /\ Fits(g_events'[t])
    BY DEF SlotsApart, Fits
  <2> QED
    BY <1>2 DEF SlotsApart
<1>5. EventsApart'
  <2> SUFFICES ASSUME NEW i \in interest' \cup batch' PROVE LeadsRight(i)'
    BY DEF EventsApart
  <2>1. i = item \/ i \in interest \cup batch
    OBVIOUS
  <2>2. CASE i = item
    BY <1>1, <1>2, <2>2 DEF LeadsRight
  <2>3. CASE i \in interest \cup batch
    <3>1. i.slot \in Slots
      BY <2>3 DEF TypeOK, Item
    <3> QED
      BY <1>2, <2>3, <3>1 DEF EventsApart, LeadsRight
  <2> QED
    BY <2>1, <2>2, <2>3
<1> QED
  BY <1>3, <1>4, <1>5

(* The slot of an event that is not for acceptconn. *)
LEMMA ClientEvent ==
  ASSUME TypeOK, ListenerKept, SlotsApart, NEW i \in batch,
         NEW call_back \in {"recvdata", "senddata"}, Calls(i, call_back)
  PROVE  /\ i.slot \in ClientSlots /\ i.slot \in Slots
         /\ g_events[i.slot] \in Slot /\ g_events[i.slot].fd # ListenFd
         /\ Fits(g_events[i.slot])
<1>1. i.slot \in Slots
  BY DEF TypeOK, Item
<1>2. i.slot # MAX_EVENTS
  BY DEF Calls, ListenerKept
<1>3. i.slot \in ClientSlots
  BY <1>1, <1>2, SlotCases
<1> QED
  BY <1>1, <1>3 DEF SlotsApart, TypeOK

(* What event_del and event_add do to the list concerns one number. *)
LEMMA RearmedList ==
  ASSUME NEW list \in SUBSET Item, NEW ev \in Slot, NEW gone \in Slot,
         NEW fd \in Fds \ {ListenFd}, ev.fd = fd,
         NEW slot \in Slots, NEW dir \in Directions, NEW call_back,
         ListenerItem \in list
  PROVE  LET after == RearmList(DelFrom(list, ev), gone, fd, call_back, dir, slot) IN
         /\ after \subseteq list \cup {[fd |-> fd, events |-> dir, slot |-> slot]}
         /\ ListenerItem \in after
<1>1. event_set(gone, fd, call_back).fd = fd
  BY DEF Slot, event_set
<1>2. DelFrom(list, ev) \subseteq list /\ ListenerItem \in DelFrom(list, ev)
  BY DEF DelFrom, EpollDel, ListenerItem
<1> QED
  BY <1>1, <1>2 DEF RearmList, AddTo, EpollAdd, EpollMod, ListenerItem

LEMMA AcceptGuarded ==
  ASSUME TypeOK, Guarded, Running, NEW i \in batch, AcceptStore(i)
  PROVE  Guarded'
<1>1. PICK c \in Conns, cfd \in Fds, slot \in StoreSlots :
        /\ Accepted(i, c, cfd)
        /\ g_events' = [g_events EXCEPT ![slot] = Rearm(@, cfd, "recvdata", "IN")]
        /\ interest' = interest \cup {[fd |-> cfd, events |-> "IN", slot |-> slot]}
  BY DEF AcceptStore
<1>2. ListenerKept /\ SlotsApart /\ EventsApart
  BY DEF Guarded
<1>3. slot \in ClientSlots /\ slot \in Slots
  BY SlotCases, ReactorAssumption DEF StoreSlots, ClientSlots, Slots
<1>4. cfd # ListenFd
  BY <1>1, <1>2, SocketsAssumption DEF Accepted, LowestFree, FreeFds, ListenerKept
<1>5. fdt'[ListenFd] = Listener
  BY <1>1, <1>2, <1>4, SocketsAssumption DEF Accepted, ListenerKept, TypeOK
<1> DEFINE ev == Rearm(g_events[slot], cfd, "recvdata", "IN")
           item == [fd |-> cfd, events |-> "IN", slot |-> slot]
<1>6. ev.fd = cfd /\ ev.events = "IN" /\ ev.call_back = "recvdata"
  BY <1>3, RearmFields DEF TypeOK
<1>7. ev.fd # ListenFd /\ Fits(ev) /\ ev.call_back # "NULL"
  BY <1>4, <1>6 DEF Fits
<1>8. item \in Item /\ item.fd # ListenFd /\ item.slot = slot
  BY <1>3, <1>4 DEF Item, Directions
<1>9. g_events' = [g_events EXCEPT ![slot] = ev]
  BY <1>1
<1>10. interest' \subseteq interest \cup {item} /\ ListenerItem \in interest'
  BY <1>1, <1>2 DEF ListenerKept
<1>11. batch' \subseteq batch /\ pc' # "halted"
  BY <1>1 DEF Accepted, Take, Remaining
<1>12. ListenerKept' /\ SlotsApart' /\ EventsApart'
  <2> HIDE DEF ev, item
  <2> QED BY <1>2, <1>3, <1>5, <1>7, <1>8, <1>9, <1>10, <1>11, SlotStep
<1> QED
  BY <1>11, <1>12 DEF Guarded, Running

LEMMA RecvGuarded ==
  ASSUME TypeOK, Guarded, Running, NEW i \in batch, RecvSome(i)
  PROVE  Guarded'
<1> DEFINE s == i.slot
           old == g_events[s]
           n == RecvResult(old.fd, BUFLEN)
<1>1. /\ Take(i) /\ Calls(i, "recvdata") /\ n > 0
      /\ interest' = RearmList(DelFrom(interest, old), event_del(old),
                               old.fd, "senddata", "OUT", s)
      /\ UNCHANGED fdt
  BY DEF RecvSome
<1>2. PICK len \in StoredLen(n) :
        g_events' = [g_events EXCEPT ![s] =
          Rearm([event_del(old) EXCEPT !.from = fdt[old.fd], !.got = n, !.len = len],
                old.fd, "senddata", "OUT")]
  BY DEF RecvSome
<1>3. ListenerKept /\ SlotsApart /\ EventsApart
  BY DEF Guarded
<1>4. s \in ClientSlots /\ s \in Slots /\ old \in Slot /\ old.fd # ListenFd
  BY <1>1, <1>3, ClientEvent
<1>5. old.fd \in Fds \ {ListenFd}
  BY <1>1, <1>4, RecvBytes
<1> DEFINE ev == Rearm([event_del(old) EXCEPT !.from = fdt[old.fd], !.got = n, !.len = len],
                       old.fd, "senddata", "OUT")
           item == [fd |-> old.fd, events |-> "OUT", slot |-> s]
<1>6. ev.fd = old.fd /\ ev.events = "OUT" /\ ev.call_back = "senddata"
  BY <1>4 DEF Rearm, event_set, event_add, event_del, Slot
<1>7. ev.fd # ListenFd /\ Fits(ev) /\ ev.call_back # "NULL"
  BY <1>4, <1>6 DEF Fits
<1>8. item \in Item /\ item.fd # ListenFd /\ item.slot = s
  BY <1>4, <1>5 DEF Item, Directions
<1>9. interest' \subseteq interest \cup {item} /\ ListenerItem \in interest'
  BY <1>1, <1>3, <1>4, <1>5, RearmedList, SlotOps, SlotFields
     DEF ListenerKept, TypeOK, Directions, event_del
<1>10. fdt'[ListenFd] = Listener
  BY <1>1, <1>3 DEF ListenerKept
<1>11. batch' \subseteq batch /\ pc' # "halted"
  BY <1>1 DEF Take, Remaining
<1>12. ListenerKept' /\ SlotsApart' /\ EventsApart'
  <2>1. g_events' = [g_events EXCEPT ![s] = ev]
    BY <1>2
  <2> HIDE DEF ev, item
  <2> QED BY <1>3, <1>4, <1>7, <1>8, <1>9, <1>10, <1>11, <2>1, SlotStep
<1> QED
  BY <1>11, <1>12 DEF Guarded, Running

LEMMA SendGuarded ==
  ASSUME TypeOK, Guarded, Running, NEW i \in batch, SendSome(i)
  PROVE  Guarded'
<1> DEFINE s == i.slot
           old == g_events[s]
           ev == Rearm(event_del(old), old.fd, "recvdata", "IN")
           item == [fd |-> old.fd, events |-> "IN", slot |-> s]
<1>1. /\ Take(i) /\ Calls(i, "senddata")
      /\ g_events' = [g_events EXCEPT ![s] = ev]
      /\ interest' = RearmList(DelFrom(interest, old), event_del(old),
                               old.fd, "recvdata", "IN", s)
      /\ UNCHANGED fdt
      /\ \E n \in SendResults(old.fd, old.len) : ~SendFails(n, old.len)
  BY DEF SendSome
<1>2. ListenerKept /\ SlotsApart /\ EventsApart
  BY DEF Guarded
<1>3. s \in ClientSlots /\ s \in Slots /\ old \in Slot /\ old.fd # ListenFd
  BY <1>1, <1>2, ClientEvent
<1>4. event_del(old) \in Slot
  BY <1>3, SlotFields DEF event_del
<1>5. old.fd \in Fds \ {ListenFd}
  <2>1. PICK n \in SendResults(old.fd, old.len) : ~SendFails(n, old.len)
    BY <1>1
  <2>2. old.len \in 0..BUFLEN
    BY <1>3 DEF Slot
  <2>3. n \in Int
    BY <2>2, ReactorAssumption DEF SendResults
  <2>4. n > 0
    BY <2>1, <2>3 DEF SendFails
  <2> QED
    BY <1>3, <2>2, <2>4, SendBytes
<1>6. ev.fd = old.fd /\ ev.events = "IN" /\ ev.call_back = "recvdata"
  BY <1>4, RearmFields
<1>7. ev.fd # ListenFd /\ Fits(ev) /\ ev.call_back # "NULL"
  BY <1>3, <1>6 DEF Fits
<1>8. item \in Item /\ item.fd # ListenFd /\ item.slot = s
  BY <1>3, <1>5 DEF Item, Directions
<1>9. interest' \subseteq interest \cup {item} /\ ListenerItem \in interest'
  BY <1>1, <1>2, <1>3, <1>4, <1>5, RearmedList DEF ListenerKept, TypeOK, Directions
<1>10. fdt'[ListenFd] = Listener
  BY <1>1, <1>2 DEF ListenerKept
<1>11. batch' \subseteq batch /\ pc' # "halted"
  BY <1>1 DEF Take, Remaining
<1>12. ListenerKept' /\ SlotsApart' /\ EventsApart'
  <2> HIDE DEF ev, item
  <2> QED BY <1>1, <1>2, <1>3, <1>7, <1>8, <1>9, <1>10, <1>11, SlotStep
<1> QED
  BY <1>11, <1>12 DEF Guarded, Running

LEMMA EndGuarded ==
  ASSUME TypeOK, Guarded, Running, NEW i \in batch, RecvEnd(i) \/ SendFail(i)
  PROVE  Guarded'
<1> DEFINE s == i.slot
           old == g_events[s]
<1>1. /\ Take(i)
      /\ Calls(i, "recvdata") \/ Calls(i, "senddata")
      /\ g_events' = [g_events EXCEPT ![s] = event_del(old)]
      /\ Close(DelFrom(interest, old), {old.fd})
  BY DEF RecvEnd, SendFail
<1>2. ListenerKept /\ SlotsApart /\ EventsApart
  BY DEF Guarded
<1>3. /\ s \in ClientSlots /\ s \in Slots /\ old \in Slot /\ old.fd # ListenFd
      /\ Fits(old)
  BY <1>1, <1>2, ClientEvent
<1>4. old.call_back # "NULL"
  BY <1>2 DEF EventsApart, LeadsRight
<1>5. /\ event_del(old).fd = old.fd
      /\ event_del(old).call_back = old.call_back
      /\ event_del(old).events = old.events
  BY <1>3 DEF event_del, Slot
<1>6. interest' \subseteq interest \cup {i} /\ ListenerItem \in interest'
  BY <1>1, <1>2, <1>3
     DEF Close, ClosedList, DelFrom, EpollDel, ListenerKept, ListenerItem
<1>7. fdt'[ListenFd] = Listener
  BY <1>1, <1>2, <1>3, SocketsAssumption DEF Close, ClosedTable, ListenerKept
<1>8. i \in Item /\ i.fd # ListenFd
  BY <1>2, <1>3, SlotCases DEF EventsApart, LeadsRight, TypeOK
<1>9. batch' \subseteq batch /\ pc' # "halted"
  BY <1>1 DEF Take, Remaining
<1>10. ListenerKept' /\ SlotsApart' /\ EventsApart'
  <2> DEFINE ev == event_del(old)
  <2>1. ev.fd # ListenFd /\ Fits(ev) /\ ev.call_back # "NULL"
    BY <1>3, <1>4, <1>5 DEF Fits
  <2>2. g_events' = [g_events EXCEPT ![s] = ev]
    BY <1>1
  <2> HIDE DEF ev
  <2> QED BY <1>2, <1>3, <1>6, <1>7, <1>8, <1>9, <2>1, <2>2, SlotStep
<1> QED
  BY <1>9, <1>10 DEF Guarded, Running

LEMMA HaltGuarded == Halt => Guarded'
  BY DEF Halt, Exit, Guarded, Running

(* The sweep closes the numbers of client slots only. *)
LEMMA SweepGuarded ==
  ASSUME TypeOK, Guarded, Sweep
  PROVE  Guarded'
<1>1. ListenerKept /\ SlotsApart /\ EventsApart
  BY DEF Sweep, SweepDue, Guarded, Running
<1>2. Expired \subseteq ClientSlots
  BY SweepRange DEF Expired, TypeOK
<1>3. ListenFd \notin {g_events[s].fd : s \in Expired}
  BY <1>1, <1>2 DEF SlotsApart
<1>4. fdt'[ListenFd] = Listener
  BY <1>1, <1>3, SocketsAssumption DEF Sweep, Close, ClosedTable, ListenerKept
<1>5. interest' \subseteq interest /\ ListenerItem \in interest'
  BY <1>1, <1>3 DEF Sweep, Close, ClosedList, ListenerKept, ListenerItem
<1>6. ASSUME NEW s \in Slots
      PROVE  /\ g_events'[s].fd = g_events[s].fd
             /\ g_events'[s].events = g_events[s].events
             /\ g_events'[s].call_back = g_events[s].call_back
             /\ s \notin ClientSlots => g_events'[s] = g_events[s]
  <2>1. g_events[s] \in Slot
    BY DEF TypeOK
  <2> QED
    BY <1>2, <2>1 DEF Sweep, event_del, Slot
<1>7. ListenerKept'
  BY <1>1, <1>4, <1>5, <1>6, SlotCases, ReactorAssumption
     DEF ListenerKept, ListenerItem, Slots
<1>8. SlotsApart'
  <2> SUFFICES ASSUME NEW s \in ClientSlots
               PROVE  g_events'[s].fd # ListenFd /\ Fits(g_events'[s])
    BY DEF SlotsApart, Fits
  <2>1. s \in Slots
    BY ClientInSlots
  <2> QED
    BY <1>1, <1>6, <2>1 DEF SlotsApart, Fits
<1>9. EventsApart'
  <2> SUFFICES ASSUME NEW i \in interest' \cup batch' PROVE LeadsRight(i)'
    BY DEF EventsApart
  <2>1. i \in interest \cup batch /\ i.slot \in Slots
    BY <1>5 DEF Sweep, TypeOK, Item
  <2> QED
    BY <1>1, <1>6, <2>1 DEF EventsApart, LeadsRight
<1> QED
  BY <1>7, <1>8, <1>9 DEF Sweep, Guarded, Running

LEMMA DispatchGuarded ==
  ASSUME TypeOK, Guarded, NEW i \in batch, Dispatch(i)
  PROVE  Guarded'
<1>1. Running
  BY DEF Guarded
<1>2. CASE Skip(i) \/ AcceptFail(i)
  <2>1. UNCHANGED <<fdt, interest, g_events>> /\ batch' \subseteq batch /\ pc' # "halted"
    BY <1>2 DEF Skip, AcceptFail, Take, Remaining, socketVars
  <2> QED
    BY <1>1, <2>1
       DEF Guarded, Running, ListenerKept, SlotsApart, Fits, EventsApart, LeadsRight
<1>3. CASE AcceptStore(i)
  BY <1>1, <1>3, AcceptGuarded
<1>4. CASE AcceptLeak(i)
  <2>1. PICK c \in Conns, cfd \in Fds : Accepted(i, c, cfd)
    BY <1>4 DEF AcceptLeak
  <2>2. UNCHANGED <<interest, g_events>> /\ batch' \subseteq batch /\ pc' # "halted"
    BY <1>4 DEF AcceptLeak, Accepted, Take, Remaining
  <2>3. fdt'[ListenFd] = fdt[ListenFd]
    BY <1>1, <2>1, SocketsAssumption
       DEF Accepted, LowestFree, FreeFds, Guarded, ListenerKept, TypeOK
  <2> QED
    BY <1>1, <2>2, <2>3
       DEF Guarded, Running, ListenerKept, SlotsApart, Fits, EventsApart, LeadsRight
<1>5. CASE AcceptWild(i) \/ SendKilled(i)
  BY <1>5, HaltGuarded DEF AcceptWild, SendKilled
<1>6. CASE RecvSome(i)
  BY <1>1, <1>6, RecvGuarded
<1>7. CASE SendSome(i)
  BY <1>1, <1>7, SendGuarded
<1>8. CASE RecvEnd(i) \/ SendFail(i)
  BY <1>1, <1>8, EndGuarded
<1> QED
  BY <1>2, <1>3, <1>4, <1>5, <1>6, <1>7, <1>8 DEF Dispatch

LEMMA NextGuarded == TypeOK /\ Guarded /\ [Next]_vars => Guarded'
<1> SUFFICES ASSUME TypeOK, Guarded, [Next]_vars PROVE Guarded'
  OBVIOUS
<1>1. CASE Sweep
  BY <1>1, SweepGuarded
<1>2. CASE Wait
  <2>1. batch' \subseteq interest /\ pc' # "halted" /\ Running
    BY <1>2 DEF Wait, Batches, ReadyItems, Running
  <2> QED
    BY <1>2, <2>1
       DEF Wait, socketVars, Guarded, Running, ListenerKept, SlotsApart, Fits,
           EventsApart, LeadsRight
<1>3. CASE \E i \in batch : Dispatch(i)
  BY <1>3, DispatchGuarded
<1>4. CASE WaitError
  BY <1>4, HaltGuarded DEF WaitError
<1>5. CASE Clients
  <2>1. UNCHANGED <<fdt, interest, g_events, batch, pc>>
    BY <1>5 DEF Clients, Client, Connect, ClientSend, ClientDrain, ClientFin, ClientReset
  <2> QED
    BY <2>1
       DEF Guarded, Running, ListenerKept, SlotsApart, Fits, EventsApart, LeadsRight
<1>6. CASE Tick
  <2>1. UNCHANGED <<fdt, interest, batch, pc>>
    BY <1>6 DEF Tick, SocketTick
  <2>2. ASSUME NEW s \in Slots
        PROVE  /\ g_events'[s].fd = g_events[s].fd
               /\ g_events'[s].events = g_events[s].events
               /\ g_events'[s].call_back = g_events[s].call_back
               /\ g_events'[s].status = g_events[s].status
    <3>1. g_events[s] \in Slot
      BY DEF TypeOK
    <3> QED
      BY <1>6, <3>1 DEF Tick, Slot
  <2>3. ASSUME NEW i \in interest \cup batch PROVE i.slot \in Slots
    BY DEF TypeOK, Item
  <2>4. ListenerKept => ListenerKept'
    BY <2>1, <2>2, ReactorAssumption DEF ListenerKept, ListenerItem, Slots
  <2>5. SlotsApart => SlotsApart'
    <3> SUFFICES ASSUME SlotsApart, NEW s \in ClientSlots
                 PROVE  g_events'[s].fd # ListenFd /\ Fits(g_events'[s])
      BY DEF SlotsApart, Fits
    <3>1. s \in Slots
      BY ClientInSlots
    <3> QED
      BY <2>2, <3>1 DEF SlotsApart, Fits
  <2>6. EventsApart => EventsApart'
    BY <2>1, <2>2, <2>3 DEF EventsApart, LeadsRight
  <2> QED
    BY <2>1, <2>4, <2>5, <2>6 DEF Guarded, Running
<1>7. CASE UNCHANGED vars
  BY <1>7
     DEF vars, socketVars, Guarded, Running, ListenerKept, SlotsApart, Fits,
         EventsApart, LeadsRight
<1> QED
  BY <1>1, <1>2, <1>3, <1>4, <1>5, <1>6, <1>7 DEF Next, Server

(* The listening socket is never closed, lost or taken for a client's, and *)
(* every event leads to a slot that is ready for it, whatever index        *)
(* acceptconn stores a connection at.                                      *)
THEOREM ListenerSafe == Spec => []ListenerIntact
<1>1. Spec => []Guarded
  BY InitGuarded, NextGuarded, TypeCorrect, PTL DEF Spec
<1> QED
  BY <1>1, TypeCorrect, GuardedImplies, PTL

(* Every callback the dispatch loop makes goes through a pointer that has  *)
(* been set and fits the direction its slot waits for.                     *)
THEOREM CallbackSafe == Spec => []CallbackReady
<1>1. Spec => []Guarded
  BY InitGuarded, NextGuarded, TypeCorrect, PTL DEF Spec
<1> QED
  BY <1>1, TypeCorrect, GuardedImplies, PTL

===============================================================================
