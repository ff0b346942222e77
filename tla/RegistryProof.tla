----------------------------- MODULE RegistryProof ----------------------------
(* Proofs that the slot table, the epoll list, the descriptor table and    *)
(* the events in hand agree as long as no slot in use is overwritten, for  *)
(* every value of the constants.                                           *)
EXTENDS ReactorProof

(* RegistryAgrees, SlotOwnsConn and BatchFresh support each other: a       *)
(* callback may re-register its slot by number only because no two live    *)
(* slots share a number, the event it is called for is a registration only *)
(* because the events before it left the others alone, and a sweep finds   *)
(* no event in hand.  Matched is their conjunction slot by slot.           *)

Registered ==
  /\ \A i \in interest : Live(i.slot) /\ i = Registration(i.slot)
  /\ \A s \in Slots : Live(s) => Registration(s) \in interest

Owning ==
  /\ \A s \in ClientSlots : Live(s) => IsConn(g_events[s].fd)
  /\ \A s, t \in Slots :
       Live(s) /\ Live(t) /\ g_events[s].fd = g_events[t].fd => s = t

Matched ==
  /\ ~clobbered /\ Running => Registered /\ Owning /\ batch \subseteq interest
  /\ pc # "dispatch" => batch = {}

LEMMA MatchedImplies ==
  ASSUME TypeOK, Matched
  PROVE  RegistryAgrees /\ SlotOwnsConn /\ BatchFresh
<1>1. RegistryAgrees
  <2> SUFFICES ASSUME ~clobbered, Running
               PROVE  interest = {Registration(s) : s \in {t \in Slots : Live(t)}}
    BY DEF RegistryAgrees
  <2>1. Registered
    BY DEF Matched
  <2>2. ASSUME NEW i \in interest PROVE i.slot \in Slots
    BY DEF TypeOK, Item
  <2> QED
    BY <2>1, <2>2 DEF Registered
<1>2. SlotOwnsConn
  BY ClientInSlots DEF SlotOwnsConn, Matched, Owning
<1>3. BatchFresh
  BY DEF BatchFresh, Matched, Running
<1> QED
  BY <1>1, <1>2, <1>3

LEMMA InitMatched == Init => Matched
<1> SUFFICES ASSUME Init PROVE Matched
  OBVIOUS
<1>1. g_events[MAX_EVENTS] = Rearm(ZeroSlot, ListenFd, "acceptconn", "IN")
  BY ReactorAssumption DEF Init, Slots
<1>2. ZeroSlot \in Slot
  BY SocketsAssumption, ReactorAssumption DEF ZeroSlot, Slot
<1>3. Live(MAX_EVENTS) /\ Registration(MAX_EVENTS) = ListenerItem
  BY <1>1, <1>2, RearmFields DEF Live, Registration, ListenerItem
<1>4. ASSUME NEW s \in Slots, Live(s) PROVE s = MAX_EVENTS
  BY <1>4 DEF Init, Live, ZeroSlot
<1>5. interest = {ListenerItem}
  BY DEF Init, ListenerItem
<1>6. Registered
  BY <1>3, <1>4, <1>5 DEF Registered, ListenerItem
<1>7. Owning
  BY <1>4, ClientInSlots DEF Owning
<1> QED
  BY <1>6, <1>7 DEF Matched, Init

(* The slot of the event a callback is called for, while nothing has been  *)
(* overwritten.                                                            *)
LEMMA CalledSlot ==
  ASSUME TypeOK, Guarded, Matched, ~clobbered, Running, NEW i \in batch,
         NEW call_back \in {"recvdata", "senddata"}, Calls(i, call_back)
  PROVE  /\ i.slot \in ClientSlots /\ i.slot \in Slots /\ g_events[i.slot] \in Slot
         /\ Live(i.slot) /\ i = Registration(i.slot) /\ i \in interest
         /\ IsConn(g_events[i.slot].fd) /\ g_events[i.slot].fd \in Fds
         /\ Registered /\ Owning /\ batch \subseteq interest
<1>1. ListenerKept /\ SlotsApart /\ Registered /\ Owning /\ batch \subseteq interest
  BY DEF Guarded, Matched
<1>2. i.slot \in ClientSlots /\ i.slot \in Slots /\ g_events[i.slot] \in Slot
  BY <1>1, ClientEvent
<1>3. i \in interest /\ Live(i.slot) /\ i = Registration(i.slot)
  BY <1>1 DEF Registered
<1> QED
  BY <1>1, <1>2, <1>3 DEF Owning, IsConn

(* event_del, event_set and event_add on a live slot with a number no      *)
(* other slot has: exactly its registration is replaced.                   *)
LEMMA RearmedExactly ==
  ASSUME NEW s, g_events[s] \in Slot, Live(s), fdt[g_events[s].fd] # Free,
         NEW dir, NEW call_back
  PROVE  LET ev == g_events[s] IN
         RearmList(DelFrom(interest, ev), event_del(ev), ev.fd, call_back, dir, s) =
           {j \in interest : j.fd # ev.fd}
             \cup {[fd |-> ev.fd, events |-> dir, slot |-> s]}
<1> DEFINE ev == g_events[s]
<1>1. event_set(event_del(ev), ev.fd, call_back).fd = ev.fd
  BY DEF Slot, event_set, event_del
<1>2. event_set(event_del(ev), ev.fd, call_back).status = 0
  BY DEF Slot, event_set, event_del
<1>3. DelFrom(interest, ev) = {j \in interest : j.fd # ev.fd}
  BY DEF DelFrom, EpollDel, Live
<1> QED
  BY <1>1, <1>2, <1>3 DEF RearmList, AddTo, EpollAdd

LEMMA RearmStep ==
  ASSUME TypeOK, Registered, Owning, batch \subseteq interest,
         NEW s \in ClientSlots, Live(s), NEW i \in batch, i.slot = s,
         NEW ev, NEW dir, ev.fd = g_events[s].fd, ev.events = dir, ev.status = 1,
         g_events' = [g_events EXCEPT ![s] = ev],
         interest' = {j \in interest : j.fd # g_events[s].fd}
                       \cup {[fd |-> ev.fd, events |-> dir, slot |-> s]},
         batch' = batch \ {i}, fdt' = fdt
  PROVE  Registered' /\ Owning' /\ batch' \subseteq interest'
<1>1. /\ s \in Slots /\ g_events'[s] = ev
      /\ \A t \in Slots : t # s => g_events'[t] = g_events[t]
  BY ClientInSlots DEF TypeOK
<1>2. /\ \A t \in Slots : Live(t)' <=> Live(t)
      /\ \A t \in Slots : g_events'[t].fd = g_events[t].fd
      /\ Registration(s)' = [fd |-> ev.fd, events |-> dir, slot |-> s]
      /\ \A t \in Slots : t # s => Registration(t)' = Registration(t)
  BY <1>1 DEF Live, Registration
<1>3. \A j \in interest : j.slot \in Slots /\ j.fd = g_events[j.slot].fd
  BY DEF Registered, Registration, TypeOK, Item
<1>4. Registered'
  <2>1. ASSUME NEW j \in interest'
        PROVE  Live(j.slot)' /\ j = Registration(j.slot)'
    <3>1. CASE j = [fd |-> ev.fd, events |-> dir, slot |-> s]
      BY <1>1, <1>2, <3>1
    <3>2. CASE j \in interest /\ j.fd # g_events[s].fd
      <4>1. j.slot # s /\ j.slot \in Slots
        BY <1>3, <3>2
      <4> QED
        BY <1>2, <3>2, <4>1 DEF Registered
    <3> QED
      BY <3>1, <3>2
  <2>2. ASSUME NEW t \in Slots, Live(t)' PROVE Registration(t)' \in interest'
    <3>1. CASE t = s
      BY <1>2, <3>1
    <3>2. CASE t # s
      <4>1. g_events[t].fd # g_events[s].fd
        BY <1>1, <1>2, <2>2, <3>2 DEF Owning
      <4>2. Registration(t) \in interest /\ Registration(t).fd = g_events[t].fd
        BY <1>2, <2>2 DEF Registered, Registration
      <4> QED
        BY <1>2, <3>2, <4>1, <4>2
    <3> QED
      BY <3>1, <3>2
  <2> QED
    BY <2>1, <2>2 DEF Registered
<1>5. Owning'
  BY <1>2, ClientInSlots DEF Owning, IsConn
<1>6. ASSUME NEW j \in batch' PROVE j \in interest'
  <2>1. j \in interest /\ j # i /\ i \in interest
    BY <1>6
  <2>2. j.slot # s
    BY <2>1 DEF Registered
  <2>3. j.fd # g_events[s].fd
    BY <1>1, <1>3, <2>1, <2>2 DEF Owning, Registered
  <2> QED
    BY <2>1, <2>3
<1> QED
  BY <1>4, <1>5, <1>6

LEMMA RecvMatched ==
  ASSUME TypeOK, Guarded, Matched, Running, NEW i \in batch, RecvSome(i)
  PROVE  Matched'
<1> DEFINE s == i.slot
           old == g_events[s]
           n == RecvResult(old.fd, BUFLEN)
<1>1. /\ Take(i) /\ Calls(i, "recvdata")
      /\ interest' = RearmList(DelFrom(interest, old), event_del(old),
                               old.fd, "senddata", "OUT", s)
      /\ fdt' = fdt /\ clobbered' = clobbered
  BY DEF RecvSome
<1>2. PICK len \in StoredLen(n) :
        g_events' = [g_events EXCEPT ![s] =
          Rearm([event_del(old) EXCEPT !.from = fdt[old.fd], !.got = n, !.len = len],
                old.fd, "senddata", "OUT")]
  BY DEF RecvSome
<1>3. /\ pc' # "dispatch" => batch' = {}
      /\ batch' = batch \ {i}
  BY <1>1 DEF Take, Remaining
<1>4. ASSUME ~clobbered PROVE Registered' /\ Owning' /\ batch' \subseteq interest'
  <2> DEFINE ev == Rearm([event_del(old) EXCEPT !.from = fdt[old.fd], !.got = n, !.len = len],
                         old.fd, "senddata", "OUT")
  <2>1. /\ s \in ClientSlots /\ s \in Slots /\ old \in Slot /\ Live(s)
        /\ IsConn(old.fd) /\ Registered /\ Owning /\ batch \subseteq interest
    BY <1>1, <1>4, CalledSlot
  <2>2. ev.fd = old.fd /\ ev.events = "OUT" /\ ev.status = 1
    BY <2>1 DEF Rearm, event_set, event_add, event_del, Slot
  <2>3. fdt[old.fd] # Free /\ old.status = 1 /\ event_del(old) \in Slot
    BY <2>1, SocketsAssumption, SlotFields DEF IsConn, Live, event_del
  <2>4. interest' = {j \in interest : j.fd # old.fd}
                      \cup {[fd |-> ev.fd, events |-> "OUT", slot |-> s]}
    <3>1. RearmList(DelFrom(interest, old), event_del(old), old.fd, "senddata", "OUT", s)
            = {j \in interest : j.fd # old.fd}
                \cup {[fd |-> old.fd, events |-> "OUT", slot |-> s]}
      BY <2>1, <2>3, RearmedExactly
    <3> HIDE DEF ev
    <3> QED BY <1>1, <2>2, <2>3, <3>1
  <2>5. g_events' = [g_events EXCEPT ![s] = ev]
    BY <1>2
  <2> HIDE DEF ev
  <2> QED
    BY <1>1, <1>3, <2>1, <2>2, <2>4, <2>5, RearmStep
<1> QED
  BY <1>1, <1>3, <1>4 DEF Matched

LEMMA SendMatched ==
  ASSUME TypeOK, Guarded, Matched, Running, NEW i \in batch, SendSome(i)
  PROVE  Matched'
<1> DEFINE s == i.slot
           old == g_events[s]
           ev == Rearm(event_del(old), old.fd, "recvdata", "IN")
<1>1. /\ Take(i) /\ Calls(i, "senddata")
      /\ g_events' = [g_events EXCEPT ![s] = ev]
      /\ interest' = RearmList(DelFrom(interest, old), event_del(old),
                               old.fd, "recvdata", "IN", s)
      /\ fdt' = fdt /\ clobbered' = clobbered
  BY DEF SendSome
<1>2. /\ pc' # "dispatch" => batch' = {}
      /\ batch' = batch \ {i}
  BY <1>1 DEF Take, Remaining
<1>3. ASSUME ~clobbered PROVE Registered' /\ Owning' /\ batch' \subseteq interest'
  <2>1. /\ s \in ClientSlots /\ s \in Slots /\ old \in Slot /\ Live(s)
        /\ IsConn(old.fd) /\ Registered /\ Owning /\ batch \subseteq interest
    BY <1>1, <1>3, CalledSlot
  <2>2. fdt[old.fd] # Free /\ old.status = 1 /\ event_del(old) \in Slot
    BY <2>1, SocketsAssumption, SlotFields DEF IsConn, Live, event_del
  <2>3. ev.fd = old.fd /\ ev.events = "IN" /\ ev.status = 1
    BY <2>2, RearmFields
  <2>4. interest' = {j \in interest : j.fd # old.fd}
                      \cup {[fd |-> ev.fd, events |-> "IN", slot |-> s]}
    <3>1. RearmList(DelFrom(interest, old), event_del(old), old.fd, "recvdata", "IN", s)
            = {j \in interest : j.fd # old.fd}
                \cup {[fd |-> old.fd, events |-> "IN", slot |-> s]}
      BY <2>1, <2>2, RearmedExactly
    <3> HIDE DEF ev
    <3> QED BY <1>1, <2>2, <2>3, <3>1
  <2> HIDE DEF ev
  <2> QED
    BY <1>1, <1>2, <2>1, <2>3, <2>4, RearmStep
<1> QED
  BY <1>1, <1>2, <1>3 DEF Matched

LEMMA EndMatched ==
  ASSUME TypeOK, Guarded, Matched, Running, NEW i \in batch,
         RecvEnd(i) \/ SendFail(i)
  PROVE  Matched'
<1> DEFINE s == i.slot
           old == g_events[s]
<1>1. /\ Take(i)
      /\ Calls(i, "recvdata") \/ Calls(i, "senddata")
      /\ g_events' = [g_events EXCEPT ![s] = event_del(old)]
      /\ Close(DelFrom(interest, old), {old.fd})
      /\ clobbered' = clobbered
  BY DEF RecvEnd, SendFail
<1>2. /\ pc' # "dispatch" => batch' = {}
      /\ batch' = batch \ {i}
  BY <1>1 DEF Take, Remaining
<1>3. ASSUME ~clobbered PROVE Registered' /\ Owning' /\ batch' \subseteq interest'
  <2>1. /\ s \in ClientSlots /\ s \in Slots /\ old \in Slot /\ Live(s)
        /\ i = Registration(s) /\ i \in interest
        /\ Registered /\ Owning /\ batch \subseteq interest
    BY <1>1, <1>3, CalledSlot
  <2>2. interest' = {j \in interest : j.fd # old.fd}
    BY <1>1, <2>1 DEF Close, ClosedList, DelFrom, EpollDel, Live
  <2>3. \A fd \in Fds : fd # old.fd => fdt'[fd] = fdt[fd]
    BY <1>1 DEF Close, ClosedTable
  <2>4. /\ ~Live(s)'
        /\ \A t \in Slots : t # s => /\ g_events'[t] = g_events[t]
                                     /\ Live(t)' <=> Live(t)
                                     /\ Registration(t)' = Registration(t)
    BY <1>1, <2>1 DEF TypeOK, Live, Registration, event_del, Slot
  <2>5. \A j \in interest :
          /\ j.slot \in Slots /\ j.fd = g_events[j.slot].fd
          /\ j.fd # old.fd <=> j.slot # s
    BY <2>1 DEF Registered, Owning, Registration, TypeOK, Item
  <2>6. Registered'
    <3>1. ASSUME NEW j \in interest' PROVE Live(j.slot)' /\ j = Registration(j.slot)'
      BY <2>1, <2>2, <2>4, <2>5 DEF Registered
    <3>2. ASSUME NEW t \in Slots, Live(t)' PROVE Registration(t)' \in interest'
      <4>1. t # s /\ Registration(t) \in interest /\ Registration(t).slot = t
        BY <2>1, <2>4, <3>2 DEF Registered, Registration
      <4> QED
        BY <2>2, <2>4, <2>5, <4>1
    <3> QED
      BY <3>1, <3>2 DEF Registered
  <2>7. Owning'
    <3>1. ASSUME NEW t \in ClientSlots, Live(t)' PROVE IsConn(g_events[t].fd)'
      <4>1. t \in Slots /\ t # s /\ Live(t) /\ g_events'[t] = g_events[t]
        BY <2>4, <3>1, ClientInSlots
      <4>2. g_events[t].fd # old.fd /\ IsConn(g_events[t].fd)
        BY <2>1, <3>1, <4>1 DEF Owning
      <4> QED
        BY <2>3, <4>1, <4>2 DEF IsConn
    <3>2. ASSUME NEW t \in Slots, NEW u \in Slots, Live(t)', Live(u)',
                 g_events'[t].fd = g_events'[u].fd
          PROVE  t = u
      BY <2>1, <2>4, <3>2 DEF Owning
    <3> QED
      BY <3>1, <3>2 DEF Owning
  <2>8. batch' \subseteq interest'
    <3>1. ASSUME NEW j \in batch' PROVE j \in interest'
      <4>1. j \in interest /\ j # i /\ j = Registration(j.slot)
        BY <1>2, <2>1, <3>1 DEF Registered
      <4>2. j.slot # s
        BY <2>1, <4>1
      <4> QED
        BY <2>2, <2>5, <4>1, <4>2
    <3> QED
      BY <3>1
  <2> QED
    BY <2>6, <2>7, <2>8
<1> QED
  BY <1>1, <1>2, <1>3 DEF Matched

LEMMA AcceptMatched ==
  ASSUME TypeOK, Guarded, Matched, Running, NEW i \in batch, AcceptStore(i)
  PROVE  Matched'
<1>1. PICK c \in Conns, cfd \in Fds, slot \in StoreSlots :
        /\ Accepted(i, c, cfd)
        /\ g_events' = [g_events EXCEPT ![slot] = Rearm(@, cfd, "recvdata", "IN")]
        /\ interest' = interest \cup {[fd |-> cfd, events |-> "IN", slot |-> slot]}
        /\ clobbered' = (clobbered \/ g_events[slot].status = 1)
  BY DEF AcceptStore
<1>2. /\ pc' # "dispatch" => batch' = {}
      /\ batch' \subseteq batch
  BY <1>1 DEF Accepted, Take, Remaining
<1>3. ASSUME ~clobbered' PROVE Registered' /\ Owning' /\ batch' \subseteq interest'
  <2>1. ~clobbered /\ ~Live(slot) /\ ListenerKept /\ Registered /\ Owning
        /\ batch \subseteq interest
    BY <1>1, <1>3 DEF Matched, Guarded, Live
  <2>2. slot \in ClientSlots /\ slot \in Slots /\ g_events[slot] \in Slot
    BY ClientInSlots DEF StoreSlots, TypeOK
  <2>3. fdt[cfd] = Free /\ \A fd \in Fds : fd # cfd => fdt'[fd] = fdt[fd]
    BY <1>1 DEF Accepted, LowestFree, FreeFds, TypeOK
  <2>4. fdt'[cfd] \in Conns
    BY <1>1 DEF Accepted, TypeOK
  <2>5. ASSUME NEW t \in Slots, Live(t) PROVE t # slot /\ g_events[t].fd # cfd
    <3>1. CASE t = MAX_EVENTS
      BY <2>1, <2>3, <3>1, <2>5, SocketsAssumption DEF ListenerKept
    <3>2. CASE t \in ClientSlots
      BY <2>1, <2>3, <2>5, <3>2, SocketsAssumption DEF Owning, IsConn
    <3> QED
      BY <3>1, <3>2, SlotCases
  <2>6. /\ g_events'[slot].fd = cfd /\ g_events'[slot].status = 1
        /\ g_events'[slot].events = "IN"
        /\ \A t \in Slots : t # slot => g_events'[t] = g_events[t]
    <3>1. g_events'[slot] = Rearm(g_events[slot], cfd, "recvdata", "IN")
      BY <1>1, <2>2 DEF TypeOK
    <3>2. \A t \in Slots : t # slot => g_events'[t] = g_events[t]
      BY <1>1 DEF TypeOK
    <3> QED
      BY <2>2, <3>1, <3>2, RearmFields
  <2>7. /\ Live(slot)'
        /\ Registration(slot)' = [fd |-> cfd, events |-> "IN", slot |-> slot]
        /\ \A t \in Slots : t # slot => /\ Live(t)' <=> Live(t)
                                        /\ Registration(t)' = Registration(t)
    BY <2>6 DEF Live, Registration
  <2>8. Registered'
    <3>1. ASSUME NEW j \in interest' PROVE Live(j.slot)' /\ j = Registration(j.slot)'
      <4>1. CASE j = [fd |-> cfd, events |-> "IN", slot |-> slot]
        BY <2>7, <4>1
      <4>2. CASE j \in interest
        <5>1. j.slot \in Slots /\ Live(j.slot) /\ j = Registration(j.slot)
          BY <2>1, <4>2 DEF Registered, TypeOK, Item
        <5> QED
          BY <2>5, <2>7, <5>1
      <4> QED
        BY <1>1, <4>1, <4>2
    <3>2. ASSUME NEW t \in Slots, Live(t)' PROVE Registration(t)' \in interest'
      BY <1>1, <2>1, <2>7, <3>2 DEF Registered
    <3> QED
      BY <3>1, <3>2 DEF Registered
  <2>9. Owning'
    <3>1. ASSUME NEW t \in ClientSlots, Live(t)' PROVE IsConn(g_events[t].fd)'
      <4>1. t \in Slots
        BY ClientInSlots
      <4>2. CASE t = slot
        BY <2>4, <2>6, <4>2 DEF IsConn
      <4>3. CASE t # slot
        BY <2>1, <2>3, <2>5, <2>6, <2>7, <3>1, <4>1, <4>3 DEF Owning, IsConn
      <4> QED
        BY <4>2, <4>3
    <3>2. ASSUME NEW t \in Slots, NEW u \in Slots, Live(t)', Live(u)',
                 g_events'[t].fd = g_events'[u].fd
          PROVE  t = u
      BY <2>1, <2>5, <2>6, <2>7, <3>2 DEF Owning
    <3> QED
      BY <3>1, <3>2 DEF Owning
  <2> QED
    BY <1>1, <1>2, <2>1, <2>8, <2>9
<1> QED
  BY <1>2, <1>3 DEF Matched

(* A sweep takes the expired slots out of all three tables at once. *)
LEMMA SweepMatched ==
  ASSUME TypeOK, Guarded, Matched, Sweep
  PROVE  Matched'
<1>1. batch' = {} /\ pc' = "wait" /\ clobbered' = clobbered /\ Running
  BY DEF Sweep, SweepDue, Matched, Running
<1>2. ASSUME ~clobbered PROVE Registered' /\ Owning' /\ batch' \subseteq interest'
  <2> DEFINE fds == {g_events[s].fd : s \in Expired}
  <2>1. Registered /\ Owning /\ Expired \subseteq ClientSlots /\ Expired \subseteq Slots
    BY <1>1, <1>2, SweepRange, ClientInSlots DEF Matched, Expired, TypeOK
  <2>2. ASSUME NEW s \in Slots
        PROVE  /\ s \in Expired => ~Live(s)' /\ Live(s)
               /\ s \notin Expired => g_events'[s] = g_events[s]
    <3>1. g_events[s] \in Slot
      BY DEF TypeOK
    <3> QED
      BY <3>1 DEF Sweep, Live, event_del, Slot, Expired
  <2>3. ASSUME NEW s \in Slots
        PROVE  s \notin Expired =>
                 (Live(s)' <=> Live(s)) /\ Registration(s)' = Registration(s)
    BY <2>2 DEF Live, Registration
  <2>4. ASSUME NEW s \in Slots, Live(s), s \notin Expired PROVE g_events[s].fd \notin fds
    BY <2>1, <2>2, <2>4 DEF Owning
  <2>5. interest' = {j \in interest : j.fd \notin fds}
    BY DEF Sweep, Close, ClosedList
  <2>6. \A fd \in Fds : fd \notin fds => fdt'[fd] = fdt[fd]
    BY DEF Sweep, Close, ClosedTable
  <2>7. Registered'
    <3>1. ASSUME NEW j \in interest' PROVE Live(j.slot)' /\ j = Registration(j.slot)'
      <4>1. /\ j \in interest /\ j.fd \notin fds
            /\ j.slot \in Slots /\ Live(j.slot) /\ j = Registration(j.slot)
        BY <2>1, <2>5, <3>1 DEF Registered, TypeOK, Item
      <4>2. j.slot \notin Expired
        BY <4>1 DEF Registration
      <4> QED
        BY <2>3, <4>1, <4>2
    <3>2. ASSUME NEW t \in Slots, Live(t)' PROVE Registration(t)' \in interest'
      <4>1. t \notin Expired /\ Live(t)
        BY <2>2, <2>3, <3>2
      <4>2. Registration(t) \in interest /\ Registration(t).fd \notin fds
        BY <2>1, <2>4, <4>1 DEF Registered, Registration
      <4> QED
        BY <2>3, <2>5, <4>1, <4>2
    <3> QED
      BY <3>1, <3>2 DEF Registered
  <2>8. Owning'
    <3>1. ASSUME NEW t \in Slots, Live(t)'
          PROVE  t \notin Expired /\ Live(t) /\ g_events'[t] = g_events[t]
      BY <2>2, <2>3, <3>1
    <3>2. ASSUME NEW t \in ClientSlots, Live(t)' PROVE IsConn(g_events[t].fd)'
      <4>1. t \in Slots
        BY ClientInSlots
      <4> QED
        BY <2>1, <2>4, <2>6, <3>1, <3>2, <4>1 DEF Owning, IsConn
    <3>3. ASSUME NEW t \in Slots, NEW u \in Slots, Live(t)', Live(u)',
                 g_events'[t].fd = g_events'[u].fd
          PROVE  t = u
      BY <2>1, <3>1, <3>3 DEF Owning
    <3> QED
      BY <3>2, <3>3 DEF Owning
  <2> QED
    BY <1>1, <2>7, <2>8
<1> QED
  BY <1>1, <1>2 DEF Matched

(* Steps that leave the slots' numbers and states alone, and close nothing. *)
LEMMA QuietMatched ==
  ASSUME TypeOK, Matched, interest' = interest, clobbered' = clobbered,
         Running,
         \A s \in Slots : /\ g_events'[s].fd = g_events[s].fd
                          /\ g_events'[s].events = g_events[s].events
                          /\ g_events'[s].status = g_events[s].status,
         \A fd \in Fds : IsConn(fd) => fdt'[fd] = fdt[fd],
         batch' \subseteq batch \cup interest, pc' # "dispatch" => batch' = {}
  PROVE  Matched'
<1>1. ASSUME NEW s \in Slots
      PROVE  (Live(s)' <=> Live(s)) /\ Registration(s)' = Registration(s)
  BY DEF Live, Registration
<1>2. Registered => Registered'
  <2>1. \A j \in interest : j.slot \in Slots
    BY DEF TypeOK, Item
  <2> QED
    BY <1>1, <2>1 DEF Registered
<1>3. Owning => Owning'
  <2>1. ASSUME NEW t \in ClientSlots, Live(t)', Owning PROVE IsConn(g_events[t].fd)'
    BY <1>1, <2>1, ClientInSlots DEF Owning, IsConn
  <2> QED
    BY <1>1, <2>1 DEF Owning
<1> QED
  BY <1>2, <1>3 DEF Matched

LEMMA HaltMatched == Halt => Matched'
  BY DEF Halt, Exit, Matched, Running

LEMMA DispatchMatched ==
  ASSUME TypeOK, Guarded, Matched, NEW i \in batch, Dispatch(i)
  PROVE  Matched'
<1>1. Running
  BY DEF Guarded
<1>2. CASE Skip(i) \/ AcceptFail(i)
  <2>1. /\ UNCHANGED <<fdt, interest, g_events, clobbered>>
        /\ batch' \subseteq batch
        /\ pc' # "dispatch" => batch' = {}
    BY <1>2 DEF Skip, AcceptFail, Take, Remaining, socketVars
  <2> QED
    BY <1>1, <2>1, QuietMatched
<1>3. CASE AcceptStore(i)
  BY <1>1, <1>3, AcceptMatched
<1>4. CASE AcceptLeak(i)
  <2>1. PICK c \in Conns, cfd \in Fds : Accepted(i, c, cfd)
    BY <1>4 DEF AcceptLeak
  <2>2. /\ UNCHANGED <<interest, g_events, clobbered>>
        /\ batch' \subseteq batch
        /\ pc' # "dispatch" => batch' = {}
    BY <1>4 DEF AcceptLeak, Accepted, Take, Remaining
  <2>3. \A fd \in Fds : IsConn(fd) => fdt'[fd] = fdt[fd]
    BY <2>1, SocketsAssumption DEF Accepted, LowestFree, FreeFds, IsConn, TypeOK
  <2> QED
    BY <1>1, <2>2, <2>3, QuietMatched
<1>5. CASE AcceptWild(i) \/ SendKilled(i)
  BY <1>5, HaltMatched DEF AcceptWild, SendKilled
<1>6. CASE RecvSome(i)
  BY <1>1, <1>6, RecvMatched
<1>7. CASE SendSome(i)
  BY <1>1, <1>7, SendMatched
<1>8. CASE RecvEnd(i) \/ SendFail(i)
  BY <1>1, <1>8, EndMatched
<1> QED
  BY <1>2, <1>3, <1>4, <1>5, <1>6, <1>7, <1>8 DEF Dispatch

LEMMA NextMatched == TypeOK /\ Guarded /\ Matched /\ [Next]_vars => Matched'
<1> SUFFICES ASSUME TypeOK, Guarded, Matched, [Next]_vars PROVE Matched'
  OBVIOUS
<1>1. CASE Sweep
  BY <1>1, SweepMatched
<1>2. CASE Wait
  <2>1. /\ UNCHANGED <<fdt, interest, g_events, clobbered>>
        /\ batch' \subseteq interest
        /\ pc' # "dispatch" => batch' = {}
        /\ Running
    BY <1>2 DEF Wait, socketVars, Batches, ReadyItems, Running
  <2> QED
    BY <2>1, QuietMatched
<1>3. CASE \E i \in batch : Dispatch(i)
  BY <1>3, DispatchMatched
<1>4. CASE WaitError
  BY <1>4, HaltMatched DEF WaitError
<1>5. CASE Clients \/ UNCHANGED vars
  <2>1. UNCHANGED <<fdt, interest, g_events, batch, pc, clobbered>>
    BY <1>5 DEF Clients, Client, Connect, ClientSend, ClientDrain, ClientFin,
                ClientReset, vars, socketVars
  <2>2. pc' # "dispatch" => batch' = {}
    BY <2>1 DEF Matched
  <2>3. CASE Running
    BY <2>1, <2>2, <2>3, QuietMatched
  <2>4. CASE ~Running
    BY <2>1, <2>2, <2>4 DEF Matched, Running
  <2> QED
    BY <2>3, <2>4
<1>6. CASE Tick
  <2>1. UNCHANGED <<fdt, interest, batch, pc, clobbered>>
    BY <1>6 DEF Tick, SocketTick
  <2>2. pc' # "dispatch" => batch' = {}
    BY <2>1 DEF Matched
  <2>3. ASSUME NEW s \in Slots
        PROVE  /\ g_events'[s].fd = g_events[s].fd
               /\ g_events'[s].events = g_events[s].events
               /\ g_events'[s].status = g_events[s].status
    <3>1. g_events[s] \in Slot
      BY DEF TypeOK
    <3> QED
      BY <1>6, <3>1 DEF Tick, Slot
  <2>4. CASE Running
    BY <2>1, <2>2, <2>3, <2>4, QuietMatched
  <2>5. CASE ~Running
    BY <2>1, <2>2, <2>5 DEF Matched, Running
  <2> QED
    BY <2>4, <2>5
<1> QED
  BY <1>1, <1>2, <1>3, <1>4, <1>5, <1>6 DEF Next, Server

(* The inductive invariant: types, the listener's slot and the agreement of *)
(* the tables hold together at every step of the reactor.                  *)
THEOREM MatchedAlways == Spec => [](TypeOK /\ Guarded /\ Matched)
  BY InitType, InitGuarded, InitMatched, NextType, NextGuarded, NextMatched, PTL DEF Spec

(* Until acceptconn overwrites a slot in use, what the kernel watches is   *)
(* exactly what the slot table says.                                       *)
THEOREM RegistrySafe == Spec => []RegistryAgrees
<1>1. TypeOK /\ Guarded /\ Matched => RegistryAgrees
  BY MatchedImplies
<1> QED
  BY <1>1, MatchedAlways, PTL

(* Until then no slot acts on a number that was given to another client.   *)
THEOREM OwnershipSafe == Spec => []SlotOwnsConn
<1>1. TypeOK /\ Guarded /\ Matched => SlotOwnsConn
  BY MatchedImplies
<1> QED
  BY <1>1, MatchedAlways, PTL

(* Until then no event in hand is stale when its turn comes.               *)
THEOREM BatchSafe == Spec => []BatchFresh
<1>1. TypeOK /\ Guarded /\ Matched => BatchFresh
  BY MatchedImplies
<1> QED
  BY <1>1, MatchedAlways, PTL

-----------------------------------------------------------------------------
(* EchoHonest: what a slot is about to send was put there by the recv of   *)
(* the same connection, since until then nothing else is stored in it and  *)
(* its number is not given to another.  Stored says besides when there is  *)
(* nothing to send, for the close that follows.                            *)

Sending(s) == Live(s) /\ g_events[s].events = "OUT"
Honest(s)  == /\ g_events[s].from = fdt[g_events[s].fd]
              /\ g_events[s].len <= g_events[s].got
              /\ g_events[s].len = 0 => g_events[s].got = BUFLEN

Stored == ~clobbered /\ Running => \A s \in ClientSlots : Sending(s) => Honest(s)

(* Slot s is still about to send what it was, to the same connection. *)
Unmoved(s) == /\ Sending(s)
              /\ g_events'[s].fd = g_events[s].fd /\ g_events'[s].from = g_events[s].from
              /\ g_events'[s].len = g_events[s].len /\ g_events'[s].got = g_events[s].got
              /\ fdt'[g_events[s].fd] = fdt[g_events[s].fd]

LEMMA HonestStep ==
  ASSUME Stored, ~clobbered' /\ Running' => ~clobbered /\ Running,
         ~clobbered' /\ Running' =>
           \A s \in ClientSlots : Sending(s)' => Unmoved(s) \/ Honest(s)'
  PROVE  Stored'
  BY DEF Stored, Sending, Honest, Unmoved, Live

LEMMA InitHonest == Init => Stored
<1> SUFFICES ASSUME Init, NEW s \in ClientSlots PROVE ~Live(s)
  BY DEF Stored, Sending
<1>1. s \in Slots /\ s # MAX_EVENTS
  BY ClientInSlots
<1> QED
  BY <1>1 DEF Init, Live, ZeroSlot

(* While nothing is overwritten a live client slot has a connection. *)
LEMMA LiveConn ==
  ASSUME Matched, ~clobbered, Running, NEW s \in ClientSlots, Live(s)
  PROVE  s \in Slots /\ g_events[s].fd \in Fds /\ fdt[g_events[s].fd] # Free
  BY ClientInSlots, SocketsAssumption DEF Matched, Owning, IsConn

LEMMA RecvHonest ==
  ASSUME TypeOK, Guarded, Matched, Stored, Running, NEW i \in batch, RecvSome(i)
  PROVE  Stored'
<1> DEFINE slot == i.slot
           old == g_events[slot]
           n == RecvResult(old.fd, BUFLEN)
<1>1. Calls(i, "recvdata") /\ n > 0 /\ fdt' = fdt /\ clobbered' = clobbered
  BY DEF RecvSome
<1>2. PICK len \in StoredLen(n) :
        g_events' = [g_events EXCEPT ![slot] =
          Rearm([event_del(old) EXCEPT !.from = fdt[old.fd], !.got = n, !.len = len],
                old.fd, "senddata", "OUT")]
  BY DEF RecvSome
<1>3. ASSUME ~clobbered, NEW s \in ClientSlots, Sending(s)'
      PROVE  Unmoved(s) \/ Honest(s)'
  <2>1. slot \in Slots /\ old \in Slot /\ s \in Slots
    BY <1>1, <1>3, CalledSlot, ClientInSlots
  <2>2. CASE s = slot
    <3>1. n \in 1 .. BUFLEN
      BY <1>1, RecvBytes
    <3>2. len <= n /\ (len = 0 => n = BUFLEN)
      BY <3>1, ReactorAssumption DEF StoredLen
    <3> DEFINE ev == Rearm([event_del(old) EXCEPT !.from = fdt[old.fd], !.got = n, !.len = len],
                           old.fd, "senddata", "OUT")
    <3>3. ev.fd = old.fd /\ ev.from = fdt[old.fd] /\ ev.got = n /\ ev.len = len
      BY <2>1 DEF Rearm, event_set, event_add, event_del, Slot
    <3>4. g_events'[s] = ev
      BY <1>2, <2>1, <2>2 DEF TypeOK
    <3> HIDE DEF ev
    <3> QED
      BY <1>1, <3>2, <3>3, <3>4 DEF Honest
  <2>3. CASE s # slot
    <3>1. g_events'[s] = g_events[s]
      BY <1>2, <2>1, <2>3 DEF TypeOK
    <3> QED
      BY <1>1, <1>3, <3>1 DEF Sending, Live, Unmoved
  <2> QED
    BY <2>2, <2>3
<1> QED
  BY <1>1, <1>3, HonestStep

LEMMA SendHonest ==
  ASSUME TypeOK, Guarded, Matched, Stored, Running, NEW i \in batch, SendSome(i)
  PROVE  Stored'
<1> DEFINE old == g_events[i.slot]
<1>1. /\ Calls(i, "senddata") /\ fdt' = fdt /\ clobbered' = clobbered
      /\ g_events' = [g_events EXCEPT ![i.slot] = Rearm(event_del(old), old.fd, "recvdata", "IN")]
  BY DEF SendSome
<1>2. ASSUME ~clobbered, NEW s \in ClientSlots, Sending(s)'
      PROVE  Unmoved(s)
  <2>1. i.slot \in Slots /\ old \in Slot /\ old.status = 1 /\ s \in Slots
    BY <1>1, <1>2, CalledSlot, ClientInSlots DEF Live
  <2>2. event_del(old) \in Slot
    BY <2>1, SlotFields DEF event_del
  <2>3. Rearm(event_del(old), old.fd, "recvdata", "IN").events = "IN"
    BY <2>2, RearmFields
  <2>4. s # i.slot
    BY <1>1, <1>2, <2>1, <2>3 DEF TypeOK, Sending
  <2>5. g_events'[s] = g_events[s]
    BY <1>1, <2>1, <2>4 DEF TypeOK
  <2> QED
    BY <1>1, <1>2, <2>5 DEF Sending, Live, Unmoved
<1> QED
  BY <1>1, <1>2, HonestStep

LEMMA EndHonest ==
  ASSUME TypeOK, Guarded, Matched, Stored, Running, NEW i \in batch,
         RecvEnd(i) \/ SendFail(i)
  PROVE  Stored'
<1> DEFINE old == g_events[i.slot]
<1>1. /\ Calls(i, "recvdata") \/ Calls(i, "senddata")
      /\ g_events' = [g_events EXCEPT ![i.slot] = event_del(old)]
      /\ fdt' = ClosedTable({old.fd})
      /\ clobbered' = clobbered
  BY DEF RecvEnd, SendFail, Close
<1>2. ASSUME ~clobbered, NEW s \in ClientSlots, Sending(s)'
      PROVE  Unmoved(s)
  <2>1. i.slot \in Slots /\ old \in Slot /\ Live(i.slot) /\ Owning /\ s \in Slots
    BY <1>1, <1>2, CalledSlot, ClientInSlots
  <2>2. s # i.slot
    BY <1>1, <1>2, <2>1 DEF TypeOK, Sending, Live, event_del, Slot
  <2>3. g_events'[s] = g_events[s] /\ Sending(s)
    BY <1>1, <1>2, <2>1, <2>2 DEF TypeOK, Sending, Live
  <2>4. g_events[s].fd # old.fd /\ g_events[s].fd \in Fds
    BY <1>2, <2>1, <2>2, <2>3, LiveConn DEF Owning, Sending
  <2> QED
    BY <1>1, <2>3, <2>4 DEF ClosedTable, Unmoved
<1> QED
  BY <1>1, <1>2, HonestStep

LEMMA AcceptHonest ==
  ASSUME TypeOK, Guarded, Matched, Stored, Running, NEW i \in batch,
         AcceptStore(i) \/ AcceptLeak(i)
  PROVE  Stored'
<1>1. PICK c \in Conns, cfd \in Fds :
        /\ Accepted(i, c, cfd)
        /\ \/ g_events' = g_events /\ clobbered' = clobbered
           \/ \E slot \in StoreSlots :
                /\ g_events' = [g_events EXCEPT ![slot] = Rearm(@, cfd, "recvdata", "IN")]
                /\ clobbered' = (clobbered \/ g_events[slot].status = 1)
  BY DEF AcceptStore, AcceptLeak
<1>2. fdt[cfd] = Free /\ \A fd \in Fds : fd # cfd => fdt'[fd] = fdt[fd]
  BY <1>1 DEF Accepted, LowestFree, FreeFds, TypeOK
<1>3. ~clobbered' => ~clobbered
  BY <1>1
<1>4. ASSUME ~clobbered, NEW s \in ClientSlots, Sending(s)'
      PROVE  Unmoved(s)
  <2>1. s \in Slots
    BY ClientInSlots
  <2>2. g_events'[s] = g_events[s]
    <3>1. CASE g_events' = g_events
      BY <3>1
    <3>2. ASSUME NEW slot \in StoreSlots,
                 g_events' = [g_events EXCEPT ![slot] = Rearm(@, cfd, "recvdata", "IN")]
          PROVE  g_events'[s] = g_events[s]
      <4>1. slot \in Slots /\ g_events[slot] \in Slot
        BY ClientInSlots DEF StoreSlots, TypeOK
      <4>2. g_events'[slot].events = "IN"
        BY <3>2, <4>1, RearmFields DEF TypeOK
      <4> QED
        BY <1>4, <2>1, <3>2, <4>1, <4>2 DEF TypeOK, Sending
    <3> QED
      BY <1>1, <3>1, <3>2
  <2>3. Sending(s)
    BY <1>4, <2>2 DEF Sending, Live
  <2>4. g_events[s].fd \in Fds /\ g_events[s].fd # cfd
    BY <1>2, <1>4, <2>3, LiveConn DEF Sending
  <2> QED
    BY <1>2, <2>2, <2>3, <2>4 DEF Unmoved
<1> QED
  BY <1>3, <1>4, HonestStep

LEMMA SweepHonest ==
  ASSUME TypeOK, Guarded, Matched, Stored, Sweep
  PROVE  Stored'
<1>1. clobbered' = clobbered /\ Running
  BY DEF Sweep, SweepDue, Running
<1>2. ASSUME ~clobbered, NEW s \in ClientSlots, Sending(s)'
      PROVE  Unmoved(s)
  <2> DEFINE fds == {g_events[t].fd : t \in Expired}
  <2>1. /\ s \in Slots /\ g_events[s] \in Slot /\ Owning /\ Expired \subseteq Slots
        /\ \A t \in Expired : Live(t)
    BY <1>1, <1>2, SweepRange, ClientInSlots DEF Matched, Expired, TypeOK, Live
  <2>2. s \notin Expired
    BY <1>2, <2>1 DEF Sweep, Sending, Live, event_del, Slot
  <2>3. g_events'[s] = g_events[s] /\ Sending(s)
    BY <1>2, <2>1, <2>2 DEF Sweep, Sending, Live
  <2>4. g_events[s].fd \notin fds /\ g_events[s].fd \in Fds
    BY <1>1, <1>2, <2>1, <2>2, <2>3, LiveConn DEF Owning, Sending
  <2> QED
    BY <2>3, <2>4 DEF Sweep, Close, ClosedTable, Unmoved
<1> QED
  BY <1>1, <1>2, HonestStep

(* Steps that store nothing in a slot and close nothing. *)
LEMMA QuietHonest ==
  ASSUME Stored, UNCHANGED <<fdt, clobbered>>, Running' => Running,
         \A s \in ClientSlots :
           /\ g_events'[s].fd = g_events[s].fd /\ g_events'[s].from = g_events[s].from
           /\ g_events'[s].len = g_events[s].len /\ g_events'[s].got = g_events[s].got
           /\ g_events'[s].events = g_events[s].events
           /\ g_events'[s].status = g_events[s].status
  PROVE  Stored'
<1>1. \A s \in ClientSlots : Sending(s)' => Unmoved(s)
  BY DEF Sending, Live, Unmoved
<1> QED
  BY <1>1, HonestStep

LEMMA HaltHonest == Halt => Stored'
  BY DEF Halt, Stored, Running

LEMMA NextHonest ==
  TypeOK /\ Guarded /\ Matched /\ Stored /\ [Next]_vars => Stored'
<1> SUFFICES ASSUME TypeOK, Guarded, Matched, Stored, [Next]_vars PROVE Stored'
  OBVIOUS
<1>1. CASE Sweep
  BY <1>1, SweepHonest
<1>2. CASE Wait
  BY <1>2, QuietHonest DEF Wait, socketVars, Running
<1>3. ASSUME NEW i \in batch, Dispatch(i) PROVE Stored'
  <2>1. Running
    BY DEF Guarded
  <2>2. CASE Skip(i) \/ AcceptFail(i)
    BY <2>1, <2>2, QuietHonest DEF Skip, AcceptFail, socketVars
  <2>3. CASE AcceptStore(i) \/ AcceptLeak(i)
    BY <2>1, <2>3, AcceptHonest
  <2>4. CASE AcceptWild(i) \/ SendKilled(i)
    BY <2>4, HaltHonest DEF AcceptWild, SendKilled
  <2>5. CASE RecvSome(i)
    BY <2>1, <2>5, RecvHonest
  <2>6. CASE SendSome(i)
    BY <2>1, <2>6, SendHonest
  <2>7. CASE RecvEnd(i) \/ SendFail(i)
    BY <2>1, <2>7, EndHonest
  <2> QED
    BY <1>3, <2>2, <2>3, <2>4, <2>5, <2>6, <2>7 DEF Dispatch
<1>4. CASE WaitError
  BY <1>4, HaltHonest DEF WaitError
<1>5. CASE Clients \/ UNCHANGED vars
  <2>1. UNCHANGED <<fdt, g_events, pc, clobbered>>
    BY <1>5 DEF Clients, Client, Connect, ClientSend, ClientDrain, ClientFin,
                ClientReset, vars, socketVars
  <2> QED
    BY <2>1, QuietHonest DEF Running
<1>6. CASE Tick
  <2>1. UNCHANGED <<fdt, pc, clobbered>>
    BY <1>6 DEF Tick, SocketTick
  <2>2. ASSUME NEW s \in ClientSlots
        PROVE  /\ g_events'[s].fd = g_events[s].fd /\ g_events'[s].from = g_events[s].from
               /\ g_events'[s].len = g_events[s].len /\ g_events'[s].got = g_events[s].got
               /\ g_events'[s].events = g_events[s].events
               /\ g_events'[s].status = g_events[s].status
    <3>1. s \in Slots /\ g_events[s] \in Slot
      BY ClientInSlots DEF TypeOK
    <3> QED
      BY <1>6, <3>1 DEF Tick, Slot
  <2> QED
    BY <2>1, <2>2, QuietHonest DEF Running
<1> QED
  BY <1>1, <1>2, <1>3, <1>4, <1>5, <1>6 DEF Next, Server

LEMMA StoredAlways == Spec => []Stored
  BY InitType, InitGuarded, InitMatched, InitHonest,
     NextType, NextGuarded, NextMatched, NextHonest, PTL DEF Spec

(* Until acceptconn overwrites a slot in use, what a slot is about to send *)
(* came from the client it sends to, and is no more than that client sent. *)
THEOREM EchoSafe == Spec => []EchoHonest
<1>1. Stored => EchoHonest
  BY DEF Stored, EchoHonest, Sending, Honest
<1> QED
  BY <1>1, StoredAlways, PTL

===============================================================================
