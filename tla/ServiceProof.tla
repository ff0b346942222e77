----------------------------- MODULE ServiceProof -----------------------------
(***************************************************************************)
(* Proofs about what the clients of the reactor see: the reactor           *)
(* implements the echo service, and closes a connection only for a reason, *)
(* for every value of the constants.                                       *)
(***************************************************************************)
EXTENDS RegistryProof, ReactorService, FiniteSetTheorems

(* A client has one connection, in one place: the backlog, or one number   *)
(* of the descriptor table.  This holds whatever acceptconn overwrites: it *)
(* is about the kernel, not the slots.                                     *)

Gone(c) == sock[c].peer = "gone"

Placed ==
  /\ \A fd \in Fds : IsConn(fd) => fdt[fd] \notin backlog /\ ~Gone(fdt[fd])
  /\ \A fd, other \in Fds : IsConn(fd) /\ fdt[other] = fdt[fd] => other = fd
  /\ \A c \in backlog : ~Gone(c)
  /\ ~Running => (\A fd \in Fds : fdt[fd] = Free) /\ (\A c \in Conns : Gone(c))

LEMMA InitPlaced == Init => Placed
  BY SocketsAssumption DEF Init, Placed, IsConn, Running

(* Nothing opened, accepted or closed. *)
LEMMA SamePlaces ==
  ASSUME Placed, fdt' = fdt, backlog' = backlog, Running' <=> Running,
         \A c \in Conns : Gone(c)' <=> Gone(c), TypeOK
  PROVE  Placed'
  BY DEF Placed, IsConn, TypeOK

LEMMA ClosedPlaces ==
  ASSUME TypeOK, Placed, Running, NEW list, NEW fds, Close(list, fds), backlog' = backlog, Running'
  PROVE  Placed'
<1>1. ASSUME NEW fd \in Fds, IsConn(fd)'
      PROVE  /\ fd \notin fds /\ IsConn(fd) /\ fdt'[fd] = fdt[fd]
             /\ sock'[fdt[fd]] = sock[fdt[fd]]
  <2>1. fd \notin fds /\ fdt'[fd] = fdt[fd] /\ IsConn(fd) /\ fdt[fd] \in Conns
    BY <1>1, SocketsAssumption DEF Close, ClosedTable, IsConn
  <2>2. ~\E other \in fds : IsConn(other) /\ fdt[other] = fdt[fd]
    BY <2>1 DEF Placed, IsConn
  <2> QED
    BY <2>1, <2>2 DEF Close, ClosedSocks
<1>2. ASSUME NEW c \in backlog PROVE c \in Conns /\ sock'[c] = sock[c]
  <2>1. c \in Conns /\ ~\E fd \in fds : IsConn(fd) /\ fdt[fd] = c
    BY DEF Placed, IsConn, TypeOK
  <2> QED
    BY <2>1 DEF Close, ClosedSocks
<1>3. ASSUME NEW fd \in Fds, NEW other \in Fds, IsConn(fd)', fdt'[other] = fdt'[fd]
      PROVE  other = fd
  <2>1. IsConn(other)'
    BY <1>3 DEF IsConn
  <2> QED
    BY <1>1, <1>3, <2>1 DEF Placed
<1> QED
  BY <1>1, <1>2, <1>3 DEF Placed, Gone

LEMMA AcceptedPlaces ==
  ASSUME TypeOK, Placed, Running, NEW i \in batch, NEW c \in Conns, NEW cfd \in Fds,
         Accepted(i, c, cfd)
  PROVE  Placed'
<1>1. /\ fdt[cfd] = Free /\ fdt'[cfd] = c
      /\ \A fd \in Fds : fd # cfd => fdt'[fd] = fdt[fd]
      /\ c \in backlog /\ backlog' = backlog \ {c} /\ sock' = sock /\ Running'
  BY DEF Accepted, LowestFree, FreeFds, TypeOK, Take, Running
<1>2. \A fd \in Fds : fd # cfd => fdt[fd] # c
  BY <1>1 DEF Placed, IsConn
<1> QED
  BY <1>1, <1>2 DEF Placed, IsConn, Gone

LEMMA ConnectPlaces ==
  ASSUME TypeOK, Placed, NEW c \in Conns, Connect(c), pc' = pc
  PROVE  Placed'
<1>1. /\ Gone(c) /\ fdt' = fdt /\ backlog' = backlog \cup {c}
      /\ sock' = [sock EXCEPT ![c] = [GoneSocket EXCEPT !.peer = "open"]]
  BY DEF Connect, Gone
<1>2. ~Gone(c)' /\ \A d \in Conns : d # c => sock'[d] = sock[d]
  BY <1>1 DEF Gone, GoneSocket, TypeOK
<1>3. \A fd \in Fds : IsConn(fd) => fdt[fd] # c
  BY <1>1 DEF Placed
<1>4. Running
  BY SocketsAssumption DEF Placed, Connect
<1> QED
  BY <1>1, <1>2, <1>3, <1>4 DEF Placed, IsConn, Gone, Running, TypeOK

(* Whatever else a client does leaves its connection where it is. *)
LEMMA QuietClient ==
  ASSUME TypeOK, NEW c \in Conns, Client(c), ~Connect(c)
  PROVE  /\ fdt' = fdt /\ backlog' = backlog
         /\ \A d \in Conns : Gone(d)' <=> Gone(d)
  BY DEF Client, ClientSend, ClientDrain, ClientFin, ClientReset, TypeOK, Socket, Gone

LEMMA HaltPlaced == Halt => Placed'
  BY SocketsAssumption DEF Halt, Exit, Placed, IsConn, Gone, GoneSocket

LEMMA DispatchPlaced ==
  ASSUME TypeOK, Guarded, Placed, NEW i \in batch, Dispatch(i)
  PROVE  Placed'
<1>1. Running /\ (Take(i) => Running')
  BY DEF Guarded, Take, Running
<1>2. CASE Skip(i) \/ AcceptFail(i)
  BY <1>1, <1>2, SamePlaces DEF Skip, AcceptFail, socketVars, Gone
<1>3. CASE AcceptStore(i) \/ AcceptLeak(i)
  BY <1>1, <1>3, AcceptedPlaces DEF AcceptStore, AcceptLeak
<1>4. CASE AcceptWild(i) \/ SendKilled(i)
  BY <1>4, HaltPlaced DEF AcceptWild, SendKilled
<1>5. CASE RecvSome(i) \/ SendSome(i)
  <2>1. /\ Take(i) /\ fdt' = fdt /\ backlog' = backlog
        /\ \A c \in Conns : sock'[c].peer = sock[c].peer
    <3>1. ASSUME NEW k \in Socket, NEW x
          PROVE  [k EXCEPT !.inbox = x].peer = k.peer /\ [k EXCEPT !.full = x].peer = k.peer
      BY DEF Socket
    <3>2. \A c \in Conns : sock[c] \in Socket
      BY DEF TypeOK
    <3>3. CASE RecvSome(i)
      BY <3>1, <3>2, <3>3, RecvBytes DEF RecvSome, TypeOK
    <3>4. CASE SendSome(i)
      BY <3>1, <3>2, <3>4 DEF SendSome, TypeOK
    <3> QED
      BY <1>5, <3>3, <3>4
  <2> QED
    BY <1>1, <2>1, SamePlaces DEF Gone
<1>6. CASE RecvEnd(i) \/ SendFail(i)
  BY <1>1, <1>6, ClosedPlaces DEF RecvEnd, SendFail
<1> QED
  BY <1>2, <1>3, <1>4, <1>5, <1>6 DEF Dispatch

LEMMA NextPlaced == TypeOK /\ Guarded /\ Placed /\ [Next]_vars => Placed'
<1> SUFFICES ASSUME TypeOK, Guarded, Placed, [Next]_vars PROVE Placed'
  OBVIOUS
<1>1. CASE Sweep
  BY <1>1, ClosedPlaces DEF Sweep, SweepDue, Running
<1>2. CASE Wait
  BY <1>2, SamePlaces DEF Wait, socketVars, Running, Gone
<1>3. CASE \E i \in batch : Dispatch(i)
  BY <1>3, DispatchPlaced
<1>4. CASE WaitError
  BY <1>4, HaltPlaced DEF WaitError
<1>5. CASE Clients
  <2>1. PICK c \in Conns : Client(c)
    BY <1>5 DEF Clients
  <2>2. CASE Connect(c)
    BY <1>5, <2>2, ConnectPlaces DEF Clients
  <2>3. CASE ~Connect(c)
    BY <1>5, <2>1, <2>3, QuietClient, SamePlaces DEF Clients, Running
  <2> QED
    BY <2>2, <2>3
<1>6. CASE Tick
  <2>1. \A d \in Conns : Gone(d)' <=> Gone(d)
    BY <1>6 DEF Tick, SocketTick, TypeOK, Socket, Gone
  <2> QED
    BY <1>6, <2>1, SamePlaces DEF Tick, SocketTick, Running
<1>7. CASE UNCHANGED vars
  BY <1>7, SamePlaces DEF vars, socketVars, Running, Gone
<1> QED
  BY <1>1, <1>2, <1>3, <1>4, <1>5, <1>6, <1>7 DEF Next, Server

-----------------------------------------------------------------------------
(* The stage of a connection of the abstract service, read off the place   *)
(* it has and the callback of the slot that holds it.                      *)

Sound == TypeOK /\ Guarded /\ Matched /\ Placed /\ ~clobbered /\ Running

StageFacts ==
  /\ Mode = "sound"
  /\ \A c \in Conns, s \in ClientSlots : Holds(s, c) =>
       /\ g_events[s].fd \in Fds /\ \A fd \in Fds : fdt[fd] = c => fd = g_events[s].fd
       /\ c \notin backlog /\ ~Gone(c)
       /\ \A t \in ClientSlots : Holds(t, c) => t = s
       /\ Stage(c) = IF g_events[s].call_back = "recvdata" THEN "reading" ELSE "replying"
  /\ \A c \in backlog : ~Gone(c) /\ Stage(c) = "waiting"
  /\ \A c \in Conns : c \notin backlog /\ ~Held(c) =>
       Stage(c) = IF Gone(c) THEN "absent" ELSE "stranded"

LEMMA StageRead == Sound => StageFacts
<1> SUFFICES ASSUME Sound PROVE StageFacts
  OBVIOUS
<1>1. Mode = "sound" /\ Owning /\ Placed
  BY DEF Sound, Mode, Matched
<1>2. ASSUME NEW c \in Conns, NEW s \in ClientSlots, Holds(s, c)
      PROVE  /\ g_events[s].fd \in Fds /\ \A fd \in Fds : fdt[fd] = c => fd = g_events[s].fd
             /\ c \notin backlog /\ ~Gone(c)
             /\ \A t \in ClientSlots : Holds(t, c) => t = s
             /\ Stage(c) = IF g_events[s].call_back = "recvdata" THEN "reading" ELSE "replying"
  <2>1. IsConn(g_events[s].fd) /\ g_events[s].fd \in Fds /\ fdt[g_events[s].fd] = c
    BY <1>1, <1>2 DEF Owning, Holds, IsConn
  <2>2. c \notin backlog /\ ~Gone(c) /\ \A fd \in Fds : fdt[fd] = c => fd = g_events[s].fd
    BY <1>1, <2>1 DEF Placed
  <2>3. \A t \in ClientSlots : Holds(t, c) => t = s
    BY <1>1, <1>2, <2>2, ClientInSlots DEF Owning, Holds, IsConn
  <2> QED
    BY <1>1, <1>2, <2>1, <2>2, <2>3 DEF Stage
<1> QED
  BY <1>1, <1>2 DEF StageFacts, Stage, Held, Placed, Gone

LEMMA StageReadNext == Sound' => StageFacts'
  BY StageRead, PTL

-----------------------------------------------------------------------------
(* Steps of the service, by how the stages of the connections change. *)

Same(d) == Stage(d)' = Stage(d)
Still == \A d \in Conns : Same(d)

LEMMA MoveStep ==
  ASSUME Mode = "sound", Mode' = "sound", NEW c \in Conns, NEW from, NEW to,
         Stage(c) = from, Stage(c)' = to, \A d \in Conns : d # c => Same(d)
  PROVE  Service!Move(c, from, to)
  BY DEF Service!Move, Same

LEMMA StillStep ==
  ASSUME Mode' = Mode, Still
  PROVE  UNCHANGED Service!vars
  BY DEF Service!vars, Still, Same

LEMMA DropStep ==
  ASSUME Mode = "sound", Mode' = "sound", NEW cs \in SUBSET Conns,
         \A c \in cs : Stage(c) \in {"reading", "replying"} /\ Stage(c)' = "absent",
         \A c \in Conns \ cs : Same(c)
  PROVE  [Service!Next]_Service!vars
<1>1. CASE cs = {}
  BY <1>1, StillStep DEF Still
<1>2. CASE cs # {}
  <2>1. cs \in (SUBSET Service!Admitted) \ {{}}
    BY <1>2 DEF Service!Admitted
  <2>2. [c \in Conns |-> Stage(c)]' =
          [c \in Conns |-> IF c \in cs THEN "absent" ELSE [d \in Conns |-> Stage(d)][c]]
    BY DEF Same
  <2> QED
    BY <2>1, <2>2 DEF Service!Next, Service!Drop
<1> QED
  BY <1>1, <1>2

(* A connection whose place and direction a step leaves alone. *)
LEMMA StageSame ==
  ASSUME Mode' = Mode, NEW d \in Conns,
         d \in backlog' <=> d \in backlog, Gone(d)' <=> Gone(d),
         \A s \in ClientSlots :
           /\ Holds(s, d)' <=> Holds(s, d)
           /\ Holds(s, d) => (g_events'[s].call_back = "recvdata" <=>
                              g_events[s].call_back = "recvdata")
  PROVE  Same(d)
  BY DEF Same, Stage, Gone

(* A step that neither moves a connection nor turns a slot round. *)
LEMMA QuietStep ==
  ASSUME fdt' = fdt, backlog' = backlog, clobbered' = clobbered, Running' <=> Running,
         \A s \in ClientSlots :
           /\ g_events'[s].fd = g_events[s].fd /\ g_events'[s].status = g_events[s].status
           /\ g_events'[s].call_back = g_events[s].call_back,
         \A d \in Conns : Gone(d)' <=> Gone(d)
  PROVE  UNCHANGED Service!vars
<1>1. Mode' = Mode
  BY DEF Mode
<1>2. \A d \in Conns, s \in ClientSlots : Holds(s, d)' <=> Holds(s, d)
  BY DEF Holds, Live
<1> QED
  BY <1>1, <1>2, StageSame, StillStep DEF Still

(* A callback turns its slot round: the stage of its connection follows    *)
(* the new callback, and no other connection notices.                      *)
LEMMA TurnStep ==
  ASSUME Sound, Sound', NEW s \in ClientSlots, Live(s), NEW ev,
         g_events' = [g_events EXCEPT ![s] = ev], ev.fd = g_events[s].fd, ev.status = 1,
         fdt' = fdt, backlog' = backlog, \A d \in Conns : Gone(d)' <=> Gone(d),
         NEW from, NEW to,
         from = IF g_events[s].call_back = "recvdata" THEN "reading" ELSE "replying",
         to = IF ev.call_back = "recvdata" THEN "reading" ELSE "replying"
  PROVE  \E c \in Conns : Service!Move(c, from, to)
<1> DEFINE c == fdt[g_events[s].fd]
<1>1. StageFacts /\ StageFacts' /\ Owning
  BY StageRead, StageReadNext DEF Sound, Matched
<1>2. c \in Conns /\ Holds(s, c)
  BY <1>1 DEF Owning, IsConn, Holds
<1>3. /\ s \in Slots /\ g_events'[s] = ev
      /\ \A t \in ClientSlots : t # s => g_events'[t] = g_events[t]
  BY ClientInSlots DEF Sound, TypeOK
<1>4. Holds(s, c)'
  BY <1>2, <1>3 DEF Holds, Live
<1>5. Stage(c) = from /\ Stage(c)' = to /\ Mode = "sound" /\ Mode' = "sound"
  BY <1>1, <1>2, <1>3, <1>4 DEF StageFacts
<1>6. ASSUME NEW d \in Conns, d # c PROVE Same(d)
  <2>1. ~Holds(s, d) /\ ~Holds(s, d)'
    BY <1>3, <1>6 DEF Holds
  <2>2. \A t \in ClientSlots : t # s => (Holds(t, d)' <=> Holds(t, d))
    BY <1>3 DEF Holds, Live
  <2> QED
    BY <1>3, <1>5, <2>1, <2>2, StageSame
<1> QED
  BY <1>2, <1>5, <1>6, MoveStep

(* Slots given up and the numbers they hold closed: their connections drop *)
(* out, and no other one notices.                                          *)
LEMMA EndStep ==
  ASSUME Sound, Sound', NEW ended \in SUBSET ClientSlots, \A s \in ended : Live(s),
         NEW list, Close(list, {g_events[s].fd : s \in ended}), backlog' = backlog,
         \A s \in ended : ~Live(s)',
         \A s \in ClientSlots \ ended : g_events'[s] = g_events[s]
  PROVE  [Service!Next]_Service!vars
<1> DEFINE fds == {g_events[s].fd : s \in ended}
           cs == {c \in Conns : \E s \in ended : Holds(s, c)}
<1>1. /\ StageFacts /\ StageFacts' /\ Mode = "sound" /\ Mode' = "sound"
      /\ Owning /\ Owning'
  BY StageRead, StageReadNext DEF StageFacts, Sound, Matched
<1>2. \A fd \in Fds : fd \notin fds => fdt'[fd] = fdt[fd]
  BY DEF Close, ClosedTable
<1>3. \A fd \in Fds : fdt'[fd] \in Conns => fdt'[fd] = fdt[fd]
  BY SocketsAssumption DEF Close, ClosedTable
<1>4. ASSUME NEW t \in ClientSlots, NEW c \in Conns, Holds(t, c)'
      PROVE  Holds(t, c) /\ t \notin ended
  <2>1. t \notin ended /\ g_events'[t] = g_events[t] /\ g_events'[t].fd \in Fds
    BY <1>1, <1>4 DEF Holds, StageFacts
  <2> QED
    BY <1>3, <1>4, <2>1 DEF Holds, Live
<1>5. ASSUME NEW c \in cs
      PROVE  Stage(c) \in {"reading", "replying"} /\ Stage(c)' = "absent"
  <2>1. PICK s \in ended : Holds(s, c)
    OBVIOUS
  <2>2. Stage(c) \in {"reading", "replying"} /\ c \notin backlog
        /\ \A t \in ClientSlots : Holds(t, c) => t = s
    BY <1>1, <2>1 DEF StageFacts
  <2>3. ~Held(c)'
    BY <1>4, <2>1, <2>2 DEF Held
  <2>4. IsConn(g_events[s].fd) /\ fdt[g_events[s].fd] = c
    BY <1>1, <2>1 DEF Owning, Holds
  <2>5. Gone(c)'
    BY <2>4 DEF Close, ClosedSocks, GoneSocket, Gone
  <2> QED
    BY <1>1, <2>2, <2>3, <2>5 DEF StageFacts
<1>6. ASSUME NEW c \in Conns \ cs PROVE Same(c)
  <2>1. ASSUME NEW s \in ended PROVE IsConn(g_events[s].fd) /\ fdt[g_events[s].fd] # c
    BY <1>1, <1>6 DEF Owning, Holds
  <2>2. sock'[c] = sock[c]
    BY <2>1 DEF Close, ClosedSocks
  <2>3. ASSUME NEW t \in ClientSlots, Holds(t, c)
        PROVE  Holds(t, c)' /\ g_events'[t] = g_events[t]
    <3>1. t \notin ended /\ g_events[t].fd \notin fds /\ g_events[t].fd \in Fds
      BY <1>1, <2>1, <2>3 DEF Holds, StageFacts
    <3> QED
      BY <1>2, <2>3, <3>1 DEF Holds, Live
  <2> QED
    BY <1>1, <1>4, <2>2, <2>3, StageSame DEF Gone
<1> QED
  BY <1>1, <1>5, <1>6, DropStep

(* accept moves a connection out of the backlog to the number cfd. *)
LEMMA AcceptedStages ==
  ASSUME Sound, NEW i \in batch, NEW c \in Conns, NEW cfd \in Fds, Accepted(i, c, cfd)
  PROVE  /\ Stage(c) = "waiting" /\ ~Gone(c)' /\ c \notin backlog'
         /\ fdt[cfd] = Free /\ fdt'[cfd] = c
         /\ \A fd \in Fds : fdt[fd] # Free => fdt'[fd] = fdt[fd]
         /\ \A s \in ClientSlots : ~Holds(s, c)
         /\ \A d \in Conns : d # c => (d \in backlog' <=> d \in backlog)
         /\ \A d \in Conns : Gone(d)' <=> Gone(d)
<1>1. /\ fdt[cfd] = Free /\ fdt' = [fdt EXCEPT ![cfd] = c] /\ sock' = sock
      /\ c \in backlog /\ backlog' = backlog \ {c}
  BY DEF Accepted, LowestFree, FreeFds
<1>2. Stage(c) = "waiting" /\ ~Gone(c) /\ \A s \in ClientSlots : ~Holds(s, c)
  BY <1>1, StageRead DEF StageFacts
<1> QED
  BY <1>1, <1>2 DEF Gone, Sound, TypeOK

(* The slots in use hold the admitted connections, one each; one more slot *)
(* is free.                                                                *)
LEMMA RoomLeft ==
  ASSUME Sound, NEW slot \in ClientSlots, ~Live(slot)
  PROVE  Service!Cardinality(Service!Admitted) < MAX_EVENTS
<1> DEFINE T == ClientSlots \ {slot}
           f == [c \in Service!Admitted |-> CHOOSE s \in ClientSlots : Holds(s, c)]
<1>1. ASSUME NEW c \in Service!Admitted PROVE c \in Conns /\ f[c] \in T /\ Holds(f[c], c)
  <2>1. c \in Conns /\ Stage(c) \in {"reading", "replying"}
    BY DEF Service!Admitted
  <2>2. \E s \in ClientSlots : Holds(s, c)
    BY <2>1, StageRead DEF Stage, StageFacts, Held
  <2>3. f[c] \in ClientSlots /\ Holds(f[c], c)
    BY <2>2
  <2> QED
    BY <2>1, <2>3 DEF Holds
<1>2. f \in Injection(Service!Admitted, T)
  BY <1>1 DEF Injection, IsInjective, Holds
<1>3. IsFiniteSet(ClientSlots) /\ Cardinality(ClientSlots) = MAX_EVENTS
  <2>1. 0 \in Int /\ MAX_EVENTS - 1 \in Int /\ ~(0 > MAX_EVENTS - 1)
    BY ReactorAssumption
  <2>2. IsFiniteSet(0..(MAX_EVENTS - 1)) /\ Cardinality(0..(MAX_EVENTS - 1)) = (MAX_EVENTS - 1) - 0 + 1
    BY <2>1, FS_Interval
  <2> QED
    BY <2>2, ReactorAssumption DEF ClientSlots
<1>4. IsFiniteSet(T) /\ Cardinality(T) = MAX_EVENTS - 1
  BY <1>3, FS_RemoveElement
<1>5. /\ IsFiniteSet(Service!Admitted)
      /\ Cardinality(Service!Admitted) <= Cardinality(T)
  <2> HIDE DEF f, T
  <2> QED BY <1>2, <1>4, FS_Injection
<1>6. Cardinality(Service!Admitted) \in Nat
  BY <1>5, FS_CardinalityType
<1> QED
  BY <1>4, <1>5, <1>6, ReactorAssumption DEF Cardinality, Service!Cardinality

LEMMA AdmitStep ==
  ASSUME Sound, Sound', NEW i \in batch, AcceptStore(i)
  PROVE  \E c \in Conns : Service!Admit(c)
<1>1. PICK c \in Conns, cfd \in Fds, slot \in StoreSlots :
        /\ Accepted(i, c, cfd)
        /\ g_events' = [g_events EXCEPT ![slot] = Rearm(@, cfd, "recvdata", "IN")]
        /\ clobbered' = (clobbered \/ g_events[slot].status = 1)
  BY DEF AcceptStore
<1>2. slot \in ClientSlots /\ slot \in Slots /\ ~Live(slot) /\ g_events[slot] \in Slot
  BY <1>1, ClientInSlots DEF StoreSlots, Sound, Live, TypeOK
<1>3. /\ Live(slot)' /\ g_events'[slot].fd = cfd /\ g_events'[slot].call_back = "recvdata"
      /\ \A t \in ClientSlots : t # slot => g_events'[t] = g_events[t]
  BY <1>1, <1>2, RearmFields, ClientInSlots DEF Sound, TypeOK, Live
<1>4. /\ Stage(c) = "waiting" /\ fdt[cfd] = Free /\ fdt'[cfd] = c
      /\ \A fd \in Fds : fdt[fd] # Free => fdt'[fd] = fdt[fd]
      /\ \A d \in Conns : d # c => (d \in backlog' <=> d \in backlog)
      /\ \A d \in Conns : Gone(d)' <=> Gone(d)
  BY <1>1, AcceptedStages
<1>5. StageFacts /\ StageFacts' /\ Mode = "sound" /\ Mode' = "sound" /\ Owning
  BY StageRead, StageReadNext DEF StageFacts, Sound, Matched
<1>6. Stage(c)' = "reading"
  <2>1. Holds(slot, c)'
    BY <1>3, <1>4 DEF Holds
  <2> QED
    BY <1>2, <1>3, <1>5, <2>1 DEF StageFacts
<1>7. ASSUME NEW d \in Conns, d # c PROVE Same(d)
  <2>1. ~Holds(slot, d) /\ ~Holds(slot, d)'
    BY <1>2, <1>3, <1>4, <1>7 DEF Holds
  <2>2. ASSUME NEW t \in ClientSlots, t # slot PROVE Holds(t, d)' <=> Holds(t, d)
    <3>1. Live(t)' <=> Live(t)
      BY <1>3, <2>2 DEF Live
    <3>2. Live(t) => fdt'[g_events[t].fd] = fdt[g_events[t].fd]
      BY <1>4, <1>5, SocketsAssumption DEF Owning, IsConn
    <3> QED
      BY <1>3, <2>2, <3>1, <3>2 DEF Holds
  <2> QED
    BY <1>3, <1>4, <1>5, <1>7, <2>1, <2>2, StageSame
<1>8. Service!Move(c, "waiting", "reading")
  BY <1>4, <1>5, <1>6, <1>7, MoveStep
<1> QED
  BY <1>2, <1>8, RoomLeft DEF Service!Admit

LEMMA StrandStep ==
  ASSUME Sound, Sound', NEW i \in batch, AcceptLeak(i)
  PROVE  \E c \in Conns : Service!Strand(c)
<1>1. PICK c \in Conns, cfd \in Fds : Accepted(i, c, cfd) /\ g_events' = g_events
  BY DEF AcceptLeak
<1>2. /\ Stage(c) = "waiting" /\ fdt[cfd] = Free /\ fdt'[cfd] = c
      /\ ~Gone(c)' /\ c \notin backlog' /\ \A s \in ClientSlots : ~Holds(s, c)
      /\ \A fd \in Fds : fdt[fd] # Free => fdt'[fd] = fdt[fd]
      /\ \A d \in Conns : d # c => (d \in backlog' <=> d \in backlog)
      /\ \A d \in Conns : Gone(d)' <=> Gone(d)
  BY <1>1, AcceptedStages
<1>3. StageFacts /\ StageFacts' /\ Mode = "sound" /\ Mode' = "sound" /\ Owning
  BY StageRead, StageReadNext DEF StageFacts, Sound, Matched
<1>4. ASSUME NEW t \in ClientSlots, NEW d \in Conns PROVE Holds(t, d)' <=> Holds(t, d)
  <2>1. (Live(t)' <=> Live(t)) /\ (Live(t) => fdt'[g_events[t].fd] = fdt[g_events[t].fd])
    BY <1>1, <1>2, <1>3, SocketsAssumption DEF Owning, IsConn, Live
  <2> QED
    BY <1>1, <2>1 DEF Holds
<1>5. Stage(c)' = "stranded"
  BY <1>2, <1>3, <1>4 DEF StageFacts, Held
<1>6. \A d \in Conns : d # c => Same(d)
  BY <1>1, <1>2, <1>3, <1>4, StageSame
<1> QED
  BY <1>2, <1>3, <1>5, <1>6, MoveStep DEF Service!Strand

LEMMA SweepStep ==
  ASSUME Sound, Sound', Sweep
  PROVE  [Service!Next]_Service!vars
<1>1. Expired \subseteq ClientSlots /\ \A s \in Expired : Live(s)
  BY SweepRange DEF Sound, TypeOK, Expired, Live
<1>2. ASSUME NEW s \in ClientSlots
      PROVE  /\ s \in Expired => ~Live(s)'
             /\ s \notin Expired => g_events'[s] = g_events[s]
  <2>1. s \in Slots /\ g_events[s] \in Slot
    BY ClientInSlots DEF Sound, TypeOK
  <2> QED
    BY <2>1 DEF Sweep, Live, event_del, Slot
<1>3. Close(interest, {g_events[s].fd : s \in Expired}) /\ backlog' = backlog
  BY DEF Sweep
<1> QED
  BY <1>1, <1>2, <1>3, EndStep

LEMMA DispatchStep ==
  ASSUME Sound, Sound', NEW i \in batch, Dispatch(i)
  PROVE  [Service!Next]_Service!vars
<1>1. Mode = "sound" /\ clobbered' = clobbered /\ (Running' <=> Running)
  BY DEF Sound, Mode, TypeOK
<1>2. CASE Skip(i) \/ AcceptFail(i)
  <2>1. UNCHANGED Service!vars
    BY <1>1, <1>2, QuietStep DEF Skip, AcceptFail, socketVars, Gone
  <2> QED
    BY <2>1
<1>3. CASE AcceptStore(i)
  BY <1>1, <1>3, AdmitStep DEF Service!Next
<1>4. CASE AcceptLeak(i)
  BY <1>1, <1>4, StrandStep DEF Service!Next
<1>5. CASE AcceptWild(i) \/ SendKilled(i)
  BY <1>5 DEF AcceptWild, SendKilled, Halt, Sound, Running
<1> DEFINE s == i.slot
           old == g_events[s]
<1>6. ASSUME Calls(i, "recvdata") \/ Calls(i, "senddata")
      PROVE  /\ s \in ClientSlots /\ s \in Slots /\ old \in Slot /\ Live(s)
             /\ old.call_back \in {"recvdata", "senddata"}
  BY <1>6, CalledSlot DEF Sound, Calls
<1>7. CASE RecvSome(i)
  <2>1. /\ Calls(i, "recvdata") /\ old.call_back = "recvdata"
        /\ fdt' = fdt /\ backlog' = backlog
        /\ sock' = [sock EXCEPT ![fdt[old.fd]].inbox = @ - RecvResult(old.fd, BUFLEN)]
    BY <1>7 DEF RecvSome, Calls
  <2>2. PICK len \in StoredLen(RecvResult(old.fd, BUFLEN)) :
          g_events' = [g_events EXCEPT ![s] =
            Rearm([event_del(old) EXCEPT !.from = fdt[old.fd],
                                         !.got = RecvResult(old.fd, BUFLEN), !.len = len],
                  old.fd, "senddata", "OUT")]
    BY <1>7 DEF RecvSome
  <2> DEFINE ev == Rearm([event_del(old) EXCEPT !.from = fdt[old.fd],
                            !.got = RecvResult(old.fd, BUFLEN), !.len = len],
                         old.fd, "senddata", "OUT")
  <2>3. s \in ClientSlots /\ Live(s) /\ old \in Slot
    BY <1>6, <2>1
  <2>4. ev.fd = old.fd /\ ev.status = 1 /\ ev.call_back = "senddata"
    BY <2>3 DEF Rearm, event_set, event_add, event_del, Slot
  <2>5. \A d \in Conns : Gone(d)' <=> Gone(d)
    <3>1. ASSUME NEW k \in Socket, NEW x PROVE [k EXCEPT !.inbox = x].peer = k.peer
      BY DEF Socket
    <3>2. \A d \in Conns : sock[d] \in Socket
      BY DEF Sound, TypeOK
    <3> QED
      BY <2>1, <3>1, <3>2 DEF Sound, TypeOK, Gone
  <2>6. \E c \in Conns : Service!Move(c, "reading", "replying")
    <3> HIDE DEF ev
    <3>1. g_events' = [g_events EXCEPT ![s] = ev]
      BY <2>2 DEF ev
    <3> QED
      BY <2>1, <2>3, <2>4, <2>5, <3>1, TurnStep
  <2> QED
    BY <1>1, <2>6 DEF Service!Next, Service!Request
<1>8. CASE SendSome(i)
  <2>1. /\ Calls(i, "senddata") /\ old.call_back = "senddata"
        /\ fdt' = fdt /\ backlog' = backlog
        /\ g_events' = [g_events EXCEPT ![s] = Rearm(event_del(old), old.fd, "recvdata", "IN")]
        /\ \E full \in BOOLEAN : sock' = [sock EXCEPT ![fdt[old.fd]].full = full]
    BY <1>8 DEF SendSome, Calls
  <2>2. s \in ClientSlots /\ Live(s) /\ event_del(old) \in Slot
    BY <1>6, <2>1, SlotFields DEF event_del
  <2>3. \A d \in Conns : Gone(d)' <=> Gone(d)
    <3>1. ASSUME NEW k \in Socket, NEW x PROVE [k EXCEPT !.full = x].peer = k.peer
      BY DEF Socket
    <3>2. \A d \in Conns : sock[d] \in Socket
      BY DEF Sound, TypeOK
    <3> QED
      BY <2>1, <3>1, <3>2 DEF Sound, TypeOK, Gone
  <2> DEFINE ev == Rearm(event_del(old), old.fd, "recvdata", "IN")
  <2>4. ev.fd = old.fd /\ ev.status = 1 /\ ev.call_back = "recvdata"
    BY <2>2, RearmFields
  <2>5. \E c \in Conns : Service!Move(c, "replying", "reading")
    <3> HIDE DEF ev
    <3>1. g_events' = [g_events EXCEPT ![s] = ev]
      BY <2>1 DEF ev
    <3> QED
      BY <2>1, <2>2, <2>3, <2>4, <3>1, TurnStep
  <2> QED
    BY <1>1, <2>5 DEF Service!Next, Service!Reply
<1>9. CASE RecvEnd(i) \/ SendFail(i)
  <2>1. /\ Calls(i, "recvdata") \/ Calls(i, "senddata")
        /\ g_events' = [g_events EXCEPT ![s] = event_del(old)]
        /\ Close(DelFrom(interest, old), {old.fd}) /\ backlog' = backlog
    BY <1>9 DEF RecvEnd, SendFail
  <2>2. s \in ClientSlots /\ s \in Slots /\ old \in Slot /\ Live(s)
    BY <1>6, <2>1
  <2>3. ~Live(s)' /\ \A t \in ClientSlots \ {s} : g_events'[t] = g_events[t]
    BY <2>1, <2>2, ClientInSlots DEF Sound, TypeOK, Live, event_del, Slot
  <2> DEFINE ended == {s}
  <2>4. /\ Close(DelFrom(interest, old), {g_events[t].fd : t \in ended}) /\ backlog' = backlog
        /\ ended \in SUBSET ClientSlots /\ (\A t \in ended : Live(t) /\ ~Live(t)')
        /\ \A t \in ClientSlots \ ended : g_events'[t] = g_events[t]
    <3>1. {old.fd} = {g_events[t].fd : t \in ended}
      OBVIOUS
    <3> QED
      BY <2>1, <2>2, <2>3, <3>1
  <2> HIDE DEF ended
  <2> QED
    BY <2>4, EndStep
<1> QED
  BY <1>2, <1>3, <1>4, <1>5, <1>7, <1>8, <1>9 DEF Dispatch

LEMMA ArriveStep ==
  ASSUME Sound, Sound', NEW c \in Conns, Connect(c),
         UNCHANGED <<g_events, pc, clobbered>>
  PROVE  Service!Arrive(c)
<1>1. /\ Gone(c) /\ fdt' = fdt /\ backlog' = backlog \cup {c}
      /\ sock' = [sock EXCEPT ![c] = [GoneSocket EXCEPT !.peer = "open"]]
  BY DEF Connect, Gone
<1>2. StageFacts /\ StageFacts' /\ Mode = "sound" /\ Mode' = "sound"
  BY StageRead, StageReadNext DEF StageFacts
<1>3. c \notin backlog /\ ~Held(c)
  BY <1>1, <1>2 DEF StageFacts, Held
<1>4. Stage(c) = "absent" /\ Stage(c)' = "waiting"
  BY <1>1, <1>2, <1>3 DEF StageFacts
<1>5. \A d \in Conns, s \in ClientSlots : Holds(s, d)' <=> Holds(s, d)
  BY <1>1 DEF Holds, Live
<1>6. \A d \in Conns : d # c => sock'[d] = sock[d]
  BY <1>1 DEF Sound, TypeOK
<1>7. \A d \in Conns : d # c => Same(d)
  BY <1>1, <1>2, <1>5, <1>6, StageSame DEF Gone
<1> QED
  BY <1>2, <1>4, <1>7, MoveStep DEF Service!Arrive

LEMMA SoundStep ==
  ASSUME Sound, Sound', [Next]_vars
  PROVE  [Service!Next]_Service!vars
<1>1. Mode = "sound" /\ clobbered' = clobbered /\ (Running' <=> Running)
  BY DEF Sound, Mode, TypeOK
<1>2. CASE Sweep
  BY <1>2, SweepStep
<1>3. CASE Wait
  <2>1. UNCHANGED Service!vars
    BY <1>1, <1>3, QuietStep DEF Wait, socketVars, Gone
  <2> QED
    BY <2>1
<1>4. CASE \E i \in batch : Dispatch(i)
  BY <1>4, DispatchStep
<1>5. CASE WaitError
  BY <1>5 DEF WaitError, Halt, Sound, Running
<1>6. CASE Clients
  <2>1. PICK c \in Conns : Client(c)
    BY <1>6 DEF Clients
  <2>2. CASE Connect(c)
    BY <1>1, <1>6, <2>2, ArriveStep DEF Clients, Service!Next
  <2>3. CASE ~Connect(c)
    <3>1. /\ fdt' = fdt /\ backlog' = backlog /\ g_events' = g_events
          /\ \A d \in Conns : Gone(d)' <=> Gone(d)
      BY <1>6, <2>1, <2>3, QuietClient DEF Clients, Sound
    <3>2. UNCHANGED Service!vars
      BY <1>1, <3>1, QuietStep
    <3> QED
      BY <3>2
  <2> QED
    BY <2>2, <2>3
<1>7. CASE Tick
  <2>1. \A d \in Conns : Gone(d)' <=> Gone(d)
    BY <1>7 DEF Tick, SocketTick, Sound, TypeOK, Socket, Gone
  <2>2. ASSUME NEW s \in ClientSlots
        PROVE  /\ g_events'[s].fd = g_events[s].fd
               /\ g_events'[s].status = g_events[s].status
               /\ g_events'[s].call_back = g_events[s].call_back
    <3>1. s \in Slots /\ g_events[s] \in Slot
      BY ClientInSlots DEF Sound, TypeOK
    <3> QED
      BY <1>7, <3>1 DEF Tick, Slot
  <2>3. UNCHANGED Service!vars
    BY <1>1, <1>7, <2>1, <2>2, QuietStep DEF Tick, SocketTick
  <2> QED
    BY <2>3
<1>8. CASE UNCHANGED vars
  <2>1. UNCHANGED Service!vars
    BY <1>1, <1>8, QuietStep DEF vars, socketVars, Gone
  <2> QED
    BY <2>1
<1> QED
  BY <1>2, <1>3, <1>4, <1>5, <1>6, <1>7, <1>8 DEF Next, Server

(* Overwriting a slot in use is for good, and so is the end of the process. *)
LEMMA EndIsFinal ==
  ASSUME Guarded, [Next]_vars
  PROVE  /\ clobbered => clobbered'
         /\ ~Running => ~Running' /\ clobbered' = clobbered
<1>1. ASSUME NEW i \in batch, Dispatch(i)
      PROVE  (clobbered => clobbered') /\ Running
  <2>1. Running
    BY DEF Guarded
  <2>2. CASE AcceptStore(i)
    BY <2>1, <2>2, Zenon DEF AcceptStore
  <2>3. CASE ~AcceptStore(i)
    <3>1. clobbered' = clobbered
      BY <1>1, <2>3 DEF Dispatch, Skip, AcceptFail, AcceptLeak, AcceptWild, RecvSome,
                        RecvEnd, SendSome, SendFail, SendKilled, Halt
    <3> QED
      BY <2>1, <3>1
  <2> QED
    BY <2>2, <2>3
<1>2. CASE \E i \in batch : Dispatch(i)
  BY <1>1, <1>2
<1>3. CASE Sweep \/ Wait \/ WaitError
  BY <1>3 DEF Sweep, SweepDue, Wait, WaitError, Halt, Running
<1>4. CASE Clients \/ Tick \/ UNCHANGED vars
  BY <1>4 DEF Clients, Tick, vars, Running
<1> QED
  BY <1>2, <1>3, <1>4 DEF Next, Server

LEMMA ServiceStep ==
  TypeOK /\ Guarded /\ Matched /\ Placed /\ [Next]_vars
    => [Service!Next]_Service!vars
<1> SUFFICES ASSUME TypeOK, Guarded, Matched, Placed, [Next]_vars
             PROVE  [Service!Next]_Service!vars
  OBVIOUS
<1>1. TypeOK' /\ Guarded' /\ Matched' /\ Placed'
  BY NextType, NextGuarded, NextMatched, NextPlaced
<1>2. CASE Sound /\ Sound'
  BY <1>2, SoundStep
<1>3. CASE Sound /\ ~Sound'
  <2>1. Mode = "sound" /\ Mode' \in {"lost", "down"}
    BY <1>1, <1>3 DEF Sound, Mode
  <2>2. \A c \in Conns : Stage(c)' = "absent"
    BY <2>1 DEF Stage
  <2> QED
    BY <2>1, <2>2 DEF Service!Next, Service!Cease
<1>4. CASE ~Sound
  <2>1. clobbered \/ ~Running
    BY <1>4 DEF Sound
  <2>2. Mode' = Mode /\ Mode # "sound"
    BY <2>1, EndIsFinal, <1>1 DEF Mode, TypeOK
  <2>3. Still
    BY <2>2 DEF Still, Same, Stage
  <2> QED
    BY <2>2, <2>3, StillStep
<1> QED
  BY <1>2, <1>3, <1>4

LEMMA InitService == Init => Service!Init
<1> SUFFICES ASSUME Init PROVE Service!Init
  OBVIOUS
<1>1. \A s \in ClientSlots : ~Live(s)
  BY ClientInSlots DEF Init, Live, ZeroSlot
<1>2. Mode = "sound"
  BY DEF Init, Mode, Running
<1>3. \A c \in Conns : Stage(c) = "absent"
  BY <1>1, <1>2 DEF Stage, Holds, Init, GoneSocket
<1> QED
  BY <1>2, <1>3 DEF Service!Init

(* Where a connection is, besides the agreement of the tables.             *)
THEOREM PlacedAlways == Spec => [](TypeOK /\ Guarded /\ Matched /\ Placed)
<1>1. Init => Placed
  BY InitPlaced
<1>2. TypeOK /\ Guarded /\ Placed /\ [Next]_vars => Placed'
  BY NextPlaced
<1> QED
  BY <1>1, <1>2, MatchedAlways, PTL DEF Spec

(* The reactor implements the echo service: to its clients, every step of  *)
(* the event loop is a step of the service or none at all.                 *)
THEOREM ServiceImplemented == Spec => ServiceKept
<1>1. Init => Service!Init
  BY InitService
<1>2. TypeOK /\ Guarded /\ Matched /\ Placed /\ [Next]_vars => [Service!Next]_Service!vars
  BY ServiceStep
<1> QED
  BY <1>1, <1>2, PlacedAlways, PTL DEF Spec, ServiceKept, Service!Spec

-----------------------------------------------------------------------------
(* HeldUntilClosed: the service takes an admitted connection out of its    *)
(* turn only by dropping it, and one that is absent is closed.             *)

LEMMA HeldStep ==
  ASSUME TypeOK, Guarded, Matched, Placed, [Next]_vars,
         NEW c \in Conns, Held(c), ~clobbered'
  PROVE  Held(c)' \/ sock'[c].peer = "gone"
<1>1. TypeOK' /\ Guarded' /\ Matched' /\ Placed'
  BY NextType, NextGuarded, NextMatched, NextPlaced
<1>2. ~clobbered
  BY EndIsFinal
<1>3. CASE ~Running'
  BY <1>1, <1>3 DEF Placed, Gone
<1>4. CASE Running'
  <2>1. Sound /\ Sound'
    BY <1>1, <1>2, <1>4, EndIsFinal DEF Sound
  <2>2. Stage(c) \in {"reading", "replying"} /\ StageFacts /\ StageFacts'
    BY <2>1, StageRead, StageReadNext DEF StageFacts, Held
  <2>3. [Service!Next]_Service!vars
    BY ServiceStep
  <2>4. Stage(c)' \in {"reading", "replying", "absent"}
    <3> DEFINE stage == [d \in Conns |-> Stage(d)]
    <3>1. stage[c] = Stage(c) /\ stage'[c] = Stage(c)'
      OBVIOUS
    <3>2. ASSUME NEW d \in Conns, NEW from, NEW to, Service!Move(d, from, to)
          PROVE  stage'[c] = stage[c] \/ (stage[c] = from /\ stage'[c] = to)
      BY <3>2 DEF Service!Move
    <3>3. CASE Service!Drop
      BY <2>2, <3>3 DEF Service!Drop
    <3>4. CASE Service!Cease
      BY <3>4 DEF Service!Cease
    <3>5. CASE UNCHANGED Service!vars
      <4>1. stage' = stage
        BY <3>5 DEF Service!vars
      <4> QED
        BY <2>2, <3>1, <4>1
    <3>6. ASSUME NEW d \in Conns,
                 \/ Service!Arrive(d) \/ Service!Admit(d) \/ Service!Strand(d)
                 \/ Service!Request(d) \/ Service!Reply(d)
          PROVE  Stage(c)' \in {"reading", "replying", "absent"}
      <4> HIDE DEF stage
      <4> QED
        BY <2>2, <3>1, <3>2, <3>6 DEF Service!Arrive, Service!Admit, Service!Strand,
                                      Service!Request, Service!Reply
    <3> QED
      BY <2>3, <3>3, <3>4, <3>5, <3>6 DEF Service!Next
  <2> QED
    BY <2>1, <2>2, <2>4 DEF Stage, StageFacts, Gone, Held
<1> QED
  BY <1>3, <1>4

(* No callback drops a descriptor: until acceptconn overwrites a slot in   *)
(* use, a connection leaves the table only when the server closes it.      *)
THEOREM HeldSafe == Spec => HeldUntilClosed
<1>1. TypeOK /\ Guarded /\ Matched /\ Placed /\ [Next]_vars
        => [\A c \in Conns : Held(c) /\ ~clobbered' => Held(c)' \/ sock'[c].peer = "gone"]_vars
  BY HeldStep
<1> QED
  BY <1>1, PlacedAlways, PTL DEF Spec, HeldUntilClosed

-----------------------------------------------------------------------------
(* CloseJust: recvdata closes on nothing to read and senddata on nothing   *)
(* sent, so it has to be known that an event in hand still tells the truth *)
(* when its turn comes, and why a slot may have nothing to send.           *)

(* A connection reported readable stays so until its own callback reads.   *)
Heard == ~clobbered /\ Running =>
           \A i \in batch : IsConn(i.fd) /\ i.events = "IN" => Readable(i.fd)

(* What the connection of number fd has to say does not go away. *)
Keeps(fd) == /\ fdt'[fd] = fdt[fd]
             /\ sock[fdt[fd]].inbox > 0 => sock'[fdt[fd]].inbox > 0
             /\ sock[fdt[fd]].peer \in {"fin", "reset"} => sock'[fdt[fd]].peer \in {"fin", "reset"}

LEMMA HeardStep ==
  ASSUME Heard, ~clobbered' /\ Running' => ~clobbered /\ Running, batch' \subseteq batch,
         \A i \in batch' : IsConn(i.fd)' => Keeps(i.fd)
  PROVE  Heard'
<1> SUFFICES ASSUME ~clobbered', Running', NEW i \in batch', IsConn(i.fd)', i.events = "IN"
             PROVE  Readable(i.fd)'
  BY DEF Heard
<1>1. IsConn(i.fd) /\ Keeps(i.fd)
  BY DEF Keeps, IsConn
<1>2. sock[fdt[i.fd]].inbox > 0 \/ sock[fdt[i.fd]].peer \in {"fin", "reset"}
        \/ fdt[i.fd] = Listener
  BY <1>1 DEF Heard, Readable
<1> QED
  BY <1>1, <1>2, SocketsAssumption DEF Readable, Keeps, IsConn

LEMMA EventsOwn ==
  ASSUME TypeOK, Registered, Owning, NEW i \in interest, NEW j \in interest, i.fd = j.fd
  PROVE  i = j
<1>1. /\ Live(i.slot) /\ i = Registration(i.slot) /\ i.slot \in Slots
      /\ Live(j.slot) /\ j = Registration(j.slot) /\ j.slot \in Slots
  BY DEF Registered, TypeOK, Item
<1>2. i.fd = g_events[i.slot].fd /\ j.fd = g_events[j.slot].fd
  BY <1>1 DEF Registration
<1>3. i.slot = j.slot
  BY <1>1, <1>2 DEF Owning
<1> QED
  BY <1>1, <1>3

(* A callback that disturbs its own connection only.                       *)
LEMMA OwnCallback ==
  ASSUME TypeOK, Guarded, Matched, Placed, Heard, Running, NEW i \in batch,
         NEW call_back \in {"recvdata", "senddata"}, Calls(i, call_back),
         batch' = batch \ {i}, clobbered' = clobbered,
         \A fd \in Fds : fd # g_events[i.slot].fd => fdt'[fd] = fdt[fd],
         \A c \in Conns : c # fdt[g_events[i.slot].fd] => sock'[c] = sock[c]
  PROVE  Heard'
<1> SUFFICES ASSUME ~clobbered PROVE Heard'
  BY DEF Heard
<1>1. /\ i = Registration(i.slot) /\ Registered /\ Owning /\ batch \subseteq interest
      /\ i \in interest /\ g_events[i.slot].fd \in Fds
  BY CalledSlot
<1>2. ASSUME NEW j \in batch', IsConn(j.fd)' PROVE Keeps(j.fd)
  <2>1. j.fd # g_events[i.slot].fd /\ j.fd \in Fds
    BY <1>1, <1>2, EventsOwn DEF Registration, TypeOK, Item
  <2>2. fdt'[j.fd] = fdt[j.fd] /\ IsConn(j.fd)
    BY <1>2, <2>1 DEF IsConn
  <2>3. fdt[j.fd] # fdt[g_events[i.slot].fd] /\ fdt[j.fd] \in Conns
    BY <1>1, <2>1, <2>2 DEF Placed, IsConn
  <2> QED
    BY <2>2, <2>3 DEF Keeps
<1> QED
  BY <1>2, HeardStep

(* Steps after which every connection has as much to say as before.        *)
LEMMA QuietHeard ==
  ASSUME TypeOK, Heard, UNCHANGED <<fdt, clobbered>>, Running' => Running, batch' \subseteq batch,
         \A fd \in Fds : IsConn(fd) => Keeps(fd)
  PROVE  Heard'
<1>1. ASSUME NEW i \in batch', IsConn(i.fd)' PROVE Keeps(i.fd)
  BY <1>1 DEF IsConn
<1> QED
  BY <1>1, HeardStep

LEMMA DispatchHeard ==
  ASSUME TypeOK, Guarded, Matched, Placed, Heard, NEW i \in batch, Dispatch(i)
  PROVE  Heard'
<1>1. Running /\ (Take(i) => batch' = batch \ {i})
  BY DEF Guarded, Take, Remaining
<1>2. CASE Skip(i) \/ AcceptFail(i)
  BY <1>1, <1>2, QuietHeard DEF Skip, AcceptFail, socketVars, Keeps
<1>3. CASE AcceptStore(i) \/ AcceptLeak(i)
  <2> SUFFICES ASSUME ~clobbered' PROVE Heard'
    BY DEF Heard
  <2>1. PICK c \in Conns, cfd \in Fds : Accepted(i, c, cfd)
    BY <1>3 DEF AcceptStore, AcceptLeak
  <2>2. /\ fdt[cfd] = Free /\ \A fd \in Fds : fd # cfd => fdt'[fd] = fdt[fd]
        /\ sock' = sock /\ batch' \subseteq batch
    BY <2>1, <1>1 DEF Accepted, LowestFree, FreeFds, TypeOK
  <2>3. ~clobbered
    BY EndIsFinal DEF Next, Server
  <2>4. ASSUME NEW j \in batch', IsConn(j.fd)' PROVE Keeps(j.fd)
    <3>1. j \in batch /\ j \in interest /\ j = Registration(j.slot) /\ Live(j.slot)
          /\ j.slot \in Slots /\ Owning /\ ListenerKept /\ j.fd \in Fds
      BY <1>1, <2>2, <2>3, <2>4 DEF Matched, Registered, Guarded, TypeOK, Item
    <3>2. fdt[j.fd] # Free
      BY <3>1, SlotCases, SocketsAssumption DEF Owning, IsConn, ListenerKept, Registration
    <3> QED
      BY <2>2, <3>1, <3>2 DEF Keeps
  <2> QED
    BY <1>1, <2>2, <2>3, <2>4, HeardStep
<1>4. CASE AcceptWild(i) \/ SendKilled(i)
  BY <1>4 DEF AcceptWild, SendKilled, Halt, Heard, Running
<1> DEFINE old == g_events[i.slot]
<1>5. CASE RecvSome(i)
  <2>1. /\ Calls(i, "recvdata") /\ fdt' = fdt /\ clobbered' = clobbered /\ Take(i)
        /\ sock' = [sock EXCEPT ![fdt[old.fd]].inbox = @ - RecvResult(old.fd, BUFLEN)]
    BY <1>5 DEF RecvSome
  <2>2. \A c \in Conns : c # fdt[old.fd] => sock'[c] = sock[c]
    BY <2>1 DEF TypeOK
  <2> QED
    BY <1>1, <2>1, <2>2, OwnCallback
<1>6. CASE SendSome(i)
  <2>1. /\ Calls(i, "senddata") /\ fdt' = fdt /\ clobbered' = clobbered /\ Take(i)
        /\ \E full \in BOOLEAN : sock' = [sock EXCEPT ![fdt[old.fd]].full = full]
    BY <1>6 DEF SendSome
  <2>2. \A c \in Conns : c # fdt[old.fd] => sock'[c] = sock[c]
    BY <2>1 DEF TypeOK
  <2> QED
    BY <1>1, <2>1, <2>2, OwnCallback
<1>7. CASE RecvEnd(i) \/ SendFail(i)
  <2>1. /\ Calls(i, "recvdata") \/ Calls(i, "senddata")
        /\ Close(DelFrom(interest, old), {old.fd}) /\ clobbered' = clobbered /\ Take(i)
    BY <1>7 DEF RecvEnd, SendFail
  <2>2. \A c \in Conns : c # fdt[old.fd] => sock'[c] = sock[c]
    BY <2>1 DEF Close, ClosedSocks
  <2>3. \A fd \in Fds : fd # old.fd => fdt'[fd] = fdt[fd]
    BY <2>1 DEF Close, ClosedTable
  <2> QED
    BY <1>1, <2>1, <2>2, <2>3, OwnCallback
<1> QED
  BY <1>2, <1>3, <1>4, <1>5, <1>6, <1>7 DEF Dispatch

LEMMA NextHeard ==
  TypeOK /\ Guarded /\ Matched /\ Placed /\ Heard /\ [Next]_vars => Heard'
<1> SUFFICES ASSUME TypeOK, Guarded, Matched, Placed, Heard, [Next]_vars PROVE Heard'
  OBVIOUS
<1>1. CASE Sweep
  BY <1>1 DEF Sweep, SweepDue, Matched, Heard
<1>2. CASE Wait
  BY <1>2 DEF Wait, socketVars, Batches, ReadyItems, Readable, IsConn, Heard
<1>3. CASE \E i \in batch : Dispatch(i)
  BY <1>3, DispatchHeard
<1>4. CASE WaitError
  BY <1>4 DEF WaitError, Halt, Heard, Running
<1>5. CASE Clients
  <2>1. PICK c \in Conns : Client(c)
    BY <1>5 DEF Clients
  <2>2. UNCHANGED <<fdt, clobbered, batch, pc>>
    BY <1>5, <2>1 DEF Clients, Client, Connect, ClientSend, ClientDrain, ClientFin, ClientReset
  <2>3. ASSUME NEW fd \in Fds, IsConn(fd) PROVE Keeps(fd)
    <3>1. fdt[fd] \in Conns /\ ~Gone(fdt[fd]) /\ \A d \in Conns : sock[d] \in Socket
      BY <2>3 DEF Placed, IsConn, TypeOK
    <3>2. CASE Connect(c)
      BY <2>2, <3>1, <3>2 DEF Connect, Gone, Keeps, TypeOK
    <3>3. CASE \E n \in 1..InboxCap : ClientSend(c, n)
      BY <2>2, <3>1, <3>3 DEF ClientSend, Keeps, TypeOK, Socket
    <3>4. CASE ClientDrain(c)
      BY <2>2, <3>1, <3>4 DEF ClientDrain, Keeps, TypeOK, Socket
    <3>5. CASE ClientFin(c) \/ ClientReset(c)
      BY <2>2, <3>1, <3>5 DEF ClientFin, ClientReset, Keeps, TypeOK, Socket
    <3> QED
      BY <2>1, <3>2, <3>3, <3>4, <3>5 DEF Client
  <2> QED
    BY <2>2, <2>3, QuietHeard DEF Running
<1>6. CASE Tick
  <2>1. ASSUME NEW fd \in Fds, IsConn(fd) PROVE Keeps(fd)
    BY <1>6, <2>1 DEF Tick, SocketTick, Keeps, TypeOK, Socket, IsConn
  <2> QED
    BY <1>6, <2>1, QuietHeard DEF Tick, SocketTick, Running
<1>7. CASE UNCHANGED vars
  BY <1>7, QuietHeard DEF vars, socketVars, Running, Keeps
<1> QED
  BY <1>1, <1>2, <1>3, <1>4, <1>5, <1>6, <1>7 DEF Next, Server

LEMMA CloseStep ==
  ASSUME TypeOK, Guarded, Matched, Placed, Stored, Heard, [Next]_vars, NEW c \in Conns,
         pc = "dispatch", pc' # "halted", ~clobbered,
         sock[c].peer = "open", ~sock[c].full, sock'[c].peer = "gone"
  PROVE  \E s \in ClientSlots : Holds(s, c) /\ g_events[s].got = BUFLEN
<1>0. Running /\ sock[c] \in Socket
  BY DEF Running, TypeOK
<1>1. PICK i \in batch : RecvEnd(i) \/ SendFail(i)
  <2>1. CASE \E i \in batch : Dispatch(i)
    <3>1. PICK i \in batch : Dispatch(i)
      BY <2>1
    <3>2. CASE sock' = sock
      BY <3>2
    <3>3. CASE RecvSome(i) \/ SendSome(i)
      <4>1. ASSUME NEW k \in Socket, NEW x
            PROVE  [k EXCEPT !.inbox = x].peer = k.peer /\ [k EXCEPT !.full = x].peer = k.peer
        BY DEF Socket
      <4>2. CASE RecvSome(i)
        BY <1>0, <4>1, <4>2 DEF RecvSome, TypeOK
      <4>3. CASE SendSome(i)
        BY <1>0, <4>1, <4>3 DEF SendSome, TypeOK
      <4> QED
        BY <3>3, <4>2, <4>3
    <3>4. CASE AcceptWild(i) \/ SendKilled(i)
      BY <3>4 DEF AcceptWild, SendKilled, Halt
    <3>5. CASE Skip(i) \/ AcceptFail(i) \/ AcceptStore(i) \/ AcceptLeak(i)
      BY <3>2, <3>5 DEF Skip, AcceptFail, AcceptStore, AcceptLeak, Accepted, socketVars
    <3> QED
      BY <3>1, <3>3, <3>4, <3>5 DEF Dispatch
  <2>2. CASE Clients
    <3>1. PICK d \in Conns : Client(d)
      BY <2>2 DEF Clients
    <3>2. CASE Connect(d)
      BY <3>2 DEF Connect, TypeOK
    <3>3. CASE ~Connect(d)
      BY <3>1, <3>3, QuietClient DEF Gone
    <3> QED
      BY <3>2, <3>3
  <2>3. CASE Tick
    BY <1>0, <2>3 DEF Tick, SocketTick, Socket
  <2>4. CASE UNCHANGED vars
    BY <2>4 DEF vars, socketVars
  <2> QED
    BY <2>1, <2>2, <2>3, <2>4 DEF Next, Server, Sweep, SweepDue, Wait, WaitError
<1> DEFINE s == i.slot
           old == g_events[s]
<1>2. /\ Calls(i, "recvdata") \/ Calls(i, "senddata")
      /\ Close(DelFrom(interest, old), {old.fd})
  BY <1>1 DEF RecvEnd, SendFail
<1>3. /\ s \in ClientSlots /\ old \in Slot /\ Live(s) /\ i = Registration(s)
      /\ IsConn(old.fd) /\ old.fd \in Fds
  BY <1>0, <1>2, CalledSlot
<1>4. fdt[old.fd] = c /\ Holds(s, c)
  BY <1>2, <1>3 DEF Close, ClosedSocks, Holds
<1>5. CASE RecvEnd(i)
  <2>1. i.events = "IN" /\ i.fd = old.fd
    BY <1>0, <1>3, <1>5 DEF RecvEnd, Calls, Guarded, SlotsApart, Fits, Registration
  <2>2. sock[c].inbox > 0
    BY <1>0, <1>3, <1>4, <2>1, SocketsAssumption DEF Heard, Readable
  <2>3. RecvResult(old.fd, BUFLEN) > 0
    BY <1>0, <1>3, <1>4, <2>2, ReactorAssumption DEF RecvResult, Socket
  <2> QED
    BY <1>5, <2>3, <1>3, <1>4, <1>0, RecvBytes DEF RecvEnd
<1>6. CASE SendFail(i)
  <2>1. Sending(s)
    BY <1>0, <1>3, <1>6 DEF SendFail, Calls, Guarded, SlotsApart, Fits, Sending
  <2>2. Honest(s) /\ old.len \in 0..BUFLEN
    BY <1>0, <1>3, <2>1 DEF Stored, Slot
  <2>3. PICK n \in SendResults(old.fd, old.len) : n <= 0
    BY <1>6 DEF SendFail, SendFails
  <2>4. SendResults(old.fd, old.len) = IF old.len = 0 THEN {0} ELSE 1..old.len
    BY <1>3, <1>4 DEF SendResults
  <2>5. old.len = 0
    BY <2>2, <2>3, <2>4, ReactorAssumption
  <2> QED
    BY <1>3, <1>4, <2>2, <2>5 DEF Honest
<1> QED
  BY <1>1, <1>5, <1>6

(* A connection reported readable is still readable when its turn comes.   *)
THEOREM HeardAlways == Spec => []Heard
<1>1. Init => Heard
  BY DEF Init, Heard
<1>2. TypeOK /\ Guarded /\ Matched /\ Placed /\ Heard /\ [Next]_vars => Heard'
  BY NextHeard
<1> QED
  BY <1>1, <1>2, PlacedAlways, PTL DEF Spec

(* A client that neither ended nor blocked its connection loses it, short  *)
(* of a timeout, only to the reply of length 0 after a full buffer.        *)
THEOREM CloseSafe == Spec => CloseJust
<1>1. TypeOK /\ Guarded /\ Matched /\ Placed /\ Stored /\ Heard /\ [Next]_vars
        => [\A c \in Conns :
              pc = "dispatch" /\ pc' # "halted" /\ ~clobbered
              /\ sock[c].peer = "open" /\ ~sock[c].full /\ sock'[c].peer = "gone"
                => \E s \in ClientSlots : Holds(s, c) /\ g_events[s].got = BUFLEN]_vars
  BY CloseStep
<1> QED
  BY <1>1, PlacedAlways, StoredAlways, HeardAlways, PTL DEF Spec, CloseJust

-----------------------------------------------------------------------------
(* TimeoutJust: last_active is set whenever a slot is set up again, and a  *)
(* client that sends since then leaves bytes to read, so a slot never      *)
(* claims a longer silence than its client's unless there are some.        *)

Silence(s) == LET k == sock[fdt[g_events[s].fd]] IN
              g_events[s].age <= k.idle \/ k.inbox > 0

Silent == ~clobbered /\ Running => \A s \in ClientSlots : Live(s) => Silence(s)

(* Slot s and its connection are as before, or more has come in. *)
Unheard(s) ==
  LET c == fdt[g_events[s].fd] IN
  /\ Live(s) /\ g_events'[s].fd = g_events[s].fd /\ g_events'[s].age = g_events[s].age
  /\ fdt'[g_events[s].fd] = c
  /\ \/ sock'[c].idle = sock[c].idle /\ sock'[c].inbox = sock[c].inbox
     \/ sock'[c].inbox > 0

LEMMA SilentStep ==
  ASSUME Silent, ~clobbered' /\ Running' => ~clobbered /\ Running,
         ~clobbered' /\ Running' =>
           \A s \in ClientSlots : Live(s)' => Unheard(s) \/ Silence(s)'
  PROVE  Silent'
  BY DEF Silent, Silence, Unheard

(* Setting up a slot again starts its clock. *)
LEMMA FreshSilence ==
  ASSUME TypeOK', Matched', ~clobbered', Running', NEW s \in ClientSlots, Live(s)',
         g_events'[s].age = 0
  PROVE  Silence(s)'
<1>1. fdt'[g_events'[s].fd] \in Conns
  BY DEF Matched, Owning, IsConn
<1>2. sock'[fdt'[g_events'[s].fd]] \in Socket
  BY <1>1 DEF TypeOK
<1> QED
  BY <1>2, SocketsAssumption DEF Silence, Socket

(* Slots given up and their numbers closed leave the others as they were.  *)
LEMMA EndSilent ==
  ASSUME Sound, Silent, NEW ended \in SUBSET ClientSlots, \A s \in ended : Live(s),
         NEW list, Close(list, {g_events[s].fd : s \in ended}), clobbered' = clobbered,
         \A s \in ended : ~Live(s)',
         \A s \in ClientSlots \ ended : g_events'[s] = g_events[s]
  PROVE  Silent'
<1> DEFINE fds == {g_events[s].fd : s \in ended}
<1>1. ASSUME NEW s \in ClientSlots, Live(s)' PROVE Unheard(s)
  <2>1. s \notin ended /\ g_events'[s] = g_events[s] /\ Live(s)
    BY <1>1 DEF Live
  <2>2. IsConn(g_events[s].fd) /\ g_events[s].fd \in Fds /\ g_events[s].fd \notin fds
    BY <2>1, ClientInSlots DEF Sound, Matched, Owning, IsConn
  <2>3. fdt'[g_events[s].fd] = fdt[g_events[s].fd] /\ fdt[g_events[s].fd] \in Conns
    BY <2>2 DEF Close, ClosedTable, IsConn
  <2>4. ~\E fd \in fds : IsConn(fd) /\ fdt[fd] = fdt[g_events[s].fd]
    BY <2>2 DEF Sound, Placed, IsConn
  <2>5. sock'[fdt[g_events[s].fd]] = sock[fdt[g_events[s].fd]]
    BY <2>3, <2>4 DEF Close, ClosedSocks
  <2> QED
    BY <2>1, <2>3, <2>5 DEF Unheard
<1> QED
  BY <1>1, SilentStep DEF Sound

LEMMA DispatchSilent ==
  ASSUME Sound, Sound', Silent, NEW i \in batch, Dispatch(i)
  PROVE  Silent'
<1>1. TypeOK /\ TypeOK' /\ Matched' /\ Owning /\ ~clobbered /\ ~clobbered'
      /\ Running /\ Running'
  BY DEF Sound, Matched
<1>2. CASE Skip(i) \/ AcceptFail(i)
  <2>1. \A s \in ClientSlots : Live(s)' => Unheard(s)
    BY <1>2 DEF Skip, AcceptFail, socketVars, Live, Unheard
  <2> QED
    BY <1>1, <2>1, SilentStep
<1>3. CASE AcceptStore(i) \/ AcceptLeak(i)
  <2>1. PICK c \in Conns, cfd \in Fds :
          /\ Accepted(i, c, cfd)
          /\ \/ g_events' = g_events
             \/ \E slot \in StoreSlots :
                  g_events' = [g_events EXCEPT ![slot] = Rearm(@, cfd, "recvdata", "IN")]
    BY <1>3 DEF AcceptStore, AcceptLeak
  <2>2. /\ fdt[cfd] = Free /\ sock' = sock
        /\ \A fd \in Fds : fd # cfd => fdt'[fd] = fdt[fd]
    BY <2>1, <1>1 DEF Accepted, LowestFree, FreeFds, TypeOK
  <2>3. ASSUME NEW s \in ClientSlots, Live(s)' PROVE Unheard(s) \/ Silence(s)'
    <3>1. CASE g_events'[s] = g_events[s]
      <4>1. Live(s) /\ g_events[s].fd \in Fds /\ g_events[s].fd # cfd
        BY <1>1, <2>2, <2>3, <3>1, SocketsAssumption DEF Live, Owning, IsConn
      <4> QED
        BY <2>2, <3>1, <4>1 DEF Unheard
    <3>2. CASE g_events'[s] # g_events[s]
      <4>1. s \in Slots /\ g_events[s] \in Slot
        BY <1>1, ClientInSlots DEF TypeOK
      <4>2. g_events'[s] = Rearm(g_events[s], cfd, "recvdata", "IN")
        BY <1>1, <2>1, <3>2, <4>1 DEF TypeOK
      <4>3. g_events'[s].age = 0
        BY <4>1, <4>2 DEF Rearm, event_set, event_add, Slot
      <4> QED
        BY <1>1, <2>3, <4>3, FreshSilence
    <3> QED
      BY <3>1, <3>2
  <2> QED
    BY <1>1, <2>3, SilentStep
<1>4. CASE AcceptWild(i) \/ SendKilled(i)
  BY <1>1, <1>4 DEF AcceptWild, SendKilled, Halt, Running
<1> DEFINE slot == i.slot
           old == g_events[slot]
<1>5. ASSUME Calls(i, "recvdata") \/ Calls(i, "senddata")
      PROVE  /\ slot \in ClientSlots /\ slot \in Slots /\ old \in Slot /\ Live(slot)
             /\ IsConn(old.fd) /\ old.fd \in Fds
  BY <1>5, CalledSlot DEF Sound
<1>6. CASE RecvSome(i) \/ SendSome(i)
  <2>1. /\ fdt' = fdt
        /\ Calls(i, "recvdata") \/ Calls(i, "senddata")
        /\ \A s \in Slots : s # slot => g_events'[s] = g_events[s]
        /\ \A c \in Conns : c # fdt[old.fd] => sock'[c] = sock[c]
    BY <1>1, <1>6 DEF RecvSome, SendSome, TypeOK
  <2>2. g_events'[slot].age = 0
    <3>1. CASE RecvSome(i)
      <4> DEFINE n == RecvResult(old.fd, BUFLEN)
      <4>1. PICK len \in StoredLen(n) :
              g_events' = [g_events EXCEPT ![slot] =
                Rearm([event_del(old) EXCEPT !.from = fdt[old.fd], !.got = n, !.len = len],
                      old.fd, "senddata", "OUT")]
        BY <3>1 DEF RecvSome
      <4> DEFINE ev == Rearm([event_del(old) EXCEPT !.from = fdt[old.fd], !.got = n, !.len = len],
                             old.fd, "senddata", "OUT")
      <4>2. slot \in Slots /\ old \in Slot
        BY <1>5, <2>1
      <4>3. ev.age = 0
        BY <4>2 DEF Rearm, event_set, event_add, event_del, Slot
      <4>4. g_events'[slot] = ev
        BY <1>1, <4>1, <4>2 DEF TypeOK
      <4> HIDE DEF ev
      <4> QED
        BY <4>3, <4>4
    <3>2. CASE SendSome(i)
      BY <1>1, <1>5, <3>2 DEF SendSome, TypeOK, Rearm, event_set, event_add, event_del, Slot
    <3> QED
      BY <1>6, <3>1, <3>2
  <2>3. ASSUME NEW s \in ClientSlots, Live(s)', s # slot PROVE Unheard(s)
    <3>1. g_events'[s] = g_events[s] /\ Live(s) /\ s \in Slots
      BY <2>1, <2>3, ClientInSlots DEF Live
    <3>2. g_events[s].fd # old.fd /\ IsConn(g_events[s].fd)
      BY <1>1, <1>5, <2>1, <2>3, <3>1 DEF Owning
    <3>3. fdt[g_events[s].fd] # fdt[old.fd] /\ fdt[g_events[s].fd] \in Conns
      BY <1>5, <2>1, <3>2 DEF Sound, Placed, IsConn
    <3> QED
      BY <2>1, <3>1, <3>3 DEF Unheard
  <2> QED
    BY <1>1, <2>2, <2>3, SilentStep, FreshSilence
<1>7. CASE RecvEnd(i) \/ SendFail(i)
  <2>1. /\ Calls(i, "recvdata") \/ Calls(i, "senddata")
        /\ g_events' = [g_events EXCEPT ![slot] = event_del(old)]
        /\ Close(DelFrom(interest, old), {old.fd}) /\ clobbered' = clobbered
    BY <1>7 DEF RecvEnd, SendFail
  <2> DEFINE ended == {slot}
  <2>2. /\ Close(DelFrom(interest, old), {g_events[t].fd : t \in ended}) /\ clobbered' = clobbered
        /\ ended \in SUBSET ClientSlots /\ (\A t \in ended : Live(t) /\ ~Live(t)')
        /\ \A t \in ClientSlots \ ended : g_events'[t] = g_events[t]
    <3>1. {old.fd} = {g_events[t].fd : t \in ended}
      OBVIOUS
    <3>2. ~Live(slot)' /\ \A t \in ClientSlots \ {slot} : g_events'[t] = g_events[t]
      BY <1>1, <1>5, <2>1, ClientInSlots DEF TypeOK, Live, event_del, Slot
    <3> QED
      BY <1>5, <2>1, <3>1, <3>2
  <2> HIDE DEF ended
  <2> QED
    BY <2>2, EndSilent
<1> QED
  BY <1>2, <1>3, <1>4, <1>6, <1>7 DEF Dispatch

LEMMA NextSilent ==
  TypeOK /\ Guarded /\ Matched /\ Placed /\ Silent /\ [Next]_vars => Silent'
<1> SUFFICES ASSUME TypeOK, Guarded, Matched, Placed, Silent, [Next]_vars,
                    ~clobbered', Running'
             PROVE  Silent'
  BY DEF Silent
<1>1. /\ TypeOK' /\ Guarded' /\ Matched' /\ Placed'
      /\ ~clobbered /\ Running
  BY NextType, NextGuarded, NextMatched, NextPlaced, EndIsFinal
<1>2. Sound /\ Sound' /\ clobbered' = clobbered
  BY <1>1 DEF Sound, TypeOK
<1>3. CASE Sweep
  <2>1. Expired \subseteq ClientSlots /\ \A s \in Expired : Live(s)
    BY SweepRange DEF TypeOK, Expired, Live
  <2>2. ASSUME NEW s \in ClientSlots
        PROVE  /\ s \in Expired => ~Live(s)'
               /\ s \notin Expired => g_events'[s] = g_events[s]
    <3>1. s \in Slots /\ g_events[s] \in Slot
      BY ClientInSlots DEF TypeOK
    <3> QED
      BY <1>3, <3>1 DEF Sweep, Live, event_del, Slot
  <2>3. Close(interest, {g_events[s].fd : s \in Expired})
    BY <1>3 DEF Sweep
  <2> QED
    BY <1>2, <2>1, <2>2, <2>3, EndSilent
<1>4. CASE \E i \in batch : Dispatch(i)
  BY <1>2, <1>4, DispatchSilent
<1>5. CASE Wait \/ UNCHANGED vars
  <2>1. \A s \in ClientSlots : Live(s)' => Unheard(s)
    BY <1>5 DEF Wait, vars, socketVars, Live, Unheard
  <2> QED
    BY <1>1, <2>1, SilentStep
<1>6. CASE WaitError
  BY <1>6 DEF WaitError, Halt, Running
<1>7. ASSUME NEW s \in ClientSlots, Live(s)
      PROVE  LET c == fdt[g_events[s].fd] IN
             c \in Conns /\ ~Gone(c) /\ sock[c] \in Socket /\ g_events[s] \in Slot
  BY <1>1, <1>7, ClientInSlots DEF Matched, Owning, Placed, IsConn, TypeOK
<1>8. CASE Clients
  <2>1. PICK c \in Conns : Client(c) /\ g_events' = g_events /\ fdt' = fdt
    BY <1>8 DEF Clients, Client, Connect, ClientSend, ClientDrain, ClientFin, ClientReset
  <2>2. \A d \in Conns : d # c => sock'[d] = sock[d]
    BY <2>1 DEF Client, Connect, ClientSend, ClientDrain, ClientFin, ClientReset, TypeOK
  <2>3. sock[c] \in Socket
    BY DEF TypeOK
  <2>4. \/ Gone(c)
        \/ sock'[c].idle = sock[c].idle /\ sock'[c].inbox = sock[c].inbox
        \/ sock'[c].inbox > 0
    <3>1. CASE Connect(c)
      BY <3>1 DEF Connect, Gone
    <3>2. CASE \E n \in 1..InboxCap : ClientSend(c, n)
      BY <2>3, <3>2 DEF ClientSend, TypeOK, Socket
    <3>3. CASE ClientDrain(c)
      BY <2>3, <3>3 DEF ClientDrain, TypeOK, Socket
    <3>4. CASE ClientFin(c) \/ ClientReset(c)
      BY <2>3, <3>4 DEF ClientFin, ClientReset, TypeOK, Socket
    <3> QED
      BY <2>1, <3>1, <3>2, <3>3, <3>4 DEF Client
  <2>5. \A s \in ClientSlots : Live(s)' => Unheard(s)
    BY <1>7, <2>1, <2>2, <2>4 DEF Live, Unheard
  <2> QED
    BY <1>1, <2>5, SilentStep
<1>9. CASE Tick
  <2>1. ASSUME NEW s \in ClientSlots, Live(s)' PROVE Silence(s)'
    <3> DEFINE c == fdt[g_events[s].fd]
    <3>1. s \in Slots /\ g_events[s] \in Slot
      BY ClientInSlots DEF TypeOK
    <3>2. /\ g_events'[s].fd = g_events[s].fd /\ Live(s)
          /\ g_events'[s].age = Older(g_events[s].age)
      BY <1>9, <2>1, <3>1 DEF Tick, Slot, Live
    <3>3. c \in Conns /\ ~Gone(c) /\ sock[c] \in Socket
      BY <1>7, <3>2
    <3>4. sock'[c].idle = Older(sock[c].idle) /\ sock'[c].inbox = sock[c].inbox
      BY <1>9, <3>3 DEF Tick, SocketTick, Gone, Socket
    <3>5. fdt' = fdt
      BY <1>9 DEF Tick, SocketTick
    <3>6. g_events[s].age \in 0..TIMEOUT /\ sock[c].idle \in 0..TIMEOUT
      BY <3>1, <3>3 DEF Slot, Socket
    <3>7. g_events[s].age <= sock[c].idle \/ sock[c].inbox > 0
      BY <1>1, <3>2 DEF Silent, Silence
    <3> QED
      BY <3>2, <3>4, <3>5, <3>6, <3>7, SocketsAssumption DEF Silence, Older
  <2> QED
    BY <2>1 DEF Silent
<1> QED
  BY <1>3, <1>4, <1>5, <1>6, <1>8, <1>9 DEF Next, Server

LEMMA TimeoutStep ==
  ASSUME TypeOK, Guarded, Matched, Placed, Silent, [Next]_vars, NEW c \in Conns,
         pc = "sweep", ~clobbered, sock[c].peer # "gone", sock'[c].peer = "gone"
  PROVE  sock[c].idle = TIMEOUT \/ sock[c].inbox > 0
<1>1. Running /\ sock[c] \in Socket /\ ~Gone(c) /\ Gone(c)'
  BY DEF Running, TypeOK, Gone
<1>2. CASE Sweep
  <2>1. PICK s \in Expired : IsConn(g_events[s].fd) /\ fdt[g_events[s].fd] = c
    <3>1. CASE ~\E s \in Expired : IsConn(g_events[s].fd) /\ fdt[g_events[s].fd] = c
      <4>1. sock'[c] = sock[c]
        BY <1>2, <3>1 DEF Sweep, Close, ClosedSocks
      <4> QED
        BY <4>1
    <3> QED
      BY <3>1
  <2>2. s \in ClientSlots /\ s \in Slots /\ Live(s) /\ TIMEOUT <= g_events[s].age
    BY SweepRange, ClientInSlots DEF TypeOK, Expired, Live
  <2>3. Silence(s)
    BY <1>1, <2>2 DEF Silent
  <2>4. g_events[s].age \in 0..TIMEOUT /\ sock[c].idle \in 0..TIMEOUT
    BY <1>1, <2>2 DEF TypeOK, Slot, Socket
  <2> QED
    BY <2>1, <2>2, <2>3, <2>4, SocketsAssumption DEF Silence
<1>3. CASE Clients
  <2>1. PICK d \in Conns : Client(d)
    BY <1>3 DEF Clients
  <2>2. CASE Connect(d)
    <3>1. ~Gone(d)'
      BY <2>2 DEF Connect, GoneSocket, TypeOK, Gone
    <3>2. d # c => sock'[c] = sock[c]
      BY <2>2 DEF Connect, TypeOK
    <3> QED
      BY <1>1, <3>1, <3>2
  <2>3. CASE ~Connect(d)
    BY <1>1, <2>1, <2>3, QuietClient
  <2> QED
    BY <2>2, <2>3
<1>4. CASE Tick
  BY <1>1, <1>4 DEF Tick, SocketTick, Socket
<1>5. CASE UNCHANGED vars
  BY <1>5 DEF vars, socketVars
<1>6. ~(\E i \in batch : Dispatch(i))
  BY DEF Matched
<1> QED
  BY <1>2, <1>3, <1>4, <1>5, <1>6 DEF Next, Server, Wait, WaitError

(* A slot in use is never older than the silence of its client, unless the *)
(* client has sent what recvdata has not read.                             *)
THEOREM SilentAlways == Spec => []Silent
<1>1. Init => Silent
  <2> SUFFICES ASSUME Init, NEW s \in ClientSlots PROVE ~Live(s)
    BY DEF Silent
  <2> QED
    BY ClientInSlots DEF Init, Live, ZeroSlot
<1>2. TypeOK /\ Guarded /\ Matched /\ Placed /\ Silent /\ [Next]_vars => Silent'
  BY NextSilent
<1> QED
  BY <1>1, <1>2, PlacedAlways, PTL DEF Spec

(* The sweep closes nobody too early.                                      *)
THEOREM TimeoutSafe == Spec => TimeoutJust
<1>1. TypeOK /\ Guarded /\ Matched /\ Placed /\ Silent /\ [Next]_vars
        => [\A c \in Conns :
              pc = "sweep" /\ ~clobbered /\ sock[c].peer # "gone" /\ sock'[c].peer = "gone"
                => sock[c].idle = TIMEOUT \/ sock[c].inbox > 0]_vars
  BY TimeoutStep
<1> QED
  BY <1>1, PlacedAlways, SilentAlways, PTL DEF Spec, TimeoutJust
===============================================================================
