----------------------------- MODULE EpollProof -----------------------------
(* For all sizes and any number of clients: types, privacy of the replies, *)
(* and no lost edge, of the epoll demo.                                    *)
EXTENDS EpollDemo, TLAPS

(* Type correctness, one lemma for each program. *)

(* A read or a write takes no more than there is and than was asked for.   *)
LEMMA SmallerRange ==
  ASSUME NEW a \in Nat, NEW b \in Nat
  PROVE  /\ Smaller(a, b) \in Nat
         /\ Smaller(a, b) <= a /\ Smaller(a, b) <= b
         /\ a > 0 /\ b > 0 => Smaller(a, b) > 0
BY DEF Smaller

(* Every step of the client leaves the shared and its own state in type.   *)
LEMMA ClientTyped ==
  ASSUME TypeOK, NEW c \in Clients, Client(c)
  PROVE  TypeOK'
<1> USE DEF TypeOK, WireType, ClientType
<1>1. fresh' \subseteq Clients
  BY DEF Client, Edges, ServerType
<1>2. ServerType'
  BY <1>1 DEF Client, ServerType, Event
<1>3. (WireType /\ ClientType)'
  <2>1. CASE Connect(c)
    BY <2>1 DEF Connect
  <2>2. CASE ConnectRefused(c)
    BY <2>2 DEF ConnectRefused, wireVars
  <2>3. CASE TypeLine(c)
    BY <2>3 DEF TypeLine, wireVars
  <2>4. CASE SendLine(c)
    <3> DEFINE n == Smaller(INPUT, InCap - inbox[c])
    <3>1. inbox[c] + n \in 0..InCap
      <4>1. INPUT \in Nat /\ inbox[c] \in Nat /\ InCap - inbox[c] \in Nat
        BY ClientAssumption, WireAssumption
      <4>2. n \in Nat /\ n <= InCap - inbox[c]
        BY <4>1, SmallerRange
      <4>3. QED
        BY <4>1, <4>2, WireAssumption
    <3> HIDE DEF n
    <3>2. /\ inbox' = [inbox EXCEPT ![c] = inbox[c] + n]
          /\ UNCHANGED <<listening, link, peer, outbox>>
      BY <2>4 DEF SendLine, n
    <3>3. ClientType'
      BY <2>4, Zenon DEF SendLine
    <3>4. QED
      BY <3>1, <3>2, <3>3
  <2>5. CASE ReadReply(c)
    <3> DEFINE n == Smaller(outbox[c], MAX_LINE)
    <3>1. n \in Nat /\ n <= outbox[c]
      <4>1. outbox[c] \in Nat /\ MAX_LINE \in Nat
        BY ClientAssumption, WireAssumption
      <4>2. QED
        BY <4>1, SmallerRange
    <3>2. outbox[c] - n \in 0..OutCap
      BY <3>1, WireAssumption
    <3> HIDE DEF n
    <3>3. /\ outbox' = [outbox EXCEPT ![c] = outbox[c] - n]
          /\ UNCHANGED <<listening, link, peer, inbox>>
      BY <2>5 DEF ReadReply, n
    <3>4. (at \in [Clients -> {"start", "input", "send", "recv", "again", "done"}])'
      BY <2>5 DEF ReadReply
    <3>5. (overrun \in [Clients -> BOOLEAN])'
      BY <2>5, Zenon DEF ReadReply
    <3>6. QED
      BY <3>2, <3>3, <3>4, <3>5
  <2>6. CASE ReadNothing(c)
    BY <2>6 DEF ReadNothing, wireVars
  <2>7. CASE Quit(c)
    BY <2>7, WireAssumption DEF Quit, PeerAfterClose
  <2>8. CASE LostServer(c)
    BY <2>8, WireAssumption DEF LostServer
  <2>9. CASE Crash(c)
    BY <2>9, WireAssumption DEF Crash, PeerAfterClose
  <2>10. QED
    BY <2>1, <2>2, <2>3, <2>4, <2>5, <2>6, <2>7, <2>8, <2>9 DEF Client, ClientStep
<1>4. QED
  BY <1>2, <1>3

(* An event in hand is one of a connection or the listener's.              *)
LEMMA WaitTyped == TypeOK /\ Wait /\ UNCHANGED clientVars => TypeOK'
<1> SUFFICES ASSUME TypeOK, Wait, UNCHANGED clientVars PROVE TypeOK'
  OBVIOUS
<1> USE DEF TypeOK
<1>1. ReadyEvents \subseteq Event
  BY DEF ReadyEvents, EventOf, Event
<1>2. first' \in Clients \cup {Listen}
  BY <1>1 DEF Wait, Event
<1>3. ServerType'
  BY <1>1, <1>2 DEF Wait, ServerType
<1>4. (WireType /\ ClientType)'
  BY DEF Wait, WireType, ClientType, wireVars, clientVars
<1>5. QED
  BY <1>3, <1>4

(* Handling one event: the connection is looked at, and at most a write    *)
(* begun.                                                                  *)
LEMMA EventTyped ==
  ASSUME TypeOK, UNCHANGED clientVars, NEW e \in batch,
         CallAccept(e) \/ ReadFails(e) \/ ReadEnd(e) \/ ReadSome(e) \/ WriteBuffer(e)
  PROVE  TypeOK'
<1> USE DEF TypeOK
<1>1. ClientType'
  BY DEF ClientType, clientVars
<1>2. e \in Event /\ e.fd \in Clients \cup {Listen}
  BY DEF ServerType, Event
<1>3. CASE CallAccept(e)
  <2>1. WireType'
    BY <1>3 DEF CallAccept, WireType, wireVars
  <2>2. ServerType'
    BY <1>2, <1>3 DEF CallAccept, Take, ServerType
  <2>3. QED
    BY <1>1, <2>1, <2>2
<1>4. CASE ReadFails(e)
  <2>1. WireType'
    BY <1>4 DEF ReadFails, WireType
  <2>2. ServerType'
    BY <1>4 DEF ReadFails, Reads, Take, Resume, ServerType
  <2>3. QED
    BY <1>1, <2>1, <2>2
<1>5. CASE ReadEnd(e)
  <2>1. WireType'
    BY <1>5 DEF ReadEnd, WireType
  <2>2. ServerType'
    BY <1>5 DEF ReadEnd, Reads, Take, Resume, ServerType
  <2>3. QED
    BY <1>1, <2>1, <2>2
<1>6. CASE ReadSome(e)
  <2> DEFINE n == Smaller(inbox[e.fd], READ)
  <2>1. e.fd \in Clients /\ inbox[e.fd] \in 0..InCap
    BY <1>6 DEF ReadSome, WireType
  <2>2. n \in Nat /\ n <= inbox[e.fd] /\ n <= READ
    <3>1. inbox[e.fd] \in Nat /\ READ \in Nat
      BY <2>1, WireAssumption, ServerAssumption
    <3>2. QED
      BY <3>1, SmallerRange
  <2>3. inbox[e.fd] - n \in 0..InCap
    BY <2>1, <2>2, WireAssumption
  <2>4. WireType'
    BY <1>6, <2>1, <2>3 DEF ReadSome, WireType
  <2>5. 0..n \subseteq 0..(READ + BUFFER)
    BY <2>2, ServerAssumption
  <2>6. (task \in [to : Clients \cup {Nobody}, left : 0..(READ + BUFFER), reply : BOOLEAN])'
    <3> HIDE DEF n
    <3>1. PICK strlen \in 0..n : task' = [to |-> e.fd, left |-> strlen, reply |-> TRUE]
      BY <1>6 DEF ReadSome, n
    <3>2. QED
      BY <3>1, <2>1, <2>5
  <2>7. ServerType'
    BY <1>6, <2>1, <2>6 DEF ReadSome, Reads, Take, ServerType
  <2>8. QED
    BY <1>1, <2>4, <2>7
<1>7. CASE WriteBuffer(e)
  <2>1. e.fd \in Clients /\ BUFFER \in 0..(READ + BUFFER)
    BY <1>2, <1>7, ServerAssumption DEF WriteBuffer, Event
  <2>2. WireType'
    BY <1>7 DEF WriteBuffer, WireType, wireVars
  <2>3. ServerType'
    BY <1>7, <2>1 DEF WriteBuffer, Take, ServerType
  <2>4. QED
    BY <1>1, <2>2, <2>3
<1>8. QED
  BY <1>3, <1>4, <1>5, <1>6, <1>7

(* accept, the steps of write, and what follows it.                        *)
LEMMA BlockingTyped ==
  ASSUME TypeOK, UNCHANGED clientVars,
         \/ \E c \in Clients : AcceptConn(c) \/ AcceptRefused(c)
         \/ WriteSome \/ WriteLost \/ Sigpipe \/ WriteDone,
         pc = "write" => task.to \in Clients
  PROVE  TypeOK'
<1> USE DEF TypeOK
<1>1. ClientType'
  BY DEF ClientType, clientVars
<1>2. CASE \E c \in Clients : AcceptConn(c) \/ AcceptRefused(c)
  <2> PICK c \in Clients : AcceptConn(c) \/ AcceptRefused(c)
    BY <1>2
  <2>1. WireType'
    BY DEF AcceptConn, AcceptRefused, WireType
  <2>2. ServerType'
    BY DEF AcceptConn, AcceptRefused, ServerType
  <2>3. QED
    BY <1>1, <2>1, <2>2
<1>3. CASE WriteSome
  <2> DEFINE n == Smaller(task.left, Room(task.to))
  <2>1. /\ task.to \in Clients /\ task.left \in 0..(READ + BUFFER)
        /\ outbox[task.to] \in 0..OutCap
    BY <1>3 DEF WriteSome, ServerType, WireType
  <2>2. n \in Nat /\ n <= task.left /\ n <= OutCap - outbox[task.to]
    <3>1. task.left \in Nat /\ Room(task.to) \in Nat
      BY <2>1, WireAssumption, ServerAssumption DEF Room
    <3>2. QED
      BY <3>1, SmallerRange DEF Room
  <2>3. outbox[task.to] + n \in 0..OutCap /\ Left(n) \in 0..(READ + BUFFER)
    BY <2>1, <2>2, WireAssumption, ServerAssumption DEF Left
  <2> HIDE DEF n
  <2>4. /\ outbox' = [outbox EXCEPT ![task.to] = outbox[task.to] + n]
        /\ task' = [task EXCEPT !.left = Left(n)]
    BY <1>3 DEF WriteSome, n
  <2>5. WireType'
    BY <1>3, <2>3, <2>4 DEF WriteSome, WireType
  <2>6. ServerType'
    BY <1>3, <2>3, <2>4 DEF WriteSome, ServerType, Event
  <2>7. QED
    BY <1>1, <2>5, <2>6
<1>4. CASE WriteLost
  <2>1. WireType'
    BY <1>4 DEF WriteLost, WireType
  <2>2. 0 \in 0..(READ + BUFFER)
    BY ServerAssumption
  <2>3. ServerType'
    BY <1>4, <2>2 DEF WriteLost, ServerType, Event
  <2>4. QED
    BY <1>1, <2>1, <2>3
<1>5. CASE Sigpipe
  <2>1. WireType'
    BY <1>5 DEF Sigpipe, WireType
  <2>2. NoTask \in [to : Clients \cup {Nobody}, left : 0..(READ + BUFFER), reply : BOOLEAN]
    BY ServerAssumption DEF NoTask
  <2>3. ServerType'
    BY <1>5, <2>2 DEF Sigpipe, ServerType
  <2>4. QED
    BY <1>1, <2>1, <2>3
<1>6. CASE WriteDone
  <2>1. WireType'
    BY <1>6 DEF WriteDone, WireType, wireVars
  <2>2. NoTask \in [to : Clients \cup {Nobody}, left : 0..(READ + BUFFER), reply : BOOLEAN]
    BY ServerAssumption DEF NoTask
  <2>3. BufferAfter \in Clients \cup {Nobody} /\ WatchAfter \in {"no", "IN_ET", "IN", "OUT"}
    BY DEF BufferAfter, WatchAfter, ServerType
  <2>4. ServerType'
    BY <1>6, <2>2, <2>3 DEF WriteDone, ServerType
  <2>5. QED
    BY <1>1, <2>1, <2>4
<1>7. QED
  BY <1>2, <1>3, <1>4, <1>5, <1>6

-----------------------------------------------------------------------------
(* The inductive invariant.  InHand: the server writes to, and has events  *)
(* of, connections it has not closed, one event of each, and the buffer is *)
(* in use only from a read to the end of its answer.  Untouched: before    *)
(* its first answer a connection has been sent nothing, so its client      *)
(* cannot have reset it; epoll watches exactly the open connections.       *)

InHand ==
  /\ pc # "write" => task = NoTask
  /\ pc = "write" => task.to \in Clients /\ link[task.to] = "open"
  /\ buffer # Nobody => pc = "write" /\ task.reply /\ buffer = task.to
  /\ pc = "wait" => batch = {}
  /\ \A e \in batch : e.fd \in Clients => link[e.fd] = "open"
  /\ \A e, f \in batch : e.fd = f.fd => e = f

Unanswered(c) == watch[c] = "IN_ET" \/ link[c] \in {"none", "queued"}

Untouched ==
  /\ \A c \in Clients :
       Unanswered(c) /\ c # task.to => outbox[c] = 0 /\ peer[c] # "reset"
  /\ \A c \in Clients : watch[c] = "no" <=> link[c] # "open"
  /\ \A c \in Clients : at[c] = "start" /\ listening => link[c] = "none"

Kept == InHand /\ Untouched /\ EdgeKept

(* What a client does: it resets only a connection that has been written   *)
(* to, and what it sends to one watched for edges is an edge.              *)
LEMMA ClientKept ==
  ASSUME TypeOK, Kept, NEW c \in Clients, Client(c)
  PROVE  Kept'
<1> USE DEF Kept
<1>1. UNCHANGED <<pc, watch, batch, first, buffer, task, skipped>>
  BY DEF Client
<1>2. \A d \in Clients : link'[d] # link[d] => link[d] = "none" /\ link'[d] = "queued" /\ listening
  BY DEF Client, ClientStep, Connect, ConnectRefused, TypeLine, SendLine, ReadReply,
     ReadNothing, Quit, LostServer, Crash, wireVars, Untouched, TypeOK, WireType
<1>3. \A d \in Clients : at'[d] = "start" => at[d] = "start" /\ link'[d] = link[d]
  BY DEF Client, ClientStep, Connect, ConnectRefused, TypeLine, SendLine, ReadReply,
     ReadNothing, Quit, LostServer, Crash, wireVars, TypeOK, WireType, ClientType
<1>4. listening' = listening
  BY DEF Client, ClientStep, Connect, ConnectRefused, TypeLine, SendLine, ReadReply,
     ReadNothing, Quit, LostServer, Crash, wireVars
<1>5. InHand'
  BY <1>1, <1>2 DEF InHand
<1>6. \A d \in Clients : outbox[d] = 0 => outbox'[d] = 0
  <2>1. CASE ReadReply(c)
    <3>1. outbox[c] \in Nat /\ MAX_LINE \in Nat
      BY WireAssumption, ClientAssumption DEF TypeOK, WireType
    <3>2. outbox[c] > 0
      BY <2>1, <3>1 DEF ReadReply, Smaller
    <3>3. \A d \in Clients : d # c => outbox'[d] = outbox[d]
      BY <2>1 DEF ReadReply, TypeOK, WireType
    <3>4. QED
      BY <3>2, <3>3
  <2>2. CASE ~ReadReply(c)
    BY <2>2 DEF Client, ClientStep, Connect, ConnectRefused, TypeLine, SendLine,
       ReadNothing, Quit, LostServer, Crash, wireVars, TypeOK, WireType
  <2>3. QED
    BY <2>1, <2>2
<1>7. \A d \in Clients : peer'[d] = "reset" => peer[d] = "reset" \/ outbox[d] # 0
  BY WireAssumption DEF Client, ClientStep, Connect, ConnectRefused, TypeLine, SendLine,
     ReadReply, ReadNothing, Quit, LostServer, Crash, wireVars, PeerAfterClose,
     TypeOK, WireType
<1>8. Untouched'
  BY <1>1, <1>2, <1>3, <1>4, <1>6, <1>7 DEF Untouched, Unanswered, TypeOK, WireType
<1>9. \A d \in Clients : inbox'[d] = inbox[d] \/ inbox'[d] > inbox[d]
  <2>1. CASE SendLine(c)
    <3>1. INPUT \in Nat /\ inbox[c] \in Nat /\ InCap - inbox[c] \in Nat
      BY ClientAssumption, WireAssumption DEF TypeOK, WireType
    <3>2. Smaller(INPUT, InCap - inbox[c]) \in Nat
      BY <3>1, SmallerRange
    <3>3. inbox'[c] = inbox[c] + Smaller(INPUT, InCap - inbox[c])
      BY <2>1 DEF SendLine, TypeOK, WireType
    <3>4. \A d \in Clients : d # c => inbox'[d] = inbox[d]
      BY <2>1 DEF SendLine, TypeOK, WireType
    <3>5. QED
      BY <3>1, <3>2, <3>3, <3>4
  <2>2. CASE ~SendLine(c)
    BY <2>2 DEF Client, ClientStep, Connect, ConnectRefused, TypeLine, ReadReply,
       ReadNothing, Quit, LostServer, Crash, wireVars
  <2>3. QED
    BY <2>1, <2>2
<1>10. EdgeKept'
  <2> SUFFICES ASSUME NEW d \in Clients \ skipped, watch[d] = "IN_ET", Readable(d)'
               PROVE  (d \in fresh \/ task.to = d \/ \E e \in batch : e.fd = d)'
    BY <1>1 DEF EdgeKept
  <2>1. link'[d] = "open" /\ link[d] = "open"
    BY <1>2 DEF Readable
  <2>2. CASE d \in Edges
    BY <2>2 DEF Client
  <2>3. CASE d \notin Edges
    <3>1. inbox'[d] = inbox[d] /\ peer'[d] = peer[d]
      BY <2>3, <1>9 DEF Edges
    <3>2. Readable(d)
      BY <2>1, <3>1 DEF Readable
    <3>3. d \in fresh \/ task.to = d \/ \E e \in batch : e.fd = d
      BY <3>2 DEF EdgeKept
    <3>4. QED
      BY <1>1, <3>3 DEF Client
  <2>4. QED
    BY <2>2, <2>3
<1>11. QED
  BY <1>5, <1>8, <1>10

(* An edge not reported yet is reported by the next epoll_wait.            *)
LEMMA WaitKept ==
  ASSUME TypeOK, Kept, Wait, UNCHANGED clientVars
  PROVE  Kept'
<1> USE DEF Kept
<1>1. UNCHANGED <<listening, link, peer, inbox, outbox, at, watch, buffer, task, skipped>>
  BY DEF Wait, wireVars, clientVars
<1>2. task = NoTask /\ task.to \notin Clients /\ buffer = Nobody
  BY ServerAssumption DEF InHand, Wait, NoTask
<1>3. \A e \in batch' : e.fd \in Clients => e = EventOf(e.fd) /\ Ready(e.fd)
  <2> SUFFICES ASSUME NEW e \in ReadyEvents, e.fd \in Clients
               PROVE  e = EventOf(e.fd) /\ Ready(e.fd)
    BY DEF Wait
  <2>1. e # [fd |-> Listen, events |-> "IN"]
    BY ServerAssumption
  <2>2. PICK d \in Clients : Ready(d) /\ e = EventOf(d)
    BY <2>1 DEF ReadyEvents
  <2>3. e.fd = d
    BY <2>2 DEF EventOf
  <2>4. QED
    BY <2>2, <2>3
<1>4. \A e \in batch' : e.fd \notin Clients => e = [fd |-> Listen, events |-> "IN"]
  BY DEF Wait, ReadyEvents, EventOf
<1>5. InHand'
  <2>1. \A e \in batch' : e.fd \in Clients => link[e.fd] = "open"
    BY <1>3 DEF Ready, Readable, Writable
  <2>2. \A e, f \in batch' : e.fd = f.fd => e = f
    BY <1>3, <1>4
  <2>3. QED
    BY <1>1, <1>2, <2>1, <2>2 DEF InHand, Wait
<1>6. Untouched'
  BY <1>1 DEF Untouched, Unanswered
<1>7. EdgeKept'
  <2> SUFFICES ASSUME NEW d \in Clients \ skipped, watch[d] = "IN_ET", Readable(d)
               PROVE  \E e \in batch' : e.fd = d
    BY <1>1 DEF EdgeKept, Readable
  <2>1. d \in fresh
    BY <1>2 DEF EdgeKept, InHand, Wait
  <2>2. Ready(d)
    BY <2>1 DEF Ready
  <2>3. EventOf(d) \in batch' /\ EventOf(d).fd = d
    BY <2>2 DEF Wait, ReadyEvents, EventOf
  <2>4. QED
    BY <2>3
<1>8. QED
  BY <1>5, <1>6, <1>7

(* Handling an event takes that event only, and the one misuse of it, as   *)
(* the listener's, is on record.                                           *)
LEMMA EventKept ==
  ASSUME TypeOK, Kept, UNCHANGED clientVars, NEW e \in batch,
         CallAccept(e) \/ ReadFails(e) \/ ReadEnd(e) \/ ReadSome(e) \/ WriteBuffer(e)
  PROVE  Kept'
<1> USE DEF Kept
<1>1. /\ Take(e) /\ task = NoTask /\ task.to \notin Clients /\ buffer = Nobody
      /\ e.fd \in Clients => link[e.fd] = "open"
  BY ServerAssumption DEF CallAccept, ReadFails, ReadEnd, ReadSome, WriteBuffer, Reads,
     Take, InHand, NoTask
<1>2. \A d \in Clients : (\E f \in batch : f.fd = d) /\ d # e.fd => \E f \in batch' : f.fd = d
  BY <1>1 DEF Take
<1>3. \A f \in batch' : f \in batch /\ f.fd # e.fd
  BY <1>1 DEF Take, InHand
<1>4. UNCHANGED <<listening, outbox, at>>
  BY DEF CallAccept, ReadFails, ReadEnd, ReadSome, WriteBuffer, wireVars, clientVars
<1>5. CASE CallAccept(e)
  <2>1. UNCHANGED <<link, peer, inbox, watch, fresh, buffer, task>> /\ pc' = "accept"
    BY <1>5 DEF CallAccept, wireVars
  <2>2. InHand'
    BY <1>1, <1>3, <2>1 DEF InHand
  <2>3. Untouched'
    BY <1>4, <2>1 DEF Untouched, Unanswered
  <2>4. e.fd \in Clients => e.fd \in skipped'
    BY <1>5, ServerAssumption DEF CallAccept
  <2>5. EdgeKept'
    BY <1>2, <1>5, <2>1, <2>4 DEF EdgeKept, Readable, CallAccept
  <2>6. QED
    BY <2>2, <2>3, <2>5
<1>6. CASE ReadFails(e)
  <2>1. UNCHANGED <<link, inbox, watch, fresh, buffer, task, skipped>>
    BY <1>6 DEF ReadFails
  <2>2. pc' = IF batch' = {} THEN "wait" ELSE "dispatch"
    BY <1>6 DEF ReadFails, Resume
  <2>3. InHand'
    BY <1>1, <1>3, <2>1, <2>2 DEF InHand
  <2>4. \A d \in Clients : peer'[d] = "reset" => peer[d] = "reset"
    BY <1>6 DEF ReadFails, TypeOK, WireType
  <2>5. Untouched'
    BY <1>4, <2>1, <2>4 DEF Untouched, Unanswered
  <2>6. e.fd \in Clients => watch[e.fd] # "IN_ET"
    BY <1>1, <1>6, ServerAssumption DEF ReadFails, Untouched, Unanswered
  <2>7. \A d \in Clients : d # e.fd => peer'[d] = peer[d]
    BY <1>6 DEF ReadFails, TypeOK, WireType
  <2>8. EdgeKept'
    BY <1>2, <2>1, <2>6, <2>7 DEF EdgeKept, Readable
  <2>9. QED
    BY <2>3, <2>5, <2>8
<1>7. CASE ReadEnd(e)
  <2>1. /\ UNCHANGED <<peer, inbox, buffer, task, skipped>>
        /\ e.fd \in Clients
        /\ link' = [link EXCEPT ![e.fd] = "dropped"]
        /\ watch' = [watch EXCEPT ![e.fd] = "no"]
        /\ fresh' = fresh \ {e.fd}
    BY <1>7 DEF ReadEnd
  <2>2. pc' = IF batch' = {} THEN "wait" ELSE "dispatch"
    BY <1>7 DEF ReadEnd, Resume
  <2>3. InHand'
    BY <1>1, <1>3, <2>1, <2>2 DEF InHand, TypeOK, WireType
  <2>4. Untouched'
    BY <1>1, <1>4, <2>1 DEF Untouched, Unanswered, TypeOK, WireType, ServerType
  <2>5. EdgeKept'
    BY <1>2, <2>1 DEF EdgeKept, Readable, TypeOK, WireType, ServerType
  <2>6. QED
    BY <2>3, <2>4, <2>5
<1>8. CASE ReadSome(e)
  <2>1. /\ UNCHANGED <<link, peer, watch, fresh, skipped>>
        /\ e.fd \in Clients
        /\ buffer' = e.fd /\ task'.to = e.fd /\ task'.reply /\ pc' = "write"
    BY <1>8 DEF ReadSome
  <2>2. InHand'
    BY <1>1, <1>3, <2>1 DEF InHand
  <2>3. Untouched'
    BY <1>1, <1>4, <2>1 DEF Untouched, Unanswered
  <2>4. \A d \in Clients : d # e.fd => inbox'[d] = inbox[d]
    BY <1>8 DEF ReadSome, TypeOK, WireType
  <2>5. EdgeKept'
    BY <1>1, <1>2, <2>1, <2>4 DEF EdgeKept, Readable
  <2>6. QED
    BY <2>2, <2>3, <2>5
<1>9. CASE WriteBuffer(e)
  <2>1. e.fd \in Clients
    BY <1>9 DEF WriteBuffer, TypeOK, ServerType, Event
  <2>2. /\ UNCHANGED <<link, peer, inbox, watch, fresh, buffer, skipped>>
        /\ task'.to = e.fd /\ pc' = "write"
    BY <1>9 DEF WriteBuffer, wireVars
  <2>3. InHand'
    BY <1>1, <1>3, <2>1, <2>2 DEF InHand
  <2>4. Untouched'
    BY <1>1, <1>4, <2>1, <2>2 DEF Untouched, Unanswered
  <2>5. EdgeKept'
    BY <1>1, <1>2, <2>2 DEF EdgeKept, Readable
  <2>6. QED
    BY <2>3, <2>4, <2>5
<1>10. QED
  BY <1>5, <1>6, <1>7, <1>8, <1>9

(* A connection is added with its edge; after an answer it is watched for  *)
(* room, later for levels, so that its edges no longer matter.             *)
LEMMA BlockingKept ==
  ASSUME TypeOK, Kept, UNCHANGED clientVars,
         \/ \E c \in Clients : AcceptConn(c) \/ AcceptRefused(c)
         \/ WriteSome \/ WriteLost \/ Sigpipe \/ WriteDone
  PROVE  Kept'
<1> USE DEF Kept
<1>1. UNCHANGED at
  BY DEF clientVars
<1>2. CASE \E c \in Clients : AcceptConn(c) \/ AcceptRefused(c)
  <2> PICK c \in Clients : AcceptConn(c) \/ AcceptRefused(c)
    BY <1>2
  <2>1. /\ UNCHANGED <<listening, peer, inbox, outbox, batch, first, buffer, task, skipped>>
        /\ pc = "accept" /\ pc' = IF batch = {} THEN "wait" ELSE "dispatch"
        /\ link[c] = "queued" /\ watch[c] = "no"
    BY DEF AcceptConn, AcceptRefused, Queued, Untouched
  <2>2. InHand'
    BY <2>1 DEF AcceptConn, AcceptRefused, InHand, TypeOK, WireType
  <2>3. Untouched'
    BY <1>1, <2>1 DEF AcceptConn, AcceptRefused, Untouched, Unanswered, TypeOK,
       WireType, ServerType
  <2>4. EdgeKept'
    BY <2>1 DEF AcceptConn, AcceptRefused, EdgeKept, Readable, TypeOK, WireType, ServerType
  <2>5. QED
    BY <2>2, <2>3, <2>4
<1>3. CASE WriteSome \/ WriteLost
  <2>1. /\ UNCHANGED <<listening, link, inbox, pc, watch, fresh, batch, buffer, skipped>>
        /\ pc = "write" /\ task'.to = task.to /\ task'.reply = task.reply
    BY <1>3 DEF WriteSome, WriteLost, TypeOK, ServerType
  <2>2. \A d \in Clients : d # task.to => outbox'[d] = outbox[d] /\ peer'[d] = peer[d]
    BY <1>3 DEF WriteSome, WriteLost, TypeOK, WireType
  <2>3. InHand'
    BY <2>1 DEF InHand
  <2>4. Untouched'
    BY <1>1, <2>1, <2>2 DEF Untouched, Unanswered
  <2>5. EdgeKept'
    BY <2>1, <2>2 DEF EdgeKept, Readable
  <2>6. QED
    BY <2>3, <2>4, <2>5
<1>4. CASE Sigpipe
  <2>1. /\ pc' = "killed" /\ ~listening' /\ batch' = {} /\ buffer' = Nobody
        /\ task' = NoTask /\ skipped' = skipped
        /\ \A d \in Clients : link'[d] = "dropped" /\ watch'[d] = "no"
    BY <1>4 DEF Sigpipe
  <2>2. InHand'
    BY <2>1 DEF InHand
  <2>3. Untouched'
    BY <2>1 DEF Untouched, Unanswered
  <2>4. EdgeKept'
    BY <2>1 DEF EdgeKept
  <2>5. QED
    BY <2>2, <2>3, <2>4
<1>5. CASE WriteDone
  <2>1. /\ UNCHANGED <<listening, link, peer, inbox, outbox, batch, skipped>>
        /\ pc' = IF batch = {} THEN "wait" ELSE "dispatch"
        /\ task' = NoTask /\ watch' = [watch EXCEPT ![task.to] = WatchAfter]
        /\ fresh' = fresh \ {task.to} /\ buffer' = BufferAfter
    BY <1>5 DEF WriteDone, wireVars
  <2>2. pc = "write" /\ task.to \in Clients /\ link[task.to] = "open"
    BY <1>5 DEF WriteDone, InHand
  <2>3. buffer' = Nobody
    BY <2>1 DEF BufferAfter, InHand
  <2>4. WatchAfter \in {"OUT", "IN"}
    BY DEF WatchAfter
  <2>5. InHand'
    BY <2>1, <2>3 DEF InHand
  <2>6. watch'[task.to] \in {"OUT", "IN"} /\ \A d \in Clients : d # task.to => watch'[d] = watch[d]
    BY <2>1, <2>2, <2>4 DEF TypeOK, ServerType
  <2>7. Untouched'
    BY <1>1, <2>1, <2>2, <2>6 DEF Untouched, Unanswered
  <2>8. EdgeKept'
    BY <2>1, <2>6 DEF EdgeKept, Readable
  <2>9. QED
    BY <2>5, <2>7, <2>8
<1>6. QED
  BY <1>2, <1>3, <1>4, <1>5

-----------------------------------------------------------------------------
LEMMA EpollInit == Init => TypeOK /\ Kept
<1> SUFFICES ASSUME Init PROVE TypeOK /\ Kept
  OBVIOUS
<1> USE DEF Init, WireInit, ServerInit, ClientInit
<1>1. WireType
  BY WireAssumption DEF WireType
<1>2. ServerType
  BY ServerAssumption DEF ServerType, NoTask
<1>3. ClientType
  BY DEF ClientType
<1>4. InHand
  BY DEF InHand
<1>5. Untouched
  BY DEF Untouched, Unanswered
<1>6. EdgeKept
  BY DEF EdgeKept
<1>7. QED
  BY <1>1, <1>2, <1>3, <1>4, <1>5, <1>6 DEF TypeOK, Kept

LEMMA EpollStep == TypeOK /\ Kept /\ [Next]_vars => (TypeOK /\ Kept)'
<1> SUFFICES ASSUME TypeOK, Kept, [Next]_vars PROVE (TypeOK /\ Kept)'
  OBVIOUS
<1>1. CASE \E c \in Clients : Client(c)
  BY <1>1, ClientTyped, ClientKept
<1>2. CASE Server
  <2>1. UNCHANGED clientVars
    BY <1>2 DEF Server
  <2>2. CASE Wait
    BY <2>1, <2>2, WaitTyped, WaitKept
  <2>3. CASE \E e \in batch : \/ CallAccept(e) \/ ReadFails(e) \/ ReadEnd(e)
                             \/ ReadSome(e) \/ WriteBuffer(e)
    BY <2>1, <2>3, EventTyped, EventKept
  <2>4. CASE \/ \E c \in Clients : AcceptConn(c) \/ AcceptRefused(c)
             \/ WriteSome \/ WriteLost \/ Sigpipe \/ WriteDone
    <3>1. pc = "write" => task.to \in Clients
      BY DEF Kept, InHand
    <3>2. QED
      BY <2>1, <2>4, <3>1, BlockingTyped, BlockingKept
  <2>5. QED
    BY <1>2, <2>2, <2>3, <2>4 DEF Server, ServerStep
<1>3. CASE UNCHANGED vars
  <2> USE <1>3 DEF vars, wireVars, serverVars, clientVars
  <2>1. WireType'
    BY DEF TypeOK, WireType
  <2>2. ServerType'
    BY DEF TypeOK, ServerType, Event
  <2>3. ClientType'
    BY DEF TypeOK, ClientType
  <2>4. InHand'
    BY DEF Kept, InHand
  <2>5. Untouched'
    BY DEF Kept, Untouched, Unanswered
  <2>6. EdgeKept'
    BY DEF Kept, EdgeKept, Readable
  <2>7. QED
    BY <2>1, <2>2, <2>3, <2>4, <2>5, <2>6 DEF TypeOK, Kept
<1>4. QED
  BY <1>1, <1>2, <1>3 DEF Next

(* The buffer a client is sent is its own or zeroed, whatever the server   *)
(* has read in between.                                                    *)
THEOREM EchoPrivateSafe == Spec => []EchoPrivate
<1>1. Kept => EchoPrivate
  BY DEF Kept, InHand, EchoPrivate
<1>2. QED
  BY <1>1, EpollInit, EpollStep, PTL DEF Spec

(* Edge triggering loses nothing but what the first-entry test takes for   *)
(* the listener's.                                                         *)
THEOREM EdgeSafe == Spec => []EdgeKept
<1>1. Kept => EdgeKept
  BY DEF Kept
<1>2. QED
  BY <1>1, EpollInit, EpollStep, PTL DEF Spec

(* The state of both programs and of the wire stays in type: no queue      *)
(* overflows and no write has more left than it started with.              *)
THEOREM EpollTypeCorrect == Spec => []TypeOK
<1>1. QED
  BY EpollInit, EpollStep, PTL DEF Spec

=============================================================================
