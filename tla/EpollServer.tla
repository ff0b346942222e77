----------------------------- MODULE EpollServer -----------------------------
(***************************************************************************)
(* src/src/epollDemo/epollServer.cpp: one loop over epoll_wait, which reads *)
(* a few bytes, answers them in upper case, and answers once more with the *)
(* whole buffer when the connection is writable.                           *)
(*                                                                         *)
(* A step ends wherever the server can block: in epoll_wait, in accept, in *)
(* write.  A connection is registered for one direction at a time, so an   *)
(* event is of one direction.                                              *)
(***************************************************************************)
EXTENDS EpollWire

CONSTANTS
  Listen,   \* listen_fd
  Nobody,   \* the owner of a zeroed buffer
  READ,     \* bytes one read takes (5)
  BUFFER    \* sizeof(buffer) (4096)

ASSUME ServerAssumption ==
  /\ Listen \notin Clients /\ Nobody \notin Clients
  /\ READ \in Nat \ {0} /\ BUFFER \in Nat \ {0}

VARIABLES
  pc,       \* wait, dispatch, accept, write, or killed by SIGPIPE
  watch,    \* connection -> how epoll watches it: no, IN_ET, IN, OUT
  fresh,    \* connections with an edge epoll has not reported
  batch,    \* events not handled yet
  first,    \* my_event->data.fd
  buffer,   \* whose bytes the buffer holds
  task,     \* the write in hand: to whom, how many bytes are left, and
            \* whether it is the answer or the second write
  skipped   \* history: clients whose event was taken for the listener's

serverVars == <<pc, watch, fresh, batch, first, buffer, task, skipped>>

Event == [fd : Clients, events : {"IN", "OUT"}] \cup [fd : {Listen}, events : {"IN"}]

NoTask == [to |-> Nobody, left |-> 0, reply |-> FALSE]

ServerInit ==
  /\ pc = "wait"
  /\ watch = [c \in Clients |-> "no"]
  /\ fresh = {}
  /\ batch = {}
  /\ first = Listen
  /\ buffer = Nobody
  /\ task = NoTask
  /\ skipped = {}

ServerType ==
  /\ pc \in {"wait", "dispatch", "accept", "write", "killed"}
  /\ watch \in [Clients -> {"no", "IN_ET", "IN", "OUT"}]
  /\ fresh \subseteq Clients
  /\ batch \subseteq Event
  /\ first \in Clients \cup {Listen}
  /\ buffer \in Clients \cup {Nobody}
  /\ task \in [to : Clients \cup {Nobody}, left : 0..(READ + BUFFER), reply : BOOLEAN]
  /\ skipped \subseteq Clients

(* Level triggered while the condition lasts, edge triggered once. *)
Ready(c) ==
  \/ watch[c] = "IN" /\ Readable(c)
  \/ watch[c] = "IN_ET" /\ Readable(c) /\ c \in fresh
  \/ watch[c] = "OUT" /\ Writable(c)

EventOf(c) == [fd |-> c, events |-> IF watch[c] = "OUT" THEN "OUT" ELSE "IN"]

ReadyEvents ==
  {EventOf(c) : c \in {d \in Clients : Ready(d)}}
  \cup (IF Queued = {} THEN {} ELSE {[fd |-> Listen, events |-> "IN"]})

Wait ==
  /\ pc = "wait"
  /\ ReadyEvents # {}                     \* the timeout is -1
  /\ batch' = ReadyEvents
  /\ first' \in {e.fd : e \in ReadyEvents}
  /\ fresh' = fresh \ {e.fd : e \in ReadyEvents}
  /\ pc' = "dispatch"
  /\ UNCHANGED <<wireVars, watch, buffer, task, skipped>>

(* The entries are handled in the array's order: the first one first. *)
Take(e) ==
  /\ pc = "dispatch"
  /\ e \in batch
  /\ (\E f \in batch : f.fd = first) => e.fd = first
  /\ batch' = batch \ {e}
  /\ UNCHANGED first

Resume == pc' = IF batch' = {} THEN "wait" ELSE "dispatch"

(* my_event->data.fd for my_event[i].data.fd *)
IsListener(e) == first = Listen

(* accept on a blocking socket; its own step below. *)
CallAccept(e) ==
  /\ Take(e)
  /\ IsListener(e)
  /\ pc' = "accept"
  /\ skipped' = skipped \cup ({e.fd} \ {Listen})
  /\ UNCHANGED <<wireVars, watch, fresh, buffer, task>>

AcceptConn(c) ==
  /\ pc = "accept"
  /\ c \in Queued
  /\ link' = [link EXCEPT ![c] = "open"]
  /\ watch' = [watch EXCEPT ![c] = "IN_ET"]
  /\ fresh' = fresh \cup {c}              \* what is there already is an edge
  /\ pc' = IF batch = {} THEN "wait" ELSE "dispatch"
  /\ UNCHANGED <<listening, peer, inbox, outbox, batch, first, buffer, task, skipped>>

(* client_len is never set: the kernel may refuse it and drop what it took. *)
AcceptRefused(c) ==
  /\ pc = "accept"
  /\ c \in Queued
  /\ link' = [link EXCEPT ![c] = "dropped"]
  /\ pc' = IF batch = {} THEN "wait" ELSE "dispatch"
  /\ UNCHANGED <<listening, peer, inbox, outbox, watch, fresh, batch, first, buffer, task, skipped>>

Reads(e) == Take(e) /\ ~IsListener(e) /\ e.events = "IN"

(* read on listen_fd, or a reset: n < 0, continue.  The reset is reported  *)
(* once; the next read finds the end of file.                              *)
ReadFails(e) ==
  /\ Reads(e)
  /\ \/ e.fd = Listen /\ UNCHANGED peer
     \/ /\ e.fd # Listen
        /\ inbox[e.fd] = 0 /\ peer[e.fd] = "reset"
        /\ peer' = [peer EXCEPT ![e.fd] = "fin"]
  /\ Resume
  /\ UNCHANGED <<listening, link, inbox, outbox, watch, fresh, buffer, task, skipped>>

ReadEnd(e) ==
  /\ Reads(e)
  /\ e.fd \in Clients /\ inbox[e.fd] = 0 /\ peer[e.fd] = "fin"
  /\ link' = [link EXCEPT ![e.fd] = "dropped"]
  /\ watch' = [watch EXCEPT ![e.fd] = "no"]
  /\ fresh' = fresh \ {e.fd}
  /\ Resume
  /\ UNCHANGED <<listening, peer, inbox, outbox, buffer, task, skipped>>

(* The answer is strlen(buffer) bytes: less than was read when a byte of   *)
(* it is NUL.                                                              *)
ReadSome(e) ==
  /\ Reads(e)
  /\ e.fd \in Clients /\ inbox[e.fd] > 0
  /\ LET n == Smaller(inbox[e.fd], READ) IN
       /\ inbox' = [inbox EXCEPT ![e.fd] = @ - n]
       /\ \E strlen \in 0..n :
            task' = [to |-> e.fd, left |-> strlen, reply |-> TRUE]
  /\ buffer' = e.fd
  /\ pc' = "write"
  /\ UNCHANGED <<listening, link, peer, outbox, watch, fresh, skipped>>

(* EPOLLOUT: the whole buffer, whatever is in it. *)
WriteBuffer(e) ==
  /\ Take(e)
  /\ ~IsListener(e)
  /\ e.events = "OUT"
  /\ task' = [to |-> e.fd, left |-> BUFFER, reply |-> FALSE]
  /\ pc' = "write"
  /\ UNCHANGED <<wireVars, watch, fresh, buffer, skipped>>

-----------------------------------------------------------------------------
(* write on a blocking socket. *)

Left_Whole(n) == task.left - BUFFER            \* slip: always sizeof(buffer)

Left(n) == task.left - n

WriteSome ==
  LET n == Smaller(task.left, Room(task.to))
  IN /\ pc = "write"
     /\ n > 0 /\ peer[task.to] = "open"
     /\ outbox' = [outbox EXCEPT ![task.to] = @ + n]
     /\ task' = [task EXCEPT !.left = Left(n)]
     /\ UNCHANGED <<listening, link, peer, inbox, pc, watch, fresh, batch, first, buffer, skipped>>

(* The client is gone: it answers with a reset, and what is written after  *)
(* one fails, which nothing looks at, or raises SIGPIPE.                   *)
WriteLost ==
  /\ pc = "write"
  /\ task.left > 0 /\ peer[task.to] # "open"
  /\ peer' = [peer EXCEPT ![task.to] = "reset"]
  /\ task' = [task EXCEPT !.left = 0]
  /\ UNCHANGED <<listening, link, inbox, outbox, pc, watch, fresh, batch, first, buffer, skipped>>

Sigpipe ==
  /\ pc = "write"
  /\ task.left > 0 /\ peer[task.to] = "reset"
  /\ pc' = "killed"
  /\ listening' = FALSE
  /\ link' = [c \in Clients |-> "dropped"]
  /\ watch' = [c \in Clients |-> "no"]
  /\ fresh' = {} /\ batch' = {} /\ buffer' = Nobody /\ task' = NoTask
  /\ UNCHANGED <<peer, inbox, outbox, first, skipped>>

BufferAfter_Kept == buffer                     \* slip: memset forgotten

BufferAfter == IF task.reply THEN Nobody ELSE buffer

WatchAfter_AsBefore ==                         \* slip: no MOD after an answer
  IF task.reply THEN watch[task.to] ELSE "IN"

WatchAfter == IF task.reply THEN "OUT" ELSE "IN"

(* write has returned: memset after the answer, then EPOLL_CTL_MOD. *)
WriteDone ==
  /\ pc = "write"
  /\ task.left = 0
  /\ buffer' = BufferAfter
  /\ watch' = [watch EXCEPT ![task.to] = WatchAfter]
  /\ fresh' = fresh \ {task.to}           \* edges no longer matter
  /\ task' = NoTask
  /\ pc' = IF batch = {} THEN "wait" ELSE "dispatch"
  /\ UNCHANGED <<wireVars, batch, first, skipped>>

ServerStep ==
  \/ Wait
  \/ \E e \in batch : CallAccept(e) \/ ReadFails(e) \/ ReadEnd(e) \/ ReadSome(e)
                      \/ WriteBuffer(e)
  \/ \E c \in Clients : AcceptConn(c) \/ AcceptRefused(c)
  \/ WriteSome \/ WriteLost \/ Sigpipe \/ WriteDone

=============================================================================
