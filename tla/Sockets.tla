------------------------------- MODULE Sockets -------------------------------
(***************************************************************************)
(* The world outside the servers of src/: the descriptor table of one      *)
(* server process, its epoll interest list (level triggered), and the TCP  *)
(* connections of its clients.  None of this is code of the repository; it *)
(* is modelled from the calls src/src/reactor/reactorServer.cpp makes      *)
(* (accept, recv, send, close, epoll_ctl, epoll_wait) and from what it     *)
(* does with their results.                                                *)
(*                                                                         *)
(* Byte contents are abstracted to byte counts.  Time is abstracted to     *)
(* ages that saturate at TIMEOUT, the only value they are compared with.   *)
(***************************************************************************)
EXTENDS Integers, FiniteSets

CONSTANTS
  Conns,      \* the clients; each has at most one connection at a time
  Fds,        \* the descriptor numbers the process may be given
  ListenFd,   \* the number of the listening socket
  Listener,   \* what ListenFd refers to in the descriptor table
  Free,       \* marks a number that is not open
  TIMEOUT,    \* seconds of silence after which the server drops a client
  InboxCap    \* bound: unread bytes the kernel keeps for one connection

ASSUME SocketsAssumption ==
  /\ Fds \subseteq Nat \ {0}          \* 0, 1 and 2 are the standard streams
  /\ ListenFd \in Fds
  /\ Listener \notin Conns /\ Free \notin Conns /\ Listener # Free
  /\ TIMEOUT \in Nat \ {0}
  /\ InboxCap \in Nat \ {0}

VARIABLES
  fdt,        \* descriptor number -> connection, Listener or Free
  interest,   \* epoll interest list: a set of items [fd, events, slot]
  backlog,    \* connections established but not yet accepted
  sock        \* connection -> its TCP state

socketVars == <<fdt, interest, backlog, sock>>

Directions == {"IN", "OUT"}

(* peer: what the client did last; inbox: bytes the server has not read;   *)
(* full: the socket's send buffer has no room; idle: time since the client *)
(* last sent anything, the silence the timeout is about.                   *)
Socket == [peer : {"gone", "open", "fin", "reset"}, inbox : 0..InboxCap,
           full : BOOLEAN, idle : 0..TIMEOUT]

GoneSocket == [peer |-> "gone", inbox |-> 0, full |-> FALSE, idle |-> 0]

Older(age) == IF age < TIMEOUT THEN age + 1 ELSE age

-----------------------------------------------------------------------------
(* System calls, as values of the state they leave behind. *)

IsConn(fd) == fd \in Fds /\ fdt[fd] \in Conns

FreeFds == {fd \in Fds : fdt[fd] = Free}

(* The kernel hands out the lowest free number. *)
LowestFree(fd) == fd \in FreeFds /\ \A other \in FreeFds : fd <= other

Acceptable(lfd) == fdt[lfd] = Listener /\ backlog # {} /\ FreeFds # {}

(* EPOLL_CTL_ADD fails (EEXIST, EBADF) and then changes nothing. *)
EpollAdd(list, item) ==
  IF fdt[item.fd] # Free /\ \A i \in list : i.fd # item.fd
  THEN list \cup {item}
  ELSE list

(* EPOLL_CTL_MOD fails (ENOENT) on a number that is not in the list. *)
EpollMod(list, item) ==
  IF \E i \in list : i.fd = item.fd
  THEN {i \in list : i.fd # item.fd} \cup {item}
  ELSE list

EpollDel(list, fd) == {i \in list : i.fd # fd}

(* close() of the last reference also takes the number off every epoll     *)
(* list; close() of a number that is not open (EBADF) does nothing.        *)
ClosedTable(fds) == [fd \in Fds |-> IF fd \in fds THEN Free ELSE fdt[fd]]

ClosedSocks(fds) ==
  [c \in Conns |-> IF \E fd \in fds : IsConn(fd) /\ fdt[fd] = c
                   THEN GoneSocket ELSE sock[c]]

ClosedList(list, fds) == {i \in list : i.fd \notin fds}

(* What recv(fd, buf, size) returns: unread bytes first, then end of file, *)
(* then an error (EAGAIN, ECONNRESET, EBADF).                              *)
RecvResult(fd, size) ==
  IF ~IsConn(fd) THEN -1
  ELSE LET k == sock[fdt[fd]] IN
       IF k.inbox > 0 THEN (IF k.inbox < size THEN k.inbox ELSE size)
       ELSE IF k.peer = "fin" THEN 0 ELSE -1

(* What send(fd, buf, len) may return: the whole length, a part of it when *)
(* the buffer fills up, 0 for an empty message, or an error.               *)
SendResults(fd, len) ==
  IF ~IsConn(fd) THEN {-1}
  ELSE LET k == sock[fdt[fd]] IN
       IF k.peer = "reset" \/ (k.full /\ len > 0) THEN {-1}
       ELSE IF len = 0 THEN {0} ELSE 1..len

(* send() to a connection the peer has reset may raise SIGPIPE instead of  *)
(* returning: the call passes no MSG_NOSIGNAL.                             *)
MayRaiseSigpipe(fd) == IsConn(fd) /\ sock[fdt[fd]].peer = "reset"

(* An item epoll_wait would report.  The listening socket is readable when *)
(* a connection waits to be accepted; a connection is readable when it has *)
(* bytes or has ended, writable when it has room or was reset.             *)
Readable(fd) ==
  \/ fdt[fd] = Listener /\ backlog # {}
  \/ IsConn(fd) /\ \/ sock[fdt[fd]].inbox > 0
                   \/ sock[fdt[fd]].peer \in {"fin", "reset"}

Writable(fd) ==
  IsConn(fd) /\ (~sock[fdt[fd]].full \/ sock[fdt[fd]].peer = "reset")

ReadyItems ==
  {i \in interest : IF i.events = "IN" THEN Readable(i.fd) ELSE Writable(i.fd)}

(* The batches epoll_wait(.., maxevents, ..) may return: every ready item, *)
(* or any maxevents of them when there are more.                           *)
Batches(maxevents) ==
  {b \in SUBSET ReadyItems :
     \/ b = ReadyItems /\ Cardinality(b) <= maxevents
     \/ Cardinality(b) = maxevents}

(* The process is gone: the kernel closes all it had open. *)
Exit ==
  /\ fdt' = [fd \in Fds |-> Free]
  /\ interest' = {}
  /\ backlog' = {}
  /\ sock' = [c \in Conns |-> GoneSocket]

-----------------------------------------------------------------------------
(* The clients. *)

Connect(c) ==
  /\ sock[c].peer = "gone"
  /\ fdt[ListenFd] = Listener         \* refused when nobody listens
  /\ sock' = [sock EXCEPT ![c] = [GoneSocket EXCEPT !.peer = "open"]]
  /\ backlog' = backlog \cup {c}
  /\ UNCHANGED <<fdt, interest>>

ClientSend(c, n) ==
  /\ sock[c].peer = "open"
  /\ sock[c].inbox + n <= InboxCap
  /\ sock' = [sock EXCEPT ![c].inbox = @ + n, ![c].idle = 0]
  /\ UNCHANGED <<fdt, interest, backlog>>

(* The client reads its replies, so the server's send buffer has room. *)
ClientDrain(c) ==
  /\ sock[c].peer \in {"open", "fin"}
  /\ sock[c].full
  /\ sock' = [sock EXCEPT ![c].full = FALSE]
  /\ UNCHANGED <<fdt, interest, backlog>>

ClientFin(c) ==
  /\ sock[c].peer = "open"
  /\ sock' = [sock EXCEPT ![c].peer = "fin"]
  /\ UNCHANGED <<fdt, interest, backlog>>

ClientReset(c) ==
  /\ sock[c].peer \in {"open", "fin"}
  /\ sock' = [sock EXCEPT ![c].peer = "reset"]
  /\ UNCHANGED <<fdt, interest, backlog>>

Client(c) ==
  \/ Connect(c)
  \/ \E n \in 1..InboxCap : ClientSend(c, n)
  \/ ClientDrain(c)
  \/ ClientFin(c)
  \/ ClientReset(c)

(* A second passes for every client. *)
SocketTick ==
  /\ sock' = [c \in Conns |-> IF sock[c].peer = "gone" THEN sock[c]
                              ELSE [sock[c] EXCEPT !.idle = Older(@)]]
  /\ UNCHANGED <<fdt, interest, backlog>>

=============================================================================
