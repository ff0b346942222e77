------------------------------ MODULE EpollDemo ------------------------------
(* The two programs of src/src/epollDemo together. *)
EXTENDS EpollServer, EpollClient

vars == <<wireVars, serverVars, clientVars>>

Init == WireInit /\ ServerInit /\ ClientInit

(* Bytes and ends of file that reach a watched connection are edges. *)
Edges ==
  {c \in Clients : watch[c] = "IN_ET" /\ (inbox'[c] > inbox[c] \/ peer'[c] # peer[c])}

Server == ServerStep /\ UNCHANGED clientVars

Client(c) ==
  /\ ClientStep(c)
  /\ fresh' = fresh \cup Edges
  /\ UNCHANGED <<pc, watch, batch, first, buffer, task, skipped>>

Next == Server \/ \E c \in Clients : Client(c)

Spec == Init /\ [][Next]_vars

(* Both programs are scheduled, and users go on typing; a user may end the *)
(* input at any time but need not.                                         *)
FairSpec ==
  /\ Spec
  /\ WF_vars(Server)
  /\ \A c \in Clients :
       WF_vars(Client(c) /\ (TypeLine(c) \/ SendLine(c) \/ ReadReply(c) \/ LostServer(c)))

-----------------------------------------------------------------------------
TypeOK == WireType /\ ServerType /\ ClientType

(* No client is ever sent another one's bytes: the second write, of the    *)
(* whole buffer, finds it zeroed, in spite of the answers in between.      *)
EchoPrivate == pc = "write" => buffer \in {Nobody, task.to}

(* A new connection is watched for edges only, and is read once for each:  *)
(* as long as none of its events is taken for the listener's, unread bytes *)
(* are always still to be reported, in hand, or being answered.            *)
EdgeKept ==
  \A c \in Clients \ skipped :
    watch[c] = "IN_ET" /\ Readable(c) =>
      c \in fresh \/ task.to = c \/ \E e \in batch : e.fd = c

(* The server sleeps in a call that only another client can end: an accept *)
(* with nobody queued, a write to one that takes no more.                  *)
Blocked ==
  \/ pc = "accept" /\ Queued = {}
  \/ pc = "write" /\ task.left > 0 /\ peer[task.to] = "open" /\ Room(task.to) = 0

(* What a client sends is answered, unless an event of its own was taken   *)
(* for the listener's, or its connection request for another client's      *)
(* event; unless it leaves its replies unread until the kernel takes no    *)
(* more of them, or the server has gone to sleep for ever.                 *)
Answered ==
  \A c \in Clients :
    inbox[c] > 0 ~> \/ task.to = c \/ Room(c) = 0 \/ link[c] = "dropped"
                    \/ c \in skipped \/ (link[c] = "queued" /\ first \in Clients)
                    \/ []Blocked

(* main: "if fd == listen_fd", then accept.                                *)
AcceptsForListener ==
  [][pc = "dispatch" /\ pc' = "accept" => \E e \in batch \ batch' : e.fd = Listen]_vars

(* The client's main: "keeps reading strings from the standard input".     *)
KeepsReading ==
  \A c \in Clients : at[c] = "send" ~> at[c] # "send"

=============================================================================
