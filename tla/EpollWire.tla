------------------------------ MODULE EpollWire ------------------------------
(***************************************************************************)
(* What lies between the two programs of src/src/epollDemo: the connection *)
(* of each client, with the bytes on their way in both directions.  Unlike *)
(* in Sockets the server's calls on it block; whether the client's do is a *)
(* parameter of EpollClient.                                               *)
(*                                                                         *)
(* The server closes a number only while it handles that number's event,   *)
(* so no event in hand ever names a number given to another connection and *)
(* a connection stands for its number.                                     *)
(***************************************************************************)
EXTENDS Integers, FiniteSets

CONSTANTS
  Clients,   \* the client processes; each connects once
  InCap,     \* bytes the kernel keeps for the server
  OutCap     \* bytes the kernel keeps for the client

ASSUME WireAssumption == InCap \in Nat \ {0} /\ OutCap \in Nat \ {0}

VARIABLES
  listening, \* whether there is a server to connect to
  link,      \* the server's end: none, queued for accept, open, dropped
  peer,      \* the client's end: open, fin (closed), reset
  inbox,     \* bytes the server has not read
  outbox     \* bytes the client has not read

wireVars == <<listening, link, peer, inbox, outbox>>

WireInit ==
  /\ listening = TRUE
  /\ link = [c \in Clients |-> "none"]
  /\ peer = [c \in Clients |-> "open"]
  /\ inbox = [c \in Clients |-> 0]
  /\ outbox = [c \in Clients |-> 0]

WireType ==
  /\ listening \in BOOLEAN
  /\ link \in [Clients -> {"none", "queued", "open", "dropped"}]
  /\ peer \in [Clients -> {"open", "fin", "reset"}]
  /\ inbox \in [Clients -> 0..InCap]
  /\ outbox \in [Clients -> 0..OutCap]

Queued == {c \in Clients : link[c] = "queued"}

Readable(c) == link[c] = "open" /\ (inbox[c] > 0 \/ peer[c] # "open")

Room(c) == OutCap - outbox[c]

Writable(c) == link[c] = "open" /\ (Room(c) > 0 \/ peer[c] = "reset")

Smaller(a, b) == IF a < b THEN a ELSE b

(* close() by a client: unread bytes turn the FIN into a reset. *)
PeerAfterClose(c) == IF outbox[c] > 0 THEN "reset" ELSE "fin"

=============================================================================
