----------------------------- MODULE EchoService -----------------------------
(***************************************************************************)
(* What an echo service promises its clients, without slots, descriptor    *)
(* numbers or epoll.  A connection waits to be admitted; once admitted it  *)
(* takes turns: the service reads a request, then replies to it, and never *)
(* reads the next one before.  At most Places connections are admitted.    *)
(* One the service turns away is left to itself: it is neither served nor  *)
(* told (reactorServer.cpp prints "max connect limit" and does no more).   *)
(*                                                                         *)
(* The service may also lose track of its connections, after which it      *)
(* promises nothing, or go down, which ends all of them.                   *)
(***************************************************************************)
EXTENDS Integers, FiniteSets

CONSTANTS
  Conns,    \* the clients
  Places    \* how many connections are served at a time

VARIABLES
  stage,    \* connection -> absent, waiting, reading, replying or stranded
  mode      \* sound, lost or down

vars == <<stage, mode>>

Admitted == {c \in Conns : stage[c] \in {"reading", "replying"}}

Init == stage = [c \in Conns |-> "absent"] /\ mode = "sound"

Move(c, from, to) ==
  /\ stage[c] = from
  /\ stage' = [stage EXCEPT ![c] = to]
  /\ UNCHANGED mode

Arrive(c) == Move(c, "absent", "waiting")

Admit(c) == Move(c, "waiting", "reading") /\ Cardinality(Admitted) < Places

Strand(c) == Move(c, "waiting", "stranded")

Request(c) == Move(c, "reading", "replying")

Reply(c) == Move(c, "replying", "reading")

(* The service ends connections, several at once when their time is out.   *)
Drop ==
  /\ mode = "sound"
  /\ \E cs \in (SUBSET Admitted) \ {{}} :
       stage' = [c \in Conns |-> IF c \in cs THEN "absent" ELSE stage[c]]
  /\ UNCHANGED mode

Cease ==
  /\ mode = "sound"
  /\ mode' \in {"lost", "down"}
  /\ stage' = [c \in Conns |-> "absent"]

Next ==
  \/ /\ mode = "sound"
     /\ \E c \in Conns :
          Arrive(c) \/ Admit(c) \/ Strand(c) \/ Request(c) \/ Reply(c)
  \/ Drop
  \/ Cease

Spec == Init /\ [][Next]_vars

=============================================================================
