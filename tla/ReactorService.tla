--------------------------- MODULE ReactorService ---------------------------
(* The reactor implements the echo service of EchoService.tla. *)
EXTENDS ReactorProperties

Mode == IF clobbered THEN "lost" ELSE IF Running THEN "sound" ELSE "down"

(* A slot that waits for input reads the next request of its connection.   *)
Stage(c) ==
  IF Mode # "sound" THEN "absent"
  ELSE IF c \in backlog THEN "waiting"
  ELSE IF \E s \in ClientSlots : Holds(s, c)
       THEN IF \E s \in ClientSlots : Holds(s, c) /\ g_events[s].call_back = "recvdata"
            THEN "reading" ELSE "replying"
  ELSE IF sock[c].peer # "gone" THEN "stranded" ELSE "absent"

Service ==
  INSTANCE EchoService WITH Places <- MAX_EVENTS, mode <- Mode,
                            stage <- [c \in Conns |-> Stage(c)]

(* Every step of the event loop, with its sweeps of several slots and its  *)
(* batches of stale events, is a step of the service or none that a client *)
(* could tell: requests and replies alternate, no connection is served     *)
(* over capacity, and one that is turned away never comes back.            *)
ServiceKept == Service!Spec
=============================================================================
