------------------------------- MODULE MCBuffer -------------------------------
(* Instances of the bufferevent callbacks for TLC. *)
EXTENDS BufferCallbacks, FiniteSets

CONSTANTS d1, u1, p1, f1, m1, MaxReceived

MCBevs == Drains \union Uppers \union Proxies \union Fibs \union Demos
MCSet  == ((Drains \union Uppers \union Proxies) \X {"read"})
             \union (Fibs \X {"write"}) \union (Drains \X {"event"})

(* No callback touches a bufferevent but its own, so two in use at a time  *)
(* are enough.  The histories are bounded; so is the output nobody takes.  *)
MCInUse == {b \in Bevs : bev[b] # Unused}

MCBounded ==
  /\ Cardinality(MCInUse) <= 2
  /\ \A b \in Bevs : /\ received[b] <= MaxReceived /\ made[b] <= MaxMade
                     /\ bev[b].output <= MaxReceived + Chunk
==============================================================================
