------------------------------- MODULE MCHeap --------------------------------
(* Instances of MinHeap for TLC. *)
EXTENDS MinHeap

CONSTANTS e1, e2, e3

MCTimeouts == {[sec |-> 0, usec |-> 1], [sec |-> 1, usec |-> 0]}
MCThree    == {e1, e2, e3}
MCAny      == {e1, NoEvent}

(* Little is promised after n has gone below zero: one way there, for two  *)
(* events, an array of the first size and the holes next to it.            *)
MCBelow    == below => /\ n = Wrap - 1 /\ a = FirstCap /\ idx[e3] = -1
                       /\ call.hole <= 2 * FirstCap + 1

(* One of the events always has the earlier timeout; with any for the two  *)
(* others each order of parent, child and sibling happens.                 *)
MCEarly    == timeout[e2].sec = 0

MCCounted  == MCBelow /\ MCEarly
==============================================================================
