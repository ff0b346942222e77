------------------------------- MODULE MCParts -------------------------------
(* Instances of the smaller parts for TLC: a second of four microseconds. *)
EXTENDS EventParts

MCStart == [sec : 0 .. 1, usec : 0 .. Million - 1]
==============================================================================
