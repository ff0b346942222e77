------------------------------ MODULE MCReactor ------------------------------
(* Instances of the reactor for TLC. *)
EXTENDS ReactorService, TLC

ConnSymmetry == Permutations(Conns)

AnyIndex == {-1} \cup 0..MAX_EVENTS     \* -1 stands for every wild index
InTable == 0..MAX_EVENTS
ClientIndex == 0..(MAX_EVENTS - 1)

(* Prune what follows a clobbered slot, for promises that end there. *)
Unclobbered == ~clobbered
=============================================================================
