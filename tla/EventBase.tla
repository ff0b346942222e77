------------------------------ MODULE EventBase ------------------------------
(***************************************************************************)
(* struct event_base and struct event, and the loop of libevent that works *)
(* on them.  The structures are in src/event2; the loop is not in the      *)
(* repository and is modelled as far as the demos and the macros of        *)
(* event.h use it: one priority, one thread, no flags.  Active events run  *)
(* in any order.                                                           *)
(***************************************************************************)
EXTENDS Integers

CONSTANT Evs                \* struct event

VARIABLES ev_events,        \* what each waits for: read, write, signal; persist
          Interval,         \* the timeout it is added with; 0 for none
          base, ev,
          ready             \* events whose descriptors are ready, signals caught

Whats  == {"timeout", "read", "write", "signal"}
Flags  == {"timeout", "inserted", "active"}      \* EVLIST_...
Events == [flags : SUBSET Flags, left : Nat, res : SUBSET Whats]

(* event_gotterm, event_break, and where the loop is: out, top, wait, run. *)
NewBase  == [gotterm |-> FALSE, broken |-> FALSE, at |-> "out"]
NewEvent == [flags |-> {}, left |-> 0, res |-> {}]

BaseInit == /\ base = NewBase
            /\ ev = [e \in Evs |-> NewEvent]
            /\ ready = {}

Fds(e)     == ev_events[e] \ {"persist"}
Pending(e) == ev[e].flags \intersect {"timeout", "inserted"} # {}
Active     == {e \in Evs : "active" \in ev[e].flags}
Triggered  == {e \in ready : "inserted" \in ev[e].flags}
Expired    == {e \in Evs : "timeout" \in ev[e].flags /\ ev[e].left = 0}

(* event_add with a timeout, or without one, which leaves what it has. *)
AddFlags(e, tv) == {f \in {"inserted"} : Fds(e) # {}} \union {f \in {"timeout"} : tv > 0}
Added(e, tv)    == [ev EXCEPT ![e].flags = @ \union AddFlags(e, tv),
                              ![e].left = IF tv > 0 THEN tv ELSE @]

(* event_base_dispatch starts: what ended the loop before is forgotten. *)
Entered == [gotterm |-> FALSE, broken |-> FALSE, at |-> "top"]

Leaves == /\ base.at = "top"
          /\ base.gotterm \/ base.broken \/ (Active = {} /\ \A e \in Evs : ~Pending(e))

LoopTop == /\ base.at = "top" /\ ~Leaves
           /\ base' = [base EXCEPT !.at = "wait"]
           /\ UNCHANGED <<ev, ready>>

(* The loop sleeps until something is active; a timer that expires is no   *)
(* longer pending, and a signal is told of once.                           *)
LoopWait ==
  /\ base.at = "wait" /\ Active \union Triggered \union Expired # {}
  /\ base' = [base EXCEPT !.at = "run"]
  /\ ev' = [e \in Evs |->
       [flags |-> (ev[e].flags \union {f \in {"active"} : e \in Triggered \union Expired})
                    \ {f \in {"timeout"} : e \in Expired},
        left |-> ev[e].left,
        res |-> ev[e].res \union {w \in Fds(e) : e \in Triggered}
                    \union {w \in {"timeout"} : e \in Expired}]]
  /\ ready' = {e \in ready : "signal" \notin ev_events[e]}

(* Before an event's callback: unless persistent it is no longer pending;  *)
(* a persistent one that has a timeout is added with it again, from now,   *)
(* or from when it was due.  Then what the callback does to the base; a    *)
(* loopbreak leaves the other active events for the next loop.             *)
Restarts(e) == IF Interval[e] = 0 THEN {0}
               ELSE IF "timeout" \in ev[e].res THEN 1 .. Interval[e] ELSE {Interval[e]}

Stays(e) == IF Interval[e] = 0 THEN ev[e].flags \intersect {"inserted"}
            ELSE AddFlags(e, Interval[e])

LoopRun(e, after) ==
  /\ base.at = "run" /\ e \in Active
  /\ IF "persist" \in ev_events[e]
       THEN \E left \in Restarts(e) :
              ev' = [ev EXCEPT ![e] = [flags |-> Stays(e), left |-> left, res |-> {}]]
       ELSE ev' = [ev EXCEPT ![e] = NewEvent]
  /\ base' = [after EXCEPT !.at = IF after.broken \/ Active = {e} THEN "top" ELSE "run"]
  /\ UNCHANGED ready

(* A descriptor becomes ready, or somebody takes what it was ready for. *)
FdChanges == /\ \E e \in Evs : /\ Fds(e) # {}
                               /\ ready' = IF e \in ready THEN ready \ {e} ELSE ready \union {e}
             /\ UNCHANGED <<base, ev>>

Elapsed == [e \in Evs |-> [ev[e] EXCEPT !.left = IF @ > 0 THEN @ - 1 ELSE 0]]
==============================================================================
