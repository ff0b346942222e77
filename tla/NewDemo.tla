------------------------------- MODULE NewDemo -------------------------------
(***************************************************************************)
(* eventnew.cc: a persistent read event with a timeout of five seconds and *)
(* a persistent write event on one base; the callback prints and reads     *)
(* nothing.                                                                *)
(***************************************************************************)
EXTENDS Integers

CONSTANTS ev1, ev2, five_second

VARIABLES base, ev, ready,  \* of EventBase
          pc, printed,      \* the last line cb printed: which event, what
          quiet             \* history: seconds since ev1 was added or in time

vars == <<base, ev, ready, pc, printed, quiet>>

Made == {ev1, ev2}

(* Slips: the read event is not persistent; its timeout is a second short. *)
Wants_Once == [e \in Made |-> IF e = ev1 THEN {"read"} ELSE {"write", "persist"}]
Intervals_Short == [e \in Made |-> IF e = ev1 THEN five_second - 1 ELSE 0]

Wants     == [e \in Made |-> IF e = ev1 THEN {"read", "persist"} ELSE {"write", "persist"}]
Intervals == [e \in Made |-> IF e = ev1 THEN five_second ELSE 0]

INSTANCE EventBase WITH Evs <- Made, ev_events <- Wants, Interval <- Intervals

Init == /\ BaseInit /\ pc = "start"
        /\ printed = [of |-> "none", what |-> {}] /\ quiet = 0

(* event_base_new, event_new, event_add and event_base_dispatch. *)
main_loop ==
  /\ pc = "start" /\ pc' = "loop"
  /\ ev' = [e \in Made |-> Added(e, Intervals[e])[e]]
  /\ base' = Entered /\ quiet' = 0
  /\ UNCHANGED <<ready, printed>>

NoMemory == /\ pc = "start" /\ pc' = "fault"
            /\ UNCHANGED <<base, ev, ready, printed, quiet>>

cb(e) ==
  /\ LoopRun(e, base)
  /\ printed' = [of |-> IF e = ev1 THEN "Read Event" ELSE "Write Event", what |-> ev[e].res]
  /\ quiet' = IF e = ev1 /\ ev[e].res = {"read"} THEN 0 ELSE quiet
  /\ UNCHANGED pc

Loop == (LoopTop \/ LoopWait) /\ UNCHANGED <<pc, printed, quiet>>

Second == /\ ev' = Elapsed
          /\ quiet' = IF quiet < five_second THEN quiet + 1 ELSE quiet
          /\ UNCHANGED <<base, ready, pc, printed>>

Fd == FdChanges /\ UNCHANGED <<pc, printed, quiet>>

Next == main_loop \/ NoMemory \/ Loop \/ (\E e \in Made : cb(e)) \/ Second \/ Fd

Spec     == Init /\ [][Next]_vars
FairSpec == Spec /\ WF_vars(Loop) /\ WF_vars(Second) /\ WF_vars(\E e \in Made : cb(e))

------------------------------------------------------------------------------
(* "timeout" is printed of the read event only when the loop has not found *)
(* the socket readable in time for five seconds; a read in time starts     *)
(* them again.  (One that comes with a timeout does not: the timer then    *)
(* goes on from when it was due, and the next timeout may be early.)       *)
TimeoutMeansSilence ==
  [][cb(ev1) /\ "timeout" \in ev[ev1].res => quiet = five_second]_vars

(* The read event is heard of again and again, readable or timed out,      *)
(* although the write event is always active and nobody takes what there   *)
(* is to read.                                                             *)
HeardAgain == []<>(pc = "loop" => ev1 \in Active)
==============================================================================
