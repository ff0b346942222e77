------------------------------ MODULE LoopDemo -------------------------------
(***************************************************************************)
(* eventLoopDemo.cc: a base is run for ten seconds at a time, with a tick  *)
(* in between; a watchdog's callback breaks the loop.  main only ticks; a  *)
(* program here may first call main_loop, or add watchdogs as main_loop    *)
(* does, to the same base.                                                 *)
(***************************************************************************)
EXTENDS Integers, FiniteSets

CONSTANTS Watchdogs,        \* events with cb
          Onces,            \* events event_base_loopexit makes
          ten_sec

VARIABLES base, ev, ready,  \* of EventBase
          pc,               \* start, watch (main_loop), turn, ticks, fault
          set,              \* whether this turn's loopexit succeeded
          since, count,     \* history: seconds since one of the ticks, up to
                            \* ten, and the turns that have ended meanwhile
                            \* and whose loopexit had not failed
          breaks            \* history: turns broken

vars == <<base, ev, ready, pc, set, since, count, breaks>>

Made  == Watchdogs \union Onces
Wants == [e \in Made |-> IF e \in Watchdogs THEN {"read"} ELSE {}]

(* (Slip: a second too short.) *)
Intervals_Short == [e \in Made |-> IF e \in Onces THEN ten_sec - 1 ELSE 0]
Intervals       == [e \in Made |-> IF e \in Onces THEN ten_sec ELSE 0]

INSTANCE EventBase WITH Evs <- Made, ev_events <- Wants, Interval <- Intervals

Init == /\ BaseInit /\ pc = "start" /\ set = FALSE
        /\ since = 0 /\ count = 0 /\ breaks = 0

(* event_new and event_add of a watchdog whose callback is cb. *)
Watch(w) == /\ ~Pending(w) /\ w \notin Active
            /\ ev' = Added(w, 0)

AddWatchdog(w) ==
  /\ pc = "start" /\ Watch(w)
  /\ UNCHANGED <<base, ready, pc, set, since, count, breaks>>

main_loop(w) ==
  /\ pc = "start" /\ Watch(w)
  /\ base' = Entered /\ pc' = "watch"
  /\ UNCHANGED <<ready, set, since, count, breaks>>

main_loop_Returns ==
  /\ pc = "watch" /\ Leaves
  /\ base' = [base EXCEPT !.at = "out"] /\ pc' = "start"
  /\ UNCHANGED <<ev, ready, set, since, count, breaks>>

(* event_base_new or event_new gives NULL, which the calls that follow use. *)
NoMemory == /\ pc = "start" /\ pc' = "fault"
            /\ UNCHANGED <<base, ev, ready, set, since, count, breaks>>

run_base_with_ticks ==
  /\ pc = "start" /\ pc' = "turn" /\ since' = 0
  /\ UNCHANGED <<base, ev, ready, set, count, breaks>>

(* A turn: event_base_loopexit, then event_base_dispatch whatever the      *)
(* former returned.  (Slips: a loopexit in the first turn only, two of     *)
(* them.)                                                                  *)
Free(o) == ~Pending(o) /\ o \notin Active

Turn_First ==
  /\ pc = "turn" /\ pc' = "ticks" /\ base' = Entered
  /\ IF set THEN ev' = ev ELSE \E o \in Onces : Free(o) /\ ev' = Added(o, Intervals[o])
  /\ set' = TRUE
  /\ UNCHANGED <<ready, since, count, breaks>>

Turn_Twice ==
  /\ pc = "turn" /\ pc' = "ticks" /\ base' = Entered
  /\ \E o, x \in Onces : /\ Free(o) /\ Free(x)
                         /\ ev' = [Added(o, Intervals[o]) EXCEPT ![x] = Added(x, Intervals[x])[x]]
  /\ set' = TRUE
  /\ UNCHANGED <<ready, since, count, breaks>>

Turn ==
  /\ pc = "turn" /\ pc' = "ticks" /\ base' = Entered
  /\ \E o \in Onces : Free(o) /\ ev' = Added(o, Intervals[o])
  /\ set' = TRUE
  /\ UNCHANGED <<ready, since, count, breaks>>

TurnFails ==
  /\ pc = "turn" /\ pc' = "ticks" /\ base' = Entered
  /\ set' = FALSE
  /\ UNCHANGED <<ev, ready, since, count, breaks>>

(* The histories go on counting from the tick they watch, or watch this.   *)
Tick == /\ pc = "ticks" /\ Leaves
        /\ base' = [base EXCEPT !.at = "out"] /\ pc' = "turn"
        /\ \/ since' = 0 /\ count' = 0
           \/ /\ since < ten_sec /\ since' = since
              /\ count' = IF set THEN count + 1 ELSE count
        /\ UNCHANGED <<ev, ready, set, breaks>>

(* The callbacks: cb of a watchdog, and the one of event_base_loopexit.    *)
Callback(e) == IF e \in Watchdogs THEN [base EXCEPT !.broken = TRUE]
                                  ELSE [base EXCEPT !.gotterm = TRUE]

Run(e) == /\ pc # "fault" /\ LoopRun(e, Callback(e))
          /\ breaks' = IF e \in Watchdogs /\ pc = "ticks" THEN breaks + 1 ELSE breaks
          /\ UNCHANGED <<pc, set, since, count>>

Loop == /\ pc # "fault" /\ (LoopTop \/ LoopWait)
        /\ UNCHANGED <<pc, set, since, count, breaks>>

Second == /\ ev' = Elapsed
          /\ since' = IF since < ten_sec THEN since + 1 ELSE since
          /\ count' = IF since' < ten_sec THEN count ELSE 0
          /\ UNCHANGED <<base, ready, pc, set, breaks>>

Fd == FdChanges /\ UNCHANGED <<pc, set, since, count, breaks>>

Program == \/ \E w \in Watchdogs : AddWatchdog(w) \/ main_loop(w)
           \/ main_loop_Returns \/ NoMemory \/ run_base_with_ticks
           \/ Turn \/ TurnFails

Next == Program \/ Tick \/ Loop \/ (\E e \in Made : Run(e)) \/ Second \/ Fd

Spec == Init /\ [][Next]_vars

(* The process runs and time passes; nobody's descriptor need be ready.    *)
FairSpec == Spec /\ WF_vars(Tick \/ Loop \/ (\E e \in Made : Run(e)))
                 /\ WF_vars(Turn \/ TurnFails) /\ WF_vars(Second)

------------------------------------------------------------------------------
(* Within the ten seconds after any tick no turn ends but one for each     *)
(* break so far, whose loopexit was left for a later turn, and but those   *)
(* whose own loopexit failed: with neither, ticks are ten seconds apart or *)
(* more.                                                                   *)
TicksSpaced == count <= breaks

(* Each break leaves one loopexit behind at most: no turn has more of them *)
(* than there were breaks, besides its own.  And a turn whose loopexit did *)
(* not fail has one until the loop is told to end: dispatch does not       *)
(* return at once for want of events.                                      *)
Pendings == {o \in Onces : Pending(o) \/ o \in Active}

Leftovers ==
  /\ Cardinality(Pendings) <= 1 + breaks
  /\ pc = "ticks" /\ set /\ ~base.gotterm /\ ~base.broken => Pendings # {}

(* The ticks go on for ever, unless a loopexit fails in a turn that has    *)
(* watchdogs to wait for and no loopexit left by an earlier one.           *)
Asleep == /\ pc = "ticks" /\ ~set /\ Pendings = {}
          /\ \E w \in Watchdogs : Pending(w)

TicksGoOn == (pc = "turn") ~> (Asleep \/ (pc = "ticks" /\ Leaves))
==============================================================================
