------------------------------ MODULE EventParts ------------------------------
(***************************************************************************)
(* The smaller parts around libevent, each of which runs by itself: the    *)
(* two demos of the event loop, the macros that set up events, the check   *)
(* of a list, and timevals.  A behaviour is one of the part chosen at its  *)
(* beginning; the variables of the others stay as they are.                *)
(***************************************************************************)
EXTENDS EventKinds, TimerWalk, FiniteSets

CONSTANTS Watchdogs, Onces, ten_sec,            \* of LoopDemo
          ev1, ev2, five_second,                \* of NewDemo
          Elems, NULL, Head, Wild               \* of ListCheck

ASSUME PartsAssumption ==
  /\ Watchdogs \intersect Onces = {} /\ ten_sec \in Nat \ {0}
  /\ ev1 # ev2 /\ five_second \in Nat \ {0}
  /\ {NULL, Head, Wild} \intersect Elems = {} /\ Head # Wild /\ IsFiniteSet(Elems)

VARIABLES part,
          loop_base, loop_ev, loop_ready, loop_pc, set, since, count, breaks,
          new_base, new_ev, new_ready, new_pc, printed, quiet,
          first, next, prev, elm1, elm2, nextp, at

Ticks == INSTANCE LoopDemo WITH base <- loop_base, ev <- loop_ev,
                                ready <- loop_ready, pc <- loop_pc
Reads == INSTANCE NewDemo WITH base <- new_base, ev <- new_ev,
                               ready <- new_ready, pc <- new_pc
List  == INSTANCE ListCheck

ticks == <<loop_base, loop_ev, loop_ready, loop_pc, set, since, count, breaks>>
reads == <<new_base, new_ev, new_ready, new_pc, printed, quiet>>
list  == <<first, next, prev, elm1, elm2, nextp, at>>
vars  == <<part, kindsVars, times, ticks, reads, list>>

(* A list that nobody checks, timevals nobody uses. *)
NoList == /\ first = NULL /\ next = [e \in Elems |-> NULL] /\ prev = [e \in Elems |-> Wild]
          /\ elm1 = NULL /\ elm2 = NULL /\ nextp = Head /\ at = "start"
NoTimes == t = timeclear /\ u = timeclear

Init ==
  /\ part \in {"kinds", "time", "loop", "new", "list"}
  /\ KindsInit /\ Ticks!Init /\ Reads!Init
  /\ IF part = "list" THEN List!Init ELSE NoList
  /\ IF part = "time" THEN WalkInit ELSE NoTimes

(* A step of one part, by an action of its module. *)
InKinds(A) == part = "kinds" /\ A /\ UNCHANGED <<part, times, ticks, reads, list>>
InTime(A)  == part = "time"  /\ A /\ UNCHANGED <<part, kindsVars, ticks, reads, list>>
InLoop(A)  == part = "loop"  /\ A /\ UNCHANGED <<part, kindsVars, times, reads, list>>
InNew(A)   == part = "new"   /\ A /\ UNCHANGED <<part, kindsVars, times, ticks, list>>
InList(A)  == part = "list"  /\ A /\ UNCHANGED <<part, kindsVars, times, ticks, reads>>

Next == \/ InKinds(KindsNext) \/ InTime(Walk)
        \/ InLoop(Ticks!Next) \/ InNew(Reads!Next) \/ InList(List!Next)

Spec == Init /\ [][Next]_vars

(* The fairness of the part that runs, as its own module states it. *)
Turns == InLoop(Ticks!Turn \/ Ticks!TurnFails) \/ \E e \in {ev1, ev2} : InNew(Reads!cb(e))
Time  == InLoop(Ticks!Second) \/ InNew(Reads!Second)
Steps == \/ InLoop(Ticks!Tick \/ Ticks!Loop \/ \E e \in Watchdogs \union Onces : Ticks!Run(e))
         \/ InNew(Reads!Loop) \/ InList(List!Next)

FairSpec == Spec /\ WF_vars(Turns) /\ WF_vars(Time) /\ WF_vars(Steps)

------------------------------------------------------------------------------
(* Ticks are ten seconds apart at least, but for one early tick in ten     *)
(* seconds for every break, and the ticks of failed loopexits.             *)
TicksSpaced == Ticks!TicksSpaced

(* A turn of the ticks has its own loopexit, and of those that breaks left *)
(* behind one for each break at most.                                      *)
Leftovers == Ticks!Leftovers

(* The ticks of run_base_with_ticks never stop, but for watchdogs without  *)
(* any loopexit.                                                           *)
TicksGoOn == Ticks!TicksGoOn

(* "timeout" is printed of the read event only after five silent seconds.  *)
TimeoutMeansSilence == Reads!TimeoutMeansSilence

(* The read event is heard of again and again beside the write event.      *)
HeardAgain == Reads!HeardAgain

(* EVUTIL_ASSERT_LIST_OK passes lists and nothing else.                    *)
Verdict == List!Verdict

(* The loops of EVUTIL_ASSERT_LIST_OK end, whatever the pointers.          *)
Ends == part = "list" => List!Ends
==============================================================================
