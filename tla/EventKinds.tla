------------------------------ MODULE EventKinds ------------------------------
(***************************************************************************)
(* The macros of event.h and event_compat.h that set up events for a       *)
(* timer, a signal or the program itself to trigger, and add, delete and   *)
(* trigger them, on one base whose loop is run again and again.  Some of   *)
(* them cannot be used as they are typed: evuser_del and timeout_pending   *)
(* call what is not declared so, evsignal_initialized has no parameter.    *)
(***************************************************************************)
EXTENDS Integers

CONSTANTS Evs,              \* struct event
          Signals,          \* signal numbers
          NoSignal,         \* ev_fd of an event for none: -1
          Timeouts          \* what events are added with; 0 for NULL

ASSUME KindsAssumption == NoSignal \notin Signals /\ Timeouts \subseteq Nat

VARIABLES base, ev, ready,  \* of EventBase
          ev_events, ev_fd, \* as the macro that set it up has set them
          interval,         \* the last timeout an event was added with
          process,          \* "running", or "killed" by a signal
          asked,            \* history: the signal named to that macro, and
          assigned,         \*          is it evsignal_assign?
          added             \* history: events added and not deleted

kinds == <<ev_events, ev_fd, asked, assigned>>
kindsVars  == <<base, ev, ready, kinds, interval, process, added>>

INSTANCE EventBase WITH Interval <- interval

KindsInit == /\ BaseInit /\ process = "running"
        /\ ev_events = [e \in Evs |-> {}] /\ ev_fd = [e \in Evs |-> NoSignal]
        /\ interval = [e \in Evs |-> 0]
        /\ asked = [e \in Evs |-> NoSignal] /\ assigned = {} /\ added = {}

(* The program's code runs before the loop, after it or as a callback of   *)
(* it, so unless it sleeps; it does not set up or add an event that is     *)
(* active, or set up one that is added or pending.                         *)
UserRuns == process = "running" /\ base.at # "wait"

SetUp(e, what, signal) ==
  /\ UserRuns /\ e \notin added \union Active /\ ~Pending(e)
  /\ ev_events' = [ev_events EXCEPT ![e] = what] /\ ev_fd' = [ev_fd EXCEPT ![e] = signal]
  /\ interval' = [interval EXCEPT ![e] = 0]
  /\ UNCHANGED <<base, ev, ready, process, added>>

Names(e, signal) == asked' = [asked EXCEPT ![e] = signal]

(* evtimer_assign, evtimer_new, ev_timerset and timeout_set; evuser_new.   *)
evtimer_new(e) == SetUp(e, {}, NoSignal) /\ Names(e, NoSignal) /\ assigned' = assigned \ {e}
evuser_new(e)  == evtimer_new(e)

(* evsignal_new, ev_sinalset and signal_set.  (Slip: not persistent.)      *)
evsignal_new_Once(e, x) ==
  SetUp(e, {"signal"}, x) /\ Names(e, x) /\ assigned' = assigned \ {e}

evsignal_new(e, x) ==
  SetUp(e, {"signal", "persist"}, x) /\ Names(e, x) /\ assigned' = assigned \ {e}

(* evsignal_assign does not use its x. *)
evsignal_assign(e, x) ==
  SetUp(e, {}, NoSignal) /\ Names(e, x) /\ assigned' = assigned \union {e}

(* evtimer_add, evsignal_add, timeout_add, signal_add; and those that      *)
(* delete.                                                                 *)
event_add(e, tv) ==
  /\ UserRuns /\ e \notin Active
  /\ ev' = Added(e, tv)
  /\ interval' = [interval EXCEPT ![e] = IF tv > 0 THEN tv ELSE @]
  /\ added' = added \union {e}
  /\ UNCHANGED <<base, ready, kinds, process>>

event_del(e) ==
  /\ UserRuns /\ e \in added \union Active
  /\ ev' = [ev EXCEPT ![e] = NewEvent]
  /\ ready' = ready \ {e} /\ added' = added \ {e}
  /\ base' = IF base.at = "run" /\ Active = {e} THEN [base EXCEPT !.at = "top"] ELSE base
  /\ UNCHANGED <<kinds, interval, process>>

evuser_trigger(e) ==
  /\ UserRuns
  /\ ev' = [ev EXCEPT ![e].flags = @ \union {"active"}]
  /\ UNCHANGED <<base, ready, kinds, interval, process, added>>

(* The loop, which is entered again when it has returned. *)
Loop == /\ process = "running"
        /\ \/ LoopTop \/ LoopWait
           \/ /\ Leaves \/ base.at = "out"
              /\ base' = IF Leaves THEN [base EXCEPT !.at = "out"] ELSE Entered
              /\ UNCHANGED <<ev, ready>>
        /\ UNCHANGED <<kinds, interval, process, added>>

(* A callback; an event that is not persistent is then no longer added. *)
Run(e) == /\ process = "running"
          /\ LoopRun(e, base)
          /\ added' = IF asked[e] = NoSignal THEN added \ {e} ELSE added
          /\ UNCHANGED <<kinds, interval, process>>

(* A signal is told to the events added for it; if there is none it may    *)
(* end the process.                                                        *)
Heard(x) == {e \in Evs : ev_fd[e] = x /\ "inserted" \in ev[e].flags}

Raise(x) ==
  /\ process = "running"
  /\ ready' = ready \union Heard(x)
  /\ process' \in {"running"} \union {k \in {"killed"} : Heard(x) = {}}
  /\ UNCHANGED <<base, ev, kinds, interval, added>>

Second == /\ process = "running"
          /\ ev' = Elapsed
          /\ UNCHANGED <<base, ready, kinds, interval, process, added>>

User == \E e \in Evs : \/ evtimer_new(e) \/ evuser_new(e)
                       \/ \E x \in Signals : evsignal_new(e, x) \/ evsignal_assign(e, x)
                       \/ \E tv \in Timeouts : event_add(e, tv)
                       \/ event_del(e) \/ evuser_trigger(e)

KindsNext == User \/ Loop \/ (\E e \in Evs : Run(e)) \/ (\E x \in Signals : Raise(x)) \/ Second

KindsSpec == KindsInit /\ [][KindsNext]_kindsVars

------------------------------------------------------------------------------
(* Of the events the program has asked to be told of a signal and added,   *)
(* those set up by evsignal_new hear of it, again and again until they are *)
(* deleted, and keep it from ending the process; those set up by           *)
(* evsignal_assign never hear of any signal.                               *)
NewOnesHear ==
  [][\A x \in Signals :
       Raise(x) =>
         /\ \A e \in added : asked[e] = x => (e \in ready' <=> e \notin assigned)
         /\ assigned \intersect ready' = {}
         /\ process' = "killed" => \A e \in added \ assigned : asked[e] # x]_kindsVars
==============================================================================
