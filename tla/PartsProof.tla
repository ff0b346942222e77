----------------------------- MODULE PartsProof -----------------------------
(***************************************************************************)
(* Proofs about the smaller parts around libevent: the timeval macros, for *)
(* every length of a second; the macros that set up events, for any number *)
(* of events, signals and timeouts; the demos of the event loop, for any   *)
(* intervals, watchdogs and loopexits; the list check, for lists of any    *)
(* length.                                                                 *)
(***************************************************************************)
EXTENDS EventParts, FiniteSetTheorems, TLAPS

LEMMA Scale ==
  ASSUME NEW a \in Int, NEW b \in Int, NEW k \in Int
  PROVE  (a + b) * k = a * k + b * k
  BY SMT

LEMMA AddNormal ==
  ASSUME NEW x \in Normal, NEW y \in Normal
  PROVE  timeradd(x, y) \in Normal
  BY MillionAssumption DEF Normal, timeradd

LEMMA AddExact ==
  ASSUME NEW x \in Timeval, NEW y \in Timeval
  PROVE  Micros(timeradd(x, y)) = Micros(x) + Micros(y)
<1> DEFINE k == Million
           s == x.sec + y.sec
<1>0. /\ x.sec \in Int /\ x.usec \in Int /\ y.sec \in Int /\ y.usec \in Int
      /\ Million \in Int
  BY MillionAssumption DEF Timeval
<1>1. s * k = x.sec * k + y.sec * k
  BY <1>0, Scale
<1>2. (s + 1) * k = s * k + k
  BY <1>0
<1> QED
  BY <1>0, <1>1, <1>2 DEF timeradd, Micros

LEMMA Carry ==
  ASSUME NEW a \in Int, NEW b \in Int, a < b,
         NEW p \in 0 .. Million - 1, NEW q \in 0 .. Million - 1
  PROVE  a * Million + p < b * Million + q
<1> DEFINE k == Million
           d == b - (a + 1)
<1>0. k \in Nat \ {0} /\ d \in Nat
  BY MillionAssumption
<1>1. b * k = (a + 1) * k + d * k
  BY <1>0, Scale
<1>2. d * k >= 0
  BY <1>0
<1>3. (a + 1) * k = a * k + k
  BY <1>0
<1>4. a * k \in Int /\ b * k \in Int /\ d * k \in Int
  BY <1>0
<1> QED
  BY <1>0, <1>1, <1>2, <1>3, <1>4

(* Normal timevals compare as the times they stand for. *)
LEMMA CompareExact ==
  ASSUME NEW x \in Normal, NEW y \in Normal
  PROVE  /\ Before(x, y) <=> Micros(x) < Micros(y)
         /\ After(x, y) <=> Micros(x) > Micros(y)
         /\ Same(x, y) <=> x = y
<1>0. /\ x.sec \in Int /\ y.sec \in Int /\ Million \in Nat
      /\ x.usec \in 0 .. Million - 1 /\ y.usec \in 0 .. Million - 1
      /\ x.sec * Million \in Int /\ y.sec * Million \in Int
  BY MillionAssumption DEF Normal
<1>1. x.sec < y.sec => Micros(x) < Micros(y)
  BY <1>0, Carry DEF Micros
<1>2. y.sec < x.sec => Micros(y) < Micros(x)
  BY <1>0, Carry DEF Micros
<1>3. x.sec = y.sec /\ x.usec = y.usec <=> x = y
  BY DEF Normal
<1>4. Before(x, y) <=> IF x.sec = y.sec THEN x.usec < y.usec ELSE x.sec < y.sec
  BY DEF Before, timercmp, Compare
<1>5. After(x, y) <=> IF x.sec = y.sec THEN x.usec > y.usec ELSE x.sec > y.sec
  BY DEF After, timercmp, Compare
<1>6. Same(x, y) <=> IF x.sec = y.sec THEN x.usec = y.usec ELSE x.sec = y.sec
  BY DEF Same, timercmp, Compare
<1>7. Micros(x) \in Int /\ Micros(y) \in Int
  BY <1>0 DEF Micros
<1>8. CASE x.sec = y.sec
  <2>1. /\ Micros(x) < Micros(y) <=> x.usec < y.usec
        /\ Micros(x) > Micros(y) <=> x.usec > y.usec
    <3> DEFINE whole == x.sec * Million
    <3>1. whole \in Int /\ Micros(x) = whole + x.usec /\ Micros(y) = whole + y.usec
      BY <1>0, <1>8 DEF Micros
    <3> HIDE DEF whole
    <3> QED
      BY <1>0, <3>1
  <2> QED
    BY <1>3, <1>4, <1>5, <1>6, <1>8, <2>1
<1>9. CASE x.sec < y.sec
  BY <1>0, <1>1, <1>3, <1>4, <1>5, <1>6, <1>7, <1>9
<1>10. CASE y.sec < x.sec
  BY <1>0, <1>2, <1>3, <1>4, <1>5, <1>6, <1>7, <1>10
<1> QED
  BY <1>0, <1>8, <1>9, <1>10

LEMMA SubShort ==
  ASSUME NEW x \in Timeval, NEW y \in Timeval
  PROVE  Micros(timersub(x, y)) =
           Micros(x) - Micros(y) - (IF x.usec < y.usec THEN 2 * Million ELSE 0)
<1> DEFINE d == x.sec - y.sec
           k == Million
<1>0. /\ x.sec \in Int /\ x.usec \in Int /\ y.sec \in Int /\ y.usec \in Int
      /\ k \in Int /\ d \in Int
  BY MillionAssumption DEF Timeval
<1>1. x.sec * k = d * k + y.sec * k
  <2>1. (d + y.sec) * k = d * k + y.sec * k
    BY <1>0, Scale
  <2> QED
    BY <1>0, <2>1
<1>2. (d - 1) * k = d * k - k
  <2>1. ((d - 1) + 1) * k = (d - 1) * k + 1 * k
    BY <1>0, Scale
  <2> QED
    BY <1>0, <2>1
<1>3. d * k \in Int /\ y.sec * k \in Int /\ (d - 1) * k \in Int
  BY <1>0
<1>4. CASE x.usec < y.usec
  <2>1. timersub(x, y) = [sec |-> d - 1, usec |-> x.usec - y.usec - k]
    BY <1>0, <1>4 DEF timersub
  <2>2. Micros(timersub(x, y)) = (d - 1) * k + (x.usec - y.usec - k)
    BY <2>1 DEF Micros
  <2>3. Micros(x) - Micros(y) = d * k + (x.usec - y.usec)
    BY <1>0, <1>1, <1>3 DEF Micros
  <2> HIDE DEF d, k
  <2>4. (d - 1) * k + (x.usec - y.usec - k) = (d * k + (x.usec - y.usec)) - 2 * k
    BY <1>0, <1>2, <1>3
  <2>5. Micros(timersub(x, y)) = Micros(x) - Micros(y) - 2 * k
    <3> HIDE DEF Micros, timersub
    <3> QED
      BY <2>2, <2>3, <2>4
  <2> QED
    BY <1>4, <2>5 DEF k
<1>5. CASE ~(x.usec < y.usec)
  BY <1>0, <1>1, <1>3, <1>5 DEF timersub, Micros
<1> QED
  BY <1>4, <1>5

LEMMA SubNormal ==
  ASSUME NEW x \in Normal, NEW y \in Normal
  PROVE  timersub(x, y) \in Normal <=> x.usec >= y.usec
  BY MillionAssumption DEF timersub, Normal

------------------------------------------------------------------------------
(* What a walk computes with are timevals of integers, normal or not. *)
Timevals == t \in Timeval /\ u \in Timeval

LEMMA WalkTimevals == Spec => []Timevals
<1>1. Init => Timevals
  BY StartAssumption
  DEF Init, WalkInit, NoTimes, timeclear, Timevals, Timeval, Normal
<1>2. Timevals /\ [Walk]_times => Timevals'
  BY MillionAssumption
  DEF Timevals, Walk, times, Add, Sub, Clear, Exchange,
      Timeval, timeradd, timersub, timeclear
<1>3. [Next]_vars => [Walk]_times
  BY DEF Next, vars, times, InKinds, InTime, InLoop, InNew, InList
<1> QED
  BY <1>1, <1>2, <1>3, PTL DEF Spec

(* evutil_timeradd is exact and keeps timevals normal. *)
THEOREM SumCorrect == Spec => []SumExact
<1>1. Timevals => SumExact
  BY AddExact, AddNormal DEF Timevals, SumExact
<1> QED
  BY <1>1, WalkTimevals, PTL

(* evutil_timersub is exact as long as it need not borrow, and two seconds *)
(* of microseconds short when it does.                                     *)
THEOREM DifferenceCorrect == Spec => []DifferenceShort
<1>1. Timevals => DifferenceShort
  BY SubShort, SubNormal DEF Timevals, DifferenceShort
<1> QED
  BY <1>1, WalkTimevals, PTL

LEMMA AddKeepsOrder ==
  ASSUME NEW x \in Normal, NEW y \in Normal, Before(x, y)
  PROVE  Before(timeradd(x, x), timeradd(y, x))
<1>1. x \in Timeval /\ y \in Timeval
  BY MillionAssumption DEF Normal, Timeval
<1>2. /\ Micros(timeradd(x, x)) = Micros(x) + Micros(x)
      /\ Micros(timeradd(y, x)) = Micros(y) + Micros(x)
  BY <1>1, AddExact
<1>3. Micros(x) \in Int /\ Micros(y) \in Int
  BY <1>1, MillionAssumption DEF Timeval, Micros
<1>4. Micros(x) < Micros(y)
  BY CompareExact
<1>5. Micros(timeradd(x, x)) < Micros(timeradd(y, x))
  BY <1>2, <1>3, <1>4
<1>6. timeradd(x, x) \in Normal /\ timeradd(y, x) \in Normal
  BY AddNormal
<1> QED
  BY <1>5, <1>6, CompareExact

(* evutil_timercmp orders normal timevals as the times they stand for. *)
THEOREM OrderCorrect == Spec => []OrderExact
<1>1. OrderExact
  <2>1. SUFFICES ASSUME t \in Normal, u \in Normal
                 PROVE  /\ Before(t, u) <=> Micros(t) < Micros(u)
                        /\ After(t, u) <=> Micros(t) > Micros(u)
                        /\ Same(t, u) <=> t = u
                        /\ Before(t, u) =>
                             Before(timeradd(t, t), timeradd(u, t))
    BY DEF OrderExact
  <2> QED
    BY <2>1, CompareExact, AddKeepsOrder
<1> QED
  BY <1>1, PTL

------------------------------------------------------------------------------
(* An event set up by evsignal_new hears of its signal for as long as it   *)
(* is added, and no other event does, for any number of events, signals    *)
(* and timeouts.  evsignal_new sets up what it was asked for, and nothing  *)
(* else sets up an event for a signal; while added the event stays         *)
(* registered, its callback run or not, and so while it is told of one.    *)
Shape == /\ DOMAIN ev = Evs /\ \A e \in Evs : DOMAIN ev[e] = {"flags", "left", "res"}
         /\ DOMAIN ev_events = Evs /\ DOMAIN ev_fd = Evs /\ DOMAIN asked = Evs
New(e)    == e \in Evs \ assigned /\ asked[e] \in Signals
AsAsked   == \A e \in Evs : /\ New(e) => ev_fd[e] = asked[e] /\ ev_events[e] = {"signal", "persist"}
                            /\ ~New(e) => ev_fd[e] = NoSignal
Listening == \A e \in Evs : New(e) /\ e \in added => "inserted" \in ev[e].flags

Reported  == \A e \in ready : New(e) /\ "inserted" \in ev[e].flags

Inv == Shape /\ AsAsked /\ Listening /\ Reported

(* (What an event is told changes nothing of what it waits for.)           *)
LEMMA SameKinds ==
  ASSUME Shape, AsAsked, UNCHANGED kinds
  PROVE  AsAsked' /\ (\A e : New(e)' <=> New(e))
  BY DEF kinds, AsAsked, New

LEMMA InitInv == KindsInit => Inv
  BY KindsAssumption DEF KindsInit, BaseInit, NewEvent, Inv, Shape, AsAsked, Listening, Reported, New

LEMMA SetUpInv ==
  ASSUME Inv, NEW e \in Evs, NEW what, NEW fd, NEW signal, SetUp(e, what, fd), Names(e, signal),
         assigned' \in {assigned \ {e}, assigned \union {e}},
         IF e \notin assigned' /\ signal \in Signals
           THEN fd = signal /\ what = {"signal", "persist"} ELSE fd = NoSignal
  PROVE  Inv'
<1>1. Shape'
  BY DEF Inv, Shape, SetUp, Names
<1>2. \A f \in Evs \ {e} : /\ New(f)' <=> New(f)
                           /\ ev_fd'[f] = ev_fd[f] /\ asked'[f] = asked[f]
                           /\ ev_events'[f] = ev_events[f]
  BY DEF Inv, Shape, SetUp, Names, New
<1>3. ev_fd'[e] = fd /\ asked'[e] = signal /\ ev_events'[e] = what
  BY DEF Inv, Shape, SetUp, Names
<1>4. AsAsked'
  BY <1>2, <1>3 DEF Inv, AsAsked, New
<1>5. Listening'
  BY <1>2 DEF Inv, Listening, SetUp
<1>6. e \notin ready
  BY DEF Inv, Reported, SetUp, Pending
<1>7. Reported'
  BY <1>2, <1>6 DEF Inv, Reported, SetUp, New
<1> QED
  BY <1>1, <1>4, <1>5, <1>7 DEF Inv

LEMMA AddInv == ASSUME Inv, NEW e \in Evs, NEW tv \in Timeouts, event_add(e, tv) PROVE Inv'
<1>1. Shape'
  BY DEF Inv, Shape, event_add, Added, kinds
<1>2. AsAsked' /\ (\A f : New(f)' <=> New(f))
  BY SameKinds DEF Inv, event_add
<1>3. New(e) => "inserted" \in AddFlags(e, tv)
  BY DEF Inv, AsAsked, AddFlags, Fds
<1>4. ev'[e].flags = ev[e].flags \union AddFlags(e, tv)
  BY DEF Inv, Shape, event_add, Added
<1>5. \A f \in Evs \ {e} : ev'[f].flags = ev[f].flags
  BY DEF Inv, Shape, event_add, Added
<1>6. Listening'
  BY <1>2, <1>3, <1>4, <1>5 DEF Inv, Listening, event_add
<1>7. Reported'
  BY <1>2, <1>4, <1>5 DEF Inv, Reported, New, event_add
<1> QED
  BY <1>1, <1>2, <1>6, <1>7 DEF Inv

LEMMA DelInv == ASSUME Inv, NEW e \in Evs, event_del(e) PROVE Inv'
<1>1. Shape'
  BY DEF Inv, Shape, event_del, NewEvent, kinds
<1>2. AsAsked' /\ (\A f : New(f)' <=> New(f))
  BY SameKinds DEF Inv, event_del
<1>3. Listening'
  BY <1>2 DEF Inv, Shape, Listening, event_del
<1>4. Reported'
  BY <1>2 DEF Inv, Shape, Reported, New, event_del
<1> QED
  BY <1>1, <1>2, <1>3, <1>4 DEF Inv

LEMMA TriggerInv == ASSUME Inv, NEW e \in Evs, evuser_trigger(e) PROVE Inv'
<1>1. Shape'
  BY DEF Inv, Shape, evuser_trigger, kinds
<1>2. AsAsked' /\ (\A f : New(f)' <=> New(f))
  BY SameKinds DEF Inv, evuser_trigger
<1>3. Listening'
  BY <1>2 DEF Inv, Shape, Listening, evuser_trigger
<1>4. Reported'
  BY <1>2 DEF Inv, Shape, Reported, New, evuser_trigger
<1> QED
  BY <1>1, <1>2, <1>3, <1>4 DEF Inv

LEMMA LoopInv == ASSUME Inv, Loop PROVE Inv'
<1>1. AsAsked' /\ (\A f : New(f)' <=> New(f)) /\ added' = added
  BY SameKinds DEF Inv, Loop
<1>2. CASE LoopWait
  <2>1. Shape'
    BY <1>2 DEF Inv, Shape, Loop, LoopWait, kinds
  <2>2. \A e \in Evs : "inserted" \in ev[e].flags => "inserted" \in ev'[e].flags
    BY <1>2 DEF LoopWait
  <2>3. ready' \subseteq ready
    BY <1>2 DEF LoopWait
  <2> QED
    BY <1>1, <2>1, <2>2, <2>3 DEF Inv, Listening, Reported, New
<1>3. CASE ev' = ev /\ ready' = ready
  <2>1. Shape'
    BY <1>3 DEF Inv, Shape, Loop, kinds
  <2> QED
    BY <1>1, <1>3, <2>1 DEF Inv, Listening, Reported
<1> QED
  BY <1>2, <1>3 DEF Loop, LoopTop

LEMMA RunInv == ASSUME Inv, NEW e \in Evs, Run(e) PROVE Inv'
<1>1. AsAsked' /\ (\A f : New(f)' <=> New(f)) /\ added' \subseteq added
  BY SameKinds DEF Inv, Run
<1>2. Shape'
  BY DEF Inv, Shape, Run, LoopRun, NewEvent, kinds
<1>3. \A f \in Evs \ {e} : ev'[f] = ev[f]
  BY DEF Inv, Shape, Run, LoopRun
<1>4. New(e) /\ "inserted" \in ev[e].flags => "inserted" \in ev'[e].flags
  BY DEF Inv, Shape, AsAsked, Run, LoopRun, Stays, AddFlags, Fds
<1>5. ready' = ready
  BY DEF Run, LoopRun
<1> QED
  BY <1>1, <1>2, <1>3, <1>4, <1>5 DEF Inv, Listening, Reported, New

LEMMA RaiseInv == ASSUME Inv, NEW x \in Signals, Raise(x) PROVE Inv'
<1>1. AsAsked' /\ (\A e : New(e)' <=> New(e)) /\ added' = added /\ ev' = ev
  BY SameKinds DEF Inv, Raise
<1>2. Shape'
  BY <1>1 DEF Inv, Shape, Raise, kinds
<1>3. ASSUME NEW e \in Heard(x) PROVE New(e) /\ "inserted" \in ev[e].flags
  BY KindsAssumption DEF Heard, Inv, AsAsked
<1>4. Reported'
  BY <1>1, <1>3 DEF Inv, Reported, Raise
<1> QED
  BY <1>1, <1>2, <1>4 DEF Inv, Listening

LEMMA SecondInv == ASSUME Inv, Second PROVE Inv'
<1>1. AsAsked' /\ (\A f : New(f)' <=> New(f)) /\ added' = added
  BY SameKinds DEF Inv, Second
<1>2. Shape'
  BY DEF Inv, Shape, Second, Elapsed, kinds
<1>3. \A e \in Evs : ev'[e].flags = ev[e].flags
  BY DEF Inv, Shape, Second, Elapsed
<1> QED
  BY <1>1, <1>2, <1>3 DEF Inv, Listening, Reported, New, Second

LEMMA UserInv == ASSUME Inv, User PROVE Inv'
<1>1. ASSUME NEW e \in Evs, evtimer_new(e) \/ evuser_new(e) PROVE Inv'
  BY <1>1, SetUpInv, KindsAssumption DEF evtimer_new, evuser_new
<1>2. ASSUME NEW e \in Evs, NEW x \in Signals, evsignal_new(e, x) PROVE Inv'
  BY <1>2, SetUpInv DEF evsignal_new
<1>3. ASSUME NEW e \in Evs, NEW x \in Signals, evsignal_assign(e, x) PROVE Inv'
  BY <1>3, SetUpInv DEF evsignal_assign
<1> QED
  BY <1>1, <1>2, <1>3, AddInv, DelInv, TriggerInv DEF User

LEMMA NextInv == Inv /\ [KindsNext]_kindsVars => Inv'
<1>1. ASSUME Inv, UNCHANGED kindsVars PROVE Inv'
  BY <1>1 DEF kindsVars, kinds, Inv, Shape, AsAsked, Listening, Reported, New
<1> QED
  BY <1>1, UserInv, LoopInv, RunInv, RaiseInv, SecondInv DEF KindsNext

Hears(x) ==
  /\ \A e \in added : asked[e] = x => (e \in ready' <=> e \notin assigned)
  /\ assigned \intersect ready' = {}
  /\ process' = "killed" => \A e \in added \ assigned : asked[e] # x

LEMMA InvHears == ASSUME Inv, added \subseteq Evs, NEW x \in Signals, Raise(x) PROVE Hears(x)
<1>1. ASSUME NEW e \in added, asked[e] = x, e \notin assigned PROVE e \in Heard(x)
  BY <1>1 DEF Inv, AsAsked, Listening, New, Heard
<1>2. ready' = ready \union Heard(x) /\ (process' = "killed" => Heard(x) = {})
  BY DEF Raise
<1>3. ASSUME NEW e \in ready' PROVE e \notin assigned
  BY <1>2, KindsAssumption DEF Inv, AsAsked, Reported, New, Heard
<1> QED
  BY <1>1, <1>2, <1>3 DEF Hears

LEMMA AddedRange ==
  /\ KindsInit => added \subseteq Evs
  /\ added \subseteq Evs /\ [KindsNext]_kindsVars => (added \subseteq Evs)'
  BY DEF KindsInit, KindsNext, User, evtimer_new, evuser_new, evsignal_new, evsignal_assign,
         SetUp, event_add, event_del, evuser_trigger, Loop, Run, Raise, Second, kindsVars

LEMMA KindsHear == KindsSpec => NewOnesHear
<1>1. Inv /\ added \subseteq Evs /\ [KindsNext]_kindsVars =>
        [\A x \in Signals : Raise(x) => Hears(x)]_kindsVars
  BY InvHears
<1>2. KindsSpec => [][\A x \in Signals : Raise(x) => Hears(x)]_kindsVars
  BY <1>1, AddedRange, InitInv, NextInv, PTL DEF KindsSpec
<1> QED
  BY <1>2 DEF NewOnesHear, Hears

------------------------------------------------------------------------------
(* Each part runs as its own module says; those not chosen stand still.    *)
LEMMA KindsRun == Spec => KindsSpec
<1>1. Init => KindsInit
  BY DEF Init
<1>2. [Next]_vars => [KindsNext]_kindsVars
  BY DEF Next, vars, kindsVars, InKinds, InTime, InLoop, InNew, InList
<1> QED
  BY <1>1, <1>2, PTL DEF Spec, KindsSpec

(* From its addition to its deletion an event set up by evsignal_new,      *)
(* signal_set or ev_sinalset hears of its signal every time, and one set   *)
(* up by evsignal_assign never.                                            *)
THEOREM NewOnesHearAlways == Spec => NewOnesHear
  BY KindsHear, KindsRun, PTL

LEMMA ReadsRun == Spec => Reads!Spec
<1>1. Init => Reads!Init
  BY DEF Init
<1>2. [Next]_vars => [Reads!Next]_Reads!vars
  BY DEF Next, vars, reads, InKinds, InTime, InLoop, InNew, InList, Reads!vars
<1> QED
  BY <1>1, <1>2, PTL DEF Spec, Reads!Spec

Event == [flags : SUBSET {"timeout", "inserted", "active"}, left : Nat,
          res : SUBSET {"timeout", "read", "write", "signal"}]

(* What the timer of the read event still has to run and the silence so    *)
(* far make five seconds: the timer is early only once it has been due.    *)
Sockets  == {ev1, ev2}
Recorded == new_ev \in [Sockets -> Event]
Told(e)  == /\ "timeout" \in e.res => quiet = five_second
            /\ "timeout" \in e.flags => e.left + quiet >= five_second
Waiting  == /\ Recorded /\ quiet \in 0 .. five_second
            /\ new_pc = "loop" \/ (new_base.at = "out" /\ new_ev[ev1].res = {})
            /\ Told(new_ev[ev1])

LEMMA WaitingInit == Reads!Init => Waiting
  BY PartsAssumption
  DEF Reads!Init, Reads!BaseInit, Reads!NewBase, Reads!NewEvent, Reads!Made,
      Waiting, Recorded, Told, Sockets, Event

LEMMA DemoStarts == ASSUME Waiting, Reads!main_loop PROVE Waiting'
<1> USE PartsAssumption DEF Sockets, Event
<1>1. ASSUME NEW e \in Sockets
      PROVE  /\ new_ev'[e] \in Event
             /\ e = ev1 => new_ev'[e].res = {} /\ new_ev'[e].left = five_second
  <2> DEFINE tv == Reads!Intervals[e]
             old == new_ev[e]
  <2>1. tv = IF e = ev1 THEN five_second ELSE 0
    BY DEF Reads!Intervals, Reads!Made
  <2>2. Reads!AddFlags(e, tv) \in SUBSET {"timeout", "inserted", "active"}
    BY DEF Reads!AddFlags
  <2>3. old \in Event
    BY DEF Waiting, Recorded
  <2>4. new_ev'[e] = [flags |-> old.flags \union Reads!AddFlags(e, tv),
                      left |-> IF tv > 0 THEN tv ELSE old.left, res |-> old.res]
    <3>1. new_ev'[e] = Reads!Added(e, tv)[e]
      BY DEF Reads!main_loop, Reads!Made
    <3>2. Reads!Added(e, tv)[e] = [flags |-> old.flags \union Reads!AddFlags(e, tv),
                                   left |-> IF tv > 0 THEN tv ELSE old.left, res |-> old.res]
      BY <2>3 DEF Reads!Added, Waiting, Recorded
    <3> QED
      BY <3>1, <3>2
  <2>5. e = ev1 => old.res = {}
    BY DEF Waiting, Reads!main_loop
  <2> HIDE DEF old, tv
  <2> QED
    BY <2>1, <2>2, <2>3, <2>4, <2>5
<1>2. DOMAIN new_ev' = Sockets /\ new_ev' = [e \in Sockets |-> new_ev'[e]]
  BY DEF Reads!main_loop, Reads!Made
<1>3. Recorded'
  BY <1>1, <1>2 DEF Recorded
<1>4. new_ev'[ev1].res = {} /\ new_ev'[ev1].left = five_second /\ quiet' = 0
  BY <1>1 DEF Reads!main_loop
<1> QED
  BY <1>3, <1>4 DEF Waiting, Told, Reads!main_loop

LEMMA DemoLoops == ASSUME Waiting, Reads!Loop PROVE Waiting'
<1> USE PartsAssumption DEF Sockets, Event
<1>1. CASE Reads!LoopWait
  <2>1. \A e \in Sockets : Reads!Fds(e) \in SUBSET {"read", "write"}
    BY DEF Reads!Fds, Reads!Wants, Reads!Made
  <2>2. Recorded'
    BY <1>1, <2>1 DEF Reads!LoopWait, Reads!Made, Waiting, Recorded
  <2>3. "timeout" \in new_ev'[ev1].res =>
          "timeout" \in new_ev[ev1].res \/ ("timeout" \in new_ev[ev1].flags /\ new_ev[ev1].left = 0)
    BY <1>1, <2>1 DEF Reads!LoopWait, Reads!Made, Reads!Expired
  <2>4. new_ev'[ev1].left = new_ev[ev1].left /\
        ("timeout" \in new_ev'[ev1].flags => "timeout" \in new_ev[ev1].flags)
    BY <1>1 DEF Reads!LoopWait, Reads!Made
  <2>5. new_pc = "loop"
    BY <1>1 DEF Waiting, Reads!LoopWait
  <2> QED
    BY <2>2, <2>3, <2>4, <2>5 DEF Waiting, Told, Reads!Loop
<1>2. CASE Reads!LoopTop
  BY <1>2 DEF Reads!LoopTop, Reads!Loop, Waiting, Recorded, Told
<1> QED
  BY <1>1, <1>2 DEF Reads!Loop

LEMMA DemoCalls == ASSUME Waiting, NEW e \in Sockets, Reads!cb(e) PROVE Waiting'
<1> USE PartsAssumption DEF Sockets, Event
<1>1. new_pc = "loop" /\ new_pc' = new_pc
  BY DEF Waiting, Reads!cb, Reads!LoopRun
<1>2. PICK left \in Reads!Restarts(e) :
        new_ev' = [new_ev EXCEPT ![e] = [flags |-> Reads!Stays(e),
                                         left |-> left, res |-> {}]]
  BY DEF Reads!cb, Reads!LoopRun, Reads!Wants, Reads!Made
<1>3. Reads!Intervals[e] = IF e = ev1 THEN five_second ELSE 0
  BY DEF Reads!Intervals, Reads!Made
<1>4. /\ left \in 0 .. five_second
      /\ e = ev1 /\ "timeout" \notin new_ev[e].res => left = five_second
  BY <1>3 DEF Reads!Restarts
<1>5. Recorded'
  <2>1. Reads!Stays(e) \in SUBSET {"timeout", "inserted", "active"}
    BY DEF Reads!Stays, Reads!AddFlags
  <2> QED
    BY <1>2, <1>4, <2>1 DEF Waiting, Recorded
<1>6. /\ quiet' \in {0, quiet}
      /\ e # ev1 \/ new_ev[e].res # {"read"} => quiet' = quiet
  BY DEF Reads!cb
<1>7. quiet' \in 0 .. five_second
  BY <1>6 DEF Waiting
<1>8. CASE e = ev1
  <2>1. new_ev'[ev1].res = {} /\ new_ev'[ev1].left = left
    BY <1>2, <1>8 DEF Waiting, Recorded
  <2>2. CASE "timeout" \in new_ev[e].res
    <3>1. quiet' = five_second
      BY <1>6, <1>8, <2>2 DEF Waiting, Told
    <3> QED
      BY <1>1, <1>4, <1>5, <1>7, <2>1, <3>1 DEF Waiting, Told
  <2>3. CASE "timeout" \notin new_ev[e].res
    BY <1>1, <1>4, <1>5, <1>7, <1>8, <2>1, <2>3 DEF Waiting, Told
  <2> QED
    BY <2>2, <2>3
<1>9. CASE e = ev2
  <2>1. new_ev'[ev1] = new_ev[ev1] /\ quiet' = quiet
    BY <1>6, <1>2, <1>9 DEF Waiting, Recorded
  <2> QED
    BY <1>1, <1>5, <1>7, <2>1 DEF Waiting, Told
<1> QED
  BY <1>8, <1>9

LEMMA DemoWaits == ASSUME Waiting, Reads!Second PROVE Waiting'
<1> USE PartsAssumption DEF Sockets, Event
<1>1. \A e \in Sockets : /\ new_ev'[e].flags = new_ev[e].flags /\ new_ev'[e].res = new_ev[e].res
                         /\ new_ev'[e].left = IF new_ev[e].left > 0 THEN new_ev[e].left - 1 ELSE 0
  BY DEF Reads!Second, Reads!Elapsed, Reads!Made, Waiting, Recorded
<1>2. Recorded'
  BY DEF Reads!Second, Reads!Elapsed, Reads!Made, Waiting, Recorded
<1>3. quiet' \in 0 .. five_second
  BY DEF Reads!Second, Waiting
<1>4. Told(new_ev[ev1])'
  <2>1. new_ev[ev1].left \in Nat /\ quiet \in 0 .. five_second
    BY DEF Waiting, Recorded
  <2>2. CASE quiet = five_second
    BY <1>1, <1>2, <2>1, <2>2 DEF Told, Waiting, Recorded, Reads!Second
  <2>3. CASE quiet < five_second
    BY <1>1, <2>1, <2>3 DEF Told, Waiting, Reads!Second
  <2> QED
    BY <2>1, <2>2, <2>3
<1> QED
  BY <1>1, <1>2, <1>3, <1>4 DEF Waiting, Reads!Second

LEMMA WaitingStep == Waiting /\ [Reads!Next]_Reads!vars => Waiting'
<1> SUFFICES ASSUME Waiting, [Reads!Next]_Reads!vars PROVE Waiting'
  OBVIOUS
<1>1. CASE UNCHANGED Reads!vars \/ Reads!NoMemory \/ Reads!Fd
  BY <1>1 DEF Reads!vars, Reads!NoMemory, Reads!Fd, Reads!FdChanges, Waiting, Recorded, Told
<1> QED
  BY <1>1, DemoStarts, DemoLoops, DemoCalls, DemoWaits DEF Reads!Next, Reads!Made, Sockets

LEMMA WaitingAlways == Spec => []Waiting
  BY ReadsRun, WaitingInit, WaitingStep, PTL DEF Reads!Spec

(* "timeout" is printed of the read event only when the loop has not found *)
(* its socket readable in time for five seconds.                           *)
THEOREM TimeoutsAreSilence == Spec => TimeoutMeansSilence
<1>1. Waiting => [Reads!cb(ev1) /\ "timeout" \in new_ev[ev1].res => quiet = five_second]_Reads!vars
  BY DEF Waiting, Told
<1> QED
  BY <1>1, WaitingAlways, PTL DEF TimeoutMeansSilence, Reads!TimeoutMeansSilence

------------------------------------------------------------------------------
(* The ticks: a loopexit is one event, which is pending until its ten      *)
(* seconds are over, then active until its callback ends the loop.         *)
LEMMA TicksRun == Spec => Ticks!Spec
<1>1. Init => Ticks!Init
  BY DEF Init
<1>2. [Next]_vars => [Ticks!Next]_Ticks!vars
  BY DEF Next, vars, ticks, InKinds, InTime, InLoop, InNew, InList, Ticks!vars
<1> QED
  BY <1>1, <1>2, PTL DEF Spec, Ticks!Spec

Timers == Watchdogs \union Onces

Ticking ==
  /\ loop_ev \in [Timers -> Event]
  /\ loop_base \in [gotterm : BOOLEAN, broken : BOOLEAN, at : {"out", "top", "wait", "run"}]
  /\ breaks \in Nat /\ since \in 0 .. ten_sec
  /\ \A o \in Onces : "inserted" \notin loop_ev[o].flags

LEMMA TickingInit == Ticks!Init => Ticking
  BY PartsAssumption
  DEF Ticks!Init, Ticks!BaseInit, Ticks!NewBase, Ticks!NewEvent, Ticks!Made,
      Ticking, Timers, Event

LEMMA AddsOne ==
  ASSUME Ticking, NEW e \in Timers, NEW tv \in Nat
  PROVE  Ticks!Added(e, tv) =
           [loop_ev EXCEPT ![e] = [flags |-> loop_ev[e].flags \union Ticks!AddFlags(e, tv),
                                   left |-> IF tv > 0 THEN tv ELSE loop_ev[e].left,
                                   res |-> loop_ev[e].res]]
<1> DEFINE old == loop_ev[e]
           one == [flags |-> old.flags \union Ticks!AddFlags(e, tv),
                   left |-> IF tv > 0 THEN tv ELSE old.left, res |-> old.res]
           all == Ticks!Added(e, tv)
<1>1. loop_ev \in [Timers -> Event] /\ old \in Event
  BY DEF Ticking
<1>2. all = [x \in Timers |-> all[x]]
  BY <1>1 DEF Ticks!Added
<1>3. all[e] = one
  BY <1>1 DEF Ticks!Added, Event
<1>4. \A x \in Timers \ {e} : all[x] = loop_ev[x]
  BY <1>1 DEF Ticks!Added
<1> HIDE DEF all, one
<1>5. all = [loop_ev EXCEPT ![e] = one]
  BY <1>1, <1>2, <1>3, <1>4
<1> QED
  BY <1>5 DEF all, one

(* What an event waits for, and for how long. *)
LEMMA Waited ==
  /\ \A w \in Watchdogs : Ticks!AddFlags(w, 0) = {"inserted"}
  /\ \A o \in Onces : /\ Ticks!Intervals[o] = ten_sec
                      /\ Ticks!AddFlags(o, Ticks!Intervals[o]) = {"timeout"}
  /\ \A o \in Onces : Ticks!Fds(o) = {} /\ o \notin Watchdogs
  /\ \A e \in Timers : Ticks!Fds(e) \in SUBSET {"read"} /\ "persist" \notin Ticks!Wants[e]
<1> USE PartsAssumption DEF Timers, Ticks!Made
<1>1. /\ \A w \in Watchdogs : w \in Timers /\ Ticks!Wants[w] = {"read"}
      /\ \A o \in Onces : o \in Timers /\ o \notin Watchdogs /\ Ticks!Wants[o] = {}
      /\ \A o \in Onces : Ticks!Intervals[o] = ten_sec
  BY DEF Ticks!Wants, Ticks!Intervals
<1>2. /\ \A w \in Watchdogs : Ticks!Fds(w) = {"read"}
      /\ \A o \in Onces : Ticks!Fds(o) = {}
  BY <1>1 DEF Ticks!Fds
<1> QED
  BY <1>1, <1>2 DEF Ticks!AddFlags

LEMMA WatchIs ==
  ASSUME Ticking, NEW w \in Watchdogs, Ticks!Watch(w)
  PROVE  /\ loop_ev' \in [Timers -> Event]
         /\ \A o \in Onces : loop_ev'[o] = loop_ev[o]
<1> USE DEF Timers, Event
<1>1. loop_ev' = [loop_ev EXCEPT ![w] = [flags |-> loop_ev[w].flags \union {"inserted"},
                                         left |-> loop_ev[w].left, res |-> loop_ev[w].res]]
  BY AddsOne, Waited DEF Ticks!Watch
<1> QED
  BY <1>1, Waited DEF Ticking

LEMMA TurnIs ==
  ASSUME Ticking, NEW o \in Onces, Ticks!Free(o), loop_ev' = Ticks!Added(o, Ticks!Intervals[o])
  PROVE  /\ loop_ev' \in [Timers -> Event]
         /\ loop_ev'[o].flags = {"timeout"} /\ loop_ev'[o].left = ten_sec
         /\ \A x \in Timers \ {o} : loop_ev'[x] = loop_ev[x]
<1> USE PartsAssumption DEF Timers, Event
<1>1. loop_ev' = [loop_ev EXCEPT ![o] = [flags |-> loop_ev[o].flags \union {"timeout"},
                                         left |-> ten_sec, res |-> loop_ev[o].res]]
  <2>1. /\ o \in Timers /\ Ticks!Intervals[o] = ten_sec
        /\ Ticks!AddFlags(o, Ticks!Intervals[o]) = {"timeout"}
    BY Waited
  <2>2. ten_sec \in Nat /\ ten_sec > 0
    OBVIOUS
  <2> QED
    BY <2>1, <2>2, AddsOne
<1>2. loop_ev[o].flags = {}
  BY DEF Ticks!Free, Ticks!Pending, Ticks!Active, Ticks!Made, Ticking
<1> QED
  BY <1>1, <1>2 DEF Ticking

LEMMA RunIs ==
  ASSUME Ticking, NEW e \in Timers, Ticks!Run(e)
  PROVE  /\ loop_ev' \in [Timers -> Event]
         /\ loop_ev'[e].flags = {}
         /\ \A x \in Timers \ {e} : loop_ev'[x] = loop_ev[x]
<1> USE DEF Timers, Event
<1>1. loop_ev' = [loop_ev EXCEPT ![e] = [flags |-> {}, left |-> 0, res |-> {}]]
  BY Waited DEF Ticks!Run, Ticks!LoopRun, Ticks!NewEvent
<1> QED
  BY <1>1 DEF Ticking

LEMMA SleepIs ==
  ASSUME Ticking, Ticks!LoopWait
  PROVE  /\ loop_ev' \in [Timers -> Event]
         /\ \A o \in Onces :
              LET due == "timeout" \in loop_ev[o].flags /\ loop_ev[o].left = 0
              IN  /\ loop_ev'[o].flags = IF due THEN (loop_ev[o].flags \ {"timeout"}) \union {"active"}
                                                ELSE loop_ev[o].flags
                  /\ loop_ev'[o].left = loop_ev[o].left
<1> USE DEF Timers, Event, Ticks!Made
<1>1. loop_ev' \in [Timers -> Event]
  BY Waited DEF Ticks!LoopWait, Ticking
<1>2. ASSUME NEW o \in Onces
      PROVE  /\ o \in Timers /\ o \notin Ticks!Triggered
             /\ o \in Ticks!Expired <=> "timeout" \in loop_ev[o].flags /\ loop_ev[o].left = 0
  BY DEF Ticks!Triggered, Ticks!Expired, Ticking
<1>3. ASSUME NEW o \in Onces, NEW due, due = ("timeout" \in loop_ev[o].flags /\ loop_ev[o].left = 0)
      PROVE  /\ loop_ev'[o].flags = IF due THEN (loop_ev[o].flags \ {"timeout"}) \union {"active"}
                                           ELSE loop_ev[o].flags
             /\ loop_ev'[o].left = loop_ev[o].left
  <2>1. /\ loop_ev'[o].left = loop_ev[o].left
        /\ loop_ev'[o].flags =
             (loop_ev[o].flags \union {f \in {"active"} : o \in Ticks!Triggered \union Ticks!Expired})
               \ {f \in {"timeout"} : o \in Ticks!Expired}
    BY <1>2 DEF Ticks!LoopWait
  <2>2. CASE o \in Ticks!Expired
    BY <1>2, <1>3, <2>1, <2>2
  <2>3. CASE o \notin Ticks!Expired
    BY <1>2, <1>3, <2>1, <2>3
  <2> QED
    BY <2>2, <2>3
<1> QED
  BY <1>1, <1>3

LEMMA SecondIs ==
  ASSUME Ticking, Ticks!Second
  PROVE  /\ loop_ev' \in [Timers -> Event]
         /\ \A o \in Onces : /\ loop_ev'[o].flags = loop_ev[o].flags
                             /\ loop_ev'[o].left = IF loop_ev[o].left > 0 THEN loop_ev[o].left - 1 ELSE 0
  BY DEF Ticks!Second, Ticks!Elapsed, Ticks!Made, Timers, Event, Ticking

LEMMA TickingStep == Ticking /\ [Ticks!Next]_Ticks!vars => Ticking'
<1> SUFFICES ASSUME Ticking, [Ticks!Next]_Ticks!vars PROVE Ticking'
  OBVIOUS
<1> DEFINE Bases == [gotterm : BOOLEAN, broken : BOOLEAN, at : {"out", "top", "wait", "run"}]
<1>1. /\ loop_ev \in [Timers -> Event] /\ loop_base \in Bases /\ breaks \in Nat
      /\ since \in 0 .. ten_sec /\ ten_sec \in Nat
  BY PartsAssumption DEF Ticking
<1>2. Ticks!Entered \in Bases
  BY DEF Ticks!Entered
<1>3. CASE \E w \in Watchdogs : Ticks!AddWatchdog(w) \/ Ticks!main_loop(w)
  BY <1>1, <1>2, <1>3, WatchIs DEF Ticking, Ticks!AddWatchdog, Ticks!main_loop
<1>4. CASE Ticks!Turn
  BY <1>1, <1>2, <1>4, TurnIs DEF Ticking, Ticks!Turn, Timers
<1>5. CASE Ticks!Loop
  <2>1. loop_base' \in Bases
    BY <1>1, <1>5 DEF Ticks!Loop, Ticks!LoopTop, Ticks!LoopWait
  <2>2. CASE Ticks!LoopWait
    <3>1. ASSUME NEW o \in Onces PROVE "inserted" \notin loop_ev'[o].flags
      <4>1. loop_ev'[o].flags \in {loop_ev[o].flags,
                                   (loop_ev[o].flags \ {"timeout"}) \union {"active"}}
        BY <2>2, SleepIs
      <4>2. "inserted" \notin loop_ev[o].flags
        BY DEF Ticking
      <4> QED
        BY <4>1, <4>2
    <3> QED
      BY <1>1, <1>5, <2>1, <2>2, <3>1, SleepIs DEF Ticking, Ticks!Loop
  <2>3. CASE Ticks!LoopTop
    BY <1>1, <1>5, <2>1, <2>3 DEF Ticking, Ticks!Loop, Ticks!LoopTop
  <2> QED
    BY <1>5, <2>2, <2>3 DEF Ticks!Loop
<1>6. ASSUME NEW e \in Timers, Ticks!Run(e) PROVE Ticking'
  <2>1. Ticks!Callback(e) \in Bases
    BY <1>1 DEF Ticks!Callback
  <2>2. loop_base' \in Bases
    BY <1>6, <2>1 DEF Ticks!Run, Ticks!LoopRun
  <2>3. breaks' \in Nat /\ since' = since
    BY <1>1, <1>6 DEF Ticks!Run
  <2>4. \A o \in Onces : "inserted" \notin loop_ev'[o].flags
    BY <1>6, RunIs DEF Ticking, Timers
  <2> QED
    BY <1>1, <1>6, <2>2, <2>3, <2>4, RunIs DEF Ticking
<1>7. CASE Ticks!Second
  BY <1>1, <1>7, SecondIs DEF Ticking, Ticks!Second
<1>8. CASE /\ \/ UNCHANGED Ticks!vars \/ Ticks!main_loop_Returns \/ Ticks!NoMemory
              \/ Ticks!run_base_with_ticks \/ Ticks!TurnFails \/ Ticks!Tick \/ Ticks!Fd
  <2>1. loop_ev' = loop_ev /\ breaks' = breaks /\ since' \in {0, since}
    BY <1>8 DEF Ticks!vars, Ticks!main_loop_Returns, Ticks!NoMemory, Ticks!run_base_with_ticks,
                Ticks!TurnFails, Ticks!Tick, Ticks!Fd, Ticks!FdChanges
  <2>2. loop_base' \in {loop_base, Ticks!Entered, [loop_base EXCEPT !.at = "out"]}
    BY <1>8 DEF Ticks!vars, Ticks!main_loop_Returns, Ticks!NoMemory, Ticks!run_base_with_ticks,
                Ticks!TurnFails, Ticks!Tick, Ticks!Fd, Ticks!FdChanges
  <2>3. loop_base' \in Bases
    BY <1>1, <1>2, <2>2
  <2> QED
    BY <1>1, <2>1, <2>3 DEF Ticking
<1> QED
  BY <1>3, <1>4, <1>5, <1>6, <1>7, <1>8 DEF Ticks!Next, Ticks!Program, Ticks!Made, Timers

(* How many loopexits there are: one for the turn that runs, and one for   *)
(* each break, since a turn is over as soon as its own has run.            *)
Left    == {o \in Onces : loop_ev[o].flags # {}}
Turning == loop_pc = "ticks" /\ ~loop_base.gotterm /\ ~loop_base.broken

Counted ==
  /\ IsFiniteSet(Left)
  /\ Cardinality(Left) <= breaks + (IF Turning THEN 1 ELSE 0)
  /\ loop_pc \in {"start", "watch", "fault"} => Left = {}
  /\ Turning /\ set => Left # {}

LEMMA CountedInit == Ticks!Init => Counted
<1> SUFFICES ASSUME Ticks!Init PROVE Counted
  OBVIOUS
<1>1. Left = {} /\ breaks = 0 /\ loop_pc = "start"
  BY DEF Ticks!Init, Ticks!BaseInit, Ticks!NewEvent, Ticks!Made, Left
<1>2. IsFiniteSet(Left) /\ Cardinality(Left) = 0
  BY <1>1, FS_EmptySet
<1> QED
  BY <1>1, <1>2 DEF Counted, Turning

LEMMA CountStays ==
  ASSUME Ticking, Counted, Left' = Left, breaks' = breaks,
         Turning => Turning' \/ Left = {},
         loop_pc' \in {"start", "watch", "fault"} => loop_pc \in {"start", "watch", "fault"},
         Turning' /\ set' => Turning /\ set
  PROVE  Counted'
<1>1. Cardinality(Left) \in Nat /\ breaks \in Nat
  BY FS_CardinalityType DEF Counted, Ticking
<1>2. Left = {} => Cardinality(Left) = 0
  BY FS_EmptySet
<1>3. Cardinality(Left) <= breaks + (IF Turning' THEN 1 ELSE 0)
  BY <1>1, <1>2 DEF Counted
<1> QED
  BY <1>3 DEF Counted

LEMMA SameLoopexits ==
  ASSUME Ticking, \A o \in Onces : loop_ev'[o].flags = {} <=> loop_ev[o].flags = {}
  PROVE  Left' = Left
  BY DEF Left

LEMMA CountedTurn == ASSUME Ticking, Counted, Ticks!Turn PROVE Counted'
<1>1. PICK o \in Onces : Ticks!Free(o) /\ loop_ev' = Ticks!Added(o, Ticks!Intervals[o])
  BY DEF Ticks!Turn
<1>2. loop_ev[o].flags = {}
  BY <1>1 DEF Ticks!Free, Ticks!Pending, Ticks!Active, Ticks!Made, Ticking, Event, Timers
<1>3. Left' = Left \union {o} /\ o \notin Left
  BY <1>1, <1>2, TurnIs DEF Left, Timers
<1>4. IsFiniteSet(Left \union {o}) /\ Cardinality(Left \union {o}) = Cardinality(Left) + 1
  BY <1>3, FS_AddElement DEF Counted
<1>5. /\ loop_pc = "turn" /\ loop_pc' = "ticks" /\ breaks' = breaks
      /\ loop_base' = Ticks!Entered
  BY DEF Ticks!Turn
<1>6. Turning' /\ ~Turning
  BY <1>5 DEF Turning, Ticks!Entered
<1>7. Cardinality(Left) \in Nat /\ breaks \in Nat
  BY FS_CardinalityType DEF Counted, Ticking
<1>8. Cardinality(Left') <= breaks' + 1
  BY <1>3, <1>4, <1>5, <1>6, <1>7 DEF Counted
<1> QED
  BY <1>3, <1>4, <1>5, <1>6, <1>8 DEF Counted

LEMMA CountedRun == ASSUME Ticking, Counted, NEW e \in Timers, Ticks!Run(e) PROVE Counted'
<1>0. loop_pc' = loop_pc /\ set' = set /\ loop_pc # "fault"
  BY DEF Ticks!Run
<1>1. Cardinality(Left) \in Nat /\ breaks \in Nat
  BY FS_CardinalityType DEF Counted, Ticking
<1>2. CASE e \in Watchdogs
  <2>1. Left' = Left
    BY <1>2, RunIs, Waited DEF Left, Timers
  <2>2. ~Turning' /\ (Turning => breaks' = breaks + 1) /\ breaks' >= breaks /\ breaks' \in Nat
    <3>1. loop_base'.broken = TRUE
      BY <1>2 DEF Ticks!Run, Ticks!LoopRun, Ticks!Callback, Ticking
    <3>2. breaks' = IF loop_pc = "ticks" THEN breaks + 1 ELSE breaks
      BY <1>2 DEF Ticks!Run
    <3> QED
      BY <1>1, <3>1, <3>2 DEF Turning
  <2>3. Cardinality(Left) <= breaks'
    BY <1>1, <2>2 DEF Counted
  <2> QED
    BY <1>0, <2>1, <2>2, <2>3 DEF Counted
<1>3. CASE e \in Onces
  <2>1. "active" \in loop_ev[e].flags /\ e \in Left
    BY <1>3 DEF Ticks!Run, Ticks!LoopRun, Ticks!Active, Left
  <2>2. Left' = Left \ {e}
    BY <1>3, RunIs DEF Left, Timers
  <2>3. IsFiniteSet(Left \ {e}) /\ Cardinality(Left \ {e}) = Cardinality(Left) - 1
    BY <2>1, FS_RemoveElement DEF Counted
  <2>4. ~Turning' /\ breaks' = breaks
    <3>1. e \notin Watchdogs
      BY <1>3, Waited
    <3>2. loop_base'.gotterm = TRUE
      BY <3>1 DEF Ticks!Run, Ticks!LoopRun, Ticks!Callback, Ticking
    <3> QED
      BY <3>1, <3>2 DEF Turning, Ticks!Run
  <2>5. Cardinality(Left \ {e}) <= breaks
    BY <1>1, <2>3 DEF Counted
  <2>6. IsFiniteSet(Left') /\ Cardinality(Left') <= breaks'
    BY <2>2, <2>3, <2>4, <2>5
  <2>7. loop_pc' \in {"start", "watch", "fault"} => Left' = {}
    BY <1>0, <2>1, <2>2 DEF Counted
  <2>8. breaks' + 0 = breaks'
    BY <1>1, <2>4
  <2> QED
    BY <2>4, <2>6, <2>7, <2>8 DEF Counted
<1> QED
  BY <1>2, <1>3 DEF Timers

LEMMA CountedTick == ASSUME Ticking, Counted, Ticks!Tick PROVE Counted'
<1>1. Left' = Left
  BY DEF Ticks!Tick, Left
<1>2. Turning => Left = {}
  <2>1. Turning => \A o \in Onces : o \notin Ticks!Active /\ ~Ticks!Pending(o)
    BY DEF Ticks!Tick, Ticks!Leaves, Turning, Ticks!Made
  <2> QED
    BY <2>1 DEF Left, Ticks!Active, Ticks!Pending, Ticks!Made, Ticking, Event, Timers
<1> QED
  BY <1>1, <1>2, CountStays DEF Ticks!Tick, Turning

LEMMA CountedStep == Ticking /\ Counted /\ [Ticks!Next]_Ticks!vars => Counted'
<1> SUFFICES ASSUME Ticking, Counted, [Ticks!Next]_Ticks!vars PROVE Counted'
  OBVIOUS
<1>1. CASE \E w \in Watchdogs : Ticks!AddWatchdog(w) \/ Ticks!main_loop(w)
  <2>1. Left' = Left
    BY <1>1, WatchIs, SameLoopexits DEF Ticks!AddWatchdog, Ticks!main_loop
  <2> QED
    BY <1>1, <2>1, CountStays DEF Ticks!AddWatchdog, Ticks!main_loop, Turning
<1>2. CASE Ticks!Loop
  <2>1. CASE Ticks!LoopWait
    <3>1. Left' = Left
      BY <2>1, SleepIs, SameLoopexits
    <3>2. Turning' <=> Turning
      BY <1>2, <2>1 DEF Ticks!Loop, Ticks!LoopWait, Turning, Ticking
    <3> QED
      BY <1>2, <3>1, <3>2, CountStays DEF Ticks!Loop
  <2>2. CASE Ticks!LoopTop
    <3>1. Left' = Left
      BY <2>2 DEF Ticks!LoopTop, Left
    <3>2. Turning' <=> Turning
      BY <1>2, <2>2 DEF Ticks!Loop, Ticks!LoopTop, Turning, Ticking
    <3> QED
      BY <1>2, <3>1, <3>2, CountStays DEF Ticks!Loop
  <2> QED
    BY <1>2, <2>1, <2>2 DEF Ticks!Loop
<1>3. CASE Ticks!Second
  <2>1. Left' = Left
    BY <1>3, SecondIs, SameLoopexits
  <2> QED
    BY <1>3, <2>1, CountStays DEF Ticks!Second, Turning
<1>4. CASE /\ \/ UNCHANGED Ticks!vars \/ Ticks!NoMemory \/ Ticks!Fd \/ Ticks!TurnFails
              \/ Ticks!main_loop_Returns \/ Ticks!run_base_with_ticks
  <2>1. Left' = Left /\ breaks' = breaks
    BY <1>4 DEF Ticks!vars, Ticks!NoMemory, Ticks!Fd, Ticks!FdChanges, Ticks!TurnFails,
                Ticks!main_loop_Returns, Ticks!run_base_with_ticks, Left
  <2>2. /\ Turning => Turning'
        /\ Turning' /\ set' => Turning /\ set
    BY <1>4 DEF Ticks!vars, Ticks!NoMemory, Ticks!Fd, Ticks!FdChanges, Ticks!TurnFails,
                Ticks!main_loop_Returns, Ticks!run_base_with_ticks, Turning
  <2>3. loop_pc' \in {"start", "watch", "fault"} => loop_pc \in {"start", "watch", "fault"}
    BY <1>4 DEF Ticks!vars, Ticks!NoMemory, Ticks!Fd, Ticks!FdChanges, Ticks!TurnFails,
                Ticks!main_loop_Returns, Ticks!run_base_with_ticks
  <2> QED
    BY <2>1, <2>2, <2>3, CountStays
<1> QED
  BY <1>1, <1>2, <1>3, <1>4, CountedTurn, CountedRun, CountedTick
  DEF Ticks!Next, Ticks!Program, Ticks!Made, Timers

LEMMA CountedAlways == Spec => [](Ticking /\ Counted)
  BY TicksRun, TickingInit, CountedInit, TickingStep, CountedStep, PTL DEF Ticks!Spec

(* No turn has more loopexits than there were breaks, besides its own, and *)
(* one whose loopexit did not fail has one until the loop is told to end.  *)
THEOREM LeftoversAreFew == Spec => []Leftovers
<1>1. Ticking /\ Counted => Leftovers
  <2> SUFFICES ASSUME Ticking, Counted PROVE Leftovers
    OBVIOUS
  <2>1. Ticks!Pendings = Left
    BY DEF Ticks!Pendings, Ticks!Pending, Ticks!Active, Ticks!Made, Left, Ticking, Event, Timers
  <2>2. Cardinality(Left) <= 1 + breaks
    BY FS_CardinalityType DEF Counted, Ticking
  <2>3. loop_pc = "ticks" /\ set /\ ~loop_base.gotterm /\ ~loop_base.broken => Left # {}
    BY DEF Counted, Turning
  <2> QED
    BY <2>1, <2>2, <2>3 DEF Leftovers, Ticks!Leftovers, Cardinality, Ticks!Cardinality
<1> QED
  BY <1>1, CountedAlways, PTL

(* The loopexits that may end a turn before ten seconds are over.  They,   *)
(* the turns they have ended, and the turn that is about to end are no     *)
(* more than there were breaks: what a turn adds comes too late to count.  *)
Soon   == {o \in Left : "active" \in loop_ev[o].flags \/ loop_ev[o].left + since < ten_sec}
Ending == loop_pc = "ticks" /\ set /\ ~Turning

Spaced ==
  /\ count \in Nat /\ count <= breaks
  /\ since < ten_sec => count + Cardinality(Soon) + (IF Ending THEN 1 ELSE 0) <= breaks

LEMMA SoonFinite == Counted => /\ IsFiniteSet(Soon) /\ Cardinality(Soon) \in Nat
                               /\ Cardinality(Soon) <= Cardinality(Left)
  BY FS_Subset, FS_CardinalityType DEF Counted, Soon

LEMMA SpacedStays ==
  ASSUME Ticking, Counted, Spaced, count' = count, breaks' = breaks,
         since' < ten_sec => since < ten_sec /\ Soon' \subseteq Soon,
         Ending' => Ending
  PROVE  Spaced'
<1>1. Cardinality(Soon) \in Nat /\ breaks \in Nat /\ count \in Nat /\ count <= breaks
  BY SoonFinite DEF Ticking, Spaced
<1>2. since' < ten_sec => Cardinality(Soon') \in Nat /\ Cardinality(Soon') <= Cardinality(Soon)
  BY SoonFinite, FS_Subset, FS_CardinalityType
<1>3. since' < ten_sec => count + Cardinality(Soon) + (IF Ending THEN 1 ELSE 0) <= breaks
  BY DEF Spaced
<1>4. since' < ten_sec => count' + Cardinality(Soon') + (IF Ending' THEN 1 ELSE 0) <= breaks'
  BY <1>1, <1>2, <1>3
<1> QED
  BY <1>1, <1>4 DEF Spaced

(* A step that leaves the loopexits and the histories as they are.         *)
LEMMA SpacedSame ==
  ASSUME Ticking, Counted, Spaced, UNCHANGED <<since, count, breaks>>,
         \A o \in Onces : loop_ev'[o] = loop_ev[o],
         Ending' => Ending
  PROVE  Spaced'
<1>1. Soon' = Soon
  BY DEF Soon, Left
<1> QED
  BY <1>1, SpacedStays

LEMMA SpacedTurn == ASSUME Ticking, Counted, Spaced, Ticks!Turn PROVE Spaced'
<1>1. PICK o \in Onces : Ticks!Free(o) /\ loop_ev' = Ticks!Added(o, Ticks!Intervals[o])
  BY DEF Ticks!Turn
<1>2. /\ loop_ev'[o].flags = {"timeout"} /\ loop_ev'[o].left = ten_sec
      /\ \A x \in Onces : x # o => loop_ev'[x] = loop_ev[x]
  BY <1>1, TurnIs DEF Timers
<1>3. since' = since /\ count' = count /\ breaks' = breaks /\ ~Ending'
  BY DEF Ticks!Turn, Ticks!Entered, Ending, Turning
<1>4. since' \in Nat /\ ten_sec \in Nat
  BY <1>3, PartsAssumption DEF Ticking
<1>5. o \notin Soon'
  BY <1>2, <1>4 DEF Soon
<1>6. Soon' \subseteq Soon
  BY <1>2, <1>3, <1>5 DEF Soon, Left
<1> QED
  BY <1>3, <1>6, SpacedStays

LEMMA SpacedRun == ASSUME Ticking, Counted, Spaced, NEW e \in Timers, Ticks!Run(e) PROVE Spaced'
<1>1. loop_pc' = loop_pc /\ UNCHANGED <<since, count, set>>
  BY DEF Ticks!Run
<1>2. Cardinality(Soon) \in Nat /\ breaks \in Nat /\ count \in Nat /\ count <= breaks
  BY SoonFinite DEF Ticking, Spaced
<1>3. CASE e \in Watchdogs
  <2>1. \A o \in Onces : loop_ev'[o] = loop_ev[o]
    BY <1>3, RunIs, Waited DEF Timers
  <2>2. CASE loop_pc = "ticks"
    <3>1. breaks' = breaks + 1
      BY <1>3, <2>2 DEF Ticks!Run
    <3>2. Soon' = Soon
      BY <1>1, <2>1 DEF Soon, Left
    <3>3. since < ten_sec => count + Cardinality(Soon) <= breaks
      BY <1>2 DEF Spaced
    <3>4. since' < ten_sec => count' + Cardinality(Soon') + (IF Ending' THEN 1 ELSE 0) <= breaks'
      BY <1>1, <1>2, <3>1, <3>2, <3>3
    <3> QED
      BY <1>1, <1>2, <3>1, <3>4 DEF Spaced
  <2>3. CASE loop_pc # "ticks"
    <3>1. breaks' = breaks /\ ~Ending'
      BY <1>1, <2>3 DEF Ticks!Run, Ending
    <3> QED
      BY <1>1, <2>1, <3>1, SpacedSame
  <2> QED
    BY <2>2, <2>3
<1>4. CASE e \in Onces
  <2>1. "active" \in loop_ev[e].flags /\ e \in Soon
    BY <1>4 DEF Ticks!Run, Ticks!LoopRun, Ticks!Active, Left, Soon
  <2>2. loop_ev'[e].flags = {} /\ \A x \in Onces : x # e => loop_ev'[x] = loop_ev[x]
    BY <1>4, RunIs DEF Timers
  <2>3. Soon' = Soon \ {e}
    BY <1>1, <2>2 DEF Left, Soon
  <2>4. Cardinality(Soon \ {e}) = Cardinality(Soon) - 1
    BY <2>1, SoonFinite, FS_RemoveElement
  <2>5. breaks' = breaks
    BY <1>4, Waited DEF Ticks!Run
  <2>6. since < ten_sec => count + Cardinality(Soon) <= breaks
    BY <1>2 DEF Spaced
  <2>7. since' < ten_sec => count' + Cardinality(Soon') + (IF Ending' THEN 1 ELSE 0) <= breaks'
    BY <1>1, <1>2, <2>3, <2>4, <2>5, <2>6
  <2> QED
    BY <1>1, <1>2, <2>5, <2>7 DEF Spaced
<1> QED
  BY <1>3, <1>4 DEF Timers

LEMMA SpacedSleep == ASSUME Ticking, Counted, Spaced, Ticks!Loop, Ticks!LoopWait PROVE Spaced'
<1>1. UNCHANGED <<since, count, breaks, set, loop_pc>>
  BY DEF Ticks!Loop
<1>2. Ending' => Ending
  BY <1>1 DEF Ending, Turning, Ticks!LoopWait, Ticking
<1>3. ASSUME since < ten_sec, NEW o \in Soon' PROVE o \in Soon
  <2>1. o \in Onces
    BY DEF Soon, Left
  <2>2. o \in Left
    BY SleepIs, SameLoopexits DEF Soon
  <2>3. since \in 0 .. ten_sec /\ ten_sec \in Nat
    BY PartsAssumption DEF Ticking
  <2>4. CASE "timeout" \in loop_ev[o].flags /\ loop_ev[o].left = 0
    BY <1>3, <2>2, <2>3, <2>4 DEF Soon
  <2>5. CASE ~("timeout" \in loop_ev[o].flags /\ loop_ev[o].left = 0)
    <3>1. loop_ev'[o].flags = loop_ev[o].flags /\ loop_ev'[o].left = loop_ev[o].left
      BY <2>1, <2>5, SleepIs
    <3> QED
      BY <1>1, <2>2, <3>1 DEF Soon
  <2> QED
    BY <2>4, <2>5
<1> QED
  BY <1>1, <1>2, <1>3, SpacedStays

LEMMA SpacedSecond == ASSUME Ticking, Counted, Spaced, Ticks!Second PROVE Spaced'
<1>1. /\ since \in 0 .. ten_sec /\ ten_sec \in Nat
      /\ since' = IF since < ten_sec THEN since + 1 ELSE since
      /\ count' = IF since' < ten_sec THEN count ELSE 0
      /\ UNCHANGED <<breaks, set, loop_pc, loop_base>>
  BY PartsAssumption DEF Ticking, Ticks!Second
<1>2. CASE since' < ten_sec
  <2>1. since < ten_sec /\ since' = since + 1
    BY <1>1, <1>2
  <2>2. ASSUME NEW o \in Soon' PROVE o \in Soon
    <3>1. o \in Onces
      BY DEF Soon, Left
    <3>2. o \in Left
      BY SecondIs, SameLoopexits DEF Soon
    <3>3. loop_ev[o].left \in Nat
      BY <3>1 DEF Ticking, Timers, Event
    <3>4. /\ loop_ev'[o].flags = loop_ev[o].flags
          /\ loop_ev'[o].left = IF loop_ev[o].left > 0 THEN loop_ev[o].left - 1 ELSE 0
      BY <3>1, SecondIs
    <3>5. "active" \in loop_ev[o].flags \/ loop_ev'[o].left + since' < ten_sec
      BY <3>4 DEF Soon
    <3> QED
      BY <1>1, <2>1, <3>2, <3>3, <3>4, <3>5 DEF Soon
  <2>3. Ending' => Ending
    BY <1>1 DEF Ending, Turning
  <2> QED
    BY <1>1, <1>2, <2>1, <2>2, <2>3, SpacedStays
<1>3. CASE ~(since' < ten_sec)
  BY <1>1, <1>3 DEF Spaced, Ticking
<1> QED
  BY <1>2, <1>3

(* The turn that ends was counted as one about to; of what it leaves there *)
(* is no more than one for each break.                                     *)
LEMMA SpacedTick == ASSUME Ticking, Counted, Spaced, Ticks!Tick PROVE Spaced'
<1>1. loop_pc = "ticks" /\ ~Ending' /\ breaks' = breaks /\ loop_ev' = loop_ev
  BY DEF Ticks!Tick, Ending
<1>2. Turning => Left = {}
  <2>1. Turning => \A o \in Onces : o \notin Ticks!Active /\ ~Ticks!Pending(o)
    BY DEF Ticks!Tick, Ticks!Leaves, Turning, Ticks!Made
  <2> QED
    BY <2>1 DEF Left, Ticks!Active, Ticks!Pending, Ticks!Made, Ticking, Event, Timers
<1>3. /\ Cardinality(Soon) \in Nat /\ Cardinality(Left) \in Nat /\ breaks \in Nat
      /\ count \in Nat /\ count <= breaks
  BY SoonFinite, FS_CardinalityType DEF Counted, Ticking, Spaced
<1>4. CASE since' = 0 /\ count' = 0
  <2>1. Cardinality(Left) <= breaks
    BY <1>2, <1>3, FS_EmptySet DEF Counted
  <2>2. Left' = Left
    BY <1>1 DEF Left
  <2>3. Cardinality(Soon') <= Cardinality(Left) /\ Cardinality(Soon') \in Nat
    <3>1. Soon' \subseteq Left
      BY <2>2 DEF Soon
    <3> QED
      BY <3>1, FS_Subset, FS_CardinalityType DEF Counted
  <2>4. count' + Cardinality(Soon') + (IF Ending' THEN 1 ELSE 0) <= breaks'
    BY <1>1, <1>3, <1>4, <2>1, <2>3
  <2> QED
    BY <1>1, <1>3, <1>4, <2>4 DEF Spaced
<1>5. CASE since < ten_sec /\ since' = since /\ count' = IF set THEN count + 1 ELSE count
  <2>1. set => Ending
    BY <1>1, <1>2 DEF Ending, Counted
  <2>2. Soon' = Soon
    BY <1>1, <1>5 DEF Soon, Left
  <2>3. count + Cardinality(Soon) + (IF Ending THEN 1 ELSE 0) <= breaks
    BY <1>5 DEF Spaced
  <2>4. count' + Cardinality(Soon') <= breaks' /\ count' \in Nat
    BY <1>1, <1>3, <1>5, <2>1, <2>2, <2>3
  <2>5. count' + Cardinality(Soon') + (IF Ending' THEN 1 ELSE 0) <= breaks' /\ count' <= breaks'
    BY <1>1, <1>3, <2>2, <2>4
  <2> QED
    BY <2>4, <2>5 DEF Spaced
<1> QED
  BY <1>4, <1>5 DEF Ticks!Tick

LEMMA SpacedBegins == ASSUME Ticking, Counted, Spaced, Ticks!run_base_with_ticks PROVE Spaced'
<1>1. /\ loop_ev' = loop_ev /\ Left = {} /\ count' = count /\ breaks' = breaks /\ ~Ending'
  BY DEF Ticks!run_base_with_ticks, Counted, Ending
<1>2. Soon' = {}
  BY <1>1 DEF Soon, Left
<1>3. Cardinality(Soon') = 0
  BY <1>2, FS_EmptySet
<1>4. count \in Nat /\ breaks \in Nat /\ count <= breaks
  BY DEF Ticking, Spaced
<1>5. count' + Cardinality(Soon') + (IF Ending' THEN 1 ELSE 0) <= breaks'
  BY <1>1, <1>3, <1>4
<1> QED
  BY <1>1, <1>4, <1>5 DEF Spaced

LEMMA SpacedStep == Ticking /\ Counted /\ Spaced /\ [Ticks!Next]_Ticks!vars => Spaced'
<1> SUFFICES ASSUME Ticking, Counted, Spaced, [Ticks!Next]_Ticks!vars PROVE Spaced'
  OBVIOUS
<1>1. CASE \E w \in Watchdogs : Ticks!AddWatchdog(w) \/ Ticks!main_loop(w)
  <2>1. \A o \in Onces : loop_ev'[o] = loop_ev[o]
    BY <1>1, WatchIs DEF Ticks!AddWatchdog, Ticks!main_loop
  <2> QED
    BY <1>1, <2>1, SpacedSame DEF Ticks!AddWatchdog, Ticks!main_loop, Ending
<1>2. CASE Ticks!NoMemory \/ Ticks!TurnFails \/ Ticks!main_loop_Returns
  BY <1>2, SpacedSame DEF Ticks!NoMemory, Ticks!TurnFails, Ticks!main_loop_Returns, Ending
<1>3. CASE UNCHANGED Ticks!vars \/ Ticks!Fd
  BY <1>3, SpacedSame DEF Ending, Turning, Ticks!vars, Ticks!Fd, Ticks!FdChanges
<1>4. CASE Ticks!Loop /\ Ticks!LoopTop
  BY <1>4, SpacedSame DEF Ending, Turning, Ticks!Loop, Ticks!LoopTop, Ticking
<1> QED
  BY <1>1, <1>2, <1>3, <1>4, SpacedTurn, SpacedRun, SpacedSleep, SpacedSecond, SpacedTick,
     SpacedBegins
  DEF Ticks!Next, Ticks!Program, Ticks!Loop, Ticks!Made, Timers

LEMMA SpacedInit == Ticks!Init /\ Counted => Spaced
<1> SUFFICES ASSUME Ticks!Init, Counted PROVE Spaced
  OBVIOUS
<1>1. Left = {} /\ count = 0 /\ breaks = 0 /\ ~Ending
  BY DEF Ticks!Init, Counted, Ending
<1>2. Soon = {}
  BY <1>1 DEF Soon
<1>3. Cardinality(Soon) = 0
  BY <1>2, FS_EmptySet
<1> QED
  BY <1>1, <1>3 DEF Spaced

(* Within ten seconds of any tick no turn ends but one for each break so   *)
(* far, and but those whose loopexit failed.                               *)
THEOREM TicksAreSpaced == Spec => []TicksSpaced
<1>1. Spaced => TicksSpaced
  BY DEF Spaced, TicksSpaced, Ticks!TicksSpaced
<1> QED
  BY <1>1, TicksRun, TickingInit, CountedInit, SpacedInit, TickingStep, CountedStep, SpacedStep,
     PTL DEF Ticks!Spec

------------------------------------------------------------------------------
(* The check of a list.  A row is a list as far as its n-th element.       *)
LEMMA ListRuns == Spec => List!Spec
<1>1. Init => List!Init
  BY DEF Init, NoList, List!Init, List!Pointers, List!Cells
<1>2. [Next]_vars => [List!Next]_List!vars
  BY DEF Next, vars, list, InKinds, InTime, InLoop, InNew, InList, List!vars, List!list
<1> QED
  BY <1>1, <1>2, PTL DEF Spec, List!Spec

Row(n, s) ==
  /\ \A i, j \in 1 .. n : s[i] = s[j] => i = j
  /\ n > 0 => first = s[1] /\ prev[s[1]] = Head
  /\ \A i \in 2 .. n : next[s[i - 1]] = s[i] /\ prev[s[i]] = s[i - 1]
Behind(n, s) == IF n = 0 THEN Head ELSE s[n]
Nth(n, s, i) == IF i \in 1 .. n THEN s[i] ELSE NULL

Pointing ==
  /\ first \in Elems \union {NULL} /\ next \in [Elems -> Elems \union {NULL}]
  /\ at \in {"start", "chase", "walk", "ok", "failed"}
  /\ elm1 \in Elems \union {NULL} /\ elm2 \in Elems \union {NULL}

(* What the walk has passed is a row. *)
Passed ==
  /\ at = "walk" => \E n \in Nat : \E s \in [1 .. n -> Elems] :
                      Row(n, s) /\ nextp = Behind(n, s) /\ elm1 = List!Last(n, s)
  /\ at = "ok" => \E n \in Nat : \E s \in [1 .. n -> Elems] :
                      Row(n, s) /\ List!Last(n, s) = NULL

(* In a list the chase never meets, and the walk is at one of its elements. *)
Along(n, s) ==
  Row(n, s) /\ List!Last(n, s) = NULL =>
    /\ at # "failed"
    /\ at = "chase" => \E i, j \in Nat : /\ i \in 1 .. n /\ i < j
                                         /\ elm1 = s[i] /\ elm2 = Nth(n, s, j)
    /\ at = "walk" => \E k \in 0 .. n : nextp = Behind(k, s) /\ elm1 = Nth(n, s, k + 1)
Unfailing == \A n \in Nat : \A s \in [1 .. n -> Elems] : Along(n, s)

LEMMA Longer ==
  ASSUME NEW n \in Nat, NEW s \in [1 .. n -> Elems], Row(n, s),
         NEW e \in Elems, e = List!Last(n, s), prev[e] = Behind(n, s)
  PROVE  \E r \in [1 .. n + 1 -> Elems] :
           Row(n + 1, r) /\ Behind(n + 1, r) = e /\ List!Last(n + 1, r) = next[e]
<1> DEFINE r == [i \in 1 .. n + 1 |-> IF i <= n THEN s[i] ELSE e]
<1>1. ASSUME NEW i \in 1 .. n PROVE s[i] # e
  <2>1. Behind(n, s) = s[n] /\ s[n] \in Elems /\ Head \notin Elems /\ n \in 1 .. n
    BY PartsAssumption DEF Behind
  <2>2. CASE i = 1
    BY <2>1, <2>2 DEF Row
  <2>3. CASE i \in 2 .. n
    <3>1. prev[s[i]] = s[i - 1] /\ i - 1 \in 1 .. n /\ i - 1 # n
      BY <2>3 DEF Row
    <3> QED
      BY <2>1, <3>1 DEF Row
  <2> QED
    BY <2>2, <2>3
<1>2. r \in [1 .. n + 1 -> Elems] /\ r[n + 1] = e /\ \A i \in 1 .. n : r[i] = s[i]
  OBVIOUS
<1> HIDE DEF r
<1>3. \A i, j \in 1 .. n + 1 : r[i] = r[j] => i = j
  <2> SUFFICES ASSUME NEW i \in 1 .. n + 1, NEW j \in 1 .. n + 1, r[i] = r[j] PROVE i = j
    OBVIOUS
  <2>1. (i \in 1 .. n \/ i = n + 1) /\ (j \in 1 .. n \/ j = n + 1)
    OBVIOUS
  <2> QED
    BY <1>1, <1>2, <2>1 DEF Row
<1>4. first = r[1] /\ prev[r[1]] = Head
  BY <1>2 DEF Row, Behind, List!Last
<1>5. ASSUME NEW i \in 2 .. n + 1 PROVE next[r[i - 1]] = r[i] /\ prev[r[i]] = r[i - 1]
  <2>1. CASE i \in 2 .. n
    <3>1. i - 1 \in 1 .. n /\ i \in 1 .. n
      BY <2>1
    <3> QED
      BY <1>2, <2>1, <3>1 DEF Row
  <2>2. CASE i = n + 1
    <3>1. n \in 1 .. n /\ i - 1 = n
      BY <2>2
    <3> QED
      BY <1>2, <2>2, <3>1 DEF Behind, List!Last
  <2> QED
    BY <2>1, <2>2
<1>6. Row(n + 1, r) /\ Behind(n + 1, r) = e /\ List!Last(n + 1, r) = next[e]
  BY <1>2, <1>3, <1>4, <1>5 DEF Row, Behind, List!Last
<1> QED
  BY <1>2, <1>6

(* In a list each element leads to the next one, the last one to NULL.     *)
LEMMA Follows ==
  ASSUME NEW n \in Nat, NEW s \in [1 .. n -> Elems], Row(n, s), List!Last(n, s) = NULL
  PROVE  first = Nth(n, s, 1) /\ \A i \in 1 .. n : next[s[i]] = Nth(n, s, i + 1)
<1>1. first = Nth(n, s, 1)
  BY DEF Row, Nth, List!Last
<1>2. ASSUME NEW i \in 1 .. n PROVE next[s[i]] = Nth(n, s, i + 1)
  <2>1. CASE i = n
    BY <2>1 DEF Nth, List!Last
  <2>2. CASE i < n
    <3>1. i + 1 \in 2 .. n /\ (i + 1) - 1 = i
      BY <2>2
    <3>2. next[s[(i + 1) - 1]] = s[i + 1]
      BY <3>1 DEF Row
    <3> QED
      BY <3>1, <3>2 DEF Nth
  <2> QED
    BY <2>1, <2>2
<1> QED
  BY <1>1, <1>2

LEMMA PointingInit == List!Init => Pointing /\ Passed /\ Unfailing
  BY DEF List!Init, List!Pointers, Pointing, Passed, Unfailing, Along

LEMMA PointingStep == Pointing /\ [List!Next]_List!vars => Pointing'
<1> SUFFICES ASSUME Pointing, [List!Next]_List!vars PROVE Pointing'
  OBVIOUS
<1> USE DEF Pointing, List!list, List!Leave, List!Walk
<1>1. CASE UNCHANGED List!vars
  BY <1>1 DEF List!vars
<1>2. CASE List!Begin
  BY <1>2 DEF List!Begin
<1>3. CASE List!Chase
  BY <1>3, PartsAssumption DEF List!Chase
<1>4. CASE List!Links
  BY <1>4, PartsAssumption DEF List!Links
<1> QED
  BY <1>1, <1>2, <1>3, <1>4 DEF List!Next

LEMMA PassedStep == Pointing /\ Passed /\ [List!Next]_List!vars => Passed'
<1> SUFFICES ASSUME Pointing, Passed, [List!Next]_List!vars PROVE Passed'
  OBVIOUS
<1>0. UNCHANGED <<first, next, prev>>
  BY DEF List!Next, List!vars, List!list, List!Begin, List!Chase, List!Links
<1>1. \A n, s : (Row(n, s)' <=> Row(n, s)) /\ List!Last(n, s)' = List!Last(n, s)
  BY <1>0 DEF Row, List!Last
<1>2. CASE UNCHANGED List!vars
  BY <1>0, <1>2 DEF List!vars, Passed, Row, List!Last
<1>3. ASSUME nextp' = Head, elm1' = first, at' = "walk" PROVE Passed'
  <2>1. PICK s \in [1 .. 0 -> Elems] : TRUE
    <3>1. [i \in 1 .. 0 |-> 0] \in [1 .. 0 -> Elems]
      OBVIOUS
    <3> QED
      BY <3>1
  <2>2. Row(0, s)' /\ nextp' = Behind(0, s) /\ elm1' = List!Last(0, s)'
    BY <1>0, <1>3 DEF Row, Behind, List!Last
  <2> QED
    BY <1>3, <2>1, <2>2 DEF Passed
<1>4. CASE List!Begin
  <2>1. CASE first = NULL
    <3>1. PICK s \in [1 .. 0 -> Elems] : TRUE
      <4>1. [i \in 1 .. 0 |-> 0] \in [1 .. 0 -> Elems]
        OBVIOUS
      <4> QED
        BY <4>1
    <3>2. Row(0, s)' /\ List!Last(0, s)' = NULL
      BY <1>0, <2>1 DEF Row, List!Last
    <3>3. at' = "ok"
      BY <1>4, <2>1 DEF List!Begin, List!Leave
    <3> QED
      BY <3>1, <3>2, <3>3 DEF Passed
  <2>2. CASE first # NULL
    BY <1>4, <2>2 DEF List!Begin, Passed
  <2> QED
    BY <2>1, <2>2
<1>5. CASE List!Chase
  <2>1. (nextp' = Head /\ elm1' = first /\ at' = "walk") \/ at' \in {"failed", "chase"}
    BY <1>5 DEF List!Chase, List!Walk, List!Leave
  <2> QED
    BY <1>3, <2>1 DEF Passed
<1>6. CASE List!Links
  <2>0. PICK n \in Nat : \E s \in [1 .. n -> Elems] :
          Row(n, s) /\ nextp = Behind(n, s) /\ elm1 = List!Last(n, s)
    BY <1>6 DEF Passed, List!Links
  <2>1. PICK s \in [1 .. n -> Elems] :
          Row(n, s) /\ nextp = Behind(n, s) /\ elm1 = List!Last(n, s)
    BY <2>0
  <2>2. CASE elm1 = NULL
    BY <1>1, <1>6, <2>1, <2>2 DEF Passed, List!Links, List!Leave
  <2>3. CASE elm1 # NULL /\ ~List!Linked(nextp, elm1)
    BY <1>6, <2>3 DEF Passed, List!Links, List!Leave
  <2>4. CASE elm1 # NULL /\ List!Linked(nextp, elm1)
    <3>1. elm1 \in Elems /\ prev[elm1] = Behind(n, s) /\ n + 1 \in Nat
      BY <2>1, <2>4 DEF Pointing, List!Linked
    <3>2. PICK r \in [1 .. n + 1 -> Elems] :
            Row(n + 1, r) /\ Behind(n + 1, r) = elm1 /\ List!Last(n + 1, r) = next[elm1]
      BY <2>1, <3>1, Longer
    <3>3. nextp' = elm1 /\ elm1' = next[elm1] /\ at' = "walk"
      BY <1>6, <2>4 DEF List!Links
    <3>4. Row(n + 1, r)' /\ List!Last(n + 1, r)' = elm1' /\ nextp' = Behind(n + 1, r)
      BY <1>1, <3>2, <3>3
    <3> QED
      BY <3>1, <3>3, <3>4 DEF Passed
  <2> QED
    BY <2>2, <2>3, <2>4
<1> QED
  BY <1>2, <1>4, <1>5, <1>6 DEF List!Next

LEMMA AlongStep ==
  ASSUME Pointing, [List!Next]_List!vars, NEW n \in Nat, NEW s \in [1 .. n -> Elems], Along(n, s)
  PROVE  Along(n, s)'
<1> USE PartsAssumption
<1>0. UNCHANGED <<first, next, prev>>
  BY DEF List!Next, List!vars, List!list, List!Begin, List!Chase, List!Links
<1> SUFFICES ASSUME Row(n, s), List!Last(n, s) = NULL PROVE Along(n, s)'
  BY <1>0 DEF Along, Row, List!Last
<1>1. first = Nth(n, s, 1) /\ \A i \in 1 .. n : next[s[i]] = Nth(n, s, i + 1)
  BY Follows
<1>2. /\ \A i \in 1 .. n : s[i] \in Elems /\ s[i] # NULL /\ s[i] # Head
      /\ \A i \in Nat : Nth(n, s, i) # NULL => i \in 1 .. n /\ Nth(n, s, i) = s[i]
  BY DEF Nth
<1>3. ASSUME at' = "walk", nextp' = Head, elm1' = first PROVE Along(n, s)'
  <2>1. 0 \in 0 .. n /\ nextp' = Behind(0, s) /\ elm1' = Nth(n, s, 0 + 1)
    BY <1>1, <1>3 DEF Behind
  <2> QED
    BY <1>3, <2>1 DEF Along
<1>4. CASE UNCHANGED List!vars
  BY <1>0, <1>4 DEF Along, List!vars, Row, List!Last
<1>5. CASE List!Begin
  <2>1. CASE first = NULL
    BY <1>5, <2>1 DEF Along, List!Begin, List!Leave
  <2>2. CASE first # NULL
    <3>1. 1 \in 1 .. n /\ first = s[1]
      BY <1>1, <1>2, <2>2
    <3>2. next[first] = Nth(n, s, 2)
      BY <1>1, <3>1
    <3>3. at' = "chase" /\ elm1' = s[1] /\ elm2' = Nth(n, s, 2)
      BY <1>5, <2>2, <3>1, <3>2 DEF List!Begin
    <3> QED
      BY <3>1, <3>3 DEF Along
  <2> QED
    BY <2>1, <2>2
<1>6. CASE List!Chase
  <2>1. PICK i, j \in Nat : i \in 1 .. n /\ i < j /\ elm1 = s[i] /\ elm2 = Nth(n, s, j)
    BY <1>6 DEF Along, List!Chase
  <2>2. CASE elm2 = NULL
    BY <1>3, <1>6, <2>2 DEF List!Chase, List!Walk
  <2>3. CASE elm2 # NULL
    <3>1. j \in 1 .. n /\ elm2 = s[j] /\ elm1 # NULL /\ elm1 # elm2
      BY <1>2, <2>1, <2>3 DEF Row
    <3>2. next[elm1] = Nth(n, s, i + 1) /\ next[elm2] = Nth(n, s, j + 1)
      BY <1>1, <2>1, <3>1
    <3>3. CASE next[elm2] = NULL
      BY <1>3, <1>6, <2>3, <3>1, <3>3 DEF List!Chase, List!Walk, List!Met
    <3>4. CASE next[elm2] # NULL
      <4>1. j + 1 \in 1 .. n /\ next[elm2] = s[j + 1]
        BY <1>2, <3>2, <3>4
      <4>2. i + 1 \in 1 .. n /\ next[elm1] = s[i + 1] /\ next[elm1] # next[elm2]
        BY <2>1, <3>2, <4>1 DEF Nth, Row
      <4>3. next[next[elm2]] = Nth(n, s, j + 2)
        BY <1>1, <4>1
      <4>4. at' = "chase" /\ elm1' = s[i + 1] /\ elm2' = Nth(n, s, j + 2)
        BY <1>6, <2>3, <3>1, <3>4, <4>2, <4>3 DEF List!Chase, List!Met
      <4>5. i + 1 \in Nat /\ j + 2 \in Nat /\ i + 1 < j + 2
        BY <2>1
      <4> QED
        BY <4>2, <4>4, <4>5 DEF Along
    <3> QED
      BY <3>3, <3>4
  <2> QED
    BY <2>2, <2>3
<1>7. CASE List!Links
  <2>1. PICK k \in 0 .. n : nextp = Behind(k, s) /\ elm1 = Nth(n, s, k + 1)
    BY <1>7 DEF Along, List!Links
  <2>2. CASE elm1 = NULL
    BY <1>7, <2>2 DEF Along, List!Links, List!Leave
  <2>3. CASE elm1 # NULL
    <3>1. k + 1 \in 1 .. n /\ elm1 = s[k + 1]
      BY <1>2, <2>1, <2>3
    <3>2. List!Linked(nextp, elm1)
      <4>1. CASE k = 0
        BY <2>1, <3>1, <4>1 DEF Row, Behind, List!Linked, List!Deref
      <4>2. CASE k \in 1 .. n
        <5>1. k + 1 \in 2 .. n /\ (k + 1) - 1 = k /\ nextp = s[k]
          BY <2>1, <3>1, <4>2 DEF Behind
        <5>2. next[s[k]] = s[k + 1] /\ prev[s[k + 1]] = s[k]
          BY <5>1 DEF Row
        <5> QED
          BY <1>2, <3>1, <4>2, <5>1, <5>2 DEF List!Linked, List!Deref
      <4> QED
        BY <4>1, <4>2
    <3>3. nextp' = elm1 /\ elm1' = next[elm1] /\ at' = "walk"
      BY <1>7, <2>3, <3>2 DEF List!Links
    <3>4. elm1' = Nth(n, s, (k + 1) + 1) /\ nextp' = Behind(k + 1, s)
      BY <1>1, <3>1, <3>3 DEF Behind
    <3> QED
      BY <3>1, <3>3, <3>4 DEF Along
  <2> QED
    BY <2>2, <2>3
<1> QED
  BY <1>4, <1>5, <1>6, <1>7 DEF List!Next

LEMMA UnfailingStep == Pointing /\ Unfailing /\ [List!Next]_List!vars => Unfailing'
  BY AlongStep DEF Unfailing

LEMMA CheckAlways == Spec => [](Pointing /\ Passed /\ Unfailing)
  BY ListRuns, PointingInit, PointingStep, PassedStep, UnfailingStep, PTL DEF List!Spec

(* EVUTIL_ASSERT_LIST_OK passes lists and nothing else, and fails none.    *)
THEOREM VerdictIsRight == Spec => []Verdict
<1>1. ASSUME NEW n \in Nat, NEW s \in [1 .. n -> Elems], Row(n, s)
      PROVE  n \in 0 .. Cardinality(Elems)
  <2>1. s \in Injection(1 .. n, Elems)
    BY <1>1 DEF Row, Injection, IsInjective
  <2>2. Cardinality(1 .. n) <= Cardinality(Elems)
    BY <2>1, PartsAssumption, FS_Injection
  <2>3. Cardinality(1 .. n) = n
    BY FS_Interval
  <2>4. Cardinality(Elems) \in Nat
    BY PartsAssumption, FS_CardinalityType
  <2> QED
    BY <2>2, <2>3, <2>4
<1>2. List!WellFormed <=> \E n \in 0 .. Cardinality(Elems) : \E s \in [1 .. n -> Elems] :
                            Row(n, s) /\ List!Last(n, s) = NULL
  BY DEF List!WellFormed, Row, Cardinality, List!Cardinality
<1>3. Cardinality(Elems) \in Nat
  BY PartsAssumption, FS_CardinalityType
<1>4. Passed => (at = "ok" => List!WellFormed)
  BY <1>1, <1>2 DEF Passed
<1>5. Unfailing => (at = "failed" => ~List!WellFormed)
  BY <1>2, <1>3 DEF Unfailing, Along
<1>6. Passed /\ Unfailing => Verdict
  BY <1>4, <1>5 DEF Verdict, List!Verdict
<1> QED
  BY <1>6, CheckAlways, PTL
==============================================================================
