------------------------------ MODULE TimerWalk ------------------------------
(***************************************************************************)
(* Long sequences of the macros of TimeVal on two timevals, each result    *)
(* the operand of later ones, as a loop does that moves a deadline by an   *)
(* interval or measures what is left of it.                                *)
(***************************************************************************)
EXTENDS TimeVal

CONSTANTS Start,            \* the timevals a walk begins with
          MaxSec, MaxUsec   \* bounds of the model on the size of either part

ASSUME StartAssumption == Start \subseteq Normal /\ MaxSec \in Nat /\ MaxUsec \in Nat

VARIABLES t, u

times == <<t, u>>

WalkInit == t \in Start /\ u \in Start

Within(x) == x.sec \in -MaxSec .. MaxSec /\ x.usec \in -MaxUsec .. MaxUsec

Add == /\ t' = timeradd(t, u)
       /\ Within(t')
       /\ u' = u

Sub == /\ t' = timersub(t, u)
       /\ Within(t')
       /\ u' = u

Clear == /\ timeriset(t)
         /\ t' = timeclear
         /\ u' = u

Exchange == t' = u /\ u' = t

Walk == Add \/ Sub \/ Clear \/ Exchange

------------------------------------------------------------------------------
(* A sum stands for the sum of the times, whatever its operands, and is    *)
(* normal when both are (the carry of evutil_timeradd).                    *)
SumExact ==
  /\ Micros(timeradd(t, u)) = Micros(t) + Micros(u)
  /\ t \in Normal /\ u \in Normal => timeradd(t, u) \in Normal

(* On normal timevals evutil_timercmp orders as the times they stand for,  *)
(* for each of the operators it is given, and adding one interval to two   *)
(* times keeps them in order.                                              *)
OrderExact ==
  t \in Normal /\ u \in Normal =>
    /\ Before(t, u) <=> Micros(t) < Micros(u)
    /\ After(t, u) <=> Micros(t) > Micros(u)
    /\ Same(t, u) <=> t = u
    /\ Before(t, u) =>
         Before(timeradd(t, t), timeradd(u, t))

(* A difference without a borrow is exact; one that borrows is two seconds *)
(* of microseconds short of it, and never normal, since the borrow takes a *)
(* million away where it should add one (evutil_timersub).                 *)
DifferenceShort ==
  LET short == IF t.usec < u.usec THEN 2 * Million ELSE 0
  IN  /\ Micros(timersub(t, u)) = Micros(t) - Micros(u) - short
      /\ t \in Normal /\ u \in Normal =>
           (timersub(t, u) \in Normal <=> t.usec >= u.usec)
==============================================================================
