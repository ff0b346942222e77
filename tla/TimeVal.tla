------------------------------- MODULE TimeVal -------------------------------
(***************************************************************************)
(* struct timeval and the macros of util.h that add, subtract, clear and   *)
(* compare it.  A timeval is a record of whole seconds and microseconds;   *)
(* it is normal when 0 <= usec < 1000000.  Every number is a long in the   *)
(* code; times near the end of its range are left out.                     *)
(***************************************************************************)
EXTENDS Integers

CONSTANT Million            \* microseconds in a second: 1000000

ASSUME MillionAssumption == Million \in Nat \ {0}

Timeval == [sec : Int, usec : Int]
Normal  == [sec : Int, usec : 0 .. Million - 1]

(* The length of time a timeval stands for, in microseconds. *)
Micros(t) == t.sec * Million + t.usec

(* The operator a comparison is given. *)
Compare(x, y, cmp) == \/ cmp = "<" /\ x < y
                      \/ cmp = ">" /\ x > y
                      \/ cmp = "==" /\ x = y

(* Slips: a carry or a borrow that is off by one; microseconds first. *)
timeradd_Above(t, u) ==
  LET usec == t.usec + u.usec
  IN  IF usec > Million
        THEN [sec |-> t.sec + u.sec + 1, usec |-> usec - Million]
        ELSE [sec |-> t.sec + u.sec, usec |-> usec]

timersub_Equal(t, u) ==
  LET usec == t.usec - u.usec
  IN  IF usec <= 0
        THEN [sec |-> t.sec - u.sec - 1, usec |-> usec - Million]
        ELSE [sec |-> t.sec - u.sec, usec |-> usec]

timercmp_UsecFirst(t, u, cmp) ==
  IF t.usec = u.usec THEN Compare(t.sec, u.sec, cmp) ELSE Compare(t.usec, u.usec, cmp)

timeradd(t, u) ==
  LET usec == t.usec + u.usec
  IN  IF usec >= Million
        THEN [sec |-> t.sec + u.sec + 1, usec |-> usec - Million]
        ELSE [sec |-> t.sec + u.sec, usec |-> usec]

(* The borrow takes a million microseconds away instead of adding them. *)
timersub(t, u) ==
  LET usec == t.usec - u.usec
  IN  IF usec < 0
        THEN [sec |-> t.sec - u.sec - 1, usec |-> usec - Million]
        ELSE [sec |-> t.sec - u.sec, usec |-> usec]

timeclear == [sec |-> 0, usec |-> 0]

timeriset(t) == t.sec # 0 \/ t.usec # 0

timercmp(t, u, cmp) ==
  IF t.sec = u.sec THEN Compare(t.usec, u.usec, cmp) ELSE Compare(t.sec, u.sec, cmp)

(* The comparisons made with it. *)
Before(t, u) == timercmp(t, u, "<")
After(t, u)  == timercmp(t, u, ">")
Same(t, u)   == timercmp(t, u, "==")
==============================================================================
