------------------------------ MODULE ListCheck ------------------------------
(***************************************************************************)
(* EVUTIL_ASSERT_LIST_OK of util-internal.h, over the list heads and links *)
(* of event_struct.h: two pointers chase each other to find a cycle, then  *)
(* a walk compares every le_prev with the cell that points to its element. *)
(* The list may be anything, so long as its pointers lead to elements.     *)
(* One iteration of a loop is a step.                                      *)
(*                                                                         *)
(* The macro writes "filed" for its parameter in some places, so it can    *)
(* only be used on links called so.                                        *)
(***************************************************************************)
EXTENDS Naturals, FiniteSets

CONSTANTS Elems, NULL, Head, Wild

VARIABLES first,            \* lh_first
          next,             \* le_next of each element
          prev,             \* le_prev: the cell of an element, the head's, another
          elm1, elm2, nextp,
          at                \* the loop that runs, or how it ended

list == <<first, next, prev>>
vars == <<list, elm1, elm2, nextp, at>>

Pointers == Elems \union {NULL}
Cells    == Elems \union {Head, Wild}        \* an element stands for its le_next

Init == /\ first \in Pointers /\ next \in [Elems -> Pointers] /\ prev \in [Elems -> Cells]
        /\ elm1 = NULL /\ elm2 = NULL /\ nextp = Head /\ at = "start"

Deref(cell) == IF cell = Head THEN first ELSE next[cell]

(* The whole check is left, or the walk begins. *)
Leave(how) == at' = how /\ UNCHANGED <<elm1, elm2, nextp>>
Walk       == at' = "walk" /\ nextp' = Head /\ elm1' = first

Begin == /\ at = "start"
         /\ IF first = NULL THEN Leave("ok")
            ELSE /\ elm1' = first /\ elm2' = next[first]
                 /\ at' = "chase" /\ UNCHANGED nextp
         /\ UNCHANGED list

(* An iteration of the chase, whose assertions end the process, or its     *)
(* end.  (Slip: without the assertions.)                                   *)
Met_Never(x, y) == FALSE
Met(x, y)       == x = y

Chase ==
  /\ at = "chase"
  /\ IF elm1 = NULL \/ elm2 = NULL THEN Walk /\ UNCHANGED elm2
     ELSE IF Met(elm1, elm2) THEN Leave("failed")
     ELSE LET one == next[elm1]
              two == next[elm2]
          IN  IF two = NULL THEN Walk /\ elm2' = two
              ELSE IF Met(one, two) THEN Leave("failed")
              ELSE elm1' = one /\ elm2' = next[two] /\ UNCHANGED <<nextp, at>>
  /\ UNCHANGED list

(* An iteration of the walk.  (Slip: le_prev is not looked at.) *)
Linked_Forward(cell, e) == Deref(cell) = e
Linked(cell, e)         == Deref(cell) = e /\ cell = prev[e]

Links ==
  /\ at = "walk"
  /\ IF elm1 = NULL THEN Leave("ok")
     ELSE IF ~Linked(nextp, elm1) THEN Leave("failed")
     ELSE nextp' = elm1 /\ elm1' = next[elm1] /\ UNCHANGED <<elm2, at>>
  /\ UNCHANGED list

Next == Begin \/ Chase \/ Links

Spec     == Init /\ [][Next]_vars
FairSpec == Spec /\ WF_vars(Next)

------------------------------------------------------------------------------
(* A list: its elements in a row, no two the same, each le_next to the     *)
(* next one and each le_prev to the cell that points to it.                *)
Last(n, s) == IF n = 0 THEN first ELSE next[s[n]]

WellFormed ==
  \E n \in 0 .. Cardinality(Elems) : \E s \in [1 .. n -> Elems] :
    /\ \A i, j \in 1 .. n : s[i] = s[j] => i = j
    /\ n > 0 => first = s[1] /\ prev[s[1]] = Head
    /\ \A i \in 2 .. n : next[s[i - 1]] = s[i] /\ prev[s[i]] = s[i - 1]
    /\ Last(n, s) = NULL

(* A list that passes is one, and no list that is one ends the process.    *)
Verdict == (at = "ok" => WellFormed) /\ (at = "failed" => ~WellFormed)

(* The check ends, whatever the pointers: no cycle holds it. *)
Ends == <>(at \in {"ok", "failed"})
==============================================================================
