------------------------------- MODULE MinHeap -------------------------------
(***************************************************************************)
(* minheap-internal.h: the heap of events by timeout, an array of pointers *)
(* that grows by realloc, each event knowing its place in it.  A call's    *)
(* loop is a sequence of steps here, one per iteration, so the array can   *)
(* be seen between them; nothing else runs meanwhile.                      *)
(*                                                                         *)
(* Undefined behaviour: a cell nobody has written holds any of Junk (what  *)
(* the allocator left, old pointers to events included); an access outside *)
(* the array, or through a pointer that is no event's, ends the process or *)
(* is survived: a write is lost and a read gives anything.  The first push *)
(* meets it: its "parent" is (0u - 1) / 2, on a 32-bit machine the word    *)
(* before the array.                                                       *)
(***************************************************************************)
EXTENDS TimeVal, FiniteSets

CONSTANTS Events,           \* struct event
          Timeouts,         \* values of ev_timeout
          NoEvent,          \* a pointer that is no event's
          Junk,             \* what memory from realloc may hold
          FirstCap,         \* cells of the first array: 8
          Wrap,             \* unsigned arithmetic is modulo this: 2^32
          MaxCap            \* bound of the model: realloc gives no more cells

Pointers == Events \union {NoEvent}

ASSUME MinHeapAssumption ==
  /\ Timeouts \subseteq Normal
  /\ NoEvent \notin Events
  /\ Junk \subseteq Pointers
  /\ FirstCap \in Nat \ {0} /\ MaxCap \in Nat
  /\ Wrap \in Nat /\ Wrap > 4 * MaxCap + 4

VARIABLES cell,             \* s->p
          n, a,             \* s->n, s->a
          idx,              \* ev_timeout_pos.min_heap_idx of each event
          timeout,          \* ev_timeout of each event
          call,             \* the call in progress
          member,           \* history: events the caller has in the heap
          below,            \* history: an erase has taken n below zero
          had               \* history: pointers in the array of an adjust

heapVars == <<cell, n, a>>
history  == <<member, below, had>>
vars     == <<cell, n, a, idx, timeout, call, history>>

(* loop is "none" between calls, "dead" after a fault, "freed" at the end; *)
(* reset is the event whose index a call sets to -1 when its loop is done. *)
Idle   == [loop |-> "none", hole |-> 0, elem |-> NoEvent, reset |-> NoEvent]
InLoop == call.loop \notin {"none", "dead", "freed"}

(* How often each pointer is in the array; had is this, from an adjust of  *)
(* an event that stands in its own cell until the adjust is done.          *)
NoCount      == [x \in Pointers |-> 0]
Count(array) == [x \in Pointers |-> Cardinality({i \in DOMAIN array : array[i] = x})]

------------------------------------------------------------------------------
(* Reading and writing the array. *)
At(i)     == IF i \in DOMAIN cell THEN {cell[i]} ELSE Pointers
Put(i, x) == IF i \in DOMAIN cell THEN [cell EXCEPT ![i] = x] ELSE cell

Less1(i)     == (i + Wrap - 1) % Wrap
Parent(hole) == Less1(hole) \div 2
Child(hole)  == ((hole + 1) * 2) % Wrap

elem_greater(e, f) == After(timeout[e], timeout[f])

min_heap_size        == n
min_heap_empty       == 0 = n
min_heap_elt_is_stop(e) == idx[e] = 0

min_heap_ctor == cell = [i \in 0 .. -1 |-> NoEvent] /\ n = 0 /\ a = 0

Init == /\ min_heap_ctor
        /\ idx = [e \in Events |-> -1]          \* min_heap_elem_init_
        /\ timeout \in [Events -> Timeouts]
        /\ call = Idle
        /\ member = {} /\ below = FALSE /\ had = NoCount

Start(loop, hole, elem, reset) ==
  call' = [loop |-> loop, hole |-> hole, elem |-> elem, reset |-> reset]

Die == /\ call' = [Idle EXCEPT !.loop = "dead"]
       /\ UNCHANGED <<heapVars, idx, timeout, history>>

------------------------------------------------------------------------------
(* min_heap_revserse_(s, m): room for m cells, or nothing changes. *)
Grown(m) == LET twice == IF a = 0 THEN FirstCap ELSE (a * 2) % Wrap
            IN  IF twice < m THEN m ELSE twice

(* (Slip: room is made one push too late.) *)
Reserve_Late(m) ==
  IF a >= m - 1 /\ a > 0 THEN UNCHANGED <<cell, a>>
  ELSE /\ Grown(m) <= MaxCap
       /\ a' = Grown(m)
       /\ \E junk \in [a .. Grown(m) - 1 -> Junk] :
            cell' = [i \in 0 .. Grown(m) - 1 |-> IF i < a THEN cell[i] ELSE junk[i]]

Reserve(m) ==
  IF a >= m THEN UNCHANGED <<cell, a>>
  ELSE /\ Grown(m) <= MaxCap
       /\ a' = Grown(m)
       /\ \E junk \in [a .. Grown(m) - 1 -> Junk] :
            cell' = [i \in 0 .. Grown(m) - 1 |-> IF i < a THEN cell[i] ELSE junk[i]]

(* min_heap_push_ of an event the caller does not have in the heap.  When  *)
(* realloc fails nothing changes, whatever a call returns.                 *)
PushInto(e) ==
  /\ n # Wrap - 1
  /\ Reserve(n + 1)
  /\ n' = n + 1
  /\ Start("up", n, e, NoEvent)
  /\ member' = member \union {e}
  /\ UNCHANGED <<idx, below, had>>

Push(e) ==
  /\ call.loop = "none" /\ e \notin member
  /\ PushInto(e)
  /\ \E tv \in Timeouts : timeout' = [timeout EXCEPT ![e] = tv]

(* Slip: the array counts as larger before realloc has granted it. *)
PushFails_Ahead(e) ==
  /\ call.loop = "none" /\ e \notin member
  /\ a < n + 1 /\ a' = Grown(n + 1)
  /\ \E tv \in Timeouts : timeout' = [timeout EXCEPT ![e] = tv]
  /\ UNCHANGED <<cell, n, idx, call, history>>

PushFails(e) ==
  /\ call.loop = "none" /\ e \notin member
  /\ n = Wrap - 1 \/ a < n + 1
  /\ \E tv \in Timeouts : timeout' = [timeout EXCEPT ![e] = tv]
  /\ UNCHANGED <<heapVars, idx, call, history>>

(* The test of erase and adjust: is the parent of e's place later than f?  *)
LaterParent(e, q, f) == idx[e] > 0 /\ elem_greater(q, f)

(* min_heap_adjust_: e has a new timeout. *)
Adjust(e) ==
  /\ call.loop = "none" /\ idx[e] # -1
  /\ \E tv \in Timeouts, q \in At(Parent(idx[e])) :
       /\ timeout' = [timeout EXCEPT ![e] = tv]
       /\ idx[e] > 0 => q # NoEvent
       /\ IF idx[e] > 0 /\ After(timeout'[q], tv)
            THEN Start("lift", idx[e], e, NoEvent)
            ELSE Start("down", idx[e], e, NoEvent)
  /\ had' = IF idx[e] \in DOMAIN cell /\ e \in At(idx[e]) THEN Count(cell) ELSE NoCount
  /\ UNCHANGED <<heapVars, idx, member, below>>

AdjustNew(e) ==
  /\ call.loop = "none" /\ idx[e] = -1
  /\ PushInto(e)
  /\ \E tv \in Timeouts : timeout' = [timeout EXCEPT ![e] = tv]

(* min_heap_erase_: only the way down resets the index. *)
Erase(e) ==
  /\ call.loop = "none" /\ idx[e] # -1
  /\ n' = Less1(n)
  /\ \E last \in At(n'), q \in At(Parent(idx[e])) :
       /\ idx[e] > 0 => q # NoEvent /\ last # NoEvent
       /\ IF LaterParent(e, q, last)
            THEN Start("lift", idx[e], last, NoEvent)
            ELSE Start("down", idx[e], last, e)
  /\ member' = member \ {e} /\ below' = (below \/ n = 0)
  /\ UNCHANGED <<cell, a, idx, timeout, had>>

(* A fault before the loop, at the test or at the last cell. *)
EraseFaults(e) ==
  /\ call.loop = "none" /\ idx[e] # -1
  /\ \/ NoEvent \in At(Less1(n))
     \/ idx[e] > 0 /\ NoEvent \in At(Parent(idx[e]))
  /\ Die

AdjustFaults(e) ==
  /\ call.loop = "none" /\ idx[e] > 0
  /\ NoEvent \in At(Parent(idx[e]))
  /\ Die

(* min_heap_top_ gives NULL unless the heap is empty; then it reads p[0]. *)
TopFaults == /\ call.loop = "none"
             /\ min_heap_empty /\ a = 0
             /\ Die

(* min_heap_pop_ of a heap with events goes on to write through what       *)
(* min_heap_top_ gave it, NULL; an empty heap gives NULL and stays.        *)
PopFaults == /\ call.loop = "none" /\ ~min_heap_empty
             /\ Die

(* min_heap_dtor_: the heap is not used again. *)
Dtor == /\ call.loop = "none"
        /\ call' = [Idle EXCEPT !.loop = "freed"]
        /\ UNCHANGED <<heapVars, idx, timeout, history>>

------------------------------------------------------------------------------
(* The loops.  "lift" is the first iteration of shift_up_unconditional_,   *)
(* which tests nothing, "climb" its others; "up" is shift_up_.             *)
Settle(i) ==                \* s->p[i] = elem, elem's index = hole
  /\ cell' = Put(i, call.elem)
  /\ idx' = [e \in Events |-> IF e = call.reset THEN -1
                              ELSE IF e = call.elem THEN call.hole ELSE idx[e]]
  /\ call' = Idle

(* Slips: a step that stays where it is, one that writes the next cell.    *)
Move_Stays(q, next, loop) ==
  /\ cell' = Put(call.hole, q)
  /\ idx' = [idx EXCEPT ![q] = call.hole]
  /\ call' = [call EXCEPT !.loop = loop]

Move_WritesNext(q, next, loop) ==
  /\ cell' = Put(next, q)
  /\ idx' = [idx EXCEPT ![q] = call.hole]
  /\ call' = [call EXCEPT !.hole = next, !.loop = loop]

Move(q, next, loop) ==      \* s->p[hole] = q, q's index = hole
  /\ cell' = Put(call.hole, q)
  /\ idx' = [idx EXCEPT ![q] = call.hole]
  /\ call' = [call EXCEPT !.hole = next, !.loop = loop]

Lift ==
  /\ call.loop = "lift"
  /\ \E q \in At(Parent(call.hole)) \ {NoEvent} : Move(q, Parent(call.hole), "climb")

Climb ==
  /\ call.loop = "climb" /\ call.elem # NoEvent
  /\ IF call.hole = 0 THEN Settle(0)
     ELSE \E q \in At(Parent(call.hole)) \ {NoEvent} :
            IF elem_greater(q, call.elem) THEN Move(q, Parent(call.hole), "climb")
                                          ELSE Settle(call.hole)

(* shift_up_ writes the parent's cell, in the loop and after it. *)
ShiftUp ==
  /\ call.loop = "up" /\ call.elem # NoEvent
  /\ LET parent == Parent(call.hole)
     IN  IF call.hole = 0 THEN Settle(parent)
         ELSE \E q \in At(parent) \ {NoEvent} :
                IF elem_greater(q, call.elem)
                  THEN /\ cell' = Put(parent, call.elem)
                       /\ idx' = [idx EXCEPT ![call.elem] = call.hole]
                       /\ call' = [call EXCEPT !.hole = parent]
                  ELSE Settle(parent)

(* The earlier of the children below n: pairs of its cell and pointer. *)
EarlierChild(child) ==
  LET left == Less1(child)
  IN  IF child = n THEN {<<left, q>> : q \in At(left) \ {NoEvent}}
      ELSE {IF elem_greater(r, q) THEN <<left, q>> ELSE <<child, r>> :
              q \in At(left) \ {NoEvent}, r \in At(child) \ {NoEvent}}

(* shift_down_ ends by writing the child's cell instead of the hole.  The  *)
(* last of erase may have been left without a look at it: its index is     *)
(* written after the loop, through whatever it is.                         *)
ShiftDown ==
  /\ call.loop = "down" /\ call.elem # NoEvent
  /\ IF Child(call.hole) > n THEN Settle(Child(call.hole))
     ELSE \E c \in EarlierChild(Child(call.hole)) :
            IF elem_greater(call.elem, c[2]) THEN Move(c[2], c[1], "down")
                                             ELSE Settle(c[1])

(* The cells the next step of a loop reads, and the one it writes. *)
Reads ==
  LET child == Child(call.hole)
  IN  CASE call.loop = "down" -> {i \in {Less1(child), child} : child <= n /\ i # n}
        [] call.loop # "lift" /\ call.hole = 0 -> {}
        [] OTHER -> {Parent(call.hole)}

Written ==
  CASE call.loop = "up" -> Parent(call.hole)
    [] call.loop = "down" /\ Child(call.hole) > n -> Child(call.hole)
    [] OTHER -> call.hole

LoopFaults ==
  /\ InLoop
  /\ \/ call.elem = NoEvent
     \/ \E i \in Reads : NoEvent \in At(i)
     \/ Written \notin DOMAIN cell
  /\ Die

Loop == /\ Lift \/ Climb \/ ShiftUp \/ ShiftDown
        /\ had' = IF call'.loop = "none" THEN NoCount ELSE had
        /\ UNCHANGED <<n, a, timeout, member, below>>

Call == \/ \E e \in Events : \/ Push(e) \/ PushFails(e)
                             \/ Adjust(e) \/ AdjustNew(e)
                             \/ Erase(e)
        \/ \E e \in Events : EraseFaults(e) \/ AdjustFaults(e)
        \/ TopFaults \/ PopFaults \/ Dtor

Next == Call \/ Loop \/ LoopFaults

Spec     == Init /\ [][Next]_vars
FairSpec == Spec /\ WF_vars(Loop \/ LoopFaults)

------------------------------------------------------------------------------
TypeOK ==
  /\ a \in 0 .. MaxCap /\ n \in 0 .. Wrap - 1
  /\ cell \in [0 .. a - 1 -> Pointers]
  /\ idx \in [Events -> -1 .. Wrap - 1]
  /\ timeout \in [Events -> Timeouts]
  /\ call \in [loop : {"none", "dead", "freed", "lift", "climb", "up", "down"},
               hole : 0 .. Wrap - 1, elem : Pointers, reset : Pointers]
  /\ member \subseteq Events /\ below \in BOOLEAN

(* The heap never counts more events than its array has cells, whatever    *)
(* realloc does, until an erase too many has taken n below zero.           *)
NInArray == n <= a \/ below

(* An adjust that moves an event up from its own cell neither loses nor    *)
(* doubles a pointer: at every step, putting the event into the hole would *)
(* give back the pointers the array had.                                   *)
NoPointerLost ==
  had # NoCount /\ call.loop = "climb" => Count(Put(call.hole, call.elem)) = had

(* Every call's loop ends, unless n has gone below zero. *)
LoopsEnd == (InLoop /\ ~below) ~> ~InLoop

(* The comment on timeheap in event-internal.h and the documentation: a    *)
(* heap with the smallest time on top.  Between calls it holds the         *)
(* caller's events, each where its index says, none before its parent.     *)
SmallestOnTop ==
  call.loop = "none" =>
    /\ {cell[i] : i \in 0 .. min_heap_size - 1} = member
    /\ \A e \in member : idx[e] \in 0 .. n - 1 /\ cell[idx[e]] = e
    /\ \A e, f \in member : min_heap_elt_is_stop(e) => ~elem_greater(e, f)
==============================================================================
