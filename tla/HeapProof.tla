------------------------------ MODULE HeapProof ------------------------------
(***************************************************************************)
(* The heap's array, for any number of events, any junk and any width of   *)
(* unsigned: types, and n never beyond the array until an erase too many.  *)
(***************************************************************************)
EXTENDS MinHeap, FiniteSetTheorems, TLAPS

Calls == [loop : {"none", "dead", "freed", "lift", "climb", "up", "down"},
          hole : 0 .. Wrap - 1, elem : Pointers, reset : Pointers]

Inv == TypeOK /\ NInArray

LEMMA Unsigned ==
  ASSUME NEW i \in 0 .. Wrap - 1
  PROVE  /\ Less1(i) \in 0 .. Wrap - 1
         /\ Parent(i) \in 0 .. Wrap - 1
         /\ Child(i) \in 0 .. Wrap - 1
         /\ i > 0 => Less1(i) = i - 1
         /\ i = 0 => Less1(i) = Wrap - 1
<1>0. Wrap \in Nat /\ Wrap > 0
  BY MinHeapAssumption
<1>1. /\ Less1(i) \in 0 .. Wrap - 1
      /\ i > 0 => Less1(i) = i - 1
      /\ i = 0 => Less1(i) = Wrap - 1
  BY <1>0 DEF Less1
<1>2. Parent(i) \in 0 .. Wrap - 1
  BY <1>0, <1>1 DEF Parent
<1>3. Child(i) \in 0 .. Wrap - 1
  BY <1>0 DEF Child
<1> QED
  BY <1>1, <1>2, <1>3

LEMMA PutType ==
  ASSUME TypeOK, NEW i, NEW x \in Pointers
  PROVE  Put(i, x) \in [0 .. a - 1 -> Pointers]
  BY DEF TypeOK, Put

LEMMA AtType ==
  ASSUME TypeOK, NEW i
  PROVE  At(i) \subseteq Pointers
  BY DEF TypeOK, At

LEMMA InitInv == Init => Inv
<1> SUFFICES ASSUME Init PROVE Inv
  OBVIOUS
<1>0. Wrap \in Nat /\ MaxCap \in Nat /\ Wrap > 0
  BY MinHeapAssumption
<1>1. cell \in [0 .. a - 1 -> Pointers]
  BY DEF Init, min_heap_ctor, Pointers
<1>2. Idle \in Calls
  BY <1>0 DEF Idle, Calls, Pointers
<1>3. n = 0 /\ a = 0 /\ call = Idle
  BY DEF Init, min_heap_ctor
<1>4. idx \in [Events -> -1 .. Wrap - 1]
  BY <1>0 DEF Init
<1>5. a \in 0 .. MaxCap /\ n \in 0 .. Wrap - 1 /\ n <= a
  BY <1>0, <1>3
<1>6. timeout \in [Events -> Timeouts] /\ member \subseteq Events /\ below \in BOOLEAN
  BY DEF Init
<1> QED
  BY <1>1, <1>2, <1>3, <1>4, <1>5, <1>6 DEF Inv, TypeOK, NInArray, Calls

LEMMA ReserveInv ==
  ASSUME TypeOK, NEW m \in 1 .. Wrap - 1, Reserve(m)
  PROVE  /\ a' \in 0 .. MaxCap /\ a' >= m
         /\ cell' \in [0 .. a' - 1 -> Pointers]
<1>0. /\ Wrap \in Nat /\ MaxCap \in Nat /\ a \in 0 .. MaxCap
      /\ Junk \subseteq Pointers /\ FirstCap \in Nat
  BY MinHeapAssumption DEF TypeOK
<1>1. CASE a >= m
  BY <1>1 DEF Reserve, TypeOK
<1>2. CASE ~(a >= m)
  <2>1. Grown(m) \in Nat /\ Grown(m) >= m
    BY <1>0 DEF Grown
  <2>2. /\ a' = Grown(m) /\ Grown(m) <= MaxCap
    BY <1>0, <1>2 DEF Reserve
  <2>3. PICK junk \in [a .. Grown(m) - 1 -> Junk] :
           cell' = [i \in 0 .. Grown(m) - 1 |-> IF i < a THEN cell[i] ELSE junk[i]]
    BY <1>0, <1>2 DEF Reserve
  <2>4. \A i \in 0 .. Grown(m) - 1 :
           (IF i < a THEN cell[i] ELSE junk[i]) \in Pointers
    <3> SUFFICES ASSUME NEW i \in 0 .. Grown(m) - 1
                 PROVE  (IF i < a THEN cell[i] ELSE junk[i]) \in Pointers
      OBVIOUS
    <3>1. CASE i < a
      <4>1. i \in 0 .. a - 1
        BY <1>0, <2>1, <3>1
      <4> QED
        BY <3>1, <4>1 DEF TypeOK
    <3>2. CASE ~(i < a)
      <4>1. i \in a .. Grown(m) - 1
        BY <1>0, <2>1, <3>2
      <4> QED
        BY <1>0, <2>3, <3>2, <4>1
    <3> QED
      BY <3>1, <3>2
  <2> QED
    BY <1>0, <2>1, <2>2, <2>3, <2>4
<1> QED
  BY <1>1, <1>2

LEMMA StartType ==
  ASSUME NEW loop \in {"lift", "up", "down"}, NEW hole \in 0 .. Wrap - 1,
         NEW elem \in Pointers, NEW reset \in Pointers,
         Start(loop, hole, elem, reset)
  PROVE  call' \in Calls
  BY DEF Start, Calls

LEMMA PushInv ==
  ASSUME Inv, NEW e \in Events, PushInto(e), NEW tv \in Timeouts,
         timeout' = [timeout EXCEPT ![e] = tv]
  PROVE  Inv'
<1>0. Wrap \in Nat /\ n \in 0 .. Wrap - 2 /\ n' = n + 1
  BY MinHeapAssumption DEF Inv, TypeOK, PushInto
<1>1. /\ a' \in 0 .. MaxCap /\ a' >= n'
      /\ cell' \in [0 .. a' - 1 -> Pointers]
  BY <1>0, ReserveInv DEF Inv, PushInto
<1>2. call' \in Calls
  BY <1>0, StartType DEF PushInto, Pointers
<1>3. /\ timeout' \in [Events -> Timeouts]
      /\ member' \subseteq Events
      /\ idx' \in [Events -> -1 .. Wrap - 1] /\ below' \in BOOLEAN
  BY DEF Inv, TypeOK, PushInto
<1>4. n' \in 0 .. Wrap - 1 /\ n' <= a'
  BY <1>0, <1>1, MinHeapAssumption
<1> QED
  BY <1>1, <1>2, <1>3, <1>4 DEF Inv, TypeOK, NInArray, Calls

LEMMA DieInv == Inv /\ Die => Inv'
<1>1. Idle \in Calls /\ [Idle EXCEPT !.loop = "dead"] \in Calls
  BY MinHeapAssumption DEF Idle, Calls, Pointers
<1> SUFFICES ASSUME Inv, Die PROVE Inv'
  OBVIOUS
<1>2. call' \in Calls
  BY <1>1 DEF Die
<1> QED
  BY <1>2 DEF Inv, TypeOK, NInArray, Die, Calls, heapVars, history

LEMMA CallInv ==
  ASSUME Inv, Call
  PROVE  Inv'
<1>0. Wrap \in Nat /\ MaxCap \in Nat /\ Wrap > 0
  BY MinHeapAssumption
<1>1. ASSUME NEW e \in Events, Push(e) PROVE Inv'
  BY <1>1, PushInv DEF Push
<1>2. ASSUME NEW e \in Events, PushFails(e) PROVE Inv'
  BY <1>2 DEF PushFails, Inv, TypeOK, NInArray, heapVars, history
<1>3. ASSUME NEW e \in Events, AdjustNew(e) PROVE Inv'
  BY <1>3, PushInv DEF AdjustNew
<1>4. ASSUME NEW e \in Events, Adjust(e) PROVE Inv'
  <2>1. idx[e] \in 0 .. Wrap - 1
    BY <1>0, <1>4 DEF Inv, TypeOK, Adjust
  <2>2. call' \in Calls
    BY <1>4, <2>1, StartType DEF Adjust, Pointers
  <2> QED
    BY <1>4, <2>2 DEF Adjust, Inv, TypeOK, NInArray, Calls, heapVars
<1>5. ASSUME NEW e \in Events, Erase(e) PROVE Inv'
  <2>1. idx[e] \in 0 .. Wrap - 1 /\ n \in 0 .. Wrap - 1
    BY <1>0, <1>5 DEF Inv, TypeOK, Erase
  <2>2. At(n') \subseteq Pointers
    BY AtType DEF Inv
  <2>3. call' \in Calls
    BY <1>5, <2>1, <2>2, StartType DEF Erase, Pointers
  <2>4. /\ n' \in 0 .. Wrap - 1
        /\ n > 0 => n' = n - 1
        /\ below' = (below \/ n = 0)
    BY <1>5, <2>1, Unsigned DEF Erase
  <2>5. n' <= a \/ below'
    <3>1. a \in Int /\ (n <= a \/ below)
      BY DEF Inv, TypeOK, NInArray
    <3>2. CASE n = 0
      BY <2>4, <3>2
    <3>3. CASE n > 0 /\ n <= a
      BY <2>1, <2>4, <3>1, <3>3
    <3>4. CASE below
      BY <2>4, <3>4
    <3> QED
      BY <2>1, <3>1, <3>2, <3>3, <3>4
  <2> QED
    BY <1>5, <2>3, <2>4, <2>5 DEF Erase, Inv, TypeOK, NInArray, Calls
<1>6. CASE Die
  BY <1>6, DieInv
<1>7. CASE Dtor
  <2>1. [Idle EXCEPT !.loop = "freed"] \in Calls
    BY <1>0 DEF Idle, Calls, Pointers
  <2> QED
    BY <1>7, <2>1 DEF Dtor, Inv, TypeOK, NInArray, Calls, heapVars, history
<1> QED
  BY <1>1, <1>2, <1>3, <1>4, <1>5, <1>6, <1>7
  DEF Call, EraseFaults, AdjustFaults, TopFaults, PopFaults

LEMMA SettleInv ==
  ASSUME Inv, InLoop, NEW i, Settle(i), call.elem # NoEvent,
         UNCHANGED <<n, a, timeout, member, below>>
  PROVE  Inv'
<1>0. call \in Calls /\ Wrap \in Nat /\ Wrap > 0
  BY MinHeapAssumption DEF Inv, TypeOK, Calls
<1>1. cell' \in [0 .. a - 1 -> Pointers]
  BY <1>0, PutType DEF Settle, Inv, Calls
<1>2. idx' \in [Events -> -1 .. Wrap - 1]
  BY <1>0 DEF Settle, Inv, TypeOK, Calls
<1>3. call' \in Calls
  BY <1>0 DEF Settle, Idle, Calls, Pointers
<1> QED
  BY <1>1, <1>2, <1>3 DEF Inv, TypeOK, NInArray, Calls

LEMMA MoveInv ==
  ASSUME Inv, NEW q \in Events, NEW next \in 0 .. Wrap - 1,
         NEW loop \in {"climb", "down"}, Move(q, next, loop),
         UNCHANGED <<n, a, timeout, member, below>>
  PROVE  Inv'
<1>0. call \in Calls
  BY DEF Inv, TypeOK, Calls
<1>1. cell' \in [0 .. a - 1 -> Pointers]
  BY PutType DEF Move, Inv, Pointers
<1>2. idx' \in [Events -> -1 .. Wrap - 1]
  BY <1>0, MinHeapAssumption DEF Move, Inv, TypeOK, Calls
<1>3. call' \in Calls
  BY <1>0 DEF Move, Calls
<1> QED
  BY <1>1, <1>2, <1>3 DEF Inv, TypeOK, NInArray, Calls

LEMMA ChildType ==
  ASSUME Inv, NEW child \in 0 .. Wrap - 1, NEW c \in EarlierChild(child)
  PROVE  c[1] \in 0 .. Wrap - 1 /\ c[2] \in Events
<1>1. At(child) \subseteq Pointers /\ At(Less1(child)) \subseteq Pointers
  BY AtType DEF Inv
<1>2. Less1(child) \in 0 .. Wrap - 1
  BY Unsigned
<1> QED
  BY <1>1, <1>2 DEF EarlierChild, Pointers

LEMMA LoopInv ==
  ASSUME Inv, Loop
  PROVE  Inv'
<1>0. /\ call.hole \in 0 .. Wrap - 1 /\ call.elem \in Pointers
      /\ UNCHANGED <<n, a, timeout, member, below>>
  BY DEF Inv, TypeOK, Loop
<1>1. /\ Parent(call.hole) \in 0 .. Wrap - 1
      /\ Child(call.hole) \in 0 .. Wrap - 1
  BY <1>0, Unsigned
<1>2. At(Parent(call.hole)) \ {NoEvent} \subseteq Events
  BY AtType DEF Inv, Pointers
<1>3. CASE Lift
  BY <1>0, <1>1, <1>2, <1>3, MoveInv DEF Lift
<1>4. CASE Climb
  BY <1>0, <1>1, <1>2, <1>4, MoveInv, SettleInv DEF Climb, InLoop
<1>5. CASE ShiftUp
  <2>1. CASE \E i : Settle(i)
    BY <1>0, <1>5, <2>1, SettleInv DEF ShiftUp, InLoop
  <2>2. CASE /\ cell' = Put(Parent(call.hole), call.elem)
             /\ idx' = [idx EXCEPT ![call.elem] = call.hole]
             /\ call' = [call EXCEPT !.hole = Parent(call.hole)]
    <3>1. cell' \in [0 .. a - 1 -> Pointers]
      BY <1>0, <2>2, PutType DEF Inv
    <3>2. idx' \in [Events -> -1 .. Wrap - 1]
      <4>1. idx \in [Events -> -1 .. Wrap - 1] /\ call.hole \in -1 .. Wrap - 1
        BY <1>0, MinHeapAssumption DEF Inv, TypeOK
      <4> QED
        BY <2>2, <4>1
    <3>3. call' \in Calls
      BY <1>1, <2>2 DEF Inv, TypeOK, Calls
    <3> QED
      BY <1>0, <3>1, <3>2, <3>3 DEF Inv, TypeOK, NInArray, Calls
  <2> QED
    BY <1>5, <2>1, <2>2 DEF ShiftUp
<1>6. CASE ShiftDown
  <2>1. CASE Settle(Child(call.hole))
    BY <1>0, <1>6, <2>1, SettleInv DEF ShiftDown, InLoop
  <2>2. ASSUME NEW c \in EarlierChild(Child(call.hole)),
               Move(c[2], c[1], "down") \/ Settle(c[1])
        PROVE  Inv'
    BY <1>0, <1>1, <1>6, <2>2, ChildType, MoveInv, SettleInv DEF ShiftDown, InLoop
  <2> QED
    BY <1>6, <2>1, <2>2 DEF ShiftDown
<1> QED
  BY <1>3, <1>4, <1>5, <1>6 DEF Loop

LEMMA HeapInv == Spec => []Inv
<1>1. Inv /\ [Next]_vars => Inv'
  <2>1. CASE Call
    BY <2>1, CallInv
  <2>2. CASE Loop
    BY <2>2, LoopInv
  <2>3. CASE LoopFaults
    BY <2>3, DieInv DEF LoopFaults
  <2>4. CASE UNCHANGED vars
    BY <2>4 DEF Inv, TypeOK, NInArray, vars, history
  <2> QED
    BY <2>1, <2>2, <2>3, <2>4 DEF Next
<1> QED
  BY InitInv, <1>1, PTL DEF Spec

(* The array always has exactly the cells a says, whatever realloc does.   *)
THEOREM HeapTypeCorrect == Spec => []TypeOK
  BY HeapInv, PTL DEF Inv

(* n stays within the array until an erase has taken it below zero.        *)
THEOREM ArraySafe == Spec => []NInArray
  BY HeapInv, PTL DEF Inv

------------------------------------------------------------------------------
(* Two cells that change places: every pointer is there as often as before.*)
Swapped(D, A, B, i, j) ==
  /\ IsFiniteSet(D) /\ A \in [D -> Pointers] /\ B \in [D -> Pointers] /\ i \in D /\ j \in D
  /\ \A d \in D : B[d] = IF d = i THEN A[j] ELSE IF d = j THEN A[i] ELSE A[d]

LEMMA SwapCount ==
  ASSUME NEW D, NEW A, NEW B, NEW i, NEW j, Swapped(D, A, B, i, j)
  PROVE  Count(B) = Count(A)
<1> USE DEF Swapped
<1> DEFINE swap(d) == IF d = i THEN j ELSE IF d = j THEN i ELSE d
<1>1. /\ DOMAIN A = D /\ DOMAIN B = D
      /\ \A d \in D : swap(d) \in D /\ swap(swap(d)) = d /\ B[d] = A[swap(d)]
  OBVIOUS
<1>2. ASSUME NEW x \in Pointers
      PROVE  Cardinality({d \in DOMAIN B : B[d] = x}) = Cardinality({d \in DOMAIN A : A[d] = x})
  <2> DEFINE S == {d \in D : B[d] = x}
             T == {d \in D : A[d] = x}
             f == [d \in S |-> swap(d)]
  <2>1. IsFiniteSet(S)
    <3>1. S \subseteq D
      OBVIOUS
    <3> QED
      BY <3>1, FS_Subset
  <2>2. f \in Bijection(S, T)
    <3> HIDE DEF swap
    <3>1. f \in [S -> T]
      BY <1>1
    <3>2. \A c, d \in S : f[c] = f[d] => c = d
      BY <1>1
    <3>3. \A t \in T : \E d \in S : f[d] = t
      <4> SUFFICES ASSUME NEW t \in T PROVE \E d \in S : f[d] = t
        OBVIOUS
      <4>1. swap(t) \in S /\ f[swap(t)] = t
        BY <1>1
      <4> QED
        BY <4>1
    <3> HIDE DEF f, S, T
    <3> QED
      BY <3>1, <3>2, <3>3 DEF Bijection, Injection, Surjection, IsInjective
  <2>3. Cardinality(S) = Cardinality(T)
    <3> HIDE DEF S, T, f
    <3> QED
      BY <2>1, <2>2, FS_Bijection DEF ExistsBijection
  <2> QED
    BY <1>1, <2>3
<1> QED
  BY <1>2 DEF Count

(* The loop of an adjust that moves its event up from its own cell: the    *)
(* hole is a cell, not the first one before the first move, and the event  *)
(* in the hole would make the array what it was.                           *)
Whole ==
  /\ call.loop = "none" => had = NoCount
  /\ had # NoCount /\ call.loop \in {"lift", "climb"} =>
       /\ call.hole \in 0 .. a - 1 /\ call.elem \in Pointers
       /\ Count(Put(call.hole, call.elem)) = had
       /\ call.loop = "lift" => call.hole > 0

LEMMA Above ==
  ASSUME NEW i \in 1 .. Wrap - 1
  PROVE  Parent(i) \in 0 .. i - 1
<1>1. Less1(i) = i - 1 /\ i \in Nat
  BY Unsigned, MinHeapAssumption
<1> QED
  BY <1>1 DEF Parent

LEMMA MoveWhole ==
  ASSUME Inv, Whole, had # NoCount, call.loop \in {"lift", "climb"}, call.hole > 0,
         NEW q \in At(Parent(call.hole)), Move(q, Parent(call.hole), "climb"),
         had' = had, a' = a
  PROVE  Whole'
<1> DEFINE i == call.hole
           j == Parent(call.hole)
           e == call.elem
           A == Put(i, e)
<1>1. /\ a \in Nat /\ cell \in [0 .. a - 1 -> Pointers] /\ e \in Pointers
      /\ i \in 0 .. a - 1 /\ i \in 1 .. Wrap - 1 /\ Count(A) = had
  BY MinHeapAssumption DEF Inv, TypeOK, Whole
<1>2. j \in 0 .. i - 1 /\ j \in 0 .. a - 1 /\ j # i
  BY <1>1, Above
<1>3. q = cell[j]
  BY <1>1, <1>2 DEF At
<1>4. A = [cell EXCEPT ![i] = e] /\ cell' = [cell EXCEPT ![i] = q]
  BY <1>1 DEF Put, Move
<1>5. call'.hole = j /\ call'.elem = e /\ call'.loop = "climb"
  BY DEF Move, Inv, TypeOK
<1> HIDE DEF i, j, e, A
<1>6. Put(call.hole, call.elem)' = [cell' EXCEPT ![j] = e]
  <2>1. DOMAIN cell' = 0 .. a - 1
    BY <1>1, <1>4
  <2> QED
    BY <1>2, <1>5, <2>1 DEF Put
<1>7. A \in [0 .. a - 1 -> Pointers] /\ A[i] = e /\ A[j] = q
  BY <1>1, <1>2, <1>3, <1>4
<1> DEFINE B == [cell' EXCEPT ![j] = e]
<1>8. Count(B) = Count(A)
  <2>0. cell' \in [0 .. a - 1 -> Pointers] /\ q \in Pointers
    BY <1>1, <1>2, <1>3, <1>4
  <2>1. /\ B \in [0 .. a - 1 -> Pointers]
        /\ \A d \in 0 .. a - 1 : B[d] = IF d = i THEN A[j] ELSE IF d = j THEN A[i] ELSE A[d]
    BY <1>1, <1>2, <1>3, <1>4, <1>7, <2>0
  <2>2. IsFiniteSet(0 .. a - 1)
    BY <1>1, FS_Interval
  <2>3. Swapped(0 .. a - 1, A, B, i, j)
    BY <1>1, <1>2, <1>7, <2>1, <2>2 DEF Swapped
  <2> QED
    BY <2>3, SwapCount
<1>9. Count(Put(call.hole, call.elem))' = had'
  BY <1>1, <1>6, <1>8
<1> QED
  BY <1>1, <1>2, <1>5, <1>9 DEF Whole

LEMMA AdjustWhole == ASSUME Inv, NEW e \in Events, Adjust(e) PROVE Whole'
<1>1. PICK tv \in Timeouts, q \in At(Parent(idx[e])) :
        IF idx[e] > 0 /\ After(timeout'[q], tv)
          THEN Start("lift", idx[e], e, NoEvent)
          ELSE Start("down", idx[e], e, NoEvent)
  BY DEF Adjust
<1>2. CASE idx[e] > 0 /\ After(timeout'[q], tv)
  <2>1. call'.loop = "lift" /\ call'.hole = idx[e] /\ call'.elem = e
    BY <1>1, <1>2 DEF Start
  <2>2. ASSUME had' # NoCount PROVE idx[e] \in 0 .. a - 1 /\ Count(Put(idx[e], e)) = had'
    <3>1. idx[e] \in DOMAIN cell /\ cell[idx[e]] = e /\ had' = Count(cell)
      BY <2>2 DEF Adjust, At
    <3>2. Put(idx[e], e) = cell
      BY <3>1 DEF Put, Inv, TypeOK
    <3> QED
      BY <3>1, <3>2 DEF Inv, TypeOK
  <2>3. Put(call.hole, call.elem)' = Put(idx[e], e)
    BY <2>1 DEF Put, Adjust, heapVars
  <2>4. a' = a /\ e \in Pointers
    BY DEF Adjust, heapVars, Pointers
  <2> QED
    BY <1>2, <2>1, <2>2, <2>3, <2>4 DEF Whole
<1>3. CASE ~(idx[e] > 0 /\ After(timeout'[q], tv))
  <2>1. call'.loop = "down"
    BY <1>1, <1>3 DEF Start
  <2> QED
    BY <2>1 DEF Whole
<1> QED
  BY <1>2, <1>3

LEMMA CallWhole == ASSUME Inv, Whole, Call PROVE Whole'
<1>1. ASSUME NEW e \in Events, Push(e) \/ AdjustNew(e) PROVE Whole'
  <2>1. call'.loop = "up"
    BY <1>1 DEF Push, AdjustNew, PushInto, Start
  <2> QED
    BY <2>1 DEF Whole
<1>2. ASSUME NEW e \in Events, PushFails(e) PROVE Whole'
  BY <1>2 DEF PushFails, Whole, history
<1>3. ASSUME NEW e \in Events, Erase(e) PROVE Whole'
  <2>1. call'.loop \in {"lift", "down"} /\ had' = NoCount
    BY <1>3 DEF Erase, Start, Whole
  <2> QED
    BY <2>1 DEF Whole
<1>4. CASE Die \/ Dtor
  <2>1. call'.loop \in {"dead", "freed"}
    BY <1>4 DEF Die, Dtor, Idle
  <2> QED
    BY <2>1 DEF Whole
<1> QED
  BY <1>1, <1>2, <1>3, <1>4, AdjustWhole
  DEF Call, EraseFaults, AdjustFaults, TopFaults, PopFaults

LEMMA LoopWhole == ASSUME Inv, Whole, Loop PROVE Whole'
<1>0. had' = (IF call'.loop = "none" THEN NoCount ELSE had) /\ a' = a
  BY DEF Loop
<1>1. CASE \E i : Settle(i)
  BY <1>0, <1>1 DEF Settle, Idle, Whole
<1>2. CASE ShiftUp \/ ShiftDown
  <2>1. call'.loop \in {"up", "down"} \/ \E i : Settle(i)
    <3>1. CASE ShiftUp
      BY <3>1 DEF ShiftUp, Inv, TypeOK
    <3>2. CASE ShiftDown
      BY <3>2 DEF ShiftDown, Move, Inv, TypeOK
    <3> QED
      BY <1>2, <3>1, <3>2
  <2>2. CASE call'.loop \in {"up", "down"}
    BY <2>2 DEF Whole
  <2> QED
    BY <1>1, <2>1, <2>2
<1>3. ASSUME NEW q \in At(Parent(call.hole)), Move(q, Parent(call.hole), "climb"),
             call.loop \in {"lift", "climb"}, call.loop = "lift" \/ call.hole # 0
      PROVE  Whole'
  <2>1. call'.loop = "climb" /\ had' = had
    BY <1>0, <1>3 DEF Move, Inv, TypeOK
  <2>2. CASE had = NoCount
    BY <2>1, <2>2 DEF Whole
  <2>3. CASE had # NoCount
    <3>1. call.hole > 0
      BY <1>3, <2>3 DEF Whole, Inv, TypeOK
    <3> QED
      BY <1>0, <1>3, <2>1, <2>3, <3>1, MoveWhole
  <2> QED
    BY <2>2, <2>3
<1>4. CASE Lift
  BY <1>3, <1>4 DEF Lift
<1>5. CASE Climb
  BY <1>1, <1>3, <1>5 DEF Climb
<1> QED
  BY <1>2, <1>4, <1>5 DEF Loop

LEMMA WholeAlways == Spec => [](Inv /\ Whole)
<1>1. Init => Whole
  BY DEF Init, Idle, Whole
<1>2. Inv /\ Whole /\ [Next]_vars => Whole'
  <2> SUFFICES ASSUME Inv, Whole, [Next]_vars PROVE Whole'
    OBVIOUS
  <2>1. CASE LoopFaults
    BY <2>1 DEF LoopFaults, Die, Idle, Whole
  <2>2. CASE UNCHANGED vars
    BY <2>2 DEF vars, heapVars, history, Whole, Put
  <2> QED
    BY <2>1, <2>2, CallWhole, LoopWhole DEF Next
<1> QED
  BY HeapInv, <1>1, <1>2, PTL DEF Spec

(* An adjust that moves an event up from its own cell neither loses nor    *)
(* doubles a pointer, however many iterations its loop has made.           *)
THEOREM PointersKept == Spec => []NoPointerLost
<1>1. Whole => NoPointerLost
  BY DEF Whole, NoPointerLost
<1> QED
  BY <1>1, WholeAlways, PTL
==============================================================================
