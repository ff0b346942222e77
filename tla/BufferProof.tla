----------------------------- MODULE BufferProof -----------------------------
(* Proofs about the callbacks that drain and that write back, for any      *)
(* number of bufferevents, marks and sizes: no byte is forgotten or        *)
(* counted twice, a context lives as long as its bufferevent, and the      *)
(* Fibonacci numbers go on from one callback to the next.                  *)
EXTENDS BufferCallbacks, WellFoundedInduction, TLAPS

Bev == [state : {"none", "open", "freed"}, input : Nat, output : Nat, low : Nat,
        reading : BOOLEAN, writing : BOOLEAN,
        due : SUBSET {"read", "write", "event"},
        what : SUBSET {"connected", "eof", "error"}]
Info == [life : {"none", "live", "freed"}, total_drained : Nat]
Said == [of : {"nothing", "close", "connected", "errored"}, left : Nat, drained : Nat]

(* The bufferevents the properties are about. *)
Ours == Drains \union Uppers

Typed(b) == /\ bev[b] \in Bev /\ info[b] \in Info /\ said[b] \in Said
            /\ received[b] \in Nat /\ echoed[b] \in Nat

(* The properties, of one bufferevent. *)
Noticed(b) == Open(b) /\ bev[b].input > 0 /\ bev[b].input >= bev[b].low
                => "read" \in bev[b].due \/ running[b].cb = "upper"

Accounted(b) ==
  /\ b \in Drains /\ Open(b) => info[b].total_drained + bev[b].input = received[b]
  /\ b \in Uppers /\ Open(b) => echoed[b] + bev[b].input = received[b]
  /\ b \in Drains /\ said[b].of = "close" =>
       said[b].drained + said[b].left = received[b] /\ said[b].left < LowMark

Together(b) == b \in Drains => (Open(b) <=> info[b].life = "live")

(* What they need: nothing came in before a bufferevent is used; a report  *)
(* is the last of its bufferevent; setup_bufferevent has set the mark.     *)
Fresh(b) == /\ bev[b].state = "none" => bev[b].input = 0 /\ received[b] = 0 /\ echoed[b] = 0
            /\ b \in Drains /\ Open(b) => bev[b].low = LowMark
            /\ b \in Drains /\ said[b].of = "close" => bev[b].state = "freed"

Sound(b) == Typed(b) /\ Noticed(b) /\ Accounted(b) /\ Together(b) /\ Fresh(b)

(* A loop runs on a bufferevent its callback was set for. *)
Busy(b) == /\ running[b] = [cb |-> running[b].cb, len |-> running[b].len]
           /\ running[b].cb = "upper" => b \in Uppers
           /\ running[b].cb = "fib" => b \in Fibs

Tables == /\ DOMAIN bev = Bevs /\ DOMAIN info = Bevs /\ DOMAIN running = Bevs
          /\ DOMAIN said = Bevs /\ DOMAIN received = Bevs /\ DOMAIN echoed = Bevs

Inv == /\ Tables /\ ~raw
       /\ \A b \in Bevs : Busy(b)
       /\ \A b \in Ours : Sound(b)

LEMMA Kinds ==
  /\ Ours \subseteq Bevs /\ Uppers \subseteq Bevs /\ Drains \subseteq Bevs /\ Fibs \subseteq Bevs
  /\ \A b \in Drains : b \notin Uppers \union Proxies \union Fibs \union Demos
  /\ \A b \in Uppers : b \notin Drains \union Proxies \union Fibs \union Demos
  /\ \A b \in Ours : <<b, "read">> \in Set
  /\ LowMark \in Nat \ {0} /\ Tmp \in Nat \ {0}
  BY CallbacksAssumption DEF Ours

LEMMA InvImplies == Inv => NothingForgotten /\ BytesAccounted /\ LiveTogether
<1> SUFFICES ASSUME Inv PROVE NothingForgotten /\ BytesAccounted /\ LiveTogether
  OBVIOUS
<1>1. \A b \in Ours : Noticed(b) /\ Accounted(b) /\ Together(b)
  BY DEF Inv, Sound
<1>2. NothingForgotten
  BY <1>1 DEF NothingForgotten, Noticed, Ours
<1>3. BytesAccounted
  BY <1>1 DEF BytesAccounted, Accounted, Ours, Inv
<1>4. LiveTogether
  BY <1>1 DEF LiveTogether, Together, Ours, Open
<1> QED
  BY <1>2, <1>3, <1>4

LEMMA InitInv == Init => Inv
<1> SUFFICES ASSUME Init PROVE Inv
  OBVIOUS
<1>1. Tables /\ ~raw /\ \A b \in Bevs : Busy(b)
  BY DEF Init, Tables, Busy, Resting
<1>2. ASSUME NEW b \in Ours PROVE Sound(b)
  <2>1. /\ bev[b] = Unused /\ info[b] = NoInfo /\ said[b] = Nothing
        /\ received[b] = 0 /\ echoed[b] = 0
    BY <1>2, Kinds DEF Init
  <2>2. Typed(b)
    BY <2>1 DEF Typed, Unused, NoInfo, Nothing, Bev, Info, Said
  <2> QED
    BY <2>1, <2>2 DEF Sound, Noticed, Accounted, Together, Fresh, Open, Unused, NoInfo, Nothing
<1> QED
  BY <1>1, <1>2 DEF Inv

(* What is true of a bufferevent stays true when its buffers and its       *)
(* counters stay as they are and no read callback is forgotten.            *)
LEMMA Kept ==
  ASSUME NEW b, Sound(b), bev'[b] \in Bev, bev'[b].state = bev[b].state,
         bev'[b].input = bev[b].input, bev'[b].low = bev[b].low,
         Open(b) /\ ("read" \in bev[b].due \/ running[b].cb = "upper")
           => "read" \in bev'[b].due \/ running'[b].cb = "upper" \/ bev[b].input = 0,
         info'[b] = info[b], said'[b] = said[b],
         received'[b] = received[b], echoed'[b] = echoed[b]
  PROVE  Sound(b)'
<1>1. Typed(b) /\ Noticed(b) /\ Accounted(b) /\ Together(b) /\ Fresh(b)
  BY DEF Sound
<1>2. bev[b].input \in Nat
  BY <1>1 DEF Typed, Bev
<1>3. Typed(b)'
  BY <1>1 DEF Typed
<1>4. Noticed(b)'
  BY <1>1, <1>2 DEF Noticed, Open
<1>5. Accounted(b)'
  BY <1>1 DEF Accounted, Open
<1>6. Together(b)' /\ Fresh(b)'
  BY <1>1 DEF Together, Fresh, Open
<1> QED
  BY <1>3, <1>4, <1>5, <1>6 DEF Sound

(* Assignments to other fields of a bufferevent leave it one, with the     *)
(* state and the mark it had.                                              *)
Ways == {"read", "write", "event"}
Like(q, r) == q \in Bev /\ q.state = r.state /\ q.low = r.low

Moved(r, i, o)     == [r EXCEPT !.input = i, !.output = o]
Arrived(r, i, d)   == [r EXCEPT !.input = i, !.due = d]
Flushed(r, o, d)   == [r EXCEPT !.output = o, !.due = d]
ReadEnd(r, d, e)   == [r EXCEPT !.reading = FALSE, !.due = d, !.what = @ \union {e}]
WriteEnd(r, d, e)  == [r EXCEPT !.writing = FALSE, !.due = d, !.what = @ \union {e}]

LEMMA InputSet ==
  ASSUME NEW r \in Bev, NEW i \in Nat, NEW o \in Nat
  PROVE  Like(Moved(r, i, o), r) /\ Moved(r, i, o).input = i
  BY DEF Bev, Like, Moved

LEMMA DueSet ==
  ASSUME NEW r \in Bev, NEW i \in Nat, NEW d \in SUBSET Ways
  PROVE  /\ Like(Arrived(r, i, d), r)
         /\ Arrived(r, i, d).input = i /\ Arrived(r, i, d).due = d
  BY DEF Bev, Like, Ways, Arrived

LEMMA FlushSet ==
  ASSUME NEW r \in Bev, NEW o \in Nat, NEW d \in SUBSET Ways
  PROVE  /\ Like(Flushed(r, o, d), r)
         /\ Flushed(r, o, d).input = r.input /\ Flushed(r, o, d).due = d
  BY DEF Bev, Like, Ways, Flushed

LEMMA ReadEndSet ==
  ASSUME NEW r \in Bev, NEW d \in SUBSET Ways, NEW e \in {"eof", "error"}
  PROVE  /\ Like(ReadEnd(r, d, e), r)
         /\ ReadEnd(r, d, e).input = r.input /\ ReadEnd(r, d, e).due = d
  BY DEF Bev, Like, Ways, ReadEnd

LEMMA WriteEndSet ==
  ASSUME NEW r \in Bev, NEW d \in SUBSET Ways, NEW e \in {"eof", "error"}
  PROVE  /\ Like(WriteEnd(r, d, e), r)
         /\ WriteEnd(r, d, e).input = r.input /\ WriteEnd(r, d, e).due = d
  BY DEF Bev, Like, Ways, WriteEnd

LEMMA ToldSet ==
  ASSUME NEW r \in Bev
  PROVE  Like(Told(r), r) /\ Told(r).input = r.input
  BY DEF Bev, Called, Told, Like

(* A step about bufferevent b leaves the others as they are. *)
Aside(b) == \A c \in Bevs \ {b} :
  /\ bev'[c] = bev[c] /\ info'[c] = info[c] /\ running'[c] = running[c]
  /\ said'[c] = said[c] /\ received'[c] = received[c] /\ echoed'[c] = echoed[c]

LEMMA StepInv ==
  ASSUME Inv, NEW b, Tables', ~raw', Aside(b),
         b \in Bevs => Busy(b)', b \in Ours => Sound(b)'
  PROVE  Inv'
<1>1. ASSUME NEW c \in Bevs, c # b PROVE Busy(c)'
  BY <1>1 DEF Inv, Aside, Busy
<1>2. ASSUME NEW c \in Ours, c # b PROVE Sound(c)'
  <2>1. c \in Bevs /\ Sound(c)
    BY Kinds DEF Inv
  <2> QED
    BY <1>2, <2>1 DEF Aside, Sound, Typed, Noticed, Accounted, Together, Fresh, Open
<1> QED
  BY <1>1, <1>2 DEF Inv

LEMMA FaultInv == Inv /\ (Fault \/ UNCHANGED vars) => Inv'
<1> SUFFICES ASSUME Inv, Fault \/ UNCHANGED vars PROVE Inv'
  OBVIOUS
<1>1. UNCHANGED <<bev, info, running, said, received, echoed, raw>>
  BY DEF Fault, vars, rest
<1>2. Tables' /\ ~raw'
  BY <1>1 DEF Inv, Tables
<1>3. ASSUME NEW b \in Bevs PROVE Busy(b)'
  BY <1>1 DEF Inv, Busy
<1>4. ASSUME NEW b \in Ours PROVE Sound(b)'
  <2>1. Sound(b)
    BY DEF Inv
  <2> QED
    BY <1>1, <2>1, Kept DEF Sound, Typed
<1> QED
  BY <1>2, <1>3, <1>4 DEF Inv

------------------------------------------------------------------------------
LEMMA SetupInv ==
  ASSUME Inv, NEW b \in Drains, setup_bufferevent(b) PROVE Inv'
<1>1. b \in Bevs /\ b \in Ours /\ Sound(b) /\ Busy(b) /\ bev[b].state = "none"
  BY Kinds DEF Inv, Ours, setup_bufferevent
<1>2. PICK r \in {Readable, Connecting({"connected"}), Connecting({"error"})} :
        bev' = [bev EXCEPT ![b] = [r EXCEPT !.low = LowMark]]
  BY DEF setup_bufferevent
<1>3. /\ info' = [info EXCEPT ![b] = [life |-> "live", total_drained |-> 0]]
      /\ UNCHANGED <<running, said, received, echoed, raw>>
  BY DEF setup_bufferevent, rest
<1>4. /\ bev'[b] \in Bev /\ bev'[b].state = "open" /\ bev'[b].input = 0
      /\ bev'[b].low = LowMark
  <2>1. bev'[b] = [r EXCEPT !.low = LowMark]
    BY <1>1, <1>2 DEF Inv, Tables
  <2>2. r \in Bev /\ r.state = "open" /\ r.input = 0
    <3>1. CASE r = Readable
      BY <3>1 DEF Readable, Opened, Unused, Bev
    <3>2. CASE r = Connecting({"connected"})
      BY <3>2 DEF Connecting, Opened, Unused, Bev
    <3>3. CASE r = Connecting({"error"})
      BY <3>3 DEF Connecting, Opened, Unused, Bev
    <3> QED
      BY <3>1, <3>2, <3>3
  <2> QED
    BY <2>1, <2>2, Kinds DEF Bev
<1>5. info'[b] = [life |-> "live", total_drained |-> 0]
  BY <1>1, <1>3 DEF Inv, Tables
<1>6. Sound(b)'
  BY <1>1, <1>3, <1>4, <1>5, Kinds
     DEF Sound, Typed, Noticed, Accounted, Together, Fresh, Open, Info
<1>7. Tables' /\ ~raw' /\ Aside(b) /\ Busy(b)'
  BY <1>1, <1>2, <1>3 DEF Inv, Tables, Aside, Busy
<1> QED
  BY <1>6, <1>7, StepInv

(* A program sets another callback, or main_loop runs. *)
LEMMA NewInv ==
  ASSUME Inv, NEW b \in Bevs \ Drains, bev[b].state = "none", NEW r \in Bev,
         r.input = 0, r.state \in {"open", "freed"},
         bev' = [bev EXCEPT ![b] = r],
         \/ said' = said
         \/ \E x \in {"nothing", "connected", "errored"} : said' = [said EXCEPT ![b].of = x],
         b \in Uppers => said' = said,
         UNCHANGED <<info, running, received, echoed, raw>>
  PROVE  Inv'
<1>1. Tables' /\ ~raw' /\ Aside(b) /\ Busy(b)'
  BY DEF Inv, Tables, Aside, Busy
<1>2. ASSUME b \in Ours PROVE Sound(b)'
  <2>1. Sound(b) /\ b \in Uppers /\ bev'[b] = r
    BY <1>2 DEF Inv, Ours, Tables
  <2> QED
    BY <2>1, Kinds DEF Sound, Typed, Noticed, Accounted, Together, Fresh, Open
<1> QED
  BY <1>1, <1>2, StepInv

LEMMA SetCallbackInv ==
  ASSUME Inv, NEW b \in Uppers \union Proxies \union Fibs, SetCallback(b) PROVE Inv'
<1>1. b \in Bevs \ Drains
  BY CallbacksAssumption
<1>2. Opened \in Bev /\ Readable \in Bev
  BY DEF Opened, Readable, Unused, Bev
<1>3. /\ Opened.input = 0 /\ Opened.state = "open"
      /\ Readable.input = 0 /\ Readable.state = "open"
  BY DEF Opened, Readable, Unused
<1> DEFINE r == IF b \in Fibs THEN Opened ELSE Readable
<1>4. r \in Bev /\ r.input = 0 /\ r.state \in {"open", "freed"}
  BY <1>2, <1>3
<1>5. /\ bev[b].state = "none" /\ bev' = [bev EXCEPT ![b] = r]
      /\ UNCHANGED <<info, running, said, received, echoed, raw>>
  BY DEF SetCallback, rest
<1> HIDE DEF r
<1> QED
  BY <1>1, <1>4, <1>5, NewInv

LEMMA MainLoopInv ==
  ASSUME Inv, NEW b \in Demos, main_loop(b) \/ main_loop_Fails(b) PROVE Inv'
<1>1. b \in Bevs \ Drains /\ b \notin Uppers
  BY CallbacksAssumption
<1>2. /\ Opened \in Bev /\ Freed \in Bev
      /\ Opened.input = 0 /\ Opened.state = "open"
      /\ Freed.input = 0 /\ Freed.state = "freed"
  BY DEF Opened, Freed, Unused, Bev
<1>3. CASE main_loop(b)
  <2>1. /\ bev[b].state = "none" /\ bev' = [bev EXCEPT ![b] = Opened]
        /\ UNCHANGED <<info, running, said, received, echoed, raw>>
    BY <1>3 DEF main_loop, rest
  <2>2. Opened.state \in {"open", "freed"}
    BY <1>2
  <2> QED
    BY ONLY Inv, <1>1, <1>2, <2>1, <2>2, NewInv
<1>4. CASE main_loop_Fails(b)
  <2>1. eventcb({"error"}) \in {"nothing", "connected", "errored"}
    BY DEF eventcb
  <2> QED
    <3>1. /\ bev[b].state = "none" /\ bev' = [bev EXCEPT ![b] = Freed]
          /\ said' = [said EXCEPT ![b].of = eventcb({"error"})]
          /\ UNCHANGED <<info, running, received, echoed, raw>>
      BY <1>4 DEF main_loop_Fails
    <3>2. \E x \in {"nothing", "connected", "errored"} : said' = [said EXCEPT ![b].of = x]
      BY <2>1, <3>1
    <3>3. Freed.state \in {"open", "freed"}
      BY <1>2
    <3> QED
      BY ONLY Inv, <1>1, <1>2, <3>1, <3>2, <3>3, NewInv
<1> QED
  BY <1>3, <1>4

------------------------------------------------------------------------------
LEMMA ReadInv ==
  ASSUME Inv, NEW b \in Drains, read_callback(b) PROVE Inv'
<1>1. b \in Bevs /\ b \in Ours /\ Sound(b) /\ Busy(b)
  BY Kinds DEF Inv, Ours
<1>2. /\ bev' = [bev EXCEPT ![b].input = @ - Drained(bev[b].input),
                            ![b].due = @ \ {"read"}]
      /\ info' = [info EXCEPT ![b].total_drained = @ + Drained(bev[b].input)]
      /\ UNCHANGED <<running, said, received, echoed, raw>>
  BY DEF read_callback, rest
<1>3. /\ bev'[b] \in Bev /\ bev'[b].state = bev[b].state /\ bev'[b].input = 0
      /\ bev'[b].low = bev[b].low
      /\ info'[b] \in Info /\ info'[b].life = info[b].life
      /\ info'[b].total_drained = info[b].total_drained + bev[b].input
  <2>1. bev[b] \in Bev /\ info[b] \in Info
    BY <1>1 DEF Sound, Typed
  <2>2. bev'[b] = [bev[b] EXCEPT !.input = @ - bev[b].input, !.due = @ \ {"read"}]
    BY <1>1, <1>2 DEF Inv, Tables, Drained
  <2>3. info'[b] = [info[b] EXCEPT !.total_drained = @ + bev[b].input]
    BY <1>1, <1>2 DEF Inv, Tables, Drained
  <2>4. bev[b].input \in Nat /\ info[b].total_drained \in Nat
    BY <2>1 DEF Bev, Info
  <2>5. /\ info'[b] \in Info /\ info'[b].life = info[b].life
        /\ info'[b].total_drained = info[b].total_drained + bev[b].input
    BY <2>1, <2>3, <2>4 DEF Info
  <2> DEFINE due == bev[b].due \ {"read"}
  <2>6. due \in SUBSET Ways
    BY <2>1 DEF Bev, Ways
  <2> DEFINE left == bev[b].input - bev[b].input
  <2>7. left = 0 /\ left \in Nat
    BY <2>4
  <2>8. bev'[b] = Arrived(bev[b], left, due)
    BY <2>2 DEF Arrived
  <2> HIDE DEF due, left
  <2> QED
    BY <2>1, <2>5, <2>6, <2>7, <2>8, DueSet DEF Like
<1>4. Sound(b)'
  <2>1. /\ bev[b].input \in Nat /\ info[b].total_drained \in Nat /\ received[b] \in Nat
    BY <1>1 DEF Sound, Typed, Bev, Info
  <2> QED
    BY <1>1, <1>2, <1>3, <2>1, Kinds
       DEF Sound, Typed, Noticed, Accounted, Together, Fresh, Open
<1>5. Tables' /\ ~raw' /\ Aside(b) /\ Busy(b)'
  BY <1>1, <1>2 DEF Inv, Tables, Aside, Busy
<1> QED
  BY <1>4, <1>5, StepInv

(* The event callback comes last, so less than a mark is left. *)
LEMMA EventInv ==
  ASSUME Inv, NEW b \in Drains, event_callback(b) PROVE Inv'
<1>1. b \in Bevs /\ b \in Ours /\ Sound(b) /\ Busy(b)
  BY Kinds DEF Inv, Ours
<1>2. /\ Open(b) /\ running[b] = Resting /\ bev[b].due = {"event"}
      /\ UNCHANGED <<running, received, echoed, raw>>
  BY <1>1 DEF event_callback, Calls, Idle, IsNext
<1>3. /\ bev[b] \in Bev /\ info[b] \in Info /\ said[b] \in Said
      /\ bev[b].input \in Nat /\ info[b].total_drained \in Nat /\ received[b] \in Nat
  BY <1>1 DEF Sound, Typed, Bev, Info
<1>4. bev[b].input < LowMark /\ bev[b].low = LowMark
  BY <1>1, <1>2, <1>3, Kinds DEF Sound, Noticed, Fresh, Resting
<1>5. said' \in {said, [said EXCEPT ![b] = Report(b)]}
  BY DEF event_callback
<1>6. /\ Tables'
      /\ said'[b] = said[b] \/ said'[b] = Report(b)
      /\ \A c \in Bevs \ {b} : said'[c] = said[c]
  BY <1>1, <1>2, <1>5 DEF event_callback, Inv, Tables
<1>7. said[b].of # "close"
  BY <1>1, <1>2 DEF Sound, Fresh, Open
<1>8. Report(b) \in Said /\ Report(b).left = bev[b].input
      /\ Report(b).drained = info[b].total_drained
  BY <1>3 DEF Report, Said
<1>9. CASE bev[b].what \intersect {"eof", "error"} # {}
  <2>1. bev' = [bev EXCEPT ![b] = Freed] /\ info' = [info EXCEPT ![b].life = "freed"]
    BY <1>9 DEF event_callback, Ended
  <2>2. bev'[b] = Freed /\ info'[b] = [info[b] EXCEPT !.life = "freed"]
    BY <1>1, <2>1 DEF Inv, Tables
  <2>3. Freed \in Bev /\ Freed.state = "freed" /\ info'[b] \in Info /\ info'[b].life = "freed"
    BY <1>3, <2>2 DEF Freed, Unused, Bev, Info
  <2>4. Sound(b)'
    BY <1>1, <1>2, <1>3, <1>4, <1>6, <1>7, <1>8, <2>2, <2>3, Kinds
       DEF Sound, Typed, Noticed, Accounted, Together, Fresh, Open
  <2>5. ~raw' /\ Aside(b) /\ Busy(b)'
    BY <1>1, <1>2, <1>6, <2>1 DEF Inv, Tables, Aside, Busy
  <2> QED
    BY <1>6, <2>4, <2>5, StepInv
<1>10. CASE bev[b].what \intersect {"eof", "error"} = {}
  <2>1. bev' = [bev EXCEPT ![b] = Told(@)] /\ info' = info /\ said' = said
    BY <1>10 DEF event_callback
  <2>2. bev'[b] = Told(bev[b])
    BY <1>1, <2>1 DEF Inv, Tables
  <2>3. /\ bev'[b] \in Bev /\ bev'[b].state = bev[b].state
        /\ bev'[b].input = bev[b].input /\ bev'[b].low = bev[b].low
    BY <1>3, <2>2, ToldSet DEF Like
  <2>4. Sound(b)'
    BY <1>1, <1>2, <1>3, <1>4, <2>1, <2>3, Kinds
       DEF Sound, Typed, Noticed, Accounted, Together, Fresh, Open
  <2>5. ~raw' /\ Aside(b) /\ Busy(b)'
    BY <1>1, <1>2, <2>1 DEF Inv, Tables, Aside, Busy
  <2> QED
    BY <1>6, <2>4, <2>5, StepInv
<1> QED
  BY <1>9, <1>10

------------------------------------------------------------------------------
LEMMA UpperStartInv ==
  ASSUME Inv, NEW b \in Uppers, read_callback_uppercase(b) PROVE Inv'
<1>1. b \in Bevs /\ b \in Ours /\ b \notin Drains /\ Sound(b) /\ Busy(b) /\ bev[b] \in Bev
  BY Kinds DEF Inv, Ours, Sound, Typed
<1>2. /\ bev' = [bev EXCEPT ![b] = Called(@, "read")]
      /\ running' = [running EXCEPT ![b].cb = "upper"]
      /\ UNCHANGED <<info, said, received, echoed, raw>>
  BY DEF read_callback_uppercase, rest
<1>3. bev'[b] = Called(bev[b], "read") /\ running'[b] = [running[b] EXCEPT !.cb = "upper"]
  BY <1>1, <1>2 DEF Inv, Tables
<1>4. running'[b] = [cb |-> "upper", len |-> running[b].len]
  BY <1>1, <1>3 DEF Busy
<1>5. /\ bev'[b] \in Bev /\ bev'[b].state = bev[b].state
      /\ bev'[b].input = bev[b].input /\ bev'[b].low = bev[b].low
  BY <1>1, <1>3 DEF Called, Bev
<1>6. Sound(b)'
  BY <1>1, <1>2, <1>4, <1>5 DEF Sound, Typed, Noticed, Accounted, Together, Fresh, Open
<1>7. Tables' /\ ~raw' /\ Aside(b) /\ Busy(b)'
  BY <1>1, <1>2, <1>4 DEF Inv, Tables, Aside, Busy
<1> QED
  BY <1>6, <1>7, StepInv

(* An iteration moves what it reads; the last one finds nothing to read. *)
LEMMA UpperReadInv ==
  ASSUME Inv, NEW b \in Bevs, UpperRead(b) PROVE Inv'
<1> DEFINE n == ReadUpTo(b)
<1>1. b \in Uppers /\ b \in Ours /\ b \notin Drains /\ Sound(b) /\ Busy(b) /\ bev[b] \in Bev
  BY Kinds DEF UpperRead, InLoop, Inv, Busy, Ours, Sound, Typed
<1>2. /\ bev[b].input \in Nat /\ bev[b].output \in Nat
      /\ echoed[b] \in Nat /\ received[b] \in Nat
  BY <1>1 DEF Bev, Sound, Typed
<1>3. n \in Nat /\ n <= bev[b].input /\ (n = 0 => bev[b].input = 0)
  BY <1>2, Kinds DEF ReadUpTo, Least
<1>4. UNCHANGED <<info, said, received>> /\ running[b].cb = "upper"
  BY DEF UpperRead, InLoop
<1>5. CASE LastRead(n)
  <2>1. running' = [running EXCEPT ![b] = Resting] /\ UNCHANGED <<bev, echoed, raw>>
    BY <1>5 DEF UpperRead
  <2>2. bev[b].input = 0
    BY <1>3, <1>5 DEF LastRead
  <2>3. Sound(b)'
    BY <1>1, <1>2, <1>4, <2>1, <2>2
       DEF Sound, Typed, Noticed, Accounted, Together, Fresh, Open
  <2>4. Tables' /\ ~raw' /\ Aside(b) /\ Busy(b)'
    BY <1>4, <2>1 DEF Inv, Tables, Aside, Busy, Resting
  <2> QED
    BY <2>3, <2>4, StepInv
<1>6. CASE ~LastRead(n)
  <2>1. /\ bev' = [bev EXCEPT ![b].input = @ - n, ![b].output = @ + n]
        /\ echoed' = [echoed EXCEPT ![b] = @ + n]
        /\ raw' = (raw \/ ~(0 .. n - 1 \subseteq Turned(n)))
        /\ running' = running
    BY <1>6 DEF UpperRead
  <2>2. ~raw'
    <3>1. 0 .. n - 1 \subseteq Turned(n)
      BY <1>3 DEF Turned
    <3>2. ~raw
      BY DEF Inv
    <3> HIDE DEF n
    <3> QED
      BY <2>1, <3>1, <3>2, Zenon
  <2>3. /\ bev'[b] = [bev[b] EXCEPT !.input = @ - n, !.output = @ + n]
        /\ echoed'[b] = echoed[b] + n
    BY <1>1, <2>1, Kinds DEF Inv, Tables
  <2> HIDE DEF n
  <2>4. /\ bev'[b] \in Bev /\ bev'[b].state = bev[b].state
        /\ bev'[b].input = bev[b].input - n
    <3> DEFINE i == bev[b].input - n
               o == bev[b].output + n
    <3>1. i \in Nat /\ o \in Nat
      BY <1>2, <1>3
    <3>2. bev'[b] = Moved(bev[b], i, o)
      BY <2>3 DEF Moved
    <3> HIDE DEF o
    <3>3. Like(Moved(bev[b], i, o), bev[b]) /\ Moved(bev[b], i, o).input = i
      BY <1>1, <3>1, InputSet
    <3> QED
      BY <3>2, <3>3 DEF Like
  <2>5. Sound(b)'
    <3>1. Typed(b) /\ Accounted(b) /\ Fresh(b)
      BY <1>1 DEF Sound
    <3>2. Typed(b)'
      BY <1>2, <1>3, <1>4, <2>3, <2>4, <3>1 DEF Typed
    <3>3. Noticed(b)'
      BY <1>4, <2>1 DEF Noticed
    <3>4. Accounted(b)'
      BY <1>1, <1>2, <1>3, <1>4, <2>3, <2>4, <3>1 DEF Accounted, Open
    <3>5. Together(b)' /\ Fresh(b)'
      BY <1>1, <1>2, <1>3, <1>6, <2>4, <3>1 DEF Together, Fresh, Open, LastRead
    <3> QED
      BY <3>2, <3>3, <3>4, <3>5 DEF Sound
  <2>6. Tables' /\ Aside(b) /\ Busy(b)'
    BY <1>1, <1>4, <2>1 DEF Inv, Tables, Aside, Busy
  <2> QED
    BY <2>2, <2>5, <2>6, StepInv
<1> QED
  BY <1>5, <1>6

(* The other callbacks: their bufferevents are not ours. *)
LEMMA OtherInv ==
  ASSUME Inv, NEW b \in Bevs \ Ours, Tables', Busy(b)', Aside(b), raw' = raw
  PROVE  Inv'
  BY StepInv DEF Inv

LEMMA ProxyInv ==
  ASSUME Inv, NEW b \in Proxies, read_callback_proxy(b) PROVE Inv'
<1>1. b \in Bevs \ Ours
  BY CallbacksAssumption DEF Ours
<1>2. Tables' /\ Busy(b)' /\ Aside(b) /\ raw' = raw
  BY <1>1 DEF read_callback_proxy, rest, Inv, Tables, Busy, Aside
<1> QED
  BY <1>1, <1>2, OtherInv

LEMMA FibInv ==
  ASSUME Inv, NEW b \in Bevs, (b \in Fibs /\ write_callback_fibonacci(b)) \/ FibStep(b)
  PROVE  Inv'
<1>1. b \in Fibs /\ Busy(b)
  BY DEF FibStep, InLoop, Inv, Busy
<1>2. b \in Bevs \ Ours
  BY <1>1, CallbacksAssumption DEF Ours
<1>3. Tables' /\ Aside(b) /\ raw' = raw
  BY DEF write_callback_fibonacci, FibStep, rest, Inv, Tables, Aside
<1>4. Busy(b)'
  <2>1. CASE write_callback_fibonacci(b)
    <3>1. running'[b] = [running[b] EXCEPT !.cb = "fib"]
      BY <2>1 DEF write_callback_fibonacci, Inv, Tables
    <3>2. running'[b] = [cb |-> "fib", len |-> running[b].len]
      BY <1>1, <3>1 DEF Busy
    <3> QED
      BY <1>1, <3>2 DEF Busy
  <2>2. CASE FibStep(b)
    <3>1. CASE running[b].len >= Chunk
      <4>1. running' = [running EXCEPT ![b] = Resting]
        BY <2>2, <3>1 DEF FibStep
      <4>2. running'[b] = Resting
        BY <4>1 DEF Inv, Tables
      <4> QED
        BY <4>2 DEF Busy, Resting
    <3>2. CASE ~(running[b].len >= Chunk)
      <4> DEFINE len == running[b].len + Digits(NextFib(last_fib[b])[2])
      <4>1. running' = [running EXCEPT ![b].len = len]
        BY <2>2, <3>2, Zenon DEF FibStep
      <4> HIDE DEF len
      <4>2. running'[b] = [running[b] EXCEPT !.len = len]
        BY <4>1 DEF Inv, Tables
      <4>3. running'[b] = [cb |-> running[b].cb, len |-> len]
        BY <1>1, <4>2 DEF Busy
      <4> QED
        BY <1>1, <4>3 DEF Busy
    <3> QED
      BY <3>1, <3>2
  <2> QED
    BY <2>1, <2>2
<1> QED
  BY <1>2, <1>3, <1>4, OtherInv

------------------------------------------------------------------------------
(* The socket: bytes that reach the mark make the read callback due; the   *)
(* rest leaves the input alone.                                            *)
LEMMA SocketInv ==
  ASSUME Inv, NEW b \in Bevs, Socket(b) PROVE Inv'
<1>1. UNCHANGED <<info, running, said, echoed, raw>>
  BY DEF Socket
<1>2. CASE \E k \in 1 .. MaxInput :
             Arrive(b, k) /\ received' = [received EXCEPT ![b] = @ + k]
  <2>1. PICK k \in 1 .. MaxInput :
          Arrive(b, k) /\ received' = [received EXCEPT ![b] = @ + k]
    BY <1>2
  <2> DEFINE due == IF bev[b].input + k >= bev[b].low THEN Due(b, "read") ELSE bev[b].due
  <2>2. Open(b) /\ bev' = [bev EXCEPT ![b].input = @ + k, ![b].due = due]
    BY <2>1 DEF Arrive
  <2>3. Tables' /\ ~raw' /\ Aside(b) /\ Busy(b)'
    BY <1>1, <2>1, <2>2 DEF Inv, Tables, Aside, Busy
  <2>4. ASSUME b \in Ours PROVE Sound(b)'
    <3>1. /\ Sound(b) /\ bev[b] \in Bev /\ bev[b].input \in Nat /\ bev[b].low \in Nat
          /\ received[b] \in Nat /\ info[b] \in Info /\ info[b].total_drained \in Nat
          /\ echoed[b] \in Nat /\ (said[b].of # "close" \/ b \notin Drains)
      BY <2>2, <2>4 DEF Inv, Sound, Typed, Bev, Info, Fresh, Open
    <3>2. bev'[b] = [bev[b] EXCEPT !.input = @ + k, !.due = due]
      BY <2>2 DEF Inv, Tables
    <3>3. received'[b] = received[b] + k /\ k \in Nat /\ k > 0
      BY <2>1, CallbacksAssumption DEF Inv, Tables
    <3>4. due \in SUBSET {"read", "write", "event"}
      BY <3>1 DEF Due, Bev
    <3>5. bev[b].input + k >= bev[b].low => "read" \in due
      BY <2>4, Kinds DEF Due
    <3> HIDE DEF due
    <3>6. /\ bev'[b] \in Bev /\ bev'[b].state = bev[b].state /\ bev'[b].low = bev[b].low
          /\ bev'[b].input = bev[b].input + k /\ bev'[b].due = due
      <4>1. /\ bev[b].input + k \in Nat
            /\ bev'[b] = Arrived(bev[b], bev[b].input + k, due)
        BY <3>1, <3>2, <3>3 DEF Arrived
      <4> QED
        BY <3>1, <3>4, <4>1, DueSet DEF Like, Ways
    <3> QED
      BY <1>1, <2>2, <3>1, <3>3, <3>5, <3>6, Kinds
         DEF Sound, Typed, Noticed, Accounted, Together, Fresh, Open
  <2> QED
    BY <2>3, <2>4, StepInv
<1>3. CASE (ReadEnds(b) \/ WriteFails(b) \/ Flush(b) \/ Trigger(b)) /\ UNCHANGED received
  <2>1. /\ Open(b)
        /\ \E x : bev' = [bev EXCEPT ![b] = x]
    <3>1. ASSUME ReadEnds(b) PROVE \E x : bev' = [bev EXCEPT ![b] = x]
      BY <3>1 DEF ReadEnds
    <3>2. ASSUME WriteFails(b) PROVE \E x : bev' = [bev EXCEPT ![b] = x]
      BY <3>2 DEF WriteFails
    <3>3. ASSUME Flush(b) PROVE \E x : bev' = [bev EXCEPT ![b] = x]
      BY <3>3 DEF Flush
    <3>4. ASSUME Trigger(b) PROVE \E x : bev' = [bev EXCEPT ![b] = x]
      BY <3>4 DEF Trigger
    <3> QED
      BY <1>3, <3>1, <3>2, <3>3, <3>4 DEF ReadEnds, WriteFails, Flush, Trigger
  <2>2. Tables' /\ ~raw' /\ Aside(b) /\ Busy(b)'
    BY <1>1, <1>3, <2>1 DEF Inv, Tables, Aside, Busy
  <2>3. ASSUME b \in Ours PROVE Sound(b)'
    <3>1. Sound(b) /\ bev[b] \in Bev
      BY <2>3 DEF Inv, Sound, Typed
    <3>2. \A way \in {"read", "write", "event"} :
            bev[b].due \subseteq Due(b, way) /\ Due(b, way) \in SUBSET {"read", "write", "event"}
      BY <3>1 DEF Due, Bev
    <3>3. /\ bev'[b] \in Bev /\ bev'[b].state = bev[b].state /\ bev'[b].low = bev[b].low
          /\ bev'[b].input = bev[b].input /\ bev[b].due \subseteq bev'[b].due
      <4>1. CASE ReadEnds(b)
        <5>1. PICK what \in {"eof", "error"} :
                bev'[b] = ReadEnd(bev[b], Due(b, "event"), what)
          BY <4>1 DEF ReadEnds, ReadEnd, Inv, Tables
        <5> QED
          BY <3>1, <3>2, <5>1, ReadEndSet DEF Like, Ways
      <4>2. CASE WriteFails(b)
        <5>1. bev'[b] = WriteEnd(bev[b], Due(b, "event"), "error")
          BY <4>2 DEF WriteFails, WriteEnd, Inv, Tables
        <5> QED
          BY <3>1, <3>2, <5>1, WriteEndSet DEF Like, Ways
      <4>3. CASE Flush(b)
        <5>1. PICK left \in {0, bev[b].output \div 2} :
                bev'[b] = [bev[b] EXCEPT !.output = left,
                             !.due = IF left = 0 THEN Due(b, "write") ELSE @]
          BY <4>3 DEF Flush, Inv, Tables
        <5>2. left \in Nat
          BY <3>1 DEF Bev
        <5> DEFINE due == IF left = 0 THEN Due(b, "write") ELSE bev[b].due
        <5>3. bev[b].due \subseteq due /\ due \in SUBSET Ways
          BY <3>1, <3>2 DEF Bev, Ways
        <5>4. bev'[b] = Flushed(bev[b], left, due)
          BY <5>1 DEF Flushed
        <5> HIDE DEF due
        <5> QED
          BY <3>1, <5>2, <5>3, <5>4, FlushSet DEF Like
      <4>4. CASE Trigger(b)
        <5>1. bev'[b] = [bev[b] EXCEPT !.due = Due(b, "write")]
          BY <4>4 DEF Trigger, Inv, Tables
        <5> QED
          BY <3>1, <3>2, <5>1 DEF Bev
      <4> QED
        BY <1>3, <4>1, <4>2, <4>3, <4>4
    <3> QED
      BY <1>1, <1>3, <3>1, <3>3 DEF Sound, Typed, Noticed, Accounted, Together, Fresh, Open
  <2> QED
    BY <2>2, <2>3, StepInv
<1> QED
  BY <1>2, <1>3 DEF Socket

LEMMA NextInv == Inv /\ [Next]_vars => Inv'
<1> SUFFICES ASSUME Inv, [Next]_vars PROVE Inv'
  OBVIOUS
<1>1. CASE SetupFaults \/ UNCHANGED vars
  BY <1>1, FaultInv DEF SetupFaults
<1>2. CASE Iterate
  BY <1>2, UpperReadInv, FibInv, FaultInv DEF Iterate, UpperFaults
<1>3. CASE \E b \in Bevs : Socket(b)
  BY <1>3, SocketInv
<1>4. CASE \E b \in Drains : setup_bufferevent(b) \/ read_callback(b) \/ event_callback(b)
  BY <1>4, SetupInv, ReadInv, EventInv
<1>5. CASE \E b \in Uppers \union Proxies \union Fibs : SetCallback(b)
  BY <1>5, SetCallbackInv
<1>6. CASE \E b \in Uppers : read_callback_uppercase(b)
  BY <1>6, UpperStartInv
<1>7. CASE \E b \in Proxies : read_callback_proxy(b) \/ ProxyFaults(b)
  BY <1>7, ProxyInv, FaultInv DEF ProxyFaults
<1>8. CASE \E b \in Fibs : write_callback_fibonacci(b) \/ FibFaults(b)
  BY <1>8, FibInv, FaultInv, Kinds DEF FibFaults
<1>9. CASE \E b \in Demos : main_loop(b) \/ main_loop_Fails(b) \/ main_loop_Faults(b)
  BY <1>9, MainLoopInv, FaultInv DEF main_loop_Faults
<1> QED
  BY <1>1, <1>2, <1>3, <1>4, <1>5, <1>6, <1>7, <1>8, <1>9 DEF Next

LEMMA BufferInv == Spec => []Inv
  BY InitInv, NextInv, PTL DEF Spec

(* read_callback and read_callback_uppercase leave no input at the low     *)
(* mark that no callback is due for.                                       *)
THEOREM NothingForgottenSafe == Spec => []NothingForgotten
<1>1. Inv => NothingForgotten
  BY InvImplies
<1> QED
  BY <1>1, BufferInv, PTL

(* Every byte that came in is drained, written back in upper case or still *)
(* there, and what event_callback prints at the end of file is true.       *)
THEOREM BytesAccountedSafe == Spec => []BytesAccounted
<1>1. Inv => BytesAccounted
  BY InvImplies
<1> QED
  BY <1>1, BufferInv, PTL

(* A bufferevent of setup_bufferevent and its context live and die         *)
(* together.                                                               *)
THEOREM LiveTogetherSafe == Spec => []LiveTogether
<1>1. Inv => LiveTogether
  BY InvImplies
<1> QED
  BY <1>1, BufferInv, PTL

------------------------------------------------------------------------------
(* The Fibonacci numbers.  Induction over the naturals is over a set here: *)
(* the least number outside it would follow one in it.                     *)
LEMMA Induct ==
  ASSUME NEW T, T \subseteq Nat, 0 \in T, \A k \in T : k + 1 \in T
  PROVE  T = Nat
<1> DEFINE R == OpToRel(<, Nat)
           U == Nat \ T
<1>1. R = {p \in Nat \X Nat : p[1] < p[2]}
  BY DEF OpToRel
<1>2. IsWellFoundedOn(R, Nat)
  BY NatLessThanWellFounded
<1> HIDE DEF R
<1>3. SUFFICES ASSUME U # {} PROVE FALSE
  OBVIOUS
<1>4. U \subseteq Nat
  OBVIOUS
<1> HIDE DEF U
<1>5. PICK x \in U : \A y \in U : ~(<<y, x>> \in R)
  BY <1>2, <1>3, <1>4, WFMin
<1>6. x \in Nat /\ x # 0 /\ x - 1 \in Nat /\ <<x - 1, x>> \in R
  BY <1>1, <1>4 DEF U
<1>7. x - 1 \in T
  BY <1>5, <1>6 DEF U
<1>8. (x - 1) + 1 \in T
  BY <1>7
<1> QED
  BY <1>6, <1>8 DEF U

(* Unsigned sums. *)
LEMMA Quotient ==
  ASSUME NEW x \in Nat
  PROVE  (x % Wrap) \in 0 .. Wrap - 1 /\ \E q \in Nat : x = Wrap * q + (x % Wrap)
<1>1. (x % Wrap) \in 0 .. Wrap - 1 /\ x \div Wrap \in Nat /\ x = Wrap * (x \div Wrap) + (x % Wrap)
  BY CallbacksAssumption
<1> QED
  BY <1>1

LEMMA Remainder ==
  ASSUME NEW q \in Nat, NEW r \in 0 .. Wrap - 1
  PROVE  (Wrap * q + r) % Wrap = r
  BY CallbacksAssumption

LEMMA SumWraps ==
  ASSUME NEW x \in Nat, NEW y \in Nat
  PROVE  ((x % Wrap) + (y % Wrap)) % Wrap = (x + y) % Wrap
<1> DEFINE r == x % Wrap
           s == y % Wrap
<1>0. Wrap \in Nat /\ Wrap > 1
  BY CallbacksAssumption
<1>1. r \in 0 .. Wrap - 1 /\ s \in 0 .. Wrap - 1
  BY Quotient
<1>2. PICK p \in Nat : x = Wrap * p + r
  BY Quotient
<1>3. PICK q \in Nat : y = Wrap * q + s
  BY Quotient
<1> HIDE DEF r, s
<1>4. Wrap * (p + q) = Wrap * p + Wrap * q /\ Wrap * (p + q + 1) = Wrap * p + Wrap * q + Wrap
  BY <1>0
<1>5. CASE r + s < Wrap
  <2>1. r + s \in 0 .. Wrap - 1 /\ x + y = Wrap * (p + q) + (r + s)
    BY <1>0, <1>1, <1>2, <1>3, <1>4, <1>5
  <2>2. (r + s) % Wrap = r + s
    <3>1. (Wrap * 0 + (r + s)) % Wrap = r + s
      BY <2>1, Remainder
    <3> QED
      BY <1>0, <1>1, <3>1
  <2>3. (Wrap * (p + q) + (r + s)) % Wrap = r + s
    BY <2>1, Remainder
  <2> QED
    BY <2>1, <2>2, <2>3 DEF r, s
<1>6. CASE r + s >= Wrap
  <2> DEFINE d == r + s - Wrap
  <2>1. d \in 0 .. Wrap - 1 /\ r + s = Wrap * 1 + d /\ x + y = Wrap * (p + q + 1) + d
    BY <1>0, <1>1, <1>2, <1>3, <1>4, <1>6
  <2> HIDE DEF d
  <2>2. (Wrap * 1 + d) % Wrap = d /\ (Wrap * (p + q + 1) + d) % Wrap = d
    BY <2>1, Remainder
  <2> QED
    BY <2>1, <2>2 DEF r, s
<1> QED
  BY <1>0, <1>1, <1>5, <1>6

(* Fibonacci is what its definition says, once some function is. *)
LEMMA FibonacciChosen ==
  (\E f : f = [i \in 0 .. MaxMade + 2 |-> IF i < 2 THEN i ELSE f[i - 1] + f[i - 2]])
  => Fibonacci = [i \in 0 .. MaxMade + 2 |->
                    IF i < 2 THEN i ELSE Fibonacci[i - 1] + Fibonacci[i - 2]]
  BY DEF Fibonacci

LEMMA FibonacciIs ==
  Fibonacci = [i \in 0 .. MaxMade + 2 |->
                 IF i < 2 THEN i ELSE Fibonacci[i - 1] + Fibonacci[i - 2]]
<1> DEFINE Defines(f, k) == f = [i \in 0 .. k |-> IF i < 2 THEN i ELSE f[i - 1] + f[i - 2]]
           T == {k \in Nat : \E f : Defines(f, k)}
<1>1. 0 \in T
  <2>1. Defines([i \in 0 .. 0 |-> i], 0)
    OBVIOUS
  <2> QED
    BY <2>1
<1>2. ASSUME NEW k \in T PROVE k + 1 \in T
  <2>1. PICK f : Defines(f, k)
    BY <1>2
  <2> DEFINE g == [i \in 0 .. k + 1 |->
                     IF i <= k THEN f[i] ELSE IF k + 1 < 2 THEN k + 1 ELSE f[k] + f[k - 1]]
  <2>2. k \in Nat
    OBVIOUS
  <2>3. ASSUME NEW i \in 0 .. k + 1
        PROVE  g[i] = IF i < 2 THEN i ELSE g[i - 1] + g[i - 2]
    <3>1. CASE i <= k
      <4>1. g[i] = f[i] /\ (i >= 2 => g[i - 1] = f[i - 1] /\ g[i - 2] = f[i - 2])
        BY <2>2, <3>1
      <4>2. f[i] = IF i < 2 THEN i ELSE f[i - 1] + f[i - 2]
        BY <2>1, <2>2, <3>1
      <4> QED
        BY <4>1, <4>2
    <3>2. CASE i = k + 1
      BY <2>2, <3>2
    <3> QED
      BY <2>2, <3>1, <3>2
  <2>4. g = [i \in 0 .. k + 1 |-> IF i < 2 THEN i ELSE g[i - 1] + g[i - 2]]
    BY <2>3
  <2> HIDE DEF g
  <2>5. Defines(g, k + 1)
    BY <2>4
  <2> HIDE DEF Defines
  <2>6. \E h : Defines(h, k + 1)
    BY <2>5
  <2>7. k + 1 \in Nat
    BY <2>2
  <2> QED
    BY <2>6, <2>7
<1>3. T = Nat
  <2>1. T \subseteq Nat
    OBVIOUS
  <2> HIDE DEF T
  <2> QED
    BY <1>1, <1>2, <2>1, Induct
<1>4. MaxMade + 2 \in T
  <2>1. MaxMade + 2 \in Nat
    BY CallbacksAssumption
  <2> HIDE DEF T
  <2> QED
    BY <1>3, <2>1
<1>5. \E f : Defines(f, MaxMade + 2)
  BY <1>4
<1>6. \E f : f = [i \in 0 .. MaxMade + 2 |-> IF i < 2 THEN i ELSE f[i - 1] + f[i - 2]]
  BY <1>5
<1> HIDE DEF T, Defines
<1> QED
  BY <1>6, FibonacciChosen

LEMMA FibonacciNat == \A i \in 0 .. MaxMade + 2 : Fibonacci[i] \in Nat
<1> DEFINE T == {k \in Nat : \A i \in 0 .. k : i <= MaxMade + 2 => Fibonacci[i] \in Nat}
<1>0. MaxMade \in Nat
  BY CallbacksAssumption
<1>1. \A i \in 0 .. MaxMade + 2 :
        Fibonacci[i] = IF i < 2 THEN i ELSE Fibonacci[i - 1] + Fibonacci[i - 2]
  BY FibonacciIs
<1>2. 0 \in T
  BY <1>0, <1>1
<1>3. ASSUME NEW k \in T PROVE k + 1 \in T
  <2>1. k \in Nat /\ \A i \in 0 .. k : i <= MaxMade + 2 => Fibonacci[i] \in Nat
    OBVIOUS
  <2>2. ASSUME k + 1 <= MaxMade + 2 PROVE Fibonacci[k + 1] \in Nat
    <3>1. k + 1 >= 2 => Fibonacci[(k + 1) - 1] \in Nat /\ Fibonacci[(k + 1) - 2] \in Nat
      BY <1>0, <2>1, <2>2
    <3>2. k + 1 \in 0 .. MaxMade + 2
      BY <1>0, <2>1, <2>2
    <3> QED
      BY <1>1, <2>1, <3>1, <3>2
  <2> QED
    BY <2>1, <2>2
<1>4. T = Nat
  <2>1. T \subseteq Nat
    OBVIOUS
  <2> HIDE DEF T
  <2> QED
    BY <1>2, <1>3, <2>1, Induct
<1>5. MaxMade + 2 \in T
  BY <1>0, <1>4
<1> QED
  BY <1>0, <1>5

(* What an unsigned long holds of them goes on like them. *)
LEMMA HeldRuns ==
  /\ Held[0] = 0 /\ Held[1] = 1
  /\ \A i \in 0 .. MaxMade : (Held[i] + Held[i + 1]) % Wrap = Held[i + 2]
<1>0. MaxMade \in Nat /\ Wrap \in Nat /\ Wrap > 1
  BY CallbacksAssumption
<1>1. \A i \in 0 .. MaxMade + 2 :
        Fibonacci[i] = IF i < 2 THEN i ELSE Fibonacci[i - 1] + Fibonacci[i - 2]
  BY FibonacciIs
<1>2. \A i \in 0 .. MaxMade + 2 : Held[i] = (Fibonacci[i] % Wrap)
  BY DEF Held
<1>3. Held[0] = 0 /\ Held[1] = 1
  <2>1. Fibonacci[0] = 0 /\ Fibonacci[1] = 1
    BY <1>0, <1>1
  <2>2. (Wrap * 0 + 0) % Wrap = 0 /\ (Wrap * 0 + 1) % Wrap = 1
    BY <1>0, Remainder
  <2>3. Held[0] = (0 % Wrap) /\ Held[1] = (1 % Wrap)
    BY <1>0, <1>2, <2>1
  <2> QED
    BY <1>0, <2>2, <2>3
<1>4. ASSUME NEW i \in 0 .. MaxMade
      PROVE  (Held[i] + Held[i + 1]) % Wrap = Held[i + 2]
  <2>1. i \in Nat /\ {i, i + 1, i + 2} \subseteq 0 .. MaxMade + 2
    BY <1>0
  <2>2. Fibonacci[i] \in Nat /\ Fibonacci[i + 1] \in Nat
    BY <2>1, FibonacciNat
  <2>3. Fibonacci[i + 2] = Fibonacci[i] + Fibonacci[i + 1]
    <3>1. Fibonacci[i + 2] = Fibonacci[(i + 2) - 1] + Fibonacci[(i + 2) - 2]
      BY <1>1, <2>1
    <3>2. (i + 2) - 1 = i + 1 /\ (i + 2) - 2 = i
      BY <2>1
    <3> QED
      BY <2>2, <3>1, <3>2
  <2>4. Held[i] = (Fibonacci[i] % Wrap) /\ Held[i + 1] = (Fibonacci[i + 1] % Wrap)
    BY <1>2, <2>1
  <2>5. Held[i + 2] = ((Fibonacci[i] + Fibonacci[i + 1]) % Wrap)
    BY <1>2, <2>1, <2>3
  <2> QED
    BY <2>2, <2>4, <2>5, SumWraps
<1> QED
  BY <1>3, <1>4

(* The numbers made so far and the pair a bufferevent keeps. *)
Numbers == /\ made \in [Bevs -> Nat] /\ DOMAIN last_fib = Bevs
           /\ FibContinues

LEMMA NumbersInit == Init => Numbers
<1> SUFFICES ASSUME Init PROVE Numbers
  OBVIOUS
<1>1. made \in [Bevs -> Nat] /\ DOMAIN last_fib = Bevs
  BY DEF Init
<1>2. FibContinues
  BY HeldRuns, Kinds DEF Init, FibContinues
<1> QED
  BY <1>1, <1>2 DEF Numbers

LEMMA FibStepNumbers ==
  ASSUME Numbers, NEW c \in Bevs, FibStep(c)
  PROVE  Numbers'
<1>1. CASE UNCHANGED <<last_fib, made>>
  BY <1>1 DEF Numbers, FibContinues
<1>2. CASE /\ last_fib' = [last_fib EXCEPT ![c] = NextFib(last_fib[c])]
           /\ made' = [made EXCEPT ![c] = @ + 1]
  <2>1. made' \in [Bevs -> Nat] /\ DOMAIN last_fib' = Bevs
    BY <1>2 DEF Numbers
  <2>2. ASSUME NEW b \in Fibs, made'[b] <= MaxMade
        PROVE  last_fib'[b] = <<Held[made'[b]], Held[made'[b] + 1]>>
    <3>0. b \in Bevs /\ made[b] \in Nat
      BY Kinds DEF Numbers
    <3>1. CASE b # c
      BY <1>2, <2>2, <3>0, <3>1 DEF Numbers, FibContinues
    <3>2. CASE b = c
      <4>1. made'[b] = made[b] + 1
        BY <1>2, <3>0, <3>2 DEF Numbers
      <4>2. made[b] \in 0 .. MaxMade /\ made[b] <= MaxMade
        BY <2>2, <3>0, <4>1, CallbacksAssumption
      <4>3. last_fib[b] = <<Held[made[b]], Held[made[b] + 1]>>
        BY <4>2 DEF Numbers, FibContinues
      <4>4. last_fib'[b] = <<Held[made[b] + 1], (Held[made[b]] + Held[made[b] + 1]) % Wrap>>
        BY <1>2, <3>0, <3>2, <4>3 DEF Numbers, NextFib
      <4>5. (Held[made[b]] + Held[made[b] + 1]) % Wrap = Held[made[b] + 2]
        BY <4>2, HeldRuns
      <4>6. (made[b] + 1) + 1 = made[b] + 2
        BY <3>0
      <4> QED
        BY <4>1, <4>4, <4>5, <4>6
    <3> QED
      BY <3>1, <3>2
  <2> QED
    BY <2>1, <2>2 DEF Numbers, FibContinues
<1> QED
  BY <1>1, <1>2 DEF FibStep

LEMMA NumbersNext == Numbers /\ [Next]_vars => Numbers'
<1> SUFFICES ASSUME Numbers, [Next]_vars PROVE Numbers'
  OBVIOUS
<1>1. CASE \E c \in Bevs : FibStep(c)
  BY <1>1, FibStepNumbers
<1>2. CASE UNCHANGED <<last_fib, made>>
  BY <1>2 DEF Numbers, FibContinues
<1>3. (\E c \in Bevs : FibStep(c)) \/ UNCHANGED <<last_fib, made>>
  <2>1. CASE SetupFaults \/ UNCHANGED vars
    BY <2>1 DEF SetupFaults, Fault, rest, vars
  <2>2. CASE Iterate
    BY <2>2 DEF Iterate, UpperRead, UpperFaults, Fault, rest
  <2>3. CASE \E b \in Bevs : Socket(b)
    BY <2>3 DEF Socket
  <2>4. CASE \E b \in Drains : setup_bufferevent(b) \/ read_callback(b) \/ event_callback(b)
    BY <2>4 DEF setup_bufferevent, read_callback, event_callback, rest
  <2>5. CASE \E b \in Uppers \union Proxies \union Fibs : SetCallback(b)
    BY <2>5 DEF SetCallback, rest
  <2>6. CASE \E b \in Uppers : read_callback_uppercase(b)
    BY <2>6 DEF read_callback_uppercase, rest
  <2>7. CASE \E b \in Proxies : read_callback_proxy(b) \/ ProxyFaults(b)
    BY <2>7 DEF read_callback_proxy, ProxyFaults, Fault, rest
  <2>8. CASE \E b \in Fibs : write_callback_fibonacci(b) \/ FibFaults(b)
    BY <2>8 DEF write_callback_fibonacci, FibFaults, Fault, rest
  <2>9. CASE \E b \in Demos : main_loop(b) \/ main_loop_Fails(b) \/ main_loop_Faults(b)
    BY <2>9 DEF main_loop, main_loop_Fails, main_loop_Faults, Fault, rest
  <2> QED
    BY <2>1, <2>2, <2>3, <2>4, <2>5, <2>6, <2>7, <2>8, <2>9 DEF Next
<1> QED
  BY <1>1, <1>2, <1>3

(* The fibonacci callback goes on where the one before stopped: the pair   *)
(* last_fib is two neighbours of the Fibonacci sequence modulo the range   *)
(* of an unsigned long, however many callbacks made them; for every bound  *)
(* MaxMade, which no action of the model reads.                            *)
THEOREM FibonacciContinues == Spec => []FibContinues
<1>1. Numbers => FibContinues
  BY DEF Numbers
<1> QED
  BY <1>1, NumbersInit, NumbersNext, PTL DEF Spec
==============================================================================
