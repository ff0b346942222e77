----------------------------- MODULE Bufferevent -----------------------------
(***************************************************************************)
(* The socket bufferevents of libevent, which is not in the repository, as *)
(* the callbacks of src/eventBaseDemo use them: two buffers, a low mark    *)
(* for reading, and callbacks that become due and are called later, once   *)
(* each, the read callback first and the event callback last.  A callback  *)
(* called at once is one called before anything else happens.              *)
(***************************************************************************)
EXTENDS Integers

CONSTANTS Bevs,             \* struct bufferevent
          Set,              \* the callbacks set: pairs <<bufferevent, way>>
          MaxInput          \* bound of the model: unread bytes of one

VARIABLE bev

Unused == [state |-> "none", input |-> 0, output |-> 0, low |-> 0,
           reading |-> FALSE, writing |-> FALSE, due |-> {}, what |-> {}]
Opened == [Unused EXCEPT !.state = "open", !.writing = TRUE]
Freed  == [Unused EXCEPT !.state = "freed"]
Readable == [Opened EXCEPT !.reading = TRUE]

(* Not connected yet; the first the event callback is told is whether that *)
(* succeeds.                                                               *)
Connecting(what) == [Opened EXCEPT !.due = {"event"}, !.what = what]

Open(b) == bev[b].state = "open"

(* A callback becomes due if it is set. *)
Due(b, way) == bev[b].due \union {x \in {way} : <<b, x>> \in Set}

(* The read callback becomes due when bytes come in and the input is then  *)
(* at the low mark or above, not because of bytes that are there already.  *)
Arrive(b, k) ==
  /\ Open(b) /\ bev[b].reading
  /\ bev[b].input + k <= MaxInput
  /\ bev' = [bev EXCEPT ![b].input = @ + k,
                        ![b].due = IF bev[b].input + k >= bev[b].low
                                     THEN Due(b, "read") ELSE @]

(* Reading meets the end of file or an error; writing meets an error. *)
ReadEnds(b) ==
  /\ Open(b) /\ bev[b].reading
  /\ \E what \in {"eof", "error"} :
       bev' = [bev EXCEPT ![b].reading = FALSE, ![b].due = Due(b, "event"),
                          ![b].what = @ \union {what}]

WriteFails(b) ==
  /\ Open(b) /\ bev[b].writing /\ bev[b].output > 0
  /\ bev' = [bev EXCEPT ![b].writing = FALSE, ![b].due = Due(b, "event"),
                        ![b].what = @ \union {"error"}]

(* Output is written; the write callback is due when none is left.  A      *)
(* program may also ask for it: bufferevent_trigger.                       *)
Flush(b) ==
  /\ Open(b) /\ bev[b].writing /\ bev[b].output > 0
  /\ \E left \in {0, bev[b].output \div 2} :
       bev' = [bev EXCEPT ![b].output = left,
                          ![b].due = IF left = 0 THEN Due(b, "write") ELSE @]

Trigger(b) ==
  /\ Open(b) /\ bev[b].output = 0 /\ Due(b, "write") # bev[b].due
  /\ bev' = [bev EXCEPT ![b].due = Due(b, "write")]

(* Which callback is the next one of those due. *)
IsNext(b, way) ==
  /\ Open(b) /\ way \in bev[b].due
  /\ way = "write" => "read" \notin bev[b].due
  /\ way = "event" => bev[b].due = {"event"}

Called(r, way) == [r EXCEPT !.due = @ \ {way}]
Told(r)        == [Called(r, "event") EXCEPT !.what = {}, !.reading = TRUE]
==============================================================================
