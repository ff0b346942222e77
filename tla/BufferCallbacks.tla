--------------------------- MODULE BufferCallbacks ---------------------------
(***************************************************************************)
(* buffereventwatermark.cc and buffereventdemo.cc: the callbacks, each on  *)
(* bufferevents of its own.  The files' main functions call none of them   *)
(* but main_loop; here a program uses them, and may complete               *)
(* setup_bufferevent, where b1 is NULL, with a bufferevent.                *)
(*                                                                         *)
(* The library calls one callback at a time; one with a loop takes a step  *)
(* per iteration.  Memory for the contents of evbuffers does not run out.  *)
(***************************************************************************)
EXTENDS Bufferevent

CONSTANTS Drains, Uppers, Proxies, Fibs, Demos, \* whose callbacks one has
          LowMark,          \* of setup_bufferevent: 128
          Tmp,              \* sizeof(tmp): 128
          Chunk,            \* bytes of a fibonacci callback: 1024
          Wrap,             \* unsigned long is modulo this
          MaxMade           \* bound of the model: fibonacci numbers made

ASSUME CallbacksAssumption ==
  /\ Bevs = Drains \union Uppers \union Proxies \union Fibs \union Demos
  /\ Set = ((Drains \union Uppers \union Proxies) \X {"read"})
             \union (Fibs \X {"write"}) \union (Drains \X {"event"})
  /\ Drains \intersect (Uppers \union Proxies \union Fibs \union Demos) = {}
  /\ Uppers \intersect (Proxies \union Fibs \union Demos) = {}
  /\ LowMark \in Nat \ {0} /\ Tmp \in Nat \ {0} /\ MaxInput \in Nat
  /\ Chunk \in Nat \ {0} /\ Wrap \in Nat \ {0, 1} /\ MaxMade \in Nat

VARIABLES info,             \* struct info: its life, total_drained
          last_fib,         \* struct count
          running,          \* the loop that runs, if any
          process,          \* "running", or "fault"
          said,             \* what was printed of a bufferevent's end
          received,         \* history: bytes that came in
          echoed, raw,      \* history: bytes written back, those as they came
          made              \* history: fibonacci numbers made

rest == <<said, received, echoed, raw, made>>
vars == <<bev, info, last_fib, running, process, rest>>

------------------------------------------------------------------------------
NoInfo  == [life |-> "none", total_drained |-> 0]
Nothing == [of |-> "nothing", left |-> 0, drained |-> 0]
Resting == [cb |-> "none", len |-> 0]
Least(i, j) == IF i < j THEN i ELSE j

Idle          == process = "running" /\ \A b \in Bevs : running[b] = Resting
Calls(b, way) == Idle /\ IsNext(b, way)
InLoop(b, cb) == process = "running" /\ running[b].cb = cb

Init ==
  /\ bev = [b \in Bevs |-> Unused]
  /\ info = [b \in Bevs |-> NoInfo]
  /\ last_fib = [b \in Bevs |-> <<0, 1>>]
  /\ running = [b \in Bevs |-> Resting]
  /\ process = "running"
  /\ said = [b \in Bevs |-> Nothing]
  /\ received = [b \in Bevs |-> 0]
  /\ echoed = [b \in Bevs |-> 0] /\ raw = FALSE
  /\ made = [b \in Bevs |-> 0]

Fault == process' = "fault" /\ UNCHANGED <<bev, info, last_fib, running, rest>>

------------------------------------------------------------------------------
(* setup_bufferevent on a bufferevent; as the file stands b1 is NULL, and  *)
(* the result of malloc is not tested either.                              *)
setup_bufferevent(b) ==
  /\ Idle /\ bev[b].state = "none"
  /\ \E r \in {Readable, Connecting({"connected"}), Connecting({"error"})} :
       bev' = [bev EXCEPT ![b] = [r EXCEPT !.low = LowMark]]
  /\ info' = [info EXCEPT ![b] = [life |-> "live", total_drained |-> 0]]
  /\ UNCHANGED <<last_fib, running, process, rest>>

SetupFaults == Idle /\ Drains # {} /\ Fault

(* A program puts one of the other callbacks on a new bufferevent. *)
SetCallback(b) ==
  /\ Idle /\ bev[b].state = "none"
  /\ bev' = [bev EXCEPT ![b] = IF b \in Fibs THEN Opened ELSE Readable]
  /\ UNCHANGED <<info, last_fib, running, process, rest>>

(* (Slip: only the context is freed.) *)
Ended_Open(r) == Called(r, "event")

Drained(length) == length
Ended(r)        == Freed

read_callback(b) ==
  /\ Calls(b, "read")
  /\ LET length == Drained(bev[b].input)
     IN  /\ bev' = [bev EXCEPT ![b].input = @ - length, ![b].due = @ \ {"read"}]
         /\ info' = [info EXCEPT ![b].total_drained = @ + length]
  /\ UNCHANGED <<last_fib, running, process, rest>>

(* End of file is reported; then, or after an error, the context and the   *)
(* bufferevent are freed.                                                  *)
Report(b) == [of |-> "close", left |-> bev[b].input, drained |-> info[b].total_drained]

event_callback(b) ==
  /\ Calls(b, "event")
  /\ said' = IF "eof" \in bev[b].what THEN [said EXCEPT ![b] = Report(b)] ELSE said
  /\ IF bev[b].what \intersect {"eof", "error"} # {}
       THEN /\ bev' = [bev EXCEPT ![b] = Ended(@)]
            /\ info' = [info EXCEPT ![b].life = "freed"]
       ELSE /\ bev' = [bev EXCEPT ![b] = Told(@)]
            /\ UNCHANGED info
  /\ UNCHANGED <<last_fib, running, process, received, echoed, raw, made>>

------------------------------------------------------------------------------
(* read_callback_uppercase and its loop.  Every byte up to tmp[n] is       *)
(* turned to upper case, tmp[n] included; past a full tmp that is beyond   *)
(* the array, and survived or not.  (Slips: a short read ends the loop,    *)
(* or, n being unsigned, none does; one byte too few is turned.)           *)
LastRead_Short(n) == n < Tmp
LastRead_Never(n) == n < 0
Turned_Less(n)    == 0 .. n - 2

ReadUpTo(b) == Least(bev[b].input, Tmp)
LastRead(n) == n = 0
Turned(n)   == 0 .. n

read_callback_uppercase(b) ==
  /\ Calls(b, "read")
  /\ bev' = [bev EXCEPT ![b] = Called(@, "read")]
  /\ running' = [running EXCEPT ![b].cb = "upper"]
  /\ UNCHANGED <<info, last_fib, process, rest>>

UpperRead(b) ==
  /\ InLoop(b, "upper")
  /\ LET n == ReadUpTo(b)
     IN  IF LastRead(n)
           THEN /\ running' = [running EXCEPT ![b] = Resting]
                /\ UNCHANGED <<bev, echoed, raw>>
           ELSE /\ bev' = [bev EXCEPT ![b].input = @ - n, ![b].output = @ + n]
                /\ echoed' = [echoed EXCEPT ![b] = @ + n]
                /\ raw' = (raw \/ ~(0 .. n - 1 \subseteq Turned(n)))
                /\ UNCHANGED running
  /\ UNCHANGED <<info, last_fib, process, said, received, made>>

UpperFaults(b) == InLoop(b, "upper") /\ bev[b].input >= Tmp /\ Fault

(* read_callback_proxy takes the bufferevent for its context: the output   *)
(* it appends to is found in an event_base.  The input goes somewhere, or  *)
(* stays, or the process ends.                                             *)
read_callback_proxy(b) ==
  /\ Calls(b, "read")
  /\ \E left \in {0, bev[b].input} :
       bev' = [bev EXCEPT ![b] = [Called(@, "read") EXCEPT !.input = left]]
  /\ UNCHANGED <<info, last_fib, running, process, rest>>

ProxyFaults(b) == Calls(b, "read") /\ Fault

------------------------------------------------------------------------------
(* write_callback_fibonacci and its loop. *)
Digits(i) == CHOOSE d \in 1 .. i + 1 : i < 10^d /\ (d > 1 => i >= 10^(d - 1))

(* (Slip: the sum replaces the older number.)                              *)
NextFib_Swapped(f) == <<(f[1] + f[2]) % Wrap, f[2]>>

NextFib(f) == <<f[2], (f[1] + f[2]) % Wrap>>

write_callback_fibonacci(b) ==
  /\ Calls(b, "write")
  /\ bev' = [bev EXCEPT ![b] = Called(@, "write")]
  /\ running' = [running EXCEPT ![b].cb = "fib"]
  /\ UNCHANGED <<info, last_fib, process, rest>>

FibFaults(b) == Calls(b, "write") /\ Fault       \* evbuffer_new gives NULL

FibStep(b) ==
  /\ InLoop(b, "fib")
  /\ IF running[b].len >= Chunk
       THEN /\ bev' = [bev EXCEPT ![b].output = @ + running[b].len]
            /\ running' = [running EXCEPT ![b] = Resting]
            /\ UNCHANGED <<last_fib, made>>
       ELSE LET f == NextFib(last_fib[b])
            IN  /\ last_fib' = [last_fib EXCEPT ![b] = f]
                /\ running' = [running EXCEPT ![b].len = @ + Digits(f[2])]
                /\ made' = [made EXCEPT ![b] = @ + 1]
                /\ UNCHANGED bev
  /\ UNCHANGED <<info, process, said, received, echoed, raw>>

------------------------------------------------------------------------------
(* buffereventdemo.cc: main_loop starts to connect and returns without     *)
(* dispatching.  A connect that fails at once tells eventcb first.         *)
eventcb(what) == IF "connected" \in what THEN "connected"
                 ELSE IF "error" \in what THEN "errored" ELSE "nothing"

main_loop(b) ==
  /\ Idle /\ bev[b].state = "none"
  /\ bev' = [bev EXCEPT ![b] = Opened]
  /\ UNCHANGED <<info, last_fib, running, process, rest>>

main_loop_Fails(b) ==
  /\ Idle /\ bev[b].state = "none"
  /\ bev' = [bev EXCEPT ![b] = Freed]
  /\ said' = [said EXCEPT ![b].of = eventcb({"error"})]
  /\ UNCHANGED <<info, last_fib, running, process, received, echoed, raw, made>>

main_loop_Faults(b) == Idle /\ bev[b].state = "none" /\ Fault  \* no event_base

------------------------------------------------------------------------------
Socket(b) ==
  /\ Idle /\ b \notin Demos
  /\ \/ \E k \in 1 .. MaxInput :
          Arrive(b, k) /\ received' = [received EXCEPT ![b] = @ + k]
     \/ (ReadEnds(b) \/ WriteFails(b) \/ Flush(b) \/ Trigger(b)) /\ UNCHANGED received
  /\ UNCHANGED <<info, last_fib, running, process, said, echoed, raw, made>>

Iterate == \E b \in Bevs : UpperRead(b) \/ UpperFaults(b) \/ FibStep(b)

Next ==
  \/ SetupFaults \/ Iterate
  \/ \E b \in Bevs : Socket(b)
  \/ \E b \in Drains : setup_bufferevent(b) \/ read_callback(b) \/ event_callback(b)
  \/ \E b \in Uppers \union Proxies \union Fibs : SetCallback(b)
  \/ \E b \in Uppers : read_callback_uppercase(b)
  \/ \E b \in Proxies : read_callback_proxy(b) \/ ProxyFaults(b)
  \/ \E b \in Fibs : write_callback_fibonacci(b) \/ FibFaults(b)
  \/ \E b \in Demos : main_loop(b) \/ main_loop_Fails(b) \/ main_loop_Faults(b)

Spec     == Init /\ [][Next]_vars
FairSpec == Spec /\ WF_vars(Iterate)

------------------------------------------------------------------------------
(* The library calls a read callback only for bytes that come in: input at *)
(* the low mark that no callback is due for would wait for more bytes.     *)
(* read_callback and the loop of read_callback_uppercase leave none.       *)
NothingForgotten ==
  \A b \in Drains \union Uppers :
    /\ Open(b) /\ bev[b].input > 0 /\ bev[b].input >= bev[b].low
    => "read" \in bev[b].due \/ running[b].cb = "upper"

(* No byte is lost or counted twice: those drained or written back, all of *)
(* them in upper case, and those still in the input came in; and what      *)
(* event_callback prints at the end of file is true: what it drained and   *)
(* what was left are all that came in, and less than a mark was left.      *)
BytesAccounted ==
  /\ \A b \in Drains : Open(b) => info[b].total_drained + bev[b].input = received[b]
  /\ \A b \in Uppers : Open(b) => echoed[b] + bev[b].input = received[b]
  /\ ~raw
  /\ \A b \in Drains : said[b].of = "close" =>
       said[b].drained + said[b].left = received[b] /\ said[b].left < LowMark

(* A bufferevent of setup_bufferevent and its context live and die         *)
(* together: no callback has a freed context, and none is left behind.     *)
LiveTogether ==
  \A b \in Drains : bev[b].state = "open" <=> info[b].life = "live"

(* The numbers written go on where the callback before stopped: they are   *)
(* the Fibonacci numbers, as far as an unsigned long holds them.           *)
Fibonacci[i \in 0 .. MaxMade + 2] ==
  IF i < 2 THEN i ELSE Fibonacci[i - 1] + Fibonacci[i - 2]

Held == [i \in 0 .. MaxMade + 2 |-> Fibonacci[i] % Wrap]

FibContinues ==
  \A b \in Fibs : made[b] <= MaxMade =>
    last_fib[b] = <<Held[made[b]], Held[made[b] + 1]>>

(* Every callback returns. *)
CallbacksReturn == process = "running" ~> Idle \/ process = "fault"
==============================================================================
