--------------------------------- MODULE Log ---------------------------------
(***************************************************************************)
(* log.c and log-internal.h: the logging calls of libevent, the callbacks  *)
(* that may replace stderr and be told of a fatal error, and the end of    *)
(* the process.  The callbacks are user code: they may set callbacks and   *)
(* log themselves, so calls nest, kept as a stack of frames.               *)
(*                                                                         *)
(* A text is what became of it: how many characters of the message it      *)
(* keeps, whether the text of errno follows, whether its conversions were  *)
(* read from the right place.  event_logv_ passes its va_list to           *)
(* evutil_snprintf as if it were the first argument, so what a conversion  *)
(* prints is undefined.                                                    *)
(***************************************************************************)
EXTENDS Integers

CONSTANTS Size,             \* sizeof(buf): 1024
          Lens,             \* lengths of messages; 0 also stands for no fmt
          ErrLens,          \* lengths of what strerror gives
          Codes,            \* exit codes
          NoCode,           \* what a call that is not fatal has for a code
          Abort,            \* EVENT_ERROR_ABROT_
          MaxDepth          \* bound of the model: nested calls

ASSUME LogAssumption ==
  /\ Size \in Nat /\ Size > 3
  /\ Lens \subseteq Nat /\ ErrLens \subseteq Nat
  /\ Abort \in Codes /\ NoCode \notin Codes
  /\ MaxDepth \in Nat

VARIABLES fatal_fn, log_fn, \* is a callback set?
          mask,             \* event_debug_logging_mask_ # 0
          depth, frame,     \* the calls in progress, frame[depth] runs
          process,          \* how the process stands
          text,             \* the last text delivered
          fatalText,        \* history: the code of the last fatal one
          told              \* history: the last code fatal_fn was given

vars == <<fatal_fn, log_fn, mask, depth, frame, process, text, fatalText, told>>

------------------------------------------------------------------------------
Severities == {"debug", "msg", "warn", "err"}

(* No length: no error text is given. *)
NoLen == -1

(* A frame is a logging call or user code: the program, frame 0, or a      *)
(* callback that a logging call has called.                                *)
Frames == [at : {"logv", "said", "told", "user"}, sev : Severities,
           code : Codes \union {NoCode}, len : Nat, err : Nat \union {NoLen},
           converts : BOOLEAN]
UserCode == [at |-> "user", sev |-> "msg", code |-> NoCode, len |-> 0,
             err |-> NoLen, converts |-> FALSE]

NoText == [kept |-> 0, whole |-> TRUE, err |-> FALSE, garbled |-> FALSE, top |-> 0]

Running == process = "running"
Top     == frame[depth]
Fatal(f) == f.code # NoCode

(* User code runs: the program itself, or a callback. *)
UserRuns == Running /\ Top.at = "user"

Init ==
  /\ fatal_fn = FALSE /\ log_fn = FALSE
  /\ mask \in BOOLEAN                     \* DEFAULT_MASK, by USE_DEBUG
  /\ depth = 0 /\ frame = [d \in 0 .. MaxDepth |-> UserCode]
  /\ process = "running"
  /\ text = NoText /\ fatalText = NoCode /\ told = NoCode

event_setfatal_callback(cb) ==
  /\ UserRuns
  /\ fatal_fn' = cb
  /\ UNCHANGED <<log_fn, mask, depth, frame, process, text, fatalText, told>>

event_set_log_callback(cb) ==
  /\ UserRuns
  /\ log_fn' = cb
  /\ UNCHANGED <<fatal_fn, mask, depth, frame, process, text, fatalText, told>>

event_enable_debug_logging(which) ==
  /\ UserRuns
  /\ mask' = which
  /\ UNCHANGED <<fatal_fn, log_fn, depth, frame, process, text, fatalText, told>>

------------------------------------------------------------------------------
(* The logging calls: each goes on to event_logv_. *)
Begin(sev, code, err) ==
  /\ UserRuns /\ depth < MaxDepth
  /\ depth' = depth + 1
  /\ \E len \in Lens, converts \in BOOLEAN :
       frame' = [frame EXCEPT ![depth + 1] =
                   [at |-> "logv", sev |-> sev, code |-> code, len |-> len,
                    err |-> err, converts |-> converts]]
  /\ UNCHANGED <<fatal_fn, log_fn, mask, process, text, fatalText, told>>

event_err(eval)           == \E e \in ErrLens : Begin("err", eval, e)
event_socket_error(eval)  == \E e \in ErrLens : Begin("err", eval, e)
event_errx(eval)          == \E e \in ErrLens : Begin("err", eval, e)
event_warn                == \E e \in ErrLens : Begin("warn", NoCode, e)
event_socket_warn         == \E e \in ErrLens : Begin("warn", NoCode, e)
event_warnx               == Begin("warn", NoCode, NoLen)
event_msgx                == Begin("msg", NoCode, NoLen)
event_debugx              == Begin("debug", NoCode, NoLen)
event_debug               == mask /\ event_debugx

EVUTIL_ASSERT_Fails       == event_errx(Abort)

------------------------------------------------------------------------------
Least(i, j) == IF i < j THEN i ELSE j

(* (Slip: room for a whole buffer, wherever the text starts.)              *)
(* The error text goes behind as many characters as it has itself, so it   *)
(* is seen, and cuts the message, only if the message is at least as long. *)
Spliced_WholeBuffer(f, len) ==
  LET last == f.err + Least(f.err + 2, Size - 1)
  IN  IF f.err = NoLen \/ f.err >= Size - 3
        THEN [kept |-> len, err |-> FALSE, top |-> len]
        ELSE [kept |-> Least(f.err, len), err |-> f.err <= len, top |-> last]

Spliced(f, len) ==
  LET room == Size - f.err
      last == f.err + Least(f.err + 2, room - 1)
  IN  IF f.err = NoLen \/ f.err >= Size - 3
        THEN [kept |-> len, err |-> FALSE, top |-> len]
      ELSE IF f.err > len
        THEN [kept |-> len, err |-> FALSE, top |-> last]
        ELSE [kept |-> f.err, err |-> TRUE, top |-> last]

(* event_logv_ and event_log, down to the callback or stderr. *)
Texts(f) ==
  {LET s == Spliced(f, len)
   IN  [kept |-> s.kept, whole |-> f.converts \/ s.kept = Least(f.len, Size - 1),
        err |-> s.err, garbled |-> f.converts, top |-> s.top] :
     len \in IF f.converts THEN 0 .. Size - 1 ELSE {Least(f.len, Size - 1)}}

Deliver ==
  /\ Running /\ Top.at = "logv"
  /\ Top.sev = "debug" => mask
  /\ text' \in Texts(Top)
  /\ fatalText' = IF Fatal(Top) THEN Top.code ELSE fatalText
  /\ LET said == [frame EXCEPT ![depth].at = "said"]
     IN  IF log_fn
           THEN /\ depth < MaxDepth
                /\ depth' = depth + 1
                /\ frame' = [said EXCEPT ![depth + 1] = UserCode]
           ELSE depth' = depth /\ frame' = said
  /\ UNCHANGED <<fatal_fn, log_fn, mask, process, told>>

(* Reading arguments that are not there may end the process. *)
Misread ==
  /\ Running /\ Top.at = "logv" /\ Top.converts
  /\ Top.sev = "debug" => mask
  /\ process' = "fault"
  /\ UNCHANGED <<fatal_fn, log_fn, mask, depth, frame, text, fatalText, told>>

Pop == depth' = depth - 1 /\ frame' = [frame EXCEPT ![depth] = UserCode]

(* A debug message while debugging is off. *)
Filter ==
  /\ Running /\ Top.at = "logv"
  /\ Top.sev = "debug" /\ ~mask
  /\ Pop
  /\ UNCHANGED <<fatal_fn, log_fn, mask, process, text, fatalText, told>>

(* A call that is not fatal returns, and so does a callback.  (Slips: the  *)
(* program returns to nobody; a fatal call returns when fatal_fn does.)    *)
Return_Anywhere ==
  /\ Running
  /\ (Top.at = "said" /\ ~Fatal(Top)) \/ Top.at = "user"
  /\ Pop
  /\ UNCHANGED <<fatal_fn, log_fn, mask, process, text, fatalText, told>>

Return_Told ==
  /\ Running /\ depth > 0
  /\ (Top.at = "said" /\ ~Fatal(Top)) \/ Top.at \in {"user", "told"}
  /\ Pop
  /\ UNCHANGED <<fatal_fn, log_fn, mask, process, text, fatalText, told>>

Return ==
  /\ Running /\ depth > 0
  /\ (Top.at = "said" /\ ~Fatal(Top)) \/ Top.at = "user"
  /\ Pop
  /\ UNCHANGED <<fatal_fn, log_fn, mask, process, text, fatalText, told>>

(* event_exit: the callback is told first, and may return. *)
TellFatal ==
  /\ Running /\ Top.at = "said" /\ Fatal(Top) /\ fatal_fn
  /\ depth < MaxDepth
  /\ depth' = depth + 1
  /\ frame' = [frame EXCEPT ![depth].at = "told", ![depth + 1] = UserCode]
  /\ told' = Top.code
  /\ UNCHANGED <<fatal_fn, log_fn, mask, process, text, fatalText>>

(* How event_exit ends the process when nobody needs to be told any more.  *)
Ending(f) == IF f.at = "said" /\ f.code = Abort THEN "abort" ELSE "exit"

event_exit_Untold ==        \* slip: nobody is told
  /\ Running /\ Fatal(Top)
  /\ Top.at \in {"told", "said"}
  /\ process' = Ending(Top)
  /\ UNCHANGED <<fatal_fn, log_fn, mask, depth, frame, text, fatalText, told>>

event_exit ==
  /\ Running /\ Fatal(Top)
  /\ Top.at = "told" \/ (Top.at = "said" /\ ~fatal_fn)
  /\ process' = Ending(Top)
  /\ UNCHANGED <<fatal_fn, log_fn, mask, depth, frame, text, fatalText, told>>

User == \/ \E set \in BOOLEAN : \/ event_setfatal_callback(set)
                                \/ event_set_log_callback(set)
                                \/ event_enable_debug_logging(set)
        \/ \E c \in Codes : event_err(c) \/ event_socket_error(c) \/ event_errx(c)
        \/ event_warn \/ event_socket_warn \/ event_warnx \/ event_msgx
        \/ event_debugx \/ event_debug
        \/ EVUTIL_ASSERT_Fails

Next == User \/ Deliver \/ Misread \/ Filter \/ Return \/ TellFatal \/ event_exit

Spec == Init /\ [][Next]_vars

------------------------------------------------------------------------------
TypeOK ==
  /\ fatal_fn \in BOOLEAN /\ log_fn \in BOOLEAN /\ mask \in BOOLEAN
  /\ depth \in 0 .. MaxDepth /\ frame \in [0 .. MaxDepth -> Frames]
  /\ process \in {"running", "exit", "abort", "fault"}
  /\ fatalText \in Codes \union {NoCode} /\ told \in Codes \union {NoCode}

(* Neither write of event_logv_ leaves its buffer, the NUL included, for a *)
(* message and an error text of any length; and a message whose            *)
(* conversions are not misread is delivered whole, as far as a buffer      *)
(* holds it, unless the error text is seen in it.                          *)
TextFits ==
  /\ text.top < Size
  /\ text.garbled \/ text.whole \/ text.err

(* A fatal call never returns to its caller: not after its message, not    *)
(* when fatal_fn returns, whatever the callbacks do.                       *)
FatalStays ==
  [][\A d \in 1 .. depth : Fatal(frame[d]) =>
       d <= depth' /\ Fatal(frame'[d]) /\ frame'[d].code = frame[d].code]_vars

(* The process ends by event_exit with the code of the last fatal message  *)
(* delivered, and has told fatal_fn that code if there was one to tell;    *)
(* abort is for failed assertions that nobody is told of.                  *)
LastWords ==
  process \in {"exit", "abort"} =>
    /\ Fatal(Top) /\ fatalText = Top.code
    /\ IF Top.at = "told" THEN told = Top.code ELSE ~fatal_fn
    /\ process = "abort" => fatalText = Abort /\ Top.at # "told"
==============================================================================
