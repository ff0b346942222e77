------------------------------ MODULE LogProof -------------------------------
(***************************************************************************)
(* Fatal calls, for any codes, texts and depth of nested calls: a fatal    *)
(* call never returns, and the process ends with the last fatal message's  *)
(* code.                                                                   *)
(***************************************************************************)
EXTENDS Log, TLAPS

(* Fatal frames are errors; of those whose message is out, the last one    *)
(* wrote fatalText, and the last one that told fatal_fn wrote told.        *)
Out(d)    == Fatal(frame[d]) /\ frame[d].at \in {"said", "told"}
ToldAt(d) == Fatal(frame[d]) /\ frame[d].at = "told"

Base == frame[0] = UserCode         \* the program
Errors == \A d \in 0 .. depth : Fatal(frame[d]) => frame[d].sev = "err" /\ frame[d].at # "user"
LastOut == \A d \in 0 .. depth :
             Out(d) /\ (\A e \in d + 1 .. depth : ~Out(e)) => fatalText = frame[d].code
LastTold == \A d \in 0 .. depth :
              ToldAt(d) /\ (\A e \in d + 1 .. depth : ~ToldAt(e)) => told = frame[d].code
Ended == process \in {"exit", "abort"} =>
           /\ Out(depth)
           /\ frame[depth].at = "said" => ~fatal_fn
           /\ process = "abort" => frame[depth].at = "said" /\ frame[depth].code = Abort

Inv == TypeOK /\ Base /\ Errors /\ LastOut /\ LastTold /\ Ended

LEMMA Bounds == MaxDepth \in Nat /\ NoCode \notin Codes
  BY LogAssumption

LEMMA UserCodeType == UserCode \in Frames /\ ~Fatal(UserCode)
  BY DEF UserCode, Frames, Severities, Fatal, NoLen

LEMMA InitInv == Init => Inv
<1> SUFFICES ASSUME Init PROVE Inv
  OBVIOUS
<1>1. /\ depth = 0 /\ frame \in [0 .. MaxDepth -> Frames]
      /\ \A d \in 0 .. MaxDepth : frame[d] = UserCode
  BY UserCodeType DEF Init
<1>2. \A d \in 0 .. MaxDepth : ~Fatal(frame[d])
  BY <1>1, UserCodeType
<1>3. TypeOK
  <2>1. fatal_fn \in BOOLEAN /\ log_fn \in BOOLEAN /\ mask \in BOOLEAN
    BY DEF Init
  <2>2. /\ process \in {"running", "exit", "abort", "fault"}
        /\ fatalText \in Codes \union {NoCode} /\ told \in Codes \union {NoCode}
    BY DEF Init
  <2>3. depth \in 0 .. MaxDepth
    BY <1>1, Bounds
  <2> QED
    BY <1>1, <2>1, <2>2, <2>3 DEF TypeOK
<1>4. Base /\ Errors /\ LastOut /\ LastTold
  BY <1>1, <1>2, Bounds DEF Base, Errors, LastOut, LastTold, Out, ToldAt
<1> QED
  BY <1>3, <1>4 DEF Inv, Ended, Init

(* A call or a callback begins: a new frame whose message is not out yet. *)
LEMMA BeginInv ==
  ASSUME Inv, Running, depth < MaxDepth, NEW f \in Frames,
         f.at \in {"logv", "user"}, Fatal(f) => f.sev = "err" /\ f.at # "user",
         depth' = depth + 1, frame' = [frame EXCEPT ![depth + 1] = f],
         UNCHANGED <<fatal_fn, log_fn, mask, process, fatalText, told>>
  PROVE  Inv'
<1>0. depth \in 0 .. MaxDepth /\ MaxDepth \in Nat /\ frame \in [0 .. MaxDepth -> Frames]
  BY Bounds DEF Inv, TypeOK
<1>1. /\ frame' \in [0 .. MaxDepth -> Frames] /\ depth' \in 0 .. MaxDepth
      /\ frame'[depth + 1] = f
      /\ \A d \in 0 .. depth : frame'[d] = frame[d]
  BY <1>0
<1>2. TypeOK'
  BY <1>1 DEF Inv, TypeOK
<1>3. Errors' /\ Base'
  BY <1>0, <1>1 DEF Inv, Base, Errors, Fatal
<1>4. LastOut' /\ LastTold'
  <2>1. \A d \in 0 .. depth : (Out(d)' <=> Out(d)) /\ (ToldAt(d)' <=> ToldAt(d))
    BY <1>1 DEF Out, ToldAt, Fatal
  <2>2. \A d : d = depth + 1 => ~Out(d)' /\ ~ToldAt(d)'
    BY <1>1 DEF Out, ToldAt
  <2>3. \A d \in 0 .. depth' : d \in 0 .. depth \/ d = depth + 1
    BY <1>0
  <2> QED
    BY <1>0, <1>1, <2>1, <2>2, <2>3 DEF Inv, LastOut, LastTold, Out, ToldAt, Fatal
<1>5. Ended'
  BY DEF Running, Ended
<1> QED
  BY <1>2, <1>3, <1>4, <1>5 DEF Inv

(* A frame that is not fatal ends. *)
LEMMA PopInv ==
  ASSUME Inv, Running, depth > 0, ~Fatal(Top), Pop,
         UNCHANGED <<fatal_fn, log_fn, mask, process, fatalText, told>>
  PROVE  Inv'
<1>0. depth \in 0 .. MaxDepth /\ MaxDepth \in Nat /\ frame \in [0 .. MaxDepth -> Frames]
  BY Bounds DEF Inv, TypeOK
<1>1. /\ frame' \in [0 .. MaxDepth -> Frames] /\ depth' \in 0 .. MaxDepth
      /\ depth' = depth - 1
      /\ \A d \in 0 .. depth - 1 : frame'[d] = frame[d]
  BY <1>0, UserCodeType DEF Pop
<1>2. TypeOK'
  BY <1>1 DEF Inv, TypeOK
<1>3. Errors' /\ Base'
  BY <1>0, <1>1 DEF Inv, Base, Errors, Fatal
<1>4. LastOut' /\ LastTold'
  <2>1. \A d \in 0 .. depth - 1 : (Out(d)' <=> Out(d)) /\ (ToldAt(d)' <=> ToldAt(d))
    BY <1>1 DEF Out, ToldAt, Fatal
  <2>2. ~Out(depth) /\ ~ToldAt(depth)
    BY DEF Out, ToldAt, Top
  <2>3. \A d \in 0 .. depth - 1 : \A e \in d + 1 .. depth : e = depth \/ e \in d + 1 .. depth - 1
    BY <1>0
  <2> QED
    BY <1>0, <1>1, <2>1, <2>2, <2>3 DEF Inv, LastOut, LastTold
<1>5. Ended'
  BY DEF Running, Ended
<1> QED
  BY <1>2, <1>3, <1>4, <1>5 DEF Inv

(* The last frame moves on to at: its message is out, or fatal_fn is told; *)
(* it may call a callback to do so.                                        *)
LEMMA MarkInv ==
  ASSUME Inv, Running, NEW at \in {"said", "told"}, Top.at # "user",
         at = "told" => Fatal(Top) /\ Top.at = "said",
         \/ depth' = depth /\ frame' = [frame EXCEPT ![depth].at = at]
         \/ /\ depth < MaxDepth /\ depth' = depth + 1
            /\ frame' = [frame EXCEPT ![depth].at = at, ![depth + 1] = UserCode],
         fatalText' = IF Fatal(Top) THEN Top.code ELSE fatalText,
         told' = IF at = "told" THEN Top.code ELSE told,
         at = "said" => Top.at = "logv",
         UNCHANGED <<fatal_fn, log_fn, mask, process>>
  PROVE  Inv'
<1>0. depth \in 0 .. MaxDepth /\ MaxDepth \in Nat /\ frame \in [0 .. MaxDepth -> Frames]
  BY Bounds DEF Inv, TypeOK
<1>1. /\ frame' \in [0 .. MaxDepth -> Frames]
      /\ frame'[depth] = [frame[depth] EXCEPT !.at = at]
      /\ \A d \in 0 .. depth - 1 : frame'[d] = frame[d]
      /\ depth' \in 0 .. MaxDepth /\ depth' \in depth .. depth + 1
      /\ depth' = depth + 1 => frame'[depth + 1] = UserCode
  <2>1. frame[depth] \in Frames
    BY <1>0
  <2>2. [frame[depth] EXCEPT !.at = at] \in Frames
    BY <2>1 DEF Frames
  <2>3. CASE depth' = depth /\ frame' = [frame EXCEPT ![depth].at = at]
    BY <1>0, <2>2, <2>3
  <2>4. CASE /\ depth < MaxDepth /\ depth' = depth + 1
             /\ frame' = [frame EXCEPT ![depth].at = at, ![depth + 1] = UserCode]
    BY <1>0, <2>2, <2>4, UserCodeType
  <2> QED
    BY <2>3, <2>4
<1>2. /\ frame'[depth].at = at /\ frame'[depth].code = frame[depth].code
      /\ frame'[depth].sev = frame[depth].sev
  BY <1>0, <1>1 DEF Frames
<1>3. TypeOK'
  BY <1>0, <1>1 DEF Inv, TypeOK, Top, Fatal, Frames
<1>4. Errors' /\ Base'
  <2>1. depth # 0
    BY DEF Inv, Base, Top, UserCode
  <2>2. \A d \in 0 .. depth' : d \in 0 .. depth - 1 \/ d = depth \/ d = depth + 1
    BY <1>0, <1>1
  <2>3. \A d \in 0 .. depth - 1 :
           Fatal(frame'[d]) => frame'[d].sev = "err" /\ frame'[d].at # "user"
    BY <1>0, <1>1 DEF Inv, Errors
  <2>4. Fatal(frame'[depth]) => frame'[depth].sev = "err" /\ frame'[depth].at # "user"
    BY <1>0, <1>2 DEF Inv, Errors, Fatal
  <2>5. \A d \in 0 .. depth' : d = depth + 1 => ~Fatal(frame'[d])
    BY <1>0, <1>1, UserCodeType
  <2>6. 0 \in 0 .. depth - 1
    BY <1>0, <2>1
  <2> QED
    BY <1>1, <2>2, <2>3, <2>4, <2>5, <2>6 DEF Inv, Base, Errors
<1>5. \A d \in 0 .. depth' : Out(d)' \/ ToldAt(d)' => d \in 0 .. depth
  BY <1>0, <1>1, UserCodeType DEF Out, ToldAt, Fatal
<1>6. \A d \in 0 .. depth - 1 : (Out(d)' <=> Out(d)) /\ (ToldAt(d)' <=> ToldAt(d))
  BY <1>1 DEF Out, ToldAt, Fatal
<1>7. LastOut'
  <2> SUFFICES ASSUME NEW d \in 0 .. depth, Out(d)', \A e \in d + 1 .. depth : ~Out(e)'
               PROVE  fatalText' = frame'[d].code
    BY <1>0, <1>1, <1>5 DEF LastOut
  <2>1. CASE d = depth
    BY <1>2, <2>1 DEF Out, Top, Fatal
  <2>2. CASE d # depth
    <3>1. d \in 0 .. depth - 1 /\ depth \in d + 1 .. depth
      BY <1>0, <2>2
    <3>2. ~Fatal(Top)
      BY <1>2, <3>1 DEF Out, Fatal, Top
    <3>3. ~Out(depth) /\ \A e \in d + 1 .. depth - 1 : ~Out(e)
      BY <1>0, <1>6, <3>1, <3>2 DEF Out, Top
    <3>4. \A e \in d + 1 .. depth : ~Out(e)
      BY <1>0, <3>3
    <3> QED
      BY <1>1, <1>6, <3>1, <3>2, <3>4 DEF Inv, LastOut
  <2> QED
    BY <2>1, <2>2
<1>8. LastTold'
  <2> SUFFICES ASSUME NEW d \in 0 .. depth, ToldAt(d)', \A e \in d + 1 .. depth : ~ToldAt(e)'
               PROVE  told' = frame'[d].code
    BY <1>0, <1>1, <1>5 DEF LastTold
  <2>1. CASE d = depth
    BY <1>2, <2>1 DEF ToldAt, Top
  <2>2. CASE d # depth
    <3>1. d \in 0 .. depth - 1 /\ depth \in d + 1 .. depth
      BY <1>0, <2>2
    <3>2. at # "told"
      BY <1>2, <3>1 DEF ToldAt, Fatal, Top
    <3>3. ~ToldAt(depth) /\ \A e \in d + 1 .. depth - 1 : ~ToldAt(e)
      BY <1>0, <1>6, <3>1, <3>2 DEF ToldAt, Top
    <3>4. \A e \in d + 1 .. depth : ~ToldAt(e)
      BY <1>0, <3>3
    <3> QED
      BY <1>1, <1>6, <3>1, <3>2, <3>4 DEF Inv, LastTold
  <2> QED
    BY <2>1, <2>2
<1>9. Ended'
  BY DEF Running, Ended
<1> QED
  BY <1>3, <1>4, <1>7, <1>8, <1>9 DEF Inv

LEMMA FrameType ==
  ASSUME NEW sev \in Severities, NEW code \in Codes \union {NoCode},
         NEW len \in Lens, NEW err \in ErrLens \union {NoLen}, NEW converts \in BOOLEAN
  PROVE  [at |-> "logv", sev |-> sev, code |-> code, len |-> len,
          err |-> err, converts |-> converts] \in Frames
  BY LogAssumption DEF Frames

LEMMA CallInv ==
  ASSUME Inv, NEW sev \in Severities, NEW code \in Codes \union {NoCode},
         NEW err \in ErrLens \union {NoLen}, code # NoCode => sev = "err",
         Begin(sev, code, err)
  PROVE  Inv'
<1>1. PICK len \in Lens, converts \in BOOLEAN :
        frame' = [frame EXCEPT ![depth + 1] =
                   [at |-> "logv", sev |-> sev, code |-> code, len |-> len,
                    err |-> err, converts |-> converts]]
  BY DEF Begin
<1> DEFINE f == [at |-> "logv", sev |-> sev, code |-> code, len |-> len,
                 err |-> err, converts |-> converts]
<1>2. f \in Frames /\ f.at = "logv" /\ (Fatal(f) => f.sev = "err")
  BY FrameType DEF Fatal
<1>3. frame' = [frame EXCEPT ![depth + 1] = f]
  BY <1>1
<1>4. /\ Running /\ depth < MaxDepth /\ depth' = depth + 1
      /\ UNCHANGED <<fatal_fn, log_fn, mask, process, fatalText, told>>
  BY DEF Begin, UserRuns
<1> HIDE DEF f
<1> QED
  BY <1>2, <1>3, <1>4, BeginInv

LEMMA UserInv ==
  ASSUME Inv, User
  PROVE  Inv'
<1>1. ASSUME NEW set \in BOOLEAN,
             \/ event_setfatal_callback(set)
             \/ event_set_log_callback(set)
             \/ event_enable_debug_logging(set)
      PROVE  Inv'
  BY <1>1 DEF event_setfatal_callback, event_set_log_callback,
              event_enable_debug_logging, UserRuns, Running, Inv, TypeOK,
              Base, Errors, LastOut, LastTold, Ended, Out, ToldAt
<1>2. ASSUME NEW c \in Codes, event_err(c) \/ event_socket_error(c) \/ event_errx(c)
      PROVE  Inv'
  BY <1>2, CallInv DEF event_err, event_socket_error, event_errx, Severities
<1>3. CASE event_warn \/ event_socket_warn \/ event_warnx \/ event_msgx \/ event_debugx
  BY <1>3, CallInv DEF event_warn, event_socket_warn, event_warnx, event_msgx,
                       event_debugx, Severities
<1>4. CASE event_debug
  BY <1>3, <1>4 DEF event_debug
<1>5. CASE EVUTIL_ASSERT_Fails
  BY <1>2, <1>5, LogAssumption DEF EVUTIL_ASSERT_Fails
<1> QED
  BY <1>1, <1>2, <1>3, <1>4, <1>5 DEF User

LEMMA EndInv ==
  ASSUME Inv, Running, process' \in {"exit", "abort", "fault"},
         process' \in {"exit", "abort"} =>
           /\ Out(depth) /\ (Top.at = "said" => ~fatal_fn)
           /\ process' = "abort" => Top.at = "said" /\ Top.code = Abort,
         UNCHANGED <<fatal_fn, log_fn, mask, depth, frame, fatalText, told>>
  PROVE  Inv'
  BY DEF Inv, TypeOK, Base, Errors, LastOut, LastTold, Ended, Out, ToldAt, Top, Fatal

LEMMA StepInv ==
  ASSUME Inv, Next
  PROVE  Inv'
<1>0. depth \in 0 .. MaxDepth /\ Top \in Frames /\ MaxDepth \in Nat
  BY Bounds DEF Inv, TypeOK, Top
<1>1. CASE User
  BY <1>1, UserInv
<1>2. CASE Deliver
  <2>1. Top.at # "user" /\ Running /\ Top.at = "logv"
    BY <1>2 DEF Deliver
  <2>2. \/ depth' = depth /\ frame' = [frame EXCEPT ![depth].at = "said"]
        \/ /\ depth < MaxDepth /\ depth' = depth + 1
           /\ frame' = [frame EXCEPT ![depth].at = "said", ![depth + 1] = UserCode]
    BY <1>2 DEF Deliver
  <2>3. /\ fatalText' = IF Fatal(Top) THEN Top.code ELSE fatalText
        /\ UNCHANGED <<fatal_fn, log_fn, mask, process, told>>
    BY <1>2 DEF Deliver
  <2> QED
    BY <2>1, <2>2, <2>3, MarkInv
<1>3. CASE Misread
  BY <1>3, EndInv DEF Misread
<1>4. CASE Filter
  <2>1. depth > 0 /\ ~Fatal(Top)
    BY <1>0, <1>4 DEF Filter, Inv, Base, Errors, Top, UserCode
  <2> QED
    BY <1>4, <2>1, PopInv DEF Filter
<1>5. CASE Return
  <2>1. depth > 0 /\ ~Fatal(Top)
    BY <1>0, <1>5 DEF Return, Inv, Errors, Top
  <2> QED
    BY <1>5, <2>1, PopInv DEF Return
<1>6. CASE TellFatal
  <2>1. /\ Running /\ Top.at = "said" /\ Fatal(Top)
        /\ depth < MaxDepth /\ depth' = depth + 1
        /\ frame' = [frame EXCEPT ![depth].at = "told", ![depth + 1] = UserCode]
        /\ told' = Top.code
        /\ UNCHANGED <<fatal_fn, log_fn, mask, process, fatalText>>
    BY <1>6 DEF TellFatal
  <2>2. fatalText = Top.code
    BY <1>0, <2>1 DEF Inv, LastOut, Out, Top
  <2> QED
    BY <2>1, <2>2, MarkInv
<1>7. CASE event_exit
  <2>1. Out(depth)
    BY <1>7 DEF event_exit, Out, Top
  <2>2. process' \in {"exit", "abort"} /\ (Top.at = "said" => ~fatal_fn)
    BY <1>7 DEF event_exit, Ending
  <2>3. process' = "abort" => Top.at = "said" /\ Top.code = Abort
    BY <1>7 DEF event_exit, Ending
  <2> QED
    BY <1>7, <2>1, <2>2, <2>3, EndInv DEF event_exit
<1> QED
  BY <1>1, <1>2, <1>3, <1>4, <1>5, <1>6, <1>7 DEF Next

LEMMA LogInv == Spec => []Inv
<1>1. Inv /\ UNCHANGED vars => Inv'
  BY DEF Inv, TypeOK, Base, Errors, LastOut, LastTold, Ended, Out, ToldAt, vars
<1> QED
  BY InitInv, StepInv, <1>1, PTL DEF Spec

THEOREM LogTypeCorrect == Spec => []TypeOK
  BY LogInv, PTL DEF Inv

(* The process ends by event_exit with the last fatal message's code, and  *)
(* fatal_fn has been told it if there was one to tell.                     *)
THEOREM LastWordsSafe == Spec => []LastWords
<1>1. Inv => LastWords
  <2> SUFFICES ASSUME Inv, process \in {"exit", "abort"} PROVE LastWords
    BY DEF LastWords
  <2>1. Out(depth) /\ depth \in 0 .. MaxDepth /\ MaxDepth \in Nat
    BY Bounds DEF Inv, Ended, TypeOK
  <2>2. fatalText = frame[depth].code
    BY <2>1 DEF Inv, LastOut
  <2>3. frame[depth].at = "told" => told = frame[depth].code
    BY <2>1 DEF Inv, LastTold, Out, ToldAt
  <2> QED
    BY <2>1, <2>2, <2>3 DEF Inv, Ended, LastWords, Top, Out
<1> QED
  BY <1>1, LogInv, PTL

(* A fatal call never returns, however the callbacks behave.               *)
THEOREM FatalStaysSafe == Spec => FatalStays
<1> DEFINE Stays == \A d \in 1 .. depth : Fatal(frame[d]) =>
                      d <= depth' /\ Fatal(frame'[d]) /\ frame'[d].code = frame[d].code
<1>1. Inv /\ Next => Stays
  <2> SUFFICES ASSUME Inv, Next, NEW d \in 1 .. depth, Fatal(frame[d])
               PROVE  d <= depth' /\ Fatal(frame'[d]) /\ frame'[d].code = frame[d].code
    OBVIOUS
  <2>0. /\ depth \in 0 .. MaxDepth /\ MaxDepth \in Nat
        /\ frame \in [0 .. MaxDepth -> Frames]
        /\ d \in 0 .. MaxDepth /\ d \in 0 .. depth /\ d # depth + 1
        /\ frame[d].sev = "err" /\ frame[d].at # "user"
    BY Bounds DEF Inv, TypeOK, Errors
  <2>1. CASE frame' = frame /\ depth' = depth
    BY <2>0, <2>1
  <2>2. ASSUME NEW f, depth' = depth + 1, frame' = [frame EXCEPT ![depth + 1] = f]
        PROVE  d <= depth' /\ Fatal(frame'[d]) /\ frame'[d].code = frame[d].code
    BY <2>0, <2>2
  <2>3. CASE Pop /\ ~Fatal(Top)
    <3>1. d # depth
      BY <2>3 DEF Top
    <3> QED
      BY <2>0, <2>3, <3>1 DEF Pop
  <2>4. ASSUME NEW at, depth' = depth, frame' = [frame EXCEPT ![depth].at = at]
        PROVE  d <= depth' /\ Fatal(frame'[d]) /\ frame'[d].code = frame[d].code
    BY <2>0, <2>4 DEF Fatal, Frames
  <2>5. ASSUME NEW at, depth < MaxDepth, depth' = depth + 1,
               frame' = [frame EXCEPT ![depth].at = at, ![depth + 1] = UserCode]
        PROVE  d <= depth' /\ Fatal(frame'[d]) /\ frame'[d].code = frame[d].code
    <3> DEFINE below == [frame EXCEPT ![depth].at = at]
    <3>1. below[d].code = frame[d].code
      BY <2>0 DEF Frames
    <3>2. frame' = [below EXCEPT ![depth + 1] = UserCode]
      BY <2>5
    <3>3. frame'[d] = below[d]
      <4> HIDE DEF below
      <4> QED
        BY <2>0, <3>2
    <3>4. d <= depth'
      BY <2>0, <2>5
    <3> QED
      BY <3>1, <3>3, <3>4 DEF Fatal
  <2>6. CASE User
    <3>1. ASSUME NEW sev, NEW code, NEW err, Begin(sev, code, err)
          PROVE  d <= depth' /\ Fatal(frame'[d]) /\ frame'[d].code = frame[d].code
      BY <2>2, <3>1 DEF Begin
    <3> QED
      BY <2>1, <2>6, <3>1
      DEF User, event_setfatal_callback, event_set_log_callback,
          event_enable_debug_logging, event_err, event_socket_error, event_errx,
          event_warn, event_socket_warn, event_warnx, event_msgx, event_debugx,
          event_debug, EVUTIL_ASSERT_Fails
  <2>7. CASE Deliver
    BY <2>4, <2>5, <2>7 DEF Deliver
  <2>8. CASE Filter \/ Return
    <3>1. ~Fatal(Top)
      BY <2>0, <2>8 DEF Filter, Return, Inv, Errors, Top
    <3> QED
      BY <2>3, <2>8, <3>1 DEF Filter, Return
  <2>9. CASE TellFatal
    BY <2>5, <2>9 DEF TellFatal
  <2>10. CASE Misread \/ event_exit
    BY <2>1, <2>10 DEF Misread, event_exit
  <2> QED
    BY <2>6, <2>7, <2>8, <2>9, <2>10 DEF Next
<1>2. Inv /\ UNCHANGED vars => Stays
  BY Bounds DEF Inv, TypeOK, vars
<1>3. Inv /\ [Next]_vars => [Stays]_vars
  BY <1>1, <1>2
<1> QED
  BY <1>3, LogInv, PTL DEF Spec, FatalStays

------------------------------------------------------------------------------
(* What event_logv_ makes of a message ends inside the buffer, and is cut  *)
(* only where the error text is seen.                                      *)
LEMMA SplicedFits ==
  ASSUME NEW f \in Frames, NEW len \in 0 .. Size - 1
  PROVE  /\ Spliced(f, len).top < Size
         /\ Spliced(f, len).kept = len \/ Spliced(f, len).err
<1>1. Size \in Nat /\ Size > 3 /\ f.err \in Nat \union {NoLen} /\ NoLen = -1
  BY LogAssumption DEF Frames, NoLen
<1>2. CASE f.err = NoLen \/ f.err >= Size - 3
  BY <1>1, <1>2 DEF Spliced
<1>3. CASE f.err # NoLen /\ ~(f.err >= Size - 3)
  <2>1. f.err \in Nat /\ f.err + Least(f.err + 2, (Size - f.err) - 1) < Size
    BY <1>1, <1>3 DEF Least
  <2> QED
    BY <1>1, <1>3, <2>1 DEF Spliced
<1> QED
  BY <1>1, <1>2, <1>3

LEMMA TextsFit ==
  ASSUME NEW f \in Frames, NEW x \in Texts(f)
  PROVE  x.top < Size /\ (x.garbled \/ x.whole \/ x.err)
<1>0. Size \in Nat /\ Size > 3 /\ f.len \in Nat
  BY LogAssumption DEF Frames
<1>1. PICK len \in IF f.converts THEN 0 .. Size - 1 ELSE {Least(f.len, Size - 1)} :
        x = [kept |-> Spliced(f, len).kept,
             whole |-> f.converts \/ Spliced(f, len).kept = Least(f.len, Size - 1),
             err |-> Spliced(f, len).err, garbled |-> f.converts,
             top |-> Spliced(f, len).top]
  BY DEF Texts
<1>2. len \in 0 .. Size - 1
  BY <1>0 DEF Least
<1>3. /\ Spliced(f, len).top < Size
      /\ Spliced(f, len).kept = len \/ Spliced(f, len).err
  BY <1>2, SplicedFits
<1> QED
  BY <1>1, <1>3

LEMMA TextInv == Spec => []TextFits
<1>1. Init => TextFits
  BY LogAssumption DEF Init, NoText, TextFits
<1>2. Inv /\ TextFits /\ [Next]_vars => TextFits'
  <2> SUFFICES ASSUME Inv, TextFits, [Next]_vars PROVE TextFits'
    OBVIOUS
  <2>1. CASE Deliver
    <3>1. Top \in Frames
      BY Bounds DEF Inv, TypeOK, Top
    <3>2. text' \in Texts(Top)
      BY <2>1 DEF Deliver
    <3> QED
      BY <3>1, <3>2, TextsFit DEF TextFits
  <2>2. ASSUME User PROVE text' = text
    BY <2>2
    DEF User, event_setfatal_callback, event_set_log_callback, event_enable_debug_logging,
        event_err, event_socket_error, event_errx, event_warn, event_socket_warn,
        event_warnx, event_msgx, event_debugx, event_debug, EVUTIL_ASSERT_Fails, Begin
  <2>3. ASSUME Misread \/ Filter \/ Return \/ TellFatal \/ event_exit PROVE text' = text
    BY <2>3 DEF Misread, Filter, Return, TellFatal, event_exit
  <2>4. CASE text' = text
    BY <2>4 DEF TextFits
  <2> QED
    BY <2>1, <2>2, <2>3, <2>4 DEF Next, vars
<1> QED
  BY <1>1, <1>2, LogInv, PTL DEF Spec

(* The writes of event_logv_ stay in its buffer, for a buffer of any size  *)
(* above three and texts of any length, and a message is cut only where    *)
(* the error text is seen.                                                 *)
THEOREM TextFitsSafe == Spec => []TextFits
  BY TextInv, PTL
==============================================================================
