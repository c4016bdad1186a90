--------------------------- MODULE WsReaderProofs ---------------------------
(***************************************************************************)
(* Proofs about WsReader for every length encoding (in particular 125,     *)
(* 65535 and 2^64 - 1), every message limit and either role, for the       *)
(* synchronous and the asynchronous reader.                                *)
(***************************************************************************)
EXTENDS WsReader, InductionLemmas, TLAPS

\* What the reader's numbers and flags range over.
NumsOK ==
  /\ rd_size \in 0..U64Max /\ rd_need \in Nat /\ fb \in Nat
  /\ total \in Nat /\ got \in Nat
  /\ rd_fh.len \in Nat /\ rd_fh.fin \in BOOLEAN /\ rd_cont \in BOOLEAN
  /\ up \in BOOLEAN /\ mid \in BOOLEAN

\* Bytes of the running message: announced = handed over + still to come.
CountInv ==
  /\ up => total = got + rd_need
  /\ st \in {"fh", "control", "pong"} => rd_need = 0
  /\ up /\ (st = "payload" \/ rd_need > 0) => rd_fh.fin = ~rd_cont

\* The state of the call.
CallInv ==
  /\ st \in {"idle", "fh", "control", "pong", "payload"}
  /\ st # "idle" => up
  /\ ec = "ok" /\ st = "idle" => up
  /\ st = "idle" /\ ec = "ok" /\ fi.fin => rd_need = 0 /\ ~rd_cont
  /\ up => mid = rd_cont

\* What fb holds in each state; it is empty before a header is read.
FbInv ==
  /\ st = "fh" => fb = 0
  /\ st = "control" => rd_fh.len <= Len7
  /\ FbFits

RInv == conf \in Readers /\ NumsOK /\ CountInv /\ SizeIsTotal /\ CallInv /\ FbInv

\* A sum that does not exceed the largest 64-bit value does not wrap.
LEMMA NoWrap == ASSUME NEW a \in Nat, NEW m \in Nat, a <= m PROVE a % (m + 1) = a
OBVIOUS

\* The settings do not change.
LEMMA ConfKept ==
  ASSUME conf \in Readers, conf' = conf
  PROVE  conf' \in Readers /\ MsgMax \in Nat /\ MsgMax' = MsgMax
BY ReaderAssumption DEF MsgMax

\* A freshly opened stream satisfies the invariant.
LEMMA InitRInv == Init => RInv
<1>0. Init => rd_fh.len = 0 /\ rd_fh.fin = TRUE
  BY DEF Init
<1>1. Init => NumsOK
  <2>1. Init => rd_size \in 0..U64Max /\ rd_need \in Nat /\ fb \in Nat
                  /\ total \in Nat /\ got \in Nat
    BY LenAssumption DEF Init
  <2>2. Init => rd_cont \in BOOLEAN /\ up \in BOOLEAN /\ mid \in BOOLEAN
    BY DEF Init
  <2>3. Init => rd_fh.len \in Nat /\ rd_fh.fin \in BOOLEAN
    <3>1. Init => rd_fh.len \in Nat
      BY <1>0
    <3>2. Init => rd_fh.fin \in BOOLEAN
      BY <1>0, Zenon
    <3>. QED BY <3>1, <3>2
  <2>. QED BY <2>1, <2>2, <2>3, Zenon DEF NumsOK
<1>2. Init => CountInv /\ SizeIsTotal
  BY DEF Init, CountInv, SizeIsTotal
<1>3. Init => CallInv
  BY DEF Init, CallInv
<1>4. Init => FbInv
  BY LenAssumption DEF Init, FbInv, FbFits, FbCap
<1>. QED BY <1>1, <1>2, <1>3, <1>4 DEF RInv, Init

\* A call that fails the connection ends it and leaves a small close frame in fb.
LEMMA FailEnds ==
  ASSUME NEW code, code # "ok", Fail(code)
  PROVE  st' = "idle" /\ up' = FALSE /\ ec' # "ok" /\ fb' \in Nat /\ fb' <= 8
<1>1. st' = "idle" /\ up' = FALSE /\ ec' # "ok"
  BY DEF Fail, Return
<1>2. fb' \in Nat /\ fb' <= 8
  BY DEF Fail, OutHeader
<1>. QED BY <1>1, <1>2

\* An accepted data header: rd_size_ is the sum without wrap, within the limit.
LEMMA DataSize ==
  ASSUME NEW h \in Headers, RInv, st = "fh", ~Fh1Bad(h), DataHeader(h),
         MsgMax \in Nat
  PROVE  /\ rd_size' = total' /\ rd_size' \in 0..U64Max
         /\ MsgMax # 0 => total' <= MsgMax
<1>1. h.len \in 0..U64Max /\ U64Max \in Nat
  BY LenAssumption DEF Headers
<1>2. CASE h.op = "cont"
  <2>1. rd_cont /\ up
    BY <1>2 DEF Fh1Bad, RInv, CallInv
  <2>2. rd_size = total
    BY <2>1 DEF RInv, SizeIsTotal
  <2>3. rd_size + h.len <= U64Max /\ rd_size \in Nat
    BY <1>1, <1>2
    DEF DataHeader, NewCont, NewOpcode, TooBig, SizeOverflows, RInv, NumsOK
  <2>4. NewSize(h) = rd_size + h.len
    BY <1>1, <1>2, <2>3, NoWrap DEF NewSize
  <2>. QED
    BY <1>1, <1>2, <2>2, <2>3, <2>4
    DEF DataHeader, NewCont, NewOpcode, TooBig
<1>3. CASE h.op # "cont"
  BY <1>1, <1>3
  DEF DataHeader, NewCont, NewOpcode, TooBig, NewSize
<1>. QED BY <1>2, <1>3

\* The two header checks bound what fb receives.
LEMMA HeaderBytes ==
  ASSUME NEW h \in Headers
  PROVE  /\ Need(h) \in 0..12
         /\ h.form = 7 => Need(h) \in 0..4 /\ h.len <= Len7
BY DEF Headers, Need

\* A complete header preserves the invariant.
LEMMA HeaderKeeps ==
  ASSUME NEW h \in Headers, RInv, conf' = conf, OnHeader(h) PROVE RInv'
<1>c. conf' \in Readers /\ MsgMax \in Nat /\ MsgMax' = MsgMax
  BY ConfKept DEF RInv
<1>. USE <1>c, LenAssumption
<1>0. /\ h.len \in 0..U64Max /\ h.fin \in BOOLEAN /\ h.form \in {7, 16, 64}
      /\ st = "fh" /\ up /\ fb = 0 /\ rd_need = 0
      /\ rd_fh' = [op |-> h.op, fin |-> h.fin, len |-> h.len]
  BY DEF OnHeader, RInv, CountInv, CallInv, FbInv, Headers
<1>1. CASE Refuse(h) /\ UNCHANGED <<rd_cont, rd_need, history>>
  <2>1. st' = "idle" /\ up' = FALSE /\ ec' # "ok" /\ fb' \in Nat /\ fb' <= 8
    BY <1>1, FailEnds DEF Refuse
  <2>2. rd_size' \in 0..U64Max
    BY <1>0, <1>1 DEF Refuse, NewSize, RInv, NumsOK
  <2>3. rd_fh'.len \in Nat /\ rd_fh'.fin \in BOOLEAN
    BY <1>0
  <2>4. NumsOK'
    BY <1>1, <2>1, <2>2, <2>3 DEF RInv, NumsOK, history
  <2>. QED
    BY <2>1, <2>4
    DEF RInv, CountInv, SizeIsTotal, CallInv, FbInv, FbFits, FbCap
<1>2. CASE ~Fh1Bad(h) /\ ~Fh2Bad(h) /\ DataHeader(h)
  <2>1. /\ rd_size' = total' /\ rd_size' \in 0..U64Max
        /\ MsgMax # 0 => total' <= MsgMax
    BY <1>0, <1>2, DataSize
  <2>2. /\ rd_need' = h.len /\ rd_cont' = ~h.fin /\ mid' = ~h.fin
        /\ st' \in {"payload", "fh", "idle"} /\ up'
        /\ st' = "fh" => fb' = 0 /\ h.len = 0
        /\ st' # "fh" => fb' = 2 + Need(h)
        /\ st' = "idle" => h.len = 0 /\ fi'.fin = h.fin
    <3>1. CASE Wait("payload") /\ fb' = fb + 2 + Need(h)
      BY <1>0, <1>2, <3>1, HeaderBytes DEF DataHeader, NewCont, NewOpcode, Wait
    <3>2. CASE h.len = 0 /\ Wait("fh") /\ fb' = 0
      BY <1>0, <1>2, <3>2 DEF DataHeader, NewCont, NewOpcode, Wait
    <3>3. CASE h.len = 0 /\ FrameDone(0) /\ fb' = fb + 2 + Need(h)
      <4>1. st' = "idle" /\ up' = TRUE /\ fi'.fin = h.fin
        BY <1>0, <3>3 DEF FrameDone, Return
      <4>. QED
        BY <1>0, <1>2, <3>3, <4>1, HeaderBytes
        DEF DataHeader, NewCont, NewOpcode
    <3>. QED BY <1>2, <3>1, <3>2, <3>3 DEF DataHeader, NewCont, NewOpcode
  <2>3. total' = got' + rd_need' /\ got' \in Nat
    BY <1>0, <1>2 DEF DataHeader, NewCont, NewOpcode, RInv, CountInv, NumsOK
  <2>4. fb' \in Nat /\ fb' <= FbCap
    BY <2>2, HeaderBytes DEF FbCap
  <2>5. NumsOK'
    BY <1>0, <2>1, <2>2, <2>3, <2>4 DEF NumsOK
  <2>6. CountInv' /\ SizeIsTotal'
    BY <1>0, <2>1, <2>2, <2>3 DEF CountInv, SizeIsTotal
  <2>7. CallInv' /\ FbInv'
    BY <1>0, <2>2, <2>4 DEF CallInv, FbInv, FbFits
  <2>. QED BY <2>5, <2>6, <2>7 DEF RInv
<1>3. CASE /\ ~Fh1Bad(h) /\ ~Fh2Bad(h) /\ ControlHeader(h)
           /\ UNCHANGED <<rd_cont, rd_need, history>>
  <2>1. h.form = 7
    BY <1>0, <1>3 DEF ControlHeader, Fh1Bad
  <2>2. /\ st' = "control" /\ up' = up /\ rd_size' = rd_size
        /\ fb' = 2 + Need(h) + h.len
    BY <1>0, <1>3 DEF ControlHeader, Wait
  <2>3. fb' \in Nat /\ fb' <= FbCap /\ h.len <= Len7
    BY <1>0, <2>1, <2>2, HeaderBytes DEF FbCap
  <2>4. NumsOK'
    BY <1>0, <1>3, <2>2, <2>3 DEF RInv, NumsOK, history
  <2>5. CountInv' /\ SizeIsTotal'
    BY <1>0, <1>3, <2>2 DEF RInv, CountInv, SizeIsTotal, history
  <2>6. CallInv' /\ FbInv'
    BY <1>0, <1>3, <2>2, <2>3 DEF RInv, CallInv, FbInv, FbFits, history
  <2>. QED BY <2>4, <2>5, <2>6 DEF RInv
<1>. QED BY <1>1, <1>2, <1>3 DEF OnHeader

\* Starting a read call preserves the invariant.
LEMMA ReadKeeps == ASSUME RInv, conf' = conf, Read PROVE RInv'
<1>c. conf' \in Readers /\ MsgMax \in Nat /\ MsgMax' = MsgMax
  BY ConfKept DEF RInv
<1>. USE <1>c, LenAssumption
<1>1. /\ st' = (IF rd_need > 0 THEN "payload" ELSE "fh") /\ fb' = 0
      /\ UNCHANGED <<up, ec, fi, rdvars, history>>
  BY DEF Read, Wait
<1>2. NumsOK'
  BY <1>1 DEF RInv, NumsOK, rdvars, history
<1>3. CountInv' /\ SizeIsTotal'
  BY <1>1 DEF Read, RInv, NumsOK, CountInv, SizeIsTotal, rdvars, history
<1>4. CallInv' /\ FbInv'
  BY <1>1 DEF Read, RInv, CallInv, FbInv, FbFits, FbCap, rdvars, history
<1>. QED BY <1>2, <1>3, <1>4 DEF RInv

\* Control frames leave the accounting of the message they interrupt alone.
LEMMA ControlKeeps == ASSUME RInv, conf' = conf, OnControl \/ OnPongSent PROVE RInv'
<1>c. conf' \in Readers /\ MsgMax \in Nat /\ MsgMax' = MsgMax
  BY ConfKept DEF RInv
<1>. USE <1>c, LenAssumption
<1>1. UNCHANGED <<rdvars, history>> /\ st \in {"control", "pong"}
  BY DEF OnControl, OnPongSent
<1>2. CASE st' = "fh" /\ fb' = 0 /\ UNCHANGED <<up, ec, fi>>
  <2>1. NumsOK'
    BY <1>1, <1>2 DEF RInv, NumsOK, rdvars, history
  <2>2. CountInv' /\ SizeIsTotal'
    BY <1>1, <1>2 DEF RInv, NumsOK, CountInv, SizeIsTotal, rdvars, history
  <2>3. CallInv' /\ FbInv'
    BY <1>1, <1>2 DEF RInv, CallInv, FbInv, FbFits, FbCap, rdvars, history
  <2>. QED BY <2>1, <2>2, <2>3 DEF RInv
<1>3. CASE /\ st = "control" /\ st' = "pong" /\ fb' = OutHeader + rd_fh.len
           /\ UNCHANGED <<up, ec, fi>>
  <2>1. fb' \in Nat /\ fb' <= FbCap
    BY <1>3 DEF OutHeader, RInv, FbInv, NumsOK, FbCap
  <2>2. NumsOK'
    BY <1>1, <1>3, <2>1 DEF RInv, NumsOK, rdvars, history
  <2>3. CountInv' /\ SizeIsTotal'
    BY <1>1, <1>3 DEF RInv, NumsOK, CountInv, SizeIsTotal, rdvars, history
  <2>4. CallInv' /\ FbInv'
    BY <1>1, <1>3, <2>1 DEF RInv, CallInv, FbInv, FbFits, rdvars, history
  <2>. QED BY <2>2, <2>3, <2>4 DEF RInv
<1>4. CASE st' = "idle" /\ up' = FALSE /\ ec' # "ok" /\ fb' \in Nat /\ fb' <= 8
  <2>1. NumsOK'
    BY <1>1, <1>4 DEF RInv, NumsOK, rdvars, history
  <2>2. CountInv' /\ SizeIsTotal' /\ CallInv'
    BY <1>4 DEF CountInv, SizeIsTotal, CallInv
  <2>3. FbInv'
    BY <1>4 DEF FbInv, FbFits, FbCap
  <2>. QED BY <2>1, <2>2, <2>3 DEF RInv
<1>5. Return("closed") /\ fb' = OutHeader + 2
        => st' = "idle" /\ up' = FALSE /\ ec' # "ok" /\ fb' \in Nat /\ fb' <= 8
  <2>1. Return("closed") => st' = "idle" /\ up' = FALSE /\ ec' # "ok"
    BY DEF Return
  <2>2. fb' = OutHeader + 2 => fb' \in Nat /\ fb' <= 8
    BY DEF OutHeader
  <2>. QED BY <2>1, <2>2
<1>6. Fail("protocol_error")
        => st' = "idle" /\ up' = FALSE /\ ec' # "ok" /\ fb' \in Nat /\ fb' <= 8
  BY FailEnds
<1>7. CASE OnPongSent
  BY <1>2, <1>7 DEF OnPongSent, Wait
<1>8. CASE OnControl
  <2>1. CASE rd_fh.op = "close"
    BY <1>4, <1>5, <1>6, <1>8, <2>1 DEF OnControl
  <2>2. CASE rd_fh.op # "close"
    BY <1>2, <1>3, <1>8, <2>2 DEF OnControl, Wait
  <2>. QED BY <2>1, <2>2
<1>. QED BY <1>7, <1>8

\* Payload bytes move from "to come" to "handed over".
LEMMA PayloadKeeps ==
  ASSUME NEW n \in 0..rd_need, NEW bs \in [1..n -> Bytes], RInv,
         conf' = conf, OnPayload(bs)
  PROVE  RInv'
<1>c. conf' \in Readers /\ MsgMax \in Nat /\ MsgMax' = MsgMax
  BY ConfKept DEF RInv
<1>. USE <1>c, LenAssumption
<1>0. rd_need \in Nat /\ n \in Nat /\ Len(bs) = n
  BY DEF RInv, NumsOK
<1>1. /\ st = "payload" /\ up /\ n <= rd_need /\ rd_need' = rd_need - n
      /\ UNCHANGED <<rd_fh, rd_cont, rd_size, total, mid>>
  BY <1>0 DEF OnPayload, RInv, CallInv
<1>2. /\ total = got + rd_need /\ rd_fh.fin = ~rd_cont
      /\ rd_size = total /\ (MsgMax # 0 => total <= MsgMax)
  BY <1>1 DEF RInv, CountInv, SizeIsTotal
<1>3. CASE Fail("bad_payload") /\ UNCHANGED got
  <2>1. st' = "idle" /\ up' = FALSE /\ ec' # "ok" /\ fb' \in Nat /\ fb' <= 8
    BY <1>3, FailEnds
  <2>0. rd_need' \in Nat
    BY <1>0, <1>1
  <2>2. NumsOK'
    BY <1>1, <1>3, <2>0, <2>1 DEF RInv, NumsOK
  <2>3. CountInv' /\ SizeIsTotal' /\ CallInv'
    BY <2>1 DEF CountInv, SizeIsTotal, CallInv
  <2>4. FbInv'
    BY <2>1 DEF FbInv, FbFits, FbCap
  <2>. QED BY <2>2, <2>3, <2>4 DEF RInv
<1>4. CASE /\ got' = got + n /\ UNCHANGED fb
           /\ \/ FrameDone(rd_need')
              \/ Wait("payload")
  <2>1. /\ st' \in {"idle", "payload"} /\ up'
        /\ st' = "idle" => fi'.fin = (rd_fh.fin /\ rd_need' = 0)
    <3>1. CASE FrameDone(rd_need')
      BY <1>1, <3>1 DEF FrameDone, Return
    <3>2. CASE Wait("payload")
      BY <1>1, <3>2 DEF Wait
    <3>. QED BY <1>4, <3>1, <3>2
  <2>2. got' \in Nat /\ rd_need' \in Nat /\ total' = got' + rd_need'
    BY <1>0, <1>1, <1>2, <1>4 DEF RInv, NumsOK
  <2>3. NumsOK'
    BY <1>1, <1>4, <2>1, <2>2 DEF RInv, NumsOK
  <2>4. CountInv' /\ SizeIsTotal'
    BY <1>1, <1>2, <2>1, <2>2 DEF CountInv, SizeIsTotal
  <2>5. CallInv'
    BY <1>1, <1>2, <2>1, <2>2 DEF RInv, CallInv, NumsOK
  <2>6. FbInv'
    BY <1>1, <1>4, <2>1 DEF RInv, FbInv, FbFits
  <2>. QED BY <2>3, <2>4, <2>5, <2>6 DEF RInv
<1>. QED BY <1>0, <1>3, <1>4 DEF OnPayload

\* A lost connection, and opening the object again, preserve the invariant.
LEMMA ConnectionKeeps == ASSUME RInv, conf' = conf, OnError \/ Reopen PROVE RInv'
<1>c. conf' \in Readers /\ MsgMax \in Nat /\ MsgMax' = MsgMax
  BY ConfKept DEF RInv
<1>. USE <1>c, LenAssumption
<1>1. CASE OnError
  <2>1. st' = "idle" /\ up' = FALSE /\ ec' # "ok" /\ UNCHANGED <<fb, rdvars, history>>
    BY <1>1 DEF OnError, Return
  <2>2. NumsOK'
    BY <2>1 DEF RInv, NumsOK, rdvars, history
  <2>3. CountInv' /\ SizeIsTotal' /\ CallInv' /\ FbInv'
    BY <2>1 DEF RInv, CountInv, SizeIsTotal, CallInv, FbInv, FbFits
  <2>. QED BY <2>2, <2>3 DEF RInv
<1>2. CASE Reopen
  <2>1. st = "idle" /\ ec # "ok"
    BY <1>2 DEF Reopen, RInv, CallInv
  <2>2. NumsOK'
    BY <1>2 DEF Reopen, RInv, NumsOK
  <2>3. CountInv' /\ SizeIsTotal'
    BY <1>2, <2>1 DEF Reopen, CountInv, SizeIsTotal
  <2>4. CallInv' /\ FbInv'
    BY <1>2, <2>1 DEF Reopen, RInv, CallInv, FbInv, FbFits
  <2>. QED BY <2>2, <2>3, <2>4 DEF RInv
<1>. QED BY <1>1, <1>2

\* The invariant holds in every reachable state of the reader.
THEOREM ReaderInvariance == Spec => []RInv
<1>1. RInv /\ [Next]_vars => RInv'
  <2>. SUFFICES ASSUME RInv, [Next]_vars PROVE RInv'
    OBVIOUS
  <2>1. CASE Next
    BY <2>1, ReadKeeps, HeaderKeeps, ControlKeeps, PayloadKeeps,
       ConnectionKeeps
    DEF Next
  <2>2. CASE UNCHANGED vars
    BY <2>2 DEF MsgMax, vars, rdvars, history, RInv, NumsOK, CountInv, SizeIsTotal, CallInv,
                FbInv, FbFits
  <2>. QED BY <2>1, <2>2
<1>. QED BY <1>1, InitRInv, PTL DEF Spec

\* However a message is fragmented, rd_size_ is its true size and within the
\* limit: the 64-bit sum never wraps.
THEOREM SizeCorrect == Spec => []SizeIsTotal
<1>1. RInv => SizeIsTotal
  BY DEF RInv
<1>. QED BY <1>1, ReaderInvariance, PTL

\* A message reported as complete was handed over completely.
THEOREM EndCorrect == Spec => []EndIsComplete
<1>1. RInv => EndIsComplete
  BY DEF RInv, NumsOK, CountInv, CallInv, EndIsComplete
<1>. QED BY <1>1, ReaderInvariance, PTL

\* The fixed control-frame buffer never overflows.
THEOREM BufferSuffices == Spec => []FbFits
<1>1. RInv => FbFits
  BY DEF RInv, FbInv
<1>. QED BY <1>1, ReaderInvariance, PTL

\* Both bounds together.
THEOREM ReadBounded == Spec => []ReadIsBounded
<1>. QED BY SizeCorrect, BufferSuffices, PTL DEF ReadIsBounded

\* A frame that the library's own writer emits in order is never refused for
\* its header.
THEOREM OwnAccepted == Spec => []OwnFramesAccepted
<1>1. RInv => OwnFramesAccepted
  <2>. SUFFICES ASSUME RInv, st = "fh",
                       NEW op \in Control \cup {IF mid THEN "cont" ELSE "text"},
                       NEW len \in 0..U64Max, NEW fin \in BOOLEAN,
                       op \in Control => fin /\ len <= Len7,
                       NEW h,
                       h = [op |-> op, fin |-> fin, rsv |-> FALSE, mask |-> Server,
                            form |-> Form(len), len |-> len]
                PROVE  ~Fh1Bad(h) /\ ~Fh2Bad(h)
    BY DEF OwnFramesAccepted
  <2>1. mid = rd_cont /\ rd_cont \in BOOLEAN
    BY DEF RInv, NumsOK, CallInv
  <2>2. /\ len <= Len7 => h.form = 7
        /\ h.form = 16 => len > Len7
        /\ h.form = 64 => len > Len16
    BY LenAssumption DEF Form
  <2>3. ~Fh1Bad(h)
    BY <2>1, <2>2 DEF Fh1Bad, Control
  <2>4. ~Fh2Bad(h)
    BY <2>2, LenAssumption DEF Fh2Bad
  <2>. QED BY <2>3, <2>4
<1>. QED BY <1>1, ReaderInvariance, PTL

-----------------------------------------------------------------------------
(* The text of a message.  utf8_checker is fed in pieces and its state is  *)
(* kept between frames and between calls; the message is judged as one.    *)

\* A message has begun and is not complete.
Running == st = "payload" \/ rd_need > 0 \/ rd_cont

\* On the first connection of the synchronous reader the checker stands where
\* the message's own text stands, and at the start unless text is being read.
TextInv ==
  /\ utf8 \in {0, 1} /\ rd_opcode \in {"text", "binary"}
  /\ up /\ Running /\ rd_opcode = "text" => utf8 = text
  /\ up /\ ~(Running /\ rd_opcode = "text") => utf8 = 0
  /\ TextIsValid /\ RejectIsJust
  /\ up => ec # "bad_payload"

Judged == ~Async /\ ~Reuse => TextInv

\* utf8_checker::write ends in one of its states, whatever the bytes are.
LEMMA Utf8Range ==
  ASSUME NEW s \in {0, 1, Bad}, NEW n \in Nat, NEW bs, Len(bs) = n
  PROVE  Utf8Write(s, bs) \in {0, 1, Bad}
<1> DEFINE X == {0, 1, Bad}
           F == [i \in 1..n |-> [x \in X |-> Utf8Step(x, bs[i])]]
<1>0. \A x, b : Utf8Step(x, b) \in X
  BY DEF Utf8Step, Bad
<1>1. \A i \in 1..n : \A x \in X : F[i][x] = Utf8Step(x, bs[i])
  BY <1>0
<1>. HIDE DEF F, X
<1>2. PICK g : g \in Runs(X, s, n, F)
  <2>1. \A i \in 1..n : \A x \in X : F[i][x] \in X
    BY <1>0, <1>1
  <2>2. s \in X
    BY DEF X
  <2>. QED BY <2>1, <2>2, Recursion
<1>3. g = [i \in 0..n |-> IF i = 0 THEN s ELSE Utf8Step(g[i - 1], bs[i])]
  <2>1. \A i \in 0..n : g[i] = IF i = 0 THEN s ELSE Utf8Step(g[i - 1], bs[i])
    BY <1>1, <1>2 DEF Runs
  <2>. QED BY <1>2, <2>1 DEF Runs
<1> DEFINE P(f) == f = [i \in 0..n |-> IF i = 0 THEN s ELSE Utf8Step(f[i - 1], bs[i])]
           a == CHOOSE f : P(f)
<1>4. P(a)
  <2>1. P(g)
    BY <1>3
  <2>. QED BY <2>1, Zenon
<1>5. Utf8Write(s, bs) = a[n]
  BY Zenon DEF Utf8Write
<1>6. a[n] \in {0, 1, Bad}
  <2>. HIDE DEF a
  <2>1. a[n] = s \/ a[n] = Utf8Step(a[n - 1], bs[n])
    BY <1>4
  <2>. QED BY <1>0, <2>1 DEF X
<1>. QED BY <1>5, <1>6

\* The settings of the stream do not change.
LEMMA SettingsKept == ASSUME conf' = conf PROVE Async' = Async /\ Reuse' = Reuse
BY DEF Async, Reuse

\* A header begins a message with a fresh checker, or continues one.
LEMMA HeaderJudged ==
  ASSUME NEW h \in Headers, RInv, TextInv, ~Async, ~Reuse, OnHeader(h), conf' = conf
  PROVE  TextInv'
<1>0. st = "fh" /\ up /\ rd_need = 0 /\ UNCHANGED utf8 /\ h.len \in Nat /\ h.fin \in BOOLEAN
  BY LenAssumption DEF OnHeader, RInv, CountInv, CallInv, Headers
<1>r. ~Async' /\ ~Reuse'
  BY SettingsKept
<1>1. CASE Refuse(h) /\ UNCHANGED <<rd_cont, rd_need, history>>
  <2>1. st' = "idle" /\ up' = FALSE /\ ec' \in {"protocol_error", "too_big"}
    BY <1>1 DEF Refuse, Fail, Return
  <2>2. rd_opcode' \in {"text", "binary"}
    BY <1>1 DEF Refuse, Data, TextInv
  <2>. QED BY <1>0, <2>1, <2>2 DEF TextInv, TextIsValid, RejectIsJust
<1>2. CASE ~Fh1Bad(h) /\ ~Fh2Bad(h) /\ DataHeader(h)
  <2>1. /\ st' \in {"payload", "fh"} /\ UNCHANGED <<up, ec>>
        /\ st' = "fh" => ~h.fin
    BY <1>2 DEF DataHeader, Wait
  <2>2. rd_cont' = ~h.fin /\ Running'
    BY <1>0, <1>2, <2>1 DEF DataHeader, NewCont, Running
  <2>3. CASE h.op = "cont"
    <3>1. Running
      BY <1>2, <2>3 DEF Fh1Bad, Running
    <3>2. rd_opcode' = rd_opcode /\ text' = text
      BY <1>2, <2>3 DEF DataHeader, NewOpcode
    <3>. QED BY <1>0, <2>1, <2>2, <3>1, <3>2 DEF TextInv, TextIsValid, RejectIsJust
  <2>4. CASE h.op # "cont"
    <3>1. ~Running
      BY <1>0, <1>2, <2>4 DEF Fh1Bad, Running, DataHeader, Data
    <3>2. rd_opcode' = h.op /\ h.op \in {"text", "binary"} /\ text' = 0
      BY <1>2, <2>4 DEF DataHeader, NewOpcode, Data
    <3>. QED BY <1>0, <2>1, <2>2, <3>1, <3>2 DEF TextInv, TextIsValid, RejectIsJust
  <2>. QED BY <2>3, <2>4
<1>3. CASE ControlHeader(h) /\ UNCHANGED <<rd_cont, rd_need, history>>
  <2>1. st' = "control" /\ UNCHANGED <<up, ec, rd_opcode, rd_cont, rd_need, text>>
    BY <1>3 DEF ControlHeader, Wait, history
  <2>. QED BY <1>0, <2>1 DEF TextInv, TextIsValid, RejectIsJust, Running
<1>. QED BY <1>1, <1>2, <1>3 DEF OnHeader

\* Equal frame_infos have equal fields.
LEMMA SameInfo ==
  ASSUME NEW a, NEW b, NEW c, NEW d, [op |-> a, fin |-> b] = [op |-> c, fin |-> d]
  PROVE  a = c /\ b = d
<1>. DEFINE x == [op |-> a, fin |-> b]
            y == [op |-> c, fin |-> d]
<1>1. x.op = a /\ x.fin = b /\ y.op = c /\ y.fin = d
  OBVIOUS
<1>2. x = y
  OBVIOUS
<1>. HIDE DEF x, y
<1>. QED BY <1>1, <1>2

\* Bytes of the payload take the checker and the message to the same state;
\* at the end of the message the checker is back at the start.
LEMMA PayloadJudged ==
  ASSUME NEW n \in 0..rd_need, NEW bs \in [1..n -> Bytes], RInv, TextInv,
         ~Async, ~Reuse, OnPayload(bs), conf' = conf
  PROVE  TextInv'
<1>0. rd_need \in Nat /\ n \in Nat /\ Len(bs) = n /\ rd_need' \in Nat
  BY DEF RInv, NumsOK, OnPayload
<1>1. /\ st = "payload" /\ up /\ Running /\ rd_fh.fin = ~rd_cont /\ rd_fh.fin \in BOOLEAN
      /\ text' = Utf8Write(text, bs) /\ UNCHANGED <<rd_fh, rd_cont, rd_opcode>>
  BY DEF OnPayload, RInv, NumsOK, CountInv, CallInv, Running
<1>2. rd_opcode = "text" => utf8 = text /\ text' \in {0, 1, Bad}
  <2>1. rd_opcode = "text" => utf8 = text
    BY <1>1 DEF TextInv
  <2>2. utf8 \in {0, 1, Bad}
    BY DEF TextInv
  <2>. QED BY <1>0, <1>1, <2>1, <2>2, Utf8Range
<1>3. rd_opcode = "text" =>
        Utf8Check(bs, rd_need') = IF rd_need' = 0 /\ rd_fh.fin /\ text' # 0 THEN Bad ELSE text'
  BY <1>1, <1>2 DEF Utf8Check
<1>4. CASE /\ rd_opcode = "text" /\ Utf8Check(bs, rd_need') = Bad
           /\ utf8' = 0 /\ Fail("bad_payload")
  <2>1. st' = "idle" /\ up' = FALSE
    BY <1>4 DEF Fail, Return
  <2>2. text' = Bad \/ (text' = 1 /\ rd_fh'.fin /\ rd_need' = 0)
    BY <1>1, <1>2, <1>3, <1>4 DEF Bad
  <2>3. TextIsValid'
    BY <1>4 DEF Fail, Return, TextIsValid
  <2>. QED BY <1>1, <1>4, <2>1, <2>2, <2>3 DEF TextInv, RejectIsJust
<1>5. CASE /\ rd_opcode = "text" => Utf8Check(bs, rd_need') # Bad
           /\ utf8' = IF rd_opcode = "text" THEN Utf8Check(bs, rd_need') ELSE utf8
           /\ FrameDone(rd_need')
  <2>1. /\ st' = "idle" /\ up' = TRUE /\ ec' = "ok"
        /\ fi' = [op |-> rd_opcode', fin |-> rd_fh'.fin /\ rd_need' = 0]
    BY <1>5 DEF FrameDone, Return
  <2>2. Running' <=> rd_need' > 0 \/ ~rd_fh.fin
    BY <1>1, <2>1 DEF Running
  <2>3. rd_opcode = "text" => utf8' = text' /\ text' \in {0, 1} /\ (~Running' => text' = 0)
    BY <1>0, <1>2, <1>3, <1>5, <2>2 DEF Bad
  <2>4. rd_opcode # "text" => utf8' = 0
    BY <1>1, <1>5 DEF TextInv
  <2>5. TextIsValid'
    <3>. SUFFICES ASSUME fi' = [op |-> "text", fin |-> TRUE] PROVE text' = 0
      BY DEF TextIsValid
    <3>. DEFINE done == rd_fh'.fin /\ rd_need' = 0
    <3>1. fi' = [op |-> rd_opcode', fin |-> done]
      BY <2>1
    <3>. HIDE DEF done
    <3>2. rd_opcode' = "text" /\ done = TRUE
      BY <3>1, SameInfo, Zenon
    <3>3. rd_opcode = "text" /\ rd_fh.fin /\ rd_need' = 0
      BY <1>1, <3>2 DEF done
    <3>. QED BY <2>2, <2>3, <3>3
  <2>. QED BY <1>1, <2>1, <2>3, <2>4, <2>5 DEF TextInv, RejectIsJust
<1>. QED BY <1>4, <1>5 DEF OnPayload

\* Every other step leaves the message and the checker alone.
LEMMA OtherJudged ==
  ASSUME RInv, TextInv, ~Async, ~Reuse, Read \/ OnControl \/ OnPongSent \/ OnError \/ Reopen,
         conf' = conf
  PROVE  TextInv'
<1>r. ~Reopen
  BY DEF Reopen
<1>1. UNCHANGED <<rdvars, utf8, text>>
  <2>1. UNCHANGED <<rdvars, utf8, history>>
    BY <1>r, Zenon DEF Read, OnControl, OnPongSent, OnError
  <2>. QED BY <2>1 DEF history
<1>2. rd_need \in Nat /\ (st # "idle" => up)
  BY DEF RInv, NumsOK, CallInv
<1>3. CASE /\ UNCHANGED <<up, ec>> /\ st' # "idle" /\ up
           /\ st' = "payload" => rd_need > 0
           /\ st = "payload" => st' = "payload"
  BY <1>1, <1>2, <1>3 DEF TextInv, TextIsValid, RejectIsJust, Running, rdvars
<1>4. CASE up' = FALSE /\ ec' \in {"closed", "protocol_error", "error"}
  BY <1>1, <1>4 DEF TextInv, TextIsValid, RejectIsJust, rdvars
<1>5. CASE Read
  BY <1>2, <1>3, <1>5 DEF Read, Wait
<1>6. CASE OnControl
  <2>1. CASE rd_fh.op = "close"
    BY <1>4, <1>6, <2>1 DEF OnControl, Fail, Return
  <2>2. CASE rd_fh.op # "close"
    BY <1>2, <1>3, <1>6, <2>2 DEF OnControl, Wait
  <2>. QED BY <2>1, <2>2
<1>7. CASE OnPongSent
  BY <1>2, <1>3, <1>7 DEF OnPongSent, Wait
<1>8. CASE OnError
  BY <1>4, <1>8 DEF OnError, Return
<1>. QED BY <1>r, <1>5, <1>6, <1>7, <1>8

\* The checker follows the text of the message in every reachable state.
THEOREM TextInvariance == Spec => []Judged
<1>1. Init => Judged
  BY DEF Init, Judged, TextInv, Running, TextIsValid, RejectIsJust
<1>2. RInv /\ Judged /\ [Next]_vars => Judged'
  <2>. SUFFICES ASSUME RInv, Judged, [Next]_vars, ~Async', ~Reuse' PROVE TextInv'
    BY DEF Judged
  <2>1. CASE Next
    <3>1. conf' = conf
      BY <2>1 DEF Next
    <3>2. TextInv /\ ~Async /\ ~Reuse
      BY <3>1, SettingsKept DEF Judged
    <3>. QED BY <2>1, <3>1, <3>2, HeaderJudged, PayloadJudged, OtherJudged DEF Next
  <2>2. CASE UNCHANGED vars
    BY <2>2 DEF Judged, TextInv, Running, TextIsValid, RejectIsJust, vars, rdvars, history,
                Async, Reuse
  <2>. QED BY <2>1, <2>2
<1>. QED BY <1>1, <1>2, ReaderInvariance, PTL DEF Spec

\* On its first connection the synchronous reader judges text rightly, both
\* ways: what it hands over as complete is valid, and what it fails the
\* connection for is not, however the bytes are cut into frames and reads.
THEOREM TextJudged == Spec => []TextIsJudged
<1>1. Judged => TextIsJudged
  BY DEF Judged, TextInv, TextIsJudged, SyncTextIsValid, RejectIsJust
<1>. QED BY <1>1, TextInvariance, PTL

=============================================================================
