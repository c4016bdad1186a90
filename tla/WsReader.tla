------------------------------ MODULE WsReader ------------------------------
(***************************************************************************)
(* How beast::websocket::stream turns received frames into messages: the   *)
(* header checks (read_fh1, read_fh2), message size accounting, the        *)
(* streaming UTF-8 check, the fixed control-frame buffer, and what one     *)
(* read call reports.  Async selects read_frame_op or the synchronous      *)
(* read_frame; the two differ in when they return and how they treat an    *)
(* empty frame.  Writing is left to WsStream.                              *)
(*                                                                         *)
(* The thresholds of the length encoding are parameters (125, 65535 and    *)
(* 2^64 - 1 in the code), so that small instances have all three forms.    *)
(* Text is made of one- and two-byte characters.  A definition whose       *)
(* comment begins with "Fault:" is a slip used only to test a property.    *)
(***************************************************************************)
EXTENDS Integers, Sequences

CONSTANTS
  Len7, Len16, U64Max,  \* largest length of each of the three forms
  Readers               \* the settings under which a stream may be read

ASSUME LenAssumption ==
  /\ Len7 \in Nat /\ Len16 \in Nat /\ U64Max \in Nat
  /\ 2 < Len7 /\ Len7 < Len16 /\ Len16 < U64Max
ASSUME ReaderAssumption ==
  Readers \subseteq [async : BOOLEAN, server : BOOLEAN, reuse : BOOLEAN, max : Nat]

VARIABLES
  conf,       \* the settings, one of Readers
  up,         \* the connection is usable
  st,         \* what the current read call waits for, "idle" without one
  fb,         \* bytes of the frame_streambuf used since its last reset
  rd_fh,      \* rd_fh_: the fields that are used after the header's checks
  rd_cont,    \* rd_cont_: a continuation frame is expected
  rd_size,    \* rd_size_
  rd_need,    \* rd_need_
  rd_opcode,  \* rd_opcode_
  utf8,       \* rd_utf8_check_: continuation bytes it still expects
  ec,         \* what the last read call reported
  fi,         \* the frame_info of the last successful read call
  total,      \* (history) bytes announced by the frames of this message
  got,        \* (history) bytes of this message given to the caller
  text,       \* (history) UTF-8 state of this message from its first byte
  mid         \* (history) the peer began a message and did not finish it

rdvars == <<rd_fh, rd_cont, rd_size, rd_need, rd_opcode>>
history == <<total, got, text, mid>>
vars == <<conf, up, st, fb, rdvars, utf8, ec, fi, history>>

Async  == conf.async   \* read_frame_op, or the synchronous read_frame
Server == conf.server  \* role_: a server expects masked frames
Reuse  == conf.reuse   \* may the object be opened again after a connection
MsgMax == conf.max     \* rd_msg_max_, 0 for no limit

-----------------------------------------------------------------------------
Data    == {"text", "binary", "cont"}
Control == {"ping", "pong", "close"}
Opcodes == Data \cup Control \cup {"rsv"}
Bytes   == {"ascii", "lead", "tail"}

\* Headers a peer can put on the wire.
Headers ==
  {h \in [op : Opcodes, fin : BOOLEAN, rsv : BOOLEAN,
          mask : BOOLEAN, form : {7, 16, 64}, len : 0..U64Max] :
     /\ h.form = 7 => h.len <= Len7
     /\ h.form = 16 => h.len <= Len16}

FbCap == 2 + 8 + 4 + Len7

\* detail::write: the shortest form that holds the length.
Form(len) == IF len <= Len7 THEN 7 ELSE IF len <= Len16 THEN 16 ELSE 64

\* Bytes of the header after the first two.
Need(h) == (CASE h.form = 7 -> 0 [] h.form = 16 -> 2 [] h.form = 64 -> 8)
             + (IF h.mask THEN 4 ELSE 0)

\* read_fh1 reports protocol_error.
Fh1Bad(h) ==
  \/ h.op \in {"text", "binary"} /\ rd_cont
  \/ h.op = "cont" /\ ~rd_cont
  \/ h.op = "rsv"
  \/ h.op \in Control /\ (~h.fin \/ h.form # 7)
  \/ h.rsv
  \/ h.mask # Server

\* read_fh2 reports protocol_error: the length is not in its shortest form.
Fh2Bad(h) ==
  \/ h.form = 16 /\ h.len <= Len7
  \/ h.form = 64 /\ h.len <= Len16

SizeOverflows(h) == h.op = "cont" /\ rd_size > U64Max - h.len

\* rd_size_ after the header, in 64-bit arithmetic.
NewSize(h) ==
  IF h.op = "cont" THEN (rd_size + h.len) % (U64Max + 1) ELSE h.len

\* Fault: each fragment is compared with the limit on its own.
TooBigPerFrame(h) == SizeOverflows(h) \/ (MsgMax # 0 /\ h.len > MsgMax)

\* read_fh2 reports too_big.
TooBig(h) == SizeOverflows(h) \/ (MsgMax # 0 /\ NewSize(h) > MsgMax)

\* utf8_checker: one byte.  Bad is the rejecting state.
Bad == 2
Utf8Step(s, b) ==
  CASE s = 0 /\ b = "ascii" -> 0
    [] s = 0 /\ b = "lead"  -> 1
    [] s = 1 /\ b = "tail"  -> 0
    [] OTHER                -> Bad

\* utf8_checker::write: all the bytes of bs, from state s.
Utf8Write(s, bs) ==
  LET after[i \in 0..Len(bs)] ==
        IF i = 0 THEN s ELSE Utf8Step(after[i - 1], bs[i])
  IN  after[Len(bs)]

\* detail::read(close_reason): is the payload of a close frame acceptable.
ReadCloseReason(len, cv, reasonOk) ==
  \/ len = 0
  \/ len >= 2 /\ cv = "valid" /\ (len > 2 => reasonOk)

-----------------------------------------------------------------------------
Init ==
  /\ conf \in Readers
  /\ up = TRUE /\ st = "idle" /\ fb = 0
  /\ rd_fh = [op |-> "text", fin |-> TRUE, len |-> 0]
  /\ rd_cont = FALSE /\ rd_size = 0 /\ rd_need = 0 /\ rd_opcode = "text"
  /\ utf8 = 0 /\ ec = "none" /\ fi = [op |-> "text", fin |-> FALSE]
  /\ total = 0 /\ got = 0 /\ text = 0 /\ mid = FALSE

\* The call returns; a connection that failed is torn down.
Return(code) ==
  /\ st' = "idle" /\ ec' = code
  /\ up' = (code = "ok")

\* Fault: a frame read in part is reported as the whole of it.
FrameDoneAnyNeed(need) ==
  /\ Return("ok")
  /\ fi' = [op |-> rd_opcode', fin |-> rd_fh'.fin]

\* do_frame_done: hand the frame, or what was read of it, to the caller.
FrameDone(need) ==
  /\ Return("ok")
  /\ fi' = [op |-> rd_opcode', fin |-> rd_fh'.fin /\ need = 0]

Wait(state) == st' = state /\ UNCHANGED <<up, ec, fi>>

\* read_frame / async_read_frame.
Read ==
  /\ up /\ st = "idle"
  /\ fb' = 0
  /\ Wait(IF rd_need > 0 THEN "payload" ELSE "fh")
  /\ UNCHANGED <<rdvars, utf8, history>>

\* Bytes of the header of a control frame this end sends.
OutHeader == 2 + (IF Server THEN 0 ELSE 4)

\* Fail the connection: the close frame with the code is built in fb.
Fail(code) ==
  /\ Return(code)
  /\ fb' = OutHeader + 2
  /\ UNCHANGED fi

\* The header is refused.  A message that grew too big was already recorded.
Refuse(h) ==
  \/ /\ Fh1Bad(h) \/ Fh2Bad(h)
     /\ Fail("protocol_error")
     /\ UNCHANGED <<rd_size, rd_opcode>>
  \/ /\ ~Fh1Bad(h) /\ ~Fh2Bad(h) /\ h.op \in Data /\ TooBig(h)
     /\ Fail("too_big")
     /\ rd_size' = IF SizeOverflows(h) THEN rd_size ELSE NewSize(h)
     /\ rd_opcode' = IF h.op = "cont" THEN rd_opcode ELSE h.op

\* rd_opcode_ after the header of a data frame.
NewOpcode(h) == IF h.op = "cont" THEN rd_opcode ELSE h.op

\* rd_cont_ after the header of a data frame.
NewCont(h) == ~h.fin

\* The header of a data frame is accepted.  An empty frame is handed to the
\* caller as it is by read_frame_op; read_frame skips it, or, when it ends the
\* message, goes on to read no bytes.
DataHeader(h) ==
  /\ h.op \in Data /\ ~TooBig(h)
  /\ rd_size' = NewSize(h) /\ rd_need' = h.len
  /\ rd_cont' = NewCont(h) /\ rd_opcode' = NewOpcode(h)
  /\ total' = IF h.op = "cont" THEN total + h.len ELSE h.len
  /\ got' = IF h.op = "cont" THEN got ELSE 0
  /\ text' = IF h.op = "cont" THEN text ELSE 0
  /\ mid' = ~h.fin
  /\ \/ /\ h.len > 0 \/ (~Async /\ h.fin)
        /\ Wait("payload") /\ fb' = fb + 2 + Need(h)
     \/ /\ h.len = 0 /\ ~Async /\ ~h.fin
        /\ Wait("fh") /\ fb' = 0
     \/ /\ h.len = 0 /\ Async
        /\ FrameDone(0) /\ fb' = fb + 2 + Need(h)

\* The header of a control frame is accepted; its payload joins it in fb.
ControlHeader(h) ==
  /\ h.op \in Control
  /\ fb' = fb + 2 + Need(h) + h.len
  /\ Wait("control")
  /\ UNCHANGED <<rd_size, rd_opcode>>

\* do_read_fh + 1 and + 2 of read_frame_op; do_read_fh of the stream.
OnHeader(h) ==
  /\ st = "fh"
  /\ rd_fh' = [op |-> h.op, fin |-> h.fin, len |-> h.len]
  /\ \/ Refuse(h) /\ UNCHANGED <<rd_cont, rd_need, history>>
     \/ ~Fh1Bad(h) /\ ~Fh2Bad(h) /\ DataHeader(h)
     \/ ~Fh1Bad(h) /\ ~Fh2Bad(h) /\ ControlHeader(h)
           /\ UNCHANGED <<rd_cont, rd_need, history>>
  /\ UNCHANGED utf8

\* do_control: the payload of a control frame is complete.  A ping is answered
\* from fb (read_frame_op ignores it once a close frame was sent).
OnControl ==
  /\ st = "control"
  /\ \/ rd_fh.op = "ping" /\ Wait("pong") /\ fb' = OutHeader + rd_fh.len
     \/ rd_fh.op = "ping" /\ Async /\ Wait("fh") /\ fb' = 0
     \/ rd_fh.op = "pong" /\ Wait("fh") /\ fb' = 0
     \/ /\ rd_fh.op = "close"
        /\ \E cv \in {"valid", "invalid"}, reasonOk \in BOOLEAN :
             \/ /\ ReadCloseReason(rd_fh.len, cv, reasonOk)
                /\ Return("closed") /\ UNCHANGED fi
                /\ fb' = OutHeader + 2
             \/ /\ ~ReadCloseReason(rd_fh.len, cv, reasonOk)
                /\ Fail("protocol_error")
  /\ UNCHANGED <<rdvars, utf8, history>>

\* The pong was written; the next frame is read into an empty fb.
OnPongSent ==
  /\ st = "pong" /\ Wait("fh") /\ fb' = 0
  /\ UNCHANGED <<rdvars, utf8, history>>

\* Fault: finish() is called at the end of every frame.
Utf8FinishFrame(bs, need) ==
  LET s == Utf8Write(utf8, bs)
  IN  IF need = 0 /\ s # 0 THEN Bad ELSE s

\* The UTF-8 state after the bytes bs, with finish() at the end of a message.
Utf8Check(bs, need) ==
  LET s == Utf8Write(utf8, bs)
  IN  IF need = 0 /\ rd_fh.fin /\ s # 0 THEN Bad ELSE s

\* do_read_payload + 1, or read_some and what follows: the bytes bs arrived.
OnPayload(bs) ==
  /\ st = "payload" /\ Len(bs) <= rd_need /\ (bs = <<>> <=> rd_need = 0)
  /\ rd_need' = rd_need - Len(bs)
  /\ text' = Utf8Write(text, bs)
  /\ UNCHANGED <<rd_fh, rd_cont, rd_size, rd_opcode, total, mid>>
  /\ \/ /\ rd_opcode = "text" /\ Utf8Check(bs, rd_need') = Bad
        /\ utf8' = 0
        /\ Fail("bad_payload")
        /\ UNCHANGED got
     \/ /\ rd_opcode = "text" => Utf8Check(bs, rd_need') # Bad
        /\ utf8' = IF rd_opcode = "text" THEN Utf8Check(bs, rd_need') ELSE utf8
        /\ got' = got + Len(bs)
        /\ \/ (~Async \/ rd_need' = 0) /\ FrameDone(rd_need')
           \/ Async /\ rd_need' > 0 /\ Wait("payload")
        /\ UNCHANGED fb

\* The next layer reports an error while the call waits.
OnError ==
  /\ st # "idle"
  /\ Return("error")
  /\ UNCHANGED <<fb, rdvars, utf8, fi, history>>

\* Fault: reset() and open() forget rd_cont_.
ReopenKeepCont ==
  /\ Reuse /\ ~up
  /\ up' = TRUE /\ rd_need' = 0
  /\ total' = 0 /\ got' = 0 /\ text' = 0 /\ mid' = FALSE
  /\ UNCHANGED <<st, fb, rd_fh, rd_cont, rd_size, rd_opcode, utf8, ec, fi>>

\* accept or handshake on a new connection: reset() and open().
Reopen ==
  /\ Reuse /\ ~up
  /\ up' = TRUE /\ rd_need' = 0 /\ rd_cont' = FALSE
  /\ total' = 0 /\ got' = 0 /\ text' = 0 /\ mid' = FALSE
  /\ UNCHANGED <<st, fb, rd_fh, rd_size, rd_opcode, utf8, ec, fi>>

Next ==
  /\ conf' = conf
  /\ \/ Read
     \/ \E h \in Headers : OnHeader(h)
     \/ OnControl \/ OnPongSent
     \/ \E n \in 0..rd_need : \E bs \in [1..n -> Bytes] : OnPayload(bs)
     \/ OnError \/ Reopen

Spec == Init /\ [][Next]_vars

-----------------------------------------------------------------------------
\* Types of the variables.
TypeOK ==
  /\ conf \in Readers
  /\ up \in BOOLEAN /\ st \in {"idle", "fh", "control", "pong", "payload"}
  /\ fb \in Nat
  /\ rd_fh \in [op : Opcodes, fin : BOOLEAN, len : 0..U64Max]
  /\ rd_cont \in BOOLEAN /\ rd_size \in 0..U64Max /\ rd_need \in 0..U64Max
  /\ rd_opcode \in {"text", "binary"} /\ utf8 \in {0, 1}
  /\ ec \in {"none", "ok", "closed", "error", "protocol_error", "too_big",
             "bad_payload"}
  /\ fi \in [op : {"text", "binary"}, fin : BOOLEAN]
  /\ total \in Nat /\ got \in Nat /\ text \in {0, 1, Bad} /\ mid \in BOOLEAN

\* Between its first and its last frame, however it is fragmented and however
\* control frames come between, rd_size_ is the true size of the message (the
\* 64-bit sum did not wrap) and respects rd_msg_max_.
SizeIsTotal ==
  up /\ (rd_cont \/ st = "payload" \/ rd_need > 0) =>
    rd_size = total /\ (MsgMax # 0 => total <= MsgMax)

\* A read call that reports the end of a message has handed over every byte the
\* message's frames announced, also when frames were read piecewise.
EndIsComplete ==
  st = "idle" /\ ec = "ok" /\ fi.fin => got = total /\ ~rd_cont

\* The control-frame buffer (2 + 8 + 4 + 125 bytes, never reallocated) holds
\* whatever sequence of frames one read call goes through.
FbFits == fb <= FbCap

\* Nothing is read beyond its bound: the message and the buffer both fit.
ReadIsBounded == SizeIsTotal /\ FbFits

\* A header written by detail::write for a frame that is in order (a data frame
\* of the running message or of a new one, or a control frame) is accepted.
OwnFramesAccepted ==
  st = "fh" =>
    \A op \in Control \cup {IF mid THEN "cont" ELSE "text"}, len \in 0..U64Max,
       fin \in BOOLEAN :
      LET h == [op |-> op, fin |-> fin, rsv |-> FALSE, mask |-> Server,
                form |-> Form(len), len |-> len]
      IN  (op \in Control => fin /\ len <= Len7) => ~Fh1Bad(h) /\ ~Fh2Bad(h)

\* A text message that is handed over as complete is valid UTF-8.
TextIsValid ==
  st = "idle" /\ ec = "ok" /\ fi = [op |-> "text", fin |-> TRUE] => text = 0

\* On its first connection the synchronous reader hands over no text message
\* that is not valid UTF-8.
SyncTextIsValid == ~Async /\ ~Reuse => TextIsValid

\* On its first connection the synchronous reader fails the connection for bad
\* UTF-8 only if the message that was being received is invalid, counted from
\* its own first byte: a byte that fits no character, or an end inside one.
RejectIsJust ==
  ~Async /\ ~Reuse /\ ec = "bad_payload" /\ ~up =>
    text = Bad \/ (text = 1 /\ rd_fh.fin /\ rd_need = 0)

\* The synchronous reader judges the text of its first connection rightly,
\* both ways.
TextIsJudged == SyncTextIsValid /\ RejectIsJust

=============================================================================
