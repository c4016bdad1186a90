------------------------------ MODULE WsWriter ------------------------------
(***************************************************************************)
(* Writing a message: the synchronous write and write_frame of             *)
(* beast::websocket::stream with automatic fragmentation, with masking and *)
(* plain, and the payload of the asynchronous write_op and write_frame_op. *)
(* One boost::asio::write is one step; payload bytes are counted.  A       *)
(* message is written by synchronous or by asynchronous calls, not both.   *)
(* A definition whose comment begins with "Fault:" is a slip used only to  *)
(* test a property.                                                        *)
(***************************************************************************)
EXTENDS Integers

CONSTANTS
  BufSizes,   \* write_buffer_size values the caller may set
  MaxBytes,   \* bound: bytes handed over by one call
  AnyParts    \* FALSE: if the first part of an auto-fragmented message is not
              \* the whole of it, it fills the write buffer exactly or is empty

ASSUME WriterAssumption ==
  BufSizes \subseteq Nat \ {0} /\ MaxBytes \in Nat /\ AnyParts \in BOOLEAN

VARIABLES
  role,                                    \* role_
  wr_autofrag_, wr_buf_size_,              \* options
  wr_cont, wr_autofrag, wr_size, wr_max,   \* wr_
  failed,
  call,      \* the call in progress: which branch it is in, or "idle"
  async,     \* was the last call an asynchronous one
  fin,       \* its argument fin
  remain,    \* bytes of its buffers not yet sent or buffered
  op,        \* fh.op: "first" or "cont"
  chunk,     \* most bytes one write of the masked branch carries
  last,      \* (wire) the last frame begun: opcode and length
  open,      \* (wire) the peer has part of a message
  limit      \* (history) frame size the options promise, 0 without one

options == <<role, wr_autofrag_, wr_buf_size_>>
vars == <<options, wr_cont, wr_autofrag, wr_size, wr_max, failed,
          call, async, fin, remain, op, chunk, last, open, limit>>

Min2(a, b) == IF a <= b THEN a ELSE b

-----------------------------------------------------------------------------
Init ==
  /\ role \in {"client", "server"}
  /\ wr_autofrag_ = TRUE /\ wr_buf_size_ \in BufSizes
  /\ wr_cont = FALSE /\ wr_autofrag = FALSE /\ wr_size = 0
  /\ wr_max = 0 /\ failed = FALSE
  /\ call = "idle" /\ async = FALSE /\ fin = FALSE /\ remain = 0 /\ op = "first" /\ chunk = 0
  /\ last = [op |-> "none", len |-> 0] /\ open = FALSE /\ limit = 0

SetOption(autofrag, size) ==
  /\ call = "idle"
  /\ wr_autofrag_' = autofrag /\ wr_buf_size_' = size
  /\ UNCHANGED <<role, wr_cont, wr_autofrag, wr_size, wr_max, failed, call,
                 async, fin, remain, op, chunk, last, open, limit>>

\* Fault: an existing buffer is kept when the option has changed.
WrPrepareOldBuffer ==
  /\ wr_autofrag' = wr_autofrag_ /\ wr_size' = 0
  /\ wr_max' = IF wr_max = 0 THEN wr_buf_size_ ELSE wr_max

\* wr_prepare, at the first frame of a message.
WrPrepare == wr_autofrag' = wr_autofrag_ /\ wr_size' = 0 /\ wr_max' = wr_buf_size_

\* What a call sets up before its first write.
StartCall(a, f, n) ==
  /\ call = "idle" /\ ~failed
  /\ wr_cont => async = a
  /\ async' = a /\ fin' = f /\ remain' = n
  /\ op' = IF wr_cont THEN "cont" ELSE "first"
  /\ limit' = IF wr_cont THEN limit
              ELSE IF wr_autofrag_ THEN wr_buf_size_ ELSE 0
  /\ UNCHANGED <<options, failed, last, open>>

\* write_frame; write is write_frame(true).
WriteFrame(f, n) ==
  /\ StartCall(FALSE, f, n)
  /\ IF wr_cont THEN UNCHANGED <<wr_autofrag, wr_size, wr_max>> ELSE WrPrepare
  /\ ~AnyParts /\ wr_autofrag' /\ ~wr_cont /\ ~f => n \in {0, wr_max'}
  /\ chunk' = wr_max'
  /\ call' = IF wr_autofrag' THEN "autofrag"
             ELSE IF role = "client" THEN "mask" ELSE "plain"
  /\ UNCHANGED wr_cont

\* async_write_frame: the constructor of write_frame_op.
AsyncWriteFrame(f, n) ==
  /\ StartCall(TRUE, f, n)
  /\ wr_cont' = ~f /\ chunk' = wr_buf_size_
  /\ call' = IF role = "client" THEN "mask" ELSE "plain"
  /\ UNCHANGED <<wr_autofrag, wr_size, wr_max>>

\* A frame with len bytes of payload begins.
BeginFrame(len, final) ==
  last' = [op |-> op, len |-> len] /\ open' = ~final

\* Fault: what is buffered already is not counted.
RoomWhole == wr_max

\* Bytes of a fragment that are still free.
Room == wr_max - wr_size

\* Less than a buffer, and not the end.
KeepForLater == ~fin /\ remain < Room

\* Fault: while(remain >= 0).
SendsAgain(r) == TRUE

\* The loop goes on while bytes remain.
Again(r) == r > 0

\* Fault: the opcode of the next fragment stays that of the first.
SameOp == op

\* Opcode of the fragments after the first.
NextOp == "cont"

\* detail::clamp(remain, max): bytes of the next masked piece.
PieceSize == Min2(remain, chunk)

\* Autofrag: copy the part to the buffer.
Buffer ==
  /\ call = "autofrag" /\ KeepForLater
  /\ wr_size' = wr_size + remain /\ remain' = 0 /\ call' = "idle"
  /\ UNCHANGED <<options, wr_cont, wr_autofrag, wr_max, failed, async, fin,
                 op, chunk, last, open, limit>>

\* Autofrag: a frame of what is buffered and as much as fits.
SendFragment ==
  /\ call = "autofrag" /\ ~KeepForLater
  /\ LET n     == Min2(remain, Room)
         final == fin /\ n = remain
     IN  /\ BeginFrame(wr_size + n, final)
         /\ remain' = remain - n /\ wr_size' = 0 /\ op' = NextOp
         /\ call' = IF Again(remain') THEN call ELSE "idle"
         /\ wr_cont' = IF Again(remain') THEN wr_cont ELSE ~final
  /\ UNCHANGED <<options, wr_autofrag, wr_max, failed, async, fin, chunk,
                 limit>>

\* Masked: the header and the first piece.
SendMasked ==
  /\ call = "mask"
  /\ BeginFrame(remain, fin)
  /\ wr_cont' = ~fin
  /\ remain' = remain - PieceSize
  /\ call' = IF Again(remain') THEN "pieces" ELSE "idle"
  /\ UNCHANGED <<options, wr_autofrag, wr_size, wr_max, failed, async, fin,
                 op, chunk, limit>>

\* Masked: another piece of the same frame.
SendPiece ==
  /\ call = "pieces"
  /\ remain' = remain - PieceSize
  /\ call' = IF Again(remain') THEN "pieces" ELSE "idle"
  /\ UNCHANGED <<options, wr_cont, wr_autofrag, wr_size, wr_max, failed, async,
                 fin, op, chunk, last, open, limit>>

\* Neither: header and buffers in one write.
SendPlain ==
  /\ call = "plain"
  /\ BeginFrame(remain, fin)
  /\ wr_cont' = ~fin /\ remain' = 0 /\ call' = "idle"
  /\ UNCHANGED <<options, wr_autofrag, wr_size, wr_max, failed, async, fin,
                 op, chunk, limit>>

\* The write fails and the call returns.
SendError ==
  /\ call # "idle"
  /\ ~(call = "autofrag" /\ KeepForLater)
  /\ failed' = TRUE /\ call' = "idle"
  /\ wr_cont' = IF call \in {"mask", "plain"} THEN ~fin ELSE wr_cont
  /\ UNCHANGED <<options, wr_autofrag, wr_size, wr_max, async, fin, remain,
                 op, chunk, last, open, limit>>

\* stream_base::open on a new connection.
Open ==
  /\ failed
  /\ failed' = FALSE /\ wr_cont' = FALSE /\ wr_size' = 0
  /\ role' \in {"client", "server"}
  /\ open' = FALSE /\ last' = [op |-> "none", len |-> 0]
  /\ UNCHANGED <<wr_autofrag_, wr_buf_size_, wr_autofrag, wr_max, call, async,
                 fin, remain, op, chunk, limit>>

Send == Buffer \/ SendFragment \/ SendMasked \/ SendPiece \/ SendPlain

Next ==
  \/ \E a \in BOOLEAN, b \in BufSizes : SetOption(a, b)
  \/ \E f \in BOOLEAN, n \in 0..MaxBytes : WriteFrame(f, n) \/ AsyncWriteFrame(f, n)
  \/ Send \/ SendError \/ Open

Spec == Init /\ [][Next]_vars

\* A blocking write returns; the loop of write_frame runs on.
FairSpec == Spec /\ WF_vars(Send)

-----------------------------------------------------------------------------
\* Types of the variables.
TypeOK ==
  /\ role \in {"client", "server"}
  /\ wr_autofrag_ \in BOOLEAN /\ wr_buf_size_ \in BufSizes /\ async \in BOOLEAN
  /\ wr_cont \in BOOLEAN /\ wr_autofrag \in BOOLEAN /\ failed \in BOOLEAN
  /\ wr_size \in Nat /\ wr_max \in Nat /\ chunk \in Nat
  /\ call \in {"idle", "autofrag", "mask", "pieces", "plain"}
  /\ fin \in BOOLEAN /\ remain \in 0..MaxBytes /\ op \in {"first", "cont"}
  /\ last \in [op : {"none", "first", "cont"}, len : Nat]
  /\ open \in BOOLEAN /\ limit \in {0} \cup BufSizes

\* wr_.buf is never written past its end, and every turn of the autofrag loop
\* has room for at least a byte (so it makes progress and the subtraction
\* wr_.max - wr_.size does not wrap).
BufferFits == call = "autofrag" => wr_size < wr_max

\* With automatic fragmentation no frame of a synchronous write is longer than
\* the write buffer was when its message began.
FrameBounded ==
  [][last' # last /\ ~async /\ limit # 0 => last'.len <= limit]_vars

\* Every write call returns.
CallReturns == (call # "idle") ~> (call = "idle")

\* The abstract state of WsMessages.
Left  == IF failed THEN 0
         ELSE wr_size + (IF call \in {"autofrag", "mask", "plain"} THEN remain ELSE 0)
Due   == IF call = "pieces" THEN remain ELSE 0
Ended == call \in {"autofrag", "mask", "plain"} /\ fin

\* The writer implements the abstract message stream: no byte is lost, kept
\* back past the end of its message or sent twice, and the frames' opcodes and
\* final bits tell the peer where messages begin and end.
Messages == INSTANCE WsMessages WITH
  left <- Left, due <- Due, ended <- Ended, last <- last.op, dead <- failed
MsgSpec == Messages!Spec

=============================================================================
