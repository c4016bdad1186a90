------------------------------ MODULE WsStream ------------------------------
(***************************************************************************)
(* The asynchronous half of beast::websocket::stream after the handshake:  *)
(* one read operation (read_frame_op) and one write operation              *)
(* (write_frame_op, ping_op or close_op) share the connection through      *)
(* wr_block_, wr_close_, failed_ and the two parking places rd_op_/wr_op_. *)
(*                                                                         *)
(* An operation is one object whose operator() runs to its next            *)
(* asynchronous call; each such run is one action.  The control state of   *)
(* an operation is the case label at which its pending handler resumes.    *)
(* Payload bytes are abstracted to counts; which frames are malformed is   *)
(* left to the peer (WsReader decides it from the header fields).          *)
(*                                                                         *)
(* A definition whose comment begins with "Fault:" is a plausible slip in  *)
(* the definition after it; no specification uses it.  The properties are  *)
(* tested by putting it in the place of that definition.                   *)
(***************************************************************************)
EXTENDS Naturals

CONSTANTS
  MaxNeed,     \* bound on the payload bytes of one received data frame
  MaxPieces,   \* bound on the async_writes one masked data frame needs
  Callers      \* the disciplines of a caller that are examined

ASSUME BoundsAssumption == MaxNeed \in Nat /\ MaxPieces \in Nat \ {0}
ASSUME CallerAssumption == Callers \subseteq {"deferred", "eager", "any"}

VARIABLES
  caller,    \* discipline of this stream's caller, fixed when it is opened:
             \*   "deferred": one thread runs the io_service and the next write
             \*     is started from a handler the caller posts itself,
             \*   "eager": one thread, writes also straight from a completion,
             \*   "any": a strand over many threads, writes at any moment
  rd,        \* state of the read_frame_op, "idle" when there is none
  rd_fh,     \* rd_fh_.op: class of the frame header read last
  rd_need,   \* rd_need_: bytes left of the data frame being received
  rd_ec,     \* error code the last read handler was called with
  cr,        \* cr_: has a well-formed close frame been received
  rd_op,     \* rd_op_ holds a parked read operation
  wop,       \* class of the write operation, "none" when there is none
  wr,        \* state of the write operation, "idle" when there is none
  fh_cont,   \* its data frame header: is it a continuation,
  fh_fin,    \*   is it the last of its message
  pieces,    \* async_writes it still needs after the one in flight
  wr_cont,   \* wr_.cont: next data frame is a continuation
  wr_op,     \* wr_op_ holds a parked write operation
  wr_block,  \* wr_block_: operation that owns the outgoing half, or "none"
  wr_close,  \* wr_close_: a close frame was put on the wire
  failed,    \* failed_: the connection failed
  sock,      \* next layer: "open", "shut" (send side down), "closed"
  wire_cont  \* a message was begun on the wire and its last frame was not

rdvars == <<rd_fh, rd_need, cr>>
wrvars == <<wop, fh_cont, fh_fin, pieces, wr_cont, wire_cont>>
vars == <<rd, rd_ec, rd_op, rdvars, wr, wr_op, wrvars,
          wr_block, wr_close, failed, sock, caller>>

-----------------------------------------------------------------------------
RdReading  == {"read_fh", "read_fh2", "read_control", "read_payload"}
RdWriting  == {"pong_write", "close_write", "fail_write"}
RdTeardown == {"close_teardown", "fail_teardown"}
RdParked   == {"pong_parked", "close_parked", "fail_parked"}
RdPosted   == {"pong_posted", "close_posted", "fail_posted"}
RdStates   == {"idle", "abort"} \cup RdReading \cup RdWriting
                \cup RdTeardown \cup RdParked \cup RdPosted
WrStates   == {"idle", "abort", "parked", "posted", "write"}
Control    == {"ping", "pong", "close"}
Opcodes    == {"data"} \cup Control
Results    == {"none", "ok", "error", "aborted", "closed", "failed"}

\* The state open(role) leaves the stream in when the handshake succeeds.
Init ==
  /\ caller \in Callers
  /\ rd = "idle" /\ rd_fh = "data" /\ rd_need = 0 /\ rd_ec = "none"
  /\ cr = FALSE /\ rd_op = FALSE
  /\ wop = "none" /\ wr = "idle" /\ pieces = 0 /\ wr_op = FALSE
  /\ fh_cont = FALSE /\ fh_fin = TRUE
  /\ wr_cont = FALSE /\ wire_cont = FALSE
  /\ wr_block = "none" /\ wr_close = FALSE /\ failed = FALSE
  /\ sock = "open"

(***************************************************************************)
(* Order of handlers.  A parked operation is resumed by io_service::post.  *)
(* At that moment the other operation has just completed, so everything it *)
(* starts later is queued behind the resumed handler: on one thread the    *)
(* resumed handler runs first.                                             *)
(***************************************************************************)
Fifo == caller # "any"
DeferWrites == caller = "deferred"

RdMayRun == Fifo => wr # "posted"
WrMayRun == Fifo => rd \notin RdPosted

-----------------------------------------------------------------------------
(* Pieces of read_frame_op::operator().  Each says what becomes of         *)
(* rd, rd_ec, rd_op, wr, wr_op, wr_block, wr_close, failed and sock, but   *)
(* for what its comment leaves to the caller.                              *)

\* Fault: the block is released whoever owns it.
ReadUpcallAnyBlock(ec) ==
  /\ rd' = "idle" /\ rd_ec' = ec
  /\ wr_block' = "none"
  /\ wr_op' = FALSE
  /\ wr' = IF wr_op THEN "posted" ELSE wr
  /\ UNCHANGED <<rd_op, wr_close>>

\* Fault: wr_op_.maybe_invoke() is forgotten.
ReadUpcallNoWake(ec) ==
  /\ rd' = "idle" /\ rd_ec' = ec
  /\ wr_block' = IF wr_block = "R" THEN "none" ELSE wr_block
  /\ UNCHANGED <<rd_op, wr, wr_op, wr_close>>

\* The label upcall: release the block, wake a parked write, call the handler.
\* failed and sock are left to the caller.
ReadUpcall(ec) ==
  /\ rd' = "idle" /\ rd_ec' = ec
  /\ wr_block' = IF wr_block = "R" THEN "none" ELSE wr_block
  /\ wr_op' = FALSE
  /\ wr' = IF wr_op THEN "posted" ELSE wr
  /\ UNCHANGED <<rd_op, wr_close>>

\* The operation waits for another asynchronous call; nothing else changes.
ReadWait(state) ==
  /\ rd' = state
  /\ UNCHANGED <<rd_ec, rd_op, wr, wr_op, wr_block, wr_close, failed, sock>>

\* rd_op_.emplace: suspend until the write operation in progress completes.
ReadPark(state) ==
  /\ rd' = state /\ rd_op' = TRUE
  /\ UNCHANGED <<rd_ec, wr, wr_op, wr_block, wr_close, failed, sock>>

\* wr_block_ = &d and async_write of the control frame held in d.fb;
\* wr_close and failed are left to the caller.
ReadWrite(state) ==
  /\ rd' = state /\ wr_block' = "R"
  /\ UNCHANGED <<rd_ec, rd_op, wr, wr_op, sock>>

DoPong ==
  \/ /\ wr_close
     /\ ReadWait("read_fh")
  \/ /\ ~wr_close
     /\ ReadWrite("pong_write")
     /\ UNCHANGED <<wr_close, failed>>

DoClose ==
  /\ ReadWrite("close_write")
  /\ wr_close' = TRUE
  /\ UNCHANGED failed

SendFailClose ==
  /\ ReadWrite("fail_write")
  /\ wr_close' = TRUE
  /\ failed' = TRUE

\* teardown_tcp_op: shutdown_send succeeded, drain the next layer.
Teardown(state) ==
  /\ rd' = state /\ sock' = "shut"
  /\ UNCHANGED <<rd_ec, rd_op, wr, wr_op, wr_block, wr_close, failed>>

\* call_async_teardown; when shutdown_send fails the handler runs at once.
CallTeardown(state) ==
  \/ Teardown(state)
  \/ ReadUpcall("error") /\ UNCHANGED <<failed, sock>>

\* do_fail: the peer broke the protocol.
DoFail ==
  \/ /\ wr_close
     /\ CallTeardown("fail_teardown")
  \/ /\ ~wr_close
     /\ wr_block # "none"
     /\ ReadPark("fail_parked")
  \/ /\ ~wr_close
     /\ wr_block = "none"
     /\ SendFailClose

\* do_control for a ping: answer it, unless a close frame was sent already.
DoPing ==
  \/ /\ wr_close
     /\ ReadWait("read_fh")
  \/ /\ ~wr_close
     /\ wr_block # "none"
     /\ ReadPark("pong_parked")
  \/ /\ ~wr_close
     /\ wr_block = "none"
     /\ DoPong

\* do_control for a close frame whose payload is well formed.
DoReceivedClose ==
  \/ /\ wr_close
     /\ ReadUpcall("closed")
     /\ UNCHANGED <<failed, sock>>
  \/ /\ ~wr_close
     /\ wr_block # "none"
     /\ ReadPark("close_parked")
  \/ /\ ~wr_close
     /\ wr_block = "none"
     /\ DoClose

\* Fault: the code detail::read(cr_, ...) returns is ignored.
DoControlAnyCode(op) ==
  \/ op = "ping" /\ DoPing /\ UNCHANGED cr
  \/ op = "pong" /\ ReadWait("read_fh") /\ UNCHANGED cr
  \/ op = "close" /\ DoReceivedClose /\ cr' \in BOOLEAN

DoControl(op) ==
  \/ op = "ping" /\ DoPing /\ UNCHANGED cr
  \/ op = "pong" /\ ReadWait("read_fh") /\ UNCHANGED cr
  \/ op = "close" /\ DoReceivedClose /\ cr' = TRUE
  \/ op = "close" /\ DoFail /\ UNCHANGED cr

\* do_read_fh + 2: the header is complete; read_fh2 may still reject it.
HeaderDone(op) ==
  \/ DoFail /\ UNCHANGED <<rd_need, cr>>
  \/ /\ op \in Control
     /\ UNCHANGED rd_need
     /\ \/ ReadWait("read_control") /\ UNCHANGED cr
        \/ DoControl(op)
  \/ /\ op = "data"
     /\ UNCHANGED cr
     /\ \/ \E n \in 1..MaxNeed : rd_need' = n /\ ReadWait("read_payload")
        \/ rd_need' = 0 /\ ReadUpcall("ok") /\ UNCHANGED <<failed, sock>>

-----------------------------------------------------------------------------
(* The read operation, handler by handler.                                 *)

\* async_read_frame: the constructor runs do_start.
AsyncRead ==
  /\ rd = "idle"
  /\ \/ failed /\ ReadWait("abort")
     \/ ~failed /\ rd_need > 0 /\ ReadWait("read_payload")
     \/ ~failed /\ rd_need = 0 /\ ReadWait("read_fh")
  /\ UNCHANGED <<rdvars, wrvars>>

\* do_call_handler with operation_aborted.
OnReadAbort ==
  /\ RdMayRun /\ rd = "abort"
  /\ failed' = TRUE /\ ReadUpcall("aborted") /\ UNCHANGED sock
  /\ UNCHANGED <<rdvars, wrvars>>

\* An asynchronous read or write of the operation completed with an error.
OnReadError ==
  /\ RdMayRun /\ rd \in RdReading \cup RdWriting
  /\ failed' = TRUE /\ ReadUpcall("error") /\ UNCHANGED sock
  /\ UNCHANGED <<rdvars, wrvars>>

\* do_read_fh + 1: two bytes arrived.
OnReadFh1 ==
  /\ RdMayRun /\ rd = "read_fh"
  /\ \E op \in Opcodes :
       /\ rd_fh' = op
       /\ \/ DoFail /\ UNCHANGED <<rd_need, cr>>
          \/ ReadWait("read_fh2") /\ UNCHANGED <<rd_need, cr>>
          \/ HeaderDone(op)
  /\ UNCHANGED wrvars

OnReadFh2 ==
  /\ RdMayRun /\ rd = "read_fh2"
  /\ HeaderDone(rd_fh)
  /\ UNCHANGED <<rd_fh, wrvars>>

\* do_control_payload.
OnReadControl ==
  /\ RdMayRun /\ rd = "read_control"
  /\ DoControl(rd_fh)
  /\ UNCHANGED <<rd_fh, rd_need, wrvars>>

\* do_read_payload + 1: n bytes of the frame; invalid utf8 fails the stream.
OnReadPayload ==
  /\ RdMayRun /\ rd = "read_payload"
  /\ \E n \in 1..rd_need :
       /\ rd_need' = rd_need - n
       /\ \/ DoFail
          \/ rd_need > n /\ ReadWait("read_payload")
          \/ rd_need = n /\ ReadUpcall("ok") /\ UNCHANGED <<failed, sock>>
  /\ UNCHANGED <<rd_fh, cr, wrvars>>

\* do_pong_resume + 1.
OnPongResume ==
  /\ rd = "pong_posted"
  /\ \/ failed /\ ReadUpcall("aborted") /\ UNCHANGED <<failed, sock>>
     \/ ~failed /\ DoPong
  /\ UNCHANGED <<rdvars, wrvars>>

\* do_close_resume + 1.
OnCloseResume ==
  /\ rd = "close_posted"
  /\ \/ failed /\ ReadUpcall("aborted") /\ UNCHANGED <<failed, sock>>
     \/ ~failed /\ wr_close /\ ReadUpcall("closed") /\ UNCHANGED <<failed, sock>>
     \/ ~failed /\ ~wr_close /\ DoClose
  /\ UNCHANGED <<rdvars, wrvars>>

\* do_fail + 3.
OnFailResume ==
  /\ rd = "fail_posted"
  /\ \/ failed /\ ReadUpcall("failed") /\ UNCHANGED <<failed, sock>>
     \/ ~failed /\ SendFailClose
  /\ UNCHANGED <<rdvars, wrvars>>

\* do_pong + 1: the pong was sent.  A parked write is not woken here.
OnPongWritten ==
  /\ RdMayRun /\ rd = "pong_write"
  /\ rd' = "read_fh" /\ wr_block' = "none"
  /\ UNCHANGED <<rd_ec, rd_op, wr, wr_op, wr_close, failed, sock>>
  /\ UNCHANGED <<rdvars, wrvars>>

\* do_close + 1 and do_fail + 4: the close frame was sent.
OnCloseWritten ==
  /\ RdMayRun
  /\ \/ rd = "close_write" /\ CallTeardown("close_teardown")
     \/ rd = "fail_write" /\ CallTeardown("fail_teardown")
  /\ UNCHANGED <<rdvars, wrvars>>

\* The teardown reached end of file and closed the next layer, or failed;
\* do_close + 2 and do_fail + 5 call the handler.
OnTeardown ==
  /\ RdMayRun /\ rd \in RdTeardown
  /\ \/ /\ sock' = "closed"
        /\ ReadUpcall(IF rd = "close_teardown" THEN "closed" ELSE "failed")
     \/ /\ UNCHANGED sock
        /\ ReadUpcall("error")
  /\ UNCHANGED <<failed, rdvars, wrvars>>

-----------------------------------------------------------------------------
(* The write operation.                                                    *)

\* Fault: rd_op_.maybe_invoke() is forgotten.
WriteUpcallNoWake ==
  /\ wr' = "idle" /\ wop' = "none"
  /\ wr_block' = IF wr_block = "W" THEN "none" ELSE wr_block
  /\ UNCHANGED <<rd, rd_op, rd_ec, wr_op, fh_cont, fh_fin, pieces, wr_cont,
                 wire_cont, wr_close, sock>>

\* The label upcall of write_frame_op, ping_op and close_op: release the
\* block, wake a parked read (it posts itself), call the handler.
WriteUpcall ==
  /\ wr' = "idle" /\ wop' = "none"
  /\ wr_block' = IF wr_block = "W" THEN "none" ELSE wr_block
  /\ rd_op' = FALSE
  /\ rd' = IF ~rd_op THEN rd
           ELSE CASE rd = "pong_parked"  -> "pong_posted"
                  [] rd = "close_parked" -> "close_posted"
                  [] rd = "fail_parked"  -> "fail_posted"
                  [] OTHER -> rd
  /\ UNCHANGED <<rd_ec, wr_op, fh_cont, fh_fin, pieces, wr_cont, wire_cont,
                 wr_close, sock>>

\* case 1: wr_block_ = &d and async_write of the (first piece of the) frame.
StartWrite(kind, fin) ==
  /\ wr' = "write" /\ wr_block' = "W"
  /\ wr_close' = (wr_close \/ kind = "close")
  /\ wire_cont' = IF kind = "frame" THEN ~fin ELSE wire_cont
  /\ UNCHANGED <<rd, rd_ec, rd_op, wr_op, failed, sock>>

\* Fault: wr_close_ is not examined.
AsyncWriteAnyClose(kind) ==
  /\ wr = "idle" /\ wr_block = "none" /\ ~failed
  /\ DeferWrites => rd \notin RdPosted
  /\ wop' = kind /\ pieces' = 0
  /\ fh_cont' = (kind = "frame" /\ wr_cont)
  /\ fh_fin' = TRUE
  /\ wr_cont' = IF kind = "frame" THEN FALSE ELSE wr_cont
  /\ StartWrite(kind, TRUE)
  /\ UNCHANGED rdvars

\* write_frame_op, ping_op or close_op: the constructor and case 0.
AsyncWrite(kind) ==
  /\ wr = "idle"
  /\ DeferWrites => rd \notin RdPosted
  /\ wop' = kind
  /\ \E fin \in BOOLEAN, n \in 0..MaxPieces - 1 :
       /\ kind # "frame" => fin /\ n = 0
       /\ fh_cont' = (kind = "frame" /\ wr_cont)
       /\ fh_fin' = fin
       /\ pieces' = n
       /\ wr_cont' = IF kind = "frame" THEN ~fin ELSE wr_cont
       /\ \/ /\ wr_block # "none"
             /\ wr' = "parked" /\ wr_op' = TRUE
             /\ UNCHANGED <<rd, rd_ec, rd_op, wr_block, wr_close, failed,
                            sock, wire_cont>>
          \/ /\ wr_block = "none" /\ (failed \/ wr_close)
             /\ wr' = "abort"
             /\ UNCHANGED <<rd, rd_ec, rd_op, wr_op, wr_block, wr_close,
                            failed, sock, wire_cont>>
          \/ /\ wr_block = "none" /\ ~failed /\ ~wr_close
             /\ StartWrite(kind, fin)
  /\ UNCHANGED rdvars

\* Fault: the resumed operation does not examine wr_close_ again.
OnWriteResumeAnyClose ==
  /\ wr = "posted"
  /\ \/ failed /\ WriteUpcall /\ UNCHANGED failed
     \/ /\ ~failed
        /\ StartWrite(wop, fh_fin)
        /\ UNCHANGED <<wop, fh_cont, fh_fin, pieces, wr_cont>>
  /\ UNCHANGED rdvars

\* case 4 (case 3 of ping_op and close_op): the parked operation runs again.
OnWriteResume ==
  /\ wr = "posted"
  /\ \/ (failed \/ wr_close) /\ WriteUpcall /\ UNCHANGED failed
     \/ /\ ~failed /\ ~wr_close
        /\ StartWrite(wop, fh_fin)
        /\ UNCHANGED <<wop, fh_cont, fh_fin, pieces, wr_cont>>
  /\ UNCHANGED rdvars

\* case 2: more masked payload follows; case 99: the frame is complete.
OnWritten ==
  /\ WrMayRun /\ wr = "write"
  /\ \/ /\ pieces > 0
        /\ pieces' = pieces - 1
        /\ UNCHANGED <<rd, rd_ec, rd_op, wr, wr_op, wop, fh_cont, fh_fin,
                       wr_cont, wire_cont, wr_block, wr_close, sock>>
     \/ /\ pieces = 0
        /\ WriteUpcall
  /\ UNCHANGED <<failed, rdvars>>

OnWriteError ==
  /\ WrMayRun /\ wr = "write"
  /\ failed' = TRUE /\ WriteUpcall
  /\ UNCHANGED rdvars

OnWriteAbort ==
  /\ WrMayRun /\ wr = "abort"
  /\ WriteUpcall
  /\ UNCHANGED <<failed, rdvars>>

-----------------------------------------------------------------------------
AsyncWriteFrame == AsyncWrite("frame")
AsyncPing       == AsyncWrite("ping")
AsyncClose      == AsyncWrite("close")

Caller == AsyncRead \/ AsyncWriteFrame \/ AsyncPing \/ AsyncClose

ReadResume == OnPongResume \/ OnCloseResume \/ OnFailResume

ReadHandler ==
  \/ OnReadAbort \/ OnReadError
  \/ OnReadFh1 \/ OnReadFh2 \/ OnReadControl \/ OnReadPayload
  \/ OnPongWritten \/ OnCloseWritten \/ OnTeardown
  \/ ReadResume

WriteHandler == OnWriteResume \/ OnWritten \/ OnWriteError \/ OnWriteAbort

Next == (Caller \/ ReadHandler \/ WriteHandler) /\ UNCHANGED caller

Spec == Init /\ [][Next]_vars

(***************************************************************************)
(* The io_service runs every handler it holds, and the transport finishes  *)
(* every write it accepted.  A received byte is the peer's choice, but in  *)
(* FairSpec the peer keeps sending (or the connection breaks).             *)
(***************************************************************************)
Fairness ==
  /\ WF_vars(WriteHandler /\ UNCHANGED caller)
  /\ WF_vars(ReadHandler /\ UNCHANGED caller)

FairSpec == Spec /\ Fairness

-----------------------------------------------------------------------------
(* What the outgoing half of the connection shows to the peer.  Nothing is *)
(* said of it when handlers run in no order (see AssertWrBlock).           *)
WireCur ==
  IF ~Fifo THEN "none"
  ELSE IF wr = "write" THEN IF wop # "frame" THEN wop
                            ELSE IF fh_cont THEN "cont" ELSE "first"
  ELSE IF rd = "pong_write" THEN "pong"
  ELSE IF rd \in {"close_write", "fail_write"} THEN "close"
  ELSE "none"

WireClosed == Fifo /\ wr_close
WireMid == Fifo /\ wire_cont

Wire == INSTANCE WsWire WITH cur <- WireCur, closed <- WireClosed, mid <- WireMid

\* The outgoing half is a legal WebSocket frame stream (WsWire): frames never
\* overlap although two operations write, fragments follow their first frame,
\* and nothing is begun after a close frame.
WireSpec == Wire!Spec

CountsOK ==
  /\ rd_need \in 0..MaxNeed
  /\ pieces \in 0..MaxPieces - 1

StatesOK ==
  /\ rd \in RdStates /\ rd_fh \in Opcodes /\ rd_ec \in Results
  /\ wr \in WrStates /\ wop \in {"none", "frame", "ping", "close"}
  /\ wr_block \in {"none", "R", "W"} /\ sock \in {"open", "shut", "closed"}

FlagsOK ==
  /\ cr \in BOOLEAN /\ rd_op \in BOOLEAN /\ wr_op \in BOOLEAN
  /\ fh_cont \in BOOLEAN /\ fh_fin \in BOOLEAN
  /\ wr_cont \in BOOLEAN /\ wire_cont \in BOOLEAN
  /\ wr_close \in BOOLEAN /\ failed \in BOOLEAN

\* Types of the variables.
TypeOK == CountsOK /\ StatesOK /\ FlagsOK

\* Whoever has an async_write outstanding owns wr_block_, so the reader's
\* control frames never overlap the caller's frames on the next layer.
WriteExclusive ==
  Fifo => /\ wr = "write" => wr_block = "W"
          /\ rd \in RdWriting => wr_block = "R"

\* A suspended read is held by rd_op_ exactly while the write operation that
\* will invoke rd_op_ is in flight: the wake-up cannot be lost, and emplace
\* never meets an engaged rd_op_.
ParkedReadHasWaker == (rd_op <=> rd \in RdParked) /\ (rd_op => wr = "write")

\* A suspended write is held by wr_op_ exactly while a read operation is under
\* way that is not itself suspended: the two never wait for each other.
ParkedWriteHasWaker ==
  /\ wr_op <=> wr = "parked"
  /\ wr_op => rd \notin {"idle", "abort"} \cup RdParked \cup RdPosted

\* error::closed is reported only when the close frames of both ends exist.
ClosedIsAgreed == rd_ec = "closed" => cr /\ wr_close

WriteBegins == (wr # "write" /\ wr' = "write") \/ (rd # rd' /\ rd' \in RdWriting)

\* Once teardown shut the sending side of the next layer down, no operation
\* begins another frame, also when the caller keeps starting operations.
TeardownQuiet == [][sock # "open" => ~WriteBegins]_vars

\* A read suspended behind a write is eventually resumed and answers the
\* control frame it holds (or learns that the connection failed).
ParkedReadResumes == rd \in RdParked ~> rd \notin RdParked \cup RdPosted

\* While handlers run in order, BOOST_ASSERT(! wr_block_) in front of
\* every async_write of a frame holds.
AssertWrBlock == [][Fifo /\ WriteBegins => wr_block = "none"]_vars

\* BOOST_ASSERT(! wr_close_): a stream puts one close frame on the wire.
CloseFrameOnce ==
  [][Fifo /\ rd # rd' /\ rd' \in {"close_write", "fail_write"} => ~wr_close]_vars

\* Frames are begun in turn: none while another is being written, no second
\* close frame, and none once teardown has begun.
FramesInTurn == AssertWrBlock /\ CloseFrameOnce /\ TeardownQuiet

\* A write started while the reader answers a ping is managed transparently:
\* it is eventually sent, whatever else the peer sends.
ParkedWriteResumes == wr = "parked" ~> wr # "parked"

-----------------------------------------------------------------------------
(* The inductive invariant for a caller that defers its writes on one      *)
(* thread (caller = "deferred").                                           *)

\* wr_block_ names the operation with the outstanding write, except that the
\* reader keeps it through the teardown that follows its own close frame.
BlockInv ==
  /\ wr_block = "W" <=> wr = "write"
  /\ rd \in RdWriting => wr_block = "R"
  /\ wr_block = "R" => rd \in RdWriting \cup RdTeardown
  /\ wop = "none" <=> wr = "idle"

\* Between the post that resumes an operation and the resumed handler the
\* other operation holds nothing and is not waiting.
ResumeInv ==
  /\ rd \in RdPosted => wr = "idle"
  /\ wr = "posted" => rd \in {"idle", "abort", "read_fh", "read_payload"}
  /\ rd \in RdParked \cup RdPosted => ~wr_close

\* What is known of the closing handshake in each state of the reader.
CloseInv ==
  /\ rd \in {"close_parked", "close_posted", "close_write", "close_teardown"} => cr
  /\ rd \in {"close_write", "fail_write"} \cup RdTeardown => wr_close
  /\ sock # "open" => wr_close
  /\ ClosedIsAgreed

\* wr_.cont agrees with the wire until the stream stops sending data frames.
ContInv ==
  /\ wr = "abort" => failed \/ wr_close
  /\ ~failed /\ ~wr_close =>
       IF wop = "frame" /\ wr \in {"parked", "posted"}
       THEN fh_cont = wire_cont /\ wr_cont = ~fh_fin
       ELSE wr_cont = wire_cont

ControlInv ==
  /\ StatesOK /\ FlagsOK /\ BlockInv
  /\ ParkedReadHasWaker /\ ParkedWriteHasWaker
  /\ ResumeInv /\ CloseInv /\ ContInv

IInv == CountsOK /\ ControlInv

-----------------------------------------------------------------------------
(* The part of it that every caller keeps, on one thread or on many.       *)

\* What wr_block_ still means when handlers run in no order: it names an
\* operation that is writing (or tearing down), though not each of them.
OwnerInv ==
  /\ wr_block = "W" => wr = "write"
  /\ wr_block = "R" => rd \in RdWriting \cup RdTeardown

\* A read is suspended and resumed only before teardown.
ResumeBeforeTeardown == rd \in RdParked \cup RdPosted => sock = "open"

EveryControlInv ==
  /\ StatesOK /\ FlagsOK /\ OwnerInv
  /\ ParkedReadHasWaker /\ ParkedWriteHasWaker
  /\ CloseInv /\ ResumeBeforeTeardown

EveryInv == CountsOK /\ EveryControlInv

=============================================================================
