----------------------------- MODULE WsSession ------------------------------
(***************************************************************************)
(* An open connection from its first message to its end.  One end writes   *)
(* messages with write, async_write and write_frame, the other reads them  *)
(* with read and async_read, which are loops of read_frame, into one       *)
(* dynamic buffer.  Either end may tear the connection down at any time it *)
(* is not in a call, while the other one is still sending.                 *)
(*                                                                         *)
(* The payload is numbered pieces; a frame may be read in several pieces   *)
(* and may have none.                                                      *)
(***************************************************************************)
EXTENDS Integers, Sequences, SequencesExt

CONSTANTS MaxPieces,   \* bound on the pieces of payload
          MaxEmpty,    \* bound on the frames without payload
          MaxBack      \* bound on the frames the reading end sends back

ASSUME SessionAssumption == MaxPieces \in Nat /\ MaxEmpty \in Nat /\ MaxBack \in Nat

VARIABLES
  sent,   \* the messages written, the one being written, pieces and empty frames so far
  pipe,   \* the pieces on their way to the reading end
  back,   \* the frames on their way to the writing end, and those sent so far
  call,   \* the call of read
  ends,   \* each end's teardown: layer, state, result, whether it closed the socket
  cable   \* the connection is "up" or "cut"

sessvars == <<sent, pipe, back, call, ends, cable>>

Ends == {"writer", "reader"}
Other(e) == IF e = "writer" THEN "reader" ELSE "writer"

\* The teardowns of a TCP socket, and that of an ssl::stream.
Layers == {"tcp sync", "tcp async", "ssl"}

NoText == [op |-> "none", data |-> <<>>]

SessionInit ==
  /\ sent = [msgs |-> <<>>, open |-> NoText, pieces |-> 0, empty |-> 0]
  /\ pipe = <<>> /\ back = [now |-> 0, all |-> 0] /\ cable = "up"
  /\ call = [st |-> "idle", op |-> "none", buf |-> <<>>, from |-> 0, heard |-> <<>>]
  /\ \E layer \in Layers :
       ends = [e \in Ends |-> [layer |-> layer, st |-> "open", shut |-> FALSE,
                               ec |-> "none", closed |-> FALSE]]

Up(e) == cable = "up" /\ ends[e].st = "open"

-----------------------------------------------------------------------------
(* write_frame, write and async_write *)

\* The pieces a frame of op is read in; only the last one ends the message.
PiecesOf(op, data, fin) ==
  IF data = <<>> THEN <<[op |-> op, data |-> <<>>, fin |-> fin]>>
  ELSE [i \in DOMAIN data |-> [op |-> op, data |-> <<data[i]>>, fin |-> fin /\ i = Len(data)]]

\* message_type is set in turn to text and to binary.
NextOp == IF Len(sent.msgs) % 2 = 0 THEN "text" ELSE "binary"

\* A frame with n more pieces.  The opcode of a message is that of its first
\* frame.
WriteFrame(n, fin) ==
  LET data == [i \in 1 .. n |-> sent.pieces + i]
      text == [op |-> IF sent.open.op = "none" THEN NextOp ELSE sent.open.op,
               data |-> sent.open.data \o data]
  IN  /\ Up("writer")
      /\ sent.pieces + n <= MaxPieces /\ (n = 0 => sent.empty < MaxEmpty)
      /\ pipe' = pipe \o PiecesOf(text.op, data, fin)
      /\ sent' = [msgs |-> IF fin THEN Append(sent.msgs, text) ELSE sent.msgs,
                  open |-> IF fin THEN NoText ELSE text,
                  pieces |-> sent.pieces + n,
                  empty |-> IF n = 0 THEN sent.empty + 1 ELSE sent.empty]
      /\ UNCHANGED <<back, call, ends, cable>>

\* write and async_write send what is left of their buffers, that is all, in
\* one frame that ends the message, also one begun with write_frame.
WriteOp(n) == WriteFrame(n, TRUE)

-----------------------------------------------------------------------------
(* read and async_read *)

ReadOp ==
  /\ ends["reader"].st = "open" /\ call.st = "idle"
  /\ call' = [call EXCEPT !.st = "frame", !.from = Len(call.buf)]
  /\ UNCHANGED <<sent, pipe, back, ends, cable>>

\* Fault: the end of a frame is taken for the end of the message.
AnyFrameEnds(fi) == fi.data # <<>>

EndsMessage(fi) == fi.fin

\* read_frame has returned one piece and the info of its frame.
GotFrame ==
  /\ call.st = "frame" /\ pipe # <<>> /\ pipe' = Tail(pipe)
  /\ LET buf == call.buf \o pipe[1].data
         text == [op |-> pipe[1].op, data |-> SubSeq(buf, call.from + 1, Len(buf))]
     IN  call' = [call EXCEPT !.op = pipe[1].op, !.buf = buf,
                              !.st = IF EndsMessage(pipe[1]) THEN "done" ELSE "frame",
                              !.heard = IF EndsMessage(pipe[1]) THEN Append(@, text) ELSE @]
  /\ UNCHANGED <<sent, back, ends, cable>>

\* The error of read_frame is the caller's, what was read stays in its buffer.
ReadFails ==
  /\ call.st = "frame" /\ (cable = "cut" \/ (pipe = <<>> /\ ends["writer"].shut))
  /\ call' = [call EXCEPT !.st = "failed"]
  /\ UNCHANGED <<sent, pipe, back, ends, cable>>

\* The caller consumes the message, or has the next one appended to it.
Take ==
  /\ call.st = "done"
  /\ \E buf \in {<<>>, call.buf} : call' = [call EXCEPT !.st = "idle", !.buf = buf]
  /\ UNCHANGED <<sent, pipe, back, ends, cable>>

\* A pong, or the close frame, of the reading end.
SendBack ==
  /\ Up("reader") /\ back.all < MaxBack
  /\ back' = [now |-> back.now + 1, all |-> back.all + 1]
  /\ UNCHANGED <<sent, pipe, call, ends, cable>>

\* A frame the writing end reads.
TakeBack ==
  /\ Up("writer") /\ back.now > 0 /\ back' = [back EXCEPT !.now = @ - 1]
  /\ UNCHANGED <<sent, pipe, call, ends, cable>>

Cut ==
  /\ cable = "up" /\ cable' = "cut" /\ UNCHANGED <<sent, pipe, back, call, ends>>

-----------------------------------------------------------------------------
(* teardown *)

\* What has not been read at an end.
Unread(e) == IF e = "reader" THEN pipe # <<>> ELSE back.now > 0

\* Fault: only the reading side is given up.
TeardownOpen(e) ==
  /\ ends[e].st = "open" /\ (e = "reader" => call.st \in {"idle", "failed"})
  /\ ends' = [ends EXCEPT ![e].st = "drain"]
  /\ UNCHANGED <<sent, pipe, back, call, cable>>

\* shutdown(shutdown_send), or the close_notify of an ssl::stream.
Teardown(e) ==
  /\ ends[e].st = "open" /\ (e = "reader" => call.st \in {"idle", "failed"})
  /\ ends' = [ends EXCEPT ![e].st = "drain", ![e].shut = TRUE]
  /\ UNCHANGED <<sent, pipe, back, call, cable>>

\* What still arrives is read and dropped.
Drain(e) ==
  /\ ends[e].st = "drain" /\ cable = "up" /\ Unread(e)
  /\ IF e = "reader" THEN pipe' = Tail(pipe) /\ UNCHANGED back
     ELSE back' = [back EXCEPT !.now = @ - 1] /\ UNCHANGED pipe
  /\ UNCHANGED <<sent, call, ends, cable>>

TornDown(e, ec, closed) ==
  /\ ends' = [ends EXCEPT ![e].st = "ended", ![e].ec = ec, ![e].closed = closed]
  /\ UNCHANGED <<sent, pipe, back, call, cable>>

\* Fault: the socket is closed without waiting for the end of the stream.
TcpEofEarly(e) == ends[e].layer # "ssl" /\ ends[e].st = "drain" /\ TornDown(e, "ok", TRUE)

\* The end of the stream: the socket is closed and the error with it gone.
TcpEof(e) ==
  /\ ends[e].layer # "ssl" /\ ends[e].st = "drain" /\ cable = "up"
  /\ ~Unread(e) /\ ends[Other(e)].shut
  /\ TornDown(e, "ok", TRUE)

\* Any other error: the synchronous teardown closes the socket, and with it
\* overwrites the error; the asynchronous one reports it and does not close.
TcpError(e) ==
  /\ ends[e].layer # "ssl" /\ ends[e].st = "drain" /\ cable = "cut"
  /\ IF ends[e].layer = "tcp sync" THEN TornDown(e, "ok", TRUE) ELSE TornDown(e, "error", FALSE)

\* The shutdown of the ssl::stream has ended; its error is passed on, eof when
\* both ends have called it, and the socket below is left to its owner.
SslShutdown(e) ==
  /\ ends[e].layer = "ssl" /\ ends[e].st = "drain"
  /\ \/ cable = "cut" /\ TornDown(e, "error", FALSE)
     \/ cable = "up" /\ ~Unread(e) /\ ends[Other(e)].shut /\ TornDown(e, "eof", FALSE)

-----------------------------------------------------------------------------
SessionStep ==
  \/ GotFrame \/ ReadFails \/ \E e \in Ends : Drain(e) \/ TcpEof(e) \/ TcpError(e) \/ SslShutdown(e)

SessionNext ==
  \/ SessionStep \/ ReadOp \/ Take \/ SendBack \/ TakeBack \/ Cut
  \/ \E e \in Ends : Teardown(e)
  \/ \E n \in 0 .. 2 : WriteFrame(n, FALSE) \/ WriteOp(n)

\* There is no connection.
SessionIdle ==
  /\ sent = [msgs |-> <<>>, open |-> NoText, pieces |-> 0, empty |-> 0]
  /\ pipe = <<>> /\ back = [now |-> 0, all |-> MaxBack] /\ cable = "cut"
  /\ call = [st |-> "failed", op |-> "none", buf |-> <<>>, from |-> 0, heard |-> <<>>]
  /\ ends = [e \in Ends |-> [layer |-> "ssl", st |-> "ended",
                             shut |-> TRUE, ec |-> "error", closed |-> FALSE]]

-----------------------------------------------------------------------------
\* A read that succeeds has appended exactly one message, the next one, to
\* what was in the buffer, with the opcode of its first frame, however the
\* message was cut into frames and pieces and whether or not frames of it are
\* empty; one that fails or is under way has appended a part of one message.
ReadIsMessage ==
  LET rest == sent.msgs \o (IF sent.open.op = "none" THEN <<>> ELSE <<sent.open>>)
      k == Len(call.heard)
      part == SubSeq(call.buf, call.from + 1, Len(call.buf))
  IN  /\ IsPrefix(call.heard, sent.msgs)
      /\ call.st \in {"frame", "failed"} /\ part # <<>> =>
           k < Len(rest) /\ IsPrefix(part, rest[k + 1].data) /\ call.op = rest[k + 1].op

\* Teardown closes a socket only when the other end has shut its sending side
\* down and all it sent has been taken, so that no reset destroys what the
\* other end has still to read, unless the connection is lost; success means
\* just that, except that the synchronous teardown reports it in any case.
TeardownIsClean ==
  \A e \in Ends : cable = "up" /\ (ends[e].closed \/ ends[e].ec = "ok") =>
    ends[Other(e)].shut /\ ~Unread(e) /\ ends[e].shut

\* When both ends tear the connection down, both teardowns end.
TeardownEnds ==
  (\A e \in Ends : ends[e].st # "open") ~> (\A e \in Ends : ends[e].st = "ended")

=============================================================================
