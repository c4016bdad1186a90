----------------------------- MODULE HttpWriter -----------------------------
(***************************************************************************)
(* Writing an HTTP/1 message: write(), async_write() and operator<<        *)
(* (http/impl/write.ipp).                                                  *)
(*                                                                         *)
(* A message body is produced by a Writer that may give the body in any    *)
(* number of pieces, fail, or suspend the operation until it calls the     *)
(* resume context it was lent.  The serialized message is the sequence of  *)
(* its parts: the header, and pieces of the body, raw or as chunks, each   *)
(* with its place in the body and its number of octets.                    *)
(***************************************************************************)
EXTENDS HttpPrepare

CONSTANT BufLen  \* size of the buffer of file_body

ASSUME BufAssumption == BufLen \in Nat \ {0}

VARIABLES
  how,    \* "sync", "async" or "ostream": the call that was made
  msg,    \* the message being written
  st,     \* where the operation is, "idle" before it starts
  sb,     \* wp.sb: the serialized header is in the buffer
  left,   \* octets the Writer has not given yet
  copy,   \* copy: holds a resume context that can be lent to the Writer
  owned,  \* the Writer holds a resume context it has to call
  ready,  \* sync: ready, under the mutex
  wire,   \* what the stream was given
  ec      \* the error code the operation ended with, "none" until then

wvars == <<how, msg, st, sb, left, copy, owned, ready, wire, ec>>

-----------------------------------------------------------------------------
(* What goes to the stream.                                                *)
Header == [t |-> "head", at |-> 0, n |-> 0]

\* chunk_encode(buffers), or the buffers themselves.  The chunk of an empty
\* buffer is "0\r\n\r\n", which is what chunk_encode_final() is.
BodyPart(n) == [t |-> IF msg.chunked THEN "chunk" ELSE "raw",
                at |-> msg.body.len - left, n |-> n]

Final == [t |-> "chunk", at |-> msg.body.len, n |-> 0]

\* string_body, basic_dynabuf_body and empty_body: all of it at once.
WholeAnswer == [res |-> "true", out |-> left]

\* file_body: as much as its buffer holds, until nothing is left.
FileAnswer ==
  LET n == IF left < BufLen THEN left ELSE BufLen
  IN  [res |-> IF n = left THEN "true" ELSE "false", out |-> n]

(***************************************************************************)
(* w.write(resume, ec, wf): what the Writer of the body can answer.  out   *)
(* is the number of octets handed to wf, -1 when wf was not called.  The   *)
(* user's Writer follows Writer.qbk: with false it has called wf, with     *)
(* true nothing remains and it called it or not, so it may answer false    *)
(* with its last piece and true, without a call, when it is asked again.   *)
(* (It gives no empty piece, which would be the final chunk.)              *)
(***************************************************************************)
Answers ==
  CASE msg.body.kind \in {"empty", "whole"} -> {WholeAnswer}
    [] msg.body.kind = "file" -> {FileAnswer}
    [] OTHER ->
         {[res |-> "false", out |-> n] : n \in 1..left}
           \cup {[res |-> "true", out |-> IF left = 0 THEN -1 ELSE left]}
           \cup {[res |-> r, out |-> -1] : r \in {"suspend", "error"}}

\* init() opens the file, or is the user's: it may fail.
InitMayFail == msg.body.kind \in {"file", "user"}

\* Fault: copy = resume is forgotten when the operation suspends.
LendOnce(a) ==
  /\ left' = IF a.out < 0 THEN left ELSE left - a.out
  /\ owned' = (a.res = "suspend" /\ copy)
  /\ copy' = (copy /\ a.res # "suspend")

\* The Writer answered a: its piece is gone, and when it suspends it takes
\* the resume context it was lent and copy = resume makes another.
Lend(a) ==
  /\ left' = IF a.out < 0 THEN left ELSE left - a.out
  /\ owned' = (a.res = "suspend" /\ copy)
  /\ copy' = (copy \/ a.res = "suspend")

\* The operation ends.  operator<< takes end of file for success.
Finish(code) ==
  /\ st' = "done"
  /\ ec' = IF how = "ostream" /\ code = "eof" THEN "ok" ELSE code

Ended == IF Closes(msg) THEN "eof" ELSE "ok"

\* The stream takes the parts, if there are any, or fails and the operation
\* ends.
Put(parts, next) ==
  \/ wire' = wire \o parts /\ st' = next /\ UNCHANGED ec
  \/ parts # <<>> /\ Finish("error") /\ UNCHANGED wire

WriteInit ==
  /\ how \in {"sync", "async", "ostream"}
  /\ msg \in Messages
  /\ st = "idle" /\ sb = FALSE /\ left = msg.body.len
  /\ copy = TRUE /\ owned = FALSE /\ ready = FALSE
  /\ wire = <<>> /\ ec = "none"

-----------------------------------------------------------------------------
(* async_write: write_op.  st is the d.state in which the operation waits  *)
(* and for what: "io" for a write in progress, "rc" for the Writer, "post" *)
(* for the handler it posted itself, "lost" for nothing.                   *)
\* Cases 1 and 3: call the Writer with a write function that starts an
\* async_write of head and the encoded buffers.  When wf is not called
\* nothing is started and the operation just returns.
AsyncCall(head, rc) ==
  \E a \in Answers :
    /\ Lend(a)
    /\ \/ /\ a.res = "suspend"
          /\ st' = rc
          /\ UNCHANGED <<wire, ec>>
       \/ /\ a.res = "error" /\ rc = "rc1"
          /\ st' = "post"
          /\ UNCHANGED <<wire, ec>>
       \/ /\ a.res = "error" /\ rc = "rc3"
          /\ Finish("error")
          /\ UNCHANGED wire
       \/ /\ a.res \in {"true", "false"} /\ a.out >= 0
          /\ wire' = wire \o head \o <<BodyPart(a.out)>>
          /\ st' = IF a.res = "false" THEN "io2"
                   ELSE IF msg.chunked THEN "io4" ELSE "io5"
          /\ UNCHANGED ec
       \/ /\ a.res = "true" /\ a.out < 0
          /\ st' = "lost"
          /\ UNCHANGED <<wire, ec>>

\* The constructor and case 0; w.init() may fail.
AsyncStart ==
  /\ st = "idle" /\ how = "async"
  /\ \/ sb' = TRUE /\ AsyncCall(<<Header>>, "rc1")
     \/ /\ InitMayFail
        /\ st' = "post"
        /\ UNCHANGED <<sb, left, copy, owned, wire, ec>>
  /\ UNCHANGED <<how, msg, ready>>

\* The handler posted because of an error runs, or a write failed.
OnFailed ==
  /\ st \in {"post", "io2", "io4", "io5"}
  /\ Finish("error")
  /\ UNCHANGED <<how, msg, sb, left, copy, owned, ready, wire>>

\* Fault: the header stays in the buffer and is sent again.
OnMoreKeepHead ==
  /\ st = "io2"
  /\ AsyncCall(<<Header>>, "rc3")
  /\ UNCHANGED <<how, msg, sb, ready>>

\* Cases 2 and 3: the header leaves the buffer, ask for the next piece.
OnMore ==
  /\ st = "io2"
  /\ sb' = FALSE
  /\ AsyncCall(<<>>, "rc3")
  /\ UNCHANGED <<how, msg, ready>>

\* Case 4: the body is out, the final chunk follows.
OnLast ==
  /\ st = "io4"
  /\ st' = "io5" /\ wire' = Append(wire, Final)
  /\ UNCHANGED <<how, msg, sb, left, copy, owned, ready, ec>>

\* Case 5.
OnAllWritten ==
  /\ st = "io5"
  /\ Finish(Ended)
  /\ UNCHANGED <<how, msg, sb, left, copy, owned, ready, wire>>

\* The Writer calls the resume context: operator() is dispatched and goes on
\* in the case it was in.
OnResume ==
  /\ owned
  /\ \/ st = "rc1" /\ AsyncCall(<<Header>>, "rc1")
     \/ st = "rc3" /\ AsyncCall(<<>>, "rc3")
  /\ UNCHANGED <<how, msg, sb, ready>>

-----------------------------------------------------------------------------
(* write: the caller's thread.  "wait1" and "wait3" wait on the condition  *)
(* variable, "loop" is the top of the loop, "end" comes after it.          *)

\* The first call of the Writer, whose write function sends the header too.
SyncStart ==
  /\ st = "idle" /\ how # "async"
  /\ \/ /\ InitMayFail
        /\ Finish("error")
        /\ UNCHANGED <<sb, left, copy, owned, wire>>
     \/ \E a \in Answers :
          /\ Lend(a)
          /\ \/ /\ a.res = "suspend" /\ sb' = TRUE
                /\ st' = "wait1" /\ UNCHANGED <<wire, ec>>
             \/ a.res = "error" /\ Finish("error") /\ UNCHANGED <<sb, wire>>
             \/ /\ a.res \in {"true", "false"} /\ sb' = FALSE
                /\ Put(IF a.out < 0 THEN <<>> ELSE <<Header, BodyPart(a.out)>>,
                       IF a.res = "true" THEN "end" ELSE "loop")
  /\ UNCHANGED <<how, msg, ready>>

\* The Writer, on another thread, calls the resume context.
SyncResume ==
  /\ owned /\ how # "async"
  /\ ready' = TRUE /\ owned' = FALSE
  /\ UNCHANGED <<how, msg, st, sb, left, copy, wire, ec>>

\* The wait is over; after the first one the header is sent by itself.
SyncWake ==
  /\ st \in {"wait1", "wait3"} /\ ready
  /\ ready' = FALSE
  /\ \/ st = "wait3" /\ st' = "loop" /\ UNCHANGED <<sb, wire, ec>>
     \/ st = "wait1" /\ sb' = FALSE /\ Put(<<Header>>, "loop")
  /\ UNCHANGED <<how, msg, left, copy, owned>>

\* One turn of the loop.
SyncLoop ==
  /\ st = "loop"
  /\ \E a \in Answers :
       /\ Lend(a)
       /\ \/ a.res = "suspend" /\ st' = "wait3" /\ UNCHANGED <<wire, ec>>
          \/ a.res = "error" /\ Finish("error") /\ UNCHANGED wire
          \/ /\ a.res \in {"true", "false"}
             /\ Put(IF a.out < 0 THEN <<>> ELSE <<BodyPart(a.out)>>,
                    IF a.res = "true" THEN "end" ELSE "loop")
  /\ UNCHANGED <<how, msg, sb, ready>>

\* The final chunk, and the error that asks for the connection to be closed.
SyncEnd ==
  /\ st = "end"
  /\ \/ ~msg.chunked /\ Finish(Ended) /\ UNCHANGED wire
     \/ msg.chunked /\ Finish(Ended) /\ wire' = Append(wire, Final)
     \/ msg.chunked /\ Finish("error") /\ UNCHANGED wire
  /\ UNCHANGED <<how, msg, sb, left, copy, owned, ready>>

-----------------------------------------------------------------------------
WriteStep ==
  \/ AsyncStart \/ OnFailed \/ OnMore \/ OnLast \/ OnAllWritten
  \/ SyncStart \/ SyncWake \/ SyncLoop \/ SyncEnd

WriteNext == WriteStep \/ OnResume \/ SyncResume

WriterResumes == OnResume \/ SyncResume

\* Asked again, the Writer does not suspend.
WriterGoesOn == (OnResume \/ SyncLoop) /\ ~owned'

\* No write was begun.
WriteIdle ==
  /\ how = "sync" /\ msg = (CHOOSE m \in Messages : m.body.len = 0)
  /\ st = "done" /\ sb = FALSE /\ left = 0 /\ copy = TRUE /\ owned = FALSE
  /\ ready = FALSE /\ wire = <<>> /\ ec = "none"

-----------------------------------------------------------------------------
(* The other end.  How a receiver delimits the body is what the parser of  *)
(* this library does (HttpParser).                                         *)
Delimits(m) ==
  CASE m.chunked -> "chunks"
    [] ~m.chunked /\ m.cl >= 0 -> "length"
    [] ~m.chunked /\ m.cl < 0 /\ (m.req \/ m.nobody) -> "nothing"
    [] OTHER -> "eof"

\* The parts are a beginning of a message: the header first and once, then
\* pieces of the body that lie end to end.
Beginning(parts) ==
  /\ parts # <<>> => parts[1] = Header
  /\ \A i \in 2 .. Len(parts) :
       parts[i].t # "head" /\ parts[i].at = parts[i - 1].at + parts[i - 1].n

IsFinal(part) == part.t = "chunk" /\ part.n = 0

\* The parts are one whole message for a receiver that sees the connection
\* end after them when closed: nothing is missing and nothing is left over.
WholeMessage(m, parts, closed) ==
  LET k == Len(parts)
  IN  /\ Beginning(parts) /\ k > 0 /\ parts[k].at + parts[k].n = m.body.len
      /\ CASE Delimits(m) = "chunks" ->
                k > 1 /\ \A i \in 2 .. k : IsFinal(parts[i]) <=> i = k
           [] Delimits(m) = "length" -> m.cl = m.body.len
           [] Delimits(m) = "nothing" -> m.body.len = 0
           [] OTHER -> closed

\* A blocking write of a body of no octets whose Writer gave no buffer when it
\* was first asked: the header was waiting for that buffer and is not sent.
Headless ==
  /\ how # "async" /\ msg.body.kind = "user" /\ msg.body.len = 0
  /\ wire \in {<<>>, <<Final>>}

\* The Writer answered true without a buffer and nothing was started that
\* would call the operation again: its handler is never called.
Lost ==
  /\ st = "lost"
  /\ how = "async" /\ msg.body.kind = "user" /\ left = 0

\* A write that succeeds, or asks for the connection to be closed, has sent
\* exactly one message that the receiver can tell from what follows it,
\* whatever pieces the Writer made of the body and however often it suspended
\* the operation.  Until then, and after an error, the stream holds a
\* beginning of the message: the header, then octets of the body in their
\* order with none left out or repeated, and never the final chunk after a
\* body that is not complete.  The one write that succeeds with something
\* else on the stream is the blocking one of an empty body whose Writer gives
\* no buffer at its first call, and what it leaves there is nothing, or the
\* final chunk alone.
WireIsMessage ==
  /\ ec \in {"ok", "eof"} =>
       WholeMessage(msg, wire, ec = "eof" \/ how = "ostream") \/ Headless
  /\ Beginning(wire) \/ Headless
  /\ \A i \in DOMAIN wire : IsFinal(wire[i]) => left = 0

\* A suspended write has a resume context in the Writer's hands or already
\* called: it is never left waiting for a call nobody can make.
SuspendedIsOwned ==
  /\ st \in {"rc1", "rc3"} => owned
  /\ st \in {"wait1", "wait3"} => (owned /\ ~ready) \/ (ready /\ ~owned)
  /\ ready => st \in {"wait1", "wait3"}

\* Every write completes, whatever the Writer and the stream do, but the
\* asynchronous one whose Writer, with nothing left to give, answers true
\* without a buffer: that one never does.
WriteCompletes == st # "idle" ~> (st = "done" \/ Lost)

=============================================================================
