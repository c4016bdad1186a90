----------------------------- MODULE WsHandshake ----------------------------
(***************************************************************************)
(* The opening handshake of two websocket streams: handshake(),            *)
(* async_handshake(), the accept() and async_accept() overloads and the    *)
(* functions they share (websocket/impl/stream.ipp, handshake_op.ipp,      *)
(* accept_op.ipp, response_op.ipp).  Either end may be another             *)
(* implementation, or be given a decorator that changes what it sends.     *)
(* After the handshake the ends send frames; both may use their stream     *)
(* objects again, on the same connection after a refusal that keeps it and *)
(* on a new one after anything else.                                       *)
(*                                                                         *)
(* The blocking calls and the composed operations take the same steps: an  *)
(* operation starts, its message is written, the other one is read.        *)
(***************************************************************************)
EXTENDS HttpPrepare, SequencesExt

CONSTANTS MaxTries,   \* bound on the handshakes begun
          MaxFrames   \* bound on the frames an end sends

ASSUME HandshakeAssumption == MaxTries \in Nat /\ MaxFrames \in Nat

VARIABLES
  cl,      \* the client's stream
  sv,      \* the server's stream
  up,      \* what is on its way from the client to the server
  down,    \* what is on its way back
  line,    \* "up" or "broken"
  asked,   \* the request of the current handshake
  answer,  \* the response of the current handshake, None before it is sent
  tries    \* handshakes begun; also the last key made

hvars == <<cl, sv, up, down, line, asked, answer, tries>>

None == [t |-> "none"]
Frame(n) == [t |-> "frame", n |-> n]
\* Octets of an earlier connection that were read and not consumed.
Old == [t |-> "old"]

-----------------------------------------------------------------------------
(* Messages.  A message is described by what is wrong with it.             *)
RequestFlaws == {"version", "method", "connection", "host", "key", "upgrade",
                 "wsversion_missing", "wsversion", "close"}

\* build_request and the default decorator: no flaw.  "close": the request
\* asks for the connection to be closed instead of upgraded.
Request(key, flaws) ==
  [t |-> "req", key |-> key, flaws |-> flaws,
   http |-> [req |-> TRUE, post |-> FALSE, nobody |-> FALSE,
             ver |-> IF "version" \in flaws THEN 10 ELSE 11,
             body |-> [kind |-> "empty", len |-> 0], cl |-> -1, chunked |-> FALSE,
             conn |-> IF "close" \in flaws THEN "close"
                      ELSE IF "connection" \in flaws THEN "none" ELSE "upgrade"]]

\* The next key of the generator: not one it made before.
make_sec_ws_key == tries + 1

\* The digest of a key: that of no other key, and no key itself (0 stands for
\* a field that is missing).
make_sec_ws_accept(key) == -key

\* The response with a status, an accept key and a prepared connection.
Reply(status, accept, flaws, ver, option) ==
  [t |-> "res", status |-> status, accept |-> accept, flaws |-> flaws,
   http |-> Prepared([req |-> FALSE, post |-> FALSE, nobody |-> status = 101,
                      ver |-> ver,
                      body |-> [kind |-> "whole",
                                len |-> IF status = 400 THEN 1 ELSE 0],
                      cl |-> -1, chunked |-> FALSE, conn |-> "none"], option)]

\* What another implementation may answer: any one thing is wrong.
OtherResponses(key) ==
  LET accept == make_sec_ws_accept(key)
  IN  {Reply(101, accept, f, 11, "upgrade") : f \in SUBSET {"upgrade"}}
        \cup {Reply(s, accept, {}, v, o) : s \in {101, 200}, v \in {10, 11},
                o \in {"none", "keep_alive"}}
        \cup {Reply(101, k, {}, 11, "upgrade") :
                k \in {0, key, make_sec_ws_accept(key - 1)}}

-----------------------------------------------------------------------------
(* A stream object.  open: the handshake succeeded; keep: its keep_alive_  *)
(* option; dirty: the fields that still have a value from an earlier       *)
(* connection.                                                             *)
Fields == {"failed", "rd_need", "rd_cont", "wr_close", "wr_block", "pong_data",
           "wr_cont", "wr_size", "rd_utf8_check"}

\* A stream that was just made.  early: how many of the frames sent went out
\* before the request was answered; dropped: frames read and thrown away.
Stream(how, keep) ==
  [how |-> how, keep |-> keep, st |-> "idle", open |-> FALSE, ec |-> "none",
   buf |-> <<>>, dirty |-> {}, sent |-> 0, early |-> 0, got |-> <<>>, dropped |-> <<>>]

\* Fault: stream_.buffer() is not consumed.
ResetKeepBuffer(s) == [s EXCEPT !.dirty = @ \cap {"wr_size", "rd_utf8_check"}]

\* reset()
ResetStream(s) ==
  [s EXCEPT !.dirty = @ \cap {"wr_size", "rd_utf8_check"}, !.buf = <<>>]

\* open(role), which ends the operation.  Like reset(), it leaves rd_utf8_check_
\* as it is.
OpenStream(s) ==
  [s EXCEPT !.dirty = @ \cap {"rd_utf8_check"}, !.open = TRUE, !.st = "done", !.ec = "ok"]

FailWith(s, ec) == [s EXCEPT !.st = "done", !.ec = ec]

\* http::read took octets off the line and left what follows the message in
\* the buffer of the stream.
AfterRead(s, taken) == [s EXCEPT !.buf = Tail(@ \o taken)]

HsInit ==
  /\ \E h \in {"own", "other"} : cl = Stream(h, FALSE)
  /\ \E h \in {"accept", "buffers", "request", "other"}, k \in BOOLEAN :
       sv = Stream(h, k)
  /\ cl.how = "other" => sv.how # "other"   \* one end at least is this library's
  /\ up = <<>> /\ down = <<>> /\ line = "up"
  /\ asked = None /\ answer = None /\ tries = 0

-----------------------------------------------------------------------------
(* The client.                                                             *)

\* handshake(), and the constructor and case 0 of handshake_op: reset the
\* stream, make a key, start to send the request.
Handshake ==
  /\ cl.st = "idle" /\ line = "up" /\ tries < MaxTries
  /\ tries' = make_sec_ws_key
  /\ \E f \in IF cl.how = "own" THEN {{}}
              ELSE {x \in SUBSET RequestFlaws : \A a, b, c \in x : a = b \/ b = c \/ a = c} :
       asked' = Request(tries', f)
  /\ cl' = [ResetStream(cl) EXCEPT !.st = "writing"]
  /\ up' = Append(up, asked') /\ answer' = None
  /\ UNCHANGED <<sv, down, line>>

\* Case 1: the request is sent, read the response.
OnRequestSent ==
  /\ cl.st = "writing"
  /\ cl' = [cl EXCEPT !.st = "reading"]
  /\ UNCHANGED <<sv, up, down, line, asked, answer, tries>>

\* Fault: the accept key is not compared.
do_responseAnyKey(s, res) ==
  IF \/ res.http.ver < 11 \/ res.status # 101 \/ ~is_upgrade(res.http)
     \/ "upgrade" \in res.flaws \/ res.accept = 0
  THEN FailWith(s, "response_failed") ELSE OpenStream(s)

\* do_response
do_response(s, res) ==
  IF \/ res.http.ver < 11 \/ res.status # 101 \/ ~is_upgrade(res.http)
     \/ "upgrade" \in res.flaws
     \/ res.accept = 0           \* no Sec-WebSocket-Accept
     \/ res.accept # make_sec_ws_accept(asked.key)
  THEN FailWith(s, "response_failed") ELSE OpenStream(s)

\* Case 2: the response has been read, perhaps with frames behind it.
OnResponse ==
  /\ cl.st = "reading" /\ down # <<>>
  /\ \E k \in 1 .. Len(down) :
       LET all == cl.buf \o SubSeq(down, 1, k)
       IN /\ all[1].t = "res"
          /\ cl' = do_response(AfterRead(cl, SubSeq(down, 1, k)), all[1])
          /\ down' = SubSeq(down, k + 1, Len(down))
  /\ UNCHANGED <<sv, up, line, asked, answer, tries>>

\* What was read is not a message.
NoMessage(s, data) == s.st = "reading" /\ data # <<>> /\ data[1].t \notin {"req", "res"}

\* The write or the read failed.
OnClientError ==
  /\ cl.st \in {"writing", "reading"}
  /\ line = "broken" \/ NoMessage(cl, cl.buf \o down)
  /\ cl' = FailWith(cl, IF NoMessage(cl, cl.buf \o down) THEN "parse" ELSE "error")
  /\ UNCHANGED <<sv, up, down, line, asked, answer, tries>>

-----------------------------------------------------------------------------
(* The server.                                                             *)
\* err, and the 426: the connection is kept when both ends want that.
Refuse(req, status) ==
  Reply(status, 0, {}, req.http.ver,
        IF is_keep_alive(req.http) /\ sv.keep THEN "keep_alive" ELSE "close")

\* The checks in front of the one for the version.
BadRequest(req) ==
  \/ req.http.ver < 11 \/ "method" \in req.flaws \/ ~is_upgrade(req.http)
  \/ req.flaws \cap {"host", "key", "upgrade", "wsversion_missing"} # {}

\* build_response
build_response(req) ==
  IF BadRequest(req) THEN Refuse(req, 400)
  ELSE IF "wsversion" \in req.flaws THEN Refuse(req, 426)
  ELSE Reply(101, make_sec_ws_accept(req.key), {}, req.http.ver, "upgrade")

\* accept(request): reset the stream and start to send the response.
Answer(s, req) ==
  /\ \E res \in IF s.how = "other" THEN OtherResponses(req.key)
                ELSE {build_response(req)} :
       answer' = res
  /\ sv' = [ResetStream(s) EXCEPT !.st = "writing"]
  /\ down' = Append(down, answer')

\* accept() and accept(buffers): the caller may have read some octets.
Accept ==
  /\ sv.st = "idle" /\ line = "up" /\ sv.how \in {"accept", "buffers"}
  /\ \E k \in IF sv.how = "accept" THEN {0} ELSE 0 .. Len(up) :
       /\ sv' = [ResetStream(sv) EXCEPT !.st = "reading", !.buf = SubSeq(up, 1, k)]
       /\ up' = SubSeq(up, k + 1, Len(up))
  /\ UNCHANGED <<cl, down, line, asked, answer, tries>>

\* accept(request): the caller has read the request.
AcceptRequest ==
  /\ sv.st = "idle" /\ line = "up" /\ sv.how \in {"request", "other"} /\ up # <<>>
  /\ Answer(sv, up[1])
  /\ up' = Tail(up)
  /\ UNCHANGED <<cl, line, asked, tries>>

\* Case 1 of accept_op: the request has been read, perhaps with frames of a
\* hasty client behind it.  They are in stream_.buffer(), which the reset() of
\* accept(request) consumes.
OnRequest ==
  /\ sv.st = "reading" /\ sv.buf \o up # <<>>
  /\ \E k \in 0 .. Len(up) :
       LET all == sv.buf \o SubSeq(up, 1, k)
           read == AfterRead(sv, SubSeq(up, 1, k))
       IN /\ all # <<>>
          /\ all[1].t = "req"
          /\ Answer([read EXCEPT !.dropped = @ \o read.buf], all[1])
          /\ up' = SubSeq(up, k + 1, Len(up))
  /\ UNCHANGED <<cl, line, asked, tries>>

\* Case 1 of response_op.  A refusal that closes the connection makes
\* http::write end with an error of its own.
OnResponseSent ==
  /\ sv.st = "writing"
  /\ sv' = IF Closes(answer.http) THEN FailWith(sv, "eof")
           ELSE IF answer.status # 101 THEN FailWith(sv, "handshake_failed")
           ELSE OpenStream(sv)
  /\ UNCHANGED <<cl, up, down, line, asked, answer, tries>>

OnServerError ==
  /\ sv.st \in {"writing", "reading"}
  /\ line = "broken" \/ NoMessage(sv, sv.buf \o up)
  /\ sv' = FailWith(sv, IF NoMessage(sv, sv.buf \o up) THEN "parse" ELSE "error")
  /\ UNCHANGED <<cl, up, down, line, asked, answer, tries>>

-----------------------------------------------------------------------------
(* The open streams, the connection, and using the objects again.          *)

\* The client of another implementation, sure of its request, need not wait
\* for the response.
Hasty == cl.how = "other" /\ cl.st \in {"writing", "reading"} /\ asked.flaws = {}

SendFrame ==
  /\ line = "up"
  /\ \/ /\ cl.open \/ Hasty
        /\ cl.sent < MaxFrames
        /\ cl' = [cl EXCEPT !.sent = @ + 1, !.early = IF answer = None THEN @ + 1 ELSE @]
        /\ up' = Append(up, Frame(cl.sent + 1))
        /\ UNCHANGED <<sv, down>>
     \/ /\ sv.open /\ sv.sent < MaxFrames
        /\ sv' = [sv EXCEPT !.sent = @ + 1]
        /\ down' = Append(down, Frame(sv.sent + 1))
        /\ UNCHANGED <<cl, up>>
  /\ UNCHANGED <<line, asked, answer, tries>>

\* read_frame takes what stream_.buffer() holds before it reads the line.
ReadFrame ==
  /\ \/ /\ cl.open /\ cl.buf \o down # <<>>
        /\ cl' = [cl EXCEPT !.got = Append(@, (cl.buf \o down)[1]),
                            !.buf = IF @ = <<>> THEN @ ELSE Tail(@)]
        /\ down' = IF cl.buf = <<>> THEN Tail(down) ELSE down
        /\ UNCHANGED <<sv, up>>
     \/ /\ sv.open /\ sv.buf \o up # <<>>
        /\ sv' = [sv EXCEPT !.got = Append(@, (sv.buf \o up)[1]),
                            !.buf = IF @ = <<>> THEN @ ELSE Tail(@)]
        /\ up' = IF sv.buf = <<>> THEN Tail(up) ELSE up
        /\ UNCHANGED <<cl, down>>
  /\ UNCHANGED <<line, asked, answer, tries>>

Break ==
  /\ line = "up" /\ line' = "broken"
  /\ UNCHANGED <<cl, sv, up, down, asked, answer, tries>>

\* After a refusal that keeps the connection both ends try once more, unless
\* frames have followed the request that was refused.
TryAgain ==
  /\ cl.st = "done" /\ cl.ec = "response_failed" /\ line = "up"
  /\ sv.st = "done" /\ sv.ec = "handshake_failed" /\ tries < MaxTries
  /\ cl.sent = 0
  /\ cl' = [cl EXCEPT !.st = "idle", !.ec = "none"]
  /\ sv' = [sv EXCEPT !.st = "idle", !.ec = "none"]
  /\ asked' = None /\ answer' = None
  /\ UNCHANGED <<up, down, line, tries>>

\* A stream object after a connection it was used on: anything may be left.
Used(s) ==
  {[Stream(s.how, s.keep) EXCEPT !.buf = b, !.dirty = IF s.open THEN Fields ELSE {}] :
     b \in {<<>>, <<Old>>}}

\* Both ends put their stream objects on a new connection.
Reconnect ==
  /\ cl.st = "done" /\ sv.st = "done" /\ tries < MaxTries
  /\ cl' \in Used(cl) /\ sv' \in Used(sv)
  /\ up' = <<>> /\ down' = <<>> /\ line' = "up"
  /\ asked' = None /\ answer' = None
  /\ UNCHANGED tries

-----------------------------------------------------------------------------
HsStep ==
  \/ OnRequestSent \/ OnResponse \/ OnClientError
  \/ Accept \/ AcceptRequest \/ OnRequest \/ OnResponseSent \/ OnServerError

HsNext ==
  \/ HsStep \/ Handshake \/ SendFrame \/ ReadFrame \/ Break \/ TryAgain \/ Reconnect

\* No stream was made.
HsIdle ==
  /\ cl = FailWith(Stream("other", FALSE), "error")
  /\ sv = FailWith(Stream("other", FALSE), "error")
  /\ up = <<>> /\ down = <<>> /\ line = "broken"
  /\ asked = None /\ answer = None /\ tries = MaxTries

-----------------------------------------------------------------------------
\* RFC 6455, section 4.2.1: the requests that build_response upgrades.
Acceptable(req) == req.flaws = {}

\* A stream is open only after a handshake of this very connection: the
\* client has a 101 for the key of its last request, the server a request
\* with nothing missing, and each error leaves its end closed.  The server
\* refuses only what is wrong, and with 426 only for the version.
OpenIsAgreed ==
  /\ cl.open =>
       /\ cl.ec = "ok" /\ answer.status = 101
       /\ answer.accept = make_sec_ws_accept(asked.key) /\ asked.key = tries
       /\ "upgrade" \notin answer.flaws /\ answer.http.ver = 11
  /\ sv.open /\ sv.how # "other" =>
       sv.ec = "ok" /\ Acceptable(asked) /\ answer.status = 101
  /\ answer # None /\ sv.how # "other" =>
       /\ answer.status # 101 <=> ~Acceptable(asked)
       /\ answer.status = 426 => asked.flaws = {"wsversion"}

Upto(n) == [i \in 1 .. n |-> Frame(i)]

\* A stream object used before opens with nothing of the earlier connection
\* but the state of rd_utf8_check_, no other flag and no octet, and a
\* handshake never reads what an earlier one left.  What an end sends once the
\* request is answered is not lost between the end of the handshake and the
\* first read, on whichever side of the response it was read: what an end
\* sent is what the other has read, has buffered, or what is on the line.
\* Only frames that a hasty client sent behind its request, and that the
\* server read with it, are dropped, by the second reset() of accept().
OpenIsFresh ==
  /\ \A s \in {cl, sv} :
       /\ s.open => s.dirty \subseteq {"rd_utf8_check"} /\ Old \notin ToSet(s.dropped \o s.got \o s.buf)
       /\ s.ec # "parse"
  /\ cl.open => cl.got \o cl.buf \o down = Upto(sv.sent)
  /\ sv.open => sv.dropped \o sv.got \o sv.buf \o up = Upto(cl.sent)
  /\ Len(sv.dropped) <= cl.early
  /\ cl.how = "own" => sv.dropped = <<>>

\* Two streams of this library, without decorators, open each other unless
\* the connection breaks, on whichever overload of accept() the server uses.
OwnHandshakeOpens ==
  (cl.st = "writing" /\ cl.how = "own" /\ sv.how # "other" /\ sv.st # "done") ~>
    ((cl.open /\ sv.open) \/ line = "broken")

\* A handshake ends, with an open stream or with an error.
HandshakeEnds == cl.st = "writing" ~> cl.st = "done"

=============================================================================
