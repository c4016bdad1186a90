----------------------------- MODULE HttpParser -----------------------------
(***************************************************************************)
(* basic_parser_v1 with the two parsers built on it, and parse(), which    *)
(* feeds it from a dynamic buffer.                                         *)
(*                                                                         *)
(* One step is one turn of the loop in write(): the case of the state s    *)
(* for the octet at p.  A step that ends in `break` moves p, one that ends *)
(* in `goto redo` leaves it.  States that only match the letters of a      *)
(* literal are one state, since the wire has one octet for the literal.    *)
(* The stream delivers its octets in reads of any size, so a buffer may    *)
(* end anywhere; heard records the callbacks made for the current message. *)
(***************************************************************************)
EXTENDS HttpMessages, TLC

CONSTANTS Streams,     \* what the peer may send: sequences of messages
          Callers,     \* headers_max_size and body_max_size, 0 for no limit, and
                       \* whether the message is parsed in two stages
          Radix,       \* base of the lengths on the wire
          NoLength,    \* no_content_length, the largest std::uint64_t
          ReadSizes,   \* sizes of a read, or else it delivers all there is
          FirstSizes,  \* sizes of the first buffer of data(), if it has two
          EndsEarly,   \* whether the message may end in the first of two buffers
          EmptyCall    \* whether parse() may be called for a complete parser
                       \* with no octet at hand

ASSUME ParserAssumption ==
  /\ Callers \subseteq [hmax : Nat, bmax : Nat, stages : BOOLEAN]
  /\ Radix \in Nat \ {0, 1} /\ NoLength \in Nat /\ NoLength >= Radix
  /\ ReadSizes \cup FirstSizes \subseteq Nat \ {0}
  /\ {EndsEarly, EmptyCall} \subseteq BOOLEAN

\* A peer sends so many octets and then no more.
ASSUME WireAssumption == \A ms \in Streams : Len(WireOfAll(ms)) \in Nat

VARIABLES
  stream, wire,         \* the messages and their octets
  opts,                 \* which of Callers calls
  s, cb,                \* s_ and cb_ of the parser
  h,                    \* fs_, flags_, content_length_, http_minor_, status_code_, upgrade_
  left,                 \* h_left_ and b_left_
  phase,                \* where parse() is
  p, begin, from, end,  \* of write(): the octet, the piece, the buffer
  used, ec,             \* octets used so far and the error, "ok" for none
  base, have, started,  \* of parse(): data() is what follows base, up to have
  stage, msg, heard     \* the caller: which parser, for which message

fixed == <<stream, wire, opts>>
pieceVars == <<cb, begin, ec, left, heard>>
loopVars == <<base, have, started>>
vars == <<fixed, s, h, pieceVars, phase, p, from, end, used, loopVars, stage, msg>>

Message == stream[msg]
Ch == wire[p + 1]

-----------------------------------------------------------------------------
\* h_max_ and b_max_ are checked before the derived class hears of a piece.
\* Without a limit h_left_ and b_left_ count down for nobody.
TooBig(k, n) ==
  IF k = "body" THEN opts.bmax # 0 /\ n > left.b
  ELSE opts.hmax # 0 /\ n > left.h

Spend(k, n) ==
  IF k = "body" THEN [left EXCEPT !.b = IF opts.bmax = 0 THEN @ ELSE @ - n]
  ELSE [left EXCEPT !.h = IF opts.hmax = 0 THEN @ ELSE @ - n]

\* heard after the callback k: pieces of one element are put together.
Hear(k, o) ==
  IF k \in Pieces /\ heard # << >> /\ Last(heard).k = k
  THEN [heard EXCEPT ![Len(heard)].o = @ \o o]
  ELSE Append(heard, Event(k, o))

\* call_on_method .. call_on_body: the body goes to a reader of the caller,
\* which may fail.
Deliver(k, o) ==
  IF TooBig(k, Len(o))
  THEN /\ ec' = IF k = "body" THEN "body_too_big" ELSE "headers_too_big"
       /\ UNCHANGED <<left, heard>>
  ELSE /\ heard' = Hear(k, o) /\ left' = Spend(k, Len(o))
       /\ ec' \in IF k = "body" THEN {ec, "reader"} ELSE {ec}

\* A callback without octets.
Tell(k) == heard' = Hear(k, << >>) /\ UNCHANGED <<cb, begin, ec, left>>

\* Whether the lambda cb() has a piece to deliver.
Pending(q) == cb # "none" /\ q # begin

Flush(q) ==
  IF Pending(q) THEN Deliver(cb, SubSeq(wire, begin + 1, q))
  ELSE UNCHANGED <<ec, left, heard>>

\* break with the next state, goto redo with it, or a return from write().
Break(st) == s' = st /\ p' = p + 1 /\ phase' = phase
Redo(st) == s' = st /\ p' = p /\ phase' = phase
Return(st, q) == s' = st /\ p' = q /\ phase' = "returned"

\* cb(nullptr): the element ends at p.
CloseCb(st) ==
  /\ Flush(p)
  /\ IF Pending(p) /\ ec' # "ok" THEN Return("s_dead", p) /\ cb' = cb
     ELSE Break(st) /\ cb' = "none"
  /\ UNCHANGED <<begin, h>>

\* cb(&self::call_on_...) where no callback is set: an element begins at p.
OpenCb(k) == cb' = k /\ begin' = p /\ UNCHANGED <<ec, left, heard>>

\* The lambda err().
Reject(e) ==
  /\ ec' = e /\ Return("s_dead", p)
  /\ UNCHANGED <<cb, begin, left, heard, h>>

\* A turn of the loop for one of the states S, and for an octet of C.
Turn(S) ==
  /\ phase = "write" /\ p < end /\ s \in S
  /\ UNCHANGED <<fixed, from, end, used, loopVars, stage, msg>>

\* A state that just moves on.
Skip(st) == Break(st) /\ UNCHANGED <<pieceVars, h>>

-----------------------------------------------------------------------------
\* s_dead, s_closed_complete
Closed == Turn({"s_dead", "s_closed_complete"}) /\ Reject("connection_closed")

\* s_req_start and s_req_method0; s_res_start .. s_res_minor
FirstOf == [s_req_start |-> Tchar, s_res_start |-> {"HTTP/1.0", "HTTP/1.1"}]

Start ==
  /\ Turn(DOMAIN FirstOf)
  /\ \/ /\ Ch \in FirstOf[s]
        /\ heard' = Hear("start", << >>)
        /\ h' = [h EXCEPT !.flags = {}, !.cl = NoLength,
                          !.minor = IF s = "s_res_start" THEN Ch ELSE @]
        /\ IF s = "s_res_start" THEN cb' = "none" /\ begin' = begin /\ Break("s_res_space_1")
           ELSE cb' = "method" /\ begin' = p /\ Break("s_req_method")
        /\ UNCHANGED <<ec, left>>
     \/ Ch \notin FirstOf[s] /\ Reject("bad")

\* A state that waits for one octet and moves on.
Literal ==
  [s_req_cr |-> <<"CR", "s_req_lf">>,
   s_res_space_1 |-> <<"SP", "s_res_status0">>,
   s_res_space_2 |-> <<"SP", "s_res_reason0">>,
   s_res_line_lf |-> <<"LF", "s_res_line_done">>,
   s_header_value0_lf |-> <<"LF", "s_header_value0_almost_done">>,
   s_header_value_lf |-> <<"LF", "s_header_value_almost_done">>,
   s_chunk_data_lf |-> <<"LF", "s_chunk_size0">>]

MatchLiteral ==
  /\ Turn(DOMAIN Literal)
  /\ \/ Ch = Literal[s][1] /\ Skip(Literal[s][2])
     \/ Ch # Literal[s][1] /\ Reject("bad")

\* s_req_url0, s_res_reason0: an empty uri is an error, an empty reason not.
FirstOfPart ==
  /\ Turn({"s_req_url0", "s_res_reason0"})
  /\ \/ /\ s = "s_req_url0" /\ Ch \in Text \ {"SP"}
        /\ OpenCb("uri") /\ Break("s_req_url") /\ UNCHANGED h
     \/ /\ s = "s_res_reason0" /\ Ch \in Text
        /\ OpenCb("reason") /\ Break("s_res_reason") /\ UNCHANGED h
     \/ s = "s_res_reason0" /\ Ch = "CR" /\ Skip("s_res_line_lf")
     \/ Ch \notin (IF s = "s_req_url0" THEN Text \ {"SP"} ELSE Text \cup {"CR"})
        /\ Reject("bad")

\* The octets a part goes on with, the octet that ends it and what follows.
Part ==
  [s_req_method |-> [go |-> Tchar, stop |-> "SP", then |-> "s_req_url0"],
   s_req_url |-> [go |-> Text \ {"SP"}, stop |-> "SP", then |-> "s_req_http"],
   s_res_reason |-> [go |-> Text, stop |-> "CR", then |-> "s_res_line_lf"]]

RestOfPart ==
  /\ Turn(DOMAIN Part)
  /\ \/ Ch = Part[s].stop /\ CloseCb(Part[s].then)
     \/ Ch \in Part[s].go /\ Skip(s)
     \/ Ch \notin Part[s].go \cup {Part[s].stop} /\ Reject("bad")

\* s_req_http .. s_req_minor
Version ==
  /\ Turn({"s_req_http"})
  /\ \/ /\ Ch \in {"HTTP/1.0", "HTTP/1.1"} /\ Break("s_req_cr")
        /\ h' = [h EXCEPT !.minor = Ch] /\ UNCHANGED pieceVars
     \/ Ch \notin {"HTTP/1.0", "HTTP/1.1"} /\ Reject("bad")

\* s_res_status0 .. s_res_status2
Codes == {"100", "200", "204", "304"}

StatusCode ==
  /\ Turn({"s_res_status0"})
  /\ \/ /\ Ch \in Codes /\ Break("s_res_space_2")
        /\ h' = [h EXCEPT !.status = Ch] /\ UNCHANGED pieceVars
     \/ Ch \notin Codes /\ Reject("bad")

\* s_req_lf
RequestLine ==
  /\ Turn({"s_req_lf"})
  /\ \/ Ch = "LF" /\ Tell("request") /\ Break("s_header_name0") /\ UNCHANGED h
     \/ Ch # "LF" /\ Reject("bad")

\* s_res_line_done
ResponseLine ==
  Turn({"s_res_line_done"}) /\ Tell("response") /\ Redo("s_header_name0") /\ UNCHANGED h

-----------------------------------------------------------------------------
\* The names that mean something to the parser; the letters are matched one
\* by one, and a letter too many makes it another name.
Known ==
  ("Connection" :> "h_connection") @@ ("Proxy-Connection" :> "h_connection") @@
  ("Content-Length" :> "h_content_length0") @@
  ("Transfer-Encoding" :> "h_transfer_encoding") @@ ("Upgrade" :> "h_upgrade")

Repeated == Ch = "Content-Length" /\ "contentlength" \in h.flags

FieldName0 ==
  /\ Turn({"s_header_name0"})
  /\ \/ Ch = "CR" /\ Skip("s_headers_almost_done")
     \/ /\ Ch \in Tchar /\ ~Repeated
        /\ h' = [h EXCEPT !.fs = IF Ch \in DOMAIN Known THEN Known[Ch] ELSE "h_general"]
        /\ OpenCb("field") /\ Break("s_header_name")
     \/ (Ch \notin Tchar \cup {"CR"} \/ Repeated) /\ Reject("bad")

FieldName ==
  /\ Turn({"s_header_name"})
  /\ \/ /\ Ch \in Tchar /\ h' = [h EXCEPT !.fs = "h_general"]
        /\ Break(s) /\ UNCHANGED pieceVars
     \/ Ch = ":" /\ CloseCb("s_header_value0")
     \/ Ch \notin Tchar \cup {":"} /\ Reject("bad")

\* The space in front of a value is skipped, then the value begins.
FieldValue0 ==
  /\ Turn({"s_header_value0"})
  /\ \/ Ch = "SP" /\ Skip(s)
     \/ Ch = "CR" /\ Skip("s_header_value0_lf")
     \/ /\ Ch \notin {"SP", "CR"}
        /\ h' = IF h.fs # "h_content_length0" THEN h
                ELSE [h EXCEPT !.cl = 0, !.flags = @ \cup {"contentlength"}]
        /\ OpenCb("value") /\ Redo("s_header_value")

-----------------------------------------------------------------------------
\* The connection options the parser looks for, the state for the space
\* behind one, and the flag it sets once a comma or the end follows.  "pre" is
\* a token that an option and "chunked" begin with.
Option ==
  ("close" :> "h_connection_close") @@ ("upgrade" :> "h_connection_upgrade") @@
  ("keep-alive" :> "h_connection_keep_alive") @@ ("pre" :> "h_matching_connection")

Ows ==
  [h_connection_close |-> "h_connection_close_ows",
   h_connection_keep_alive |-> "h_connection_keep_alive_ows",
   h_connection_upgrade |-> "h_connection_upgrade_ows",
   h_connection_token |-> "h_connection_token_ows"]

Flag ==
  [h_connection_close |-> "connection_close",
   h_connection_keep_alive |-> "connection_keep_alive",
   h_connection_upgrade |-> "connection_upgrade"]

\* Fault: an option with space behind it is forgotten.
FlagsOfWord(f) == {Flag[g] : g \in DOMAIN Flag \cap {f}}

FlagsOf(f) == {Flag[g] : g \in {g \in DOMAIN Flag : f \in {g, Ows[g]}}}

\* The states of a Connection value; "bad" refuses the octet.  An octet that
\* ends the match of an option makes a token of it, whatever the octet is.
ConnectionState(f, ch) ==
  CASE f = "h_matching_connection" -> "h_connection_token"
    [] f # "h_matching_connection" /\ ch = "," -> "h_connection"
    [] f = "h_connection" /\ ch \in DOMAIN Option -> Option[ch]
    [] f = "h_connection" /\ ch = "SP" -> f
    [] f \in DOMAIN Ows /\ ch = "SP" -> Ows[f]
    [] f \in Range(Ows) /\ ch = "SP" -> f
    [] f \in {"h_connection"} \cup DOMAIN Ows /\ ch \in Tchar \ DOMAIN Option ->
         "h_connection_token"
    [] f \in DOMAIN Ows /\ ch \in DOMAIN Option -> "h_connection_token"
    [] OTHER -> "bad"

ConnectionStates ==
  {"h_connection", "h_matching_connection"} \cup DOMAIN Ows \cup Range(Ows)

\* content_length_ * 10 + digit must stay below no_content_length.
Overflows == h.cl > (NoLength - Radix) \div Radix

Longer(ch) == h.cl * Radix + DigitValue(ch)

LengthState(f, ch) ==
  CASE f = "h_content_length0" /\ ch \in Digits -> "h_content_length"
    [] f = "h_content_length" /\ ch \in Digits /\ ~Overflows -> f
    [] f \in {"h_content_length", "h_content_length_ows"} /\ ch = "SP" ->
         "h_content_length_ows"
    [] OTHER -> "bad"

LengthStates == {"h_content_length0", "h_content_length", "h_content_length_ows"}

\* Only a list that ends in chunked is chunked.  The octet that ends the match
\* of chunked is not looked at again, a comma neither.
EncodingState(f, ch) ==
  CASE f = "h_transfer_encoding" ->
         (CASE ch = "chunked" -> "h_transfer_encoding_chunked"
            [] ch = "pre" -> "h_matching_transfer_encoding_chunked"
            [] ch \in {"SP", ","} -> f
            [] OTHER -> "h_matching_transfer_encoding_general")
    [] f = "h_matching_transfer_encoding_chunked" -> "h_matching_transfer_encoding_general"
    [] f = "h_transfer_encoding_chunked" ->
         (IF ch \in {"SP", ","} THEN f ELSE "h_transfer_encoding")
    [] OTHER -> (IF ch = "," THEN "h_transfer_encoding" ELSE f)

EncodingStates ==
  {"h_transfer_encoding", "h_transfer_encoding_chunked",
   "h_matching_transfer_encoding_chunked", "h_matching_transfer_encoding_general"}

ValueState(f, ch) ==
  CASE f \in ConnectionStates -> ConnectionState(f, ch)
    [] f \in LengthStates -> LengthState(f, ch)
    [] f \in EncodingStates -> EncodingState(f, ch)
    [] OTHER -> "h_general"

ValueFlags(f, ch) ==
  (IF ch = "," THEN FlagsOf(f) ELSE {}) \cup (IF f = "h_upgrade" THEN {"upgrade"} ELSE {})

ValueLength(f, ch) ==
  IF ch \notin Digits THEN h.cl
  ELSE CASE f = "h_content_length0" -> DigitValue(ch)
         [] f = "h_content_length" -> Longer(ch)
         [] OTHER -> h.cl

\* s_header_value
FieldValue ==
  /\ Turn({"s_header_value"})
  /\ \/ Ch = "CR" /\ CloseCb("s_header_value_lf")
     \/ /\ Ch \in Text /\ ValueState(h.fs, Ch) # "bad"
        /\ h' = [h EXCEPT !.fs = ValueState(@, Ch), !.cl = ValueLength(h.fs, Ch),
                          !.flags = @ \cup ValueFlags(h.fs, Ch)]
        /\ Break(s) /\ UNCHANGED pieceVars
     \/ /\ Ch # "CR" /\ (Ch \notin Text \/ ValueState(h.fs, Ch) = "bad")
        /\ Reject("bad")

\* s_header_value0_almost_done: a value may be empty, or begin after a fold.
EmptyValue ==
  /\ Turn({"s_header_value0_almost_done"})
  /\ \/ Ch = "SP" /\ Skip("s_header_value0")
     \/ Ch # "SP" /\ h.fs = "h_content_length0" /\ Reject("bad")
     \/ /\ Ch # "SP" /\ h.fs # "h_content_length0"
        /\ Deliver("value", << >>) /\ UNCHANGED <<cb, begin>>
        /\ h' = [h EXCEPT !.flags = IF h.fs = "h_upgrade" THEN @ \cup {"upgrade"} ELSE @]
        /\ IF ec' = "ok" THEN Redo("s_header_name0") ELSE Return("s_dead", p)

\* The state a fold leaves the value in.
Folded(f) ==
  CASE f \in DOMAIN Flag -> Ows[f]
    [] f = "h_matching_connection" -> "h_connection_token_ows"
    [] f = "h_content_length" -> "h_content_length_ows"
    [] f = "h_matching_transfer_encoding_chunked" -> "h_matching_transfer_encoding_general"
    [] OTHER -> f

EndFlags(f) ==
  FlagsOf(f) \cup (IF f = "h_transfer_encoding_chunked" THEN {"chunked"} ELSE {})

\* s_header_value_almost_done: a fold is reported as one space, and an error
\* of that report is not looked at; otherwise the value is over.
EndOfValue ==
  /\ Turn({"s_header_value_almost_done"})
  /\ \/ /\ Ch = "SP" /\ Break("s_header_value_unfold")
        /\ Deliver("value", <<"SP">>) /\ UNCHANGED <<cb, begin>>
        /\ h' = [h EXCEPT !.fs = Folded(@)]
     \/ /\ Ch # "SP" /\ Redo("s_header_name0") /\ UNCHANGED pieceVars
        /\ h' = [h EXCEPT !.flags = @ \cup EndFlags(h.fs)]

\* s_header_value_unfold
Unfolded ==
  Turn({"s_header_value_unfold"}) /\ OpenCb("value") /\ Redo("s_header_value") /\ UNCHANGED h

-----------------------------------------------------------------------------
\* needs_eof() and keep_alive()
NeedsEof ==
  /\ ~Message.req
  /\ h.status \notin {"100", "204", "304"} /\ "skipbody" \notin h.flags
  /\ "chunked" \notin h.flags /\ h.cl = NoLength

KeepAlive ==
  /\ IF h.minor = "HTTP/1.1" THEN "connection_close" \notin h.flags
     ELSE "connection_keep_alive" \in h.flags
  /\ ~NeedsEof

\* on_body_what of parser_v1: the body of the answer to a HEAD request is
\* skipped, for any other a reader is set up, which may fail.
BodyWhat(hs, st, q) ==
  \/ /\ Message.framing = "head"
     /\ h' = [hs EXCEPT !.flags = @ \cup {"skipbody"}] /\ ec' = ec
     /\ s' = st /\ p' = q /\ phase' = phase
  \/ /\ Message.framing # "head" /\ h' = hs /\ ec' = ec
     /\ s' = st /\ p' = q /\ phase' = phase
  \/ /\ Message.framing # "head" /\ h' = hs
     /\ ec' = "reader" /\ Return("s_dead", p)

WithUpgrade ==
  [h EXCEPT !.upg = {"upgrade", "connection_upgrade"} \subseteq h.flags]

TwoLengths == {"chunked", "contentlength"} \subseteq h.flags

\* s_headers_almost_done: on_body_what of headers_parser_v1 pauses.
HeadersEnd ==
  /\ Turn({"s_headers_almost_done"})
  /\ \/ Ch # "LF" /\ Reject("bad")
     \/ Ch = "LF" /\ "trailing" \in h.flags /\ Redo("s_complete") /\ UNCHANGED <<pieceVars, h>>
     \/ Ch = "LF" /\ "trailing" \notin h.flags /\ TwoLengths /\ Reject("bad")
     \/ /\ Ch = "LF" /\ "trailing" \notin h.flags /\ ~TwoLengths
        /\ heard' = Hear("headers", << >>) /\ UNCHANGED <<cb, begin, left>>
        /\ \/ ec # "ok" /\ ec' = ec /\ h' = WithUpgrade /\ Return("s_dead", p)
           \/ /\ ec = "ok" /\ stage = "headers" /\ ec' = ec
              /\ h' = WithUpgrade /\ Return("s_body_pause", p + 1)
           \/ ec = "ok" /\ stage # "headers" /\ BodyWhat(WithUpgrade, "s_headers_done", p)

\* Fault: p stays at the first octet of the body, which is then passed over.
ResumeAtBody ==
  /\ Turn({"s_body_pause"}) /\ UNCHANGED <<cb, begin, left, heard>>
  /\ \/ stage = "headers" /\ Return(s, p) /\ UNCHANGED <<h, ec>>
     \/ stage # "headers" /\ BodyWhat(h, "s_headers_done", p)

\* s_body_pause: a headers parser pauses again, the parser with_body made of
\* it goes on.
Resume ==
  /\ Turn({"s_body_pause"}) /\ UNCHANGED <<cb, begin, left, heard>>
  /\ \/ stage = "headers" /\ Return(s, p) /\ UNCHANGED <<h, ec>>
     \/ stage # "headers" /\ BodyWhat(h, "s_headers_done", p - 1)

HasBody == "chunked" \in h.flags \/ (h.cl > 0 /\ h.cl # NoLength)

NoBody ==
  \/ h.upg /\ ("skipbody" \in h.flags \/ ~HasBody)
  \/ "skipbody" \in h.flags \/ h.cl = 0

\* s_headers_done
HeadersDone ==
  /\ Turn({"s_headers_done"}) /\ UNCHANGED <<pieceVars, h>>
  /\ \/ NoBody /\ Redo("s_complete")
     \/ ~NoBody /\ "chunked" \in h.flags /\ Break("s_chunk_size0")
     \/ ~NoBody /\ "chunked" \notin h.flags /\ h.cl # NoLength /\ Break("s_body_identity0")
     \/ /\ ~NoBody /\ "chunked" \notin h.flags /\ h.cl = NoLength
        /\ IF NeedsEof THEN Break("s_body_identity_eof0") ELSE Redo("s_complete")

-----------------------------------------------------------------------------
\* s_body_identity0, s_body_identity_eof0, s_chunk_data0
BodyStart ==
  [s_body_identity0 |-> "s_body_identity", s_chunk_data0 |-> "s_chunk_data",
   s_body_identity_eof0 |-> "s_body_identity_eof"]

BodyBegins ==
  Turn(DOMAIN BodyStart) /\ OpenCb("body") /\ Redo(BodyStart[s]) /\ UNCHANGED h

\* What the buffer holds of the body or of the chunk.
Here == Min({end - p, h.cl})

\* s_body_identity: the last octet is left for s_complete to step over.
BodyIdentity ==
  /\ Turn({"s_body_identity"}) /\ UNCHANGED pieceVars
  /\ h' = [h EXCEPT !.cl = @ - Here]
  /\ \/ Here = h.cl /\ s' = "s_complete" /\ p' = p + Here - 1 /\ phase' = phase
     \/ Here # h.cl /\ s' = s /\ p' = p + Here /\ phase' = phase

\* s_body_identity_eof
BodyIdentityEof ==
  /\ Turn({"s_body_identity_eof"}) /\ UNCHANGED <<pieceVars, h>>
  /\ s' = s /\ p' = end /\ phase' = phase

\* s_chunk_size0, s_chunk_size
ChunkSize ==
  /\ Turn({"s_chunk_size0", "s_chunk_size"})
  /\ \/ s = "s_chunk_size" /\ Ch = "CR" /\ Skip("s_chunk_size_lf")
     \/ s = "s_chunk_size" /\ Ch = ";" /\ Skip("s_chunk_ext_name0")
     \/ /\ Ch \in Digits /\ (s = "s_chunk_size0" \/ ~Overflows)
        /\ h' = [h EXCEPT !.cl = IF s = "s_chunk_size0" THEN DigitValue(Ch) ELSE Longer(Ch)]
        /\ Break("s_chunk_size") /\ UNCHANGED pieceVars
     \/ /\ IF Ch \in Digits THEN s = "s_chunk_size" /\ Overflows
           ELSE s = "s_chunk_size0" \/ Ch \notin {"CR", ";"}
        /\ Reject("bad")

\* s_chunk_ext_name0, s_chunk_ext_name, s_chunk_ext_val: what follows an octet.
ExtState(st, ch) ==
  CASE st = "s_chunk_ext_name0" /\ ch \in Tchar -> "s_chunk_ext_name"
    [] st # "s_chunk_ext_name0" /\ ch = "CR" -> "s_chunk_size_lf"
    [] st = "s_chunk_ext_name" /\ ch = "=" -> "s_chunk_ext_val"
    [] st = "s_chunk_ext_name" /\ ch = ";" -> "s_chunk_ext_name0"
    [] st = "s_chunk_ext_name" /\ ch \in Tchar -> st
    [] st = "s_chunk_ext_val" /\ ch # "CR" -> st
    [] OTHER -> "bad"

ChunkExt ==
  /\ Turn({"s_chunk_ext_name0", "s_chunk_ext_name", "s_chunk_ext_val"})
  /\ \/ ExtState(s, Ch) # "bad" /\ Skip(ExtState(s, Ch))
     \/ ExtState(s, Ch) = "bad" /\ Reject("bad")

\* s_chunk_size_lf: a chunk of size zero is the last, the trailer follows.
ChunkHeaderEnd ==
  /\ Turn({"s_chunk_size_lf"})
  /\ \/ Ch # "LF" /\ Reject("bad")
     \/ Ch = "LF" /\ h.cl # 0 /\ Skip("s_chunk_data0")
     \/ /\ Ch = "LF" /\ h.cl = 0 /\ Break("s_header_name0") /\ UNCHANGED pieceVars
        /\ h' = [h EXCEPT !.flags = @ \cup {"trailing"}]

\* s_chunk_data
ChunkData ==
  /\ Turn({"s_chunk_data"}) /\ UNCHANGED pieceVars
  /\ h' = [h EXCEPT !.cl = @ - Here]
  /\ s' = (IF Here = h.cl THEN "s_chunk_data_cr" ELSE s)
  /\ p' = p + Here /\ phase' = phase

\* Fault: the callback of a chunk is not ended.
ChunkDataEndOpen == Turn({"s_chunk_data_cr"}) /\ Skip("s_chunk_data_lf")

\* s_chunk_data_cr
ChunkDataEnd ==
  /\ Turn({"s_chunk_data_cr"})
  /\ \/ Ch = "CR" /\ CloseCb("s_chunk_data_lf")
     \/ Ch # "CR" /\ Reject("bad")

\* s_complete: what is left of the body is delivered, then on_complete.
LastPiece ==
  /\ Turn({"s_complete"}) /\ Pending(p + 1)
  /\ Flush(p + 1) /\ UNCHANGED <<begin, h>>
  /\ IF ec' # "ok" THEN Return("s_dead", p + 1) /\ cb' = cb
     ELSE Redo(s) /\ cb' = "none"

Complete ==
  /\ Turn({"s_complete"}) /\ ~Pending(p + 1)
  /\ heard' = Hear("complete", << >>) /\ cb' = "none"
  /\ Return(IF ec = "ok" THEN "s_restart" ELSE "s_dead", p + 1)
  /\ UNCHANGED <<begin, ec, left, h>>

\* s_restart and reset()
Fresh == IF Message.req THEN "s_req_start" ELSE "s_res_start"
Limits == [h |-> opts.hmax, b |-> opts.bmax]

\* Fault: reset() leaves what is left of the limits.
RestartKeepLimits ==
  /\ Turn({"s_restart"})
  /\ Redo(IF KeepAlive THEN Fresh ELSE "s_dead")
  /\ UNCHANGED <<left, cb, begin, ec, heard, h>>

\* Fault: a connection that ends stays in s_restart.
RestartForever ==
  /\ Turn({"s_restart"})
  /\ Redo(IF KeepAlive THEN Fresh ELSE s) /\ left' = Limits
  /\ UNCHANGED <<cb, begin, ec, heard, h>>

Restart ==
  /\ Turn({"s_restart"})
  /\ \/ KeepAlive /\ Redo(Fresh) /\ left' = Limits /\ cb' = "none"
     \/ ~KeepAlive /\ Redo("s_dead") /\ UNCHANGED <<left, cb>>
  /\ UNCHANGED <<begin, ec, heard, h>>

\* The end of the buffer: the piece so far is delivered, its element goes on.
EndOfBuffer ==
  /\ phase = "write" /\ p = end
  /\ phase' = "returned" /\ UNCHANGED <<cb, begin, h, p, fixed, from, end, used, loopVars, stage, msg>>
  /\ \/ cb = "none" /\ UNCHANGED <<s, ec, left, heard>>
     \/ /\ cb # "none" /\ Deliver(cb, SubSeq(wire, begin + 1, p))
        /\ s' = IF ec' = "ok" THEN s ELSE "s_dead"

-----------------------------------------------------------------------------
\* write(buffers, ec): the buffers of data() one after the other.
Buffer(from_, end_) ==
  phase' = "write" /\ from' = from_ /\ p' = from_ /\ begin' = from_ /\ end' = end_

EndOf(i) == FoldSeq(LAMBDA m, n : n + Len(WireOf(m)), 0, SubSeq(stream, 1, i))
HeadersEndOf(i) == EndOf(i - 1) + Len(HeaderOctets(stream[i]))

\* Where parse() has to stop.
StopAt == IF stage = "headers" THEN HeadersEndOf(msg) ELSE EndOf(msg)

FirstEnds ==
  {have} \cup {e \in {base + n : n \in FirstSizes} : e < have /\ (EndsEarly \/ e < StopAt)}

BeginWrite ==
  /\ phase = "call" /\ used' = 0
  /\ \/ base < have /\ \E e \in FirstEnds : Buffer(base, e)
     \/ /\ base = have /\ phase' = "returned"
        /\ from' = base /\ p' = base /\ begin' = base /\ end' = base
  /\ UNCHANGED <<fixed, s, cb, h, left, ec, heard, loopVars, stage, msg>>

\* complete()
IsComplete == s \in {"s_restart", "s_closed_complete", "s_body_pause"}

Returned(cond) ==
  /\ phase = "returned" /\ cond
  /\ used' = used + (p - from)
  /\ UNCHANGED <<fixed, s, cb, h, left, ec, heard, have, stage, msg>>

WriteNext == Returned(ec = "ok" /\ end < have) /\ Buffer(end, have) /\ UNCHANGED <<base, started>>

\* parse(): what write() used is consumed, and more is read if need be.
WriteFailed ==
  Returned(ec # "ok") /\ phase' = "done" /\ UNCHANGED <<base, started, begin, p, from, end>>

Consume ==
  /\ Returned(ec = "ok" /\ end = have)
  /\ base' = base + used' /\ started' = (started \/ used' > 0)
  /\ phase' = (IF IsComplete THEN "done" ELSE "read")
  /\ UNCHANGED <<begin, p, from, end>>

Reading ==
  phase = "read" /\ UNCHANGED <<fixed, h, begin, p, from, end, used, left, base, started, stage, msg>>

Read ==
  /\ Reading /\ have < Len(wire) /\ phase' = "call"
  /\ have' \in {Min({have + n, Len(wire)}) : n \in ReadSizes \cup {Len(wire)}}
  /\ UNCHANGED <<s, cb, ec, heard>>

\* The stream ends: write_eof().
ReadEof ==
  /\ Reading /\ phase' = "done" /\ UNCHANGED have
  /\ \/ ~started /\ ec' = "eof" /\ UNCHANGED <<s, cb, heard>>
     \/ /\ started /\ s \in {"s_body_identity_eof0", "s_body_identity_eof"}
        /\ heard' = Hear("complete", << >>)
        /\ s' = "s_closed_complete" /\ cb' = "none" /\ ec' = ec
     \/ /\ started /\ s \notin {"s_body_identity_eof0", "s_body_identity_eof"}
        /\ s' = "s_dead" /\ ec' = "short_read" /\ UNCHANGED <<cb, heard>>

ReadFails ==
  /\ Reading /\ phase' = "done" /\ ec' = "io" /\ UNCHANGED <<have, s, cb, heard>>

-----------------------------------------------------------------------------
\* The caller: parse() has returned without an error.
Succeeded == phase = "done" /\ ec = "ok"

CallAgain ==
  /\ phase' = "call" /\ started' = FALSE
  /\ UNCHANGED <<fixed, h, ec, p, begin, from, end, used, base, have>>

AtHand == EmptyCall \/ base < have

\* with_body and the second call of parse().
SecondStage ==
  /\ Succeeded /\ stage = "headers" /\ AtHand /\ CallAgain
  /\ stage' = "body" /\ cb' = "none" /\ UNCHANGED <<s, left, msg, heard>>

\* parse() again with a headers parser that is done.
SameHeaders ==
  /\ Succeeded /\ stage = "headers" /\ AtHand /\ CallAgain
  /\ UNCHANGED <<s, cb, left, stage, msg, heard>>

\* read() of the next message, with a parser of its own ...
NextMessage ==
  /\ Succeeded /\ stage # "headers" /\ msg < Len(stream) /\ CallAgain
  /\ msg' = msg + 1 /\ heard' = << >>
  /\ s' = Fresh /\ cb' = "none" /\ left' = Limits
  /\ stage' = IF opts.stages THEN "headers" ELSE "whole"

\* ... or with the same parser again.
SameParser ==
  /\ Succeeded /\ stage = "whole" /\ msg < Len(stream) /\ AtHand /\ CallAgain
  /\ msg' = msg + 1 /\ heard' = << >> /\ UNCHANGED <<s, cb, left, stage>>

-----------------------------------------------------------------------------
Init ==
  /\ stream \in Streams
  /\ wire = WireOfAll(stream)
  /\ opts \in Callers
  /\ msg = 1 /\ s = Fresh /\ cb = "none" /\ left = Limits
  /\ h = [fs |-> "h_general", flags |-> {}, cl |-> NoLength, minor |-> "HTTP/1.1",
          status |-> "200", upg |-> FALSE]
  /\ phase = "call" /\ ec = "ok" /\ started = FALSE /\ heard = << >>
  /\ stage = (IF opts.stages THEN "headers" ELSE "whole")
  /\ p = 0 /\ begin = 0 /\ from = 0 /\ end = 0 /\ used = 0 /\ base = 0 /\ have = 0

StartLineSteps ==
  \/ Closed \/ Start \/ MatchLiteral \/ FirstOfPart \/ RestOfPart \/ Version
  \/ StatusCode \/ RequestLine \/ ResponseLine

FieldSteps ==
  \/ FieldName0 \/ FieldName \/ FieldValue0 \/ FieldValue \/ EmptyValue \/ EndOfValue
  \/ Unfolded \/ HeadersEnd \/ Resume \/ HeadersDone

BodySteps ==
  \/ BodyBegins \/ BodyIdentity \/ BodyIdentityEof \/ ChunkSize \/ ChunkExt
  \/ ChunkHeaderEnd \/ ChunkData \/ ChunkDataEnd \/ LastPiece \/ Complete \/ Restart

WriteSteps ==
  \/ StartLineSteps \/ FieldSteps \/ BodySteps
  \/ EndOfBuffer \/ BeginWrite \/ WriteNext \/ WriteFailed \/ Consume

Next ==
  \/ WriteSteps \/ Read \/ ReadEof \/ ReadFails
  \/ SecondStage \/ SameHeaders \/ NextMessage \/ SameParser

\* write() runs to its end, and a read ends: with octets, or at the end of the
\* stream, or with an error.
Spec ==
  Init /\ [][Next]_vars /\ WF_vars(WriteSteps) /\ WF_vars(Read \/ ReadEof \/ ReadFails)

-----------------------------------------------------------------------------
\* The octets of the body that have arrived, if only the end of the stream
\* ends it.
BodyHeard ==
  IF Message.framing = "eof" THEN have - HeadersEndOf(msg) ELSE BodySize(Message)

\* When parse() returns without an error exactly one message has been
\* reported (or its headers, by the headers parser), each element whole, once
\* and in order however the octets were cut into reads, and the buffer begins
\* with the octet that follows it.
OneMessage ==
  Succeeded =>
    IF stage = "headers"
       THEN /\ Message.ill # "headers" /\ Message.bad \notin 1 .. Len(HeaderOctets(Message))
            /\ heard = HeaderEvents(Message) /\ base = HeadersEndOf(msg)
       ELSE /\ Message.ill = "no" /\ Message.bad = 0
            /\ heard = MessageEvents(Message, BodyHeard)
            /\ base = IF Message.framing = "eof" THEN have ELSE EndOf(msg)

HeaderCount ==
  FoldSeq(LAMBDA e, n : n + IF e.k = "body" THEN 0 ELSE Len(e.o), 0, heard)
BodyCount ==
  FoldSeq(LAMBDA e, n : n + IF e.k = "body" THEN Len(e.o) ELSE 0, 0, heard)

\* When the second stage of a message has succeeded its body has been read.
BodyIsRead == Succeeded /\ stage = "body" => BodyCount = BodyHeard

\* parse() reports an error only for a reason: the message is ill-formed, it
\* is over a limit, the stream ended inside it or (eof) in front of it, or
\* the previous message said that the connection ends.  And it does stop at
\* the limits: no more than they allow is ever handed to the caller, whether
\* a message comes in one piece or many, in one stage or two, first or later
\* on its connection.
ErrorIsJust ==
  /\ opts.hmax # 0 => HeaderCount <= opts.hmax
  /\ opts.bmax # 0 => BodyCount <= opts.bmax
  /\ phase = "done" =>
       /\ ec = "bad" => Message.bad # 0 \/ Message.ill # "no"
       /\ ec = "headers_too_big" => opts.hmax # 0 /\ HeaderLoad(Message) > opts.hmax
       /\ ec = "body_too_big" => opts.bmax # 0 /\ BodySize(Message) > opts.bmax
       /\ ec = "short_read" => have < EndOf(msg)
       /\ ec = "eof" => have = EndOf(msg - 1)
       /\ ec = "connection_closed" => msg > 1 /\ ~Persists(stream[msg - 1])

\* keep_alive() of a parser that has finished a message says what the
\* Connection fields, the version and the framing of the message say.
KeepAliveAgrees == Succeeded /\ stage # "headers" => KeepAlive = Persists(Message)

\* The assertions of write(): no callback is pending where an element begins,
\* the headers end or the parser is copied, and the length left of a body is a
\* length.  And the count write() returns is one of octets it was given, also
\* where it steps back to resume after a pause, so that parse() consumes no
\* octet that has not been read.
AssertsHold ==
  /\ phase = "write" /\ s \in {"s_req_url0", "s_res_reason0", "s_header_name0",
       "s_header_value0", "s_header_value0_almost_done", "s_header_value_unfold",
       "s_headers_done", "s_body_pause"} \cup DOMAIN BodyStart => cb = "none"
  /\ s = "s_body_identity" => h.cl \notin {0, NoLength}
  /\ phase = "done" /\ ec = "ok" => IsComplete /\ cb = "none"
  /\ phase = "returned" => from <= p /\ p <= end
  /\ base <= have /\ have <= Len(wire)

\* parse() returns, if the reads from the stream do.
ParseReturns == phase # "done" ~> phase = "done"

=============================================================================
