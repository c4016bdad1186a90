-------------------------- MODULE HttpParserProofs --------------------------
(***************************************************************************)
(* Proofs about basic_parser_v1 and parse() (HttpParser): its assertions   *)
(* hold and it stays inside its buffers, whatever the peer sends, however  *)
(* the octets are cut into reads and buffers, for every limit and base.    *)
(***************************************************************************)
EXTENDS HttpParser, TLAPS

-----------------------------------------------------------------------------
(* The inductive invariant.                                                *)

\* The states in which no callback is set.
Quiet ==
  {"s_req_start", "s_res_start", "s_res_space_1", "s_res_status0", "s_res_space_2",
   "s_res_reason0", "s_res_line_lf", "s_res_line_done", "s_req_url0", "s_req_http",
   "s_req_cr", "s_req_lf", "s_header_name0", "s_header_value0", "s_header_value0_lf",
   "s_header_value0_almost_done", "s_header_value_lf", "s_header_value_almost_done",
   "s_header_value_unfold", "s_headers_almost_done", "s_body_pause", "s_headers_done",
   "s_body_identity0", "s_body_identity_eof0", "s_chunk_size0", "s_chunk_size",
   "s_chunk_ext_name0", "s_chunk_ext_name", "s_chunk_ext_val", "s_chunk_size_lf",
   "s_chunk_data0", "s_chunk_data_lf", "s_restart", "s_closed_complete"}

QuietInv == s \in Quiet => cb = "none"

\* content_length_ is a length or no_content_length; h is a record.
Headers(hs) ==
  /\ hs = [fs |-> hs.fs, flags |-> hs.flags, cl |-> hs.cl, minor |-> hs.minor,
           status |-> hs.status, upg |-> hs.upg]
  /\ hs.cl \in 0 .. NoLength

LengthInv ==
  Headers(h) /\ (s \in {"s_body_identity0", "s_body_identity"} => h.cl \notin {0, NoLength})

\* Where write() is in its buffer.  After a pause it starts one octet before
\* the buffer, for the step that moves over the end of the headers.
PlaceInv ==
  /\ wire = WireOfAll(stream) /\ stream \in Streams
  /\ p \in Int /\ {from, end, used, base, have} \subseteq Int
  /\ 0 <= base /\ base <= have /\ have <= Len(wire)
  /\ phase \in {"call", "write", "returned", "read", "done"}
  /\ phase \in {"write", "returned"} =>
       /\ 0 <= used /\ used <= from - base /\ end <= have
       /\ p <= end /\ from - 1 <= p
  /\ phase = "write" => from < end /\ (s \notin {"s_headers_done", "s_complete"} => from <= p)
  /\ phase = "returned" => from <= p

DoneInv == phase = "done" /\ ec = "ok" => IsComplete

ParserInv == QuietInv /\ LengthInv /\ PlaceInv /\ DoneInv

-----------------------------------------------------------------------------
LEMMA AssertsFollow == ParserInv => AssertsHold
BY DEF ParserInv, QuietInv, LengthInv, PlaceInv, DoneInv, AssertsHold, Quiet, BodyStart, IsComplete

LEMMA WireLength == PlaceInv => Len(wire) \in Nat
BY WireAssumption DEF PlaceInv

LEMMA ParserInit == Init => ParserInv
<1>. SUFFICES ASSUME Init PROVE ParserInv
  OBVIOUS
<1>1. Len(wire) \in Nat
  BY WireAssumption DEF Init
<1>2. QuietInv
  BY DEF Init, QuietInv
<1>3. LengthInv
  BY ParserAssumption DEF Init, LengthInv, Headers, Fresh
<1>4. PlaceInv
  BY <1>1 DEF Init, PlaceInv
<1>5. DoneInv
  BY DEF Init, DoneInv
<1>. QED BY <1>2, <1>3, <1>4, <1>5 DEF ParserInv

-----------------------------------------------------------------------------
(* A turn of the loop in write().                                          *)

Two == {"s_headers_done", "s_complete"}
Bodies == {"s_body_identity0", "s_body_identity"}

\* What a turn has to leave behind.
Steps ==
  /\ p' \in Int /\ p' <= end /\ phase' \in {"write", "returned"}
  /\ p <= p' \/ (p' = p - 1 /\ s \notin Two /\ phase' = "write" /\ s' \in Two)
  /\ p' = p /\ s \in Two => phase' = "write" /\ s' \in Two
  /\ s' \in Quiet => cb' = "none"
  /\ Headers(h') /\ (s' \in Bodies => h'.cl \notin {0, NoLength})

Frame == UNCHANGED <<stream, wire, from, end, used, base, have>>

LEMMA Turned ==
  ASSUME ParserInv, NEW S, Turn(S) PROVE Steps => ParserInv'
<1>. SUFFICES ASSUME Steps PROVE ParserInv'
  OBVIOUS
<1>1. phase = "write" /\ p < end /\ Frame
  BY DEF Turn, fixed, loopVars, Frame
<1>2. QuietInv' /\ LengthInv' /\ DoneInv'
  BY DEF Steps, QuietInv, LengthInv, DoneInv, Bodies
<1>3. PlaceInv'
  <2>1. Len(wire) \in Nat
    BY WireLength DEF ParserInv
  <2>. QED BY <1>1, <2>1 DEF Steps, Two, Frame, ParserInv, PlaceInv
<1>. QED BY <1>2, <1>3 DEF ParserInv

\* What is known in a turn.
Turning ==
  /\ phase = "write" /\ p \in Int /\ end \in Int /\ p < end
  /\ Headers(h) /\ (s \in Quiet => cb = "none")

LEMMA InTurn == ASSUME ParserInv, NEW S, Turn(S) PROVE Turning /\ s \in S
BY DEF ParserInv, QuietInv, LengthInv, PlaceInv, Turn, Turning

LEMMA HeaderField ==
  ASSUME NEW hs, Headers(hs), NEW x
  PROVE  /\ Headers([hs EXCEPT !.fs = x]) /\ [hs EXCEPT !.fs = x].cl = hs.cl
         /\ Headers([hs EXCEPT !.flags = x]) /\ [hs EXCEPT !.flags = x].cl = hs.cl
         /\ Headers([hs EXCEPT !.minor = x]) /\ [hs EXCEPT !.minor = x].cl = hs.cl
         /\ Headers([hs EXCEPT !.status = x]) /\ [hs EXCEPT !.status = x].cl = hs.cl
         /\ Headers([hs EXCEPT !.upg = x]) /\ [hs EXCEPT !.upg = x].cl = hs.cl
         /\ x \in 0 .. NoLength => Headers([hs EXCEPT !.cl = x]) /\ [hs EXCEPT !.cl = x].cl = x
<1>1. PICK f, g, c, m, st, u : hs = [fs |-> f, flags |-> g, cl |-> c, minor |-> m,
                                     status |-> st, upg |-> u]
  BY DEF Headers
<1>2. c \in 0 .. NoLength
  BY <1>1 DEF Headers
<1>. DEFINE Rec(a1, a2, a3, a4, a5, a6) ==
              [fs |-> a1, flags |-> a2, cl |-> a3, minor |-> a4, status |-> a5, upg |-> a6]
<1>3. ASSUME NEW a1, NEW a2, NEW a3 \in 0 .. NoLength, NEW a4, NEW a5, NEW a6
      PROVE  Headers(Rec(a1, a2, a3, a4, a5, a6)) /\ Rec(a1, a2, a3, a4, a5, a6).cl = a3
  BY <1>3 DEF Headers
<1>4. hs = Rec(f, g, c, m, st, u) /\ hs.cl = c
  BY <1>1
<1>5. /\ [hs EXCEPT !.fs = x] = Rec(x, g, c, m, st, u)
      /\ [hs EXCEPT !.flags = x] = Rec(f, x, c, m, st, u)
      /\ [hs EXCEPT !.minor = x] = Rec(f, g, c, x, st, u)
      /\ [hs EXCEPT !.status = x] = Rec(f, g, c, m, x, u)
      /\ [hs EXCEPT !.upg = x] = Rec(f, g, c, m, st, x)
      /\ [hs EXCEPT !.cl = x] = Rec(f, g, x, m, st, u)
  BY <1>1
<1>. HIDE DEF Rec
<1>6. /\ Headers([hs EXCEPT !.fs = x]) /\ [hs EXCEPT !.fs = x].cl = hs.cl
      /\ Headers([hs EXCEPT !.flags = x]) /\ [hs EXCEPT !.flags = x].cl = hs.cl
  BY <1>2, <1>3, <1>4, <1>5
<1>7. /\ Headers([hs EXCEPT !.minor = x]) /\ [hs EXCEPT !.minor = x].cl = hs.cl
      /\ Headers([hs EXCEPT !.status = x]) /\ [hs EXCEPT !.status = x].cl = hs.cl
  BY <1>2, <1>3, <1>4, <1>5
<1>8. Headers([hs EXCEPT !.upg = x]) /\ [hs EXCEPT !.upg = x].cl = hs.cl
  BY <1>2, <1>3, <1>4, <1>5
<1>9. x \in 0 .. NoLength => Headers([hs EXCEPT !.cl = x]) /\ [hs EXCEPT !.cl = x].cl = x
  BY <1>3, <1>5
<1>. QED BY <1>6, <1>7, <1>8, <1>9

LEMMA HeaderFields ==
  ASSUME NEW hs, Headers(hs), NEW x, NEW y, NEW n \in 0 .. NoLength
  PROVE  /\ Headers([hs EXCEPT !.cl = n, !.flags = x])
         /\ Headers([hs EXCEPT !.flags = x, !.cl = n, !.minor = y])
         /\ Headers([hs EXCEPT !.fs = x, !.cl = n, !.flags = y])
<1>. DEFINE a == [hs EXCEPT !.cl = n]
            b == [hs EXCEPT !.flags = x]
            c == [hs EXCEPT !.fs = x]
            d == [b EXCEPT !.cl = n]
            e == [c EXCEPT !.cl = n]
<1>1. Headers(a) /\ Headers(b) /\ Headers(c)
  BY HeaderField
<1>. HIDE DEF a, b, c
<1>2. Headers(d) /\ Headers(e)
  BY <1>1, HeaderField
<1>. HIDE DEF d, e
<1>3. Headers([a EXCEPT !.flags = x]) /\ Headers([d EXCEPT !.minor = y]) /\ Headers([e EXCEPT !.flags = y])
  BY <1>1, <1>2, HeaderField
<1>. QED BY <1>3 DEF a, b, c, d, e

\* Steps that refuse the octet, or move on with the headers as they are.
LEMMA Refuses ==
  ASSUME Turning, s \notin Two, NEW e, Reject(e) PROVE Steps
BY DEF Turning, Reject, Return, Steps, Quiet, Bodies

LEMMA Skips ==
  ASSUME Turning, s \in Quiet, NEW st, st \notin Bodies, Skip(st) PROVE Steps
BY DEF Turning, Skip, Break, Steps, Bodies, pieceVars

LEMMA Closes ==
  ASSUME Turning, NEW st \in Quiet \ Bodies, CloseCb(st), s \notin Two PROVE Steps
BY DEF Turning, CloseCb, Break, Return, Steps, Bodies, Quiet

-----------------------------------------------------------------------------
(* The start line.                                                         *)

LEMMA KeepsClosed == ASSUME ParserInv, Closed PROVE ParserInv'
<1>1. Turning /\ s \in {"s_dead", "s_closed_complete"}
  BY InTurn DEF Closed
<1>2. Steps
  BY <1>1, Refuses DEF Closed, Two
<1>. QED BY <1>2, Turned DEF Closed

LEMMA KeepsStart == ASSUME ParserInv, Start PROVE ParserInv'
<1>1. Turning /\ s \in {"s_req_start", "s_res_start"}
  BY InTurn DEF Start, FirstOf
<1>2. CASE Reject("bad")
  <2>1. Steps
    BY <1>1, <1>2, Refuses DEF Two
  <2>. QED BY <2>1, Turned DEF Start
<1>3. CASE /\ h' = [h EXCEPT !.flags = {}, !.cl = NoLength,
                             !.minor = IF s = "s_res_start" THEN Ch ELSE @]
           /\ IF s = "s_res_start" THEN cb' = "none" /\ begin' = begin /\ Break("s_res_space_1")
              ELSE cb' = "method" /\ begin' = p /\ Break("s_req_method")
  <2>1. Headers(h')
    <3>1. NoLength \in 0 .. NoLength
      BY ParserAssumption
    <3>2. PICK m : h' = [h EXCEPT !.flags = {}, !.cl = NoLength, !.minor = m]
      BY <1>3
    <3>. QED BY <1>1, <3>1, <3>2, HeaderFields DEF Turning
  <2>2. Steps
    BY <1>1, <1>3, <2>1 DEF Turning, Steps, Break, Two, Quiet, Bodies
  <2>. QED BY <2>2, Turned DEF Start
<1>. QED BY <1>2, <1>3 DEF Start

LEMMA KeepsLiteral == ASSUME ParserInv, MatchLiteral PROVE ParserInv'
<1>1. /\ Turning /\ s \in {"s_req_cr", "s_res_space_1", "s_res_space_2", "s_res_line_lf",
                           "s_header_value0_lf", "s_header_value_lf", "s_chunk_data_lf"}
  BY InTurn DEF MatchLiteral, Literal
<1>2. Literal[s][2] \notin Bodies /\ s \in Quiet /\ s \notin Two
  BY <1>1 DEF Literal, Bodies, Quiet, Two
<1>3. Steps
  <2>1. CASE Skip(Literal[s][2])
    BY <1>1, <1>2, <2>1, Skips
  <2>2. CASE Reject("bad")
    BY <1>1, <1>2, <2>2, Refuses
  <2>. QED BY <2>1, <2>2 DEF MatchLiteral
<1>. QED BY <1>3, Turned DEF MatchLiteral

\* OpenCb, and the state of the element it begins.
LEMMA OpensCb ==
  ASSUME Turning, s \notin Two, NEW k, NEW st, st \notin Quiet \cup Bodies, OpenCb(k), Headers(h'),
         Break(st) \/ Redo(st)
  PROVE  Steps
BY DEF Turning, Steps, Break, Redo, Quiet, Bodies

LEMMA KeepsFirstOfPart == ASSUME ParserInv, FirstOfPart PROVE ParserInv'
<1>1. Turning /\ s \in {"s_req_url0", "s_res_reason0"}
  BY InTurn DEF FirstOfPart
<1>2. s \notin Two /\ s \in Quiet
  BY <1>1 DEF Two, Quiet
<1>3. ASSUME NEW k, NEW st \in {"s_req_url", "s_res_reason"}, OpenCb(k), Break(st), UNCHANGED h
      PROVE  Steps
  <2>1. st \notin Quiet \cup Bodies /\ Headers(h')
    BY <1>1, <1>3 DEF Quiet, Bodies, Turning
  <2>. QED BY <1>1, <1>2, <1>3, <2>1, OpensCb
<1>4. ASSUME Skip("s_res_line_lf") PROVE Steps
  BY <1>1, <1>2, <1>4, Skips DEF Bodies
<1>5. Steps
  BY <1>1, <1>2, <1>3, <1>4, Refuses DEF FirstOfPart
<1>. QED BY <1>5, Turned DEF FirstOfPart

LEMMA KeepsRestOfPart == ASSUME ParserInv, RestOfPart PROVE ParserInv'
<1>1. Turning /\ s \in {"s_req_method", "s_req_url", "s_res_reason"}
  BY InTurn DEF RestOfPart, Part
<1>2. s \notin Two /\ s \notin Quiet /\ s \notin Bodies
  BY <1>1 DEF Two, Quiet, Bodies
<1>3. Part[s].then \in Quiet \ Bodies
  BY <1>1 DEF Part, Quiet, Bodies
<1>4. ASSUME Skip(s) PROVE Steps
  BY <1>1, <1>2, <1>4 DEF Turning, Skip, Break, Steps, pieceVars
<1>5. ASSUME CloseCb(Part[s].then) PROVE Steps
  BY <1>1, <1>2, <1>3, <1>5, Closes
<1>6. Steps
  BY <1>1, <1>2, <1>4, <1>5, Refuses DEF RestOfPart
<1>. QED BY <1>6, Turned DEF RestOfPart

LEMMA KeepsVersion == ASSUME ParserInv, Version \/ StatusCode PROVE ParserInv'
<1>1. Turning /\ s \in {"s_req_http", "s_res_status0"}
  BY InTurn DEF Version, StatusCode
<1>2. s \notin Two /\ s \in Quiet
  BY <1>1 DEF Two, Quiet
<1>3. ASSUME NEW st \in {"s_req_cr", "s_res_space_2"}, Break(st), Headers(h'), UNCHANGED pieceVars
      PROVE  Steps
  BY <1>1, <1>2, <1>3 DEF Turning, Steps, Break, Bodies, pieceVars
<1>4. CASE Version
  <2>1. h' = [h EXCEPT !.minor = Ch] => Headers(h')
    <3>1. Headers([h EXCEPT !.minor = Ch])
      BY <1>1, HeaderField DEF Turning
    <3>. QED BY <3>1
  <2>2. Steps
    BY <1>1, <1>2, <1>3, <1>4, <2>1, Refuses DEF Version
  <2>. QED BY <1>4, <2>2, Turned DEF Version
<1>5. CASE StatusCode
  <2>1. h' = [h EXCEPT !.status = Ch] => Headers(h')
    <3>1. Headers([h EXCEPT !.status = Ch])
      BY <1>1, HeaderField DEF Turning
    <3>. QED BY <3>1
  <2>2. Steps
    BY <1>1, <1>2, <1>3, <1>5, <2>1, Refuses DEF StatusCode
  <2>. QED BY <1>5, <2>2, Turned DEF StatusCode
<1>. QED BY <1>4, <1>5

LEMMA KeepsLine == ASSUME ParserInv, RequestLine \/ ResponseLine PROVE ParserInv'
<1>1. Turning /\ s \in {"s_req_lf", "s_res_line_done"}
  BY InTurn DEF RequestLine, ResponseLine
<1>2. s \notin Two /\ s \in Quiet
  BY <1>1 DEF Two, Quiet
<1>3. ASSUME NEW k, Tell(k), Break("s_header_name0") \/ Redo("s_header_name0"), UNCHANGED h
      PROVE  Steps
  BY <1>1, <1>2, <1>3 DEF Turning, Steps, Break, Redo, Tell, Bodies
<1>4. CASE RequestLine
  <2>1. Steps
    BY <1>1, <1>2, <1>3, <1>4, Refuses DEF RequestLine
  <2>. QED BY <1>4, <2>1, Turned DEF RequestLine
<1>5. CASE ResponseLine
  <2>1. Steps
    BY <1>3, <1>5 DEF ResponseLine
  <2>. QED BY <1>5, <2>1, Turned DEF ResponseLine
<1>. QED BY <1>4, <1>5

-----------------------------------------------------------------------------
(* The fields.                                                             *)

\* The check in front of content_length_ * 10 + digit is enough.
LEMMA NoOverflow ==
  ASSUME NEW c \in Nat, NEW r \in Nat \ {0, 1}, NEW n \in Nat, n >= r, NEW d \in {0, 1},
         ~(c > (n - r) \div r)
  PROVE  c * r + d \in 0 .. n
<1>. DEFINE q == (n - r) \div r
<1>1. q \in Nat /\ q * r <= n - r
  OBVIOUS
<1>2. c <= q
  BY <1>1
<1>. HIDE DEF q
<1>3. c * r <= q * r /\ c * r \in Nat
  BY <1>1, <1>2
<1>. QED BY <1>1, <1>3

LEMMA LengthFits ==
  ASSUME Headers(h), ValueState(h.fs, Ch) # "bad"
  PROVE  ValueLength(h.fs, Ch) \in 0 .. NoLength
<1>1. h.cl \in 0 .. NoLength /\ h.cl \in Nat /\ 0 \in 0 .. NoLength /\ 1 \in 0 .. NoLength
  BY ParserAssumption DEF Headers
<1>2. DigitValue(Ch) \in {0, 1}
  BY DEF DigitValue
<1>3. ASSUME h.fs = "h_content_length", Ch \in Digits PROVE ~Overflows
  <2>1. h.fs \notin ConnectionStates
    <3>1. DOMAIN Ows = {"h_connection_close", "h_connection_keep_alive", "h_connection_upgrade",
                        "h_connection_token"}
      BY DEF Ows
    <3>2. \A x \in DOMAIN Ows : Ows[x] # "h_content_length"
      BY DEF Ows
    <3>3. h.fs \notin Range(Ows) /\ h.fs \notin DOMAIN Ows
      BY <1>3, <3>1, <3>2 DEF Range
    <3>. QED BY <1>3, <3>3 DEF ConnectionStates
  <2>2. h.fs \in LengthStates /\ h.fs \notin EncodingStates /\ h.fs # "h_content_length0"
    BY <1>3 DEF LengthStates, EncodingStates
  <2>3. ValueState(h.fs, Ch) = LengthState(h.fs, Ch)
    BY <2>1, <2>2 DEF ValueState
  <2>4. Ch # "SP"
    BY <1>3 DEF Digits
  <2>. QED BY <1>3, <2>2, <2>3, <2>4 DEF LengthState
<1>4. ~Overflows => Longer(Ch) \in 0 .. NoLength
  BY <1>1, <1>2, NoOverflow, ParserAssumption DEF Overflows, Longer
<1>. QED BY <1>1, <1>2, <1>3, <1>4 DEF ValueLength

LEMMA KeepsFieldName0 == ASSUME ParserInv, FieldName0 PROVE ParserInv'
<1>1. Turning /\ s = "s_header_name0"
  BY InTurn DEF FieldName0
<1>2. s \notin Two /\ s \in Quiet
  BY <1>1 DEF Two, Quiet
<1>3. ASSUME NEW x, h' = [h EXCEPT !.fs = x], OpenCb("field"), Break("s_header_name") PROVE Steps
  <2>1. Headers(h')
    <3>1. Headers([h EXCEPT !.fs = x])
      BY <1>1, HeaderField DEF Turning
    <3>. QED BY <1>3, <3>1
  <2>2. "s_header_name" \notin Quiet \cup Bodies
    BY DEF Quiet, Bodies
  <2>. QED BY <1>1, <1>2, <1>3, <2>1, <2>2, OpensCb
<1>4. ASSUME Skip("s_headers_almost_done") PROVE Steps
  BY <1>1, <1>2, <1>4, Skips DEF Bodies
<1>5. Steps
  BY <1>1, <1>2, <1>3, <1>4, Refuses DEF FieldName0
<1>. QED BY <1>5, Turned DEF FieldName0

LEMMA KeepsFieldName == ASSUME ParserInv, FieldName PROVE ParserInv'
<1>1. Turning /\ s = "s_header_name"
  BY InTurn DEF FieldName
<1>2. s \notin Two \cup Quiet \cup Bodies
  BY <1>1 DEF Two, Quiet, Bodies
<1>3. ASSUME h' = [h EXCEPT !.fs = "h_general"], Break(s), UNCHANGED pieceVars PROVE Steps
  <2>1. Headers(h')
    <3>1. Headers([h EXCEPT !.fs = "h_general"])
      BY <1>1, HeaderField DEF Turning
    <3>. QED BY <1>3, <3>1
  <2>. QED BY <1>1, <1>2, <1>3, <2>1 DEF Turning, Steps, Break
<1>4. ASSUME CloseCb("s_header_value0") PROVE Steps
  <2>1. "s_header_value0" \in Quiet \ Bodies
    BY DEF Quiet, Bodies
  <2>. QED BY <1>1, <1>2, <1>4, <2>1, Closes
<1>5. Steps
  BY <1>1, <1>2, <1>3, <1>4, Refuses DEF FieldName
<1>. QED BY <1>5, Turned DEF FieldName

LEMMA KeepsFieldValue0 == ASSUME ParserInv, FieldValue0 PROVE ParserInv'
<1>1. Turning /\ s = "s_header_value0"
  BY InTurn DEF FieldValue0
<1>2. s \notin Two \cup Bodies /\ s \in Quiet
  BY <1>1 DEF Two, Quiet, Bodies
<1>3. ASSUME h' = IF h.fs # "h_content_length0" THEN h
                  ELSE [h EXCEPT !.cl = 0, !.flags = @ \cup {"contentlength"}],
             OpenCb("value"), Redo("s_header_value")
      PROVE  Steps
  <2>1. Headers(h')
    <3>1. 0 \in 0 .. NoLength /\ Headers(h)
      BY <1>1, ParserAssumption DEF Turning
    <3>2. PICK x : h' = h \/ h' = [h EXCEPT !.cl = 0, !.flags = x]
      BY <1>3
    <3>3. Headers([h EXCEPT !.cl = 0, !.flags = x])
      BY <3>1, HeaderFields
    <3>. QED BY <3>1, <3>2, <3>3
  <2>2. "s_header_value" \notin Quiet \cup Bodies
    BY DEF Quiet, Bodies
  <2>. QED BY <1>1, <1>2, <1>3, <2>1, <2>2, OpensCb
<1>4. ASSUME NEW st \in {s, "s_header_value0_lf"}, Skip(st) PROVE Steps
  <2>1. st \notin Bodies
    BY <1>2, <1>4 DEF Bodies
  <2>. QED BY <1>1, <1>2, <1>4, <2>1, Skips
<1>5. Steps
  BY <1>3, <1>4 DEF FieldValue0
<1>. QED BY <1>5, Turned DEF FieldValue0

LEMMA KeepsFieldValue == ASSUME ParserInv, FieldValue PROVE ParserInv'
<1>1. Turning /\ s = "s_header_value"
  BY InTurn DEF FieldValue
<1>2. s \notin Two \cup Quiet \cup Bodies
  BY <1>1 DEF Two, Quiet, Bodies
<1>3. ASSUME NEW x, NEW y, ValueState(h.fs, Ch) # "bad",
             h' = [h EXCEPT !.fs = x, !.cl = ValueLength(h.fs, Ch), !.flags = y],
             Break(s), UNCHANGED pieceVars
      PROVE  Steps
  <2>1. Headers(h')
    <3>. DEFINE n == ValueLength(h.fs, Ch)
    <3>1. Headers(h) /\ n \in 0 .. NoLength
      BY <1>1, <1>3, LengthFits DEF Turning
    <3>2. h' = [h EXCEPT !.fs = x, !.cl = n, !.flags = y]
      BY <1>3
    <3>. HIDE DEF n
    <3>3. Headers([h EXCEPT !.fs = x, !.cl = n, !.flags = y])
      BY <3>1, HeaderFields
    <3>. QED BY <3>2, <3>3
  <2>. QED BY <1>1, <1>2, <1>3, <2>1 DEF Turning, Steps, Break
<1>4. ASSUME CloseCb("s_header_value_lf") PROVE Steps
  <2>1. "s_header_value_lf" \in Quiet \ Bodies
    BY DEF Quiet, Bodies
  <2>. QED BY <1>1, <1>2, <1>4, <2>1, Closes
<1>5. Steps
  <2>1. CASE Ch \in Text /\ ValueState(h.fs, Ch) # "bad" /\ Ch # "CR"
    <3>1. PICK x, y : /\ h' = [h EXCEPT !.fs = x, !.cl = ValueLength(h.fs, Ch), !.flags = y]
                      /\ Break(s) /\ UNCHANGED pieceVars
      BY <2>1 DEF FieldValue
    <3>. QED BY <1>3, <2>1, <3>1
  <2>2. CASE Ch = "CR"
    <3>1. "CR" \notin Text
      BY DEF Text, Tchar, Names, Digits
    <3>. QED BY <1>4, <2>2, <3>1 DEF FieldValue
  <2>3. CASE Ch # "CR" /\ (Ch \notin Text \/ ValueState(h.fs, Ch) = "bad")
    BY <1>1, <1>2, <2>3, Refuses DEF FieldValue
  <2>. QED BY <2>1, <2>2, <2>3
<1>. QED BY <1>5, Turned DEF FieldValue

LEMMA KeepsEmptyValue == ASSUME ParserInv, EmptyValue PROVE ParserInv'
<1>1. Turning /\ s = "s_header_value0_almost_done"
  BY InTurn DEF EmptyValue
<1>2. s \notin Two \cup Bodies /\ s \in Quiet
  BY <1>1 DEF Two, Quiet, Bodies
<1>3. ASSUME NEW x, h' = [h EXCEPT !.flags = x], cb' = cb,
             Redo("s_header_name0") \/ Return("s_dead", p)
      PROVE  Steps
  <2>1. Headers(h')
    <3>1. Headers([h EXCEPT !.flags = x])
      BY <1>1, HeaderField DEF Turning
    <3>. QED BY <1>3, <3>1
  <2>. QED BY <1>1, <1>2, <1>3, <2>1 DEF Turning, Steps, Redo, Return, Bodies
<1>4. ASSUME Skip("s_header_value0") PROVE Steps
  BY <1>1, <1>2, <1>4, Skips DEF Bodies
<1>5. Steps
  <2>1. CASE Ch = "SP"
    BY <1>4, <2>1 DEF EmptyValue
  <2>2. CASE Ch # "SP" /\ h.fs = "h_content_length0"
    BY <1>1, <1>2, <2>2, Refuses DEF EmptyValue
  <2>3. CASE Ch # "SP" /\ h.fs # "h_content_length0"
    <3>1. PICK x : h' = [h EXCEPT !.flags = x] /\ cb' = cb
      BY <2>3 DEF EmptyValue
    <3>2. Redo("s_header_name0") \/ Return("s_dead", p)
      BY <2>3 DEF EmptyValue
    <3>. QED BY <1>3, <3>1, <3>2
  <2>. QED BY <2>1, <2>2, <2>3
<1>. QED BY <1>5, Turned DEF EmptyValue

LEMMA KeepsEndOfValue == ASSUME ParserInv, EndOfValue \/ Unfolded PROVE ParserInv'
<1>1. Turning /\ s \in {"s_header_value_almost_done", "s_header_value_unfold"}
  BY InTurn DEF EndOfValue, Unfolded
<1>2. s \notin Two \cup Bodies /\ s \in Quiet
  BY <1>1 DEF Two, Quiet, Bodies
<1>3. CASE EndOfValue
  <2>1. Headers(h')
    <3>1. PICK x : h' = [h EXCEPT !.fs = x] \/ h' = [h EXCEPT !.flags = x]
      BY <1>3 DEF EndOfValue
    <3>2. Headers([h EXCEPT !.fs = x]) /\ Headers([h EXCEPT !.flags = x])
      BY <1>1, HeaderField DEF Turning
    <3>. QED BY <3>1, <3>2
  <2>2. cb' = cb /\ (Break("s_header_value_unfold") \/ Redo("s_header_name0"))
    BY <1>3 DEF EndOfValue, pieceVars
  <2>3. Steps
    BY <1>1, <1>2, <2>1, <2>2 DEF Turning, Steps, Redo, Break, Bodies
  <2>. QED BY <1>3, <2>3, Turned DEF EndOfValue
<1>4. CASE Unfolded
  <2>1. "s_header_value" \notin Quiet \cup Bodies /\ Headers(h')
    BY <1>1, <1>4 DEF Quiet, Bodies, Unfolded, Turning
  <2>2. Steps
    BY <1>1, <1>2, <1>4, <2>1, OpensCb DEF Unfolded
  <2>. QED BY <1>4, <2>2, Turned DEF Unfolded
<1>. QED BY <1>3, <1>4

\* on_body_what: the headers are done, or the reader fails.
LEMMA BodyWhatSteps ==
  ASSUME Turning, s \notin Two, cb = "none", cb' = cb, NEW hs, Headers(hs), NEW q \in {p, p - 1},
         BodyWhat(hs, "s_headers_done", q)
  PROVE  Steps
<1>1. Headers(h')
  <2>1. PICK x : h' = hs \/ h' = [hs EXCEPT !.flags = x]
    BY DEF BodyWhat
  <2>2. Headers([hs EXCEPT !.flags = x])
    BY HeaderField
  <2>. QED BY <2>1, <2>2
<1>. QED BY <1>1 DEF BodyWhat, Turning, Return, Steps, Two, Bodies

LEMMA KeepsHeadersEnd == ASSUME ParserInv, HeadersEnd PROVE ParserInv'
<1>1. Turning /\ s = "s_headers_almost_done"
  BY InTurn DEF HeadersEnd
<1>2. s \notin Two \cup Bodies /\ s \in Quiet /\ cb = "none"
  BY <1>1 DEF Two, Quiet, Bodies, Turning
<1>3. Headers(WithUpgrade)
  BY <1>1, HeaderField DEF WithUpgrade, Turning
<1>4. ASSUME Redo("s_complete"), UNCHANGED <<pieceVars, h>> PROVE Steps
  BY <1>1, <1>2, <1>4 DEF Turning, Redo, Steps, Bodies, pieceVars
<1>5. ASSUME cb' = cb, h' = WithUpgrade, Return("s_dead", p) \/ Return("s_body_pause", p + 1)
      PROVE  Steps
  BY <1>1, <1>2, <1>3, <1>5 DEF Turning, Return, Steps, Bodies
<1>6. ASSUME cb' = cb, BodyWhat(WithUpgrade, "s_headers_done", p) PROVE Steps
  BY <1>1, <1>2, <1>3, <1>6, BodyWhatSteps
<1>7. Steps
  BY <1>1, <1>2, <1>4, <1>5, <1>6, Refuses DEF HeadersEnd
<1>. QED BY <1>7, Turned DEF HeadersEnd

LEMMA KeepsResume == ASSUME ParserInv, Resume PROVE ParserInv'
<1>1. Turning /\ s = "s_body_pause"
  BY InTurn DEF Resume
<1>2. s \notin Two \cup Bodies /\ s \in Quiet /\ cb = "none" /\ Headers(h)
  BY <1>1 DEF Two, Quiet, Bodies, Turning
<1>3. ASSUME cb' = cb, h' = h, Return(s, p) PROVE Steps
  BY <1>1, <1>2, <1>3 DEF Turning, Return, Steps, Bodies
<1>4. ASSUME cb' = cb, BodyWhat(h, "s_headers_done", p - 1) PROVE Steps
  BY <1>1, <1>2, <1>4, BodyWhatSteps
<1>5. Steps
  BY <1>3, <1>4 DEF Resume
<1>. QED BY <1>5, Turned DEF Resume

LEMMA KeepsHeadersDone == ASSUME ParserInv, HeadersDone PROVE ParserInv'
<1>1. Turning /\ s = "s_headers_done"
  BY InTurn DEF HeadersDone
<1>2. s \in Two /\ cb = "none" /\ Headers(h)
  BY <1>1 DEF Two, Quiet, Turning
<1>3. ASSUME cb' = cb, h' = h, Redo("s_complete") PROVE Steps
  BY <1>1, <1>2, <1>3 DEF Turning, Redo, Steps, Two, Bodies
<1>4. ASSUME cb' = cb, h' = h, NEW st \in {"s_chunk_size0", "s_body_identity_eof0"}, Break(st)
      PROVE  Steps
  BY <1>1, <1>2, <1>4 DEF Turning, Break, Steps, Bodies
<1>5. ASSUME cb' = cb, h' = h, Break("s_body_identity0"), ~NoBody, h.cl # NoLength PROVE Steps
  <2>1. h.cl \notin {0, NoLength}
    BY <1>5 DEF NoBody
  <2>. QED BY <1>1, <1>2, <1>5, <2>1 DEF Turning, Break, Steps
<1>6. Steps
  BY <1>3, <1>4, <1>5 DEF HeadersDone, pieceVars
<1>. QED BY <1>6, Turned DEF HeadersDone

-----------------------------------------------------------------------------
(* The body.                                                               *)

LEMMA KeepsBodyBegins == ASSUME ParserInv, BodyBegins PROVE ParserInv'
<1>1. Turning /\ s \in {"s_body_identity0", "s_chunk_data0", "s_body_identity_eof0"}
  BY InTurn DEF BodyBegins, BodyStart
<1>2. s \notin Two /\ Headers(h) /\ h' = h /\ Redo(BodyStart[s])
  BY <1>1 DEF Two, Turning, BodyBegins
<1>3. BodyStart[s] \notin Quiet /\ (BodyStart[s] \in Bodies => s \in Bodies)
  BY <1>1 DEF BodyStart, Quiet, Bodies
<1>4. s \in Bodies => h.cl \notin {0, NoLength}
  BY DEF ParserInv, LengthInv, Bodies
<1>5. Steps
  BY <1>1, <1>2, <1>3, <1>4 DEF Turning, Redo, Steps
<1>. QED BY <1>5, Turned DEF BodyBegins

LEMMA MinOfTwo ==
  ASSUME NEW a \in Int, NEW b \in Int
  PROVE  /\ Min({a, b}) \in {a, b} /\ Min({a, b}) <= a /\ Min({a, b}) <= b
<1>1. \E x \in {a, b} : \A y \in {a, b} : x <= y
  OBVIOUS
<1>2. Min({a, b}) = CHOOSE x \in {a, b} : \A y \in {a, b} : x <= y
  BY DEF Min
<1>. QED BY <1>1, <1>2

LEMMA SomeHere ==
  ASSUME Turning
  PROVE  /\ Here \in Int /\ Here <= h.cl /\ Here <= end - p /\ 0 <= Here
         /\ h.cl # 0 => 1 <= Here
<1>1. h.cl \in Int /\ 0 <= h.cl /\ end - p \in Int /\ 1 <= end - p
  BY ParserAssumption DEF Turning, Headers
<1>2. Here \in {end - p, h.cl} /\ Here <= end - p /\ Here <= h.cl
  BY <1>1, MinOfTwo DEF Here
<1>. QED BY <1>1, <1>2

LEMMA KeepsBodyIdentity == ASSUME ParserInv, BodyIdentity PROVE ParserInv'
<1>1. Turning /\ s = "s_body_identity"
  BY InTurn DEF BodyIdentity
<1>2. s \notin Two /\ h.cl \in 0 .. NoLength /\ h.cl \notin {0, NoLength}
  BY <1>1 DEF ParserInv, LengthInv, Headers, Two
<1>3. Here \in Int /\ Here <= h.cl /\ Here <= end - p /\ 1 <= Here
  BY <1>1, <1>2, SomeHere
<1>4. /\ h' = [h EXCEPT !.cl = h.cl - Here]
      /\ \/ Here = h.cl /\ s' = "s_complete" /\ p' = p + Here - 1
         \/ Here # h.cl /\ s' = s /\ p' = p + Here
      /\ phase' = phase
  BY DEF BodyIdentity
<1>. DEFINE n == h.cl - Here
<1>5. /\ n \in 0 .. NoLength /\ n # NoLength /\ (Here # h.cl => n # 0)
  BY <1>2, <1>3, ParserAssumption
<1>6. h' = [h EXCEPT !.cl = n]
  BY <1>4
<1>. HIDE DEF n
<1>7. Headers(h') /\ h'.cl = n
  <2>1. Headers(h) /\ n \in 0 .. NoLength
    BY <1>1, <1>5 DEF Turning
  <2>2. Headers([h EXCEPT !.cl = n])
    BY <2>1, HeaderField
  <2>3. [h EXCEPT !.cl = n].cl = n
    BY <2>1 DEF Headers
  <2>. QED BY <1>6, <2>2, <2>3
<1>8. p' \in Int /\ p <= p' /\ p' <= end
  <2>1. p \in Int /\ end \in Int
    BY <1>1 DEF Turning
  <2>. QED BY <1>3, <1>4, <2>1
<1>9. Steps
  BY <1>1, <1>2, <1>4, <1>5, <1>7, <1>8 DEF Turning, Steps, Quiet, Bodies
<1>. QED BY <1>9, Turned DEF BodyIdentity

LEMMA KeepsBodyEof == ASSUME ParserInv, BodyIdentityEof PROVE ParserInv'
<1>1. Turning /\ s = "s_body_identity_eof"
  BY InTurn DEF BodyIdentityEof
<1>2. Steps
  BY <1>1 DEF BodyIdentityEof, Turning, Steps, Two, Quiet, Bodies
<1>. QED BY <1>2, Turned DEF BodyIdentityEof

LEMMA KeepsChunkSize == ASSUME ParserInv, ChunkSize PROVE ParserInv'
<1>1. Turning /\ s \in {"s_chunk_size0", "s_chunk_size"}
  BY InTurn DEF ChunkSize
<1>2. s \notin Two \cup Bodies /\ s \in Quiet
  BY <1>1 DEF Two, Quiet, Bodies
<1>3. ASSUME NEW st \in {"s_chunk_size_lf", "s_chunk_ext_name0"}, Skip(st) PROVE Steps
  <2>1. st \notin Bodies
    BY <1>3 DEF Bodies
  <2>. QED BY <1>1, <1>2, <1>3, <2>1, Skips
<1>4. ASSUME Ch \in Digits, s = "s_chunk_size0" \/ ~Overflows,
             h' = [h EXCEPT !.cl = IF s = "s_chunk_size0" THEN DigitValue(Ch) ELSE Longer(Ch)],
             Break("s_chunk_size"), UNCHANGED pieceVars
      PROVE  Steps
  <2>. DEFINE n == IF s = "s_chunk_size0" THEN DigitValue(Ch) ELSE Longer(Ch)
  <2>1. n \in 0 .. NoLength
    <3>1. h.cl \in Nat /\ 0 \in 0 .. NoLength /\ 1 \in 0 .. NoLength /\ DigitValue(Ch) \in {0, 1}
      BY <1>1, ParserAssumption DEF Turning, Headers, DigitValue
    <3>2. ~Overflows => Longer(Ch) \in 0 .. NoLength
      BY <3>1, NoOverflow, ParserAssumption DEF Overflows, Longer
    <3>. QED BY <1>4, <3>1, <3>2
  <2>2. h' = [h EXCEPT !.cl = n]
    BY <1>4
  <2>. HIDE DEF n
  <2>3. Headers(h')
    <3>1. Headers([h EXCEPT !.cl = n])
      BY <1>1, <2>1, HeaderField DEF Turning
    <3>. QED BY <2>2, <3>1
  <2>. QED BY <1>1, <1>2, <1>4, <2>3 DEF Turning, Break, Steps, Bodies, pieceVars
<1>5. Steps
  BY <1>1, <1>2, <1>3, <1>4, Refuses DEF ChunkSize
<1>. QED BY <1>5, Turned DEF ChunkSize

LEMMA KeepsChunkExt == ASSUME ParserInv, ChunkExt PROVE ParserInv'
<1>1. Turning /\ s \in {"s_chunk_ext_name0", "s_chunk_ext_name", "s_chunk_ext_val"}
  BY InTurn DEF ChunkExt
<1>2. s \notin Two \cup Bodies /\ s \in Quiet
  BY <1>1 DEF Two, Quiet, Bodies
<1>3. ExtState(s, Ch) \notin Bodies
  BY <1>1 DEF ExtState, Bodies
<1>4. Steps
  BY <1>1, <1>2, <1>3, Skips, Refuses DEF ChunkExt
<1>. QED BY <1>4, Turned DEF ChunkExt

LEMMA KeepsChunkHeader == ASSUME ParserInv, ChunkHeaderEnd PROVE ParserInv'
<1>1. Turning /\ s = "s_chunk_size_lf"
  BY InTurn DEF ChunkHeaderEnd
<1>2. s \notin Two \cup Bodies /\ s \in Quiet
  BY <1>1 DEF Two, Quiet, Bodies
<1>3. ASSUME Skip("s_chunk_data0") PROVE Steps
  BY <1>1, <1>2, <1>3, Skips DEF Bodies
<1>4. ASSUME NEW x, h' = [h EXCEPT !.flags = x], Break("s_header_name0"), UNCHANGED pieceVars
      PROVE  Steps
  <2>1. Headers(h')
    <3>1. Headers([h EXCEPT !.flags = x])
      BY <1>1, HeaderField DEF Turning
    <3>. QED BY <1>4, <3>1
  <2>. QED BY <1>1, <1>2, <1>4, <2>1 DEF Turning, Break, Steps, Bodies, pieceVars
<1>5. Steps
  BY <1>1, <1>2, <1>3, <1>4, Refuses DEF ChunkHeaderEnd
<1>. QED BY <1>5, Turned DEF ChunkHeaderEnd

LEMMA KeepsChunkData == ASSUME ParserInv, ChunkData PROVE ParserInv'
<1>1. Turning /\ s = "s_chunk_data"
  BY InTurn DEF ChunkData
<1>2. Here \in Int /\ Here <= h.cl /\ Here <= end - p /\ 0 <= Here /\ h.cl \in 0 .. NoLength
  BY <1>1, SomeHere DEF Turning, Headers
<1>. DEFINE n == h.cl - Here
<1>3. n \in 0 .. NoLength
  BY <1>2, ParserAssumption
<1>4. h' = [h EXCEPT !.cl = n] /\ s' \in {s, "s_chunk_data_cr"} /\ p' = p + Here /\ phase' = phase
  BY DEF ChunkData
<1>. HIDE DEF n
<1>5. Headers(h')
  <2>1. Headers([h EXCEPT !.cl = n])
    BY <1>1, <1>3, HeaderField DEF Turning
  <2>. QED BY <1>4, <2>1
<1>6. Steps
  BY <1>1, <1>2, <1>4, <1>5 DEF Turning, Steps, Two, Quiet, Bodies
<1>. QED BY <1>6, Turned DEF ChunkData

LEMMA KeepsChunkEnd == ASSUME ParserInv, ChunkDataEnd PROVE ParserInv'
<1>1. Turning /\ s = "s_chunk_data_cr"
  BY InTurn DEF ChunkDataEnd
<1>2. s \notin Two /\ "s_chunk_data_lf" \in Quiet \ Bodies
  BY <1>1 DEF Two, Quiet, Bodies
<1>3. Steps
  BY <1>1, <1>2, Closes, Refuses DEF ChunkDataEnd
<1>. QED BY <1>3, Turned DEF ChunkDataEnd

LEMMA KeepsComplete == ASSUME ParserInv, LastPiece \/ Complete PROVE ParserInv'
<1>1. Turning /\ s = "s_complete"
  BY InTurn DEF LastPiece, Complete
<1>2. CASE LastPiece
  <2>1. Steps
    BY <1>1, <1>2 DEF LastPiece, Turning, Redo, Return, Steps, Two, Quiet, Bodies
  <2>. QED BY <1>2, <2>1, Turned DEF LastPiece
<1>3. CASE Complete
  <2>1. Steps
    BY <1>1, <1>3 DEF Complete, Turning, Return, Steps, Two, Quiet, Bodies
  <2>. QED BY <1>3, <2>1, Turned DEF Complete
<1>. QED BY <1>2, <1>3

LEMMA KeepsRestart == ASSUME ParserInv, Restart PROVE ParserInv'
<1>1. Turning /\ s = "s_restart"
  BY InTurn DEF Restart
<1>2. Fresh \in {"s_req_start", "s_res_start"}
  BY DEF Fresh
<1>3. Steps
  BY <1>1, <1>2 DEF Restart, Turning, Redo, Steps, Two, Quiet, Bodies
<1>. QED BY <1>3, Turned DEF Restart

-----------------------------------------------------------------------------
(* The buffers of write(), the reads of parse() and its caller.            *)

LEMMA KeepsEndOfBuffer == ASSUME ParserInv, EndOfBuffer PROVE ParserInv'
<1>1. /\ phase = "write" /\ p = end /\ phase' = "returned" /\ cb' = cb /\ h' = h /\ p' = p
      /\ Frame /\ (s' = s \/ s' = "s_dead")
  BY DEF EndOfBuffer, fixed, loopVars, Frame
<1>2. QuietInv' /\ LengthInv' /\ DoneInv'
  BY <1>1 DEF ParserInv, QuietInv, LengthInv, DoneInv, Quiet
<1>3. PlaceInv'
  BY <1>1 DEF ParserInv, PlaceInv, Frame
<1>. QED BY <1>2, <1>3 DEF ParserInv

LEMMA KeepsBeginWrite == ASSUME ParserInv, BeginWrite PROVE ParserInv'
<1>1. /\ used' = 0 /\ UNCHANGED <<stream, wire, s, cb, h, ec, base, have>>
  BY DEF BeginWrite, fixed, loopVars
<1>2. QuietInv' /\ LengthInv'
  BY <1>1 DEF ParserInv, QuietInv, LengthInv
<1>3. CASE base < have /\ \E e \in FirstEnds : Buffer(base, e)
  <2>1. PICK e \in FirstEnds : Buffer(base, e)
    BY <1>3
  <2>2. e \in Int /\ base < e /\ e <= have
    BY <1>3, ParserAssumption DEF FirstEnds, ParserInv, PlaceInv
  <2>3. PlaceInv' /\ DoneInv'
    BY <1>1, <2>1, <2>2 DEF Buffer, ParserInv, PlaceInv, DoneInv
  <2>. QED BY <1>2, <2>3 DEF ParserInv
<1>4. CASE /\ base = have /\ phase' = "returned"
           /\ from' = base /\ p' = base /\ begin' = base /\ end' = base
  <2>1. PlaceInv' /\ DoneInv'
    BY <1>1, <1>4 DEF ParserInv, PlaceInv, DoneInv
  <2>. QED BY <1>2, <2>1 DEF ParserInv
<1>. QED BY <1>3, <1>4 DEF BeginWrite

LEMMA KeepsWriteNext == ASSUME ParserInv, WriteNext PROVE ParserInv'
<1>1. /\ phase = "returned" /\ end < have /\ used' = used + (p - from)
      /\ UNCHANGED <<stream, wire, s, cb, h, ec, base, have>> /\ Buffer(end, have)
  BY DEF WriteNext, Returned, fixed
<1>2. QuietInv' /\ LengthInv' /\ DoneInv'
  BY <1>1 DEF ParserInv, QuietInv, LengthInv, DoneInv, Buffer
<1>3. PlaceInv'
  BY <1>1 DEF Buffer, ParserInv, PlaceInv
<1>. QED BY <1>2, <1>3 DEF ParserInv

LEMMA KeepsReturned == ASSUME ParserInv, WriteFailed \/ Consume PROVE ParserInv'
<1>1. /\ phase = "returned" /\ used' = used + (p - from)
      /\ UNCHANGED <<stream, wire, s, cb, h, ec, have, p, from, end>>
  BY DEF WriteFailed, Consume, Returned, fixed
<1>2. QuietInv' /\ LengthInv'
  BY <1>1 DEF ParserInv, QuietInv, LengthInv
<1>3. DoneInv'
  BY <1>1 DEF DoneInv, WriteFailed, Consume, Returned, IsComplete
<1>4. PlaceInv'
  <2>1. CASE WriteFailed
    <3>1. phase' = "done" /\ base' = base
      BY <2>1 DEF WriteFailed
    <3>. QED BY <1>1, <3>1 DEF ParserInv, PlaceInv
  <2>2. CASE Consume
    <3>1. phase' \in {"done", "read"} /\ base' = base + used' /\ end = have
      BY <2>2 DEF Consume, Returned
    <3>. QED BY <1>1, <3>1, SMTT(30) DEF ParserInv, PlaceInv
  <2>. QED BY <2>1, <2>2
<1>. QED BY <1>2, <1>3, <1>4 DEF ParserInv

LEMMA KeepsRead == ASSUME ParserInv, Read PROVE ParserInv'
<1>1. /\ phase = "read" /\ phase' = "call" /\ have < Len(wire)
      /\ UNCHANGED <<stream, wire, s, cb, h, ec, base, p, from, end, used>>
  BY DEF Read, Reading, fixed
<1>2. QuietInv' /\ LengthInv' /\ DoneInv'
  BY <1>1 DEF ParserInv, QuietInv, LengthInv, DoneInv
<1>3. Len(wire) \in Nat /\ have \in Int
  BY WireLength DEF ParserInv, PlaceInv
<1>4. PICK n \in ReadSizes \cup {Len(wire)} : have' = Min({have + n, Len(wire)})
  BY DEF Read
<1>5. n \in Nat
  BY <1>3, ParserAssumption
<1>6. have' \in {have + n, Len(wire)} /\ have' <= Len(wire)
  <2>. DEFINE a == have + n
              b == Len(wire)
  <2>1. a \in Int /\ b \in Int /\ have' = Min({a, b})
    BY <1>3, <1>4, <1>5
  <2>. HIDE DEF a, b
  <2>2. Min({a, b}) \in {a, b} /\ Min({a, b}) <= b
    BY <2>1, MinOfTwo
  <2>. QED BY <2>1, <2>2 DEF a, b
<1>7. have' \in Int /\ have <= have'
  BY <1>1, <1>3, <1>5, <1>6
<1>8. PlaceInv'
  BY <1>1, <1>3, <1>6, <1>7 DEF ParserInv, PlaceInv
<1>. QED BY <1>2, <1>8 DEF ParserInv

LEMMA KeepsReadEnds == ASSUME ParserInv, ReadEof \/ ReadFails PROVE ParserInv'
<1>1. /\ phase = "read" /\ phase' = "done"
      /\ UNCHANGED <<stream, wire, h, base, have, p, from, end, used>>
  BY DEF ReadEof, ReadFails, Reading, fixed
<1>2. /\ \/ s' = s /\ cb' = cb
         \/ s' = "s_dead"
         \/ s' = "s_closed_complete" /\ cb' = "none"
      /\ ec' # "ok" \/ s' = "s_closed_complete"
  BY DEF ReadEof, ReadFails
<1>3. QuietInv' /\ LengthInv' /\ DoneInv'
  BY <1>1, <1>2 DEF ParserInv, QuietInv, LengthInv, DoneInv, Quiet, IsComplete
<1>4. PlaceInv'
  BY <1>1 DEF ParserInv, PlaceInv
<1>. QED BY <1>3, <1>4 DEF ParserInv

LEMMA KeepsCaller ==
  ASSUME ParserInv, SecondStage \/ SameHeaders \/ NextMessage \/ SameParser PROVE ParserInv'
<1>1. /\ phase = "done" /\ phase' = "call"
      /\ UNCHANGED <<stream, wire, h, ec, base, have, p, from, end, used>>
  BY DEF SecondStage, SameHeaders, NextMessage, SameParser, Succeeded, CallAgain, fixed
<1>2. \/ s' = s /\ cb' = cb
      \/ s' = s /\ cb' = "none"
      \/ s' \in {"s_req_start", "s_res_start"} /\ cb' = "none"
  BY DEF SecondStage, SameHeaders, NextMessage, SameParser, Fresh
<1>3. QuietInv' /\ LengthInv' /\ DoneInv'
  BY <1>1, <1>2 DEF ParserInv, QuietInv, LengthInv, DoneInv
<1>4. PlaceInv'
  BY <1>1 DEF ParserInv, PlaceInv
<1>. QED BY <1>3, <1>4 DEF ParserInv

LEMMA ParserStep == ParserInv /\ [Next]_vars => ParserInv'
<1>. SUFFICES ASSUME ParserInv, [Next]_vars PROVE ParserInv'
  OBVIOUS
<1>1. CASE StartLineSteps
  BY <1>1, KeepsClosed, KeepsStart, KeepsLiteral, KeepsFirstOfPart, KeepsRestOfPart, KeepsVersion,
     KeepsLine DEF StartLineSteps
<1>2. CASE FieldSteps
  BY <1>2, KeepsFieldName0, KeepsFieldName, KeepsFieldValue0, KeepsFieldValue, KeepsEmptyValue,
     KeepsEndOfValue, KeepsHeadersEnd, KeepsResume, KeepsHeadersDone DEF FieldSteps
<1>3. CASE BodySteps
  BY <1>3, KeepsBodyBegins, KeepsBodyIdentity, KeepsBodyEof, KeepsChunkSize, KeepsChunkExt,
     KeepsChunkHeader, KeepsChunkData, KeepsChunkEnd, KeepsComplete, KeepsRestart DEF BodySteps
<1>4. CASE EndOfBuffer \/ BeginWrite \/ WriteNext \/ WriteFailed \/ Consume
  BY <1>4, KeepsEndOfBuffer, KeepsBeginWrite, KeepsWriteNext, KeepsReturned
<1>5. CASE Read \/ ReadEof \/ ReadFails
  BY <1>5, KeepsRead, KeepsReadEnds
<1>6. CASE SecondStage \/ SameHeaders \/ NextMessage \/ SameParser
  BY <1>6, KeepsCaller
<1>7. CASE UNCHANGED vars
  BY <1>7 DEF vars, fixed, pieceVars, loopVars, ParserInv, QuietInv, LengthInv, PlaceInv, DoneInv,
     IsComplete
<1>. QED BY <1>1, <1>2, <1>3, <1>4, <1>5, <1>6, <1>7 DEF Next, WriteSteps

-----------------------------------------------------------------------------
(* The results.                                                            *)

\* The callback, the length that is left and the place of write() in its
\* buffer fit the state of the parser in every reachable state.
THEOREM ParserInvariance == Spec => []ParserInv
BY ParserInit, ParserStep, PTL DEF Spec

\* The assertions of write() hold, and the count it returns is one of octets
\* it was given: for every stream, limit, base of the lengths, and size of the
\* reads and buffers, also where the message ends in the first of two buffers
\* or a complete parser is called again.
THEOREM AssertionsHold == Spec => []AssertsHold
BY ParserInvariance, AssertsFollow, PTL

=============================================================================
