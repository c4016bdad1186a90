---------------------------- MODULE HttpMessages ----------------------------
(***************************************************************************)
(* HTTP/1 messages as a peer sends them, and what a parser has to report   *)
(* of them: the reference the parser is checked against.                   *)
(*                                                                         *)
(* The wire is a sequence of octets.  A literal the parser matches letter  *)
(* by letter (a field name it knows, a token, the version, a status code)  *)
(* stands for its letters as one octet; "t" is any other token character,  *)
(* "x" text that is no token character, "b" an octet of a body and "bad"   *)
(* an octet no line may contain.                                           *)
(*                                                                         *)
(* A message is a record: req, minor, status and reason for the start line; *)
(* fields, trailer, sequences of [name, ows, value]; framing, how the end  *)
(* of the body is known; chunks, the sizes of its pieces (one piece unless *)
(* the framing is chunked); ext, the octets of a chunk extension; ill, the *)
(* part (headers, body or no) for which a parser has to refuse it.         *)
(***************************************************************************)
EXTENDS Integers, Sequences, SequencesExt, FiniteSetsExt

CrLf == <<"CR", "LF">>

Names == {"Connection", "Proxy-Connection", "Content-Length",
          "Transfer-Encoding", "Upgrade"}

Digits == {"0", "1"}

DigitValue(ch) == IF ch = "1" THEN 1 ELSE 0

Tchar == {"t", "pre", "close", "keep-alive", "upgrade", "chunked"} \cup Names \cup Digits

Text == Tchar \cup {":", ",", ";", "=", "x", "SP"}

\* Lengths are written in base Radix on the wire, most significant first.
Numeral(n) == CASE n = 0 -> <<"0">> [] n = 1 -> <<"1">> [] n = 2 -> <<"1", "0">>
                [] n = 3 -> <<"1", "1">>

-----------------------------------------------------------------------------
FieldLine(f) == f.name \o <<":">> \o f.ows \o f.value \o CrLf

Lines(fs) == FlattenSeq([i \in DOMAIN fs |-> FieldLine(fs[i])])

StartLine(m) ==
  IF m.req THEN <<"t", "t", "SP", "t", "SP", m.minor>> \o CrLf
  ELSE <<m.minor, "SP", m.status, "SP">> \o m.reason \o CrLf

HeaderOctets(m) == StartLine(m) \o Lines(m.fields) \o CrLf

Octets(n) == [i \in 1 .. n |-> "b"]

Chunk(n, ext) == Numeral(n) \o ext \o CrLf \o Octets(n) \o CrLf

BodyWire(m) ==
  CASE m.framing \in {"none", "head"} -> << >>
    [] m.framing \in {"length", "eof"} -> Octets(FoldSeq(+, 0, m.chunks))
    [] m.framing = "chunked" ->
         FlattenSeq([i \in DOMAIN m.chunks |-> Chunk(m.chunks[i], m.ext)])
         \o <<"0">> \o CrLf \o Lines(m.trailer) \o CrLf

\* The octets of a message; octet m.bad of them is damaged on the way, if any.
WireOf(m) ==
  LET w == HeaderOctets(m) \o BodyWire(m)
  IN  IF m.bad = 0 THEN w ELSE [w EXCEPT ![m.bad] = "bad"]

\* The octets of a connection that carries the messages one after the other.
WireOfAll(ms) == FlattenSeq([i \in DOMAIN ms |-> WireOf(ms[i])])

-----------------------------------------------------------------------------
Event(k, o) == [k |-> k, o |-> o]

\* The callbacks that take a message apart piece by piece.
Pieces == {"method", "uri", "reason", "field", "value", "body"}

\* A fold inside a value is reported as one space.
Unfold(v) ==
  LET folds == {i \in DOMAIN v : v[i] = "CR"}
      kept == SelectSeq([i \in DOMAIN v |-> i],
                        LAMBDA i : i \notin folds /\ i - 1 \notin folds)
  IN  [i \in DOMAIN kept |-> v[kept[i]]]

FieldEvents(fs) ==
  FlattenSeq([i \in DOMAIN fs |-> <<Event("field", fs[i].name),
                                    Event("value", Unfold(fs[i].value))>>])

\* What is reported up to the end of the headers.
HeaderEvents(m) ==
  (IF m.req
   THEN <<Event("start", << >>), Event("method", <<"t", "t">>),
          Event("uri", <<"t">>), Event("request", << >>)>>
   ELSE <<Event("start", << >>)>>
        \o (IF m.reason = << >> THEN << >> ELSE <<Event("reason", m.reason)>>)
        \o <<Event("response", << >>)>>)
  \o FieldEvents(m.fields) \o <<Event("headers", << >>)>>

\* What is reported of a message whose body has n octets.
MessageEvents(m, n) ==
  HeaderEvents(m)
  \o (IF n > 0 THEN <<Event("body", Octets(n))>> ELSE << >>)
  \o FieldEvents(m.trailer) \o <<Event("complete", << >>)>>

BodySize(m) == IF m.framing = "head" THEN 0 ELSE FoldSeq(+, 0, m.chunks)

-----------------------------------------------------------------------------
\* The elements of a comma separated list, without the space around them.
Element(v, i, j) ==
  SelectSeq(SubSeq(v, i, j), LAMBDA ch : ch # "SP")

Elements(v) ==
  LET cuts == {0, Len(v) + 1} \cup {i \in DOMAIN v : v[i] = ","}
  IN  {Element(v, i + 1, Min({j \in cuts : j > i}) - 1) : i \in cuts \ {Len(v) + 1}}

\* The connection options of a message.
Options(m) ==
  UNION {Elements(Unfold(m.fields[i].value)) :
           i \in {i \in DOMAIN m.fields :
                    m.fields[i].name \in {<<"Connection">>, <<"Proxy-Connection">>}}}

\* RFC 7230 section 6.3: whether the connection outlives the message.
Persists(m) ==
  /\ m.framing # "eof"
  /\ IF m.minor = "HTTP/1.1" THEN <<"close">> \notin Options(m)
     ELSE <<"keep-alive">> \in Options(m)

\* The octets that count against the limits on headers and on the body.
HeaderLoad(m) ==
  LET e == MessageEvents(m, BodySize(m))
  IN  FoldSeq(+, 0, [i \in DOMAIN e |-> IF e[i].k = "body" THEN 0 ELSE Len(e[i].o)])

=============================================================================
