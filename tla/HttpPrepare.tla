---------------------------- MODULE HttpPrepare -----------------------------
(***************************************************************************)
(* HTTP/1 messages and what prepare(), is_keep_alive(), is_upgrade()       *)
(* (http/impl/message.ipp) and write_preparation (http/impl/write.ipp)     *)
(* make of them.                                                           *)
(***************************************************************************)
EXTENDS Integers, Sequences

CONSTANT MaxBody  \* bound on the octets of a body

ASSUME BodyAssumption == MaxBody \in Nat

(* Messages.  cl is the Content-Length field, -1 without one; conn the     *)
(* value of the Connection field, "none" without one; nobody is for the    *)
(* statuses 1xx, 204 and 304.                                              *)
Bodies ==
  [kind : {"empty"}, len : {0}]
    \cup [kind : {"whole", "file", "user"}, len : 0..MaxBody]

Blank ==
  [req : BOOLEAN, post : BOOLEAN, nobody : BOOLEAN, ver : {10, 11},
   body : Bodies, cl : {-1}, chunked : {FALSE}, conn : {"none"}]

\* The writers of empty_body, string_body, basic_dynabuf_body and file_body
\* have content_length(); the user's Writer here has not.
HasLength(b) == b.kind # "user"

\* set_field: is Content-Length put in?
LengthWanted(m) ==
  HasLength(m.body) /\ (IF m.req THEN m.body.len > 0 \/ m.post ELSE ~m.nobody)

\* prepare(m, option): the field values it leaves in the message.
Prepared(m, option) ==
  LET cl == IF option # "upgrade" /\ LengthWanted(m) THEN m.body.len ELSE -1
  IN [m EXCEPT
       !.cl = cl,
       !.chunked = option # "upgrade" /\ ~HasLength(m.body) /\ m.ver >= 11,
       !.conn = CASE option = "upgrade" -> "upgrade"
                  [] option = "keep_alive" ->
                       IF m.ver < 11 /\ cl >= 0 THEN "keep-alive" ELSE "none"
                  [] option = "close" -> IF m.ver >= 11 THEN "close" ELSE "none"
                  [] OTHER -> "none"]

\* prepare throws: the fields are set already, or HTTP/1.0 cannot upgrade.
PrepareThrows(m, option) ==
  \/ m.conn # "none" \/ m.cl >= 0 \/ m.chunked
  \/ option = "upgrade" /\ m.ver < 11

is_keep_alive(m) ==
  IF m.ver = 11 THEN m.conn # "close" ELSE m.conn = "keep-alive"

is_upgrade(m) == m.ver # 10 /\ m.conn = "upgrade"

\* Messages the caller can hand to write().  A status without a body has
\* none, and neither has a message that upgrades; an HTTP/1.0 request has a
\* body only when its length is known, for nothing else can delimit it.
Sendable(m) ==
  /\ m.nobody => ~m.req /\ m.body.len = 0 /\ HasLength(m.body)
  /\ m.post => m.req
  /\ m.req /\ m.ver = 10 => HasLength(m.body)

Upgrades(m) == m.body.kind = "empty" /\ (m.req \/ m.nobody)

Options == {"none", "keep_alive", "close", "upgrade"}

OptionsFor(m) ==
  {o \in Options : ~PrepareThrows(m, o) /\ (o = "upgrade" => Upgrades(m))}

Messages ==
  UNION {{Prepared(m, o) : o \in OptionsFor(m)} : m \in {x \in Blank : Sendable(x)}}

\* write_preparation: does the end of the connection end the message?
Closes(m) == m.conn = "close" \/ (m.ver < 11 /\ m.cl < 0)

=============================================================================
