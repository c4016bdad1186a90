--------------------------- MODULE ExchangeProofs ---------------------------
(***************************************************************************)
(* Proofs about the parts of Exchange.  Of HTTP: the example servers       *)
(* (HttpServer), for every set of connections, and the write operations    *)
(* (HttpWriter), for every body, every buffer of file_body and every way   *)
(* a Writer cuts the body into pieces and suspends the operation.  Of      *)
(* WebSocket: the opening handshake (WsHandshake), for every number of     *)
(* handshakes and of frames, and an open connection (WsSession), for every *)
(* number of messages, frames and pieces.                                  *)
(***************************************************************************)
EXTENDS Exchange, SequenceTheorems, TLAPS

-----------------------------------------------------------------------------
(* The parts of Exchange share no state: a step of it is one of theirs.    *)

LEMMA ServerPart == [Next]_vars => [ServerNext]_svars
BY DEF Next, vars

LEMMA WriterPart == [Next]_vars => [WriteNext]_wvars
BY DEF Next, vars

-----------------------------------------------------------------------------
(* The servers.                                                            *)

\* ios_.run() returns only when no peer is left, and no peer begins after it;
\* the destructor has joined the threads that ran it.
ServerInv ==
  /\ peer \in [Peers -> {"none", "reading", "gone"} \cup Writing]
  /\ stopped => ~accepting /\ \A p \in Peers : ~Active(p)
  /\ dtor = "done" => stopped

LEMMA ServerInitInv == Init => ServerInv
BY DEF Init, ServerInit, Listening, ServerIdle, ServerInv, Active, Writing

\* A peer is made only by on_accept, which needs an accept in progress: one
\* that io_service::run() would have waited for.
LEMMA ServerStepInv == ASSUME ServerInv, [ServerNext]_svars PROVE ServerInv'
<1>. USE DEF ServerInv, Active, Writing
<1>1. ASSUME NEW p \in Peers, OnReadError(p) \/ OnRead(p) PROVE ServerInv'
  BY <1>1 DEF OnReadError, OnRead
<1>2. ASSUME NEW p \in Peers, OnWritten(p) PROVE ServerInv'
  <2>1. PICK next \in {"reading", "gone"} : peer' = [peer EXCEPT ![p] = next]
    BY <1>2 DEF OnWritten, AfterWrite
  <2>. QED BY <1>2, <2>1 DEF OnWritten
<1>3. ASSUME NEW p \in Peers, OnWriteError(p) PROVE ServerInv'
  <2>1. PICK next \in {"reading", "gone"} : peer' = [peer EXCEPT ![p] = next]
    BY <1>3 DEF OnWriteError, AfterWrite
  <2>. QED BY <1>3, <2>1 DEF OnWriteError
<1>4. ASSUME NEW p \in Peers, OnAccept(p) PROVE ServerInv'
  BY <1>4 DEF OnAccept
<1>5. ASSUME NEW p \in Peers, ClientSend(p) \/ ClientClose(p) PROVE ServerInv'
  BY <1>5 DEF ClientSend, ClientClose
<1>6. CASE OnAcceptError
  BY <1>6 DEF OnAcceptError
<1>7. CASE OnCloseAcceptor \/ Destroy
  BY <1>7 DEF OnCloseAcceptor, Destroy
<1>8. CASE RunReturns \/ Join
  BY <1>8 DEF RunReturns, Join
<1>9. CASE UNCHANGED svars
  BY <1>9 DEF svars
<1>. QED
  BY <1>1, <1>2, <1>3, <1>4, <1>5, <1>6, <1>7, <1>8, <1>9
     DEF ServerNext, ServerStep, AcceptAborted

\* Once io_service::run() has returned there is no accept and no peer, and the
\* destructor ends only after that, for every set of connections.
THEOREM ServerInvariance == Spec => []ServerInv
BY ServerInitInv, ServerPart, ServerStepInv, PTL DEF Spec

\* The destructor of a server returns only when no peer is left that holds a
\* reference to it, also for the detached threads of the synchronous one.
THEOREM ServerOutlives == Spec => []ServerOutlivesPeers
<1>1. ServerInv => ServerOutlivesPeers
  BY DEF ServerInv, ServerOutlivesPeers
<1>. QED BY <1>1, ServerInvariance, PTL

-----------------------------------------------------------------------------
(* The write operations: what is suspended, and by whom it is resumed.     *)

AsyncStates == {"io2", "io4", "io5", "rc1", "rc3", "post", "lost"}
SyncStates == {"wait1", "wait3", "loop", "end"}
Resumed == {"rc1", "rc3", "wait1", "wait3"}

\* The resume context that copy holds is there whenever the Writer is called,
\* one is in its hands exactly while the operation is suspended and was not
\* resumed, and ready is set only for the wait it ends.
SuspendInv ==
  /\ how \in {"sync", "async", "ostream"}
  /\ st \in {"idle", "done"} \cup AsyncStates \cup SyncStates
  /\ st \in AsyncStates => how = "async"
  /\ st \in SyncStates => how # "async"
  /\ copy = TRUE /\ owned \in BOOLEAN /\ ready \in BOOLEAN
  /\ owned => st \in Resumed /\ ~ready
  /\ ready => st \in {"wait1", "wait3"}
  /\ st \in Resumed => owned \/ ready

LEMMA SuspendInit == Init => SuspendInv
BY DEF Init, WriteInit, WriteIdle, SuspendInv, AsyncStates, SyncStates, Resumed

\* When the Writer is asked, a context is in its hands afterwards exactly if
\* it suspends the operation.
LEMMA LendOwned ==
  ASSUME SuspendInv, NEW a, Lend(a)
  PROVE  copy' = TRUE /\ owned' \in BOOLEAN /\ (owned' <=> a.res = "suspend")
BY DEF SuspendInv, Lend

\* Cases 1 and 3 of write_op.
LEMMA AsyncCallSuspends ==
  ASSUME SuspendInv, NEW head, NEW rc \in {"rc1", "rc3"}, AsyncCall(head, rc),
         how = "async", ~ready, UNCHANGED <<how, ready>>
  PROVE  SuspendInv'
<1>1. PICK a \in Answers :
        /\ Lend(a)
        /\ \/ a.res = "suspend" /\ st' = rc
           \/ a.res # "suspend" /\ st' \in {"post", "done", "io2", "io4", "io5", "lost"}
  BY DEF AsyncCall, Finish
<1>2. copy' = TRUE /\ owned' \in BOOLEAN /\ (owned' <=> a.res = "suspend")
  BY <1>1, LendOwned
<1>. QED BY <1>1, <1>2 DEF SuspendInv, AsyncStates, SyncStates, Resumed

LEMMA SuspendStep == ASSUME SuspendInv, [WriteNext]_wvars PROVE SuspendInv'
<1>. USE DEF AsyncStates, SyncStates, Resumed
<1>1. CASE AsyncStart
  <2>1. CASE sb' = TRUE /\ AsyncCall(<<Header>>, "rc1")
    BY <1>1, <2>1, AsyncCallSuspends DEF AsyncStart, SuspendInv
  <2>2. CASE st' = "post" /\ UNCHANGED <<copy, owned>>
    BY <1>1, <2>2 DEF AsyncStart, SuspendInv
  <2>. QED BY <1>1, <2>1, <2>2 DEF AsyncStart
<1>2. CASE OnFailed \/ OnLast \/ OnAllWritten
  <2>1. ~owned /\ ~ready /\ how = "async"
    BY <1>2 DEF OnFailed, OnLast, OnAllWritten, SuspendInv
  <2>2. st' \in {"done", "io5"} /\ UNCHANGED <<how, copy, owned, ready>>
    BY <1>2 DEF OnFailed, OnLast, OnAllWritten, Finish
  <2>. QED BY <2>1, <2>2 DEF SuspendInv
<1>3. CASE OnMore
  BY <1>3, AsyncCallSuspends DEF OnMore, SuspendInv
<1>4. CASE OnResume
  BY <1>4, AsyncCallSuspends DEF OnResume, SuspendInv
<1>5. CASE SyncStart
  <2>1. CASE st' = "done" /\ UNCHANGED <<copy, owned>>
    BY <1>5, <2>1 DEF SyncStart, SuspendInv
  <2>2. ASSUME NEW a, Lend(a),
               \/ a.res = "suspend" /\ st' = "wait1"
               \/ a.res # "suspend" /\ st' \in {"done", "end", "loop"}
        PROVE  SuspendInv'
    BY <1>5, <2>2, LendOwned DEF SyncStart, SuspendInv
  <2>. QED BY <1>5, <2>1, <2>2 DEF SyncStart, Finish, Put
<1>6. CASE SyncResume
  BY <1>6 DEF SyncResume, SuspendInv
<1>7. CASE SyncWake
  BY <1>7 DEF SyncWake, Put, Finish, SuspendInv
<1>8. CASE SyncLoop
  <2>1. PICK a \in Answers :
          /\ Lend(a)
          /\ \/ a.res = "suspend" /\ st' = "wait3"
             \/ a.res # "suspend" /\ st' \in {"done", "end", "loop"}
    BY <1>8 DEF SyncLoop, Finish, Put
  <2>. QED BY <1>8, <2>1, LendOwned DEF SyncLoop, SuspendInv
<1>9. CASE SyncEnd
  BY <1>9 DEF SyncEnd, Finish, SuspendInv
<1>10. CASE UNCHANGED wvars
  BY <1>10 DEF wvars, SuspendInv
<1>. QED
  BY <1>1, <1>2, <1>3, <1>4, <1>5, <1>6, <1>7, <1>8, <1>9, <1>10 DEF WriteNext, WriteStep

\* A suspended write has a resume context in the Writer's hands or already
\* called, however often the Writer suspends it and from whichever thread.
THEOREM SuspendedOwned == Spec => []SuspendedIsOwned
<1>1. SuspendInv => SuspendedIsOwned
  BY DEF SuspendInv, SuspendedIsOwned, Resumed
<1>. QED BY <1>1, SuspendInit, SuspendStep, WriterPart, PTL DEF Spec

-----------------------------------------------------------------------------
(* The write operations: what the stream is given.                         *)

Part == [t : {"head", "raw", "chunk"}, at : Nat, n : Nat]

End(parts) == parts[Len(parts)].at + parts[Len(parts)].n

NoFinal(parts) == \A i \in DOMAIN parts : ~IsFinal(parts[i])

\* The header and all but the last l octets of the body, and more to come.
Holds(m, parts, l) ==
  /\ parts \in Seq(Part) /\ parts # <<>> /\ Beginning(parts) /\ NoFinal(parts)
  /\ End(parts) = m.body.len - l

\* The header, the body and, when the body is chunked, the final chunk.
Complete(m, parts) ==
  /\ parts # <<>> /\ Beginning(parts) /\ End(parts) = m.body.len
  /\ m.chunked => Len(parts) > 1 /\ \A i \in 2 .. Len(parts) : IsFinal(parts[i]) <=> i = Len(parts)

DataInv ==
  /\ msg \in Messages /\ left \in 0 .. msg.body.len /\ wire \in Seq(Part)
  /\ ec \in {"none", "ok", "eof", "error"} /\ (ec # "none" => st = "done")
  /\ st = "idle" => wire = <<>>

\* The Writer may be asked: something is left, or nothing was asked for yet, or
\* it is one that can say that nothing remains.
Askable == left > 0 \/ left = msg.body.len \/ msg.body.kind = "user"

\* A blocking write that sent nothing for want of a buffer.
NoHead == how # "async" /\ msg.body.kind = "user" /\ msg.body.len = 0 /\ wire = <<>>

\* What has left at each point of an operation.
PhaseInv ==
  /\ st \in {"idle", "rc1", "wait1", "post"} => wire = <<>>
  /\ st \in {"idle", "rc1", "wait1"} => left = msg.body.len
  /\ st \in {"io2", "rc3", "loop", "wait3"} => Askable /\ Holds(msg, wire, left)
  /\ st = "io4" => left = 0 /\ Holds(msg, wire, 0) /\ msg.chunked
  /\ st = "end" => left = 0 /\ (Holds(msg, wire, 0) \/ NoHead)
  /\ st = "io5" => left = 0 /\ Complete(msg, wire)
  /\ ec \in {"ok", "eof"} => left = 0 /\ (Complete(msg, wire) \/ Headless)
  /\ Beginning(wire) \/ Headless
  /\ left > 0 => NoFinal(wire)
  /\ ec = "ok" /\ how # "ostream" => ~Closes(msg)

WriterInv == SuspendInv /\ DataInv /\ PhaseInv

-----------------------------------------------------------------------------
\* The fields of a message that prepare() sets and those it leaves alone.
LEMMA PreparedFields ==
  ASSUME NEW b \in Blank, NEW o \in Options
  PROVE  LET m == Prepared(b, o)
         IN  /\ m.req = b.req /\ m.nobody = b.nobody /\ m.ver = b.ver /\ m.body = b.body
             /\ m.cl = IF o # "upgrade" /\ LengthWanted(b) THEN b.body.len ELSE -1
             /\ m.chunked = (o # "upgrade" /\ ~HasLength(b.body) /\ b.ver >= 11)
<1>. DEFINE length == IF o # "upgrade" /\ LengthWanted(b) THEN b.body.len ELSE -1
            chunked == o # "upgrade" /\ ~HasLength(b.body) /\ b.ver >= 11
<1>1. PICK conn : Prepared(b, o) = [b EXCEPT !.cl = length, !.chunked = chunked, !.conn = conn]
  BY DEF Prepared
<1>. HIDE DEF length, chunked
<1>2. LET m == Prepared(b, o)
      IN  /\ m.req = b.req /\ m.nobody = b.nobody /\ m.ver = b.ver /\ m.body = b.body
          /\ m.cl = length /\ m.chunked = chunked
  BY <1>1 DEF Blank
<1>. QED BY <1>2 DEF length, chunked

\* What prepare() leaves in a message: a body of unknown length is chunked or
\* ended by the connection, a known one is announced or empty.
LEMMA MessageFacts ==
  ASSUME NEW m \in Messages
  PROVE  /\ m.body.len \in Nat /\ m.chunked \in BOOLEAN /\ m.cl \in Int
         /\ m.body.kind \in {"empty", "whole", "file", "user"}
         /\ m.chunked => m.body.kind = "user"
         /\ m.cl >= 0 => m.cl = m.body.len
         /\ ~m.chunked /\ m.cl < 0 /\ (m.req \/ m.nobody) => m.body.len = 0
         /\ ~m.chunked /\ m.cl < 0 /\ ~(m.req \/ m.nobody) => Closes(m)
<1>1. PICK b \in Blank, o \in Options :
        m = Prepared(b, o) /\ Sendable(b) /\ (o = "upgrade" => Upgrades(b))
  BY DEF Messages, OptionsFor
<1>2. /\ b.body \in Bodies /\ b.ver \in {10, 11} /\ b.req \in BOOLEAN
      /\ b.post \in BOOLEAN /\ b.nobody \in BOOLEAN /\ b.cl = -1 /\ b.chunked = FALSE
  BY DEF Blank
<1>3. /\ b.body.kind \in {"empty", "whole", "file", "user"} /\ b.body.len \in Nat
      /\ b.body.kind = "empty" => b.body.len = 0
  BY <1>2, BodyAssumption DEF Bodies
<1>4. /\ m.req = b.req /\ m.nobody = b.nobody /\ m.ver = b.ver /\ m.body = b.body
      /\ m.cl = IF o # "upgrade" /\ LengthWanted(b) THEN b.body.len ELSE -1
      /\ m.chunked = (o # "upgrade" /\ ~HasLength(b.body) /\ b.ver >= 11)
  BY <1>1, PreparedFields
<1>5. m.chunked \in BOOLEAN /\ (m.chunked <=> o # "upgrade" /\ b.body.kind = "user" /\ b.ver = 11)
  <2>1. b.ver >= 11 <=> b.ver = 11
    BY <1>2
  <2>. QED BY <1>4, <2>1, Zenon DEF HasLength
<1>6. (m.cl = b.body.len \/ m.cl = -1) /\ (m.cl < 0 => o = "upgrade" \/ ~LengthWanted(b))
  BY <1>3, <1>4
<1>7. ASSUME ~m.chunked, m.cl < 0, m.req \/ m.nobody PROVE m.body.len = 0
  BY <1>1, <1>2, <1>3, <1>4, <1>5, <1>6, <1>7 DEF HasLength, LengthWanted, Sendable, Upgrades
<1>8. ASSUME ~m.chunked, m.cl < 0, ~(m.req \/ m.nobody) PROVE Closes(m)
  BY <1>1, <1>2, <1>3, <1>4, <1>5, <1>6, <1>8 DEF Closes, HasLength, LengthWanted, Upgrades
<1>. QED
  BY <1>3, <1>4, <1>5, <1>6, <1>7, <1>8

LEMMA SomeMessage == \E m \in Messages : m.body.len = 0
<1>. DEFINE b == [req |-> FALSE, post |-> FALSE, nobody |-> FALSE, ver |-> 11,
                  body |-> [kind |-> "empty", len |-> 0], cl |-> -1, chunked |-> FALSE,
                  conn |-> "none"]
<1>1. b \in Blank /\ Sendable(b) /\ "none" \in OptionsFor(b)
  BY DEF Blank, Bodies, Sendable, HasLength, OptionsFor, Options, PrepareThrows
<1>2. b.body.len = 0
  OBVIOUS
<1>. HIDE DEF b
<1>3. Prepared(b, "none") \in Messages
  BY <1>1 DEF Messages
<1>4. Prepared(b, "none").body = b.body
  BY <1>1, PreparedFields DEF Options
<1>. QED BY <1>2, <1>3, <1>4

\* What the Writers answer: all that is left, a part of it, or nothing, and
\* true without a buffer only from a user's Writer that has nothing left.
LEMMA AnswerFacts ==
  ASSUME DataInv, NEW a \in Answers
  PROVE  /\ a.res \in {"true", "false", "suspend", "error"} /\ a.out \in Int
         /\ a.out <= left
         /\ a.res \in {"suspend", "error"} => a.out < 0
         /\ a.res = "true" /\ a.out >= 0 => a.out = left
         /\ a.res = "true" /\ a.out < 0 => left = 0 /\ msg.body.kind = "user"
         /\ a.res = "false" => a.out >= 0 /\ (a.out < left \/ msg.body.kind = "user")
         /\ a.res = "suspend" => msg.body.kind = "user"
         /\ msg.chunked /\ a.out >= 0 => a.out > 0
<1>1. msg.body.len \in Nat /\ left \in 0 .. msg.body.len
  BY MessageFacts DEF DataInv
<1>2. msg.body.kind \in {"empty", "whole", "file", "user"} /\ (msg.chunked => msg.body.kind = "user")
  BY MessageFacts DEF DataInv
<1>3. CASE msg.body.kind \in {"empty", "whole"}
  BY <1>1, <1>2, <1>3 DEF Answers, WholeAnswer
<1>4. CASE msg.body.kind = "file"
  BY <1>1, <1>2, <1>4, BufAssumption DEF Answers, FileAnswer
<1>5. CASE msg.body.kind = "user"
  BY <1>1, <1>5 DEF Answers
<1>. QED BY <1>2, <1>3, <1>4, <1>5

\* The next piece lies behind the ones that have left.
LEMMA AppendPart ==
  ASSUME NEW w \in Seq(Part), NEW x \in Part, w # <<>>, Beginning(w),
         x.t # "head", x.at = End(w)
  PROVE  LET v == Append(w, x)
         IN  /\ v \in Seq(Part) /\ v # <<>> /\ Beginning(v)
             /\ Len(v) = Len(w) + 1 /\ Len(w) > 0 /\ v[Len(v)] = x /\ End(v) = x.at + x.n
             /\ \A i \in 1 .. Len(w) : v[i] = w[i]
<1>. DEFINE v == Append(w, x)
<1>1. v \in Seq(Part) /\ v # <<>> /\ Len(v) = Len(w) + 1 /\ Len(w) \in Nat \ {0}
  OBVIOUS
<1>2. v[Len(v)] = x /\ \A i \in 1 .. Len(w) : v[i] = w[i]
  OBVIOUS
<1>3. v[1] = Header
  BY <1>1, <1>2 DEF Beginning
<1>4. ASSUME NEW i \in 2 .. Len(v) PROVE v[i].t # "head" /\ v[i].at = v[i - 1].at + v[i - 1].n
  <2>1. CASE i = Len(v)
    BY <1>1, <1>2, <2>1 DEF End
  <2>2. CASE i \in 2 .. Len(w)
    <3>1. v[i] = w[i] /\ v[i - 1] = w[i - 1]
      BY <1>1, <1>2, <2>2
    <3>. QED BY <2>2, <3>1 DEF Beginning
  <2>. QED BY <1>1, <2>1, <2>2
<1>. QED BY <1>1, <1>2, <1>3, <1>4 DEF Beginning, End

LEMMA HeaderHolds == ASSUME DataInv PROVE Holds(msg, <<Header>>, msg.body.len)
BY MessageFacts DEF DataInv, Holds, Header, Part, Beginning, NoFinal, IsFinal, End

\* The next piece of a message leaves.
LEMMA PieceWritten ==
  ASSUME DataInv, NEW a \in Answers, Lend(a), NEW w, Holds(msg, w, left),
         a.res \in {"true", "false"}, a.out >= 0
  PROVE  /\ Holds(msg, Append(w, BodyPart(a.out)), left')
         /\ left' \in 0 .. msg.body.len
         /\ a.res = "true" => left' = 0
         /\ a.res = "false" => left' > 0 \/ msg.body.kind = "user"
<1>. DEFINE x == BodyPart(a.out)
            v == Append(w, x)
<1>1. msg.body.len \in Nat /\ left \in 0 .. msg.body.len /\ msg.chunked \in BOOLEAN
  BY MessageFacts DEF DataInv
<1>2. /\ a.out \in 0 .. left /\ left' = left - a.out
      /\ a.res = "true" => a.out = left
      /\ a.res = "false" => a.out < left \/ msg.body.kind = "user"
      /\ msg.chunked => a.out > 0
  BY <1>1, AnswerFacts DEF Lend
<1>3. x \in Part /\ x.t # "head" /\ x.at = End(w) /\ x.n = a.out /\ ~IsFinal(x)
  BY <1>1, <1>2, SMTT(30) DEF BodyPart, Part, Holds, IsFinal
<1>. HIDE DEF x
<1>4. /\ v \in Seq(Part) /\ v # <<>> /\ Beginning(v) /\ End(v) = x.at + x.n
      /\ Len(v) = Len(w) + 1 /\ v[Len(v)] = x /\ \A i \in 1 .. Len(w) : v[i] = w[i]
  BY <1>3, AppendPart DEF Holds
<1>5. NoFinal(v)
  <2>. SUFFICES ASSUME NEW i \in DOMAIN v PROVE ~IsFinal(v[i])
    BY DEF NoFinal
  <2>1. CASE i = Len(v)
    BY <1>3, <1>4, <2>1
  <2>2. CASE i \in 1 .. Len(w)
    BY <1>4, <2>2 DEF Holds, NoFinal
  <2>. QED BY <1>4, <2>1, <2>2 DEF Holds
<1>6. End(v) = msg.body.len - left'
  BY <1>1, <1>2, <1>3, <1>4, SMTT(30) DEF Holds
<1>7. Holds(msg, v, left')
  BY <1>4, <1>5, <1>6 DEF Holds
<1>. QED BY <1>1, <1>2, <1>7 DEF x

\* The final chunk leaves.
LEMMA LastChunk ==
  ASSUME DataInv, msg.chunked, NEW w, Holds(msg, w, 0)
  PROVE  Append(w, Final) \in Seq(Part) /\ Complete(msg, Append(w, Final)) /\ Beginning(Append(w, Final))
<1>. DEFINE v == Append(w, Final)
<1>1. msg.body.len \in Nat
  BY MessageFacts DEF DataInv
<1>2. Final \in Part /\ Final.t # "head" /\ Final.at = End(w) /\ Final.n = 0 /\ IsFinal(Final)
  BY <1>1 DEF Final, Part, Holds, IsFinal
<1>3. /\ v \in Seq(Part) /\ v # <<>> /\ Beginning(v) /\ End(v) = Final.at + Final.n
      /\ Len(v) = Len(w) + 1 /\ Len(w) > 0 /\ v[Len(v)] = Final /\ \A i \in 1 .. Len(w) : v[i] = w[i]
  BY <1>2, AppendPart DEF Holds
<1>4. End(v) = msg.body.len
  BY <1>1, <1>2, <1>3 DEF Final
<1>5. ASSUME NEW i \in 2 .. Len(v) PROVE IsFinal(v[i]) <=> i = Len(v)
  <2>1. CASE i = Len(v)
    BY <1>2, <1>3, <2>1
  <2>2. CASE i \in 2 .. Len(w)
    BY <1>3, <2>2 DEF Holds, NoFinal
  <2>. QED BY <1>3, <2>1, <2>2 DEF Holds
<1>. QED BY <1>3, <1>4, <1>5 DEF Complete, Holds

\* Without chunks the message is complete with its body.
LEMMA HeldIsComplete ==
  ASSUME DataInv, ~msg.chunked, NEW w, Holds(msg, w, 0) PROVE Complete(msg, w)
BY MessageFacts DEF DataInv, Holds, Complete

LEMMA WriterInit == Init => WriterInv
<1>. SUFFICES ASSUME Init PROVE DataInv /\ PhaseInv
  BY SuspendInit DEF WriterInv
<1>1. msg \in Messages /\ left = msg.body.len /\ wire = <<>> /\ ec = "none" /\ st \in {"idle", "done"}
  BY SomeMessage DEF Init, WriteInit, WriteIdle
<1>2. msg.body.len \in Nat
  BY <1>1, MessageFacts
<1>. QED BY <1>1, <1>2 DEF DataInv, PhaseInv, Beginning, NoFinal

\* Cases 1 and 3 of write_op, with the header or without it.
LEMMA AsyncCallWrites ==
  ASSUME WriterInv, NEW head, NEW rc, AsyncCall(head, rc), UNCHANGED <<how, msg>>, how = "async",
         \/ head = <<Header>> /\ rc = "rc1" /\ st \in {"idle", "rc1"}
         \/ head = <<>> /\ rc = "rc3" /\ st \in {"io2", "rc3"}
  PROVE  DataInv' /\ PhaseInv'
<1>. DEFINE Gone(a) == a.res \in {"true", "false"} /\ a.out >= 0
            Kept == UNCHANGED <<wire, ec>>
            More(a) == wire \o head \o <<BodyPart(a.out)>>
<1>1. PICK a \in Answers :
        /\ Lend(a)
        /\ \/ a.res = "suspend" /\ st' = rc /\ Kept
           \/ a.res = "error" /\ rc = "rc1" /\ st' = "post" /\ Kept
           \/ a.res = "error" /\ rc = "rc3" /\ st' = "done" /\ ec' = "error" /\ wire' = wire
           \/ /\ Gone(a) /\ wire' = More(a) /\ ec' = ec
              /\ st' = IF a.res = "false" THEN "io2" ELSE IF msg.chunked THEN "io4" ELSE "io5"
           \/ a.res = "true" /\ a.out < 0 /\ st' = "lost" /\ Kept
  BY DEF AsyncCall, Finish
<1>. HIDE DEF More
<1>2. /\ msg.body.len \in Nat /\ msg.chunked \in BOOLEAN /\ left \in 0 .. msg.body.len
      /\ wire \in Seq(Part) /\ ec = "none" /\ msg' = msg
  BY MessageFacts DEF WriterInv, DataInv
<1>3. /\ a.out \in Int /\ a.out <= left /\ (a.res \in {"suspend", "error"} => a.out < 0)
      /\ left' = IF a.out < 0 THEN left ELSE left - a.out
  BY <1>1, AnswerFacts DEF Lend, WriterInv
<1>4. wire \o head \in Seq(Part)
  <2>1. Header \in Part
    BY DEF Header, Part
  <2>2. CASE head = <<Header>>
    BY <1>2, <2>1, <2>2
  <2>3. CASE head = <<>>
    BY <1>2, <2>3
  <2>. QED BY <2>2, <2>3
<1>5. ASSUME Gone(a)
      PROVE  /\ wire' = Append(wire \o head, BodyPart(a.out)) /\ ec' = "none"
             /\ st' = IF a.res = "false" THEN "io2" ELSE IF msg.chunked THEN "io4" ELSE "io5"
  <2>1. wire' = More(a)
    BY <1>1, <1>3, <1>5
  <2>2. wire' = Append(wire \o head, BodyPart(a.out))
    BY <1>4, <2>1 DEF More
  <2>. QED BY <1>1, <1>2, <1>3, <1>5, <2>2
<1>7. DataInv'
  <2>1. CASE Gone(a)
    <3>1. BodyPart(a.out) \in Part
      <4>1. msg.body.len - left \in Nat /\ a.out \in Nat
        BY <1>2, <1>3, <2>1
      <4>. QED BY <4>1 DEF BodyPart, Part
    <3>2. Append(wire \o head, BodyPart(a.out)) \in Seq(Part)
      BY <1>4, <3>1
    <3>3. wire' \in Seq(Part) /\ ec' = "none" /\ st' # "idle"
      BY <1>5, <2>1, <3>2
    <3>4. left' \in 0 .. msg.body.len
      BY <1>2, <1>3, <2>1
    <3>. QED BY <1>2, <3>3, <3>4 DEF WriterInv, DataInv
  <2>2. CASE ~Gone(a)
    BY <1>1, <1>2, <1>3, <2>2 DEF WriterInv, DataInv
  <2>. QED BY <2>1, <2>2
<1>6. PhaseInv'
  <2>1. Holds(msg, wire \o head, left)
    <3>1. CASE head = <<Header>>
      <4>1. wire = <<>> /\ left = msg.body.len
        BY <3>1 DEF WriterInv, PhaseInv
      <4>2. wire \o head = <<Header>>
        BY <3>1, <4>1
      <4>. QED BY <4>1, <4>2, HeaderHolds DEF WriterInv
    <3>2. CASE head = <<>>
      <4>1. wire \o head = wire
        BY <1>2, <3>2
      <4>. QED BY <3>2, <4>1 DEF WriterInv, PhaseInv
    <3>. QED BY <3>1, <3>2
  <2>2. CASE Gone(a)
    <3>1. /\ Holds(msg, wire', left') /\ left' \in 0 .. msg.body.len
          /\ a.res = "true" => left' = 0
          /\ a.res = "false" => left' > 0 \/ msg.body.kind = "user"
      BY <1>1, <1>5, <2>1, <2>2, PieceWritten DEF WriterInv
    <3>2. st' = "io5" => Complete(msg, wire')
      BY <1>2, <1>5, <2>2, <3>1, HeldIsComplete DEF WriterInv
    <3>3. Beginning(wire') /\ NoFinal(wire')
      BY <3>1 DEF Holds
    <3>. QED BY <1>2, <1>5, <2>2, <3>1, <3>2, <3>3 DEF PhaseInv, Askable
  <2>3. CASE ~Gone(a)
    <3>1. left' = left /\ wire' = wire
      BY <1>1, <1>3, <2>3, AnswerFacts DEF WriterInv
    <3>2. /\ st' \in {rc, "post", "done", "lost"} /\ ec' \in {"none", "error"}
          /\ st' = "post" => rc = "rc1"
      BY <1>1, <1>2, <2>3
    <3>3. st' = rc => msg.body.kind = "user"
      BY <1>1, <2>3, AnswerFacts DEF WriterInv
    <3>4. Beginning(wire) /\ (left > 0 => NoFinal(wire))
      BY DEF WriterInv, PhaseInv, Headless
    <3>5. /\ rc = "rc1" => wire = <<>> /\ left = msg.body.len
          /\ rc = "rc3" => Holds(msg, wire, left)
      BY DEF WriterInv, PhaseInv
    <3>. QED BY <1>2, <3>1, <3>2, <3>3, <3>4, <3>5 DEF PhaseInv, Askable
  <2>. QED BY <2>2, <2>3
<1>. QED BY <1>6, <1>7

\* The blocking write: the Writer answered a, and what it gave, behind w,
\* goes to the stream, which may fail.
LEMMA SyncCallWrites ==
  ASSUME WriterInv, NEW a \in Answers, Lend(a), NEW w, NEW parts, UNCHANGED <<how, msg>>,
         NEW wait \in {"wait1", "wait3"}, ec = "none", how # "async",
         a.out >= 0 => wire \o parts = Append(w, BodyPart(a.out)) /\ w \in Seq(Part),
         a.out < 0 => wire \o parts = wire,
         Holds(msg, w, left), a.out < 0 /\ wait = "wait3" => w = wire,
         wait = "wait1" => st = "idle", wait = "wait3" => st = "loop",
         \/ a.res = "suspend" /\ st' = wait /\ UNCHANGED <<wire, ec>>
         \/ a.res = "error" /\ st' = "done" /\ ec' = "error" /\ UNCHANGED wire
         \/ /\ a.res \in {"true", "false"}
            /\ Put(parts, IF a.res = "true" THEN "end" ELSE "loop")
  PROVE  DataInv' /\ PhaseInv'
<1>1. /\ msg.body.len \in Nat /\ msg.chunked \in BOOLEAN /\ left \in 0 .. msg.body.len
      /\ wire \in Seq(Part) /\ msg' = msg
  BY MessageFacts DEF WriterInv, DataInv
<1>2. /\ a.out \in Int /\ a.out <= left /\ (a.res \in {"suspend", "error"} => a.out < 0)
      /\ left' = IF a.out < 0 THEN left ELSE left - a.out
  BY AnswerFacts DEF Lend, WriterInv
<1>3. wire \o parts \in Seq(Part)
  <2>1. CASE a.out >= 0
    <3>1. msg.body.len - left \in Nat /\ a.out \in Nat
      BY <1>1, <1>2, <2>1
    <3>2. BodyPart(a.out) \in Part
      BY <3>1 DEF BodyPart, Part
    <3>3. Append(w, BodyPart(a.out)) \in Seq(Part)
      BY <2>1, <3>2
    <3>. QED BY <2>1, <3>3
  <2>2. CASE a.out < 0
    BY <1>1, <2>2
  <2>. QED BY <1>2, <2>1, <2>2
<1>4. /\ left' \in 0 .. msg.body.len
      /\ \/ wire' = wire /\ st' = "done" /\ ec' = "error"
         \/ a.res = "suspend" /\ wire' = wire /\ st' = wait /\ ec' = "none"
         \/ /\ a.res \in {"true", "false"} /\ wire' = wire \o parts /\ ec' = "none"
            /\ st' = IF a.res = "true" THEN "end" ELSE "loop"
  BY <1>1, <1>2 DEF Put, Finish
<1>5. DataInv'
  BY <1>1, <1>3, <1>4 DEF WriterInv, DataInv
<1>6. PhaseInv'
  <2>1. Beginning(wire) /\ (left > 0 => NoFinal(wire)) /\ left' <= left
    <3>1. st \in {"idle", "loop"}
      OBVIOUS
    <3>2. CASE st = "idle"
      BY <1>1, <1>2, <3>2 DEF WriterInv, PhaseInv, Beginning, NoFinal
    <3>3. CASE st = "loop"
      BY <1>1, <1>2, <3>3 DEF WriterInv, PhaseInv, Holds
    <3>. QED BY <1>1, <1>2, <3>1, <3>2, <3>3
  <2>2. CASE wire' = wire /\ st' = "done" /\ ec' = "error"
    BY <1>1, <1>4, <2>1, <2>2 DEF PhaseInv
  <2>3. CASE a.res = "suspend" /\ wire' = wire /\ st' = wait /\ ec' = "none"
    <3>1. left' = left /\ msg.body.kind = "user"
      BY <1>2, <2>3, AnswerFacts DEF WriterInv
    <3>2. CASE wait = "wait1"
      BY <1>1, <2>1, <2>3, <3>1, <3>2 DEF WriterInv, PhaseInv
    <3>3. CASE wait = "wait3"
      BY <1>1, <2>1, <2>3, <3>1, <3>3 DEF WriterInv, PhaseInv, Askable
    <3>. QED BY <3>2, <3>3
  <2>4. CASE /\ a.res \in {"true", "false"} /\ wire' = wire \o parts /\ ec' = "none"
             /\ st' = IF a.res = "true" THEN "end" ELSE "loop"
    <3>1. CASE a.out >= 0
      <4>1. /\ Holds(msg, Append(w, BodyPart(a.out)), left')
            /\ a.res = "true" => left' = 0
            /\ a.res = "false" => left' > 0 \/ msg.body.kind = "user"
        BY <2>4, <3>1, PieceWritten DEF WriterInv
      <4>2. Holds(msg, wire', left') /\ Beginning(wire') /\ NoFinal(wire')
        BY <2>4, <3>1, <4>1 DEF Holds
      <4>. QED BY <1>1, <2>4, <4>1, <4>2 DEF PhaseInv, Askable
    <3>2. CASE a.out < 0
      <4>1. /\ wire' = wire /\ left' = left /\ left = 0 /\ msg.body.kind = "user"
            /\ st' = "end"
        BY <1>2, <2>4, <3>2, AnswerFacts DEF WriterInv
      <4>2. CASE wait = "wait1"
        <5>1. wire = <<>> /\ msg.body.len = 0 /\ how # "async"
          BY <4>1, <4>2 DEF WriterInv, PhaseInv
        <5>. QED BY <1>1, <2>1, <2>4, <4>1, <5>1 DEF PhaseInv, NoHead
      <4>3. CASE wait = "wait3"
        BY <1>1, <2>1, <2>4, <3>2, <4>1, <4>3 DEF PhaseInv
      <4>. QED BY <4>2, <4>3
    <3>. QED BY <1>2, <3>1, <3>2
  <2>. QED BY <1>4, <2>2, <2>3, <2>4
<1>. QED BY <1>5, <1>6

LEMMA WriterStep == ASSUME WriterInv, [WriteNext]_wvars PROVE WriterInv'
<1>1. SuspendInv'
  BY SuspendStep DEF WriterInv
<1>2. msg' = msg /\ how' = how
  BY DEF wvars, WriteNext, WriteStep, AsyncStart, OnFailed, OnMore, OnLast, OnAllWritten,
         OnResume, SyncStart, SyncResume, SyncWake, SyncLoop, SyncEnd
<1>3. /\ msg.body.len \in Nat /\ msg.chunked \in BOOLEAN /\ left \in 0 .. msg.body.len
      /\ wire \in Seq(Part)
  BY MessageFacts DEF WriterInv, DataInv
<1>4. SUFFICES DataInv' /\ PhaseInv'
  BY <1>1 DEF WriterInv
<1>5. CASE AsyncStart
  <2>1. CASE sb' = TRUE /\ AsyncCall(<<Header>>, "rc1")
    BY <1>2, <1>5, <2>1, AsyncCallWrites DEF AsyncStart
  <2>2. CASE st' = "post" /\ UNCHANGED <<left, wire, ec>>
    BY <1>2, <1>5, <2>2 DEF AsyncStart, WriterInv, DataInv, PhaseInv,
     Askable, NoHead, Headless, Final
  <2>. QED BY <1>5, <2>1, <2>2 DEF AsyncStart
<1>6. CASE OnFailed
  BY <1>2, <1>6 DEF OnFailed, Finish, WriterInv, DataInv, PhaseInv,
     Askable, NoHead, Headless, Final
<1>7. CASE OnMore
  BY <1>2, <1>7, AsyncCallWrites DEF OnMore, WriterInv, SuspendInv, AsyncStates
<1>8. CASE OnResume
  BY <1>2, <1>8, AsyncCallWrites DEF OnResume, WriterInv, SuspendInv, AsyncStates
<1>9. CASE OnLast
  <2>1. Final \in Part
    BY <1>3 DEF Final, Part
  <2>2. DataInv'
    BY <1>2, <1>3, <1>9, <2>1 DEF OnLast, WriterInv, DataInv
  <2>3. PhaseInv'
    <3>1. left = 0 /\ Holds(msg, wire, 0) /\ msg.chunked
      BY <1>9 DEF OnLast, WriterInv, PhaseInv
    <3>2. Complete(msg, wire') /\ Beginning(wire')
      BY <1>9, <3>1, LastChunk DEF OnLast, WriterInv
    <3>. QED BY <1>2, <1>9, <2>2, <3>1, <3>2 DEF OnLast, DataInv, PhaseInv
  <2>. QED BY <2>2, <2>3
<1>10. CASE OnAllWritten
  <2>1. st = "io5" /\ st' = "done" /\ UNCHANGED <<left, wire>> /\ how = "async"
    BY <1>10 DEF OnAllWritten, Finish, WriterInv, SuspendInv, AsyncStates
  <2>2. ec' = IF Closes(msg) THEN "eof" ELSE "ok"
    BY <1>10, <2>1 DEF OnAllWritten, Finish, Ended
  <2>. QED BY <1>2, <2>1, <2>2 DEF WriterInv, DataInv, PhaseInv,
     Askable, NoHead, Headless, Final
<1>11. CASE SyncStart
  <2>1. CASE st' = "done" /\ ec' = "error" /\ UNCHANGED <<left, wire>>
    BY <1>2, <2>1 DEF WriterInv, DataInv, PhaseInv,
     Askable, NoHead, Headless, Final
  <2>2. ASSUME NEW a \in Answers, Lend(a),
               \/ a.res = "suspend" /\ st' = "wait1" /\ UNCHANGED <<wire, ec>>
               \/ a.res = "error" /\ st' = "done" /\ ec' = "error" /\ UNCHANGED wire
               \/ /\ a.res \in {"true", "false"}
                  /\ Put(IF a.out < 0 THEN <<>> ELSE <<Header, BodyPart(a.out)>>,
                         IF a.res = "true" THEN "end" ELSE "loop")
        PROVE  DataInv' /\ PhaseInv'
    <3>. DEFINE parts == IF a.out < 0 THEN <<>> ELSE <<Header, BodyPart(a.out)>>
    <3>1. st = "idle" /\ ec = "none" /\ how # "async"
      BY <1>11 DEF SyncStart, WriterInv, DataInv
    <3>2. wire = <<>> /\ <<Header>> \in Seq(Part)
      BY <3>1 DEF WriterInv, DataInv, Header, Part
    <3>3. left = msg.body.len /\ Holds(msg, <<Header>>, left)
      BY <3>1, HeaderHolds DEF WriterInv, PhaseInv
    <3>4. a.out \in Int
      BY AnswerFacts DEF WriterInv
    <3>5. a.out < 0 => wire \o parts = wire
      BY <3>2
    <3>6. a.out >= 0 => wire \o parts = Append(<<Header>>, BodyPart(a.out))
      <4>1. ASSUME NEW x PROVE <<>> \o <<Header, x>> = Append(<<Header>>, x)
        OBVIOUS
      <4>. QED BY <3>2, <3>4, <4>1
    <3>. HIDE DEF parts
    <3>7. \/ a.res = "suspend" /\ st' = "wait1" /\ UNCHANGED <<wire, ec>>
          \/ a.res = "error" /\ st' = "done" /\ ec' = "error" /\ UNCHANGED wire
          \/ a.res \in {"true", "false"} /\ Put(parts, IF a.res = "true" THEN "end" ELSE "loop")
      BY <2>2 DEF parts
    <3>. QED BY <1>2, <2>2, <3>1, <3>2, <3>3, <3>5, <3>6, <3>7, SyncCallWrites
  <2>. QED BY <1>11, <2>1, <2>2 DEF SyncStart, Finish
<1>12. CASE SyncResume
  BY <1>2, <1>12 DEF SyncResume, WriterInv, DataInv, PhaseInv,
     Askable, NoHead, Headless, Final
<1>13. CASE SyncWake
  <2>1. CASE st = "wait3"
    BY <1>2, <1>13, <2>1 DEF SyncWake, WriterInv, DataInv, PhaseInv,
     Askable, NoHead, Headless, Final
  <2>2. CASE st = "wait1"
    <3>1. /\ UNCHANGED left /\ ec = "none"
          /\ \/ wire' = wire \o <<Header>> /\ st' = "loop" /\ UNCHANGED ec
             \/ st' = "done" /\ ec' = "error" /\ UNCHANGED wire
      BY <1>13, <2>2 DEF SyncWake, Put, Finish, WriterInv, DataInv
    <3>2. Header \in Part
      BY DEF Header, Part
    <3>3. DataInv'
      <4>1. wire \o <<Header>> \in Seq(Part)
        BY <1>3, <3>2
      <4>. QED BY <1>2, <1>3, <3>1, <4>1 DEF WriterInv, DataInv
    <3>4. PhaseInv'
      <4>1. wire = <<>> /\ left = msg.body.len
        BY <2>2 DEF WriterInv, PhaseInv
      <4>2. wire \o <<Header>> = <<Header>> /\ Holds(msg, <<Header>>, left)
        BY <4>1, HeaderHolds DEF WriterInv
      <4>3. /\ Beginning(wire) /\ NoFinal(wire)
            /\ Beginning(<<Header>>) /\ NoFinal(<<Header>>)
        BY <4>1, <4>2 DEF Beginning, NoFinal, Holds
      <4>. QED BY <1>2, <3>1, <4>1, <4>2, <4>3 DEF PhaseInv, Askable
    <3>. QED BY <3>3, <3>4
  <2>. QED BY <1>13, <2>1, <2>2 DEF SyncWake
<1>14. CASE SyncLoop
  <2>1. st = "loop" /\ ec = "none" /\ how # "async"
    BY <1>14 DEF SyncLoop, WriterInv, DataInv, SuspendInv, SyncStates
  <2>2. PICK a \in Answers :
          /\ Lend(a)
          /\ \/ a.res = "suspend" /\ st' = "wait3" /\ UNCHANGED <<wire, ec>>
             \/ a.res = "error" /\ st' = "done" /\ ec' = "error" /\ UNCHANGED wire
             \/ /\ a.res \in {"true", "false"}
                /\ Put(IF a.out < 0 THEN <<>> ELSE <<BodyPart(a.out)>>,
                       IF a.res = "true" THEN "end" ELSE "loop")
    BY <1>14 DEF SyncLoop, Finish
  <2>. DEFINE parts == IF a.out < 0 THEN <<>> ELSE <<BodyPart(a.out)>>
  <2>3. a.out \in Int
    BY AnswerFacts DEF WriterInv
  <2>4. a.out < 0 => wire \o parts = wire
    BY <1>3
  <2>5. a.out >= 0 => wire \o parts = Append(wire, BodyPart(a.out))
    BY <1>3, <2>3
  <2>6. Holds(msg, wire, left)
    BY <2>1 DEF WriterInv, PhaseInv
  <2>. HIDE DEF parts
  <2>7. \/ a.res = "suspend" /\ st' = "wait3" /\ UNCHANGED <<wire, ec>>
        \/ a.res = "error" /\ st' = "done" /\ ec' = "error" /\ UNCHANGED wire
        \/ a.res \in {"true", "false"} /\ Put(parts, IF a.res = "true" THEN "end" ELSE "loop")
    BY <2>2 DEF parts
  <2>. QED BY <1>2, <1>3, <2>1, <2>2, <2>4, <2>5, <2>6, <2>7, SyncCallWrites
<1>15. CASE SyncEnd
  <2>1. /\ st = "end" /\ st' = "done" /\ UNCHANGED left
        /\ \/ /\ wire' = IF msg.chunked THEN Append(wire, Final) ELSE wire
              /\ ec' = IF Closes(msg) /\ how # "ostream" THEN "eof" ELSE "ok"
           \/ wire' = wire /\ ec' = "error"
    BY <1>3, <1>15 DEF SyncEnd, Finish, Ended
  <2>2. Final \in Part
    BY <1>3 DEF Final, Part
  <2>3. DataInv'
    BY <1>2, <1>3, <2>1, <2>2, SMTT(30) DEF WriterInv, DataInv
  <2>4. PhaseInv'
    <3>1. left = 0 /\ Beginning(wire) /\ (Holds(msg, wire, 0) \/ NoHead)
      BY <2>1 DEF WriterInv, PhaseInv, NoHead, Beginning, Holds
    <3>2. CASE Holds(msg, wire, 0) /\ msg.chunked
      <4>1. Complete(msg, Append(wire, Final)) /\ Beginning(Append(wire, Final))
        BY <3>1, <3>2, LastChunk DEF WriterInv
      <4>2. CASE wire' = Append(wire, Final)
        BY <1>2, <2>1, <3>1, <4>1, <4>2 DEF PhaseInv
      <4>3. CASE wire' = wire /\ ec' = "error"
        BY <1>2, <2>1, <3>1, <4>3 DEF PhaseInv
      <4>. QED BY <2>1, <3>2, <4>2, <4>3
    <3>3. CASE Holds(msg, wire, 0) /\ ~msg.chunked
      <4>1. Complete(msg, wire)
        BY <3>1, <3>3, HeldIsComplete DEF WriterInv
      <4>. QED BY <1>2, <2>1, <3>1, <3>3, <4>1 DEF PhaseInv
    <3>4. CASE NoHead
      <4>1. Append(wire, Final) = <<Final>>
        BY <3>4 DEF NoHead
      <4>2. wire' \in {<<>>, <<Final>>} /\ Final' = Final
        BY <1>2, <2>1, <3>4, <4>1 DEF NoHead, Final
      <4>3. Headless'
        BY <1>2, <3>4, <4>2 DEF NoHead, Headless
      <4>. QED BY <1>2, <1>3, <2>1, <3>1, <4>3 DEF PhaseInv
    <3>. QED BY <1>3, <3>1, <3>2, <3>3, <3>4
  <2>. QED BY <2>3, <2>4
<1>16. CASE UNCHANGED wvars
  BY <1>16 DEF wvars, WriterInv, DataInv, PhaseInv, Headless, NoHead, Askable, Final
<1>. QED
  BY <1>5, <1>6, <1>7, <1>8, <1>9, <1>10, <1>11, <1>12, <1>13, <1>14, <1>15, <1>16
     DEF WriteNext, WriteStep

\* In every state of write, async_write and operator<< the parts that have left,
\* what the Writer still has and the resume context fit together.
THEOREM WriterInvariance == Spec => []WriterInv
BY WriterInit, WriterStep, WriterPart, PTL DEF Spec

\* A write that ended with success, or by asking for the end of the
\* connection, has sent exactly one message that the receiver can delimit.
LEMMA ReportedIsWhole ==
  ASSUME WriterInv, ~Headless, ec \in {"ok", "eof"}
  PROVE  WholeMessage(msg, wire, ec = "eof" \/ how = "ostream")
<1>1. Complete(msg, wire) /\ wire \in Seq(Part) /\ (ec = "ok" /\ how # "ostream" => ~Closes(msg))
  BY DEF WriterInv, DataInv, PhaseInv
<1>2. /\ msg.body.len \in Nat /\ msg.chunked \in BOOLEAN /\ msg.cl \in Int
      /\ msg.cl >= 0 => msg.cl = msg.body.len
      /\ ~msg.chunked /\ msg.cl < 0 /\ (msg.req \/ msg.nobody) => msg.body.len = 0
      /\ ~msg.chunked /\ msg.cl < 0 /\ ~(msg.req \/ msg.nobody) => Closes(msg)
  BY MessageFacts DEF WriterInv, DataInv
<1>3. Beginning(wire) /\ Len(wire) > 0 /\ wire[Len(wire)].at + wire[Len(wire)].n = msg.body.len
  BY <1>1 DEF Complete, End
<1>4. CASE msg.chunked
  BY <1>1, <1>3, <1>4 DEF WholeMessage, Delimits, Complete
<1>5. CASE ~msg.chunked /\ msg.cl >= 0
  BY <1>2, <1>3, <1>5 DEF WholeMessage, Delimits
<1>6. CASE ~msg.chunked /\ msg.cl < 0 /\ (msg.req \/ msg.nobody)
  BY <1>2, <1>3, <1>6 DEF WholeMessage, Delimits
<1>7. CASE ~msg.chunked /\ msg.cl < 0 /\ ~(msg.req \/ msg.nobody)
  BY <1>1, <1>2, <1>3, <1>7 DEF WholeMessage, Delimits
<1>. QED BY <1>2, <1>4, <1>5, <1>6, <1>7

\* What a write gives to the stream is one message, or a beginning of it,
\* whatever the Writer and the stream do, for bodies of any length.
THEOREM MessageWritten == Spec => []WireIsMessage
<1>1. WriterInv => WireIsMessage
  <2>. SUFFICES ASSUME WriterInv
                PROVE  /\ ec \in {"ok", "eof"} =>
                            WholeMessage(msg, wire, ec = "eof" \/ how = "ostream") \/ Headless
                       /\ Beginning(wire) \/ Headless
                       /\ \A i \in DOMAIN wire : IsFinal(wire[i]) => left = 0
    BY DEF WireIsMessage
  <2>1. msg.body.len \in Nat /\ left \in 0 .. msg.body.len
    BY MessageFacts DEF WriterInv, DataInv
  <2>2. (Beginning(wire) \/ Headless) /\ (left > 0 => NoFinal(wire))
    BY DEF WriterInv, PhaseInv
  <2>. QED BY <2>1, <2>2, ReportedIsWhole DEF NoFinal
<1>. QED BY <1>1, WriterInvariance, PTL

-----------------------------------------------------------------------------
(* The opening handshake.                                                  *)

LEMMA HandshakePart == [Next]_vars => [HsNext]_hvars
BY DEF Next, vars

-----------------------------------------------------------------------------
(* What is on the line.  The definitions take the variables they are about *)
(* as arguments: q is asked and r is answer.                               *)

Requests == {Request(k, f) : k \in Nat, f \in SUBSET RequestFlaws}
Statuses == {101, 200, 400, 426}
Upgradings == SUBSET {"upgrade"}
Versions == {10, 11}
Replies ==
  [t : {"res"}, status : Statuses, accept : Int, flaws : Upgradings,
   http : [req : BOOLEAN, post : BOOLEAN, nobody : BOOLEAN, ver : {10, 11},
           body : [kind : {"whole"}, len : {0, 1}], cl : {-1, 0, 1}, chunked : BOOLEAN,
           conn : {"none", "close", "keep-alive", "upgrade"}]]
Frames == {Frame(n) : n \in Nat}
Items == Requests \cup Replies \cup Frames \cup {Old}

Streams ==
  [how : {"own", "accept", "buffers", "request", "other"}, keep : BOOLEAN,
   st : {"idle", "writing", "reading", "done"}, open : BOOLEAN,
   ec : {"none", "ok", "response_failed", "handshake_failed", "eof", "error"},
   buf : Seq(Items), dirty : SUBSET Fields, sent : Nat, early : Nat,
   got : Seq(Items), dropped : Seq(Items)]

\* A stream opens clean, by a handshake that succeeded.
Opened(s) ==
  /\ s \in Streams /\ (s.open <=> s.st = "done" /\ s.ec = "ok")
  /\ s.open => s.dirty \subseteq {"rd_utf8_check"}
  /\ ~s.open => s.got = <<>>

\* The frames of a connection that have left a stream's buffer.
Passed(s) == s.dropped \o s.got

\* A request with the n frames that were sent behind it.
Behind(q, n) == IF q = None THEN <<>> ELSE <<q>> \o Upto(n)

\* The server's answer is that of the handshake that was asked for.
Exchanged(q, r, h, n) ==
  /\ q = None \/ (q \in Requests /\ q.key = n)
  /\ r = None \/ (r \in Replies /\ q # None)
  /\ r # None /\ h # "other" =>
       (r.status # 101 <=> ~Acceptable(q)) /\ (r.status = 426 => q.flaws = {"wsversion"})

\* The client: the answer, if there is one, and the frames behind it are on
\* the line until they are read together.  n is the number of frames sent.
ClientSide(c, d, q, r, n) ==
  /\ Opened(c) /\ d \in Seq(Items)
  /\ c.dropped = <<>> /\ (c.how = "own" => c.early = 0)
  /\ c.st = "idle" => q = None /\ d = <<>> /\ c.sent = 0 /\ c.early = 0
  /\ c.st \in {"writing", "reading"} =>
       /\ q # None /\ c.buf = <<>>
       /\ d = IF r = None THEN <<>> ELSE <<r>> \o Upto(n)
  /\ c.st = "done" => c.ec \in {"ok", "response_failed", "error"}
  /\ c.st = "done" /\ c.ec # "error" => r # None /\ c.got \o (c.buf \o d) = Upto(n)
  /\ c.open => /\ r.status = 101 /\ r.accept = make_sec_ws_accept(q.key)
               /\ "upgrade" \notin r.flaws /\ r.http.ver = 11

\* The server: the request is on the line, or read and not yet answered, with
\* the frames of a hasty client behind it; there is no answer before it has
\* been read.  n is the number of frames sent, e of those sent before the
\* answer: no more than these are dropped.
ServerSide(s, u, q, r, n, e) ==
  /\ Opened(s) /\ u \in Seq(Items) /\ n \in Nat /\ e \in Nat
  /\ e <= n /\ Len(s.dropped) <= e /\ (~s.open => s.sent = 0)
  /\ q = None => n = 0
  /\ r = None => e = n /\ s.dropped = <<>>
  /\ s.st = "idle" => r = None /\ u = Behind(q, n)
  /\ s.st = "reading" => r = None /\ s.buf \o u = Behind(q, n)
  /\ s.st = "writing" => r # None /\ s.buf = <<>> /\ s.dropped \o u = Upto(n)
  /\ s.st = "done" => s.ec \in {"ok", "handshake_failed", "eof", "error"}
  /\ s.st = "done" /\ s.ec # "error" => r # None /\ Passed(s) \o (s.buf \o u) = Upto(n)
  /\ s.open => r.status = 101

HandshakeInv ==
  /\ tries \in Nat
  /\ Exchanged(asked, answer, sv.how, tries)
  /\ ClientSide(cl, down, asked, answer, sv.sent)
  /\ ServerSide(sv, up, asked, answer, cl.sent, cl.early)

-----------------------------------------------------------------------------
(* Messages and frames.                                                    *)

LEMMA RequestFacts ==
  ASSUME NEW q \in Requests
  PROVE  /\ q.t = "req" /\ q # None /\ q \in Items /\ q.key \in Nat
         /\ q.flaws \in SUBSET RequestFlaws /\ q = Request(q.key, q.flaws)
<1>1. PICK k \in Nat, f \in SUBSET RequestFlaws : q = Request(k, f)
  BY DEF Requests
<1>2. q.t = "req" /\ q.key = k /\ q.flaws = f
  BY <1>1 DEF Request
<1>3. None.t = "none"
  BY DEF None
<1>. QED BY <1>1, <1>2, <1>3 DEF Items

LEMMA ReplyFacts ==
  ASSUME NEW r \in Replies
  PROVE  r.t = "res" /\ r # None /\ r \in Items /\ r.http.ver \in {10, 11}
<1>1. r.t = "res" /\ r.http.ver \in {10, 11}
  BY DEF Replies
<1>2. None.t = "none"
  BY DEF None
<1>. QED BY <1>1, <1>2 DEF Items

LEMMA ReplyType ==
  ASSUME NEW s \in Statuses, NEW a \in Int, NEW f \in Upgradings,
         NEW v \in Versions, NEW o \in Options
  PROVE  /\ Reply(s, a, f, v, o) \in Replies
         /\ Reply(s, a, f, v, o).status = s
<1>. USE DEF Statuses, Upgradings, Versions
<1>. DEFINE m == [req |-> FALSE, post |-> FALSE, nobody |-> (s = 101), ver |-> v,
                  body |-> [kind |-> "whole", len |-> IF s = 400 THEN 1 ELSE 0],
                  cl |-> -1, chunked |-> FALSE, conn |-> "none"]
            Http == [req : BOOLEAN, post : BOOLEAN, nobody : BOOLEAN, ver : {10, 11},
                     body : [kind : {"whole"}, len : {0, 1}], cl : {-1, 0, 1},
                     chunked : BOOLEAN, conn : {"none", "close", "keep-alive", "upgrade"}]
<1>1. m \in Http /\ m.body.len \in {0, 1}
  OBVIOUS
<1>2. PICK l \in {-1, 0, 1}, ch \in BOOLEAN, co \in {"none", "close", "keep-alive", "upgrade"} :
        Prepared(m, o) = [m EXCEPT !.cl = l, !.chunked = ch, !.conn = co]
  <2>. HIDE DEF m
  <2>. DEFINE len == IF o # "upgrade" /\ LengthWanted(m) THEN m.body.len ELSE -1
              chunk == o # "upgrade" /\ ~HasLength(m.body) /\ m.ver >= 11
              conn == CASE o = "upgrade" -> "upgrade"
                        [] o = "keep_alive" -> IF m.ver < 11 /\ len >= 0 THEN "keep-alive" ELSE "none"
                        [] o = "close" -> IF m.ver >= 11 THEN "close" ELSE "none"
                        [] OTHER -> "none"
  <2>1. len \in {-1, 0, 1}
    BY <1>1
  <2>2. chunk \in BOOLEAN
    OBVIOUS
  <2>3. conn \in {"none", "close", "keep-alive", "upgrade"}
    <3>. HIDE DEF len
    <3>. QED BY DEF Options
  <2>4. Prepared(m, o) = [m EXCEPT !.cl = len, !.chunked = chunk, !.conn = conn]
    BY Zenon DEF Prepared
  <2>. HIDE DEF len, chunk, conn
  <2>. QED BY <2>1, <2>2, <2>3, <2>4
<1>3. Prepared(m, o) \in Http
  <2>. HIDE DEF m
  <2>1. [m EXCEPT !.cl = l] \in Http
    BY <1>1
  <2>2. [[m EXCEPT !.cl = l] EXCEPT !.chunked = ch] \in Http
    BY <2>1
  <2>3. [[[m EXCEPT !.cl = l] EXCEPT !.chunked = ch] EXCEPT !.conn = co] \in Http
    BY <2>2
  <2>. QED BY <1>2, <2>3
<1>4. Reply(s, a, f, v, o) = [t |-> "res", status |-> s, accept |-> a, flaws |-> f,
                              http |-> Prepared(m, o)]
  BY DEF Reply
<1>. DEFINE p == Prepared(m, o)
<1>5. p \in Http /\ Reply(s, a, f, v, o) = [t |-> "res", status |-> s, accept |-> a,
                                            flaws |-> f, http |-> p]
  BY <1>3, <1>4
<1>. HIDE DEF m, p
<1>. QED BY <1>5 DEF Replies

LEMMA UptoFacts ==
  ASSUME NEW n \in Nat
  PROVE  /\ Upto(n) \in Seq(Items) /\ Len(Upto(n)) = n
         /\ \A i \in 1 .. n : Upto(n)[i] = Frame(i)
         /\ n = 0 => Upto(n) = <<>>
         /\ Frame(n + 1) \in Items /\ Append(Upto(n), Frame(n + 1)) = Upto(n + 1)
<1>1. \A i \in Nat : Frame(i) \in Items
  BY DEF Items, Frames
<1>2. ASSUME NEW k \in Nat
      PROVE  /\ Upto(k) \in Seq(Items) /\ Len(Upto(k)) = k
             /\ \A i \in 1 .. k : Upto(k)[i] = Frame(i)
  <2>1. \A i \in 1 .. k : Frame(i) \in Items
    BY <1>1
  <2>. QED BY <2>1 DEF Upto
<1>3. n = 0 => Upto(n) = <<>>
  BY <1>2, EmptySeq
<1>4. Frame(n + 1) \in Items
  BY <1>1
<1>. DEFINE a == Append(Upto(n), Frame(n + 1))
            b == Upto(n + 1)
<1>5. /\ a \in Seq(Items) /\ Len(a) = n + 1 /\ a[n + 1] = Frame(n + 1)
      /\ \A i \in 1 .. n : a[i] = Frame(i)
  BY <1>2, <1>4
<1>6. n + 1 \in Nat /\ b \in Seq(Items) /\ Len(b) = n + 1 /\ \A i \in 1 .. n + 1 : b[i] = Frame(i)
  BY <1>2
<1>. HIDE DEF a, b
<1>7. \A i \in 1 .. n + 1 : a[i] = b[i]
  BY <1>5, <1>6
<1>8. a = b
  BY <1>5, <1>6, <1>7, SeqEqual
<1>. QED BY <1>2, <1>3, <1>4, <1>8 DEF a, b

\* A frame that is sent comes after all that was sent before.
LEMMA SendOne ==
  ASSUME NEW g \in Seq(Items), NEW b \in Seq(Items), NEW u \in Seq(Items), NEW n \in Nat,
         g \o (b \o u) = Upto(n)
  PROVE  /\ Append(u, Frame(n + 1)) \in Seq(Items)
         /\ g \o (b \o Append(u, Frame(n + 1))) = Upto(n + 1)
<1>. DEFINE f == Frame(n + 1)
<1>1. f \in Items /\ Append(Upto(n), f) = Upto(n + 1) /\ Upto(n) \in Seq(Items)
  BY UptoFacts
<1>. HIDE DEF f
<1>2. /\ Append(u, f) = u \o <<f>> /\ Append(u, f) \in Seq(Items) /\ <<f>> \in Seq(Items)
      /\ Append(Upto(n), f) = Upto(n) \o <<f>>
  <2>1. Append(u, f) = u \o <<f>> /\ Append(Upto(n), f) = Upto(n) \o <<f>>
    BY <1>1, AppendIsConcat
  <2>2. Append(u, f) \in Seq(Items) /\ <<f>> \in Seq(Items)
    BY <1>1
  <2>. QED BY <2>1, <2>2
<1>3. b \o (u \o <<f>>) = (b \o u) \o <<f>> /\ b \o u \in Seq(Items)
  BY <1>2, ConcatAssociative
<1>4. g \o ((b \o u) \o <<f>>) = (g \o (b \o u)) \o <<f>>
  <2>. DEFINE w == b \o u
  <2>1. w \in Seq(Items) /\ <<f>> \in Seq(Items)
    BY <1>2, <1>3
  <2>. HIDE DEF w
  <2>2. g \o (w \o <<f>>) = (g \o w) \o <<f>>
    BY <2>1, ConcatAssociative
  <2>. QED BY <2>2 DEF w
<1>. QED BY <1>1, <1>2, <1>3, <1>4 DEF f

\* What is on the line is read in two parts.
LEMMA TwoParts ==
  ASSUME NEW d \in Seq(Items), NEW k \in 0 .. Len(d)
  PROVE  /\ SubSeq(d, 1, k) \in Seq(Items) /\ SubSeq(d, k + 1, Len(d)) \in Seq(Items)
         /\ Len(SubSeq(d, 1, k)) = k
         /\ k # 0 => SubSeq(d, 1, k) # <<>> /\ SubSeq(d, 1, k)[1] = d[1]
         /\ SubSeq(d, 1, k) \o SubSeq(d, k + 1, Len(d)) = d
<1>1. Len(d) \in Nat /\ k \in Nat /\ k <= Len(d)
  OBVIOUS
<1>2. /\ SubSeq(d, 1, k) \in Seq(Items) /\ SubSeq(d, k + 1, Len(d)) \in Seq(Items)
      /\ Len(SubSeq(d, 1, k)) = k
  BY <1>1
<1>3. ASSUME k # 0 PROVE SubSeq(d, 1, k)[1] = d[1]
  BY <1>1, <1>3
<1>4. k # 0 => SubSeq(d, 1, k) # <<>>
  BY <1>1, <1>2
<1>5. SubSeq(d, 1, k) \o SubSeq(d, k + 1, Len(d)) = SubSeq(d, 1, Len(d))
  <2>1. 1 \in 1 .. Len(d) + 1 /\ k \in 1 - 1 .. Len(d) /\ Len(d) \in k .. Len(d)
    BY <1>1
  <2>. QED BY <2>1, ConcatAdjacentSubSeq
<1>6. SubSeq(d, 1, Len(d)) = d
  BY SubSeqFull
<1>. QED BY <1>2, <1>3, <1>4, <1>5, <1>6

\* What lies behind the first item of the line.
LEMMA Fronted ==
  ASSUME NEW x \in Items, NEW u \in Seq(Items)
  PROVE  LET w == <<x>> \o u
         IN  w \in Seq(Items) /\ w # <<>> /\ w[1] = x /\ Tail(w) = u
<1>. DEFINE w == <<x>> \o u
<1>1. /\ w \in Seq(Items) /\ Len(w) = 1 + Len(u) /\ Len(u) \in Nat /\ w[1] = x
      /\ \A i \in 1 .. Len(u) : w[i + 1] = u[i]
  OBVIOUS
<1>. HIDE DEF w
<1>2. w # <<>>
  BY <1>1
<1>3. Tail(w) \in Seq(Items) /\ Len(Tail(w)) = Len(u) /\ \A i \in 1 .. Len(u) : Tail(w)[i] = u[i]
  BY <1>1, <1>2, HeadTailProperties
<1>4. Tail(w) = u
  BY <1>3, SeqEqual
<1>. QED BY <1>1, <1>2, <1>4 DEF w

\* The line is read in two parts, the first of which is not empty.
LEMMA FirstPart ==
  ASSUME NEW w \in Seq(Items), NEW u \in Seq(Items), w # <<>>
  PROVE  /\ (w \o u)[1] = w[1] /\ Tail(w) \in Seq(Items) /\ Tail(w \o u) = Tail(w) \o u
         /\ Len(Tail(w)) <= Len(Tail(w) \o u)
<1>1. (w \o u)[1] = w[1]
  OBVIOUS
<1>2. Tail(w) \in Seq(Items) /\ Tail(w) \o u = Tail(w \o u)
  OBVIOUS
<1>3. Len(Tail(w)) \in Nat /\ Len(u) \in Nat
  BY <1>2
<1>4. Len(Tail(w) \o u) = Len(Tail(w)) + Len(u)
  <2>. DEFINE v == Tail(w)
  <2>1. v \in Seq(Items)
    BY <1>2
  <2>. HIDE DEF v
  <2>2. Len(v \o u) = Len(v) + Len(u)
    BY <2>1
  <2>. QED BY <2>2 DEF v
<1>. QED BY <1>1, <1>2, <1>3, <1>4

\* Three pieces of a line, put together either way.
LEMMA ItemsTogether ==
  ASSUME NEW x \in Seq(Items), NEW y \in Seq(Items), NEW z \in Seq(Items)
  PROVE  (x \o y) \o z = x \o (y \o z)
BY ConcatAssociative, SMTT(30)

\* A frame that is sent comes behind what is on the line.
LEMMA SendBehind ==
  ASSUME NEW h \in Seq(Items), NEW b \in Seq(Items), NEW u \in Seq(Items), NEW n \in Nat,
         b \o u = h \o Upto(n)
  PROVE  /\ Append(u, Frame(n + 1)) \in Seq(Items)
         /\ b \o Append(u, Frame(n + 1)) = h \o Upto(n + 1)
<1>. DEFINE f == Frame(n + 1)
            v == Upto(n)
<1>1. f \in Items /\ Append(v, f) = Upto(n + 1) /\ v \in Seq(Items)
  BY UptoFacts
<1>. HIDE DEF f, v
<1>2. /\ Append(u, f) = u \o <<f>> /\ Append(u, f) \in Seq(Items) /\ <<f>> \in Seq(Items)
      /\ Append(v, f) = v \o <<f>>
  <2>1. Append(u, f) = u \o <<f>> /\ Append(v, f) = v \o <<f>>
    BY <1>1, AppendIsConcat
  <2>2. Append(u, f) \in Seq(Items) /\ <<f>> \in Seq(Items)
    BY <1>1
  <2>. QED BY <2>1, <2>2
<1>. DEFINE x == <<f>>
<1>. HIDE DEF x
<1>6. x \in Seq(Items)
  BY <1>2 DEF x
<1>3. b \o (u \o x) = (b \o u) \o x
  BY <1>6, ItemsTogether, ZenonT(30)
<1>4. (h \o v) \o x = h \o (v \o x)
  BY <1>1, <1>6, ItemsTogether, ZenonT(30)
<1>5. b \o u = h \o v
  BY DEF v
<1>. QED BY <1>1, <1>2, <1>3, <1>4, <1>5 DEF f, x

\* build_response upgrades exactly the requests without a flaw.
LEMMA BuildResponse ==
  ASSUME NEW q \in Requests
  PROVE  LET r == build_response(q)
         IN  /\ r \in Replies /\ (r.status # 101 <=> ~Acceptable(q))
             /\ r.status = 426 => q.flaws = {"wsversion"}
<1>. DEFINE k == q.key
            f == q.flaws
<1>1. k \in Nat /\ f \in SUBSET RequestFlaws /\ q = Request(k, f)
  BY RequestFacts
<1>. HIDE DEF k, f
<1>2. /\ q.http.ver = IF "version" \in f THEN 10 ELSE 11
      /\ q.http.conn = IF "close" \in f THEN "close"
                       ELSE IF "connection" \in f THEN "none" ELSE "upgrade"
      /\ q.flaws = f /\ q.key = k
  BY <1>1 DEF Request
<1>3. q.http.ver \in {10, 11}
  BY <1>2
<1>4. is_upgrade(q.http) <=> "version" \notin f /\ "close" \notin f /\ "connection" \notin f
  BY <1>2 DEF is_upgrade
<1>5. q.http.ver < 11 <=> "version" \in f
  BY <1>2
<1>6. BadRequest(q) <=> f \cap (RequestFlaws \ {"wsversion"}) # {}
  BY <1>2, <1>4, <1>5 DEF BadRequest, RequestFlaws
<1>10. /\ {} \in Upgradings /\ 0 \in Int /\ q.http.ver \in Versions
       /\ 101 \in Statuses /\ 400 \in Statuses /\ 426 \in Statuses
  BY <1>3 DEF Statuses, Upgradings, Versions
<1>7. CASE BadRequest(q)
  <2>1. PICK o \in Options : build_response(q) = Reply(400, 0, {}, q.http.ver, o)
    BY <1>7 DEF build_response, Refuse, Options
  <2>2. build_response(q) \in Replies /\ build_response(q).status = 400
    BY <1>10, <2>1, ReplyType
  <2>. QED BY <1>2, <1>6, <1>7, <2>2 DEF Acceptable
<1>8. CASE ~BadRequest(q) /\ "wsversion" \in f
  <2>1. PICK o \in Options : build_response(q) = Reply(426, 0, {}, q.http.ver, o)
    BY <1>2, <1>8 DEF build_response, Refuse, Options
  <2>2. build_response(q) \in Replies /\ build_response(q).status = 426
    BY <1>10, <2>1, ReplyType
  <2>3. f = {"wsversion"}
    BY <1>1, <1>6, <1>8
  <2>. QED BY <1>2, <2>2, <2>3 DEF Acceptable
<1>9. CASE ~BadRequest(q) /\ "wsversion" \notin f
  <2>1. build_response(q) = Reply(101, make_sec_ws_accept(k), {}, q.http.ver, "upgrade")
    BY <1>2, <1>9 DEF build_response
  <2>2. make_sec_ws_accept(k) \in Int /\ "upgrade" \in Options
    BY <1>1 DEF make_sec_ws_accept, Options
  <2>3. build_response(q) \in Replies /\ build_response(q).status = 101
    BY <1>10, <2>1, <2>2, ReplyType
  <2>4. f = {}
    BY <1>1, <1>6, <1>9
  <2>. QED BY <1>2, <2>3, <2>4 DEF Acceptable
<1>. QED BY <1>7, <1>8, <1>9

LEMMA OtherReplies == ASSUME NEW k \in Nat, NEW r \in OtherResponses(k) PROVE r \in Replies
<1>1. /\ make_sec_ws_accept(k) \in Int /\ make_sec_ws_accept(k - 1) \in Int
      /\ {"none", "keep_alive", "upgrade"} \subseteq Options
      /\ {} \in Upgradings /\ 101 \in Statuses /\ 200 \in Statuses
      /\ 10 \in Versions /\ 11 \in Versions
  BY DEF make_sec_ws_accept, Options, Upgradings, Statuses, Versions
<1>2. ASSUME NEW f \in Upgradings, r = Reply(101, make_sec_ws_accept(k), f, 11, "upgrade")
      PROVE  r \in Replies
  BY <1>1, <1>2, ReplyType
<1>3. ASSUME NEW s \in {101, 200}, NEW v \in {10, 11}, NEW o \in {"none", "keep_alive"},
             r = Reply(s, make_sec_ws_accept(k), {}, v, o)
      PROVE  r \in Replies
  <2>1. s \in Statuses /\ v \in Versions /\ o \in Options
    BY <1>1
  <2>. QED BY <1>1, <1>3, <2>1, ReplyType
<1>4. ASSUME NEW a \in {0, k, make_sec_ws_accept(k - 1)}, r = Reply(101, a, {}, 11, "upgrade")
      PROVE  r \in Replies
  <2>1. a \in Int /\ "upgrade" \in Options
    BY <1>1
  <2>. QED BY <1>1, <1>4, <2>1, ReplyType
<1>. QED BY <1>2, <1>3, <1>4 DEF OtherResponses, Upgradings

-----------------------------------------------------------------------------
(* The steps.                                                              *)

LEMMA HandshakeInit == Init => HandshakeInv
<1>1. <<>> \in Seq(Items) /\ <<>> \o (<<>> \o <<>>) = <<>> /\ <<Old>> \in Seq(Items)
  BY DEF Items
<1>2. ASSUME HsInit PROVE HandshakeInv
  <2>1. PICK h1 \in {"own", "other"}, h2 \in {"accept", "buffers", "request", "other"},
             k \in BOOLEAN : cl = Stream(h1, FALSE) /\ sv = Stream(h2, k)
    BY <1>2 DEF HsInit
  <2>2. Opened(cl) /\ Opened(sv) /\ cl.st = "idle" /\ sv.st = "idle" /\ ~cl.open /\ ~sv.open
    BY <1>1, <2>1 DEF Opened, Stream, Streams
  <2>3. /\ cl.sent = 0 /\ cl.early = 0 /\ cl.dropped = <<>>
        /\ sv.sent = 0 /\ sv.dropped = <<>> /\ Len(<<>>) = 0
    BY <2>1 DEF Stream
  <2>4. asked = None /\ answer = None /\ tries = 0 /\ up = <<>> /\ down = <<>>
    BY <1>2 DEF HsInit
  <2>5. ClientSide(cl, down, asked, answer, sv.sent)
    BY <1>1, <2>2, <2>3, <2>4 DEF ClientSide
  <2>6. ServerSide(sv, up, asked, answer, cl.sent, cl.early)
    BY <1>1, <2>2, <2>3, <2>4 DEF ServerSide, Behind
  <2>. QED BY <2>4, <2>5, <2>6 DEF HandshakeInv, Exchanged
<1>3. ASSUME HsIdle PROVE HandshakeInv
  <2>1. /\ Opened(cl) /\ Opened(sv) /\ cl.st = "done" /\ sv.st = "done" /\ ~cl.open /\ ~sv.open
        /\ cl.ec = "error" /\ sv.ec = "error"
    BY <1>1, <1>3 DEF HsIdle, Opened, Stream, Streams, FailWith
  <2>2. /\ cl.sent = 0 /\ cl.early = 0 /\ cl.dropped = <<>> /\ sv.sent = 0 /\ sv.dropped = <<>>
        /\ Len(<<>>) = 0
    BY <1>3 DEF HsIdle, Stream, FailWith
  <2>4. asked = None /\ answer = None /\ tries \in Nat /\ up = <<>> /\ down = <<>>
    BY <1>3, HandshakeAssumption DEF HsIdle
  <2>5. ClientSide(cl, down, asked, answer, sv.sent)
    BY <1>1, <2>1, <2>2, <2>4 DEF ClientSide
  <2>6. ServerSide(sv, up, asked, answer, cl.sent, cl.early)
    BY <1>1, <2>1, <2>2, <2>4 DEF ServerSide
  <2>. QED BY <2>4, <2>5, <2>6 DEF HandshakeInv, Exchanged
<1>. QED BY <1>2, <1>3 DEF Init

\* reset(), on the way to a handshake.
LEMMA Resets ==
  ASSUME NEW s, Opened(s), s.st # "done", NEW state \in {"writing", "reading"}
  PROVE  LET t == [ResetStream(s) EXCEPT !.st = state]
         IN  /\ Opened(t) /\ t.st = state /\ ~t.open /\ t.buf = <<>> /\ t.got = <<>>
             /\ t.sent = s.sent /\ t.early = s.early /\ t.dropped = s.dropped /\ t.how = s.how
BY DEF Opened, Streams, ResetStream, Fields

ResetTo(s, b) == [ResetStream(s) EXCEPT !.st = "reading", !.buf = b]

LEMMA ResetsTo ==
  ASSUME NEW s, Opened(s), s.st # "done", NEW b \in Seq(Items)
  PROVE  LET t == ResetTo(s, b)
         IN  /\ Opened(t) /\ t.st = "reading" /\ ~t.open /\ t.buf = b /\ t.got = <<>>
             /\ t.sent = s.sent /\ t.dropped = s.dropped /\ t.how = s.how
BY DEF ResetTo, Opened, Streams, ResetStream, Fields

\* An operation that ends, with an error or by open().
LEMMA Ends1 ==
  ASSUME NEW s, Opened(s), s.st # "done",
         NEW e \in {"response_failed", "handshake_failed", "eof", "error"}
  PROVE  LET t == FailWith(s, e)
         IN  /\ Opened(t) /\ t.st = "done" /\ t.ec = e /\ ~t.open /\ t.buf = s.buf
             /\ t.got = <<>> /\ t.sent = s.sent /\ t.early = s.early /\ t.dropped = s.dropped
             /\ t.how = s.how
BY DEF Opened, Streams, FailWith

LEMMA Ends2 ==
  ASSUME NEW s, Opened(s), s.st # "done"
  PROVE  LET t == OpenStream(s)
         IN  /\ Opened(t) /\ t.st = "done" /\ t.ec = "ok" /\ t.open /\ t.buf = s.buf
             /\ t.got = <<>> /\ t.sent = s.sent /\ t.early = s.early /\ t.dropped = s.dropped
             /\ t.how = s.how
BY DEF Opened, Streams, OpenStream, Fields

LEMMA KeepsHandshake ==
  ASSUME HandshakeInv, Handshake PROVE HandshakeInv'
<1>1. /\ cl.st = "idle" /\ tries' = tries + 1
      /\ cl' = [ResetStream(cl) EXCEPT !.st = "writing"]
      /\ up' = Append(up, asked') /\ answer' = None /\ UNCHANGED <<sv, down>>
  BY DEF Handshake, make_sec_ws_key
<1>2. PICK f \in SUBSET RequestFlaws : asked' = Request(tries', f)
  <2>1. CASE cl.how = "own"
    <3>1. asked' = Request(tries', {}) /\ {} \in SUBSET RequestFlaws
      BY <2>1 DEF Handshake
    <3>. QED BY <3>1
  <2>2. CASE cl.how # "own"
    BY <2>2 DEF Handshake
  <2>. QED BY <2>1, <2>2
<1>3. tries \in Nat /\ tries' \in Nat
  BY <1>1 DEF HandshakeInv
<1>4. asked' \in Requests /\ asked'.key = tries' /\ asked' # None /\ asked' \in Items
  <2>1. asked' \in Requests
    BY <1>2, <1>3 DEF Requests
  <2>2. asked'.key = tries'
    BY <1>2 DEF Request
  <2>. QED BY <2>1, <2>2, RequestFacts
<1>5. /\ asked = None /\ answer = None /\ down = <<>> /\ Opened(cl) /\ cl.sent = 0
      /\ cl.early = 0 /\ cl.dropped = <<>>
  BY <1>1 DEF HandshakeInv, ClientSide, Exchanged
<1>6. /\ Opened(cl') /\ cl'.st = "writing" /\ ~cl'.open /\ cl'.buf = <<>> /\ cl'.sent = 0
      /\ cl'.early = 0 /\ cl'.dropped = <<>>
  BY <1>1, <1>5, Resets
<1>7. Exchanged(asked', answer', sv'.how, tries')
  BY <1>1, <1>4 DEF Exchanged
<1>8. ClientSide(cl', down', asked', answer', sv'.sent)
  BY <1>1, <1>4, <1>5, <1>6 DEF ClientSide
<1>9. ServerSide(sv', up', asked', answer', cl'.sent, cl'.early)
  <2>1. up' \in Seq(Items)
    BY <1>1, <1>4 DEF HandshakeInv, ServerSide
  <2>6. <<asked'>> = Behind(asked', 0)
    <3>1. Upto(0) = <<>> /\ <<asked'>> \in Seq(Items)
      BY <1>4, UptoFacts
    <3>2. <<asked'>> \o <<>> = <<asked'>>
      BY <3>1, ConcatEmptySeq
    <3>. QED BY <1>4, <3>1, <3>2 DEF Behind
  <2>2. CASE sv.st = "idle"
    <3>1. up' = <<asked'>>
      BY <1>1, <1>5, <2>2 DEF HandshakeInv, ServerSide, Behind
    <3>. QED BY <1>1, <1>4, <1>5, <1>6, <2>1, <2>2, <2>6, <3>1 DEF HandshakeInv, ServerSide, Opened
  <2>3. CASE sv.st = "reading"
    <3>1. sv.buf \in Seq(Items) /\ up \in Seq(Items) /\ sv.buf \o up = <<>>
      BY <1>5, <2>3 DEF HandshakeInv, ServerSide, Opened, Streams, Behind
    <3>2. sv.buf = <<>> /\ up = <<>>
      BY <3>1, ConcatEqualIffEmpty
    <3>3. sv.buf \o up' = <<asked'>>
      BY <1>1, <3>2
    <3>. QED BY <1>1, <1>4, <1>5, <1>6, <2>1, <2>3, <2>6, <3>3 DEF HandshakeInv, ServerSide, Opened
  <2>4. CASE sv.st = "done"
    BY <1>1, <1>4, <1>5, <1>6, <2>1, <2>4 DEF HandshakeInv, ServerSide, Opened
  <2>5. sv.st \in {"idle", "reading", "done"}
    BY <1>5 DEF HandshakeInv, ServerSide, Opened, Streams
  <2>. QED BY <2>2, <2>3, <2>4, <2>5
<1>. QED BY <1>3, <1>7, <1>8, <1>9 DEF HandshakeInv

LEMMA KeepsRequestSent ==
  ASSUME HandshakeInv, OnRequestSent PROVE HandshakeInv'
<1>1. /\ cl.st = "writing" /\ cl' = [cl EXCEPT !.st = "reading"] /\ Opened(cl)
      /\ UNCHANGED <<sv, up, down, asked, answer, tries>>
  BY DEF OnRequestSent, HandshakeInv, ClientSide
<1>2. /\ Opened(cl') /\ cl'.st = "reading" /\ ~cl'.open /\ cl'.buf = cl.buf
      /\ cl'.sent = cl.sent /\ cl'.early = cl.early /\ cl'.dropped = cl.dropped
      /\ cl'.how = cl.how
  BY <1>1 DEF Opened, Streams
<1>3. ClientSide(cl', down', asked', answer', sv'.sent)
  BY <1>1, <1>2 DEF HandshakeInv, ClientSide
<1>. QED BY <1>1, <1>2, <1>3 DEF HandshakeInv

\* What the client reads first is the answer, and the frames behind it follow.
LEMMA ResponseRead ==
  ASSUME HandshakeInv, cl.st \in {"writing", "reading"}, down # <<>>
  PROVE  /\ answer \in Replies /\ answer # None /\ down = <<answer>> \o Upto(sv.sent)
         /\ down[1] = answer /\ Tail(down) = Upto(sv.sent) /\ down \in Seq(Items)
         /\ cl.buf = <<>> /\ asked # None /\ sv.sent \in Nat /\ Upto(sv.sent) \in Seq(Items)
<1>1. /\ answer # None /\ down = <<answer>> \o Upto(sv.sent) /\ answer \in Replies
      /\ cl.buf = <<>> /\ asked # None /\ down \in Seq(Items)
  BY DEF HandshakeInv, ClientSide, Exchanged
<1>2. sv.sent \in Nat
  BY DEF HandshakeInv, ServerSide, Opened, Streams
<1>3. answer \in Items /\ Upto(sv.sent) \in Seq(Items)
  BY <1>1, <1>2, ReplyFacts, UptoFacts
<1>. DEFINE u == Upto(sv.sent)
<1>. HIDE DEF u
<1>4. (<<answer>> \o u)[1] = answer /\ Tail(<<answer>> \o u) = u
  BY <1>3, Fronted DEF u
<1>. QED BY <1>1, <1>2, <1>3, <1>4 DEF u

LEMMA KeepsClientError ==
  ASSUME HandshakeInv, OnClientError PROVE HandshakeInv'
<1>1. /\ cl.st \in {"writing", "reading"} /\ Opened(cl)
      /\ UNCHANGED <<sv, up, down, asked, answer, tries>>
  BY DEF OnClientError, HandshakeInv, ClientSide
<1>2. ~NoMessage(cl, cl.buf \o down)
  <2>1. cl.buf = <<>> /\ down \in Seq(Items)
    BY <1>1 DEF HandshakeInv, ClientSide
  <2>2. cl.buf \o down = down
    BY <2>1, ConcatEmptySeq
  <2>3. down # <<>> => down[1].t = "res"
    BY <1>1, ResponseRead, ReplyFacts
  <2>. QED BY <2>2, <2>3 DEF NoMessage
<1>3. cl' = FailWith(cl, "error")
  BY <1>2 DEF OnClientError
<1>4. /\ Opened(cl') /\ cl'.st = "done" /\ cl'.ec = "error" /\ ~cl'.open /\ cl'.sent = cl.sent
      /\ cl'.early = cl.early /\ cl'.dropped = cl.dropped /\ cl'.how = cl.how
  BY <1>1, <1>3, Ends1
<1>5. ClientSide(cl', down', asked', answer', sv'.sent)
  BY <1>1, <1>4 DEF HandshakeInv, ClientSide
<1>. QED BY <1>1, <1>4, <1>5 DEF HandshakeInv

LEMMA KeepsResponse ==
  ASSUME HandshakeInv, OnResponse PROVE HandshakeInv'
<1>1. /\ cl.st = "reading" /\ down # <<>> /\ Opened(cl)
      /\ UNCHANGED <<sv, up, asked, answer, tries>>
  BY DEF OnResponse, HandshakeInv, ClientSide
<1>2. /\ answer \in Replies /\ answer # None /\ down[1] = answer
      /\ Tail(down) = Upto(sv.sent) /\ down \in Seq(Items)
      /\ cl.buf = <<>> /\ asked # None /\ Upto(sv.sent) \in Seq(Items)
  BY <1>1, ResponseRead
<1>3. PICK k \in 1 .. Len(down) :
        /\ cl' = do_response(AfterRead(cl, SubSeq(down, 1, k)), (cl.buf \o SubSeq(down, 1, k))[1])
        /\ down' = SubSeq(down, k + 1, Len(down))
  BY DEF OnResponse
<1>. DEFINE a == SubSeq(down, 1, k)
            c == AfterRead(cl, a)
<1>4. Len(down) \in Nat /\ k \in 1 .. Len(down) /\ 1 \in 1 .. Len(down) /\ k \in Nat
  BY <1>1, <1>2
<1>5. a \in Seq(Items) /\ Len(a) = k /\ a[1] = answer /\ a # <<>>
  <2>1. k \in 0 .. Len(down) /\ k # 0
    BY <1>4
  <2>. QED BY <1>2, <2>1, TwoParts
<1>6. Tail(a) = SubSeq(down, 2, k)
  <2>1. k \in 1 .. Len(down)
    BY <1>4
  <2>. QED BY <1>2, <1>4, <2>1, HeadTailOfSubSeq
<1>7. down' \in Seq(Items) /\ Tail(a) \in Seq(Items) /\ Tail(a) \o down' = Upto(sv.sent)
  <2>1. SubSeq(down, 2, k) \o SubSeq(down, k + 1, Len(down)) = SubSeq(down, 2, Len(down))
    <3>1. 2 \in 1 .. Len(down) + 1 /\ k \in 2 - 1 .. Len(down) /\ Len(down) \in k .. Len(down)
      BY <1>4
    <3>. QED BY <1>2, <3>1, ConcatAdjacentSubSeq
  <2>2. Tail(down) = SubSeq(down, 2, Len(down))
    BY <1>1, <1>2, TailIsSubSeq
  <2>3. SubSeq(down, k + 1, Len(down)) \in Seq(Items)
    BY <1>2, <1>4
  <2>4. Tail(a) \in Seq(Items)
    BY <1>5
  <2>. QED BY <1>2, <1>3, <1>6, <2>1, <2>2, <2>3, <2>4
<1>. HIDE DEF a
<1>8. cl.buf \o a = a /\ c = [cl EXCEPT !.buf = Tail(a)]
  <2>1. cl.buf \o a = a
    BY <1>2, <1>5, ConcatEmptySeq
  <2>. QED BY <2>1 DEF AfterRead
<1>9. /\ Opened(c) /\ c.st = "reading" /\ c.buf = Tail(a) /\ c.how = cl.how /\ c.sent = cl.sent
      /\ c.early = cl.early /\ c.dropped = cl.dropped
  BY <1>1, <1>7, <1>8 DEF Opened, Streams
<1>10. cl' = do_response(c, answer)
  BY <1>3, <1>5, <1>8 DEF a
<1>. HIDE DEF c
<1>11. <<>> \o (Tail(a) \o down') = Upto(sv.sent)
  BY <1>2, <1>7, ConcatEmptySeq
<1>12. CASE cl' = FailWith(c, "response_failed")
  <2>1. /\ Opened(cl') /\ cl'.st = "done" /\ cl'.ec = "response_failed" /\ ~cl'.open
        /\ cl'.buf = Tail(a) /\ cl'.got = <<>> /\ cl'.sent = cl.sent
        /\ cl'.early = cl.early /\ cl'.dropped = cl.dropped /\ cl'.how = cl.how
    BY <1>9, <1>12, Ends1
  <2>2. ClientSide(cl', down', asked', answer', sv'.sent)
    BY <1>1, <1>2, <1>7, <1>11, <2>1 DEF HandshakeInv, ClientSide
  <2>. QED BY <1>1, <2>1, <2>2 DEF HandshakeInv
<1>13. CASE /\ cl' = OpenStream(c)
            /\ ~(answer.http.ver < 11) /\ answer.status = 101 /\ "upgrade" \notin answer.flaws
            /\ answer.accept = make_sec_ws_accept(asked.key)
  <2>1. /\ Opened(cl') /\ cl'.st = "done" /\ cl'.ec = "ok" /\ cl'.open
        /\ cl'.buf = Tail(a) /\ cl'.got = <<>> /\ cl'.sent = cl.sent
        /\ cl'.early = cl.early /\ cl'.dropped = cl.dropped /\ cl'.how = cl.how
    BY <1>9, <1>13, Ends2
  <2>2. answer.http.ver = 11
    BY <1>2, <1>13, ReplyFacts
  <2>3. ClientSide(cl', down', asked', answer', sv'.sent)
    BY <1>1, <1>2, <1>7, <1>11, <1>13, <2>1, <2>2 DEF HandshakeInv, ClientSide
  <2>. QED BY <1>1, <2>1, <2>3 DEF HandshakeInv
<1>. QED BY <1>10, <1>12, <1>13 DEF do_response

-----------------------------------------------------------------------------
(* The server reads the request and answers it.                            *)

LEMMA KeepsAccept ==
  ASSUME HandshakeInv, Accept PROVE HandshakeInv'
<1>1. /\ sv.st = "idle" /\ Opened(sv) /\ up \in Seq(Items) /\ answer = None
      /\ up = Behind(asked, cl.sent)
      /\ UNCHANGED <<cl, down, asked, answer, tries>>
  BY DEF Accept, HandshakeInv, ServerSide
<1>2. PICK k \in 0 .. Len(up) :
        /\ sv' = [ResetStream(sv) EXCEPT !.st = "reading", !.buf = SubSeq(up, 1, k)]
        /\ up' = SubSeq(up, k + 1, Len(up))
  <2>1. Len(up) \in Nat /\ 0 \in 0 .. Len(up)
    BY <1>1
  <2>. QED BY <2>1 DEF Accept
<1>. DEFINE a == SubSeq(up, 1, k)
<1>3. a \in Seq(Items) /\ up' \in Seq(Items) /\ a \o up' = up
  BY <1>1, <1>2, TwoParts
<1>4. sv' = ResetTo(sv, a)
  BY <1>2 DEF ResetTo
<1>. HIDE DEF a
<1>5. /\ Opened(sv') /\ sv'.st = "reading" /\ ~sv'.open /\ sv'.buf = a /\ sv'.sent = sv.sent
      /\ sv'.how = sv.how /\ sv'.dropped = sv.dropped
  <2>1. Opened(sv) /\ sv.st # "done" /\ a \in Seq(Items)
    BY <1>1, <1>3
  <2>. QED BY <1>4, <2>1, ResetsTo
<1>6. ServerSide(sv', up', asked', answer', cl'.sent, cl'.early)
  BY <1>1, <1>3, <1>5 DEF HandshakeInv, ServerSide, Opened
<1>. QED BY <1>1, <1>5, <1>6 DEF HandshakeInv

\* The answer is that of the request; of the frames behind it those are dropped
\* that were read with it.
LEMMA Answered ==
  ASSUME HandshakeInv, sv.st \in {"idle", "reading"}, asked # None, answer = None,
         NEW s, Opened(s), s.st = sv.st, s.how = sv.how, s.sent = sv.sent,
         Answer(s, asked), up' \in Seq(Items), UNCHANGED <<cl, asked, tries>>,
         s.dropped \o up' = Upto(cl.sent), Len(s.dropped) <= cl.early
  PROVE  HandshakeInv'
<1>1. asked \in Requests /\ asked.key = tries /\ tries \in Nat
  BY DEF HandshakeInv, Exchanged
<1>2. answer' \in Replies /\ answer' # None
  <2>1. CASE s.how = "other"
    <3>1. answer' \in OtherResponses(asked.key)
      BY <2>1 DEF Answer
    <3>. QED BY <1>1, <3>1, OtherReplies, ReplyFacts
  <2>2. CASE s.how # "other"
    <3>1. answer' = build_response(asked)
      BY <2>2 DEF Answer
    <3>. QED BY <1>1, <3>1, BuildResponse, ReplyFacts
  <2>. QED BY <2>1, <2>2
<1>3. sv' = [ResetStream(s) EXCEPT !.st = "writing"] /\ down' = Append(down, answer')
  BY DEF Answer
<1>4. /\ Opened(sv') /\ sv'.st = "writing" /\ ~sv'.open /\ sv'.buf = <<>> /\ sv'.sent = 0
      /\ sv'.how = sv.how /\ sv.sent = 0 /\ sv'.dropped = s.dropped
  <2>1. sv.sent = 0
    BY DEF HandshakeInv, ServerSide, Opened
  <2>. QED BY <1>3, <2>1, Resets
<1>5. Exchanged(asked', answer', sv'.how, tries')
  <2>1. asked' = asked /\ tries' = tries
    OBVIOUS
  <2>2. CASE s.how = "other"
    BY <1>1, <1>2, <1>4, <2>1, <2>2 DEF Exchanged
  <2>3. CASE s.how # "other"
    <3>1. answer' = build_response(asked)
      BY <2>3 DEF Answer
    <3>2. /\ answer'.status # 101 <=> ~Acceptable(asked)
          /\ answer'.status = 426 => asked.flaws = {"wsversion"}
      BY <1>1, <3>1, BuildResponse
    <3>. QED BY <1>1, <1>2, <1>4, <2>1, <3>2 DEF Exchanged
  <2>. QED BY <2>2, <2>3
<1>6. /\ cl.st # "idle" /\ Opened(cl) /\ ~cl.open /\ cl.sent \in Nat /\ cl.early \in Nat
      /\ cl.early <= cl.sent
  BY DEF HandshakeInv, ClientSide, ServerSide, Opened, Streams
<1>7. ServerSide(sv', up', asked', answer', cl'.sent, cl'.early)
  BY <1>2, <1>4, <1>6 DEF ServerSide
<1>8. down' \in Seq(Items) /\ (cl.st \in {"writing", "reading"} => down' = <<answer'>> \o Upto(0))
  <2>1. down \in Seq(Items) /\ answer' \in Items
    BY <1>2, ReplyFacts DEF HandshakeInv, ClientSide
  <2>2. Upto(0) = <<>> /\ <<answer'>> \in Seq(Items)
    BY <2>1, UptoFacts
  <2>3. <<answer'>> \o Upto(0) = <<answer'>>
    BY <2>2, ConcatEmptySeq
  <2>4. cl.st \in {"writing", "reading"} => down = <<>>
    BY DEF HandshakeInv, ClientSide
  <2>5. down = <<>> => Append(down, answer') = <<answer'>>
    OBVIOUS
  <2>6. Append(down, answer') \in Seq(Items)
    BY <2>1
  <2>. QED BY <1>3, <2>3, <2>4, <2>5, <2>6
<1>9. ClientSide(cl', down', asked', answer', sv'.sent)
  BY <1>2, <1>4, <1>6, <1>8 DEF HandshakeInv, ClientSide
<1>. QED BY <1>1, <1>5, <1>7, <1>9 DEF HandshakeInv

\* What the server reads first is the request.
LEMMA RequestRead ==
  ASSUME HandshakeInv, NEW w, w = Behind(asked, cl.sent), w # <<>>
  PROVE  /\ asked # None /\ asked.t = "req" /\ w \in Seq(Items)
         /\ w[1] = asked /\ Tail(w) = Upto(cl.sent)
         /\ cl.sent \in Nat /\ Upto(cl.sent) \in Seq(Items) /\ Len(Upto(cl.sent)) = cl.sent
<1>1. asked # None /\ w = <<asked>> \o Upto(cl.sent) /\ cl.sent \in Nat
  BY DEF Behind, HandshakeInv, ServerSide
<1>2. asked \in Items /\ asked.t = "req"
  BY <1>1, RequestFacts DEF HandshakeInv, Exchanged
<1>3. Upto(cl.sent) \in Seq(Items) /\ Len(Upto(cl.sent)) = cl.sent
  BY <1>1, UptoFacts
<1>. QED BY <1>1, <1>2, <1>3, Fronted

LEMMA KeepsAcceptRequest ==
  ASSUME HandshakeInv, AcceptRequest PROVE HandshakeInv'
<1>1. /\ sv.st = "idle" /\ Opened(sv) /\ up # <<>> /\ answer = None
      /\ up = Behind(asked, cl.sent) /\ sv.dropped = <<>> /\ cl.early \in Nat
      /\ UNCHANGED <<cl, asked, tries>> /\ Answer(sv, up[1]) /\ up' = Tail(up)
  BY DEF AcceptRequest, HandshakeInv, ServerSide
<1>2. asked # None /\ up[1] = asked /\ up' = Upto(cl.sent) /\ Upto(cl.sent) \in Seq(Items)
  BY <1>1, RequestRead
<1>3. sv.dropped \o up' = Upto(cl.sent) /\ Len(sv.dropped) <= cl.early
  BY <1>1, <1>2, ConcatEmptySeq
<1>. QED BY <1>1, <1>2, <1>3, Answered

LEMMA KeepsRequest ==
  ASSUME HandshakeInv, OnRequest PROVE HandshakeInv'
<1>1. /\ sv.st = "reading" /\ Opened(sv) /\ answer = None /\ up \in Seq(Items)
      /\ sv.buf \o up = Behind(asked, cl.sent) /\ sv.dropped = <<>> /\ cl.early = cl.sent
      /\ sv.buf \o up # <<>> /\ UNCHANGED <<cl, asked, tries>>
  BY DEF OnRequest, HandshakeInv, ServerSide
<1>2. /\ sv.buf \in Seq(Items) /\ asked # None
      /\ (sv.buf \o up)[1] = asked /\ Tail(sv.buf \o up) = Upto(cl.sent)
      /\ cl.sent \in Nat /\ Upto(cl.sent) \in Seq(Items) /\ Len(Upto(cl.sent)) = cl.sent
  BY <1>1, RequestRead DEF Opened, Streams
<1>. DEFINE Dropping(x) == [x EXCEPT !.dropped = @ \o x.buf]
<1>3. PICK k \in 0 .. Len(up) :
        /\ sv.buf \o SubSeq(up, 1, k) # <<>>
        /\ Answer(Dropping(AfterRead(sv, SubSeq(up, 1, k))), (sv.buf \o SubSeq(up, 1, k))[1])
        /\ up' = SubSeq(up, k + 1, Len(up))
  BY DEF OnRequest
<1>. DEFINE a == SubSeq(up, 1, k)
            c == AfterRead(sv, a)
            s == Dropping(c)
            w == sv.buf \o a
<1>4. a \in Seq(Items) /\ up' \in Seq(Items) /\ a \o up' = up
  BY <1>1, <1>3, TwoParts
<1>. HIDE DEF a
<1>5. w \in Seq(Items) /\ w \o up' = sv.buf \o up
  <2>1. w \in Seq(Items)
    BY <1>2, <1>4
  <2>2. (sv.buf \o a) \o up' = sv.buf \o (a \o up')
    <3>. DEFINE b == sv.buf
                u == up'
    <3>1. b \in Seq(Items) /\ a \in Seq(Items) /\ u \in Seq(Items)
      BY <1>2, <1>4
    <3>. HIDE DEF b, u
    <3>2. (b \o a) \o u = b \o (a \o u)
      BY <3>1, ConcatAssociative, SMTT(30)
    <3>. QED BY <3>2 DEF b, u
  <2>. QED BY <1>4, <2>1, <2>2
<1>6. w # <<>> /\ Answer(s, w[1])
  BY <1>3 DEF a
<1>7. c = [sv EXCEPT !.buf = Tail(w)] /\ s = [c EXCEPT !.dropped = @ \o c.buf]
  BY DEF AfterRead
<1>. HIDE DEF w, s, c
<1>8. /\ w[1] = asked /\ Tail(w) \in Seq(Items) /\ Tail(w) \o up' = Upto(cl.sent)
      /\ Len(Tail(w)) <= cl.early
  <2>. DEFINE u == up'
  <2>1. u \in Seq(Items) /\ w \in Seq(Items) /\ w # <<>>
    BY <1>4, <1>5, <1>6
  <2>. HIDE DEF u
  <2>2. /\ (w \o u)[1] = w[1] /\ Tail(w) \in Seq(Items) /\ Tail(w \o u) = Tail(w) \o u
        /\ Len(Tail(w)) <= Len(Tail(w) \o u)
    BY <2>1, FirstPart
  <2>3. w \o u = sv.buf \o up
    BY <1>5 DEF u
  <2>. QED BY <1>1, <1>2, <2>2, <2>3 DEF u
<1>9. /\ Opened(s) /\ s.st = sv.st /\ s.how = sv.how /\ s.sent = sv.sent
      /\ s.dropped = Tail(w)
  <2>1. c.dropped \o c.buf = Tail(w)
    BY <1>1, <1>7, <1>8, ConcatEmptySeq DEF Opened, Streams
  <2>2. s = [sv EXCEPT !.buf = Tail(w), !.dropped = Tail(w)]
    BY <1>7, <2>1
  <2>. QED BY <1>1, <1>8, <2>2 DEF Opened, Streams
<1>. QED BY <1>1, <1>2, <1>4, <1>6, <1>8, <1>9, Answered

LEMMA KeepsResponseSent ==
  ASSUME HandshakeInv, OnResponseSent PROVE HandshakeInv'
<1>1. /\ sv.st = "writing" /\ Opened(sv) /\ up \in Seq(Items) /\ answer # None
      /\ sv.buf = <<>> /\ sv.dropped \o up = Upto(cl.sent) /\ sv.dropped \in Seq(Items)
      /\ UNCHANGED <<cl, up, down, asked, answer, tries>>
  BY DEF OnResponseSent, HandshakeInv, ServerSide, Opened, Streams
<1>2. (sv.dropped \o <<>>) \o (<<>> \o up) = Upto(cl.sent)
  BY <1>1, ConcatEmptySeq
<1>3. ASSUME NEW e \in {"handshake_failed", "eof"}, sv' = FailWith(sv, e)
      PROVE  HandshakeInv'
  <2>1. /\ Opened(sv') /\ sv'.st = "done" /\ sv'.ec = e /\ ~sv'.open /\ sv'.buf = sv.buf
        /\ sv'.got = <<>> /\ sv'.sent = sv.sent /\ sv'.how = sv.how
        /\ sv'.dropped = sv.dropped
    BY <1>1, <1>3, Ends1
  <2>2. ServerSide(sv', up', asked', answer', cl'.sent, cl'.early)
    BY <1>1, <1>2, <2>1 DEF HandshakeInv, ServerSide, Opened, Passed
  <2>. QED BY <1>1, <2>1, <2>2 DEF HandshakeInv
<1>4. ASSUME answer.status = 101, sv' = OpenStream(sv)
      PROVE  HandshakeInv'
  <2>1. /\ Opened(sv') /\ sv'.st = "done" /\ sv'.ec = "ok" /\ sv'.open /\ sv'.buf = sv.buf
        /\ sv'.got = <<>> /\ sv'.sent = sv.sent /\ sv'.how = sv.how
        /\ sv'.dropped = sv.dropped
    BY <1>1, <1>4, Ends2
  <2>2. ServerSide(sv', up', asked', answer', cl'.sent, cl'.early)
    BY <1>1, <1>2, <1>4, <2>1 DEF HandshakeInv, ServerSide, Opened, Passed
  <2>. QED BY <1>1, <2>1, <2>2 DEF HandshakeInv
<1>. QED BY <1>3, <1>4 DEF OnResponseSent

LEMMA KeepsServerError ==
  ASSUME HandshakeInv, OnServerError PROVE HandshakeInv'
<1>1. /\ sv.st \in {"writing", "reading"} /\ Opened(sv) /\ up \in Seq(Items)
      /\ UNCHANGED <<cl, up, down, asked, answer, tries>>
  BY DEF OnServerError, HandshakeInv, ServerSide
<1>2. ~NoMessage(sv, sv.buf \o up)
  <2>. DEFINE w == sv.buf \o up
  <2>1. sv.st = "reading" => w = Behind(asked, cl.sent)
    BY DEF HandshakeInv, ServerSide
  <2>. HIDE DEF w
  <2>2. sv.st = "reading" /\ w # <<>> => w[1].t = "req"
    BY <2>1, RequestRead
  <2>. QED BY <2>2 DEF NoMessage, w
<1>3. sv' = FailWith(sv, "error")
  BY <1>2 DEF OnServerError
<1>4. /\ Opened(sv') /\ sv'.st = "done" /\ sv'.ec = "error" /\ ~sv'.open /\ sv'.sent = sv.sent
      /\ sv'.how = sv.how /\ sv'.dropped = sv.dropped
  BY <1>1, <1>3, Ends1
<1>5. ServerSide(sv', up', asked', answer', cl'.sent, cl'.early)
  BY <1>1, <1>4 DEF HandshakeInv, ServerSide, Opened
<1>. QED BY <1>1, <1>4, <1>5 DEF HandshakeInv

-----------------------------------------------------------------------------
(* Frames on the open connection.                                          *)

LEMMA Counts ==
  ASSUME NEW s, Opened(s), s.open
  PROVE  LET t == [s EXCEPT !.sent = @ + 1]
         IN  /\ Opened(t) /\ t.st = "done" /\ t.ec = "ok" /\ t.open /\ t.buf = s.buf
             /\ t.got = s.got /\ t.sent = s.sent + 1 /\ t.how = s.how /\ s.sent \in Nat
             /\ t.dropped = s.dropped /\ Passed(t) = Passed(s)
<1>1. s \in Streams /\ s.sent \in Nat /\ s.sent + 1 \in Nat
  BY DEF Opened, Streams
<1>. QED BY <1>1 DEF Opened, Streams, Passed

\* The client counts a frame, and whether it was sent in haste.
LEMMA CountsEarly ==
  ASSUME NEW s, Opened(s), NEW e \in Nat
  PROVE  LET t == [s EXCEPT !.sent = @ + 1, !.early = e]
         IN  /\ Opened(t) /\ t.st = s.st /\ t.ec = s.ec /\ t.open = s.open /\ t.buf = s.buf
             /\ t.got = s.got /\ t.sent = s.sent + 1 /\ t.how = s.how /\ s.sent \in Nat
             /\ t.early = e /\ t.dropped = s.dropped
<1>1. s \in Streams /\ s.sent \in Nat /\ s.sent + 1 \in Nat
  BY DEF Opened, Streams
<1>. QED BY <1>1 DEF Opened, Streams

LEMMA KeepsSendFrame ==
  ASSUME HandshakeInv, SendFrame PROVE HandshakeInv'
<1>1. UNCHANGED <<asked, answer, tries>> /\ Opened(cl) /\ Opened(sv)
  BY DEF SendFrame, HandshakeInv, ClientSide, ServerSide
<1>2. CASE /\ cl.open \/ Hasty
           /\ cl' = [cl EXCEPT !.sent = @ + 1, !.early = IF answer = None THEN @ + 1 ELSE @]
           /\ up' = Append(up, Frame(cl.sent + 1)) /\ UNCHANGED <<sv, down>>
  <2>. DEFINE e == IF answer = None THEN cl.early + 1 ELSE cl.early
              n == cl.sent
  <2>1. cl.early \in Nat /\ e \in Nat /\ cl' = [cl EXCEPT !.sent = @ + 1, !.early = e]
    BY <1>1, <1>2 DEF Opened, Streams
  <2>2. /\ Opened(cl') /\ cl'.st = cl.st /\ cl'.ec = cl.ec /\ cl'.open = cl.open
        /\ cl'.buf = cl.buf /\ cl'.got = cl.got /\ cl'.sent = n + 1 /\ cl'.how = cl.how
        /\ cl'.early = e /\ cl'.dropped = cl.dropped /\ n \in Nat
    BY <1>1, <2>1, CountsEarly
  <2>3. asked # None /\ cl.st # "idle" /\ (cl.how = "own" => answer # None)
    <3>1. CASE cl.open
      BY <1>1, <3>1 DEF HandshakeInv, ClientSide, Exchanged, Opened
    <3>2. CASE Hasty
      BY <1>1, <3>2 DEF Hasty, HandshakeInv, ClientSide
    <3>. QED BY <1>2, <3>1, <3>2
  <2>4. ClientSide(cl', down', asked', answer', sv'.sent)
    <3>1. down' = down /\ asked' = asked /\ answer' = answer /\ sv' = sv
      BY <1>1, <1>2
    <3>2. cl.how = "own" => e = 0
      BY <2>3 DEF HandshakeInv, ClientSide
    <3>. HIDE DEF e, n
    <3>. QED BY <2>2, <2>3, <3>1, <3>2 DEF HandshakeInv, ClientSide
  <2>5. up' \in Seq(Items) /\ up \in Seq(Items) /\ sv.buf \in Seq(Items)
    BY <1>1, <1>2, <2>2, UptoFacts DEF HandshakeInv, ServerSide, Opened, Streams
  <2>6. sv.dropped \in Seq(Items) /\ sv.got \in Seq(Items) /\ Passed(sv) \in Seq(Items)
    BY <1>1 DEF Opened, Streams, Passed
  <2>7. /\ e <= n + 1 /\ Len(sv.dropped) <= e /\ (answer = None => e = n + 1)
    <3>1. cl.early <= n /\ Len(sv.dropped) <= cl.early /\ (answer = None => cl.early = n)
      BY DEF HandshakeInv, ServerSide
    <3>2. Len(sv.dropped) \in Nat
      BY <2>6
    <3>. QED BY <2>1, <2>2, <3>1, <3>2
  <2>. DEFINE f == Frame(n + 1)
  <2>8. up' = Append(up, f)
    BY <1>2
  <2>9. asked \in Items /\ <<asked>> \in Seq(Items)
    BY <2>3, RequestFacts DEF HandshakeInv, Exchanged
  <2>10. CASE sv.st = "idle"
    <3>1. up = <<asked>> \o Upto(n)
      BY <2>3, <2>10 DEF HandshakeInv, ServerSide, Behind
    <3>2. <<>> \o up = <<asked>> \o Upto(n) /\ <<>> \in Seq(Items)
      BY <2>5, <3>1, ConcatEmptySeq
    <3>. DEFINE h == <<asked>>
    <3>. HIDE DEF n
    <3>3. <<>> \o Append(up, f) = h \o Upto(n + 1) /\ Append(up, f) \in Seq(Items)
      <4>1. /\ h \in Seq(Items) /\ n \in Nat /\ up \in Seq(Items) /\ <<>> \in Seq(Items)
            /\ <<>> \o up = h \o Upto(n)
        BY <2>2, <2>5, <2>9, <3>2
      <4>. HIDE DEF h
      <4>. QED BY <4>1, SendBehind, ZenonT(30)
    <3>4. up' = Behind(asked, n + 1)
      BY <2>3, <2>8, <3>3, ConcatEmptySeq DEF Behind
    <3>. HIDE DEF e
    <3>5. ServerSide(sv', up', asked', answer', cl'.sent, cl'.early)
      BY <1>1, <1>2, <2>1, <2>2, <2>3, <2>5, <2>7, <2>10, <3>4 DEF HandshakeInv, ServerSide
    <3>. QED BY <1>1, <1>2, <2>4, <3>5 DEF HandshakeInv
  <2>11. CASE sv.st = "reading"
    <3>1. sv.buf \o up = <<asked>> \o Upto(n)
      BY <2>3, <2>11 DEF HandshakeInv, ServerSide, Behind
    <3>. DEFINE b == sv.buf
                h == <<asked>>
    <3>. HIDE DEF n
    <3>2. b \o Append(up, f) = h \o Upto(n + 1)
      <4>1. /\ h \in Seq(Items) /\ n \in Nat /\ up \in Seq(Items) /\ b \in Seq(Items)
            /\ b \o up = h \o Upto(n)
        BY <2>2, <2>5, <2>9, <3>1
      <4>. HIDE DEF h, b
      <4>. QED BY <4>1, SendBehind, ZenonT(30)
    <3>3. sv.buf \o up' = Behind(asked, n + 1)
      BY <2>3, <2>8, <3>2 DEF Behind
    <3>. HIDE DEF e
    <3>4. ServerSide(sv', up', asked', answer', cl'.sent, cl'.early)
      BY <1>1, <1>2, <2>1, <2>2, <2>3, <2>5, <2>7, <2>11, <3>3 DEF HandshakeInv, ServerSide
    <3>. QED BY <1>1, <1>2, <2>4, <3>4 DEF HandshakeInv
  <2>12. CASE sv.st = "writing"
    <3>1. sv.dropped \o up = Upto(n)
      BY <2>12 DEF HandshakeInv, ServerSide
    <3>2. Upto(n) \in Seq(Items) /\ Upto(n + 1) \in Seq(Items) /\ <<>> \in Seq(Items)
      <4>1. n \in Nat /\ n + 1 \in Nat
        BY <2>2
      <4>. HIDE DEF n
      <4>. QED BY <4>1, UptoFacts
    <3>. DEFINE b == sv.dropped
    <3>. HIDE DEF n
    <3>3. b \o Append(up, f) = <<>> \o Upto(n + 1)
      <4>1. /\ b \in Seq(Items) /\ up \in Seq(Items) /\ <<>> \in Seq(Items) /\ n \in Nat
            /\ b \o up = <<>> \o Upto(n)
        BY <2>2, <2>5, <2>6, <3>1, <3>2, ConcatEmptySeq
      <4>. HIDE DEF b
      <4>. QED BY <4>1, SendBehind, ZenonT(30)
    <3>4. sv.dropped \o up' = Upto(n + 1)
      BY <2>8, <3>2, <3>3, ConcatEmptySeq
    <3>. HIDE DEF e
    <3>5. ServerSide(sv', up', asked', answer', cl'.sent, cl'.early)
      <4>1. /\ Opened(sv) /\ (~sv.open => sv.sent = 0) /\ (sv.open => answer.status = 101)
            /\ sv.buf = <<>> /\ answer # None
        BY <2>12 DEF HandshakeInv, ServerSide
      <4>2. n + 1 \in Nat
        BY <2>2
      <4>3. ServerSide(sv, up', asked, answer, n + 1, e)
        BY <2>1, <2>3, <2>5, <2>7, <2>12, <3>4, <4>1, <4>2 DEF ServerSide
      <4>. QED BY <1>1, <1>2, <2>2, <4>3
    <3>. QED BY <1>1, <1>2, <2>4, <3>5 DEF HandshakeInv
  <2>13. CASE sv.st = "done" /\ sv.ec # "error"
    <3>1. Passed(sv) \o (sv.buf \o up) = Upto(n)
      BY <2>13 DEF HandshakeInv, ServerSide
    <3>. DEFINE g == Passed(sv)
                b == sv.buf
    <3>. HIDE DEF n, g, b
    <3>2. g \o (b \o Append(up, f)) = Upto(n + 1)
      <4>1. /\ g \in Seq(Items) /\ b \in Seq(Items) /\ up \in Seq(Items) /\ n \in Nat
            /\ g \o (b \o up) = Upto(n)
        BY <2>2, <2>5, <2>6, <3>1 DEF g, b
      <4>. QED BY <4>1, SendOne
    <3>3. Passed(sv) \o (sv.buf \o up') = Upto(n + 1)
      BY <2>8, <3>2 DEF g, b
    <3>. HIDE DEF e
    <3>4. ServerSide(sv', up', asked', answer', cl'.sent, cl'.early)
      <4>1. /\ Opened(sv) /\ (~sv.open => sv.sent = 0) /\ (sv.open => answer.status = 101)
            /\ sv.ec \in {"ok", "handshake_failed", "eof", "error"} /\ answer # None
        BY <2>13 DEF HandshakeInv, ServerSide
      <4>2. n + 1 \in Nat
        BY <2>2
      <4>3. ServerSide(sv, up', asked, answer, n + 1, e)
        BY <2>1, <2>3, <2>5, <2>7, <2>13, <3>3, <4>1, <4>2 DEF ServerSide
      <4>. QED BY <1>1, <1>2, <2>2, <4>3
    <3>. QED BY <1>1, <1>2, <2>4, <3>4 DEF HandshakeInv
  <2>14. CASE sv.st = "done" /\ sv.ec = "error"
    <3>. HIDE DEF n, e
    <3>1. ServerSide(sv', up', asked', answer', cl'.sent, cl'.early)
      BY <1>1, <1>2, <2>1, <2>2, <2>3, <2>5, <2>7, <2>14 DEF HandshakeInv, ServerSide, Opened
    <3>. QED BY <1>1, <1>2, <2>4, <3>1 DEF HandshakeInv
  <2>15. sv.st \in {"idle", "reading", "writing", "done"}
    BY <1>1 DEF Opened, Streams
  <2>. QED BY <2>10, <2>11, <2>12, <2>13, <2>14, <2>15
<1>3. CASE /\ sv.open /\ sv' = [sv EXCEPT !.sent = @ + 1]
           /\ down' = Append(down, Frame(sv.sent + 1)) /\ UNCHANGED <<cl, up>>
  <2>1. /\ Opened(sv') /\ sv'.st = "done" /\ sv'.ec = "ok" /\ sv'.open /\ sv'.buf = sv.buf
        /\ sv'.got = sv.got /\ sv'.sent = sv.sent + 1 /\ sv.sent \in Nat /\ sv'.how = sv.how
        /\ sv'.dropped = sv.dropped /\ Passed(sv') = Passed(sv)
    BY <1>1, <1>3, Counts
  <2>2. /\ sv.st = "done" /\ sv.ec = "ok" /\ answer # None /\ answer \in Replies
        /\ asked # None /\ down \in Seq(Items)
    BY <1>1, <1>3 DEF HandshakeInv, ClientSide, ServerSide, Opened, Exchanged
  <2>3. ServerSide(sv', up', asked', answer', cl'.sent, cl'.early)
    BY <1>1, <1>3, <2>1, <2>2 DEF HandshakeInv, ServerSide
  <2>4. down' \in Seq(Items)
    BY <1>3, <2>1, <2>2, UptoFacts
  <2>5. CASE cl.st \in {"writing", "reading"}
    <3>1. down = <<answer>> \o Upto(sv.sent) /\ <<answer>> \in Seq(Items)
      BY <2>2, <2>5, ReplyFacts DEF HandshakeInv, ClientSide
    <3>2. down' = <<answer>> \o Upto(sv'.sent)
      <4>. DEFINE f == Frame(sv.sent + 1)
                  u == Upto(sv.sent)
                  r == <<answer>>
      <4>1. u \in Seq(Items) /\ f \in Items /\ Append(u, f) = Upto(sv'.sent) /\ r \in Seq(Items)
        BY <2>1, <3>1, UptoFacts
      <4>2. down = r \o u /\ down' = Append(down, f)
        BY <1>3, <3>1
      <4>. HIDE DEF f, u, r
      <4>3. <<f>> \in Seq(Items)
        BY <4>1
      <4>4. Append(u, f) = u \o <<f>> /\ Append(down, f) = down \o <<f>>
        BY <2>2, <4>1, AppendIsConcat
      <4>5. (r \o u) \o <<f>> = r \o (u \o <<f>>)
        BY <4>1, <4>3, ConcatAssociative
      <4>. QED BY <4>1, <4>2, <4>4, <4>5 DEF r
    <3>3. ClientSide(cl', down', asked', answer', sv'.sent)
      BY <1>1, <1>3, <2>2, <2>4, <2>5, <3>2 DEF HandshakeInv, ClientSide, Opened
    <3>. QED BY <1>1, <1>3, <2>1, <2>3, <3>3 DEF HandshakeInv
  <2>6. CASE cl.st = "done" /\ cl.ec # "error"
    <3>1. cl.got \in Seq(Items) /\ cl.buf \in Seq(Items) /\ cl.got \o (cl.buf \o down) = Upto(sv.sent)
      BY <2>6 DEF HandshakeInv, ClientSide, Opened, Streams
    <3>2. cl.got \o (cl.buf \o down') = Upto(sv'.sent)
      <4>. DEFINE g == cl.got
                  b == cl.buf
                  n == sv.sent
      <4>1. /\ g \in Seq(Items) /\ b \in Seq(Items) /\ down \in Seq(Items) /\ n \in Nat
            /\ g \o (b \o down) = Upto(n)
        BY <2>1, <2>2, <3>1
      <4>. HIDE DEF g, b, n
      <4>2. g \o (b \o Append(down, Frame(n + 1))) = Upto(n + 1)
        BY <4>1, SendOne
      <4>. QED BY <1>3, <2>1, <4>2 DEF g, b, n
    <3>3. ClientSide(cl', down', asked', answer', sv'.sent)
      BY <1>1, <1>3, <2>4, <2>6, <3>2 DEF HandshakeInv, ClientSide
    <3>. QED BY <1>1, <1>3, <2>1, <2>3, <3>3 DEF HandshakeInv
  <2>7. CASE cl.st = "done" /\ cl.ec = "error"
    <3>1. ClientSide(cl', down', asked', answer', sv'.sent)
      BY <1>1, <1>3, <2>4, <2>7 DEF HandshakeInv, ClientSide, Opened
    <3>. QED BY <1>1, <1>3, <2>1, <2>3, <3>1 DEF HandshakeInv
  <2>8. cl.st \in {"writing", "reading", "done"}
    BY <1>1, <2>2 DEF HandshakeInv, ClientSide, Opened, Streams
  <2>. QED BY <2>5, <2>6, <2>7, <2>8
<1>. QED BY <1>2, <1>3 DEF SendFrame

\* read_frame: the stream after a frame has been read, and the line.
Taken(s, u) == [s EXCEPT !.got = Append(@, (s.buf \o u)[1]),
                         !.buf = IF @ = <<>> THEN @ ELSE Tail(@)]
RestOf(b) == IF b = <<>> THEN b ELSE Tail(b)
LeftOf(b, u) == IF b = <<>> THEN Tail(u) ELSE u

\* A frame that is read moves from the buffer, or the line, to the reader.
LEMMA ReadOne ==
  ASSUME NEW g \in Seq(Items), NEW b \in Seq(Items), NEW u \in Seq(Items), b \o u # <<>>
  PROVE  LET h == Append(g, (b \o u)[1])
             c == RestOf(b)
             v == LeftOf(b, u)
         IN  /\ h \in Seq(Items) /\ c \in Seq(Items) /\ v \in Seq(Items)
             /\ h \o (c \o v) = g \o (b \o u)
<1>. DEFINE x == (b \o u)[1]
            h == Append(g, x)
            c == RestOf(b)
            v == LeftOf(b, u)
            w == b \o u
<1>1. w \in Seq(Items) /\ x \in Items /\ <<x>> \in Seq(Items) /\ Tail(w) \in Seq(Items)
  OBVIOUS
<1>2. w = <<x>> \o Tail(w)
  OBVIOUS
<1>3. c \in Seq(Items) /\ v \in Seq(Items) /\ c \o v = Tail(w)
  <2>1. CASE b = <<>>
    <3>1. w = u
      BY <2>1, ConcatEmptySeq
    <3>2. Tail(u) \in Seq(Items) /\ <<>> \o Tail(u) = Tail(u)
      BY <3>1, ConcatEmptySeq
    <3>. QED BY <2>1, <3>1, <3>2 DEF RestOf, LeftOf
  <2>2. CASE b # <<>>
    <3>1. Tail(b) \in Seq(Items) /\ Tail(b) \o u = Tail(b \o u)
      BY <2>2
    <3>. QED BY <2>2, <3>1 DEF RestOf, LeftOf
  <2>. QED BY <2>1, <2>2
<1>. HIDE DEF x, w, c, v
<1>4. h \in Seq(Items) /\ h = g \o <<x>>
  BY <1>1, AppendIsConcat
<1>5. (g \o <<x>>) \o Tail(w) = g \o (<<x>> \o Tail(w))
  BY <1>1, ConcatAssociative, SMTT(30)
<1>. HIDE DEF h
<1>. QED BY <1>2, <1>3, <1>4, <1>5 DEF h, x, w, c, v

LEMMA Takes ==
  ASSUME NEW s, Opened(s), s.open, NEW u \in Seq(Items), s.buf \o u # <<>>
  PROVE  LET t == Taken(s, u)
             v == LeftOf(s.buf, u)
         IN  /\ Opened(t) /\ t.st = "done" /\ t.ec = "ok" /\ t.open /\ t.sent = s.sent
             /\ t.how = s.how /\ t.early = s.early /\ t.dropped = s.dropped /\ v \in Seq(Items)
             /\ t.got \o (t.buf \o v) = s.got \o (s.buf \o u)
             /\ Passed(t) \o (t.buf \o v) = Passed(s) \o (s.buf \o u)
<1>. DEFINE g == s.got
            b == s.buf
            h == Append(g, (b \o u)[1])
            c == RestOf(b)
            v == LeftOf(b, u)
            t == Taken(s, u)
<1>1. g \in Seq(Items) /\ b \in Seq(Items) /\ b \o u # <<>>
  BY DEF Opened, Streams
<1>2. t = [s EXCEPT !.got = h, !.buf = c]
  BY DEF Taken, RestOf
<1>3. /\ h \in Seq(Items) /\ c \in Seq(Items) /\ v \in Seq(Items)
      /\ h \o (c \o v) = g \o (b \o u)
  <2>. HIDE DEF g, b
  <2>. QED BY <1>1, ReadOne, ZenonT(30)
<1>. HIDE DEF h, c, v, t
<1>4. t.got = h /\ t.buf = c
  BY <1>2 DEF Opened, Streams
<1>5. /\ Opened(t) /\ t.st = "done" /\ t.ec = "ok" /\ t.open /\ t.sent = s.sent
      /\ t.how = s.how /\ t.early = s.early /\ t.dropped = s.dropped
  BY <1>2, <1>3 DEF Opened, Streams
<1>6. t.got \o (t.buf \o v) = s.got \o (s.buf \o u)
  BY <1>3, <1>4
<1>7. Passed(t) \o (t.buf \o v) = Passed(s) \o (s.buf \o u)
  <2>. DEFINE d == s.dropped
              x == c \o v
              y == b \o u
  <2>1. d \in Seq(Items) /\ x \in Seq(Items) /\ y \in Seq(Items)
    BY <1>1, <1>3 DEF Opened, Streams
  <2>2. h \o x = g \o y
    BY <1>3
  <2>3. /\ Passed(t) \o (t.buf \o v) = (d \o h) \o x
        /\ Passed(s) \o (s.buf \o u) = (d \o g) \o y
    BY <1>4, <1>5 DEF Passed
  <2>. HIDE DEF d, x, y, g
  <2>4. (d \o h) \o x = d \o (h \o x)
    BY <1>3, <2>1, ItemsTogether, ZenonT(30)
  <2>5. (d \o g) \o y = d \o (g \o y)
    BY <1>1, <2>1, ItemsTogether, ZenonT(30)
  <2>. QED BY <2>2, <2>3, <2>4, <2>5
<1>. QED BY <1>3, <1>5, <1>6, <1>7 DEF t, v

LEMMA KeepsReadFrame ==
  ASSUME HandshakeInv, ReadFrame PROVE HandshakeInv'
<1>1. /\ UNCHANGED <<asked, answer, tries>> /\ Opened(cl) /\ Opened(sv)
      /\ up \in Seq(Items) /\ down \in Seq(Items)
  BY DEF ReadFrame, HandshakeInv, ClientSide, ServerSide
<1>2. CASE /\ cl.open /\ cl.buf \o down # <<>>
           /\ cl' = Taken(cl, down) /\ down' = LeftOf(cl.buf, down)
           /\ UNCHANGED <<sv, up>>
  <2>1. /\ Opened(cl') /\ cl'.st = "done" /\ cl'.ec = "ok" /\ cl'.open /\ cl'.sent = cl.sent
        /\ cl'.how = cl.how /\ cl'.early = cl.early /\ cl'.dropped = cl.dropped
        /\ down' \in Seq(Items) /\ cl'.got \o (cl'.buf \o down') = cl.got \o (cl.buf \o down)
    BY <1>1, <1>2, Takes
  <2>2. cl.st = "done" /\ cl.ec = "ok"
    BY <1>1, <1>2 DEF Opened
  <2>3. ClientSide(cl', down', asked', answer', sv'.sent)
    BY <1>1, <1>2, <2>1, <2>2 DEF HandshakeInv, ClientSide
  <2>. QED BY <1>1, <1>2, <2>1, <2>3 DEF HandshakeInv
<1>3. CASE /\ sv.open /\ sv.buf \o up # <<>>
           /\ sv' = Taken(sv, up) /\ up' = LeftOf(sv.buf, up)
           /\ UNCHANGED <<cl, down>>
  <2>1. /\ Opened(sv') /\ sv'.st = "done" /\ sv'.ec = "ok" /\ sv'.open /\ sv'.sent = sv.sent
        /\ sv'.how = sv.how /\ sv'.dropped = sv.dropped
        /\ up' \in Seq(Items) /\ Passed(sv') \o (sv'.buf \o up') = Passed(sv) \o (sv.buf \o up)
    BY <1>1, <1>3, Takes
  <2>2. sv.st = "done" /\ sv.ec = "ok"
    BY <1>1, <1>3 DEF Opened
  <2>3. ServerSide(sv', up', asked', answer', cl'.sent, cl'.early)
    BY <1>1, <1>3, <2>1, <2>2 DEF HandshakeInv, ServerSide
  <2>. QED BY <1>1, <1>3, <2>1, <2>3 DEF HandshakeInv
<1>. QED BY <1>2, <1>3 DEF ReadFrame, Taken, LeftOf

-----------------------------------------------------------------------------
(* The connection, and the objects used again.                             *)

LEMMA KeepsTryAgain ==
  ASSUME HandshakeInv, TryAgain PROVE HandshakeInv'
<1>1. /\ cl.st = "done" /\ cl.ec = "response_failed" /\ sv.st = "done" /\ sv.ec = "handshake_failed"
      /\ cl.sent = 0 /\ cl' = [cl EXCEPT !.st = "idle", !.ec = "none"]
      /\ sv' = [sv EXCEPT !.st = "idle", !.ec = "none"]
      /\ asked' = None /\ answer' = None /\ UNCHANGED <<up, down, tries>>
      /\ Opened(cl) /\ Opened(sv) /\ up \in Seq(Items) /\ down \in Seq(Items)
  BY DEF TryAgain, HandshakeInv, ClientSide, ServerSide
<1>2. ASSUME NEW s, Opened(s), s.ec # "ok"
      PROVE  LET t == [s EXCEPT !.st = "idle", !.ec = "none"]
             IN  /\ Opened(t) /\ t.st = "idle" /\ ~t.open /\ t.sent = s.sent /\ ~s.open
                 /\ t.early = s.early /\ t.dropped = s.dropped /\ s.dropped \in Seq(Items)
                 /\ s.got = <<>> /\ t.how = s.how /\ s.buf \in Seq(Items)
  BY <1>2 DEF Opened, Streams
<1>3. /\ Opened(cl') /\ cl'.st = "idle" /\ ~cl'.open /\ cl'.sent = 0 /\ cl.sent = 0
      /\ cl.got = <<>> /\ cl.buf \in Seq(Items) /\ cl.dropped = <<>> /\ cl'.dropped = <<>>
      /\ cl'.early = cl.early /\ cl'.how = cl.how /\ cl.early = 0
  <2>1. cl.early \in Nat /\ cl.early <= cl.sent /\ cl.dropped = <<>>
    BY DEF HandshakeInv, ServerSide, ClientSide
  <2>2. Opened(cl) /\ cl.ec # "ok" /\ cl' = [cl EXCEPT !.st = "idle", !.ec = "none"]
    BY <1>1
  <2>3. /\ Opened(cl') /\ cl'.st = "idle" /\ ~cl'.open /\ cl'.sent = cl.sent
        /\ cl'.early = cl.early /\ cl'.dropped = cl.dropped /\ cl.got = <<>> /\ cl'.how = cl.how
        /\ cl.buf \in Seq(Items)
    BY <1>2, <2>2
  <2>4. cl.early = 0
    BY <1>1, <2>1
  <2>. QED BY <1>1, <2>1, <2>3, <2>4
<1>4. /\ Opened(sv') /\ sv'.st = "idle" /\ ~sv'.open /\ sv'.sent = 0 /\ sv.sent = 0
      /\ sv.got = <<>> /\ sv.buf \in Seq(Items) /\ sv.dropped = <<>> /\ sv'.dropped = <<>>
  <2>5. Opened(sv) /\ sv.ec # "ok" /\ sv' = [sv EXCEPT !.st = "idle", !.ec = "none"]
    BY <1>1
  <2>6. /\ Opened(sv') /\ sv'.st = "idle" /\ ~sv'.open /\ sv'.sent = sv.sent /\ ~sv.open
        /\ sv'.dropped = sv.dropped /\ sv.got = <<>> /\ sv.dropped \in Seq(Items)
        /\ sv.buf \in Seq(Items)
    BY <1>2, <2>5
  <2>1. sv.dropped \in Seq(Items) /\ ~sv.open /\ Len(sv.dropped) \in Nat
    BY <2>6
  <2>2. Len(sv.dropped) <= cl.early
    BY DEF HandshakeInv, ServerSide
  <2>3. sv.dropped = <<>>
    BY <1>3, <2>1, <2>2, EmptySeq
  <2>4. sv.sent = 0
    BY <2>1 DEF HandshakeInv, ServerSide
  <2>. QED BY <1>1, <2>3, <2>4, <2>6
<1>5. ASSUME NEW b \in Seq(Items), NEW u \in Seq(Items), <<>> \o (b \o u) = Upto(0)
      PROVE  u = <<>>
  <2>1. Upto(0) = <<>>
    BY UptoFacts
  <2>2. b \o u \in Seq(Items)
    OBVIOUS
  <2>. DEFINE w == b \o u
  <2>3. <<>> \o w = w
    <3>. HIDE DEF w
    <3>. QED BY <2>2, ConcatEmptySeq DEF w
  <2>. QED BY <1>5, <2>1, <2>3, ConcatEqualIffEmpty
<1>6. up = <<>>
  <2>1. Passed(sv) = <<>>
    BY <1>4, ConcatEmptySeq DEF Passed
  <2>. QED BY <1>1, <1>3, <1>4, <1>5, <2>1 DEF HandshakeInv, ServerSide
<1>7. down = <<>>
  BY <1>1, <1>3, <1>4, <1>5 DEF HandshakeInv, ClientSide
<1>8. ClientSide(cl', down', asked', answer', sv'.sent)
  BY <1>1, <1>3, <1>7 DEF ClientSide
<1>9. ServerSide(sv', up', asked', answer', cl'.sent, cl'.early)
  <2>1. Len(<<>>) = 0
    OBVIOUS
  <2>. QED BY <1>1, <1>3, <1>4, <1>6, <2>1 DEF ServerSide, Behind
<1>10. Exchanged(asked', answer', sv'.how, tries')
  BY <1>1 DEF Exchanged
<1>. QED BY <1>1, <1>8, <1>9, <1>10 DEF HandshakeInv

LEMMA KeepsReconnect ==
  ASSUME HandshakeInv, Reconnect PROVE HandshakeInv'
<1>1. /\ cl' \in Used(cl) /\ sv' \in Used(sv) /\ up' = <<>> /\ down' = <<>>
      /\ asked' = None /\ answer' = None /\ UNCHANGED tries
      /\ Opened(cl) /\ Opened(sv)
  BY DEF Reconnect, HandshakeInv, ClientSide, ServerSide
<1>2. ASSUME NEW s, Opened(s), NEW t \in Used(s)
      PROVE  /\ Opened(t) /\ t.st = "idle" /\ ~t.open /\ t.sent = 0 /\ t.early = 0
             /\ t.dropped = <<>>
  <2>1. PICK b \in {<<>>, <<Old>>}, d \in {Fields, {}} :
          t = [Stream(s.how, s.keep) EXCEPT !.buf = b, !.dirty = d]
    BY DEF Used
  <2>2. b \in Seq(Items) /\ d \in SUBSET Fields
    <3>1. Old \in Items
      BY DEF Items
    <3>2. <<>> \in Seq(Items) /\ <<Old>> \in Seq(Items)
      BY <3>1
    <3>. QED BY <2>1, <3>2
  <2>3. s.how \in {"own", "accept", "buffers", "request", "other"} /\ s.keep \in BOOLEAN
    BY <1>2 DEF Opened, Streams
  <2>4. <<>> \in Seq(Items)
    OBVIOUS
  <2>5. /\ t = [how |-> s.how, keep |-> s.keep, st |-> "idle", open |-> FALSE, ec |-> "none",
                buf |-> b, dirty |-> d, sent |-> 0, early |-> 0, got |-> <<>>, dropped |-> <<>>]
    BY <2>1 DEF Stream
  <2>. QED BY <2>2, <2>3, <2>4, <2>5 DEF Opened, Streams
<1>3. /\ Opened(cl') /\ cl'.st = "idle" /\ ~cl'.open
      /\ cl'.sent = 0 /\ cl'.early = 0 /\ cl'.dropped = <<>>
      /\ Opened(sv') /\ sv'.st = "idle" /\ ~sv'.open /\ sv'.sent = 0 /\ sv'.dropped = <<>>
  BY <1>1, <1>2
<1>4. <<>> \in Seq(Items) /\ Len(<<>>) = 0
  OBVIOUS
<1>5. ClientSide(cl', down', asked', answer', sv'.sent)
  BY <1>1, <1>3, <1>4 DEF ClientSide
<1>6. ServerSide(sv', up', asked', answer', cl'.sent, cl'.early)
  BY <1>1, <1>3, <1>4 DEF ServerSide, Behind
<1>7. Exchanged(asked', answer', sv'.how, tries')
  BY <1>1 DEF Exchanged
<1>. QED BY <1>1, <1>5, <1>6, <1>7 DEF HandshakeInv

LEMMA HandshakeStep == HandshakeInv /\ [HsNext]_hvars => HandshakeInv'
<1>. SUFFICES ASSUME HandshakeInv, [HsNext]_hvars PROVE HandshakeInv'
  OBVIOUS
<1>1. CASE HsStep
  BY <1>1, KeepsRequestSent, KeepsResponse, KeepsClientError, KeepsAccept, KeepsAcceptRequest,
     KeepsRequest, KeepsResponseSent, KeepsServerError DEF HsStep
<1>2. CASE Break
  BY <1>2 DEF Break, HandshakeInv
<1>3. CASE UNCHANGED hvars
  BY <1>3 DEF hvars, HandshakeInv
<1>4. CASE Handshake \/ SendFrame \/ ReadFrame \/ TryAgain \/ Reconnect
  BY <1>4, KeepsHandshake, KeepsSendFrame, KeepsReadFrame, KeepsTryAgain, KeepsReconnect
<1>. QED BY <1>1, <1>2, <1>3, <1>4 DEF HsNext

\* What is read and buffered on an open stream are frames of its connection.
LEMMA OnlyFrames ==
  \A g, b, u \in Seq(Items), n \in Nat :
    g \o (b \o u) = Upto(n) => Old \notin ToSet(g \o b)
<1>. TAKE g, b, u \in Seq(Items), n \in Nat
<1>. DEFINE w == g \o b
            x == w \o u
<1>1. (g \o b) \o u = g \o (b \o u)
  BY ConcatAssociative
<1>2. w \in Seq(Items)
  OBVIOUS
<1>3. DOMAIN w = 1 .. Len(w) /\ Len(w) \in Nat
  <2>. HIDE DEF w
  <2>. QED BY <1>2
<1>4. /\ Len(u) \in Nat /\ Len(x) = Len(w) + Len(u)
      /\ \A i \in 1 .. Len(w) : x[i] = w[i]
  <2>. HIDE DEF w
  <2>. QED BY <1>2
<1>5. g \o (b \o u) = x
  BY <1>1
<1>6. \A i : Frame(i) # Old
  <2>1. \A i : Frame(i).t = "frame"
    BY DEF Frame
  <2>2. Old.t = "old"
    BY DEF Old
  <2>. QED BY <2>1, <2>2
<1>. HIDE DEF x, w
<1>7. ASSUME x = Upto(n) PROVE Old \notin ToSet(w)
  <2>1. Len(x) = n /\ \A i \in 1 .. n : x[i] = Frame(i)
    BY <1>7, UptoFacts
  <2>2. \A i \in 1 .. Len(w) : i \in 1 .. n
    BY <1>3, <1>4, <2>1
  <2>3. \A i \in 1 .. Len(w) : w[i] = Frame(i)
    BY <1>4, <2>1, <2>2
  <2>. QED BY <1>3, <1>6, <2>3 DEF ToSet
<1>. QED BY <1>5, <1>7 DEF x, w

-----------------------------------------------------------------------------
(* The results.                                                            *)

\* The handshake behind every open stream: the requests, the answer and the
\* frames behind them are where the two streams look for them.
THEOREM HandshakeInvariance == Spec => []HandshakeInv
BY HandshakeInit, HandshakePart, HandshakeStep, PTL DEF Spec

\* A stream opens only by a handshake of its own connection (do_response and
\* build_response), and the server refuses only what is wrong.
THEOREM OpensAgreed == Spec => []OpenIsAgreed
<1>1. HandshakeInv => OpenIsAgreed
  <2>. SUFFICES ASSUME HandshakeInv PROVE OpenIsAgreed
    OBVIOUS
  <2>1. cl.open => cl.st = "done" /\ cl.ec = "ok" /\ answer # None
    BY DEF HandshakeInv, ClientSide, Opened
  <2>2. answer # None => asked # None /\ asked.key = tries
    BY DEF HandshakeInv, Exchanged
  <2>3. cl.open => /\ answer.status = 101 /\ answer.accept = make_sec_ws_accept(asked.key)
                   /\ "upgrade" \notin answer.flaws /\ answer.http.ver = 11
    BY DEF HandshakeInv, ClientSide
  <2>4. sv.open => sv.ec = "ok" /\ answer # None /\ answer.status = 101
    BY DEF HandshakeInv, ServerSide, Opened
  <2>5. answer # None /\ sv.how # "other" =>
          /\ answer.status # 101 <=> ~Acceptable(asked)
          /\ answer.status = 426 => asked.flaws = {"wsversion"}
    BY DEF HandshakeInv, Exchanged
  <2>. QED BY <2>1, <2>2, <2>3, <2>4, <2>5 DEF OpenIsAgreed
<1>. QED BY <1>1, HandshakeInvariance, PTL

\* An open stream has nothing of an earlier connection but the state of its
\* UTF-8 check, and no octet of this one is lost, between the response and the
\* first frame or after it, but frames of a hasty client that the server read
\* with the request.
THEOREM OpensFresh == Spec => []OpenIsFresh
<1>1. HandshakeInv => OpenIsFresh
  <2>. SUFFICES ASSUME HandshakeInv PROVE OpenIsFresh
    OBVIOUS
  <2>1. ASSUME NEW s, Opened(s), NEW u \in Seq(Items), NEW n \in Nat,
               s.open, Passed(s) \o (s.buf \o u) = Upto(n)
        PROVE  /\ s.dirty \subseteq {"rd_utf8_check"}
               /\ Old \notin ToSet(s.dropped \o s.got \o s.buf)
               /\ s.dropped \o s.got \o s.buf \o u = Upto(n)
    <3>. DEFINE g == s.dropped \o s.got
                b == s.buf
    <3>1. g \in Seq(Items) /\ b \in Seq(Items) /\ u \in Seq(Items) /\ n \in Nat
      BY <2>1 DEF Opened, Streams
    <3>2. g \o (b \o u) = Upto(n) /\ s.dirty \subseteq {"rd_utf8_check"}
      BY <2>1 DEF Opened, Passed
    <3>. HIDE DEF g, b
    <3>3. g \o (b \o u) = Upto(n) => Old \notin ToSet(g \o b)
      BY <3>1, OnlyFrames, Zenon
    <3>4. (g \o b) \o u = g \o (b \o u)
      BY <3>1, ConcatAssociative
    <3>. QED BY <3>2, <3>3, <3>4 DEF g, b
  <2>2. /\ Opened(cl) /\ Opened(sv) /\ up \in Seq(Items) /\ down \in Seq(Items)
        /\ cl.sent \in Nat /\ sv.sent \in Nat /\ cl.ec # "parse" /\ sv.ec # "parse"
        /\ sv.dropped \in Seq(Items) /\ cl.got \in Seq(Items)
    BY DEF HandshakeInv, ClientSide, ServerSide, Opened, Streams
  <2>3. cl.dropped \o cl.got = cl.got
    BY <2>2, ConcatEmptySeq DEF HandshakeInv, ClientSide
  <2>4. cl.open => Passed(cl) \o (cl.buf \o down) = Upto(sv.sent)
    BY <2>3 DEF HandshakeInv, ClientSide, Opened, Passed
  <2>5. sv.open => Passed(sv) \o (sv.buf \o up) = Upto(cl.sent)
    BY DEF HandshakeInv, ServerSide, Opened
  <2>6. cl.open => /\ cl.dirty \subseteq {"rd_utf8_check"}
                   /\ Old \notin ToSet(cl.dropped \o cl.got \o cl.buf)
                   /\ cl.dropped \o cl.got \o cl.buf \o down = Upto(sv.sent)
    BY <2>1, <2>2, <2>4, Zenon
  <2>7. sv.open => /\ sv.dirty \subseteq {"rd_utf8_check"}
                   /\ Old \notin ToSet(sv.dropped \o sv.got \o sv.buf)
                   /\ sv.dropped \o sv.got \o sv.buf \o up = Upto(cl.sent)
    BY <2>1, <2>2, <2>5, Zenon
  <2>8. cl.open => cl.got \o cl.buf \o down = Upto(sv.sent)
    BY <2>3, <2>6, Zenon
  <2>9. Len(sv.dropped) <= cl.early /\ (cl.how = "own" => sv.dropped = <<>>)
    <3>1. Len(sv.dropped) <= cl.early /\ Len(sv.dropped) \in Nat
      BY <2>2 DEF HandshakeInv, ServerSide
    <3>2. cl.how = "own" => cl.early = 0
      BY DEF HandshakeInv, ClientSide
    <3>3. cl.how = "own" => Len(sv.dropped) = 0
      BY <3>1, <3>2
    <3>. QED BY <2>2, <3>1, <3>3, EmptySeq
  <2>10. \A s \in {cl, sv} :
           /\ s.open => s.dirty \subseteq {"rd_utf8_check"} /\ Old \notin ToSet(s.dropped \o s.got \o s.buf)
           /\ s.ec # "parse"
    BY <2>2, <2>6, <2>7, Zenon
  <2>. QED BY <2>7, <2>8, <2>9, <2>10, Zenon DEF OpenIsFresh
<1>. QED BY <1>1, HandshakeInvariance, PTL

-----------------------------------------------------------------------------
(* An open connection.                                                     *)

LEMMA SessionPart == [Next]_vars => [SessionNext]_sessvars
BY DEF Next, vars

-----------------------------------------------------------------------------
(* teardown                                                                *)

EndStates ==
  [layer : Layers, st : {"open", "drain", "ended"}, shut : BOOLEAN,
   ec : {"none", "ok", "error", "eof"}, closed : BOOLEAN]

\* An end shuts its sending side down when it stops being open, and has a
\* result only when its teardown has ended.
TeardownInv ==
  /\ ends \in [Ends -> EndStates] /\ cable \in {"up", "cut"}
  /\ \A e \in Ends : /\ ends[e].shut <=> ends[e].st # "open"
                     /\ ends[e].st # "ended" => ends[e].ec = "none" /\ ~ends[e].closed
  /\ back \in [now : Nat, all : Nat]
  /\ TeardownIsClean

LEMMA TeardownInit == Init => TeardownInv
<1>. USE DEF TeardownInv, EndStates, TeardownIsClean, Ends, Layers
<1>1. ASSUME SessionIdle PROVE TeardownInv
  BY <1>1, SessionAssumption DEF SessionIdle
<1>2. ASSUME SessionInit PROVE TeardownInv
  <2>1. PICK layer \in Layers :
          ends = [e \in Ends |-> [layer |-> layer, st |-> "open", shut |-> FALSE,
                                  ec |-> "none", closed |-> FALSE]]
    BY <1>2 DEF SessionInit
  <2>. QED BY <1>2, <2>1 DEF SessionInit
<1>. QED BY <1>1, <1>2 DEF Init

\* Once an end has closed, the other one has shut its sending side down: it is
\* not open, sends nothing more, and nothing unread appears again.
LEMMA TeardownStep == ASSUME TeardownInv, [SessionNext]_sessvars PROVE TeardownInv'
<1>. USE DEF Ends, EndStates, Other, Unread, TeardownIsClean
<1>1. ASSUME NEW n \in 0 .. 2, NEW fin \in BOOLEAN, WriteFrame(n, fin) PROVE TeardownInv'
  BY <1>1 DEF WriteFrame, Up, TeardownInv
<1>2. CASE ReadOp \/ ReadFails \/ Take
  BY <1>2 DEF ReadOp, ReadFails, Take, TeardownInv
<1>3. CASE GotFrame
  BY <1>3 DEF GotFrame, TeardownInv
<1>4. CASE SendBack
  BY <1>4 DEF SendBack, Up, TeardownInv
<1>5. CASE TakeBack
  BY <1>5 DEF TakeBack, Up, TeardownInv
<1>6. CASE Cut
  BY <1>6 DEF Cut, TeardownInv
<1>7. ASSUME NEW e \in Ends, Teardown(e) PROVE TeardownInv'
  BY <1>7 DEF Teardown, TeardownInv
<1>8. ASSUME NEW e \in Ends, Drain(e) PROVE TeardownInv'
  BY <1>8 DEF Drain, TeardownInv
<1>9. ASSUME NEW e \in Ends, TcpEof(e) PROVE TeardownInv'
  BY <1>9 DEF TcpEof, TornDown, TeardownInv
<1>10. ASSUME NEW e \in Ends, TcpError(e) PROVE TeardownInv'
  <2>1. PICK result \in {"ok", "error"}, closed \in BOOLEAN : TornDown(e, result, closed)
    BY <1>10 DEF TcpError
  <2>2. cable' = "cut" /\ ends[e].st = "drain"
    BY <1>10, <2>1 DEF TcpError, TornDown
  <2>. QED BY <2>1, <2>2 DEF TornDown, TeardownInv
<1>11. ASSUME NEW e \in Ends, SslShutdown(e) PROVE TeardownInv'
  BY <1>11 DEF SslShutdown, TornDown, TeardownInv
<1>12. CASE UNCHANGED sessvars
  BY <1>12 DEF sessvars, TeardownInv
<1>. QED
  BY <1>1, <1>2, <1>3, <1>4, <1>5, <1>6, <1>7, <1>8, <1>9, <1>10, <1>11, <1>12
     DEF SessionNext, SessionStep, WriteOp

\* No teardown closes a socket while the other end may still send, or with
\* something unread, unless the connection is lost.
THEOREM CleanTeardown == Spec => []TeardownIsClean
<1>1. TeardownInv => TeardownIsClean
  BY DEF TeardownInv
<1>. QED BY <1>1, TeardownInit, SessionPart, TeardownStep, PTL DEF Spec

-----------------------------------------------------------------------------
(* read and write: where the pieces on the way belong.  The definitions    *)
(* take the variables they are about as arguments: s is sent, p is pipe.   *)

Ops == {"none", "text", "binary"}
Text == [op : Ops, data : Seq(Nat)]
Piece == [op : Ops, data : Seq(Nat), fin : BOOLEAN]
Sent == [msgs : Seq(Text), open : Text, pieces : Nat, empty : Nat]

\* The m-th message, the one being written included.
TextAt(s, m) == IF m <= Len(s.msgs) THEN s.msgs[m] ELSE s.open

\* The piece x follows the first l pieces of message m.
Place(s, x, m, l) ==
  /\ m \in 1 .. Len(s.msgs) + 1 /\ l \in Nat
  /\ x.op = TextAt(s, m).op /\ x.op # "none"
  /\ \/ x.data = <<>>
     \/ l < Len(TextAt(s, m).data) /\ x.data = <<TextAt(s, m).data[l + 1]>>
  /\ x.fin => m <= Len(s.msgs) /\ l + Len(x.data) = Len(s.msgs[m].data)

\* mi[i] and pos[i] are the message and the place in it of the i-th piece on
\* the way, the last ones those of the next piece to be written.
LaidBy(s, p, mi, pos) ==
  /\ mi \in [1 .. Len(p) + 1 -> Nat] /\ pos \in [1 .. Len(p) + 1 -> Nat]
  /\ \A i \in 1 .. Len(p) :
       /\ Place(s, p[i], mi[i], pos[i])
       /\ p[i].fin => mi[i + 1] = mi[i] + 1 /\ pos[i + 1] = 0
       /\ ~p[i].fin => mi[i + 1] = mi[i] /\ pos[i + 1] = pos[i] + Len(p[i].data)
  /\ mi[Len(p) + 1] = Len(s.msgs) + 1 /\ pos[Len(p) + 1] = Len(s.open.data)

\* The pieces on the way continue message k after its first l pieces.
Laid(s, p, k, l) == \E mi, pos : LaidBy(s, p, mi, pos) /\ mi[1] = k /\ pos[1] = l

\* The l octets after the first from of buf begin message k.
Begins(s, buf, from, k, l, op) ==
  /\ k \in 1 .. Len(s.msgs) + 1 /\ l \in Nat /\ l <= Len(TextAt(s, k).data)
  /\ \A i \in 1 .. l : buf[from + i] = TextAt(s, k).data[i]
  /\ l > 0 => op = TextAt(s, k).op /\ op # "none"

\* Messages are only added to, and so is the one being written.
Grows(s, t) ==
  /\ s \in Sent /\ t \in Sent /\ Len(s.msgs) <= Len(t.msgs)
  /\ \A m \in 1 .. Len(s.msgs) : t.msgs[m] = s.msgs[m]
  /\ s.open.op # "none" =>
       LET x == TextAt(t, Len(s.msgs) + 1)
       IN  /\ x.op = s.open.op /\ Len(s.open.data) <= Len(x.data)
           /\ \A i \in 1 .. Len(s.open.data) : x.data[i] = s.open.data[i]
  /\ s.open.op = "none" => s.open.data = <<>>

LEMMA GrowsTextAt ==
  ASSUME NEW s, NEW t, Grows(s, t), NEW m \in 1 .. Len(s.msgs) + 1,
         TextAt(s, m).op # "none"
  PROVE  /\ TextAt(t, m).op = TextAt(s, m).op
         /\ Len(TextAt(s, m).data) <= Len(TextAt(t, m).data)
         /\ \A i \in 1 .. Len(TextAt(s, m).data) : TextAt(t, m).data[i] = TextAt(s, m).data[i]
<1>1. CASE m <= Len(s.msgs)
  <2>1. TextAt(s, m) = s.msgs[m] /\ TextAt(t, m) = s.msgs[m] /\ s.msgs[m] \in Text
    BY <1>1 DEF Grows, TextAt, Sent
  <2>. QED BY <2>1 DEF Text
<1>2. CASE m = Len(s.msgs) + 1
  BY <1>2 DEF Grows, TextAt, Sent
<1>. QED BY <1>1, <1>2 DEF Grows, Sent

LEMMA GrowsPlace ==
  ASSUME NEW s, NEW t, Grows(s, t), NEW x \in Piece, NEW m, NEW l, Place(s, x, m, l)
  PROVE  Place(t, x, m, l)
<1>1. /\ m \in 1 .. Len(s.msgs) + 1 /\ l \in Nat /\ TextAt(s, m).op # "none"
      /\ Len(s.msgs) \in Nat /\ Len(t.msgs) \in Nat /\ Len(s.msgs) <= Len(t.msgs)
      /\ TextAt(s, m) \in Text
  BY DEF Place, Grows, Sent, TextAt
<1>2. /\ TextAt(t, m).op = TextAt(s, m).op
      /\ Len(TextAt(s, m).data) <= Len(TextAt(t, m).data)
      /\ \A i \in 1 .. Len(TextAt(s, m).data) : TextAt(t, m).data[i] = TextAt(s, m).data[i]
  BY <1>1, GrowsTextAt
<1>3. TextAt(t, m) \in Text
  BY <1>1 DEF Grows, Sent, TextAt
<1>4. \/ x.data = <<>>
      \/ l < Len(TextAt(t, m).data) /\ x.data = <<TextAt(t, m).data[l + 1]>>
  <2>1. CASE x.data = <<>>
    BY <2>1
  <2>2. Len(TextAt(s, m).data) \in Nat /\ Len(TextAt(t, m).data) \in Nat
    BY <1>1, <1>3 DEF Text
  <2>3. CASE l < Len(TextAt(s, m).data) /\ x.data = <<TextAt(s, m).data[l + 1]>>
    <3>1. l + 1 \in 1 .. Len(TextAt(s, m).data)
      BY <1>1, <2>2, <2>3
    <3>2. TextAt(t, m).data[l + 1] = TextAt(s, m).data[l + 1]
      BY <1>2, <3>1
    <3>3. l < Len(TextAt(t, m).data)
      BY <1>1, <1>2, <2>2, <2>3
    <3>. QED BY <2>3, <3>2, <3>3
  <2>. QED BY <2>1, <2>3 DEF Place
<1>5. x.fin => m <= Len(t.msgs) /\ l + Len(x.data) = Len(t.msgs[m].data)
  BY <1>1 DEF Place, Grows, Sent
<1>. QED BY <1>1, <1>2, <1>4, <1>5 DEF Place

LEMMA GrowsBegins ==
  ASSUME NEW s, NEW t, Grows(s, t), NEW buf, NEW from, NEW k, NEW l, NEW op,
         Begins(s, buf, from, k, l, op)
  PROVE  Begins(t, buf, from, k, l, op)
<1>1. /\ k \in 1 .. Len(s.msgs) + 1 /\ l \in Nat /\ TextAt(s, k) \in Text
      /\ Len(s.msgs) \in Nat /\ Len(t.msgs) \in Nat /\ Len(s.msgs) <= Len(t.msgs)
      /\ TextAt(t, k) \in Text
  BY DEF Begins, Grows, Sent, TextAt
<1>2. CASE TextAt(s, k).op # "none"
  <2>1. /\ TextAt(t, k).op = TextAt(s, k).op
        /\ Len(TextAt(s, k).data) <= Len(TextAt(t, k).data)
        /\ \A i \in 1 .. Len(TextAt(s, k).data) : TextAt(t, k).data[i] = TextAt(s, k).data[i]
    BY <1>1, <1>2, GrowsTextAt
  <2>. QED BY <1>1, <2>1 DEF Begins, Text
<1>3. CASE TextAt(s, k).op = "none"
  <2>1. l = 0
    BY <1>1, <1>3 DEF Begins
  <2>. QED BY <1>1, <2>1 DEF Begins, Text
<1>. QED BY <1>2, <1>3

\* The next piece that is read is taken off the way.
LEMMA Pop ==
  ASSUME NEW s, NEW p \in Seq(Piece), p # <<>>, NEW k, NEW l, Laid(s, p, k, l)
  PROVE  /\ Place(s, p[1], k, l)
         /\ p[1].fin => Laid(s, Tail(p), k + 1, 0)
         /\ ~p[1].fin => Laid(s, Tail(p), k, l + Len(p[1].data))
<1>1. PICK mi, pos : LaidBy(s, p, mi, pos) /\ mi[1] = k /\ pos[1] = l
  BY DEF Laid
<1>2. /\ Len(p) \in Nat /\ Len(p) >= 1 /\ Len(Tail(p)) = Len(p) - 1
      /\ \A i \in 1 .. Len(p) - 1 : Tail(p)[i] = p[i + 1]
  OBVIOUS
<1>. DEFINE mj == [i \in 1 .. Len(p) |-> mi[i + 1]]
            qos == [i \in 1 .. Len(p) |-> pos[i + 1]]
<1>3. LaidBy(s, Tail(p), mj, qos)
  <2>1. mj \in [1 .. Len(p) -> Nat] /\ qos \in [1 .. Len(p) -> Nat]
    BY <1>1, <1>2 DEF LaidBy
  <2>2. ASSUME NEW i \in 1 .. Len(p) - 1
        PROVE  /\ Place(s, Tail(p)[i], mj[i], qos[i])
               /\ Tail(p)[i].fin => mj[i + 1] = mj[i] + 1 /\ qos[i + 1] = 0
               /\ ~Tail(p)[i].fin => mj[i + 1] = mj[i]
                                       /\ qos[i + 1] = qos[i] + Len(Tail(p)[i].data)
    <3>1. /\ i \in 1 .. Len(p) /\ i + 1 \in 1 .. Len(p) /\ Tail(p)[i] = p[i + 1]
          /\ mj[i] = mi[i + 1] /\ qos[i] = pos[i + 1]
          /\ mj[i + 1] = mi[i + 1 + 1] /\ qos[i + 1] = pos[i + 1 + 1]
      BY <1>2
    <3>. QED BY <1>1, <3>1 DEF LaidBy
  <2>3. mj[Len(p)] = Len(s.msgs) + 1 /\ qos[Len(p)] = Len(s.open.data)
    BY <1>1, <1>2 DEF LaidBy
  <2>4. Len(Tail(p)) + 1 = Len(p)
    BY <1>2
  <2>. HIDE DEF mj, qos
  <2>. QED BY <1>2, <2>1, <2>2, <2>3, <2>4 DEF LaidBy
<1>4. mj[1] = mi[2] /\ qos[1] = pos[2]
  BY <1>2
<1>5. /\ Place(s, p[1], k, l)
      /\ p[1].fin => mi[2] = k + 1 /\ pos[2] = 0
      /\ ~p[1].fin => mi[2] = k /\ pos[2] = l + Len(p[1].data)
  BY <1>1, <1>2 DEF LaidBy
<1>. HIDE DEF mj, qos
<1>. QED BY <1>3, <1>4, <1>5 DEF Laid

\* The pieces q of one more frame lead from s to t: each has e octets, the
\* last one ends the message when the frame does.
Adds(s, t, q, e, fin) ==
  /\ e \in {0, 1} /\ Len(q) \in Nat \ {0} /\ (e = 0 => Len(q) = 1)
  /\ \A j \in 1 .. Len(q) :
       /\ Place(t, q[j], Len(s.msgs) + 1, Len(s.open.data) + j - 1)
       /\ Len(q[j].data) = e
       /\ q[j].fin <=> fin /\ j = Len(q)
  /\ fin => Len(t.msgs) = Len(s.msgs) + 1 /\ Len(t.open.data) = 0
  /\ ~fin => /\ Len(t.msgs) = Len(s.msgs)
             /\ Len(t.open.data) = Len(s.open.data) + (IF e = 0 THEN 0 ELSE Len(q))

LEMMA Push ==
  ASSUME NEW s, NEW t, Grows(s, t), NEW p \in Seq(Piece), NEW q \in Seq(Piece),
         NEW e, NEW fin, Adds(s, t, q, e, fin), NEW k, NEW l, Laid(s, p, k, l)
  PROVE  Laid(t, p \o q, k, l)
<1>1. PICK mi, pos : LaidBy(s, p, mi, pos) /\ mi[1] = k /\ pos[1] = l
  BY DEF Laid
<1>. DEFINE M == Len(s.msgs) + 1
            D == Len(s.open.data)
            P == Len(p)
            Q == Len(q)
            mj == [i \in 1 .. P + Q + 1 |->
                     IF i <= P + 1 THEN mi[i] ELSE IF fin /\ i = P + Q + 1 THEN M + 1 ELSE M]
            qos == [i \in 1 .. P + Q + 1 |->
                      IF i <= P + 1 THEN pos[i]
                      ELSE IF fin /\ i = P + Q + 1 THEN 0
                      ELSE IF e = 0 THEN D ELSE D + (i - P - 1)]
<1>2. M \in Nat /\ D \in Nat /\ P \in Nat /\ Q \in Nat \ {0} /\ (e = 0 => Q = 1) /\ e \in {0, 1}
  <2>1. s.msgs \in Seq(Text) /\ s.open.data \in Seq(Nat)
    BY DEF Grows, Sent, Text
  <2>. QED BY <2>1 DEF Adds
<1>3. /\ Len(p \o q) = P + Q
      /\ \A i \in 1 .. P : (p \o q)[i] = p[i]
      /\ \A i \in P + 1 .. P + Q : (p \o q)[i] = q[i - P]
      /\ \A i \in 1 .. P : p[i] \in Piece
  OBVIOUS
<1>4. /\ mi \in [1 .. P + 1 -> Nat] /\ pos \in [1 .. P + 1 -> Nat]
      /\ mi[P + 1] = M /\ pos[P + 1] = D
  BY <1>1 DEF LaidBy
<1>5. ASSUME NEW i \in 1 .. P
      PROVE  /\ Place(t, p[i], mi[i], pos[i])
             /\ p[i].fin => mi[i + 1] = mi[i] + 1 /\ pos[i + 1] = 0
             /\ ~p[i].fin => mi[i + 1] = mi[i] /\ pos[i + 1] = pos[i] + Len(p[i].data)
  BY <1>1, <1>3, GrowsPlace DEF LaidBy
<1>6. ASSUME NEW j \in 1 .. Q
      PROVE  /\ Place(t, q[j], M, D + j - 1) /\ Len(q[j].data) = e
             /\ q[j].fin <=> fin /\ j = Q
  BY DEF Adds
<1>7. /\ fin => Len(t.msgs) = M /\ Len(t.open.data) = 0
      /\ ~fin => Len(t.msgs) + 1 = M /\ Len(t.open.data) = D + (IF e = 0 THEN 0 ELSE Q)
  BY <1>2 DEF Adds
<1>. HIDE DEF M, D, P, Q
<1>8. LaidBy(t, p \o q, mj, qos)
  <2>1. mj \in [1 .. P + Q + 1 -> Nat] /\ qos \in [1 .. P + Q + 1 -> Nat]
    BY <1>2, <1>4
  <2>2. ASSUME NEW i \in 1 .. P + 1 PROVE mj[i] = mi[i] /\ qos[i] = pos[i]
    BY <1>2
  <2>3. ASSUME NEW i \in P + 2 .. P + Q, NEW j \in Nat, i = P + 1 + j
        PROVE  mj[i] = M /\ qos[i] = D + j
    <3>1. i \in 1 .. P + Q + 1 /\ ~(i <= P + 1) /\ i # P + Q + 1 /\ e # 0 /\ i - P - 1 = j
      BY <1>2, <2>3
    <3>. QED BY <3>1
  <2>4. /\ fin => mj[P + Q + 1] = M + 1 /\ qos[P + Q + 1] = 0
        /\ ~fin => mj[P + Q + 1] = M /\ qos[P + Q + 1] = D + (IF e = 0 THEN 0 ELSE Q)
    BY <1>2
  <2>. HIDE DEF mj, qos
  <2>5. ASSUME NEW i \in 1 .. P + Q
        PROVE  /\ Place(t, (p \o q)[i], mj[i], qos[i])
               /\ (p \o q)[i].fin => mj[i + 1] = mj[i] + 1 /\ qos[i + 1] = 0
               /\ ~(p \o q)[i].fin => /\ mj[i + 1] = mj[i]
                                      /\ qos[i + 1] = qos[i] + Len((p \o q)[i].data)
    <3>1. CASE i <= P
      <4>1. i \in 1 .. P /\ i \in 1 .. P + 1 /\ i + 1 \in 1 .. P + 1
        BY <1>2, <3>1
      <4>. QED BY <1>3, <1>5, <2>2, <4>1
    <3>2. CASE i > P
      <4>1. PICK j \in 1 .. Q : i = P + j
        BY <1>2, <3>2
      <4>2. i \in P + 1 .. P + Q /\ (p \o q)[i] = q[j]
        BY <1>2, <1>3, <3>2, <4>1
      <4>3. mj[i] = M /\ qos[i] = D + j - 1
        <5>1. CASE j = 1
          BY <1>2, <1>4, <2>2, <4>1, <5>1
        <5>2. CASE j # 1
          <6>1. i \in P + 2 .. P + Q /\ i = P + 1 + (j - 1) /\ j - 1 \in Nat
            BY <1>2, <4>1, <5>2
          <6>. QED BY <1>2, <2>3, <6>1
        <5>. QED BY <5>1, <5>2
      <4>4. CASE j = Q
        <5>1. i + 1 = P + Q + 1
          BY <4>1, <4>4
        <5>2. ~fin => qos[i + 1] = D + j - 1 + e
          BY <1>2, <2>4, <4>4, <5>1
        <5>. QED BY <1>6, <2>4, <4>2, <4>3, <4>4, <5>1, <5>2
      <4>5. CASE j # Q
        <5>1. i + 1 \in P + 2 .. P + Q /\ i + 1 = P + 1 + j /\ e = 1
          BY <1>2, <4>1, <4>5
        <5>2. mj[i + 1] = M /\ qos[i + 1] = D + j
          BY <2>3, <5>1
        <5>3. D + j = D + j - 1 + e
          BY <1>2, <5>1
        <5>. QED BY <1>6, <4>2, <4>3, <4>5, <5>2, <5>3
      <4>. QED BY <4>4, <4>5
    <3>3. i <= P \/ i > P
      BY <1>2
    <3>. QED BY Zenon, <3>1, <3>2, <3>3
  <2>6. mj[P + Q + 1] = Len(t.msgs) + 1 /\ qos[P + Q + 1] = Len(t.open.data)
    BY <1>2, <1>7, <2>4
  <2>7. Len(p \o q) = P + Q
    BY <1>3
  <2>. QED BY <2>1, <2>5, <2>6, <2>7 DEF LaidBy
<1>9. mj[1] = k /\ qos[1] = l
  BY <1>1, <1>2
<1>. HIDE DEF mj, qos
<1>. QED BY <1>8, <1>9 DEF Laid

LEMMA Joined ==
  ASSUME NEW a \in Seq(Nat), NEW b \in Seq(Nat)
  PROVE  /\ a \o b \in Seq(Nat) /\ Len(a \o b) = Len(a) + Len(b)
         /\ \A i \in 1 .. Len(a) : (a \o b)[i] = a[i]
         /\ \A i \in 1 .. Len(b) : (a \o b)[Len(a) + i] = b[i]
<1>1. Len(a) \in Nat /\ Len(b) \in Nat
  OBVIOUS
<1>2. ASSUME NEW i \in 1 .. Len(b) PROVE (a \o b)[Len(a) + i] = b[i]
  <2>1. Len(a) + i \in 1 .. Len(a) + Len(b) /\ Len(a) + i > Len(a) /\ (Len(a) + i) - Len(a) = i
    BY <1>1
  <2>. QED BY <2>1
<1>. QED BY <1>2

\* A frame of data is read in pieces of e octets, of which the last may end
\* the message.
LEMMA FramePieces ==
  ASSUME NEW op \in Ops, NEW data \in Seq(Nat), NEW fin \in BOOLEAN
  PROVE  LET q == PiecesOf(op, data, fin)
         IN  /\ q \in Seq(Piece)
             /\ Len(q) = IF Len(data) = 0 THEN 1 ELSE Len(data)
             /\ \A j \in 1 .. Len(q) :
                  /\ q[j].op = op /\ (q[j].fin <=> fin /\ j = Len(q))
                  /\ q[j].data = IF Len(data) = 0 THEN <<>> ELSE <<data[j]>>
<1>1. CASE data = <<>>
  BY <1>1 DEF PiecesOf, Piece
<1>2. CASE data # <<>>
  <2>. DEFINE q == [i \in 1 .. Len(data) |->
                      [op |-> op, data |-> <<data[i]>>, fin |-> (fin /\ i = Len(data))]]
  <2>1. PiecesOf(op, data, fin) = q /\ Len(data) \in Nat \ {0}
    BY <1>2 DEF PiecesOf
  <2>2. ASSUME NEW i \in 1 .. Len(data)
        PROVE  [op |-> op, data |-> <<data[i]>>, fin |-> (fin /\ i = Len(data))] \in Piece
    BY DEF Piece
  <2>3. q \in Seq(Piece) /\ Len(q) = Len(data)
    BY <2>1, <2>2
  <2>4. ASSUME NEW j \in 1 .. Len(q)
        PROVE  /\ q[j].op = op /\ (q[j].fin <=> fin /\ j = Len(q))
               /\ q[j].data = <<data[j]>>
    BY <2>3
  <2>. HIDE DEF q
  <2>. QED BY <2>1, <2>3, <2>4
<1>. QED BY <1>1, <1>2

\* write_frame, write and async_write add a frame to the message being
\* written, and its pieces to the end of what is on the way.
LEMMA FrameLaid ==
  ASSUME sent \in Sent, sent.open.op = "none" => sent.open.data = <<>>,
         pipe \in Seq(Piece), NEW n \in Nat, NEW fin \in BOOLEAN, WriteFrame(n, fin)
  PROVE  /\ sent' \in Sent /\ (sent'.open.op = "none" => sent'.open.data = <<>>)
         /\ Grows(sent, sent') /\ pipe' \in Seq(Piece)
         /\ \A k, l : Laid(sent, pipe, k, l) => Laid(sent', pipe', k, l)
<1>. DEFINE data == [i \in 1 .. n |-> sent.pieces + i]
            op == IF sent.open.op = "none" THEN NextOp ELSE sent.open.op
            text == [op |-> op, data |-> sent.open.data \o data]
            M == Len(sent.msgs)
            D == Len(sent.open.data)
            q == PiecesOf(op, data, fin)
<1>1. /\ sent.msgs \in Seq(Text) /\ sent.open \in Text /\ sent.open.op \in Ops
      /\ sent.open.data \in Seq(Nat) /\ M \in Nat /\ D \in Nat
      /\ sent.pieces \in Nat /\ sent.empty \in Nat
  BY DEF Sent, Text
<1>2. data \in Seq(Nat) /\ Len(data) = n
  <2>1. \A i \in 1 .. n : sent.pieces + i \in Nat
    BY <1>1
  <2>. QED BY <2>1
<1>3. op \in Ops /\ op # "none"
  BY <1>1 DEF NextOp, Ops
<1>4. /\ pipe' = pipe \o q
      /\ sent' = [msgs |-> IF fin THEN Append(sent.msgs, text) ELSE sent.msgs,
                  open |-> IF fin THEN NoText ELSE text,
                  pieces |-> sent.pieces + n,
                  empty |-> IF n = 0 THEN sent.empty + 1 ELSE sent.empty]
  BY DEF WriteFrame
<1>. HIDE DEF data, op, q
<1>5. /\ text \in Text /\ text.op = op /\ text.data = sent.open.data \o data
      /\ Len(text.data) = D + n
      /\ \A i \in 1 .. D : text.data[i] = sent.open.data[i]
      /\ \A i \in 1 .. n : text.data[D + i] = data[i]
  <2>. DEFINE all == sent.open.data \o data
  <2>1. /\ all \in Seq(Nat) /\ Len(all) = D + n
        /\ \A i \in 1 .. D : all[i] = sent.open.data[i]
        /\ \A i \in 1 .. n : all[D + i] = data[i]
    BY <1>1, <1>2, Joined
  <2>2. text = [op |-> op, data |-> all]
    OBVIOUS
  <2>. HIDE DEF all, text
  <2>3. text \in Text /\ text.op = op /\ text.data = all
    BY <1>3, <2>1, <2>2 DEF Text
  <2>. QED BY <2>1, <2>3 DEF all
<1>. HIDE DEF text
<1>6. NoText \in Text /\ NoText.op = "none" /\ NoText.data = <<>>
  BY DEF NoText, Text, Ops
<1>7. /\ fin => /\ sent'.msgs = Append(sent.msgs, text) /\ sent'.open = NoText
                /\ Len(sent'.msgs) = M + 1 /\ sent'.msgs[M + 1] = text
      /\ ~fin => sent'.msgs = sent.msgs /\ sent'.open = text
      /\ \A m \in 1 .. M : sent'.msgs[m] = sent.msgs[m]
  BY <1>1, <1>4, <1>5
<1>8. sent' \in Sent /\ (sent'.open.op = "none" => sent'.open.data = <<>>)
  <2>1. /\ (IF fin THEN Append(sent.msgs, text) ELSE sent.msgs) \in Seq(Text)
        /\ (IF fin THEN NoText ELSE text) \in Text
        /\ sent.pieces + n \in Nat /\ (IF n = 0 THEN sent.empty + 1 ELSE sent.empty) \in Nat
    BY <1>1, <1>5, <1>6
  <2>2. sent' \in Sent
    BY <1>4, <2>1 DEF Sent
  <2>. QED BY <1>3, <1>5, <1>6, <1>7, <2>2
<1>9. TextAt(sent', M + 1) = text /\ M + 1 \in 1 .. Len(sent'.msgs) + 1
  BY <1>1, <1>7 DEF TextAt
<1>10. Grows(sent, sent')
  <2>1. Len(sent.msgs) <= Len(sent'.msgs)
    BY <1>1, <1>7
  <2>2. sent.open.op # "none" => op = sent.open.op
    BY DEF op
  <2>3. LET x == TextAt(sent', Len(sent.msgs) + 1)
        IN  /\ Len(sent.open.data) <= Len(x.data)
            /\ \A i \in 1 .. Len(sent.open.data) : x.data[i] = sent.open.data[i]
    BY <1>1, <1>5, <1>9, SMTT(30)
  <2>. QED BY <1>5, <1>7, <1>8, <1>9, <2>1, <2>2, <2>3 DEF Grows
<1>. DEFINE e == IF n = 0 THEN 0 ELSE 1
<1>11. /\ q \in Seq(Piece) /\ Len(q) = IF n = 0 THEN 1 ELSE n
       /\ \A j \in 1 .. Len(q) :
            /\ q[j].op = op /\ (q[j].fin <=> fin /\ j = Len(q))
            /\ q[j].data = IF n = 0 THEN <<>> ELSE <<data[j]>>
  BY <1>2, <1>3, FramePieces DEF q
<1>12. pipe' \in Seq(Piece)
  BY <1>4, <1>11
<1>13. ASSUME NEW j \in 1 .. Len(q)
       PROVE  /\ Place(sent', q[j], M + 1, D + j - 1) /\ Len(q[j].data) = e
              /\ q[j].fin <=> fin /\ j = Len(q)
  <2>1. D + j - 1 \in Nat
    BY <1>1, <1>11
  <2>2. \/ q[j].data = <<>>
        \/ D + j - 1 < Len(text.data) /\ q[j].data = <<text.data[D + j - 1 + 1]>>
    <3>1. CASE n = 0
      BY <1>11, <3>1
    <3>2. CASE n # 0
      <4>1. j \in 1 .. n /\ q[j].data = <<data[j]>> /\ D + j - 1 + 1 = D + j
        BY <1>1, <1>11, <3>2
      <4>2. text.data[D + j] = data[j] /\ D + j - 1 < D + n
        BY <1>1, <1>5, <4>1
      <4>. QED BY <1>5, <4>1, <4>2
    <3>. QED BY <3>1, <3>2
  <2>3. Len(q[j].data) = e
    <3>1. CASE n = 0
      <4>1. q[j].data = <<>>
        BY <1>11, <3>1
      <4>. QED BY <3>1, <4>1
    <3>2. CASE n # 0
      <4>1. q[j].data = <<data[j]>>
        BY <1>11, <3>2
      <4>. QED BY <3>2, <4>1
    <3>. QED BY <3>1, <3>2
  <2>4. q[j].fin => M + 1 <= Len(sent'.msgs) /\ D + j - 1 + Len(q[j].data) = Len(sent'.msgs[M + 1].data)
    <3>1. SUFFICES ASSUME fin, j = Len(q)
                   PROVE  /\ M + 1 <= Len(sent'.msgs)
                          /\ D + j - 1 + Len(q[j].data) = Len(sent'.msgs[M + 1].data)
      BY <1>11
    <3>2. D + j - 1 + Len(q[j].data) = D + n
      <4>1. j = (IF n = 0 THEN 1 ELSE n) /\ Len(q[j].data) = (IF n = 0 THEN 0 ELSE 1)
        BY <1>11, <2>3, <3>1
      <4>2. D \in Nat
        BY <1>1
      <4>. HIDE DEF D
      <4>3. CASE n = 0
        BY <4>1, <4>2, <4>3
      <4>4. CASE n # 0
        BY <4>1, <4>2, <4>4
      <4>. QED BY <4>3, <4>4
    <3>3. M + 1 <= Len(sent'.msgs) /\ Len(sent'.msgs[M + 1].data) = D + n
      <4>1. Len(sent'.msgs) = M + 1 /\ sent'.msgs[M + 1] = text
        BY <1>7, <3>1
      <4>2. Len(text.data) = D + n
        BY <1>5
      <4>3. M + 1 <= M + 1
        BY <1>1
      <4>. QED BY <4>1, <4>2, <4>3
    <3>. QED BY <3>2, <3>3
  <2>. QED BY <1>3, <1>5, <1>9, <1>11, <2>1, <2>2, <2>3, <2>4 DEF Place
<1>14. /\ fin => Len(sent'.msgs) = M + 1 /\ Len(sent'.open.data) = 0
       /\ ~fin => /\ Len(sent'.msgs) = M
                  /\ Len(sent'.open.data) = D + (IF e = 0 THEN 0 ELSE Len(q))
  <2>1. (IF e = 0 THEN 0 ELSE Len(q)) = n
    BY <1>11
  <2>2. fin => Len(sent'.msgs) = M + 1 /\ Len(sent'.open.data) = 0
    BY <1>6, <1>7
  <2>3. ~fin => Len(sent'.msgs) = M /\ Len(sent'.open.data) = D + n
    BY <1>5, <1>7
  <2>. QED BY <2>1, <2>2, <2>3
<1>15. e \in {0, 1} /\ Len(q) \in Nat \ {0} /\ (e = 0 => Len(q) = 1)
  BY <1>11
<1>. HIDE DEF e
<1>16. Adds(sent, sent', q, e, fin)
  BY <1>13, <1>14, <1>15 DEF Adds
<1>17. ASSUME NEW k, NEW l, Laid(sent, pipe, k, l) PROVE Laid(sent', pipe', k, l)
  BY <1>4, <1>10, <1>11, <1>16, <1>17, Push
<1>. QED BY <1>8, <1>10, <1>12, <1>17

\* The calls of read.
Calls == [st : {"idle", "frame", "done", "failed"}, op : Ops, buf : Seq(Nat),
          from : Nat, heard : Seq(Text)]

\* What the current call has appended to the buffer.
Got(c) == IF c.st = "frame" THEN Len(c.buf) - c.from ELSE 0

\* The messages heard are the first ones written, what a call has appended
\* begins the next one, and, while the reading end is open and no read has
\* failed, what is on the way continues it just there.
HeardInv(s, p, c, open) ==
  /\ s \in Sent /\ (s.open.op = "none" => s.open.data = <<>>)
  /\ p \in Seq(Piece)
  /\ c \in Calls
  /\ c.st \in {"frame", "done"} => open
  /\ Len(c.heard) <= Len(s.msgs)
  /\ \A i \in 1 .. Len(c.heard) : c.heard[i] = s.msgs[i]
  /\ c.st \in {"frame", "failed"} =>
       /\ c.from <= Len(c.buf)
       /\ Begins(s, c.buf, c.from, Len(c.heard) + 1, Len(c.buf) - c.from, c.op)
  /\ open /\ c.st # "failed" => Laid(s, p, Len(c.heard) + 1, Got(c))

ReadInv == HeardInv(sent, pipe, call, ends["reader"].st = "open")

LEMMA LaidEmpty ==
  ASSUME NEW s, s.msgs = <<>>, s.open.data = <<>> PROVE Laid(s, <<>>, 1, 0)
<1>. DEFINE mi == [i \in 1 .. 1 |-> 1]
            pos == [i \in 1 .. 1 |-> 0]
<1>1. mi \in [1 .. 1 -> Nat] /\ pos \in [1 .. 1 -> Nat] /\ mi[1] = 1 /\ pos[1] = 0
  OBVIOUS
<1>. HIDE DEF mi, pos
<1>2. LaidBy(s, <<>>, mi, pos)
  BY <1>1 DEF LaidBy
<1>. QED BY <1>1, <1>2 DEF Laid

LEMMA ReadInit == Init => ReadInv
<1>. SUFFICES ASSUME SessionInit \/ SessionIdle PROVE ReadInv
  BY DEF Init
<1>1. sent = [msgs |-> <<>>, open |-> NoText, pieces |-> 0, empty |-> 0] /\ pipe = <<>>
  BY DEF SessionInit, SessionIdle
<1>2. sent \in Sent /\ sent.msgs = <<>> /\ sent.open.data = <<>>
  BY <1>1 DEF Sent, Text, NoText, Ops
<1>3. PICK state \in {"idle", "failed"} :
        call = [st |-> state, op |-> "none", buf |-> <<>>, from |-> 0, heard |-> <<>>]
  BY DEF SessionInit, SessionIdle
<1>4. Laid(sent, pipe, 1, 0)
  BY <1>1, <1>2, LaidEmpty
<1>5. Begins(sent, call.buf, 0, 1, 0, call.op)
  BY <1>2 DEF Begins, TextAt
<1>6. /\ call.st \in {"idle", "failed"} /\ call.buf = <<>> /\ call.from = 0 /\ call.heard = <<>>
      /\ call \in Calls
      /\ pipe \in Seq(Piece)
  BY <1>1, <1>3 DEF Ops, Calls
<1>. QED BY <1>2, <1>4, <1>5, <1>6 DEF ReadInv, HeardInv, Calls, Got

\* A write only continues what is on the way.
LEMMA ReadWrites ==
  ASSUME ReadInv, NEW n \in 0 .. 2, NEW fin \in BOOLEAN, WriteFrame(n, fin)
  PROVE  ReadInv'
<1>1. call' = call /\ ends' = ends
  BY DEF WriteFrame
<1>2. /\ sent' \in Sent /\ (sent'.open.op = "none" => sent'.open.data = <<>>)
      /\ Grows(sent, sent') /\ pipe' \in Seq(Piece)
      /\ \A k, l : Laid(sent, pipe, k, l) => Laid(sent', pipe', k, l)
  BY FrameLaid DEF ReadInv, HeardInv, Calls
<1>3. call.st \in {"frame", "failed"} =>
        Begins(sent', call.buf, call.from, Len(call.heard) + 1, Len(call.buf) - call.from, call.op)
  BY <1>2, GrowsBegins DEF ReadInv, HeardInv, Calls
<1>4. /\ Len(call.heard) <= Len(sent'.msgs)
      /\ \A i \in 1 .. Len(call.heard) : call.heard[i] = sent'.msgs[i]
  <2>1. /\ Len(call.heard) <= Len(sent.msgs) /\ Len(sent.msgs) <= Len(sent'.msgs)
        /\ Len(call.heard) \in Nat /\ Len(sent.msgs) \in Nat /\ Len(sent'.msgs) \in Nat
    BY <1>2 DEF ReadInv, HeardInv, Calls, Grows, Sent
  <2>. QED BY <1>2, <2>1 DEF ReadInv, HeardInv, Calls, Grows
<1>. QED BY <1>1, <1>2, <1>3, <1>4 DEF ReadInv, HeardInv, Calls

\* One more piece of the message.
LEMMA BeginsMore ==
  ASSUME NEW s \in Sent, NEW buf \in Seq(Nat), NEW from \in Nat, from <= Len(buf),
         NEW k, NEW l, l = Len(buf) - from, NEW op, Begins(s, buf, from, k, l, op),
         NEW x \in Piece, Place(s, x, k, l)
  PROVE  /\ buf \o x.data \in Seq(Nat)
         /\ Len(buf \o x.data) = Len(buf) + Len(x.data) /\ Len(x.data) \in Nat
         /\ Begins(s, buf \o x.data, from, k, l + Len(x.data), x.op)
<1>1. /\ k \in 1 .. Len(s.msgs) + 1 /\ l \in Nat /\ x.data \in Seq(Nat)
      /\ TextAt(s, k) \in Text /\ Len(buf) \in Nat /\ Len(s.msgs) \in Nat
  BY DEF Place, TextAt, Sent, Piece
<1>. DEFINE t == TextAt(s, k).data
            more == buf \o x.data
<1>2. t \in Seq(Nat) /\ Len(t) \in Nat
  BY <1>1 DEF Text
<1>3. /\ more \in Seq(Nat) /\ Len(more) = Len(buf) + Len(x.data)
      /\ \A i \in 1 .. Len(buf) : more[i] = buf[i]
      /\ \A i \in 1 .. Len(x.data) : more[Len(buf) + i] = x.data[i]
  BY <1>1, Joined
<1>4. /\ x.op = TextAt(s, k).op /\ x.op # "none"
      /\ \/ x.data = <<>>
         \/ l < Len(t) /\ x.data = <<t[l + 1]>>
  BY DEF Place
<1>5. l <= Len(t) /\ \A i \in 1 .. l : buf[from + i] = t[i]
  BY DEF Begins
<1>6. Len(x.data) \in Nat
  BY <1>1
<1>. HIDE DEF t, more
<1>7. l + Len(x.data) \in Nat /\ l + Len(x.data) <= Len(t)
  <2>1. CASE x.data = <<>>
    BY <1>1, <1>2, <1>5, <2>1
  <2>2. CASE l < Len(t) /\ x.data = <<t[l + 1]>>
    <3>1. Len(x.data) = 1
      BY <2>2
    <3>. QED BY <1>1, <1>2, <2>2, <3>1
  <2>. QED BY <1>4, <2>1, <2>2
<1>8. ASSUME NEW i \in 1 .. l + Len(x.data) PROVE more[from + i] = t[i]
  <2>1. CASE i <= l
    <3>1. i \in 1 .. l /\ from + i \in 1 .. Len(buf)
      BY <1>1, <1>6, <2>1
    <3>. QED BY <1>3, <1>5, <3>1
  <2>2. CASE i > l
    <3>1. l < Len(t) /\ x.data = <<t[l + 1]>>
      BY <1>1, <1>4, <2>2
    <3>2. Len(x.data) = 1 /\ x.data[1] = t[l + 1]
      BY <3>1
    <3>3. i = l + 1 /\ from + i = Len(buf) + 1
      <4>1. i \in 1 .. l + 1
        BY <3>2
      <4>2. i = l + 1
        BY <1>1, <2>2, <4>1, SMTT(30)
      <4>. QED BY <1>1, <4>2
    <3>. QED BY <1>3, <3>2, <3>3
  <2>3. i <= l \/ i > l
    BY <1>1
  <2>. QED BY <2>1, <2>2, <2>3
<1>9. Begins(s, more, from, k, l + Len(x.data), x.op)
  BY <1>1, <1>4, <1>7, <1>8 DEF Begins, t
<1>. QED BY <1>3, <1>6, <1>9 DEF more

\* What was appended is the message when it has its length.
LEMMA BeginsAll ==
  ASSUME NEW s \in Sent, NEW buf \in Seq(Nat), NEW from \in Nat, from <= Len(buf),
         NEW k, NEW op, Begins(s, buf, from, k, Len(buf) - from, op),
         k <= Len(s.msgs), Len(buf) - from = Len(s.msgs[k].data), op = s.msgs[k].op
  PROVE  [op |-> op, data |-> SubSeq(buf, from + 1, Len(buf))] = s.msgs[k]
<1>1. k \in 1 .. Len(s.msgs) /\ Len(s.msgs) \in Nat /\ Len(buf) \in Nat /\ TextAt(s, k) = s.msgs[k]
  BY DEF Begins, Sent, TextAt
<1>2. s.msgs[k] \in Text /\ s.msgs[k].data \in Seq(Nat)
  <2>1. s.msgs[k] \in Text
    BY <1>1 DEF Sent
  <2>. QED BY <2>1 DEF Text
<1>. DEFINE d == SubSeq(buf, from + 1, Len(buf))
            t == s.msgs[k].data
<1>3. d \in Seq(Nat) /\ Len(d) = Len(buf) - from
  BY <1>1
<1>4. ASSUME NEW i \in 1 .. Len(buf) - from PROVE d[i] = t[i]
  <2>1. d[i] = buf[from + 1 + i - 1] /\ from + 1 + i - 1 = from + i
    BY <1>1, SMTT(30)
  <2>. QED BY <1>1, <2>1 DEF Begins
<1>. HIDE DEF d, t
<1>5. d = t
  <2>1. t \in Seq(Nat) /\ Len(t) = Len(buf) - from
    BY <1>2 DEF t
  <2>2. \A i \in 1 .. Len(d) : d[i] = t[i]
    BY <1>3, <1>4
  <2>. QED BY <1>3, <2>1, <2>2, SeqEqual
<1>. QED BY <1>2, <1>5 DEF d, t, Text

LEMMA ReadGets == ASSUME ReadInv, GotFrame PROVE ReadInv'
<1>. DEFINE x == pipe[1]
            k == Len(call.heard) + 1
            l == Len(call.buf) - call.from
            buf == call.buf \o x.data
            text == [op |-> x.op, data |-> SubSeq(buf, call.from + 1, Len(buf))]
<1>1. /\ call.st = "frame" /\ pipe # <<>> /\ pipe' = Tail(pipe)
      /\ call' = [call EXCEPT !.op = x.op, !.buf = buf,
                              !.st = IF x.fin THEN "done" ELSE "frame",
                              !.heard = IF x.fin THEN Append(@, text) ELSE @]
      /\ sent' = sent /\ ends' = ends
  BY DEF GotFrame, EndsMessage
<1>2. /\ sent \in Sent /\ pipe \in Seq(Piece) /\ call.buf \in Seq(Nat) /\ call.from \in Nat
      /\ call.heard \in Seq(Text) /\ call.from <= Len(call.buf)
      /\ Begins(sent, call.buf, call.from, k, l, call.op)
      /\ Laid(sent, pipe, k, l) /\ ends["reader"].st = "open"
      /\ Len(call.heard) <= Len(sent.msgs)
      /\ \A i \in 1 .. Len(call.heard) : call.heard[i] = sent.msgs[i]
  BY <1>1 DEF ReadInv, HeardInv, Calls, Got
<1>3. /\ Place(sent, x, k, l)
      /\ x.fin => Laid(sent, Tail(pipe), k + 1, 0)
      /\ ~x.fin => Laid(sent, Tail(pipe), k, l + Len(x.data))
  BY <1>1, <1>2, Pop
<1>4. x \in Piece /\ Tail(pipe) \in Seq(Piece)
  BY <1>1, <1>2
<1>5. /\ buf \in Seq(Nat) /\ Len(buf) = Len(call.buf) + Len(x.data) /\ Len(x.data) \in Nat
      /\ Begins(sent, buf, call.from, k, l + Len(x.data), x.op)
  BY <1>2, <1>3, <1>4, BeginsMore, SMTT(30)
<1>6. /\ l + Len(x.data) = Len(buf) - call.from /\ call.from <= Len(buf)
      /\ Len(call.heard) \in Nat /\ Len(sent.msgs) \in Nat
  <2>1. Len(call.buf) \in Nat /\ call.from \in Nat /\ call.from <= Len(call.buf)
    BY <1>2
  <2>2. Len(call.heard) \in Nat /\ Len(sent.msgs) \in Nat
    BY <1>2 DEF Sent
  <2>3. Len(buf) = Len(call.buf) + Len(x.data) /\ Len(x.data) \in Nat
    BY <1>5
  <2>. DEFINE a == Len(call.buf)
              b == Len(x.data)
              c == call.from
  <2>4. a \in Nat /\ b \in Nat /\ c \in Nat /\ c <= a
    BY <2>1, <2>3
  <2>. HIDE DEF a, b, c
  <2>5. (a - c) + b = (a + b) - c /\ c <= a + b
    BY <2>4
  <2>. HIDE DEF x, buf
  <2>. QED BY <2>2, <2>3, <2>5 DEF a, b, c
<1>7. x.op \in Ops /\ x.fin \in BOOLEAN
  BY <1>4 DEF Piece
<1>. HIDE DEF x, buf, l
<1>8. CASE x.fin
  <2>1. k \in 1 .. Len(sent.msgs) /\ l + Len(x.data) = Len(sent.msgs[k].data) /\ x.op = sent.msgs[k].op
    BY <1>3, <1>6, <1>8 DEF Place, TextAt
  <2>2. text = sent.msgs[k]
    <3>1. /\ Begins(sent, buf, call.from, k, Len(buf) - call.from, x.op)
          /\ k <= Len(sent.msgs) /\ Len(buf) - call.from = Len(sent.msgs[k].data)
      <4>1. Begins(sent, buf, call.from, k, Len(buf) - call.from, x.op)
        BY <1>5, <1>6
      <4>2. k <= Len(sent.msgs)
        BY <1>6, <2>1
      <4>3. Len(buf) - call.from = Len(sent.msgs[k].data)
        BY <1>6, <2>1
      <4>. QED BY <4>1, <4>2, <4>3
    <3>. HIDE DEF k
    <3>2. /\ sent \in Sent /\ buf \in Seq(Nat) /\ call.from \in Nat /\ call.from <= Len(buf)
          /\ x.op = sent.msgs[k].op
      BY <1>2, <1>5, <1>6, <2>1
    <3>. QED BY <3>1, <3>2, BeginsAll
  <2>3. sent.msgs[k] \in Text
    BY <1>2, <2>1 DEF Sent
  <2>. HIDE DEF text
  <2>. DEFINE heard == Append(call.heard, text)
  <2>4. /\ heard \in Seq(Text) /\ Len(heard) = k
        /\ \A i \in 1 .. k : heard[i] = sent.msgs[i]
    BY <1>2, <2>2, <2>3, SMTT(30)
  <2>. HIDE DEF heard
  <2>5. call' = [call EXCEPT !.op = x.op, !.buf = buf, !.st = "done", !.heard = heard]
    BY <1>1, <1>8 DEF heard
  <2>6. /\ call' \in Calls
        /\ call'.st = "done" /\ call'.heard = heard
    BY <1>5, <1>7, <2>4, <2>5 DEF ReadInv, HeardInv, Calls
  <2>7. Len(heard) <= Len(sent.msgs) /\ Laid(sent, pipe', Len(heard) + 1, 0) /\ pipe' \in Seq(Piece)
    BY <1>1, <1>3, <1>4, <1>8, <2>1, <2>4
  <2>8. sent \in Sent /\ (sent.open.op = "none" => sent.open.data = <<>>)
    BY DEF ReadInv, HeardInv, Calls
  <2>. QED BY <1>1, <1>2, <2>4, <2>6, <2>7, <2>8 DEF ReadInv, HeardInv, Calls, Got
<1>9. CASE ~x.fin
  <2>1. call' = [call EXCEPT !.op = x.op, !.buf = buf]
    BY <1>1, <1>9 DEF ReadInv, HeardInv, Calls
  <2>2. /\ call' \in Calls
        /\ call'.st = "frame" /\ call'.heard = call.heard /\ call'.buf = buf
        /\ call'.from = call.from /\ call'.op = x.op
    BY <1>1, <1>5, <1>7, <2>1 DEF ReadInv, HeardInv, Calls
  <2>3. Laid(sent, pipe', k, Len(buf) - call.from) /\ pipe' \in Seq(Piece)
    BY <1>1, <1>3, <1>4, <1>6, <1>9
  <2>4. sent \in Sent /\ (sent.open.op = "none" => sent.open.data = <<>>)
    BY DEF ReadInv, HeardInv, Calls
  <2>5. Begins(sent, buf, call.from, k, Len(buf) - call.from, x.op)
    BY <1>5, <1>6
  <2>. QED BY <1>1, <1>2, <1>6, <2>2, <2>3, <2>4, <2>5 DEF ReadInv, HeardInv, Calls, Got
<1>. QED BY <1>7, <1>8, <1>9

LEMMA ReadStep ==
  ASSUME TeardownInv, ReadInv, [SessionNext]_sessvars PROVE ReadInv'
<1>1. ASSUME NEW n \in 0 .. 2, NEW fin \in BOOLEAN, WriteFrame(n, fin) PROVE ReadInv'
  BY <1>1, ReadWrites
<1>2. CASE GotFrame
  BY <1>2, ReadGets
<1>3. CASE ReadOp
  <2>1. /\ call.st = "idle" /\ call' = [call EXCEPT !.st = "frame", !.from = Len(call.buf)]
        /\ ends["reader"].st = "open" /\ UNCHANGED <<sent, pipe, ends>>
    BY <1>3 DEF ReadOp
  <2>2. call \in Calls /\ call.buf \in Seq(Nat) /\ Len(call.buf) \in Nat
    BY DEF ReadInv, HeardInv, Calls
  <2>3. /\ call' \in Calls /\ call'.st = "frame" /\ call'.from = Len(call.buf)
        /\ call'.buf = call.buf /\ call'.heard = call.heard /\ call'.op = call.op
    BY <2>1, <2>2 DEF Calls
  <2>4. Len(call.buf) - Len(call.buf) = 0 /\ Len(call.buf) <= Len(call.buf)
    BY <2>2
  <2>5. Begins(sent, call.buf, Len(call.buf), Len(call.heard) + 1, 0, call.op)
    <3>1. Len(call.heard) + 1 \in 1 .. Len(sent.msgs) + 1
      BY DEF ReadInv, HeardInv, Calls, Sent
    <3>2. TextAt(sent, Len(call.heard) + 1) \in Text
      BY <3>1 DEF TextAt, ReadInv, HeardInv, Calls, Sent
    <3>. QED BY <3>1, <3>2 DEF Begins, Text
  <2>6. Laid(sent, pipe, Len(call.heard) + 1, 0)
    BY <2>1 DEF ReadInv, HeardInv, Calls, Got
  <2>. QED BY <2>1, <2>3, <2>4, <2>5, <2>6 DEF ReadInv, HeardInv, Got, Calls
<1>4. CASE ReadFails
  <2>1. /\ call.st = "frame" /\ call' = [call EXCEPT !.st = "failed"]
        /\ UNCHANGED <<sent, pipe, ends>>
    BY <1>4 DEF ReadFails
  <2>2. /\ call' \in Calls /\ call'.st = "failed" /\ call'.from = call.from
        /\ call'.buf = call.buf /\ call'.heard = call.heard /\ call'.op = call.op
    BY <2>1 DEF ReadInv, HeardInv, Calls
  <2>. QED BY <2>1, <2>2 DEF ReadInv, HeardInv, Calls
<1>5. CASE Take
  <2>1. PICK buf \in {<<>>, call.buf} :
          /\ call.st = "done" /\ call' = [call EXCEPT !.st = "idle", !.buf = buf]
          /\ UNCHANGED <<sent, pipe, ends>>
    BY <1>5 DEF Take
  <2>2. buf \in Seq(Nat)
    <3>1. call.buf \in Seq(Nat) /\ <<>> \in Seq(Nat)
      BY DEF ReadInv, HeardInv, Calls
    <3>. QED BY <3>1
  <2>3. call' \in Calls /\ call'.st = "idle" /\ call'.heard = call.heard
    BY <2>1, <2>2 DEF ReadInv, HeardInv, Calls
  <2>. QED BY <2>1, <2>3 DEF ReadInv, HeardInv, Got, Calls
<1>6. CASE SendBack \/ TakeBack \/ Cut
  BY <1>6 DEF SendBack, TakeBack, Cut, ReadInv
<1>7. ASSUME NEW e \in Ends, Teardown(e) PROVE ReadInv'
  <2>1. /\ UNCHANGED <<sent, pipe, call>>
        /\ ends'["reader"].st = "open" => ends["reader"].st = "open"
        /\ call.st \in {"frame", "done"} => ends'["reader"].st = ends["reader"].st
    BY <1>7 DEF Teardown, TeardownInv, Ends, EndStates
  <2>. QED BY <2>1 DEF ReadInv, HeardInv, Calls
<1>8. ASSUME NEW e \in Ends, Drain(e) PROVE ReadInv'
  <2>1. CASE e = "reader"
    <3>1. /\ ends["reader"].st = "drain" /\ pipe # <<>> /\ pipe' = Tail(pipe)
          /\ UNCHANGED <<sent, call, ends>>
      BY <1>8, <2>1 DEF Drain, Unread
    <3>2. Tail(pipe) \in Seq(Piece)
      BY <3>1 DEF ReadInv, HeardInv, Calls
    <3>. QED BY <3>1, <3>2 DEF ReadInv, HeardInv, Calls
  <2>2. CASE e # "reader"
    BY <1>8, <2>2 DEF Drain, ReadInv
  <2>. QED BY <2>1, <2>2
<1>9. ASSUME NEW e \in Ends, TcpEof(e) \/ TcpError(e) \/ SslShutdown(e) PROVE ReadInv'
  <2>1. PICK result, closed : TornDown(e, result, closed) /\ ends[e].st = "drain"
    BY <1>9 DEF TcpEof, TcpError, SslShutdown
  <2>2. /\ UNCHANGED <<sent, pipe, call>>
        /\ ends'["reader"].st = "open" <=> ends["reader"].st = "open"
    BY <2>1 DEF TornDown, TeardownInv, Ends, EndStates
  <2>. QED BY <2>2 DEF ReadInv, HeardInv, Calls
<1>10. CASE UNCHANGED sessvars
  BY <1>10 DEF sessvars, ReadInv
<1>. QED
  BY <1>1, <1>2, <1>3, <1>4, <1>5, <1>6, <1>7, <1>8, <1>9, <1>10
     DEF SessionNext, SessionStep, WriteOp

LEMMA CutOff ==
  ASSUME NEW a \in Seq(Nat), NEW from \in Nat, from <= Len(a)
  PROVE  LET b == SubSeq(a, from + 1, Len(a))
         IN  /\ b \in Seq(Nat) /\ Len(b) = Len(a) - from
             /\ \A i \in 1 .. Len(a) - from : b[i] = a[from + i]
<1>1. Len(a) \in Nat
  OBVIOUS
<1>2. /\ SubSeq(a, from + 1, Len(a)) \in Seq(Nat)
      /\ Len(SubSeq(a, from + 1, Len(a))) = Len(a) - from
  BY <1>1
<1>3. ASSUME NEW i \in 1 .. Len(a) - from
      PROVE  SubSeq(a, from + 1, Len(a))[i] = a[from + i]
  <2>1. SubSeq(a, from + 1, Len(a))[i] = a[from + 1 + i - 1] /\ from + 1 + i - 1 = from + i
    BY <1>1
  <2>. QED BY <2>1
<1>. QED BY <1>2, <1>3

LEMMA PrefixBy ==
  ASSUME NEW S, NEW a \in Seq(S), NEW b \in Seq(S), Len(a) <= Len(b),
         \A i \in 1 .. Len(a) : a[i] = b[i]
  PROVE  IsPrefix(a, b)
<1>1. Len(a) \in Nat /\ Len(b) \in Nat
  OBVIOUS
<1>. DEFINE c == SubSeq(a, 1, Len(a))
            d == SubSeq(b, 1, Len(a))
<1>2. c \in Seq(S) /\ Len(c) = Len(a) /\ \A i \in 1 .. Len(a) : c[i] = a[i]
  BY <1>1
<1>3. d \in Seq(S) /\ Len(d) = Len(a) /\ \A i \in 1 .. Len(a) : d[i] = b[i]
  BY <1>1
<1>. HIDE DEF c, d
<1>4. c = d
  BY <1>2, <1>3, SeqEqual
<1>. QED BY <1>4 DEF IsPrefix, c, d

LEMMA WithinFirst ==
  ASSUME NEW S, NEW a \in Seq(S), NEW b \in Seq(S), NEW k \in Nat, k < Len(a)
  PROVE  k < Len(a \o b) /\ (a \o b)[k + 1] = a[k + 1]
<1>1. Len(a) \in Nat /\ Len(b) \in Nat /\ Len(a \o b) = Len(a) + Len(b)
  OBVIOUS
<1>2. k + 1 \in 1 .. Len(a)
  BY <1>1
<1>. QED BY <1>1, <1>2

LEMMA OneMore ==
  ASSUME NEW S, NEW a \in Seq(S), NEW x \in S
  PROVE  Len(a) < Len(a \o <<x>>) /\ (a \o <<x>>)[Len(a) + 1] = x
OBVIOUS

\* A successful read has appended exactly the next message written, however
\* it was cut into frames; one under way or failed a beginning of it.
THEOREM MessagesRead == Spec => []ReadIsMessage
<1>1. ReadInv => ReadIsMessage
  <2>. SUFFICES ASSUME ReadInv PROVE ReadIsMessage
    OBVIOUS
  <2>. DEFINE rest == sent.msgs \o (IF sent.open.op = "none" THEN <<>> ELSE <<sent.open>>)
              k == Len(call.heard)
              part == SubSeq(call.buf, call.from + 1, Len(call.buf))
  <2>1. /\ sent.msgs \in Seq(Text) /\ sent.open \in Text /\ call.heard \in Seq(Text)
        /\ call.buf \in Seq(Nat) /\ call.from \in Nat /\ k \in Nat /\ Len(sent.msgs) \in Nat
        /\ k <= Len(sent.msgs) /\ Len(call.buf) \in Nat
        /\ \A i \in 1 .. k : call.heard[i] = sent.msgs[i]
    BY DEF ReadInv, HeardInv, Calls, Sent
  <2>2. IsPrefix(call.heard, sent.msgs)
    BY <2>1, PrefixBy
  <2>3. ASSUME call.st \in {"frame", "failed"}, part # <<>>
        PROVE  k < Len(rest) /\ IsPrefix(part, rest[k + 1].data) /\ call.op = rest[k + 1].op
    <3>. DEFINE l == Len(call.buf) - call.from
                t == TextAt(sent, k + 1)
    <3>1. call.from <= Len(call.buf) /\ Begins(sent, call.buf, call.from, k + 1, l, call.op)
      BY <2>3 DEF ReadInv, HeardInv, Calls
    <3>2. /\ part \in Seq(Nat) /\ Len(part) = l
          /\ \A i \in 1 .. l : part[i] = call.buf[call.from + i]
      BY <2>1, <3>1, CutOff
    <3>3. l \in Nat /\ l > 0
      <4>1. l \in Nat
        BY <2>1, <3>1
      <4>2. part \in Seq(Nat) /\ Len(part) = l /\ part # <<>>
        BY <2>3, <3>2
      <4>. HIDE DEF l, part
      <4>3. l # 0
        BY <4>2, EmptySeq
      <4>. QED BY <4>1, <4>3
    <3>4. /\ call.op = t.op /\ t.op # "none" /\ l <= Len(t.data)
          /\ \A i \in 1 .. l : call.buf[call.from + i] = t.data[i]
      BY <3>1, <3>3 DEF Begins
    <3>5. k < Len(rest) /\ rest[k + 1] = t
      <4>1. CASE k < Len(sent.msgs)
        <5>1. t = sent.msgs[k + 1]
          BY <2>1, <4>1 DEF TextAt
        <5>2. PICK b \in Seq(Text) : rest = sent.msgs \o b
          <6>1. <<>> \in Seq(Text) /\ <<sent.open>> \in Seq(Text)
            BY <2>1
          <6>2. rest = sent.msgs \o <<>> \/ rest = sent.msgs \o <<sent.open>>
            OBVIOUS
          <6>. HIDE DEF rest
          <6>. QED BY <6>1, <6>2
        <5>3. k < Len(sent.msgs \o b) /\ (sent.msgs \o b)[k + 1] = sent.msgs[k + 1]
          <6>. HIDE DEF k
          <6>1. sent.msgs \in Seq(Text) /\ sent.open \in Text /\ k \in Nat /\ k < Len(sent.msgs)
            BY <2>1, <4>1
          <6>. QED BY <6>1, WithinFirst
        <5>. HIDE DEF t, rest
        <5>. QED BY <5>1, <5>2, <5>3
      <4>2. CASE k = Len(sent.msgs)
        <5>1. t = sent.open
          BY <2>1, <4>2 DEF TextAt
        <5>2. rest = sent.msgs \o <<sent.open>>
          BY <3>4, <5>1
        <5>3. k < Len(sent.msgs \o <<sent.open>>) /\ (sent.msgs \o <<sent.open>>)[k + 1] = sent.open
          BY <2>1, <4>2, OneMore
        <5>. HIDE DEF t, rest
        <5>. QED BY <5>1, <5>2, <5>3
      <4>3. k < Len(sent.msgs) \/ k = Len(sent.msgs)
        BY <2>1
      <4>. QED BY <4>1, <4>2, <4>3
    <3>6. t \in Text /\ t.data \in Seq(Nat)
      <4>1. t \in Text
        BY <2>1 DEF TextAt
      <4>. QED BY <4>1 DEF Text
    <3>. HIDE DEF part, t
    <3>7. IsPrefix(part, t.data)
      BY <3>2, <3>4, <3>6, PrefixBy, SMTT(30)
    <3>. QED BY <3>4, <3>5, <3>7
  <2>. QED BY <2>2, <2>3 DEF ReadIsMessage
<1>. QED
  BY <1>1, TeardownInit, ReadInit, SessionPart, TeardownStep, ReadStep, PTL DEF Spec

=============================================================================
