------------------------- MODULE DynabufReadStream -------------------------
(***************************************************************************)
(* dynabuf_readstream: a stream whose reads are served from a dynamic      *)
(* buffer first.  Its owner may use the buffer itself between two reads    *)
(* (DynaBufs), for instance to give back what it read too much.            *)
(*                                                                         *)
(* read_some and async_read_some differ in the error path only; a read is  *)
(* the steps of read_some_op, with rs for its state.  The bytes of the     *)
(* next layer are those DynaBufs counts.                                   *)
(***************************************************************************)
EXTENDS DynaBufs

CONSTANTS Capacities,  \* values of capacity_, 0 for unbuffered reads
          Wants        \* room in the buffers the caller of a read brings

ASSUME CapacityAssumption == Capacities \subseteq Nat /\ Wants \subseteq Nat

VARIABLES capacity,  \* capacity_
          rs,        \* the read: its state, the room of the caller's buffers
          got        \* the bytes the last read has put into them

bufVars == <<kind, buf, count, taken, left>>
svars == <<bufVars, capacity, rs, got>>

NoRead == [st |-> "idle", want |-> 0]

\* No read is under way.
Free == rs.st \in {"idle", "returned", "failed"}

-----------------------------------------------------------------------------
StreamInit == Init /\ capacity \in Capacities /\ rs = NoRead /\ got = << >>

\* The owner of the stream uses its buffer, or sets the capacity.
UseBuffer == Free /\ Next /\ rs' = NoRead /\ got' = << >> /\ UNCHANGED capacity

SetCapacity ==
  /\ Free /\ capacity' \in Capacities \ {capacity}
  /\ rs' = NoRead /\ got' = << >> /\ UNCHANGED bufVars

Begin(st, n) == rs' = [st |-> st, want |-> n] /\ got' = << >>

\* Fault: without a capacity the buffer is not looked at.
ReadSomeDirect(n) ==
  /\ Free /\ UNCHANGED capacity
  /\ \/ capacity > 0 /\ Size > 0 /\ Begin("copy", n) /\ UNCHANGED bufVars
     \/ capacity = 0 /\ Begin("direct", n) /\ UNCHANGED bufVars
     \/ capacity > 0 /\ Size = 0 /\ Prepare(capacity) /\ Begin("fill", n)

\* read_some: from the buffer if it has bytes, and through it otherwise.
ReadSome(n) ==
  /\ Free /\ UNCHANGED capacity
  /\ \/ Size > 0 /\ Begin("copy", n) /\ UNCHANGED bufVars
     \/ Size = 0 /\ capacity = 0 /\ Begin("direct", n) /\ UNCHANGED bufVars
     \/ Size = 0 /\ capacity > 0 /\ Prepare(capacity) /\ Begin("fill", n)

\* prepare throws through it.
ReadThrows ==
  /\ Free /\ Size = 0 /\ capacity > 0 /\ rs' = NoRead /\ got' = << >>
  /\ PrepareTooLong(capacity) \/ PrepareNoMemory(capacity)
  /\ UNCHANGED capacity

Return(st) == rs' = [rs EXCEPT !.st = st] /\ UNCHANGED <<kind, capacity>>

\* buffer_copy and consume.
CopyOut(b) ==
  LET n == Min({rs.want, SizeIn(b)})
  IN  /\ got' = SubSeq(Bytes(b.mem, DataOf(b)), 1, n)
      /\ buf' = Forget(ConsumeOf(b, n)) /\ taken' = taken + n

OnPosted == rs.st = "copy" /\ CopyOut(buf) /\ Return("returned") /\ UNCHANGED <<count, left>>

\* The next layer has read m bytes into the buffer.
OnFill(m) ==
  /\ rs.st = "fill" /\ m <= left /\ count + m <= MaxBytes
  /\ CopyOut(CommitOf(buf, m)) /\ Return("returned")
  /\ count' = count + m /\ left' = left - m

\* The synchronous read commits nothing before it looks at the error, the
\* asynchronous one does not commit.
OnFillError ==
  /\ rs.st = "fill" /\ Return("failed")
  /\ buf' \in {buf, CommitOf(buf, 0)}
  /\ UNCHANGED <<count, taken, left, got>>

\* The next layer has read m bytes into the caller's buffers.  What was
\* written into the output sequence before is now out of date.
OnDirect(m) ==
  /\ rs.st = "direct" /\ m <= rs.want /\ count + m <= MaxBytes
  /\ got' = [i \in 1 .. m |-> count + i] /\ Return("returned")
  /\ count' = count + m /\ taken' = taken + m /\ left' = Void /\ UNCHANGED buf

OnDirectError == rs.st = "direct" /\ Return("failed") /\ UNCHANGED <<buf, count, taken, left, got>>

StreamNext ==
  \/ UseBuffer \/ SetCapacity \/ ReadThrows
  \/ \E n \in Wants : ReadSome(n)
  \/ OnPosted \/ OnFillError \/ OnDirectError
  \/ \E m \in 1 .. MaxArg : OnFill(m) \/ OnDirect(m)
  \/ rs.want = 0 /\ OnDirect(0)

StreamSpec == StreamInit /\ [][StreamNext]_svars

-----------------------------------------------------------------------------
\* A read that succeeds delivers the next bytes of the stream, in order and
\* none twice, whether they come from the buffer or from the next layer and
\* whatever the owner has done to the buffer before; it delivers at least one
\* byte if there is room for one.
ReadIsNext ==
  rs.st = "returned" =>
    /\ got = [i \in 1 .. Len(got) |-> taken - Len(got) + i]
    /\ Len(got) <= rs.want /\ (rs.want > 0 => got # << >>)

=============================================================================
