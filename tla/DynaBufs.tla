------------------------------ MODULE DynaBufs ------------------------------
(***************************************************************************)
(* A caller and one dynamic buffer: basic_streambuf, static_streambuf or   *)
(* buffers_adapter.  The caller prepares room, writes the next bytes of a  *)
(* stream into it, commits some of them and consumes what it has read, in  *)
(* any order and in any amounts.  The bytes of the stream are numbered     *)
(* 1, 2, ..., and the caller keeps the books: count bytes committed, taken *)
(* bytes consumed, left bytes of room prepared and not committed yet.      *)
(***************************************************************************)
EXTENDS FixedBufs

CONSTANTS AllocSizes,   \* allocation sizes of a basic_streambuf
          StaticSizes,  \* sizes N of a static_streambuf_n<N>
          Shapes,       \* block sizes under a buffers_adapter
          LowRead,      \* the smallest read read_size_helper asks for
          MaxArg,       \* bound on the argument of a call
          MaxBytes      \* bound on the bytes of the stream

ASSUME BufsAssumption ==
  /\ AllocSizes \subseteq Nat /\ StaticSizes \subseteq Nat
  /\ Shapes \subseteq Seq(Nat) /\ LowRead \in Nat \ {0}
  /\ MaxArg \in Nat /\ MaxBytes \in Nat

VARIABLES kind,   \* the class of the buffer
          buf,    \* the buffer
          count, taken, left

vars == <<kind, buf, count, taken, left>>

\* A prepare that threw leaves the caller without an output sequence.
Void == -1

DataOf(b) == CASE kind = "streambuf" -> SbData(b)
               [] kind = "static" -> SsData(b)
               [] kind = "adapter" -> BaData(b)

OutputOf(b) == CASE kind = "streambuf" -> SbOutput(b)
                 [] kind = "static" -> SsOutput(b)
                 [] kind = "adapter" -> BaOutput(b)

\* prepare(n) throws std::length_error
TooLong(b, n) == CASE kind = "streambuf" -> FALSE
                   [] kind = "static" -> SsThrows(b, n)
                   [] kind = "adapter" -> BaThrows(b, n)

PrepareOf(b, n) == CASE kind = "streambuf" -> SbPrepare(b, n)
                     [] kind = "static" -> SsPrepare(b, n)
                     [] kind = "adapter" -> BaPrepare(b, n)

CommitOf(b, n) == CASE kind = "streambuf" -> SbCommit(b, n)
                    [] kind = "static" -> SsCommit(b, n)
                    [] kind = "adapter" -> BaCommit(b, n)

ConsumeOf(b, n) == CASE kind = "streambuf" -> SbConsume(b, n)
                     [] kind = "static" -> SsConsume(b, n)
                     [] kind = "adapter" -> BaConsume(b, n)

\* size()
SizeIn(b) == IF kind = "static" THEN b.out - b.in ELSE b.inSize

Data == DataOf(buf)
Output == OutputOf(buf)
Size == SizeIn(buf)

\* A byte outside the input and the output sequence is nobody's: it is kept
\* as Garbage, which shows if the buffer takes it for a byte of its data.
Forget(b) ==
  LET used == Range(DataOf(b)) \cup Range(OutputOf(b))
  IN  [b EXCEPT !.mem = [i \in DOMAIN @ |-> [k \in DOMAIN @[i] |->
         IF \E u \in used : u.at = i /\ u.from < k /\ k <= u.to THEN @[i][k] ELSE Garbage]]]

\* The caller writes the bytes after the last committed one.
Filled(b) ==
  LET out == OutputOf(b)
  IN  Forget([b EXCEPT !.mem = Written(@, out, [i \in 1 .. SizeOf(out) |-> count + i])])

Init ==
  /\ \/ kind = "streambuf" /\ \E a \in AllocSizes \ {0} : buf = SbEmpty(a)
     \/ kind = "static" /\ \E s \in StaticSizes : buf = SsEmpty(s)
     \/ kind = "adapter" /\ \E sh \in Shapes : buf = BaEmpty(sh)
  /\ count = 0 /\ taken = 0 /\ left = 0

-----------------------------------------------------------------------------
Prepare(n) ==
  /\ ~TooLong(buf, n)
  /\ buf' = Filled(PrepareOf(buf, n))
  /\ left' = n
  /\ UNCHANGED <<kind, count, taken>>

\* std::bad_alloc
PrepareNoMemory(n) ==
  /\ kind = "streambuf" /\ SbAllocates(buf, n)
  /\ buf' = SbPrepareThrows(buf, n)
  /\ left' = Void
  /\ UNCHANGED <<kind, count, taken>>

\* std::length_error: static_streambuf checks before it writes anything,
\* buffers_adapter has already moved its end.
PrepareTooLong(n) ==
  /\ TooLong(buf, n)
  /\ buf' = IF kind = "adapter" THEN BaPrepare(buf, n) ELSE buf
  /\ left' = Void
  /\ UNCHANGED <<kind, count, taken>>

\* commit(n) moves no more than what was prepared.
Commit(n) ==
  /\ left # Void /\ count + Min({n, left}) <= MaxBytes
  /\ buf' = CommitOf(buf, n)
  /\ count' = count + Min({n, left})
  /\ left' = left - Min({n, left})
  /\ UNCHANGED <<kind, taken>>

\* consume(n) takes no more than there is.
Consume(n) ==
  /\ buf' = Forget(ConsumeOf(buf, n))
  /\ taken' = taken + Min({n, count - taken})
  /\ UNCHANGED <<kind, count, left>>

\* The caller goes on with a copy, which has no output sequence.
Copy(a) ==
  /\ kind = "streambuf"
  /\ buf' = SbCopy(buf, a)
  /\ left' = 0
  /\ UNCHANGED <<kind, count, taken>>

\* The caller moves its buffer and goes on with the new one.  The output
\* sequence comes along with the blocks, not with bytes that are copied.
Move ==
  /\ kind = "streambuf"
  /\ \/ buf' = SbMove(buf).to /\ UNCHANGED left
     \/ buf' \in {SbMoveAssigns(buf).to, SbMoveConstructs(buf).to} /\ left' = 0
  /\ UNCHANGED <<kind, count, taken>>

\* The caller moves its buffer and goes on with the old one, which is empty
\* unless its bytes were copied by the constructor.
MoveAway ==
  /\ kind = "streambuf"
  /\ \/ buf' \in {SbMove(buf).from, SbMoveAssigns(buf).from} /\ taken' = count /\ left' = 0
     \/ buf' = SbMoveConstructs(buf).from /\ UNCHANGED <<taken, left>>
  /\ UNCHANGED <<kind, count>>

\* write(dynabuf, arg), for each of its arguments: room for the argument, its
\* bytes, and commit.  If prepare throws this is a PrepareTooLong or a
\* PrepareNoMemory after the arguments before it.
WriteArg(n) ==
  /\ ~TooLong(buf, n) /\ count + n <= MaxBytes
  /\ buf' = CommitOf(Filled(PrepareOf(buf, n)), n)
  /\ count' = count + n /\ left' = 0
  /\ UNCHANGED <<kind, taken>>

\* alloc_size(a)
AllocSize(a) ==
  /\ kind = "streambuf" /\ a # buf.alloc
  /\ buf' = [buf EXCEPT !.alloc = a]
  /\ UNCHANGED <<kind, count, taken, left>>

\* static_streambuf_n::reset throws both sequences away.
Reset ==
  /\ kind = "static"
  /\ buf' = SsReset(buf)
  /\ taken' = count /\ left' = 0
  /\ UNCHANGED <<kind, count>>

Next ==
  \/ \E n \in 0 .. MaxArg :
       \/ Prepare(n) \/ PrepareNoMemory(n) \/ PrepareTooLong(n)
       \/ Commit(n) \/ Consume(n) \/ WriteArg(n)
  \/ \E a \in AllocSizes : Copy(a) \/ AllocSize(a)
  \/ Move \/ MoveAway \/ Reset

Spec == Init /\ [][Next]_vars

-----------------------------------------------------------------------------
\* The offsets stay within the blocks they point into, whatever the class:
\* what debug_check() asserts of a basic_streambuf, and the order of the
\* pointers of the other two.
DebugCheck ==
  CASE kind = "streambuf" ->
         /\ SizeOf(SbData(buf)) = buf.inSize
         /\ IF buf.mem = << >>
            THEN /\ buf.inPos = 0 /\ buf.inSize = 0 /\ buf.outPos = 0
                 /\ buf.outEnd = 0 /\ buf.out = 1
            ELSE /\ buf.inPos < Len(buf.mem[1])
                 /\ IF SbAtEnd(buf) THEN buf.outPos = 0 /\ buf.outEnd = 0
                    ELSE /\ buf.outEnd <= Len(buf.mem[Len(buf.mem)])
                         /\ buf.outPos < Len(buf.mem[buf.out])
                         /\ buf.out = 1 => buf.outPos - buf.inPos = buf.inSize
                         /\ buf.out = Len(buf.mem) => buf.outPos <= buf.outEnd
    [] kind = "static" ->
         0 <= buf.in /\ buf.in <= buf.out /\ buf.out <= buf.last
         /\ buf.last <= SsEnd(buf)
    [] kind = "adapter" ->
         /\ buf.begin <= buf.out /\ buf.out <= buf.end
         /\ buf.end <= Len(buf.mem) + 1
         /\ buf.out = buf.end - 1 => buf.outPos <= buf.outEnd

\* A buffer with c bytes committed, t of them consumed, and room for l more:
\* data() shows exactly the bytes between, in order, and size() counts them.
Accounts(b, c, t, l) ==
  /\ Bytes(b.mem, DataOf(b)) = [i \in 1 .. c - t |-> t + i]
  /\ SizeIn(b) = c - t
  /\ l # Void => SizeOf(OutputOf(b)) = l

\* A move as basic_streambuf.hpp documents it: the new object has the input
\* sequence and an empty output sequence, the old one has neither and no block.
DocumentedTo(b) == Accounts(b, count, taken, 0)
DocumentedFrom(b) == Accounts(b, count, count, 0) /\ b.mem = << >>

\* The moves keep the documentation but for two things.  A buffer that takes
\* over the blocks has the output sequence too, and the constructor with an
\* allocator that differs leaves the old buffer as it was.
MovesAreExact ==
  /\ DocumentedFrom(SbMove(buf).from) /\ Accounts(SbMove(buf).to, count, taken, left)
  /\ DocumentedFrom(SbMoveAssigns(buf).from) /\ DocumentedTo(SbMoveAssigns(buf).to)
  /\ SbMoveConstructs(buf).from = buf /\ DocumentedTo(SbMoveConstructs(buf).to)

\* Whatever the calls were, data() shows exactly the bytes committed and not
\* consumed, and the output sequence has the size that was asked for less what
\* was committed since.  A prepare that throws does not touch the input
\* sequence, and a move keeps the books of both buffers.
BooksAgree ==
  /\ Accounts(buf, count, taken, left)
  /\ kind = "streambuf" => MovesAreExact

\* capacity() is what a basic_streambuf can hold without an allocation, no
\* more and no less, and read_size_helper never asks the stream for a read of
\* nothing.  max_size() of a buffers_adapter is the largest output sequence
\* prepare() can return, however the blocks behind it are cut.
CapacityIsExact ==
  /\ kind = "streambuf" =>
       /\ \A n \in 0 .. MaxArg :
            SbAllocates(buf, n) <=> n > SbCapacity(buf) - buf.inSize
       /\ \A m \in 1 .. MaxArg : SbReadSize(buf, LowRead, m) \in 1 .. m
  /\ kind = "adapter" => \A n \in 0 .. MaxArg : BaThrows(buf, n) <=> n > buf.maxSize

\* The blocks of a buffer and what is said of them agree.
StorageIsExact == DebugCheck /\ CapacityIsExact

\* Two consume calls on a consuming_buffers over data() drop their sum, a
\* prepare_buffers keeps a prefix, and nothing else is lost.
SlicesAreExact ==
  LET data == Data
      all  == Bytes(buf.mem, data)
  IN  \A n \in 0 .. MaxArg :
        LET rest == ConsumeView(ConsumingBuffers(data), n)
        IN  /\ \A m \in 0 .. MaxArg : Bytes(buf.mem, InView(ConsumeView(rest, m)))
                                        = SubSeq(all, n + m + 1, Len(all))
            /\ Bytes(buf.mem, PreparedBuffers(n, data)) = SubSeq(all, 1, Min({n, Len(all)}))

\* Going forward from the begin() of a buffer_cat to its end() meets every byte
\* of the parts once and in order, going back undoes each step, and only equal
\* places compare equal, with empty parts anywhere.
CatIsWhole ==
  \A n \in 0 .. MaxArg :
    LET data == Data
        bss == << << >>, PreparedBuffers(n, data), << >>,
                  InView(ConsumeView(ConsumingBuffers(data), n)), << >> >>
        steps == Len(bss[2]) + Len(bss[4])
        walk[k \in 0 .. steps] ==
          IF k = 0 THEN CatConstruct(bss, 1) ELSE CatIncrement(bss, walk[k - 1])
    IN  /\ walk[steps] = CatEnd(bss)
        /\ Bytes(buf.mem, [k \in 1 .. steps |-> CatDereference(bss, walk[k - 1])])
             = Bytes(buf.mem, data)
        /\ \A k \in 1 .. steps : CatEqual(CatDecrement(bss, walk[k]), walk[k - 1])
        /\ \A j, k \in 0 .. steps : CatEqual(walk[j], walk[k]) => j = k

\* The views over data() show its bytes once and in order, whatever they skip,
\* cut off or join.
ViewsAreExact == SlicesAreExact /\ CatIsWhole

=============================================================================
