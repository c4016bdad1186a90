----------------------------- MODULE StreamBuf -----------------------------
(***************************************************************************)
(* basic_streambuf: a list of allocated blocks that holds the input        *)
(* sequence followed by the output sequence.                               *)
(*                                                                         *)
(* A buffer is a record: mem is list_ with the bytes of every element, out *)
(* the position of out_ in the list (Len(mem) + 1 for list_.end()), inPos, *)
(* inSize, outPos, outEnd and alloc are the members of those names.        *)
(* Every operation maps a record to the record it leaves behind.           *)
(***************************************************************************)
EXTENDS BufferViews

SbEmpty(a) == [mem |-> << >>, out |-> 1, inPos |-> 0, inSize |-> 0,
               outPos |-> 0, outEnd |-> 0, alloc |-> a]

SbAtEnd(b) == b.out > Len(b.mem)

\* A byte of a block nobody has written yet.
Garbage == 0

\* const_buffers_type: what data() returns.
SbData(b) ==
  [i \in 1 .. IF SbAtEnd(b) THEN Len(b.mem) ELSE b.out |->
     Buffer(i, IF i = 1 THEN b.inPos ELSE 0,
               IF i = b.out THEN b.outPos ELSE Len(b.mem[i]))]

\* mutable_buffers_type: what prepare() returned.
SbOutput(b) ==
  [j \in 1 .. Len(b.mem) + 1 - b.out |->
     LET i == b.out + j - 1
     IN  Buffer(i, IF j = 1 THEN b.outPos ELSE 0,
                   IF i = Len(b.mem) THEN b.outEnd ELSE Len(b.mem[i]))]

SbCapacity(b) ==
  b.inSize + IF SbAtEnd(b) THEN 0
             ELSE Total(b.mem, b.out, Len(b.mem)) - b.outPos

\* read_size_helper, with the smallest read it asks for as a parameter.
SbReadSize(b, low, max) ==
  LET avail == SbCapacity(b) - b.inSize
  IN  Min({max, IF avail > 0 THEN avail ELSE Max({low, b.alloc})})

-----------------------------------------------------------------------------
\* What prepare(n) still needs after the rest of the block at out_.
SbNeed(b, n) ==
  n - IF SbAtEnd(b) THEN 0 ELSE Len(b.mem[b.out]) - b.outPos

\* The last block prepare(n) keeps of those it finds in the list.
SbReuse(b, n) ==
  IF SbNeed(b, n) <= 0 THEN Min({b.out, Len(b.mem)})
  ELSE Min({k \in b.out + 1 .. Len(b.mem) :
              Total(b.mem, b.out + 1, k) >= SbNeed(b, n)} \cup {Len(b.mem)})

\* What is left to allocate.
SbMissing(b, n) == SbNeed(b, n) - Total(b.mem, b.out + 1, SbReuse(b, n))

SbAllocates(b, n) == SbMissing(b, n) > 0

\* The one block prepare(n) allocates.
SbBlock(b, n) == [i \in 1 .. Max({b.alloc, SbMissing(b, n)}) |-> Garbage]

\* The blocks behind out_ are reused as long as bytes are missing, the others
\* are freed, and one block is allocated for what no block could take.
SbPrepare(b, n) ==
  LET k == SbReuse(b, n)
  IN  IF SbAllocates(b, n)
      THEN [b EXCEPT !.mem = Append(@, SbBlock(b, n)),
                     !.outEnd = SbMissing(b, n)]
      ELSE [b EXCEPT !.mem = SubSeq(@, 1, k),
                     !.outEnd = IF SbNeed(b, n) <= 0 THEN b.outPos + n
                                ELSE SbNeed(b, n) - Total(b.mem, b.out + 1, k - 1)]

\* prepare(n) when the allocation throws: every block has been reused.
SbPrepareThrows(b, n) ==
  [b EXCEPT !.outEnd = IF SbAtEnd(b) THEN @ ELSE Len(b.mem[Len(b.mem)])]

-----------------------------------------------------------------------------
\* The commit loop over the output sequence that ends in block last: the
\* block it stops in, and how many bytes it moved.
CommitStop(b, last, n) ==
  LET Before(j) == IF j = b.out THEN 0
                   ELSE Total(b.mem, b.out, j - 1) - b.outPos
      Base(j) == IF j = b.out THEN b.outPos ELSE 0
      j == Max({i \in b.out .. last : Before(i) <= n})
      r == IF j < last THEN n - Before(j)
           ELSE Min({n - Before(j), b.outEnd - Base(j)})
  IN  [at |-> j, pos |-> Base(j) + r, moved |-> Before(j) + r]

\* Fault: out_ stays on a block that commit has filled.
CommittedStays(b, last, n) ==
  LET s == CommitStop(b, last, n)
  IN  [b EXCEPT !.out = s.at, !.outPos = s.pos, !.inSize = @ + s.moved]

\* commit moves out_ behind the last block when the block is full.
Committed(b, last, n) ==
  LET s == CommitStop(b, last, n)
      full == s.at = last /\ s.pos = Len(b.mem[last])
  IN  [b EXCEPT !.out    = IF full THEN last + 1 ELSE s.at,
                !.outPos = IF full THEN 0 ELSE s.pos,
                !.outEnd = IF full THEN 0 ELSE @,
                !.inSize = @ + s.moved]

SbCommit(b, n) ==
  IF SbAtEnd(b) THEN b ELSE Committed(b, Len(b.mem), n)

-----------------------------------------------------------------------------
\* Fault: output in the blocks behind out_ is forgotten.
SbDrainedHere(b) == b.outPos = b.outEnd

\* Input and output are both empty and the only block left is at out_.
SbDrained(b) == b.out >= Len(b.mem) /\ b.outPos = b.outEnd

\* The last part of consume, once out_ is the front of the list.
SbConsumeFront(b, r) ==
  IF r < b.outPos - b.inPos
  THEN [b EXCEPT !.inSize = @ - r, !.inPos = @ + r]
  ELSE IF SbDrained(b)
       THEN [b EXCEPT !.inSize = 0, !.inPos = 0, !.outPos = 0, !.outEnd = 0]
       ELSE [b EXCEPT !.inSize = 0, !.inPos = b.outPos]

\* Blocks in front of out_ that n uses up are freed.
SbConsume(b, n) ==
  LET Before(k) == IF k = 0 THEN 0 ELSE Total(b.mem, 1, k) - b.inPos
      k == Max({j \in 0 .. b.out - 1 : Before(j) <= n})
      r == n - Before(k)
      c == [b EXCEPT !.mem = SubSeq(@, k + 1, Len(@)), !.out = @ - k,
                     !.inSize = @ - Before(k), !.inPos = IF k = 0 THEN @ ELSE 0]
  IN  IF b.mem = << >> THEN b
      ELSE IF c.out > 1 THEN [c EXCEPT !.inSize = @ - r, !.inPos = @ + r]
      ELSE SbConsumeFront(c, r)

\* Copy construction and assignment into a buffer with allocation size a.
SbCopy(b, a) ==
  LET c == SbPrepare(SbEmpty(a), b.inSize)
  IN  SbCommit([c EXCEPT !.mem = Written(@, SbOutput(c), Bytes(b.mem, SbData(b)))],
               b.inSize)

\* clear()
SbClear(b) == SbEmpty(b.alloc)

\* The move constructor, and the others between equal allocators: the blocks
\* go to the other buffer with out_, which is list_.end() again if it was, and
\* leave an empty buffer behind.
SbMove(b) == [to |-> b, from |-> SbEmpty(b.alloc)]

\* Move assignment between allocators that differ copies and clears.
SbMoveAssigns(b) == [to |-> SbCopy(b, b.alloc), from |-> SbClear(b)]

\* Move construction with an allocator that differs copies and does not clear.
SbMoveConstructs(b) == [to |-> SbCopy(b, b.alloc), from |-> b]

=============================================================================
