----------------------------- MODULE FixedBufs -----------------------------
(***************************************************************************)
(* The two dynamic buffers that never allocate.                            *)
(*                                                                         *)
(* static_streambuf is one block with the pointers in_, out_ and last_     *)
(* kept as offsets.  buffers_adapter lays the same interface over blocks   *)
(* of the caller: begin, out and end are the positions of its iterators    *)
(* (Len(mem) + 1 for bs_.end()), the other members keep their names.       *)
(***************************************************************************)
EXTENDS StreamBuf

Blank(size) == [i \in 1 .. size |-> Garbage]

SsEmpty(size) == [mem |-> <<Blank(size)>>, in |-> 0, out |-> 0, last |-> 0]

SsEnd(b) == Len(b.mem[1])

\* A sequence of one buffer, from p_ to p_ + n_.  Without a byte its begin()
\* is its end().
SsRange(lo, hi) == IF lo = hi THEN << >> ELSE <<Buffer(1, lo, hi)>>

\* const_buffers_type
SsData(b) == SsRange(b.in, b.out)

\* mutable_buffers_type
SsOutput(b) == SsRange(b.out, b.last)

SsThrows(b, n) == n > SsEnd(b) - b.out

SsPrepare(b, n) == [b EXCEPT !.last = b.out + n]

SsCommit(b, n) == [b EXCEPT !.out = @ + Min({n, b.last - b.out})]

SsConsume(b, n) == [b EXCEPT !.in = @ + Min({n, b.out - b.in})]

SsReset(b) == [b EXCEPT !.in = 0, !.out = 0, !.last = 0]

-----------------------------------------------------------------------------
BaEmpty(sizes) ==
  [mem |-> [i \in DOMAIN sizes |-> Blank(sizes[i])],
   begin |-> 1, out |-> 1, end |-> 1, inPos |-> 0, inSize |-> 0,
   outPos |-> 0, outEnd |-> 0, maxSize |-> FoldSeq(+, 0, sizes)]

BaData(b) ==
  [j \in 1 .. (IF b.out = b.end THEN b.end ELSE b.out + 1) - b.begin |->
     LET i == b.begin + j - 1
     IN  Buffer(i, IF j = 1 THEN b.inPos ELSE 0,
                   IF i = b.out THEN b.outPos ELSE Len(b.mem[i]))]

BaOutput(b) ==
  [j \in 1 .. b.end - b.out |->
     LET i == b.out + j - 1
     IN  Buffer(i, IF j = 1 THEN b.outPos ELSE 0,
                   IF i = b.end - 1 THEN b.outEnd ELSE Len(b.mem[i]))]

\* What prepare(n) needs from the blocks behind out_.
BaNeed(b, n) ==
  n - IF b.out > Len(b.mem) THEN 0 ELSE Len(b.mem[b.out]) - b.outPos

\* The search for a block that outlasts n overwrites end_ and out_end_
\* before it finds out that no block does.
BaPrepare(b, n) ==
  LET need == BaNeed(b, n)
      fit == {j \in b.out + 1 .. Len(b.mem) : need < Total(b.mem, b.out + 1, j)}
  IN  IF b.out > Len(b.mem) THEN [b EXCEPT !.end = b.out]
      ELSE IF need <= 0 THEN [b EXCEPT !.end = b.out + 1, !.outEnd = b.outPos + n]
      ELSE IF fit # {}
           THEN [b EXCEPT !.end = Min(fit) + 1,
                          !.outEnd = need - Total(b.mem, b.out + 1, Min(fit) - 1)]
           ELSE [b EXCEPT !.end = Len(b.mem) + 1,
                          !.outEnd = IF b.out < Len(b.mem)
                                     THEN Len(b.mem[Len(b.mem)]) ELSE @]

\* length_error: bytes are missing when the blocks run out.
BaThrows(b, n) == BaNeed(b, n) > Total(b.mem, b.out + 1, Len(b.mem))

BaCommit(b, n) ==
  IF b.out = b.end THEN b
  ELSE [Committed(b, b.end - 1, n) EXCEPT
          !.maxSize = @ - CommitStop(b, b.end - 1, n).moved]

BaConsume(b, n) ==
  LET Before(k) == IF k = b.begin THEN 0
                   ELSE Total(b.mem, b.begin, k - 1) - b.inPos
      k == Max({j \in b.begin .. b.out : Before(j) <= n})
      base == IF k = b.begin THEN b.inPos ELSE 0
      r == IF k < b.out THEN n - Before(k)
           ELSE Min({n - Before(k), b.outPos - base})
  IN  [b EXCEPT !.begin = k, !.inPos = base + r, !.inSize = @ - Before(k) - r]

=============================================================================
