---------------------------- MODULE BufferViews ----------------------------
(***************************************************************************)
(* Buffer sequences and the three views the library lays over them.        *)
(*                                                                         *)
(* Memory is a sequence of blocks, a block is a sequence of bytes.  A      *)
(* buffer is the half-open range (from, to] of the bytes of one block, a   *)
(* buffer sequence a sequence of buffers.  The views copy nothing:         *)
(* consuming_buffers drops a prefix that grows with every call,            *)
(* prepare_buffers keeps a prefix, and buffer_cat goes through several     *)
(* sequences as if they were one.                                          *)
(***************************************************************************)
EXTENDS Integers, Sequences, SequencesExt, FiniteSetsExt

Buffer(i, lo, hi) == [at |-> i, from |-> lo, to |-> hi]

BufferSize(b) == b.to - b.from

\* boost::asio::buffer_size of a sequence.
SizeOf(bs) == MapThenSumSet(LAMBDA i : BufferSize(bs[i]), DOMAIN bs)

\* The bytes a reader of the sequence sees, in order.
Bytes(mem, bs) ==
  FlattenSeq([i \in DOMAIN bs |->
                SubSeq(mem[bs[i].at], bs[i].from + 1, bs[i].to)])

\* The sizes of the blocks i .. j added up.
Total(mem, i, j) == MapThenSumSet(LAMBDA k : Len(mem[k]), i .. j)

\* Writing w[1], w[2], ... through the buffers of bs, in order.
Written(mem, bs, w) ==
  [i \in DOMAIN mem |-> [k \in DOMAIN mem[i] |->
     LET hit == {j \in DOMAIN bs : /\ bs[j].at = i
                                   /\ k \in bs[j].from + 1 .. bs[j].to}
     IN  IF hit = {} THEN mem[i][k]
         ELSE LET j == CHOOSE j \in hit : TRUE
              IN  w[SizeOf(SubSeq(bs, 1, j - 1)) + k - bs[j].from]]]

-----------------------------------------------------------------------------
\* consuming_buffers: the sequence, the first buffer still in view and the
\* bytes of that buffer already dropped.
ConsumingBuffers(bs) == [bs |-> bs, begin |-> 1, skip |-> 0]

\* What the buffers before k still held when the call began.
Passed(cb, k) ==
  IF k = cb.begin THEN 0
  ELSE SizeOf(SubSeq(cb.bs, cb.begin, k - 1)) - cb.skip

\* Fault: the loop keeps skip_ when it goes on to the next buffer.
ConsumeViewSkips(cb, n) ==
  LET k == Max({k \in cb.begin .. Len(cb.bs) + 1 :
                  k = cb.begin \/ (Passed(cb, k - 1) < n /\ Passed(cb, k) <= n)})
  IN  [cb EXCEPT !.begin = k,
                 !.skip = @ + IF k <= Len(cb.bs) THEN n - Passed(cb, k) ELSE 0]

\* The loop leaves a buffer behind only while bytes remain to be dropped,
\* and stops on the buffer that outlasts them.
ConsumeView(cb, n) ==
  LET k == Max({k \in cb.begin .. Len(cb.bs) + 1 :
                  k = cb.begin \/ (Passed(cb, k - 1) < n /\ Passed(cb, k) <= n)})
  IN  [cb EXCEPT !.begin = k,
                 !.skip  = (IF k = cb.begin THEN @ ELSE 0)
                           + IF k <= Len(cb.bs) THEN n - Passed(cb, k) ELSE 0]

\* The buffers a consuming_buffers shows.
InView(cb) ==
  [i \in 1 .. Len(cb.bs) + 1 - cb.begin |->
     LET b == cb.bs[cb.begin + i - 1]
     IN  IF i = 1 THEN [b EXCEPT !.from = @ + cb.skip] ELSE b]

\* prepare_buffers(n, bs): up to the buffer that reaches n, cut there, or
\* the whole sequence when no buffer does.
PreparedBuffers(n, bs) ==
  LET reach == {k \in DOMAIN bs : n <= SizeOf(SubSeq(bs, 1, k))}
  IN  IF reach = {} THEN bs
      ELSE LET k == Min(reach)
           IN  [SubSeq(bs, 1, k) EXCEPT
                  ![k].to = @ - (SizeOf(SubSeq(bs, 1, k)) - n)]

-----------------------------------------------------------------------------
\* The iterator of buffer_cat(bss[1], bss[2], ...): the sequence it is in and
\* its place there.  Sequences without a buffer are passed over.
CatEnd(bss) == [n |-> Len(bss) + 1, i |-> 1]

CatConstruct(bss, k) ==
  LET full == {j \in k .. Len(bss) : bss[j] # << >>}
  IN  IF full = {} THEN CatEnd(bss) ELSE [n |-> Min(full), i |-> 1]

\* operator== of two iterators of one buffer_cat: at the end no place counts.
CatEqual(a, b) == a.n = b.n /\ a.i = b.i

CatDereference(bss, it) == bss[it.n][it.i]

CatIncrement(bss, it) ==
  IF it.i < Len(bss[it.n]) THEN [it EXCEPT !.i = @ + 1] ELSE CatConstruct(bss, it.n + 1)

CatDecrement(bss, it) ==
  IF it.i > 1 THEN [it EXCEPT !.i = @ - 1]
  ELSE LET j == Max({j \in 1 .. it.n - 1 : bss[j] # << >>})
       IN  [n |-> j, i |-> Len(bss[j])]

=============================================================================
