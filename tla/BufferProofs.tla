---------------------------- MODULE BufferProofs ----------------------------
(***************************************************************************)
(* Proofs about the dynamic buffers (DynaBufs) and dynabuf_readstream, for *)
(* every block size, every argument and every number of calls.             *)
(*                                                                         *)
(* The blocks of a buffer are laid end to end: byte k of block i has the   *)
(* place e[i - 1] + k, where e[i] is the end of block i.  In these places  *)
(* the input sequence is an interval and the output sequence the next one, *)
(* whatever the class, and an operation moves three numbers.               *)
(***************************************************************************)
EXTENDS Toolkit, InductionLemmas, SequenceTheorems

-----------------------------------------------------------------------------
(* Sums.                                                                   *)

Memory == Seq(Seq(Nat))

\* Total is the sum of the lengths.
LEMMA TotalIsSum ==
  ASSUME NEW mem, NEW i \in Int, NEW n \in Nat, \A k \in From(i, n) : Len(mem[k]) \in Int
  PROVE  \E it : /\ IsSum(it, [k \in From(i, n) |-> Len(mem[k])], From(i, n))
                 /\ Total(mem, i, i + n - 1) = it[From(i, n)]
<1> DEFINE D == From(i, n)
           f == [k \in D |-> Len(mem[k])]
           P(g) == g = [s \in SUBSET D |-> IF s = {} THEN 0
                         ELSE LET x == CHOOSE x \in s : TRUE IN Len(mem[x]) + g[s \ {x}]]
           a == CHOOSE g : P(g)
<1>1. Total(mem, i, i + n - 1) = a[D]
  BY Zenon DEF Total, MapThenSumSet, MapThenFoldSet, From
<1>2. ASSUME NEW g PROVE IsSum(g, f, D) <=> P(g)
  <2>1. ASSUME NEW s \in SUBSET D
        PROVE  (IF s = {} THEN 0 ELSE f[Pick(s)] + g[s \ {Pick(s)}])
               = IF s = {} THEN 0
                 ELSE LET x == CHOOSE x \in s : TRUE IN Len(mem[x]) + g[s \ {x}]
    <3>1. s # {} => f[Pick(s)] = Len(mem[Pick(s)])
      BY PickIn
    <3>. HIDE DEF f
    <3>. QED BY <3>1, Zenon DEF Pick
  <2>2. [s \in SUBSET D |-> IF s = {} THEN 0 ELSE f[Pick(s)] + g[s \ {Pick(s)}]]
        = [s \in SUBSET D |-> IF s = {} THEN 0
                         ELSE LET x == CHOOSE x \in s : TRUE IN Len(mem[x]) + g[s \ {x}]]
    <3>. HIDE DEF f, D
    <3>. QED BY <2>1, Zenon
  <2>. HIDE DEF f
  <2>. QED BY <2>2, Zenon DEF IsSum
<1>3. \E g : IsSum(g, f, D)
  <2>1. f \in [D -> Int] /\ IsFiniteSet(D)
    BY FS_Interval DEF From
  <2>. HIDE DEF f, D
  <2>. QED BY <2>1, SumExists
<1>4. P(a)
  <2>. HIDE DEF P, f, D
  <2>1. \E g : P(g)
    BY <1>2, <1>3
  <2>. QED BY <2>1, Zenon
<1>5. IsSum(a, f, D)
  <2>. HIDE DEF P, a, f, D
  <2>. QED BY <1>2, <1>4
<1>. HIDE DEF a
<1>. QED BY <1>1, <1>5

\* SizeOf is the sum of the sizes of the buffers.
LEMMA SizeIsSum ==
  ASSUME NEW bs, NEW n \in Nat, DOMAIN bs = From(1, n),
         \A k \in From(1, n) : BufferSize(bs[k]) \in Int
  PROVE  \E it : /\ IsSum(it, [k \in From(1, n) |-> BufferSize(bs[k])], From(1, n))
                 /\ SizeOf(bs) = it[From(1, n)]
<1> DEFINE D == From(1, n)
           f == [k \in D |-> BufferSize(bs[k])]
           P(g) == g = [s \in SUBSET D |-> IF s = {} THEN 0
                         ELSE LET x == CHOOSE x \in s : TRUE IN BufferSize(bs[x]) + g[s \ {x}]]
           a == CHOOSE g : P(g)
<1>1. SizeOf(bs) = a[D]
  BY Zenon DEF SizeOf, MapThenSumSet, MapThenFoldSet
<1>2. ASSUME NEW g PROVE IsSum(g, f, D) <=> P(g)
  <2>1. ASSUME NEW s \in SUBSET D
        PROVE  (IF s = {} THEN 0 ELSE f[Pick(s)] + g[s \ {Pick(s)}])
               = IF s = {} THEN 0
                 ELSE LET x == CHOOSE x \in s : TRUE IN BufferSize(bs[x]) + g[s \ {x}]
    <3>1. s # {} => f[Pick(s)] = BufferSize(bs[Pick(s)])
      BY PickIn
    <3>. HIDE DEF f
    <3>. QED BY <3>1, Zenon DEF Pick
  <2>2. [s \in SUBSET D |-> IF s = {} THEN 0 ELSE f[Pick(s)] + g[s \ {Pick(s)}]]
        = [s \in SUBSET D |-> IF s = {} THEN 0
                         ELSE LET x == CHOOSE x \in s : TRUE IN BufferSize(bs[x]) + g[s \ {x}]]
    <3>. HIDE DEF f, D
    <3>. QED BY <2>1, Zenon
  <2>. HIDE DEF f
  <2>. QED BY <2>2, Zenon DEF IsSum
<1>3. \E g : IsSum(g, f, D)
  <2>1. f \in [D -> Int] /\ IsFiniteSet(D)
    BY FS_Interval DEF From
  <2>. HIDE DEF f, D
  <2>. QED BY <2>1, SumExists
<1>4. P(a)
  <2>. HIDE DEF P, f, D
  <2>1. \E g : P(g)
    BY <1>2, <1>3
  <2>. QED BY <2>1, Zenon
<1>5. IsSum(a, f, D)
  <2>. HIDE DEF P, a, f, D
  <2>. QED BY <1>2, <1>4
<1>. HIDE DEF a
<1>. QED BY <1>1, <1>5

-----------------------------------------------------------------------------
(* Places.                                                                 *)

\* e[k] is the place of the last byte of block k.
IsEnds(e, mem) ==
  /\ e \in [0 .. Len(mem) -> Nat] /\ e[0] = 0
  /\ \A k \in 1 .. Len(mem) : e[k] = e[k - 1] + Len(mem[k])

LEMMA EndsExist == ASSUME NEW mem \in Memory PROVE \E e : IsEnds(e, mem)
<1> DEFINE n == Len(mem)
           F == [i \in 1 .. n |-> [x \in Nat |-> x + Len(mem[i])]]
<1>0. n \in Nat /\ \A i \in 1 .. n : Len(mem[i]) \in Nat
  BY DEF Memory
<1>1. \A i \in 1 .. n : \A x \in Nat : F[i][x] = x + Len(mem[i]) /\ F[i][x] \in Nat
  BY <1>0
<1>. HIDE DEF F, n
<1>2. PICK g : g \in Runs(Nat, 0, n, F)
  BY <1>0, <1>1, Recursion
<1>3. g \in [0 .. n -> Nat] /\ g[0] = 0 /\ \A i \in 1 .. n : g[i] = F[i][g[i - 1]]
  BY <1>2 DEF Runs
<1>4. ASSUME NEW i \in 1 .. n PROVE g[i] = g[i - 1] + Len(mem[i])
  <2>1. g[i - 1] \in Nat
    BY <1>0, <1>3
  <2>. QED BY <1>1, <1>3, <2>1
<1>5. IsEnds(g, mem)
  BY <1>3, <1>4 DEF IsEnds, n
<1>. QED BY <1>5

\* Total(mem, i, j) counts from the end of block i - 1 to the end of block j.
LEMMA TotalIsDifference ==
  ASSUME NEW mem \in Memory, NEW e, IsEnds(e, mem),
         NEW i \in 1 .. Len(mem) + 1, NEW j \in i - 1 .. Len(mem)
  PROVE  Total(mem, i, j) = e[j] - e[i - 1]
<1>0. \E n : n \in Nat /\ j = i + n - 1
  <2>1. j - i + 1 \in Nat /\ j = i + (j - i + 1) - 1
    OBVIOUS
  <2>. QED BY <2>1
<1>1. PICK n : n \in Nat /\ j = i + n - 1
  BY <1>0
<1> DEFINE f == [k \in From(i, n) |-> Len(mem[k])]
<1>2. i \in Int /\ Len(mem) \in Nat /\ \A k \in 1 .. Len(mem) : Len(mem[k]) \in Nat
  BY DEF Memory
<1>3. \A k \in From(i, n) : k \in 1 .. Len(mem)
  BY <1>1 DEF From
<1>4. f \in [From(i, n) -> Int] /\ \A k \in From(i, n) : Len(mem[k]) \in Int
  BY <1>2, <1>3
<1>5. \A k \in i - 1 .. i + n - 1 : e[k] \in Int
  <2>1. \A k \in i - 1 .. i + n - 1 : k \in 0 .. Len(mem)
    BY <1>1
  <2>. QED BY <2>1 DEF IsEnds
<1>6. \A k \in From(i, n) : e[k] = e[k - 1] + f[k]
  BY <1>3 DEF IsEnds
<1>7. PICK it : IsSum(it, f, From(i, n)) /\ Total(mem, i, i + n - 1) = it[From(i, n)]
  BY <1>1, <1>2, <1>4, TotalIsSum
<1>. HIDE DEF f
<1>8. it[From(i, n)] = e[i + n - 1] - e[i - 1]
  <2>1. i \in Int /\ n \in Nat /\ f \in [From(i, n) -> Int] /\ IsSum(it, f, From(i, n))
    BY <1>1, <1>2, <1>4, <1>7, Zenon
  <2>. QED BY <1>5, <1>6, <2>1, IntervalSum, Zenon
<1>. QED BY <1>1, <1>7, <1>8

\* A total over no blocks is nothing.
LEMMA TotalEmpty ==
  ASSUME NEW mem, NEW i \in Int, NEW j \in Int, j < i PROVE Total(mem, i, j) = 0
<1>1. From(i, 0) = {} /\ i .. j = {} /\ i .. i + 0 - 1 = {}
  BY FromStep
<1>2. PICK it : /\ IsSum(it, [k \in From(i, 0) |-> Len(mem[k])], From(i, 0))
                /\ Total(mem, i, i + 0 - 1) = it[From(i, 0)]
  BY <1>1, TotalIsSum
<1>3. it[From(i, 0)] = 0
  BY <1>1, <1>2 DEF IsSum
<1>4. Total(mem, i, j) = Total(mem, i, i + 0 - 1)
  BY <1>1, Zenon DEF Total
<1>. QED BY <1>2, <1>3, <1>4

\* The size of a sequence of buffers, by the places its buffers end at.
LEMMA SizeByPlaces ==
  ASSUME NEW bs, NEW n \in Nat, DOMAIN bs = 1 .. n, NEW q,
         \A k \in 0 .. n : q[k] \in Int,
         \A k \in 1 .. n : BufferSize(bs[k]) = q[k] - q[k - 1]
  PROVE  SizeOf(bs) = q[n] - q[0]
<1>0. PICK lo : lo = 1
  OBVIOUS
<1> DEFINE D == From(lo, n)
           f == [k \in D |-> BufferSize(bs[k])]
<1>1. D = 1 .. n /\ lo \in Int /\ lo + n - 1 = n /\ lo - 1 = 0
  BY <1>0 DEF From
<1>2. \A k \in 1 .. n : q[k] \in Int /\ q[k - 1] \in Int
  OBVIOUS
<1>3. \A k \in D : BufferSize(bs[k]) = q[k] - q[k - 1] /\ q[k] \in Int /\ q[k - 1] \in Int
  BY <1>1, <1>2
<1>4. \A k \in D : BufferSize(bs[k]) \in Int
  BY <1>3
<1>5. f \in [D -> Int] /\ \A k \in D : q[k] = q[k - 1] + f[k]
  BY <1>3, <1>4
<1>6. \A k \in lo - 1 .. lo + n - 1 : q[k] \in Int
  BY <1>1
<1>7. PICK it : IsSum(it, f, D) /\ SizeOf(bs) = it[D]
  BY <1>0, <1>1, <1>4, SizeIsSum
<1>. HIDE DEF f
<1>8. it[From(lo, n)] = q[lo + n - 1] - q[lo - 1]
  <2>1. f \in [From(lo, n) -> Int] /\ IsSum(it, f, From(lo, n)) /\ lo \in Int /\ n \in Nat
    BY <1>1, <1>5, <1>7, Zenon
  <2>2. \A k \in From(lo, n) : q[k] = q[k - 1] + f[k]
    BY <1>5, Zenon
  <2>. HIDE DEF D
  <2>. QED BY <1>6, <2>1, <2>2, IntervalSum
<1>. QED BY <1>1, <1>7, <1>8

\* The numbers after t, m of them.
Run(t, m) == [i \in 1 .. m |-> t + i]

LEMMA RunConcat ==
  ASSUME NEW t \in Int, NEW u \in Nat, NEW v \in Nat
  PROVE  Run(t, u + v) = Run(t, u) \o Run(t + u, v)
BY DEF Run

\* Pieces of one run of numbers, put together, are the run.
LEMMA FlattenRun ==
  ASSUME NEW n \in Nat, NEW seqs, Len(seqs) = n, seqs \in Seq(Seq(Int)), NEW t \in Int,
         NEW q \in [0 .. n -> Nat], q[0] = 0, \A j \in 1 .. n : q[j - 1] <= q[j],
         \A j \in 1 .. n : seqs[j] = Run(t + q[j - 1], q[j] - q[j - 1])
  PROVE  FlattenSeq(seqs) = Run(t, q[n])
<1> DEFINE P(g) == g = [i \in 1 .. n |-> IF i = 1 THEN seqs[i] ELSE g[i - 1] \o seqs[i]]
           a == CHOOSE g : P(g)
           h == [i \in 1 .. n |-> Run(t, q[i])]
<1>1. CASE n = 0
  <2>1. FlattenSeq(seqs) = seqs
    BY <1>1, Zenon DEF FlattenSeq
  <2>2. seqs = << >>
    BY <1>1
  <2>. QED BY <1>1, <2>1, <2>2 DEF Run
<1>2. CASE n # 0
  <2>1. FlattenSeq(seqs) = a[n]
    BY <1>2, Zenon DEF FlattenSeq
  <2>2. ASSUME NEW j \in 2 .. n PROVE Run(t, q[j]) = Run(t, q[j - 1]) \o seqs[j]
    <3>0. j \in 1 .. n /\ j - 1 \in 0 .. n /\ j \in 0 .. n
      OBVIOUS
    <3>a. q[j - 1] \in Nat /\ q[j] \in Nat /\ q[j - 1] <= q[j]
      BY <3>0
    <3>1. /\ q[j - 1] \in Nat /\ q[j] - q[j - 1] \in Nat /\ j \in 1 .. n
          /\ q[j - 1] + (q[j] - q[j - 1]) = q[j]
      <4>. DEFINE u == q[j - 1]
                  v == q[j]
      <4>. HIDE DEF u, v
      <4>1. u \in Nat /\ v \in Nat /\ u <= v => v - u \in Nat /\ u + (v - u) = v
        OBVIOUS
      <4>. QED BY <3>0, <3>a, <4>1, Zenon DEF u, v
    <3>2. seqs[j] = Run(t + q[j - 1], q[j] - q[j - 1])
      BY <3>1
    <3>3. Run(t, q[j - 1] + (q[j] - q[j - 1]))
            = Run(t, q[j - 1]) \o Run(t + q[j - 1], q[j] - q[j - 1])
      BY <3>1, RunConcat
    <3>. QED BY <3>1, <3>2, <3>3
  <2>3. seqs[1] = Run(t, q[1])
    <3>1. 1 \in 1 .. n /\ q[1] \in Nat /\ t + q[0] = t /\ q[1] - q[0] = q[1]
      BY <1>2
    <3>2. seqs[1] = Run(t + q[0], q[1] - q[0])
      BY <3>1
    <3>. QED BY <3>1, <3>2
  <2>4. P(h)
    <3>1. ASSUME NEW i \in 1 .. n
          PROVE  h[i] = IF i = 1 THEN seqs[i] ELSE h[i - 1] \o seqs[i]
      <4>1. CASE i = 1
        BY <2>3, <4>1
      <4>2. CASE i # 1
        <5>1. i \in 2 .. n /\ i - 1 \in 1 .. n
          BY <4>2
        <5>2. h[i] = Run(t, q[i]) /\ h[i - 1] = Run(t, q[i - 1])
          BY <5>1
        <5>. HIDE DEF h
        <5>. QED BY <2>2, <4>2, <5>1, <5>2
      <4>. QED BY <4>1, <4>2
    <3>2. h = [i \in 1 .. n |-> h[i]]
      OBVIOUS
    <3>. HIDE DEF h
    <3>. QED BY <3>1, <3>2
  <2>5. P(a)
    <3>. HIDE DEF h
    <3>. QED BY <2>4, Zenon
  <2>6. \A k \in Nat : k + 1 <= n => a[k + 1] = h[k + 1]
    <3>. HIDE DEF a, h
    <3> DEFINE S == {k \in Nat : k + 1 <= n => a[k + 1] = h[k + 1]}
    <3>1. 0 \in S
      BY <1>2, <2>4, <2>5
    <3>2. ASSUME NEW k \in Nat, k \in S PROVE k + 1 \in S
      <4>. SUFFICES ASSUME (k + 1) + 1 <= n PROVE a[(k + 1) + 1] = h[(k + 1) + 1]
        OBVIOUS
      <4>1. a[k + 1] = h[k + 1]
        BY <3>2
      <4>2. (k + 1) + 1 \in 1 .. n /\ (k + 1) + 1 # 1 /\ ((k + 1) + 1) - 1 = k + 1
        OBVIOUS
      <4>3. a[(k + 1) + 1] = a[k + 1] \o seqs[(k + 1) + 1]
        BY <2>5, <4>2
      <4>4. h[(k + 1) + 1] = h[k + 1] \o seqs[(k + 1) + 1]
        BY <2>4, <4>2
      <4>. QED BY <4>1, <4>3, <4>4
    <3>3. \A k \in Nat : k \in S
      <4>. HIDE DEF S
      <4>. QED BY <3>1, <3>2, NatSetInduction
    <3>. QED BY <3>3
  <2>7. a[n] = h[n]
    <3>1. PICK k \in Nat : k + 1 = n
      BY <1>2
    <3>. HIDE DEF a, h
    <3>2. k + 1 <= n
      BY <3>1
    <3>3. a[k + 1] = h[k + 1]
      BY <2>6, <3>2, Zenon
    <3>. QED BY <3>1, <3>3, Zenon
  <2>. HIDE DEF a
  <2>. QED BY <1>2, <2>1, <2>7
<1>. QED BY <1>1, <1>2

-----------------------------------------------------------------------------
\* The place of the last byte of block i.
End(mem, i) == Total(mem, 1, i)

LEMMA EndIs ==
  ASSUME NEW mem \in Memory, NEW e, IsEnds(e, mem), NEW i \in 0 .. Len(mem)
  PROVE  End(mem, i) = e[i]
<1>1. Len(mem) \in Nat /\ 1 \in 1 .. Len(mem) + 1 /\ i \in 1 - 1 .. Len(mem)
  BY DEF Memory
<1>2. Total(mem, 1, i) = e[i] - e[1 - 1]
  BY <1>1, TotalIsDifference
<1>. QED BY <1>1, <1>2 DEF IsEnds, End

LEMMA EndFacts ==
  ASSUME NEW mem \in Memory
  PROVE  /\ Len(mem) \in Nat /\ \A i \in 1 .. Len(mem) : Len(mem[i]) \in Nat
         /\ End(mem, 0) = 0
         /\ \A i \in 0 .. Len(mem) : End(mem, i) \in Nat
         /\ \A i \in 1 .. Len(mem) : End(mem, i) = End(mem, i - 1) + Len(mem[i])
<1>1. PICK e : IsEnds(e, mem)
  BY EndsExist
<1>2. Len(mem) \in Nat /\ \A i \in 1 .. Len(mem) : Len(mem[i]) \in Nat
  BY DEF Memory
<1>3. \A i \in 0 .. Len(mem) : End(mem, i) = e[i]
  BY <1>1, EndIs
<1>4. \A i \in 1 .. Len(mem) : i \in 0 .. Len(mem) /\ i - 1 \in 0 .. Len(mem)
  BY <1>2
<1>5. 0 \in 0 .. Len(mem)
  BY <1>2
<1>. QED BY <1>1, <1>2, <1>3, <1>4, <1>5 DEF IsEnds

LEMMA EndGrows ==
  ASSUME NEW mem \in Memory, NEW i \in 0 .. Len(mem), NEW j \in i .. Len(mem)
  PROVE  End(mem, i) <= End(mem, j)
<1> DEFINE e == [k \in 0 .. Len(mem) |-> End(mem, k)]
<1>0. Len(mem) \in Nat
  BY EndFacts
<1>1. e \in [0 .. Len(mem) -> Int]
  BY EndFacts
<1>2. ASSUME NEW k \in 1 .. Len(mem) PROVE e[k - 1] <= e[k]
  <2>1. k \in 0 .. Len(mem) /\ k - 1 \in 0 .. Len(mem)
    BY <1>0
  <2>2. End(mem, k) = End(mem, k - 1) + Len(mem[k]) /\ Len(mem[k]) \in Nat
         /\ End(mem, k - 1) \in Nat
    BY <2>1, EndFacts
  <2>. QED BY <2>1, <2>2
<1>3. i \in 0 .. Len(mem) /\ j \in 0 .. Len(mem) /\ i <= j
  BY <1>0
<1>4. e[i] <= e[j]
  <2>. HIDE DEF e
  <2>. QED BY <1>0, <1>1, <1>2, <1>3, Monotone
<1>. QED BY <1>3, <1>4

LEMMA TotalByEnds ==
  ASSUME NEW mem \in Memory, NEW i \in 1 .. Len(mem) + 1, NEW j \in i - 1 .. Len(mem)
  PROVE  Total(mem, i, j) = End(mem, j) - End(mem, i - 1)
<1>1. PICK e : IsEnds(e, mem)
  BY EndsExist
<1>2. j \in 0 .. Len(mem) /\ i - 1 \in 0 .. Len(mem)
  BY EndFacts
<1>3. End(mem, j) = e[j] /\ End(mem, i - 1) = e[i - 1]
  BY <1>1, <1>2, EndIs
<1>. QED BY <1>1, <1>3, TotalIsDifference

\* Blocks of the same sizes end at the same places.
LEMMA EndSame ==
  ASSUME NEW mem \in Memory, NEW c \in Memory, NEW n \in Nat, n <= Len(mem), n <= Len(c),
         \A i \in 1 .. n : Len(c[i]) = Len(mem[i])
  PROVE  \A i \in 0 .. n : End(c, i) = End(mem, i)
<1> DEFINE S == {i \in Nat : i <= n => End(c, i) = End(mem, i)}
<1>1. 0 \in S
  BY EndFacts
<1>2. ASSUME NEW k \in Nat, k \in S PROVE k + 1 \in S
  <2>. SUFFICES ASSUME k + 1 <= n PROVE End(c, k + 1) = End(mem, k + 1)
    OBVIOUS
  <2>1. k + 1 \in 1 .. Len(mem) /\ k + 1 \in 1 .. Len(c) /\ k + 1 \in 1 .. n /\ (k + 1) - 1 = k
    BY EndFacts
  <2>2. End(mem, k + 1) = End(mem, (k + 1) - 1) + Len(mem[k + 1])
    BY <2>1, EndFacts
  <2>3. End(c, k + 1) = End(c, (k + 1) - 1) + Len(c[k + 1])
    BY <2>1, EndFacts
  <2>4. Len(c[k + 1]) = Len(mem[k + 1])
    BY <2>1
  <2>5. End(c, k) = End(mem, k)
    BY <1>2
  <2>. QED BY <2>1, <2>2, <2>3, <2>4, <2>5
<1>3. \A k \in Nat : k \in S
  <2>. HIDE DEF S
  <2>. QED BY <1>1, <1>2, NatSetInduction
<1>. QED BY <1>3

\* Without the first k blocks every byte has a place End(mem, k) lower.
LEMMA EndShift ==
  ASSUME NEW mem \in Memory, NEW k \in 0 .. Len(mem)
  PROVE  LET c == SubSeq(mem, k + 1, Len(mem))
         IN  /\ c \in Memory /\ Len(c) = Len(mem) - k
             /\ \A i \in 1 .. Len(mem) - k : c[i] = mem[i + k]
             /\ \A i \in 0 .. Len(mem) - k : End(c, i) = End(mem, i + k) - End(mem, k)
<1> DEFINE c == SubSeq(mem, k + 1, Len(mem))
           e == [i \in 0 .. Len(mem) - k |-> End(mem, i + k) - End(mem, k)]
<1>0. Len(mem) \in Nat
  BY EndFacts
<1>1. c \in Memory /\ Len(c) = Len(mem) - k
  BY <1>0 DEF Memory
<1>2. \A i \in 1 .. Len(mem) - k : c[i] = mem[i + k]
  BY <1>0 DEF Memory
<1>. HIDE DEF c
<1>3. \A i \in 0 .. Len(mem) - k : End(mem, i + k) - End(mem, k) \in Nat
  <2>. SUFFICES ASSUME NEW i \in 0 .. Len(mem) - k PROVE End(mem, i + k) - End(mem, k) \in Nat
    OBVIOUS
  <2>1. i + k \in k .. Len(mem) /\ i + k \in 0 .. Len(mem)
    BY <1>0
  <2>2. End(mem, k) <= End(mem, i + k)
    BY <2>1, EndGrows
  <2>3. End(mem, k) \in Nat /\ End(mem, i + k) \in Nat
    BY <2>1, EndFacts
  <2>. QED BY <2>2, <2>3
<1>4. ASSUME NEW i \in 1 .. Len(c) PROVE e[i] = e[i - 1] + Len(c[i])
  <2>1. /\ i \in 0 .. Len(mem) - k /\ i - 1 \in 0 .. Len(mem) - k /\ i + k \in 1 .. Len(mem)
        /\ (i + k) - 1 = (i - 1) + k /\ (i - 1) + k \in 0 .. Len(mem)
    BY <1>0, <1>1
  <2>2. c[i] = mem[i + k]
    BY <1>1, <1>2
  <2>3. End(mem, i + k) = End(mem, (i + k) - 1) + Len(mem[i + k])
    BY <2>1, EndFacts
  <2>4. Len(mem[i + k]) \in Nat /\ End(mem, (i - 1) + k) \in Nat /\ End(mem, k) \in Nat
    BY <2>1, EndFacts
  <2>5. e[i] = End(mem, i + k) - End(mem, k) /\ e[i - 1] = End(mem, (i - 1) + k) - End(mem, k)
    BY <2>1
  <2>. HIDE DEF e
  <2>. QED BY <2>1, <2>2, <2>3, <2>4, <2>5
<1>5. IsEnds(e, c)
  <2>1. e \in [0 .. Len(c) -> Nat]
    BY <1>1, <1>3
  <2>2. e[0] = 0
    BY <1>0, EndFacts
  <2>. HIDE DEF e
  <2>. QED BY <1>4, <2>1, <2>2 DEF IsEnds
<1>6. \A i \in 0 .. Len(mem) - k : End(c, i) = e[i]
  <2>. HIDE DEF e
  <2>. QED BY <1>1, <1>5, EndIs
<1>. QED BY <1>1, <1>2, <1>6 DEF c

-----------------------------------------------------------------------------
(* Spans: the buffer sequences of all three classes.                       *)

\* m blocks from block a on, without the first x bytes of the first one and
\* up to byte y of the last one.
Span(mem, a, m, x, y) ==
  [j \in 1 .. m |-> Buffer(a + j - 1, IF j = 1 THEN x ELSE 0,
                                      IF j = m THEN y ELSE Len(mem[a + j - 1]))]

SpanOK(mem, a, m, x, y) ==
  /\ mem \in Memory /\ a \in Nat \ {0} /\ m \in Nat \ {0} /\ a + m - 1 <= Len(mem)
  /\ x \in 0 .. Len(mem[a]) /\ y \in 0 .. Len(mem[a + m - 1])
  /\ m = 1 => x <= y

\* The place buffer j of a span ends at.
Stop(mem, a, m, x, y, j) ==
  IF j = 0 THEN End(mem, a - 1) + x
  ELSE IF j = m THEN End(mem, a + m - 2) + y ELSE End(mem, a + j - 1)

LEMMA SpanBuffer ==
  ASSUME NEW mem, NEW a, NEW m, NEW x, NEW y, SpanOK(mem, a, m, x, y), NEW j \in 1 .. m
  PROVE  LET u == Span(mem, a, m, x, y)[j]
         IN  /\ u.at = a + j - 1 /\ u.at \in 1 .. Len(mem)
             /\ u.from = (IF j = 1 THEN x ELSE 0)
             /\ u.to = (IF j = m THEN y ELSE Len(mem[a + j - 1]))
             /\ u.from \in Nat /\ u.to \in Nat /\ u.from <= u.to /\ u.to <= Len(mem[u.at])
<1> DEFINE u == Span(mem, a, m, x, y)[j]
<1>1. /\ mem \in Memory /\ a \in Nat \ {0} /\ m \in Nat \ {0} /\ a + m - 1 <= Len(mem)
      /\ x \in 0 .. Len(mem[a]) /\ y \in 0 .. Len(mem[a + m - 1]) /\ (m = 1 => x <= y)
  BY DEF SpanOK
<1>2. Len(mem) \in Nat
  BY <1>1, EndFacts
<1>3. u.at = a + j - 1 /\ u.from = (IF j = 1 THEN x ELSE 0)
      /\ u.to = (IF j = m THEN y ELSE Len(mem[a + j - 1]))
  BY DEF Span, Buffer
<1>. HIDE DEF u
<1>4. a + j - 1 \in 1 .. Len(mem) /\ a \in 1 .. Len(mem) /\ a + m - 1 \in 1 .. Len(mem)
  BY <1>1, <1>2
<1>5. Len(mem[a + j - 1]) \in Nat /\ Len(mem[a]) \in Nat /\ Len(mem[a + m - 1]) \in Nat
  BY <1>1, <1>4, EndFacts
<1>6. j = 1 => a + j - 1 = a
  BY <1>1
<1>7. u.from \in Nat /\ u.from <= Len(mem[a + j - 1])
  BY <1>1, <1>3, <1>5, <1>6
<1>8. u.to \in Nat /\ u.to <= Len(mem[a + j - 1])
  BY <1>1, <1>3, <1>5
<1>9. u.from <= u.to
  BY <1>1, <1>3, <1>5, <1>7, <1>8
<1>. QED BY <1>3, <1>4, <1>7, <1>8, <1>9 DEF u

LEMMA SpanStops ==
  ASSUME NEW mem, NEW a, NEW m, NEW x, NEW y, SpanOK(mem, a, m, x, y)
  PROVE  /\ \A j \in 0 .. m : Stop(mem, a, m, x, y, j) \in Nat
         /\ \A j \in 1 .. m :
              /\ Stop(mem, a, m, x, y, j - 1)
                   = End(mem, a + j - 2) + Span(mem, a, m, x, y)[j].from
              /\ Stop(mem, a, m, x, y, j)
                   = End(mem, a + j - 2) + Span(mem, a, m, x, y)[j].to
              /\ Stop(mem, a, m, x, y, j - 1) <= Stop(mem, a, m, x, y, j)
              /\ BufferSize(Span(mem, a, m, x, y)[j])
                   = Stop(mem, a, m, x, y, j) - Stop(mem, a, m, x, y, j - 1)
<1>1. /\ mem \in Memory /\ a \in Nat \ {0} /\ m \in Nat \ {0} /\ a + m - 1 <= Len(mem)
      /\ x \in Nat /\ y \in Nat
  BY DEF SpanOK
<1>2. Len(mem) \in Nat
  BY <1>1, EndFacts
<1>3. ASSUME NEW j \in 0 .. m PROVE Stop(mem, a, m, x, y, j) \in Nat
  <2>1. a - 1 \in 0 .. Len(mem) /\ a + m - 2 \in 0 .. Len(mem)
         /\ (j # 0 => a + j - 1 \in 0 .. Len(mem))
    BY <1>1, <1>2
  <2>2. End(mem, a - 1) \in Nat /\ End(mem, a + m - 2) \in Nat
         /\ (j # 0 => End(mem, a + j - 1) \in Nat)
    BY <1>1, <2>1, EndFacts
  <2>. QED BY <1>1, <2>2 DEF Stop
<1>4. ASSUME NEW j \in 1 .. m
      PROVE  /\ Stop(mem, a, m, x, y, j - 1)
                  = End(mem, a + j - 2) + Span(mem, a, m, x, y)[j].from
             /\ Stop(mem, a, m, x, y, j)
                  = End(mem, a + j - 2) + Span(mem, a, m, x, y)[j].to
             /\ Stop(mem, a, m, x, y, j - 1) <= Stop(mem, a, m, x, y, j)
             /\ BufferSize(Span(mem, a, m, x, y)[j])
                  = Stop(mem, a, m, x, y, j) - Stop(mem, a, m, x, y, j - 1)
  <2> DEFINE u == Span(mem, a, m, x, y)[j]
  <2>1. /\ u.from = (IF j = 1 THEN x ELSE 0)
        /\ u.to = (IF j = m THEN y ELSE Len(mem[a + j - 1]))
        /\ u.from \in Nat /\ u.to \in Nat /\ u.from <= u.to
    BY SpanBuffer
  <2>. HIDE DEF u
  <2>2. a + j - 1 \in 1 .. Len(mem) /\ (a + j - 1) - 1 = a + j - 2 /\ a + j - 2 \in 0 .. Len(mem)
    BY <1>1, <1>2
  <2>3. End(mem, a + j - 1) = End(mem, (a + j - 1) - 1) + Len(mem[a + j - 1])
    BY <1>1, <2>2, EndFacts
  <2>4. End(mem, a + j - 2) \in Nat
    BY <1>1, <2>2, EndFacts
  <2>5. Stop(mem, a, m, x, y, j - 1) = End(mem, a + j - 2) + u.from
    <3>1. CASE j = 1
      <4>1. a - 1 = a + j - 2 /\ j - 1 = 0
        BY <1>1, <3>1
      <4>. QED BY <2>1, <3>1, <4>1 DEF Stop
    <3>2. CASE j # 1
      <4>1. j - 1 # 0 /\ j - 1 # m /\ a + (j - 1) - 1 = a + j - 2
        BY <1>1, <3>2
      <4>. QED BY <2>1, <2>4, <3>2, <4>1 DEF Stop
    <3>. QED BY <3>1, <3>2
  <2>6. Stop(mem, a, m, x, y, j) = End(mem, a + j - 2) + u.to
    <3>1. CASE j = m
      BY <2>1, <3>1 DEF Stop
    <3>2. CASE j # m
      BY <2>1, <2>2, <2>3, <3>2 DEF Stop
    <3>. QED BY <3>1, <3>2
  <2>7. BufferSize(u) = u.to - u.from
    BY DEF BufferSize
  <2>. QED BY <2>1, <2>4, <2>5, <2>6, <2>7 DEF u
<1>. QED BY <1>3, <1>4

\* The size of a span and of the buffers it begins with.
LEMMA SpanSize ==
  ASSUME NEW mem, NEW a, NEW m, NEW x, NEW y, SpanOK(mem, a, m, x, y), NEW n \in 0 .. m
  PROVE  SizeOf(SubSeq(Span(mem, a, m, x, y), 1, n))
           = Stop(mem, a, m, x, y, n) - Stop(mem, a, m, x, y, 0)
<1> DEFINE bs == Span(mem, a, m, x, y)
           cs == SubSeq(bs, 1, n)
           q == [j \in 0 .. m |-> Stop(mem, a, m, x, y, j)]
<1>0. m \in Nat
  BY DEF SpanOK
<1>1. DOMAIN cs = 1 .. n /\ \A k \in 1 .. n : cs[k] = bs[k]
  BY <1>0 DEF Span
<1>2. \A k \in 0 .. n : q[k] \in Int
  BY <1>0, SpanStops
<1>3. \A k \in 1 .. n : BufferSize(bs[k]) = q[k] - q[k - 1]
  <2>1. \A k \in 1 .. n : k \in 1 .. m /\ k \in 0 .. m /\ k - 1 \in 0 .. m
    BY <1>0
  <2>2. \A k \in 1 .. n : q[k] = Stop(mem, a, m, x, y, k)
                          /\ q[k - 1] = Stop(mem, a, m, x, y, k - 1)
    BY <2>1
  <2>. HIDE DEF q
  <2>. QED BY <2>1, <2>2, SpanStops
<1>4. \A k \in 1 .. n : BufferSize(cs[k]) = q[k] - q[k - 1]
  <2>. HIDE DEF cs, bs, q
  <2>. QED BY <1>1, <1>3
<1>5. SizeOf(cs) = q[n] - q[0]
  <2>. HIDE DEF cs, bs, q
  <2>. QED BY <1>0, <1>1, <1>2, <1>4, SizeByPlaces
<1>6. q[n] = Stop(mem, a, m, x, y, n) /\ q[0] = Stop(mem, a, m, x, y, 0)
  BY <1>0
<1>. HIDE DEF cs, q
<1>. QED BY <1>5, <1>6 DEF cs

LEMMA SpanWhole ==
  ASSUME NEW mem, NEW a, NEW m, NEW x, NEW y, SpanOK(mem, a, m, x, y)
  PROVE  SizeOf(Span(mem, a, m, x, y)) = Stop(mem, a, m, x, y, m) - Stop(mem, a, m, x, y, 0)
<1>0. m \in Nat /\ m \in 0 .. m
  BY DEF SpanOK
<1>1. SubSeq(Span(mem, a, m, x, y), 1, m) = Span(mem, a, m, x, y)
  BY <1>0 DEF Span
<1>. QED BY <1>0, <1>1, SpanSize

\* The bytes of a span are those with a place between its two ends.
LEMMA SpanHas ==
  ASSUME NEW mem, NEW a, NEW m, NEW x, NEW y, SpanOK(mem, a, m, x, y),
         NEW i \in 1 .. Len(mem), NEW k \in 1 .. Len(mem[i]),
         Stop(mem, a, m, x, y, 0) < End(mem, i - 1) + k,
         End(mem, i - 1) + k <= Stop(mem, a, m, x, y, m)
  PROVE  LET j == i - a + 1
             u == Span(mem, a, m, x, y)[j]
         IN  j \in 1 .. m /\ u.at = i /\ u.from < k /\ k <= u.to
<1>1. /\ mem \in Memory /\ a \in Nat \ {0} /\ m \in Nat \ {0} /\ a + m - 1 <= Len(mem)
      /\ x \in 0 .. Len(mem[a]) /\ y \in 0 .. Len(mem[a + m - 1])
  BY DEF SpanOK
<1>2. Len(mem) \in Nat /\ Len(mem[i]) \in Nat /\ End(mem, i - 1) \in Nat
      /\ End(mem, i) = End(mem, i - 1) + Len(mem[i])
  <2>1. Len(mem) \in Nat
    BY <1>1, EndFacts
  <2>2. i - 1 \in 0 .. Len(mem)
    BY <2>1
  <2>. QED BY <1>1, <2>1, <2>2, EndFacts
<1>3. /\ Stop(mem, a, m, x, y, 0) = End(mem, a - 1) + x
      /\ Stop(mem, a, m, x, y, m) = End(mem, a + m - 2) + y
  BY <1>1 DEF Stop
<1>4. /\ a - 1 \in 0 .. Len(mem) /\ a + m - 1 \in 1 .. Len(mem)
      /\ (a + m - 1) - 1 = a + m - 2 /\ a + m - 2 \in 0 .. Len(mem)
  <2>1. PICK w : w = Len(mem)
    OBVIOUS
  <2>2. w \in Nat /\ a \in Nat \ {0} /\ m \in Nat \ {0} /\ a + m - 1 <= w
    BY <1>1, <1>2, <2>1
  <2>. QED BY <2>1, <2>2
<1>5. /\ End(mem, a - 1) \in Nat /\ End(mem, a + m - 2) \in Nat
      /\ End(mem, a + m - 1) = End(mem, a + m - 2) + Len(mem[a + m - 1])
      /\ Len(mem[a + m - 1]) \in Nat
  <2>1. End(mem, a + m - 1) = End(mem, (a + m - 1) - 1) + Len(mem[a + m - 1])
    BY <1>1, <1>4, EndFacts
  <2>. QED BY <1>1, <1>4, <2>1, EndFacts
<1>a. x \in Nat /\ y \in Nat /\ y <= Len(mem[a + m - 1])
  BY <1>1, <1>5
<1>b. k \in Nat /\ k >= 1 /\ k <= Len(mem[i])
  BY <1>2
<1>c. /\ End(mem, a - 1) + x < End(mem, i - 1) + k
      /\ End(mem, i - 1) + k <= End(mem, a + m - 2) + y
  BY <1>3
<1>6. i >= a
  <2>. SUFFICES ASSUME i < a PROVE FALSE
    BY <1>1
  <2>1. i \in 0 .. Len(mem) /\ a - 1 \in i .. Len(mem)
    BY <1>1, <1>2, <1>4
  <2>2. End(mem, i) <= End(mem, a - 1)
    BY <1>1, <2>1, EndGrows
  <2>3. PICK u, v, w : u = End(mem, i - 1) /\ v = End(mem, a - 1) /\ w = Len(mem[i])
    OBVIOUS
  <2>4. u \in Nat /\ v \in Nat /\ w \in Nat /\ k <= w /\ v + x < u + k /\ u + w <= v
    BY <1>2, <1>5, <1>b, <1>c, <2>2, <2>3
  <2>. QED BY <1>a, <1>b, <2>4
<1>7. i <= a + m - 1
  <2>. SUFFICES ASSUME i > a + m - 1 PROVE FALSE
    BY <1>1
  <2>1. a + m - 1 \in 0 .. Len(mem) /\ i - 1 \in a + m - 1 .. Len(mem)
    BY <1>1, <1>2, <1>4
  <2>2. End(mem, a + m - 1) <= End(mem, i - 1)
    BY <1>1, <2>1, EndGrows
  <2>3. PICK u, v, w : u = End(mem, i - 1) /\ v = End(mem, a + m - 2) /\ w = Len(mem[a + m - 1])
    OBVIOUS
  <2>4. u \in Nat /\ v \in Nat /\ w \in Nat /\ y <= w /\ u + k <= v + y /\ v + w <= u
    BY <1>2, <1>5, <1>a, <1>c, <2>2, <2>3
  <2>. QED BY <1>a, <1>b, <2>4
<1>8. PICK j : j = i - a + 1
  OBVIOUS
<1>9. j \in 1 .. m /\ a + j - 1 = i /\ a + j - 2 = i - 1 /\ (j = 1 => i = a)
      /\ (j = m => i = a + m - 1 /\ i - 1 = a + m - 2)
  BY <1>1, <1>6, <1>7, <1>8
<1> DEFINE u == Span(mem, a, m, x, y)[j]
<1>10. /\ u.at = a + j - 1 /\ u.from = (IF j = 1 THEN x ELSE 0)
       /\ u.to = (IF j = m THEN y ELSE Len(mem[a + j - 1]))
  <2>1. j \in 1 .. m
    BY <1>9
  <2>. QED BY <2>1, SpanBuffer
<1>. HIDE DEF u
<1>11. u.at = i
  BY <1>9, <1>10
<1>12. u.from < k
  <2>1. CASE j = 1
    BY <1>2, <1>5, <1>9, <1>10, <1>a, <1>b, <1>c, <2>1
  <2>2. CASE j # 1
    BY <1>10, <1>b, <2>2
  <2>. QED BY <2>1, <2>2
<1>13. k <= u.to
  <2>1. CASE j = m
    BY <1>2, <1>5, <1>9, <1>10, <1>a, <1>b, <1>c, <2>1
  <2>2. CASE j # m
    BY <1>9, <1>10, <1>b, <2>2
  <2>. QED BY <2>1, <2>2
<1>. QED BY <1>8, <1>9, <1>11, <1>12, <1>13 DEF u

\* And only those.
LEMMA SpanOnly ==
  ASSUME NEW mem, NEW a, NEW m, NEW x, NEW y, SpanOK(mem, a, m, x, y),
         NEW j \in 1 .. m, NEW k \in Int,
         k > Span(mem, a, m, x, y)[j].from, k <= Span(mem, a, m, x, y)[j].to
  PROVE  LET p == End(mem, Span(mem, a, m, x, y)[j].at - 1) + k
         IN  /\ Stop(mem, a, m, x, y, 0) < p /\ p <= Stop(mem, a, m, x, y, m)
             /\ p = Stop(mem, a, m, x, y, j - 1) + k - Span(mem, a, m, x, y)[j].from
<1> DEFINE u == Span(mem, a, m, x, y)[j]
           q == [i \in 0 .. m |-> Stop(mem, a, m, x, y, i)]
<1>0. m \in Nat /\ mem \in Memory /\ a \in Nat
  BY DEF SpanOK
<1>1. u.at = a + j - 1 /\ u.from \in Nat /\ u.to \in Nat /\ u.at - 1 = a + j - 2
      /\ u.at \in 1 .. Len(mem)
  <2>1. u.at = a + j - 1 /\ u.from \in Nat /\ u.to \in Nat /\ u.at \in 1 .. Len(mem)
    BY SpanBuffer
  <2>. HIDE DEF u
  <2>. QED BY <1>0, <2>1
<1>2. /\ Stop(mem, a, m, x, y, j - 1) = End(mem, a + j - 2) + u.from
      /\ Stop(mem, a, m, x, y, j) = End(mem, a + j - 2) + u.to
  BY SpanStops
<1>3. q \in [0 .. m -> Int] /\ \A i \in 1 .. m : q[i - 1] <= q[i]
  <2>1. \A i \in 1 .. m : i \in 0 .. m /\ i - 1 \in 0 .. m
    BY <1>0
  <2>2. \A i \in 1 .. m : q[i] = Stop(mem, a, m, x, y, i)
                          /\ q[i - 1] = Stop(mem, a, m, x, y, i - 1)
    BY <2>1
  <2>3. q \in [0 .. m -> Int]
    BY SpanStops
  <2>. HIDE DEF q
  <2>. QED BY <2>1, <2>2, <2>3, SpanStops
<1>4. 0 \in 0 .. m /\ j - 1 \in 0 .. m /\ j \in 0 .. m /\ m \in 0 .. m /\ 0 <= j - 1 /\ j <= m
  BY <1>0
<1>5. q[0] <= q[j - 1] /\ q[j] <= q[m]
  <2>. HIDE DEF q
  <2>. QED BY <1>0, <1>3, <1>4, Monotone
<1>6. /\ Stop(mem, a, m, x, y, 0) <= Stop(mem, a, m, x, y, j - 1)
      /\ Stop(mem, a, m, x, y, j) <= Stop(mem, a, m, x, y, m)
  BY <1>4, <1>5
<1>7. /\ Stop(mem, a, m, x, y, 0) \in Nat /\ Stop(mem, a, m, x, y, m) \in Nat
      /\ Stop(mem, a, m, x, y, j - 1) \in Nat /\ Stop(mem, a, m, x, y, j) \in Nat
  BY <1>4, SpanStops
<1>8. End(mem, a + j - 2) \in Nat
  <2>1. a + j - 2 \in 0 .. Len(mem)
    <3>1. Len(mem) \in Nat
      BY <1>0, EndFacts
    <3>. HIDE DEF u
    <3>. QED BY <1>0, <1>1, <3>1
  <2>. QED BY <1>0, <2>1, EndFacts
<1>. HIDE DEF q
<1>9. k > u.from /\ k <= u.to
  OBVIOUS
<1>. HIDE DEF u
<1>10. LET p == End(mem, u.at - 1) + k
       IN  /\ Stop(mem, a, m, x, y, 0) < p /\ p <= Stop(mem, a, m, x, y, m)
           /\ p = Stop(mem, a, m, x, y, j - 1) + k - u.from
  <2>1. End(mem, u.at - 1) = End(mem, a + j - 2)
    BY <1>1
  <2>2. u.from \in Nat /\ u.to \in Nat
    BY <1>1
  <2>3. End(mem, a + j - 2) + k = (End(mem, a + j - 2) + u.from) + k - u.from
    BY <1>8, <2>2
  <2>4. End(mem, a + j - 2) + u.from < End(mem, a + j - 2) + k
        /\ End(mem, a + j - 2) + k <= End(mem, a + j - 2) + u.to
    BY <1>8, <1>9, <2>2
  <2>5. Stop(mem, a, m, x, y, 0) < End(mem, a + j - 2) + k
    BY <1>2, <1>6, <1>7, <1>8, <2>4
  <2>6. End(mem, a + j - 2) + k <= Stop(mem, a, m, x, y, m)
    BY <1>2, <1>6, <1>7, <1>8, <2>4
  <2>. QED BY <1>2, <2>1, <2>3, <2>5, <2>6
<1>. QED BY <1>10 DEF u

-----------------------------------------------------------------------------
\* The n bytes from place s on are t + 1, t + 2, ...
Known(mem, s, n, t) ==
  \A i \in 1 .. Len(mem) : \A k \in 1 .. Len(mem[i]) :
    s < End(mem, i - 1) + k /\ End(mem, i - 1) + k <= s + n
      => mem[i][k] = t + ((End(mem, i - 1) + k) - s)

LEMMA SubSeqIs ==
  ASSUME NEW T, NEW r \in Seq(T), NEW lo \in Nat, NEW hi \in Nat, lo <= hi, hi <= Len(r)
  PROVE  SubSeq(r, lo + 1, hi) = [i \in 1 .. hi - lo |-> r[lo + i]]
<1>1. SubSeq(r, lo + 1, hi) = [i \in 1 .. Len(SubSeq(r, lo + 1, hi)) |-> SubSeq(r, lo + 1, hi)[i]]
  OBVIOUS
<1>2. Len(SubSeq(r, lo + 1, hi)) = hi - lo
  OBVIOUS
<1>3. \A i \in 1 .. hi - lo : SubSeq(r, lo + 1, hi)[i] = r[lo + i]
  <2>. SUFFICES ASSUME NEW i \in 1 .. hi - lo PROVE SubSeq(r, lo + 1, hi)[i] = r[lo + i]
    OBVIOUS
  <2>1. i + (lo + 1) - 1 = lo + i
    OBVIOUS
  <2>2. SubSeq(r, lo + 1, hi)[i] = r[(lo + 1) + i - 1]
    OBVIOUS
  <2>3. (lo + 1) + i - 1 = lo + i
    OBVIOUS
  <2>. QED BY <2>2, <2>3
<1>. QED BY <1>1, <1>2, <1>3

LEMMA SpanBytes ==
  ASSUME NEW mem, NEW a, NEW m, NEW x, NEW y, SpanOK(mem, a, m, x, y), NEW n \in Nat,
         Stop(mem, a, m, x, y, m) = Stop(mem, a, m, x, y, 0) + n, NEW t \in Int,
         Known(mem, Stop(mem, a, m, x, y, 0), n, t)
  PROVE  Bytes(mem, Span(mem, a, m, x, y)) = Run(t, n)
<1> DEFINE bs == Span(mem, a, m, x, y)
           z == Stop(mem, a, m, x, y, 0)
           q == [j \in 0 .. m |-> Stop(mem, a, m, x, y, j) - z]
           seqs == [j \in 1 .. m |-> SubSeq(mem[bs[j].at], bs[j].from + 1, bs[j].to)]
<1>0. m \in Nat \ {0} /\ mem \in Memory /\ a \in Nat
  BY DEF SpanOK
<1>1. Bytes(mem, bs) = FlattenSeq(seqs)
  <2>1. DOMAIN bs = 1 .. m
    BY DEF Span
  <2>. HIDE DEF bs
  <2>. QED BY <2>1, Zenon DEF Bytes
<1>2. z \in Nat /\ \A j \in 0 .. m : Stop(mem, a, m, x, y, j) \in Nat
  BY <1>0, SpanStops
<1>3. \A j \in 1 .. m : Stop(mem, a, m, x, y, j - 1) <= Stop(mem, a, m, x, y, j)
  BY SpanStops
<1>4. ASSUME NEW j \in 1 .. m
      PROVE  /\ j \in 0 .. m /\ j - 1 \in 0 .. m /\ q[j] = Stop(mem, a, m, x, y, j) - z
             /\ q[j - 1] = Stop(mem, a, m, x, y, j - 1) - z /\ q[j - 1] <= q[j]
  <2>1. j \in 0 .. m /\ j - 1 \in 0 .. m
    BY <1>0
  <2>2. q[j] = Stop(mem, a, m, x, y, j) - z /\ q[j - 1] = Stop(mem, a, m, x, y, j - 1) - z
    BY <2>1
  <2>3. Stop(mem, a, m, x, y, j) \in Nat /\ Stop(mem, a, m, x, y, j - 1) \in Nat
         /\ Stop(mem, a, m, x, y, j - 1) <= Stop(mem, a, m, x, y, j)
    BY <1>2, <1>3, <2>1
  <2>. HIDE DEF q, z
  <2>. QED BY <1>2, <2>1, <2>2, <2>3
<1>5. q[0] = 0 /\ q[m] = n
  <2>1. q[0] = Stop(mem, a, m, x, y, 0) - z /\ q[m] = Stop(mem, a, m, x, y, m) - z
    BY <1>0
  <2>. HIDE DEF q
  <2>. QED BY <1>2, <2>1
<1>6. q \in [0 .. m -> Nat]
  <2>1. q \in [0 .. m -> Int]
    <3>. HIDE DEF z
    <3>. QED BY <1>2
  <2>2. \A i, j \in 0 .. m : i <= j => q[i] <= q[j]
    <3>. HIDE DEF q, z
    <3>. QED BY <1>0, <1>4, <2>1, Monotone
  <2>3. \A j \in 0 .. m : q[j] >= 0
    <3>. HIDE DEF q
    <3>. QED BY <1>0, <1>5, <2>1, <2>2
  <2>. HIDE DEF z
  <2>4. \A j \in 0 .. m : q[j] \in Nat
    <3>. HIDE DEF q
    <3>. QED BY <2>1, <2>3
  <2>5. q = [j \in 0 .. m |-> q[j]]
    OBVIOUS
  <2>. HIDE DEF q
  <2>. QED BY <2>4, <2>5
<1>7. ASSUME NEW j \in 1 .. m
      PROVE  seqs[j] = Run(t + q[j - 1], q[j] - q[j - 1]) /\ seqs[j] \in Seq(Int)
  <2>1. /\ bs[j].at = a + j - 1 /\ bs[j].at \in 1 .. Len(mem)
        /\ bs[j].from \in Nat /\ bs[j].to \in Nat /\ bs[j].from <= bs[j].to
        /\ bs[j].to <= Len(mem[bs[j].at])
    BY SpanBuffer
  <2>2. \A k \in Int : k > bs[j].from /\ k <= bs[j].to =>
          /\ z < End(mem, bs[j].at - 1) + k
          /\ End(mem, bs[j].at - 1) + k <= Stop(mem, a, m, x, y, m)
          /\ End(mem, bs[j].at - 1) + k = Stop(mem, a, m, x, y, j - 1) + k - bs[j].from
    BY SpanOnly
  <2>3. /\ Stop(mem, a, m, x, y, j - 1) = End(mem, a + j - 2) + bs[j].from
        /\ Stop(mem, a, m, x, y, j) = End(mem, a + j - 2) + bs[j].to
    BY SpanStops
  <2>4. End(mem, a + j - 2) \in Nat
    <3>1. Len(mem) \in Nat
      BY <1>0, EndFacts
    <3>. HIDE DEF bs
    <3>2. a + j - 2 \in 0 .. Len(mem)
      BY <1>0, <2>1, <3>1
    <3>. QED BY <1>0, <3>2, EndFacts
  <2>5. seqs[j] = SubSeq(mem[bs[j].at], bs[j].from + 1, bs[j].to)
    OBVIOUS
  <2>6. mem[bs[j].at] \in Seq(Nat)
    <3>. HIDE DEF bs
    <3>. QED BY <1>0, <2>1 DEF Memory
  <2>7. /\ q[j] = Stop(mem, a, m, x, y, j) - z /\ q[j - 1] = Stop(mem, a, m, x, y, j - 1) - z
        /\ q[j - 1] \in Nat /\ q[j] \in Nat
    BY <1>4, <1>6
  <2>8. Known(mem, z, n, t) /\ Stop(mem, a, m, x, y, m) = z + n
    OBVIOUS
  <2>9. PICK at, lo, hi : at = bs[j].at /\ lo = bs[j].from /\ hi = bs[j].to
    OBVIOUS
  <2>10. Stop(mem, a, m, x, y, j - 1) \in Nat
    BY <1>2, <1>4
  <2>. HIDE DEF bs, z, q, seqs
  <2>11. \A k \in Int : k > lo /\ k <= hi => mem[at][k] = t + q[j - 1] + (k - lo)
    <3>. SUFFICES ASSUME NEW k \in Int, k > lo, k <= hi
                  PROVE  mem[at][k] = t + q[j - 1] + (k - lo)
      OBVIOUS
    <3>1. at \in 1 .. Len(mem) /\ k \in 1 .. Len(mem[at])
      BY <2>1, <2>6, <2>9
    <3>2. /\ z < End(mem, at - 1) + k /\ End(mem, at - 1) + k <= z + n
          /\ End(mem, at - 1) + k = Stop(mem, a, m, x, y, j - 1) + k - lo
      BY <2>2, <2>8, <2>9
    <3>3. mem[at][k] = t + ((End(mem, at - 1) + k) - z)
      BY <2>8, <3>1, <3>2 DEF Known
    <3>4. lo \in Nat
      BY <2>1, <2>9
    <3>5. PICK w : w = Stop(mem, a, m, x, y, j - 1)
      OBVIOUS
    <3>6. mem[at][k] = t + ((w + k - lo) - z) /\ q[j - 1] = w - z /\ w \in Nat /\ z \in Nat
      BY <1>2, <2>7, <2>10, <3>2, <3>3, <3>5
    <3>7. t + ((w + k - lo) - z) = t + (w - z) + (k - lo)
      BY <3>4, <3>6
    <3>. QED BY <3>6, <3>7
  <2>12. lo \in Nat /\ hi \in Nat /\ lo <= hi /\ hi <= Len(mem[at]) /\ mem[at] \in Seq(Nat)
         /\ seqs[j] = SubSeq(mem[at], lo + 1, hi)
    BY <2>1, <2>5, <2>6, <2>9
  <2>13. q[j] - q[j - 1] = hi - lo
    <3>1. PICK w : w = End(mem, a + j - 2)
      OBVIOUS
    <3>2. q[j] = (w + hi) - z /\ q[j - 1] = (w + lo) - z /\ w \in Nat /\ z \in Nat
      BY <1>2, <2>3, <2>4, <2>7, <2>9, <3>1
    <3>. QED BY <2>12, <3>2
  <2>14. SubSeq(mem[at], lo + 1, hi) = [i \in 1 .. hi - lo |-> mem[at][lo + i]]
    BY <2>12, SubSeqIs
  <2>15. \A i \in 1 .. hi - lo : mem[at][lo + i] = (t + q[j - 1]) + i
    <3>. SUFFICES ASSUME NEW i \in 1 .. hi - lo PROVE mem[at][lo + i] = (t + q[j - 1]) + i
      OBVIOUS
    <3>1. lo + i \in Int /\ lo + i > lo /\ lo + i <= hi /\ (lo + i) - lo = i
      BY <2>12
    <3>2. mem[at][lo + i] = t + q[j - 1] + ((lo + i) - lo)
      BY <2>11, <3>1
    <3>. QED BY <3>1, <3>2
  <2>16. [i \in 1 .. hi - lo |-> mem[at][lo + i]] = Run(t + q[j - 1], hi - lo)
    BY <2>15 DEF Run
  <2>17. SubSeq(mem[at], lo + 1, hi) \in Seq(Int)
    BY <2>12
  <2>. QED BY <2>12, <2>13, <2>14, <2>16, <2>17
<1>8. Len(seqs) = m /\ seqs \in Seq(Seq(Int))
  <2>1. seqs = [j \in 1 .. m |-> seqs[j]]
    OBVIOUS
  <2>. HIDE DEF seqs
  <2>2. \A j \in 1 .. m : seqs[j] \in Seq(Int)
    BY <1>7
  <2>. QED BY <1>0, <2>1, <2>2
<1>9. FlattenSeq(seqs) = Run(t, q[m])
  <2>. HIDE DEF seqs, q, bs, z
  <2>1. \A j \in 1 .. m : q[j - 1] <= q[j]
    BY <1>4
  <2>2. \A j \in 1 .. m : seqs[j] = Run(t + q[j - 1], q[j] - q[j - 1])
    BY <1>7
  <2>3. m \in Nat /\ q[0] = 0
    BY <1>0, <1>5
  <2>. QED BY <1>6, <1>8, <2>1, <2>2, <2>3, FlattenRun, Zenon
<1>. HIDE DEF seqs, q
<1>. QED BY <1>1, <1>5, <1>9

-----------------------------------------------------------------------------
(* Memory that is written to.                                              *)

SameShape(c, mem) ==
  c \in Memory /\ Len(c) = Len(mem) /\ \A i \in 1 .. Len(mem) : Len(c[i]) = Len(mem[i])

\* c has the bytes of g in the shape of mem.
MadeOf(c, g, mem) ==
  /\ c = [i \in DOMAIN mem |-> [k \in DOMAIN mem[i] |-> g[i][k]]]
  /\ \A i \in 1 .. Len(mem) : \A k \in 1 .. Len(mem[i]) : g[i][k] \in Nat

LEMMA MadeBytes ==
  ASSUME NEW mem \in Memory, NEW g, NEW c, MadeOf(c, g, mem)
  PROVE  /\ SameShape(c, mem)
         /\ \A i \in 1 .. Len(mem) : \A k \in 1 .. Len(mem[i]) : c[i][k] = g[i][k]
<1>0. /\ c = [i \in DOMAIN mem |-> [k \in DOMAIN mem[i] |-> g[i][k]]]
      /\ \A i \in 1 .. Len(mem) : \A k \in 1 .. Len(mem[i]) : g[i][k] \in Nat
  BY DEF MadeOf
<1>1. DOMAIN mem = 1 .. Len(mem) /\ Len(mem) \in Nat
  BY DEF Memory
<1>2. \A i \in 1 .. Len(mem) : DOMAIN mem[i] = 1 .. Len(mem[i]) /\ Len(mem[i]) \in Nat
  BY DEF Memory
<1>3. \A i \in 1 .. Len(mem) : c[i] = [k \in 1 .. Len(mem[i]) |-> g[i][k]]
  BY <1>0, <1>1, <1>2
<1>4. c = [i \in 1 .. Len(mem) |-> c[i]]
  BY <1>0, <1>1
<1>5. \A i \in 1 .. Len(mem) : \A k \in 1 .. Len(mem[i]) : c[i][k] = g[i][k]
  BY <1>3
<1>6. \A i \in 1 .. Len(mem) : c[i] \in Seq(Nat) /\ Len(c[i]) = Len(mem[i])
  <2>. SUFFICES ASSUME NEW i \in 1 .. Len(mem)
                PROVE  c[i] \in Seq(Nat) /\ Len(c[i]) = Len(mem[i])
    OBVIOUS
  <2>1. PICK l, d : l = Len(mem[i]) /\ d = g[i]
    OBVIOUS
  <2>2. c[i] = [k \in 1 .. l |-> d[k]] /\ l \in Nat /\ \A k \in 1 .. l : d[k] \in Nat
    BY <1>0, <1>2, <1>3, <2>1
  <2>3. [k \in 1 .. l |-> d[k]] \in Seq(Nat) /\ Len([k \in 1 .. l |-> d[k]]) = l
    BY <2>2
  <2>. QED BY <2>1, <2>2, <2>3
<1>7. c \in Memory /\ Len(c) = Len(mem)
  BY <1>1, <1>4, <1>6 DEF Memory
<1>. QED BY <1>5, <1>6, <1>7 DEF SameShape

LEMMA SpanWritten ==
  ASSUME NEW mem, NEW a, NEW m, NEW x, NEW y, SpanOK(mem, a, m, x, y), NEW w,
         \A r \in Int : 0 < r /\ r <= Stop(mem, a, m, x, y, m) - Stop(mem, a, m, x, y, 0)
           => w[r] \in Nat
  PROVE  LET c == Written(mem, Span(mem, a, m, x, y), w)
         IN  /\ SameShape(c, mem)
             /\ \A i \in 1 .. Len(mem) : \A k \in 1 .. Len(mem[i]) :
                  LET p == End(mem, i - 1) + k
                  IN  c[i][k] = IF Stop(mem, a, m, x, y, 0) < p /\ p <= Stop(mem, a, m, x, y, m)
                                THEN w[p - Stop(mem, a, m, x, y, 0)] ELSE mem[i][k]
<1> DEFINE bs == Span(mem, a, m, x, y)
           z == Stop(mem, a, m, x, y, 0)
           t == Stop(mem, a, m, x, y, m)
           hit(i, k) == {j \in DOMAIN bs : bs[j].at = i /\ k \in bs[j].from + 1 .. bs[j].to}
           g(i, k) == IF hit(i, k) = {} THEN mem[i][k]
                      ELSE LET j == CHOOSE j \in hit(i, k) : TRUE
                           IN  w[SizeOf(SubSeq(bs, 1, j - 1)) + k - bs[j].from]
<1>0. mem \in Memory /\ m \in Nat \ {0} /\ a \in Nat
  BY DEF SpanOK
<1>1. Written(mem, bs, w) = [i \in DOMAIN mem |-> [k \in DOMAIN mem[i] |-> g(i, k)]]
  BY Zenon DEF Written
<1>2. DOMAIN bs = 1 .. m
  BY DEF Span
<1>3. z \in Nat /\ t \in Nat
  BY <1>0, SpanStops
<1>4. ASSUME NEW i \in 1 .. Len(mem), NEW k \in 1 .. Len(mem[i])
      PROVE  /\ g(i, k) = IF z < End(mem, i - 1) + k /\ End(mem, i - 1) + k <= t
                          THEN w[(End(mem, i - 1) + k) - z] ELSE mem[i][k]
             /\ g(i, k) \in Nat
  <2>0. Len(mem[i]) \in Nat /\ k \in Int /\ mem[i][k] \in Nat /\ End(mem, i - 1) \in Nat
    <3>1. Len(mem) \in Nat /\ Len(mem[i]) \in Nat
      BY <1>0, EndFacts
    <3>2. i - 1 \in 0 .. Len(mem)
      BY <3>1
    <3>3. End(mem, i - 1) \in Nat
      BY <1>0, <3>2, EndFacts
    <3>4. mem[i] \in Seq(Nat)
      BY <1>0 DEF Memory
    <3>. QED BY <3>1, <3>3, <3>4
  <2>1. CASE z < End(mem, i - 1) + k /\ End(mem, i - 1) + k <= t
    <3>1. PICK j : j = i - a + 1
      OBVIOUS
    <3>2. j \in 1 .. m /\ bs[j].at = i /\ bs[j].from < k /\ k <= bs[j].to
      BY <2>1, <3>1, SpanHas
    <3>3. bs[j].from \in Nat /\ bs[j].to \in Nat
      BY <3>2, SpanBuffer
    <3>4. hit(i, k) # {}
      <4>. HIDE DEF bs
      <4>1. k \in bs[j].from + 1 .. bs[j].to
        BY <2>0, <3>2, <3>3
      <4>. QED BY <1>2, <3>2, <4>1
    <3>5. PICK l : l = CHOOSE o \in hit(i, k) : TRUE
      OBVIOUS
    <3>6. l \in hit(i, k)
      <4>. HIDE DEF hit
      <4>. QED BY <3>4, <3>5
    <3>7. g(i, k) = w[SizeOf(SubSeq(bs, 1, l - 1)) + k - bs[l].from]
      <4>. HIDE DEF hit, bs
      <4>. QED BY <3>4, <3>5, Zenon
    <3>8. l \in 1 .. m /\ bs[l].at = i /\ k \in bs[l].from + 1 .. bs[l].to
      <4>. HIDE DEF bs
      <4>. QED BY <1>2, <3>6
    <3>9. bs[l].from \in Nat /\ bs[l].to \in Nat
      BY <3>8, SpanBuffer
    <3>10. k > bs[l].from /\ k <= bs[l].to
      <4>. HIDE DEF bs
      <4>. QED BY <2>0, <3>8, <3>9
    <3>11. End(mem, i - 1) + k = Stop(mem, a, m, x, y, l - 1) + k - bs[l].from
      <4>1. End(mem, bs[l].at - 1) + k = Stop(mem, a, m, x, y, l - 1) + k - bs[l].from
        BY <2>0, <3>8, <3>10, SpanOnly
      <4>. HIDE DEF bs
      <4>. QED BY <3>8, <4>1
    <3>12. l - 1 \in 0 .. m
      BY <1>0, <3>8
    <3>13. SizeOf(SubSeq(bs, 1, l - 1)) = Stop(mem, a, m, x, y, l - 1) - z
      BY <3>12, SpanSize
    <3>14. Stop(mem, a, m, x, y, l - 1) \in Nat
      BY <3>12, SpanStops
    <3>. HIDE DEF bs, z, t, hit, g
    <3>15. PICK sl, f : sl = Stop(mem, a, m, x, y, l - 1) /\ f = bs[l].from
      OBVIOUS
    <3>16. (sl - z) + k - f = (sl + k - f) - z
      BY <1>3, <2>0, <3>9, <3>14, <3>15
    <3>17. SizeOf(SubSeq(bs, 1, l - 1)) + k - bs[l].from = (End(mem, i - 1) + k) - z
      BY <3>11, <3>13, <3>15, <3>16
    <3>18. w[(End(mem, i - 1) + k) - z] \in Nat
      <4>1. PICK p : p = End(mem, i - 1) + k
        OBVIOUS
      <4>2. p \in Int /\ z < p /\ p <= t
        BY <2>0, <2>1, <4>1
      <4>3. p - z \in Int /\ 0 < p - z /\ p - z <= t - z
        BY <1>3, <4>2
      <4>. QED BY <4>1, <4>3 DEF t, z
    <3>. QED BY <2>1, <3>7, <3>17, <3>18
  <2>2. CASE ~(z < End(mem, i - 1) + k /\ End(mem, i - 1) + k <= t)
    <3>1. ASSUME NEW j \in hit(i, k) PROVE FALSE
      <4>1. j \in 1 .. m /\ bs[j].at = i /\ k \in bs[j].from + 1 .. bs[j].to
        <5>. HIDE DEF bs
        <5>. QED BY <1>2, <3>1
      <4>2. bs[j].from \in Nat /\ bs[j].to \in Nat
        BY <4>1, SpanBuffer
      <4>3. k > bs[j].from /\ k <= bs[j].to
        <5>. HIDE DEF bs
        <5>. QED BY <2>0, <4>1, <4>2
      <4>4. z < End(mem, bs[j].at - 1) + k /\ End(mem, bs[j].at - 1) + k <= t
        BY <2>0, <4>1, <4>3, SpanOnly
      <4>. HIDE DEF bs, z, t
      <4>. QED BY <2>2, <4>1, <4>4
    <3>2. hit(i, k) = {}
      <4>. HIDE DEF hit
      <4>. QED BY <3>1
    <3>3. g(i, k) = mem[i][k]
      <4>. HIDE DEF hit, bs
      <4>. QED BY <3>2
    <3>. HIDE DEF g, z, t
    <3>. QED BY <2>0, <2>2, <3>3
  <2>. HIDE DEF g, z, t
  <2>. QED BY <2>1, <2>2
<1> DEFINE c == Written(mem, bs, w)
           G == [i \in 1 .. Len(mem) |-> [k \in 1 .. Len(mem[i]) |-> g(i, k)]]
<1>. HIDE DEF g
<1>5. \A i \in 1 .. Len(mem) : \A k \in 1 .. Len(mem[i]) : G[i][k] = g(i, k)
  OBVIOUS
<1>6. /\ DOMAIN mem = 1 .. Len(mem)
      /\ \A i \in 1 .. Len(mem) : DOMAIN mem[i] = 1 .. Len(mem[i])
  BY <1>0 DEF Memory
<1>. HIDE DEF G
<1>7. c = [i \in DOMAIN mem |-> [k \in DOMAIN mem[i] |-> G[i][k]]]
  <2>1. \A i \in DOMAIN mem : \A k \in DOMAIN mem[i] : G[i][k] = g(i, k)
    BY <1>5, <1>6
  <2>. QED BY <1>1, <2>1, Zenon
<1>. HIDE DEF c
<1>8. \A i \in 1 .. Len(mem) : \A k \in 1 .. Len(mem[i]) : G[i][k] \in Nat
  BY <1>4, <1>5
<1>9. /\ SameShape(c, mem)
      /\ \A i \in 1 .. Len(mem) : \A k \in 1 .. Len(mem[i]) : c[i][k] = G[i][k]
  <2>1. MadeOf(c, G, mem)
    BY <1>7, <1>8, Zenon DEF MadeOf
  <2>. QED BY <1>0, <2>1, MadeBytes
<1>10. \A i \in 1 .. Len(mem) : \A k \in 1 .. Len(mem[i]) :
         LET p == End(mem, i - 1) + k
         IN  c[i][k] = IF z < p /\ p <= t THEN w[p - z] ELSE mem[i][k]
  <2>. HIDE DEF z, t
  <2>. QED BY <1>4, <1>5, <1>9
<1>. QED BY <1>9, <1>10 DEF c, bs

-----------------------------------------------------------------------------
\* The buffers of bs show the bytes with a place in (s, f], in order.
Shows(mem, bs, s, f) ==
  \/ mem \in Memory /\ s \in Nat /\ s = f /\ bs = << >>
  \/ \E a, m, x, y : /\ SpanOK(mem, a, m, x, y) /\ bs = Span(mem, a, m, x, y)
                     /\ s = Stop(mem, a, m, x, y, 0) /\ f = Stop(mem, a, m, x, y, m)

LEMMA ShowsSize ==
  ASSUME NEW mem, NEW bs, NEW s, NEW f, Shows(mem, bs, s, f)
  PROVE  mem \in Memory /\ s \in Nat /\ f \in Nat /\ s <= f /\ SizeOf(bs) = f - s
<1>1. CASE mem \in Memory /\ s \in Nat /\ s = f /\ bs = << >>
  <2>1. PICK q : q = [k \in 0 .. 0 |-> 0]
    OBVIOUS
  <2>2. DOMAIN bs = 1 .. 0 /\ 0 \in Nat /\ q[0] = 0 /\ \A k \in 0 .. 0 : q[k] \in Int
    BY <1>1, <2>1
  <2>3. \A k \in 1 .. 0 : BufferSize(bs[k]) = q[k] - q[k - 1]
    OBVIOUS
  <2>4. SizeOf(bs) = q[0] - q[0]
    BY <2>2, <2>3, SizeByPlaces
  <2>. QED BY <1>1, <2>2, <2>4
<1>2. CASE \E a, m, x, y : /\ SpanOK(mem, a, m, x, y) /\ bs = Span(mem, a, m, x, y)
                           /\ s = Stop(mem, a, m, x, y, 0) /\ f = Stop(mem, a, m, x, y, m)
  <2>1. PICK a, m, x, y : /\ SpanOK(mem, a, m, x, y) /\ bs = Span(mem, a, m, x, y)
                          /\ s = Stop(mem, a, m, x, y, 0) /\ f = Stop(mem, a, m, x, y, m)
    BY <1>2
  <2>2. SizeOf(bs) = f - s
    BY <2>1, SpanWhole
  <2>3. m \in Nat \ {0} /\ mem \in Memory
    BY <2>1 DEF SpanOK
  <2>4. s \in Nat /\ f \in Nat
    BY <2>1, <2>3, SpanStops
  <2>5. s <= f
    <3> DEFINE q == [j \in 0 .. m |-> Stop(mem, a, m, x, y, j)]
    <3>1. q \in [0 .. m -> Int]
      BY <2>1, SpanStops
    <3>2. ASSUME NEW j \in 1 .. m PROVE q[j - 1] <= q[j]
      <4>1. j \in 0 .. m /\ j - 1 \in 0 .. m
        BY <2>3
      <4>. QED BY <2>1, <4>1, SpanStops
    <3>3. 0 \in 0 .. m /\ m \in 0 .. m /\ 0 <= m
      BY <2>3
    <3>4. q[0] <= q[m]
      <4>. HIDE DEF q
      <4>. QED BY <2>3, <3>1, <3>2, <3>3, Monotone
    <3>. QED BY <2>1, <3>3, <3>4
  <2>. QED BY <2>2, <2>3, <2>4, <2>5
<1>. QED BY <1>1, <1>2 DEF Shows

LEMMA ShowsBytes ==
  ASSUME NEW mem, NEW bs, NEW s, NEW f, Shows(mem, bs, s, f), NEW t \in Int,
         Known(mem, s, f - s, t)
  PROVE  Bytes(mem, bs) = Run(t, f - s)
<1>0. s \in Nat /\ f \in Nat /\ s <= f
  BY ShowsSize
<1>1. CASE mem \in Memory /\ s \in Nat /\ s = f /\ bs = << >>
  <2>1. PICK sq : sq = [i \in DOMAIN bs |-> SubSeq(mem[bs[i].at], bs[i].from + 1, bs[i].to)]
    OBVIOUS
  <2>2. sq = << >>
    BY <1>1, <2>1
  <2>3. Bytes(mem, bs) = FlattenSeq(sq)
    BY <2>1, Zenon DEF Bytes
  <2>4. PICK q : q = [k \in 0 .. 0 |-> 0]
    OBVIOUS
  <2>5. q \in [0 .. 0 -> Nat] /\ q[0] = 0 /\ Len(sq) = 0 /\ sq \in Seq(Seq(Int)) /\ 0 \in Nat
    BY <2>2, <2>4
  <2>6. \A j \in 1 .. 0 : q[j - 1] <= q[j] /\ sq[j] = Run(t + q[j - 1], q[j] - q[j - 1])
    OBVIOUS
  <2>7. FlattenSeq(sq) = Run(t, q[0])
    BY <2>5, <2>6, FlattenRun
  <2>. QED BY <1>0, <1>1, <2>3, <2>5, <2>7
<1>2. CASE \E a, m, x, y : /\ SpanOK(mem, a, m, x, y) /\ bs = Span(mem, a, m, x, y)
                           /\ s = Stop(mem, a, m, x, y, 0) /\ f = Stop(mem, a, m, x, y, m)
  <2>1. PICK a, m, x, y : /\ SpanOK(mem, a, m, x, y) /\ bs = Span(mem, a, m, x, y)
                          /\ s = Stop(mem, a, m, x, y, 0) /\ f = Stop(mem, a, m, x, y, m)
    BY <1>2
  <2>2. PICK n : n = f - s
    OBVIOUS
  <2>3. n \in Nat /\ f = s + n
    BY <1>0, <2>2
  <2>4. Known(mem, Stop(mem, a, m, x, y, 0), n, t)
    BY <2>1, <2>2
  <2>5. Stop(mem, a, m, x, y, m) = Stop(mem, a, m, x, y, 0) + n
    BY <2>1, <2>3
  <2>6. Bytes(mem, Span(mem, a, m, x, y)) = Run(t, n)
    BY <2>1, <2>3, <2>4, <2>5, SpanBytes
  <2>. QED BY <2>1, <2>2, <2>6
<1>. QED BY <1>1, <1>2 DEF Shows

LEMMA ShowsHas ==
  ASSUME NEW mem, NEW bs, NEW s, NEW f, Shows(mem, bs, s, f),
         NEW i \in 1 .. Len(mem), NEW k \in 1 .. Len(mem[i]),
         s < End(mem, i - 1) + k, End(mem, i - 1) + k <= f
  PROVE  \E u \in Range(bs) : u.at = i /\ u.from < k /\ k <= u.to
<1>1. CASE mem \in Memory /\ s \in Nat /\ s = f /\ bs = << >>
  <2>1. Len(mem) \in Nat /\ Len(mem[i]) \in Nat
    BY <1>1, EndFacts
  <2>2. i - 1 \in 0 .. Len(mem)
    BY <2>1
  <2>3. End(mem, i - 1) \in Nat
    BY <1>1, <2>2, EndFacts
  <2>4. k \in Nat
    BY <2>1
  <2>. QED BY <1>1, <2>3, <2>4
<1>2. CASE \E a, m, x, y : /\ SpanOK(mem, a, m, x, y) /\ bs = Span(mem, a, m, x, y)
                           /\ s = Stop(mem, a, m, x, y, 0) /\ f = Stop(mem, a, m, x, y, m)
  <2>1. PICK a, m, x, y : /\ SpanOK(mem, a, m, x, y) /\ bs = Span(mem, a, m, x, y)
                          /\ s = Stop(mem, a, m, x, y, 0) /\ f = Stop(mem, a, m, x, y, m)
    BY <1>2
  <2>2. PICK j : j = i - a + 1
    OBVIOUS
  <2>3. j \in 1 .. m /\ bs[j].at = i /\ bs[j].from < k /\ k <= bs[j].to
    BY <2>1, <2>2, SpanHas
  <2>4. DOMAIN bs = 1 .. m
    BY <2>1 DEF Span
  <2>5. bs[j] \in Range(bs)
    BY <2>3, <2>4 DEF Range
  <2>. QED BY <2>3, <2>5
<1>. QED BY <1>1, <1>2 DEF Shows

\* Writing through buffers changes the bytes they show and no others.
LEMMA ShowsWritten ==
  ASSUME NEW mem, NEW bs, NEW s, NEW f, Shows(mem, bs, s, f), NEW w,
         \A r \in Int : 0 < r /\ r <= f - s => w[r] \in Nat
  PROVE  /\ SameShape(Written(mem, bs, w), mem)
         /\ \A i \in 1 .. Len(mem) : \A k \in 1 .. Len(mem[i]) :
              LET p == End(mem, i - 1) + k
              IN  Written(mem, bs, w)[i][k] = IF s < p /\ p <= f THEN w[p - s] ELSE mem[i][k]
<1>1. CASE mem \in Memory /\ s \in Nat /\ s = f /\ bs = << >>
  <2>1. /\ DOMAIN mem = 1 .. Len(mem) /\ Len(mem) \in Nat
        /\ \A i \in 1 .. Len(mem) : DOMAIN mem[i] = 1 .. Len(mem[i]) /\ Len(mem[i]) \in Nat
    BY <1>1 DEF Memory
  <2>2. \A i, k : {j \in DOMAIN bs : bs[j].at = i /\ k \in bs[j].from + 1 .. bs[j].to} = {}
    BY <1>1
  <2>3. Written(mem, bs, w) = [i \in DOMAIN mem |-> [k \in DOMAIN mem[i] |-> mem[i][k]]]
    BY <2>2, Zenon DEF Written
  <2>4. \A i \in 1 .. Len(mem) : \A k \in 1 .. Len(mem[i]) : mem[i][k] \in Nat
    BY <1>1, <2>1 DEF Memory
  <2>5. MadeOf(Written(mem, bs, w), mem, mem)
    BY <2>3, <2>4, Zenon DEF MadeOf
  <2>6. /\ SameShape(Written(mem, bs, w), mem)
        /\ \A i \in 1 .. Len(mem) : \A k \in 1 .. Len(mem[i]) :
             Written(mem, bs, w)[i][k] = mem[i][k]
    BY <1>1, <2>5, MadeBytes
  <2>7. ASSUME NEW i \in 1 .. Len(mem), NEW k \in 1 .. Len(mem[i])
        PROVE  ~(s < End(mem, i - 1) + k /\ End(mem, i - 1) + k <= f)
    <3>1. i - 1 \in 0 .. Len(mem) /\ Len(mem[i]) \in Nat
      BY <2>1
    <3>2. End(mem, i - 1) \in Nat /\ k \in Nat
      BY <1>1, <3>1, EndFacts
    <3>. QED BY <1>1, <3>2
  <2>. QED BY <2>6, <2>7
<1>2. CASE \E a, m, x, y : /\ SpanOK(mem, a, m, x, y) /\ bs = Span(mem, a, m, x, y)
                           /\ s = Stop(mem, a, m, x, y, 0) /\ f = Stop(mem, a, m, x, y, m)
  <2>1. PICK a, m, x, y : /\ SpanOK(mem, a, m, x, y) /\ bs = Span(mem, a, m, x, y)
                          /\ s = Stop(mem, a, m, x, y, 0) /\ f = Stop(mem, a, m, x, y, m)
    BY <1>2
  <2>2. \A r \in Int : 0 < r /\ r <= Stop(mem, a, m, x, y, m) - Stop(mem, a, m, x, y, 0)
          => w[r] \in Nat
    BY <2>1
  <2>. QED BY <2>1, <2>2, SpanWritten
<1>. QED BY <1>1, <1>2 DEF Shows

-----------------------------------------------------------------------------
(* Where bytes are known.                                                  *)

LEMMA ShapeEnds ==
  ASSUME NEW mem \in Memory, NEW c, SameShape(c, mem)
  PROVE  /\ c \in Memory /\ Len(c) = Len(mem) /\ Len(mem) \in Nat
         /\ \A i \in 0 .. Len(mem) : End(c, i) = End(mem, i)
         /\ \A i \in 1 .. Len(mem) : Len(c[i]) = Len(mem[i]) /\ i - 1 \in 0 .. Len(mem)
<1>1. c \in Memory /\ Len(c) = Len(mem) /\ \A i \in 1 .. Len(mem) : Len(c[i]) = Len(mem[i])
  BY DEF SameShape
<1>2. Len(mem) \in Nat
  BY EndFacts
<1>3. \A i \in 0 .. Len(mem) : End(c, i) = End(mem, i)
  <2>1. PICK n \in Nat : n = Len(mem)
    BY <1>2
  <2>2. n <= Len(mem) /\ n <= Len(c) /\ \A i \in 1 .. n : Len(c[i]) = Len(mem[i])
    BY <1>1, <2>1
  <2>3. \A i \in 0 .. n : End(c, i) = End(mem, i)
    BY <1>1, <2>2, EndSame
  <2>. QED BY <2>1, <2>3
<1>4. \A i \in 1 .. Len(mem) : i - 1 \in 0 .. Len(mem)
  BY <1>2
<1>. QED BY <1>1, <1>2, <1>3, <1>4

\* Bytes that are left alone are still known.
LEMMA KnownSame ==
  ASSUME NEW mem \in Memory, NEW c, SameShape(c, mem), NEW s \in Int, NEW n \in Int, NEW t,
         Known(mem, s, n, t),
         \A i \in 1 .. Len(mem) : \A k \in 1 .. Len(mem[i]) :
           s < End(mem, i - 1) + k /\ End(mem, i - 1) + k <= s + n => c[i][k] = mem[i][k]
  PROVE  Known(c, s, n, t)
<1>. SUFFICES ASSUME NEW i \in 1 .. Len(c), NEW k \in 1 .. Len(c[i]),
                     s < End(c, i - 1) + k, End(c, i - 1) + k <= s + n
              PROVE  c[i][k] = t + ((End(c, i - 1) + k) - s)
  BY DEF Known
<1>1. /\ i \in 1 .. Len(mem) /\ k \in 1 .. Len(mem[i]) /\ End(c, i - 1) = End(mem, i - 1)
  BY ShapeEnds
<1>2. s < End(mem, i - 1) + k /\ End(mem, i - 1) + k <= s + n
  BY <1>1
<1>3. mem[i][k] = t + ((End(mem, i - 1) + k) - s)
  BY <1>1, <1>2 DEF Known
<1>4. c[i][k] = mem[i][k]
  BY <1>1, <1>2
<1>. QED BY <1>1, <1>3, <1>4

\* Fewer bytes are known too.
LEMMA KnownLess ==
  ASSUME NEW mem \in Memory, NEW s \in Int, NEW n \in Int, NEW t, Known(mem, s, n, t),
         NEW r \in Int, r <= n
  PROVE  Known(mem, s, r, t)
<1>. SUFFICES ASSUME NEW i \in 1 .. Len(mem), NEW k \in 1 .. Len(mem[i]),
                     s < End(mem, i - 1) + k, End(mem, i - 1) + k <= s + r
              PROVE  mem[i][k] = t + ((End(mem, i - 1) + k) - s)
  BY DEF Known
<1>1. Len(mem) \in Nat /\ Len(mem[i]) \in Nat
  BY EndFacts
<1>2. i - 1 \in 0 .. Len(mem) /\ k \in Nat
  BY <1>1
<1>3. End(mem, i - 1) \in Nat
  BY <1>2, EndFacts
<1>4. End(mem, i - 1) + k <= s + n
  BY <1>2, <1>3
<1>. QED BY <1>4 DEF Known

\* The numbers behind those that are known are written behind them.
LEMMA KnownWritten ==
  ASSUME NEW mem, NEW bs, NEW s \in Nat, NEW m, NEW f, Shows(mem, bs, m, f), s <= m,
         NEW t \in Int, Known(mem, s, m - s, t), t + (m - s) >= 0
  PROVE  LET c == Written(mem, bs, [i \in 1 .. SizeOf(bs) |-> (t + (m - s)) + i])
         IN  SameShape(c, mem) /\ Known(c, s, f - s, t)
<1> DEFINE w == [i \in 1 .. SizeOf(bs) |-> (t + (m - s)) + i]
           c == Written(mem, bs, w)
<1>1. mem \in Memory /\ m \in Nat /\ f \in Nat /\ m <= f /\ SizeOf(bs) = f - m
  BY ShowsSize
<1>2. \A r \in Int : 0 < r /\ r <= f - m => w[r] = (t + (m - s)) + r /\ w[r] \in Nat
  BY <1>1
<1>. HIDE DEF w
<1>3. /\ SameShape(c, mem)
      /\ \A i \in 1 .. Len(mem) : \A k \in 1 .. Len(mem[i]) :
           LET p == End(mem, i - 1) + k
           IN  c[i][k] = IF m < p /\ p <= f THEN w[p - m] ELSE mem[i][k]
  BY <1>2, ShowsWritten
<1>. HIDE DEF c
<1>4. ASSUME NEW i \in 1 .. Len(c), NEW k \in 1 .. Len(c[i]),
             s < End(c, i - 1) + k, End(c, i - 1) + k <= s + (f - s)
      PROVE  c[i][k] = t + ((End(c, i - 1) + k) - s)
  <2>1. /\ i \in 1 .. Len(mem) /\ k \in 1 .. Len(mem[i]) /\ End(c, i - 1) = End(mem, i - 1)
        /\ i - 1 \in 0 .. Len(mem)
    BY <1>1, <1>3, ShapeEnds
  <2>2. Len(mem[i]) \in Nat /\ End(mem, i - 1) \in Nat
    BY <1>1, <2>1, EndFacts
  <2>3. PICK p : p = End(mem, i - 1) + k
    OBVIOUS
  <2>4. p \in Nat /\ s < p /\ p <= f
    <3>1. PICK u : u = End(mem, i - 1)
      OBVIOUS
    <3>2. u \in Nat /\ k \in Nat /\ p = u + k
      BY <2>1, <2>2, <2>3, <3>1
    <3>3. s < p /\ p <= s + (f - s)
      BY <1>4, <2>1, <2>3
    <3>. QED BY <1>1, <3>2, <3>3
  <2>5. c[i][k] = IF m < p /\ p <= f THEN w[p - m] ELSE mem[i][k]
    BY <1>3, <2>1, <2>3
  <2>6. CASE m < p
    <3>1. p - m \in Int /\ 0 < p - m /\ p - m <= f - m /\ (t + (m - s)) + (p - m) = t + (p - s)
      BY <1>1, <2>4, <2>6
    <3>2. w[p - m] = (t + (m - s)) + (p - m)
      BY <1>2, <3>1
    <3>. QED BY <2>1, <2>3, <2>4, <2>5, <2>6, <3>1, <3>2
  <2>7. CASE ~(m < p)
    <3>1. p <= s + (m - s)
      BY <1>1, <2>4, <2>7
    <3>2. mem[i][k] = t + (p - s)
      BY <2>1, <2>3, <2>4, <3>1 DEF Known
    <3>. QED BY <2>1, <2>3, <2>5, <2>7, <3>2
  <2>. QED BY <2>6, <2>7
<1>5. Known(c, s, f - s, t)
  BY <1>4 DEF Known
<1>. QED BY <1>3, <1>5 DEF c, w

-----------------------------------------------------------------------------
(* The input and the output sequence of a buffer of several blocks: the    *)
(* input from byte ip of block bg to byte op of block ot, the output from  *)
(* there to byte oe of the block before en.  A basic_streambuf begins at   *)
(* its first block and ends behind its last one.                           *)

Spot(mem, i, k) == End(mem, i - 1) + k

CutOK(mem, bg, ot, en, ip, op, oe) ==
  /\ mem \in Memory /\ bg \in Nat \ {0} /\ ot \in Nat /\ en \in Nat
  /\ ip \in Nat /\ op \in Nat /\ oe \in Nat
  /\ bg <= ot /\ ot <= en /\ en <= Len(mem) + 1
  /\ ot = en => op = 0 /\ oe = 0
  /\ ot < en => op <= Len(mem[ot]) /\ oe <= Len(mem[en - 1])
  /\ ot = en - 1 => op <= oe
  /\ bg < ot => ip <= Len(mem[bg])
  /\ bg = ot => ip <= op

\* The place the output sequence ends at.
Fin(mem, ot, en, op, oe) == IF ot = en THEN Spot(mem, ot, op) ELSE Spot(mem, en - 1, oe)

CutData(mem, bg, ot, en, ip, op) ==
  [j \in 1 .. (IF ot = en THEN en ELSE ot + 1) - bg |->
     Buffer(bg + j - 1, IF j = 1 THEN ip ELSE 0,
                        IF bg + j - 1 = ot THEN op ELSE Len(mem[bg + j - 1]))]

CutOutput(mem, ot, en, op, oe) ==
  [j \in 1 .. en - ot |->
     Buffer(ot + j - 1, IF j = 1 THEN op ELSE 0,
                        IF ot + j - 1 = en - 1 THEN oe ELSE Len(mem[ot + j - 1]))]

\* What CutOK says about the sizes of the blocks.
LEMMA CutFacts ==
  ASSUME NEW mem, NEW bg, NEW ot, NEW en, NEW ip, NEW op, NEW oe,
         CutOK(mem, bg, ot, en, ip, op, oe)
  PROVE  /\ mem \in Memory /\ Len(mem) \in Nat
         /\ bg \in 1 .. Len(mem) + 1 /\ ot \in 1 .. Len(mem) + 1 /\ en \in 1 .. Len(mem) + 1
         /\ bg <= ot /\ ot <= en /\ ip \in Nat /\ op \in Nat /\ oe \in Nat
         /\ bg - 1 \in 0 .. Len(mem) /\ ot - 1 \in 0 .. Len(mem) /\ en - 1 \in 0 .. Len(mem)
         /\ End(mem, bg - 1) \in Nat /\ End(mem, ot - 1) \in Nat /\ End(mem, en - 1) \in Nat
         /\ End(mem, bg - 1) <= End(mem, ot - 1) /\ End(mem, ot - 1) <= End(mem, en - 1)
         /\ ot < en =>
              /\ ot \in 1 .. Len(mem) /\ en - 1 \in 1 .. Len(mem)
              /\ Len(mem[ot]) \in Nat /\ Len(mem[en - 1]) \in Nat
              /\ End(mem, ot) = End(mem, ot - 1) + Len(mem[ot])
              /\ End(mem, en - 1) = End(mem, en - 2) + Len(mem[en - 1])
              /\ End(mem, en - 2) \in Nat /\ en - 2 \in 0 .. Len(mem)
         /\ bg < ot =>
              /\ bg \in 1 .. Len(mem) /\ Len(mem[bg]) \in Nat
              /\ End(mem, bg) = End(mem, bg - 1) + Len(mem[bg])
              /\ End(mem, bg) \in Nat /\ End(mem, bg) <= End(mem, ot - 1)
<1>1. /\ mem \in Memory /\ bg \in Nat \ {0} /\ ot \in Nat /\ en \in Nat
      /\ ip \in Nat /\ op \in Nat /\ oe \in Nat
      /\ bg <= ot /\ ot <= en /\ en <= Len(mem) + 1
  BY DEF CutOK
<1>2. Len(mem) \in Nat
  BY <1>1, EndFacts
<1>3. /\ bg \in 1 .. Len(mem) + 1 /\ ot \in 1 .. Len(mem) + 1 /\ en \in 1 .. Len(mem) + 1
      /\ bg - 1 \in 0 .. Len(mem) /\ ot - 1 \in 0 .. Len(mem) /\ en - 1 \in 0 .. Len(mem)
      /\ ot - 1 \in bg - 1 .. Len(mem) /\ en - 1 \in ot - 1 .. Len(mem)
  BY <1>1, <1>2
<1>4. End(mem, bg - 1) \in Nat /\ End(mem, ot - 1) \in Nat /\ End(mem, en - 1) \in Nat
  BY <1>1, <1>3, EndFacts
<1>5. End(mem, bg - 1) <= End(mem, ot - 1) /\ End(mem, ot - 1) <= End(mem, en - 1)
  BY <1>1, <1>3, EndGrows
<1>6. ASSUME ot < en
      PROVE  /\ ot \in 1 .. Len(mem) /\ en - 1 \in 1 .. Len(mem)
             /\ Len(mem[ot]) \in Nat /\ Len(mem[en - 1]) \in Nat
             /\ End(mem, ot) = End(mem, ot - 1) + Len(mem[ot])
             /\ End(mem, en - 1) = End(mem, en - 2) + Len(mem[en - 1])
             /\ End(mem, en - 2) \in Nat /\ en - 2 \in 0 .. Len(mem)
  <2>1. /\ ot \in 1 .. Len(mem) /\ en - 1 \in 1 .. Len(mem) /\ (en - 1) - 1 = en - 2
        /\ en - 2 \in 0 .. Len(mem)
    BY <1>1, <1>2, <1>6
  <2>2. End(mem, en - 1) = End(mem, (en - 1) - 1) + Len(mem[en - 1])
    BY <1>1, <2>1, EndFacts
  <2>. QED BY <1>1, <2>1, <2>2, EndFacts
<1>7. ASSUME bg < ot
      PROVE  /\ bg \in 1 .. Len(mem) /\ Len(mem[bg]) \in Nat
             /\ End(mem, bg) = End(mem, bg - 1) + Len(mem[bg])
             /\ End(mem, bg) \in Nat /\ End(mem, bg) <= End(mem, ot - 1)
  <2>1. bg \in 1 .. Len(mem) /\ bg \in 0 .. Len(mem) /\ ot - 1 \in bg .. Len(mem)
    BY <1>1, <1>2, <1>7
  <2>. QED BY <1>1, <2>1, EndFacts, EndGrows
<1>. QED BY <1>1, <1>2, <1>3, <1>4, <1>5, <1>6, <1>7

\* The input comes before the output.
LEMMA CutOrder ==
  ASSUME NEW mem, NEW bg, NEW ot, NEW en, NEW ip, NEW op, NEW oe,
         CutOK(mem, bg, ot, en, ip, op, oe)
  PROVE  /\ Spot(mem, bg, ip) \in Nat /\ Spot(mem, ot, op) \in Nat
         /\ Fin(mem, ot, en, op, oe) \in Nat
         /\ Spot(mem, bg, ip) <= Spot(mem, ot, op)
         /\ Spot(mem, ot, op) <= Fin(mem, ot, en, op, oe)
<1>1. /\ bg \in Nat /\ ot \in Nat /\ en \in Nat /\ ip \in Nat /\ op \in Nat /\ oe \in Nat
      /\ bg <= ot /\ ot <= en
      /\ ot < en => op <= Len(mem[ot])
      /\ ot = en - 1 => op <= oe
      /\ bg < ot => ip <= Len(mem[bg])
      /\ bg = ot => ip <= op
  BY DEF CutOK
<1>2. /\ End(mem, bg - 1) \in Nat /\ End(mem, ot - 1) \in Nat /\ End(mem, en - 1) \in Nat
      /\ Len(mem) \in Nat
  BY CutFacts
<1>3. Spot(mem, bg, ip) \in Nat /\ Spot(mem, ot, op) \in Nat
  <2>1. PICK u, v : u = End(mem, bg - 1) /\ v = End(mem, ot - 1)
    OBVIOUS
  <2>2. u \in Nat /\ v \in Nat /\ ip \in Nat /\ op \in Nat
    BY <1>1, <1>2, <2>1, Zenon
  <2>3. u + ip \in Nat /\ v + op \in Nat
    BY <2>2
  <2>. QED BY <2>1, <2>3, Zenon DEF Spot
<1>4. Spot(mem, bg, ip) <= Spot(mem, ot, op)
  <2>1. CASE bg = ot
    BY <1>1, <1>2, <2>1 DEF Spot
  <2>2. CASE bg < ot
    <3>1. /\ Len(mem[bg]) \in Nat /\ End(mem, bg) = End(mem, bg - 1) + Len(mem[bg])
          /\ End(mem, bg) <= End(mem, ot - 1)
      BY <2>2, CutFacts
    <3>2. End(mem, bg - 1) + ip <= End(mem, ot - 1)
      <4>1. PICK u, v, w : u = End(mem, bg - 1) /\ v = End(mem, ot - 1) /\ w = Len(mem[bg])
        OBVIOUS
      <4>2. u \in Nat /\ v \in Nat /\ w \in Nat /\ ip \in Nat /\ ip <= w
        BY <1>1, <1>2, <2>2, <3>1, <4>1
      <4>3. u + w <= v
        BY <3>1, <4>1
      <4>4. u + ip <= v
        BY <4>2, <4>3
      <4>. QED BY <4>1, <4>4, Zenon
    <3>. QED BY <1>1, <1>2, <3>2 DEF Spot
  <2>. QED BY <1>1, <2>1, <2>2
<1>5. Fin(mem, ot, en, op, oe) \in Nat /\ Spot(mem, ot, op) <= Fin(mem, ot, en, op, oe)
  <2>1. CASE ot = en
    BY <1>3, <2>1 DEF Fin
  <2>2. CASE ot < en
    <3>1. /\ Len(mem[ot]) \in Nat /\ End(mem, ot) = End(mem, ot - 1) + Len(mem[ot])
          /\ End(mem, en - 2) \in Nat /\ en - 2 \in 0 .. Len(mem) /\ ot \in 1 .. Len(mem)
          /\ mem \in Memory
      BY <2>2, CutFacts
    <3>2. (en - 1) - 1 = en - 2
      BY <1>1
    <3>3. Fin(mem, ot, en, op, oe) = End(mem, en - 2) + oe
      BY <1>1, <2>2, <3>2 DEF Fin, Spot
    <3>4. CASE ot = en - 1
      <4>1. ot - 1 = en - 2 /\ op <= oe
        BY <1>1, <3>4
      <4>2. End(mem, ot - 1) + op <= End(mem, en - 2) + oe /\ End(mem, en - 2) + oe \in Nat
        <5>1. PICK u : u = End(mem, en - 2)
          OBVIOUS
        <5>2. u \in Nat /\ op \in Nat /\ oe \in Nat /\ op <= oe /\ End(mem, ot - 1) = u
          BY <1>1, <3>1, <4>1, <5>1
        <5>3. u + op <= u + oe /\ u + oe \in Nat
          BY <5>2
        <5>. QED BY <5>1, <5>2, <5>3, Zenon
      <4>. QED BY <3>3, <4>2 DEF Spot
    <3>5. CASE ot < en - 1
      <4>1. ot \in 0 .. Len(mem) /\ en - 2 \in ot .. Len(mem)
        BY <1>1, <1>2, <3>1, <3>5
      <4>2. End(mem, ot) <= End(mem, en - 2)
        BY <3>1, <4>1, EndGrows
      <4>3. End(mem, ot - 1) + op <= End(mem, en - 2)
        <5>1. op \in Nat /\ op <= Len(mem[ot])
          BY <1>1, <2>2
        <5>2. PICK l, u, v : l = Len(mem[ot]) /\ u = End(mem, ot - 1) /\ v = End(mem, en - 2)
          OBVIOUS
        <5>3. l \in Nat /\ u \in Nat /\ v \in Nat /\ u + l <= v /\ op <= l
          BY <1>2, <3>1, <4>2, <5>1, <5>2
        <5>4. u + op <= v
          BY <5>1, <5>3
        <5>. QED BY <5>2, <5>4
      <4>4. End(mem, ot - 1) + op <= End(mem, en - 2) + oe /\ End(mem, en - 2) + oe \in Nat
        <5>1. PICK u, v : u = End(mem, ot - 1) + op /\ v = End(mem, en - 2)
          OBVIOUS
        <5>a. op \in Nat /\ oe \in Nat /\ End(mem, ot - 1) \in Nat /\ End(mem, en - 2) \in Nat
          BY <1>1, <1>2, <3>1
        <5>2. v \in Nat /\ u \in Nat /\ u <= v /\ oe \in Nat
          BY <4>3, <5>1, <5>a
        <5>3. u <= v + oe /\ v + oe \in Nat
          BY <5>2
        <5>. QED BY <5>1, <5>3
      <4>. QED BY <3>3, <4>4 DEF Spot
    <3>. QED BY <1>1, <2>2, <3>4, <3>5
  <2>. QED BY <1>1, <2>1, <2>2
<1>. QED BY <1>3, <1>4, <1>5

LEMMA CutDataShows ==
  ASSUME NEW mem, NEW bg, NEW ot, NEW en, NEW ip, NEW op, NEW oe,
         CutOK(mem, bg, ot, en, ip, op, oe)
  PROVE  Shows(mem, CutData(mem, bg, ot, en, ip, op), Spot(mem, bg, ip), Spot(mem, ot, op))
<1>1. /\ mem \in Memory /\ bg \in Nat \ {0} /\ ot \in Nat /\ en \in Nat
      /\ ip \in Nat /\ op \in Nat /\ oe \in Nat
      /\ bg <= ot /\ ot <= en /\ en <= Len(mem) + 1
      /\ ot = en => op = 0
      /\ ot < en => op <= Len(mem[ot])
      /\ bg < ot => ip <= Len(mem[bg])
      /\ bg = ot => ip <= op
  BY DEF CutOK
<1>2. Len(mem) \in Nat /\ Spot(mem, bg, ip) \in Nat
  BY CutFacts, CutOrder
<1>3. PICK m : m = (IF ot = en THEN en ELSE ot + 1) - bg
  OBVIOUS
<1>4. CASE m = 0
  <2>1. bg = ot /\ ot = en /\ ip = 0 /\ op = 0
    BY <1>1, <1>3, <1>4
  <2>2. CutData(mem, bg, ot, en, ip, op) = << >>
    <3>1. (IF ot = en THEN en ELSE ot + 1) - bg = 0
      BY <1>3, <1>4
    <3>. QED BY <3>1 DEF CutData
  <2>. QED BY <1>1, <1>2, <2>1, <2>2 DEF Shows
<1>5. CASE m # 0
  <2>1. PICK y : y = IF ot = en THEN Len(mem[en - 1]) ELSE op
    OBVIOUS
  <2>2. /\ m \in Nat \ {0} /\ bg + m - 1 <= Len(mem)
        /\ (ot = en => bg + m - 1 = en - 1 /\ bg < ot)
        /\ (ot # en => bg + m - 1 = ot)
    BY <1>1, <1>2, <1>3, <1>5
  <2>3. bg \in 1 .. Len(mem) /\ bg + m - 1 \in 1 .. Len(mem)
    BY <1>1, <1>2, <2>2
  <2>4. Len(mem[bg]) \in Nat /\ Len(mem[bg + m - 1]) \in Nat
    BY <1>1, <2>3, EndFacts
  <2>5. y \in 0 .. Len(mem[bg + m - 1])
    <3>1. CASE ot = en
      BY <2>1, <2>2, <2>4, <3>1
    <3>2. CASE ot # en
      BY <1>1, <2>1, <2>2, <2>4, <3>2
    <3>. QED BY <3>1, <3>2
  <2>6. ip \in 0 .. Len(mem[bg]) /\ (m = 1 => ip <= y)
    <3>1. CASE ot = en
      <4>1. ip <= Len(mem[bg])
        BY <1>1, <2>2, <3>1
      <4>2. m = 1 => bg = bg + m - 1
        BY <1>1
      <4>. QED BY <1>1, <2>1, <2>2, <2>4, <3>1, <4>1, <4>2
    <3>2. CASE ot # en
      <4>1. CASE bg = ot
        BY <1>1, <2>1, <2>4, <3>2, <4>1
      <4>2. CASE bg < ot
        BY <1>1, <2>1, <2>2, <2>4, <3>2, <4>2
      <4>. QED BY <1>1, <4>1, <4>2
    <3>. QED BY <3>1, <3>2
  <2>7. SpanOK(mem, bg, m, ip, y)
    BY <1>1, <2>2, <2>5, <2>6 DEF SpanOK
  <2>8. CutData(mem, bg, ot, en, ip, op) = Span(mem, bg, m, ip, y)
    <3>1. ASSUME NEW j \in 1 .. m
          PROVE  (IF bg + j - 1 = ot THEN op ELSE Len(mem[bg + j - 1]))
                  = (IF j = m THEN y ELSE Len(mem[bg + j - 1]))
      <4>1. CASE ot = en
        <5>1. bg + j - 1 # ot /\ (j = m => bg + j - 1 = en - 1)
          BY <1>1, <2>2, <4>1
        <5>. QED BY <2>1, <4>1, <5>1
      <4>2. CASE ot # en
        <5>1. bg + j - 1 = ot <=> j = m
          BY <1>1, <2>2, <4>2
        <5>. QED BY <2>1, <4>2, <5>1
      <4>. QED BY <4>1, <4>2
    <3>2. CutData(mem, bg, ot, en, ip, op)
            = [j \in 1 .. m |-> Buffer(bg + j - 1, IF j = 1 THEN ip ELSE 0,
                                IF bg + j - 1 = ot THEN op ELSE Len(mem[bg + j - 1]))]
      BY <1>3, Zenon DEF CutData
    <3>. QED BY <3>1, <3>2, Zenon DEF Span
  <2>9. Stop(mem, bg, m, ip, y, 0) = Spot(mem, bg, ip)
    BY DEF Stop, Spot
  <2>10. Stop(mem, bg, m, ip, y, m) = Spot(mem, ot, op)
    <3>1. Stop(mem, bg, m, ip, y, m) = End(mem, bg + m - 2) + y
      BY <2>2 DEF Stop
    <3>2. CASE ot = en
      <4>1. bg + m - 2 = en - 2 /\ en - 1 \in 1 .. Len(mem) /\ (en - 1) - 1 = en - 2
            /\ en - 2 \in 0 .. Len(mem) /\ en - 1 = ot - 1
        BY <1>1, <1>2, <2>2, <3>2
      <4>2. End(mem, en - 1) = End(mem, (en - 1) - 1) + Len(mem[en - 1])
            /\ End(mem, en - 1) \in Nat
        BY <1>1, <4>1, EndFacts
      <4>3. y = Len(mem[en - 1]) /\ op = 0
        BY <1>1, <2>1, <3>2
      <4>. QED BY <3>1, <4>1, <4>2, <4>3 DEF Spot
    <3>3. CASE ot # en
      <4>1. bg + m - 2 = ot - 1
        BY <1>1, <2>2, <3>3
      <4>. QED BY <2>1, <3>1, <3>3, <4>1 DEF Spot
    <3>. QED BY <3>2, <3>3
  <2>. QED BY <2>7, <2>8, <2>9, <2>10 DEF Shows
<1>. QED BY <1>4, <1>5

LEMMA CutOutputShows ==
  ASSUME NEW mem, NEW bg, NEW ot, NEW en, NEW ip, NEW op, NEW oe,
         CutOK(mem, bg, ot, en, ip, op, oe)
  PROVE  Shows(mem, CutOutput(mem, ot, en, op, oe),
               Spot(mem, ot, op), Fin(mem, ot, en, op, oe))
<1>1. /\ mem \in Memory /\ ot \in Nat /\ en \in Nat /\ op \in Nat /\ oe \in Nat
      /\ ot <= en /\ en <= Len(mem) + 1
      /\ ot < en => op <= Len(mem[ot]) /\ oe <= Len(mem[en - 1])
      /\ ot = en - 1 => op <= oe
  BY DEF CutOK
<1>2. Len(mem) \in Nat /\ Spot(mem, ot, op) \in Nat /\ ot \in 1 .. Len(mem) + 1
  BY CutFacts, CutOrder
<1>3. PICK m : m = en - ot
  OBVIOUS
<1>4. CASE m = 0
  <2>1. ot = en /\ en - ot = 0
    BY <1>1, <1>3, <1>4
  <2>2. CutOutput(mem, ot, en, op, oe) = << >>
    BY <2>1 DEF CutOutput
  <2>. QED BY <1>1, <1>2, <2>1, <2>2 DEF Shows, Fin
<1>5. CASE m # 0
  <2>1. /\ m \in Nat \ {0} /\ ot + m - 1 <= Len(mem) /\ ot + m - 1 = en - 1 /\ ot < en
        /\ ot + m - 2 = en - 2 /\ (en - 1) - 1 = en - 2 /\ ot \in Nat \ {0}
    BY <1>1, <1>2, <1>3, <1>5
  <2>2. Len(mem[ot]) \in Nat /\ Len(mem[en - 1]) \in Nat
    BY <2>1, CutFacts
  <2>3. oe \in 0 .. Len(mem[ot + m - 1]) /\ op \in 0 .. Len(mem[ot])
    BY <1>1, <2>1, <2>2
  <2>4. m = 1 => op <= oe
    BY <1>1, <2>1
  <2>5. SpanOK(mem, ot, m, op, oe)
    BY <1>1, <2>1, <2>3, <2>4 DEF SpanOK
  <2>6. CutOutput(mem, ot, en, op, oe) = Span(mem, ot, m, op, oe)
    <3>1. \A j \in 1 .. m : (ot + j - 1 = en - 1) <=> (j = m)
      BY <1>1, <2>1
    <3>2. CutOutput(mem, ot, en, op, oe)
            = [j \in 1 .. m |-> Buffer(ot + j - 1, IF j = 1 THEN op ELSE 0,
                                IF ot + j - 1 = en - 1 THEN oe ELSE Len(mem[ot + j - 1]))]
      BY <1>3, Zenon DEF CutOutput
    <3>. QED BY <3>1, <3>2, Zenon DEF Span
  <2>7. Stop(mem, ot, m, op, oe, 0) = Spot(mem, ot, op)
    BY DEF Stop, Spot
  <2>8. Stop(mem, ot, m, op, oe, m) = Fin(mem, ot, en, op, oe)
    BY <2>1 DEF Stop, Fin, Spot
  <2>. QED BY <2>5, <2>6, <2>7, <2>8 DEF Shows
<1>. QED BY <1>4, <1>5

-----------------------------------------------------------------------------
(* What holds of a buffer of each class.                                   *)

SbRec == [mem : Memory, out : Nat, inPos : Nat, inSize : Nat, outPos : Nat, outEnd : Nat,
          alloc : Nat]

SbStart(b) == Spot(b.mem, 1, b.inPos)
SbMid(b) == Spot(b.mem, b.out, b.outPos)
SbFin(b) == Fin(b.mem, b.out, Len(b.mem) + 1, b.outPos, b.outEnd)

\* No block is empty, and neither sequence begins behind the last byte of a
\* block.
SbGood(b) ==
  /\ b \in SbRec
  /\ CutOK(b.mem, 1, b.out, Len(b.mem) + 1, b.inPos, b.outPos, b.outEnd)
  /\ b.inSize = SbMid(b) - SbStart(b)
  /\ \A i \in 1 .. Len(b.mem) : Len(b.mem[i]) > 0
  /\ b.out <= Len(b.mem) => b.outPos < Len(b.mem[b.out])
  /\ Len(b.mem) > 0 => b.inPos < Len(b.mem[1])

BaRec == [mem : Memory, begin : Nat, out : Nat, end : Nat, inPos : Nat, inSize : Nat,
          outPos : Nat, outEnd : Nat, maxSize : Nat]

BaStart(b) == Spot(b.mem, b.begin, b.inPos)
BaMid(b) == Spot(b.mem, b.out, b.outPos)
BaFin(b) == Fin(b.mem, b.out, b.end, b.outPos, b.outEnd)

\* What is left of max_size() are the bytes behind the input sequence.
BaGood(b) ==
  /\ b \in BaRec
  /\ CutOK(b.mem, b.begin, b.out, b.end, b.inPos, b.outPos, b.outEnd)
  /\ b.inSize = BaMid(b) - BaStart(b)
  /\ b.maxSize = End(b.mem, Len(b.mem)) - BaMid(b)

SsRec == [mem : Memory, in : Nat, out : Nat, last : Nat]

SsGood(b) ==
  /\ b \in SsRec /\ Len(b.mem) = 1
  /\ b.in <= b.out /\ b.out <= b.last /\ b.last <= Len(b.mem[1])

Good(b) == \/ kind = "streambuf" /\ SbGood(b)
           \/ kind = "static" /\ SsGood(b)
           \/ kind = "adapter" /\ BaGood(b)

StartOf(b) == CASE kind = "streambuf" -> SbStart(b)
                [] kind = "static" -> b.in
                [] kind = "adapter" -> BaStart(b)

MidOf(b) == CASE kind = "streambuf" -> SbMid(b)
              [] kind = "static" -> b.out
              [] kind = "adapter" -> BaMid(b)

FinOf(b) == CASE kind = "streambuf" -> SbFin(b)
              [] kind = "static" -> b.last
              [] kind = "adapter" -> BaFin(b)

\* The buffer b is as the books (c committed, t consumed, l prepared) say.
Agrees(b, c, t, l) ==
  /\ Good(b) /\ c \in Nat /\ t \in Nat /\ t <= c /\ l \in Nat \cup {Void}
  /\ MidOf(b) - StartOf(b) = c - t
  /\ l # Void => FinOf(b) - MidOf(b) = l
  /\ Known(b.mem, StartOf(b), (IF l = Void THEN MidOf(b) ELSE FinOf(b)) - StartOf(b), t)

BufInv == Agrees(buf, count, taken, left)

-----------------------------------------------------------------------------
(* Least and greatest elements.                                            *)

LEMMA LeastNat ==
  ASSUME NEW S, S \subseteq Nat, S # {}
  PROVE  \E m \in S : \A y \in S : m <= y
<1>1. IsWellFoundedOn(OpToRel(<, Nat), Nat)
  BY NatLessThanWellFounded
<1>2. PICK m \in S : \A y \in S : ~(<<y, m>> \in OpToRel(<, Nat))
  BY <1>1, WFMin
<1>3. \A y \in S : ~(y < m)
  BY <1>2 DEF OpToRel
<1>. QED BY <1>3

LEMMA MinOf ==
  ASSUME NEW lo \in Int, NEW S, S \subseteq Int, S # {}, \A y \in S : lo <= y
  PROVE  Min(S) \in S /\ \A y \in S : Min(S) <= y
<1> DEFINE R == {y - lo : y \in S}
<1>1. R \subseteq Nat /\ R # {}
  <2>1. \A y \in S : y - lo \in Nat
    OBVIOUS
  <2>2. R \subseteq Nat
    BY <2>1, Zenon
  <2>. QED BY <2>2, Zenon
<1>2. PICK r \in R : \A y \in R : r <= y
  <2>. HIDE DEF R
  <2>. QED BY <1>1, LeastNat
<1>3. PICK m \in S : r = m - lo
  BY <1>2
<1>4. \A y \in S : m <= y
  <2>. SUFFICES ASSUME NEW y \in S PROVE m <= y
    OBVIOUS
  <2>1. y - lo \in R
    OBVIOUS
  <2>. HIDE DEF R
  <2>2. m - lo <= y - lo
    BY <1>2, <1>3, <2>1
  <2>. QED BY <2>2
<1>. QED BY <1>4, Zenon DEF Min

LEMMA MaxOf ==
  ASSUME NEW hi \in Int, NEW S, S \subseteq Int, S # {}, \A y \in S : y <= hi
  PROVE  Max(S) \in S /\ \A y \in S : y <= Max(S)
<1> DEFINE R == {hi - y : y \in S}
<1>1. R \subseteq Nat /\ R # {}
  <2>1. \A y \in S : hi - y \in Nat
    OBVIOUS
  <2>2. R \subseteq Nat
    BY <2>1, Zenon
  <2>. QED BY <2>2, Zenon
<1>2. PICK r \in R : \A y \in R : r <= y
  <2>. HIDE DEF R
  <2>. QED BY <1>1, LeastNat
<1>3. PICK m \in S : r = hi - m
  BY <1>2
<1>4. \A y \in S : m >= y
  <2>. SUFFICES ASSUME NEW y \in S PROVE m >= y
    OBVIOUS
  <2>1. hi - y \in R
    OBVIOUS
  <2>. HIDE DEF R
  <2>2. hi - m <= hi - y
    BY <1>2, <1>3, <2>1
  <2>. QED BY <2>2
<1>5. Max(S) \in S /\ \A y \in S : Max(S) >= y
  BY <1>4, Zenon DEF Max
<1>. QED BY <1>5

Less(a, b) == IF a <= b THEN a ELSE b

LEMMA MinPair == ASSUME NEW a \in Int, NEW b \in Int PROVE Min({a, b}) = Less(a, b)
<1>1. Less(a, b) \in {a, b} /\ \A y \in {a, b} : Less(a, b) <= y
  BY DEF Less
<1>2. ASSUME NEW x \in {a, b}, \A y \in {a, b} : x <= y PROVE x = Less(a, b)
  BY <1>2 DEF Less
<1>. QED BY <1>1, <1>2 DEF Min

LEMMA LessFacts ==
  ASSUME NEW a \in Nat, NEW b \in Nat
  PROVE  Less(a, b) \in Nat /\ Less(a, b) <= a /\ Less(a, b) <= b
BY DEF Less

-----------------------------------------------------------------------------
(* static_streambuf.                                                       *)

LEMMA SsPrepared ==
  ASSUME NEW b, SsGood(b), NEW n \in Nat, ~SsThrows(b, n)
  PROVE  LET c == SsPrepare(b, n)
         IN  /\ SsGood(c) /\ c.mem = b.mem /\ c.in = b.in /\ c.out = b.out
             /\ c.last = b.out + n
<1>1. /\ b \in SsRec /\ Len(b.mem) = 1
      /\ b.in <= b.out /\ b.out <= b.last /\ b.last <= Len(b.mem[1])
  BY DEF SsGood
<1>2. PICK v : v = b.out + n
  OBVIOUS
<1>3. b.out \in Nat /\ b.in \in Nat /\ b.last \in Nat /\ b.mem \in Memory
  BY <1>1 DEF SsRec
<1>4. Len(b.mem[1]) \in Nat
  <2>1. 1 \in 1 .. Len(b.mem)
    BY <1>1
  <2>. QED BY <1>3, <2>1, EndFacts
<1>5. v \in Nat /\ b.out <= v /\ v <= Len(b.mem[1])
  BY <1>2, <1>3, <1>4 DEF SsThrows, SsEnd
<1>6. SsPrepare(b, n) = [b EXCEPT !.last = v]
  BY <1>2, Zenon DEF SsPrepare
<1>7. PICK c : c = [b EXCEPT !.last = v]
  OBVIOUS
<1>8. c \in SsRec /\ c.mem = b.mem /\ c.in = b.in /\ c.out = b.out /\ c.last = v
  BY <1>1, <1>5, <1>7 DEF SsRec
<1>9. SsGood(c)
  BY <1>1, <1>5, <1>8 DEF SsGood
<1>. QED BY <1>2, <1>6, <1>7, <1>8, <1>9

LEMMA SsCommitted ==
  ASSUME NEW b, SsGood(b), NEW n \in Nat
  PROVE  LET c == SsCommit(b, n)
         IN  /\ SsGood(c) /\ c.mem = b.mem /\ c.in = b.in /\ c.last = b.last
             /\ c.out = b.out + Less(n, b.last - b.out)
<1>1. /\ b \in SsRec /\ Len(b.mem) = 1
      /\ b.in <= b.out /\ b.out <= b.last /\ b.last <= Len(b.mem[1])
  BY DEF SsGood
<1>2. PICK v : v = b.out + Less(n, b.last - b.out)
  OBVIOUS
<1>3. b.out \in Nat /\ b.in \in Nat /\ b.last \in Nat /\ b.mem \in Memory
  BY <1>1 DEF SsRec
<1>4. b.last - b.out \in Nat
  BY <1>1, <1>3
<1>5. v \in Nat /\ b.in <= v /\ v <= b.last
  <2>1. PICK d, r : d = b.last - b.out /\ r = Less(n, d)
    OBVIOUS
  <2>2. d \in Nat /\ r \in Nat /\ r <= d
    BY <1>4, <2>1, LessFacts
  <2>. QED BY <1>1, <1>2, <1>3, <2>1, <2>2
<1>6. SsCommit(b, n) = [b EXCEPT !.out = v]
  <2>1. Min({n, b.last - b.out}) = Less(n, b.last - b.out)
    BY <1>4, MinPair
  <2>. QED BY <1>2, <2>1, Zenon DEF SsCommit
<1>7. PICK c : c = [b EXCEPT !.out = v]
  OBVIOUS
<1>8. c \in SsRec /\ c.mem = b.mem /\ c.in = b.in /\ c.last = b.last /\ c.out = v
  BY <1>1, <1>5, <1>7 DEF SsRec
<1>9. SsGood(c)
  BY <1>1, <1>5, <1>8 DEF SsGood
<1>. QED BY <1>2, <1>6, <1>7, <1>8, <1>9

LEMMA SsConsumed ==
  ASSUME NEW b, SsGood(b), NEW n \in Nat
  PROVE  LET c == SsConsume(b, n)
         IN  /\ SsGood(c) /\ c.mem = b.mem /\ c.out = b.out /\ c.last = b.last
             /\ c.in = b.in + Less(n, b.out - b.in)
<1>1. /\ b \in SsRec /\ Len(b.mem) = 1
      /\ b.in <= b.out /\ b.out <= b.last /\ b.last <= Len(b.mem[1])
  BY DEF SsGood
<1>2. PICK v : v = b.in + Less(n, b.out - b.in)
  OBVIOUS
<1>3. b.out \in Nat /\ b.in \in Nat /\ b.last \in Nat /\ b.mem \in Memory
  BY <1>1 DEF SsRec
<1>4. b.out - b.in \in Nat
  BY <1>1, <1>3
<1>5. v \in Nat /\ v <= b.out
  <2>1. PICK d, r : d = b.out - b.in /\ r = Less(n, d)
    OBVIOUS
  <2>2. d \in Nat /\ r \in Nat /\ r <= d
    BY <1>4, <2>1, LessFacts
  <2>. QED BY <1>1, <1>2, <1>3, <2>1, <2>2
<1>6. SsConsume(b, n) = [b EXCEPT !.in = v]
  <2>1. Min({n, b.out - b.in}) = Less(n, b.out - b.in)
    BY <1>4, MinPair
  <2>. QED BY <1>2, <2>1, Zenon DEF SsConsume
<1>7. PICK c : c = [b EXCEPT !.in = v]
  OBVIOUS
<1>8. c \in SsRec /\ c.mem = b.mem /\ c.out = b.out /\ c.last = b.last /\ c.in = v
  BY <1>1, <1>5, <1>7 DEF SsRec
<1>9. SsGood(c)
  BY <1>1, <1>5, <1>8 DEF SsGood
<1>. QED BY <1>2, <1>6, <1>7, <1>8, <1>9

LEMMA SsRangeShows ==
  ASSUME NEW mem \in Memory, Len(mem) = 1, NEW lo \in Nat, NEW hi \in Nat, lo <= hi,
         hi <= Len(mem[1])
  PROVE  Shows(mem, SsRange(lo, hi), lo, hi)
<1>1. CASE lo = hi
  BY <1>1 DEF Shows, SsRange
<1>2. CASE lo # hi
  <2>1. SsRange(lo, hi) = <<Buffer(1, lo, hi)>>
    BY <1>2 DEF SsRange
  <2>2. Span(mem, 1, 1, lo, hi) = <<Buffer(1, lo, hi)>>
    <3>1. Span(mem, 1, 1, lo, hi) = [j \in 1 .. 1 |-> Span(mem, 1, 1, lo, hi)[j]]
      BY DEF Span
    <3>2. \A j \in 1 .. 1 : Span(mem, 1, 1, lo, hi)[j] = Buffer(1, lo, hi)
      BY DEF Span
    <3>3. PICK u : u = Buffer(1, lo, hi)
      OBVIOUS
    <3>4. Span(mem, 1, 1, lo, hi) = [j \in 1 .. 1 |-> u]
      BY <3>1, <3>2, <3>3
    <3>5. [j \in 1 .. 1 |-> u] = <<u>>
      OBVIOUS
    <3>. QED BY <3>3, <3>4, <3>5
  <2>3. 1 \in 1 .. Len(mem) /\ 1 + 1 - 1 = 1
    OBVIOUS
  <2>4. Len(mem[1]) \in Nat
    BY <2>3, EndFacts
  <2>5. SpanOK(mem, 1, 1, lo, hi)
    BY <2>3, <2>4 DEF SpanOK
  <2>6. Stop(mem, 1, 1, lo, hi, 0) = lo /\ Stop(mem, 1, 1, lo, hi, 1) = hi
    BY EndFacts DEF Stop
  <2>. QED BY <2>1, <2>2, <2>5, <2>6 DEF Shows
<1>. QED BY <1>1, <1>2

-----------------------------------------------------------------------------
(* The loops of commit and consume.                                        *)

\* The room behind out_ before commit: mm is the place commit starts at, ff
\* the place the output ends at.
LEMMA CommitStopIs ==
  ASSUME NEW b, NEW bg, NEW ip, NEW last \in Nat, b.out <= last,
         CutOK(b.mem, bg, b.out, last + 1, ip, b.outPos, b.outEnd), NEW n \in Nat
  PROVE  LET s == CommitStop(b, last, n)
             mm == Spot(b.mem, b.out, b.outPos)
             ff == Fin(b.mem, b.out, last + 1, b.outPos, b.outEnd)
         IN  /\ s.at \in b.out .. last /\ s.pos \in Nat /\ s.moved = Less(n, ff - mm)
             /\ Spot(b.mem, s.at, s.pos) = mm + s.moved
             /\ s.at < last => s.pos < Len(b.mem[s.at])
             /\ s.at = last => s.pos <= b.outEnd
             /\ s.at = b.out => b.outPos <= s.pos
<1>1. PICK mem, ot, op, oe : mem = b.mem /\ ot = b.out /\ op = b.outPos /\ oe = b.outEnd
  OBVIOUS
<1>2. CutOK(mem, bg, ot, last + 1, ip, op, oe) /\ ot <= last
  BY <1>1
<1>3. PICK mm, ff : mm = Spot(mem, ot, op) /\ ff = Fin(mem, ot, last + 1, op, oe)
  OBVIOUS
<1>4. mm \in Nat /\ ff \in Nat /\ mm <= ff
  BY <1>2, <1>3, CutOrder
<1>5. /\ mem \in Memory /\ Len(mem) \in Nat /\ ot \in 1 .. Len(mem) /\ ot \in Nat
      /\ op \in Nat /\ oe \in Nat /\ last \in 1 .. Len(mem) /\ last <= Len(mem)
      /\ op <= Len(mem[ot]) /\ (ot = last => op <= oe)
  <2>1. /\ mem \in Memory /\ Len(mem) \in Nat /\ ot \in 1 .. Len(mem) + 1
        /\ last + 1 \in 1 .. Len(mem) + 1
    BY <1>2, CutFacts
  <2>2. /\ ot \in Nat /\ op \in Nat /\ oe \in Nat
        /\ (ot < last + 1 => op <= Len(mem[ot])) /\ (ot = (last + 1) - 1 => op <= oe)
    BY <1>2 DEF CutOK
  <2>. QED BY <1>2, <2>1, <2>2
<1> DEFINE Bef(j) == IF j = ot THEN 0 ELSE Total(mem, ot, j - 1) - op
           Base(j) == IF j = ot THEN op ELSE 0
           S == {i \in ot .. last : Bef(i) <= n}
           k == Max(S)
           r == IF k < last THEN n - Bef(k) ELSE Min({n - Bef(k), oe - Base(k)})
<1>6. CommitStop(b, last, n) = [at |-> k, pos |-> Base(k) + r, moved |-> Bef(k) + r]
  BY <1>1, Zenon DEF CommitStop
<1>7. ASSUME NEW j \in ot .. last
      PROVE  /\ End(mem, j - 1) \in Nat /\ Len(mem[j]) \in Nat
             /\ End(mem, j) = End(mem, j - 1) + Len(mem[j])
             /\ Bef(j) \in Int /\ Base(j) \in Nat
             /\ mm + Bef(j) = End(mem, j - 1) + Base(j)
  <2>1. j \in 1 .. Len(mem) /\ j - 1 \in 0 .. Len(mem) /\ j \in Int
    BY <1>5
  <2>2. /\ End(mem, j - 1) \in Nat /\ Len(mem[j]) \in Nat
        /\ End(mem, j) = End(mem, j - 1) + Len(mem[j])
    BY <1>5, <2>1, EndFacts
  <2>3. CASE j = ot
    <3>1. Bef(j) = 0 /\ Base(j) = op /\ mm = End(mem, j - 1) + op
      BY <1>3, <2>3 DEF Spot
    <3>. HIDE DEF Bef, Base
    <3>. QED BY <1>5, <2>2, <3>1
  <2>4. CASE j # ot
    <3>1. ot \in 1 .. Len(mem) + 1 /\ j - 1 \in ot - 1 .. Len(mem) /\ ot - 1 \in 0 .. Len(mem)
      BY <1>5, <2>1, <2>4
    <3>2. Total(mem, ot, j - 1) = End(mem, j - 1) - End(mem, ot - 1)
      BY <1>5, <3>1, TotalByEnds
    <3>3. End(mem, ot - 1) \in Nat
      BY <1>5, <3>1, EndFacts
    <3>4. PICK u, v : u = End(mem, j - 1) /\ v = End(mem, ot - 1)
      OBVIOUS
    <3>5. Bef(j) = (u - v) - op /\ Base(j) = 0 /\ mm = v + op /\ u \in Nat /\ v \in Nat
      BY <1>3, <2>2, <2>4, <3>2, <3>3, <3>4 DEF Spot
    <3>. HIDE DEF Bef, Base
    <3>6. op \in Nat
      BY <1>5
    <3>7. (u - v) - op \in Int /\ (v + op) + ((u - v) - op) = u + 0
      BY <3>5, <3>6
    <3>8. Bef(j) \in Int /\ Base(j) \in Nat /\ mm + Bef(j) = u + Base(j)
      BY <3>5, <3>7
    <3>. QED BY <2>2, <3>4, <3>8
  <2>. HIDE DEF Bef, Base
  <2>. QED BY <2>3, <2>4
<1>8. Bef(ot) = 0 /\ (ot # last \/ Base(last) = op) /\ (ot = last \/ Base(last) = 0)
      /\ Base(ot) = op
  OBVIOUS
<1>9. ff = End(mem, last - 1) + oe
  <2>1. (last + 1) - 1 = last /\ ot # last + 1
    BY <1>2, <1>5
  <2>. QED BY <1>3, <2>1 DEF Fin, Spot
<1>. HIDE DEF Bef, Base
<1>10. k \in ot .. last /\ Bef(k) <= n /\ \A j \in ot .. last : Bef(j) <= n => j <= k
  <2>1. ot \in S /\ S \subseteq Int /\ (\A y \in S : y <= last) /\ last \in Int
    BY <1>2, <1>5, <1>8
  <2>2. k \in S /\ \A y \in S : y <= k
    <3>. HIDE DEF S
    <3>1. S # {}
      BY <2>1
    <3>. QED BY <2>1, <3>1, MaxOf, Zenon
  <2>. HIDE DEF k
  <2>. QED BY <2>2
<1>11. /\ End(mem, k - 1) \in Nat /\ Len(mem[k]) \in Nat
       /\ End(mem, k) = End(mem, k - 1) + Len(mem[k])
       /\ Bef(k) \in Int /\ Base(k) \in Nat
       /\ mm + Bef(k) = End(mem, k - 1) + Base(k)
  <2>. HIDE DEF k
  <2>. QED BY <1>7, <1>10
<1>12. PICK bf, ba, u, len : bf = Bef(k) /\ ba = Base(k) /\ u = End(mem, k - 1)
                             /\ len = Len(mem[k])
  OBVIOUS
<1>13. /\ bf \in Int /\ ba \in Nat /\ u \in Nat /\ len \in Nat /\ bf <= n /\ mm + bf = u + ba
       /\ End(mem, k) = u + len
  BY <1>10, <1>11, <1>12
<1>14. k = ot => ba = op
  BY <1>8, <1>12
<1>. HIDE DEF k
<1>15. CASE k < last
  <2>1. r = n - bf
    BY <1>12, <1>15
  <2>2. k + 1 \in ot .. last /\ (k + 1) - 1 = k /\ k + 1 # ot /\ k \in 0 .. Len(mem)
        /\ last - 1 \in k .. Len(mem)
    BY <1>5, <1>10, <1>15
  <2>3. Bef(k + 1) > n
    <3>1. Bef(k + 1) \in Int
      BY <1>7, <2>2
    <3>2. ~(k + 1 <= k)
      BY <1>5, <1>10
    <3>. QED BY <1>10, <2>2, <3>1, <3>2
  <2>4. mm + Bef(k + 1) = End(mem, k) + Base(k + 1) /\ Base(k + 1) = 0 /\ Bef(k + 1) \in Int
    <3>1. mm + Bef(k + 1) = End(mem, (k + 1) - 1) + Base(k + 1) /\ Bef(k + 1) \in Int
      BY <1>7, <2>2
    <3>2. Base(k + 1) = 0
      BY <2>2 DEF Base
    <3>. QED BY <2>2, <3>1, <3>2
  <2>5. mm + n < u + len
    <3>1. PICK w : w = Bef(k + 1)
      OBVIOUS
    <3>2. w \in Int /\ w > n /\ mm + w = (u + len) + 0
      BY <1>13, <2>3, <2>4, <3>1
    <3>. QED BY <1>4, <1>13, <3>2
  <2>6. End(mem, k) <= End(mem, last - 1) /\ End(mem, last - 1) \in Nat
    <3>1. last - 1 \in 0 .. Len(mem)
      BY <1>5
    <3>. QED BY <1>5, <2>2, <3>1, EndFacts, EndGrows
  <2>7. u + len <= ff
    <3>1. PICK v : v = End(mem, last - 1)
      OBVIOUS
    <3>2. v \in Nat /\ u + len <= v /\ ff = v + oe /\ oe \in Nat
      BY <1>5, <1>9, <1>13, <2>6, <3>1
    <3>. QED BY <1>13, <3>2
  <2>8. n <= ff - mm
    BY <1>4, <1>13, <2>5, <2>7
  <2>9. bf + r = Less(n, ff - mm)
    BY <1>13, <2>1, <2>8 DEF Less
  <2>10. ba + r \in Nat /\ ba <= ba + r /\ u + (ba + r) = mm + (bf + r) /\ ba + r < len
    BY <1>4, <1>13, <2>1, <2>5
  <2>. HIDE DEF r
  <2>11. [at |-> k, pos |-> ba + r, moved |-> bf + r].at = k
         /\ [at |-> k, pos |-> ba + r, moved |-> bf + r].pos = ba + r
         /\ [at |-> k, pos |-> ba + r, moved |-> bf + r].moved = bf + r
    OBVIOUS
  <2>12. Spot(mem, k, ba + r) = mm + (bf + r)
    BY <1>12, <2>10 DEF Spot
  <2>13. k # last
    BY <1>5, <1>15
  <2>14. CommitStop(b, last, n) = [at |-> k, pos |-> ba + r, moved |-> bf + r]
    BY <1>6, <1>12
  <2>15. k = ot => op <= ba + r
    BY <1>14, <2>10
  <2>. QED BY <1>1, <1>3, <1>10, <1>12, <2>9, <2>10, <2>11, <2>12, <2>13, <2>14, <2>15
<1>16. CASE k = last
  <2>1. r = Min({n - bf, oe - ba})
    BY <1>5, <1>12, <1>16
  <2>2. oe - ba \in Nat /\ n - bf \in Nat
    <3>1. CASE ot = last
      BY <1>5, <1>13, <1>14, <1>16, <3>1
    <3>2. CASE ot # last
      <4>1. ba = 0
        BY <1>8, <1>12, <1>16, <3>2
      <4>. QED BY <1>5, <1>13, <4>1
    <3>. QED BY <3>1, <3>2
  <2>3. r = Less(n - bf, oe - ba)
    BY <2>1, <2>2, MinPair
  <2>4. r \in Nat /\ r <= oe - ba
    BY <2>2, <2>3, LessFacts
  <2>5. ff = u + oe
    BY <1>9, <1>12, <1>16
  <2>6. ff - mm = (oe - ba) + bf
    BY <1>4, <1>5, <1>13, <2>5
  <2>7. bf + r = Less(n, ff - mm)
    <3>1. PICK x : x = oe - ba
      OBVIOUS
    <3>2. x \in Nat /\ r = Less(n - bf, x) /\ ff - mm = x + bf
      BY <2>2, <2>3, <2>6, <3>1
    <3>3. bf + Less(n - bf, x) = Less(n, x + bf)
      BY <1>13, <3>2 DEF Less
    <3>. QED BY <3>2, <3>3
  <2>8. ba + r \in Nat /\ ba <= ba + r /\ u + (ba + r) = mm + (bf + r) /\ ba + r <= oe
    <3>. HIDE DEF r
    <3>1. oe \in Nat
      BY <1>5
    <3>. QED BY <1>4, <1>13, <2>4, <3>1
  <2>. HIDE DEF r
  <2>9. [at |-> k, pos |-> ba + r, moved |-> bf + r].at = k
         /\ [at |-> k, pos |-> ba + r, moved |-> bf + r].pos = ba + r
         /\ [at |-> k, pos |-> ba + r, moved |-> bf + r].moved = bf + r
    OBVIOUS
  <2>10. Spot(mem, k, ba + r) = mm + (bf + r)
    BY <1>12, <2>8 DEF Spot
  <2>11. ~(k < last)
    BY <1>5, <1>16
  <2>12. CommitStop(b, last, n) = [at |-> k, pos |-> ba + r, moved |-> bf + r]
    BY <1>6, <1>12
  <2>13. k = ot => op <= ba + r
    BY <1>14, <2>8
  <2>. QED BY <1>1, <1>3, <1>10, <1>12, <2>7, <2>8, <2>9, <2>10, <2>11, <2>12, <2>13
<1>. QED BY <1>5, <1>10, <1>15, <1>16

\* Where commit leaves out_: behind the last block if that one is full.
CmFull(b, last, n) ==
  CommitStop(b, last, n).at = last /\ CommitStop(b, last, n).pos = Len(b.mem[last])
CmOut(b, last, n) == IF CmFull(b, last, n) THEN last + 1 ELSE CommitStop(b, last, n).at
CmPos(b, last, n) == IF CmFull(b, last, n) THEN 0 ELSE CommitStop(b, last, n).pos
CmEnd(b, last, n) == IF CmFull(b, last, n) THEN 0 ELSE b.outEnd

LEMMA CommitCut ==
  ASSUME NEW b, NEW bg, NEW ip, NEW last \in Nat, b.out <= last,
         CutOK(b.mem, bg, b.out, last + 1, ip, b.outPos, b.outEnd), NEW n \in Nat
  PROVE  LET ot == CmOut(b, last, n)
             op == CmPos(b, last, n)
             oe == CmEnd(b, last, n)
             mm == Spot(b.mem, b.out, b.outPos)
             ff == Fin(b.mem, b.out, last + 1, b.outPos, b.outEnd)
         IN  /\ CutOK(b.mem, bg, ot, last + 1, ip, op, oe)
             /\ Spot(b.mem, ot, op) = mm + Less(n, ff - mm)
             /\ Fin(b.mem, ot, last + 1, op, oe) = ff
             /\ ot <= last => op < Len(b.mem[ot])
<1>0. PICK full, ot, op, oe, mm, ff :
        /\ full = CmFull(b, last, n) /\ ot = CmOut(b, last, n) /\ op = CmPos(b, last, n)
        /\ oe = CmEnd(b, last, n) /\ mm = Spot(b.mem, b.out, b.outPos)
        /\ ff = Fin(b.mem, b.out, last + 1, b.outPos, b.outEnd)
  OBVIOUS
<1>a. /\ full <=> (CommitStop(b, last, n).at = last
                   /\ CommitStop(b, last, n).pos = Len(b.mem[last]))
      /\ ot = (IF full THEN last + 1 ELSE CommitStop(b, last, n).at)
      /\ op = (IF full THEN 0 ELSE CommitStop(b, last, n).pos)
      /\ oe = (IF full THEN 0 ELSE b.outEnd)
  BY <1>0, Zenon DEF CmFull, CmOut, CmPos, CmEnd
<1>1. PICK mem, o0, p0, e0 : mem = b.mem /\ o0 = b.out /\ p0 = b.outPos /\ e0 = b.outEnd
  OBVIOUS
<1>2. CutOK(mem, bg, o0, last + 1, ip, p0, e0) /\ o0 <= last
  BY <1>1
<1>3. PICK q, r, d : /\ q = CommitStop(b, last, n).at /\ r = CommitStop(b, last, n).pos
                     /\ d = CommitStop(b, last, n).moved
  OBVIOUS
<1>4. /\ q \in o0 .. last /\ r \in Nat /\ d = Less(n, ff - mm)
      /\ Spot(mem, q, r) = mm + d
      /\ q < last => r < Len(mem[q])
      /\ q = last => r <= e0
      /\ q = o0 => p0 <= r
  BY <1>0, <1>1, <1>3, CommitStopIs
<1>5. /\ mem \in Memory /\ bg \in Nat \ {0} /\ o0 \in Nat /\ last + 1 \in Nat
      /\ ip \in Nat /\ p0 \in Nat /\ e0 \in Nat /\ bg <= o0 /\ last + 1 <= Len(mem) + 1
      /\ (o0 < last + 1 => p0 <= Len(mem[o0]) /\ e0 <= Len(mem[(last + 1) - 1]))
      /\ (bg < o0 => ip <= Len(mem[bg])) /\ (bg = o0 => ip <= p0)
  BY <1>2 DEF CutOK
<1>6. /\ Len(mem) \in Nat /\ o0 \in 1 .. Len(mem) /\ last \in 1 .. Len(mem)
      /\ (last + 1) - 1 = last /\ last - 1 \in 0 .. Len(mem) /\ bg \in 1 .. Len(mem)
      /\ q \in 1 .. Len(mem) /\ q \in Nat
  <2>1. Len(mem) \in Nat
    BY <1>5, EndFacts
  <2>2. PICK w : w = Len(mem)
    OBVIOUS
  <2>3. /\ w \in Nat /\ bg \in Nat \ {0} /\ o0 \in Nat /\ last + 1 \in Nat /\ last + 1 <= w + 1
        /\ bg <= o0 /\ o0 <= last
    BY <1>2, <1>5, <2>1, <2>2
  <2>4. last \in Int
    BY <1>0, <1>1
  <2>5. q \in o0 .. last
    BY <1>4
  <2>. QED BY <2>2, <2>3, <2>4, <2>5
<1>7. Len(mem[last]) \in Nat /\ Len(mem[o0]) \in Nat /\ Len(mem[bg]) \in Nat
      /\ Len(mem[q]) \in Nat
      /\ End(mem, last - 1) \in Nat /\ End(mem, last) = End(mem, last - 1) + Len(mem[last])
  BY <1>5, <1>6, EndFacts
<1>8. p0 <= Len(mem[o0]) /\ e0 <= Len(mem[last])
  BY <1>2, <1>5, <1>6
<1>9. ip <= Len(mem[bg])
  <2>1. CASE bg < o0
    BY <1>5, <2>1
  <2>2. CASE bg = o0
    BY <1>5, <1>7, <1>8, <2>2
  <2>. QED BY <1>5, <2>1, <2>2
<1>10. ff = End(mem, last - 1) + e0
  <2>1. o0 # last + 1
    BY <1>2, <1>5
  <2>. QED BY <1>0, <1>1, <1>6, <2>1 DEF Fin, Spot
<1>11. CASE full
  <2>1. q = last /\ r = Len(mem[last]) /\ ot = last + 1 /\ op = 0 /\ oe = 0
    BY <1>1, <1>3, <1>a, <1>11
  <2>2. e0 = Len(mem[last])
    BY <1>4, <1>5, <1>7, <1>8, <2>1
  <2>3. bg < ot /\ ot \in Nat
    BY <1>2, <1>5, <1>6, <2>1
  <2>4. ot # (last + 1) - 1 /\ ~(ot < last + 1) /\ bg <= ot /\ ot <= last + 1 /\ bg # ot
        /\ ~(ot <= last)
    BY <1>5, <1>6, <2>1, <2>3
  <2>5. CutOK(mem, bg, ot, last + 1, ip, op, oe)
    BY <1>5, <1>9, <2>1, <2>3, <2>4 DEF CutOK
  <2>6. Spot(mem, ot, op) = End(mem, last) + 0
    BY <1>6, <2>1 DEF Spot
  <2>7. Spot(mem, q, r) = End(mem, last - 1) + Len(mem[last])
    BY <2>1 DEF Spot
  <2>8. Spot(mem, ot, op) = Spot(mem, q, r)
    BY <1>7, <2>6, <2>7
  <2>9. Fin(mem, ot, last + 1, op, oe) = Spot(mem, ot, op)
    BY <2>1 DEF Fin
  <2>10. ff = Spot(mem, q, r)
    BY <1>10, <2>2, <2>7
  <2>. QED BY <1>0, <1>1, <1>4, <2>4, <2>5, <2>8, <2>9, <2>10
<1>12. CASE ~full
  <2>1. ot = q /\ op = r /\ oe = e0 /\ ~(q = last /\ r = Len(mem[last]))
    BY <1>1, <1>3, <1>a, <1>12
  <2>2. r < Len(mem[q])
    <3>1. CASE q < last
      BY <1>4, <3>1
    <3>2. CASE q = last
      BY <1>4, <1>5, <1>7, <1>8, <2>1, <3>2
    <3>. QED BY <1>4, <1>6, <3>1, <3>2
  <2>3. bg <= q /\ q < last + 1 /\ q <= last + 1 /\ q # last + 1 /\ q <= last
    BY <1>4, <1>5, <1>6
  <2>4. bg = q => ip <= r
    <3>. SUFFICES ASSUME bg = q PROVE ip <= r
      OBVIOUS
    <3>1. q = o0 /\ bg = o0
      BY <1>4, <1>5, <1>6
    <3>. QED BY <1>4, <1>5, <3>1
  <2>5. q = (last + 1) - 1 => r <= e0
    BY <1>4, <1>6
  <2>6. r <= Len(mem[q])
    BY <1>4, <1>7, <2>2
  <2>7. CutOK(mem, bg, q, last + 1, ip, r, e0)
    BY <1>4, <1>5, <1>6, <1>8, <1>9, <2>3, <2>4, <2>5, <2>6 DEF CutOK
  <2>8. Fin(mem, q, last + 1, r, e0) = ff
    BY <1>6, <1>10, <2>3 DEF Fin, Spot
  <2>. QED BY <1>0, <1>1, <1>4, <2>1, <2>2, <2>7, <2>8
<1>. QED BY <1>11, <1>12

\* The record commit leaves.
LEMMA CommittedIs ==
  ASSUME NEW b, NEW last, NEW n
  PROVE  Committed(b, last, n)
           = [b EXCEPT !.out = CmOut(b, last, n), !.outPos = CmPos(b, last, n),
                       !.outEnd = CmEnd(b, last, n),
                       !.inSize = b.inSize + CommitStop(b, last, n).moved]
BY Zenon DEF Committed, CmFull, CmOut, CmPos, CmEnd

LEMMA SbCommitted ==
  ASSUME NEW b, SbGood(b), NEW n \in Nat
  PROVE  LET c == SbCommit(b, n)
         IN  /\ SbGood(c) /\ c.mem = b.mem /\ SbStart(c) = SbStart(b) /\ SbFin(c) = SbFin(b)
             /\ SbMid(c) = SbMid(b) + Less(n, SbFin(b) - SbMid(b))
<1>1. /\ b \in SbRec /\ CutOK(b.mem, 1, b.out, Len(b.mem) + 1, b.inPos, b.outPos, b.outEnd)
      /\ b.inSize = SbMid(b) - SbStart(b)
      /\ \A i \in 1 .. Len(b.mem) : Len(b.mem[i]) > 0
      /\ b.out <= Len(b.mem) => b.outPos < Len(b.mem[b.out])
      /\ Len(b.mem) > 0 => b.inPos < Len(b.mem[1])
  BY DEF SbGood
<1>2. PICK last : last = Len(b.mem)
  OBVIOUS
<1>3. last \in Nat /\ b.out \in Nat /\ b.out <= last + 1
  BY <1>1, <1>2, CutFacts DEF CutOK
<1>4. /\ SbStart(b) \in Nat /\ SbMid(b) \in Nat /\ SbFin(b) \in Nat
      /\ SbStart(b) <= SbMid(b) /\ SbMid(b) <= SbFin(b)
  BY <1>1, CutOrder DEF SbStart, SbMid, SbFin
<1>5. CASE b.out > last
  <2>1. SbCommit(b, n) = b
    BY <1>2, <1>5 DEF SbCommit, SbAtEnd
  <2>2. b.out = last + 1
    BY <1>3, <1>5
  <2>3. SbFin(b) = SbMid(b)
    BY <1>2, <2>2 DEF SbFin, SbMid, Fin
  <2>4. SbMid(b) + Less(n, SbFin(b) - SbMid(b)) = SbMid(b)
    <3>1. PICK v : v = SbMid(b)
      OBVIOUS
    <3>2. v \in Nat /\ v - v = 0 /\ v + Less(n, 0) = v
      BY <1>4, <3>1 DEF Less
    <3>. QED BY <2>3, <3>1, <3>2
  <2>. QED BY <2>1, <2>4
<1>6. CASE b.out <= last
  <2>2. PICK ot, op, oe, d :
          /\ ot = CmOut(b, last, n) /\ op = CmPos(b, last, n) /\ oe = CmEnd(b, last, n)
          /\ d = b.inSize + CommitStop(b, last, n).moved
    OBVIOUS
  <2>3. PICK c : c = [b EXCEPT !.out = ot, !.outPos = op, !.outEnd = oe, !.inSize = d]
    OBVIOUS
  <2>4. SbCommit(b, n) = c
    <3>1. SbCommit(b, n) = Committed(b, last, n)
      <4>1. ~SbAtEnd(b)
        BY <1>2, <1>3, <1>6 DEF SbAtEnd
      <4>. QED BY <1>2, <4>1, Zenon DEF SbCommit
    <3>. QED BY <2>2, <2>3, <3>1, CommittedIs, Zenon
  <2>5. PICK mm, ff : mm = Spot(b.mem, b.out, b.outPos)
                      /\ ff = Fin(b.mem, b.out, last + 1, b.outPos, b.outEnd)
    OBVIOUS
  <2>6. CutOK(b.mem, 1, b.out, last + 1, b.inPos, b.outPos, b.outEnd)
    BY <1>1, <1>2
  <2>7. /\ CutOK(b.mem, 1, ot, last + 1, b.inPos, op, oe)
        /\ Spot(b.mem, ot, op) = mm + Less(n, ff - mm)
        /\ Fin(b.mem, ot, last + 1, op, oe) = ff
        /\ ot <= last => op < Len(b.mem[ot])
    BY <1>3, <1>6, <2>2, <2>5, <2>6, CommitCut
  <2>8. CommitStop(b, last, n).moved = Less(n, ff - mm)
    BY <1>3, <1>6, <2>5, <2>6, CommitStopIs
  <2>9. mm = SbMid(b) /\ ff = SbFin(b)
    BY <1>2, <2>5 DEF SbMid, SbFin
  <2>10. d = b.inSize + Less(n, ff - mm) /\ Less(n, ff - mm) \in Nat
    <3>1. ff - mm \in Nat
      BY <1>4, <2>9
    <3>. QED BY <2>2, <2>8, <3>1, LessFacts
  <2>11. b.inSize \in Nat /\ ot \in Nat /\ op \in Nat /\ oe \in Nat
    BY <1>1, <2>7 DEF SbRec, CutOK
  <2>12. d \in Nat
    BY <2>10, <2>11
  <2>13. /\ c \in SbRec /\ c.mem = b.mem /\ c.inPos = b.inPos /\ c.out = ot /\ c.outPos = op
         /\ c.outEnd = oe /\ c.inSize = d
    BY <1>1, <2>3, <2>11, <2>12 DEF SbRec
  <2>14. SbStart(c) = SbStart(b) /\ SbMid(c) = mm + Less(n, ff - mm) /\ SbFin(c) = ff
    BY <1>2, <2>7, <2>13 DEF SbStart, SbMid, SbFin
  <2>15. c.inSize = SbMid(c) - SbStart(c)
    <3>1. PICK s, v : s = SbStart(b) /\ v = Less(n, ff - mm)
      OBVIOUS
    <3>2. s \in Nat /\ v \in Nat /\ mm \in Nat /\ b.inSize = mm - s
      BY <1>1, <1>4, <2>9, <2>10, <3>1
    <3>3. (mm - s) + v = (mm + v) - s
      BY <3>2
    <3>. QED BY <2>10, <2>13, <2>14, <3>1, <3>2, <3>3
  <2>16. CutOK(c.mem, 1, c.out, Len(c.mem) + 1, c.inPos, c.outPos, c.outEnd)
    BY <1>2, <2>7, <2>13
  <2>17. c.out <= Len(c.mem) => c.outPos < Len(c.mem[c.out])
    BY <1>2, <2>7, <2>13
  <2>18. SbGood(c)
    BY <1>1, <2>13, <2>15, <2>16, <2>17 DEF SbGood
  <2>. QED BY <2>4, <2>9, <2>13, <2>14, <2>18
<1>. QED BY <1>3, <1>5, <1>6

LEMMA BaCommitted ==
  ASSUME NEW b, BaGood(b), NEW n \in Nat
  PROVE  LET c == BaCommit(b, n)
         IN  /\ BaGood(c) /\ c.mem = b.mem /\ BaStart(c) = BaStart(b) /\ BaFin(c) = BaFin(b)
             /\ BaMid(c) = BaMid(b) + Less(n, BaFin(b) - BaMid(b))
<1>1. /\ b \in BaRec /\ CutOK(b.mem, b.begin, b.out, b.end, b.inPos, b.outPos, b.outEnd)
      /\ b.inSize = BaMid(b) - BaStart(b)
      /\ b.maxSize = End(b.mem, Len(b.mem)) - BaMid(b)
  BY DEF BaGood
<1>2. PICK last : last = b.end - 1
  OBVIOUS
<1>3. last \in Nat /\ b.out \in Nat /\ b.out <= last + 1 /\ b.end = last + 1 /\ b.end \in Nat
  <2>1. b.out <= b.end /\ b.out \in 1 .. Len(b.mem) + 1 /\ b.end \in 1 .. Len(b.mem) + 1
        /\ Len(b.mem) \in Nat
    BY <1>1, CutFacts
  <2>. QED BY <1>2, <2>1
<1>4. /\ BaStart(b) \in Nat /\ BaMid(b) \in Nat /\ BaFin(b) \in Nat
      /\ BaStart(b) <= BaMid(b) /\ BaMid(b) <= BaFin(b)
  BY <1>1, CutOrder DEF BaStart, BaMid, BaFin
<1>5. CASE b.out = b.end
  <2>1. BaCommit(b, n) = b
    BY <1>5 DEF BaCommit
  <2>3. BaFin(b) = BaMid(b)
    BY <1>5 DEF BaFin, BaMid, Fin
  <2>4. BaMid(b) + Less(n, BaFin(b) - BaMid(b)) = BaMid(b)
    <3>1. PICK v : v = BaMid(b)
      OBVIOUS
    <3>2. v \in Nat /\ v - v = 0 /\ v + Less(n, 0) = v
      BY <1>4, <3>1 DEF Less
    <3>. QED BY <2>3, <3>1, <3>2
  <2>. QED BY <2>1, <2>4
<1>6. CASE b.out # b.end
  <2>0. b.out <= last
    BY <1>3, <1>6
  <2>2. PICK ot, op, oe, d, mv, mx :
          /\ ot = CmOut(b, last, n) /\ op = CmPos(b, last, n) /\ oe = CmEnd(b, last, n)
          /\ mv = CommitStop(b, last, n).moved
          /\ d = b.inSize + CommitStop(b, last, n).moved
          /\ mx = b.maxSize - mv
    OBVIOUS
  <2>3. PICK c0 : c0 = [b EXCEPT !.out = ot, !.outPos = op, !.outEnd = oe, !.inSize = d]
    OBVIOUS
  <2>4. Committed(b, last, n) = c0
    BY <2>2, <2>3, CommittedIs, Zenon
  <2>5. PICK mm, ff : mm = Spot(b.mem, b.out, b.outPos)
                      /\ ff = Fin(b.mem, b.out, last + 1, b.outPos, b.outEnd)
    OBVIOUS
  <2>6. CutOK(b.mem, b.begin, b.out, last + 1, b.inPos, b.outPos, b.outEnd)
    BY <1>1, <1>3
  <2>7. /\ CutOK(b.mem, b.begin, ot, last + 1, b.inPos, op, oe)
        /\ Spot(b.mem, ot, op) = mm + Less(n, ff - mm)
        /\ Fin(b.mem, ot, last + 1, op, oe) = ff
        /\ ot <= last => op < Len(b.mem[ot])
    BY <1>3, <2>0, <2>2, <2>5, <2>6, CommitCut
  <2>8. mv = Less(n, ff - mm)
    BY <1>3, <2>0, <2>2, <2>5, <2>6, CommitStopIs
  <2>9. mm = BaMid(b) /\ ff = BaFin(b)
    BY <1>3, <2>5 DEF BaMid, BaFin
  <2>10. mv \in Nat /\ mv <= ff - mm /\ mm \in Nat /\ ff \in Nat
    <3>1. ff - mm \in Nat
      BY <1>4, <2>9
    <3>. QED BY <1>4, <2>8, <2>9, <3>1, LessFacts
  <2>11. b.inSize \in Nat /\ ot \in Nat /\ op \in Nat /\ oe \in Nat /\ b.mem \in Memory
    BY <1>1, <2>7 DEF BaRec, CutOK
  <2>12. d \in Nat /\ d = b.inSize + mv
    BY <2>2, <2>10, <2>11
  <2>13. ff <= End(b.mem, Len(b.mem)) /\ End(b.mem, Len(b.mem)) \in Nat
    <3>1. /\ last \in 1 .. Len(b.mem) /\ Len(b.mem) \in Nat
          /\ b.outEnd \in Nat /\ b.outEnd <= Len(b.mem[last])
      <4>1. /\ b.out < b.end /\ b.end <= Len(b.mem) + 1 /\ b.outEnd \in Nat
            /\ b.outEnd <= Len(b.mem[b.end - 1]) /\ b.begin \in Nat \ {0} /\ b.begin <= b.out
        BY <1>1, <1>3, <1>6 DEF CutOK
      <4>2. Len(b.mem) \in Nat
        BY <2>11, EndFacts
      <4>3. b.outEnd <= Len(b.mem[last])
        BY <1>2, <4>1
      <4>4. PICK l, g, o : l = Len(b.mem) /\ g = b.begin /\ o = b.out
        OBVIOUS
      <4>5. /\ o < last + 1 /\ last + 1 <= l + 1 /\ g \in Nat \ {0} /\ g <= o /\ l \in Nat
            /\ o \in Nat
        BY <1>3, <4>1, <4>2, <4>4
      <4>6. last \in 1 .. l
        BY <1>3, <4>5
      <4>. QED BY <4>1, <4>2, <4>3, <4>4, <4>6
    <3>2. /\ last - 1 \in 0 .. Len(b.mem) /\ last \in 0 .. Len(b.mem)
          /\ Len(b.mem) \in 0 .. Len(b.mem) /\ Len(b.mem) \in last .. Len(b.mem)
          /\ (last + 1) - 1 = last /\ b.out # last + 1
      BY <1>3, <2>0, <3>1
    <3>3. /\ End(b.mem, last) = End(b.mem, last - 1) + Len(b.mem[last])
          /\ End(b.mem, last - 1) \in Nat /\ End(b.mem, Len(b.mem)) \in Nat
          /\ Len(b.mem[last]) \in Nat
      BY <2>11, <3>1, <3>2, EndFacts
    <3>4. End(b.mem, last) <= End(b.mem, Len(b.mem))
      BY <2>11, <3>2, EndGrows
    <3>5. ff = End(b.mem, last - 1) + b.outEnd
      BY <2>5, <3>2 DEF Fin, Spot
    <3>6. PICK u, v, w, e : u = End(b.mem, last - 1) /\ v = Len(b.mem[last])
                            /\ w = End(b.mem, Len(b.mem)) /\ e = b.outEnd
      OBVIOUS
    <3>7. u \in Nat /\ v \in Nat /\ w \in Nat /\ e \in Nat /\ u + v <= w /\ e <= v /\ ff = u + e
      BY <3>1, <3>3, <3>4, <3>5, <3>6
    <3>8. ff <= w
      BY <3>7
    <3>. QED BY <3>3, <3>6, <3>8
  <2>14. mx \in Nat /\ mx = End(b.mem, Len(b.mem)) - (mm + mv)
    <3>1. PICK w : w = End(b.mem, Len(b.mem))
      OBVIOUS
    <3>2. w \in Nat /\ ff <= w /\ mx = (w - mm) - mv
      BY <1>1, <2>2, <2>9, <2>13, <3>1
    <3>. QED BY <2>10, <3>1, <3>2
  <2>15. PICK c : c = [c0 EXCEPT !.maxSize = mx]
    OBVIOUS
  <2>16. /\ c0 \in BaRec /\ c0.mem = b.mem /\ c0.begin = b.begin /\ c0.end = b.end
         /\ c0.inPos = b.inPos /\ c0.out = ot /\ c0.outPos = op
         /\ c0.outEnd = oe /\ c0.inSize = d /\ c0.maxSize = b.maxSize
    BY <1>1, <2>3, <2>11, <2>12 DEF BaRec
  <2>17. BaCommit(b, n) = c
    <3>1. BaCommit(b, n) = [Committed(b, last, n) EXCEPT !.maxSize = @ - mv]
      BY <1>2, <1>6, <2>2, Zenon DEF BaCommit
    <3>2. [c0 EXCEPT !.maxSize = @ - mv] = [c0 EXCEPT !.maxSize = c0.maxSize - mv]
      OBVIOUS
    <3>. QED BY <2>2, <2>4, <2>15, <2>16, <3>1, <3>2
  <2>18. /\ c \in BaRec /\ c.mem = b.mem /\ c.begin = b.begin /\ c.end = b.end
         /\ c.inPos = b.inPos /\ c.out = ot /\ c.outPos = op
         /\ c.outEnd = oe /\ c.inSize = d /\ c.maxSize = mx
    BY <2>14, <2>15, <2>16 DEF BaRec
  <2>19. BaStart(c) = BaStart(b) /\ BaMid(c) = mm + mv /\ BaFin(c) = ff
    BY <1>3, <2>7, <2>8, <2>18 DEF BaStart, BaMid, BaFin
  <2>20. c.inSize = BaMid(c) - BaStart(c)
    <3>1. PICK s : s = BaStart(b)
      OBVIOUS
    <3>2. s \in Nat /\ b.inSize = mm - s
      BY <1>1, <1>4, <2>9, <3>1
    <3>3. (mm - s) + mv = (mm + mv) - s
      BY <2>10, <3>2
    <3>. QED BY <2>12, <2>18, <2>19, <3>1, <3>2, <3>3
  <2>21. CutOK(c.mem, c.begin, c.out, c.end, c.inPos, c.outPos, c.outEnd)
    BY <1>3, <2>7, <2>18
  <2>22. BaGood(c)
    BY <2>14, <2>18, <2>19, <2>20, <2>21 DEF BaGood
  <2>. QED BY <2>8, <2>9, <2>17, <2>18, <2>19, <2>22
<1>. QED BY <1>5, <1>6

\* What is left of the room from the place a walk has reached.
LEMMA RestOfWalk ==
  ASSUME NEW ea \in Int, NEW ez \in Int, NEW x \in Int, NEW y \in Int, NEW ba \in Int,
         NEW bf \in Int, (ea + x) + bf = ez + ba
  PROVE  (ez + y) - (ea + x) = (y - ba) + bf
  OBVIOUS

\* The same for the loop of consume, over the blocks a .. z of the input: k is
\* the block it stops in, bf what the blocks before hold of the input, and r
\* what it takes from block k.
WalkOK(mem, a, z, x, y, n, k, bf, ba, r) ==
  /\ mem \in Memory /\ a \in 1 .. Len(mem) + 1 /\ z \in a .. Len(mem) + 1
  /\ x \in Nat /\ y \in Nat /\ (a = z => x <= y) /\ n \in Nat /\ k \in a .. z
  /\ bf = (IF k = a THEN 0 ELSE Total(mem, a, k - 1) - x) /\ bf <= n
  /\ (k < z => Total(mem, a, k) - x > n)
  /\ ba = (IF k = a THEN x ELSE 0)
  /\ r = (IF k < z THEN n - bf ELSE Less(n - bf, y - ba))

LEMMA Walk ==
  ASSUME NEW mem, NEW a, NEW z, NEW x, NEW y, NEW n, NEW k, NEW bf, NEW ba, NEW r,
         WalkOK(mem, a, z, x, y, n, k, bf, ba, r)
  PROVE  /\ bf \in Int /\ ba \in Nat /\ r \in Nat
         /\ bf + r = Less(n, Spot(mem, z, y) - Spot(mem, a, x))
         /\ Spot(mem, k, ba + r) = Spot(mem, a, x) + (bf + r)
         /\ Spot(mem, k, ba) = Spot(mem, a, x) + bf
         /\ k < z => ba + r < Len(mem[k])
         /\ k = z => ba + r <= y /\ ba <= y
         /\ k = a => x <= ba + r
<1>a. /\ mem \in Memory /\ a \in 1 .. Len(mem) + 1 /\ z \in a .. Len(mem) + 1
      /\ x \in Nat /\ y \in Nat /\ (a = z => x <= y) /\ n \in Nat /\ k \in a .. z
      /\ bf = (IF k = a THEN 0 ELSE Total(mem, a, k - 1) - x) /\ bf <= n
      /\ (k < z => Total(mem, a, k) - x > n)
      /\ ba = (IF k = a THEN x ELSE 0)
      /\ r = (IF k < z THEN n - bf ELSE Less(n - bf, y - ba))
  BY DEF WalkOK
<1>. USE <1>a
<1>1. Len(mem) \in Nat /\ a \in Nat /\ z \in Nat /\ k \in Nat
  BY EndFacts
<1>2. /\ a - 1 \in 0 .. Len(mem) /\ k - 1 \in 0 .. Len(mem) /\ z - 1 \in 0 .. Len(mem)
      /\ k - 1 \in a - 1 .. Len(mem) /\ z - 1 \in k - 1 .. Len(mem)
  BY <1>1
<1>3. PICK ea, ek, ez : ea = End(mem, a - 1) /\ ek = End(mem, k - 1) /\ ez = End(mem, z - 1)
  OBVIOUS
<1>4. ea \in Nat /\ ek \in Nat /\ ez \in Nat /\ ea <= ek /\ ek <= ez
  BY <1>2, <1>3, EndFacts, EndGrows
<1>5. bf \in Int /\ ba \in Nat /\ (ea + x) + bf = ek + ba
  <2>1. CASE k = a
    <3>1. ek = ea /\ bf = 0 /\ ba = x
      BY <1>3, <2>1
    <3>. QED BY <1>4, <3>1
  <2>2. CASE k # a
    <3>1. Total(mem, a, k - 1) = ek - ea
      BY <1>2, <1>3, TotalByEnds
    <3>2. bf = (ek - ea) - x /\ ba = 0
      BY <2>2, <3>1
    <3>. QED BY <1>4, <3>2
  <2>. QED BY <2>1, <2>2
<1>6. /\ Spot(mem, z, y) = ez + y /\ Spot(mem, a, x) = ea + x /\ Spot(mem, k, ba) = ek + ba
      /\ Spot(mem, k, ba + r) = ek + (ba + r)
  BY <1>3 DEF Spot
<1>7. CASE k < z
  <2>1. r = n - bf
    BY <1>7
  <2>2. k \in 1 .. Len(mem) /\ k \in 0 .. Len(mem) /\ z - 1 \in k .. Len(mem) /\ k # z
        /\ k \in a - 1 .. Len(mem)
    BY <1>1, <1>7
  <2>3. PICK len, e : len = Len(mem[k]) /\ e = End(mem, k)
    OBVIOUS
  <2>4. len \in Nat /\ e = ek + len /\ e <= ez
    BY <1>3, <2>2, <2>3, EndFacts, EndGrows
  <2>5. Total(mem, a, k) = e - ea
    BY <1>3, <2>2, <2>3, TotalByEnds
  <2>6. (e - ea) - x > n
    BY <1>7, <2>5
  <2>7. (ea + x) + n < ek + len /\ (ea + x) + n < ez + y
    BY <1>4, <2>4, <2>6
  <2>8. bf + r = n /\ n <= (ez + y) - (ea + x)
    <3>1. PICK u, v : u = bf /\ v = r
      OBVIOUS
    <3>2. u \in Int /\ v = n - u
      BY <1>5, <2>1, <3>1
    <3>3. u + v = n
      BY <1>4, <3>2
    <3>4. n <= (ez + y) - (ea + x)
      BY <1>4, <2>7
    <3>. QED BY <3>1, <3>3, <3>4
  <2>9. bf + r = Less(n, (ez + y) - (ea + x))
    BY <2>8 DEF Less
  <2>a. PICK f, g : f = bf /\ g = ea + x
    OBVIOUS
  <2>b. f \in Int /\ f <= n /\ g \in Nat /\ g + f = ek + ba /\ g + n < ek + len /\ r = n - f
    BY <1>4, <1>5, <2>1, <2>7, <2>a
  <2>c. n - f \in Nat /\ ba + (n - f) < len /\ ek + (ba + (n - f)) = g + (f + (n - f))
    BY <1>4, <1>5, <2>4, <2>b
  <2>10. r \in Nat /\ ba + r < len /\ ek + (ba + r) = (ea + x) + (bf + r)
    BY <2>a, <2>b, <2>c
  <2>11. k = a => x <= ba + r
    BY <1>5, <2>10
  <2>. QED BY <1>5, <1>6, <2>2, <2>3, <2>9, <2>10, <2>11
<1>8. CASE k = z
  <2>1. ~(k < z) /\ ek = ez
    BY <1>1, <1>3, <1>8
  <2>2. r = Less(n - bf, y - ba)
    BY <2>1
  <2>3. ba <= y
    BY <1>8
  <2>4. n - bf \in Nat /\ y - ba \in Nat
    BY <1>5, <2>3
  <2>5. r \in Nat /\ r <= y - ba
    BY <2>2, <2>4, LessFacts
  <2>6. (ez + y) - (ea + x) = (y - ba) + bf
    <3>1. (ea + x) + bf = ez + ba
      BY <1>5, <2>1, Zenon
    <3>2. ea \in Int /\ ez \in Int /\ x \in Int /\ y \in Int /\ ba \in Int /\ bf \in Int
      BY <1>4, <1>5
    <3>. HIDE <1>a
    <3>. QED BY <3>1, <3>2, RestOfWalk
  <2>7. bf + r = Less(n, (ez + y) - (ea + x))
    <3>1. PICK v : v = y - ba
      OBVIOUS
    <3>2. v \in Nat /\ bf + Less(n - bf, v) = Less(n, v + bf)
      BY <1>5, <2>4, <3>1 DEF Less
    <3>. QED BY <2>2, <2>6, <3>1, <3>2
  <2>a. PICK f, g : f = bf /\ g = ea + x
    OBVIOUS
  <2>b. f \in Int /\ g \in Nat /\ g + f = ek + ba /\ ba \in Nat
    BY <1>4, <1>5, <2>a
  <2>c. ba + r <= y /\ ek + (ba + r) = g + (f + r)
    <3>1. PICK q : q = r
      OBVIOUS
    <3>2. q \in Nat /\ q <= y - ba
      BY <2>5, <3>1
    <3>3. ba + q <= y /\ ek + (ba + q) = g + (f + q)
      BY <1>4, <2>3, <2>b, <3>2
    <3>. QED BY <3>1, <3>3
  <2>8. ba + r <= y /\ ek + (ba + r) = (ea + x) + (bf + r)
    BY <2>a, <2>c
  <2>9. k = a => x <= ba + r
    BY <1>5, <2>5
  <2>. QED BY <1>5, <1>6, <2>1, <2>3, <2>5, <2>7, <2>8, <2>9
<1>. QED BY <1>1, <1>7, <1>8

\* The bytes that are left are known by their new distance from the start.
LEMMA KnownLater ==
  ASSUME NEW mem \in Memory, NEW s \in Int, NEW n \in Int, NEW t \in Int, NEW d \in Nat,
         Known(mem, s, n, t)
  PROVE  Known(mem, s + d, n - d, t + d)
<1>. SUFFICES ASSUME NEW i \in 1 .. Len(mem), NEW k \in 1 .. Len(mem[i]),
                     s + d < End(mem, i - 1) + k, End(mem, i - 1) + k <= (s + d) + (n - d)
              PROVE  mem[i][k] = (t + d) + ((End(mem, i - 1) + k) - (s + d))
  BY DEF Known
<1>1. Len(mem) \in Nat /\ Len(mem[i]) \in Nat
  BY EndFacts
<1>2. i - 1 \in 0 .. Len(mem) /\ k \in Nat
  BY <1>1
<1>3. End(mem, i - 1) \in Nat
  BY <1>2, EndFacts
<1>4. PICK p : p = End(mem, i - 1) + k
  OBVIOUS
<1>5. p \in Nat /\ s + d < p /\ p <= (s + d) + (n - d)
  BY <1>2, <1>3, <1>4
<1>6. s < p /\ p <= s + n /\ (t + d) + (p - (s + d)) = t + (p - s)
  BY <1>5
<1>7. mem[i][k] = t + (p - s)
  BY <1>4, <1>6 DEF Known
<1>. QED BY <1>4, <1>6, <1>7

LEMMA BaConsumed ==
  ASSUME NEW b, BaGood(b), NEW n \in Nat
  PROVE  LET c == BaConsume(b, n)
         IN  /\ BaGood(c) /\ c.mem = b.mem /\ BaMid(c) = BaMid(b) /\ BaFin(c) = BaFin(b)
             /\ BaStart(c) = BaStart(b) + Less(n, BaMid(b) - BaStart(b))
<1>1. /\ b \in BaRec /\ CutOK(b.mem, b.begin, b.out, b.end, b.inPos, b.outPos, b.outEnd)
      /\ b.inSize = BaMid(b) - BaStart(b)
      /\ b.maxSize = End(b.mem, Len(b.mem)) - BaMid(b)
  BY DEF BaGood
<1>2. PICK mem, a, z, en, x, y, oe :
        /\ mem = b.mem /\ a = b.begin /\ z = b.out /\ en = b.end /\ x = b.inPos
        /\ y = b.outPos /\ oe = b.outEnd
  OBVIOUS
<1>3. CutOK(mem, a, z, en, x, y, oe)
  BY <1>1, <1>2
<1>4. /\ mem \in Memory /\ a \in 1 .. Len(mem) + 1 /\ z \in a .. Len(mem) + 1
      /\ x \in Nat /\ y \in Nat /\ (a = z => x <= y) /\ a \in Nat /\ z \in Nat /\ Len(mem) \in Nat
      /\ a <= z
  <2>1. /\ mem \in Memory /\ a \in 1 .. Len(mem) + 1 /\ z \in 1 .. Len(mem) + 1 /\ a <= z
        /\ x \in Nat /\ y \in Nat /\ Len(mem) \in Nat
    BY <1>3, CutFacts
  <2>2. a = z => x <= y
    BY <1>3 DEF CutOK
  <2>. QED BY <2>1, <2>2
<1> DEFINE Bef(j) == IF j = a THEN 0 ELSE Total(mem, a, j - 1) - x
           S == {j \in a .. z : Bef(j) <= n}
           k == Max(S)
           ba == IF k = a THEN x ELSE 0
           r == IF k < z THEN n - Bef(k) ELSE Min({n - Bef(k), y - ba})
<1>5. BaConsume(b, n) = [b EXCEPT !.begin = k, !.inPos = ba + r,
                                  !.inSize = b.inSize - Bef(k) - r]
  BY <1>2, Zenon DEF BaConsume
<1>6. ASSUME NEW j \in a .. z PROVE Bef(j) \in Int
  <2>1. CASE j = a
    BY <2>1
  <2>2. CASE j # a
    <3>1. a \in 1 .. Len(mem) + 1 /\ j - 1 \in a - 1 .. Len(mem) /\ a - 1 \in 0 .. Len(mem)
          /\ j - 1 \in 0 .. Len(mem)
      BY <1>4, <2>2
    <3>2. Total(mem, a, j - 1) = End(mem, j - 1) - End(mem, a - 1)
      BY <1>4, <3>1, TotalByEnds
    <3>3. End(mem, j - 1) \in Nat /\ End(mem, a - 1) \in Nat
      BY <1>4, <3>1, EndFacts
    <3>. QED BY <1>4, <2>2, <3>2, <3>3
  <2>. QED BY <2>1, <2>2
<1>7. k \in a .. z /\ Bef(k) <= n /\ \A j \in a .. z : Bef(j) <= n => j <= k
  <2>0. Bef(a) = 0
    OBVIOUS
  <2>. HIDE DEF Bef
  <2>1. a \in S /\ S \subseteq Int /\ (\A y1 \in S : y1 <= z) /\ z \in Int
    BY <1>4, <2>0
  <2>2. k \in S /\ \A y1 \in S : y1 <= k
    <3>. HIDE DEF S
    <3>1. S # {}
      BY <2>1
    <3>. QED BY <2>1, <3>1, MaxOf, Zenon
  <2>. HIDE DEF k
  <2>. QED BY <2>2
<1>8. k < z => Total(mem, a, k) - x > n
  <2>. SUFFICES ASSUME k < z PROVE Total(mem, a, k) - x > n
    OBVIOUS
  <2>. HIDE DEF k
  <2>1. k + 1 \in a .. z /\ (k + 1) - 1 = k /\ k + 1 # a /\ ~(k + 1 <= k)
    BY <1>4, <1>7
  <2>2. ~(Bef(k + 1) <= n) /\ Bef(k + 1) \in Int
    <3>. HIDE DEF Bef
    <3>. QED BY <1>6, <1>7, <2>1
  <2>3. Bef(k + 1) = Total(mem, a, k) - x
    BY <2>1
  <2>. HIDE DEF Bef
  <2>. QED BY <2>2, <2>3
<1>9. PICK kk, bf, bb, rr : kk = k /\ bf = Bef(k) /\ bb = ba /\ rr = r
  OBVIOUS
<1>10. bf = (IF kk = a THEN 0 ELSE Total(mem, a, kk - 1) - x)
  BY <1>9, Zenon
<1>11. bb = (IF kk = a THEN x ELSE 0) /\ bb \in Nat
  <2>. HIDE DEF k
  <2>. QED BY <1>4, <1>9
<1>12. bf \in Int /\ bf <= n /\ kk \in a .. z /\ (kk < z => Total(mem, a, kk) - x > n)
  <2>. HIDE DEF k, Bef
  <2>. QED BY <1>6, <1>7, <1>8, <1>9
<1>13. rr = (IF kk < z THEN n - bf ELSE Less(n - bf, y - bb))
  <2>1. rr = (IF kk < z THEN n - bf ELSE Min({n - bf, y - bb}))
    BY <1>9, Zenon
  <2>2. n - bf \in Int /\ y - bb \in Int
    BY <1>4, <1>11, <1>12
  <2>3. Min({n - bf, y - bb}) = Less(n - bf, y - bb)
    BY <2>2, MinPair
  <2>. QED BY <2>1, <2>3
<1>14. BaConsume(b, n) = [b EXCEPT !.begin = kk, !.inPos = bb + rr,
                                   !.inSize = b.inSize - bf - rr]
  BY <1>5, <1>9, Zenon
<1>. HIDE DEF Bef, k, ba, r
<1>15. PICK s, m : s = Spot(mem, a, x) /\ m = Spot(mem, z, y)
  OBVIOUS
<1>16. /\ bb \in Nat /\ rr \in Nat /\ bf + rr = Less(n, m - s)
       /\ Spot(mem, kk, bb + rr) = s + (bf + rr)
       /\ kk < z => bb + rr < Len(mem[kk])
       /\ kk = z => bb + rr <= y
  <2>1. /\ rr \in Nat /\ bf + rr = Less(n, Spot(mem, z, y) - Spot(mem, a, x))
        /\ Spot(mem, kk, bb + rr) = Spot(mem, a, x) + (bf + rr)
        /\ kk < z => bb + rr < Len(mem[kk])
        /\ kk = z => bb + rr <= y /\ bb <= y
    <3>1. WalkOK(mem, a, z, x, y, n, kk, bf, bb, rr)
      BY <1>4, <1>10, <1>11, <1>12, <1>13 DEF WalkOK
    <3>. QED BY <3>1, Walk
  <2>. QED BY <1>11, <1>15, <2>1
<1>17. s \in Nat /\ m \in Nat /\ s <= m
  BY <1>3, <1>15, CutOrder
<1>18. PICK p, sz : p = bb + rr /\ sz = b.inSize - bf - rr
  OBVIOUS
<1>19. p \in Nat /\ sz \in Nat /\ sz = m - (s + (bf + rr))
  <2>1. b.inSize = m - s
    BY <1>1, <1>2, <1>15 DEF BaMid, BaStart
  <2>2. PICK d : d = bf + rr
    OBVIOUS
  <2>3. d \in Nat /\ d <= m - s
    <3>1. m - s \in Nat
      BY <1>17
    <3>. QED BY <1>16, <2>2, <3>1, LessFacts
  <2>4. (m - s) - bf - rr = (m - s) - (bf + rr)
    BY <1>12, <1>16, <1>17
  <2>5. (m - s) - d \in Nat /\ (m - s) - d = m - (s + d)
    BY <1>17, <2>3
  <2>. QED BY <1>16, <1>18, <2>1, <2>2, <2>4, <2>5
<1>20. kk \in Nat
  BY <1>4, <1>12
<1>21. PICK c : c = [b EXCEPT !.begin = kk, !.inPos = p, !.inSize = sz]
  OBVIOUS
<1>22. /\ c \in BaRec /\ c.mem = mem /\ c.begin = kk /\ c.out = z /\ c.end = en /\ c.inPos = p
       /\ c.inSize = sz /\ c.outPos = y /\ c.outEnd = oe /\ c.maxSize = b.maxSize
  BY <1>1, <1>2, <1>19, <1>20, <1>21 DEF BaRec
<1>23. CutOK(mem, kk, z, en, p, y, oe)
  <2>1. kk \in Nat \ {0} /\ kk <= z /\ (kk < z \/ kk = z) /\ (kk < z => kk \in 1 .. Len(mem))
    BY <1>4, <1>12
  <2>2. kk < z => p <= Len(mem[kk])
    <3>. SUFFICES ASSUME kk < z PROVE p <= Len(mem[kk])
      OBVIOUS
    <3>1. Len(mem[kk]) \in Nat
      BY <1>4, <2>1, EndFacts
    <3>. QED BY <1>16, <1>18, <1>19, <3>1
  <2>3. kk = z => p <= y
    BY <1>16, <1>18
  <2>. QED BY <1>3, <1>19, <2>1, <2>2, <2>3 DEF CutOK
<1>24. BaConsume(b, n) = c
  BY <1>14, <1>18, <1>21, Zenon
<1>25. BaStart(c) = s + Less(n, m - s) /\ BaMid(c) = m /\ BaStart(b) = s /\ BaMid(b) = m
       /\ BaFin(c) = BaFin(b)
  BY <1>2, <1>15, <1>16, <1>18, <1>22 DEF BaStart, BaMid, BaFin
<1>26. c.inSize = BaMid(c) - BaStart(c)
  BY <1>16, <1>19, <1>22, <1>25
<1>27. BaGood(c)
  BY <1>1, <1>2, <1>22, <1>23, <1>25, <1>26 DEF BaGood
<1>. QED BY <1>2, <1>22, <1>24, <1>25, <1>27


\* Without the first k blocks the bytes are still known, by their new places.
LEMMA KnownShift ==
  ASSUME NEW mem \in Memory, NEW k \in 0 .. Len(mem), NEW s \in Int, NEW n \in Int, NEW t \in Int,
         Known(mem, s, n, t)
  PROVE  Known(SubSeq(mem, k + 1, Len(mem)), s - End(mem, k), n, t)
<1>1. PICK c : c = SubSeq(mem, k + 1, Len(mem))
  OBVIOUS
<1>2. /\ c \in Memory /\ Len(c) = Len(mem) - k
      /\ \A i \in 1 .. Len(mem) - k : c[i] = mem[i + k]
      /\ \A i \in 0 .. Len(mem) - k : End(c, i) = End(mem, i + k) - End(mem, k)
  BY <1>1, EndShift
<1>3. Len(mem) \in Nat /\ End(mem, k) \in Nat /\ k \in Nat
  BY EndFacts
<1>4. PICK e : e = End(mem, k)
  OBVIOUS
<1>5. ASSUME NEW i \in 1 .. Len(c), NEW q \in 1 .. Len(c[i]),
             s - e < End(c, i - 1) + q, End(c, i - 1) + q <= (s - e) + n
      PROVE  c[i][q] = t + ((End(c, i - 1) + q) - (s - e))
  <2>1. i \in 1 .. Len(mem) - k /\ i - 1 \in 0 .. Len(mem) - k /\ i + k \in 1 .. Len(mem)
        /\ (i - 1) + k = (i + k) - 1 /\ (i + k) - 1 \in 0 .. Len(mem)
    BY <1>2, <1>3
  <2>2. c[i] = mem[i + k] /\ End(c, i - 1) = End(mem, (i + k) - 1) - e
    BY <1>2, <1>4, <2>1
  <2>3. PICK f : f = End(mem, (i + k) - 1)
    OBVIOUS
  <2>4. f \in Nat /\ e \in Nat
    BY <1>3, <1>4, <2>1, <2>3, EndFacts
  <2>5. q \in 1 .. Len(mem[i + k])
    BY <2>2
  <2>6. q \in Nat
    <3>1. Len(mem[i + k]) \in Nat
      BY <2>1, EndFacts
    <3>. QED BY <2>5, <3>1
  <2>7. s - e < (f - e) + q /\ (f - e) + q <= (s - e) + n
    BY <1>5, <2>2, <2>3
  <2>8. s < f + q /\ f + q <= s + n
    BY <2>4, <2>6, <2>7
  <2>9. mem[i + k][q] = t + ((f + q) - s)
    BY <2>1, <2>3, <2>5, <2>8 DEF Known
  <2>10. (f + q) - s = ((f - e) + q) - (s - e)
    BY <2>4, <2>6
  <2>. QED BY <2>2, <2>3, <2>9, <2>10
<1>. QED BY <1>1, <1>4, <1>5 DEF Known

\* A basic_streambuf without its first k blocks, which begins at byte p.
ShiftOK(b, k, p, z, c) ==
  /\ SbGood(b) /\ k \in Nat /\ k < b.out /\ p \in Nat /\ z \in Nat
  /\ (k + 1 < b.out => p < Len(b.mem[k + 1])) /\ (k + 1 = b.out => p <= b.outPos)
  /\ z = SbMid(b) - Spot(b.mem, k + 1, p)
  /\ c = [b EXCEPT !.mem = SubSeq(b.mem, k + 1, Len(b.mem)), !.out = b.out - k,
                    !.inPos = p, !.inSize = z]

LEMMA SbShifted ==
  ASSUME NEW b, NEW k, NEW p, NEW z, NEW c, ShiftOK(b, k, p, z, c)
  PROVE  /\ SbGood(c) /\ c.inSize = z /\ End(b.mem, k) \in Nat
         /\ SbStart(c) = Spot(b.mem, k + 1, p) - End(b.mem, k)
         /\ SbMid(c) = SbMid(b) - End(b.mem, k) /\ SbFin(c) = SbFin(b) - End(b.mem, k)
<1>s. /\ SbGood(b) /\ k \in Nat /\ k < b.out /\ p \in Nat /\ z \in Nat
      /\ (k + 1 < b.out => p < Len(b.mem[k + 1])) /\ (k + 1 = b.out => p <= b.outPos)
      /\ z = SbMid(b) - Spot(b.mem, k + 1, p)
      /\ c = [b EXCEPT !.mem = SubSeq(b.mem, k + 1, Len(b.mem)), !.out = b.out - k,
                        !.inPos = p, !.inSize = z]
  BY DEF ShiftOK
<1>. USE <1>s
<1>1. /\ b \in SbRec /\ b.inSize = SbMid(b) - SbStart(b)
      /\ CutOK(b.mem, 1, b.out, Len(b.mem) + 1, b.inPos, b.outPos, b.outEnd)
      /\ \A i \in 1 .. Len(b.mem) : Len(b.mem[i]) > 0
      /\ b.out <= Len(b.mem) => b.outPos < Len(b.mem[b.out])
      /\ Len(b.mem) > 0 => b.inPos < Len(b.mem[1])
  BY DEF SbGood
<1>2. PICK mem, ot, op, oe : mem = b.mem /\ ot = b.out /\ op = b.outPos /\ oe = b.outEnd
  OBVIOUS
<1>3. PICK l, e : l = Len(mem) /\ e = End(mem, k)
  OBVIOUS
<1>4. /\ mem \in Memory /\ l \in Nat /\ ot \in Nat /\ 1 <= ot /\ ot <= l + 1
      /\ op \in Nat /\ oe \in Nat /\ (ot = l + 1 => op = 0 /\ oe = 0)
      /\ (ot < l + 1 => op <= Len(mem[ot]) /\ oe <= Len(mem[l])) /\ (ot = l => op <= oe)
  <2>1. CutOK(mem, 1, ot, l + 1, b.inPos, op, oe)
    BY <1>1, <1>2, <1>3
  <2>2. (l + 1) - 1 = l /\ l \in Nat
    <3>1. mem \in Memory
      BY <2>1 DEF CutOK
    <3>2. l \in Nat
      BY <1>3, <3>1, EndFacts
    <3>. QED BY <3>2
  <2>. QED BY <2>1, <2>2 DEF CutOK
<1>5. k < ot /\ k \in 0 .. l /\ k + 1 \in 1 .. l + 1
  BY <1>2, <1>4
<1>6. PICK m : m = SubSeq(mem, k + 1, Len(mem))
  OBVIOUS
<1>7. /\ m \in Memory /\ Len(m) = l - k /\ (\A i \in 1 .. l - k : m[i] = mem[i + k])
      /\ \A i \in 0 .. l - k : End(m, i) = End(mem, i + k) - e
  <2>1. k \in 0 .. Len(mem)
    BY <1>3, <1>5
  <2>. QED BY <1>3, <1>4, <1>6, <2>1, EndShift
<1>a. k \in Nat /\ l \in Nat /\ ot \in Nat /\ k < ot /\ ot <= l + 1 /\ 1 <= ot
  BY <1>4, <1>5
<1>b. Len(m) = l - k
  BY <1>7
<1>8. e \in Nat /\ \A i \in 0 .. l : End(mem, i) \in Nat
  BY <1>3, <1>4, <1>5, EndFacts
<1>9. /\ c \in SbRec /\ c.mem = m /\ c.out = ot - k /\ c.inPos = p /\ c.inSize = z
      /\ c.outPos = op /\ c.outEnd = oe
  <2>1. PICK o : o = ot - k
    OBVIOUS
  <2>2. o \in Nat
    BY <1>4, <1>5, <2>1
  <2>3. c = [b EXCEPT !.mem = m, !.out = o, !.inPos = p, !.inSize = z]
    BY <1>2, <1>6, <2>1
  <2>. QED BY <1>1, <1>2, <1>7, <2>1, <2>2, <2>3 DEF SbRec
<1>10. Spot(m, 1, p) = Spot(mem, k + 1, p) - e
  <2>0. 0 \in 0 .. l - k /\ 0 + k = k /\ (k + 1) - 1 = k
    BY <1>a
  <2>1. End(m, 0) = End(mem, k) - e /\ (k + 1) - 1 = k
    BY <1>7, <2>0
  <2>2. End(m, 1 - 1) = 0
    BY <1>3, <1>8, <2>1
  <2>. QED BY <1>3, <1>8, <2>1, <2>2 DEF Spot
<1>11. Spot(m, ot - k, op) = Spot(mem, ot, op) - e
  <2>1. (ot - k) - 1 \in 0 .. l - k /\ ((ot - k) - 1) + k = ot - 1 /\ ot - 1 \in 0 .. l
    BY <1>a
  <2>2. End(m, (ot - k) - 1) = End(mem, ot - 1) - e
    BY <1>7, <2>1
  <2>3. PICK f : f = End(mem, ot - 1)
    OBVIOUS
  <2>4. f \in Nat
    BY <1>8, <2>1, <2>3
  <2>5. (f - e) + op = (f + op) - e
    BY <1>4, <1>8, <2>4
  <2>. QED BY <2>2, <2>3, <2>5 DEF Spot
<1>12. Fin(m, ot - k, Len(m) + 1, op, oe) = Fin(mem, ot, l + 1, op, oe) - e
  <2>0. Len(m) + 1 = (l + 1) - k /\ (ot - k = (l + 1) - k <=> ot = l + 1)
        /\ ((l + 1) - k) - 1 = l - k /\ (l + 1) - 1 = l
    BY <1>a, <1>b
  <2>1. CASE ot = l + 1
    BY <1>11, <2>0, <2>1 DEF Fin
  <2>2. CASE ot # l + 1
    <3>1. (l - k) - 1 \in 0 .. l - k /\ ((l - k) - 1) + k = l - 1 /\ l - 1 \in 0 .. l
      <4>1. k + 1 <= l
        BY <1>a, <2>2
      <4>2. (l - k) - 1 \in Nat /\ (l - k) - 1 <= l - k /\ l - k \in Nat /\ l - 1 \in Nat
        BY <1>a, <4>1
      <4>3. ((l - k) - 1) + k = l - 1
        BY <1>a
      <4>. QED BY <1>a, <4>2, <4>3
    <3>2. End(m, (l - k) - 1) = End(mem, l - 1) - e
      BY <1>7, <3>1
    <3>3. PICK f : f = End(mem, l - 1)
      OBVIOUS
    <3>4. f \in Nat
      BY <1>8, <3>1, <3>3
    <3>5. (f - e) + oe = (f + oe) - e
      BY <1>4, <1>8, <3>4
    <3>6. Spot(m, l - k, oe) = Spot(mem, l, oe) - e
      BY <3>2, <3>3, <3>5 DEF Spot
    <3>. QED BY <2>0, <2>2, <3>6 DEF Fin
  <2>. QED BY <2>1, <2>2
<1>13. /\ SbStart(c) = Spot(mem, k + 1, p) - e /\ SbMid(c) = SbMid(b) - e
       /\ SbFin(c) = SbFin(b) - e
  BY <1>2, <1>3, <1>9, <1>10, <1>11, <1>12 DEF SbStart, SbMid, SbFin
<1>14. c.inSize = SbMid(c) - SbStart(c)
  <2>1. SbMid(b) \in Int /\ Spot(mem, k + 1, p) \in Int
    <3>1. ot - 1 \in 0 .. l /\ (k + 1) - 1 \in 0 .. l
      BY <1>4, <1>5
    <3>2. End(mem, ot - 1) \in Nat /\ End(mem, (k + 1) - 1) \in Nat
      BY <1>8, <3>1
    <3>3. PICK u, v : u = End(mem, ot - 1) /\ v = End(mem, (k + 1) - 1)
      OBVIOUS
    <3>4. u \in Nat /\ v \in Nat /\ op \in Nat /\ p \in Nat
      BY <1>4, <3>2, <3>3
    <3>5. u + op \in Int /\ v + p \in Int
      BY <3>4
    <3>6. SbMid(b) = u + op /\ Spot(mem, k + 1, p) = v + p
      BY <1>2, <3>3 DEF SbMid, Spot
    <3>. QED BY <3>5, <3>6, Zenon
  <2>2. z = SbMid(b) - Spot(mem, k + 1, p)
    BY <1>2
  <2>. QED BY <1>8, <1>9, <1>13, <2>1, <2>2
<1>15. \A i \in 1 .. Len(m) : Len(m[i]) > 0
  <2>. TAKE i \in 1 .. Len(m)
  <2>1. i \in 1 .. l - k /\ i + k \in 1 .. l
    BY <1>4, <1>5, <1>7
  <2>. QED BY <1>1, <1>2, <1>3, <1>7, <2>1
<1>16. ot - k <= Len(m) => m[ot - k] = mem[ot] /\ op < Len(mem[ot])
  <2>. SUFFICES ASSUME ot - k <= Len(m) PROVE m[ot - k] = mem[ot] /\ op < Len(mem[ot])
    OBVIOUS
  <2>1. ot - k \in 1 .. l - k /\ (ot - k) + k = ot /\ ot <= l
    BY <1>4, <1>5, <1>7
  <2>. QED BY <1>1, <1>2, <1>3, <1>7, <2>1
<1>17. Len(m) > 0 => p < Len(m[1])
  <2>. SUFFICES ASSUME Len(m) > 0 PROVE p < Len(m[1])
    OBVIOUS
  <2>1. 1 \in 1 .. l - k /\ 1 + k = k + 1 /\ k + 1 \in 1 .. l
    BY <1>4, <1>5, <1>7
  <2>2. m[1] = mem[k + 1] /\ Len(mem[k + 1]) \in Nat
    <3>1. k + 1 \in 1 .. Len(mem)
      BY <1>3, <2>1
    <3>. QED BY <1>4, <1>7, <2>1, <3>1, EndFacts
  <2>3. CASE k + 1 < ot
    BY <1>2, <2>2, <2>3
  <2>4. CASE k + 1 = ot
    <3>1. p <= op /\ op < Len(mem[ot])
      BY <1>1, <1>2, <1>3, <1>4, <2>1, <2>4
    <3>2. p < Len(mem[ot])
      <4>1. PICK g : g = Len(mem[ot])
        OBVIOUS
      <4>2. g \in Nat
        BY <2>2, <2>4, <4>1
      <4>3. p < g
        BY <1>4, <3>1, <4>1, <4>2
      <4>. QED BY <4>1, <4>3
    <3>. QED BY <2>2, <2>4, <3>2
  <2>. QED BY <1>4, <1>5, <2>3, <2>4
<1>18. CutOK(m, 1, ot - k, Len(m) + 1, p, op, oe)
  <2>1. /\ ot - k \in Nat /\ Len(m) + 1 \in Nat /\ 1 <= ot - k /\ ot - k <= Len(m) + 1
        /\ Len(m) \in Nat /\ (Len(m) + 1) - 1 = Len(m)
        /\ (ot - k = Len(m) + 1 => ot = l + 1) /\ (ot - k < Len(m) + 1 => ot < l + 1)
        /\ (ot - k = Len(m) => ot = l) /\ (ot < l + 1 => Len(m) \in 1 .. l - k /\ Len(m) + k = l)
        /\ (1 = ot - k => k + 1 = ot) /\ (1 < ot - k => Len(m) > 0 /\ 1 \in 1 .. Len(m))
    <3>. HIDE <1>s
    <3>1. PICK o, lm : o = ot - k /\ lm = Len(m)
      OBVIOUS
    <3>2. o = ot - k /\ lm = l - k
      BY <1>b, <3>1
    <3>3. /\ o \in Nat /\ lm + 1 \in Nat /\ 1 <= o /\ o <= lm + 1
          /\ lm \in Nat /\ (lm + 1) - 1 = lm
          /\ (o = lm + 1 => ot = l + 1) /\ (o < lm + 1 => ot < l + 1)
          /\ (o = lm => ot = l) /\ lm + k = l
          /\ (1 = o => k + 1 = ot) /\ (1 < o => lm > 0)
      BY <1>a, <3>2
    <3>4. ot < l + 1 => lm > 0
      BY <1>a, <3>2
    <3>5. l - k = lm /\ (lm > 0 => 1 \in 1 .. lm /\ lm \in 1 .. lm)
      BY <3>2, <3>3
    <3>. QED BY <3>1, <3>3, <3>4, <3>5
  <2>2. ot < l + 1 => m[Len(m)] = mem[l]
    BY <1>7, <2>1
  <2>3. ot - k < Len(m) + 1 => op <= Len(m[ot - k]) /\ oe <= Len(m[Len(m)])
    <3>. HIDE <1>s
    <3>. SUFFICES ASSUME ot - k < Len(m) + 1
                  PROVE  op <= Len(m[ot - k]) /\ oe <= Len(m[Len(m)])
      OBVIOUS
    <3>1. ot < l + 1
      BY <2>1
    <3>2. ot - k <= Len(m)
      BY <2>1
    <3>3. m[ot - k] = mem[ot] /\ m[Len(m)] = mem[l]
      BY <1>16, <2>2, <3>1, <3>2
    <3>. QED BY <1>4, <3>1, <3>3
  <2>4. 1 < ot - k => p <= Len(m[1])
    <3>. SUFFICES ASSUME 1 < ot - k PROVE p <= Len(m[1])
      OBVIOUS
    <3>1. Len(m[1]) \in Nat /\ p < Len(m[1])
      BY <1>7, <1>17, <2>1, EndFacts
    <3>2. PICK g : g = Len(m[1])
      OBVIOUS
    <3>. QED BY <3>1, <3>2
  <2>5. 1 = ot - k => p <= op
    BY <1>2, <2>1
  <2>6. ot - k = (Len(m) + 1) - 1 => op <= oe
    BY <1>4, <2>1
  <2>7. ot - k = Len(m) + 1 => op = 0 /\ oe = 0
    BY <1>4, <2>1
  <2>8. ot - k < Len(m) + 1 => op <= Len(m[ot - k]) /\ oe <= Len(m[(Len(m) + 1) - 1])
    BY <2>1, <2>3
  <2>9. m \in Memory /\ op \in Nat /\ oe \in Nat /\ p \in Nat
    BY <1>4, <1>7
  <2>. QED BY <2>1, <2>4, <2>5, <2>6, <2>7, <2>8, <2>9 DEF CutOK
<1>19. SbGood(c)
  BY <1>9, <1>14, <1>15, <1>16, <1>17, <1>18 DEF SbGood
<1>. QED BY <1>2, <1>3, <1>8, <1>9, <1>13, <1>19


\* What consume promises: c is b without the first d bytes of its input.
SbDropped(b, c, d) ==
  /\ SbGood(c) /\ SbMid(c) - SbStart(c) = (SbMid(b) - SbStart(b)) - d
  /\ SbFin(c) - SbMid(c) = SbFin(b) - SbMid(b)
  /\ \A t \in Int : \A x \in Int :
       x <= SbFin(b) - SbStart(b) /\ Known(b.mem, SbStart(b), x, t)
         => Known(c.mem, SbStart(c), x - d, t + d)

LEMMA SbPlaces ==
  ASSUME NEW b, SbGood(b)
  PROVE  /\ SbStart(b) \in Nat /\ SbMid(b) \in Nat /\ SbFin(b) \in Nat
         /\ SbStart(b) <= SbMid(b) /\ SbMid(b) <= SbFin(b)
         /\ b.inSize = SbMid(b) - SbStart(b) /\ b.inSize \in Nat
         /\ b.mem \in Memory /\ b \in SbRec
<1>1. CutOK(b.mem, 1, b.out, Len(b.mem) + 1, b.inPos, b.outPos, b.outEnd) /\ b \in SbRec
      /\ b.inSize = SbMid(b) - SbStart(b)
  BY DEF SbGood
<1>2. b.mem \in Memory /\ b.inSize \in Nat
  BY <1>1 DEF SbRec
<1>. QED BY <1>1, <1>2, CutOrder DEF SbStart, SbMid, SbFin

TakeOK(b, k, p, d, z, c) ==
  /\ SbGood(b) /\ k \in Nat /\ k < b.out /\ p \in Nat /\ d \in Nat
  /\ d <= SbMid(b) - SbStart(b)
  /\ (k + 1 < b.out => p < Len(b.mem[k + 1])) /\ (k + 1 = b.out => p <= b.outPos)
  /\ Spot(b.mem, k + 1, p) = SbStart(b) + d /\ z = b.inSize - d
  /\ c = [b EXCEPT !.mem = SubSeq(b.mem, k + 1, Len(b.mem)), !.out = b.out - k,
                    !.inPos = p, !.inSize = z]

LEMMA SbTaken ==
  ASSUME NEW b, NEW k, NEW p, NEW d, NEW z, NEW c, TakeOK(b, k, p, d, z, c)
  PROVE  SbDropped(b, c, d)
<1>s. /\ SbGood(b) /\ k \in Nat /\ k < b.out /\ p \in Nat /\ d \in Nat
      /\ d <= SbMid(b) - SbStart(b)
      /\ (k + 1 < b.out => p < Len(b.mem[k + 1])) /\ (k + 1 = b.out => p <= b.outPos)
      /\ Spot(b.mem, k + 1, p) = SbStart(b) + d /\ z = b.inSize - d
      /\ c = [b EXCEPT !.mem = SubSeq(b.mem, k + 1, Len(b.mem)), !.out = b.out - k,
                        !.inPos = p, !.inSize = z]
  BY DEF TakeOK
<1>. USE <1>s
<1>1. PICK s, m, f, e : s = SbStart(b) /\ m = SbMid(b) /\ f = SbFin(b) /\ e = End(b.mem, k)
  OBVIOUS
<1>2. s \in Nat /\ m \in Nat /\ f \in Nat /\ s <= m /\ m <= f /\ b.inSize = m - s
      /\ b.mem \in Memory
  BY <1>1, SbPlaces
<1>3. z = m - (s + d) /\ z \in Nat
  BY <1>1, <1>2
<1>4. z = SbMid(b) - Spot(b.mem, k + 1, p)
  BY <1>1, <1>3
<1>5. /\ SbGood(c) /\ e \in Nat
      /\ SbStart(c) = (s + d) - e /\ SbMid(c) = m - e /\ SbFin(c) = f - e
  <2>1. ShiftOK(b, k, p, z, c)
    BY <1>3, <1>4 DEF ShiftOK
  <2>. QED BY <1>1, <2>1, SbShifted
<1>6. SbMid(c) - SbStart(c) = (m - s) - d /\ SbFin(c) - SbMid(c) = f - m
  BY <1>2, <1>5
<1>7. c.mem = SubSeq(b.mem, k + 1, Len(b.mem))
  <2>1. b \in SbRec
    BY SbPlaces
  <2>. QED BY <2>1 DEF SbRec
<1>8. k \in 0 .. Len(b.mem)
  <2>1. b.out <= Len(b.mem) + 1 /\ b.out \in Nat
    BY DEF SbGood, CutOK
  <2>2. Len(b.mem) \in Nat
    BY <1>2, EndFacts
  <2>. QED BY <2>1, <2>2
<1>9. ASSUME NEW t \in Int, NEW x \in Int, Known(b.mem, s, x, t)
      PROVE  Known(c.mem, SbStart(c), x - d, t + d)
  <2>1. Known(b.mem, s + d, x - d, t + d)
    BY <1>2, <1>9, KnownLater
  <2>2. s + d \in Int /\ x - d \in Int /\ t + d \in Int
    BY <1>2
  <2>3. Known(SubSeq(b.mem, k + 1, Len(b.mem)), (s + d) - End(b.mem, k), x - d, t + d)
    <3>1. PICK s1, x1, t1 : s1 = s + d /\ x1 = x - d /\ t1 = t + d
      OBVIOUS
    <3>2. s1 \in Int /\ x1 \in Int /\ t1 \in Int /\ Known(b.mem, s1, x1, t1)
      BY <2>1, <2>2, <3>1
    <3>3. Known(SubSeq(b.mem, k + 1, Len(b.mem)), s1 - End(b.mem, k), x1, t1)
      BY <1>2, <1>8, <3>2, KnownShift
    <3>. QED BY <3>1, <3>3
  <2>. QED BY <1>1, <1>5, <1>7, <2>3
<1>. QED BY <1>1, <1>5, <1>6, <1>9 DEF SbDropped

\* Nothing is known of no bytes.
LEMMA KnownNone ==
  ASSUME NEW mem \in Memory, NEW s \in Int, NEW n \in Int, n <= 0, NEW t PROVE Known(mem, s, n, t)
<1>. SUFFICES ASSUME NEW i \in 1 .. Len(mem), NEW k \in 1 .. Len(mem[i]),
                     s < End(mem, i - 1) + k, End(mem, i - 1) + k <= s + n
              PROVE  FALSE
  BY DEF Known
<1>1. Len(mem) \in Nat /\ Len(mem[i]) \in Nat
  BY EndFacts
<1>2. i - 1 \in 0 .. Len(mem) /\ k \in Nat
  BY <1>1
<1>3. PICK e : e = End(mem, i - 1)
  OBVIOUS
<1>4. e \in Nat
  BY <1>2, <1>3, EndFacts
<1>. QED BY <1>2, <1>3, <1>4

\* A basic_streambuf with nothing in it begins again at its first byte.
LEMMA SbBlank ==
  ASSUME NEW g, SbGood(g), g.out = 1, Len(g.mem) <= 1, g.outPos = g.outEnd, NEW c,
         c = [g EXCEPT !.inSize = 0, !.inPos = 0, !.outPos = 0, !.outEnd = 0]
  PROVE  /\ SbGood(c) /\ c.mem = g.mem /\ SbStart(c) = 0 /\ SbMid(c) = 0 /\ SbFin(c) = 0
         /\ SbFin(g) = SbMid(g)
<1>1. /\ g \in SbRec /\ g.mem \in Memory /\ \A i \in 1 .. Len(g.mem) : Len(g.mem[i]) > 0
  BY DEF SbGood, SbRec
<1>2. /\ c \in SbRec /\ c.mem = g.mem /\ c.out = 1 /\ c.inSize = 0 /\ c.inPos = 0
      /\ c.outPos = 0 /\ c.outEnd = 0
  BY <1>1 DEF SbRec
<1>3. PICK mem, l : mem = g.mem /\ l = Len(mem)
  OBVIOUS
<1>4. mem \in Memory /\ l \in Nat /\ (l = 0 \/ l = 1) /\ End(mem, 0) = 0
  <2>1. mem \in Memory /\ l \in Nat /\ End(mem, 0) = 0
    BY <1>1, <1>3, EndFacts
  <2>2. l <= 1
    BY <1>3
  <2>3. l = 0 \/ l = 1
    BY <2>1, <2>2
  <2>. QED BY <2>1, <2>3
<1>5. l = 1 => Len(mem[1]) > 0 /\ Len(mem[1]) \in Nat
  <2>1. l = 1 => 1 \in 1 .. Len(mem)
    BY <1>3
  <2>. QED BY <1>1, <1>3, <1>4, <2>1, EndFacts
<1>6. Spot(mem, 1, 0) = 0
  BY <1>4 DEF Spot
<1>7. Fin(mem, 1, l + 1, 0, 0) = 0
  BY <1>4, <1>6 DEF Fin
<1>8. Fin(mem, 1, l + 1, g.outPos, g.outPos) = Spot(mem, 1, g.outPos)
  BY <1>4 DEF Fin
<1>9. CutOK(mem, 1, 1, l + 1, 0, 0, 0)
  <2>1. CASE l = 0
    BY <1>3, <1>4, <2>1 DEF CutOK
  <2>2. CASE l = 1
    BY <1>3, <1>4, <1>5, <2>2 DEF CutOK
  <2>. QED BY <1>4, <2>1, <2>2
<1>10. SbStart(c) = 0 /\ SbMid(c) = 0 /\ SbFin(c) = 0 /\ SbFin(g) = SbMid(g)
  BY <1>2, <1>3, <1>6, <1>7, <1>8 DEF SbStart, SbMid, SbFin
<1>11. SbGood(c)
  BY <1>1, <1>2, <1>3, <1>4, <1>5, <1>9, <1>10 DEF SbGood
<1>. QED BY <1>2, <1>10, <1>11

LEMMA SbConsumed ==
  ASSUME NEW b, SbGood(b), NEW n \in Nat
  PROVE  SbDropped(b, SbConsume(b, n), Less(n, SbMid(b) - SbStart(b)))
<1>1. /\ b \in SbRec /\ b.inSize = SbMid(b) - SbStart(b)
      /\ CutOK(b.mem, 1, b.out, Len(b.mem) + 1, b.inPos, b.outPos, b.outEnd)
  BY DEF SbGood
<1>2. PICK mem, z, x, y, oe :
        mem = b.mem /\ z = b.out /\ x = b.inPos /\ y = b.outPos /\ oe = b.outEnd
  OBVIOUS
<1>3. CutOK(mem, 1, z, Len(mem) + 1, x, y, oe)
  BY <1>1, <1>2
<1>4. /\ mem \in Memory /\ z \in 1 .. Len(mem) + 1 /\ Len(mem) \in Nat /\ z \in Nat
      /\ x \in Nat /\ y \in Nat /\ oe \in Nat /\ (z = 1 => x <= y)
      /\ (z = Len(mem) + 1 => y = 0 /\ oe = 0)
  <2>1. mem \in Memory /\ z \in 1 .. Len(mem) + 1 /\ Len(mem) \in Nat /\ x \in Nat /\ y \in Nat
        /\ oe \in Nat
    BY <1>3, CutFacts
  <2>2. (1 = z => x <= y) /\ (z = Len(mem) + 1 => y = 0 /\ oe = 0)
    BY <1>3 DEF CutOK
  <2>. QED BY <2>1, <2>2
<1>5. PICK s, m : s = SbStart(b) /\ m = SbMid(b)
  OBVIOUS
<1>6. s \in Nat /\ m \in Nat /\ s <= m /\ b.inSize = m - s /\ b.inSize \in Nat
      /\ s = Spot(mem, 1, x) /\ m = Spot(mem, z, y)
  BY <1>2, <1>5, SbPlaces DEF SbStart, SbMid
<1> DEFINE Bef(j) == IF j = 0 THEN 0 ELSE Total(b.mem, 1, j) - b.inPos
           S == {j \in 0 .. b.out - 1 : Bef(j) <= n}
           k == Max(S)
           r == n - Bef(k)
           c == [b EXCEPT !.mem = SubSeq(@, k + 1, Len(@)), !.out = @ - k,
                          !.inSize = @ - Bef(k), !.inPos = IF k = 0 THEN @ ELSE 0]
<1>7. SbConsume(b, n) = IF b.mem = << >> THEN b
                        ELSE IF c.out > 1 THEN [c EXCEPT !.inSize = @ - r, !.inPos = @ + r]
                        ELSE SbConsumeFront(c, r)
  BY Zenon DEF SbConsume
<1>8. ASSUME NEW j \in 0 .. z - 1 PROVE Bef(j) \in Int
  <2>1. CASE j = 0
    BY <2>1
  <2>2. CASE j # 0
    <3>1. 1 \in 1 .. Len(mem) + 1 /\ j \in 1 - 1 .. Len(mem) /\ j \in 0 .. Len(mem)
      BY <1>4, <2>2
    <3>2. End(mem, j) \in Nat
      BY <1>4, <3>1, EndFacts
    <3>. QED BY <1>2, <1>4, <2>2, <3>2 DEF End
  <2>. QED BY <2>1, <2>2
<1>9. k \in 0 .. z - 1 /\ Bef(k) <= n /\ \A j \in 0 .. z - 1 : Bef(j) <= n => j <= k
  <2>0. Bef(0) = 0
    OBVIOUS
  <2>. HIDE DEF Bef
  <2>1. 0 \in S /\ S \subseteq Int /\ (\A y1 \in S : y1 <= z) /\ z \in Int
    BY <1>2, <1>4, <2>0
  <2>2. k \in S /\ \A y1 \in S : y1 <= k
    <3>. HIDE DEF S
    <3>1. S # {}
      BY <2>1
    <3>. QED BY <2>1, <3>1, MaxOf, Zenon
  <2>. HIDE DEF k
  <2>. QED BY <1>2, <2>2
<1>10. k + 1 < z => Total(mem, 1, k + 1) - x > n
  <2>. SUFFICES ASSUME k + 1 < z PROVE Total(mem, 1, k + 1) - x > n
    OBVIOUS
  <2>. HIDE DEF k
  <2>1. k + 1 \in 0 .. z - 1 /\ k + 1 # 0 /\ ~(k + 1 <= k)
    BY <1>4, <1>9
  <2>2. ~(Bef(k + 1) <= n) /\ Bef(k + 1) \in Int
    <3>. HIDE DEF Bef
    <3>. QED BY <1>8, <1>9, <2>1
  <2>3. Bef(k + 1) = Total(mem, 1, k + 1) - x
    BY <1>2, <2>1
  <2>. HIDE DEF Bef
  <2>. QED BY <2>2, <2>3
<1>11. PICK kk, bf, rr, cc : kk = k /\ bf = Bef(k) /\ rr = r /\ cc = c
  OBVIOUS
<1>12. PICK ba : ba = IF kk = 0 THEN x ELSE 0
  OBVIOUS
<1>13. bf = (IF kk + 1 = 1 THEN 0 ELSE Total(mem, 1, (kk + 1) - 1) - x)
       /\ ba = (IF kk + 1 = 1 THEN x ELSE 0) /\ ba \in Nat
  <2>1. bf = (IF kk = 0 THEN 0 ELSE Total(mem, 1, kk) - x)
    BY <1>2, <1>11, Zenon
  <2>2. kk \in Nat
    <3>. HIDE DEF k
    <3>. QED BY <1>4, <1>9, <1>11
  <2>3. (kk + 1) - 1 = kk /\ (kk + 1 = 1 <=> kk = 0)
    BY <2>2
  <2>. QED BY <1>4, <1>12, <2>1, <2>3
<1>14. bf \in Int /\ bf <= n /\ kk \in 0 .. z - 1 /\ kk \in Nat /\ kk < z
       /\ (kk + 1 < z => Total(mem, 1, kk + 1) - x > n)
  <2>. HIDE DEF k, Bef
  <2>1. bf \in Int /\ bf <= n /\ kk \in 0 .. z - 1
        /\ (kk + 1 < z => Total(mem, 1, kk + 1) - x > n)
    BY <1>8, <1>9, <1>10, <1>11
  <2>. QED BY <1>4, <2>1
<1>15. rr = n - bf /\ rr \in Nat
  <2>1. rr = n - bf
    BY <1>11, Zenon
  <2>. QED BY <1>14, <2>1
<1>16. cc = [b EXCEPT !.mem = SubSeq(mem, kk + 1, Len(mem)), !.out = z - kk,
                      !.inSize = b.inSize - bf, !.inPos = ba]
  <2>1. cc = [b EXCEPT !.mem = SubSeq(b.mem, kk + 1, Len(b.mem)), !.out = b.out - kk,
                       !.inSize = b.inSize - bf, !.inPos = IF kk = 0 THEN b.inPos ELSE 0]
    BY <1>11, Zenon
  <2>. QED BY <1>2, <1>12, <2>1, Zenon
<1>17. SbConsume(b, n) = IF b.mem = << >> THEN b
                         ELSE IF cc.out > 1 THEN [cc EXCEPT !.inSize = @ - rr, !.inPos = @ + rr]
                         ELSE SbConsumeFront(cc, rr)
  BY <1>7, <1>11, Zenon
<1>. HIDE DEF Bef, k, r, S, c
<1>18. PICK w : w = IF kk + 1 < z THEN n - bf ELSE Less(n - bf, y - ba)
  OBVIOUS
<1>19. WalkOK(mem, 1, z, x, y, n, kk + 1, bf, ba, w)
  <2>1. 1 \in 1 .. Len(mem) + 1 /\ kk + 1 \in 1 .. z
    BY <1>4, <1>14
  <2>. QED BY <1>4, <1>13, <1>14, <1>18, <2>1 DEF WalkOK
<1>20. /\ w \in Nat /\ bf + w = Less(n, m - s) /\ Spot(mem, kk + 1, ba + w) = s + (bf + w)
       /\ (kk + 1 < z => ba + w < Len(mem[kk + 1]))
       /\ (kk + 1 = z => ba + w <= y /\ ba <= y)
  BY <1>6, <1>19, Walk
<1>21. PICK d, p, q : d = Less(n, m - s) /\ p = ba + w /\ q = b.inSize - d
  OBVIOUS
<1>22. d \in Nat /\ d <= m - s /\ d = bf + w /\ p \in Nat /\ q \in Nat
  <2>1. m - s \in Nat
    BY <1>6
  <2>2. d \in Nat /\ d <= m - s
    BY <1>21, <2>1, LessFacts
  <2>3. d = bf + w
    BY <1>20, <1>21
  <2>4. p \in Nat /\ q \in Nat
    <3>1. w \in Nat /\ ba \in Nat /\ b.inSize = m - s
      BY <1>6, <1>13, <1>20
    <3>2. p \in Nat
      BY <1>21, <3>1
    <3>3. (m - s) - d \in Nat
      BY <2>1, <2>2
    <3>. QED BY <1>21, <3>1, <3>2, <3>3
  <2>. QED BY <2>2, <2>3, <2>4
<1>23. PICK cw : cw = [b EXCEPT !.mem = SubSeq(b.mem, kk + 1, Len(b.mem)), !.out = b.out - kk,
                                !.inPos = p, !.inSize = q]
  OBVIOUS
<1>24. TakeOK(b, kk, p, d, q, cw)
  BY <1>2, <1>5, <1>14, <1>20, <1>21, <1>22, <1>23 DEF TakeOK
<1>25. SbDropped(b, cw, d)
  BY <1>24, SbTaken
<1>26. PICK mm, o : mm = SubSeq(mem, kk + 1, Len(mem)) /\ o = z - kk
  OBVIOUS
<1>27. /\ cw.mem = mm /\ cw.out = o /\ cw.inPos = p /\ cw.inSize = q /\ cw.outPos = y
       /\ cw.outEnd = oe /\ cw.alloc = b.alloc
       /\ cw = [b EXCEPT !.mem = mm, !.out = o, !.inPos = p, !.inSize = q]
  <2>1. cw = [b EXCEPT !.mem = mm, !.out = o, !.inPos = p, !.inSize = q]
    BY <1>2, <1>23, <1>26
  <2>. QED BY <1>1, <1>2, <2>1 DEF SbRec
<1>28. PICK g : g = b.inSize - bf
  OBVIOUS
<1>29. /\ cc = [b EXCEPT !.mem = mm, !.out = o, !.inSize = g, !.inPos = ba]
       /\ cc.mem = mm /\ cc.out = o /\ cc.inPos = ba /\ cc.inSize = g /\ cc.outPos = y
       /\ cc.outEnd = oe
  <2>1. cc = [b EXCEPT !.mem = mm, !.out = o, !.inSize = g, !.inPos = ba]
    BY <1>16, <1>26, <1>28
  <2>. QED BY <1>1, <1>2, <2>1 DEF SbRec
<1>30. CASE w = rr /\ SbConsume(b, n) = [cc EXCEPT !.inSize = @ - rr, !.inPos = @ + rr]
  <2>1. ba + rr = p
    BY <1>21, <1>30
  <2>2. g - rr = q
    BY <1>6, <1>14, <1>15, <1>21, <1>22, <1>28, <1>30
  <2>3. SbConsume(b, n) = [cc EXCEPT !.inSize = g - rr, !.inPos = ba + rr]
    BY <1>29, <1>30
  <2>4. [cc EXCEPT !.inSize = q, !.inPos = p] = cw
    BY <1>27, <1>29
  <2>. QED BY <1>5, <1>21, <1>25, <2>1, <2>2, <2>3, <2>4
<1>31. CASE mem = << >>
  <2>1. Len(mem) = 0
    BY <1>31
  <2>2. z = 1 /\ y = 0 /\ x = 0
    BY <1>4, <2>1
  <2>3. m = s
    BY <1>6, <2>2
  <2>4. Less(n, m - s) = 0
    BY <1>6, <2>3 DEF Less
  <2>5. SbConsume(b, n) = b
    BY <1>2, <1>17, <1>31
  <2>6. SbDropped(b, b, 0)
    <3>1. SbMid(b) - SbStart(b) = (SbMid(b) - SbStart(b)) - 0
      BY <1>5, <1>6
    <3>2. \A t \in Int : t + 0 = t /\ t - 0 = t
      OBVIOUS
    <3>. QED BY <3>1, <3>2 DEF SbDropped
  <2>. QED BY <1>5, <2>4, <2>5, <2>6
<1>32. CASE mem # << >> /\ o > 1
  <2>1. kk + 1 < z
    BY <1>4, <1>14, <1>26, <1>32
  <2>2. w = rr
    BY <1>15, <1>18, <2>1
  <2>3. cc.out > 1
    BY <1>29, <1>32
  <2>. QED BY <1>2, <1>17, <1>30, <1>32, <2>2, <2>3
<1>33. CASE mem # << >> /\ ~(o > 1)
  <2>1. kk + 1 = z /\ ~(kk + 1 < z) /\ o = 1
    BY <1>4, <1>14, <1>26, <1>33
  <2>2. w = Less(rr, y - ba) /\ ba <= y
    BY <1>15, <1>18, <1>20, <2>1
  <2>3. cc.out = 1 /\ ~(1 > 1) /\ cc.outPos = y /\ cc.inPos = ba /\ cc.outEnd = oe /\ cc.mem = mm
    BY <1>29, <2>1
  <2>4. SbConsume(b, n) = SbConsumeFront(cc, rr)
    BY <1>2, <1>17, <1>33, <2>3
  <2>5. CASE rr < y - ba
    <3>1. w = rr
      BY <1>4, <1>13, <1>15, <2>2, <2>5 DEF Less
    <3>2. SbConsumeFront(cc, rr) = [cc EXCEPT !.inSize = @ - rr, !.inPos = @ + rr]
      BY <2>3, <2>5 DEF SbConsumeFront
    <3>. QED BY <1>30, <2>4, <3>1, <3>2
  <2>6. CASE ~(rr < y - ba)
    <3>1. w = y - ba
      BY <1>4, <1>13, <1>15, <2>2, <2>6 DEF Less
    <3>2. p = y
      BY <1>4, <1>13, <1>21, <3>1
    <3>3. d = m - s
      <4>1. Spot(mem, kk + 1, p) = m
        BY <1>6, <2>1, <3>2
      <4>2. m = s + d
        BY <1>20, <1>21, <1>22, <4>1
      <4>. QED BY <1>6, <1>22, <4>2
    <3>4. q = 0
      BY <1>6, <1>21, <3>3
    <3>5. CASE ~SbDrained(cc)
      <4>1. SbConsumeFront(cc, rr) = [cc EXCEPT !.inSize = 0, !.inPos = cc.outPos]
        BY <2>3, <2>6, <3>5 DEF SbConsumeFront
      <4>2. [cc EXCEPT !.inSize = 0, !.inPos = cc.outPos] = cw
        <5>1. cc.outPos = p /\ q = 0
          BY <2>3, <3>2, <3>4
        <5>. QED BY <1>27, <1>29, <5>1
      <4>. QED BY <1>5, <1>21, <1>25, <2>4, <4>1, <4>2
    <3>6. CASE SbDrained(cc)
      <4>1. SbConsumeFront(cc, rr)
              = [cc EXCEPT !.inSize = 0, !.inPos = 0, !.outPos = 0, !.outEnd = 0]
        BY <2>3, <2>6, <3>6 DEF SbConsumeFront
      <4>2. PICK e : e = [cw EXCEPT !.inSize = 0, !.inPos = 0, !.outPos = 0, !.outEnd = 0]
        OBVIOUS
      <4>3. SbConsume(b, n) = e
        <5>1. [cc EXCEPT !.inSize = 0, !.inPos = 0, !.outPos = 0, !.outEnd = 0]
                = [cw EXCEPT !.inSize = 0, !.inPos = 0, !.outPos = 0, !.outEnd = 0]
          BY <1>27, <1>29
        <5>. QED BY <2>4, <4>1, <4>2, <5>1
      <4>4. 1 >= Len(mm) /\ y = oe
        BY <2>3, <3>6 DEF SbDrained
      <4>5. SbGood(cw)
        BY <1>25 DEF SbDropped
      <4>6. mm \in Memory /\ Len(mm) \in Nat
        BY <1>27, <4>5, SbPlaces, EndFacts
      <4>7. cw.out = 1 /\ Len(cw.mem) <= 1 /\ cw.outPos = cw.outEnd
        BY <1>27, <2>1, <4>4, <4>6
      <4>8. /\ SbGood(e) /\ e.mem = mm /\ SbStart(e) = 0 /\ SbMid(e) = 0 /\ SbFin(e) = 0
            /\ SbFin(cw) = SbMid(cw)
        BY <1>27, <4>2, <4>5, <4>7, SbBlank
      <4>9. SbFin(b) - SbMid(b) = 0
        <5>1. SbFin(cw) - SbMid(cw) = SbFin(b) - SbMid(b) /\ SbMid(cw) \in Nat
          BY <1>25, <4>5, SbPlaces DEF SbDropped
        <5>. QED BY <4>8, <5>1
      <4>10. SbFin(b) \in Nat /\ SbFin(b) = m
        <5>1. SbFin(b) \in Nat
          BY SbPlaces
        <5>. QED BY <1>5, <1>6, <4>9, <5>1
      <4>11. ASSUME NEW t \in Int, NEW v \in Int, v <= SbFin(b) - SbStart(b)
             PROVE  Known(e.mem, SbStart(e), v - d, t + d)
        <5>1. v - d \in Int /\ v - d <= 0
          BY <1>5, <1>6, <1>22, <3>3, <4>10, <4>11
        <5>. QED BY <4>6, <4>8, <5>1, KnownNone
      <4>12. SbMid(e) - SbStart(e) = (SbMid(b) - SbStart(b)) - d
        BY <1>5, <1>6, <3>3, <4>8
      <4>13. SbFin(e) - SbMid(e) = SbFin(b) - SbMid(b)
        BY <4>8, <4>9
      <4>14. SbDropped(b, e, d)
        BY <4>8, <4>11, <4>12, <4>13 DEF SbDropped
      <4>. QED BY <1>5, <1>21, <4>3, <4>14
    <3>. QED BY <3>5, <3>6
  <2>. QED BY <2>5, <2>6
<1>. QED BY <1>31, <1>32, <1>33

-----------------------------------------------------------------------------
(* prepare of a basic_streambuf.                                           *)

\* Bytes in the first j blocks are known of a memory that keeps these blocks.
LEMMA KnownPrefix ==
  ASSUME NEW mem \in Memory, NEW c \in Memory, NEW j \in Nat, j <= Len(mem), j <= Len(c),
         \A i \in 1 .. j : c[i] = mem[i], NEW s \in Int, NEW n \in Int,
         Len(c) = j \/ s + n <= End(mem, j), NEW t, Known(mem, s, n, t)
  PROVE  Known(c, s, n, t)
<1>1. Len(mem) \in Nat /\ Len(c) \in Nat
  BY EndFacts
<1>2. \A i \in 0 .. j : End(c, i) = End(mem, i)
  <2>1. \A i \in 1 .. j : Len(c[i]) = Len(mem[i])
    OBVIOUS
  <2>. QED BY <2>1, EndSame
<1>. SUFFICES ASSUME NEW i \in 1 .. Len(c), NEW k \in 1 .. Len(c[i]),
                     s < End(c, i - 1) + k, End(c, i - 1) + k <= s + n
              PROVE  c[i][k] = t + ((End(c, i - 1) + k) - s)
  BY DEF Known
<1>3. Len(c[i]) \in Nat /\ i \in Nat /\ i - 1 \in 0 .. Len(c)
  BY <1>1, EndFacts
<1>4. k \in Nat /\ k > 0
  BY <1>3
<1>5. CASE i <= j
  <2>1. i \in 1 .. j /\ i - 1 \in 0 .. j /\ i \in 1 .. Len(mem)
    BY <1>1, <1>5
  <2>2. c[i] = mem[i] /\ End(c, i - 1) = End(mem, i - 1)
    BY <1>2, <2>1
  <2>. QED BY <2>1, <2>2 DEF Known
<1>6. CASE ~(i <= j)
  <2>1. s + n <= End(mem, j)
    BY <1>1, <1>6
  <2>2. j \in 0 .. Len(c) /\ i - 1 \in j .. Len(c) /\ j \in 0 .. j
    BY <1>1, <1>3, <1>6
  <2>3. PICK e, f : e = End(c, i - 1) /\ f = End(c, j)
    OBVIOUS
  <2>4. e \in Nat /\ f \in Nat /\ f <= e
    BY <1>3, <2>2, <2>3, EndFacts, EndGrows
  <2>5. s + n <= f
    BY <1>2, <2>1, <2>2, <2>3
  <2>6. e + k <= s + n
    BY <2>3
  <2>. QED BY <1>4, <2>4, <2>5, <2>6
<1>. QED BY <1>5, <1>6

\* The blocks behind the first j are others, and the output ends at byte oe of
\* the last one.
RebuildOK(b, m, j, oe, c) ==
  /\ SbGood(b) /\ m \in Memory /\ j \in Nat /\ j <= Len(b.mem) /\ j <= Len(m)
  /\ (\A i \in 1 .. j : m[i] = b.mem[i]) /\ (\A i \in 1 .. Len(m) : Len(m[i]) > 0)
  /\ (b.out <= j \/ (b.out = j + 1 /\ j = Len(b.mem)))
  /\ (Len(m) = j \/ j = Len(b.mem)) /\ oe \in Nat
  /\ (b.out = Len(m) + 1 => oe = 0) /\ (b.out <= Len(m) => oe <= Len(m[Len(m)]))
  /\ (b.out = Len(m) => b.outPos <= oe)
  /\ c = [b EXCEPT !.mem = m, !.outEnd = oe]

LEMMA SbRebuilt ==
  ASSUME NEW b, NEW m, NEW j, NEW oe, NEW c, RebuildOK(b, m, j, oe, c)
  PROVE  /\ SbGood(c) /\ SbStart(c) = SbStart(b) /\ SbMid(c) = SbMid(b)
         /\ SbFin(c) = (IF b.out = Len(m) + 1 THEN SbMid(b) ELSE End(m, Len(m) - 1) + oe)
         /\ \A t : Known(b.mem, SbStart(b), SbMid(b) - SbStart(b), t)
                     => Known(c.mem, SbStart(b), SbMid(b) - SbStart(b), t)
<1>1. /\ SbGood(b) /\ m \in Memory /\ j \in Nat /\ j <= Len(b.mem) /\ j <= Len(m)
      /\ (\A i \in 1 .. j : m[i] = b.mem[i]) /\ (\A i \in 1 .. Len(m) : Len(m[i]) > 0)
      /\ (b.out <= j \/ (b.out = j + 1 /\ j = Len(b.mem)))
      /\ (Len(m) = j \/ j = Len(b.mem)) /\ oe \in Nat
      /\ (b.out = Len(m) + 1 => oe = 0) /\ (b.out <= Len(m) => oe <= Len(m[Len(m)]))
      /\ (b.out = Len(m) => b.outPos <= oe)
      /\ c = [b EXCEPT !.mem = m, !.outEnd = oe]
  BY DEF RebuildOK
<1>2. /\ b \in SbRec /\ b.inSize = SbMid(b) - SbStart(b)
      /\ CutOK(b.mem, 1, b.out, Len(b.mem) + 1, b.inPos, b.outPos, b.outEnd)
      /\ \A i \in 1 .. Len(b.mem) : Len(b.mem[i]) > 0
      /\ b.out <= Len(b.mem) => b.outPos < Len(b.mem[b.out])
      /\ Len(b.mem) > 0 => b.inPos < Len(b.mem[1])
  BY <1>1 DEF SbGood
<1>3. PICK mem, ot, ip, op, l, lm :
        /\ mem = b.mem /\ ot = b.out /\ ip = b.inPos /\ op = b.outPos
        /\ l = Len(mem) /\ lm = Len(m)
  OBVIOUS
<1>4. /\ mem \in Memory /\ l \in Nat /\ lm \in Nat /\ ot \in Nat /\ 1 <= ot /\ ot <= l + 1
      /\ op \in Nat /\ ip \in Nat
  <2>1. CutOK(mem, 1, ot, l + 1, ip, op, b.outEnd)
    BY <1>2, <1>3
  <2>2. mem \in Memory /\ ot \in Nat /\ 1 <= ot /\ ot <= l + 1 /\ op \in Nat /\ ip \in Nat
    BY <1>3, <2>1 DEF CutOK
  <2>. QED BY <1>1, <1>3, <2>2, EndFacts
<1>5. (ot = l + 1 => op = 0) /\ (ot = 1 => ip <= op) /\ (ot <= l => op < Len(mem[ot]))
  <2>1. CutOK(mem, 1, ot, l + 1, ip, op, b.outEnd)
    BY <1>2, <1>3
  <2>2. (ot = l + 1 => op = 0) /\ (1 = ot => ip <= op)
    BY <2>1 DEF CutOK
  <2>. QED BY <1>2, <1>3, <2>2
<1>6. /\ j \in Nat /\ j <= l /\ j <= lm /\ (ot <= j \/ (ot = j + 1 /\ j = l))
      /\ (lm = j \/ j = l) /\ ot - 1 \in 0 .. j /\ ot <= lm + 1
  <2>1. /\ j \in Nat /\ j <= l /\ j <= lm /\ (ot <= j \/ (ot = j + 1 /\ j = l))
        /\ (lm = j \/ j = l)
    BY <1>1, <1>3
  <2>2. ot - 1 \in 0 .. j /\ ot <= lm + 1
    BY <1>4, <2>1
  <2>. QED BY <2>1, <2>2
<1>7. \A i \in 0 .. j : End(m, i) = End(mem, i)
  <2>1. \A i \in 1 .. j : Len(m[i]) = Len(mem[i])
    BY <1>1, <1>3
  <2>2. m \in Memory /\ j <= Len(m) /\ j <= Len(mem)
    BY <1>1, <1>3, <1>6
  <2>. QED BY <1>4, <1>6, <2>1, <2>2, EndSame
<1>8. ot <= lm => op < Len(m[ot]) /\ op <= Len(m[ot])
  <2>. SUFFICES ASSUME ot <= lm PROVE op < Len(m[ot]) /\ op <= Len(m[ot])
    OBVIOUS
  <2>1. ot \in 1 .. Len(m)
    BY <1>3, <1>4
  <2>2. PICK g : g = Len(m[ot])
    OBVIOUS
  <2>3. g \in Nat /\ g > 0
    BY <1>1, <2>1, <2>2, EndFacts
  <2>4. op < g
    <3>1. CASE ot <= j
      <4>1. ot \in 1 .. j /\ ot <= l
        BY <1>4, <1>6, <3>1
      <4>2. m[ot] = mem[ot]
        BY <1>1, <1>3, <4>1
      <4>. QED BY <1>5, <2>2, <4>1, <4>2
    <3>2. CASE ot = j + 1 /\ j = l
      <4>1. op = 0
        BY <1>5, <3>2
      <4>. QED BY <2>3, <4>1
    <3>. QED BY <1>6, <3>1, <3>2
  <2>. QED BY <1>4, <2>2, <2>3, <2>4
<1>9. lm > 0 => ip < Len(m[1]) /\ ip <= Len(m[1])
  <2>. SUFFICES ASSUME lm > 0 PROVE ip < Len(m[1]) /\ ip <= Len(m[1])
    OBVIOUS
  <2>1. 1 \in 1 .. Len(m)
    BY <1>3, <1>4
  <2>2. PICK g : g = Len(m[1])
    OBVIOUS
  <2>3. g \in Nat /\ g > 0
    BY <1>1, <2>1, <2>2, EndFacts
  <2>4. ip < g
    <3>1. CASE 1 <= j
      <4>1. 1 \in 1 .. j /\ l > 0
        BY <1>4, <1>6, <3>1
      <4>2. m[1] = mem[1]
        BY <1>1, <1>3, <4>1
      <4>. QED BY <1>2, <1>3, <2>2, <4>1, <4>2
    <3>2. CASE ~(1 <= j)
      <4>1. ot = 1 /\ ot = l + 1
        BY <1>4, <1>6, <3>2
      <4>2. ip = 0
        BY <1>4, <1>5, <4>1
      <4>. QED BY <2>3, <4>2
    <3>. QED BY <3>1, <3>2
  <2>. QED BY <1>4, <2>2, <2>3, <2>4
<1>10. /\ c \in SbRec /\ c.mem = m /\ c.out = ot /\ c.inPos = ip /\ c.inSize = b.inSize
       /\ c.outPos = op /\ c.outEnd = oe
  BY <1>1, <1>2, <1>3 DEF SbRec
<1>11. CutOK(m, 1, ot, lm + 1, ip, op, oe)
  <2>1. (lm + 1) - 1 = lm /\ lm + 1 \in Nat /\ (ot < lm + 1 => ot <= lm) /\ (1 < ot => lm > 0)
    BY <1>4, <1>6
  <2>2. (ot < lm + 1 => op <= Len(m[ot]) /\ oe <= Len(m[(lm + 1) - 1])) /\ (ot = lm + 1 => op = 0)
    <3>1. ot < lm + 1 => op <= Len(m[ot]) /\ oe <= Len(m[(lm + 1) - 1])
      BY <1>1, <1>3, <1>8, <2>1
    <3>2. ot = lm + 1 => op = 0
      BY <1>4, <1>5, <1>6
    <3>. QED BY <3>1, <3>2
  <2>3. (ot = lm + 1 => oe = 0) /\ (ot = (lm + 1) - 1 => op <= oe)
    BY <1>1, <1>3, <2>1
  <2>4. (1 < ot => ip <= Len(m[1])) /\ (1 = ot => ip <= op)
    BY <1>5, <1>9, <2>1
  <2>5. m \in Memory /\ oe \in Nat /\ lm = Len(m)
    BY <1>1, <1>3
  <2>6. /\ 1 \in Nat \ {0} /\ ot \in Nat /\ lm + 1 \in Nat /\ ip \in Nat /\ op \in Nat
        /\ 1 <= ot /\ ot <= lm + 1 /\ lm + 1 <= Len(m) + 1
    BY <1>3, <1>4, <1>6, <2>1
  <2>7. (ot = lm + 1 => op = 0 /\ oe = 0)
    BY <2>2, <2>3
  <2>8. (ot < lm + 1 => op <= Len(m[ot]) /\ oe <= Len(m[(lm + 1) - 1]))
        /\ (ot = (lm + 1) - 1 => op <= oe)
    BY <2>2, <2>3
  <2>. QED BY <2>4, <2>5, <2>6, <2>7, <2>8, Zenon DEF CutOK
<1>12. Spot(m, 1, ip) = Spot(mem, 1, ip) /\ Spot(m, ot, op) = Spot(mem, ot, op)
  <2>1. 1 - 1 \in 0 .. j /\ ot - 1 \in 0 .. j
    BY <1>6
  <2>. QED BY <1>7, <2>1 DEF Spot
<1>13. SbStart(c) = SbStart(b) /\ SbMid(c) = SbMid(b)
  BY <1>3, <1>10, <1>12 DEF SbStart, SbMid
<1>14. SbFin(c) = (IF ot = lm + 1 THEN SbMid(b) ELSE End(m, lm - 1) + oe)
  <2>1. (lm + 1) - 1 = lm
    BY <1>4
  <2>2. SbFin(c) = Fin(m, ot, lm + 1, op, oe)
    BY <1>3, <1>10 DEF SbFin
  <2>3. SbMid(c) = Spot(m, ot, op)
    BY <1>10 DEF SbMid
  <2>. QED BY <1>13, <2>1, <2>2, <2>3 DEF Fin, Spot
<1>15. SbGood(c)
  <2>1. c.inSize = SbMid(c) - SbStart(c)
    BY <1>2, <1>10, <1>13
  <2>2. CutOK(c.mem, 1, c.out, Len(c.mem) + 1, c.inPos, c.outPos, c.outEnd)
    BY <1>3, <1>10, <1>11
  <2>3. /\ (\A i \in 1 .. Len(c.mem) : Len(c.mem[i]) > 0)
        /\ (c.out <= Len(c.mem) => c.outPos < Len(c.mem[c.out]))
        /\ (Len(c.mem) > 0 => c.inPos < Len(c.mem[1]))
    BY <1>1, <1>3, <1>8, <1>9, <1>10
  <2>. QED BY <1>10, <2>1, <2>2, <2>3 DEF SbGood
<1>16. ASSUME NEW t, Known(mem, SbStart(b), SbMid(b) - SbStart(b), t)
       PROVE  Known(m, SbStart(b), SbMid(b) - SbStart(b), t)
  <2>1. PICK s, d : s = SbStart(b) /\ d = SbMid(b) - SbStart(b)
    OBVIOUS
  <2>2. s \in Int /\ d \in Int /\ s + d = SbMid(b)
    BY <1>1, <2>1, SbPlaces
  <2>3. lm = j \/ s + d <= End(mem, j)
    <3>. SUFFICES ASSUME lm # j PROVE s + d <= End(mem, j)
      OBVIOUS
    <3>1. j = l
      BY <1>6
    <3>2. SbMid(b) = End(mem, ot - 1) + op
      BY <1>3 DEF SbMid, Spot
    <3>3. CASE ot = l + 1
      <4>1. op = 0 /\ ot - 1 = j /\ j \in 0 .. Len(mem)
        <5>1. ot - 1 = j /\ j \in 0 .. l
          BY <1>4, <3>1, <3>3
        <5>. QED BY <1>3, <1>5, <3>3, <5>1
      <4>2. End(mem, j) \in Nat
        BY <1>4, <4>1, EndFacts
      <4>. QED BY <2>2, <3>2, <4>1, <4>2
    <3>4. CASE ot # l + 1
      <4>1. ot \in 1 .. Len(mem) /\ ot \in 0 .. Len(mem) /\ j \in ot .. Len(mem)
        BY <1>3, <1>4, <3>1, <3>4
      <4>2. PICK e, f, g, q : e = End(mem, ot - 1) /\ f = End(mem, ot) /\ g = End(mem, j)
                              /\ q = Len(mem[ot])
        OBVIOUS
      <4>3. f = e + q /\ f <= g /\ q \in Nat
        BY <1>4, <4>1, <4>2, EndFacts, EndGrows
      <4>4. op < q
        BY <1>3, <1>5, <4>1, <4>2
      <4>5. e \in Nat /\ g \in Nat
        <5>1. ot - 1 \in 0 .. Len(mem) /\ j \in 0 .. Len(mem)
          BY <4>1
        <5>. QED BY <1>4, <4>2, <5>1, EndFacts
      <4>6. e + op <= g
        BY <1>4, <4>3, <4>4, <4>5
      <4>. QED BY <2>2, <3>2, <4>2, <4>6
    <3>. QED BY <3>3, <3>4
  <2>4. m \in Memory /\ j <= Len(m) /\ j <= Len(mem) /\ (\A i \in 1 .. j : m[i] = mem[i])
        /\ (Len(m) = j \/ s + d <= End(mem, j))
    BY <1>1, <1>3, <1>6, <2>3
  <2>. QED BY <1>4, <1>6, <1>16, <2>1, <2>2, <2>4, KnownPrefix
<1>. QED BY <1>3, <1>10, <1>13, <1>14, <1>15, <1>16

\* What prepare needs, where it stops and what it misses, by places.
LEMMA SbReuseIs ==
  ASSUME NEW b, SbGood(b), NEW n \in Nat
  PROVE  LET k == SbReuse(b, n)
             need == SbNeed(b, n)
             miss == SbMissing(b, n)
             to == SbMid(b) + n
             l == Len(b.mem)
         IN  /\ need \in Int /\ miss \in Int
             /\ need <= 0 => /\ miss = need /\ to <= End(b.mem, l)
                             /\ k = (IF b.out > l THEN l ELSE b.out)
                             /\ (b.out > l => n = 0) /\ (b.out <= l => to <= End(b.mem, b.out))
             /\ need > 0 /\ miss > 0 => End(b.mem, l) + miss = to
             /\ need > 0 /\ miss <= 0 =>
                  /\ b.out < k /\ k \in 1 .. l /\ End(b.mem, k - 1) < to /\ to <= End(b.mem, k)
                  /\ End(b.mem, k - 1) + (need - Total(b.mem, b.out + 1, k - 1)) = to
<1>1. PICK mem, ot, op, l : mem = b.mem /\ ot = b.out /\ op = b.outPos /\ l = Len(mem)
  OBVIOUS
<1>2. /\ mem \in Memory /\ l \in Nat /\ ot \in Nat /\ 1 <= ot /\ ot <= l + 1 /\ op \in Nat
      /\ (ot = l + 1 => op = 0) /\ (ot <= l => op < Len(mem[ot]))
  <2>1. CutOK(mem, 1, ot, l + 1, b.inPos, op, b.outEnd) /\ (ot <= l => op < Len(mem[ot]))
    BY <1>1 DEF SbGood
  <2>2. /\ mem \in Memory /\ ot \in Nat /\ 1 <= ot /\ ot <= l + 1 /\ op \in Nat
        /\ (ot = l + 1 => op = 0)
    BY <1>1, <2>1 DEF CutOK
  <2>. QED BY <1>1, <2>1, <2>2, EndFacts
<1>3. PICK need, k, miss, to, el :
        /\ need = SbNeed(b, n) /\ k = SbReuse(b, n) /\ miss = SbMissing(b, n)
        /\ to = SbMid(b) + n /\ el = End(mem, l)
  OBVIOUS
<1>4. /\ need = n - (IF ot > l THEN 0 ELSE Len(mem[ot]) - op)
      /\ k = (IF need <= 0 THEN Min({ot, l})
              ELSE Min({i \in ot + 1 .. l : Total(mem, ot + 1, i) >= need} \cup {l}))
      /\ miss = need - Total(mem, ot + 1, k)
  BY <1>1, <1>3, Zenon DEF SbNeed, SbReuse, SbMissing, SbAtEnd
<1>5. to = (End(mem, ot - 1) + op) + n
  BY <1>1, <1>3 DEF SbMid, Spot
<1>6. \A i \in 0 .. l : End(mem, i) \in Nat
  BY <1>1, <1>2, EndFacts
<1>7. el \in Nat
  BY <1>2, <1>3, <1>6
<1>8. CASE ot = l + 1
  <2>1. ot > l /\ op = 0 /\ ot - 1 = l
    BY <1>2, <1>8
  <2>2. need = n /\ to = el + n
    BY <1>3, <1>4, <1>5, <1>7, <2>1
  <2>3. CASE n = 0
    <3>1. k = Less(ot, l)
      BY <1>2, <1>4, <2>2, <2>3, MinPair
    <3>2. k = l
      BY <1>2, <1>8, <3>1 DEF Less
    <3>3. Total(mem, ot + 1, k) = 0
      BY <1>2, <1>8, <3>2, TotalEmpty
    <3>4. miss = 0
      BY <1>4, <2>2, <2>3, <3>3
    <3>. QED BY <1>1, <1>2, <1>3, <1>7, <2>1, <2>2, <2>3, <3>2, <3>4
  <2>4. CASE n # 0
    <3>1. need > 0 /\ ~(need <= 0)
      BY <2>2, <2>4
    <3>2. {i \in ot + 1 .. l : Total(mem, ot + 1, i) >= need} \cup {l} = {l}
      BY <1>2, <1>8
    <3>3. k = Min({l, l})
      BY <1>4, <3>1, <3>2
    <3>4. k = l
      BY <1>2, <3>3, MinPair DEF Less
    <3>5. Total(mem, ot + 1, k) = 0
      BY <1>2, <1>8, <3>4, TotalEmpty
    <3>6. miss = n
      BY <1>4, <2>2, <3>5
    <3>. QED BY <1>1, <1>2, <1>3, <1>7, <2>1, <2>2, <2>4, <3>1, <3>6
  <2>. QED BY <2>3, <2>4
<1>9. CASE ot # l + 1
  <2>1. ot <= l /\ ~(ot > l) /\ ot \in 1 .. l /\ ot \in 0 .. l /\ ot - 1 \in 0 .. l /\ l \in ot .. l
    BY <1>2, <1>9
  <2>2. PICK e, f, q : e = End(mem, ot - 1) /\ f = End(mem, ot) /\ q = Len(mem[ot])
    OBVIOUS
  <2>3. e \in Nat /\ f \in Nat /\ q \in Nat /\ f = e + q /\ f <= el /\ op < q
    BY <1>1, <1>2, <1>3, <2>1, <2>2, EndFacts, EndGrows
  <2>4. need = n - (q - op) /\ to = (e + op) + n
    BY <1>4, <1>5, <2>1, <2>2
  <2>5. need \in Int /\ f + need = to
    BY <1>2, <2>3, <2>4
  <2>6. CASE need <= 0
    <3>1. k = Less(ot, l)
      BY <1>2, <1>4, <2>6, MinPair
    <3>2. k = ot
      BY <2>1, <3>1 DEF Less
    <3>3. Total(mem, ot + 1, k) = 0
      BY <1>2, <3>2, TotalEmpty
    <3>4. miss = need
      BY <1>4, <2>5, <3>3
    <3>5. to <= f /\ to <= el
      BY <1>7, <2>3, <2>5, <2>6
    <3>. QED BY <1>1, <1>3, <2>1, <2>2, <2>5, <2>6, <3>2, <3>4, <3>5
  <2>7. CASE need > 0
    <3> DEFINE S == {i \in ot + 1 .. l : Total(mem, ot + 1, i) >= need} \cup {l}
    <3>1. \A i \in ot .. l : Total(mem, ot + 1, i) = End(mem, i) - f /\ End(mem, i) \in Nat
      <4>. TAKE i \in ot .. l
      <4>1. i \in (ot + 1) - 1 .. Len(mem) /\ ot + 1 \in 1 .. Len(mem) + 1 /\ (ot + 1) - 1 = ot
            /\ i \in 0 .. l
        BY <1>1, <1>2, <2>1
      <4>2. Total(mem, ot + 1, i) = End(mem, i) - End(mem, (ot + 1) - 1)
        BY <1>2, <4>1, TotalByEnds
      <4>. QED BY <1>6, <2>2, <4>1, <4>2
    <3>2. k = Min(S)
      BY <1>4, <2>5, <2>7
    <3>3. S \subseteq Int /\ S # {} /\ (\A y \in S : 0 <= y) /\ l \in S /\ 0 \in Int
      BY <1>2, <2>1
    <3>4. k \in S /\ \A y \in S : k <= y
      <4>. HIDE DEF S
      <4>. QED BY <3>2, <3>3, MinOf, Zenon
    <3>5. k = l \/ (k \in ot + 1 .. l /\ Total(mem, ot + 1, k) >= need)
      BY <3>4
    <3>6. k \in ot .. l
      BY <1>2, <2>1, <3>5
    <3>7. PICK g : g = End(mem, k)
      OBVIOUS
    <3>8. g \in Nat /\ miss = need - (g - f)
      BY <1>4, <3>1, <3>6, <3>7
    <3>9. miss \in Int /\ f + (g - f) = g
      BY <2>3, <2>5, <3>8
    <3>10. CASE miss > 0
      <4>1. k = l
        <5>. SUFFICES ASSUME k # l PROVE FALSE
          OBVIOUS
        <5>1. g - f >= need
          BY <3>1, <3>5, <3>6, <3>7
        <5>. QED BY <2>3, <2>5, <3>8, <3>10, <5>1
      <4>2. g = el
        BY <1>3, <3>7, <4>1
      <4>3. el + miss = to
        BY <2>3, <2>5, <3>8, <4>2
      <4>. QED BY <1>1, <1>3, <2>5, <2>7, <3>9, <3>10, <4>3
    <3>11. CASE miss <= 0
      <4>1. ot < k
        <5>. SUFFICES ASSUME ~(ot < k) PROVE FALSE
          OBVIOUS
        <5>1. k = ot
          BY <2>1, <3>6
        <5>2. g = f
          BY <2>2, <3>7, <5>1
        <5>. QED BY <2>3, <2>5, <2>7, <3>8, <3>11, <5>2
      <4>2. k - 1 \in ot .. l /\ k \in 1 .. l
        BY <1>2, <2>1, <3>6, <4>1
      <4>3. PICK h, tt : h = End(mem, k - 1) /\ tt = Total(mem, ot + 1, k - 1)
        OBVIOUS
      <4>4. h \in Nat /\ tt = h - f
        BY <3>1, <4>2, <4>3
      <4>5. tt < need
        <5>. SUFFICES ASSUME ~(tt < need) PROVE FALSE
          OBVIOUS
        <5>0. tt >= need
          BY <2>3, <2>5, <4>4
        <5>1. k - 1 # ot
          <6>. SUFFICES ASSUME k - 1 = ot PROVE FALSE
            OBVIOUS
          <6>1. h = f
            BY <2>2, <4>3
          <6>. QED BY <2>3, <2>5, <2>7, <4>4, <5>0, <6>1
        <5>2. k - 1 \in ot + 1 .. l
          BY <2>1, <4>2, <5>1
        <5>3. k - 1 \in S
          BY <4>3, <5>0, <5>2
        <5>4. k <= k - 1
          BY <3>4, <5>3
        <5>. QED BY <2>1, <3>6, <5>4
      <4>6. h < to /\ to <= g /\ h + (need - tt) = to
        BY <2>3, <2>5, <3>8, <3>11, <4>4, <4>5
      <4>. QED BY <1>1, <1>3, <2>5, <2>7, <3>7, <3>9, <3>11, <4>1, <4>2, <4>3, <4>6
    <3>. QED BY <3>9, <3>10, <3>11
  <2>. QED BY <2>5, <2>6, <2>7
<1>. QED BY <1>8, <1>9

\* prepare allocates when the blocks behind the input cannot take n bytes.
LEMMA SbAllocatesIs ==
  ASSUME NEW b, SbGood(b), NEW n \in Nat
  PROVE  SbAllocates(b, n) <=> n > End(b.mem, Len(b.mem)) - SbMid(b)
<1>1. PICK need, k, miss, m, el, l :
        /\ need = SbNeed(b, n) /\ k = SbReuse(b, n) /\ miss = SbMissing(b, n)
        /\ m = SbMid(b) /\ l = Len(b.mem) /\ el = End(b.mem, l)
  OBVIOUS
<1>2. /\ need \in Int /\ miss \in Int /\ (need <= 0 => miss = need /\ m + n <= el)
      /\ (need > 0 /\ miss > 0 => el + miss = m + n)
      /\ (need > 0 /\ miss <= 0 => k \in 1 .. l /\ m + n <= End(b.mem, k))
  BY <1>1, SbReuseIs
<1>3. m \in Nat /\ l \in Nat /\ el \in Nat /\ b.mem \in Memory
  <2>1. m \in Nat /\ b.mem \in Memory
    BY <1>1, SbPlaces
  <2>2. l \in Nat
    BY <1>1, <2>1, EndFacts
  <2>3. l \in 0 .. Len(b.mem)
    BY <1>1, <2>2
  <2>. QED BY <1>1, <2>1, <2>2, <2>3, EndFacts
<1>4. need > 0 /\ miss <= 0 => m + n <= el
  <2>. SUFFICES ASSUME need > 0, miss <= 0 PROVE m + n <= el
    OBVIOUS
  <2>1. k \in 0 .. Len(b.mem) /\ l \in k .. Len(b.mem)
    BY <1>1, <1>2, <1>3
  <2>2. PICK f : f = End(b.mem, k)
    OBVIOUS
  <2>3. f \in Nat /\ f <= el
    BY <1>1, <1>3, <2>1, <2>2, EndFacts, EndGrows
  <2>4. m + n <= f
    BY <1>2, <2>2
  <2>. QED BY <1>3, <2>3, <2>4
<1>5. miss > 0 <=> n > el - m
  BY <1>2, <1>3, <1>4
<1>. QED BY <1>1, <1>5 DEF SbAllocates

\* What prepare promises: an output sequence of n bytes, and the input as before.
SbRoom(b, c, n) ==
  /\ SbGood(c) /\ SbStart(c) = SbStart(b) /\ SbMid(c) = SbMid(b) /\ SbFin(c) = SbMid(b) + n
  /\ \A t : Known(b.mem, SbStart(b), SbMid(b) - SbStart(b), t)
              => Known(c.mem, SbStart(b), SbMid(b) - SbStart(b), t)

LEMMA SbPrepared ==
  ASSUME NEW b, SbGood(b), NEW n \in Nat
  PROVE  SbRoom(b, SbPrepare(b, n), n)
<1>1. PICK mem, ot, op, l, need, k, miss, m :
        /\ mem = b.mem /\ ot = b.out /\ op = b.outPos /\ l = Len(mem)
        /\ need = SbNeed(b, n) /\ k = SbReuse(b, n) /\ miss = SbMissing(b, n)
        /\ m = SbMid(b)
  OBVIOUS
<1>2. /\ mem \in Memory /\ l \in Nat /\ ot \in Nat /\ 1 <= ot /\ ot <= l + 1 /\ op \in Nat
      /\ (ot = l + 1 => op = 0) /\ (ot <= l => op < Len(mem[ot]))
      /\ (\A i \in 1 .. l : Len(mem[i]) > 0)
      /\ b \in SbRec
  <2>1. /\ CutOK(mem, 1, ot, l + 1, b.inPos, op, b.outEnd) /\ (ot <= l => op < Len(mem[ot]))
        /\ (\A i \in 1 .. l : Len(mem[i]) > 0) /\ b \in SbRec
    BY <1>1 DEF SbGood
  <2>2. /\ mem \in Memory /\ ot \in Nat /\ 1 <= ot /\ ot <= l + 1 /\ op \in Nat
        /\ (ot = l + 1 => op = 0)
    BY <1>1, <2>1 DEF CutOK
  <2>. QED BY <1>1, <2>1, <2>2, EndFacts
<1>3. m \in Nat /\ m = End(mem, ot - 1) + op
  BY <1>1, SbPlaces DEF SbMid, Spot
<1>4. /\ need \in Int /\ miss \in Int
      /\ (need <= 0 => /\ miss = need /\ k = (IF ot > l THEN l ELSE ot)
                       /\ (ot > l => n = 0) /\ (ot <= l => m + n <= End(mem, ot)))
      /\ (need > 0 /\ miss > 0 => End(mem, l) + miss = m + n)
      /\ (need > 0 /\ miss <= 0 =>
            /\ ot < k /\ k \in 1 .. l /\ End(mem, k - 1) < m + n /\ m + n <= End(mem, k)
            /\ End(mem, k - 1) + (need - Total(mem, ot + 1, k - 1)) = m + n)
  BY <1>1, SbReuseIs
<1>5. SbPrepare(b, n)
        = IF miss > 0
          THEN [b EXCEPT !.mem = Append(mem, SbBlock(b, n)), !.outEnd = miss]
          ELSE [b EXCEPT !.mem = SubSeq(mem, 1, k),
                         !.outEnd = IF need <= 0 THEN op + n
                                    ELSE need - Total(mem, ot + 1, k - 1)]
  BY <1>1, Zenon DEF SbPrepare, SbAllocates
<1>6. CASE miss > 0
  <2>1. need > 0
    BY <1>4, <1>6
  <2>2. PICK blk, w : blk = SbBlock(b, n) /\ w = Max({b.alloc, miss})
    OBVIOUS
  <2>3. w \in Int /\ w >= miss
    <3>1. b.alloc \in Nat
      BY <1>2 DEF SbRec
    <3>2. PICK hi : hi \in Int /\ b.alloc <= hi /\ miss <= hi
      <4>1. b.alloc <= b.alloc + miss /\ miss <= b.alloc + miss /\ b.alloc + miss \in Int
        BY <1>4, <1>6, <3>1
      <4>. QED BY <4>1
    <3>3. {b.alloc, miss} \subseteq Int /\ {b.alloc, miss} # {} /\ \A y \in {b.alloc, miss} : y <= hi
      BY <1>4, <3>1, <3>2
    <3>4. Max({b.alloc, miss}) \in {b.alloc, miss}
          /\ \A y \in {b.alloc, miss} : y <= Max({b.alloc, miss})
      BY <3>2, <3>3, MaxOf
    <3>. QED BY <1>4, <2>2, <3>1, <3>4
  <2>4. blk = [i \in 1 .. w |-> 0]
    BY <1>1, <2>2 DEF SbBlock, Garbage
  <2>5. w \in Nat /\ miss \in Nat /\ w > 0 /\ miss <= w
    BY <1>4, <1>6, <2>3
  <2>6. blk \in Seq(Nat) /\ Len(blk) = w
    BY <2>4, <2>5
  <2>7. PICK mm : mm = Append(mem, blk)
    OBVIOUS
  <2>8. mm \in Memory /\ Len(mm) = l + 1 /\ mm[l + 1] = blk /\ \A i \in 1 .. l : mm[i] = mem[i]
    BY <1>1, <1>2, <2>6, <2>7 DEF Memory
  <2>9. \A i \in 1 .. Len(mm) : Len(mm[i]) > 0
    <3>. TAKE i \in 1 .. Len(mm)
    <3>1. i \in 1 .. l \/ i = l + 1
      BY <1>2, <2>8
    <3>. QED BY <1>2, <2>5, <2>6, <2>8, <3>1
  <2>10. PICK c : c = [b EXCEPT !.mem = mm, !.outEnd = miss]
    OBVIOUS
  <2>11. RebuildOK(b, mm, l, miss, c)
    <3>1. l <= Len(b.mem) /\ l <= Len(mm) /\ l = Len(b.mem) /\ Len(mm) = l + 1
      BY <1>1, <1>2, <2>8
    <3>2. (b.out <= l \/ b.out = l + 1) /\ (b.out = Len(mm) + 1 => FALSE)
      BY <1>1, <1>2, <3>1
    <3>3. b.out <= Len(mm) => miss <= Len(mm[Len(mm)])
      BY <2>5, <2>6, <2>8
    <3>4. b.out = Len(mm) => b.outPos <= miss
      <4>1. ot = l + 1 => op = 0
        BY <1>2
      <4>. QED BY <1>1, <2>5, <2>8, <4>1
    <3>5. \A i \in 1 .. l : mm[i] = b.mem[i]
      BY <1>1, <2>8
    <3>. QED BY <1>2, <2>5, <2>8, <2>9, <2>10, <3>1, <3>2, <3>3, <3>4, <3>5 DEF RebuildOK
  <2>12. SbFin(c) = End(mm, l) + miss
    <3>1. b.out # Len(mm) + 1 /\ Len(mm) - 1 = l
      BY <1>1, <1>2, <2>8
    <3>. QED BY <2>11, <3>1, SbRebuilt
  <2>13. End(mm, l) = End(mem, l)
    <3>1. \A i \in 1 .. l : Len(mm[i]) = Len(mem[i])
      BY <2>8
    <3>2. l <= Len(mem) /\ l <= Len(mm) /\ l \in 0 .. l
      BY <1>1, <1>2, <2>8
    <3>. QED BY <1>2, <2>8, <3>1, <3>2, EndSame
  <2>14. SbPrepare(b, n) = c
    BY <1>5, <1>6, <2>2, <2>7, <2>10
  <2>15. SbFin(c) = SbMid(b) + n
    BY <1>1, <1>4, <1>6, <2>1, <2>12, <2>13
  <2>. QED BY <2>11, <2>14, <2>15, SbRebuilt DEF SbRoom
<1>7. CASE ~(miss > 0)
  <2>1. PICK mm, oe, c : /\ mm = SubSeq(mem, 1, k)
                         /\ oe = (IF need <= 0 THEN op + n ELSE need - Total(mem, ot + 1, k - 1))
                         /\ c = [b EXCEPT !.mem = mm, !.outEnd = oe]
    OBVIOUS
  <2>2. SbPrepare(b, n) = c
    BY <1>5, <1>7, <2>1
  <2>3. k \in Nat /\ k <= l /\ ot <= k + 1 /\ (ot = k + 1 => k = l)
    <3>1. CASE need <= 0
      BY <1>2, <1>4, <3>1
    <3>2. CASE ~(need <= 0)
      BY <1>2, <1>4, <1>7, <3>2
    <3>. QED BY <3>1, <3>2
  <2>4. mm \in Memory /\ Len(mm) = k /\ \A i \in 1 .. k : mm[i] = mem[i]
    <3>1. mem \in Seq(Seq(Nat)) /\ l = Len(mem) /\ k \in 0 .. Len(mem)
      BY <1>1, <1>2, <2>3 DEF Memory
    <3>2. mm \in Seq(Seq(Nat)) /\ Len(mm) = k /\ \A i \in 1 .. k : mm[i] = mem[i]
      BY <2>1, <3>1
    <3>. QED BY <3>2, Zenon DEF Memory
  <2>5. \A i \in 0 .. k : End(mm, i) = End(mem, i)
    <3>1. \A i \in 1 .. k : Len(mm[i]) = Len(mem[i])
      BY <2>4
    <3>2. k <= Len(mem) /\ k <= Len(mm)
      BY <1>1, <2>3, <2>4
    <3>. QED BY <1>2, <2>3, <2>4, <3>1, <3>2, EndSame
  <2>6. /\ oe \in Nat /\ (ot = k + 1 => oe = 0 /\ n = 0)
        /\ (ot <= k => oe <= Len(mem[k]) /\ End(mem, k - 1) + oe = m + n)
        /\ (ot = k => op <= oe)
    <3>1. CASE need <= 0
      <4>1. oe = op + n /\ k = (IF ot > l THEN l ELSE ot)
        BY <1>4, <2>1, <3>1
      <4>2. CASE ot > l
        BY <1>2, <1>4, <3>1, <4>1, <4>2
      <4>3. CASE ~(ot > l)
        <5>1. k = ot /\ ot \in 1 .. Len(mem) /\ ot - 1 \in 0 .. Len(mem)
          BY <1>1, <1>2, <4>1, <4>3
        <5>2. PICK e, f, q : e = End(mem, ot - 1) /\ f = End(mem, ot) /\ q = Len(mem[ot])
          OBVIOUS
        <5>3. e \in Nat /\ q \in Nat /\ f = e + q
          BY <1>2, <5>1, <5>2, EndFacts
        <5>4. m + n <= f /\ m = e + op
          BY <1>2, <1>3, <1>4, <3>1, <4>3, <5>2
        <5>5. oe \in Nat /\ op <= oe /\ oe <= q /\ e + oe = m + n
          BY <1>2, <4>1, <5>3, <5>4
        <5>. QED BY <1>2, <5>1, <5>2, <5>5
      <4>. QED BY <4>2, <4>3
    <3>2. CASE ~(need <= 0)
      <4>1. oe = need - Total(mem, ot + 1, k - 1) /\ need > 0 /\ miss <= 0
        BY <1>4, <1>7, <2>1, <3>2
      <4>2. /\ ot < k /\ k \in 1 .. l /\ End(mem, k - 1) < m + n /\ m + n <= End(mem, k)
            /\ End(mem, k - 1) + oe = m + n
        BY <1>4, <4>1
      <4>3. PICK e, f, q : e = End(mem, k - 1) /\ f = End(mem, k) /\ q = Len(mem[k])
        OBVIOUS
      <4>4. k \in 1 .. Len(mem) /\ k - 1 \in 0 .. Len(mem)
        BY <1>1, <1>2, <4>2
      <4>5. e \in Nat /\ q \in Nat /\ f = e + q
        BY <1>2, <4>3, <4>4, EndFacts
      <4>6. e < m + n /\ m + n <= f /\ e + oe = m + n
        BY <4>2, <4>3
      <4>7. oe \in Int
        <5>1. ot + 1 \in 1 .. Len(mem) + 1 /\ k - 1 \in (ot + 1) - 1 .. Len(mem)
              /\ (ot + 1) - 1 = ot /\ ot \in 0 .. Len(mem)
          <6>1. Len(mem) = l /\ l \in Nat /\ ot \in Nat /\ ot < k /\ k \in 1 .. l
            BY <1>1, <1>2, <4>2
          <6>. QED BY <6>1
        <5>2. Total(mem, ot + 1, k - 1) = End(mem, k - 1) - End(mem, ot) /\ End(mem, ot) \in Nat
          BY <1>2, <5>1, TotalByEnds, EndFacts
        <5>. QED BY <1>4, <4>1, <4>3, <4>5, <5>2
      <4>8. oe \in Nat /\ oe <= q
        BY <1>3, <4>5, <4>6, <4>7
      <4>9. ot # k + 1 /\ ot # k
        BY <1>2, <2>3, <4>2
      <4>. QED BY <4>2, <4>3, <4>8, <4>9
    <3>. QED BY <3>1, <3>2
  <2>7. RebuildOK(b, mm, k, oe, c)
    <3>1. k <= Len(b.mem) /\ k <= Len(mm) /\ Len(mm) = k
      BY <1>1, <2>3, <2>4
    <3>2. b.out <= k \/ (b.out = k + 1 /\ k = Len(b.mem))
      BY <1>1, <1>2, <2>3
    <3>3. /\ (b.out = Len(mm) + 1 => oe = 0) /\ (b.out <= Len(mm) => oe <= Len(mm[Len(mm)]))
          /\ (b.out = Len(mm) => b.outPos <= oe)
      <4>1. ot <= k => mm[k] = mem[k]
        <5>1. ot <= k => k \in 1 .. k
          BY <1>2, <2>3
        <5>. QED BY <2>4, <5>1
      <4>. QED BY <1>1, <2>4, <2>6, <4>1
    <3>4. (\A i \in 1 .. k : mm[i] = b.mem[i]) /\ \A i \in 1 .. Len(mm) : Len(mm[i]) > 0
      <4>1. \A i \in 1 .. k : i \in 1 .. l
        BY <1>2, <2>3
      <4>. QED BY <1>1, <1>2, <2>4, <4>1
    <3>. QED BY <2>1, <2>3, <2>4, <2>6, <3>1, <3>2, <3>3, <3>4 DEF RebuildOK
  <2>8. SbFin(c) = (IF ot = k + 1 THEN SbMid(b) ELSE End(mm, k - 1) + oe)
    BY <1>1, <2>4, <2>7, SbRebuilt
  <2>9. SbFin(c) = m + n
    <3>1. CASE ot = k + 1
      <4>1. n = 0 /\ SbFin(c) = m
        BY <1>1, <2>6, <2>8, <3>1
      <4>2. m + 0 = m
        BY <1>3
      <4>. QED BY <4>1, <4>2
    <3>2. CASE ot # k + 1
      <4>1. ot <= k /\ k - 1 \in 0 .. k
        BY <1>2, <2>3, <3>2
      <4>. QED BY <2>5, <2>6, <2>8, <3>2, <4>1
    <3>. QED BY <3>1, <3>2
  <2>. QED BY <1>1, <2>2, <2>7, <2>9, SbRebuilt DEF SbRoom
<1>. QED BY <1>6, <1>7

\* An allocation that throws leaves the input alone.
LEMMA SbThrown ==
  ASSUME NEW b, SbGood(b), NEW n
  PROVE  LET c == SbPrepareThrows(b, n)
         IN  /\ SbGood(c) /\ c.mem = b.mem /\ SbStart(c) = SbStart(b) /\ SbMid(c) = SbMid(b)
<1>1. /\ b \in SbRec /\ b.inSize = SbMid(b) - SbStart(b)
      /\ CutOK(b.mem, 1, b.out, Len(b.mem) + 1, b.inPos, b.outPos, b.outEnd)
      /\ \A i \in 1 .. Len(b.mem) : Len(b.mem[i]) > 0
      /\ b.out <= Len(b.mem) => b.outPos < Len(b.mem[b.out])
      /\ Len(b.mem) > 0 => b.inPos < Len(b.mem[1])
  BY DEF SbGood
<1>2. PICK mem, l, ot, ip, op, oe :
        /\ mem = b.mem /\ l = Len(mem) /\ ot = b.out /\ ip = b.inPos /\ op = b.outPos
        /\ oe = (IF ot > l THEN b.outEnd ELSE Len(mem[l]))
  OBVIOUS
<1>3. CutOK(mem, 1, ot, l + 1, ip, op, b.outEnd)
  BY <1>1, <1>2
<1>4. /\ mem \in Memory /\ l \in Nat /\ ot \in Nat /\ 1 <= ot /\ ot <= l + 1 /\ op \in Nat
      /\ ip \in Nat /\ b.outEnd \in Nat
  <2>1. /\ mem \in Memory /\ ot \in Nat /\ 1 <= ot /\ ot <= l + 1 /\ op \in Nat
        /\ ip \in Nat /\ b.outEnd \in Nat
    BY <1>2, <1>3 DEF CutOK
  <2>. QED BY <1>2, <2>1, EndFacts
<1>5. oe \in Nat /\ (ot = l => op <= oe) /\ (ot <= l => oe = Len(mem[l]))
      /\ (ot = l + 1 => oe = b.outEnd)
  <2>1. CASE ot > l
    BY <1>2, <1>4, <2>1
  <2>2. CASE ~(ot > l)
    <3>1. ot <= l /\ l \in 1 .. Len(mem) /\ ot # l + 1
      BY <1>2, <1>4, <2>2
    <3>2. oe = Len(mem[l]) /\ oe \in Nat
      BY <1>2, <1>4, <2>2, <3>1, EndFacts
    <3>3. ot = l => op <= oe
      BY <1>1, <1>2, <1>4, <3>1, <3>2
    <3>. QED BY <3>1, <3>2, <3>3
  <2>. QED BY <2>1, <2>2
<1>6. PICK c : c = [b EXCEPT !.outEnd = oe]
  OBVIOUS
<1>7. SbPrepareThrows(b, n) = c
  BY <1>2, <1>6, Zenon DEF SbPrepareThrows, SbAtEnd
<1>8. /\ c \in SbRec /\ c.mem = mem /\ c.out = ot /\ c.inPos = ip /\ c.inSize = b.inSize
      /\ c.outPos = op /\ c.outEnd = oe
  BY <1>1, <1>2, <1>5, <1>6 DEF SbRec
<1>9. CutOK(mem, 1, ot, l + 1, ip, op, oe)
  <2>1. (l + 1) - 1 = l /\ (ot < l + 1 => ot <= l)
    BY <1>4
  <2>2. ot < l + 1 => oe <= Len(mem[(l + 1) - 1])
    BY <1>5, <2>1
  <2>3. ot = l + 1 => oe = 0
    BY <1>3, <1>5 DEF CutOK
  <2>4. ot = (l + 1) - 1 => op <= oe
    BY <1>5, <2>1
  <2>. QED BY <1>3, <1>5, <2>2, <2>3, <2>4 DEF CutOK
<1>10. SbStart(c) = SbStart(b) /\ SbMid(c) = SbMid(b)
  BY <1>2, <1>8 DEF SbStart, SbMid
<1>11. SbGood(c)
  BY <1>1, <1>2, <1>8, <1>9, <1>10 DEF SbGood
<1>. QED BY <1>2, <1>7, <1>8, <1>10, <1>11

LEMMA SbEmptyGood ==
  ASSUME NEW a \in Nat
  PROVE  LET c == SbEmpty(a)
         IN  SbGood(c) /\ SbStart(c) = 0 /\ SbMid(c) = 0 /\ SbFin(c) = 0 /\ c.mem = << >>
<1>1. PICK c : c = SbEmpty(a)
  OBVIOUS
<1>2. << >> \in Memory /\ Len(<< >>) = 0
  BY DEF Memory
<1>3. /\ c.mem = << >> /\ c.out = 1 /\ c.inPos = 0 /\ c.inSize = 0 /\ c.outPos = 0
      /\ c.outEnd = 0 /\ c.alloc = a
  BY <1>1 DEF SbEmpty
<1>4. c \in SbRec
  BY <1>1, <1>2 DEF SbEmpty, SbRec
<1>5. Spot(<< >>, 1, 0) = 0
  BY <1>2, EndFacts DEF Spot
<1>6. SbStart(c) = 0 /\ SbMid(c) = 0 /\ SbFin(c) = 0
  BY <1>2, <1>3, <1>5 DEF SbStart, SbMid, SbFin, Fin
<1>7. CutOK(<< >>, 1, 1, Len(<< >>) + 1, 0, 0, 0)
  BY <1>2 DEF CutOK
<1>8. SbGood(c)
  BY <1>2, <1>3, <1>4, <1>6, <1>7 DEF SbGood
<1>. QED BY <1>1, <1>3, <1>6, <1>8

-----------------------------------------------------------------------------
(* data() and the result of prepare().                                     *)

LEMMA SbShows ==
  ASSUME NEW b, SbGood(b)
  PROVE  /\ Shows(b.mem, SbData(b), SbStart(b), SbMid(b))
         /\ Shows(b.mem, SbOutput(b), SbMid(b), SbFin(b))
<1>1. CutOK(b.mem, 1, b.out, Len(b.mem) + 1, b.inPos, b.outPos, b.outEnd)
  BY DEF SbGood
<1>2. PICK mem, ot, ip, op, oe, l :
        mem = b.mem /\ ot = b.out /\ ip = b.inPos /\ op = b.outPos /\ oe = b.outEnd /\ l = Len(mem)
  OBVIOUS
<1>3. CutOK(mem, 1, ot, l + 1, ip, op, oe)
  BY <1>1, <1>2
<1>4. l \in Nat /\ ot \in Nat /\ 1 <= ot /\ ot <= l + 1
  <2>1. mem \in Memory /\ ot \in Nat /\ 1 <= ot /\ ot <= l + 1
    BY <1>2, <1>3 DEF CutOK
  <2>. QED BY <1>2, <2>1, EndFacts
<1>5. SbData(b) = CutData(mem, 1, ot, l + 1, ip, op)
  <2>1. (IF ot = l + 1 THEN l + 1 ELSE ot + 1) - 1 = (IF ot > l THEN l ELSE ot)
    BY <1>4
  <2>2. PICK q : q = (IF ot > l THEN l ELSE ot)
    OBVIOUS
  <2>3. q \in Nat
    BY <1>4, <2>2
  <2>4. \A j \in 1 .. q : 1 + j - 1 = j
    BY <2>3
  <2>5. CutData(mem, 1, ot, l + 1, ip, op)
          = [j \in 1 .. q |-> Buffer(1 + j - 1, IF j = 1 THEN ip ELSE 0,
                                     IF 1 + j - 1 = ot THEN op ELSE Len(mem[1 + j - 1]))]
    BY <2>1, <2>2 DEF CutData
  <2>6. SbData(b) = [j \in 1 .. q |-> Buffer(j, IF j = 1 THEN ip ELSE 0,
                                             IF j = ot THEN op ELSE Len(mem[j]))]
    BY <1>2, <2>2 DEF SbData, SbAtEnd
  <2>. QED BY <2>4, <2>5, <2>6
<1>6. SbOutput(b) = CutOutput(mem, ot, l + 1, op, oe)
  <2>1. (l + 1) - 1 = l
    BY <1>4
  <2>2. SbOutput(b) = [j \in 1 .. l + 1 - ot |->
                         Buffer(ot + j - 1, IF j = 1 THEN op ELSE 0,
                                            IF ot + j - 1 = l THEN oe ELSE Len(mem[ot + j - 1]))]
    BY <1>2 DEF SbOutput
  <2>3. PICK h, w : h = l + 1 /\ w = h - ot
    OBVIOUS
  <2>4. CutOutput(mem, ot, h, op, oe)
          = [j \in 1 .. w |->
               Buffer(ot + j - 1, IF j = 1 THEN op ELSE 0,
                                  IF ot + j - 1 = h - 1 THEN oe ELSE Len(mem[ot + j - 1]))]
    BY <2>3 DEF CutOutput
  <2>5. h - 1 = l /\ w = l + 1 - ot
    BY <1>4, <2>1, <2>3
  <2>6. SbOutput(b) = [j \in 1 .. w |->
                         Buffer(ot + j - 1, IF j = 1 THEN op ELSE 0,
                                            IF ot + j - 1 = l THEN oe ELSE Len(mem[ot + j - 1]))]
    BY <2>2, <2>5, Zenon
  <2>7. CutOutput(mem, ot, h, op, oe)
          = [j \in 1 .. w |->
               Buffer(ot + j - 1, IF j = 1 THEN op ELSE 0,
                                  IF ot + j - 1 = l THEN oe ELSE Len(mem[ot + j - 1]))]
    BY <2>4, <2>5, Zenon
  <2>. QED BY <2>3, <2>6, <2>7, Zenon
<1>7. /\ SbStart(b) = Spot(mem, 1, ip) /\ SbMid(b) = Spot(mem, ot, op)
      /\ SbFin(b) = Fin(mem, ot, l + 1, op, oe)
  BY <1>2 DEF SbStart, SbMid, SbFin
<1>8. Shows(mem, CutData(mem, 1, ot, l + 1, ip, op), Spot(mem, 1, ip), Spot(mem, ot, op))
  BY <1>3, CutDataShows
<1>9. Shows(mem, CutOutput(mem, ot, l + 1, op, oe), Spot(mem, ot, op), Fin(mem, ot, l + 1, op, oe))
  BY <1>3, CutOutputShows
<1>. QED BY <1>2, <1>5, <1>6, <1>7, <1>8, <1>9

LEMMA BaShows ==
  ASSUME NEW b, BaGood(b)
  PROVE  /\ Shows(b.mem, BaData(b), BaStart(b), BaMid(b))
         /\ Shows(b.mem, BaOutput(b), BaMid(b), BaFin(b))
<1>1. CutOK(b.mem, b.begin, b.out, b.end, b.inPos, b.outPos, b.outEnd)
  BY DEF BaGood
<1>2. BaData(b) = CutData(b.mem, b.begin, b.out, b.end, b.inPos, b.outPos)
  BY Zenon DEF BaData, CutData
<1>3. BaOutput(b) = CutOutput(b.mem, b.out, b.end, b.outPos, b.outEnd)
  BY Zenon DEF BaOutput, CutOutput
<1>4. Shows(b.mem, CutData(b.mem, b.begin, b.out, b.end, b.inPos, b.outPos),
            Spot(b.mem, b.begin, b.inPos), Spot(b.mem, b.out, b.outPos))
  BY <1>1, CutDataShows
<1>5. Shows(b.mem, CutOutput(b.mem, b.out, b.end, b.outPos, b.outEnd),
            Spot(b.mem, b.out, b.outPos), Fin(b.mem, b.out, b.end, b.outPos, b.outEnd))
  BY <1>1, CutOutputShows
<1>. QED BY <1>2, <1>3, <1>4, <1>5 DEF BaStart, BaMid, BaFin

LEMMA BaPlaces ==
  ASSUME NEW b, BaGood(b)
  PROVE  /\ BaStart(b) \in Nat /\ BaMid(b) \in Nat /\ BaFin(b) \in Nat
         /\ BaStart(b) <= BaMid(b) /\ BaMid(b) <= BaFin(b)
         /\ b.inSize = BaMid(b) - BaStart(b) /\ b.inSize \in Nat
         /\ b.mem \in Memory /\ b \in BaRec
<1>1. CutOK(b.mem, b.begin, b.out, b.end, b.inPos, b.outPos, b.outEnd) /\ b \in BaRec
      /\ b.inSize = BaMid(b) - BaStart(b)
  BY DEF BaGood
<1>2. b.mem \in Memory /\ b.inSize \in Nat
  BY <1>1 DEF BaRec
<1>. QED BY <1>1, <1>2, CutOrder DEF BaStart, BaMid, BaFin

\* The sequences of every class show the bytes between their places.
LEMMA GoodShows ==
  ASSUME NEW b, Good(b)
  PROVE  /\ Shows(b.mem, DataOf(b), StartOf(b), MidOf(b))
         /\ Shows(b.mem, OutputOf(b), MidOf(b), FinOf(b))
         /\ b.mem \in Memory /\ StartOf(b) \in Nat /\ MidOf(b) \in Nat /\ FinOf(b) \in Nat
         /\ StartOf(b) <= MidOf(b) /\ MidOf(b) <= FinOf(b)
         /\ SizeIn(b) = MidOf(b) - StartOf(b)
<1>1. CASE kind = "streambuf" /\ SbGood(b)
  <2>1. /\ DataOf(b) = SbData(b) /\ OutputOf(b) = SbOutput(b) /\ StartOf(b) = SbStart(b)
        /\ MidOf(b) = SbMid(b) /\ FinOf(b) = SbFin(b) /\ SizeIn(b) = b.inSize
    BY <1>1 DEF DataOf, OutputOf, StartOf, MidOf, FinOf, SizeIn
  <2>. QED BY <1>1, <2>1, SbShows, SbPlaces
<1>2. CASE kind = "adapter" /\ BaGood(b)
  <2>1. /\ DataOf(b) = BaData(b) /\ OutputOf(b) = BaOutput(b) /\ StartOf(b) = BaStart(b)
        /\ MidOf(b) = BaMid(b) /\ FinOf(b) = BaFin(b) /\ SizeIn(b) = b.inSize
    BY <1>2 DEF DataOf, OutputOf, StartOf, MidOf, FinOf, SizeIn
  <2>. QED BY <1>2, <2>1, BaShows, BaPlaces
<1>3. CASE kind = "static" /\ SsGood(b)
  <2>1. /\ DataOf(b) = SsRange(b.in, b.out) /\ OutputOf(b) = SsRange(b.out, b.last)
        /\ StartOf(b) = b.in /\ MidOf(b) = b.out /\ FinOf(b) = b.last
        /\ SizeIn(b) = b.out - b.in
    BY <1>3 DEF DataOf, OutputOf, StartOf, MidOf, FinOf, SizeIn, SsData, SsOutput
  <2>2. /\ b.mem \in Memory /\ Len(b.mem) = 1 /\ b.in \in Nat /\ b.out \in Nat /\ b.last \in Nat
        /\ b.in <= b.out /\ b.out <= b.last /\ b.last <= Len(b.mem[1])
    BY <1>3 DEF SsGood, SsRec
  <2>3. Len(b.mem[1]) \in Nat
    <3>1. 1 \in 1 .. Len(b.mem)
      BY <2>2
    <3>. QED BY <2>2, <3>1, EndFacts
  <2>4. b.out <= Len(b.mem[1])
    BY <2>2, <2>3
  <2>5. Shows(b.mem, SsRange(b.in, b.out), b.in, b.out)
    BY <2>2, <2>4, SsRangeShows
  <2>6. Shows(b.mem, SsRange(b.out, b.last), b.out, b.last)
    BY <2>2, SsRangeShows
  <2>. QED BY <2>1, <2>2, <2>5, <2>6
<1>. QED BY <1>1, <1>2, <1>3 DEF Good

-----------------------------------------------------------------------------
(* Bytes that are written and bytes that are forgotten.                    *)

LEMMA CutSame ==
  ASSUME NEW mem, NEW bg, NEW ot, NEW en, NEW ip, NEW op, NEW oe,
         CutOK(mem, bg, ot, en, ip, op, oe), NEW m, SameShape(m, mem)
  PROVE  /\ CutOK(m, bg, ot, en, ip, op, oe) /\ Spot(m, bg, ip) = Spot(mem, bg, ip)
         /\ Spot(m, ot, op) = Spot(mem, ot, op)
         /\ Fin(m, ot, en, op, oe) = Fin(mem, ot, en, op, oe)
<1>1. mem \in Memory
  BY DEF CutOK
<1>2. /\ m \in Memory /\ Len(m) = Len(mem) /\ Len(mem) \in Nat
      /\ (\A i \in 0 .. Len(mem) : End(m, i) = End(mem, i))
      /\ (\A i \in 1 .. Len(mem) : Len(m[i]) = Len(mem[i]))
  BY <1>1, ShapeEnds
<1>3. /\ bg - 1 \in 0 .. Len(mem) /\ ot - 1 \in 0 .. Len(mem) /\ en - 1 \in 0 .. Len(mem)
      /\ (ot < en => ot \in 1 .. Len(mem) /\ en - 1 \in 1 .. Len(mem) /\ en - 2 \in 0 .. Len(mem))
      /\ (bg < ot => bg \in 1 .. Len(mem)) /\ ot <= en /\ ot \in Nat /\ en \in Nat
  BY CutFacts DEF CutOK
<1>4. /\ (ot < en => Len(m[ot]) = Len(mem[ot]) /\ Len(m[en - 1]) = Len(mem[en - 1]))
      /\ (bg < ot => Len(m[bg]) = Len(mem[bg]))
  BY <1>2, <1>3
<1>5. CutOK(m, bg, ot, en, ip, op, oe)
  BY <1>2, <1>4 DEF CutOK
<1>6. Spot(m, bg, ip) = Spot(mem, bg, ip) /\ Spot(m, ot, op) = Spot(mem, ot, op)
  BY <1>2, <1>3 DEF Spot
<1>7. Fin(m, ot, en, op, oe) = Fin(mem, ot, en, op, oe)
  <2>1. CASE ot = en
    BY <1>6, <2>1 DEF Fin
  <2>2. CASE ot # en
    <3>1. ot < en /\ (en - 1) - 1 = en - 2
      BY <1>3, <2>2
    <3>2. (en - 1) - 1 \in 0 .. Len(mem)
      BY <1>3, <3>1
    <3>. QED BY <1>2, <2>2, <3>2 DEF Fin, Spot
  <2>. QED BY <2>1, <2>2
<1>. QED BY <1>5, <1>6, <1>7

\* A buffer is as good with other bytes.
LEMMA GoodSame ==
  ASSUME NEW b, Good(b), NEW m, SameShape(m, b.mem), NEW c, c = [b EXCEPT !.mem = m]
  PROVE  /\ Good(c) /\ c.mem = m /\ StartOf(c) = StartOf(b) /\ MidOf(c) = MidOf(b)
         /\ FinOf(c) = FinOf(b)
<1>0. b.mem \in Memory
  BY GoodShows
<1>1. /\ m \in Memory /\ Len(m) = Len(b.mem) /\ Len(b.mem) \in Nat
      /\ (\A i \in 0 .. Len(b.mem) : End(m, i) = End(b.mem, i))
      /\ (\A i \in 1 .. Len(b.mem) : Len(m[i]) = Len(b.mem[i]))
  BY <1>0, ShapeEnds
<1>2. CASE kind = "streambuf" /\ SbGood(b)
  <2>1. /\ b \in SbRec /\ b.inSize = SbMid(b) - SbStart(b)
        /\ CutOK(b.mem, 1, b.out, Len(b.mem) + 1, b.inPos, b.outPos, b.outEnd)
        /\ \A i \in 1 .. Len(b.mem) : Len(b.mem[i]) > 0
        /\ b.out <= Len(b.mem) => b.outPos < Len(b.mem[b.out])
        /\ Len(b.mem) > 0 => b.inPos < Len(b.mem[1])
    BY <1>2 DEF SbGood
  <2>2. /\ c \in SbRec /\ c.mem = m /\ c.out = b.out /\ c.inPos = b.inPos /\ c.inSize = b.inSize
        /\ c.outPos = b.outPos /\ c.outEnd = b.outEnd
    BY <1>1, <2>1 DEF SbRec
  <2>3. /\ CutOK(m, 1, b.out, Len(m) + 1, b.inPos, b.outPos, b.outEnd)
        /\ Spot(m, 1, b.inPos) = Spot(b.mem, 1, b.inPos)
        /\ Spot(m, b.out, b.outPos) = Spot(b.mem, b.out, b.outPos)
        /\ Fin(m, b.out, Len(m) + 1, b.outPos, b.outEnd)
             = Fin(b.mem, b.out, Len(b.mem) + 1, b.outPos, b.outEnd)
    BY <1>1, <2>1, CutSame
  <2>4. SbStart(c) = SbStart(b) /\ SbMid(c) = SbMid(b) /\ SbFin(c) = SbFin(b)
    BY <2>2, <2>3 DEF SbStart, SbMid, SbFin
  <2>5. /\ (b.out <= Len(m) => b.outPos < Len(m[b.out])) /\ (Len(m) > 0 => b.inPos < Len(m[1]))
        /\ \A i \in 1 .. Len(m) : Len(m[i]) > 0
    <3>1. b.out \in Nat /\ b.out >= 1
      BY <2>1 DEF CutOK
    <3>2. (b.out <= Len(m) => b.out \in 1 .. Len(b.mem)) /\ (Len(m) > 0 => 1 \in 1 .. Len(b.mem))
      BY <1>1, <3>1
    <3>. QED BY <1>1, <2>1, <3>2
  <2>6. SbGood(c)
    BY <2>1, <2>2, <2>3, <2>4, <2>5 DEF SbGood
  <2>. QED BY <1>2, <2>2, <2>4, <2>6 DEF Good, StartOf, MidOf, FinOf
<1>3. CASE kind = "adapter" /\ BaGood(b)
  <2>1. /\ b \in BaRec /\ b.inSize = BaMid(b) - BaStart(b)
        /\ CutOK(b.mem, b.begin, b.out, b.end, b.inPos, b.outPos, b.outEnd)
        /\ b.maxSize = End(b.mem, Len(b.mem)) - BaMid(b)
    BY <1>3 DEF BaGood
  <2>2. /\ c \in BaRec /\ c.mem = m /\ c.begin = b.begin /\ c.out = b.out /\ c.end = b.end
        /\ c.inPos = b.inPos /\ c.inSize = b.inSize /\ c.outPos = b.outPos
        /\ c.outEnd = b.outEnd /\ c.maxSize = b.maxSize
    BY <1>1, <2>1 DEF BaRec
  <2>3. /\ CutOK(m, b.begin, b.out, b.end, b.inPos, b.outPos, b.outEnd)
        /\ Spot(m, b.begin, b.inPos) = Spot(b.mem, b.begin, b.inPos)
        /\ Spot(m, b.out, b.outPos) = Spot(b.mem, b.out, b.outPos)
        /\ Fin(m, b.out, b.end, b.outPos, b.outEnd) = Fin(b.mem, b.out, b.end, b.outPos, b.outEnd)
    BY <2>1, CutSame
  <2>4. BaStart(c) = BaStart(b) /\ BaMid(c) = BaMid(b) /\ BaFin(c) = BaFin(b)
    BY <2>2, <2>3 DEF BaStart, BaMid, BaFin
  <2>5. End(m, Len(m)) = End(b.mem, Len(b.mem))
    BY <1>1
  <2>6. BaGood(c)
    BY <2>1, <2>2, <2>3, <2>4, <2>5 DEF BaGood
  <2>. QED BY <1>3, <2>2, <2>4, <2>6 DEF Good, StartOf, MidOf, FinOf
<1>4. CASE kind = "static" /\ SsGood(b)
  <2>1. /\ b \in SsRec /\ Len(b.mem) = 1
        /\ b.in <= b.out /\ b.out <= b.last /\ b.last <= Len(b.mem[1])
    BY <1>4 DEF SsGood
  <2>2. c \in SsRec /\ c.mem = m /\ c.in = b.in /\ c.out = b.out /\ c.last = b.last
    BY <1>1, <2>1 DEF SsRec
  <2>3. Len(m) = 1 /\ Len(m[1]) = Len(b.mem[1])
    BY <1>1, <2>1
  <2>4. SsGood(c)
    BY <2>1, <2>2, <2>3 DEF SsGood
  <2>. QED BY <1>4, <2>2, <2>4 DEF Good, StartOf, MidOf, FinOf
<1>. QED BY <1>2, <1>3, <1>4 DEF Good

\* What is forgotten is in neither sequence.
LEMMA Forgotten ==
  ASSUME NEW b, Good(b)
  PROVE  LET c == Forget(b)
         IN  /\ Good(c) /\ StartOf(c) = StartOf(b) /\ MidOf(c) = MidOf(b) /\ FinOf(c) = FinOf(b)
             /\ \A n \in Int : \A t : n <= FinOf(b) - StartOf(b) /\ Known(b.mem, StartOf(b), n, t)
                  => Known(c.mem, StartOf(b), n, t)
<1> DEFINE used == Range(DataOf(b)) \cup Range(OutputOf(b))
           InUse(i, k) == \E u \in used : u.at = i /\ u.from < k /\ k <= u.to
           m == [i \in DOMAIN b.mem |-> [k \in DOMAIN b.mem[i] |->
                   IF InUse(i, k) THEN b.mem[i][k] ELSE Garbage]]
<1>1. Forget(b) = [b EXCEPT !.mem = m]
  BY Zenon DEF Forget
<1>2. /\ Shows(b.mem, DataOf(b), StartOf(b), MidOf(b))
      /\ Shows(b.mem, OutputOf(b), MidOf(b), FinOf(b))
      /\ b.mem \in Memory /\ StartOf(b) \in Nat /\ MidOf(b) \in Nat /\ FinOf(b) \in Nat
  BY GoodShows
<1>3. PICK mem : mem = b.mem
  OBVIOUS
<1>4. mem \in Memory /\ Len(mem) \in Nat /\ DOMAIN mem = 1 .. Len(mem)
      /\ \A i \in 1 .. Len(mem) :
           mem[i] \in Seq(Nat) /\ Len(mem[i]) \in Nat /\ DOMAIN mem[i] = 1 .. Len(mem[i])
           /\ \A k \in 1 .. Len(mem[i]) : mem[i][k] \in Nat
  <2>1. mem \in Memory
    BY <1>2, <1>3
  <2>2. mem \in Seq(Seq(Nat))
    BY <2>1 DEF Memory
  <2>. QED BY <2>1, <2>2
<1>5. /\ DOMAIN m = 1 .. Len(mem)
      /\ \A i \in 1 .. Len(mem) : DOMAIN m[i] = 1 .. Len(mem[i])
           /\ \A k \in 1 .. Len(mem[i]) : m[i][k] = IF InUse(i, k) THEN mem[i][k] ELSE 0
  <2>. HIDE DEF InUse
  <2>. QED BY <1>3, <1>4 DEF Garbage
<1>6. PICK mm : mm = m
  OBVIOUS
<1>. HIDE DEF m
<1>7. MadeOf(mm, mm, mem)
  <2>. HIDE DEF InUse
  <2>1. \A i \in 1 .. Len(mem) : \A k \in 1 .. Len(mem[i]) : mm[i][k] \in Nat
    <3>. TAKE i \in 1 .. Len(mem)
    <3>. TAKE k \in 1 .. Len(mem[i])
    <3>1. mm[i][k] = IF InUse(i, k) THEN mem[i][k] ELSE 0
      BY <1>5, <1>6
    <3>2. mem[i][k] \in Nat
      BY <1>4
    <3>3. CASE InUse(i, k)
      BY <3>1, <3>2, <3>3
    <3>4. CASE ~InUse(i, k)
      BY <3>1, <3>4
    <3>. QED BY <3>3, <3>4
  <2>2. mm = [i \in DOMAIN mem |-> [k \in DOMAIN mem[i] |-> mm[i][k]]]
    <3>1. m = [i \in DOMAIN mem |-> m[i]]
      BY <1>3, Zenon DEF m
    <3>2. \A i \in DOMAIN mem : m[i] = [k \in DOMAIN mem[i] |-> m[i][k]]
      BY <1>3, <1>4 DEF m
    <3>. QED BY <1>6, <3>1, <3>2
  <2>. QED BY <2>1, <2>2 DEF MadeOf
<1>8. SameShape(mm, mem)
  BY <1>4, <1>7, MadeBytes
<1>9. PICK c : c = [b EXCEPT !.mem = mm]
  OBVIOUS
<1>10. /\ Good(c) /\ c.mem = mm /\ StartOf(c) = StartOf(b) /\ MidOf(c) = MidOf(b)
       /\ FinOf(c) = FinOf(b)
  BY <1>3, <1>8, <1>9, GoodSame
<1>11. PICK s, mi, f : s = StartOf(b) /\ mi = MidOf(b) /\ f = FinOf(b)
  OBVIOUS
<1>12. s \in Nat /\ mi \in Nat /\ f \in Nat
  BY <1>2, <1>11
<1>13. ASSUME NEW i \in 1 .. Len(mem), NEW k \in 1 .. Len(mem[i]),
              s < End(mem, i - 1) + k, End(mem, i - 1) + k <= f
       PROVE  mm[i][k] = mem[i][k]
  <2>1. InUse(i, k)
    <3>1. CASE End(mem, i - 1) + k <= mi
      <4>1. \E u \in Range(DataOf(b)) : u.at = i /\ u.from < k /\ k <= u.to
        BY <1>2, <1>3, <1>11, <1>13, <3>1, ShowsHas
      <4>. QED BY <4>1
    <3>2. CASE ~(End(mem, i - 1) + k <= mi)
      <4>1. i - 1 \in 0 .. Len(mem) /\ k \in Nat
        BY <1>4
      <4>2. End(mem, i - 1) \in Nat
        BY <1>4, <4>1, EndFacts
      <4>3. mi < End(mem, i - 1) + k
        BY <1>12, <3>2, <4>1, <4>2
      <4>4. \E u \in Range(OutputOf(b)) : u.at = i /\ u.from < k /\ k <= u.to
        BY <1>2, <1>3, <1>11, <1>13, <4>3, ShowsHas
      <4>. QED BY <4>4
    <3>. QED BY <3>1, <3>2
  <2>. HIDE DEF InUse
  <2>. QED BY <1>5, <1>6, <2>1
<1>14. ASSUME NEW n \in Int, NEW t, n <= f - s, Known(mem, s, n, t)
       PROVE  Known(mm, s, n, t)
  <2>1. ASSUME NEW i \in 1 .. Len(mem), NEW k \in 1 .. Len(mem[i]),
               s < End(mem, i - 1) + k, End(mem, i - 1) + k <= s + n
        PROVE  mm[i][k] = mem[i][k]
    <3>1. i - 1 \in 0 .. Len(mem) /\ k \in Nat
      BY <1>4
    <3>2. PICK e : e = End(mem, i - 1)
      OBVIOUS
    <3>3. e \in Nat
      BY <1>4, <3>1, <3>2, EndFacts
    <3>4. e + k <= f
      BY <1>12, <1>14, <2>1, <3>1, <3>2, <3>3
    <3>. QED BY <1>13, <2>1, <3>2, <3>4
  <2>2. s \in Int
    BY <1>12
  <2>. QED BY <1>4, <1>8, <1>14, <2>1, <2>2, KnownSame
<1>15. Forget(b) = c
  BY <1>1, <1>6, <1>9
<1>. QED BY <1>3, <1>10, <1>11, <1>14, <1>15

-----------------------------------------------------------------------------
(* prepare of a buffers_adapter.                                           *)

\* The output sequence ends somewhere else.
BaEndOK(b, en, oe, c) ==
  /\ BaGood(b) /\ CutOK(b.mem, b.begin, b.out, en, b.inPos, b.outPos, oe)
  /\ c = [b EXCEPT !.end = en, !.outEnd = oe]

LEMMA BaEnded ==
  ASSUME NEW b, NEW en, NEW oe, NEW c, BaEndOK(b, en, oe, c)
  PROVE  /\ BaGood(c) /\ c.mem = b.mem /\ BaStart(c) = BaStart(b) /\ BaMid(c) = BaMid(b)
         /\ BaFin(c) = Fin(b.mem, b.out, en, b.outPos, oe)
<1>0. /\ BaGood(b) /\ CutOK(b.mem, b.begin, b.out, en, b.inPos, b.outPos, oe)
      /\ c = [b EXCEPT !.end = en, !.outEnd = oe]
  BY DEF BaEndOK
<1>1. /\ b \in BaRec /\ b.inSize = BaMid(b) - BaStart(b)
      /\ b.maxSize = End(b.mem, Len(b.mem)) - BaMid(b)
  BY <1>0 DEF BaGood
<1>2. en \in Nat /\ oe \in Nat
  BY <1>0 DEF CutOK
<1>3. /\ c \in BaRec /\ c.mem = b.mem /\ c.begin = b.begin /\ c.out = b.out /\ c.end = en
      /\ c.inPos = b.inPos /\ c.inSize = b.inSize /\ c.outPos = b.outPos
      /\ c.outEnd = oe /\ c.maxSize = b.maxSize
  BY <1>0, <1>1, <1>2 DEF BaRec
<1>4. /\ BaStart(c) = BaStart(b) /\ BaMid(c) = BaMid(b)
      /\ BaFin(c) = Fin(b.mem, b.out, en, b.outPos, oe)
  BY <1>3 DEF BaStart, BaMid, BaFin
<1>5. BaGood(c)
  BY <1>0, <1>1, <1>3, <1>4 DEF BaGood
<1>. QED BY <1>3, <1>4, <1>5

\* What prepare needs, by places.
LEMMA BaNeedIs ==
  ASSUME NEW b, BaGood(b), NEW n \in Nat
  PROVE  LET need == BaNeed(b, n)
             l == Len(b.mem)
         IN  /\ l \in Nat /\ b.out \in Nat /\ 1 <= b.out /\ b.out <= l + 1 /\ need \in Int
             /\ b.outPos \in Nat /\ BaMid(b) \in Nat /\ End(b.mem, l) \in Nat
             /\ b.maxSize = End(b.mem, l) - BaMid(b)
             /\ b.out = l + 1 => need = n /\ BaMid(b) = End(b.mem, l) /\ b.outPos = 0
             /\ b.out <= l => /\ End(b.mem, b.out) + need = BaMid(b) + n
                              /\ b.outPos <= Len(b.mem[b.out]) /\ End(b.mem, b.out) \in Nat
                              /\ BaMid(b) = End(b.mem, b.out - 1) + b.outPos
                              /\ \A j \in b.out .. l :
                                   /\ Total(b.mem, b.out + 1, j) = End(b.mem, j) - End(b.mem, b.out)
                                   /\ End(b.mem, j) \in Nat
<1>1. PICK mem, ot, op, l, m, need :
        /\ mem = b.mem /\ ot = b.out /\ op = b.outPos /\ l = Len(mem) /\ m = BaMid(b)
        /\ need = BaNeed(b, n)
  OBVIOUS
<1>2. CutOK(mem, b.begin, ot, b.end, b.inPos, op, b.outEnd) /\ b.maxSize = End(mem, l) - m
  BY <1>1 DEF BaGood
<1>3. /\ mem \in Memory /\ ot \in Nat /\ 1 <= ot /\ ot <= l + 1 /\ op \in Nat /\ l \in Nat
  <2>1. mem \in Memory /\ ot \in 1 .. Len(mem) + 1 /\ op \in Nat /\ Len(mem) \in Nat
    BY <1>2, CutFacts
  <2>. QED BY <1>1, <2>1
<1>4. (ot = l + 1 => op = 0) /\ (ot <= l => op <= Len(mem[ot]))
  <2>1. PICK en : en = b.end
    OBVIOUS
  <2>2. /\ en \in Nat /\ ot <= en /\ en <= l + 1 /\ (ot = en => op = 0)
        /\ (ot < en => op <= Len(mem[ot]))
    BY <1>1, <1>2, <2>1 DEF CutOK
  <2>3. ot = l + 1 => op = 0
    BY <1>3, <2>2
  <2>4. ot <= l => op <= Len(mem[ot])
    <3>. SUFFICES ASSUME ot <= l PROVE op <= Len(mem[ot])
      OBVIOUS
    <3>1. ot \in 1 .. Len(mem)
      BY <1>1, <1>3
    <3>2. Len(mem[ot]) \in Nat
      BY <1>3, <3>1, EndFacts
    <3>. QED BY <1>3, <2>2, <3>2
  <2>. QED BY <2>3, <2>4
<1>5. m \in Nat /\ m = End(mem, ot - 1) + op
  BY <1>1, BaPlaces DEF BaMid, Spot
<1>6. \A j \in 0 .. l : End(mem, j) \in Nat
  BY <1>1, <1>3, EndFacts
<1>7. End(mem, l) \in Nat
  BY <1>3, <1>6
<1>8. need = n - (IF ot > l THEN 0 ELSE Len(mem[ot]) - op)
  BY <1>1 DEF BaNeed
<1>9. CASE ot = l + 1
  <2>1. ot > l /\ op = 0 /\ ot - 1 = l /\ ~(ot <= l)
    BY <1>3, <1>4, <1>9
  <2>2. need = n /\ m = End(mem, l)
    BY <1>5, <1>7, <1>8, <2>1
  <2>. QED BY <1>1, <1>2, <1>3, <1>5, <1>7, <1>9, <2>1, <2>2
<1>10. CASE ot # l + 1
  <2>1. ot <= l /\ ~(ot > l) /\ ot \in 1 .. l /\ ot \in 0 .. l /\ ot - 1 \in 0 .. l
    BY <1>3, <1>10
  <2>2. PICK e, f, q : e = End(mem, ot - 1) /\ f = End(mem, ot) /\ q = Len(mem[ot])
    OBVIOUS
  <2>3. e \in Nat /\ f \in Nat /\ q \in Nat /\ f = e + q /\ op <= q
    BY <1>1, <1>3, <1>4, <2>1, <2>2, EndFacts
  <2>4. need = n - (q - op) /\ m = e + op
    BY <1>5, <1>8, <2>1, <2>2
  <2>5. need \in Int /\ f + need = m + n
    BY <1>3, <2>3, <2>4
  <2>6. \A j \in ot .. l : Total(mem, ot + 1, j) = End(mem, j) - f /\ End(mem, j) \in Nat
    <3>. TAKE j \in ot .. l
    <3>1. j \in (ot + 1) - 1 .. Len(mem) /\ ot + 1 \in 1 .. Len(mem) + 1 /\ (ot + 1) - 1 = ot
          /\ j \in 0 .. l
      BY <1>1, <1>3, <2>1
    <3>2. Total(mem, ot + 1, j) = End(mem, j) - End(mem, (ot + 1) - 1)
      BY <1>3, <3>1, TotalByEnds
    <3>. QED BY <1>6, <2>2, <3>1, <3>2
  <2>. QED BY <1>1, <1>2, <1>3, <1>4, <1>5, <1>7, <1>10, <2>1, <2>2, <2>3, <2>5, <2>6
<1>. QED BY <1>9, <1>10

\* max_size() is what prepare can return.
LEMMA BaThrowsIs ==
  ASSUME NEW b, BaGood(b), NEW n \in Nat
  PROVE  BaThrows(b, n) <=> n > b.maxSize
<1>1. PICK need, l, m, f, el :
        /\ need = BaNeed(b, n) /\ l = Len(b.mem) /\ m = BaMid(b) /\ f = End(b.mem, b.out)
        /\ el = End(b.mem, l)
  OBVIOUS
<1>2. /\ l \in Nat /\ b.out \in Nat /\ b.out <= l + 1 /\ need \in Int /\ m \in Nat /\ el \in Nat
      /\ b.maxSize = el - m /\ (b.out = l + 1 => need = n /\ m = el)
      /\ (b.out <= l => /\ f + need = m + n /\ f \in Nat
                        /\ \A j \in b.out .. l : Total(b.mem, b.out + 1, j) = End(b.mem, j) - f)
  BY <1>1, BaNeedIs
<1>3. CASE b.out = l + 1
  <2>1. Total(b.mem, b.out + 1, l) = 0
    BY <1>2, <1>3, TotalEmpty
  <2>2. need = n /\ b.maxSize = 0
    BY <1>2, <1>3
  <2>. QED BY <1>1, <2>1, <2>2 DEF BaThrows
<1>4. CASE b.out # l + 1
  <2>1. b.out <= l /\ l \in b.out .. l
    BY <1>2, <1>4
  <2>2. Total(b.mem, b.out + 1, l) = el - f
    BY <1>1, <1>2, <2>1
  <2>3. need > el - f <=> n > el - m
    BY <1>2, <2>1
  <2>. QED BY <1>1, <1>2, <2>2, <2>3 DEF BaThrows
<1>. QED BY <1>3, <1>4

\* What prepare promises: the input as before, and room for n bytes if it
\* does not throw.
BaRoom(b, c, n) ==
  /\ BaGood(c) /\ c.mem = b.mem /\ BaStart(c) = BaStart(b) /\ BaMid(c) = BaMid(b)
  /\ ~BaThrows(b, n) => BaFin(c) = BaMid(b) + n

BaRoomOK(b, n, en, oe, c) ==
  /\ BaGood(b) /\ n \in Nat /\ en \in Nat /\ oe \in Nat
  /\ b.out < en /\ en <= Len(b.mem) + 1 /\ oe <= Len(b.mem[en - 1])
  /\ (b.out = en - 1 => b.outPos <= oe)
  /\ (~BaThrows(b, n) => End(b.mem, en - 2) + oe = BaMid(b) + n)
  /\ c = [b EXCEPT !.end = en, !.outEnd = oe]

LEMMA BaRoomFor ==
  ASSUME NEW b, NEW n, NEW en, NEW oe, NEW c, BaRoomOK(b, n, en, oe, c)
  PROVE  BaRoom(b, c, n)
<1>0. /\ BaGood(b) /\ n \in Nat /\ en \in Nat /\ oe \in Nat
      /\ b.out < en /\ en <= Len(b.mem) + 1 /\ oe <= Len(b.mem[en - 1])
      /\ (b.out = en - 1 => b.outPos <= oe)
      /\ (~BaThrows(b, n) => End(b.mem, en - 2) + oe = BaMid(b) + n)
      /\ c = [b EXCEPT !.end = en, !.outEnd = oe]
  BY DEF BaRoomOK
<1>. USE <1>0
<1>1. CutOK(b.mem, b.begin, b.out, b.end, b.inPos, b.outPos, b.outEnd)
  BY DEF BaGood
<1>2. b.out \in Nat /\ Len(b.mem) \in Nat
  BY BaNeedIs
<1>3. b.out <= Len(b.mem) /\ b.out # en
  BY <1>2
<1>4. b.outPos <= Len(b.mem[b.out])
  BY <1>3, BaNeedIs
<1>5. CutOK(b.mem, b.begin, b.out, en, b.inPos, b.outPos, oe)
  <2>1. b.out <= en
    BY <1>2
  <2>. QED BY <1>1, <1>3, <1>4, <2>1 DEF CutOK
<1>6. Fin(b.mem, b.out, en, b.outPos, oe) = End(b.mem, en - 2) + oe
  <2>1. (en - 1) - 1 = en - 2
    OBVIOUS
  <2>. QED BY <1>3, <2>1 DEF Fin, Spot
<1>7. /\ BaGood(c) /\ c.mem = b.mem /\ BaStart(c) = BaStart(b) /\ BaMid(c) = BaMid(b)
      /\ BaFin(c) = Fin(b.mem, b.out, en, b.outPos, oe)
  <2>1. BaEndOK(b, en, oe, c)
    BY <1>5 DEF BaEndOK
  <2>. QED BY <2>1, BaEnded
<1>. QED BY <1>6, <1>7 DEF BaRoom

LEMMA BaPrepared ==
  ASSUME NEW b, BaGood(b), NEW n \in Nat
  PROVE  BaRoom(b, BaPrepare(b, n), n)
<1> DEFINE fitting == {j \in b.out + 1 .. Len(b.mem) :
                         BaNeed(b, n) < Total(b.mem, b.out + 1, j)}
<1>1. BaPrepare(b, n)
        = IF b.out > Len(b.mem) THEN [b EXCEPT !.end = b.out]
          ELSE IF BaNeed(b, n) <= 0
               THEN [b EXCEPT !.end = b.out + 1, !.outEnd = b.outPos + n]
          ELSE IF fitting # {}
               THEN [b EXCEPT !.end = Min(fitting) + 1,
                       !.outEnd = BaNeed(b, n) - Total(b.mem, b.out + 1, Min(fitting) - 1)]
               ELSE [b EXCEPT !.end = Len(b.mem) + 1,
                              !.outEnd = IF b.out < Len(b.mem)
                                         THEN Len(b.mem[Len(b.mem)]) ELSE b.outEnd]
  BY Zenon DEF BaPrepare
<1>2. PICK mem, ot, op, l, m, need, f, el :
        /\ mem = b.mem /\ ot = b.out /\ op = b.outPos /\ l = Len(mem) /\ m = BaMid(b)
        /\ need = BaNeed(b, n) /\ f = End(mem, ot) /\ el = End(mem, l)
  OBVIOUS
<1>3. /\ l \in Nat /\ ot \in Nat /\ 1 <= ot /\ ot <= l + 1 /\ need \in Int /\ op \in Nat
      /\ m \in Nat /\ el \in Nat /\ b.maxSize = el - m
      /\ (ot = l + 1 => need = n /\ m = el /\ op = 0)
      /\ (ot <= l => /\ f + need = m + n /\ op <= Len(mem[ot]) /\ f \in Nat
                     /\ m = End(mem, ot - 1) + op
                     /\ \A j \in ot .. l : Total(mem, ot + 1, j) = End(mem, j) - f
                                           /\ End(mem, j) \in Nat)
  BY <1>2, BaNeedIs
<1>a. l \in Nat /\ ot \in Nat /\ 1 <= ot /\ ot <= l + 1
  BY <1>3
<1>b. Len(mem) = l
  BY <1>2
<1>4. mem \in Memory /\ b \in BaRec
  BY <1>2, BaPlaces
<1>5. CutOK(mem, b.begin, ot, b.end, b.inPos, op, b.outEnd)
  BY <1>2 DEF BaGood
<1>6. CASE ot = l + 1
  <2>1. PICK c : c = [b EXCEPT !.end = b.out, !.outEnd = b.outEnd]
    OBVIOUS
  <2>2. b.end = ot
    <3>1. b.end \in Nat /\ ot <= b.end /\ b.end <= l + 1
      BY <1>2, <1>5 DEF CutOK
    <3>. QED BY <1>3, <1>6, <3>1
  <2>3. BaPrepare(b, n) = c
    <3>1. b.out > Len(b.mem)
      BY <1>2, <1>3, <1>6
    <3>2. BaPrepare(b, n) = [b EXCEPT !.end = b.out]
      BY <1>1, <3>1
    <3>. QED BY <1>4, <2>1, <3>2 DEF BaRec
  <2>4. CutOK(b.mem, b.begin, b.out, b.out, b.inPos, b.outPos, b.outEnd)
    BY <1>2, <1>5, <2>2
  <2>5. /\ BaGood(c) /\ c.mem = b.mem /\ BaStart(c) = BaStart(b) /\ BaMid(c) = BaMid(b)
        /\ BaFin(c) = Fin(b.mem, b.out, b.out, b.outPos, b.outEnd)
    <3>1. BaEndOK(b, b.out, b.outEnd, c)
      BY <2>1, <2>4 DEF BaEndOK
    <3>. QED BY <3>1, BaEnded
  <2>6. BaFin(c) = m
    BY <1>2, <2>5 DEF Fin, BaMid
  <2>7. ~BaThrows(b, n) => n = 0
    BY <1>3, <1>6, BaThrowsIs
  <2>8. m + 0 = m
    BY <1>3
  <2>. QED BY <1>2, <2>3, <2>5, <2>6, <2>7, <2>8 DEF BaRoom
<1>7. CASE ot # l + 1 /\ need <= 0
  <2>1. ot <= l /\ ~(ot > l) /\ ot \in 1 .. Len(mem) /\ ot + 1 \in Nat /\ ot < ot + 1
        /\ ot + 1 <= l + 1 /\ (ot + 1) - 1 = ot /\ (ot + 1) - 2 = ot - 1
        /\ ot - 1 \in 0 .. Len(mem)
    <3>1. ot # l + 1
      BY <1>7
    <3>2. ot <= l /\ ~(ot > l)
      BY <1>a, <3>1
    <3>3. ot \in 1 .. l /\ ot - 1 \in 0 .. l /\ ot + 1 \in Nat /\ ot < ot + 1 /\ ot + 1 <= l + 1
      BY <1>a, <3>2
    <3>4. (ot + 1) - 1 = ot /\ (ot + 1) - 2 = ot - 1
      BY <1>a
    <3>. QED BY <1>b, <3>2, <3>3, <3>4
  <2>2. PICK c, oe : oe = op + n /\ c = [b EXCEPT !.end = b.out + 1, !.outEnd = oe]
    OBVIOUS
  <2>3. BaPrepare(b, n) = c
    BY <1>1, <1>2, <1>7, <2>1, <2>2
  <2>4. PICK e, q : e = End(mem, ot - 1) /\ q = Len(mem[ot])
    OBVIOUS
  <2>5. e \in Nat /\ q \in Nat /\ f = e + q
    BY <1>2, <1>4, <2>1, <2>4, EndFacts
  <2>6. m = e + op /\ f + need = m + n
    BY <1>3, <2>1, <2>4
  <2>7. oe \in Nat /\ oe <= q /\ op <= oe /\ e + oe = m + n
    <3>1. oe = op + n /\ need <= 0
      BY <1>7, <2>2
    <3>2. op \in Nat /\ n \in Nat /\ m \in Int /\ need \in Int
      BY <1>3
    <3>3. f + need <= f
      BY <2>5, <3>1, <3>2
    <3>. QED BY <2>5, <2>6, <3>1, <3>2, <3>3
  <2>8. BaRoomOK(b, n, ot + 1, oe, c)
    BY <1>2, <2>1, <2>2, <2>4, <2>7 DEF BaRoomOK
  <2>. QED BY <2>3, <2>8, BaRoomFor
<1>8. CASE ot # l + 1 /\ need > 0
  <2>1. ot <= l /\ ~(ot > l) /\ ~(need <= 0) /\ l \in ot .. l
    BY <1>3, <1>8
  <2>2. f + need = m + n /\ f \in Nat
        /\ \A j \in ot .. l : Total(mem, ot + 1, j) = End(mem, j) - f /\ End(mem, j) \in Nat
    BY <1>3, <2>1
  <2>3. CASE fitting # {}
    <3>1. PICK k : k = Min(fitting)
      OBVIOUS
    <3>2. fitting \subseteq Int /\ \A y \in fitting : 0 <= y
      BY <1>2, <1>3
    <3>3. k \in fitting /\ \A y \in fitting : k <= y
      <4>. HIDE DEF fitting
      <4>1. 0 \in Int
        OBVIOUS
      <4>. QED BY <2>3, <3>1, <3>2, <4>1, MinOf, Zenon
    <3>4. k \in ot + 1 .. l /\ need < Total(mem, ot + 1, k)
      BY <1>2, <3>3
    <3>5. k \in ot .. l /\ k - 1 \in ot .. l /\ k \in 1 .. Len(mem) /\ k \in Nat
          /\ k - 1 \in 0 .. Len(mem)
      <4>1. k \in ot + 1 .. l
        BY <3>4
      <4>2. k \in ot .. l /\ k - 1 \in ot .. l /\ k \in 1 .. l /\ k \in Nat /\ k - 1 \in 0 .. l
        BY <1>a, <4>1
      <4>. QED BY <1>b, <4>2
    <3>6. PICK g, h, q, tt : g = End(mem, k) /\ h = End(mem, k - 1) /\ q = Len(mem[k])
                             /\ tt = Total(mem, ot + 1, k - 1)
      OBVIOUS
    <3>7. g = h + q /\ h \in Nat /\ q \in Nat
      BY <1>4, <3>5, <3>6, EndFacts
    <3>8. need < g - f /\ tt = h - f
      BY <2>2, <3>4, <3>5, <3>6
    <3>9. tt <= need
      <4>. SUFFICES ASSUME ~(tt <= need) PROVE FALSE
        OBVIOUS
      <4>1. need < tt
        BY <1>3, <2>2, <3>7, <3>8
      <4>2. k - 1 # ot
        <5>. SUFFICES ASSUME k - 1 = ot PROVE FALSE
          OBVIOUS
        <5>1. h = f
          BY <1>2, <3>6
        <5>. QED BY <1>3, <1>8, <2>2, <3>8, <4>1, <5>1
      <4>3. k - 1 \in ot + 1 .. l
        BY <1>3, <3>5, <4>2
      <4>4. k - 1 \in fitting
        BY <1>2, <3>6, <4>1, <4>3
      <4>5. k <= k - 1
        <5>. HIDE DEF fitting
        <5>. QED BY <3>3, <4>4
      <4>. QED BY <3>5, <4>5
    <3>10. PICK c, oe : oe = need - tt /\ c = [b EXCEPT !.end = k + 1, !.outEnd = oe]
      OBVIOUS
    <3>11. BaPrepare(b, n) = c
      <4>. HIDE DEF fitting
      <4>. QED BY <1>1, <1>2, <2>1, <2>3, <3>1, <3>6, <3>10
    <3>12. oe \in Nat /\ oe <= q /\ h + oe = m + n
      <4>1. oe = need - tt
        BY <3>10
      <4>. QED BY <1>3, <2>2, <3>7, <3>8, <3>9, <4>1
    <3>13. k + 1 \in Nat /\ ot < k + 1 /\ k + 1 <= l + 1 /\ (k + 1) - 1 = k /\ (k + 1) - 2 = k - 1
           /\ ot # k
      BY <1>3, <3>4, <3>5
    <3>14. BaRoomOK(b, n, k + 1, oe, c)
      BY <1>2, <3>6, <3>10, <3>12, <3>13 DEF BaRoomOK
    <3>. QED BY <3>11, <3>14, BaRoomFor
  <2>4. CASE fitting = {}
    <3>1. PICK c, oe : oe = (IF ot < l THEN Len(mem[l]) ELSE b.outEnd)
                       /\ c = [b EXCEPT !.end = Len(b.mem) + 1, !.outEnd = oe]
      OBVIOUS
    <3>2. BaPrepare(b, n) = c
      <4>. HIDE DEF fitting
      <4>. QED BY <1>1, <1>2, <2>1, <2>4, <3>1
    <3>3. l \in 1 .. Len(mem) /\ l - 1 \in 0 .. Len(mem)
      <4>1. l \in 1 .. l /\ l - 1 \in 0 .. l
        BY <1>a, <2>1
      <4>. QED BY <1>b, <4>1
    <3>4. PICK h, q : h = End(mem, l - 1) /\ q = Len(mem[l])
      OBVIOUS
    <3>5. el = h + q /\ h \in Nat /\ q \in Nat
      BY <1>2, <1>4, <3>3, <3>4, EndFacts
    <3>6. ~(need < el - f) \/ ot = l
      <4>. SUFFICES ASSUME ot # l, need < el - f PROVE FALSE
        OBVIOUS
      <4>1. l \in ot + 1 .. l
        BY <1>3, <2>1
      <4>2. Total(mem, ot + 1, l) = el - f
        BY <1>2, <2>1, <2>2
      <4>3. l \in fitting
        BY <1>2, <4>1, <4>2
      <4>. QED BY <2>4, <4>3
    <3>7. ~BaThrows(b, n) => ot < l /\ need = el - f
      <4>. SUFFICES ASSUME ~BaThrows(b, n) PROVE ot < l /\ need = el - f
        OBVIOUS
      <4>1. n <= el - m
        <5>1. ~(n > b.maxSize)
          BY BaThrowsIs
        <5>. QED BY <1>3, <5>1
      <4>2. need <= el - f
        BY <1>3, <2>2, <4>1
      <4>3. ot # l
        <5>. SUFFICES ASSUME ot = l PROVE FALSE
          OBVIOUS
        <5>1. f = el
          BY <1>2
        <5>. QED BY <1>3, <1>8, <4>2, <5>1
      <4>. QED BY <1>3, <2>1, <2>2, <3>6, <4>2, <4>3
    <3>8. oe \in Nat /\ oe <= q /\ (ot = l => op <= oe)
      <4>1. CASE ot < l
        BY <1>3, <3>1, <3>4, <3>5, <4>1
      <4>2. CASE ~(ot < l)
        <5>1. ot = l /\ oe = b.outEnd
          BY <1>3, <2>1, <3>1, <4>2
        <5>2. /\ b.end \in Nat /\ ot <= b.end /\ b.end <= l + 1 /\ b.outEnd \in Nat
              /\ (ot = b.end => op = 0 /\ b.outEnd = 0)
              /\ (ot < b.end => b.outEnd <= Len(mem[b.end - 1]))
              /\ (ot = b.end - 1 => op <= b.outEnd)
          BY <1>2, <1>5 DEF CutOK
        <5>3. CASE b.end = ot
          BY <3>5, <5>1, <5>2, <5>3
        <5>4. CASE b.end # ot
          <6>1. b.end - 1 = l /\ ot < b.end
            <7>1. b.end \in Nat /\ ot <= b.end /\ b.end <= l + 1
              BY <5>2
            <7>2. ot = l /\ b.end # ot
              BY <5>1, <5>4
            <7>. QED BY <1>a, <7>1, <7>2
          <6>. QED BY <3>4, <5>1, <5>2, <6>1
        <5>. QED BY <5>3, <5>4
      <4>. QED BY <4>1, <4>2
    <3>9. ~BaThrows(b, n) => h + oe = m + n
      <4>. SUFFICES ASSUME ~BaThrows(b, n) PROVE h + oe = m + n
        OBVIOUS
      <4>1. ot < l /\ need = el - f
        BY <3>7
      <4>2. oe = q
        BY <3>1, <3>4, <4>1
      <4>. QED BY <1>3, <2>2, <3>5, <4>1, <4>2
    <3>10. l + 1 \in Nat /\ ot < l + 1 /\ l + 1 <= l + 1 /\ (l + 1) - 1 = l /\ (l + 1) - 2 = l - 1
      BY <1>3, <2>1
    <3>11. BaRoomOK(b, n, l + 1, oe, c)
      BY <1>2, <3>1, <3>4, <3>8, <3>9, <3>10 DEF BaRoomOK
    <3>. QED BY <3>2, <3>11, BaRoomFor
  <2>. QED BY <2>3, <2>4
<1>. QED BY <1>3, <1>6, <1>7, <1>8

-----------------------------------------------------------------------------
(* Buffers without a byte in them.                                         *)

\* The sum of a sequence of sizes.
LEMMA FoldIsSum ==
  ASSUME NEW sizes \in Seq(Nat), NEW q,
         \A k \in 0 .. Len(sizes) : q[k] \in Int,
         \A k \in 1 .. Len(sizes) : q[k] = q[k - 1] + sizes[k]
  PROVE  FoldSeq(+, 0, sizes) = q[Len(sizes)] - q[0]
<1>0. PICK lo, n : lo = 1 /\ n = Len(sizes)
  OBVIOUS
<1> DEFINE D == From(lo, n)
           P(g) == g = [s \in SUBSET D |-> IF s = {} THEN 0
                         ELSE LET x == CHOOSE x \in s : TRUE IN sizes[x] + g[s \ {x}]]
           a == CHOOSE g : P(g)
<1>1. D = 1 .. n /\ lo \in Int /\ n \in Nat /\ lo + n - 1 = n /\ lo - 1 = 0
  BY <1>0 DEF From
<1>2. DOMAIN sizes = D
  BY <1>0, <1>1
<1>3. FoldSeq(+, 0, sizes) = a[D]
  BY <1>2, Zenon DEF FoldSeq, FoldFunction, FoldFunctionOnSet, MapThenFoldSet
<1>4. ASSUME NEW g PROVE IsSum(g, sizes, D) <=> P(g)
  <2>. HIDE DEF D
  <2>. QED BY Zenon DEF IsSum, Pick
<1>5. sizes \in [D -> Int]
  BY <1>2
<1>6. \E g : IsSum(g, sizes, D)
  <2>1. IsFiniteSet(D)
    BY <1>1, FS_Interval
  <2>. HIDE DEF D
  <2>. QED BY <1>5, <2>1, SumExists
<1>7. P(a)
  <2>. HIDE DEF P, D
  <2>1. \E g : P(g)
    BY <1>4, <1>6
  <2>. QED BY <2>1, Zenon
<1>8. IsSum(a, sizes, D)
  <2>. HIDE DEF P, a, D
  <2>. QED BY <1>4, <1>7
<1>. HIDE DEF a
<1>9. PICK it : it = a
  OBVIOUS
<1>10. it[From(lo, n)] = q[lo + n - 1] - q[lo - 1]
  <2>1. sizes \in [From(lo, n) -> Int] /\ IsSum(it, sizes, From(lo, n)) /\ lo \in Int /\ n \in Nat
    BY <1>1, <1>5, <1>8, <1>9, Zenon
  <2>2. \A k \in From(lo, n) : q[k] = q[k - 1] + sizes[k]
    BY <1>0, <1>1
  <2>3. \A k \in lo - 1 .. lo + n - 1 : q[k] \in Int
    BY <1>0, <1>1
  <2>. HIDE DEF D
  <2>. QED BY <2>1, <2>2, <2>3, IntervalSum, Zenon
<1>. QED BY <1>0, <1>1, <1>3, <1>9, <1>10

LEMMA BlankIs == ASSUME NEW n \in Nat PROVE Blank(n) \in Seq(Nat) /\ Len(Blank(n)) = n
BY DEF Blank, Garbage

LEMMA BaEmptyGood ==
  ASSUME NEW sizes \in Seq(Nat)
  PROVE  LET c == BaEmpty(sizes)
         IN  BaGood(c) /\ BaStart(c) = 0 /\ BaMid(c) = 0 /\ BaFin(c) = 0
<1>1. PICK mem : mem = [i \in DOMAIN sizes |-> Blank(sizes[i])]
  OBVIOUS
<1>2. DOMAIN sizes = 1 .. Len(sizes) /\ Len(sizes) \in Nat /\ \A i \in 1 .. Len(sizes) : sizes[i] \in Nat
  OBVIOUS
<1>3. \A i \in 1 .. Len(sizes) : mem[i] \in Seq(Nat) /\ Len(mem[i]) = sizes[i]
  BY <1>1, <1>2, BlankIs
<1>4. mem \in Memory /\ Len(mem) = Len(sizes)
  <2>1. mem \in [1 .. Len(sizes) -> Seq(Nat)]
    BY <1>1, <1>2, <1>3
  <2>. QED BY <1>2, <2>1 DEF Memory
<1>5. PICK e : IsEnds(e, mem)
  BY <1>4, EndsExist
<1>6. FoldSeq(+, 0, sizes) = e[Len(sizes)] - e[0]
  <2>1. \A k \in 0 .. Len(sizes) : e[k] \in Int
    BY <1>4, <1>5 DEF IsEnds
  <2>2. \A k \in 1 .. Len(sizes) : e[k] = e[k - 1] + sizes[k]
    BY <1>3, <1>4, <1>5 DEF IsEnds
  <2>. QED BY <2>1, <2>2, FoldIsSum
<1>7. PICK l, el, ms : l = Len(mem) /\ el = End(mem, l) /\ ms = FoldSeq(+, 0, sizes)
  OBVIOUS
<1>8. l \in Nat /\ el \in Nat /\ ms = el - 0 /\ ms = el
  <2>0. l \in Nat
    BY <1>2, <1>4, <1>7, Zenon
  <2>1. l \in Nat /\ l \in 0 .. l /\ l = Len(mem) /\ l \in 0 .. Len(mem)
    <3>1. l \in 0 .. l
      BY <2>0
    <3>. QED BY <1>7, <2>0, <3>1, Zenon
  <2>2. el = e[l] /\ el \in Nat /\ e[0] = 0
    BY <1>4, <1>5, <1>7, <2>1, EndIs, EndFacts DEF IsEnds
  <2>3. ms = el - 0
    BY <1>4, <1>6, <1>7, <2>2
  <2>. QED BY <2>1, <2>2, <2>3
<1>9. PICK c : c = BaEmpty(sizes)
  OBVIOUS
<1>10. c = [mem |-> mem, begin |-> 1, out |-> 1, end |-> 1, inPos |-> 0, inSize |-> 0,
            outPos |-> 0, outEnd |-> 0, maxSize |-> ms]
  BY <1>1, <1>7, <1>9, Zenon DEF BaEmpty
<1>11. /\ c \in BaRec /\ c.mem = mem /\ c.begin = 1 /\ c.out = 1 /\ c.end = 1
       /\ c.inPos = 0 /\ c.inSize = 0 /\ c.outPos = 0 /\ c.outEnd = 0 /\ c.maxSize = ms
  BY <1>4, <1>8, <1>10 DEF BaRec
<1>12. Spot(mem, 1, 0) = 0
  BY <1>4, EndFacts DEF Spot
<1>13. BaStart(c) = 0 /\ BaMid(c) = 0 /\ BaFin(c) = 0
  BY <1>11, <1>12 DEF BaStart, BaMid, BaFin, Fin
<1>14. CutOK(mem, 1, 1, 1, 0, 0, 0)
  <2>0. 1 <= l + 1
    BY <1>8
  <2>1. 1 <= Len(mem) + 1
    BY <1>7, <2>0, Zenon
  <2>. QED BY <1>4, <2>1 DEF CutOK
<1>15. BaGood(c)
  <2>1. CutOK(c.mem, c.begin, c.out, c.end, c.inPos, c.outPos, c.outEnd)
    BY <1>11, <1>14, Zenon
  <2>2. c.inSize = BaMid(c) - BaStart(c)
    BY <1>11, <1>13
  <2>3. c.maxSize = End(c.mem, Len(c.mem)) - BaMid(c)
    BY <1>7, <1>8, <1>11, <1>13, Zenon
  <2>. QED BY <1>11, <2>1, <2>2, <2>3, Zenon DEF BaGood
<1>. QED BY <1>9, <1>13, <1>15

LEMMA SsEmptyGood ==
  ASSUME NEW n \in Nat
  PROVE  SsGood(SsEmpty(n)) /\ SsEmpty(n).in = 0 /\ SsEmpty(n).out = 0 /\ SsEmpty(n).last = 0
<1>1. PICK blk : blk = Blank(n)
  OBVIOUS
<1>2. blk \in Seq(Nat) /\ Len(blk) = n
  BY <1>1, BlankIs
<1>3. PICK c : c = SsEmpty(n)
  OBVIOUS
<1>4. c = [mem |-> <<blk>>, in |-> 0, out |-> 0, last |-> 0]
  BY <1>1, <1>3 DEF SsEmpty
<1>5. PICK m : m = <<blk>>
  OBVIOUS
<1>6. m \in Memory /\ Len(m) = 1 /\ m[1] = blk
  BY <1>2, <1>5 DEF Memory
<1>7. c \in SsRec /\ c.mem = m /\ c.in = 0 /\ c.out = 0 /\ c.last = 0
  BY <1>4, <1>5, <1>6 DEF SsRec
<1>8. SsGood(c)
  BY <1>2, <1>6, <1>7 DEF SsGood
<1>. QED BY <1>3, <1>7, <1>8


-----------------------------------------------------------------------------
(* What the operations of the caller leave behind, whatever the class.     *)

LEMMA RunFrom ==
  ASSUME NEW t \in Int, NEW n \in Nat, NEW z, z = n
  PROVE  Run(t, n) = [i \in 1 .. z |-> (t + (0 - 0)) + i]
<1>1. t + (0 - 0) = t
  OBVIOUS
<1>. QED BY <1>1, Zenon DEF Run

LEMMA KindIs ==
  ASSUME kind = "streambuf", NEW b
  PROVE  /\ Good(b) <=> SbGood(b)
         /\ StartOf(b) = SbStart(b) /\ MidOf(b) = SbMid(b) /\ FinOf(b) = SbFin(b)
BY DEF Good, StartOf, MidOf, FinOf

LEMMA SbCopied ==
  ASSUME kind = "streambuf", NEW b, SbGood(b), NEW t \in Nat, NEW a \in Nat,
         Known(b.mem, SbStart(b), SbMid(b) - SbStart(b), t)
  PROVE  LET c == SbCopy(b, a)
         IN  /\ SbGood(c) /\ SbStart(c) = 0 /\ SbMid(c) = b.inSize /\ SbFin(c) = b.inSize
             /\ Known(c.mem, 0, b.inSize, t)
<1>1. PICK n, e, c1 : n = b.inSize /\ e = SbEmpty(a) /\ c1 = SbPrepare(e, n)
  OBVIOUS
<1>2. n \in Nat /\ n = SbMid(b) - SbStart(b)
  BY <1>1, SbPlaces
<1>3. SbGood(e) /\ SbStart(e) = 0 /\ SbMid(e) = 0
  BY <1>1, SbEmptyGood
<1>4. SbRoom(e, c1, n)
  BY <1>1, <1>2, <1>3, SbPrepared
<1>5. SbGood(c1) /\ SbStart(c1) = 0 /\ SbMid(c1) = 0 /\ SbFin(c1) = 0 + n
  BY <1>3, <1>4, Zenon DEF SbRoom
<1>6. SbFin(c1) = n /\ 0 \in Nat /\ t \in Int
  BY <1>2, <1>5
<1>7. PICK out, w : out = SbOutput(c1) /\ w = Bytes(b.mem, SbData(b))
  OBVIOUS
<1>8. Shows(c1.mem, out, 0, n) /\ Shows(b.mem, SbData(b), SbStart(b), SbMid(b))
  BY <1>5, <1>6, <1>7, SbShows
<1>9. w = Run(t, n)
  BY <1>2, <1>6, <1>7, <1>8, ShowsBytes
<1>10. SizeOf(out) = n /\ c1.mem \in Memory
  <2>1. SizeOf(out) = n - 0 /\ c1.mem \in Memory
    BY <1>8, ShowsSize
  <2>. QED BY <1>2, <2>1
<1>11. PICK m2 : m2 = Written(c1.mem, out, w)
  OBVIOUS
<1>12. SameShape(m2, c1.mem) /\ Known(m2, 0, n - 0, t)
  <2>1. w = [i \in 1 .. SizeOf(out) |-> (t + (0 - 0)) + i]
    <3>. HIDE DEF Run
    <3>. QED BY <1>2, <1>6, <1>9, <1>10, RunFrom
  <2>2. Known(c1.mem, 0, 0 - 0, t)
    BY <1>10, KnownNone
  <2>3. 0 <= 0 /\ t + (0 - 0) >= 0
    OBVIOUS
  <2>. QED BY <1>6, <1>8, <1>11, <2>1, <2>2, <2>3, KnownWritten, Zenon
<1>13. PICK c2 : c2 = [c1 EXCEPT !.mem = m2]
  OBVIOUS
<1>14. SbGood(c2) /\ c2.mem = m2 /\ SbStart(c2) = 0 /\ SbMid(c2) = 0 /\ SbFin(c2) = n
  <2>1. Good(c1)
    BY <1>5, KindIs
  <2>2. Good(c2) /\ c2.mem = m2 /\ StartOf(c2) = StartOf(c1) /\ MidOf(c2) = MidOf(c1) /\ FinOf(c2) = FinOf(c1)
    BY <1>12, <1>13, <2>1, GoodSame, Zenon
  <2>. QED BY <1>5, <1>6, <2>2, KindIs, Zenon
<1>15. PICK c3 : c3 = SbCommit(c2, n)
  OBVIOUS
<1>16. SbGood(c3) /\ c3.mem = m2 /\ SbStart(c3) = 0 /\ SbFin(c3) = n /\ SbMid(c3) = 0 + Less(n, n - 0)
  BY <1>2, <1>14, <1>15, SbCommitted, Zenon
<1>17. 0 + Less(n, n - 0) = n /\ n - 0 = n
  BY <1>2 DEF Less
<1>18. c3 = SbCopy(b, a)
  BY <1>1, <1>7, <1>11, <1>13, <1>15, Zenon DEF SbCopy
<1>. QED BY <1>1, <1>12, <1>16, <1>17, <1>18, Zenon


LEMMA StaticIs ==
  ASSUME kind = "static", NEW b
  PROVE  /\ Good(b) <=> SsGood(b)
         /\ StartOf(b) = b.in /\ MidOf(b) = b.out /\ FinOf(b) = b.last
BY DEF Good, StartOf, MidOf, FinOf

LEMMA AdapterIs ==
  ASSUME kind = "adapter", NEW b
  PROVE  /\ Good(b) <=> BaGood(b)
         /\ StartOf(b) = BaStart(b) /\ MidOf(b) = BaMid(b) /\ FinOf(b) = BaFin(b)
BY DEF Good, StartOf, MidOf, FinOf

LEMMA OfKind ==
  ASSUME NEW b, Good(b)
  PROVE  kind = "streambuf" \/ kind = "static" \/ kind = "adapter"
BY DEF Good

\* c has the input sequence of b and an output sequence of n bytes.
Roomy(b, c, n) ==
  /\ Good(c) /\ StartOf(c) = StartOf(b) /\ MidOf(c) = MidOf(b) /\ FinOf(c) = MidOf(b) + n
  /\ \A t : Known(b.mem, StartOf(b), MidOf(b) - StartOf(b), t)
              => Known(c.mem, StartOf(b), MidOf(b) - StartOf(b), t)

LEMMA PreparedOf ==
  ASSUME NEW b, Good(b), NEW n \in Nat, ~TooLong(b, n)
  PROVE  Roomy(b, PrepareOf(b, n), n)
<1>1. PICK c : c = PrepareOf(b, n)
  OBVIOUS
<1>2. CASE kind = "streambuf"
  <2>1. c = SbPrepare(b, n) /\ SbGood(b)
    BY <1>1, <1>2, KindIs DEF PrepareOf
  <2>2. SbRoom(b, c, n)
    BY <2>1, SbPrepared
  <2>. QED BY <1>1, <1>2, <2>1, <2>2, KindIs, Zenon DEF Roomy, SbRoom
<1>3. CASE kind = "static"
  <2>1. c = SsPrepare(b, n) /\ SsGood(b) /\ ~SsThrows(b, n)
    BY <1>1, <1>3, StaticIs DEF PrepareOf, TooLong
  <2>2. SsGood(c) /\ c.mem = b.mem /\ c.in = b.in /\ c.out = b.out /\ c.last = b.out + n
    BY <2>1, SsPrepared
  <2>. QED BY <1>1, <1>3, <2>1, <2>2, StaticIs, Zenon DEF Roomy
<1>4. CASE kind = "adapter"
  <2>1. c = BaPrepare(b, n) /\ BaGood(b) /\ ~BaThrows(b, n)
    BY <1>1, <1>4, AdapterIs DEF PrepareOf, TooLong
  <2>2. BaRoom(b, c, n)
    BY <2>1, BaPrepared
  <2>. QED BY <1>1, <1>4, <2>1, <2>2, AdapterIs, Zenon DEF Roomy, BaRoom
<1>. QED BY <1>2, <1>3, <1>4, OfKind

\* c is b after a prepare that threw: the input sequence is what it was.
LEMMA TooLongOf ==
  ASSUME NEW b, Good(b), NEW n \in Nat, TooLong(b, n), NEW c,
         c = IF kind = "adapter" THEN BaPrepare(b, n) ELSE b
  PROVE  Good(c) /\ c.mem = b.mem /\ StartOf(c) = StartOf(b) /\ MidOf(c) = MidOf(b)
<1>1. CASE kind = "adapter"
  <2>1. BaRoom(b, c, n)
    BY <1>1, BaPrepared, AdapterIs
  <2>. QED BY <1>1, <2>1, AdapterIs, Zenon DEF BaRoom
<1>2. CASE kind # "adapter"
  BY <1>2
<1>. QED BY <1>1, <1>2

LEMMA CommittedOf ==
  ASSUME NEW b, Good(b), NEW n \in Nat
  PROVE  LET c == CommitOf(b, n)
         IN  /\ Good(c) /\ c.mem = b.mem /\ StartOf(c) = StartOf(b) /\ FinOf(c) = FinOf(b)
             /\ MidOf(c) = MidOf(b) + Less(n, FinOf(b) - MidOf(b))
<1>1. PICK c : c = CommitOf(b, n)
  OBVIOUS
<1>2. CASE kind = "streambuf"
  <2>1. c = SbCommit(b, n) /\ SbGood(b)
    BY <1>1, <1>2, KindIs DEF CommitOf
  <2>. QED BY <1>1, <1>2, <2>1, SbCommitted, KindIs, Zenon
<1>3. CASE kind = "static"
  <2>1. c = SsCommit(b, n) /\ SsGood(b)
    BY <1>1, <1>3, StaticIs DEF CommitOf
  <2>2. /\ SsGood(c) /\ c.mem = b.mem /\ c.in = b.in /\ c.last = b.last
        /\ c.out = b.out + Less(n, b.last - b.out)
    BY <2>1, SsCommitted
  <2>. QED BY <1>1, <1>3, <2>2, StaticIs, Zenon
<1>4. CASE kind = "adapter"
  <2>1. c = BaCommit(b, n) /\ BaGood(b)
    BY <1>1, <1>4, AdapterIs DEF CommitOf
  <2>. QED BY <1>1, <1>4, <2>1, BaCommitted, AdapterIs, Zenon
<1>. QED BY <1>2, <1>3, <1>4, OfKind

\* c is b without the first d bytes of its input sequence.
Dropped(b, c, d) ==
  /\ Good(c) /\ MidOf(c) - StartOf(c) = (MidOf(b) - StartOf(b)) - d
  /\ FinOf(c) - MidOf(c) = FinOf(b) - MidOf(b)
  /\ \A t \in Int : \A x \in Int :
       x <= FinOf(b) - StartOf(b) /\ Known(b.mem, StartOf(b), x, t)
         => Known(c.mem, StartOf(c), x - d, t + d)

LEMMA DroppedAhead ==
  ASSUME NEW b, Good(b), NEW c, Good(c), NEW d \in Nat, c.mem = b.mem,
         MidOf(c) = MidOf(b), FinOf(c) = FinOf(b), StartOf(c) = StartOf(b) + d
  PROVE  Dropped(b, c, d)
<1>1. b.mem \in Memory /\ StartOf(b) \in Nat /\ MidOf(b) \in Nat
  BY GoodShows
<1>2. PICK s, m : s = StartOf(b) /\ m = MidOf(b)
  OBVIOUS
<1>3. s \in Int /\ m - (s + d) = (m - s) - d
  BY <1>1, <1>2
<1>4. MidOf(c) - StartOf(c) = (MidOf(b) - StartOf(b)) - d
  BY <1>2, <1>3, Zenon
<1>5. ASSUME NEW t \in Int, NEW x \in Int, Known(b.mem, StartOf(b), x, t)
      PROVE  Known(c.mem, StartOf(c), x - d, t + d)
  BY <1>1, <1>2, <1>3, <1>5, KnownLater, Zenon
<1>. QED BY <1>4, <1>5, Zenon DEF Dropped

LEMMA ConsumedOf ==
  ASSUME NEW b, Good(b), NEW n \in Nat
  PROVE  Dropped(b, ConsumeOf(b, n), Less(n, MidOf(b) - StartOf(b)))
<1>1. PICK c, d : c = ConsumeOf(b, n) /\ d = Less(n, MidOf(b) - StartOf(b))
  OBVIOUS
<1>2. d \in Nat
  <2>1. PICK z : z = MidOf(b) - StartOf(b)
    OBVIOUS
  <2>2. z \in Nat
    BY <2>1, GoodShows
  <2>. QED BY <1>1, <2>1, <2>2, LessFacts
<1>3. CASE kind = "streambuf"
  <2>1. c = SbConsume(b, n) /\ SbGood(b) /\ d = Less(n, SbMid(b) - SbStart(b))
    BY <1>1, <1>3, KindIs DEF ConsumeOf
  <2>2. SbDropped(b, c, d)
    BY <2>1, SbConsumed
  <2>. QED BY <1>1, <1>3, <2>1, <2>2, KindIs, Zenon DEF Dropped, SbDropped
<1>4. CASE kind = "static"
  <2>1. c = SsConsume(b, n) /\ SsGood(b) /\ d = Less(n, b.out - b.in)
    BY <1>1, <1>4, StaticIs DEF ConsumeOf
  <2>2. SsGood(c) /\ c.mem = b.mem /\ c.out = b.out /\ c.last = b.last /\ c.in = b.in + d
    BY <2>1, SsConsumed, Zenon
  <2>. QED BY <1>1, <1>2, <1>4, <2>2, StaticIs, DroppedAhead, Zenon
<1>5. CASE kind = "adapter"
  <2>1. c = BaConsume(b, n) /\ BaGood(b) /\ d = Less(n, BaMid(b) - BaStart(b))
    BY <1>1, <1>5, AdapterIs DEF ConsumeOf
  <2>2. BaGood(c) /\ c.mem = b.mem /\ BaMid(c) = BaMid(b) /\ BaFin(c) = BaFin(b) /\ BaStart(c) = BaStart(b) + d
    BY <2>1, BaConsumed, Zenon
  <2>. QED BY <1>1, <1>2, <1>5, <2>2, AdapterIs, DroppedAhead, Zenon
<1>. QED BY <1>3, <1>4, <1>5, OfKind


LEMMA FilledIs ==
  ASSUME NEW b, Good(b), NEW t \in Nat, count = t + (MidOf(b) - StartOf(b)),
         Known(b.mem, StartOf(b), MidOf(b) - StartOf(b), t)
  PROVE  LET c == Filled(b)
         IN  /\ Good(c) /\ StartOf(c) = StartOf(b) /\ MidOf(c) = MidOf(b) /\ FinOf(c) = FinOf(b)
             /\ Known(c.mem, StartOf(b), FinOf(b) - StartOf(b), t)
<1>1. PICK s, m, f, out : s = StartOf(b) /\ m = MidOf(b) /\ f = FinOf(b) /\ out = OutputOf(b)
  OBVIOUS
<1>2. Shows(b.mem, out, m, f) /\ s \in Nat /\ m \in Nat /\ f \in Nat /\ s <= m /\ m <= f
  BY <1>1, GoodShows
<1>3. t \in Int /\ t + (m - s) >= 0 /\ f - s \in Int
  BY <1>2
<1>4. PICK m2, c2 : /\ m2 = Written(b.mem, out, [i \in 1 .. SizeOf(out) |-> (t + (m - s)) + i])
                    /\ c2 = [b EXCEPT !.mem = m2]
  OBVIOUS
<1>5. SameShape(m2, b.mem) /\ Known(m2, s, f - s, t)
  <2>1. Known(b.mem, s, m - s, t)
    BY <1>1
  <2>. QED BY <1>2, <1>3, <1>4, <2>1, KnownWritten, Zenon
<1>6. Good(c2) /\ c2.mem = m2 /\ StartOf(c2) = s /\ MidOf(c2) = m /\ FinOf(c2) = f
  BY <1>1, <1>4, <1>5, GoodSame
<1>7. Filled(b) = Forget(c2)
  <2>1. count = t + (m - s)
    BY <1>1
  <2>2. c2 = [b EXCEPT !.mem = Written(@, out, [i \in 1 .. SizeOf(out) |-> count + i])]
    BY <1>4, <2>1, Zenon
  <2>. QED BY <1>1, <2>2, Zenon DEF Filled
<1>8. PICK c : c = Forget(c2)
  OBVIOUS
<1>9. /\ Good(c) /\ StartOf(c) = s /\ MidOf(c) = m /\ FinOf(c) = f
      /\ \A n \in Int : \A u : n <= f - s /\ Known(m2, s, n, u) => Known(c.mem, s, n, u)
  BY <1>6, <1>8, Forgotten, Zenon
<1>10. Known(c.mem, s, f - s, t)
  <2>1. f - s <= f - s
    BY <1>3
  <2>. QED BY <1>3, <1>5, <1>9, <2>1
<1>. QED BY <1>1, <1>7, <1>8, <1>9, <1>10, Zenon

-----------------------------------------------------------------------------
(* The books stay right.                                                   *)

\* What Agrees says, with the numbers named.
LEMMA AgreesIs ==
  ASSUME NEW b, NEW c, NEW t, NEW l, Agrees(b, c, t, l)
  PROVE  /\ Good(b) /\ c \in Nat /\ t \in Nat /\ t <= c /\ l \in Nat \cup {Void}
         /\ MidOf(b) - StartOf(b) = c - t /\ c = t + (MidOf(b) - StartOf(b))
         /\ (l # Void => FinOf(b) - MidOf(b) = l /\ l \in Nat)
         /\ Known(b.mem, StartOf(b), MidOf(b) - StartOf(b), t)
         /\ (l # Void => Known(b.mem, StartOf(b), FinOf(b) - StartOf(b), t))
         /\ (l = Void => Known(b.mem, StartOf(b), MidOf(b) - StartOf(b), t))
<1>1. PICK s, m, f : s = StartOf(b) /\ m = MidOf(b) /\ f = FinOf(b)
  OBVIOUS
<1>2. Good(b) /\ c \in Nat /\ t \in Nat /\ t <= c /\ l \in Nat \cup {Void} /\ m - s = c - t
      /\ (l # Void => f - m = l)
  BY <1>1, Zenon DEF Agrees
<1>3. s \in Nat /\ m \in Nat /\ f \in Nat /\ s <= m /\ m <= f /\ b.mem \in Memory
  BY <1>1, <1>2, GoodShows
<1>4. c = t + (m - s)
  BY <1>2, <1>3
<1>5. l = Void => Known(b.mem, s, m - s, t)
  BY <1>1, Zenon DEF Agrees
<1>6. l # Void => Known(b.mem, s, f - s, t)
  BY <1>1, Zenon DEF Agrees
<1>7. Known(b.mem, s, m - s, t)
  <2>1. s \in Int /\ f - s \in Int /\ m - s \in Int /\ m - s <= f - s
    BY <1>3
  <2>2. l # Void => Known(b.mem, s, m - s, t)
    BY <1>3, <1>6, <2>1, KnownLess, Zenon
  <2>. QED BY <1>5, <2>2
<1>8. l # Void => l \in Nat
  BY <1>2
<1>. QED BY <1>1, <1>2, <1>4, <1>5, <1>6, <1>7, <1>8, Zenon

\* prepare
LEMMA PrepareAgrees ==
  ASSUME NEW t, NEW l, Agrees(buf, count, t, l), NEW n \in Nat, ~TooLong(buf, n)
  PROVE  Agrees(Filled(PrepareOf(buf, n)), count, t, n)
<1>1. PICK p, g : p = PrepareOf(buf, n) /\ g = Filled(p)
  OBVIOUS
<1>2. PICK s, m : s = StartOf(buf) /\ m = MidOf(buf)
  OBVIOUS
<1>3. /\ Good(buf) /\ count \in Nat /\ t \in Nat /\ t <= count /\ m - s = count - t
      /\ count = t + (m - s) /\ Known(buf.mem, s, m - s, t)
  BY <1>2, AgreesIs
<1>4. s \in Nat /\ m \in Nat
  BY <1>2, <1>3, GoodShows
<1>5. Roomy(buf, p, n)
  BY <1>1, <1>3, PreparedOf
<1>6. Good(p) /\ StartOf(p) = s /\ MidOf(p) = m /\ FinOf(p) = m + n /\ Known(p.mem, s, m - s, t)
  BY <1>2, <1>3, <1>5, Zenon DEF Roomy
<1>7. /\ Good(g) /\ StartOf(g) = s /\ MidOf(g) = m /\ FinOf(g) = m + n
      /\ Known(g.mem, s, (m + n) - s, t)
  BY <1>1, <1>3, <1>6, FilledIs, Zenon
<1>8. (m + n) - m = n /\ n # Void /\ n \in Nat \cup {Void}
  BY <1>4 DEF Void
<1>. QED BY <1>1, <1>3, <1>7, <1>8, Zenon DEF Agrees

\* A call that leaves the bytes and the input sequence alone; the output
\* sequence is not used again.
LEMMA VoidAgrees ==
  ASSUME NEW b, NEW c, NEW t, NEW l, Agrees(b, c, t, l), NEW g,
         Good(g), g.mem = b.mem, StartOf(g) = StartOf(b), MidOf(g) = MidOf(b)
  PROVE  Agrees(g, c, t, Void)
<1>1. /\ Good(b) /\ c \in Nat /\ t \in Nat /\ t <= c
      /\ MidOf(b) - StartOf(b) = c - t /\ Known(b.mem, StartOf(b), MidOf(b) - StartOf(b), t)
  BY AgreesIs
<1>. QED BY <1>1, Zenon DEF Agrees

\* commit
LEMMA CommitAgrees ==
  ASSUME NEW b, NEW c, NEW t, NEW l, Agrees(b, c, t, l), l # Void, NEW n \in Nat
  PROVE  Agrees(CommitOf(b, n), c + Less(n, l), t, l - Less(n, l))
<1>1. PICK g, s, m, f, d : /\ g = CommitOf(b, n) /\ s = StartOf(b) /\ m = MidOf(b)
                           /\ f = FinOf(b) /\ d = Less(n, l)
  OBVIOUS
<1>2. /\ Good(b) /\ c \in Nat /\ t \in Nat /\ t <= c /\ m - s = c - t /\ f - m = l /\ l \in Nat
      /\ Known(b.mem, s, f - s, t)
  BY <1>1, AgreesIs
<1>3. s \in Nat /\ m \in Nat /\ f \in Nat
  BY <1>1, <1>2, GoodShows
<1>4. Good(g) /\ g.mem = b.mem /\ StartOf(g) = s /\ FinOf(g) = f /\ MidOf(g) = m + d
  BY <1>1, <1>2, CommittedOf, Zenon
<1>5. d \in Nat /\ d <= l
  BY <1>1, <1>2, LessFacts
<1>6. (m + d) - s = (c + d) - t /\ f - (m + d) = l - d /\ l - d \in Nat /\ l - d # Void
      /\ t <= c + d /\ c + d \in Nat
  BY <1>2, <1>3, <1>5 DEF Void
<1>7. l - d \in Nat \cup {Void}
  BY <1>6, Zenon
<1>. QED BY <1>1, <1>2, <1>4, <1>6, <1>7, Zenon DEF Agrees


\* consume
LEMMA ConsumeAgrees ==
  ASSUME NEW b, NEW c, NEW t, NEW l, Agrees(b, c, t, l), NEW n \in Nat
  PROVE  Agrees(Forget(ConsumeOf(b, n)), c, t + Less(n, c - t), l)
<1>1. PICK h, g, s, m, f, d : /\ h = ConsumeOf(b, n) /\ g = Forget(h) /\ s = StartOf(b)
                              /\ m = MidOf(b) /\ f = FinOf(b) /\ d = Less(n, c - t)
  OBVIOUS
<1>2. /\ Good(b) /\ c \in Nat /\ t \in Nat /\ t <= c /\ l \in Nat \cup {Void} /\ m - s = c - t
      /\ (l # Void => f - m = l)
  BY <1>1, AgreesIs
<1>3. PICK x : x = (IF l = Void THEN m ELSE f) - s
  OBVIOUS
<1>4. Known(b.mem, s, x, t)
  BY <1>1, <1>3, Zenon DEF Agrees
<1>5. s \in Nat /\ m \in Nat /\ f \in Nat /\ s <= m /\ m <= f
  BY <1>1, <1>2, GoodShows
<1>6. d \in Nat /\ d <= c - t /\ x \in Int /\ x <= f - s /\ t \in Int
  <2>1. c - t \in Nat
    BY <1>2
  <2>2. d \in Nat /\ d <= c - t
    BY <1>1, <2>1, LessFacts
  <2>3. x \in Int /\ x <= f - s
    BY <1>3, <1>5
  <2>. QED BY <1>2, <2>2, <2>3
<1>7. Dropped(b, h, d)
  <2>1. d = Less(n, m - s)
    BY <1>1, <1>2, Zenon
  <2>. QED BY <1>1, <1>2, <2>1, ConsumedOf
<1>8. PICK s1, m1, f1 : s1 = StartOf(h) /\ m1 = MidOf(h) /\ f1 = FinOf(h)
  OBVIOUS
<1>9. Good(h) /\ m1 - s1 = (m - s) - d /\ f1 - m1 = f - m /\ Known(h.mem, s1, x - d, t + d)
  BY <1>1, <1>4, <1>6, <1>7, <1>8 DEF Dropped
<1>10. s1 \in Nat /\ m1 \in Nat /\ f1 \in Nat
  BY <1>8, <1>9, GoodShows
<1>11. x - d = (IF l = Void THEN m1 ELSE f1) - s1
  BY <1>3, <1>5, <1>6, <1>9, <1>10
<1>12. x - d \in Int /\ x - d <= f1 - s1
  BY <1>5, <1>6, <1>9, <1>10
<1>13. /\ Good(g) /\ StartOf(g) = s1 /\ MidOf(g) = m1 /\ FinOf(g) = f1
       /\ \A u \in Int : \A v : u <= f1 - s1 /\ Known(h.mem, s1, u, v) => Known(g.mem, s1, u, v)
  BY <1>1, <1>8, <1>9, Forgotten, Zenon
<1>14. Known(g.mem, s1, x - d, t + d)
  BY <1>9, <1>12, <1>13
<1>15. m1 - s1 = c - (t + d) /\ t + d \in Nat /\ t + d <= c
  BY <1>2, <1>5, <1>6, <1>9, <1>10
<1>16. l # Void => f1 - m1 = l
  BY <1>2, <1>9
<1>. QED BY <1>1, <1>2, <1>11, <1>13, <1>14, <1>15, <1>16, Zenon DEF Agrees

\* The same bytes at the same places.
LEMMA SameAgrees ==
  ASSUME NEW b, NEW c, NEW t, NEW l, Agrees(b, c, t, l), NEW g, Good(g), g.mem = b.mem,
         StartOf(g) = StartOf(b), MidOf(g) = MidOf(b), FinOf(g) = FinOf(b)
  PROVE  Agrees(g, c, t, l)
BY Zenon DEF Agrees

\* No byte in it and no room prepared.
LEMMA EmptyAgrees ==
  ASSUME NEW b, Good(b), NEW c \in Nat, MidOf(b) = StartOf(b), FinOf(b) = MidOf(b)
  PROVE  Agrees(b, c, c, 0)
<1>1. PICK s : s = StartOf(b)
  OBVIOUS
<1>2. s \in Nat /\ b.mem \in Memory /\ MidOf(b) = s /\ FinOf(b) = s
  BY <1>1, GoodShows
<1>3. s - s = 0 /\ c - c = 0 /\ s - s <= 0 /\ 0 # Void /\ 0 \in Nat \cup {Void} /\ c <= c /\ s \in Int
      /\ s - s \in Int
  BY <1>2 DEF Void
<1>4. Known(b.mem, s, s - s, c)
  BY <1>2, <1>3, KnownNone, Zenon
<1>. QED BY <1>1, <1>2, <1>3, <1>4, Zenon DEF Agrees

\* write(dynabuf, arg)
LEMMA WriteAgrees ==
  ASSUME NEW t, NEW l, Agrees(buf, count, t, l), NEW n \in Nat, ~TooLong(buf, n)
  PROVE  Agrees(CommitOf(Filled(PrepareOf(buf, n)), n), count + n, t, 0)
<1>1. PICK g : g = Filled(PrepareOf(buf, n))
  OBVIOUS
<1>2. Agrees(g, count, t, n)
  BY <1>1, PrepareAgrees
<1>3. n # Void /\ Less(n, n) = n /\ n - n = 0
  BY DEF Void, Less
<1>4. Agrees(CommitOf(g, n), count + Less(n, n), t, n - Less(n, n))
  BY <1>2, <1>3, CommitAgrees
<1>. QED BY <1>1, <1>3, <1>4, Zenon

\* copies
LEMMA CopyAgrees ==
  ASSUME kind = "streambuf", NEW b, NEW c, NEW t, NEW l, Agrees(b, c, t, l), NEW a \in Nat
  PROVE  Agrees(SbCopy(b, a), c, t, 0)
<1>1. PICK g, n : g = SbCopy(b, a) /\ n = b.inSize
  OBVIOUS
<1>2. /\ Good(b) /\ c \in Nat /\ t \in Nat /\ t <= c /\ MidOf(b) - StartOf(b) = c - t
      /\ Known(b.mem, StartOf(b), MidOf(b) - StartOf(b), t)
  BY AgreesIs
<1>3. SbGood(b) /\ StartOf(b) = SbStart(b) /\ MidOf(b) = SbMid(b)
  BY <1>2, KindIs
<1>4. n \in Nat /\ n = c - t
  <2>1. n = SbMid(b) - SbStart(b) /\ n \in Nat
    BY <1>1, <1>3, SbPlaces
  <2>. QED BY <1>2, <1>3, <2>1, Zenon
<1>5. SbGood(g) /\ SbStart(g) = 0 /\ SbMid(g) = n /\ SbFin(g) = n /\ Known(g.mem, 0, n, t)
  <2>1. Known(b.mem, SbStart(b), SbMid(b) - SbStart(b), t)
    BY <1>2, <1>3, Zenon
  <2>. QED BY <1>1, <1>2, <1>3, <2>1, SbCopied, Zenon
<1>6. Good(g) /\ StartOf(g) = 0 /\ MidOf(g) = n /\ FinOf(g) = n
  BY <1>5, KindIs, Zenon
<1>7. n - 0 = n /\ n - n = 0 /\ 0 # Void /\ 0 \in Nat \cup {Void}
  BY <1>4 DEF Void
<1>. QED BY <1>1, <1>2, <1>4, <1>5, <1>6, <1>7, Zenon DEF Agrees

\* alloc_size
LEMMA AllocAgrees ==
  ASSUME kind = "streambuf", NEW b, NEW c, NEW t, NEW l, Agrees(b, c, t, l), NEW a \in Nat
  PROVE  Agrees([b EXCEPT !.alloc = a], c, t, l)
<1>1. PICK g : g = [b EXCEPT !.alloc = a]
  OBVIOUS
<1>2. SbGood(b)
  BY AgreesIs, KindIs
<1>3. /\ g \in SbRec /\ g.mem = b.mem /\ g.out = b.out /\ g.inPos = b.inPos
      /\ g.inSize = b.inSize /\ g.outPos = b.outPos /\ g.outEnd = b.outEnd
  <2>1. b \in SbRec
    BY <1>2, SbPlaces
  <2>. QED BY <1>1, <2>1 DEF SbRec
<1>4. SbStart(g) = SbStart(b) /\ SbMid(g) = SbMid(b) /\ SbFin(g) = SbFin(b)
  BY <1>3, Zenon DEF SbStart, SbMid, SbFin
<1>5. SbGood(g)
  BY <1>2, <1>3, <1>4, Zenon DEF SbGood
<1>. QED BY <1>1, <1>3, <1>4, <1>5, SameAgrees, KindIs, Zenon

\* What is left behind by a move, and by reset().
LEMMA ClearAgrees ==
  ASSUME kind = "streambuf", NEW a \in Nat, NEW c \in Nat
  PROVE  Agrees(SbEmpty(a), c, c, 0)
<1>1. PICK g : g = SbEmpty(a)
  OBVIOUS
<1>2. SbGood(g) /\ SbStart(g) = 0 /\ SbMid(g) = 0 /\ SbFin(g) = 0
  BY <1>1, SbEmptyGood, Zenon
<1>3. Good(g) /\ StartOf(g) = 0 /\ MidOf(g) = 0 /\ FinOf(g) = 0
  BY <1>2, KindIs, Zenon
<1>. QED BY <1>1, <1>3, EmptyAgrees, Zenon

LEMMA ResetAgrees ==
  ASSUME kind = "static", NEW b, Good(b), NEW c \in Nat
  PROVE  Agrees(SsReset(b), c, c, 0)
<1>1. PICK g : g = SsReset(b)
  OBVIOUS
<1>2. SsGood(b)
  BY StaticIs
<1>3. g \in SsRec /\ g.mem = b.mem /\ g.in = 0 /\ g.out = 0 /\ g.last = 0
  BY <1>1, <1>2 DEF SsReset, SsGood, SsRec
<1>4. SsGood(g)
  <2>1. Len(b.mem) = 1 /\ 0 <= Len(b.mem[1])
    <3>1. b.in \in Nat /\ b.out \in Nat /\ b.last \in Nat
      BY <1>2 DEF SsGood, SsRec
    <3>2. b.mem \in Memory /\ Len(b.mem) = 1
      BY <1>2 DEF SsGood, SsRec
    <3>3. b.mem[1] \in Seq(Nat)
      BY <3>2 DEF Memory
    <3>. QED BY <3>2, <3>3
  <2>. QED BY <1>3, <2>1 DEF SsGood
<1>5. Good(g) /\ StartOf(g) = 0 /\ MidOf(g) = 0 /\ FinOf(g) = 0
  BY <1>3, <1>4, StaticIs, Zenon
<1>. QED BY <1>1, <1>5, EmptyAgrees, Zenon


-----------------------------------------------------------------------------
(* The calls of the owner of a buffer.                                     *)

LEMMA AgreesPrimed ==
  ASSUME kind' = kind, Agrees(buf', count', taken', left')
  PROVE  BufInv'
BY DEF BufInv, Agrees, Good, StartOf, MidOf, FinOf

LEMMA BufTypes ==
  ASSUME BufInv
  PROVE  /\ Good(buf) /\ count \in Nat /\ taken \in Nat /\ taken <= count
         /\ left \in Nat \cup {Void} /\ (left # Void => left \in Nat)
         /\ Size = count - taken
<1>1. Agrees(buf, count, taken, left)
  BY DEF BufInv
<1>2. /\ Good(buf) /\ count \in Nat /\ taken \in Nat /\ taken <= count
      /\ left \in Nat \cup {Void} /\ (left # Void => left \in Nat)
      /\ MidOf(buf) - StartOf(buf) = count - taken
  BY <1>1, AgreesIs
<1>3. Size = MidOf(buf) - StartOf(buf)
  BY <1>2, GoodShows, Zenon DEF Size
<1>. QED BY <1>2, <1>3, Zenon

LEMMA PrepareKeeps ==
  ASSUME BufInv, NEW n \in Nat, Prepare(n) PROVE BufInv' /\ kind' = kind
<1>1. Agrees(buf, count, taken, left) /\ ~TooLong(buf, n) /\ kind' = kind
      /\ buf' = Filled(PrepareOf(buf, n)) /\ left' = n /\ count' = count /\ taken' = taken
  BY Zenon DEF BufInv, Prepare
<1>2. Agrees(Filled(PrepareOf(buf, n)), count, taken, n)
  BY <1>1, PrepareAgrees
<1>3. Agrees(buf', count', taken', left')
  BY <1>1, <1>2, Zenon
<1>. QED BY <1>1, <1>3, AgreesPrimed

LEMMA NoMemoryKeeps ==
  ASSUME BufInv, NEW n \in Nat, PrepareNoMemory(n) PROVE BufInv' /\ kind' = kind
<1>1. Agrees(buf, count, taken, left) /\ kind = "streambuf" /\ kind' = kind
      /\ buf' = SbPrepareThrows(buf, n) /\ left' = Void /\ count' = count /\ taken' = taken
  BY Zenon DEF BufInv, PrepareNoMemory
<1>2. PICK g : g = SbPrepareThrows(buf, n)
  OBVIOUS
<1>3. SbGood(buf)
  BY <1>1, BufTypes, KindIs
<1>4. SbGood(g) /\ g.mem = buf.mem /\ SbStart(g) = SbStart(buf) /\ SbMid(g) = SbMid(buf)
  BY <1>2, <1>3, SbThrown, Zenon
<1>5. Good(g) /\ StartOf(g) = StartOf(buf) /\ MidOf(g) = MidOf(buf)
  BY <1>1, <1>4, KindIs, Zenon
<1>6. Agrees(g, count, taken, Void)
  BY <1>1, <1>4, <1>5, VoidAgrees, Zenon
<1>7. Agrees(buf', count', taken', left')
  BY <1>1, <1>2, <1>6, Zenon
<1>. QED BY <1>1, <1>7, AgreesPrimed

LEMMA TooLongKeeps ==
  ASSUME BufInv, NEW n \in Nat, PrepareTooLong(n) PROVE BufInv' /\ kind' = kind
<1>1. Agrees(buf, count, taken, left) /\ TooLong(buf, n) /\ kind' = kind
      /\ buf' = (IF kind = "adapter" THEN BaPrepare(buf, n) ELSE buf)
      /\ left' = Void /\ count' = count /\ taken' = taken
  BY Zenon DEF BufInv, PrepareTooLong
<1>2. PICK g : g = IF kind = "adapter" THEN BaPrepare(buf, n) ELSE buf
  OBVIOUS
<1>3. Good(g) /\ g.mem = buf.mem /\ StartOf(g) = StartOf(buf) /\ MidOf(g) = MidOf(buf)
  BY <1>1, <1>2, BufTypes, TooLongOf
<1>4. Agrees(g, count, taken, Void)
  BY <1>1, <1>3, VoidAgrees, Zenon
<1>5. Agrees(buf', count', taken', left')
  BY <1>1, <1>2, <1>4, Zenon
<1>. QED BY <1>1, <1>5, AgreesPrimed

LEMMA CommitKeeps ==
  ASSUME BufInv, NEW n \in Nat, Commit(n) PROVE BufInv' /\ kind' = kind
<1>1. Agrees(buf, count, taken, left) /\ left # Void /\ kind' = kind
      /\ buf' = CommitOf(buf, n) /\ count' = count + Min({n, left})
      /\ left' = left - Min({n, left}) /\ taken' = taken
  BY Zenon DEF BufInv, Commit
<1>2. Agrees(CommitOf(buf, n), count + Less(n, left), taken, left - Less(n, left))
  BY <1>1, CommitAgrees
<1>3. Min({n, left}) = Less(n, left)
  <2>1. n \in Int /\ left \in Int
    BY <1>1, BufTypes
  <2>. QED BY <2>1, MinPair
<1>4. Agrees(buf', count', taken', left')
  BY <1>1, <1>2, <1>3, Zenon
<1>. QED BY <1>1, <1>4, AgreesPrimed

LEMMA ConsumeKeeps ==
  ASSUME BufInv, NEW n \in Nat, Consume(n) PROVE BufInv' /\ kind' = kind
<1>1. Agrees(buf, count, taken, left) /\ kind' = kind
      /\ buf' = Forget(ConsumeOf(buf, n)) /\ taken' = taken + Min({n, count - taken})
      /\ count' = count /\ left' = left
  BY Zenon DEF BufInv, Consume
<1>2. Agrees(Forget(ConsumeOf(buf, n)), count, taken + Less(n, count - taken), left)
  BY <1>1, ConsumeAgrees
<1>3. Min({n, count - taken}) = Less(n, count - taken)
  <2>1. n \in Int /\ count - taken \in Int
    BY BufTypes
  <2>. QED BY <2>1, MinPair
<1>4. Agrees(buf', count', taken', left')
  BY <1>1, <1>2, <1>3, Zenon
<1>. QED BY <1>1, <1>4, AgreesPrimed

LEMMA WriteKeeps ==
  ASSUME BufInv, NEW n \in Nat, WriteArg(n) PROVE BufInv' /\ kind' = kind
<1>1. Agrees(buf, count, taken, left) /\ ~TooLong(buf, n) /\ kind' = kind
      /\ buf' = CommitOf(Filled(PrepareOf(buf, n)), n)
      /\ count' = count + n /\ left' = 0 /\ taken' = taken
  BY Zenon DEF BufInv, WriteArg
<1>2. Agrees(CommitOf(Filled(PrepareOf(buf, n)), n), count + n, taken, 0)
  BY <1>1, WriteAgrees
<1>3. Agrees(buf', count', taken', left')
  BY <1>1, <1>2, Zenon
<1>. QED BY <1>1, <1>3, AgreesPrimed

LEMMA CopyKeeps ==
  ASSUME BufInv, NEW a \in Nat, Copy(a) PROVE BufInv' /\ kind' = kind
<1>1. Agrees(buf, count, taken, left) /\ kind = "streambuf" /\ kind' = kind
      /\ buf' = SbCopy(buf, a) /\ left' = 0 /\ count' = count /\ taken' = taken
  BY Zenon DEF BufInv, Copy
<1>2. Agrees(SbCopy(buf, a), count, taken, 0)
  BY <1>1, CopyAgrees
<1>3. Agrees(buf', count', taken', left')
  BY <1>1, <1>2, Zenon
<1>. QED BY <1>1, <1>3, AgreesPrimed

LEMMA AllocSizeKeeps ==
  ASSUME BufInv, NEW a \in Nat, AllocSize(a) PROVE BufInv' /\ kind' = kind
<1>1. Agrees(buf, count, taken, left) /\ kind = "streambuf" /\ kind' = kind
      /\ buf' = [buf EXCEPT !.alloc = a] /\ left' = left /\ count' = count /\ taken' = taken
  BY Zenon DEF BufInv, AllocSize
<1>2. Agrees([buf EXCEPT !.alloc = a], count, taken, left)
  BY <1>1, AllocAgrees
<1>3. Agrees(buf', count', taken', left')
  BY <1>1, <1>2, Zenon
<1>. QED BY <1>1, <1>3, AgreesPrimed

LEMMA MoveKeeps ==
  ASSUME BufInv, Move PROVE BufInv' /\ kind' = kind
<1>1. Agrees(buf, count, taken, left) /\ kind = "streambuf" /\ kind' = kind /\ count' = count
  BY Zenon DEF BufInv, Move
<1>2. PICK a : a = buf.alloc
  OBVIOUS
<1>3. a \in Nat /\ count \in Nat
  <2>1. buf \in SbRec
    BY <1>1, BufTypes, KindIs, SbPlaces
  <2>. QED BY <1>2, <2>1, BufTypes DEF SbRec
<1>4. SbMove(buf).to = buf /\ SbMoveAssigns(buf).to = SbCopy(buf, a)
      /\ SbMoveConstructs(buf).to = SbCopy(buf, a)
  BY <1>2 DEF SbMove, SbMoveAssigns, SbMoveConstructs
<1>5. CASE buf' = SbMove(buf).to /\ UNCHANGED <<taken, left>>
  <2>1. Agrees(buf', count', taken', left')
    BY <1>1, <1>4, <1>5, Zenon
  <2>. QED BY <1>1, <2>1, AgreesPrimed
<1>6. CASE buf' \in {SbMoveAssigns(buf).to, SbMoveConstructs(buf).to} /\ left' = 0 /\ UNCHANGED taken
  <2>1. Agrees(SbCopy(buf, a), count, taken, 0)
    BY <1>1, <1>3, CopyAgrees
  <2>2. Agrees(buf', count', taken', left')
    BY <1>1, <1>4, <1>6, <2>1, Zenon
  <2>. QED BY <1>1, <2>2, AgreesPrimed
<1>. QED BY <1>5, <1>6, Zenon DEF Move

LEMMA MoveAwayKeeps ==
  ASSUME BufInv, MoveAway PROVE BufInv' /\ kind' = kind
<1>1. Agrees(buf, count, taken, left) /\ kind = "streambuf" /\ kind' = kind /\ count' = count
  BY Zenon DEF BufInv, MoveAway
<1>2. PICK a : a = buf.alloc
  OBVIOUS
<1>3. a \in Nat /\ count \in Nat
  <2>1. buf \in SbRec
    BY <1>1, BufTypes, KindIs, SbPlaces
  <2>. QED BY <1>2, <2>1, BufTypes DEF SbRec
<1>4. SbMove(buf).from = SbEmpty(a) /\ SbMoveAssigns(buf).from = SbEmpty(a)
      /\ SbMoveConstructs(buf).from = buf
  BY <1>2 DEF SbMove, SbMoveAssigns, SbMoveConstructs, SbClear
<1>5. CASE buf' = SbMoveConstructs(buf).from /\ UNCHANGED <<taken, left>>
  <2>1. Agrees(buf', count', taken', left')
    BY <1>1, <1>4, <1>5, Zenon
  <2>. QED BY <1>1, <2>1, AgreesPrimed
<1>7. CASE buf' \in {SbMove(buf).from, SbMoveAssigns(buf).from} /\ taken' = count /\ left' = 0
  <2>1. Agrees(SbEmpty(a), count, count, 0)
    BY <1>1, <1>3, ClearAgrees
  <2>2. buf' = SbEmpty(a)
    BY <1>4, <1>7, Zenon
  <2>3. Agrees(buf', count', taken', left')
    BY <1>1, <1>7, <2>1, <2>2, Zenon
  <2>. QED BY <1>1, <2>3, AgreesPrimed
<1>. QED BY <1>5, <1>7, Zenon DEF MoveAway

LEMMA ResetKeeps ==
  ASSUME BufInv, Reset PROVE BufInv' /\ kind' = kind
<1>1. kind = "static" /\ kind' = kind /\ buf' = SsReset(buf)
      /\ taken' = count /\ left' = 0 /\ count' = count
  BY Zenon DEF Reset
<1>2. Agrees(SsReset(buf), count, count, 0)
  BY <1>1, BufTypes, ResetAgrees
<1>3. Agrees(buf', count', taken', left')
  BY <1>1, <1>2, Zenon
<1>. QED BY <1>1, <1>3, AgreesPrimed

LEMMA OwnerKeeps ==
  ASSUME BufInv, Next PROVE BufInv' /\ kind' = kind
<1>1. \A n \in 0 .. MaxArg : n \in Nat
  BY BufsAssumption
<1>2. AllocSizes \subseteq Nat
  BY BufsAssumption
<1>3. ASSUME NEW n \in 0 .. MaxArg,
             \/ Prepare(n) \/ PrepareNoMemory(n) \/ PrepareTooLong(n)
             \/ Commit(n) \/ Consume(n) \/ WriteArg(n)
      PROVE  BufInv' /\ kind' = kind
  <2>1. n \in Nat
    BY <1>1
  <2>. QED BY <1>3, <2>1, PrepareKeeps, NoMemoryKeeps, TooLongKeeps, CommitKeeps, ConsumeKeeps, WriteKeeps
<1>4. ASSUME NEW a \in AllocSizes, Copy(a) \/ AllocSize(a) PROVE BufInv' /\ kind' = kind
  <2>1. a \in Nat
    BY <1>2
  <2>. QED BY <1>4, <2>1, CopyKeeps, AllocSizeKeeps
<1>. QED BY <1>3, <1>4, MoveKeeps, MoveAwayKeeps, ResetKeeps, Zenon DEF Next


-----------------------------------------------------------------------------
(* The reads of a dynabuf_readstream.                                      *)

\* A read from the buffer begins with a byte in it, the others begin with
\* none, and a read through the buffer has its room.
ReadInv ==
  /\ BufInv /\ capacity \in Nat
  /\ rs \in [st : {"idle", "returned", "failed", "copy", "fill", "direct"}, want : Nat]
  /\ rs.st = "copy" => taken < count
  /\ rs.st = "fill" => left # Void /\ count = taken
  /\ rs.st = "direct" => count = taken
  /\ ReadIsNext

LEMMA FreeKeeps ==
  ASSUME ReadInv, BufInv', capacity' \in Nat, rs' = NoRead PROVE ReadInv'
BY DEF ReadInv, ReadIsNext, NoRead

LEMMA UseBufferKeeps ==
  ASSUME ReadInv, UseBuffer PROVE ReadInv'
<1>1. BufInv /\ Next /\ capacity' \in Nat /\ rs' = NoRead
  BY DEF ReadInv, UseBuffer
<1>. QED BY <1>1, OwnerKeeps, FreeKeeps

LEMMA SameBuf == ASSUME BufInv, UNCHANGED bufVars PROVE BufInv'
<1>1. Agrees(buf', count', taken', left') /\ kind' = kind
  BY Zenon DEF BufInv, bufVars
<1>. QED BY <1>1, AgreesPrimed

LEMMA SetCapacityKeeps ==
  ASSUME ReadInv, SetCapacity PROVE ReadInv'
<1>1. BufInv /\ UNCHANGED bufVars /\ capacity' \in Nat /\ rs' = NoRead
  BY CapacityAssumption DEF ReadInv, SetCapacity
<1>. QED BY <1>1, SameBuf, FreeKeeps

LEMMA ReadThrowsKeeps ==
  ASSUME ReadInv, ReadThrows PROVE ReadInv'
<1>1. BufInv /\ capacity \in Nat /\ capacity' = capacity /\ rs' = NoRead
      /\ (PrepareTooLong(capacity) \/ PrepareNoMemory(capacity))
  BY DEF ReadInv, ReadThrows
<1>2. BufInv'
  BY <1>1, TooLongKeeps, NoMemoryKeeps
<1>. QED BY <1>1, <1>2, FreeKeeps

LEMMA ReadSomeKeeps ==
  ASSUME ReadInv, NEW n \in Wants, ReadSome(n) PROVE ReadInv'
<1>1. BufInv /\ capacity \in Nat /\ capacity' = capacity /\ n \in Nat
  BY CapacityAssumption DEF ReadInv, ReadSome
<1>2. count \in Nat /\ taken \in Nat /\ Size = count - taken /\ taken <= count
  BY <1>1, BufTypes
<1>3. CASE Size > 0 /\ Begin("copy", n) /\ UNCHANGED bufVars
  <2>1. rs' = [st |-> "copy", want |-> n] /\ count' = count /\ taken' = taken
    BY <1>3 DEF Begin, bufVars
  <2>2. taken < count
    BY <1>2, <1>3
  <2>. QED BY <1>1, <1>3, <2>1, <2>2, SameBuf DEF ReadInv, ReadIsNext
<1>4. CASE Size = 0 /\ capacity = 0 /\ Begin("direct", n) /\ UNCHANGED bufVars
  <2>1. rs' = [st |-> "direct", want |-> n] /\ count' = count /\ taken' = taken
    BY <1>4 DEF Begin, bufVars
  <2>2. count = taken
    BY <1>2, <1>4
  <2>. QED BY <1>1, <1>4, <2>1, <2>2, SameBuf DEF ReadInv, ReadIsNext
<1>5. CASE Size = 0 /\ capacity > 0 /\ Prepare(capacity) /\ Begin("fill", n)
  <2>1. rs' = [st |-> "fill", want |-> n] /\ count' = count /\ taken' = taken /\ left' = capacity
    BY <1>5 DEF Begin, Prepare
  <2>2. count = taken
    BY <1>2, <1>5
  <2>3. BufInv'
    BY <1>1, <1>5, PrepareKeeps
  <2>4. left' # Void
    BY <1>1, <2>1 DEF Void
  <2>. QED BY <1>1, <2>1, <2>2, <2>3, <2>4 DEF ReadInv, ReadIsNext
<1>. QED BY <1>3, <1>4, <1>5, Zenon DEF ReadSome

LEMMA RunStart ==
  ASSUME NEW t \in Nat, NEW m \in Nat, NEW n \in Nat, n <= m
  PROVE  SubSeq(Run(t, m), 1, n) = Run(t, n) /\ Len(Run(t, n)) = n
<1>1. Run(t, m) \in Seq(Nat) /\ Len(Run(t, m)) = m
  BY DEF Run
<1>2. SubSeq(Run(t, m), 0 + 1, n) = [i \in 1 .. n - 0 |-> Run(t, m)[0 + i]]
  BY <1>1, SubSeqIs
<1>3. \A i \in 1 .. n : Run(t, m)[0 + i] = t + i
  BY DEF Run
<1>4. [i \in 1 .. n - 0 |-> Run(t, m)[0 + i]] = Run(t, n)
  <2>1. n - 0 = n
    OBVIOUS
  <2>. QED BY <1>3, <2>1, Zenon DEF Run
<1>5. Len(Run(t, n)) = n
  BY DEF Run
<1>6. 0 + 1 = 1
  OBVIOUS
<1>. QED BY <1>2, <1>4, <1>5, <1>6, Zenon

\* buffer_copy and consume deliver the next bytes and take them out.
LEMMA CopyOutIs ==
  ASSUME NEW b, NEW c, NEW l, Agrees(b, c, taken, l), rs.want \in Nat, CopyOut(b)
  PROVE  LET n == Less(rs.want, c - taken)
         IN  /\ Agrees(buf', c, taken', l) /\ taken' = taken + n
             /\ got' = Run(taken, n) /\ Len(got') = n /\ n \in Nat /\ n <= rs.want
<1>1. PICK w, z, n : w = rs.want /\ z = c - taken /\ n = Less(w, z)
  OBVIOUS
<1>2. /\ Good(b) /\ c \in Nat /\ taken \in Nat /\ taken <= c
      /\ MidOf(b) - StartOf(b) = z /\ Known(b.mem, StartOf(b), MidOf(b) - StartOf(b), taken)
  BY <1>1, AgreesIs
<1>3. w \in Nat /\ z \in Nat /\ n \in Nat /\ n <= w /\ n <= z
  <2>1. w \in Nat /\ z \in Nat
    BY <1>1, <1>2
  <2>. QED BY <1>1, <2>1, LessFacts
<1>4. SizeIn(b) = z
  BY <1>2, GoodShows, Zenon
<1>5. Min({rs.want, SizeIn(b)}) = n
  <2>1. w \in Int /\ z \in Int
    BY <1>3
  <2>2. Min({w, z}) = n
    BY <1>1, <2>1, MinPair
  <2>. QED BY <1>1, <1>4, <2>2, Zenon
<1>6. /\ got' = SubSeq(Bytes(b.mem, DataOf(b)), 1, n)
      /\ buf' = Forget(ConsumeOf(b, n)) /\ taken' = taken + n
  BY <1>5, Zenon DEF CopyOut
<1>7. Bytes(b.mem, DataOf(b)) = Run(taken, z)
  <2>1. Shows(b.mem, DataOf(b), StartOf(b), MidOf(b)) /\ taken \in Int
    BY <1>2, GoodShows
  <2>2. Bytes(b.mem, DataOf(b)) = Run(taken, MidOf(b) - StartOf(b))
    BY <1>2, <2>1, ShowsBytes, Zenon
  <2>. QED BY <1>2, <2>2, Zenon
<1>8. got' = Run(taken, n) /\ Len(got') = n
  <2>1. SubSeq(Run(taken, z), 1, n) = Run(taken, n) /\ Len(Run(taken, n)) = n
    BY <1>2, <1>3, RunStart
  <2>. QED BY <1>6, <1>7, <2>1, Zenon
<1>9. Less(n, z) = n
  BY <1>3 DEF Less
<1>10. Agrees(Forget(ConsumeOf(b, n)), c, taken + Less(n, c - taken), l)
  BY <1>3, ConsumeAgrees
<1>11. Agrees(buf', c, taken', l)
  BY <1>1, <1>6, <1>9, <1>10, Zenon
<1>. QED BY <1>1, <1>3, <1>6, <1>8, <1>11, Zenon

\* What a read returns with.
LEMMA DeliveredIs ==
  ASSUME NEW st, rs \in [st : st, want : Nat], rs' = [rs EXCEPT !.st = "returned"],
         capacity' \in Nat, BufInv', taken \in Nat, NEW n \in Nat, got' = Run(taken, n),
         taken' = taken + n, Len(got') = n, n <= rs.want, rs.want > 0 => n > 0
  PROVE  ReadInv'
<1>1. rs' \in [st : {"idle", "returned", "failed", "copy", "fill", "direct"}, want : Nat]
      /\ rs'.st = "returned" /\ rs'.want = rs.want
  OBVIOUS
<1>2. got' = [i \in 1 .. Len(got') |-> taken' - Len(got') + i]
  <2>1. \A i \in 1 .. n : taken' - n + i = taken + i
    BY <1>1
  <2>. QED BY <2>1, Zenon DEF Run
<1>3. rs.want > 0 => got' # << >>
  <2>1. got' = << >> => Len(got') = 0
    OBVIOUS
  <2>. QED BY <2>1
<1>4. ReadIsNext'
  BY <1>1, <1>2, <1>3 DEF ReadIsNext
<1>. QED BY <1>1, <1>4 DEF ReadInv


LEMMA OnPostedKeeps ==
  ASSUME ReadInv, OnPosted PROVE ReadInv'
<1>1. /\ Agrees(buf, count, taken, left) /\ rs.want \in Nat /\ CopyOut(buf) /\ kind' = kind
      /\ count' = count /\ left' = left /\ capacity' \in Nat /\ rs' = [rs EXCEPT !.st = "returned"]
      /\ taken < count /\ BufInv
      /\ rs \in [st : {"idle", "returned", "failed", "copy", "fill", "direct"}, want : Nat]
  BY DEF ReadInv, BufInv, OnPosted, Return
<1>2. PICK n : n = Less(rs.want, count - taken)
  OBVIOUS
<1>3. /\ Agrees(buf', count, taken', left) /\ taken' = taken + n
      /\ got' = Run(taken, n) /\ Len(got') = n /\ n \in Nat /\ n <= rs.want
  BY <1>1, <1>2, CopyOutIs, Zenon
<1>4. BufInv'
  <2>1. Agrees(buf', count', taken', left')
    BY <1>1, <1>3, Zenon
  <2>. QED BY <1>1, <2>1, AgreesPrimed
<1>5. taken \in Nat /\ count \in Nat
  BY <1>1, BufTypes
<1>6. rs.want > 0 => n > 0
  BY <1>1, <1>2, <1>5 DEF Less
<1>. QED BY <1>1, <1>3, <1>4, <1>5, <1>6, DeliveredIs

LEMMA OnFillKeeps ==
  ASSUME ReadInv, NEW m \in 1 .. MaxArg, OnFill(m) PROVE ReadInv'
<1>1. /\ Agrees(buf, count, taken, left) /\ rs.want \in Nat /\ CopyOut(CommitOf(buf, m)) /\ kind' = kind
      /\ count' = count + m /\ left' = left - m /\ m <= left
      /\ capacity' \in Nat /\ rs' = [rs EXCEPT !.st = "returned"]
      /\ left # Void /\ count = taken /\ BufInv
      /\ rs \in [st : {"idle", "returned", "failed", "copy", "fill", "direct"}, want : Nat]
  BY DEF ReadInv, BufInv, OnFill, Return
<1>2. m \in Nat /\ m > 0 /\ taken \in Nat /\ count \in Nat /\ left \in Nat
  <2>1. m \in Nat /\ m > 0
    BY BufsAssumption
  <2>. QED BY <1>1, <2>1, BufTypes
<1>3. PICK b, n : b = CommitOf(buf, m) /\ n = Less(rs.want, (count + m) - taken)
  OBVIOUS
<1>4. Agrees(b, count + m, taken, left - m)
  <2>1. Less(m, left) = m
    BY <1>1, <1>2 DEF Less
  <2>2. Agrees(b, count + Less(m, left), taken, left - Less(m, left))
    BY <1>1, <1>2, <1>3, CommitAgrees
  <2>. QED BY <2>1, <2>2, Zenon
<1>5. /\ Agrees(buf', count + m, taken', left - m) /\ taken' = taken + n
      /\ got' = Run(taken, n) /\ Len(got') = n /\ n \in Nat /\ n <= rs.want
  BY <1>1, <1>3, <1>4, CopyOutIs, Zenon
<1>6. BufInv'
  <2>1. Agrees(buf', count', taken', left')
    BY <1>1, <1>5, Zenon
  <2>. QED BY <1>1, <2>1, AgreesPrimed
<1>7. rs.want > 0 => n > 0
  BY <1>1, <1>2, <1>3 DEF Less
<1>. QED BY <1>1, <1>2, <1>5, <1>6, <1>7, DeliveredIs

LEMMA OnDirectKeeps ==
  ASSUME ReadInv, NEW m \in Nat, OnDirect(m), m > 0 \/ rs.want = 0 PROVE ReadInv'
<1>1. /\ Agrees(buf, count, taken, left) /\ rs.want \in Nat /\ kind' = kind /\ buf' = buf
      /\ count' = count + m /\ taken' = taken + m /\ left' = Void
      /\ capacity' \in Nat /\ rs' = [rs EXCEPT !.st = "returned"]
      /\ count = taken /\ BufInv /\ m <= rs.want /\ got' = [i \in 1 .. m |-> count + i]
      /\ rs \in [st : {"idle", "returned", "failed", "copy", "fill", "direct"}, want : Nat]
  BY DEF ReadInv, BufInv, OnDirect, Return
<1>2. PICK s, e : s = StartOf(buf) /\ e = MidOf(buf)
  OBVIOUS
<1>3. Good(buf) /\ count \in Nat /\ taken \in Nat /\ e - s = count - taken
  BY <1>1, <1>2, AgreesIs
<1>4. s \in Nat /\ e \in Nat /\ buf.mem \in Memory
  BY <1>2, <1>3, GoodShows
<1>5. e - s \in Int /\ e - s <= 0 /\ s \in Int /\ e - s = (count + m) - (taken + m)
      /\ count + m \in Nat /\ taken + m \in Nat /\ taken + m <= count + m
  BY <1>1, <1>3, <1>4
<1>6. Known(buf.mem, s, e - s, taken + m)
  BY <1>4, <1>5, KnownNone, Zenon
<1>7. Agrees(buf, count + m, taken + m, Void)
  <2>1. Void \in Nat \cup {Void}
    OBVIOUS
  <2>. QED BY <1>2, <1>3, <1>5, <1>6, <2>1, Zenon DEF Agrees
<1>8. BufInv'
  <2>1. Agrees(buf', count', taken', left')
    BY <1>1, <1>7, Zenon
  <2>. QED BY <1>1, <2>1, AgreesPrimed
<1>9. got' = Run(taken, m) /\ Len(got') = m
  BY <1>1 DEF Run
<1>10. rs.want > 0 => m > 0
  BY <1>1
<1>. QED BY <1>1, <1>3, <1>8, <1>9, <1>10, DeliveredIs

LEMMA FailedKeeps ==
  ASSUME ReadInv, BufInv', capacity' = capacity, rs' = [rs EXCEPT !.st = "failed"] PROVE ReadInv'
<1>1. rs' \in [st : {"idle", "returned", "failed", "copy", "fill", "direct"}, want : Nat]
      /\ rs'.st = "failed"
  BY DEF ReadInv
<1>. QED BY <1>1 DEF ReadInv, ReadIsNext

LEMMA OnFillErrorKeeps ==
  ASSUME ReadInv, OnFillError PROVE ReadInv'
<1>1. /\ Agrees(buf, count, taken, left) /\ kind' = kind /\ count' = count /\ taken' = taken
      /\ left' = left /\ capacity' = capacity /\ rs' = [rs EXCEPT !.st = "failed"]
      /\ left # Void /\ buf' \in {buf, CommitOf(buf, 0)} /\ BufInv
  BY DEF ReadInv, BufInv, OnFillError, Return
<1>2. Agrees(CommitOf(buf, 0), count, taken, left)
  <2>1. count \in Nat /\ left \in Nat
    BY <1>1, BufTypes
  <2>2. Less(0, left) = 0 /\ count + 0 = count /\ left - 0 = left
    BY <2>1 DEF Less
  <2>3. Agrees(CommitOf(buf, 0), count + Less(0, left), taken, left - Less(0, left))
    BY <1>1, CommitAgrees
  <2>. QED BY <2>2, <2>3, Zenon
<1>3. Agrees(buf', count', taken', left')
  BY <1>1, <1>2, Zenon
<1>. QED BY <1>1, <1>3, AgreesPrimed, FailedKeeps

LEMMA OnDirectErrorKeeps ==
  ASSUME ReadInv, OnDirectError PROVE ReadInv'
<1>1. BufInv /\ UNCHANGED bufVars /\ capacity' = capacity /\ rs' = [rs EXCEPT !.st = "failed"]
  BY DEF ReadInv, OnDirectError, Return, bufVars
<1>. QED BY <1>1, SameBuf, FailedKeeps

LEMMA ReadInvStep ==
  ASSUME ReadInv, [StreamNext]_svars PROVE ReadInv'
<1>1. CASE UNCHANGED svars
  <2>1. BufInv'
    BY <1>1, SameBuf DEF ReadInv, svars, bufVars
  <2>. QED BY <1>1, <2>1 DEF ReadInv, ReadIsNext, svars, bufVars
<1>2. ASSUME NEW m \in 1 .. MaxArg, OnFill(m) \/ OnDirect(m) PROVE ReadInv'
  <2>1. m \in Nat /\ m > 0
    BY BufsAssumption
  <2>. QED BY <1>2, <2>1, OnFillKeeps, OnDirectKeeps
<1>3. CASE rs.want = 0 /\ OnDirect(0)
  BY <1>3, OnDirectKeeps
<1>4. CASE StreamNext
  BY <1>2, <1>3, <1>4, UseBufferKeeps, SetCapacityKeeps, ReadThrowsKeeps, ReadSomeKeeps,
     OnPostedKeeps, OnFillErrorKeeps, OnDirectErrorKeeps, Zenon DEF StreamNext
<1>. QED BY <1>1, <1>4

LEMMA ReadInvInit ==
  ASSUME StreamInit PROVE ReadInv
<1>1. /\ count = 0 /\ taken = 0 /\ left = 0 /\ capacity \in Nat /\ rs = NoRead
      /\ \/ kind = "streambuf" /\ \E a \in AllocSizes \ {0} : buf = SbEmpty(a)
         \/ kind = "static" /\ \E s \in StaticSizes : buf = SsEmpty(s)
         \/ kind = "adapter" /\ \E sh \in Shapes : buf = BaEmpty(sh)
  BY CapacityAssumption DEF StreamInit, Init
<1>2. AllocSizes \subseteq Nat /\ StaticSizes \subseteq Nat /\ Shapes \subseteq Seq(Nat) /\ 0 \in Nat
  BY BufsAssumption
<1>3. ASSUME kind = "streambuf", NEW a \in AllocSizes, buf = SbEmpty(a) PROVE Agrees(buf, 0, 0, 0)
  BY <1>2, <1>3, ClearAgrees
<1>4. ASSUME kind = "static", NEW s \in StaticSizes, buf = SsEmpty(s) PROVE Agrees(buf, 0, 0, 0)
  <2>1. SsGood(buf) /\ buf.in = 0 /\ buf.out = 0 /\ buf.last = 0
    BY <1>2, <1>4, SsEmptyGood
  <2>2. Good(buf) /\ StartOf(buf) = 0 /\ MidOf(buf) = 0 /\ FinOf(buf) = 0
    BY <1>4, <2>1, StaticIs, Zenon
  <2>. QED BY <1>2, <2>2, EmptyAgrees, Zenon
<1>5. ASSUME kind = "adapter", NEW sh \in Shapes, buf = BaEmpty(sh) PROVE Agrees(buf, 0, 0, 0)
  <2>1. BaGood(buf) /\ BaStart(buf) = 0 /\ BaMid(buf) = 0 /\ BaFin(buf) = 0
    BY <1>2, <1>5, BaEmptyGood
  <2>2. Good(buf) /\ StartOf(buf) = 0 /\ MidOf(buf) = 0 /\ FinOf(buf) = 0
    BY <1>5, <2>1, AdapterIs, Zenon
  <2>. QED BY <1>2, <2>2, EmptyAgrees, Zenon
<1>6. BufInv
  <2>1. Agrees(buf, 0, 0, 0)
    BY <1>1, <1>3, <1>4, <1>5, Zenon
  <2>. QED BY <1>1, <2>1, Zenon DEF BufInv
<1>. QED BY <1>1, <1>6 DEF ReadInv, ReadIsNext, NoRead


-----------------------------------------------------------------------------
(* What is said of the storage.                                            *)

LEMMA SbChecked ==
  ASSUME NEW b, SbGood(b)
  PROVE  /\ SizeOf(SbData(b)) = b.inSize
         /\ IF b.mem = << >>
            THEN /\ b.inPos = 0 /\ b.inSize = 0 /\ b.outPos = 0
                 /\ b.outEnd = 0 /\ b.out = 1
            ELSE /\ b.inPos < Len(b.mem[1])
                 /\ IF SbAtEnd(b) THEN b.outPos = 0 /\ b.outEnd = 0
                    ELSE /\ b.outEnd <= Len(b.mem[Len(b.mem)])
                         /\ b.outPos < Len(b.mem[b.out])
                         /\ b.out = 1 => b.outPos - b.inPos = b.inSize
                         /\ b.out = Len(b.mem) => b.outPos <= b.outEnd
<1>1. SizeOf(SbData(b)) = b.inSize
  <2>1. Shows(b.mem, SbData(b), SbStart(b), SbMid(b))
    BY SbShows
  <2>2. SizeOf(SbData(b)) = SbMid(b) - SbStart(b)
    BY <2>1, ShowsSize, Zenon
  <2>. QED BY <2>2, SbPlaces, Zenon
<1>2. PICK mem, l, ot, ip, op, oe, z :
        /\ mem = b.mem /\ l = Len(b.mem) /\ ot = b.out /\ ip = b.inPos /\ op = b.outPos
        /\ oe = b.outEnd /\ z = b.inSize
  OBVIOUS
<1>3. CutOK(mem, 1, ot, l + 1, ip, op, oe)
  BY <1>2, Zenon DEF SbGood
<1>4. /\ mem \in Memory /\ l \in Nat /\ ot \in Nat /\ ip \in Nat /\ op \in Nat /\ oe \in Nat
      /\ 1 <= ot /\ ot <= l + 1 /\ (ot = l + 1 => op = 0 /\ oe = 0)
      /\ (ot = (l + 1) - 1 => op <= oe) /\ (1 = ot => ip <= op)
  BY <1>2, <1>3, EndFacts DEF CutOK
<1>5. ot < l + 1 => oe <= Len(mem[(l + 1) - 1])
  BY <1>3, Zenon DEF CutOK
<1>6. (l + 1) - 1 = l /\ (l > 0 => l # 0)
  BY <1>4
<1>7. ot = 1 => op - ip = z
  <2>1. ot = 1 => SbMid(b) = End(mem, 1 - 1) + op /\ SbStart(b) = End(mem, 1 - 1) + ip
    BY <1>2 DEF SbMid, SbStart, Spot
  <2>2. PICK g : g = End(mem, 1 - 1)
    OBVIOUS
  <2>3. g = 0
    BY <1>4, <2>2, EndFacts
  <2>4. z = SbMid(b) - SbStart(b)
    BY <1>2, SbPlaces
  <2>. QED BY <1>4, <2>1, <2>2, <2>3, <2>4
<1>8. mem = << >> <=> l = 0
  BY <1>2, <1>4 DEF Memory
<1>9. CASE l = 0
  <2>1. ot = 1 /\ op = 0 /\ oe = 0 /\ ip = 0 /\ z = 0
    BY <1>4, <1>7, <1>9
  <2>. QED BY <1>1, <1>2, <1>8, <1>9, <2>1, Zenon
<1>10. CASE l > 0
  <2>1. ip < Len(mem[1])
    BY <1>2, <1>10, Zenon DEF SbGood
  <2>2. ot <= l => op < Len(mem[ot])
    BY <1>2, Zenon DEF SbGood
  <2>3. mem # << >>
    BY <1>6, <1>8, <1>10, Zenon
  <2>4. SbAtEnd(b) <=> ot > l
    BY <1>2, Zenon DEF SbAtEnd
  <2>5. CASE ot > l
    <3>1. op = 0 /\ oe = 0
      BY <1>4, <2>5
    <3>. QED BY <1>1, <1>2, <2>1, <2>3, <2>4, <2>5, <3>1, Zenon
  <2>6. CASE ot <= l
    <3>1. ~(ot > l) /\ ot < l + 1
      BY <1>4, <2>6
    <3>2. oe <= Len(mem[l])
      BY <1>5, <1>6, <3>1, Zenon
    <3>3. op < Len(mem[ot])
      BY <2>2, <2>6
    <3>4. ot = l => op <= oe
      BY <1>4, <1>6, Zenon
    <3>. QED BY <1>1, <1>2, <1>7, <2>1, <2>3, <2>4, <3>1, <3>2, <3>3, <3>4, Zenon
  <2>. QED BY <1>4, <2>5, <2>6
<1>. QED BY <1>4, <1>9, <1>10

LEMMA SsChecked ==
  ASSUME NEW b, SsGood(b)
  PROVE  0 <= b.in /\ b.in <= b.out /\ b.out <= b.last /\ b.last <= SsEnd(b)
BY DEF SsGood, SsRec, SsEnd

LEMMA BaChecked ==
  ASSUME NEW b, BaGood(b)
  PROVE  /\ b.begin <= b.out /\ b.out <= b.end /\ b.end <= Len(b.mem) + 1
         /\ b.out = b.end - 1 => b.outPos <= b.outEnd
BY DEF BaGood, CutOK

LEMMA SbCapacityIs ==
  ASSUME NEW b, SbGood(b)
  PROVE  SbCapacity(b) - b.inSize = End(b.mem, Len(b.mem)) - SbMid(b)
<1>1. PICK mem, l, ot, op, z, el, eo :
        /\ mem = b.mem /\ l = Len(b.mem) /\ ot = b.out /\ op = b.outPos /\ z = b.inSize
        /\ el = End(b.mem, l) /\ eo = End(b.mem, ot - 1)
  OBVIOUS
<1>2. CutOK(mem, 1, ot, l + 1, b.inPos, op, b.outEnd)
  BY <1>1, Zenon DEF SbGood
<1>3. mem \in Memory /\ l \in Nat /\ ot \in Nat /\ op \in Nat /\ 1 <= ot /\ ot <= l + 1
      /\ (ot = l + 1 => op = 0)
  BY <1>1, <1>2, EndFacts DEF CutOK
<1>4. z \in Nat
  BY <1>1, SbPlaces
<1>5. el \in Nat /\ eo \in Nat
  <2>1. l \in 0 .. l /\ ot - 1 \in 0 .. l
    BY <1>3
  <2>. QED BY <1>1, <1>3, <2>1, EndFacts
<1>6. SbMid(b) = eo + op
  BY <1>1, Zenon DEF SbMid, Spot
<1>7. CASE ot > l
  <2>1. SbCapacity(b) = z + 0
    BY <1>1, <1>7 DEF SbCapacity, SbAtEnd
  <2>2. ot - 1 = l
    BY <1>3, <1>7
  <2>3. eo = el /\ op = 0
    <3>1. eo = el
      BY <1>1, <2>2, Zenon
    <3>. QED BY <1>3, <1>7, <3>1
  <2>4. SbCapacity(b) - z = el - (eo + op)
    BY <1>4, <1>5, <2>1, <2>3
  <2>. QED BY <1>1, <1>6, <2>4, Zenon
<1>8. CASE ot <= l
  <2>1. ot \in 1 .. l + 1 /\ l \in ot - 1 .. l /\ ~(ot > l)
    BY <1>3, <1>8
  <2>2. Total(mem, ot, l) = el - eo
    BY <1>1, <1>3, <2>1, TotalByEnds
  <2>3. SbCapacity(b) = z + (Total(mem, ot, l) - op)
    BY <1>1, <2>1, Zenon DEF SbCapacity, SbAtEnd
  <2>4. SbCapacity(b) = z + ((el - eo) - op)
    BY <2>2, <2>3, Zenon
  <2>5. SbCapacity(b) - z = el - (eo + op)
    BY <1>3, <1>4, <1>5, <2>4
  <2>. QED BY <1>1, <1>6, <2>5, Zenon
<1>. QED BY <1>3, <1>7, <1>8

LEMMA SbReadSizeIs ==
  ASSUME NEW b, SbGood(b), NEW low \in Nat \ {0}, NEW m \in Nat \ {0}
  PROVE  SbReadSize(b, low, m) \in 1 .. m
<1>1. PICK av, al, mx : av = SbCapacity(b) - b.inSize /\ al = b.alloc /\ mx = Max({low, al})
  OBVIOUS
<1>2. av \in Int /\ al \in Nat
  <2>1. b \in SbRec /\ b.mem \in Memory /\ SbMid(b) \in Nat
    BY SbPlaces
  <2>2. Len(b.mem) \in 0 .. Len(b.mem)
    <3>1. Len(b.mem) \in Nat
      BY <2>1, EndFacts
    <3>. QED BY <3>1
  <2>3. End(b.mem, Len(b.mem)) \in Nat
    BY <2>1, <2>2, EndFacts
  <2>4. End(b.mem, Len(b.mem)) - SbMid(b) \in Int
    BY <2>1, <2>3
  <2>5. av \in Int
    BY <1>1, <2>4, SbCapacityIs, Zenon
  <2>6. al \in Nat
    BY <1>1, <2>1 DEF SbRec
  <2>. QED BY <2>5, <2>6
<1>3. mx \in Nat /\ mx >= 1
  <2> DEFINE top == IF low >= al THEN low ELSE al
  <2>1. top \in {low, al} /\ \A y \in {low, al} : top >= y
    BY <1>2
  <2>2. ASSUME NEW x \in {low, al}, \A y \in {low, al} : x >= y PROVE x = top
    BY <1>2, <2>2
  <2>3. mx = top
    <3>. HIDE DEF top
    <3>. QED BY <1>1, <2>1, <2>2 DEF Max
  <2>. QED BY <1>2, <2>3
<1>4. PICK x : x = IF av > 0 THEN av ELSE mx
  OBVIOUS
<1>5. x \in Nat /\ x >= 1
  BY <1>2, <1>3, <1>4
<1>6. SbReadSize(b, low, m) = Min({m, x})
  BY <1>1, <1>4, Zenon DEF SbReadSize
<1>7. Min({m, x}) = Less(m, x)
  BY <1>5, MinPair
<1>8. Less(m, x) \in 1 .. m
  BY <1>5 DEF Less
<1>. QED BY <1>6, <1>7, <1>8, Zenon


LEMMA AgreesAccounts ==
  ASSUME NEW b, NEW c, NEW t, NEW l, Agrees(b, c, t, l) PROVE Accounts(b, c, t, l)
<1>2. PICK s, m, f, z : s = StartOf(b) /\ m = MidOf(b) /\ f = FinOf(b) /\ z = c - t
  OBVIOUS
<1>3. /\ Good(b) /\ t \in Nat /\ m - s = z /\ (l # Void => f - m = l)
      /\ Known(b.mem, s, m - s, t)
  BY <1>2, AgreesIs
<1>4. /\ Shows(b.mem, DataOf(b), s, m) /\ Shows(b.mem, OutputOf(b), m, f) /\ SizeIn(b) = m - s
  BY <1>2, <1>3, GoodShows
<1>5. Bytes(b.mem, DataOf(b)) = Run(t, m - s)
  <2>1. t \in Int
    BY <1>3
  <2>. QED BY <1>3, <1>4, <2>1, ShowsBytes, Zenon
<1>6. Bytes(b.mem, DataOf(b)) = [i \in 1 .. c - t |-> t + i]
  BY <1>2, <1>3, <1>5, Zenon DEF Run
<1>7. SizeOf(OutputOf(b)) = f - m
  BY <1>4, ShowsSize, Zenon
<1>. QED BY <1>2, <1>3, <1>4, <1>6, <1>7, Zenon DEF Accounts

LEMMA BooksFollow == ReadInv => BooksAgree
<1>. SUFFICES ASSUME ReadInv PROVE BooksAgree
  OBVIOUS
<1>0. BufInv
  BY Zenon DEF ReadInv
<1>1. Agrees(buf, count, taken, left)
  BY <1>0, Zenon DEF BufInv
<1>2. Accounts(buf, count, taken, left)
  BY <1>1, AgreesAccounts, Zenon
<1>3. ASSUME kind = "streambuf" PROVE MovesAreExact
  <2>1. PICK a : a = buf.alloc
    OBVIOUS
  <2>2. a \in Nat /\ count \in Nat
    <3>1. buf \in SbRec
      BY <1>0, <1>3, BufTypes, KindIs, SbPlaces
    <3>. QED BY <1>0, <2>1, <3>1, BufTypes DEF SbRec
  <2>3. /\ SbMove(buf).to = buf /\ SbMove(buf).from = SbEmpty(a)
        /\ SbMoveAssigns(buf).to = SbCopy(buf, a) /\ SbMoveAssigns(buf).from = SbEmpty(a)
        /\ SbMoveConstructs(buf).to = SbCopy(buf, a) /\ SbMoveConstructs(buf).from = buf
    BY <2>1 DEF SbMove, SbMoveAssigns, SbMoveConstructs, SbClear
  <2>4. DocumentedTo(SbCopy(buf, a))
    <3>1. Agrees(SbCopy(buf, a), count, taken, 0)
      BY <1>1, <1>3, <2>2, CopyAgrees
    <3>. QED BY <3>1, AgreesAccounts, Zenon DEF DocumentedTo
  <2>5. DocumentedFrom(SbEmpty(a))
    <3>1. Agrees(SbEmpty(a), count, count, 0)
      BY <1>3, <2>2, ClearAgrees
    <3>2. Accounts(SbEmpty(a), count, count, 0)
      BY <3>1, AgreesAccounts, Zenon
    <3>3. SbEmpty(a).mem = << >>
      BY DEF SbEmpty
    <3>. QED BY <3>2, <3>3, Zenon DEF DocumentedFrom
  <2>. QED BY <1>2, <2>3, <2>4, <2>5, Zenon DEF MovesAreExact
<1>. QED BY <1>2, <1>3, Zenon DEF BooksAgree

LEMMA StorageFollows == ReadInv => StorageIsExact
<1>. SUFFICES ASSUME ReadInv PROVE StorageIsExact
  OBVIOUS
<1>1. Good(buf)
  BY BufTypes DEF ReadInv
<1>2. LowRead \in Nat \ {0} /\ MaxArg \in Nat
  BY BufsAssumption
<1>3. CASE kind = "streambuf"
  <2>1. SbGood(buf)
    BY <1>1, <1>3, KindIs
  <2>2. DebugCheck
    BY <1>3, <2>1, SbChecked DEF DebugCheck
  <2>3. ASSUME NEW n \in 0 .. MaxArg
        PROVE  SbAllocates(buf, n) <=> n > SbCapacity(buf) - buf.inSize
    <3>1. n \in Nat
      BY <1>2
    <3>2. SbAllocates(buf, n) <=> n > End(buf.mem, Len(buf.mem)) - SbMid(buf)
      BY <2>1, <3>1, SbAllocatesIs
    <3>. QED BY <2>1, <3>2, SbCapacityIs, Zenon
  <2>4. ASSUME NEW m \in 1 .. MaxArg PROVE SbReadSize(buf, LowRead, m) \in 1 .. m
    <3>1. m \in Nat \ {0}
      BY <1>2
    <3>. QED BY <1>2, <2>1, <3>1, SbReadSizeIs
  <2>5. CapacityIsExact
    BY <1>3, <2>3, <2>4 DEF CapacityIsExact
  <2>. QED BY <2>2, <2>5 DEF StorageIsExact
<1>4. CASE kind = "static"
  <2>1. DebugCheck
    BY <1>1, <1>4, StaticIs, SsChecked DEF DebugCheck
  <2>2. CapacityIsExact
    BY <1>4 DEF CapacityIsExact
  <2>. QED BY <2>1, <2>2 DEF StorageIsExact
<1>5. CASE kind = "adapter"
  <2>1. BaGood(buf)
    BY <1>1, <1>5, AdapterIs
  <2>2. DebugCheck
    BY <1>5, <2>1, BaChecked DEF DebugCheck
  <2>3. ASSUME NEW n \in 0 .. MaxArg PROVE BaThrows(buf, n) <=> n > buf.maxSize
    <3>1. n \in Nat
      BY <1>2
    <3>. QED BY <2>1, <3>1, BaThrowsIs
  <2>4. CapacityIsExact
    BY <1>5, <2>3 DEF CapacityIsExact
  <2>. QED BY <2>2, <2>4 DEF StorageIsExact
<1>. QED BY <1>1, <1>3, <1>4, <1>5, OfKind

-----------------------------------------------------------------------------
(* Views.  What a view over data() needs to know of its buffers is where   *)
(* each of them begins and ends in the bytes of the whole.                 *)

Buffers == [at : Nat, from : Nat, to : Nat]

\* The buffer u holds the numbers after t + lo, up to t + hi.
HoldsRun(mem, u, t, lo, hi) ==
  /\ u \in Buffers /\ lo \in Nat /\ hi \in Nat /\ lo <= hi
  /\ mem[u.at] \in Seq(Nat) /\ u.to <= Len(mem[u.at]) /\ u.to - u.from = hi - lo
  /\ \A k \in Int : u.from < k /\ k <= u.to => mem[u.at][k] = t + (lo + (k - u.from))

\* The n buffers of bs hold the numbers after t + q[0], up to t + q[n].
Strip(mem, bs, n, q, t) ==
  /\ n \in Nat /\ bs \in Seq(Buffers) /\ Len(bs) = n /\ q \in [0 .. n -> Nat]
  /\ \A j \in 1 .. n : HoldsRun(mem, bs[j], t, q[j - 1], q[j])

LEMMA HeldBytes ==
  ASSUME NEW mem, NEW u, NEW t \in Int, NEW lo, NEW hi, HoldsRun(mem, u, t, lo, hi)
  PROVE  /\ SubSeq(mem[u.at], u.from + 1, u.to) = Run(t + lo, hi - lo)
         /\ SubSeq(mem[u.at], u.from + 1, u.to) \in Seq(Int)
<1>1. PICK r, f, e : r = mem[u.at] /\ f = u.from /\ e = u.to
  OBVIOUS
<1>2. /\ f \in Nat /\ e \in Nat /\ lo \in Nat /\ hi \in Nat /\ lo <= hi /\ r \in Seq(Nat)
      /\ e <= Len(r) /\ e - f = hi - lo
  BY <1>1 DEF HoldsRun, Buffers
<1>3. \A k \in Int : f < k /\ k <= e => r[k] = t + (lo + (k - f))
  BY <1>1, Zenon DEF HoldsRun
<1>4. f <= e
  BY <1>2
<1>5. SubSeq(r, f + 1, e) = [i \in 1 .. e - f |-> r[f + i]]
  BY <1>2, <1>4, SubSeqIs
<1>6. ASSUME NEW i \in 1 .. e - f PROVE r[f + i] = (t + lo) + i
  <2>1. f + i \in Int /\ f < f + i /\ f + i <= e /\ (f + i) - f = i
    BY <1>2
  <2>2. r[f + i] = t + (lo + ((f + i) - f))
    BY <1>3, <2>1
  <2>3. t + (lo + i) = (t + lo) + i
    BY <1>2
  <2>. QED BY <2>1, <2>2, <2>3, Zenon
<1>7. SubSeq(r, f + 1, e) = Run(t + lo, hi - lo)
  BY <1>2, <1>5, <1>6, Zenon DEF Run
<1>8. SubSeq(r, f + 1, e) \in Seq(Int)
  BY <1>2
<1>. QED BY <1>1, <1>7, <1>8, Zenon

LEMMA StripOrder ==
  ASSUME NEW mem, NEW bs, NEW n, NEW q, NEW t, Strip(mem, bs, n, q, t)
  PROVE  /\ n \in Nat /\ \A j \in 0 .. n : q[j] \in Nat
         /\ \A i, j \in 0 .. n : i <= j => q[i] <= q[j]
<1>1. n \in Nat /\ q \in [0 .. n -> Nat]
  BY DEF Strip
<1>2. \A k \in 1 .. n : q[k - 1] <= q[k]
  BY Zenon DEF Strip, HoldsRun
<1>3. q \in [0 .. n -> Int] /\ \A j \in 0 .. n : q[j] \in Nat
  BY <1>1
<1>. QED BY <1>1, <1>2, <1>3, Monotone

LEMMA StripBytes ==
  ASSUME NEW mem, NEW bs, NEW n, NEW q, NEW t \in Int, Strip(mem, bs, n, q, t)
  PROVE  Bytes(mem, bs) = Run(t + q[0], q[n] - q[0])
<1>1. n \in Nat /\ bs \in Seq(Buffers) /\ Len(bs) = n /\ q \in [0 .. n -> Nat]
      /\ \A j \in 1 .. n : HoldsRun(mem, bs[j], t, q[j - 1], q[j])
  BY Zenon DEF Strip
<1>2. PICK z : z = q[0]
  OBVIOUS
<1>3. z \in Nat /\ \A j \in 0 .. n : q[j] \in Nat /\ z <= q[j]
  <2>1. /\ n \in Nat /\ \A j \in 0 .. n : q[j] \in Nat
        /\ \A i, j \in 0 .. n : i <= j => q[i] <= q[j]
    BY StripOrder
  <2>2. 0 \in 0 .. n /\ \A j \in 0 .. n : 0 <= j
    BY <2>1
  <2>. QED BY <1>2, <2>1, <2>2, Zenon
<1> DEFINE seqs == [j \in 1 .. n |-> SubSeq(mem[bs[j].at], bs[j].from + 1, bs[j].to)]
           e == [j \in 0 .. n |-> q[j] - z]
<1>4. DOMAIN bs = 1 .. n
  BY <1>1
<1>5. Bytes(mem, bs) = FlattenSeq(seqs)
  BY <1>4, Zenon DEF Bytes
<1>6. e \in [0 .. n -> Nat] /\ e[0] = 0 /\ e[n] = q[n] - z
  <2>1. \A j \in 0 .. n : q[j] - z \in Nat
    BY <1>3
  <2>2. 0 \in 0 .. n /\ n \in 0 .. n
    BY <1>1
  <2>3. q[0] - z = 0
    BY <1>2, <1>3
  <2>. QED BY <2>1, <2>2, <2>3
<1>7. ASSUME NEW j \in 1 .. n
      PROVE  /\ e[j - 1] <= e[j] /\ seqs[j] = Run((t + z) + e[j - 1], e[j] - e[j - 1])
             /\ seqs[j] \in Seq(Int)
  <2>1. j \in 0 .. n /\ j - 1 \in 0 .. n
    BY <1>1
  <2>2. PICK u, v : u = q[j - 1] /\ v = q[j]
    OBVIOUS
  <2>3. HoldsRun(mem, bs[j], t, u, v)
    BY <1>1, <2>2
  <2>4. u \in Nat /\ v \in Nat /\ u <= v
    BY <2>3 DEF HoldsRun
  <2>5. e[j - 1] = u - z /\ e[j] = v - z
    BY <2>1, <2>2
  <2>6. seqs[j] = SubSeq(mem[bs[j].at], bs[j].from + 1, bs[j].to)
    OBVIOUS
  <2>. HIDE DEF seqs, e
  <2>7. seqs[j] = Run(t + u, v - u) /\ seqs[j] \in Seq(Int)
    <3>1. PICK w : w = bs[j]
      OBVIOUS
    <3>2. HoldsRun(mem, w, t, u, v) /\ seqs[j] = SubSeq(mem[w.at], w.from + 1, w.to)
      BY <2>3, <2>6, <3>1, Zenon
    <3>3. /\ SubSeq(mem[w.at], w.from + 1, w.to) = Run(t + u, v - u)
          /\ SubSeq(mem[w.at], w.from + 1, w.to) \in Seq(Int)
      BY <3>2, HeldBytes
    <3>. QED BY <3>2, <3>3, Zenon
  <2>8. t + u = (t + z) + (u - z) /\ v - u = (v - z) - (u - z) /\ u - z <= v - z
    BY <1>3, <2>4
  <2>. QED BY <2>5, <2>7, <2>8, Zenon
<1>8. Len(seqs) = n /\ seqs \in Seq(Seq(Int))
  <2>1. seqs = [j \in 1 .. n |-> seqs[j]]
    OBVIOUS
  <2>. HIDE DEF seqs
  <2>2. \A j \in 1 .. n : seqs[j] \in Seq(Int)
    BY <1>7
  <2>. QED BY <1>1, <2>1, <2>2
<1>9. FlattenSeq(seqs) = Run(t + z, e[n])
  <2>. HIDE DEF seqs, e
  <2>1. \A j \in 1 .. n : e[j - 1] <= e[j]
    BY <1>7
  <2>2. \A j \in 1 .. n : seqs[j] = Run((t + z) + e[j - 1], e[j] - e[j - 1])
    BY <1>7
  <2>3. t + z \in Int
    BY <1>3
  <2>4. n \in Nat
    BY <1>1
  <2>5. PICK t0 : t0 = t + z
    OBVIOUS
  <2>6. t0 \in Int /\ \A j \in 1 .. n : seqs[j] = Run(t0 + e[j - 1], e[j] - e[j - 1])
    BY <2>2, <2>3, <2>5, Zenon
  <2>7. FlattenSeq(seqs) = Run(t0, e[n])
    BY <1>6, <1>8, <2>1, <2>4, <2>6, FlattenRun
  <2>. QED BY <2>5, <2>7, Zenon
<1>. HIDE DEF seqs, e
<1>. QED BY <1>2, <1>5, <1>6, <1>9, Zenon

\* The size of some of the buffers.
LEMMA StripSize ==
  ASSUME NEW mem, NEW bs, NEW n, NEW q, NEW t, Strip(mem, bs, n, q, t),
         NEW i \in 1 .. n + 1, NEW j \in i - 1 .. n
  PROVE  SizeOf(SubSeq(bs, i, j)) = q[j] - q[i - 1]
<1>1. n \in Nat /\ bs \in Seq(Buffers) /\ Len(bs) = n /\ q \in [0 .. n -> Nat]
      /\ \A k \in 1 .. n : HoldsRun(mem, bs[k], t, q[k - 1], q[k])
  BY Zenon DEF Strip
<1>2. PICK lo, c : lo = i - 1 /\ c = j - lo
  OBVIOUS
<1>3. lo \in Nat /\ j \in Nat /\ lo <= j /\ j <= n /\ lo + 1 = i /\ c \in Nat /\ lo + c = j
  BY <1>1, <1>2
<1>4. PICK cs : cs = SubSeq(bs, i, j)
  OBVIOUS
<1>5. cs = [k \in 1 .. c |-> bs[lo + k]]
  <2>1. SubSeq(bs, lo + 1, j) = [k \in 1 .. j - lo |-> bs[lo + k]]
    BY <1>1, <1>3, SubSeqIs
  <2>. QED BY <1>2, <1>3, <1>4, <2>1, Zenon
<1> DEFINE e == [k \in 0 .. c |-> q[lo + k]]
<1>6. \A k \in 0 .. c : lo + k \in 0 .. n /\ e[k] \in Int
  BY <1>1, <1>3
<1>7. ASSUME NEW k \in 1 .. c PROVE BufferSize(cs[k]) = e[k] - e[k - 1]
  <2>1. lo + k \in 1 .. n /\ (lo + k) - 1 = lo + (k - 1) /\ k \in 0 .. c /\ k - 1 \in 0 .. c
    <3>1. lo \in Nat /\ c \in Nat /\ lo + c <= n /\ n \in Nat
      BY <1>1, <1>3
    <3>. QED BY <3>1
  <2>2. e[k] = q[lo + k] /\ e[k - 1] = q[lo + (k - 1)] /\ cs[k] = bs[lo + k]
    BY <1>5, <2>1
  <2>3. HoldsRun(mem, bs[lo + k], t, q[(lo + k) - 1], q[lo + k])
    BY <1>1, <2>1
  <2>. HIDE DEF e
  <2>4. BufferSize(bs[lo + k]) = q[lo + k] - q[(lo + k) - 1]
    BY <2>3, Zenon DEF HoldsRun, BufferSize
  <2>. QED BY <2>1, <2>2, <2>4, Zenon
<1>8. e[c] = q[j] /\ e[0] = q[i - 1]
  <2>1. c \in 0 .. c /\ 0 \in 0 .. c /\ lo + 0 = lo
    BY <1>3
  <2>. QED BY <1>2, <1>3, <2>1, Zenon
<1>9. SizeOf(cs) = e[c] - e[0]
  <2>1. DOMAIN cs = 1 .. c
    BY <1>5
  <2>. HIDE DEF e
  <2>. QED BY <1>3, <1>6, <1>7, <2>1, SizeByPlaces
<1>. HIDE DEF e
<1>. QED BY <1>4, <1>8, <1>9, Zenon

\* The buffers of a sequence that shows the bytes t + 1, t + 2, ...
LEMMA ShowsStrip ==
  ASSUME NEW mem, NEW bs, NEW s, NEW f, Shows(mem, bs, s, f), NEW t \in Int,
         Known(mem, s, f - s, t)
  PROVE  \E n, q : Strip(mem, bs, n, q, t) /\ q[0] = 0 /\ q[n] = f - s
<1>0. s \in Nat /\ f \in Nat /\ s <= f
  BY ShowsSize
<1>1. CASE mem \in Memory /\ s \in Nat /\ s = f /\ bs = << >>
  <2>1. PICK q : q = [k \in 0 .. 0 |-> 0]
    OBVIOUS
  <2>2. q \in [0 .. 0 -> Nat] /\ q[0] = 0 /\ f - s = 0
    BY <1>0, <1>1, <2>1
  <2>3. bs \in Seq(Buffers) /\ Len(bs) = 0 /\ 0 \in Nat
    BY <1>1
  <2>4. ASSUME NEW j \in 1 .. 0 PROVE FALSE
    OBVIOUS
  <2>5. Strip(mem, bs, 0, q, t)
    BY <2>2, <2>3, <2>4 DEF Strip
  <2>. QED BY <2>2, <2>5
<1>2. CASE \E a, m, x, y : /\ SpanOK(mem, a, m, x, y) /\ bs = Span(mem, a, m, x, y)
                           /\ s = Stop(mem, a, m, x, y, 0) /\ f = Stop(mem, a, m, x, y, m)
  <2>1. PICK a, m, x, y : /\ SpanOK(mem, a, m, x, y) /\ bs = Span(mem, a, m, x, y)
                          /\ s = Stop(mem, a, m, x, y, 0) /\ f = Stop(mem, a, m, x, y, m)
    BY <1>2
  <2>2. m \in Nat \ {0} /\ mem \in Memory
    BY <2>1 DEF SpanOK
  <2> DEFINE g == [j \in 0 .. m |-> Stop(mem, a, m, x, y, j)]
             q == [j \in 0 .. m |-> g[j] - s]
  <2>3. /\ \A j \in 0 .. m : g[j] \in Nat
        /\ g[0] = s /\ g[m] = f
    <3>1. 0 \in 0 .. m /\ m \in 0 .. m
      BY <2>2
    <3>2. \A j \in 0 .. m : Stop(mem, a, m, x, y, j) \in Nat
      BY <2>1, SpanStops
    <3>. QED BY <2>1, <3>1, <3>2
  <2>4. ASSUME NEW j \in 1 .. m
        PROVE  /\ g[j - 1] <= g[j] /\ bs[j].to - bs[j].from = g[j] - g[j - 1]
    <3>1. j \in 0 .. m /\ j - 1 \in 0 .. m
      BY <2>2
    <3>2. g[j] = Stop(mem, a, m, x, y, j) /\ g[j - 1] = Stop(mem, a, m, x, y, j - 1)
      BY <3>1
    <3>3. Stop(mem, a, m, x, y, j - 1) <= Stop(mem, a, m, x, y, j)
          /\ BufferSize(bs[j]) = Stop(mem, a, m, x, y, j) - Stop(mem, a, m, x, y, j - 1)
      BY <2>1, SpanStops
    <3>. HIDE DEF g
    <3>. QED BY <3>2, <3>3, Zenon DEF BufferSize
  <2>5. ASSUME NEW j \in 1 .. m
        PROVE  /\ bs[j] \in Buffers /\ bs[j].at \in 1 .. Len(mem) /\ bs[j].from \in Nat
               /\ bs[j].to \in Nat /\ bs[j].to <= Len(mem[bs[j].at])
    <3>1. /\ bs[j].at \in 1 .. Len(mem)
          /\ bs[j].from \in Nat /\ bs[j].to \in Nat /\ bs[j].to <= Len(mem[bs[j].at])
      BY <2>1, SpanBuffer
    <3>2. bs[j] = [at |-> bs[j].at, from |-> bs[j].from, to |-> bs[j].to]
      BY <2>1 DEF Span, Buffer
    <3>3. bs[j].at \in Nat
      BY <3>1
    <3>4. bs[j] \in Buffers
      BY <3>1, <3>2, <3>3 DEF Buffers
    <3>. QED BY <3>1, <3>4
  <2>6. /\ q \in [0 .. m -> Nat] /\ q[0] = 0 /\ q[m] = f - s
        /\ \A j \in 0 .. m : q[j] = g[j] - s
    <3>1. ASSUME NEW j \in 0 .. m PROVE g[j] - s \in Nat
      <4>1. g \in [0 .. m -> Int]
        BY <2>3
      <4>2. \A k \in 1 .. m : g[k - 1] <= g[k]
        BY <2>4
      <4>3. 0 \in 0 .. m /\ 0 <= j /\ m \in Nat
        BY <2>2
      <4>. HIDE DEF g
      <4>4. g[0] <= g[j]
        BY <4>1, <4>2, <4>3, Monotone
      <4>5. PICK w : w = g[j]
        OBVIOUS
      <4>6. w \in Nat /\ s <= w
        BY <2>3, <4>4, <4>5
      <4>7. w - s \in Nat
        BY <1>0, <4>6
      <4>. QED BY <4>5, <4>7, Zenon
    <3>2. 0 \in 0 .. m /\ m \in 0 .. m /\ s - s = 0
      BY <1>0, <2>2
    <3>. HIDE DEF g
    <3>. QED BY <2>3, <3>1, <3>2
  <2>7. ASSUME NEW j \in 1 .. m PROVE HoldsRun(mem, bs[j], t, q[j - 1], q[j])
    <3>1. j \in 0 .. m /\ j - 1 \in 0 .. m
      BY <2>2
    <3>2. PICK u, lo, hi : u = bs[j] /\ lo = g[j - 1] /\ hi = g[j]
      OBVIOUS
    <3>3. lo \in Nat /\ hi \in Nat /\ lo <= hi /\ u.to - u.from = hi - lo
      BY <2>3, <2>4, <3>1, <3>2, Zenon
    <3>4. q[j - 1] = lo - s /\ q[j] = hi - s /\ q[j - 1] \in Nat /\ q[j] \in Nat
      BY <2>6, <3>1, <3>2
    <3>5. u \in Buffers /\ u.at \in 1 .. Len(mem) /\ u.to \in Nat /\ u.from \in Nat
          /\ u.to <= Len(mem[u.at])
      BY <2>5, <3>2, Zenon
    <3>6. mem[u.at] \in Seq(Nat)
      BY <2>2, <3>5 DEF Memory
    <3>7. lo = Stop(mem, a, m, x, y, j - 1)
      BY <3>1, <3>2
    <3>. HIDE DEF q, g
    <3>8. ASSUME NEW k \in Int, u.from < k, k <= u.to
          PROVE  mem[u.at][k] = t + ((lo - s) + (k - u.from))
      <4>1. PICK p : p = End(mem, u.at - 1) + k
        OBVIOUS
      <4>2. s < p /\ p <= f /\ p = Stop(mem, a, m, x, y, j - 1) + k - u.from
        <5>1. u = Span(mem, a, m, x, y)[j]
          BY <2>1, <3>2
        <5>. QED BY <2>1, <3>8, <4>1, <5>1, SpanOnly
      <4>3. k \in 1 .. Len(mem[u.at])
        <5>1. Len(mem[u.at]) \in Nat
          BY <3>6
        <5>. QED BY <3>5, <3>8, <5>1
      <4>4. s + (f - s) = f
        BY <1>0
      <4>5. mem[u.at][k] = t + (p - s)
        BY <3>5, <4>1, <4>2, <4>3, <4>4, Zenon DEF Known
      <4>6. p = lo + k - u.from
        BY <3>7, <4>2, Zenon
      <4>7. p - s = (lo - s) + (k - u.from)
        BY <1>0, <3>3, <3>5, <4>6
      <4>. QED BY <4>5, <4>7, Zenon
    <3>9. u.to - u.from = (hi - s) - (lo - s) /\ lo - s <= hi - s
      BY <1>0, <3>3
    <3>. QED BY <3>2, <3>4, <3>5, <3>6, <3>8, <3>9, Zenon DEF HoldsRun
  <2>8. bs \in Seq(Buffers) /\ Len(bs) = m
    <3>1. bs = [j \in 1 .. m |-> bs[j]]
      BY <2>1, <2>2 DEF Span
    <3>2. \A j \in 1 .. m : bs[j] \in Buffers
      BY <2>5
    <3>. QED BY <2>2, <3>1, <3>2
  <2>9. Strip(mem, bs, m, q, t)
    <3>1. m \in Nat /\ q \in [0 .. m -> Nat]
      BY <2>2, <2>6
    <3>. HIDE DEF q, g
    <3>. QED BY <2>7, <2>8, <3>1, Zenon DEF Strip
  <2>. HIDE DEF q, g
  <2>. QED BY <2>6, <2>9
<1>. QED BY <1>1, <1>2 DEF Shows

\* A buffer that has lost bytes at its front or at its back.
LEMMA HoldsTail ==
  ASSUME NEW mem, NEW u, NEW t \in Int, NEW lo, NEW hi, HoldsRun(mem, u, t, lo, hi),
         NEW x \in Nat, lo + x <= hi
  PROVE  HoldsRun(mem, [u EXCEPT !.from = @ + x], t, lo + x, hi)
<1>1. PICK w : w = [u EXCEPT !.from = @ + x]
  OBVIOUS
<1>2. u \in Buffers /\ u.at \in Nat /\ u.from \in Nat /\ u.to \in Nat
  BY DEF HoldsRun, Buffers
<1>3. w \in Buffers /\ w.at = u.at /\ w.from = u.from + x /\ w.to = u.to
  BY <1>1, <1>2 DEF Buffers
<1>4. PICK r, a, e : r = mem[u.at] /\ a = u.from /\ e = u.to
  OBVIOUS
<1>5. /\ lo \in Nat /\ hi \in Nat /\ r \in Seq(Nat) /\ e <= Len(r) /\ e - a = hi - lo
      /\ \A k \in Int : a < k /\ k <= e => r[k] = t + (lo + (k - a))
  BY <1>4, Zenon DEF HoldsRun
<1>6. a \in Nat /\ e \in Nat
  BY <1>2, <1>4
<1>7. ASSUME NEW k \in Int, a + x < k, k <= e PROVE r[k] = t + ((lo + x) + (k - (a + x)))
  <2>1. a < k /\ (lo + x) + (k - (a + x)) = lo + (k - a)
    BY <1>5, <1>6, <1>7
  <2>2. r[k] = t + (lo + (k - a))
    BY <1>5, <1>7, <2>1
  <2>. QED BY <2>1, <2>2, Zenon
<1>8. lo + x \in Nat /\ e - (a + x) = hi - (lo + x)
  BY <1>5, <1>6
<1>9. HoldsRun(mem, w, t, lo + x, hi)
  BY <1>3, <1>4, <1>5, <1>7, <1>8, Zenon DEF HoldsRun
<1>. QED BY <1>1, <1>9, Zenon

LEMMA HoldsHead ==
  ASSUME NEW mem, NEW u, NEW t \in Int, NEW lo, NEW hi, HoldsRun(mem, u, t, lo, hi),
         NEW x \in Nat, lo + x <= hi
  PROVE  HoldsRun(mem, [u EXCEPT !.to = @ - x], t, lo, hi - x)
<1>1. PICK w : w = [u EXCEPT !.to = @ - x]
  OBVIOUS
<1>2. u \in Buffers /\ u.at \in Nat /\ u.from \in Nat /\ u.to \in Nat
  BY DEF HoldsRun, Buffers
<1>3. w = [at |-> u.at, from |-> u.from, to |-> u.to - x]
  BY <1>1, <1>2 DEF Buffers
<1>4. PICK r, a, e : r = mem[u.at] /\ a = u.from /\ e = u.to
  OBVIOUS
<1>5. /\ lo \in Nat /\ hi \in Nat /\ r \in Seq(Nat) /\ e <= Len(r) /\ e - a = hi - lo
      /\ \A k \in Int : a < k /\ k <= e => r[k] = t + (lo + (k - a))
  BY <1>4, Zenon DEF HoldsRun
<1>6. a \in Nat /\ e \in Nat
  BY <1>2, <1>4
<1>7. /\ hi - x \in Nat /\ lo <= hi - x /\ e - x \in Nat /\ e - x <= e
      /\ (e - x) - a = (hi - x) - lo
  BY <1>5, <1>6
<1>8. Len(r) \in Nat /\ e - x <= Len(r)
  BY <1>5, <1>6, <1>7
<1>9. ASSUME NEW k \in Int, a < k, k <= e - x PROVE r[k] = t + (lo + (k - a))
  <2>1. k <= e
    BY <1>6, <1>9
  <2>. QED BY <1>5, <1>9, <2>1
<1>10. w \in Buffers /\ w.at = u.at /\ w.from = a /\ w.to = e - x
  BY <1>2, <1>3, <1>4, <1>7 DEF Buffers
<1>11. HoldsRun(mem, w, t, lo, hi - x)
  BY <1>4, <1>5, <1>7, <1>8, <1>9, <1>10, Zenon DEF HoldsRun
<1>. QED BY <1>1, <1>11, Zenon

-----------------------------------------------------------------------------
\* A consuming_buffers over n buffers that end at q has dropped all before p.
ViewAt(cb, bs, n, q, p) ==
  /\ cb = [bs |-> bs, begin |-> cb.begin, skip |-> cb.skip]
  /\ cb.begin \in 1 .. n + 1 /\ cb.skip \in Nat
  /\ p = q[cb.begin - 1] + cb.skip /\ p <= q[n]
  /\ IF cb.begin <= n THEN p <= q[cb.begin] ELSE cb.skip = 0

LEMMA ViewStart ==
  ASSUME NEW mem, NEW bs, NEW n, NEW q, NEW t, Strip(mem, bs, n, q, t)
  PROVE  ViewAt(ConsumingBuffers(bs), bs, n, q, q[0])
<1>1. /\ n \in Nat /\ \A j \in 0 .. n : q[j] \in Nat
      /\ \A i, j \in 0 .. n : i <= j => q[i] <= q[j]
  BY StripOrder
<1>2. PICK cb : cb = ConsumingBuffers(bs)
  OBVIOUS
<1>3. cb = [bs |-> bs, begin |-> cb.begin, skip |-> cb.skip] /\ cb.begin = 1 /\ cb.skip = 0
  BY <1>2 DEF ConsumingBuffers
<1>4. 0 \in 0 .. n /\ n \in 0 .. n /\ 0 <= n /\ 1 - 1 = 0 /\ 1 \in 1 .. n + 1
      /\ (1 <= n => 1 \in 0 .. n /\ 0 <= 1)
  BY <1>1
<1>5. q[0] \in Nat /\ q[0] <= q[n] /\ (1 <= n => q[0] <= q[1])
  BY <1>1, <1>4
<1>6. q[0] = q[0] + 0
  BY <1>5
<1>7. ViewAt(cb, bs, n, q, q[0])
  BY <1>3, <1>4, <1>5, <1>6 DEF ViewAt
<1>. QED BY <1>2, <1>7, Zenon

LEMMA PassedIs ==
  ASSUME NEW mem, NEW bs, NEW n, NEW q, NEW t, Strip(mem, bs, n, q, t), NEW cb, NEW p,
         ViewAt(cb, bs, n, q, p), NEW k \in cb.begin .. n + 1
  PROVE  /\ Passed(cb, k) = IF k = cb.begin THEN 0 ELSE q[k - 1] - p
         /\ Passed(cb, k) \in Nat
<1>1. /\ n \in Nat /\ \A j \in 0 .. n : q[j] \in Nat
      /\ \A i, j \in 0 .. n : i <= j => q[i] <= q[j]
  BY StripOrder
<1>2. PICK b, x : b = cb.begin /\ x = cb.skip
  OBVIOUS
<1>3. /\ b \in 1 .. n + 1 /\ x \in Nat /\ p = q[b - 1] + x /\ cb.bs = bs
      /\ (b <= n => p <= q[b]) /\ k \in b .. n + 1
  <2>1. cb.bs = bs
    BY DEF ViewAt
  <2>. QED BY <1>2, <2>1, Zenon DEF ViewAt
<1>4. CASE k = b
  BY <1>2, <1>4 DEF Passed
<1>5. CASE k # b
  <2>1. /\ k - 1 \in b - 1 .. n /\ b - 1 \in 0 .. n /\ k - 1 \in 0 .. n /\ b <= n /\ b \in 0 .. n
        /\ b <= k - 1
    BY <1>1, <1>3, <1>5
  <2>2. SizeOf(SubSeq(bs, b, k - 1)) = q[k - 1] - q[b - 1]
    BY <1>3, <2>1, StripSize
  <2>3. Passed(cb, k) = SizeOf(SubSeq(bs, b, k - 1)) - x
    BY <1>2, <1>3, <1>5, Zenon DEF Passed
  <2>4. PICK u, v, w : u = q[b - 1] /\ v = q[k - 1] /\ w = q[b]
    OBVIOUS
  <2>5. u \in Nat /\ v \in Nat /\ w \in Nat /\ w <= v /\ p <= w /\ p = u + x
    BY <1>1, <1>3, <2>1, <2>4
  <2>6. (v - u) - x = v - p /\ v - p \in Nat
    BY <1>3, <2>5
  <2>. QED BY <1>2, <1>5, <2>2, <2>3, <2>4, <2>6, Zenon
<1>. QED BY <1>4, <1>5

\* consume() of a consuming_buffers drops as many bytes as it is told, or all
\* that there are.
LEMMA ConsumeMoves ==
  ASSUME NEW mem, NEW bs, NEW n, NEW q, NEW t, Strip(mem, bs, n, q, t), NEW cb, NEW p,
         ViewAt(cb, bs, n, q, p), NEW m \in Nat
  PROVE  ViewAt(ConsumeView(cb, m), bs, n, q, Less(p + m, q[n]))
<1>1. /\ n \in Nat /\ \A j \in 0 .. n : q[j] \in Nat
      /\ \A i, j \in 0 .. n : i <= j => q[i] <= q[j]
  BY StripOrder
<1>2. PICK b, x, z : b = cb.begin /\ x = cb.skip /\ z = q[n]
  OBVIOUS
<1>3. /\ cb = [bs |-> bs, begin |-> b, skip |-> x] /\ cb.bs = bs
      /\ b \in 1 .. n + 1 /\ x \in Nat /\ p = q[b - 1] + x /\ p <= z
      /\ (b <= n => p <= q[b]) /\ (~(b <= n) => x = 0)
  <2>1. cb.bs = bs
    BY DEF ViewAt
  <2>. QED BY <1>2, <2>1, Zenon DEF ViewAt
<1>a. Len(bs) = n
  BY DEF Strip
<1>b. n \in 0 .. n /\ b - 1 \in 0 .. n
  BY <1>1, <1>3
<1>c. z \in Nat /\ p \in Nat
  BY <1>1, <1>2, <1>3, <1>b
<1> DEFINE K == {k \in b .. n + 1 : k = b \/ (Passed(cb, k - 1) < m /\ Passed(cb, k) <= m)}
<1>4. PICK k : k = Max(K)
  OBVIOUS
<1>5. PICK c : c = ConsumeView(cb, m)
  OBVIOUS
<1>6. c = [cb EXCEPT !.begin = k,
                     !.skip = (IF k = b THEN @ ELSE 0) + IF k <= n THEN m - Passed(cb, k) ELSE 0]
  BY <1>2, <1>3, <1>4, <1>5, <1>a, Zenon DEF ConsumeView
<1>7. k \in K /\ \A y \in K : y <= k
  <2>1. K \subseteq Int /\ b \in K /\ \A y \in K : y <= n + 1
    BY <1>1, <1>3
  <2>2. n + 1 \in Int /\ K # {}
    BY <1>1, <2>1
  <2>. HIDE DEF K
  <2>. QED BY <1>4, <2>1, <2>2, MaxOf
<1>8. k \in b .. n + 1 /\ (k # b => Passed(cb, k) <= m)
  BY <1>7
<1>9. /\ c = [bs |-> bs, begin |-> c.begin, skip |-> c.skip] /\ c.begin = k
      /\ c.skip = (IF k = b THEN x ELSE 0) + IF k <= n THEN m - Passed(cb, k) ELSE 0
  BY <1>3, <1>6
<1>10. /\ Passed(cb, k) = (IF k = b THEN 0 ELSE q[k - 1] - p) /\ Passed(cb, k) \in Nat
  BY <1>2, <1>8, PassedIs
<1>11. k \in 1 .. n + 1 /\ k - 1 \in 0 .. n
  BY <1>1, <1>3, <1>8
<1>12. CASE k <= n
  <2>1. k + 1 \in b .. n + 1 /\ k + 1 # b /\ (k + 1) - 1 = k /\ k \in 0 .. n /\ k - 1 <= k /\ k <= n
    BY <1>1, <1>3, <1>8, <1>12
  <2>2. Passed(cb, k + 1) = q[k] - p
    <3>1. Passed(cb, k + 1) = q[(k + 1) - 1] - p
      BY <1>2, <2>1, PassedIs
    <3>. QED BY <2>1, <3>1, Zenon
  <2>3. ~(Passed(cb, k) < m /\ Passed(cb, k + 1) <= m)
    <3>1. k + 1 \notin K
      <4>. HIDE DEF K
      <4>1. ~(k + 1 <= k)
        BY <1>8
      <4>. QED BY <1>7, <4>1
    <3>. QED BY <2>1, <3>1
  <2>. HIDE DEF K
  <2>4. PICK u, v, g : u = q[k - 1] /\ v = q[k] /\ g = Passed(cb, k)
    OBVIOUS
  <2>5. u \in Nat /\ v \in Nat /\ u <= v /\ v <= z
    BY <1>1, <1>2, <1>11, <1>b, <2>1, <2>4
  <2>6. /\ g \in Nat /\ (k = b => g = 0 /\ p = u + x /\ p <= v) /\ (k # b => g = u - p /\ g <= m)
        /\ ~(g < m /\ v - p <= m)
    BY <1>3, <1>8, <1>10, <1>12, <2>2, <2>3, <2>4, Zenon
  <2>7. c.skip = (IF k = b THEN x ELSE 0) + (m - g)
    BY <1>9, <1>12, <2>4
  <2>8. c.skip \in Nat /\ p + m = u + c.skip /\ p + m <= v
    <3>1. CASE k = b
      <4>1. x \in Nat /\ g = 0 /\ p = u + x /\ p <= v /\ ~(g < m /\ v - p <= m)
        BY <1>3, <2>6, <3>1
      <4>2. c.skip = x + (m - g)
        BY <2>7, <3>1
      <4>3. PICK d : d = c.skip
        OBVIOUS
      <4>4. d \in Nat /\ p + m = u + d /\ p + m <= v
        BY <1>c, <2>5, <4>1, <4>2, <4>3
      <4>. QED BY <4>3, <4>4, Zenon
    <3>2. CASE k # b
      BY <1>c, <2>5, <2>6, <2>7, <3>2
    <3>. QED BY <3>1, <3>2
  <2>9. Less(p + m, z) = p + m /\ p + m <= z
    <3>1. p + m <= z
      BY <1>c, <2>5, <2>8
    <3>. QED BY <3>1 DEF Less
  <2>. QED BY <1>2, <1>5, <1>9, <1>11, <1>12, <2>4, <2>8, <2>9, Zenon DEF ViewAt
<1>13. CASE ~(k <= n)
  <2>. HIDE DEF K
  <2>1. k = n + 1 /\ k - 1 = n
    BY <1>1, <1>11, <1>13
  <2>2. c.skip = 0
    BY <1>3, <1>9, <1>13
  <2>3. z <= p + m
    <3>1. CASE k = b
      <4>1. x = 0 /\ p = z + x
        BY <1>2, <1>3, <1>13, <2>1, <3>1
      <4>. QED BY <1>c, <4>1
    <3>2. CASE k # b
      <4>1. z - p <= m
        BY <1>2, <1>8, <1>10, <2>1, <3>2
      <4>. QED BY <1>c, <4>1
    <3>. QED BY <3>1, <3>2
  <2>4. Less(p + m, z) = z
    BY <1>c, <2>3 DEF Less
  <2>5. z = z + 0 /\ z <= z /\ 0 \in Nat
    BY <1>c
  <2>. QED BY <1>2, <1>5, <1>9, <1>11, <1>13, <2>1, <2>2, <2>4, <2>5, Zenon DEF ViewAt
<1>. QED BY <1>12, <1>13

\* What a consuming_buffers shows begins where it has dropped to.
LEMMA InViewStrip ==
  ASSUME NEW mem, NEW bs, NEW n, NEW q, NEW t \in Int, Strip(mem, bs, n, q, t), NEW cb, NEW p,
         ViewAt(cb, bs, n, q, p)
  PROVE  \E l, h : Strip(mem, InView(cb), l, h, t) /\ h[0] = p /\ h[l] = q[n]
<1>1. n \in Nat /\ bs \in Seq(Buffers) /\ Len(bs) = n /\ q \in [0 .. n -> Nat]
      /\ \A j \in 1 .. n : HoldsRun(mem, bs[j], t, q[j - 1], q[j])
  BY Zenon DEF Strip
<1>2. PICK b, x : b = cb.begin /\ x = cb.skip
  OBVIOUS
<1>3. /\ cb.bs = bs /\ b \in 1 .. n + 1 /\ x \in Nat /\ p = q[b - 1] + x
      /\ (b <= n => p <= q[b]) /\ (~(b <= n) => x = 0)
  <2>1. cb.bs = bs
    BY DEF ViewAt
  <2>. QED BY <1>2, <2>1, Zenon DEF ViewAt
<1>4. PICK a, l : a = b - 1 /\ l = n + 1 - b
  OBVIOUS
<1>5. a \in Nat /\ l \in Nat /\ a + l = n /\ a \in 0 .. n /\ n \in 0 .. n
  <2>1. n \in Nat /\ b \in 1 .. n + 1
    BY <1>1, <1>3
  <2>2. a \in Nat /\ l \in Nat /\ a + l = n /\ a <= n
    BY <1>4, <2>1
  <2>. QED BY <2>1, <2>2
<1>6. q[a] \in Nat /\ p \in Nat /\ p = q[a] + x
  <2>1. q[a] \in Nat
    BY <1>1, <1>5
  <2>2. p = q[a] + x
    BY <1>3, <1>4, Zenon
  <2>. QED BY <1>3, <2>1, <2>2
<1> DEFINE h == [i \in 0 .. l |-> IF i = 0 THEN p ELSE q[a + i]]
           vs == [i \in 1 .. l |-> IF i = 1 THEN [bs[a + i] EXCEPT !.from = @ + x] ELSE bs[a + i]]
<1>7. InView(cb) = vs
  <2>1. ASSUME NEW i \in 1 .. l PROVE b + i - 1 = a + i
    BY <1>3, <1>4
  <2>2. \A i \in 1 .. l :
          (LET u == bs[b + i - 1] IN IF i = 1 THEN [u EXCEPT !.from = @ + x] ELSE u)
          = IF i = 1 THEN [bs[a + i] EXCEPT !.from = @ + x] ELSE bs[a + i]
    BY <2>1, Zenon
  <2>3. InView(cb) = [i \in 1 .. l |-> LET u == bs[b + i - 1]
                                       IN  IF i = 1 THEN [u EXCEPT !.from = @ + x] ELSE u]
    BY <1>1, <1>2, <1>3, <1>4, Zenon DEF InView
  <2>. QED BY <2>2, <2>3, Zenon
<1>8. h[0] = p /\ h[l] = q[n] /\ h \in [0 .. l -> Nat]
  <2>1. 0 \in 0 .. l /\ l \in 0 .. l
    BY <1>5
  <2>2. \A i \in 0 .. l : a + i \in 0 .. n
    BY <1>5
  <2>3. l = 0 => p = q[n]
    <3>. SUFFICES ASSUME l = 0 PROVE p = q[n]
      OBVIOUS
    <3>1. ~(b <= n) /\ a = n
      BY <1>1, <1>3, <1>4, <1>5
    <3>2. x = 0
      BY <1>3, <3>1
    <3>. QED BY <1>6, <3>1, <3>2
  <2>. QED BY <1>1, <1>5, <1>6, <2>1, <2>2, <2>3
<1>9. ASSUME NEW i \in 1 .. l
      PROVE  HoldsRun(mem, vs[i], t, h[i - 1], h[i]) /\ vs[i] \in Buffers
  <2>1. i \in 0 .. l /\ i - 1 \in 0 .. l /\ a + i \in 1 .. n /\ (a + i) - 1 = a + (i - 1)
    BY <1>5
  <2>2. PICK u, lo, hi : u = bs[a + i] /\ lo = q[(a + i) - 1] /\ hi = q[a + i]
    OBVIOUS
  <2>3. HoldsRun(mem, u, t, lo, hi)
    BY <1>1, <2>1, <2>2
  <2>4. h[i] = hi
    BY <2>1, <2>2
  <2>5. CASE i = 1
    <3>1. h[i - 1] = p /\ lo = q[a]
      BY <1>5, <2>1, <2>2, <2>5
    <3>2. vs[i] = [u EXCEPT !.from = @ + x]
      BY <2>2, <2>5
    <3>. HIDE DEF h, vs
    <3>3. p = lo + x
      BY <1>6, <3>1
    <3>4. p <= hi
      <4>1. b <= n /\ a + i = b
        BY <1>1, <1>3, <1>4, <2>1, <2>5
      <4>. QED BY <1>3, <2>2, <4>1
    <3>5. HoldsRun(mem, [u EXCEPT !.from = @ + x], t, lo + x, hi)
      BY <1>3, <2>3, <3>3, <3>4, HoldsTail
    <3>6. HoldsRun(mem, vs[i], t, h[i - 1], h[i])
      BY <2>4, <3>1, <3>2, <3>3, <3>5, Zenon
    <3>. QED BY <3>6, Zenon DEF HoldsRun
  <2>6. CASE i # 1
    <3>1. h[i - 1] = lo
      <4>1. i - 1 # 0
        BY <2>6
      <4>. QED BY <2>1, <2>2, <4>1
    <3>2. vs[i] = u
      BY <2>2, <2>6
    <3>. HIDE DEF h, vs
    <3>. QED BY <2>3, <2>4, <3>1, <3>2, Zenon DEF HoldsRun
  <2>. QED BY <2>5, <2>6
<1>10. vs \in Seq(Buffers) /\ Len(vs) = l
  <2>1. vs = [i \in 1 .. l |-> vs[i]]
    OBVIOUS
  <2>. HIDE DEF vs
  <2>2. \A i \in 1 .. l : vs[i] \in Buffers
    BY <1>9
  <2>. QED BY <1>5, <2>1, <2>2
<1>. HIDE DEF vs, h
<1>11. Strip(mem, vs, l, h, t)
  BY <1>5, <1>8, <1>9, <1>10, Zenon DEF Strip
<1>. QED BY <1>7, <1>8, <1>11

\* What prepare_buffers keeps of a sequence ends where it was told.
LEMMA PreparedStrip ==
  ASSUME NEW mem, NEW bs, NEW n, NEW q, NEW t \in Int, Strip(mem, bs, n, q, t), q[0] = 0,
         NEW m \in Nat
  PROVE  \E l, h : Strip(mem, PreparedBuffers(m, bs), l, h, t) /\ h[0] = 0 /\ h[l] = Less(m, q[n])
<1>1. n \in Nat /\ bs \in Seq(Buffers) /\ Len(bs) = n /\ q \in [0 .. n -> Nat]
      /\ \A j \in 1 .. n : HoldsRun(mem, bs[j], t, q[j - 1], q[j])
  BY Zenon DEF Strip
<1>2. /\ \A j \in 0 .. n : q[j] \in Nat
      /\ \A i, j \in 0 .. n : i <= j => q[i] <= q[j]
  BY StripOrder
<1>3. n \in 0 .. n /\ 0 \in 0 .. n /\ DOMAIN bs = 1 .. n
  BY <1>1
<1>4. PICK z : z = q[n]
  OBVIOUS
<1>5. z \in Nat
  BY <1>2, <1>3, <1>4
<1>6. ASSUME NEW k \in 0 .. n PROVE SizeOf(SubSeq(bs, 1, k)) = q[k]
  <2>1. 1 \in 1 .. n + 1 /\ k \in 1 - 1 .. n /\ 1 - 1 = 0
    BY <1>1
  <2>2. SizeOf(SubSeq(bs, 1, k)) = q[k] - q[1 - 1]
    BY <2>1, StripSize
  <2>3. q[k] \in Nat /\ q[1 - 1] = 0
    BY <1>2, <2>1
  <2>4. q[k] - 0 = q[k]
    BY <2>3
  <2>. QED BY <2>2, <2>3, <2>4, Zenon
<1> DEFINE R == {k \in 1 .. n : m <= q[k]}
<1>7. {k \in DOMAIN bs : m <= SizeOf(SubSeq(bs, 1, k))} = R
  <2>1. \A k \in 1 .. n : k \in 0 .. n
    BY <1>1
  <2>2. \A k \in 1 .. n : SizeOf(SubSeq(bs, 1, k)) = q[k]
    BY <1>6, <2>1
  <2>. QED BY <1>3, <2>2, Zenon
<1>8. CASE R = {}
  <2>1. PreparedBuffers(m, bs) = bs
    <3>1. {k \in DOMAIN bs : m <= SizeOf(SubSeq(bs, 1, k))} = {}
      BY <1>7, <1>8, Zenon
    <3>. QED BY <3>1, Zenon DEF PreparedBuffers
  <2>2. z <= m
    <3>1. CASE n = 0
      BY <1>4, <3>1
    <3>2. CASE n # 0
      <4>1. n \in 1 .. n
        BY <1>1, <3>2
      <4>2. ~(m <= q[n])
        BY <1>8, <4>1
      <4>. QED BY <1>4, <1>5, <4>2
    <3>. QED BY <3>1, <3>2
  <2>3. Less(m, z) = z
    BY <1>5, <2>2 DEF Less
  <2>. QED BY <1>4, <2>1, <2>3, Zenon
<1>9. CASE R # {}
  <2>1. PICK k : k = Min(R)
    OBVIOUS
  <2>2. k \in R /\ \A y \in R : k <= y
    <3>1. R \subseteq Int /\ \A y \in R : 1 <= y
      OBVIOUS
    <3>2. 1 \in Int
      OBVIOUS
    <3>. HIDE DEF R
    <3>3. Min(R) \in R /\ \A y \in R : Min(R) <= y
      BY <1>9, <3>1, <3>2, MinOf
    <3>. QED BY <2>1, <3>3, Zenon
  <2>3. k \in 1 .. n /\ m <= q[k]
    BY <2>2
  <2>4. k \in Nat /\ k \in 0 .. n /\ k - 1 \in 0 .. n /\ k \in 1 .. k
    BY <1>1, <2>3
  <2>5. q[k - 1] <= m
    <3>1. CASE k = 1
      <4>1. k - 1 = 0
        BY <3>1
      <4>2. q[k - 1] = 0
        BY <4>1
      <4>. QED BY <4>2
    <3>2. CASE k # 1
      <4>1. k - 1 \in 1 .. n /\ ~(k <= k - 1)
        BY <1>1, <2>3, <3>2
      <4>2. k - 1 \notin R
        BY <2>2, <4>1
      <4>3. ~(m <= q[k - 1]) /\ q[k - 1] \in Nat
        BY <1>2, <2>4, <4>1, <4>2
      <4>. QED BY <4>3
    <3>. QED BY <3>1, <3>2
  <2>. HIDE DEF R
  <2>6. PICK x : x = q[k] - m
    OBVIOUS
  <2>7. PICK lo, hi : lo = q[k - 1] /\ hi = q[k]
    OBVIOUS
  <2>8. lo \in Nat /\ hi \in Nat /\ lo <= m /\ m <= hi
    BY <1>2, <2>3, <2>4, <2>5, <2>7
  <2>9. x \in Nat /\ lo + x <= hi /\ hi - x = m
    BY <2>6, <2>7, <2>8
  <2>10. PICK cs : cs = SubSeq(bs, 1, k)
    OBVIOUS
  <2>11. cs = [j \in 1 .. k |-> bs[j]]
    <3>1. SubSeq(bs, 0 + 1, k) = [j \in 1 .. k - 0 |-> bs[0 + j]]
      BY <1>1, <2>3, <2>4, SubSeqIs
    <3>2. k - 0 = k /\ 0 + 1 = 1 /\ \A j \in 1 .. k : 0 + j = j
      BY <2>4
    <3>. QED BY <2>10, <3>1, <3>2, Zenon
  <2> DEFINE h == [j \in 0 .. k |-> IF j = k THEN m ELSE q[j]]
             vs == [j \in 1 .. k |-> IF j = k THEN [bs[j] EXCEPT !.to = @ - x] ELSE bs[j]]
  <2>12. PreparedBuffers(m, bs) = vs
    <3>1. PreparedBuffers(m, bs) = [cs EXCEPT ![k].to = @ - (SizeOf(cs) - m)]
      BY <1>7, <1>9, <2>1, <2>10, Zenon DEF PreparedBuffers
    <3>2. SizeOf(cs) - m = x
      BY <1>6, <2>4, <2>6, <2>10, Zenon
    <3>3. [cs EXCEPT ![k].to = @ - x] = vs
      <4>1. [cs EXCEPT ![k].to = @ - x] = [cs EXCEPT ![k] = [cs[k] EXCEPT !.to = @ - x]]
        OBVIOUS
      <4>2. cs[k] = bs[k]
        BY <2>4, <2>11
      <4>3. PICK w : w = [bs[k] EXCEPT !.to = @ - x]
        OBVIOUS
      <4>4. [cs EXCEPT ![k] = w] = [j \in 1 .. k |-> IF j = k THEN w ELSE bs[j]]
        BY <2>11
      <4>5. vs = [j \in 1 .. k |-> IF j = k THEN w ELSE bs[j]]
        BY <4>3, Zenon
      <4>. HIDE DEF vs
      <4>. QED BY <4>1, <4>2, <4>3, <4>4, <4>5, Zenon
    <3>. HIDE DEF vs
    <3>. QED BY <3>1, <3>2, <3>3, Zenon
  <2>13. h[0] = 0 /\ h[k] = m /\ h \in [0 .. k -> Nat]
    <3>1. 0 \in 0 .. k /\ k \in 0 .. k /\ k # 0 /\ \A j \in 0 .. k : j \in 0 .. n
      BY <1>1, <2>3
    <3>. QED BY <1>2, <3>1
  <2>14. ASSUME NEW j \in 1 .. k
         PROVE  HoldsRun(mem, vs[j], t, h[j - 1], h[j]) /\ vs[j] \in Buffers
    <3>1. j \in 0 .. k /\ j - 1 \in 0 .. k /\ j \in 1 .. n /\ j - 1 # k
      BY <1>1, <2>3
    <3>2. h[j - 1] = q[j - 1]
      BY <3>1
    <3>3. HoldsRun(mem, bs[j], t, q[j - 1], q[j])
      BY <1>1, <3>1
    <3>4. CASE j = k
      <4>1. PICK u : u = bs[j]
        OBVIOUS
      <4>2. h[j] = m /\ vs[j] = [u EXCEPT !.to = @ - x]
        BY <3>1, <3>4, <4>1
      <4>. HIDE DEF h, vs
      <4>3. HoldsRun(mem, u, t, lo, hi)
        BY <2>7, <3>3, <3>4, <4>1, Zenon
      <4>4. HoldsRun(mem, [u EXCEPT !.to = @ - x], t, lo, hi - x)
        BY <2>9, <4>3, HoldsHead
      <4>5. HoldsRun(mem, vs[j], t, h[j - 1], h[j])
        BY <2>7, <2>9, <3>2, <3>4, <4>2, <4>4, Zenon
      <4>. QED BY <4>5, Zenon DEF HoldsRun
    <3>5. CASE j # k
      <4>1. h[j] = q[j] /\ vs[j] = bs[j]
        BY <3>1, <3>5
      <4>. HIDE DEF h, vs
      <4>. QED BY <3>2, <3>3, <4>1, Zenon DEF HoldsRun
    <3>. QED BY <3>4, <3>5
  <2>15. vs \in Seq(Buffers) /\ Len(vs) = k
    <3>1. vs = [i \in 1 .. k |-> vs[i]]
      OBVIOUS
    <3>. HIDE DEF vs
    <3>2. \A i \in 1 .. k : vs[i] \in Buffers
      BY <2>14
    <3>. QED BY <2>4, <3>1, <3>2
  <2>. HIDE DEF vs, h
  <2>16. Strip(mem, vs, k, h, t)
    BY <2>4, <2>13, <2>14, <2>15, Zenon DEF Strip
  <2>17. Less(m, q[n]) = m
    <3>1. hi <= z
      BY <1>2, <1>3, <1>4, <2>3, <2>4, <2>7
    <3>2. m <= z
      BY <1>5, <2>8, <3>1
    <3>. QED BY <1>4, <3>2 DEF Less
  <2>. QED BY <2>12, <2>13, <2>16, <2>17
<1>. QED BY <1>8, <1>9

LEMMA RunIs ==
  ASSUME NEW t \in Int, NEW z \in Nat
  PROVE  /\ Run(t, z) \in Seq(Int) /\ Len(Run(t, z)) = z
         /\ \A i \in 1 .. z : Run(t, z)[i] = t + i
BY DEF Run

LEMMA RunTail ==
  ASSUME NEW t \in Int, NEW z \in Nat, NEW d \in Nat
  PROVE  SubSeq(Run(t, z), d + 1, z) = Run(t + Less(d, z), z - Less(d, z))
<1>1. PICK r : r = Run(t, z)
  OBVIOUS
<1>2. r \in Seq(Int) /\ Len(r) = z /\ \A i \in 1 .. z : r[i] = t + i
  BY <1>1, RunIs
<1>3. CASE d <= z
  <2>1. SubSeq(r, d + 1, z) = [i \in 1 .. z - d |-> r[d + i]]
    <3>1. z <= Len(r)
      BY <1>2
    <3>. QED BY <1>2, <1>3, <3>1, SubSeqIs
  <2>2. \A i \in 1 .. z - d : r[d + i] = (t + d) + i
    <3>. SUFFICES ASSUME NEW i \in 1 .. z - d PROVE r[d + i] = (t + d) + i
      OBVIOUS
    <3>1. d + i \in 1 .. z /\ t + (d + i) = (t + d) + i
      BY <1>3
    <3>. QED BY <1>2, <3>1
  <2>3. Less(d, z) = d
    BY <1>3 DEF Less
  <2>. QED BY <1>1, <2>1, <2>2, <2>3, Zenon DEF Run
<1>4. CASE ~(d <= z)
  <2>1. Less(d, z) = z /\ z - z = 0 /\ t + z \in Int
    BY <1>4 DEF Less
  <2>2. SubSeq(r, d + 1, z) = << >>
    BY <1>2, <1>4
  <2>3. Run(t + z, 0) = << >>
    BY <2>1 DEF Run
  <2>. QED BY <1>1, <2>1, <2>2, <2>3, Zenon
<1>. QED BY <1>3, <1>4

LEMMA RunHead ==
  ASSUME NEW t \in Int, NEW z \in Nat, NEW d \in Nat, d <= z
  PROVE  SubSeq(Run(t, z), 1, d) = Run(t, d)
<1>1. PICK r : r = Run(t, z)
  OBVIOUS
<1>2. r \in Seq(Int) /\ Len(r) = z /\ \A i \in 1 .. z : r[i] = t + i
  BY <1>1, RunIs
<1>3. SubSeq(r, 0 + 1, d) = [i \in 1 .. d - 0 |-> r[0 + i]]
  <2>1. d <= Len(r) /\ 0 <= d
    BY <1>2
  <2>. QED BY <1>2, <2>1, SubSeqIs
<1>4. \A i \in 1 .. d : r[0 + i] = t + i
  BY <1>2
<1>5. d - 0 = d /\ 0 + 1 = 1
  OBVIOUS
<1>. QED BY <1>1, <1>3, <1>4, <1>5, Zenon DEF Run

\* The views over a sequence whose buffers hold one run of numbers.
LEMMA SliceBytes ==
  ASSUME NEW mem, NEW bs, NEW n, NEW q, NEW t \in Int, Strip(mem, bs, n, q, t), q[0] = 0,
         NEW i \in Nat, NEW j \in Nat
  PROVE  /\ Bytes(mem, InView(ConsumeView(ConsumeView(ConsumingBuffers(bs), i), j)))
              = SubSeq(Bytes(mem, bs), i + j + 1, Len(Bytes(mem, bs)))
         /\ Bytes(mem, PreparedBuffers(i, bs))
              = SubSeq(Bytes(mem, bs), 1, Min({i, Len(Bytes(mem, bs))}))
<1>1. PICK z, r : z = q[n] /\ r = Bytes(mem, bs)
  OBVIOUS
<1>2. z \in Nat
  <2>1. n \in Nat /\ \A k \in 0 .. n : q[k] \in Nat
    BY StripOrder
  <2>2. n \in 0 .. n
    BY <2>1
  <2>. QED BY <1>1, <2>1, <2>2
<1>3. r = Run(t, z)
  <2>1. r = Run(t + q[0], q[n] - q[0])
    BY <1>1, StripBytes
  <2>2. t + 0 = t /\ z - 0 = z
    BY <1>2
  <2>. QED BY <1>1, <2>1, <2>2, Zenon
<1>4. Len(r) = z
  BY <1>2, <1>3, RunIs
<1>5. PICK c0, c1, c2 : /\ c0 = ConsumingBuffers(bs) /\ c1 = ConsumeView(c0, i)
                        /\ c2 = ConsumeView(c1, j)
  OBVIOUS
<1>6. PICK p1, p2 : p1 = Less(i, z) /\ p2 = Less(p1 + j, z)
  OBVIOUS
<1>7. p1 \in Nat /\ p1 <= z /\ p2 \in Nat /\ p2 <= z /\ p2 = Less(i + j, z)
  <2>1. p1 \in Nat /\ p1 <= z
    BY <1>2, <1>6, LessFacts
  <2>2. p1 + j \in Nat
    BY <2>1
  <2>3. p2 \in Nat /\ p2 <= z
    BY <1>2, <1>6, <2>2, LessFacts
  <2>4. p2 = Less(i + j, z)
    BY <1>2, <1>6 DEF Less
  <2>. QED BY <2>1, <2>3, <2>4
<1>8. ViewAt(c2, bs, n, q, p2)
  <2>1. ViewAt(c0, bs, n, q, q[0])
    BY <1>5, ViewStart
  <2>2. ViewAt(c1, bs, n, q, Less(q[0] + i, q[n]))
    BY <1>5, <2>1, ConsumeMoves
  <2>3. 0 + i = i
    OBVIOUS
  <2>4. ViewAt(c1, bs, n, q, p1)
    BY <1>1, <1>6, <2>2, <2>3, Zenon
  <2>5. ViewAt(c2, bs, n, q, Less(p1 + j, q[n]))
    BY <1>5, <2>4, ConsumeMoves
  <2>. QED BY <1>1, <1>6, <2>5, Zenon
<1>9. Bytes(mem, InView(c2)) = SubSeq(r, i + j + 1, Len(r))
  <2>1. PICK l, h : Strip(mem, InView(c2), l, h, t) /\ h[0] = p2 /\ h[l] = q[n]
    BY <1>8, InViewStrip
  <2>2. Bytes(mem, InView(c2)) = Run(t + h[0], h[l] - h[0])
    BY <2>1, StripBytes
  <2>3. Bytes(mem, InView(c2)) = Run(t + p2, z - p2)
    BY <1>1, <2>1, <2>2, Zenon
  <2>4. PICK d : d = i + j
    OBVIOUS
  <2>5. d \in Nat
    BY <2>4
  <2>6. SubSeq(Run(t, z), d + 1, z) = Run(t + Less(d, z), z - Less(d, z))
    BY <1>2, <2>5, RunTail
  <2>. QED BY <1>3, <1>4, <1>7, <2>3, <2>4, <2>6, Zenon
<1>10. Bytes(mem, PreparedBuffers(i, bs)) = SubSeq(r, 1, Min({i, Len(r)}))
  <2>1. PICK l, h : Strip(mem, PreparedBuffers(i, bs), l, h, t) /\ h[0] = 0 /\ h[l] = Less(i, q[n])
    BY PreparedStrip
  <2>2. Bytes(mem, PreparedBuffers(i, bs)) = Run(t + h[0], h[l] - h[0])
    BY <2>1, StripBytes
  <2>3. t + 0 = t /\ p1 - 0 = p1
    BY <1>7
  <2>4. Bytes(mem, PreparedBuffers(i, bs)) = Run(t, p1)
    BY <1>1, <1>6, <2>1, <2>2, <2>3, Zenon
  <2>5. SubSeq(Run(t, z), 1, p1) = Run(t, p1)
    BY <1>2, <1>7, RunHead
  <2>6. Min({i, z}) = p1
    <3>1. i \in Int /\ z \in Int
      BY <1>2
    <3>. QED BY <1>6, <3>1, MinPair
  <2>. QED BY <1>3, <1>4, <2>4, <2>5, <2>6, Zenon
<1>. QED BY <1>1, <1>5, <1>9, <1>10, Zenon

LEMMA SeqIs ==
  ASSUME NEW T, NEW w \in Nat, NEW c, c = [i \in 1 .. w |-> c[i]], \A i \in 1 .. w : c[i] \in T
  PROVE  c \in Seq(T) /\ Len(c) = w
OBVIOUS

\* One sequence after another.
LEMMA StripsJoin ==
  ASSUME NEW mem, NEW t \in Int, NEW xs, NEW k, NEW g, Strip(mem, xs, k, g, t),
         NEW bs, NEW l, NEW h, Strip(mem, bs, l, h, t), g[k] = h[0], NEW cs,
         cs = [i \in 1 .. k + l |-> IF i <= k THEN xs[i] ELSE bs[i - k]]
  PROVE  Bytes(mem, cs) = Run(t + g[0], h[l] - g[0])
<1>1. k \in Nat /\ xs \in Seq(Buffers) /\ Len(xs) = k /\ g \in [0 .. k -> Nat]
      /\ \A j \in 1 .. k : HoldsRun(mem, xs[j], t, g[j - 1], g[j])
  BY Zenon DEF Strip
<1>2. l \in Nat /\ bs \in Seq(Buffers) /\ Len(bs) = l /\ h \in [0 .. l -> Nat]
      /\ \A j \in 1 .. l : HoldsRun(mem, bs[j], t, h[j - 1], h[j])
  BY Zenon DEF Strip
<1> DEFINE e == [i \in 0 .. k + l |-> IF i <= k THEN g[i] ELSE h[i - k]]
<1>3. e \in [0 .. k + l -> Nat]
  <2>1. ASSUME NEW i \in 0 .. k + l PROVE (IF i <= k THEN g[i] ELSE h[i - k]) \in Nat
    <3>1. CASE i <= k
      <4>1. i \in 0 .. k
        BY <1>1, <3>1
      <4>. QED BY <1>1, <3>1, <4>1
    <3>2. CASE ~(i <= k)
      <4>1. i - k \in 0 .. l
        BY <1>1, <1>2, <3>2
      <4>. QED BY <1>2, <3>2, <4>1
    <3>. QED BY <3>1, <3>2
  <2>. QED BY <2>1
<1>4. e[0] = g[0] /\ e[k + l] = h[l]
  <2>1. 0 \in 0 .. k + l /\ k + l \in 0 .. k + l /\ 0 <= k /\ (k + l) - k = l
        /\ (k + l <= k => l = 0 /\ k + l = k)
    BY <1>1, <1>2
  <2>2. e[0] = g[0]
    BY <2>1
  <2>3. CASE k + l <= k
    BY <2>1, <2>3
  <2>4. CASE ~(k + l <= k)
    BY <2>1, <2>4
  <2>. QED BY <2>2, <2>3, <2>4
<1>5. ASSUME NEW i \in 1 .. k + l
      PROVE  HoldsRun(mem, cs[i], t, e[i - 1], e[i]) /\ cs[i] \in Buffers
  <2>1. i \in 0 .. k + l /\ i - 1 \in 0 .. k + l
    BY <1>1, <1>2
  <2>2. CASE i <= k
    <3>1. i \in 1 .. k /\ i - 1 <= k
      BY <1>1, <2>2
    <3>2. cs[i] = xs[i] /\ e[i] = g[i] /\ e[i - 1] = g[i - 1]
      BY <2>1, <2>2, <3>1
    <3>. HIDE DEF e
    <3>. QED BY <1>1, <3>1, <3>2, Zenon DEF HoldsRun
  <2>3. CASE ~(i <= k)
    <3>1. i - k \in 1 .. l /\ (i - 1) - k = (i - k) - 1
      BY <1>1, <1>2, <2>3
    <3>2. cs[i] = bs[i - k] /\ e[i] = h[i - k]
      BY <2>1, <2>3
    <3>3. e[i - 1] = h[(i - k) - 1]
      <4>1. CASE i - 1 <= k
        <5>1. i - 1 = k /\ (i - k) - 1 = 0
          BY <1>1, <2>3, <4>1
        <5>2. e[i - 1] = g[i - 1]
          BY <2>1, <4>1
        <5>. HIDE DEF e
        <5>. QED BY <5>1, <5>2, Zenon
      <4>2. CASE ~(i - 1 <= k)
        <5>1. e[i - 1] = h[(i - 1) - k]
          BY <2>1, <4>2
        <5>. HIDE DEF e
        <5>. QED BY <3>1, <5>1, Zenon
      <4>. QED BY <4>1, <4>2
    <3>. HIDE DEF e
    <3>. QED BY <1>2, <3>1, <3>2, <3>3, Zenon DEF HoldsRun
  <2>. QED BY <2>2, <2>3
<1>6. k + l \in Nat
  BY <1>1, <1>2
<1>7. cs \in Seq(Buffers) /\ Len(cs) = k + l
  <2>1. cs = [i \in 1 .. k + l |-> cs[i]]
    OBVIOUS
  <2>2. \A i \in 1 .. k + l : cs[i] \in Buffers
    BY <1>5
  <2>3. PICK w, c : w = k + l /\ c = cs
    OBVIOUS
  <2>4. c = [i \in 1 .. w |-> c[i]] /\ \A i \in 1 .. w : c[i] \in Buffers
    BY <2>1, <2>2, <2>3, Zenon
  <2>5. w \in Nat
    BY <1>6, <2>3, Zenon
  <2>6. c \in Seq(Buffers) /\ Len(c) = w
    BY <2>4, <2>5, SeqIs
  <2>. QED BY <2>3, <2>6, Zenon
<1>. HIDE DEF e
<1>8. Strip(mem, cs, k + l, e, t)
  BY <1>3, <1>5, <1>6, <1>7, Zenon DEF Strip
<1>9. Bytes(mem, cs) = Run(t + e[0], e[k + l] - e[0])
  BY <1>8, StripBytes
<1>. QED BY <1>4, <1>9, Zenon

-----------------------------------------------------------------------------
(* buffer_cat.                                                             *)

LEMMA MinIs ==
  ASSUME NEW S, S \subseteq Int, NEW x \in S, \A y \in S : x <= y PROVE Min(S) = x
<1>1. \A y \in S : (\A w \in S : y <= w) => y = x
  OBVIOUS
<1>. QED BY <1>1, Zenon DEF Min

LEMMA MaxIs ==
  ASSUME NEW S, S \subseteq Int, NEW x \in S, \A y \in S : y <= x PROVE Max(S) = x
<1>1. \A y \in S : (\A w \in S : y >= w) => y = x
  OBVIOUS
<1>2. \A y \in S : x >= y
  OBVIOUS
<1>. QED BY <1>1, <1>2, Zenon DEF Max

\* Two sequences, with empty ones before, between and behind them.
Joined(bss, xs, bs, a, b) ==
  /\ a = Len(xs) /\ b = Len(bs) /\ Len(bss) = 5 /\ bss[1] = << >> /\ bss[2] = xs /\ bss[3] = << >> /\ bss[4] = bs
  /\ bss[5] = << >> /\ xs \in Seq(Buffers) /\ bs \in Seq(Buffers)

\* Where the iterator is after k steps.
CatPlace(k, a, b) == IF k < a THEN [n |-> 2, i |-> k + 1]
                     ELSE IF k < a + b THEN [n |-> 4, i |-> (k - a) + 1]
                     ELSE [n |-> 6, i |-> 1]

LEMMA EmptyIs == ASSUME NEW T, NEW c \in Seq(T) PROVE Len(c) \in Nat /\ (c = << >> <=> Len(c) = 0)
OBVIOUS

LEMMA JoinedFacts ==
  ASSUME NEW bss, NEW xs, NEW bs, NEW a, NEW b, Joined(bss, xs, bs, a, b)
  PROVE  /\ a \in Nat /\ b \in Nat
         /\ \A j \in 1 .. 5 : bss[j] # << >> <=> (j = 2 /\ a # 0) \/ (j = 4 /\ b # 0)
<1>1. xs \in Seq(Buffers) /\ bs \in Seq(Buffers)
  BY Zenon DEF Joined
<1>2. Len(xs) \in Nat /\ (xs = << >> <=> Len(xs) = 0)
  BY <1>1, EmptyIs
<1>3. Len(bs) \in Nat /\ (bs = << >> <=> Len(bs) = 0)
  BY <1>1, EmptyIs
<1>4. a \in Nat /\ b \in Nat /\ (xs # << >> <=> a # 0) /\ (bs # << >> <=> b # 0)
  BY <1>2, <1>3, Zenon DEF Joined
<1>5. ASSUME NEW j \in 1 .. 5
      PROVE  bss[j] # << >> <=> (j = 2 /\ a # 0) \/ (j = 4 /\ b # 0)
  <2>1. j = 1 \/ j = 2 \/ j = 3 \/ j = 4 \/ j = 5
    OBVIOUS
  <2>2. 1 # 2 /\ 1 # 4 /\ 2 # 4 /\ 4 # 2 /\ 3 # 2 /\ 3 # 4 /\ 5 # 2 /\ 5 # 4
    OBVIOUS
  <2>3. /\ bss[1] = << >> /\ bss[2] = xs /\ bss[3] = << >> /\ bss[4] = bs /\ bss[5] = << >>
    BY Zenon DEF Joined
  <2>. QED BY <1>4, <2>1, <2>2, <2>3, Zenon
<1>. QED BY <1>4, <1>5

\* From the beginning of a sequence on.
LEMMA ConstructIs ==
  ASSUME NEW bss, NEW xs, NEW bs, NEW a, NEW b, Joined(bss, xs, bs, a, b)
  PROVE  /\ CatConstruct(bss, 1) = CatPlace(0, a, b)
         /\ CatConstruct(bss, 3) = CatPlace(a, a, b)
         /\ CatConstruct(bss, 5) = CatPlace(a + b, a, b)
         /\ CatEnd(bss) = CatPlace(a + b, a, b)
<1>2. /\ a \in Nat /\ b \in Nat
      /\ \A j \in 1 .. 5 : bss[j] # << >> <=> (j = 2 /\ a # 0) \/ (j = 4 /\ b # 0)
  BY JoinedFacts
<1>3. Len(bss) = 5
  BY DEF Joined
<1>4. CatEnd(bss) = [n |-> 6, i |-> 1]
  BY <1>3 DEF CatEnd
<1>5. CatPlace(a + b, a, b) = [n |-> 6, i |-> 1]
  BY <1>2 DEF CatPlace
<1>6. CatPlace(a, a, b) = IF b # 0 THEN [n |-> 4, i |-> 1] ELSE [n |-> 6, i |-> 1]
  BY <1>2 DEF CatPlace
<1>7. CatPlace(0, a, b) = IF a # 0 THEN [n |-> 2, i |-> 1]
                          ELSE IF b # 0 THEN [n |-> 4, i |-> 1] ELSE [n |-> 6, i |-> 1]
  BY <1>2 DEF CatPlace
<1>8. ASSUME NEW k \in 1 .. 5, NEW x \in k .. 5, bss[x] # << >>,
             \A j \in k .. 5 : bss[j] # << >> => x <= j
      PROVE  CatConstruct(bss, k) = [n |-> x, i |-> 1]
  <2>1. PICK F : F = {j \in k .. 5 : bss[j] # << >>}
    OBVIOUS
  <2>2. F \subseteq Int /\ x \in F /\ \A j \in F : x <= j
    BY <1>8, <2>1
  <2>3. Min(F) = x
    BY <2>2, MinIs
  <2>4. F # {}
    BY <2>2
  <2>. QED BY <1>3, <2>1, <2>3, <2>4, Zenon DEF CatConstruct
<1>9. ASSUME NEW k \in 1 .. 5, \A j \in k .. 5 : bss[j] = << >>
      PROVE  CatConstruct(bss, k) = [n |-> 6, i |-> 1]
  <2>1. {j \in k .. 5 : bss[j] # << >>} = {}
    BY <1>9, Zenon
  <2>. QED BY <1>3, <1>4, <2>1, Zenon DEF CatConstruct
<1>10. CatConstruct(bss, 5) = [n |-> 6, i |-> 1]
  <2>1. 5 \in 1 .. 5 /\ \A j \in 5 .. 5 : j = 5
    OBVIOUS
  <2>2. \A j \in 5 .. 5 : bss[j] = << >>
    BY <2>1, Zenon DEF Joined
  <2>. QED BY <1>9, <2>1, <2>2
<1>11. CatConstruct(bss, 3) = IF b # 0 THEN [n |-> 4, i |-> 1] ELSE [n |-> 6, i |-> 1]
  <2>0. 3 \in 1 .. 5 /\ 4 \in 3 .. 5 /\ \A j \in 3 .. 5 : j \in 1 .. 5 /\ j # 2
    OBVIOUS
  <2>1. CASE b # 0
    <3>1. bss[4] # << >>
      BY <1>2, <2>1
    <3>2. \A j \in 3 .. 5 : bss[j] # << >> => 4 <= j
      BY <1>2
    <3>3. CatConstruct(bss, 3) = [n |-> 4, i |-> 1]
      BY <1>8, <2>0, <3>1, <3>2
    <3>. QED BY <2>1, <3>3
  <2>2. CASE b = 0
    <3>1. \A j \in 3 .. 5 : bss[j] = << >>
      BY <1>2, <2>0, <2>2
    <3>2. CatConstruct(bss, 3) = [n |-> 6, i |-> 1]
      BY <1>9, <2>0, <3>1
    <3>. QED BY <2>2, <3>2
  <2>. QED BY <2>1, <2>2
<1>12. CatConstruct(bss, 1) = IF a # 0 THEN [n |-> 2, i |-> 1]
                              ELSE IF b # 0 THEN [n |-> 4, i |-> 1] ELSE [n |-> 6, i |-> 1]
  <2>0. 1 \in 1 .. 5 /\ 4 \in 1 .. 5 /\ 2 \in 1 .. 5
    OBVIOUS
  <2>1. CASE a # 0
    <3>1. bss[2] # << >>
      BY <1>2, <2>1
    <3>2. \A j \in 1 .. 5 : bss[j] # << >> => 2 <= j
      BY <1>2
    <3>3. CatConstruct(bss, 1) = [n |-> 2, i |-> 1]
      BY <1>8, <2>0, <3>1, <3>2
    <3>. QED BY <2>1, <3>3
  <2>2. CASE a = 0 /\ b # 0
    <3>1. bss[4] # << >>
      BY <1>2, <2>2
    <3>2. \A j \in 1 .. 5 : bss[j] # << >> => 4 <= j
      BY <1>2, <2>2
    <3>3. CatConstruct(bss, 1) = [n |-> 4, i |-> 1]
      BY <1>8, <2>0, <3>1, <3>2
    <3>. QED BY <2>2, <3>3
  <2>3. CASE a = 0 /\ b = 0
    <3>1. \A j \in 1 .. 5 : bss[j] = << >>
      BY <1>2, <2>3
    <3>2. CatConstruct(bss, 1) = [n |-> 6, i |-> 1]
      BY <1>9, <2>0, <3>1
    <3>. QED BY <2>3, <3>2
  <2>. QED BY <2>1, <2>2, <2>3
<1>13. CatConstruct(bss, 1) = CatPlace(0, a, b)
  BY <1>7, <1>12
<1>14. CatConstruct(bss, 3) = CatPlace(a, a, b)
  BY <1>6, <1>11, Zenon
<1>15. CatConstruct(bss, 5) = CatPlace(a + b, a, b) /\ CatEnd(bss) = CatPlace(a + b, a, b)
  BY <1>4, <1>5, <1>10, Zenon
<1>. QED BY <1>13, <1>14, <1>15, Zenon

\* A step forward, what is met there and the step back.
LEMMA CatSteps ==
  ASSUME NEW bss, NEW xs, NEW bs, NEW a, NEW b, Joined(bss, xs, bs, a, b),
         NEW k \in 1 .. a + b
  PROVE  /\ CatIncrement(bss, CatPlace(k - 1, a, b)) = CatPlace(k, a, b)
         /\ CatDereference(bss, CatPlace(k - 1, a, b)) = IF k <= a THEN xs[k] ELSE bs[k - a]
         /\ CatDecrement(bss, CatPlace(k, a, b)) = CatPlace(k - 1, a, b)
<1>0. \A j \in 1 .. 5 : bss[j] # << >> <=> (j = 2 /\ a # 0) \/ (j = 4 /\ b # 0)
  BY JoinedFacts
<1>1. a \in Nat /\ b \in Nat /\ k \in Nat /\ 1 <= k /\ k <= a + b
  <2>1. a \in Nat /\ b \in Nat
    BY JoinedFacts
  <2>. QED BY <2>1
<1>2. bss[2] = xs /\ bss[4] = bs /\ a = Len(xs) /\ b = Len(bs)
  BY Zenon DEF Joined
<1>3. PICK it : it = CatPlace(k - 1, a, b)
  OBVIOUS
<1>6. PICK nx : nx = CatPlace(k, a, b)
  OBVIOUS
<1>7. ASSUME NEW x \in 1 .. 5, nx.i = 1, x <= nx.n - 1, nx.n \in 1 .. 6, bss[x] # << >>,
             \A j \in 1 .. nx.n - 1 : bss[j] # << >> => j <= x
      PROVE  CatDecrement(bss, nx) = [n |-> x, i |-> Len(bss[x])]
  <2>1. PICK F : F = {j \in 1 .. nx.n - 1 : bss[j] # << >>}
    OBVIOUS
  <2>2. F \subseteq Int /\ x \in F /\ \A j \in F : j <= x
    BY <1>7, <2>1
  <2>3. Max(F) = x
    BY <2>2, MaxIs
  <2>4. ~(nx.i > 1)
    BY <1>7
  <2>. QED BY <2>1, <2>3, <2>4, Zenon DEF CatDecrement
<1>8. CatDecrement(bss, nx) = it
  <2>1. CASE k < a
    <3>1. nx = [n |-> 2, i |-> k + 1]
      BY <1>6, <2>1 DEF CatPlace
    <3>2. nx.i > 1 /\ (k + 1) - 1 = k /\ nx.i = k + 1
      BY <3>1
    <3>3. [nx EXCEPT !.i = @ - 1] = [n |-> 2, i |-> k]
      BY <3>1, <3>2
    <3>4. it = [n |-> 2, i |-> k]
      <4>1. k - 1 < a /\ (k - 1) + 1 = k
        BY <1>1, <2>1
      <4>. QED BY <1>3, <4>1, Zenon DEF CatPlace
    <3>. QED BY <3>2, <3>3, <3>4, Zenon DEF CatDecrement
  <2>2. CASE k = a
    <3>1. it = [n |-> 2, i |-> k]
      <4>1. k - 1 < a /\ (k - 1) + 1 = k
        BY <1>1, <2>2
      <4>. QED BY <1>3, <4>1, Zenon DEF CatPlace
    <3>2. nx.i = 1 /\ nx.n \in {4, 6} /\ (nx.n = 6 => b = 0)
      <4>1. CASE b = 0
        <5>1. nx = [n |-> 6, i |-> 1]
          BY <1>1, <1>6, <2>2, <4>1 DEF CatPlace
        <5>. QED BY <4>1, <5>1
      <4>2. CASE b # 0
        <5>1. nx = [n |-> 4, i |-> 1]
          BY <1>1, <1>6, <2>2, <4>2 DEF CatPlace
        <5>. QED BY <5>1
      <4>. QED BY <4>1, <4>2
    <3>3. a # 0 /\ 2 \in 1 .. 5 /\ 2 <= nx.n - 1 /\ nx.n \in 1 .. 6
      BY <1>1, <2>2, <3>2
    <3>4. bss[2] # << >>
      BY <1>0, <1>1, <3>3
    <3>5. \A j \in 1 .. nx.n - 1 : bss[j] # << >> => j <= 2
      BY <1>0, <1>1, <3>2
    <3>6. CatDecrement(bss, nx) = [n |-> 2, i |-> Len(bss[2])]
      BY <1>7, <3>2, <3>3, <3>4, <3>5
    <3>. QED BY <1>2, <2>2, <3>1, <3>6, Zenon
  <2>3. CASE a < k /\ k < a + b
    <3>1. nx = [n |-> 4, i |-> (k - a) + 1]
      BY <1>1, <1>6, <2>3 DEF CatPlace
    <3>2. nx.i > 1 /\ nx.i = (k - a) + 1
      BY <1>1, <2>3, <3>1
    <3>3. [nx EXCEPT !.i = @ - 1] = [n |-> 4, i |-> k - a]
      <4>1. ((k - a) + 1) - 1 = k - a
        BY <1>1
      <4>. QED BY <3>1, <4>1
    <3>4. it = [n |-> 4, i |-> k - a]
      <4>1. ~(k - 1 < a) /\ k - 1 < a + b /\ ((k - 1) - a) + 1 = k - a
        BY <1>1, <2>3
      <4>. QED BY <1>3, <4>1, Zenon DEF CatPlace
    <3>. QED BY <3>2, <3>3, <3>4, Zenon DEF CatDecrement
  <2>4. CASE a < k /\ k = a + b
    <3>1. nx = [n |-> 6, i |-> 1]
      BY <1>1, <1>6, <2>4 DEF CatPlace
    <3>2. b # 0 /\ k - a = b
      BY <1>1, <2>4
    <3>3. it = [n |-> 4, i |-> b]
      <4>1. ~(k - 1 < a) /\ k - 1 < a + b /\ ((k - 1) - a) + 1 = b
        BY <1>1, <2>4
      <4>. QED BY <1>3, <4>1, Zenon DEF CatPlace
    <3>4. nx.i = 1 /\ nx.n = 6 /\ 4 \in 1 .. 5 /\ 4 <= nx.n - 1 /\ nx.n \in 1 .. 6
      BY <3>1
    <3>5. bss[4] # << >>
      BY <1>0, <1>1, <3>2
    <3>6. \A j \in 1 .. nx.n - 1 : bss[j] # << >> => j <= 4
      BY <1>0, <1>1, <3>4
    <3>7. CatDecrement(bss, nx) = [n |-> 4, i |-> Len(bss[4])]
      BY <1>7, <3>4, <3>5, <3>6
    <3>. QED BY <1>2, <3>3, <3>7, Zenon
  <2>. QED BY <1>1, <2>1, <2>2, <2>3, <2>4
<1>9. /\ CatConstruct(bss, 1) = CatPlace(0, a, b)
      /\ CatConstruct(bss, 3) = CatPlace(a, a, b)
      /\ CatConstruct(bss, 5) = CatPlace(a + b, a, b)
      /\ CatEnd(bss) = CatPlace(a + b, a, b)
  BY ConstructIs
<1>4. CASE k <= a
  <2>1. it = [n |-> 2, i |-> k]
    <3>1. k - 1 < a /\ (k - 1) + 1 = k
      BY <1>1, <1>4
    <3>. QED BY <1>3, <3>1, Zenon DEF CatPlace
  <2>2. it.n = 2 /\ it.i = k
    BY <2>1
  <2>3. CatDereference(bss, it) = xs[k]
    BY <1>2, <2>2, Zenon DEF CatDereference
  <2>4. CatIncrement(bss, it) = CatPlace(k, a, b)
    <3>1. CASE k < a
      <4>1. it.i < Len(bss[it.n])
        BY <1>2, <2>2, <3>1, Zenon
      <4>2. [it EXCEPT !.i = @ + 1] = [n |-> 2, i |-> k + 1]
        BY <2>1
      <4>. QED BY <3>1, <4>1, <4>2, Zenon DEF CatIncrement, CatPlace
    <3>2. CASE ~(k < a)
      <4>0. k = a
        BY <1>1, <1>4, <3>2
      <4>1. k = a /\ ~(it.i < Len(bss[it.n]))
        BY <1>2, <2>2, <3>2, <4>0, Zenon
      <4>2. it.n + 1 = 3
        BY <2>2
      <4>3. CatIncrement(bss, it) = CatConstruct(bss, 3)
        BY <4>1, <4>2, Zenon DEF CatIncrement
      <4>4. CatConstruct(bss, 3) = CatPlace(a, a, b)
        BY <1>9, Zenon
      <4>. QED BY <4>1, <4>3, <4>4, Zenon
    <3>. QED BY <3>1, <3>2
  <2>. QED BY <1>3, <1>4, <1>6, <1>8, <2>3, <2>4, Zenon
<1>5. CASE ~(k <= a)
  <2>1. it = [n |-> 4, i |-> k - a]
    <3>1. ~(k - 1 < a) /\ k - 1 < a + b /\ ((k - 1) - a) + 1 = k - a
      BY <1>1, <1>5
    <3>. QED BY <1>3, <3>1, Zenon DEF CatPlace
  <2>2. it.n = 4 /\ it.i = k - a
    BY <2>1
  <2>3. CatDereference(bss, it) = bs[k - a]
    BY <1>2, <2>2, Zenon DEF CatDereference
  <2>4. CatIncrement(bss, it) = CatPlace(k, a, b)
    <3>1. CASE k - a < b
      <4>1. it.i < Len(bss[it.n])
        BY <1>2, <2>2, <3>1, Zenon
      <4>2. [it EXCEPT !.i = @ + 1] = [n |-> 4, i |-> (k - a) + 1]
        BY <2>1
      <4>3. ~(k < a) /\ k < a + b
        BY <1>1, <1>5, <3>1
      <4>. QED BY <4>1, <4>2, <4>3, Zenon DEF CatIncrement, CatPlace
    <3>2. CASE ~(k - a < b)
      <4>1. k = a + b
        BY <1>1, <3>2
      <4>0. it.n + 1 = 5
        BY <2>2
      <4>2. it.n + 1 = 5 /\ ~(it.i < Len(bss[it.n]))
        BY <1>2, <2>2, <3>2, <4>0, Zenon
      <4>3. CatIncrement(bss, it) = CatConstruct(bss, 5)
        BY <4>2, Zenon DEF CatIncrement
      <4>4. CatConstruct(bss, 5) = CatPlace(a + b, a, b)
        BY <1>9, Zenon
      <4>. QED BY <4>1, <4>3, <4>4, Zenon
    <3>. QED BY <3>1, <3>2
  <2>. QED BY <1>3, <1>5, <1>6, <1>8, <2>3, <2>4, Zenon
<1>. QED BY <1>4, <1>5

LEMMA PlacesDiffer ==
  ASSUME NEW a \in Nat, NEW b \in Nat, NEW j \in 0 .. a + b, NEW k \in 0 .. a + b,
         CatEqual(CatPlace(j, a, b), CatPlace(k, a, b))
  PROVE  j = k
<1>1. PICK u, v : u = CatPlace(j, a, b) /\ v = CatPlace(k, a, b)
  OBVIOUS
<1>2. u.n = v.n /\ u.i = v.i
  BY <1>1, Zenon DEF CatEqual
<1>3. \/ j < a /\ u.n = 2 /\ u.i = j + 1
      \/ ~(j < a) /\ j < a + b /\ u.n = 4 /\ u.i = (j - a) + 1
      \/ j = a + b /\ u.n = 6 /\ u.i = 1
  BY <1>1 DEF CatPlace
<1>4. \/ k < a /\ v.n = 2 /\ v.i = k + 1
      \/ ~(k < a) /\ k < a + b /\ v.n = 4 /\ v.i = (k - a) + 1
      \/ k = a + b /\ v.n = 6 /\ v.i = 1
  BY <1>1 DEF CatPlace
<1>. QED BY <1>2, <1>3, <1>4

\* The steps of the iterator from begin() on.
CatWalk(bss, n, w) ==
  w = [k \in 0 .. n |-> IF k = 0 THEN CatConstruct(bss, 1) ELSE CatIncrement(bss, w[k - 1])]

LEMMA CatWalks ==
  ASSUME NEW bss, NEW xs, NEW bs, NEW a, NEW b, Joined(bss, xs, bs, a, b), NEW walk,
         CatWalk(bss, a + b, walk)
  PROVE  \A k \in 0 .. a + b : walk[k] = CatPlace(k, a, b)
<1>1. a \in Nat /\ b \in Nat
  BY JoinedFacts
<1>2. ASSUME NEW k \in 0 .. a + b
      PROVE  walk[k] = IF k = 0 THEN CatConstruct(bss, 1) ELSE CatIncrement(bss, walk[k - 1])
  BY <1>2, Zenon DEF CatWalk
<1>3. CatConstruct(bss, 1) = CatPlace(0, a, b)
  BY ConstructIs
<1>4. ASSUME NEW k \in 1 .. a + b
      PROVE  CatIncrement(bss, CatPlace(k - 1, a, b)) = CatPlace(k, a, b)
  BY CatSteps
<1> DEFINE S == {k \in Nat : k <= a + b => walk[k] = CatPlace(k, a, b)}
<1>5. 0 \in S
  <2>1. 0 \in 0 .. a + b
    BY <1>1
  <2>2. walk[0] = CatPlace(0, a, b)
    BY <1>2, <1>3, <2>1
  <2>. QED BY <2>2
<1>6. ASSUME NEW k \in Nat, k \in S PROVE k + 1 \in S
  <2>. SUFFICES ASSUME k + 1 <= a + b PROVE walk[k + 1] = CatPlace(k + 1, a, b)
    OBVIOUS
  <2>1. k + 1 \in 0 .. a + b /\ k + 1 \in 1 .. a + b /\ k + 1 # 0 /\ (k + 1) - 1 = k /\ k <= a + b
    BY <1>1
  <2>2. walk[k] = CatPlace(k, a, b)
    BY <1>6, <2>1
  <2>3. walk[k + 1] = CatIncrement(bss, walk[(k + 1) - 1])
    BY <1>2, <2>1, Zenon
  <2>4. CatIncrement(bss, CatPlace((k + 1) - 1, a, b)) = CatPlace(k + 1, a, b)
    BY <1>4, <2>1, Zenon
  <2>. QED BY <2>1, <2>2, <2>3, <2>4, Zenon
<1>7. \A k \in Nat : k \in S
  <2>. HIDE DEF S
  <2>. QED BY <1>5, <1>6, NatSetInduction
<1>8. ASSUME NEW k \in 0 .. a + b PROVE k \in Nat /\ k <= a + b
  BY <1>1
<1>. QED BY <1>7, <1>8, Zenon

\* The n steps of the iterator meet the bytes r, can be undone and differ.
GoesThrough(mem, bss, n, r) ==
  LET w == CHOOSE w : CatWalk(bss, n, w)
  IN  /\ w[n] = CatEnd(bss)
      /\ Bytes(mem, [k \in 1 .. n |-> CatDereference(bss, w[k - 1])]) = r
      /\ \A k \in 1 .. n : CatEqual(CatDecrement(bss, w[k]), w[k - 1])
      /\ \A j, k \in 0 .. n : CatEqual(w[j], w[k]) => j = k

\* Going through a buffer_cat of two sequences that continue one another.
LEMMA CatHolds ==
  ASSUME NEW mem, NEW t \in Int, NEW xs, NEW a, NEW g, Strip(mem, xs, a, g, t), g[0] = 0,
         NEW bs, NEW b, NEW h, Strip(mem, bs, b, h, t), g[a] = h[0],
         NEW bss, bss = << << >>, xs, << >>, bs, << >> >>
  PROVE  GoesThrough(mem, bss, Len(bss[2]) + Len(bss[4]), Run(t, h[b]))
<1>2. Joined(bss, xs, bs, a, b)
  <2>1. xs \in Seq(Buffers) /\ bs \in Seq(Buffers) /\ Len(xs) = a /\ Len(bs) = b
    BY Zenon DEF Strip
  <2>2. /\ Len(bss) = 5 /\ bss[1] = << >> /\ bss[2] = xs /\ bss[3] = << >> /\ bss[4] = bs
        /\ bss[5] = << >>
    OBVIOUS
  <2>. QED BY <2>1, <2>2, Zenon DEF Joined
<1>3. a \in Nat /\ b \in Nat
  BY <1>2, JoinedFacts
<1>4. Len(bss[2]) + Len(bss[4]) = a + b
  BY <1>2, Zenon DEF Joined
<1> DEFINE walk == CHOOSE w : CatWalk(bss, a + b, w)
           p == [k \in 0 .. a + b |-> CatPlace(k, a, b)]
<1>5. ASSUME NEW k \in 1 .. a + b
      PROVE  /\ CatIncrement(bss, CatPlace(k - 1, a, b)) = CatPlace(k, a, b)
             /\ CatDereference(bss, CatPlace(k - 1, a, b)) = (IF k <= a THEN xs[k] ELSE bs[k - a])
             /\ CatDecrement(bss, CatPlace(k, a, b)) = CatPlace(k - 1, a, b)
  BY <1>2, CatSteps
<1>6. /\ CatConstruct(bss, 1) = CatPlace(0, a, b)
      /\ CatEnd(bss) = CatPlace(a + b, a, b)
  BY <1>2, ConstructIs
<1>7. CatWalk(bss, a + b, p)
  <2>1. ASSUME NEW k \in 0 .. a + b
        PROVE  CatPlace(k, a, b) = IF k = 0 THEN CatConstruct(bss, 1)
                                   ELSE CatIncrement(bss, p[k - 1])
    <3>1. CASE k = 0
      BY <1>6, <3>1, Zenon
    <3>2. CASE k # 0
      <4>1. k \in 1 .. a + b /\ k - 1 \in 0 .. a + b
        BY <1>3, <3>2
      <4>2. p[k - 1] = CatPlace(k - 1, a, b)
        BY <4>1
      <4>. HIDE DEF p
      <4>. QED BY <1>5, <3>2, <4>1, <4>2, Zenon
    <3>. QED BY <3>1, <3>2
  <2>2. PICK r : r = p
    OBVIOUS
  <2>3. r = [k \in 0 .. a + b |-> CatPlace(k, a, b)]
    BY <2>2
  <2>4. \A k \in 0 .. a + b : CatPlace(k, a, b) = IF k = 0 THEN CatConstruct(bss, 1)
                                                  ELSE CatIncrement(bss, r[k - 1])
    <3>. HIDE DEF p
    <3>. QED BY <2>1, <2>2, Zenon
  <2>5. CatWalk(bss, a + b, r)
    BY <2>3, <2>4, Zenon DEF CatWalk
  <2>. HIDE DEF p
  <2>. QED BY <2>2, <2>5, Zenon
<1>8. CatWalk(bss, a + b, walk)
  <2>. HIDE DEF p
  <2>. QED BY <1>7, Zenon
<1>. HIDE DEF walk, p
<1>9. \A k \in 0 .. a + b : walk[k] = CatPlace(k, a, b)
  BY <1>2, <1>8, CatWalks
<1>10. ASSUME NEW k \in 1 .. a + b
       PROVE  k \in 0 .. a + b /\ k - 1 \in 0 .. a + b
  BY <1>3
<1>11. walk[a + b] = CatEnd(bss)
  <2>1. a + b \in 0 .. a + b
    BY <1>3
  <2>. QED BY <1>6, <1>9, <2>1, Zenon
<1>12. \A k \in 1 .. a + b : CatEqual(CatDecrement(bss, walk[k]), walk[k - 1])
  BY <1>5, <1>9, <1>10, Zenon DEF CatEqual
<1>13. \A j, k \in 0 .. a + b : CatEqual(walk[j], walk[k]) => j = k
  <2>. SUFFICES ASSUME NEW j \in 0 .. a + b, NEW k \in 0 .. a + b, CatEqual(walk[j], walk[k])
                PROVE  j = k
    BY Zenon
  <2>1. CatEqual(CatPlace(j, a, b), CatPlace(k, a, b))
    BY <1>9, Zenon
  <2>. QED BY <1>3, <2>1, PlacesDiffer
<1>14. Bytes(mem, [k \in 1 .. a + b |-> CatDereference(bss, walk[k - 1])]) = Run(t, h[b])
  <2>1. PICK cs : cs = [k \in 1 .. a + b |-> IF k <= a THEN xs[k] ELSE bs[k - a]]
    OBVIOUS
  <2>2. \A k \in 1 .. a + b :
          CatDereference(bss, walk[k - 1]) = IF k <= a THEN xs[k] ELSE bs[k - a]
    BY <1>5, <1>9, <1>10, Zenon
  <2>3. [k \in 1 .. a + b |-> CatDereference(bss, walk[k - 1])] = cs
    BY <2>1, <2>2, Zenon
  <2>4. Bytes(mem, cs) = Run(t + g[0], h[b] - g[0])
    BY <2>1, StripsJoin
  <2>5. h[b] \in Nat
    <3>1. b \in 0 .. b /\ \A j \in 0 .. b : h[j] \in Nat
      BY <1>3, StripOrder
    <3>. QED BY <3>1
  <2>6. t + 0 = t /\ h[b] - 0 = h[b]
    BY <2>5
  <2>. QED BY <2>3, <2>4, <2>6, Zenon
<1>15. GoesThrough(mem, bss, a + b, Run(t, h[b]))
  BY <1>11, <1>12, <1>13, <1>14, Zenon DEF GoesThrough, walk
<1>. QED BY <1>4, <1>15, Zenon

LEMMA ViewsFollow == ReadInv => ViewsAreExact
<1>. SUFFICES ASSUME ReadInv PROVE ViewsAreExact
  OBVIOUS
<1>1. Agrees(buf, count, taken, left)
  BY Zenon DEF ReadInv, BufInv
<1>2. PICK s, m : s = StartOf(buf) /\ m = MidOf(buf)
  OBVIOUS
<1>3. /\ Good(buf) /\ taken \in Nat /\ Known(buf.mem, s, m - s, taken)
  BY <1>1, <1>2, AgreesIs
<1>4. Shows(buf.mem, Data, s, m)
  BY <1>2, <1>3, GoodShows DEF Data
<1>5. PICK mem, data, t : mem = buf.mem /\ data = Data /\ t = taken
  OBVIOUS
<1>6. t \in Int
  BY <1>3, <1>5
<1>7. PICK n, q : Strip(mem, data, n, q, t) /\ q[0] = 0 /\ q[n] = m - s
  BY <1>3, <1>4, <1>5, <1>6, ShowsStrip
<1>8. \A i \in 0 .. MaxArg : i \in Nat
  BY BufsAssumption
<1>9. SlicesAreExact
  <2>1. \A i, j \in 0 .. MaxArg :
         /\ Bytes(mem, InView(ConsumeView(ConsumeView(ConsumingBuffers(data), i), j)))
              = SubSeq(Bytes(mem, data), i + j + 1, Len(Bytes(mem, data)))
         /\ Bytes(mem, PreparedBuffers(i, data))
              = SubSeq(Bytes(mem, data), 1, Min({i, Len(Bytes(mem, data))}))
    BY <1>6, <1>7, <1>8, SliceBytes
  <2>. QED BY <1>5, <2>1, Zenon DEF SlicesAreExact
<1>10. Bytes(mem, data) = Run(t, q[n])
  <2>1. Bytes(mem, data) = Run(t + q[0], q[n] - q[0])
    BY <1>6, <1>7, StripBytes
  <2>2. q[n] \in Nat
    <3>1. n \in Nat /\ \A j \in 0 .. n : q[j] \in Nat
      BY <1>7, StripOrder
    <3>2. n \in 0 .. n
      BY <3>1
    <3>. QED BY <3>1, <3>2
  <2>3. t + 0 = t /\ q[n] - 0 = q[n]
    BY <1>6, <2>2
  <2>. QED BY <1>7, <2>1, <2>3, Zenon
<1>11. CatIsWhole
  <2>1. ASSUME NEW i \in 0 .. MaxArg
        PROVE  LET bss == << << >>, PreparedBuffers(i, data), << >>,
                             InView(ConsumeView(ConsumingBuffers(data), i)), << >> >>
               IN  GoesThrough(mem, bss, Len(bss[2]) + Len(bss[4]), Bytes(mem, data))
    <3>1. i \in Nat
      BY <1>8
    <3>2. PICK xs, bs, c : /\ xs = PreparedBuffers(i, data) /\ c = ConsumeView(ConsumingBuffers(data), i)
                           /\ bs = InView(c)
      OBVIOUS
    <3>3. PICK a, g : Strip(mem, xs, a, g, t) /\ g[0] = 0 /\ g[a] = Less(i, q[n])
      BY <1>6, <1>7, <3>1, <3>2, PreparedStrip
    <3>4. ViewAt(c, data, n, q, Less(i, q[n]))
      <4>1. ViewAt(ConsumingBuffers(data), data, n, q, q[0])
        BY <1>7, ViewStart
      <4>2. ViewAt(c, data, n, q, Less(q[0] + i, q[n]))
        BY <1>7, <3>1, <3>2, <4>1, ConsumeMoves
      <4>3. 0 + i = i
        BY <3>1
      <4>. QED BY <1>7, <4>2, <4>3, Zenon
    <3>5. PICK b, h : Strip(mem, bs, b, h, t) /\ h[0] = Less(i, q[n]) /\ h[b] = q[n]
      BY <1>6, <1>7, <3>2, <3>4, InViewStrip
    <3>6. g[a] = h[0]
      BY <3>3, <3>5, Zenon
    <3>7. PICK bss : bss = << << >>, xs, << >>, bs, << >> >>
      OBVIOUS
    <3>9. GoesThrough(mem, bss, Len(bss[2]) + Len(bss[4]), Run(t, h[b]))
      BY <1>6, <3>3, <3>5, <3>6, <3>7, CatHolds
    <3>8. Bytes(mem, data) = Run(t, h[b])
      BY <1>10, <3>5, Zenon
    <3>. QED BY <3>2, <3>7, <3>8, <3>9, Zenon
  <2>2. \A i \in 0 .. MaxArg :
          LET bss == << << >>, PreparedBuffers(i, Data), << >>,
                        InView(ConsumeView(ConsumingBuffers(Data), i)), << >> >>
          IN  GoesThrough(buf.mem, bss, Len(bss[2]) + Len(bss[4]), Bytes(buf.mem, Data))
    BY <1>5, <2>1, Zenon
  <2>. QED BY <2>2, Zenon DEF CatIsWhole, GoesThrough, CatWalk
<1>. QED BY <1>9, <1>11, Zenon DEF ViewsAreExact

-----------------------------------------------------------------------------
(* What holds of Toolkit.                                                  *)

\* The parts of Toolkit share no state.
LEMMA BuffersPart == [ToolkitNext]_toolvars => [StreamNext]_svars
BY DEF ToolkitNext, toolvars

\* Whatever calls the owner of a basic_streambuf, a static_streambuf or a
\* buffers_adapter makes, in any order and with any arguments, and whatever a
\* dynabuf_readstream over it reads in between: the blocks are cut where the
\* positions say, every byte of the input sequence and of the output sequence
\* last prepared is the one the stream has there, and a read under way finds the
\* buffer as it left it.
THEOREM BuffersInvariance == ToolkitSpec => []ReadInv
<1>1. ToolkitInit => ReadInv
  BY ReadInvInit DEF ToolkitInit
<1>2. ReadInv /\ [StreamNext]_svars => ReadInv'
  BY ReadInvStep
<1>. QED BY <1>1, <1>2, BuffersPart, PTL DEF ToolkitSpec

\* data() is what was committed and not consumed, byte for byte, size() counts
\* it, and the output sequence has the size prepare() was asked for less what
\* was committed of it (basic_streambuf, static_streambuf, buffers_adapter),
\* for all allocation sizes, block sizes and arguments, whether or not a call
\* in between threw.
THEOREM BooksAreKept == ToolkitSpec => []BooksAgree
BY BuffersInvariance, BooksFollow, PTL

\* What debug_check() asserts holds after every operation; capacity() is the
\* room a basic_streambuf has without an allocation, read_size_helper asks for
\* at least a byte, and max_size() of a buffers_adapter is the room left in it.
THEOREM StorageExact == ToolkitSpec => []StorageIsExact
BY BuffersInvariance, StorageFollows, PTL

\* read_some and async_read_some of a dynabuf_readstream return the next bytes
\* of the stream, from the buffer or past it, for every capacity_ and every
\* size of the caller's buffers, and at least one if there is room for one.
THEOREM ReadsAreNext == ToolkitSpec => []ReadIsNext
<1>1. ReadInv => ReadIsNext
  BY DEF ReadInv
<1>. QED BY <1>1, BuffersInvariance, PTL

\* A consuming_buffers over data() shows what its calls have not dropped, a
\* prepare_buffers the bytes up to its limit, and a buffer_cat of the two, with
\* empty sequences around them, every byte once and in order, each step back
\* undoing the step before it; for every layout of the blocks, also when a call
\* drops or keeps more than there is.
THEOREM ViewsExact == ToolkitSpec => []ViewsAreExact
BY BuffersInvariance, ViewsFollow, PTL

=============================================================================
