--------------------------- MODULE ToolkitProofs ----------------------------
(***************************************************************************)
(* Proofs about the parts of Toolkit: the loop of the stream tests         *)
(* (TestStreams), for every script of operations, every string and every   *)
(* limit above the length of the script; static_string (StaticString), for *)
(* every pair of capacities and every set of characters; the test          *)
(* framework (UnitTest), for any suites, patterns and set of threads; and  *)
(* the containers of header fields (HttpHeaders), for any number of        *)
(* elements on the heap.                                                   *)
(***************************************************************************)
EXTENDS Toolkit, InductionLemmas, SequenceTheorems, FiniteSetTheorems, WellFoundedInduction, TLAPS

-----------------------------------------------------------------------------
(* The parts of Toolkit share no state: a step of it is one of theirs.     *)

LEMMA StreamsPart == [ToolkitNext]_toolvars => [StreamsNext]_tsvars
BY DEF ToolkitNext, toolvars

-----------------------------------------------------------------------------
(* The loop of the stream tests.                                           *)

LEMMA MinIs ==
  ASSUME NEW a \in Nat, NEW b \in Nat PROVE Min({a, b}) = IF a <= b THEN a ELSE b
<1>. DEFINE m == IF a <= b THEN a ELSE b
<1>1. m \in {a, b} /\ \A y \in {a, b} : m <= y
  OBVIOUS
<1>2. ASSUME NEW x \in {a, b}, \A y \in {a, b} : x <= y PROVE x = m
  BY <1>2
<1>. QED BY <1>1, <1>2 DEF Min

LEMMA MinOfPair ==
  ASSUME NEW a \in Nat, NEW b \in Nat
  PROVE  Min({a, b}) \in Nat /\ Min({a, b}) <= a /\ Min({a, b}) <= b
BY MinIs

\* What a read of op leaves of x octets.
LeavesOf(op, x) == x - (IF op.what = "read" THEN Min({op.room, x}) ELSE 0)

LEMMA LeavesNat == ASSUME NEW op \in Operation, NEW x \in Nat PROVE LeavesOf(op, x) \in Nat
<1>1. op.room \in Nat
  BY DEF Operation
<1>. DEFINE r == op.room
<1>2. r \in Nat
  BY <1>1
<1>. HIDE DEF r
<1>3. Min({r, x}) \in Nat /\ Min({r, x}) <= x
  BY <1>2, MinOfPair
<1>. DEFINE m == Min({r, x})
<1>4. m \in Nat /\ m <= x
  BY <1>3
<1>5. LeavesOf(op, x) = x - (IF op.what = "read" THEN m ELSE 0)
  BY DEF LeavesOf, r
<1>. HIDE DEF m
<1>. QED BY <1>4, <1>5

LEMMA ScriptIs ==
  ASSUME NEW sc \in Scripts
  PROVE  /\ sc \in Seq(Operation) /\ Len(sc) \in Nat /\ Len(sc) > 0 /\ Len(sc) + 1 < Limit
         /\ DOMAIN sc = 1 .. Len(sc) /\ \A k \in 1 .. Len(sc) : sc[k] \in Operation
BY StreamsAssumption, LenProperties, ElementOfSeq

\* g is the function LeftAfter defines.
IsLeft(g, sc) ==
  /\ g \in [0 .. Len(sc) -> Nat] /\ g[0] = Len(Text)
  /\ \A k \in 1 .. Len(sc) : g[k] = LeavesOf(sc[k], g[k - 1])

LEMMA LeftExists == ASSUME NEW sc \in Scripts PROVE \E g : IsLeft(g, sc)
<1> DEFINE n == Len(sc)
           F == [i \in 1 .. n |-> [x \in Nat |-> LeavesOf(sc[i], x)]]
           t == Len(Text)
<1>0. n \in Nat /\ t \in Nat /\ \A i \in 1 .. n : sc[i] \in Operation
  BY ScriptIs, StreamsAssumption, LenProperties
<1>1. \A i \in 1 .. n : \A x \in Nat : F[i][x] = LeavesOf(sc[i], x) /\ F[i][x] \in Nat
  BY <1>0, LeavesNat
<1>. HIDE DEF F, n, t
<1>2. PICK g : g \in Runs(Nat, t, n, F)
  BY <1>0, <1>1, Recursion
<1>3. g \in [0 .. n -> Nat] /\ g[0] = t /\ \A i \in 1 .. n : g[i] = F[i][g[i - 1]]
  BY <1>2 DEF Runs
<1>4. ASSUME NEW i \in 1 .. n PROVE g[i] = LeavesOf(sc[i], g[i - 1])
  <2>1. g[i - 1] \in Nat
    BY <1>0, <1>3
  <2>. QED BY <1>1, <1>3, <2>1
<1>5. IsLeft(g, sc)
  BY <1>3, <1>4 DEF IsLeft, n, t
<1>. QED BY <1>5

LEMMA LeftIs == ASSUME NEW sc \in Scripts PROVE IsLeft(LeftAfter(sc), sc)
<1>. DEFINE Body(g) == [k \in 0 .. Len(sc) |->
              IF k = 0 THEN Len(Text)
              ELSE g[k - 1] - IF sc[k].what = "read" THEN Min({sc[k].room, g[k - 1]}) ELSE 0]
            P(g) == g = Body(g)
            a == CHOOSE g : P(g)
<1>1. LeftAfter(sc) = a
  BY DEF LeftAfter
<1>2. Len(sc) \in Nat /\ Len(Text) \in Nat /\ \A i \in 1 .. Len(sc) : sc[i] \in Operation
  BY ScriptIs, StreamsAssumption, LenProperties
<1>3. ASSUME NEW g, IsLeft(g, sc) PROVE P(g)
  <2>1. g = [k \in 0 .. Len(sc) |-> g[k]]
    BY <1>3 DEF IsLeft
  <2>2. ASSUME NEW k \in 0 .. Len(sc) PROVE g[k] = Body(g)[k]
    <3>1. CASE k = 0
      BY <1>3, <3>1 DEF IsLeft
    <3>2. CASE k # 0
      <4>1. k \in 1 .. Len(sc)
        BY <1>2, <3>2
      <4>2. g[k] = LeavesOf(sc[k], g[k - 1])
        BY <1>3, <4>1 DEF IsLeft
      <4>. QED BY <3>2, <4>2 DEF LeavesOf
    <3>. QED BY <3>1, <3>2
  <2>3. Body(g) = [k \in 0 .. Len(sc) |-> Body(g)[k]]
    OBVIOUS
  <2>. HIDE DEF Body
  <2>. QED BY <2>1, <2>2, <2>3
<1>4. P(a)
  <2>1. \E g : P(g)
    <3>. HIDE DEF P
    <3>. QED BY <1>3, LeftExists
  <2>. HIDE DEF P
  <2>. QED BY <2>1, Zenon
<1>5. ASSUME NEW g, P(g) PROVE IsLeft(g, sc)
  <2>1. DOMAIN g = 0 .. Len(sc) /\ g[0] = Len(Text) /\ g = [k \in 0 .. Len(sc) |-> g[k]]
    BY <1>2, <1>5
  <2>2. ASSUME NEW k \in 1 .. Len(sc) PROVE g[k] = LeavesOf(sc[k], g[k - 1])
    <3>1. k \in 0 .. Len(sc) /\ k # 0
      BY <1>2
    <3>2. g[k] = Body(g)[k]
      BY <1>5
    <3>. QED BY <3>1, <3>2 DEF LeavesOf
  <2>. HIDE DEF P, Body
  <2>. DEFINE D == {k \in Nat : k <= Len(sc) => g[k] \in Nat}
  <2>3. 0 \in D
    BY <1>2, <2>1
  <2>4. ASSUME NEW k \in Nat, k \in D PROVE k + 1 \in D
    <3>. SUFFICES ASSUME k + 1 <= Len(sc) PROVE g[k + 1] \in Nat
      OBVIOUS
    <3>1. k + 1 \in 1 .. Len(sc) /\ (k + 1) - 1 = k /\ g[k] \in Nat
      BY <1>2, <2>4
    <3>2. g[k + 1] = LeavesOf(sc[k + 1], g[k])
      BY <2>2, <3>1
    <3>3. sc[k + 1] \in Operation
      BY <1>2, <3>1
    <3>. QED BY <3>1, <3>2, <3>3, LeavesNat
  <2>5. \A k \in Nat : k \in D
    <3>. HIDE DEF D
    <3>. QED BY <2>3, <2>4, NatSetInduction
  <2>6. \A k \in 0 .. Len(sc) : g[k] \in Nat
    BY <1>2, <2>5
  <2>7. g \in [0 .. Len(sc) -> Nat]
    BY <2>1, <2>6
  <2>. QED BY <2>1, <2>2, <2>7 DEF IsLeft
<1>. HIDE DEF P, a
<1>. QED BY <1>1, <1>4, <1>5

\* The operation that is the first to fail in round n.
FirstOfRound(n) == IF n = 0 THEN 1 ELSE n

\* The operations the rounds before round n should have failed on first.
Swept(n) == IF n = 0 THEN {} ELSE 1 .. (IF n = 1 THEN 1 ELSE n - 1)

\* How many of the first k operations of round n have reached the string.
Done(n, k) == IF k < FirstOfRound(n) THEN k ELSE FirstOfRound(n) - 1

\* One of the first m operations gets nothing.
Starves(sc, m) == \E j \in Starved(sc) : j <= m

\* What is left of the counter, and whether the operation that fails first
\* has been performed.
Pace(n, k, first, c) ==
  /\ c = (IF k < n THEN n - k ELSE 0)
  /\ first = (IF k < FirstOfRound(n) THEN 0 ELSE FirstOfRound(n))

\* What is left of the string, and whether a read has got nothing.
Supply(sc, n, k, eof, len) ==
  len = LeftAfter(sc)[Done(n, k)] /\ (eof <=> Starves(sc, Done(n, k)))

\* The rounds so far have failed on what they should have; without a read
\* that gets nothing there are not many.
Progress(sc, n, hit) ==
  /\ Starved(sc) = {} => n <= Len(sc) + 1
  /\ \A k \in Swept(n) : k \in DOMAIN sc /\ (\A j \in Starved(sc) : k <= j) => k \in hit

\* The loop is over: what FaultsAreSwept says of its end.
Finished(sc, n, hit) ==
  /\ {k \in DOMAIN sc : \A j \in Starved(sc) : k <= j} \subseteq hit
  /\ n = IF Starved(sc) = {} THEN Len(sc) + 1 ELSE Limit

LEMMA PaceNext ==
  ASSUME NEW n \in Nat, NEW k \in Nat, NEW first, NEW c \in Nat, Pace(n, k, first, c)
  PROVE  LET ok == fail(c) # 0
         IN  /\ ok => first = 0 /\ Done(n, k) = k /\ Done(n, k + 1) = k + 1
             /\ ~ok => Done(n, k + 1) = Done(n, k)
             /\ Pace(n, k + 1, IF first = 0 /\ ~ok THEN k + 1 ELSE first, fail(c))
<1>1. fail(c) = (IF k + 1 < n THEN n - (k + 1) ELSE 0)
  BY DEF fail, Pace
<1>2. fail(c) # 0 <=> k + 1 < FirstOfRound(n)
  BY <1>1 DEF FirstOfRound
<1>3. CASE fail(c) # 0
  BY <1>1, <1>2, <1>3 DEF Pace, FirstOfRound, Done
<1>4. CASE fail(c) = 0
  BY <1>1, <1>2, <1>4 DEF Pace, FirstOfRound, Done
<1>. QED BY <1>3, <1>4

\* An operation that fails leaves the string alone; a write too; a read takes
\* its octets, and starves if it gets none.
LEMMA SupplyKept ==
  ASSUME NEW sc, NEW n, NEW k, NEW eof, NEW len, Supply(sc, n, k, eof, len),
         Done(n, k + 1) = Done(n, k)
  PROVE  Supply(sc, n, k + 1, eof, len)
BY DEF Supply

LEMMA SupplyNext ==
  ASSUME NEW sc \in Scripts, NEW n, NEW k \in Nat, k < Len(sc), NEW eof \in BOOLEAN, NEW len,
         Supply(sc, n, k, eof, len), Done(n, k) = k, Done(n, k + 1) = k + 1
  PROVE  /\ len \in Nat
         /\ Supply(sc, n, k + 1, eof \/ (sc[k + 1].what = "read" /\ Min({sc[k + 1].room, len}) = 0),
                   LeavesOf(sc[k + 1], len))
<1>. DEFINE op == sc[k + 1]
            e == eof \/ (op.what = "read" /\ Min({op.room, len}) = 0)
            lv == LeavesOf(op, len)
<1>1. /\ sc \in Seq(Operation) /\ Len(sc) \in Nat /\ DOMAIN sc = 1 .. Len(sc)
      /\ k + 1 \in 1 .. Len(sc) /\ k \in 0 .. Len(sc) /\ (k + 1) - 1 = k /\ op \in Operation
  BY ScriptIs
<1>2. IsLeft(LeftAfter(sc), sc)
  BY LeftIs
<1>3. len = LeftAfter(sc)[k] /\ (eof <=> Starves(sc, k))
  BY DEF Supply
<1>4. len \in Nat /\ LeftAfter(sc)[k + 1] = lv
  BY <1>1, <1>2, <1>3 DEF IsLeft
<1>5. k + 1 \in Starved(sc) <=> op.what = "read" /\ (op.room = 0 \/ len = 0)
  BY <1>1, <1>3 DEF Starved
<1>6. Min({op.room, len}) = 0 <=> op.room = 0 \/ len = 0
  <2>. DEFINE x == op.room
  <2>1. x \in Nat
    BY <1>1 DEF Operation
  <2>. HIDE DEF x
  <2>2. Min({x, len}) = IF x <= len THEN x ELSE len
    BY <1>4, <2>1, MinIs
  <2>3. Min({x, len}) = 0 <=> x = 0 \/ len = 0
    BY <1>4, <2>1, <2>2
  <2>. QED BY <2>3 DEF x
<1>7. \A j \in Starved(sc) : j \in Nat
  BY <1>1 DEF Starved
<1>8. Starves(sc, k + 1) <=> Starves(sc, k) \/ k + 1 \in Starved(sc)
  BY <1>7 DEF Starves
<1>9. e <=> Starves(sc, k + 1)
  BY <1>3, <1>5, <1>6, <1>8
<1>. HIDE DEF e, lv
<1>10. Supply(sc, n, k + 1, e, lv)
  BY <1>4, <1>9 DEF Supply
<1>. QED BY <1>4, <1>10 DEF e, lv

LEMMA SupplyAtFirst ==
  ASSUME NEW sc \in Scripts, NEW n \in Nat, NEW eof \in BOOLEAN, ~eof
  PROVE  Supply(sc, n, 0, eof, Len(Text))
<1>1. Done(n, 0) = 0
  BY DEF Done, FirstOfRound
<1>2. LeftAfter(sc)[0] = Len(Text)
  BY LeftIs DEF IsLeft
<1>3. ~Starves(sc, 0)
  <2>1. \A j \in Starved(sc) : j \in 1 .. Len(sc) /\ Len(sc) \in Nat
    BY ScriptIs DEF Starved
  <2>. QED BY <2>1 DEF Starves
<1>. QED BY <1>1, <1>2, <1>3 DEF Supply

LEMMA PaceAtFirst == ASSUME NEW n \in Nat PROVE Pace(n, 0, 0, n)
BY DEF Pace, FirstOfRound

LEMMA ProgressAtFirst == ASSUME NEW sc \in Scripts, NEW hit PROVE Progress(sc, 0, hit)
<1>1. Len(sc) \in Nat
  BY ScriptIs
<1>. QED BY <1>1 DEF Progress, Swept

\* The next round: this one failed on what it should have, if it came there.
LEMMA ProgressNext ==
  ASSUME NEW sc \in Scripts, NEW n \in Nat, NEW k \in Nat, k <= Len(sc), NEW first, NEW c,
         NEW eof, NEW len, NEW hit,
         Pace(n, k, first, c), Supply(sc, n, k, eof, len), Progress(sc, n, hit), first # 0 \/ eof
  PROVE  Progress(sc, n + 1, hit \cup ({first} \ {0}))
<1>. DEFINE f == FirstOfRound(n)
            h == hit \cup ({first} \ {0})
<1>1. Len(sc) \in Nat /\ DOMAIN sc = 1 .. Len(sc) /\ f \in Nat /\ f >= 1 /\ f >= n
  BY ScriptIs DEF FirstOfRound
<1>2. first # 0 => first = f /\ k >= f
  BY <1>1 DEF Pace
<1>3. first = 0 => \E j \in Starved(sc) : j < f
  <2>. SUFFICES ASSUME first = 0 PROVE \E j \in Starved(sc) : j < f
    OBVIOUS
  <2>1. k < f /\ Done(n, k) = k
    BY <1>1 DEF Pace, Done
  <2>2. PICK j \in Starved(sc) : j <= k
    BY <2>1 DEF Supply, Starves
  <2>3. j \in Nat
    BY <1>1 DEF Starved
  <2>. QED BY <1>1, <2>1, <2>2, <2>3
<1>4. Starved(sc) = {} => n + 1 <= Len(sc) + 1
  BY <1>1, <1>2, <1>3
<1>5. ASSUME NEW i \in Swept(n + 1), i \in DOMAIN sc, \A j \in Starved(sc) : i <= j PROVE i \in h
  <2>1. i \in Swept(n) \/ i = f
    BY DEF Swept, FirstOfRound
  <2>2. CASE i \in Swept(n)
    BY <1>5, <2>2 DEF Progress
  <2>3. CASE i = f
    <3>1. first # 0
      <4>. SUFFICES ASSUME first = 0 PROVE FALSE
        OBVIOUS
      <4>1. PICK j \in Starved(sc) : j < f
        BY <1>3
      <4>2. f <= j /\ j \in Nat
        BY <1>1, <1>5, <2>3 DEF Starved
      <4>. QED BY <1>1, <4>1, <4>2
    <3>. QED BY <1>2, <2>3, <3>1
  <2>. QED BY <2>1, <2>2, <2>3
<1>. QED BY <1>4, <1>5 DEF Progress

\* The loop runs into its limit only if a read gets nothing.
LEMMA LimitFinishes ==
  ASSUME NEW sc \in Scripts, NEW n \in Nat, n = Limit, NEW hit, Progress(sc, n, hit)
  PROVE  Finished(sc, n, hit)
<1>1. Len(sc) \in Nat /\ DOMAIN sc = 1 .. Len(sc) /\ Len(sc) + 1 < Limit
  BY ScriptIs
<1>2. DOMAIN sc \subseteq Swept(n) /\ Starved(sc) # {}
  BY <1>1 DEF Swept, Progress
<1>. QED BY <1>2 DEF Finished, Progress

\* A round without an error is the last.
LEMMA SuccessFinishes ==
  ASSUME NEW sc \in Scripts, NEW n \in Nat, NEW c, NEW len, NEW hit,
         Pace(n, Len(sc), 0, c), Supply(sc, n, Len(sc), FALSE, len), Progress(sc, n, hit)
  PROVE  Finished(sc, n, hit)
<1>1. Len(sc) \in Nat /\ Len(sc) > 0 /\ DOMAIN sc = 1 .. Len(sc)
  BY ScriptIs
<1>2. Len(sc) < FirstOfRound(n) /\ FirstOfRound(n) = n
  BY <1>1 DEF Pace, FirstOfRound
<1>3. Done(n, Len(sc)) = Len(sc)
  BY <1>2 DEF Done
<1>4. ~ \E j \in Starved(sc) : j <= Len(sc)
  BY <1>3 DEF Supply, Starves
<1>5. \A j \in Starved(sc) : j <= Len(sc)
  BY <1>1 DEF Starved
<1>6. Starved(sc) = {}
  BY <1>4, <1>5
<1>7. n = Len(sc) + 1
  BY <1>1, <1>2, <1>6 DEF Progress
<1>8. DOMAIN sc \subseteq Swept(n)
  BY <1>1, <1>7 DEF Swept
<1>. QED BY <1>6, <1>7, <1>8 DEF Finished, Progress

Places == {"none", "op", "posted", "next", "over"}

\* Nothing has succeeded after a failure.
Loops ==
  [script : Scripts, n : Nat, k : Nat, first : Nat, eof : BOOLEAN, hit : SUBSET Nat,
   late : {{}}, pc : Places]

LoopOf(sc, n, k, f, e, hit, q) ==
  [script |-> sc, n |-> n, k |-> k, first |-> f, eof |-> e, hit |-> hit, late |-> {}, pc |-> q]

LEMMA LoopOfFields ==
  ASSUME NEW sc \in Scripts, NEW n \in Nat, NEW k \in Nat, NEW f \in Nat, NEW e \in BOOLEAN,
         NEW hit \in SUBSET Nat, NEW q \in Places
  PROVE  LET l == LoopOf(sc, n, k, f, e, hit, q)
         IN  /\ l \in Loops /\ l.script = sc /\ l.n = n /\ l.k = k /\ l.first = f
             /\ l.eof = e /\ l.hit = hit /\ l.pc = q
BY DEF LoopOf, Loops

LEMMA LoopFields ==
  ASSUME NEW l \in Loops
  PROVE  /\ l = LoopOf(l.script, l.n, l.k, l.first, l.eof, l.hit, l.pc)
         /\ l.script \in Scripts /\ l.n \in Nat /\ l.k \in Nat /\ l.first \in Nat
         /\ l.eof \in BOOLEAN /\ l.hit \in SUBSET Nat /\ l.pc \in Places /\ l.late = {}
BY DEF LoopOf, Loops

\* The next round: all but the script is new.
Renewed(l, n, k, f, e, hit, q) ==
  [l EXCEPT !.n = n, !.k = k, !.first = f, !.eof = e, !.hit = hit, !.pc = q]

LEMMA LoopRenewed ==
  ASSUME NEW l \in Loops, NEW n, NEW k, NEW f, NEW e, NEW hit, NEW q
  PROVE  Renewed(l, n, k, f, e, hit, q) = LoopOf(l.script, n, k, f, e, hit, q)
<1>1. PICK sc, n0, k0, f0, e0, h0, q0 : l = LoopOf(sc, n0, k0, f0, e0, h0, q0) /\ l.script = sc
  BY LoopFields
<1>. DEFINE a == LoopOf(sc, n, k0, f0, e0, h0, q0)
            b == LoopOf(sc, n, k, f0, e0, h0, q0)
            c == LoopOf(sc, n, k, f, e0, h0, q0)
            d == LoopOf(sc, n, k, f, e, h0, q0)
            g == LoopOf(sc, n, k, f, e, hit, q0)
<1>2. [l EXCEPT !.n = n] = a
  BY <1>1 DEF LoopOf
<1>3. [a EXCEPT !.k = k] = b
  BY DEF LoopOf
<1>4. [b EXCEPT !.first = f] = c
  BY DEF LoopOf
<1>5. [c EXCEPT !.eof = e] = d
  BY DEF LoopOf
<1>6. [d EXCEPT !.hit = hit] = g
  BY DEF LoopOf
<1>7. [g EXCEPT !.pc = q] = LoopOf(sc, n, k, f, e, hit, q)
  BY DEF LoopOf
<1>8. Renewed(l, n, k, f, e, hit, q)
        = [[[[[[l EXCEPT !.n = n] EXCEPT !.k = k] EXCEPT !.first = f] EXCEPT !.eof = e]
              EXCEPT !.hit = hit] EXCEPT !.pc = q]
  BY DEF Renewed
<1>. HIDE DEF a, b, c, d, g
<1>. QED BY <1>1, <1>2, <1>3, <1>4, <1>5, <1>6, <1>7, <1>8

Round(l, st) ==
  /\ l.k <= Len(l.script) /\ l.n < Limit
  /\ Pace(l.n, l.k, l.first, st.n)
  /\ Supply(l.script, l.n, l.k, l.eof, Len(st.s))
  /\ Progress(l.script, l.n, l.hit)

\* In round n, after k operations.
LoopInv ==
  /\ loop \in Loops
  /\ loop.pc \in {"op", "posted", "next"} => Round(loop, stream)
  /\ loop.pc = "op" => loop.k < Len(loop.script)
  /\ loop.pc = "over" => Finished(loop.script, loop.n, loop.hit)

\* No octet of the string is lost or repeated.
TextInv ==
  stream \in [n : Nat, s : Seq(Nat), got : Seq(Nat)] /\ stream.got \o stream.s = Text

\* The caller of yield_to waits for the coroutine and returns after it.
YieldInv ==
  /\ yield \in [caller : {"idle", "check", "wait", "returned", "destroyed"},
                co : {"none", "queued", "runs", "ended"}, running : BOOLEAN]
  /\ yield.caller = "idle" => yield.co \in {"none", "ended"} /\ loop.pc = "none"
  /\ yield.caller \in {"check", "wait"} => yield.co # "none"
  /\ yield.running <=> yield.co \in {"queued", "runs"}
  /\ yield.caller = "wait" => yield.running
  /\ yield.caller \in {"returned", "destroyed"} => yield.co = "ended" /\ loop.pc = "over"
  /\ yield.co \in {"none", "queued"} => loop.pc = "none"
  /\ yield.co = "runs" => loop.pc # "none"
  /\ yield.co = "ended" => loop.pc = (IF yield.caller = "idle" THEN "none" ELSE "over")

StreamsInv == LoopInv /\ TextInv /\ YieldInv

LEMMA StreamsInitInv == ToolkitInit => StreamsInv
<1>. SUFFICES ASSUME StreamsInit PROVE StreamsInv
  BY DEF ToolkitInit
<1>1. LoopInv
  <2>. DEFINE no == FALSE
  <2>1. PICK sc \in Scripts : loop = LoopOf(sc, 0, 0, 0, no, {}, "none")
    BY DEF StreamsInit, LoopOf
  <2>2. "none" \in Places /\ no \in BOOLEAN /\ {} \in SUBSET Nat /\ 0 \in Nat
    BY DEF Places
  <2>. HIDE DEF no
  <2>3. loop \in Loops /\ loop.pc = "none"
    BY <2>1, <2>2, LoopOfFields
  <2>. QED BY <2>3 DEF LoopInv
<1>2. TextInv
  BY StreamsAssumption, EmptySeq, ConcatEmptySeq DEF StreamsInit, NewStream, TextInv
<1>3. YieldInv
  BY DEF StreamsInit, YieldInv
<1>. QED BY <1>1, <1>2, <1>3 DEF StreamsInv

LEMMA KeepsYield ==
  ASSUME StreamsInv, YieldTo \/ CheckRunning \/ WakesSpuriously \/ Leave \/ Destroy
  PROVE  StreamsInv'
<1>1. loop' = loop /\ stream' = stream
  BY DEF YieldTo, CheckRunning, WakesSpuriously, Leave, Destroy
<1>2. LoopInv' /\ TextInv'
  BY <1>1 DEF StreamsInv, LoopInv, TextInv
<1>3. YieldInv'
  <2>. USE <1>1 DEF StreamsInv, YieldInv
  <2>1. CASE YieldTo
    <3>1. yield' = [caller |-> "check", co |-> "queued", running |-> TRUE] /\ yield.caller = "idle"
      BY <2>1 DEF YieldTo
    <3>2. yield'.caller = "check" /\ yield'.co = "queued" /\ yield'.running = TRUE
      BY <3>1
    <3>. QED BY <3>1, <3>2
  <2>2. CASE CheckRunning
    <3>1. PICK c \in {"wait", "returned"} :
            yield' = [yield EXCEPT !.caller = c] /\ (c = "wait" <=> yield.running)
      BY <2>2 DEF CheckRunning
    <3>2. yield'.caller = c /\ yield'.co = yield.co /\ yield'.running = yield.running
      BY <3>1
    <3>3. yield' \in [caller : {"idle", "check", "wait", "returned", "destroyed"},
                      co : {"none", "queued", "runs", "ended"}, running : BOOLEAN]
      BY <3>1
    <3>4. yield.caller = "check"
      BY <2>2 DEF CheckRunning
    <3>5. yield.co \notin {"queued", "runs"} => yield.co = "ended" /\ loop.pc = "over"
      BY <3>4
    <3>. QED BY <3>1, <3>2, <3>3, <3>4, <3>5
  <2>3. CASE WakesSpuriously
    BY <2>3 DEF WakesSpuriously
  <2>4. CASE Leave
    BY <2>4 DEF Leave
  <2>5. CASE Destroy
    BY <2>5 DEF Destroy
  <2>. QED BY <2>1, <2>2, <2>3, <2>4, <2>5
<1>. QED BY <1>2, <1>3 DEF StreamsInv

LEMMA NewText == ASSUME NEW n \in Nat PROVE
  /\ NewStream(n) \in [n : Nat, s : Seq(Nat), got : Seq(Nat)]
  /\ NewStream(n).n = n /\ NewStream(n).s = Text /\ NewStream(n).got \o NewStream(n).s = Text
BY StreamsAssumption, EmptySeq, ConcatEmptySeq DEF NewStream

\* A round begins.
LEMMA RoundBegins ==
  ASSUME NEW sc \in Scripts, NEW n \in Nat, n < Limit, NEW hit \in SUBSET Nat, Progress(sc, n, hit),
         NEW eof \in BOOLEAN, ~eof,
         loop' = LoopOf(sc, n, 0, 0, eof, hit, "op"), stream' = NewStream(n)
  PROVE  LoopInv' /\ TextInv' /\ loop'.pc = "op"
<1>1. "op" \in Places /\ 0 \in Nat
  BY DEF Places
<1>2. /\ loop' \in Loops /\ loop'.script = sc /\ loop'.n = n /\ loop'.k = 0 /\ loop'.first = 0
      /\ loop'.eof = eof /\ loop'.hit = hit /\ loop'.pc = "op"
  BY <1>1, LoopOfFields
<1>3. TextInv' /\ stream'.n = n /\ stream'.s = Text
  BY NewText DEF TextInv
<1>4. Len(sc) \in Nat /\ Len(sc) > 0
  BY ScriptIs
<1>5. Pace(n, 0, 0, n) /\ Supply(sc, n, 0, eof, Len(Text))
  BY PaceAtFirst, SupplyAtFirst
<1>6. Round(loop', stream')
  BY <1>2, <1>3, <1>4, <1>5 DEF Round
<1>7. LoopInv'
  BY <1>2, <1>4, <1>6 DEF LoopInv
<1>. QED BY <1>2, <1>3, <1>7

LEMMA KeepsEnter == ASSUME StreamsInv, Enter PROVE StreamsInv'
<1>1. loop \in Loops
  BY DEF StreamsInv, LoopInv
<1>. DEFINE sc == loop.script
            no == FALSE
<1>2. no \in BOOLEAN /\ ~no /\ sc \in Scripts /\ 0 < Limit /\ 0 \in Nat /\ {} \in SUBSET Nat
  BY <1>1, LoopFields, ScriptIs, StreamsAssumption
<1>3. loop' = LoopOf(sc, 0, 0, 0, no, {}, "op")
  <2>1. loop' = Renewed(loop, 0, 0, 0, no, {}, "op")
    BY DEF Enter, Renewed
  <2>. HIDE DEF no
  <2>. QED BY <1>1, <2>1, LoopRenewed
<1>4. stream' = NewStream(0)
  BY DEF Enter
<1>. HIDE DEF sc, no
<1>5. Progress(sc, 0, {})
  BY <1>2, ProgressAtFirst
<1>6. LoopInv' /\ TextInv' /\ loop'.pc = "op"
  BY <1>2, <1>3, <1>4, <1>5, RoundBegins
<1>7. YieldInv'
  BY <1>6 DEF Enter, StreamsInv, YieldInv
<1>. QED BY <1>6, <1>7 DEF StreamsInv

LEMMA KeepsNextYield == ASSUME StreamsInv, NextYield PROVE StreamsInv'
<1>1. PICK sc \in Scripts : loop' = [loop EXCEPT !.script = sc, !.pc = "none"]
  BY DEF NextYield
<1>2. loop' \in Loops /\ loop'.pc = "none"
  BY <1>1 DEF StreamsInv, LoopInv, Loops, Places
<1>3. LoopInv' /\ TextInv'
  BY <1>2 DEF NextYield, StreamsInv, LoopInv, TextInv
<1>4. YieldInv'
  BY <1>2 DEF NextYield, StreamsInv, YieldInv
<1>. QED BY <1>3, <1>4 DEF StreamsInv

\* An operation ends.
LEMMA OperationEnds ==
  ASSUME StreamsInv, loop.pc = "op", yield.co = "runs", yield' = yield, TextInv',
         stream'.n = fail(stream.n), NEW ec \in {"ok", "fail_error", "eof"}, Ends(ec),
         ec = "fail_error" <=> fail(stream.n) = 0,
         Supply(loop.script, loop.n, loop.k + 1, loop.eof \/ ec = "eof", Len(stream'.s))
  PROVE  StreamsInv'
<1>. DEFINE sc == loop.script
            n == loop.n
            k == loop.k
            c == stream.n
            f == IF loop.first = 0 /\ fail(c) = 0 THEN k + 1 ELSE loop.first
            e == loop.eof \/ ec = "eof"
            q == IF Op.form = "async" THEN "posted" ELSE "next"
            hit == loop.hit
<1>1. /\ loop \in Loops /\ Round(loop, stream) /\ k < Len(sc) /\ c \in Nat
  BY DEF StreamsInv, LoopInv, TextInv
<1>2. /\ sc \in Scripts /\ n \in Nat /\ k \in Nat /\ f \in Nat /\ e \in BOOLEAN
      /\ hit \in SUBSET Nat /\ q \in Places /\ k + 1 \in Nat
      /\ loop = LoopOf(sc, n, k, loop.first, loop.eof, hit, loop.pc)
  BY <1>1, LoopFields DEF Places
<1>3. Pace(n, k, loop.first, c)
  BY <1>1 DEF Round
<1>4. fail(c) # 0 => loop.first = 0
  BY <1>1, <1>2, <1>3, PaceNext
<1>5. Pace(n, k + 1, f, fail(c))
  BY <1>1, <1>2, <1>3, PaceNext
<1>6. loop' = LoopOf(sc, n, k + 1, f, e, hit, q)
  <2>1. loop.late = {}
    BY <1>1, LoopFields
  <2>2. (IF ec # "fail_error" /\ loop.first # 0 THEN loop.late \cup {loop.k + 1} ELSE loop.late) = {}
    BY <1>4, <2>1
  <2>3. (IF loop.first = 0 /\ ec = "fail_error" THEN loop.k + 1 ELSE loop.first) = f
    OBVIOUS
  <2>4. loop' = [loop EXCEPT !.k = k + 1, !.pc = q, !.first = f, !.eof = e, !.late = {}]
    BY <2>2, <2>3 DEF Ends
  <2>. HIDE DEF f, e, q
  <2>. QED BY <1>2, <2>4 DEF LoopOf
<1>7. q \in {"posted", "next"}
  OBVIOUS
<1>8. Supply(sc, n, k + 1, e, Len(stream'.s))
  OBVIOUS
<1>9. n < Limit /\ Progress(sc, n, hit) /\ k + 1 <= Len(sc)
  <2>1. Len(sc) \in Nat
    BY <1>2, ScriptIs
  <2>. QED BY <1>1, <1>2, <2>1 DEF Round
<1>. HIDE DEF sc, n, k, c, f, e, q, hit
<1>10. /\ loop' \in Loops /\ loop'.script = sc /\ loop'.n = n /\ loop'.k = k + 1 /\ loop'.first = f
       /\ loop'.eof = e /\ loop'.hit = hit /\ loop'.pc = q
  BY <1>2, <1>6, LoopOfFields
<1>11. Round(loop', stream')
  BY <1>5, <1>8, <1>9, <1>10 DEF Round, c
<1>12. LoopInv'
  BY <1>7, <1>10, <1>11 DEF LoopInv
<1>13. YieldInv'
  BY <1>7, <1>10 DEF StreamsInv, YieldInv
<1>. QED BY <1>12, <1>13 DEF StreamsInv

\* The operation that is next, and what the string has for it.
LEMMA AtOperation ==
  ASSUME StreamsInv, loop.pc = "op"
  PROVE  /\ loop.script \in Scripts /\ loop.n \in Nat /\ loop.k \in Nat
         /\ loop.k < Len(loop.script) /\ loop.eof \in BOOLEAN /\ stream.n \in Nat
         /\ fail(stream.n) \in Nat /\ Op \in Operation
         /\ Pace(loop.n, loop.k, loop.first, stream.n)
         /\ Supply(loop.script, loop.n, loop.k, loop.eof, Len(stream.s))
<1>1. /\ loop \in Loops /\ Round(loop, stream) /\ loop.k < Len(loop.script) /\ stream.n \in Nat
  BY DEF StreamsInv, LoopInv, TextInv
<1>2. loop.script \in Scripts /\ loop.n \in Nat /\ loop.k \in Nat /\ loop.eof \in BOOLEAN
  BY <1>1, LoopFields
<1>3. fail(stream.n) \in Nat
  BY <1>1 DEF fail
<1>4. Op \in Operation
  <2>1. Len(loop.script) \in Nat /\ \A k \in 1 .. Len(loop.script) : loop.script[k] \in Operation
    BY <1>2, ScriptIs
  <2>2. loop.k + 1 \in 1 .. Len(loop.script)
    BY <1>1, <1>2, <2>1
  <2>. QED BY <2>1, <2>2 DEF Op
<1>. QED BY <1>1, <1>2, <1>3, <1>4 DEF Round

\* An operation the counter lets through.
LEMMA PassedOn ==
  ASSUME StreamsInv, loop.pc = "op", fail(stream.n) # 0
  PROVE  Supply(loop.script, loop.n, loop.k + 1, loop.eof \/ (ReadOp /\ Octets = 0),
                LeavesOf(Op, Len(stream.s)))
<1>. DEFINE sc == loop.script
            n == loop.n
            k == loop.k
            c == stream.n
            eof == loop.eof
            len == Len(stream.s)
            first == loop.first
<1>1. /\ sc \in Scripts /\ n \in Nat /\ k \in Nat /\ k < Len(sc) /\ eof \in BOOLEAN /\ c \in Nat
      /\ Pace(n, k, first, c) /\ Supply(sc, n, k, eof, len) /\ fail(c) # 0
  BY AtOperation
<1>. HIDE DEF sc, n, k, c, eof, len, first
<1>2. Done(n, k) = k /\ Done(n, k + 1) = k + 1
  BY <1>1, PaceNext
<1>3. Supply(sc, n, k + 1, eof \/ (sc[k + 1].what = "read" /\ Min({sc[k + 1].room, len}) = 0),
             LeavesOf(sc[k + 1], len))
  BY <1>1, <1>2, SupplyNext
<1>. QED BY <1>3 DEF sc, n, k, eof, len, Op, ReadOp, Octets

\* Nothing happens to the string.
LEMMA KeepsString ==
  ASSUME StreamsInv, loop.pc = "op", stream' = [stream EXCEPT !.n = fail(stream.n)]
  PROVE  TextInv' /\ stream'.n = fail(stream.n) /\ stream'.s = stream.s
<1>1. fail(stream.n) \in Nat
  BY AtOperation
<1>. QED BY <1>1 DEF StreamsInv, TextInv

LEMMA KeepsOpFails == ASSUME StreamsInv, OpFails PROVE StreamsInv'
<1>1. /\ loop.pc = "op" /\ yield.co = "runs" /\ yield' = yield /\ Ends("fail_error")
      /\ fail(stream.n) = 0 /\ stream' = [stream EXCEPT !.n = fail(stream.n)]
  BY DEF OpFails
<1>2. TextInv' /\ stream'.n = fail(stream.n) /\ stream'.s = stream.s
  BY <1>1, KeepsString
<1>3. Supply(loop.script, loop.n, loop.k + 1, loop.eof \/ "fail_error" = "eof", Len(stream'.s))
  <2>. DEFINE sc == loop.script
              n == loop.n
              k == loop.k
              c == stream.n
              eof == loop.eof
              len == Len(stream.s)
              first == loop.first
  <2>1. /\ n \in Nat /\ k \in Nat /\ c \in Nat /\ eof \in BOOLEAN
        /\ Pace(n, k, first, c) /\ Supply(sc, n, k, eof, len) /\ fail(c) = 0
    BY <1>1, AtOperation
  <2>. HIDE DEF sc, n, k, c, eof, len, first
  <2>2. Done(n, k + 1) = Done(n, k)
    BY <2>1, PaceNext
  <2>3. Supply(sc, n, k + 1, eof, len)
    BY <2>1, <2>2, SupplyKept
  <2>4. (eof \/ "fail_error" = "eof") = eof
    BY <2>1
  <2>. QED BY <1>2, <2>3, <2>4 DEF sc, n, k, eof, len
<1>. QED BY <1>1, <1>2, <1>3, OperationEnds

LEMMA KeepsOpPasses == ASSUME StreamsInv, OpPasses PROVE StreamsInv'
<1>1. /\ loop.pc = "op" /\ yield.co = "runs" /\ yield' = yield /\ Ends("ok") /\ ~ReadOp
      /\ fail(stream.n) # 0 /\ stream' = [stream EXCEPT !.n = fail(stream.n)]
  BY DEF OpPasses
<1>2. TextInv' /\ stream'.n = fail(stream.n) /\ stream'.s = stream.s
  BY <1>1, KeepsString
<1>3. Supply(loop.script, loop.n, loop.k + 1, loop.eof \/ "ok" = "eof", Len(stream'.s))
  <2>1. Supply(loop.script, loop.n, loop.k + 1, loop.eof \/ (ReadOp /\ Octets = 0),
               LeavesOf(Op, Len(stream.s)))
    BY <1>1, PassedOn
  <2>2. Len(stream.s) \in Nat
    BY LenProperties DEF StreamsInv, TextInv
  <2>3. LeavesOf(Op, Len(stream.s)) = Len(stream.s)
    BY <1>1, <2>2 DEF LeavesOf, ReadOp
  <2>4. (loop.eof \/ (ReadOp /\ Octets = 0)) = (loop.eof \/ "ok" = "eof")
    BY <1>1
  <2>. QED BY <1>2, <2>1, <2>3, <2>4
<1>. QED BY <1>1, <1>2, <1>3, OperationEnds

LEMMA KeepsOpEof == ASSUME StreamsInv, OpEof PROVE StreamsInv'
<1>1. /\ loop.pc = "op" /\ yield.co = "runs" /\ yield' = yield /\ Ends("eof") /\ ReadOp
      /\ Octets = 0 /\ fail(stream.n) # 0 /\ stream' = [stream EXCEPT !.n = fail(stream.n)]
  BY DEF OpEof
<1>2. TextInv' /\ stream'.n = fail(stream.n) /\ stream'.s = stream.s
  BY <1>1, KeepsString
<1>3. Supply(loop.script, loop.n, loop.k + 1, loop.eof \/ "eof" = "eof", Len(stream'.s))
  <2>1. Supply(loop.script, loop.n, loop.k + 1, loop.eof \/ (ReadOp /\ Octets = 0),
               LeavesOf(Op, Len(stream.s)))
    BY <1>1, PassedOn
  <2>2. Len(stream.s) \in Nat
    BY LenProperties DEF StreamsInv, TextInv
  <2>3. LeavesOf(Op, Len(stream.s)) = Len(stream.s)
    BY <1>1, <2>2 DEF LeavesOf, ReadOp, Octets
  <2>4. (loop.eof \/ (ReadOp /\ Octets = 0)) = (loop.eof \/ "eof" = "eof")
    BY <1>1
  <2>. QED BY <1>2, <2>1, <2>3, <2>4
<1>. QED BY <1>1, <1>2, <1>3, OperationEnds

\* A read takes the front of the string.
LEMMA SplitText ==
  ASSUME NEW g \in Seq(Nat), NEW s \in Seq(Nat), NEW m \in Nat, m <= Len(s)
  PROVE  /\ Len(SubSeq(s, m + 1, Len(s))) = Len(s) - m
         /\ g \o SubSeq(s, 1, m) \in Seq(Nat) /\ SubSeq(s, m + 1, Len(s)) \in Seq(Nat)
         /\ (g \o SubSeq(s, 1, m)) \o SubSeq(s, m + 1, Len(s)) = g \o s
<1>. DEFINE a == SubSeq(s, 1, m)
            b == SubSeq(s, m + 1, Len(s))
<1>1. a \in Seq(Nat) /\ b \in Seq(Nat)
  BY SubSeqProperties, LenProperties
<1>2. a \o b = s
  <2>1. a \o b = SubSeq(s, 1, Len(s))
    <3>1. 1 \in 1 .. Len(s) + 1 /\ m \in 1 - 1 .. Len(s) /\ Len(s) \in m .. Len(s)
      BY LenProperties
    <3>. QED BY <3>1, ConcatAdjacentSubSeq
  <2>. QED BY <2>1, SubSeqFull
<1>. HIDE DEF a, b
<1>3. g \o a \in Seq(Nat)
  BY <1>1, ConcatProperties
<1>4. (g \o a) \o b = g \o (a \o b)
  BY <1>1, ConcatAssociative, SMTT(30)
<1>5. Len(SubSeq(s, m + 1, Len(s))) = Len(s) - m
  BY SubSeqProperties, LenProperties
<1>. QED BY <1>1, <1>2, <1>3, <1>4, <1>5 DEF a, b

LEMMA KeepsOpReads == ASSUME StreamsInv, OpReads PROVE StreamsInv'
<1>. DEFINE m == Octets
            g == stream.got
            s == stream.s
<1>1. g \in Seq(Nat) /\ s \in Seq(Nat) /\ g \o s = Text /\ Len(s) \in Nat
  BY LenProperties DEF StreamsInv, TextInv
<1>2. /\ loop.pc = "op" /\ yield.co = "runs" /\ yield' = yield /\ Ends("ok") /\ ReadOp
      /\ Octets > 0 /\ fail(stream.n) # 0
  BY DEF OpReads
<1>3. m \in Nat /\ m <= Len(s)
  <2>. DEFINE x == Op.room
              n == Len(s)
  <2>1. x \in Nat /\ n \in Nat /\ m = Min({x, n})
    BY <1>1, <1>2, AtOperation DEF Operation, Octets
  <2>. HIDE DEF x, n
  <2>2. Min({x, n}) \in Nat /\ Min({x, n}) <= n
    BY <2>1, MinOfPair
  <2>. QED BY <2>1, <2>2 DEF n
<1>4. stream' = [n |-> fail(stream.n), s |-> SubSeq(s, m + 1, Len(s)), got |-> g \o SubSeq(s, 1, m)]
  BY DEF OpReads
<1>5. fail(stream.n) \in Nat
  BY <1>2, AtOperation
<1>6. LeavesOf(Op, Len(s)) = Len(s) - m
  BY <1>2 DEF LeavesOf, ReadOp, Octets
<1>7. Supply(loop.script, loop.n, loop.k + 1, loop.eof \/ (ReadOp /\ Octets = 0), Len(s) - m)
  BY <1>2, <1>6, PassedOn
<1>8. m # 0 /\ (loop.eof \/ (ReadOp /\ Octets = 0)) = (loop.eof \/ "ok" = "eof")
  BY <1>2
<1>. HIDE DEF m, g, s
<1>9. TextInv' /\ stream'.n = fail(stream.n) /\ Len(stream'.s) = Len(s) - m
  <2>1. /\ Len(SubSeq(s, m + 1, Len(s))) = Len(s) - m
        /\ g \o SubSeq(s, 1, m) \in Seq(Nat) /\ SubSeq(s, m + 1, Len(s)) \in Seq(Nat)
        /\ (g \o SubSeq(s, 1, m)) \o SubSeq(s, m + 1, Len(s)) = Text
    BY <1>1, <1>3, SplitText
  <2>. QED BY <1>4, <1>5, <2>1 DEF TextInv
<1>10. Supply(loop.script, loop.n, loop.k + 1, loop.eof \/ "ok" = "eof", Len(stream'.s))
  BY <1>7, <1>8, <1>9
<1>. QED BY <1>2, <1>9, <1>10, OperationEnds

LEMMA KeepsRound ==
  ASSUME StreamsInv, Completes \/ GoesOn \/ RoundSucceeds PROVE StreamsInv'
<1>1. PICK q \in {"next", "op", "over"} : loop' = [loop EXCEPT !.pc = q]
  BY DEF Completes, GoesOn, RoundSucceeds
<1>2. stream' = stream /\ yield' = yield /\ loop.pc \in {"posted", "next"}
  BY DEF Completes, GoesOn, RoundSucceeds
<1>3. /\ loop' \in Loops /\ loop'.pc = q /\ loop'.n = loop.n /\ loop'.k = loop.k
      /\ loop'.first = loop.first /\ loop'.eof = loop.eof /\ loop'.hit = loop.hit
      /\ loop'.script = loop.script /\ Round(loop, stream)
  BY <1>1, <1>2 DEF StreamsInv, LoopInv, Loops, Places
<1>4. Round(loop', stream')
  BY <1>2, <1>3 DEF Round
<1>5. loop \in Loops
  BY DEF StreamsInv, LoopInv
<1>6. (Completes => loop'.pc = "next") /\ (GoesOn => loop'.pc = "op")
  BY <1>5 DEF Completes, GoesOn, Loops
<1>7. q = "op" => loop.k < Len(loop.script)
  BY <1>3, <1>6 DEF GoesOn, RoundSucceeds, Completes, Loops, Places
<1>8. q = "over" => Finished(loop.script, loop.n, loop.hit)
  <2>. SUFFICES ASSUME q = "over" PROVE Finished(loop.script, loop.n, loop.hit)
    OBVIOUS
  <2>1. loop.k = Len(loop.script) /\ loop.first = 0 /\ ~loop.eof
    BY <1>3, <1>6 DEF RoundSucceeds
  <2>. DEFINE sc == loop.script
              n == loop.n
              c == stream.n
              len == Len(stream.s)
              hit == loop.hit
  <2>2. sc \in Scripts /\ n \in Nat /\ loop.eof = FALSE
    BY <1>5, <2>1, LoopFields
  <2>3. Pace(n, Len(sc), 0, c) /\ Supply(sc, n, Len(sc), FALSE, len) /\ Progress(sc, n, hit)
    BY <1>3, <2>1, <2>2 DEF Round
  <2>. HIDE DEF sc, n, c, len, hit
  <2>4. Finished(sc, n, hit)
    BY <2>2, <2>3, SuccessFinishes
  <2>. QED BY <2>4 DEF sc, n, hit
<1>9. LoopInv'
  BY <1>3, <1>4, <1>7, <1>8 DEF LoopInv
<1>10. TextInv' /\ YieldInv'
  BY <1>2, <1>3 DEF StreamsInv, TextInv, YieldInv
<1>. QED BY <1>9, <1>10 DEF StreamsInv

LEMMA KeepsNextRound == ASSUME StreamsInv, NextRound PROVE StreamsInv'
<1>. DEFINE sc == loop.script
            m == loop.n + 1
            hit == loop.hit \cup ({loop.first} \ {0})
            q == IF m < Limit THEN "op" ELSE "over"
            no == FALSE
<1>0. no \in BOOLEAN /\ ~no
  OBVIOUS
<1>1. /\ loop \in Loops /\ Round(loop, stream) /\ (loop.first # 0 \/ loop.eof)
      /\ loop.pc = "next" /\ yield' = yield /\ stream' = NewStream(m)
  BY DEF NextRound, StreamsInv, LoopInv
<1>2. /\ sc \in Scripts /\ loop.n \in Nat /\ m \in Nat /\ hit \in SUBSET Nat
      /\ Limit \in Nat /\ loop.k \in Nat
      /\ loop = LoopOf(sc, loop.n, loop.k, loop.first, loop.eof, loop.hit, loop.pc)
  BY <1>1, LoopFields, StreamsAssumption
<1>3. Progress(sc, m, hit) /\ m <= Limit
  <2>. DEFINE n == loop.n
              k == loop.k
              first == loop.first
              eof == loop.eof
              h == loop.hit
              c == stream.n
              len == Len(stream.s)
  <2>1. /\ sc \in Scripts /\ n \in Nat /\ k \in Nat /\ k <= Len(sc) /\ Pace(n, k, first, c)
        /\ Supply(sc, n, k, eof, len) /\ Progress(sc, n, h) /\ (first # 0 \/ eof) /\ n < Limit
    BY <1>1, <1>2 DEF Round
  <2>. HIDE DEF sc, n, k, first, eof, h, c, len
  <2>2. Progress(sc, n + 1, h \cup ({first} \ {0}))
    BY <2>1, ProgressNext
  <2>. QED BY <1>2, <2>1, <2>2 DEF n, h, first
<1>4. loop' = LoopOf(sc, m, 0, 0, no, hit, q)
  <2>1. loop' = Renewed(loop, m, 0, 0, no, hit, q)
    BY DEF NextRound, Renewed
  <2>. HIDE DEF m, hit, q, no
  <2>. QED BY <1>1, <2>1, LoopRenewed
<1>5. LoopInv' /\ TextInv' /\ loop'.pc \in {"op", "over"}
  <2>1. CASE m < Limit
    <3>1. loop' = LoopOf(sc, m, 0, 0, no, hit, "op") /\ stream' = NewStream(m)
      BY <1>1, <1>4, <2>1
    <3>. HIDE DEF sc, m, hit, no
    <3>. QED BY <1>0, <1>2, <1>3, <2>1, <3>1, RoundBegins
  <2>2. CASE ~(m < Limit)
    <3>1. loop' = LoopOf(sc, m, 0, 0, no, hit, "over") /\ stream' = NewStream(m)
      BY <1>1, <1>4, <2>2
    <3>2. m = Limit
      BY <1>2, <1>3, <2>2
    <3>3. "over" \in Places /\ 0 \in Nat
      BY DEF Places
    <3>. HIDE DEF sc, m, hit, no
    <3>4. /\ loop' \in Loops /\ loop'.script = sc /\ loop'.n = m /\ loop'.hit = hit
          /\ loop'.pc = "over"
      BY <1>0, <1>2, <3>1, <3>3, LoopOfFields
    <3>5. Finished(sc, m, hit)
      BY <1>2, <1>3, <3>2, LimitFinishes
    <3>6. LoopInv'
      BY <3>4, <3>5 DEF LoopInv
    <3>7. TextInv'
      BY <1>2, <3>1, NewText DEF TextInv
    <3>. QED BY <3>4, <3>6, <3>7
  <2>. QED BY <2>1, <2>2
<1>6. YieldInv'
  <2>1. yield.co = "runs"
    BY <1>1, <1>5 DEF StreamsInv, YieldInv
  <2>. QED BY <1>1, <1>5, <2>1 DEF StreamsInv, YieldInv
<1>. QED BY <1>5, <1>6 DEF StreamsInv

LEMMA StreamsStepInv == StreamsInv /\ [StreamsNext]_tsvars => StreamsInv'
<1>. SUFFICES ASSUME StreamsInv, [StreamsNext]_tsvars PROVE StreamsInv'
  OBVIOUS
<1>1. CASE UNCHANGED tsvars
  BY <1>1 DEF tsvars, StreamsInv, LoopInv, TextInv, YieldInv
<1>. QED
  BY <1>1, KeepsYield, KeepsEnter, KeepsNextYield, KeepsOpFails, KeepsOpPasses, KeepsOpEof,
     KeepsOpReads, KeepsRound, KeepsNextRound DEF StreamsNext

LEMMA StreamsInvSweeps == ASSUME StreamsInv PROVE SweepIsWhole
<1>1. stream.got \o stream.s = Text
  BY DEF StreamsInv, TextInv
<1>2. loop \in Loops
  BY DEF StreamsInv, LoopInv
<1>3. loop.n \in Nat /\ loop.k \in Nat /\ loop.late = {}
  BY <1>2, LoopFields
<1>4. loop.pc \in {"next", "posted"} /\ loop.first # 0 =>
        loop.first = IF loop.n = 0 THEN Indexed(loop.n) ELSE Nth(loop.n)
  BY <1>3 DEF StreamsInv, LoopInv, Round, Pace, FirstOfRound, Indexed, Nth
<1>5. loop.pc = "over" =>
        LET short == Starved(loop.script)
        IN  /\ {k \in DOMAIN loop.script : \A j \in short : k <= j} \subseteq loop.hit
            /\ loop.n = IF short = {} THEN Len(loop.script) + 1 ELSE Limit
  BY DEF StreamsInv, LoopInv, Finished
<1>6. FaultsAreSwept
  BY <1>1, <1>3, <1>4, <1>5 DEF FaultsAreSwept
<1>7. YieldWaits
  BY DEF StreamsInv, YieldInv, YieldWaits
<1>. QED BY <1>6, <1>7 DEF SweepIsWhole

\* In every round of the loop of a stream test the counter of fail_stream, the
\* operations performed, the one that failed first, what the string has left
\* and whether a read met its end agree; the rounds so far have each failed
\* on the operation due, unless a read got nothing before it; and yield_to
\* knows whether its coroutine runs.
THEOREM StreamsInvariance == ToolkitSpec => []StreamsInv
BY StreamsInitInv, StreamsPart, StreamsStepInv, PTL DEF ToolkitSpec

\* The loop of a stream test (fail_counter.hpp, string_stream.hpp): every
\* operation up to the first read that gets nothing has been the first to
\* fail in a round; the loop ends with a round without an error, or at its
\* limit if a read gets nothing; yield_to returns after it and not before.
THEOREM SweptWhole == ToolkitSpec => []SweepIsWhole
BY StreamsInvSweeps, StreamsInvariance, PTL

-----------------------------------------------------------------------------
(* static_string.                                                          *)

LEMMA StringPart == [ToolkitNext]_toolvars => [StringNext]_strvars
BY DEF ToolkitNext, toolvars

LEMMA LeastOfSet ==
  ASSUME NEW D, D \subseteq Nat, D # {}
  PROVE  Min(D) \in D /\ \A y \in D : Min(D) <= y
<1>. DEFINE R == OpToRel(<, Nat)
<1>1. IsWellFoundedOn(R, Nat)
  BY NatLessThanWellFounded
<1>2. \A x, y \in Nat : <<x, y>> \in R <=> x < y
  BY DEF OpToRel
<1>. HIDE DEF R
<1>3. PICK x \in D : \A y \in D : ~(<<y, x>> \in R)
  BY <1>1, WFMin
<1>4. \A y \in D : x <= y
  <2>. TAKE y \in D
  <2>1. x \in Nat /\ y \in Nat /\ ~(<<y, x>> \in R)
    BY <1>3, Zenon
  <2>2. ~(y < x)
    BY <1>2, <2>1, Zenon
  <2>. QED BY <2>1, <2>2
<1>. QED BY <1>4 DEF Min

LEMMA SeqOfFunction ==
  ASSUME NEW n \in Nat, NEW v \in [1 .. n -> Nat] PROVE v \in Seq(Nat) /\ Len(v) = n
<1>1. v \in Seq(Nat)
  BY SeqDef
<1>. QED BY <1>1, LenProperties

\* A static_string<N> that reads as the text v, with a terminator behind it.
ReadsAs(str, v, N) ==
  /\ str \in [n : 0 .. N, s : [0 .. N -> Nat]] /\ str.s[str.n] = 0
  /\ v \in Seq(Nat) /\ Len(v) = str.n /\ \A k \in 1 .. str.n : v[k] = str.s[k - 1]

IsPair(f) == f = [i \in 1 .. 2 |-> f[i]]

StringInv ==
  IsPair(strs) /\ IsPair(texts) /\ \A i \in 1 .. 2 : ReadsAs(strs[i], texts[i], Limits[i])

LEMMA MadeString ==
  ASSUME NEW N \in Nat, NEW n \in 0 .. N, NEW s \in [0 .. N -> Nat], s[n] = 0,
         NEW v \in Seq(Nat), Len(v) = n, \A k \in 1 .. n : v[k] = s[k - 1]
  PROVE  ReadsAs([n |-> n, s |-> s], v, N)
BY DEF ReadsAs

LEMMA LiteralReads ==
  ASSUME NEW v \in Seq(Nat) PROVE ReadsAs(Literal(v), v, Len(v))
<1>. DEFINE n == Len(v)
            s == [k \in 0 .. n |-> IF k = n THEN 0 ELSE v[k + 1]]
<1>1. n \in Nat /\ n \in 0 .. n
  BY LenProperties
<1>2. \A k \in 1 .. n : v[k] \in Nat
  BY <1>1, ElementOfSeq
<1>3. s \in [0 .. n -> Nat] /\ s[n] = 0 /\ \A k \in 1 .. n : v[k] = s[k - 1]
  BY <1>1, <1>2
<1>4. Literal(v) = [n |-> n, s |-> s]
  BY DEF Literal
<1>. HIDE DEF s
<1>5. ReadsAs([n |-> n, s |-> s], v, n)
  BY <1>1, <1>3, MadeString
<1>. QED BY <1>4, <1>5

LEMMA CopyReads ==
  ASSUME NEW N \in Nat, NEW M \in Nat, NEW a, NEW u, NEW b, NEW v,
         ReadsAs(a, u, N), ReadsAs(b, v, M), b.n <= N
  PROVE  ReadsAs(CopyChars(a, b), v, N)
<1>. DEFINE n == b.n
            s == [k \in 0 .. N |-> IF k <= n THEN b.s[k] ELSE a.s[k]]
<1>1. /\ n \in 0 .. N /\ n <= M /\ b.s \in [0 .. M -> Nat] /\ a.s \in [0 .. N -> Nat]
      /\ b.s[n] = 0 /\ v \in Seq(Nat) /\ Len(v) = n /\ \A k \in 1 .. n : v[k] = b.s[k - 1]
  BY DEF ReadsAs
<1>2. s \in [0 .. N -> Nat] /\ s[n] = 0 /\ \A k \in 1 .. n : v[k] = s[k - 1]
  BY <1>1, SMTT(30)
<1>3. CopyChars(a, b) = [n |-> n, s |-> s]
  BY <1>1 DEF CopyChars
<1>. HIDE DEF n, s
<1>. QED BY <1>1, <1>2, <1>3, MadeString

LEMMA FillReads ==
  ASSUME NEW N \in Nat, NEW a, NEW u, ReadsAs(a, u, N), NEW n \in 0 .. N, NEW c \in Nat
  PROVE  ReadsAs(resize_fill(a, n, c), [k \in 1 .. n |-> IF k <= Len(u) THEN u[k] ELSE c], N)
<1>. DEFINE s == [k \in 0 .. N |-> IF k = n THEN 0 ELSE IF a.n <= k /\ k < n THEN c ELSE a.s[k]]
            v == [k \in 1 .. n |-> IF k <= Len(u) THEN u[k] ELSE c]
<1>1. /\ a.n \in 0 .. N /\ a.s \in [0 .. N -> Nat]
      /\ u \in Seq(Nat) /\ Len(u) = a.n /\ \A k \in 1 .. a.n : u[k] = a.s[k - 1]
  BY DEF ReadsAs
<1>2. s \in [0 .. N -> Nat] /\ s[n] = 0
  BY <1>1
<1>3. v \in [1 .. n -> Nat]
  BY <1>1
<1>4. \A k \in 1 .. n : v[k] = s[k - 1]
  BY <1>1
<1>5. resize_fill(a, n, c) = [n |-> n, s |-> s]
  BY <1>1 DEF resize_fill
<1>. HIDE DEF v, s
<1>6. v \in Seq(Nat) /\ Len(v) = n
  BY <1>3, SeqOfFunction
<1>7. ReadsAs([n |-> n, s |-> s], v, N)
  BY <1>2, <1>4, <1>6, MadeString
<1>. QED BY <1>5, <1>7 DEF v

LEMMA ResizeReads ==
  ASSUME NEW N \in Nat, NEW a, NEW u, ReadsAs(a, u, N), NEW n \in 0 .. N
  PROVE  ReadsAs(resize(a, n),
                 SubSeq(u, 1, Min({n, Len(u)})) \o SubSeq(FirstOf(a, n), Len(u) + 1, n), N)
<1>. DEFINE l == a.n
            m == Min({n, Len(u)})
            s == [a.s EXCEPT ![n] = 0]
            w == FirstOf(a, n)
            front == SubSeq(u, 1, m)
            back == SubSeq(w, l + 1, n)
<1>1. /\ l \in 0 .. N /\ a.s \in [0 .. N -> Nat]
      /\ u \in Seq(Nat) /\ Len(u) = l /\ \A k \in 1 .. l : u[k] = a.s[k - 1]
  BY DEF ReadsAs
<1>2. s \in [0 .. N -> Nat] /\ s[n] = 0 /\ \A k \in 1 .. n : s[k - 1] = a.s[k - 1]
  BY <1>1
<1>3. \A k \in 1 .. n : w[k] = a.s[k - 1] /\ w[k] \in Nat
  BY <1>1 DEF FirstOf
<1>4. m = IF n <= l THEN n ELSE l
  <2>1. n \in Nat /\ l \in Nat /\ m = Min({n, l})
    BY <1>1
  <2>. HIDE DEF l, m
  <2>. QED BY <2>1, MinIs
<1>5. resize(a, n) = [n |-> n, s |-> s] /\ Len(u) = l
  BY <1>1 DEF resize
<1>. HIDE DEF l, m, s, w
<1>6. front \in Seq(Nat) /\ Len(front) = m /\ \A i \in 1 .. m : front[i] = u[i]
  <2>1. m \in Int /\ \A i \in 1 .. m : u[i] \in Nat
    BY <1>1, <1>4, ElementOfSeq
  <2>2. /\ front \in Seq(Nat) /\ Len(front) = (IF 1 <= m THEN m - 1 + 1 ELSE 0)
        /\ \A i \in 1 .. m - 1 + 1 : front[i] = u[1 + i - 1]
    BY <2>1, SubSeqProperties
  <2>. HIDE DEF front
  <2>. QED BY <1>1, <1>4, <2>1, <2>2
<1>7. /\ back \in Seq(Nat) /\ Len(back) = (IF l < n THEN n - l ELSE 0)
      /\ \A i \in 1 .. n - l : back[i] = w[l + i]
  <2>1. l + 1 \in Int /\ n \in Int /\ \A i \in l + 1 .. n : w[i] \in Nat
    BY <1>1, <1>3
  <2>2. /\ back \in Seq(Nat) /\ Len(back) = (IF l + 1 <= n THEN n - (l + 1) + 1 ELSE 0)
        /\ \A i \in 1 .. n - (l + 1) + 1 : back[i] = w[(l + 1) + i - 1]
    BY <2>1, SubSeqProperties
  <2>. HIDE DEF back
  <2>3. l \in Nat /\ n \in Nat
    BY <1>1
  <2>4. n - (l + 1) + 1 = n - l /\ (l + 1 <= n <=> l < n)
    BY <2>3
  <2>5. ASSUME NEW i \in 1 .. n - l PROVE back[i] = w[l + i]
    <3>1. (l + 1) + i - 1 = l + i
      BY <2>3, <2>5
    <3>. QED BY <2>2, <2>4, <2>5, <3>1
  <2>. QED BY <2>2, <2>4, <2>5
<1>. HIDE DEF front, back
<1>. DEFINE v == front \o back
<1>8. /\ v \in Seq(Nat) /\ Len(v) = Len(front) + Len(back)
      /\ \A i \in 1 .. Len(front) + Len(back) :
           v[i] = IF i <= Len(front) THEN front[i] ELSE back[i - Len(front)]
  BY <1>6, <1>7, ConcatProperties
<1>. HIDE DEF v
<1>9. Len(v) = n
  BY <1>1, <1>4, <1>6, <1>7, <1>8
<1>10. \A k \in 1 .. n : v[k] = s[k - 1]
  <2>. TAKE k \in 1 .. n
  <2>1. CASE k <= m
    <3>1. k \in 1 .. m /\ k \in 1 .. l
      BY <1>1, <1>4, <2>1
    <3>2. v[k] = front[k] /\ front[k] = u[k]
      BY <1>6, <1>8, <1>9, <2>1, <3>1
    <3>. QED BY <1>1, <1>2, <3>1, <3>2
  <2>2. CASE k > m
    <3>1. m = l /\ l < n /\ k - l \in 1 .. n - l /\ l + (k - l) = k
      BY <1>1, <1>4, <2>2
    <3>2. v[k] = back[k - l]
      <4>1. k \in 1 .. Len(front) + Len(back)
        BY <1>8, <1>9
      <4>2. Len(front) = l /\ ~(k <= Len(front))
        BY <1>1, <1>6, <2>2, <3>1
      <4>. QED BY <1>8, <4>1, <4>2
    <3>3. back[k - l] = w[k]
      BY <1>7, <3>1
    <3>. QED BY <1>2, <1>3, <3>2, <3>3
  <2>. QED BY <1>1, <1>4, <2>1, <2>2
<1>11. ReadsAs([n |-> n, s |-> s], v, N)
  BY <1>2, <1>8, <1>9, <1>10, MadeString
<1>. QED BY <1>5, <1>11 DEF v, front, back, m, w

LEMMA WriteReads ==
  ASSUME NEW N \in Nat, NEW a, NEW u, ReadsAs(a, u, N), NEW pos \in Nat, pos < a.n, NEW c \in Nat
  PROVE  ReadsAs([a EXCEPT !.s[pos] = c], [u EXCEPT ![pos + 1] = c], N)
<1>. DEFINE n == a.n
            s == [a.s EXCEPT ![pos] = c]
            v == [u EXCEPT ![pos + 1] = c]
<1>1. /\ n \in 0 .. N /\ a.s \in [0 .. N -> Nat] /\ a.s[n] = 0 /\ a = [n |-> a.n, s |-> a.s]
      /\ u \in Seq(Nat) /\ Len(u) = n /\ \A k \in 1 .. n : u[k] = a.s[k - 1]
  BY DEF ReadsAs
<1>2. s \in [0 .. N -> Nat] /\ s[n] = 0
  BY <1>1
<1>3. pos + 1 \in 1 .. Len(u)
  BY <1>1
<1>4. v \in Seq(Nat) /\ Len(v) = n
  BY <1>1, <1>3, ExceptSeq
<1>5. DOMAIN u = 1 .. n
  BY <1>1, LenProperties
<1>6. \A k \in 1 .. n : v[k] = s[k - 1]
  BY <1>1, <1>3, <1>5
<1>7. [a EXCEPT !.s[pos] = c] = [n |-> n, s |-> s]
  <2>1. [a EXCEPT !.s[pos] = c] = [a EXCEPT !.s = s]
    BY <1>1
  <2>. HIDE DEF s
  <2>. QED BY <1>1, <2>1
<1>. HIDE DEF s, v
<1>8. ReadsAs([n |-> n, s |-> s], v, N)
  BY <1>1, <1>2, <1>4, <1>6, MadeString
<1>. QED BY <1>7, <1>8 DEF v

-----------------------------------------------------------------------------
LEMMA StringInitInv == ToolkitInit => StringInv
<1>. SUFFICES ASSUME StringInit PROVE StringInv
  BY DEF ToolkitInit
<1>1. IsPair(strs) /\ IsPair(texts)
  BY DEF StringInit, IsPair
<1>2. ASSUME NEW i \in 1 .. 2 PROVE ReadsAs(strs[i], texts[i], Limits[i])
  <2>. DEFINE N == Limits[i]
              s == [k \in 0 .. N |-> IF k = 0 THEN 0 ELSE Indeterminate]
  <2>1. strs[i] = [n |-> 0, s |-> s] /\ texts[i] = << >>
    BY <1>2 DEF StringInit
  <2>2. N \in Nat
    BY <1>2, StringAssumption
  <2>3. s \in [0 .. N -> Nat] /\ s[0] = 0 /\ 0 \in 0 .. N
    BY <2>2 DEF Indeterminate
  <2>4. << >> \in Seq(Nat) /\ Len(<< >>) = 0
    BY EmptySeq
  <2>. HIDE DEF N, s
  <2>5. ReadsAs([n |-> 0, s |-> s], << >>, N)
    <3>. DEFINE v == << >>
    <3>1. v \in Seq(Nat) /\ Len(v) = 0 /\ \A k \in 1 .. 0 : v[k] = s[k - 1]
      BY <2>4
    <3>. HIDE DEF v
    <3>2. ReadsAs([n |-> 0, s |-> s], v, N)
      BY <2>2, <2>3, <3>1, MadeString
    <3>. QED BY <3>2 DEF v
  <2>. QED BY <2>1, <2>5 DEF N
<1>. QED BY <1>1, <1>2 DEF StringInv

Put(f, i, x) == [f EXCEPT ![i] = x]

LEMMA KeepsPair ==
  ASSUME NEW f, IsPair(f), NEW i \in 1 .. 2, NEW x
  PROVE  IsPair(Put(f, i, x)) /\ Put(f, i, x)[i] = x /\ Put(f, i, x)[3 - i] = f[3 - i]
<1>1. DOMAIN f = 1 .. 2
  BY DEF IsPair
<1>. QED BY <1>1 DEF IsPair, Put

LEMMA KeepsSetString ==
  ASSUME StringInv, NEW i \in 1 .. 2, NEW str, NEW v, SetString(i, str, v),
         ReadsAs(str, v, Limits[i])
  PROVE  StringInv'
<1>1. /\ IsPair(strs') /\ strs'[i] = str /\ strs'[3 - i] = strs[3 - i]
      /\ IsPair(texts') /\ texts'[i] = v /\ texts'[3 - i] = texts[3 - i]
  <2>1. /\ IsPair(strs) /\ strs' = Put(strs, i, str)
        /\ IsPair(texts) /\ texts' = Put(texts, i, v)
    BY DEF StringInv, SetString, Put
  <2>2. IsPair(strs') /\ strs'[i] = str /\ strs'[3 - i] = strs[3 - i]
    BY <2>1, KeepsPair
  <2>3. IsPair(texts') /\ texts'[i] = v /\ texts'[3 - i] = texts[3 - i]
    BY <2>1, KeepsPair
  <2>. QED BY <2>2, <2>3
<1>2. 3 - i \in 1 .. 2 /\ \A j \in 1 .. 2 : j = i \/ j = 3 - i
  OBVIOUS
<1>3. ReadsAs(strs[3 - i], texts[3 - i], Limits[3 - i])
  BY <1>2 DEF StringInv
<1>. QED BY <1>1, <1>2, <1>3 DEF StringInv

LEMMA StringStepInv == StringInv /\ [StringNext]_strvars => StringInv'
<1>. SUFFICES ASSUME StringInv, [StringNext]_strvars PROVE StringInv'
  OBVIOUS
<1>1. ASSUME UNCHANGED strvars PROVE StringInv'
  BY <1>1 DEF strvars, StringInv
<1>2. ASSUME NEW i \in 1 .. 2 PROVE Limits[i] \in Nat /\ ReadsAs(strs[i], texts[i], Limits[i])
  BY <1>2, StringAssumption DEF StringInv
<1>3. ASSUME NEW i \in 1 .. 2, Assign(i) PROVE StringInv'
  <2>1. 3 - i \in 1 .. 2
    BY <1>3
  <2>2. ReadsAs(CopyChars(strs[i], strs[3 - i]), texts[3 - i], Limits[i])
    BY <1>2, <1>3, <2>1, CopyReads DEF Assign, max_size
  <2>. QED BY <1>3, <2>2, KeepsSetString DEF Assign
<1>4. ASSUME NEW i \in 1 .. 2, NEW c \in Chars, NEW d \in Chars,
             NEW v \in {<< >>, <<c>>, <<c, d>>}, AssignLiteral(i, v)
      PROVE  StringInv'
  <2>1. v \in Seq(Nat)
    <3>1. c \in Nat /\ d \in Nat
      BY <1>4, StringAssumption
    <3>2. << >> \in Seq(Nat) /\ <<c>> \in Seq(Nat) /\ <<c, d>> \in Seq(Nat)
      BY <3>1
    <3>. QED BY <1>4, <3>2
  <2>2. Len(v) \in Nat /\ ReadsAs(Literal(v), v, Len(v)) /\ Literal(v).n = Len(v)
    BY <2>1, LiteralReads, LenProperties DEF Literal
  <2>3. ReadsAs(CopyChars(strs[i], Literal(v)), v, Limits[i])
    BY <1>2, <1>4, <2>2, CopyReads DEF AssignLiteral, max_size
  <2>. QED BY <1>4, <2>3, KeepsSetString DEF AssignLiteral
<1>5. ASSUME NEW i \in 1 .. 2, NEW n \in 0 .. Limits[i] + 1, Resize(i, n) PROVE StringInv'
  <2>1. n \in 0 .. Limits[i]
    BY <1>2, <1>5 DEF Resize, max_size
  <2>2. ReadsAs(resize(strs[i], n), SubSeq(texts[i], 1, Min({n, Len(texts[i])}))
                  \o SubSeq(FirstOf(strs[i], n), Len(texts[i]) + 1, n), Limits[i])
    BY <1>2, <1>5, <2>1, ResizeReads
  <2>. QED BY <1>5, <2>2, KeepsSetString DEF Resize
<1>6. ASSUME NEW i \in 1 .. 2, NEW n \in 0 .. Limits[i] + 1, NEW c \in Chars, ResizeFill(i, n, c)
      PROVE  StringInv'
  <2>1. n \in 0 .. Limits[i] /\ c \in Nat
    BY <1>2, <1>6, StringAssumption DEF ResizeFill, max_size
  <2>2. ReadsAs(resize_fill(strs[i], n, c),
                [k \in 1 .. n |-> IF k <= Len(texts[i]) THEN texts[i][k] ELSE c], Limits[i])
    BY <1>2, <1>6, <2>1, FillReads
  <2>. QED BY <1>6, <2>2, KeepsSetString DEF ResizeFill
<1>7. ASSUME NEW i \in 1 .. 2, NEW n \in 0 .. Limits[i] + 1, NEW c \in Chars, WriteAt(i, n, c)
      PROVE  StringInv'
  <2>1. strs[i].n \in Nat
    BY <1>2, <1>7 DEF ReadsAs
  <2>2. n \in Nat /\ c \in Nat /\ n < strs[i].n
    BY <1>2, <1>7, <2>1, StringAssumption DEF WriteAt, at_throws
  <2>3. ReadsAs([strs[i] EXCEPT !.s[n] = c], [texts[i] EXCEPT ![n + 1] = c], Limits[i])
    BY <1>2, <1>7, <2>2, WriteReads
  <2>. QED BY <1>7, <2>3, KeepsSetString DEF WriteAt
<1>8. ASSUME NEW i \in 1 .. 2, AssignThrows(i) PROVE StringInv'
  BY <1>1, <1>8 DEF AssignThrows
<1>9. ASSUME NEW i \in 1 .. 2, NEW n, ResizeThrows(i, n) PROVE StringInv'
  BY <1>1, <1>9 DEF ResizeThrows
<1>. QED BY <1>1, <1>3, <1>4, <1>5, <1>6, <1>7, <1>8, <1>9 DEF StringNext

\* TraitsCompare stops at the first difference of two texts, if they have one
\* before one of them ends.
LEMMA TraitsCompareIs ==
  ASSUME NEW a, NEW b, NEW m \in Nat, \A k \in 0 .. m - 1 : a[k] \in Nat /\ b[k] \in Nat
  PROVE  \/ TraitsCompare(a, b, m) = 0 /\ \A k \in 0 .. m - 1 : a[k] = b[k]
         \/ \E d \in 0 .. m - 1 :
              /\ \A k \in 0 .. d - 1 : a[k] = b[k]
              /\ a[d] # b[d]
              /\ TraitsCompare(a, b, m) = IF a[d] < b[d] THEN -1 ELSE 1
<1>. DEFINE diff == {k \in 0 .. m - 1 : a[k] # b[k]}
            d == Min(diff)
<1>1. CASE diff = {}
  BY <1>1 DEF TraitsCompare
<1>2. CASE diff # {}
  <2>1. d \in diff /\ \A y \in diff : d <= y
    <3>1. diff \subseteq Nat
      OBVIOUS
    <3>. HIDE DEF diff
    <3>. QED BY <1>2, <3>1, LeastOfSet
  <2>2. TraitsCompare(a, b, m) = IF a[d] < b[d] THEN -1 ELSE 1
    BY <1>2 DEF TraitsCompare
  <2>. HIDE DEF d
  <2>3. d \in 0 .. m - 1 /\ a[d] # b[d] /\ \A k \in 0 .. d - 1 : a[k] = b[k]
    BY <2>1
  <2>. QED BY <2>2, <2>3
<1>. QED BY <1>1, <1>2

\* The first difference decides the order.
LEMMA FirstDecides ==
  ASSUME NEW u \in Seq(Nat), NEW v \in Seq(Nat), NEW d \in Nat, d + 1 \in 1 .. Len(u),
         d + 1 \in 1 .. Len(v), \A k \in 1 .. d : u[k] = v[k], u[d + 1] # v[d + 1],
         u[d + 1] \in Nat, v[d + 1] \in Nat
  PROVE  Precedes(u, v) <=> u[d + 1] < v[d + 1]
<1>1. ASSUME u[d + 1] < v[d + 1] PROVE Precedes(u, v)
  <2>1. \A j \in 1 .. (d + 1) - 1 : u[j] = v[j]
    OBVIOUS
  <2>. QED BY <1>1, <2>1, LenProperties, SMTT(30) DEF Precedes
<1>2. ASSUME Precedes(u, v) PROVE u[d + 1] < v[d + 1]
  <2>1. PICK k \in 1 .. Len(v) : /\ k <= Len(u) + 1 /\ \A j \in 1 .. k - 1 : u[j] = v[j]
                                 /\ k <= Len(u) => u[k] < v[k]
    BY <1>2 DEF Precedes
  <2>2. Len(u) \in Nat /\ Len(v) \in Nat
    BY LenProperties
  <2>3. ~(k > d + 1)
    BY <2>1, <2>2
  <2>4. ~(k < d + 1)
    <3>. SUFFICES ASSUME k < d + 1 PROVE FALSE
      OBVIOUS
    <3>1. k \in 1 .. d /\ k <= Len(u)
      BY <2>1, <2>2
    <3>2. u[k] = v[k] /\ u[k] < v[k] /\ u[k] \in Nat
      BY <2>1, <2>2, <3>1, ElementOfSeq
    <3>. QED BY <3>2
  <2>5. k = d + 1
    BY <2>1, <2>2, <2>3, <2>4
  <2>. QED BY <2>1, <2>2, <2>5
<1>. QED BY <1>1, <1>2

\* compare() of two strings is the order of the dictionary of their texts.
LEMMA CompareIs ==
  ASSUME NEW N \in Nat, NEW M \in Nat, NEW a, NEW u, NEW b, NEW v,
         ReadsAs(a, u, N), ReadsAs(b, v, M)
  PROVE  /\ compare(a, b) \in {-1, 0, 1} /\ (compare(a, b) = 0 <=> u = v)
         /\ (compare(a, b) = -1 <=> Precedes(u, v)) /\ (compare(a, b) = 1 <=> Precedes(v, u))
<1>. DEFINE x == a.n
            y == b.n
            m == IF x <= y THEN x ELSE y
            p == a.s
            q == b.s
            t == TraitsCompare(p, q, m)
            c == IF t # 0 \/ x = y THEN t ELSE IF x < y THEN -1 ELSE 1
<1>1. /\ x \in Nat /\ x <= N /\ u \in Seq(Nat) /\ Len(u) = x
      /\ p \in [0 .. N -> Nat] /\ \A k \in 1 .. x : u[k] = p[k - 1]
  BY DEF ReadsAs
<1>2. /\ y \in Nat /\ y <= M /\ v \in Seq(Nat) /\ Len(v) = y
      /\ q \in [0 .. M -> Nat] /\ \A k \in 1 .. y : v[k] = q[k - 1]
  BY DEF ReadsAs
<1>3. compare(a, b) = c
  <2>1. Min({x, y}) = m
    BY <1>1, <1>2, MinIs
  <2>. QED BY <2>1 DEF compare
<1>. HIDE DEF x, y, p, q
<1>4. m \in Nat /\ m <= x /\ m <= y /\ (x < y => m = x) /\ (~(x < y) => m = y)
      /\ (~(y < x) => m = x)
  BY <1>1, <1>2
<1>. HIDE DEF m
<1>5. ASSUME NEW k \in 0 .. m - 1
      PROVE  p[k] \in Nat /\ q[k] \in Nat /\ u[k + 1] = p[k] /\ v[k + 1] = q[k]
  <2>1. k + 1 \in 1 .. x /\ k + 1 \in 1 .. y /\ (k + 1) - 1 = k /\ k \in 0 .. N /\ k \in 0 .. M
    BY <1>1, <1>2, <1>4, <1>5
  <2>. QED BY <1>1, <1>2, <2>1
<1>6. \/ t = 0 /\ \A k \in 0 .. m - 1 : p[k] = q[k]
      \/ \E d \in 0 .. m - 1 :
           /\ \A k \in 0 .. d - 1 : p[k] = q[k]
           /\ p[d] # q[d]
           /\ t = IF p[d] < q[d] THEN -1 ELSE 1
  BY <1>4, <1>5, TraitsCompareIs
<1>7. CASE t = 0 /\ \A k \in 0 .. m - 1 : p[k] = q[k]
  <2>1. \A k \in 1 .. m : u[k] = v[k]
    <3>. TAKE k \in 1 .. m
    <3>1. k - 1 \in 0 .. m - 1 /\ (k - 1) + 1 = k
      BY <1>4
    <3>. QED BY <1>5, <1>7, <3>1
  <2>2. c = (IF x = y THEN 0 ELSE IF x < y THEN -1 ELSE 1)
    BY <1>7
  <2>. HIDE DEF t
  <2>3. u = v <=> x = y
    <3>1. ASSUME x = y PROVE u = v
      BY <1>1, <1>2, <1>4, <2>1, <3>1, SeqEqual
    <3>. QED BY <1>1, <1>2, <3>1
  <2>4. Precedes(u, v) <=> x < y
    <3>1. ASSUME x < y PROVE Precedes(u, v)
      <4>. DEFINE k == x + 1
      <4>1. /\ k \in 1 .. Len(v) /\ k <= Len(u) + 1 /\ ~(k <= Len(u))
            /\ \A j \in 1 .. k - 1 : u[j] = v[j]
        BY <1>1, <1>2, <1>4, <2>1, <3>1
      <4>. HIDE DEF k
      <4>. QED BY <4>1 DEF Precedes
    <3>2. ASSUME ~(x < y), NEW k \in 1 .. Len(v), k <= Len(u) => u[k] < v[k] PROVE FALSE
      <4>1. k \in 1 .. m /\ k \in 1 .. Len(u)
        BY <1>1, <1>2, <1>4, <3>2
      <4>2. u[k] = v[k] /\ u[k] < v[k] /\ u[k] \in Nat
        BY <1>1, <1>2, <2>1, <3>2, <4>1, ElementOfSeq
      <4>. QED BY <4>2
    <3>. QED BY <3>1, <3>2 DEF Precedes
  <2>5. Precedes(v, u) <=> y < x
    <3>1. ASSUME y < x PROVE Precedes(v, u)
      <4>. DEFINE k == y + 1
      <4>1. /\ k \in 1 .. Len(u) /\ k <= Len(v) + 1 /\ ~(k <= Len(v))
            /\ \A j \in 1 .. k - 1 : v[j] = u[j]
        BY <1>1, <1>2, <1>4, <2>1, <3>1
      <4>. HIDE DEF k
      <4>. QED BY <4>1 DEF Precedes
    <3>2. ASSUME ~(y < x), NEW k \in 1 .. Len(u), k <= Len(v) => v[k] < u[k] PROVE FALSE
      <4>1. k \in 1 .. m /\ k \in 1 .. Len(v)
        BY <1>1, <1>2, <1>4, <3>2
      <4>2. u[k] = v[k] /\ v[k] < u[k] /\ v[k] \in Nat
        BY <1>1, <1>2, <2>1, <3>2, <4>1, ElementOfSeq
      <4>. QED BY <4>2
    <3>. QED BY <3>1, <3>2 DEF Precedes
  <2>. QED BY <1>1, <1>2, <1>3, <2>2, <2>3, <2>4, <2>5
<1>8. ASSUME NEW d \in 0 .. m - 1, \A k \in 0 .. d - 1 : p[k] = q[k], p[d] # q[d],
             t = IF p[d] < q[d] THEN -1 ELSE 1
      PROVE  /\ c \in {-1, 0, 1} /\ (c = 0 <=> u = v)
             /\ (c = -1 <=> Precedes(u, v)) /\ (c = 1 <=> Precedes(v, u))
  <2>1. \A k \in 1 .. d : u[k] = v[k]
    <3>. TAKE k \in 1 .. d
    <3>1. k - 1 \in 0 .. d - 1 /\ k - 1 \in 0 .. m - 1 /\ (k - 1) + 1 = k
      BY <1>4, <1>8
    <3>. QED BY <1>5, <1>8, <3>1
  <2>2. /\ d + 1 \in 1 .. Len(u) /\ d + 1 \in 1 .. Len(v) /\ u[d + 1] # v[d + 1]
        /\ u[d + 1] \in Nat /\ v[d + 1] \in Nat /\ d \in Nat
    BY <1>1, <1>2, <1>4, <1>5, <1>8
  <2>3. c = (IF u[d + 1] < v[d + 1] THEN -1 ELSE 1)
    BY <1>5, <1>8
  <2>. HIDE DEF t, c
  <2>4. Precedes(u, v) <=> u[d + 1] < v[d + 1]
    BY <1>1, <1>2, <2>1, <2>2, FirstDecides
  <2>5. Precedes(v, u) <=> v[d + 1] < u[d + 1]
    BY <1>1, <1>2, <2>1, <2>2, FirstDecides
  <2>6. u # v
    BY <2>2
  <2>. QED BY <2>2, <2>3, <2>4, <2>5, <2>6
<1>. QED BY <1>3, <1>6, <1>7, <1>8

\* The six operators follow compare().
LEMMA RelationsAre ==
  ASSUME NEW a, NEW b, NEW u, NEW v, compare(a, b) \in {-1, 0, 1}, compare(a, b) = 0 <=> u = v,
         compare(a, b) = -1 <=> Precedes(u, v), compare(a, b) = 1 <=> Precedes(v, u)
  PROVE  LET r == Relations(a, b)
         IN  /\ r.eq <=> u = v
             /\ r.lt <=> Precedes(u, v)
             /\ r.gt <=> Precedes(v, u)
             /\ r.ne = ~r.eq /\ r.le = ~r.gt /\ r.ge = ~r.lt
<1>. DEFINE c == compare(a, b)
            r == Relations(a, b)
<1>1. /\ r.eq = (c = 0) /\ r.ne = (c # 0) /\ r.lt = (c < 0)
      /\ r.le = (c <= 0) /\ r.gt = (c > 0) /\ r.ge = (c >= 0)
  BY Zenon DEF Relations
<1>2. /\ c < 0 <=> c = -1
      /\ c > 0 <=> c = 1
      /\ c <= 0 <=> ~(c > 0)
      /\ c >= 0 <=> ~(c < 0)
  OBVIOUS
<1>. HIDE DEF c, r
<1>3. c = 0 <=> u = v
  BY DEF c
<1>4. (c = -1 <=> Precedes(u, v)) /\ (c = 1 <=> Precedes(v, u))
  BY DEF c
<1>5. /\ r.eq <=> u = v
      /\ r.lt <=> Precedes(u, v)
      /\ r.gt <=> Precedes(v, u)
      /\ r.ne = ~r.eq /\ r.le = ~r.gt /\ r.ge = ~r.lt
  <2>1. (c < 0) = (c = -1) /\ (c > 0) = (c = 1)
    BY <1>2
  <2>2. (c # 0) = ~(c = 0) /\ (c <= 0) = ~(c > 0) /\ (c >= 0) = ~(c < 0)
    BY <1>2
  <2>3. /\ r.eq <=> u = v
        /\ r.lt <=> Precedes(u, v)
        /\ r.gt <=> Precedes(v, u)
    BY <1>1, <1>3, <1>4, <2>1, Zenon
  <2>4. r.ne = ~r.eq
    BY <1>1, <2>2, Zenon
  <2>5. r.le = ~r.gt
    BY <1>1, <2>2, Zenon
  <2>6. r.ge = ~r.lt
    BY <1>1, <2>2, Zenon
  <2>. QED BY <2>3, <2>4, <2>5, <2>6
<1>. QED BY <1>5 DEF r

\* Each string holds its text and the terminator in every reachable state.
THEOREM StringInvariance == ToolkitSpec => []StringInv
BY StringInitInv, StringPart, StringStepInv, PTL DEF ToolkitSpec

\* For every pair of capacities and every set of characters, a static_string
\* reads as its text whatever was done to it before, and two strings compare
\* as their texts do, by the order of the dictionary.
THEOREM StringsAreTexts == ToolkitSpec => []StringIsText
<1>1. ASSUME StringInv PROVE StringIsText
  <2>1. ASSUME NEW i \in 1 .. 2
        PROVE  LET str == strs[i]
               IN  /\ str.n <= max_size(i) /\ str.s[str.n] = 0 /\ to_string(str) = texts[i]
                   /\ \A k \in DOMAIN texts[i] : Backward(str)[k] = texts[i][str.n + 1 - k]
                   /\ \A pos \in 0 .. Limits[i] :
                        at_throws(str, pos) <=> pos + 1 \notin DOMAIN texts[i]
                   /\ \A c \in Chars : compare(str, Literal(<<c>>)) = 0 <=> texts[i] = <<c>>
    <3>. DEFINE str == strs[i]
                v == texts[i]
                N == Limits[i]
    <3>1. N \in Nat /\ ReadsAs(str, v, N)
      BY <1>1, <2>1, StringAssumption DEF StringInv
    <3>. HIDE DEF str, v, N
    <3>. DEFINE n == str.n
                s == str.s
    <3>2. /\ n \in 0 .. N /\ s \in [0 .. N -> Nat] /\ s[n] = 0 /\ v \in Seq(Nat) /\ Len(v) = n
          /\ \A k \in 1 .. n : v[k] = s[k - 1]
      BY <3>1 DEF ReadsAs
    <3>3. DOMAIN v = 1 .. n /\ v \in [1 .. n -> Nat]
      BY <3>2, LenProperties
    <3>4. to_string(str) = v
      <4>1. to_string(str) = [k \in 1 .. n |-> s[k - 1]]
        BY DEF to_string, FirstOf
      <4>. HIDE DEF n, s
      <4>. QED BY <3>2, <3>3, <4>1
    <3>5. ASSUME NEW k \in DOMAIN v PROVE Backward(str)[k] = v[n + 1 - k]
      <4>1. Backward(str)[k] = s[n - k]
        BY <3>3, <3>5 DEF Backward
      <4>. HIDE DEF n, s
      <4>2. n + 1 - k \in 1 .. n /\ (n + 1 - k) - 1 = n - k
        BY <3>1, <3>2, <3>3, <3>5
      <4>. QED BY <3>2, <4>1, <4>2
    <3>6. ASSUME NEW pos \in 0 .. N PROVE at_throws(str, pos) <=> pos + 1 \notin DOMAIN v
      <4>1. at_throws(str, pos) <=> pos >= n
        BY DEF at_throws
      <4>. HIDE DEF n
      <4>. QED BY <3>1, <3>2, <3>3, <3>6, <4>1
    <3>7. ASSUME NEW c \in Chars PROVE compare(str, Literal(<<c>>)) = 0 <=> v = <<c>>
      <4>. DEFINE w == <<c>>
      <4>1. w \in Seq(Nat) /\ Len(w) = 1
        BY <3>7, StringAssumption
      <4>. HIDE DEF w
      <4>2. ReadsAs(Literal(w), w, 1)
        BY <4>1, LiteralReads
      <4>3. compare(str, Literal(w)) = 0 <=> v = w
        BY <3>1, <4>2, CompareIs
      <4>. QED BY <4>3 DEF w
    <3>8. n <= N
      BY <3>1, <3>2
    <3>. QED BY <3>2, <3>4, <3>5, <3>6, <3>7, <3>8 DEF str, v, N, max_size
  <2>2. LET r == Relations(strs[1], strs[2])
        IN  /\ r.eq <=> texts[1] = texts[2]
            /\ r.lt <=> Precedes(texts[1], texts[2])
            /\ r.gt <=> Precedes(texts[2], texts[1])
            /\ r.ne = ~r.eq /\ r.le = ~r.gt /\ r.ge = ~r.lt
    <3>1. /\ Limits[1] \in Nat /\ ReadsAs(strs[1], texts[1], Limits[1])
          /\ Limits[2] \in Nat /\ ReadsAs(strs[2], texts[2], Limits[2])
      BY <1>1, StringAssumption DEF StringInv
    <3>2. /\ compare(strs[1], strs[2]) \in {-1, 0, 1}
          /\ compare(strs[1], strs[2]) = 0 <=> texts[1] = texts[2]
          /\ compare(strs[1], strs[2]) = -1 <=> Precedes(texts[1], texts[2])
          /\ compare(strs[1], strs[2]) = 1 <=> Precedes(texts[2], texts[1])
      BY <3>1, CompareIs
    <3>. QED BY <3>2, RelationsAre
  <2>. QED BY <2>1, <2>2 DEF StringIsText
<1>. QED BY <1>1, StringInvariance, PTL

-----------------------------------------------------------------------------
(* The test framework.                                                     *)

LEMMA TestsPart == [ToolkitNext]_toolvars => [TestsNext]_tvars
BY DEF ToolkitNext, toolvars

\* The records of the framework, field by field.
IsCount(k) == k = [total |-> k.total, failed |-> k.failed] /\ k.total \in Nat /\ k.failed \in Nat
IsTally(k) ==
  /\ k = [cases |-> k.cases, total |-> k.total, failed |-> k.failed]
  /\ k.cases \in Nat /\ k.total \in Nat /\ k.failed \in Nat
IsHolding(k) ==
  /\ k = [cases |-> k.cases, held |-> k.held, total |-> 0, failed |-> k.failed]
  /\ k.cases \in Nat /\ k.held \in Nat /\ k.failed \in Nat
IsAll(k) ==
  /\ k = [suites |-> k.suites, cases |-> k.cases, total |-> k.total, failed |-> k.failed]
  /\ k.suites \in Nat /\ k.cases \in Nat /\ k.total \in Nat /\ k.failed \in Nat
IsRun(r) ==
  /\ r = [def |-> r.def, failed |-> r.failed, cond |-> r.cond, case |-> r.case,
          suite |-> r.suite, all |-> r.all, dead |-> r.dead]
  /\ r.def \in BOOLEAN /\ r.failed \in BOOLEAN /\ r.cond \in BOOLEAN
  /\ IsCount(r.case) /\ IsTally(r.suite) /\ IsAll(r.all)
IsRec(c) ==
  /\ c = [case |-> c.case, suite |-> c.suite, all |-> c.all]
  /\ IsCount(c.case) /\ IsHolding(c.suite) /\ IsHolding(c.all)
IsTruth(x) ==
  /\ x = [total |-> x.total, failed |-> x.failed, silent |-> x.silent, late |-> x.late]
  /\ x.total \in Nat /\ x.failed \in Nat /\ x.silent \in BOOLEAN /\ x.late \in Nat
Doing == {"idle", "body", "pass", "fail", "failed", "aborts", "over", "catch", "joined"}

\* What the reporter r has counted, of the suite that runs as well: the case
\* it has is of this suite if one has been opened.  busy: a suite runs.
ReportedTotal(r, busy) ==
  r.all.total + (IF busy THEN r.suite.total + (IF r.def THEN 0 ELSE r.case.total) ELSE 0)
ReportedFailed(r, busy) ==
  r.all.failed + (IF busy THEN r.suite.failed + (IF r.def THEN 0 ELSE r.case.failed) ELSE 0)

\* The same of the recorder c.
HeldTotal(c, r, busy) ==
  c.all.held + (IF busy THEN c.suite.held + (IF r.def THEN 0 ELSE c.case.total) ELSE 0)
HeldFailed(c, r, busy) ==
  c.all.failed + (IF busy THEN c.suite.failed + (IF r.def THEN 0 ELSE c.case.failed) ELSE 0)

\* The reporter and the recorder agree with what was checked, at any moment.
Agree(r, c, x, busy) ==
  /\ IsRun(r) /\ IsRec(c) /\ IsTruth(x)
  /\ ~x.silent => ReportedTotal(r, busy) = x.total /\ ReportedFailed(r, busy) = x.failed
  /\ ReportedTotal(r, busy) >= x.total
  /\ HeldTotal(c, r, busy) = x.total /\ HeldFailed(c, r, busy) = x.failed
  /\ busy /\ r.def => /\ r.suite.total = 0 /\ r.suite.failed = 0
                      /\ c.suite.held = 0 /\ c.suite.failed = 0
  /\ ~busy \/ r.def => c.case.total = 0
  /\ busy /\ ~r.def /\ c.case.total = 0 => c.case.failed = 0

\* The verdict: of the suites that have ended, and of the one that runs.
Verdict(f, r, x, busy) ==
  f \in BOOLEAN /\ (x.failed > 0 <=> (f \/ (busy /\ r.failed)))

Busy == actor[Main] # "idle"

Right(r, c, x, f, busy) == Agree(r, c, x, busy) /\ Verdict(f, r, x, busy)

CountsInv ==
  IF Busy THEN Right(run, rec, truth, sel.failed, TRUE)
  ELSE Right(run, rec, truth, sel.failed, FALSE)

\* The actors that have looked at the flags and will report a condition, and
\* the threads that are started and not joined.
Pending(ac) == {a \in Actors : ac[a] \in {"pass", "fail"}}
Started(ac) == {t \in Threads : ac[t] \notin {"idle", "joined"}}

\* The threads among which the late conditions are counted: a body that goes
\* on counts for one that has failed, so those it has started; once it aborts
\* or is over, any.
Stoppers(ac) == IF ac[Main] \in {"body", "pass", "fail", "failed"} THEN Started(ac) ELSE Threads

\* A suite ends when its threads are joined, and a body goes on after an abort
\* only if the abort was of a thread.
Orderly(ac, fl) ==
  /\ ac \in [Actors -> Doing] /\ fl \in [abort : BOOLEAN, aborted : BOOLEAN]
  /\ ac[Main] \in {"idle", "over"} => Started(ac) = {}
  /\ fl.aborted /\ ac[Main] \notin {"aborts", "over", "idle"} => Threads # {}
  /\ ac[Main] \notin {"catch", "joined"}

\* After an abort every thread counts one condition at most.
Stopping(ac, fl, late) ==
  /\ Orderly(ac, fl) /\ late \in Nat
  /\ ~(fl.abort /\ fl.aborted) => late = 0
  /\ fl.abort /\ fl.aborted => late + Cardinality(Pending(ac)) <= Cardinality(Stoppers(ac))

AbortInv == Stopping(actor, flags, truth.late)

\* Whether the selector has met the pattern, by suite i of its list.
ByName(i, pat) == pat \in {Suites[i].name, Suites[i].full}
Matches(i, pat) == ByName(i, pat) \/ pat = Suites[i].module \/ pat = Suites[i].library

\* Of the first n suites, ran are the ones asked for.  f is the first that
\* matches a pattern of match_auto.
Chosen(asked, mode, pat, ran, n) ==
  IF asked # "automatch"
  THEN /\ mode = asked /\ asked \in {"each", "all", "suite", "library"}
       /\ ran = {i \in 1 .. n : Select(Suites[i], asked, pat).pick}
  ELSE \/ mode = "automatch" /\ ran = {} /\ \A i \in 1 .. n : ~Matches(i, pat)
       \/ \E f \in 1 .. n :
            /\ Matches(f, pat) /\ \A i \in 1 .. f - 1 : ~Matches(i, pat)
            /\ \/ mode = "none" /\ ByName(f, pat) /\ ran = {f}
               \/ /\ mode = "module" /\ ~ByName(f, pat) /\ pat = Suites[f].module
                  /\ ran = {i \in 1 .. n : pat = Suites[i].module /\ ~Suites[i].manual}
               \/ /\ mode = "library" /\ ~ByName(f, pat) /\ pat # Suites[f].module
                  /\ ran = {i \in 1 .. n : pat = Suites[i].library /\ ~Suites[i].manual}

IsSel(q) ==
  /\ q = [i |-> q.i, asked |-> q.asked, pat |-> q.pat, mode |-> q.mode,
          library |-> q.library, ran |-> q.ran, failed |-> q.failed, steps |-> q.steps]

SelectInv ==
  /\ IsSel(sel)
  /\ sel.i \in 1 .. Len(Suites) + 1 /\ (Busy => sel.i <= Len(Suites))
  /\ Chosen(sel.asked, sel.mode, sel.pat, sel.ran, IF Busy THEN sel.i ELSE sel.i - 1)

TestsInv == CountsInv /\ AbortInv /\ SelectInv

-----------------------------------------------------------------------------
(* The counts of the reporter and of the recorder.                         *)

LEMMA RunFields ==
  ASSUME NEW r, IsRun(r)
  PROVE  /\ r.def \in BOOLEAN /\ r.failed \in BOOLEAN /\ r.cond \in BOOLEAN
         /\ r.all.total \in Nat /\ r.all.failed \in Nat
         /\ r.suite.total \in Nat /\ r.suite.failed \in Nat
         /\ r.case.total \in Nat /\ r.case.failed \in Nat
BY DEF IsRun, IsCount, IsTally, IsAll

LEMMA RecFields ==
  ASSUME NEW c, IsRec(c)
  PROVE  /\ c.all.held \in Nat /\ c.all.failed \in Nat
         /\ c.suite.held \in Nat /\ c.suite.failed \in Nat
         /\ c.case.total \in Nat /\ c.case.failed \in Nat
BY DEF IsRec, IsCount, IsHolding

LEMMA TruthFields ==
  ASSUME NEW x, IsTruth(x)
  PROVE  x.total \in Nat /\ x.failed \in Nat /\ x.silent \in BOOLEAN /\ x.late \in Nat
BY DEF IsTruth

RunOf(d, f, o, k, su, al, de) ==
  [def |-> d, failed |-> f, cond |-> o, case |-> k, suite |-> su, all |-> al, dead |-> de]

LEMMA RunOfEdited ==
  ASSUME NEW d, NEW f, NEW o, NEW k, NEW su, NEW al, NEW de, NEW y
  PROVE  LET r == RunOf(d, f, o, k, su, al, de)
         IN  /\ [r EXCEPT !.def = y] = RunOf(y, f, o, k, su, al, de)
             /\ [r EXCEPT !.failed = y] = RunOf(d, y, o, k, su, al, de)
             /\ [r EXCEPT !.cond = y] = RunOf(d, f, y, k, su, al, de)
             /\ [r EXCEPT !.case = y] = RunOf(d, f, o, y, su, al, de)
             /\ [r EXCEPT !.suite = y] = RunOf(d, f, o, k, y, al, de)
             /\ [r EXCEPT !.all = y] = RunOf(d, f, o, k, su, y, de)
             /\ [r EXCEPT !.dead = y] = RunOf(d, f, o, k, su, al, y)
BY DEF RunOf

LEMMA IsRunOf ==
  ASSUME NEW r, IsRun(r)
  PROVE  \E d, f, o, k, su, al, de : r = RunOf(d, f, o, k, su, al, de)
BY DEF IsRun, RunOf

LEMMA RunOfFields ==
  ASSUME NEW d, NEW f, NEW o, NEW k, NEW su, NEW al, NEW de
  PROVE  LET r == RunOf(d, f, o, k, su, al, de)
         IN  /\ r.def = d /\ r.failed = f /\ r.cond = o /\ r.case = k /\ r.suite = su
             /\ r.all = al /\ r.dead = de
             /\ d \in BOOLEAN /\ f \in BOOLEAN /\ o \in BOOLEAN /\ IsCount(k) /\ IsTally(su)
                  /\ IsAll(al) => IsRun(r)
BY DEF RunOf, IsRun

\* A case that the runner closes is added to its suite.
LEMMA TestcaseRun ==
  ASSUME NEW r, IsRun(r)
  PROVE  LET s == testcase(r)
         IN  /\ IsRun(s) /\ s.all = r.all /\ s.case = Zero /\ s.def = FALSE /\ s.failed = r.failed
             /\ s.suite.total = r.suite.total + (IF r.def THEN 0 ELSE r.case.total)
             /\ s.suite.failed = r.suite.failed + (IF r.def THEN 0 ELSE r.case.failed)
<1>1. PICK d, f, o, k, su, al, de : r = RunOf(d, f, o, k, su, al, de)
  BY IsRunOf
<1>2. /\ r.def = d /\ r.failed = f /\ r.case = k /\ r.suite = su /\ r.all = al
      /\ d \in BOOLEAN /\ f \in BOOLEAN /\ IsCount(k) /\ IsTally(su) /\ IsAll(al)
  BY <1>1, RunOfFields DEF IsRun
<1>. DEFINE x == IF d THEN su ELSE AddCase(su, k)
<1>3. testcase(r) = RunOf(FALSE, f, FALSE, Zero, x, al, de)
  <2>1. (IF r.def THEN r ELSE on_case_end(r)) = RunOf(d, f, o, k, x, al, de)
    <3>1. on_case_end(r) = RunOf(d, f, o, k, AddCase(su, k), al, de)
      BY <1>1, <1>2 DEF on_case_end, RunOf
    <3>. QED BY <1>1, <1>2, <3>1
  <2>. HIDE DEF x
  <2>2. testcase(r) = [RunOf(d, f, o, k, x, al, de) EXCEPT !.def = FALSE, !.cond = FALSE, !.case = Zero]
    BY <2>1 DEF testcase
  <2>. QED BY <2>2 DEF RunOf
<1>4. /\ IsTally(x) /\ x.total = su.total + (IF d THEN 0 ELSE k.total)
      /\ x.failed = su.failed + (IF d THEN 0 ELSE k.failed)
  <2>1. su.total \in Nat /\ su.failed \in Nat
    BY <1>2 DEF IsTally
  <2>2. CASE d
    BY <1>2, <2>1, <2>2
  <2>3. CASE ~d
    <3>1. x = AddCase(su, k)
      BY <2>3
    <3>. HIDE DEF x
    <3>. QED BY <1>2, <2>3, <3>1 DEF AddCase, IsTally, IsCount
  <2>. QED BY <1>2, <2>2, <2>3
<1>5. IsCount(Zero)
  BY DEF IsCount, Zero
<1>. HIDE DEF x
<1>6. IsRun(testcase(r))
  BY <1>2, <1>3, <1>4, <1>5 DEF RunOf, IsRun
<1>. QED BY <1>2, <1>3, <1>4, <1>6 DEF RunOf

\* The recorder drops the case of another suite and keeps one of this suite,
\* unless it is empty.
LEMMA TestcaseRec ==
  ASSUME NEW c, NEW r, IsRec(c), r.def \in BOOLEAN
  PROVE  LET d == rec_testcase(c, r)
         IN  /\ IsRec(d) /\ d.all = c.all /\ d.case = Zero
             /\ d.suite.held = c.suite.held + (IF r.def THEN 0 ELSE c.case.total)
             /\ c.case.total = 0 => d.suite.failed = c.suite.failed
             /\ c.case.total # 0 =>
                  d.suite.failed = c.suite.failed + (IF r.def THEN 0 ELSE c.case.failed)
<1>. DEFINE d == rec_testcase(c, r)
<1>1. IsCount(Zero)
  BY DEF IsCount, Zero
<1>2. /\ c = [case |-> c.case, suite |-> c.suite, all |-> c.all]
      /\ IsHolding(c.suite) /\ IsHolding(c.all) /\ IsCount(c.case)
      /\ c.suite.held \in Nat /\ c.suite.failed \in Nat /\ c.case.total \in Nat /\ c.case.failed \in Nat
  BY RecFields DEF IsRec
<1>3. CASE r.def \/ c.case.total = 0
  <2>1. d = [case |-> Zero, suite |-> c.suite, all |-> c.all]
    BY <1>2, <1>3 DEF rec_testcase, rec_case_end
  <2>2. IsRec(d) /\ d.all = c.all /\ d.suite = c.suite /\ d.case = Zero
    BY <1>1, <1>2, <2>1 DEF IsRec
  <2>. QED BY <1>2, <1>3, <2>2
<1>4. CASE ~r.def /\ c.case.total # 0
  <2>. DEFINE h == [cases |-> c.suite.cases + 1, held |-> c.suite.held + c.case.total,
                    total |-> c.suite.total + 0, failed |-> c.suite.failed + c.case.failed]
  <2>1. d = [case |-> Zero, suite |-> h, all |-> c.all]
    <3>1. PICK k, su, al : c = [case |-> k, suite |-> su, all |-> al]
      BY <1>2
    <3>2. c.case = k /\ c.suite = su /\ c.all = al
      BY <3>1
    <3>3. [c EXCEPT !.case.total = 0] = [case |-> [k EXCEPT !.total = 0], suite |-> su, all |-> al]
      BY <3>1
    <3>4. rec_case_end(c) = [case |-> [k EXCEPT !.total = 0], suite |-> h, all |-> al]
      BY <1>4, <3>1, <3>2, <3>3 DEF rec_case_end, MovedTotal
    <3>. HIDE DEF h
    <3>. QED BY <1>4, <3>2, <3>4 DEF rec_testcase
  <2>2. IsHolding(h) /\ h.held = c.suite.held + c.case.total /\ h.failed = c.suite.failed + c.case.failed
    BY <1>2 DEF IsHolding
  <2>. HIDE DEF h
  <2>3. IsRec(d) /\ d.all = c.all /\ d.suite = h /\ d.case = Zero
    BY <1>1, <1>2, <2>1, <2>2 DEF IsRec
  <2>. QED BY <1>4, <2>2, <2>3
<1>. QED BY <1>3, <1>4

\* The default case is opened, or the next one: nothing is counted by it.
LEMMA CaseOpened ==
  ASSUME NEW r, NEW c, NEW x, Agree(r, c, x, TRUE)
  PROVE  /\ Agree(testcase(r), rec_testcase(c, r), x, TRUE)
         /\ testcase(r).def = FALSE /\ testcase(r).failed = r.failed
<1>. DEFINE s == testcase(r)
            d == rec_testcase(c, r)
<1>1. IsRun(r) /\ IsRec(c) /\ IsTruth(x)
  BY DEF Agree
<1>2. /\ IsRun(s) /\ s.all = r.all /\ s.case = Zero /\ s.def = FALSE /\ s.failed = r.failed
      /\ s.suite.total = r.suite.total + (IF r.def THEN 0 ELSE r.case.total)
      /\ s.suite.failed = r.suite.failed + (IF r.def THEN 0 ELSE r.case.failed)
  BY <1>1, TestcaseRun
<1>3. /\ IsRec(d) /\ d.all = c.all /\ d.case = Zero
      /\ d.suite.held = c.suite.held + (IF r.def THEN 0 ELSE c.case.total)
      /\ c.case.total = 0 => d.suite.failed = c.suite.failed
      /\ c.case.total # 0 =>
           d.suite.failed = c.suite.failed + (IF r.def THEN 0 ELSE c.case.failed)
  BY <1>1, TestcaseRec, RunFields
<1>4. Zero.total = 0 /\ Zero.failed = 0
  BY DEF Zero
<1>5. ReportedTotal(s, TRUE) = ReportedTotal(r, TRUE) /\ ReportedFailed(s, TRUE) = ReportedFailed(r, TRUE)
  BY <1>1, <1>2, <1>4, RunFields DEF ReportedTotal, ReportedFailed
<1>6. HeldTotal(d, s, TRUE) = HeldTotal(c, r, TRUE)
  BY <1>1, <1>2, <1>3, <1>4, RecFields DEF HeldTotal
<1>7. HeldFailed(d, s, TRUE) = HeldFailed(c, r, TRUE)
  <2>1. r.def => c.case.total = 0
    BY DEF Agree
  <2>2. ~r.def /\ c.case.total = 0 => c.case.failed = 0
    BY DEF Agree
  <2>3. d.suite.failed = c.suite.failed + (IF r.def THEN 0 ELSE c.case.failed)
    BY <1>1, <1>3, <2>1, <2>2, RecFields, RunFields
  <2>. QED BY <1>1, <1>2, <1>3, <1>4, <2>3, RecFields DEF HeldFailed
<1>. QED BY <1>1, <1>2, <1>3, <1>4, <1>5, <1>6, <1>7 DEF Agree

LEMMA NowOpened ==
  ASSUME NEW r, NEW c, NEW x, Agree(r, c, x, TRUE)
  PROVE  /\ Agree(Opened(r), rec_opened(c, r), x, TRUE)
         /\ Opened(r).def = FALSE /\ Opened(r).failed = r.failed
<1>1. r.def \in BOOLEAN
  BY DEF Agree, IsRun
<1>2. CASE r.def
  BY <1>2, CaseOpened DEF Opened, rec_opened
<1>3. CASE ~r.def
  BY <1>1, <1>3 DEF Opened, rec_opened
<1>. QED BY <1>2, <1>3

\* A condition is reported in a case that is open: f is 1 if it failed.
LEMMA OneMore ==
  ASSUME NEW r, NEW c, NEW x, NEW s, NEW d, NEW y, NEW f \in {0, 1},
         Agree(r, c, x, TRUE), r.def = FALSE,
         IsRun(s), s.all = r.all, s.suite = r.suite, s.def = FALSE,
         s.case.total = r.case.total + 1, s.case.failed = r.case.failed + f,
         IsRec(d), d.all = c.all, d.suite = c.suite,
         d.case.total = c.case.total + 1, d.case.failed = c.case.failed + f,
         IsTruth(y), y.total = x.total + 1, y.failed = x.failed + f, y.silent <=> x.silent
  PROVE  Agree(s, d, y, TRUE)
<1>1. IsRun(r) /\ IsRec(c) /\ IsTruth(x)
  BY DEF Agree
<1>2. /\ ReportedTotal(s, TRUE) = ReportedTotal(r, TRUE) + 1 /\ ReportedTotal(r, TRUE) \in Nat
      /\ ReportedFailed(s, TRUE) = ReportedFailed(r, TRUE) + f
  BY <1>1, RunFields DEF ReportedTotal, ReportedFailed
<1>3. /\ HeldTotal(d, s, TRUE) = HeldTotal(c, r, TRUE) + 1
      /\ HeldFailed(d, s, TRUE) = HeldFailed(c, r, TRUE) + f
  BY <1>1, RecFields DEF HeldTotal, HeldFailed
<1>4. c.case.total \in Nat /\ x.total \in Nat
  BY <1>1, RecFields, TruthFields
<1>5. /\ ~x.silent => ReportedTotal(r, TRUE) = x.total /\ ReportedFailed(r, TRUE) = x.failed
      /\ ReportedTotal(r, TRUE) >= x.total
      /\ HeldTotal(c, r, TRUE) = x.total /\ HeldFailed(c, r, TRUE) = x.failed
  BY DEF Agree
<1>6. /\ ~y.silent => ReportedTotal(s, TRUE) = y.total /\ ReportedFailed(s, TRUE) = y.failed
      /\ ReportedTotal(s, TRUE) >= y.total
      /\ HeldTotal(d, s, TRUE) = y.total /\ HeldFailed(d, s, TRUE) = y.failed
  <2>1. ~y.silent => ~x.silent
    OBVIOUS
  <2>2. ASSUME ~x.silent PROVE ReportedTotal(s, TRUE) = y.total /\ ReportedFailed(s, TRUE) = y.failed
    BY <1>2, <1>5, <2>2
  <2>3. /\ ReportedTotal(s, TRUE) >= y.total
        /\ HeldTotal(d, s, TRUE) = y.total /\ HeldFailed(d, s, TRUE) = y.failed
    <3>1. HeldTotal(d, s, TRUE) = y.total /\ HeldFailed(d, s, TRUE) = y.failed
      BY <1>3, <1>5
    <3>2. ReportedTotal(s, TRUE) >= y.total
      <4>1. ReportedTotal(r, TRUE) >= x.total
        BY <1>5
      <4>2. ASSUME NEW u \in Nat, NEW v \in Nat, u >= v PROVE u + 1 >= v + 1
        BY <4>2
      <4>. QED BY <1>2, <1>4, <4>1, <4>2
    <3>. QED BY <3>1, <3>2
  <2>. QED BY <2>1, <2>2, <2>3
<1>7. d.case.total # 0
  BY <1>4
<1>. QED BY <1>6, <1>7 DEF Agree

\* What Counted makes of truth.
Told(x, f, n) == [x EXCEPT !.total = @ + 1, !.failed = @ + f, !.late = n]

LEMMA ToldFields ==
  ASSUME NEW x, IsTruth(x), NEW f \in {0, 1}, NEW n \in Nat
  PROVE  LET y == Told(x, f, n)
         IN  IsTruth(y) /\ y.total = x.total + 1 /\ y.failed = x.failed + f
             /\ (y.silent <=> x.silent) /\ y.late = n
<1>1. PICK a, b, si, l : x = [total |-> a, failed |-> b, silent |-> si, late |-> l]
  BY DEF IsTruth
<1>2. x.total = a /\ x.failed = b /\ x.silent = si /\ a \in Nat /\ b \in Nat /\ si \in BOOLEAN
  BY <1>1 DEF IsTruth
<1>3. Told(x, f, n) = [total |-> a + 1, failed |-> b + f, silent |-> si, late |-> n]
  <2>. DEFINE Rec(q1, q2, q3, q4) == [total |-> q1, failed |-> q2, silent |-> q3, late |-> q4]
  <2>1. ASSUME NEW q1, NEW q2, NEW q3, NEW q4, NEW v
        PROVE  /\ [Rec(q1, q2, q3, q4) EXCEPT !.total = v] = Rec(v, q2, q3, q4)
               /\ [Rec(q1, q2, q3, q4) EXCEPT !.failed = v] = Rec(q1, v, q3, q4)
               /\ [Rec(q1, q2, q3, q4) EXCEPT !.late = v] = Rec(q1, q2, q3, v)
               /\ Rec(q1, q2, q3, q4).failed = q2
    OBVIOUS
  <2>2. x = Rec(a, b, si, l) /\ x.total = a
    BY <1>1
  <2>. HIDE DEF Rec
  <2>3. [x EXCEPT !.total = x.total + 1] = Rec(a + 1, b, si, l)
    BY <2>1, <2>2
  <2>4. Told(x, f, n) = [[[x EXCEPT !.total = x.total + 1] EXCEPT !.failed = @ + f] EXCEPT !.late = n]
    BY DEF Told
  <2>5. [Rec(a + 1, b, si, l) EXCEPT !.failed = @ + f] = Rec(a + 1, b + f, si, l)
    BY <2>1
  <2>6. [[x EXCEPT !.total = x.total + 1] EXCEPT !.failed = @ + f] = Rec(a + 1, b + f, si, l)
    BY <2>3, <2>5
  <2>7. [Rec(a + 1, b + f, si, l) EXCEPT !.late = n] = Rec(a + 1, b + f, si, n)
    BY DEF Rec
  <2>8. Told(x, f, n) = Rec(a + 1, b + f, si, n)
    BY <2>4, <2>6, <2>7
  <2>. QED BY <2>8 DEF Rec
<1>4. a + 1 \in Nat /\ b + f \in Nat
  BY <1>2
<1>. QED BY <1>2, <1>3, <1>4 DEF IsTruth

LEMMA PassReported ==
  ASSUME NEW r, NEW c, NEW x, NEW n \in Nat, Agree(r, c, x, TRUE)
  PROVE  /\ Agree(runner_pass(r), rec_pass(c, r), Told(x, 0, n), TRUE)
         /\ runner_pass(r).failed = r.failed
<1>. DEFINE q == Opened(r)
            e == rec_opened(c, r)
<1>1. Agree(q, e, x, TRUE) /\ q.def = FALSE /\ q.failed = r.failed
  BY NowOpened
<1>2. IsRun(q) /\ IsRec(e) /\ IsTruth(x)
  BY <1>1 DEF Agree
<1>3. LET s == runner_pass(r)
      IN  /\ IsRun(s) /\ s.all = q.all /\ s.suite = q.suite /\ s.def = FALSE /\ s.failed = q.failed
          /\ s.case.total = q.case.total + 1 /\ s.case.failed = q.case.failed + 0
  <2>1. PICK de, f, o, k, su, al, da : q = RunOf(de, f, o, k, su, al, da)
    BY <1>2, IsRunOf
  <2>2. /\ q.def = de /\ q.failed = f /\ q.case = k /\ q.suite = su /\ q.all = al
        /\ f \in BOOLEAN /\ IsCount(k) /\ IsTally(su) /\ IsAll(al)
    BY <1>2, <2>1, RunOfFields DEF IsRun
  <2>3. PICK a, b : k = [total |-> a, failed |-> b] /\ a \in Nat /\ b \in Nat
    BY <2>2 DEF IsCount
  <2>4. runner_pass(r) = RunOf(de, f, TRUE, [total |-> a + 1, failed |-> b], su, al, da)
    <3>1. [q EXCEPT !.case.total = @ + 1] = RunOf(de, f, o, [total |-> a + 1, failed |-> b], su, al, da)
      BY <2>1, <2>3 DEF RunOf
    <3>2. runner_pass(r) = [[q EXCEPT !.case.total = @ + 1] EXCEPT !.cond = TRUE]
      BY DEF runner_pass
    <3>. DEFINE m == [total |-> a + 1, failed |-> b]
                yes == TRUE
    <3>. HIDE DEF m, yes
    <3>3. [RunOf(de, f, o, m, su, al, da) EXCEPT !.cond = yes] = RunOf(de, f, yes, m, su, al, da)
      BY DEF RunOf
    <3>. QED BY <3>1, <3>2, <3>3 DEF m, yes
  <2>5. IsCount([total |-> a + 1, failed |-> b])
    BY <2>3 DEF IsCount
  <2>6. IsRun(runner_pass(r))
    <3>1. de \in BOOLEAN
      BY <1>1, <2>2
    <3>. DEFINE m == [total |-> a + 1, failed |-> b]
    <3>2. IsCount(m) /\ runner_pass(r) = RunOf(de, f, TRUE, m, su, al, da)
      BY <2>4, <2>5
    <3>. HIDE DEF m
    <3>. QED BY <2>2, <3>1, <3>2 DEF RunOf, IsRun
  <2>. QED BY <1>1, <2>2, <2>3, <2>4, <2>6 DEF RunOf
<1>4. LET d == rec_pass(c, r)
      IN  /\ IsRec(d) /\ d.all = e.all /\ d.suite = e.suite
          /\ d.case.total = e.case.total + 1 /\ d.case.failed = e.case.failed + 0
  <2>1. PICK k, su, al : e = [case |-> k, suite |-> su, all |-> al]
    BY <1>2 DEF IsRec
  <2>2. e.case = k /\ e.suite = su /\ e.all = al /\ IsCount(k) /\ IsHolding(su) /\ IsHolding(al)
    BY <1>2, <2>1 DEF IsRec
  <2>3. PICK a, b : k = [total |-> a, failed |-> b] /\ a \in Nat /\ b \in Nat
    BY <2>2 DEF IsCount
  <2>4. rec_pass(c, r) = [case |-> [total |-> a + 1, failed |-> b], suite |-> su, all |-> al]
    BY <2>1, <2>3 DEF rec_pass
  <2>5. IsCount([total |-> a + 1, failed |-> b])
    BY <2>3 DEF IsCount
  <2>. QED BY <2>2, <2>3, <2>4, <2>5 DEF IsRec
<1>5. LET y == Told(x, 0, n)
      IN  IsTruth(y) /\ y.total = x.total + 1 /\ y.failed = x.failed + 0
          /\ (y.silent <=> x.silent)
  BY <1>2, ToldFields
<1>6. runner_pass(r).failed = r.failed
  BY <1>1, <1>3
<1>. QED BY <1>1, <1>3, <1>4, <1>5, <1>6, OneMore

LEMMA FailReported ==
  ASSUME NEW r, NEW c, NEW x, NEW n \in Nat, Agree(r, c, x, TRUE)
  PROVE  /\ Agree(runner_fail(r), rec_fail(c, r), Told(x, 1, n), TRUE)
         /\ runner_fail(r).failed = TRUE
<1>. DEFINE q == Opened(r)
            e == rec_opened(c, r)
<1>1. Agree(q, e, x, TRUE) /\ q.def = FALSE /\ q.failed = r.failed
  BY NowOpened
<1>2. IsRun(q) /\ IsRec(e) /\ IsTruth(x)
  BY <1>1 DEF Agree
<1>3. LET s == runner_fail(r)
      IN  /\ IsRun(s) /\ s.all = q.all /\ s.suite = q.suite /\ s.def = FALSE /\ s.failed = TRUE
          /\ s.case.total = q.case.total + 1 /\ s.case.failed = q.case.failed + 1
  <2>1. PICK de, f, o, k, su, al, da : q = RunOf(de, f, o, k, su, al, da)
    BY <1>2, IsRunOf
  <2>2. /\ q.def = de /\ q.case = k /\ q.suite = su /\ q.all = al
        /\ IsCount(k) /\ IsTally(su) /\ IsAll(al)
    BY <1>2, <2>1, RunOfFields DEF IsRun
  <2>3. PICK a, b : k = [total |-> a, failed |-> b] /\ a \in Nat /\ b \in Nat
    BY <2>2 DEF IsCount
  <2>. DEFINE m == [total |-> a + 1, failed |-> b + 1]
              yes == TRUE
  <2>4. runner_fail(r) = RunOf(de, yes, yes, m, su, al, da)
    <3>1. [q EXCEPT !.case.total = @ + 1] = RunOf(de, f, o, [total |-> a + 1, failed |-> b], su, al, da)
      BY <2>1, <2>3 DEF RunOf
    <3>2. [[q EXCEPT !.case.total = @ + 1] EXCEPT !.case.failed = @ + 1] = RunOf(de, f, o, m, su, al, da)
      <4>1. [RunOf(de, f, o, [total |-> a + 1, failed |-> b], su, al, da) EXCEPT !.case.failed = @ + 1]
              = RunOf(de, f, o, m, su, al, da)
        BY DEF RunOf
      <4>. HIDE DEF m
      <4>. QED BY <3>1, <4>1
    <3>3. runner_fail(r) = [[[[q EXCEPT !.case.total = @ + 1] EXCEPT !.case.failed = @ + 1]
                               EXCEPT !.cond = yes] EXCEPT !.failed = yes]
      BY DEF runner_fail
    <3>. HIDE DEF m, yes
    <3>4. [RunOf(de, f, o, m, su, al, da) EXCEPT !.cond = yes] = RunOf(de, f, yes, m, su, al, da)
      BY DEF RunOf
    <3>5. [RunOf(de, f, yes, m, su, al, da) EXCEPT !.failed = yes] = RunOf(de, yes, yes, m, su, al, da)
      BY DEF RunOf
    <3>. QED BY <3>2, <3>3, <3>4, <3>5
  <2>5. IsCount(m) /\ m.total = a + 1 /\ m.failed = b + 1 /\ yes \in BOOLEAN
    BY <2>3 DEF IsCount
  <2>6. IsRun(runner_fail(r))
    <3>1. de \in BOOLEAN
      BY <1>1, <2>2
    <3>. HIDE DEF m, yes
    <3>. QED BY <2>2, <2>4, <2>5, <3>1 DEF RunOf, IsRun
  <2>7. /\ runner_fail(r).all = al /\ runner_fail(r).suite = su /\ runner_fail(r).def = de
        /\ runner_fail(r).case = m /\ runner_fail(r).failed = yes
    <3>. HIDE DEF m, yes
    <3>. QED BY <2>4 DEF RunOf
  <2>8. k.total = a /\ k.failed = b
    BY <2>3
  <2>. QED BY <1>1, <2>2, <2>5, <2>6, <2>7, <2>8
<1>4. LET d == rec_fail(c, r)
      IN  /\ IsRec(d) /\ d.all = e.all /\ d.suite = e.suite
          /\ d.case.total = e.case.total + 1 /\ d.case.failed = e.case.failed + 1
  <2>1. PICK k, su, al : e = [case |-> k, suite |-> su, all |-> al]
    BY <1>2 DEF IsRec
  <2>2. e.case = k /\ e.suite = su /\ e.all = al /\ IsCount(k) /\ IsHolding(su) /\ IsHolding(al)
    BY <1>2, <2>1 DEF IsRec
  <2>3. PICK a, b : k = [total |-> a, failed |-> b] /\ a \in Nat /\ b \in Nat
    BY <2>2 DEF IsCount
  <2>4. [e EXCEPT !.case.total = @ + 1]
          = [case |-> [total |-> a + 1, failed |-> b], suite |-> su, all |-> al]
    BY <2>1, <2>3
  <2>5. rec_fail(c, r) = [[e EXCEPT !.case.total = @ + 1] EXCEPT !.case.failed = @ + 1]
    BY DEF rec_fail
  <2>6. rec_fail(c, r) = [case |-> [total |-> a + 1, failed |-> b + 1], suite |-> su, all |-> al]
    <3>1. [[case |-> [total |-> a + 1, failed |-> b], suite |-> su, all |-> al] EXCEPT !.case.failed = @ + 1]
            = [case |-> [total |-> a + 1, failed |-> b + 1], suite |-> su, all |-> al]
      OBVIOUS
    <3>. QED BY <2>4, <2>5, <3>1
  <2>7. IsCount([total |-> a + 1, failed |-> b + 1])
    BY <2>3 DEF IsCount
  <2>. QED BY <2>2, <2>3, <2>6, <2>7 DEF IsRec
<1>5. LET y == Told(x, 1, n)
      IN  IsTruth(y) /\ y.total = x.total + 1 /\ y.failed = x.failed + 1
          /\ (y.silent <=> x.silent)
  BY <1>2, ToldFields
<1>6. runner_fail(r).failed = TRUE
  BY <1>3
<1>. QED BY <1>1, <1>3, <1>4, <1>5, <1>6, OneMore, ZenonT(30)

\* The verdict and what is late do not count, and a runner that dies has
\* counted what it has.
LEMMA SameCounts ==
  ASSUME NEW r, NEW c, NEW x, NEW s, NEW y, NEW b \in BOOLEAN, Agree(r, c, x, b),
         IsRun(s), s.all = r.all, s.suite = r.suite, s.case = r.case, s.def <=> r.def,
         IsTruth(y), y.total = x.total, y.failed = x.failed, y.silent <=> x.silent
  PROVE  Agree(s, c, y, b)
<1>1. /\ ReportedTotal(s, b) = ReportedTotal(r, b) /\ ReportedFailed(s, b) = ReportedFailed(r, b)
      /\ HeldTotal(c, s, b) = HeldTotal(c, r, b) /\ HeldFailed(c, s, b) = HeldFailed(c, r, b)
  BY DEF ReportedTotal, ReportedFailed, HeldTotal, HeldFailed
<1>. QED BY <1>1 DEF Agree

LEMMA DeadRun ==
  ASSUME NEW r, IsRun(r), NEW how
  PROVE  LET s == [r EXCEPT !.dead = how]
         IN  /\ IsRun(s) /\ s.all = r.all /\ s.suite = r.suite /\ s.case = r.case
             /\ (s.def <=> r.def) /\ (s.failed <=> r.failed)
<1>1. PICK d, f, o, k, su, al, de : r = RunOf(d, f, o, k, su, al, de)
  BY IsRunOf
<1>2. [r EXCEPT !.dead = how] = RunOf(d, f, o, k, su, al, how)
  BY <1>1 DEF RunOf
<1>. QED BY <1>1, <1>2 DEF RunOf, IsRun

LEMMA LateTruth ==
  ASSUME NEW x, IsTruth(x), NEW n \in Nat
  PROVE  LET y == [x EXCEPT !.late = n]
         IN  /\ IsTruth(y) /\ y.total = x.total /\ y.failed = x.failed
             /\ (y.silent <=> x.silent) /\ y.late = n
<1>1. PICK a, b, si, l : x = [total |-> a, failed |-> b, silent |-> si, late |-> l]
  BY DEF IsTruth
<1>2. [x EXCEPT !.late = n] = [total |-> a, failed |-> b, silent |-> si, late |-> n]
  BY <1>1
<1>. QED BY <1>1, <1>2 DEF IsTruth

\* A suite begins: the case the runner has is of another suite.
LEMMA SuiteBegun ==
  ASSUME NEW r, NEW c, NEW x, Agree(r, c, x, FALSE)
  PROVE  LET s == [r EXCEPT !.def = TRUE, !.failed = FALSE,
                            !.suite = [cases |-> 0, total |-> 0, failed |-> 0]]
         IN  Agree(s, [c EXCEPT !.suite = NoResults], x, TRUE) /\ s.failed = FALSE
<1>. DEFINE none == [cases |-> 0, total |-> 0, failed |-> 0]
            s == [r EXCEPT !.def = TRUE, !.failed = FALSE, !.suite = none]
            e == [c EXCEPT !.suite = NoResults]
<1>1. IsRun(r) /\ IsRec(c) /\ IsTruth(x)
  BY DEF Agree
<1>2. PICK d, f, o, k, su, al, de : r = RunOf(d, f, o, k, su, al, de)
  BY <1>1, IsRunOf
<1>3. /\ r.all = al /\ r.case = k /\ o \in BOOLEAN /\ IsCount(k) /\ IsAll(al)
  BY <1>1, <1>2, RunOfFields DEF IsRun
<1>4. IsTally(none) /\ none.total = 0 /\ none.failed = 0
  BY DEF IsTally
<1>. HIDE DEF none
<1>5. s = RunOf(TRUE, FALSE, o, k, none, al, de)
  <2>. DEFINE yes == TRUE
              no == FALSE
  <2>. HIDE DEF yes, no
  <2>1. [r EXCEPT !.def = yes] = RunOf(yes, f, o, k, su, al, de)
    BY <1>2 DEF RunOf
  <2>2. [RunOf(yes, f, o, k, su, al, de) EXCEPT !.failed = no] = RunOf(yes, no, o, k, su, al, de)
    BY DEF RunOf
  <2>3. [RunOf(yes, no, o, k, su, al, de) EXCEPT !.suite = none] = RunOf(yes, no, o, k, none, al, de)
    BY DEF RunOf
  <2>4. s = [[[r EXCEPT !.def = yes] EXCEPT !.failed = no] EXCEPT !.suite = none]
    BY DEF yes, no
  <2>. HIDE DEF s
  <2>5. s = RunOf(yes, no, o, k, none, al, de)
    BY <2>1, <2>2, <2>3, <2>4
  <2>. QED BY <2>5 DEF yes, no
<1>6. IsRun(s) /\ s.all = r.all /\ s.suite = none /\ s.def = TRUE /\ s.failed = FALSE
  BY <1>3, <1>4, <1>5 DEF RunOf, IsRun
<1>7. IsHolding(NoResults) /\ NoResults.held = 0 /\ NoResults.failed = 0
  BY DEF IsHolding, NoResults
<1>8. e = [case |-> c.case, suite |-> NoResults, all |-> c.all]
  BY <1>1 DEF IsRec
<1>9. IsRec(e) /\ e.all = c.all /\ e.suite = NoResults /\ e.case = c.case
  BY <1>1, <1>7, <1>8 DEF IsRec
<1>. HIDE DEF s, e
<1>10. /\ ReportedTotal(s, TRUE) = ReportedTotal(r, FALSE)
       /\ ReportedFailed(s, TRUE) = ReportedFailed(r, FALSE)
       /\ HeldTotal(e, s, TRUE) = HeldTotal(c, r, FALSE)
       /\ HeldFailed(e, s, TRUE) = HeldFailed(c, r, FALSE)
  BY <1>1, <1>4, <1>6, <1>7, <1>9, RunFields, RecFields
     DEF ReportedTotal, ReportedFailed, HeldTotal, HeldFailed
<1>11. Agree(s, e, x, TRUE)
  BY <1>1, <1>4, <1>6, <1>7, <1>9, <1>10 DEF Agree
<1>. QED BY <1>6, <1>11 DEF s, e, none

\* A suite ends: its last case is added to it and it to the others.
LEMMA ReportEnded ==
  ASSUME NEW r, IsRun(r)
  PROVE  LET s == on_suite_end(on_case_end(r))
         IN  /\ IsRun(s) /\ s.all.total = r.all.total + (r.suite.total + r.case.total)
             /\ s.all.failed = r.all.failed + (r.suite.failed + r.case.failed)
<1>1. PICK d, f, o, k, su, al, de : r = RunOf(d, f, o, k, su, al, de)
  BY IsRunOf
<1>2. /\ r.all = al /\ r.case = k /\ r.suite = su /\ d \in BOOLEAN /\ f \in BOOLEAN /\ o \in BOOLEAN
      /\ IsCount(k) /\ IsTally(su) /\ IsAll(al)
  BY <1>1, RunOfFields DEF IsRun
<1>. DEFINE x == AddCase(su, k)
            y == [suites |-> al.suites + 1, cases |-> al.cases + x.cases,
                  total |-> al.total + x.total, failed |-> al.failed + x.failed]
<1>3. IsTally(x) /\ x.total = su.total + k.total /\ x.failed = su.failed + k.failed
  BY <1>2 DEF AddCase, IsTally, IsCount
<1>4. on_case_end(r) = RunOf(d, f, o, k, x, al, de)
  BY <1>1, <1>2 DEF on_case_end, RunOf
<1>. HIDE DEF x
<1>5. IsAll(y) /\ y.total = al.total + x.total /\ y.failed = al.failed + x.failed
  BY <1>2, <1>3 DEF IsAll, IsTally
<1>6. on_suite_end(on_case_end(r)) = RunOf(d, f, o, k, x, y, de)
  <2>. DEFINE q == RunOf(d, f, o, k, x, al, de)
  <2>1. q.all = al /\ q.suite = x
    BY DEF RunOf
  <2>2. on_suite_end(q) = [q EXCEPT !.all = y]
    BY <2>1 DEF on_suite_end
  <2>. HIDE DEF y
  <2>3. [q EXCEPT !.all = y] = RunOf(d, f, o, k, x, y, de)
    BY DEF RunOf
  <2>. HIDE DEF q
  <2>. QED BY <1>4, <2>2, <2>3 DEF q
<1>. HIDE DEF y
<1>7. IsRun(RunOf(d, f, o, k, x, y, de)) /\ RunOf(d, f, o, k, x, y, de).all = y
  BY <1>2, <1>3, <1>5 DEF RunOf, IsRun
<1>. QED BY <1>2, <1>3, <1>5, <1>6, <1>7

LEMMA RecordEnded ==
  ASSUME NEW c, IsRec(c)
  PROVE  LET e == rec_suite_end(rec_case_end(c))
         IN  /\ IsRec(e) /\ e.case.total = 0
             /\ e.all.held = c.all.held + (c.suite.held + c.case.total)
             /\ e.all.failed = c.all.failed
                  + (c.suite.failed + (IF c.case.total = 0 THEN 0 ELSE c.case.failed))
<1>1. PICK k, su, al : c = [case |-> k, suite |-> su, all |-> al]
  BY DEF IsRec
<1>2. /\ c.case = k /\ c.suite = su /\ c.all = al /\ IsCount(k) /\ IsHolding(su) /\ IsHolding(al)
      /\ k.total \in Nat /\ k.failed \in Nat
  BY <1>1 DEF IsRec, IsCount
<1>3. PICK m, h : /\ rec_case_end(c) = [case |-> m, suite |-> h, all |-> al]
                  /\ IsCount(m) /\ m.total = 0 /\ IsHolding(h)
                  /\ h.held = su.held + k.total
                  /\ h.failed = su.failed + (IF k.total = 0 THEN 0 ELSE k.failed)
  <2>1. su.held \in Nat /\ su.failed \in Nat
    BY <1>2 DEF IsHolding
  <2>2. CASE k.total = 0
    <3>1. rec_case_end(c) = [case |-> k, suite |-> su, all |-> al]
      BY <1>1, <1>2, <2>2 DEF rec_case_end
    <3>2. su.held = su.held + k.total /\ su.failed = su.failed + (IF k.total = 0 THEN 0 ELSE k.failed)
      BY <2>1, <2>2
    <3>. QED BY <1>2, <2>2, <3>1, <3>2
  <2>3. CASE k.total # 0
    <3>. DEFINE g == [cases |-> su.cases + 1, held |-> su.held + k.total, total |-> su.total + 0,
                      failed |-> su.failed + k.failed]
                z == [k EXCEPT !.total = 0]
    <3>1. [c EXCEPT !.case.total = 0] = [case |-> z, suite |-> su, all |-> al]
      BY <1>1
    <3>2. rec_case_end(c) = [case |-> z, suite |-> g, all |-> al]
      BY <1>1, <1>2, <2>3, <3>1 DEF rec_case_end, MovedTotal
    <3>3. z = [total |-> 0, failed |-> k.failed]
      BY <1>2 DEF IsCount
    <3>4. IsCount(z) /\ z.total = 0
      BY <1>2, <3>3 DEF IsCount
    <3>5. /\ IsHolding(g) /\ g.held = su.held + k.total
          /\ g.failed = su.failed + (IF k.total = 0 THEN 0 ELSE k.failed)
      BY <1>2, <2>3 DEF IsHolding
    <3>. HIDE DEF g, z
    <3>. QED BY <3>2, <3>4, <3>5
  <2>. QED BY <1>2, <2>2, <2>3
<1>. DEFINE q == [case |-> m, suite |-> h, all |-> al]
            w == [f \in DOMAIN al |-> al[f] + h[f]]
<1>4. rec_suite_end(q) = [case |-> m, suite |-> NoResults, all |-> w]
  <2>1. [q EXCEPT !.all = w] = [case |-> m, suite |-> h, all |-> w]
    OBVIOUS
  <2>2. rec_suite_end(q) = [[q EXCEPT !.all = w] EXCEPT !.suite = NoResults]
    BY DEF rec_suite_end
  <2>. HIDE DEF w
  <2>3. [[case |-> m, suite |-> h, all |-> w] EXCEPT !.suite = NoResults]
          = [case |-> m, suite |-> NoResults, all |-> w]
    OBVIOUS
  <2>. HIDE DEF q
  <2>. QED BY <2>1, <2>2, <2>3
<1>5. IsHolding(w) /\ w.held = al.held + h.held /\ w.failed = al.failed + h.failed
  <2>1. al = [cases |-> al.cases, held |-> al.held, total |-> 0, failed |-> al.failed]
    BY <1>2 DEF IsHolding
  <2>2. DOMAIN al = {"cases", "held", "total", "failed"} /\ al.total = 0 /\ h.total = 0
    BY <1>3, <2>1 DEF IsHolding
  <2>3. w = [cases |-> al.cases + h.cases, held |-> al.held + h.held, total |-> 0,
             failed |-> al.failed + h.failed]
    BY <2>2
  <2>4. /\ al.cases \in Nat /\ al.held \in Nat /\ al.failed \in Nat
        /\ h.cases \in Nat /\ h.held \in Nat /\ h.failed \in Nat
    BY <1>2, <1>3 DEF IsHolding
  <2>. HIDE DEF w
  <2>. QED BY <2>3, <2>4 DEF IsHolding
<1>6. IsHolding(NoResults)
  BY DEF IsHolding, NoResults
<1>. HIDE DEF w
<1>7. LET e == rec_suite_end(rec_case_end(c)) IN IsRec(e) /\ e.case = m /\ e.all = w
  BY <1>3, <1>4, <1>5, <1>6 DEF IsRec
<1>. QED BY <1>2, <1>3, <1>5, <1>7

LEMMA SilentTruth ==
  ASSUME NEW x, IsTruth(x), NEW b \in BOOLEAN
  PROVE  LET y == [x EXCEPT !.silent = @ \/ b]
         IN  /\ IsTruth(y) /\ y.total = x.total /\ y.failed = x.failed
             /\ (y.silent <=> (x.silent \/ b)) /\ y.late = x.late
<1>1. PICK a, f, si, l : x = [total |-> a, failed |-> f, silent |-> si, late |-> l]
  BY DEF IsTruth
<1>2. si \in BOOLEAN /\ a \in Nat /\ f \in Nat /\ l \in Nat /\ x.silent = si
  BY <1>1 DEF IsTruth
<1>. DEFINE w == si \/ b
<1>3. [x EXCEPT !.silent = @ \/ b] = [x EXCEPT !.silent = w]
  BY <1>2
<1>4. w \in BOOLEAN
  OBVIOUS
<1>. HIDE DEF w
<1>5. [x EXCEPT !.silent = w] = [total |-> a, failed |-> f, silent |-> w, late |-> l]
  BY <1>1
<1>6. LET y == [total |-> a, failed |-> f, silent |-> w, late |-> l]
      IN  IsTruth(y) /\ y.total = x.total /\ y.failed = x.failed /\ y.silent = w /\ y.late = x.late
  BY <1>1, <1>2, <1>4 DEF IsTruth
<1>. QED BY <1>2, <1>3, <1>5, <1>6 DEF w

LEMMA SuiteEnded ==
  ASSUME NEW r, NEW c, NEW x, Agree(r, c, x, TRUE)
  PROVE  Agree(on_suite_end(on_case_end(r)), rec_suite_end(rec_case_end(c)),
               [x EXCEPT !.silent = @ \/ r.def], FALSE)
<1>. DEFINE s == on_suite_end(on_case_end(r))
            e == rec_suite_end(rec_case_end(c))
            y == [x EXCEPT !.silent = @ \/ r.def]
<1>1. IsRun(r) /\ IsRec(c) /\ IsTruth(x)
  BY DEF Agree
<1>2. /\ IsRun(s) /\ s.all.total = r.all.total + (r.suite.total + r.case.total)
      /\ s.all.failed = r.all.failed + (r.suite.failed + r.case.failed)
  BY <1>1, ReportEnded
<1>3. /\ IsRec(e) /\ e.case.total = 0 /\ e.all.held = c.all.held + (c.suite.held + c.case.total)
      /\ e.all.failed = c.all.failed
           + (c.suite.failed + (IF c.case.total = 0 THEN 0 ELSE c.case.failed))
  BY <1>1, RecordEnded
<1>4. /\ IsTruth(y) /\ y.total = x.total /\ y.failed = x.failed
      /\ (y.silent <=> (x.silent \/ r.def))
  BY <1>1, SilentTruth, RunFields
<1>. HIDE DEF s, e, y
<1>5. HeldTotal(e, s, FALSE) = HeldTotal(c, r, TRUE) /\ HeldFailed(e, s, FALSE) = HeldFailed(c, r, TRUE)
  <2>1. r.def => c.case.total = 0
    BY DEF Agree
  <2>2. ~r.def /\ c.case.total = 0 => c.case.failed = 0
    BY DEF Agree
  <2>3. r.def \in BOOLEAN
    BY <1>1, RunFields
  <2>. QED BY <1>1, <1>3, <2>1, <2>2, <2>3, RecFields DEF HeldTotal, HeldFailed
<1>6. ~r.def => /\ ReportedTotal(s, FALSE) = ReportedTotal(r, TRUE)
                /\ ReportedFailed(s, FALSE) = ReportedFailed(r, TRUE)
  BY <1>1, <1>2, RunFields DEF ReportedTotal, ReportedFailed
<1>7. ReportedTotal(s, FALSE) >= ReportedTotal(r, TRUE)
  <2>1. r.def \in BOOLEAN
    BY <1>1, RunFields
  <2>. QED BY <1>1, <1>2, <2>1, RunFields DEF ReportedTotal
<1>8. ReportedTotal(s, FALSE) \in Nat /\ ReportedTotal(r, TRUE) \in Nat /\ x.total \in Nat
  BY <1>1, <1>2, RunFields, TruthFields DEF ReportedTotal
<1>9. ReportedTotal(r, TRUE) >= x.total
  BY DEF Agree
<1>10. ReportedTotal(s, FALSE) >= y.total
  <2>1. y.total = x.total
    BY <1>4
  <2>2. ASSUME NEW u \in Nat, NEW v \in Nat, NEW w \in Nat, u >= v, v >= w PROVE u >= w
    BY <2>2
  <2>. QED BY <1>7, <1>8, <1>9, <2>1, <2>2
<1>11. ~y.silent => ReportedTotal(s, FALSE) = y.total /\ ReportedFailed(s, FALSE) = y.failed
  <2>. SUFFICES ASSUME ~y.silent
                PROVE  ReportedTotal(s, FALSE) = y.total /\ ReportedFailed(s, FALSE) = y.failed
    OBVIOUS
  <2>1. ~x.silent /\ ~r.def
    BY <1>4
  <2>2. ReportedTotal(r, TRUE) = x.total /\ ReportedFailed(r, TRUE) = x.failed
    BY <2>1 DEF Agree
  <2>. QED BY <1>4, <1>6, <2>1, <2>2
<1>12. HeldTotal(e, s, FALSE) = y.total /\ HeldFailed(e, s, FALSE) = y.failed
  <2>1. HeldTotal(c, r, TRUE) = x.total /\ HeldFailed(c, r, TRUE) = x.failed
    BY DEF Agree
  <2>. QED BY <1>4, <1>5, <2>1
<1>13. Agree(s, e, y, FALSE)
  BY <1>2, <1>3, <1>4, <1>10, <1>11, <1>12 DEF Agree
<1>. QED BY <1>13 DEF s, e, y

-----------------------------------------------------------------------------
(* The selector's record and the places of the actors.                     *)

SelOf(n, ak, pa, mo, ra, fa, st, li) ==
  [i |-> n, asked |-> ak, pat |-> pa, mode |-> mo, library |-> li, ran |-> ra,
   failed |-> fa, steps |-> st]

LEMMA SelOfFields ==
  ASSUME NEW n, NEW ak, NEW pa, NEW mo, NEW ra, NEW fa, NEW st, NEW li
  PROVE  LET q == SelOf(n, ak, pa, mo, ra, fa, st, li)
         IN  /\ IsSel(q) /\ q.i = n /\ q.asked = ak /\ q.pat = pa /\ q.mode = mo /\ q.ran = ra
             /\ q.failed = fa
BY DEF SelOf, IsSel

LEMMA IsSelOf ==
  ASSUME NEW q, IsSel(q)
  PROVE  \E n, ak, pa, mo, ra, fa, st, li : q = SelOf(n, ak, pa, mo, ra, fa, st, li)
BY DEF SelOf, IsSel

LEMMA SelStepped ==
  ASSUME NEW q, IsSel(q), NEW u
  PROVE  LET s == [q EXCEPT !.steps = u]
         IN  /\ IsSel(s) /\ s.i = q.i /\ s.asked = q.asked /\ s.pat = q.pat /\ s.mode = q.mode
             /\ s.ran = q.ran /\ s.failed = q.failed
<1>1. PICK n, ak, pa, mo, ra, fa, st, li : q = SelOf(n, ak, pa, mo, ra, fa, st, li)
  BY IsSelOf
<1>2. [q EXCEPT !.steps = u] = SelOf(n, ak, pa, mo, ra, fa, u, li)
  BY <1>1 DEF SelOf
<1>. QED BY <1>1, <1>2, SelOfFields

Moded(q, u, v) == [q EXCEPT !.mode = u, !.library = v]

LEMMA ModedIs ==
  ASSUME NEW n, NEW ak, NEW pa, NEW mo, NEW ra, NEW fa, NEW st, NEW li, NEW u, NEW v
  PROVE  Moded(SelOf(n, ak, pa, mo, ra, fa, st, li), u, v) = SelOf(n, ak, pa, u, ra, fa, st, v)
<1>. DEFINE q == SelOf(n, ak, pa, mo, ra, fa, st, li)
<1>1. Moded(q, u, v) = [[q EXCEPT !.mode = u] EXCEPT !.library = v]
  BY DEF Moded
<1>2. [q EXCEPT !.mode = u] = SelOf(n, ak, pa, u, ra, fa, st, li)
  BY DEF SelOf
<1>3. [SelOf(n, ak, pa, u, ra, fa, st, li) EXCEPT !.library = v] = SelOf(n, ak, pa, u, ra, fa, st, v)
  BY DEF SelOf
<1>. QED BY <1>1, <1>2, <1>3

LEMMA SelMode ==
  ASSUME NEW q, IsSel(q), NEW u, NEW v
  PROVE  LET s == Moded(q, u, v)
         IN  /\ IsSel(s) /\ s.i = q.i /\ s.asked = q.asked /\ s.pat = q.pat /\ s.mode = u
             /\ s.ran = q.ran /\ s.failed = q.failed
<1>1. PICK n, ak, pa, mo, ra, fa, st, li : q = SelOf(n, ak, pa, mo, ra, fa, st, li)
  BY IsSelOf
<1>2. Moded(q, u, v) = SelOf(n, ak, pa, u, ra, fa, st, v)
  BY <1>1, ModedIs
<1>. QED BY <1>1, <1>2, SelOfFields

LEMMA SelRan ==
  ASSUME NEW q, IsSel(q), NEW u
  PROVE  LET s == [q EXCEPT !.ran = u]
         IN  /\ IsSel(s) /\ s.i = q.i /\ s.asked = q.asked /\ s.pat = q.pat /\ s.mode = q.mode
             /\ s.ran = u /\ s.failed = q.failed
<1>1. PICK n, ak, pa, mo, ra, fa, st, li : q = SelOf(n, ak, pa, mo, ra, fa, st, li)
  BY IsSelOf
<1>2. [q EXCEPT !.ran = u] = SelOf(n, ak, pa, mo, u, fa, st, li)
  BY <1>1 DEF SelOf
<1>. QED BY <1>1, <1>2, SelOfFields

LEMMA SelPlace ==
  ASSUME NEW q, IsSel(q), NEW u
  PROVE  LET s == [q EXCEPT !.i = u]
         IN  /\ IsSel(s) /\ s.i = u /\ s.asked = q.asked /\ s.pat = q.pat /\ s.mode = q.mode
             /\ s.ran = q.ran /\ s.failed = q.failed
<1>1. PICK n, ak, pa, mo, ra, fa, st, li : q = SelOf(n, ak, pa, mo, ra, fa, st, li)
  BY IsSelOf
<1>2. [q EXCEPT !.i = u] = SelOf(u, ak, pa, mo, ra, fa, st, li)
  BY <1>1 DEF SelOf
<1>. QED BY <1>1, <1>2, SelOfFields

LEMMA SelPassed ==
  ASSUME NEW q, IsSel(q), NEW u, NEW v
  PROVE  LET s == [Moded(q, u, v) EXCEPT !.i = @ + 1]
         IN  /\ IsSel(s) /\ s.i = q.i + 1 /\ s.asked = q.asked /\ s.pat = q.pat /\ s.mode = u
             /\ s.ran = q.ran /\ s.failed = q.failed
<1>. DEFINE t == Moded(q, u, v)
            w == t.i + 1
<1>1. /\ IsSel(t) /\ t.i = q.i /\ t.asked = q.asked /\ t.pat = q.pat /\ t.mode = u
      /\ t.ran = q.ran /\ t.failed = q.failed
  BY SelMode
<1>2. [t EXCEPT !.i = @ + 1] = [t EXCEPT !.i = w]
  OBVIOUS
<1>. HIDE DEF t, w
<1>3. LET s == [t EXCEPT !.i = w]
      IN  /\ IsSel(s) /\ s.i = w /\ s.asked = t.asked /\ s.pat = t.pat /\ s.mode = t.mode
          /\ s.ran = t.ran /\ s.failed = t.failed
  BY <1>1, SelPlace
<1>. QED BY <1>1, <1>2, <1>3 DEF t, w

LEMMA SelVerdict ==
  ASSUME NEW q, IsSel(q), NEW u
  PROVE  LET s == [q EXCEPT !.failed = u]
         IN  /\ IsSel(s) /\ s.i = q.i /\ s.asked = q.asked /\ s.pat = q.pat /\ s.mode = q.mode
             /\ s.ran = q.ran /\ s.failed = u
<1>1. PICK n, ak, pa, mo, ra, fa, st, li : q = SelOf(n, ak, pa, mo, ra, fa, st, li)
  BY IsSelOf
<1>2. [q EXCEPT !.failed = u] = SelOf(n, ak, pa, mo, ra, u, st, li)
  BY <1>1 DEF SelOf
<1>. QED BY <1>1, <1>2, SelOfFields

LEMMA SelEnded ==
  ASSUME IsSel(sel), sel.failed \in BOOLEAN, run.failed \in BOOLEAN,
         sel' = [sel EXCEPT !.i = @ + 1, !.failed = @ \/ run.failed]
  PROVE  /\ IsSel(sel') /\ sel'.i = sel.i + 1 /\ sel'.asked = sel.asked /\ sel'.pat = sel.pat
         /\ sel'.mode = sel.mode /\ sel'.ran = sel.ran
         /\ sel'.failed \in BOOLEAN /\ (sel'.failed <=> (sel.failed \/ run.failed))
<1>. DEFINE n == sel.i + 1
            w == sel.failed \/ run.failed
            q == [sel EXCEPT !.i = n]
<1>1. sel' = [q EXCEPT !.failed = w]
  OBVIOUS
<1>2. w \in BOOLEAN /\ (w <=> (sel.failed \/ run.failed))
  OBVIOUS
<1>. HIDE DEF n, w
<1>3. /\ IsSel(q) /\ q.i = n /\ q.asked = sel.asked /\ q.pat = sel.pat
      /\ q.mode = sel.mode /\ q.ran = sel.ran
  BY SelPlace
<1>. HIDE DEF q
<1>. DEFINE e == [q EXCEPT !.failed = w]
<1>4. sel' = e
  BY <1>1
<1>5. /\ IsSel(e) /\ e.i = n /\ e.asked = sel.asked /\ e.pat = sel.pat
      /\ e.mode = sel.mode /\ e.ran = sel.ran /\ e.failed = w
  BY <1>3, SelVerdict
<1>. HIDE DEF e
<1>6. /\ IsSel(sel') /\ sel'.i = n /\ sel'.asked = sel.asked /\ sel'.pat = sel.pat
      /\ sel'.mode = sel.mode /\ sel'.ran = sel.ran /\ sel'.failed = w
  BY <1>4, <1>5
<1>. QED BY <1>2, <1>6 DEF n

LEMMA ActorMoves ==
  ASSUME NEW a \in Actors, NEW pc \in Doing, actor \in [Actors -> Doing], Goes(a, pc)
  PROVE  /\ actor' \in [Actors -> Doing] /\ actor'[a] = pc
         /\ \A b \in Actors : b # a => actor'[b] = actor[b]
         /\ Main \in Actors
BY DEF Goes, Actors

\* A thread that runs is one of a suite that runs.
LEMMA BusyActor ==
  ASSUME AbortInv, NEW a \in Actors, actor[a] \notin {"idle", "joined"}
  PROVE  Busy
BY DEF AbortInv, Stopping, Orderly, Started, Busy, Actors

LEMMA StillBusy ==
  ASSUME actor \in [Actors -> Doing], Busy, NEW a \in Actors, NEW pc \in Doing, pc # "idle",
         Goes(a, pc)
  PROVE  Busy'
BY ActorMoves DEF Busy

-----------------------------------------------------------------------------
(* Every step leaves the counts right.                                     *)

LEMMA PassCounted ==
  ASSUME NEW r, NEW c, NEW x, NEW f, NEW n \in Nat, Right(r, c, x, f, TRUE)
  PROVE  Right(runner_pass(r), rec_pass(c, r), Told(x, 0, n), f, TRUE)
<1>1. Agree(r, c, x, TRUE) /\ Verdict(f, r, x, TRUE) /\ IsTruth(x) /\ IsRun(r)
  BY DEF Right, Agree
<1>2. Agree(runner_pass(r), rec_pass(c, r), Told(x, 0, n), TRUE) /\ runner_pass(r).failed = r.failed
  BY <1>1, PassReported
<1>3. Told(x, 0, n).failed = x.failed
  <2>1. Told(x, 0, n).failed = x.failed + 0 /\ x.failed \in Nat
    BY <1>1, ToldFields, TruthFields
  <2>. QED BY <2>1
<1>4. Verdict(f, runner_pass(r), Told(x, 0, n), TRUE)
  BY <1>1, <1>2, <1>3 DEF Verdict
<1>. QED BY <1>2, <1>4 DEF Right

LEMMA FailCounted ==
  ASSUME NEW r, NEW c, NEW x, NEW f, NEW n \in Nat, Right(r, c, x, f, TRUE)
  PROVE  Right(runner_fail(r), rec_fail(c, r), Told(x, 1, n), f, TRUE)
<1>1. Agree(r, c, x, TRUE) /\ Verdict(f, r, x, TRUE) /\ IsTruth(x)
  BY DEF Right, Agree
<1>2. Agree(runner_fail(r), rec_fail(c, r), Told(x, 1, n), TRUE) /\ runner_fail(r).failed = TRUE
  BY <1>1, FailReported
<1>3. Told(x, 1, n).failed > 0
  <2>1. Told(x, 1, n).failed = x.failed + 1 /\ x.failed \in Nat
    BY <1>1, ToldFields, TruthFields
  <2>. QED BY <2>1
<1>4. Verdict(f, runner_fail(r), Told(x, 1, n), TRUE)
  BY <1>1, <1>2, <1>3 DEF Verdict
<1>. QED BY <1>2, <1>4 DEF Right

\* A runner that dies and a count of what is late change none of it.
LEMMA DeathCounted ==
  ASSUME NEW r, NEW c, NEW x, NEW f, NEW b \in BOOLEAN, NEW how, Right(r, c, x, f, b)
  PROVE  Right([r EXCEPT !.dead = how], c, x, f, b)
<1>1. Agree(r, c, x, b) /\ Verdict(f, r, x, b) /\ IsRun(r) /\ IsTruth(x)
  BY DEF Right, Agree
<1>. DEFINE s == [r EXCEPT !.dead = how]
<1>2. /\ IsRun(s) /\ s.all = r.all /\ s.suite = r.suite /\ s.case = r.case
      /\ (s.def <=> r.def) /\ (s.failed <=> r.failed)
  BY <1>1, DeadRun
<1>. HIDE DEF s
<1>3. Agree(s, c, x, b)
  BY <1>1, <1>2, SameCounts
<1>4. Verdict(f, s, x, b)
  BY <1>1, <1>2 DEF Verdict
<1>5. Right(s, c, x, f, b)
  BY <1>3, <1>4 DEF Right
<1>. QED BY <1>5 DEF s

LEMMA LateCounted ==
  ASSUME NEW r, NEW c, NEW x, NEW f, NEW b \in BOOLEAN, NEW n \in Nat, Right(r, c, x, f, b)
  PROVE  Right(r, c, [x EXCEPT !.late = n], f, b)
<1>1. Agree(r, c, x, b) /\ Verdict(f, r, x, b) /\ IsRun(r) /\ IsTruth(x)
  BY DEF Right, Agree
<1>. DEFINE y == [x EXCEPT !.late = n]
<1>2. IsTruth(y) /\ y.total = x.total /\ y.failed = x.failed /\ (y.silent <=> x.silent)
  BY <1>1, LateTruth
<1>. HIDE DEF y
<1>3. Agree(r, c, y, b)
  BY <1>1, <1>2, SameCounts
<1>4. Verdict(f, r, y, b)
  BY <1>1, <1>2 DEF Verdict
<1>5. Right(r, c, y, f, b)
  BY <1>3, <1>4 DEF Right
<1>. QED BY <1>5 DEF y

LEMMA CaseCounted ==
  ASSUME NEW r, NEW c, NEW x, NEW f, Right(r, c, x, f, TRUE)
  PROVE  /\ Right(testcase(r), rec_testcase(c, r), x, f, TRUE)
         /\ Right(runner_log(r), rec_opened(c, r), x, f, TRUE)
<1>1. Agree(r, c, x, TRUE) /\ Verdict(f, r, x, TRUE)
  BY DEF Right
<1>2. Agree(testcase(r), rec_testcase(c, r), x, TRUE) /\ testcase(r).failed = r.failed
  BY <1>1, CaseOpened
<1>3. Agree(runner_log(r), rec_opened(c, r), x, TRUE) /\ runner_log(r).failed = r.failed
  BY <1>1, NowOpened DEF runner_log
<1>4. Verdict(f, testcase(r), x, TRUE)
  BY <1>1, <1>2 DEF Verdict
<1>5. Verdict(f, runner_log(r), x, TRUE)
  BY <1>1, <1>3 DEF Verdict
<1>. QED BY <1>2, <1>3, <1>4, <1>5 DEF Right

LEMMA BeginCounted ==
  ASSUME NEW r, NEW c, NEW x, NEW f, Right(r, c, x, f, FALSE)
  PROVE  Right([r EXCEPT !.def = TRUE, !.failed = FALSE,
                         !.suite = [cases |-> 0, total |-> 0, failed |-> 0]],
               [c EXCEPT !.suite = NoResults], x, f, TRUE)
<1>. DEFINE s == [r EXCEPT !.def = TRUE, !.failed = FALSE,
                           !.suite = [cases |-> 0, total |-> 0, failed |-> 0]]
            e == [c EXCEPT !.suite = NoResults]
<1>1. Agree(r, c, x, FALSE) /\ Verdict(f, r, x, FALSE)
  BY DEF Right
<1>2. Agree(s, e, x, TRUE) /\ s.failed = FALSE
  BY <1>1, SuiteBegun
<1>. HIDE DEF s, e
<1>3. Verdict(f, s, x, TRUE)
  BY <1>1, <1>2 DEF Verdict
<1>4. Right(s, e, x, f, TRUE)
  BY <1>2, <1>3 DEF Right
<1>. QED BY <1>4 DEF s, e

LEMMA EndCounted ==
  ASSUME NEW r, NEW c, NEW x, NEW f, NEW g, Right(r, c, x, f, TRUE),
         g \in BOOLEAN, g <=> (f \/ r.failed)
  PROVE  Right(on_suite_end(on_case_end(r)), rec_suite_end(rec_case_end(c)),
               [x EXCEPT !.silent = @ \/ r.def], g, FALSE)
<1>. DEFINE s == on_suite_end(on_case_end(r))
            e == rec_suite_end(rec_case_end(c))
            y == [x EXCEPT !.silent = @ \/ r.def]
<1>1. Agree(r, c, x, TRUE) /\ Verdict(f, r, x, TRUE) /\ IsTruth(x) /\ IsRun(r)
  BY DEF Right, Agree
<1>2. Agree(s, e, y, FALSE)
  BY <1>1, SuiteEnded
<1>3. y.failed = x.failed
  BY <1>1, SilentTruth, RunFields
<1>. HIDE DEF s, e, y
<1>4. Verdict(g, s, y, FALSE)
  BY <1>1, <1>3 DEF Verdict
<1>5. Right(s, e, y, g, FALSE)
  BY <1>2, <1>4 DEF Right
<1>. QED BY <1>5 DEF s, e, y

\* Counted adds one condition, in time or late.
LEMMA CountedTold ==
  ASSUME IsTruth(truth), NEW f \in {0, 1}, Counted(f)
  PROVE  \E n \in Nat : truth' = Told(truth, f, n) /\ n = IF propagate_abort THEN truth.late + 1 ELSE truth.late
<1>1. truth.late \in Nat
  BY TruthFields
<1>. DEFINE n == IF propagate_abort THEN truth.late + 1 ELSE truth.late
<1>2. n \in Nat
  BY <1>1
<1>3. truth' = Told(truth, f, n)
  BY DEF Counted, Told
<1>. QED BY <1>2, <1>3

\* A condition is late if the abort has been seen.
LEMMA CountedLate ==
  ASSUME IsTruth(truth), NEW f \in {0, 1}, Counted(f)
  PROVE  truth'.late = IF propagate_abort THEN truth.late + 1 ELSE truth.late
<1>1. PICK n \in Nat : truth' = Told(truth, f, n) /\ n = IF propagate_abort THEN truth.late + 1 ELSE truth.late
  BY CountedTold
<1>2. Told(truth, f, n).late = n
  BY ToldFields
<1>. QED BY <1>1, <1>2

LEMMA CountsSame ==
  ASSUME CountsInv, UNCHANGED <<run, rec, truth>>, sel'.failed = sel.failed, Busy' <=> Busy
  PROVE  CountsInv'
BY DEF CountsInv

LEMMA CountsStep ==
  ASSUME TestsInv, [TestsNext]_tvars
  PROVE  CountsInv'
<1>1. /\ CountsInv /\ AbortInv /\ SelectInv /\ actor \in [Actors -> Doing] /\ IsSel(sel)
      /\ Main \in Actors /\ Threads \subseteq Actors
  BY DEF TestsInv, AbortInv, Stopping, Orderly, SelectInv, Actors
<1>2. IsTruth(truth) /\ IsRun(run)
  BY <1>1 DEF CountsInv, Right, Agree
<1>3. Busy => Right(run, rec, truth, sel.failed, TRUE)
  BY <1>1 DEF CountsInv
<1>4. ~Busy => Right(run, rec, truth, sel.failed, FALSE)
  BY <1>1 DEF CountsInv
<1>5. ASSUME NEW how, Dies(how) PROVE CountsInv'
  <2>1. UNCHANGED <<sel, rec, actor, truth>> /\ run' = [run EXCEPT !.dead = how]
    BY <1>5 DEF Dies
  <2>2. CASE Busy
    <3>1. Right([run EXCEPT !.dead = how], rec, truth, sel.failed, TRUE)
      BY <1>3, <2>2, DeathCounted
    <3>. QED BY <2>1, <2>2, <3>1 DEF CountsInv, Busy
  <2>3. CASE ~Busy
    <3>1. Right([run EXCEPT !.dead = how], rec, truth, sel.failed, FALSE)
      BY <1>4, <2>3, DeathCounted
    <3>. QED BY <2>1, <2>3, <3>1 DEF CountsInv, Busy
  <2>. QED BY <2>2, <2>3
<1>6. ASSUME NEW a \in Actors, NEW pc \in Doing, pc # "idle", Acts(a, pc)
      PROVE  Busy /\ Busy' /\ sel'.failed = sel.failed
  <2>1. actor[a] = "body" /\ Goes(a, pc) /\ sel' = [sel EXCEPT !.steps = sel.steps + 1]
    BY <1>6 DEF Acts, Is
  <2>2. Busy
    BY <1>1, <2>1, BusyActor
  <2>3. Busy'
    BY <1>1, <1>6, <2>1, <2>2, StillBusy
  <2>4. sel'.failed = sel.failed
    BY <1>1, <2>1, SelStepped
  <2>. QED BY <2>2, <2>3, <2>4
<1>7. ASSUME Right(run', rec', truth', sel'.failed, TRUE), Busy' PROVE CountsInv'
  BY <1>7 DEF CountsInv
<1>8. ASSUME NEW a \in Actors, NEW pc \in Doing, pc # "idle", Is(a, pc), NEW to \in Doing,
             to # "idle", pc # "joined", Goes(a, to)
      PROVE  Busy /\ Busy'
  <2>1. Busy
    BY <1>1, <1>8, BusyActor DEF Is
  <2>. QED BY <1>1, <1>8, <2>1, StillBusy
<1>9. CASE NextSuite
  <2>. DEFINE s == Select(Suites[sel.i], sel.mode, sel.pat)
              lib == LibraryAfter(Suites[sel.i], sel.mode, sel.pat, sel.library)
  <2>1. ~Busy /\ truth' = [truth EXCEPT !.late = 0]
    BY <1>9 DEF NextSuite, Busy
  <2>2. CASE s.pick
    <3>1. sel' = [sel EXCEPT !.mode = s.mode, !.library = lib, !.ran = sel.ran \cup {sel.i}]
      BY <1>9, <2>2 DEF NextSuite
    <3>2. run' = [run EXCEPT !.def = TRUE, !.failed = FALSE,
                             !.suite = [cases |-> 0, total |-> 0, failed |-> 0]]
      BY <1>9, <2>2 DEF NextSuite
    <3>3. rec' = [rec EXCEPT !.suite = NoResults]
      BY <1>9, <2>2 DEF NextSuite
    <3>4. sel'.failed = sel.failed
      <4>. DEFINE m == s.mode
                  w == sel.ran \cup {sel.i}
                  q == Moded(sel, m, lib)
      <4>1. sel' = [q EXCEPT !.ran = w]
        BY <3>1 DEF Moded
      <4>. HIDE DEF m, w, lib
      <4>2. IsSel(q) /\ q.failed = sel.failed
        BY <1>1, SelMode
      <4>. HIDE DEF q
      <4>. QED BY <4>1, <4>2, SelRan
    <3>5. Busy'
      <4>1. actor' = [actor EXCEPT ![Main] = "body"]
        BY <1>9, <2>2 DEF NextSuite
      <4>. QED BY <1>1, <4>1 DEF Busy
    <3>6. Right(run', rec', truth, sel.failed, TRUE)
      BY <1>4, <2>1, <3>2, <3>3, BeginCounted
    <3>7. Right(run', rec', truth', sel.failed, TRUE)
      BY <2>1, <3>6, LateCounted
    <3>. QED BY <1>7, <3>4, <3>5, <3>7
  <2>3. CASE ~s.pick
    <3>1. sel' = [sel EXCEPT !.mode = s.mode, !.library = lib, !.i = @ + 1] /\ UNCHANGED <<run, rec, actor>>
      BY <1>9, <2>3 DEF NextSuite
    <3>2. sel'.failed = sel.failed
      <4>. DEFINE m == s.mode
                  e == [Moded(sel, m, lib) EXCEPT !.i = @ + 1]
      <4>1. sel' = e
        BY <3>1 DEF Moded
      <4>. HIDE DEF m, lib
      <4>2. /\ IsSel(e) /\ e.i = sel.i + 1 /\ e.asked = sel.asked /\ e.pat = sel.pat
            /\ e.mode = m /\ e.ran = sel.ran /\ e.failed = sel.failed
        BY <1>1, SelPassed
      <4>. HIDE DEF e
      <4>. QED BY <4>1, <4>2
    <3>3. Right(run, rec, truth', sel.failed, FALSE)
      BY <1>4, <2>1, LateCounted
    <3>. QED BY <2>1, <3>1, <3>2, <3>3 DEF CountsInv, Busy
  <2>. QED BY <2>2, <2>3
<1>10. ASSUME NEW abort \in BOOLEAN, Testcase(abort) PROVE CountsInv'
  <2>1. Acts(Main, "body") /\ truth' = [truth EXCEPT !.late = 0]
    BY <1>10 DEF Testcase
  <2>2. Busy /\ Busy' /\ sel'.failed = sel.failed
    BY <1>1, <1>6, <2>1 DEF Doing
  <2>3. Right(run', rec', truth, sel.failed, TRUE)
    <3>1. CASE run.def \/ run.cond
      <4>1. run' = testcase(run) /\ rec' = rec_testcase(rec, run)
        BY <1>10, <3>1 DEF Testcase
      <4>. QED BY <1>3, <2>2, <4>1, CaseCounted
    <3>2. CASE ~(run.def \/ run.cond)
      <4>1. run' = [run EXCEPT !.dead = "assert"] /\ rec' = rec
        BY <1>10, <3>2 DEF Testcase
      <4>. QED BY <1>3, <2>2, <4>1, DeathCounted
    <3>. QED BY <3>1, <3>2
  <2>4. Right(run', rec', truth', sel.failed, TRUE)
    BY <2>1, <2>3, LateCounted
  <2>. QED BY <1>7, <2>2, <2>4
<1>11. CASE Log
  <2>1. Acts(Main, "body") /\ run' = runner_log(run) /\ rec' = rec_opened(rec, run) /\ truth' = truth
    BY <1>11 DEF Log
  <2>2. Busy /\ Busy' /\ sel'.failed = sel.failed
    BY <1>1, <1>6, <2>1 DEF Doing
  <2>3. Right(run', rec', truth', sel'.failed, TRUE)
    BY <1>3, <2>1, <2>2, CaseCounted
  <2>. QED BY <1>7, <2>2, <2>3
<1>12. ASSUME NEW a \in Actors, NEW ok \in BOOLEAN, Check(a, ok) PROVE CountsInv'
  <2>. DEFINE pc == IF propagate_abort THEN "aborts" ELSE IF ok THEN "pass" ELSE "fail"
  <2>1. Acts(a, pc) /\ UNCHANGED <<run, rec, truth>>
    BY <1>12 DEF Check
  <2>2. pc \in Doing /\ pc # "idle"
    BY DEF Doing
  <2>. HIDE DEF pc
  <2>3. Busy /\ Busy' /\ sel'.failed = sel.failed
    BY <1>6, <2>1, <2>2
  <2>. QED BY <1>1, <2>1, <2>3, CountsSame
<1>13. ASSUME NEW a \in Actors, RecordPass(a) PROVE CountsInv'
  <2>1. /\ run' = runner_pass(run) /\ rec' = rec_pass(rec, run) /\ sel' = sel
        /\ Is(a, "pass") /\ Goes(a, "body") /\ Counted(0)
    BY <1>13 DEF RecordPass
  <2>2. Busy /\ Busy'
    BY <1>8, <2>1 DEF Doing
  <2>3. PICK n \in Nat : truth' = Told(truth, 0, n)
    BY <1>2, <2>1, CountedTold
  <2>4. Right(run', rec', truth', sel'.failed, TRUE)
    BY <1>3, <2>1, <2>2, <2>3, PassCounted
  <2>. QED BY <1>7, <2>2, <2>4
<1>14. ASSUME NEW a \in Actors, RecordFail(a) PROVE CountsInv'
  <2>1. /\ run' = runner_fail(run) /\ rec' = rec_fail(rec, run) /\ sel' = sel
        /\ Is(a, "fail") /\ Goes(a, "failed") /\ Counted(1)
    BY <1>14 DEF RecordFail
  <2>2. Busy /\ Busy'
    BY <1>8, <2>1 DEF Doing
  <2>3. PICK n \in Nat : truth' = Told(truth, 1, n)
    BY <1>2, <2>1, CountedTold
  <2>4. Right(run', rec', truth', sel'.failed, TRUE)
    BY <1>3, <2>1, <2>2, <2>3, FailCounted
  <2>. QED BY <1>7, <2>2, <2>4
<1>15. ASSUME NEW a \in Actors, AfterFail(a) PROVE CountsInv'
  <2>. DEFINE to == IF flags.abort THEN "aborts" ELSE "body"
  <2>1. Is(a, "failed") /\ Goes(a, to) /\ UNCHANGED <<sel, run, rec, truth>>
    BY <1>15 DEF AfterFail
  <2>2. to \in Doing /\ to # "idle"
    BY DEF Doing
  <2>. HIDE DEF to
  <2>3. Busy /\ Busy'
    BY <1>8, <2>1, <2>2 DEF Doing
  <2>. QED BY <1>1, <2>1, <2>3, CountsSame
<1>16. ASSUME NEW a \in Actors, Abort(a) PROVE CountsInv'
  <2>1. CASE a = Main /\ Unjoined
    BY <1>5, <1>16, <2>1 DEF Abort, Unwinds
  <2>2. CASE ~(a = Main /\ Unjoined)
    <3>1. Is(a, "aborts") /\ Goes(a, "over") /\ UNCHANGED <<sel, run, rec, truth>>
      BY <1>16, <2>2 DEF Abort, Unwinds
    <3>2. Busy /\ Busy'
      BY <1>8, <3>1 DEF Doing
    <3>. QED BY <1>1, <3>1, <3>2, CountsSame
  <2>. QED BY <2>1, <2>2
<1>17. CASE Throw
  <2>1. CASE Unjoined
    BY <1>5, <1>17, <2>1 DEF Throw
  <2>2. CASE ~Unjoined
    <3>1. /\ run' = runner_fail(run) /\ rec' = rec_fail(rec, run) /\ sel' = sel
          /\ Is(Main, "body") /\ Goes(Main, "over") /\ Counted(1)
      BY <1>17, <2>2 DEF Throw
    <3>2. Busy /\ Busy'
      BY <1>1, <1>8, <3>1 DEF Doing
    <3>3. PICK n \in Nat : truth' = Told(truth, 1, n)
      BY <1>2, <3>1, CountedTold
    <3>4. Right(run', rec', truth', sel'.failed, TRUE)
      BY <1>3, <3>1, <3>2, <3>3, FailCounted
    <3>. QED BY <1>7, <3>2, <3>4
  <2>. QED BY <2>1, <2>2
<1>18. ASSUME NEW t \in Threads, CatchInThread(t) PROVE CountsInv'
  <2>1. CASE propagate_abort
    BY <1>5, <1>18, <2>1 DEF CatchInThread
  <2>2. CASE ~propagate_abort
    <3>. DEFINE q == runner_fail(run)
                how == IF flags.abort THEN "terminate" ELSE q.dead
    <3>1. /\ run' = [q EXCEPT !.dead = how] /\ rec' = rec_fail(rec, run) /\ sel' = sel
          /\ Is(t, "catch") /\ Goes(t, "over") /\ Counted(1)
      BY <1>18, <2>2 DEF CatchInThread
    <3>2. Busy /\ Busy'
      BY <1>1, <1>8, <3>1 DEF Doing
    <3>3. PICK n \in Nat : truth' = Told(truth, 1, n)
      BY <1>2, <3>1, CountedTold
    <3>4. Right(q, rec', truth', sel'.failed, TRUE)
      BY <1>3, <3>1, <3>2, <3>3, FailCounted
    <3>. HIDE DEF q, how
    <3>5. Right(run', rec', truth', sel'.failed, TRUE)
      BY <3>1, <3>4, DeathCounted
    <3>. QED BY <1>7, <3>2, <3>5
  <2>. QED BY <2>1, <2>2
<1>19. ASSUME NEW t \in Threads, ThrowInThread(t) \/ ThreadReturns(t) PROVE CountsInv'
  <2>1. Is(t, "body") /\ (Goes(t, "catch") \/ Goes(t, "over")) /\ UNCHANGED <<sel, run, rec, truth>>
    BY <1>19 DEF ThrowInThread, ThreadReturns
  <2>2. Busy /\ Busy'
    BY <1>1, <1>8, <2>1 DEF Doing
  <2>. QED BY <1>1, <2>1, <2>2, CountsSame
<1>20. ASSUME NEW t \in Threads, Start(t) PROVE CountsInv'
  <2>1. Is(Main, "body") /\ Goes(t, "body") /\ UNCHANGED <<sel, run, rec, truth>>
    BY <1>20 DEF Start
  <2>2. Busy
    BY <2>1 DEF Busy, Is
  <2>3. Busy'
    BY <1>1, <2>1, <2>2, StillBusy DEF Doing
  <2>. QED BY <1>1, <2>1, <2>2, <2>3, CountsSame
<1>21. ASSUME NEW t \in Threads, Join(t) PROVE CountsInv'
  <2>1. UNCHANGED <<sel, run, rec, truth>> /\ Busy
    BY <1>21 DEF Join, Is, Busy
  <2>2. Busy'
    BY <1>1, <1>21 DEF Join, Busy, Actors
  <2>. QED BY <1>1, <2>1, <2>2, CountsSame
<1>22. CASE BodyReturns
  <2>1. Is(Main, "body") /\ Goes(Main, "over") /\ UNCHANGED <<sel, run, rec, truth>>
    BY <1>22 DEF BodyReturns
  <2>2. Busy /\ Busy'
    BY <1>1, <1>8, <2>1 DEF Doing
  <2>. QED BY <1>1, <2>1, <2>2, CountsSame
<1>23. CASE EndSuite
  <2>1. CASE ~run.cond
    BY <1>5, <1>23, <2>1 DEF EndSuite
  <2>2. CASE run.cond
    <3>1. /\ run' = on_suite_end(on_case_end(run)) /\ rec' = rec_suite_end(rec_case_end(rec))
          /\ actor' = [a \in Actors |-> "idle"]
          /\ truth' = [truth EXCEPT !.silent = @ \/ run.def]
          /\ sel' = [sel EXCEPT !.i = @ + 1, !.failed = @ \/ run.failed]
          /\ actor[Main] = "over"
      BY <1>23, <2>2 DEF EndSuite, Is
    <3>2. Busy /\ ~Busy'
      BY <1>1, <3>1 DEF Busy
    <3>3. sel.failed \in BOOLEAN /\ run.failed \in BOOLEAN
      BY <1>2, <1>3, <3>2, RunFields DEF Right, Verdict
    <3>4. sel'.failed \in BOOLEAN /\ (sel'.failed <=> (sel.failed \/ run.failed))
      BY <1>1, <3>1, <3>3, SelEnded
    <3>5. Right(run', rec', truth', sel'.failed, FALSE)
      BY <1>3, <3>1, <3>2, <3>4, EndCounted
    <3>. QED BY <3>2, <3>5 DEF CountsInv
  <2>. QED BY <2>1, <2>2
<1>24. CASE UNCHANGED tvars
  BY <1>1, <1>24, CountsSame DEF tvars, Busy
<1>. QED
  BY <1>9, <1>10, <1>11, <1>12, <1>13, <1>14, <1>15, <1>16, <1>17, <1>18, <1>19, <1>20, <1>21,
     <1>22, <1>23, <1>24 DEF TestsNext

-----------------------------------------------------------------------------
(* Every step leaves the selection right.                                  *)

\* What the selector makes of a suite, by its mode.
LEMMA SelectModes ==
  ASSUME NEW s, NEW pat
  PROVE  /\ Select(s, "each", pat).mode = "each" /\ (Select(s, "each", pat).pick <=> (TRUE))
         /\ Select(s, "all", pat).mode = "all" /\ (Select(s, "all", pat).pick <=> (~s.manual))
         /\ Select(s, "suite", pat).mode = "suite" /\ (Select(s, "suite", pat).pick <=> (pat = s.name))
         /\ Select(s, "library", pat).mode = "library" /\ (Select(s, "library", pat).pick <=> (pat = s.library /\ ~s.manual))
         /\ Select(s, "module", pat).mode = "module" /\ (Select(s, "module", pat).pick <=> (pat = s.module /\ ~s.manual))
         /\ Select(s, "none", pat).mode = "none" /\ (Select(s, "none", pat).pick <=> (FALSE))
         /\ Select(s, "automatch", pat) = Automatch(s, pat)
<1>1. ASSUME NEW m, NEW b PROVE [mode |-> m, pick |-> b].mode = m /\ [mode |-> m, pick |-> b].pick = b
  OBVIOUS
<1>2. Select(s, "each", pat).mode = "each" /\ (Select(s, "each", pat).pick <=> (TRUE))
  <2>. DEFINE b == TRUE
  <2>1. Select(s, "each", pat) = [mode |-> "each", pick |-> b]
    BY DEF Select
  <2>. HIDE DEF b
  <2>2. Select(s, "each", pat).mode = "each" /\ Select(s, "each", pat).pick = b
    BY <1>1, <2>1
  <2>. QED BY <2>2 DEF b
<1>3. Select(s, "all", pat).mode = "all" /\ (Select(s, "all", pat).pick <=> (~s.manual))
  <2>. DEFINE b == ~s.manual
  <2>1. Select(s, "all", pat) = [mode |-> "all", pick |-> b]
    BY DEF Select
  <2>. HIDE DEF b
  <2>2. Select(s, "all", pat).mode = "all" /\ Select(s, "all", pat).pick = b
    BY <1>1, <2>1
  <2>. QED BY <2>2 DEF b
<1>4. Select(s, "suite", pat).mode = "suite" /\ (Select(s, "suite", pat).pick <=> (pat = s.name))
  <2>. DEFINE b == pat = s.name
  <2>1. Select(s, "suite", pat) = [mode |-> "suite", pick |-> b]
    BY DEF Select
  <2>. HIDE DEF b
  <2>2. Select(s, "suite", pat).mode = "suite" /\ Select(s, "suite", pat).pick = b
    BY <1>1, <2>1
  <2>. QED BY <2>2 DEF b
<1>5. Select(s, "library", pat).mode = "library" /\ (Select(s, "library", pat).pick <=> (pat = s.library /\ ~s.manual))
  <2>. DEFINE b == pat = s.library /\ ~s.manual
  <2>1. Select(s, "library", pat) = [mode |-> "library", pick |-> b]
    BY DEF Select
  <2>. HIDE DEF b
  <2>2. Select(s, "library", pat).mode = "library" /\ Select(s, "library", pat).pick = b
    BY <1>1, <2>1
  <2>. QED BY <2>2 DEF b
<1>6. Select(s, "module", pat).mode = "module" /\ (Select(s, "module", pat).pick <=> (pat = s.module /\ ~s.manual))
  <2>. DEFINE b == pat = s.module /\ ~s.manual
  <2>1. Select(s, "module", pat) = [mode |-> "module", pick |-> b]
    BY DEF Select
  <2>. HIDE DEF b
  <2>2. Select(s, "module", pat).mode = "module" /\ Select(s, "module", pat).pick = b
    BY <1>1, <2>1
  <2>. QED BY <2>2 DEF b
<1>7. Select(s, "none", pat).mode = "none" /\ (Select(s, "none", pat).pick <=> (FALSE))
  <2>. DEFINE b == FALSE
  <2>1. Select(s, "none", pat) = [mode |-> "none", pick |-> b]
    BY DEF Select
  <2>. HIDE DEF b
  <2>2. Select(s, "none", pat).mode = "none" /\ Select(s, "none", pat).pick = b
    BY <1>1, <2>1
  <2>. QED BY <2>2 DEF b
<1>8. Select(s, "automatch", pat) = Automatch(s, pat)
  BY DEF Select
<1>. QED BY <1>2, <1>3, <1>4, <1>5, <1>6, <1>7, <1>8

LEMMA AutomatchModes ==
  ASSUME NEW s, NEW pat
  PROVE  LET a == Automatch(s, pat)
         IN  /\ pat \in {s.name, s.full} => a.mode = "none" /\ a.pick
             /\ pat \notin {s.name, s.full} /\ pat = s.module =>
                  a.mode = "module" /\ (a.pick <=> ~s.manual)
             /\ pat \notin {s.name, s.full} /\ pat # s.module /\ pat = s.library =>
                  a.mode = "library" /\ (a.pick <=> ~s.manual)
             /\ pat \notin {s.name, s.full} /\ pat # s.module /\ pat # s.library =>
                  a.mode = "automatch" /\ ~a.pick
<1>. DEFINE a == Automatch(s, pat)
            b == ~s.manual
            yes == TRUE
            no == FALSE
<1>1. /\ pat \in {s.name, s.full} => a = [mode |-> "none", pick |-> yes]
      /\ pat \notin {s.name, s.full} /\ pat = s.module => a = [mode |-> "module", pick |-> b]
      /\ pat \notin {s.name, s.full} /\ pat # s.module /\ pat = s.library =>
           a = [mode |-> "library", pick |-> b]
      /\ pat \notin {s.name, s.full} /\ pat # s.module /\ pat # s.library =>
           a = [mode |-> "automatch", pick |-> no]
  BY DEF Automatch
<1>2. ASSUME NEW m, NEW c PROVE [mode |-> m, pick |-> c].mode = m /\ [mode |-> m, pick |-> c].pick = c
  OBVIOUS
<1>. HIDE DEF a, b, yes, no
<1>3. /\ pat \in {s.name, s.full} => a.mode = "none" /\ a.pick = yes
      /\ pat \notin {s.name, s.full} /\ pat = s.module => a.mode = "module" /\ a.pick = b
      /\ pat \notin {s.name, s.full} /\ pat # s.module /\ pat = s.library =>
           a.mode = "library" /\ a.pick = b
      /\ pat \notin {s.name, s.full} /\ pat # s.module /\ pat # s.library =>
           a.mode = "automatch" /\ a.pick = no
  BY <1>1, <1>2
<1>. QED BY <1>3 DEF a, b, yes, no

\* The selector has seen one suite more.
LEMMA ChosenNext ==
  ASSUME NEW asked, NEW mode, NEW pat, NEW ran, NEW n \in Nat, Chosen(asked, mode, pat, ran, n)
  PROVE  LET s == Select(Suites[n + 1], mode, pat)
         IN  Chosen(asked, s.mode, pat, IF s.pick THEN ran \cup {n + 1} ELSE ran, n + 1)
<1>. DEFINE m == n + 1
            s == Select(Suites[m], mode, pat)
            now == IF s.pick THEN ran \cup {m} ELSE ran
<1>1. m \in 1 .. m /\ m \notin 1 .. n /\ 1 .. m = 1 .. n \cup {m} /\ m \in Nat /\ 1 .. m - 1 = 1 .. n
  OBVIOUS
<1>. SUFFICES Chosen(asked, s.mode, pat, now, m)
  OBVIOUS
<1>. HIDE DEF m
<1>2. CASE asked # "automatch"
  <2>1. /\ mode = asked /\ asked \in {"each", "all", "suite", "library"}
        /\ ran = {i \in 1 .. n : Select(Suites[i], asked, pat).pick}
    BY <1>2 DEF Chosen
  <2>2. s.mode = asked
    BY <2>1, SelectModes
  <2>3. now = {i \in 1 .. m : Select(Suites[i], asked, pat).pick}
    BY <1>1, <2>1
  <2>. HIDE DEF s, now
  <2>. QED BY <1>2, <2>1, <2>2, <2>3 DEF Chosen
<1>3. CASE asked = "automatch" /\ mode = "automatch"
  <2>1. ran = {} /\ \A i \in 1 .. n : ~Matches(i, pat)
    BY <1>3 DEF Chosen
  <2>2. s = Automatch(Suites[m], pat)
    BY <1>3, SelectModes
  <2>3. CASE ByName(m, pat)
    <3>1. s.mode = "none" /\ s.pick
      BY <2>2, <2>3, AutomatchModes DEF ByName
    <3>2. s.mode = "none" /\ now = {m}
      BY <2>1, <3>1
    <3>. HIDE DEF s, now
    <3>. QED BY <1>1, <1>3, <2>1, <2>3, <3>2 DEF Chosen, Matches
  <2>4. CASE ~ByName(m, pat) /\ pat = Suites[m].module
    <3>2. s.mode = "module" /\ (s.pick <=> ~Suites[m].manual)
      BY <2>2, <2>4, AutomatchModes DEF ByName
    <3>3. now = {i \in 1 .. m : pat = Suites[i].module /\ ~Suites[i].manual}
      <4>1. \A i \in 1 .. n : pat # Suites[i].module
        BY <2>1 DEF Matches
      <4>. QED BY <1>1, <2>1, <2>4, <3>2, <4>1
    <3>. HIDE DEF s, now
    <3>. QED BY <1>1, <1>3, <2>1, <2>4, <3>2, <3>3 DEF Chosen, Matches
  <2>5. CASE ~ByName(m, pat) /\ pat # Suites[m].module /\ pat = Suites[m].library
    <3>2. s.mode = "library" /\ (s.pick <=> ~Suites[m].manual)
      BY <2>2, <2>5, AutomatchModes DEF ByName
    <3>3. now = {i \in 1 .. m : pat = Suites[i].library /\ ~Suites[i].manual}
      <4>1. \A i \in 1 .. n : pat # Suites[i].library
        BY <2>1 DEF Matches
      <4>. QED BY <1>1, <2>1, <2>5, <3>2, <4>1
    <3>. HIDE DEF s, now
    <3>. QED BY <1>1, <1>3, <2>1, <2>5, <3>2, <3>3 DEF Chosen, Matches
  <2>6. CASE ~Matches(m, pat)
    <3>1. s.mode = "automatch" /\ ~s.pick
      BY <2>2, <2>6, AutomatchModes DEF ByName, Matches
    <3>2. s.mode = "automatch" /\ now = {}
      BY <2>1, <3>1
    <3>. HIDE DEF s, now
    <3>. QED BY <1>1, <1>3, <2>1, <2>6, <3>2 DEF Chosen
  <2>. QED BY <2>3, <2>4, <2>5, <2>6 DEF Matches
<1>4. CASE asked = "automatch" /\ mode # "automatch"
  <2>1. PICK f \in 1 .. n :
            /\ Matches(f, pat) /\ \A i \in 1 .. f - 1 : ~Matches(i, pat)
            /\ \/ mode = "none" /\ ByName(f, pat) /\ ran = {f}
               \/ /\ mode = "module" /\ ~ByName(f, pat) /\ pat = Suites[f].module
                  /\ ran = {i \in 1 .. n : pat = Suites[i].module /\ ~Suites[i].manual}
               \/ /\ mode = "library" /\ ~ByName(f, pat) /\ pat # Suites[f].module
                  /\ ran = {i \in 1 .. n : pat = Suites[i].library /\ ~Suites[i].manual}
    BY <1>4 DEF Chosen
  <2>2. f \in 1 .. m
    BY <1>1
  <2>3. CASE mode = "none"
    <3>1. s.mode = "none" /\ ~s.pick
      BY <2>3, SelectModes
    <3>2. ByName(f, pat) /\ now = {f}
      BY <2>1, <2>3, <3>1
    <3>. HIDE DEF s, now
    <3>. QED BY <1>4, <2>1, <2>2, <3>1, <3>2 DEF Chosen
  <2>4. CASE mode = "module"
    <3>1. s.mode = "module" /\ (s.pick <=> (pat = Suites[m].module /\ ~Suites[m].manual))
      BY <2>4, SelectModes
    <3>2. /\ ~ByName(f, pat) /\ pat = Suites[f].module
          /\ now = {i \in 1 .. m : pat = Suites[i].module /\ ~Suites[i].manual}
      <4>1. /\ ~ByName(f, pat) /\ pat = Suites[f].module
            /\ ran = {i \in 1 .. n : pat = Suites[i].module /\ ~Suites[i].manual}
        BY <2>1, <2>4
      <4>. QED BY <1>1, <3>1, <4>1
    <3>. HIDE DEF s, now
    <3>. QED BY <1>4, <2>1, <2>2, <3>1, <3>2 DEF Chosen
  <2>5. CASE mode = "library"
    <3>1. s.mode = "library" /\ (s.pick <=> (pat = Suites[m].library /\ ~Suites[m].manual))
      BY <2>5, SelectModes
    <3>2. /\ ~ByName(f, pat) /\ pat # Suites[f].module
          /\ now = {i \in 1 .. m : pat = Suites[i].library /\ ~Suites[i].manual}
      <4>1. /\ ~ByName(f, pat) /\ pat # Suites[f].module
            /\ ran = {i \in 1 .. n : pat = Suites[i].library /\ ~Suites[i].manual}
        BY <2>1, <2>5
      <4>. QED BY <1>1, <3>1, <4>1
    <3>. HIDE DEF s, now
    <3>. QED BY <1>4, <2>1, <2>2, <3>1, <3>2 DEF Chosen
  <2>. QED BY <2>1, <2>3, <2>4, <2>5
<1>. QED BY <1>2, <1>3, <1>4

LEMMA LeastIs ==
  ASSUME NEW S, S \subseteq Nat, NEW f \in S, \A i \in S : f <= i
  PROVE  Min(S) = f
<1>1. \E x \in S : \A y \in S : x <= y
  OBVIOUS
<1>2. Min(S) \in S /\ \A y \in S : Min(S) <= y
  BY <1>1 DEF Min
<1>3. Min(S) \in Nat /\ f \in Nat /\ Min(S) <= f /\ f <= Min(S)
  BY <1>2
<1>. QED BY <1>3

\* The suites a pattern may mean, and the first that it meets.
NamedBy(pat) == {i \in DOMAIN Suites : pat \in {Suites[i].name, Suites[i].full}}
ModuleOf(pat) == {i \in DOMAIN Suites : Suites[i].module = pat}
LibraryOf(pat) == {i \in DOMAIN Suites : Suites[i].library = pat}
SuiteOf(pat) == {i \in DOMAIN Suites : Suites[i].name = pat}
Automatic == {i \in DOMAIN Suites : ~Suites[i].manual}
FirstMet(pat) == Min(NamedBy(pat) \cup ModuleOf(pat) \cup LibraryOf(pat) \cup {Len(Suites) + 1})

LEMMA NotBefore ==
  ASSUME NEW n \in Nat, NEW f \in 1 .. n, NEW i \in 1 .. n, i \notin 1 .. f - 1
  PROVE  f <= i
OBVIOUS

\* Through the list, the suites that ran are the ones asked for.
LEMMA ChosenAll ==
  ASSUME NEW asked, NEW mode, NEW pat, NEW ran, Chosen(asked, mode, pat, ran, Len(Suites))
  PROVE  /\ asked \in {"each", "all", "suite", "library", "automatch"}
         /\ asked = "each" => ran = DOMAIN Suites
         /\ asked = "all" => ran = Automatic
         /\ asked = "suite" => ran = SuiteOf(pat)
         /\ asked = "library" => ran = LibraryOf(pat) \cap Automatic
         /\ asked = "automatch" =>
              ran = IF FirstMet(pat) \in NamedBy(pat) THEN {FirstMet(pat)}
                    ELSE IF FirstMet(pat) \in ModuleOf(pat) THEN ModuleOf(pat) \cap Automatic
                    ELSE LibraryOf(pat) \cap Automatic
<1>. DEFINE named == NamedBy(pat)
            inModule == ModuleOf(pat)
            inLibrary == LibraryOf(pat)
            auto == Automatic
            suite == SuiteOf(pat)
            first == FirstMet(pat)
<1>0. /\ named = {i \in DOMAIN Suites : pat \in {Suites[i].name, Suites[i].full}}
      /\ inModule = {i \in DOMAIN Suites : Suites[i].module = pat}
      /\ inLibrary = {i \in DOMAIN Suites : Suites[i].library = pat}
      /\ auto = {i \in DOMAIN Suites : ~Suites[i].manual}
      /\ suite = {i \in DOMAIN Suites : Suites[i].name = pat}
      /\ first = Min(named \cup inModule \cup inLibrary \cup {Len(Suites) + 1})
  BY DEF NamedBy, ModuleOf, LibraryOf, Automatic, SuiteOf, FirstMet
<1>. SUFFICES /\ asked \in {"each", "all", "suite", "library", "automatch"}
              /\ asked = "each" => ran = DOMAIN Suites
              /\ asked = "all" => ran = auto
              /\ asked = "suite" => ran = suite
              /\ asked = "library" => ran = inLibrary \cap auto
              /\ asked = "automatch" =>
                   ran = IF first \in named THEN {first}
                         ELSE IF first \in inModule THEN inModule \cap auto
                         ELSE inLibrary \cap auto
  OBVIOUS
<1>. HIDE DEF named, inModule, inLibrary, auto, suite, first
<1>1. Len(Suites) \in Nat /\ DOMAIN Suites = 1 .. Len(Suites)
  BY TestsAssumption
<1>2. CASE asked # "automatch"
  <2>1. /\ asked \in {"each", "all", "suite", "library"}
        /\ ran = {i \in 1 .. Len(Suites) : Select(Suites[i], asked, pat).pick}
    BY <1>2 DEF Chosen
  <2>2. CASE asked = "each"
    <3>1. ran = DOMAIN Suites
      BY <1>0, <1>1, <2>1, <2>2, SelectModes
    <3>. QED BY <2>2, <3>1
  <2>3. CASE asked = "all"
    <3>1. ran = auto
      BY <1>0, <1>1, <2>1, <2>3, SelectModes
    <3>. QED BY <2>3, <3>1
  <2>4. CASE asked = "suite"
    <3>1. ran = suite
      BY <1>0, <1>1, <2>1, <2>4, SelectModes
    <3>. QED BY <2>4, <3>1
  <2>5. CASE asked = "library"
    <3>1. ran = inLibrary \cap auto
      BY <1>0, <1>1, <2>1, <2>5, SelectModes
    <3>. QED BY <2>5, <3>1
  <2>. QED BY <2>1, <2>2, <2>3, <2>4, <2>5
<1>3. CASE asked = "automatch"
  <2>. DEFINE S == named \cup inModule \cup inLibrary \cup {Len(Suites) + 1}
  <2>1. S \subseteq Nat /\ Len(Suites) + 1 \in S /\ \A i \in S : i <= Len(Suites) + 1
    BY <1>0, <1>1
  <2>2. \A i \in DOMAIN Suites : i \in S <=> Matches(i, pat)
    BY <1>0, <1>1 DEF Matches, ByName
  <2>3. ran = IF first \in named THEN {first}
              ELSE IF first \in inModule THEN inModule \cap auto
              ELSE inLibrary \cap auto
    <3>1. CASE ran = {} /\ \A i \in 1 .. Len(Suites) : ~Matches(i, pat)
      <4>1. S = {Len(Suites) + 1}
        BY <1>0, <1>1, <2>2, <3>1
      <4>2. first = Len(Suites) + 1
        BY <1>0, <2>1, <4>1, LeastIs
      <4>3. first \notin named /\ first \notin inModule
        BY <1>0, <1>1, <4>2
      <4>4. inLibrary = {}
        BY <1>0, <1>1, <3>1 DEF Matches
      <4>. QED BY <3>1, <4>3, <4>4
    <3>2. ASSUME NEW f \in 1 .. Len(Suites), Matches(f, pat), \A i \in 1 .. f - 1 : ~Matches(i, pat)
          PROVE  first = f
      <4>1. f \in S
        BY <1>0, <1>1, <2>2, <3>2
      <4>2. ASSUME NEW i \in S PROVE f <= i
        <5>1. CASE i = Len(Suites) + 1
          BY <1>0, <1>1, <5>1
        <5>2. CASE i \in DOMAIN Suites
          <6>1. Matches(i, pat) /\ i \in 1 .. Len(Suites)
            BY <1>0, <1>1, <2>2, <5>2
          <6>2. i \notin 1 .. f - 1
            BY <3>2, <6>1
          <6>. QED BY <1>1, <6>1, <6>2, NotBefore
        <5>3. i = Len(Suites) + 1 \/ i \in DOMAIN Suites
          BY <1>0
        <5>. QED BY <5>1, <5>2, <5>3
      <4>. HIDE DEF S
      <4>3. Min(S) = f
        BY <2>1, <4>1, <4>2, LeastIs
      <4>. QED BY <1>0, <4>3 DEF S
    <3>3. CASE \E f \in 1 .. Len(Suites) :
            /\ Matches(f, pat) /\ \A i \in 1 .. f - 1 : ~Matches(i, pat)
            /\ \/ mode = "none" /\ ByName(f, pat) /\ ran = {f}
               \/ /\ mode = "module" /\ ~ByName(f, pat) /\ pat = Suites[f].module
                  /\ ran = {i \in 1 .. Len(Suites) : pat = Suites[i].module /\ ~Suites[i].manual}
               \/ /\ mode = "library" /\ ~ByName(f, pat) /\ pat # Suites[f].module
                  /\ ran = {i \in 1 .. Len(Suites) : pat = Suites[i].library /\ ~Suites[i].manual}
      <4>1. PICK f \in 1 .. Len(Suites) :
            /\ Matches(f, pat) /\ \A i \in 1 .. f - 1 : ~Matches(i, pat)
            /\ \/ ByName(f, pat) /\ ran = {f}
               \/ /\ ~ByName(f, pat) /\ pat = Suites[f].module
                  /\ ran = {i \in 1 .. Len(Suites) : pat = Suites[i].module /\ ~Suites[i].manual}
               \/ /\ ~ByName(f, pat) /\ pat # Suites[f].module
                  /\ ran = {i \in 1 .. Len(Suites) : pat = Suites[i].library /\ ~Suites[i].manual}
        BY <3>3
      <4>2. first = f
        BY <3>2, <4>1
      <4>3. (f \in named <=> ByName(f, pat)) /\ (f \in inModule <=> pat = Suites[f].module)
        BY <1>0, <1>1 DEF ByName
      <4>4. /\ inModule \cap auto
                 = {i \in 1 .. Len(Suites) : pat = Suites[i].module /\ ~Suites[i].manual}
            /\ inLibrary \cap auto
                 = {i \in 1 .. Len(Suites) : pat = Suites[i].library /\ ~Suites[i].manual}
        BY <1>0, <1>1
      <4>. QED BY <4>1, <4>2, <4>3, <4>4
    <3>. QED BY <1>3, <3>1, <3>3 DEF Chosen
  <2>. QED BY <1>3, <2>3
<1>. QED BY <1>2, <1>3

\* Between the beginning of a suite and its end the selector stays.
LEMMA SameSuite ==
  ASSUME TestsInv, [TestsNext]_tvars
  PROVE  \/ NextSuite
         \/ EndSuite /\ run.cond
         \/ (Busy' <=> Busy) /\ (sel' = sel \/ sel' = [sel EXCEPT !.steps = sel.steps + 1])
<1>1. /\ AbortInv /\ actor \in [Actors -> Doing] /\ Main \in Actors /\ Threads \subseteq Actors
  BY DEF TestsInv, AbortInv, Stopping, Orderly, Actors
<1>2. ASSUME NEW a \in Actors, NEW pc \in Doing, pc # "idle", Acts(a, pc)
      PROVE  (Busy' <=> Busy) /\ sel' = [sel EXCEPT !.steps = sel.steps + 1]
  <2>1. actor[a] = "body" /\ Goes(a, pc) /\ sel' = [sel EXCEPT !.steps = sel.steps + 1]
    BY <1>2 DEF Acts, Is
  <2>2. Busy
    BY <1>1, <2>1, BusyActor
  <2>3. Busy'
    BY <1>1, <1>2, <2>1, <2>2, StillBusy
  <2>. QED BY <2>1, <2>2, <2>3
<1>3. ASSUME NEW a \in Actors, NEW pc \in Doing \ {"idle", "joined"}, Is(a, pc),
             NEW to \in Doing, to # "idle", Goes(a, to)
      PROVE  Busy' <=> Busy
  <2>1. Busy
    BY <1>1, <1>3, BusyActor DEF Is
  <2>. QED BY <1>1, <1>3, <2>1, StillBusy
<1>4. ASSUME NEW how, Dies(how) PROVE (Busy' <=> Busy) /\ sel' = sel
  BY <1>4 DEF Dies, Busy
<1>5. ASSUME NEW abort \in BOOLEAN, Testcase(abort) PROVE (Busy' <=> Busy) /\ sel' = [sel EXCEPT !.steps = sel.steps + 1]
  BY <1>1, <1>2, <1>5 DEF Testcase, Doing
<1>6. ASSUME Log PROVE (Busy' <=> Busy) /\ sel' = [sel EXCEPT !.steps = sel.steps + 1]
  BY <1>1, <1>2, <1>6 DEF Log, Doing
<1>7. ASSUME NEW a \in Actors, NEW ok \in BOOLEAN, Check(a, ok)
      PROVE  (Busy' <=> Busy) /\ sel' = [sel EXCEPT !.steps = sel.steps + 1]
  <2>. DEFINE pc == IF propagate_abort THEN "aborts" ELSE IF ok THEN "pass" ELSE "fail"
  <2>1. Acts(a, pc) /\ pc \in Doing /\ pc # "idle"
    BY <1>7 DEF Check, Doing
  <2>. HIDE DEF pc
  <2>. QED BY <1>2, <2>1
<1>8. ASSUME NEW a \in Actors, RecordPass(a) \/ RecordFail(a) \/ AfterFail(a)
      PROVE  (Busy' <=> Busy) /\ sel' = sel
  <2>1. PICK pc \in Doing \ {"idle", "joined"}, to \in Doing \ {"idle"} : Is(a, pc) /\ Goes(a, to) /\ sel' = sel
    <3>1. CASE RecordPass(a)
      BY <3>1 DEF RecordPass, Doing
    <3>2. CASE RecordFail(a)
      BY <3>2 DEF RecordFail, Doing
    <3>3. CASE AfterFail(a)
      <4>1. CASE flags.abort
        BY <3>3, <4>1 DEF AfterFail, Doing
      <4>2. CASE ~flags.abort
        BY <3>3, <4>2 DEF AfterFail, Doing
      <4>. QED BY <4>1, <4>2
    <3>. QED BY <1>8, <3>1, <3>2, <3>3
  <2>. QED BY <1>3, <2>1
<1>9. ASSUME NEW a \in Actors, Abort(a) PROVE (Busy' <=> Busy) /\ sel' = sel
  <2>1. CASE a = Main /\ Unjoined
    BY <1>4, <1>9, <2>1 DEF Abort, Unwinds
  <2>2. CASE ~(a = Main /\ Unjoined)
    <3>1. Is(a, "aborts") /\ Goes(a, "over") /\ sel' = sel
      BY <1>9, <2>2 DEF Abort, Unwinds
    <3>. QED BY <1>3, <3>1 DEF Doing
  <2>. QED BY <2>1, <2>2
<1>10. ASSUME Throw PROVE (Busy' <=> Busy) /\ sel' = sel
  <2>1. CASE Unjoined
    BY <1>4, <1>10, <2>1 DEF Throw
  <2>2. CASE ~Unjoined
    <3>1. Is(Main, "body") /\ Goes(Main, "over") /\ sel' = sel
      BY <1>10, <2>2 DEF Throw
    <3>. QED BY <1>1, <1>3, <3>1 DEF Doing
  <2>. QED BY <2>1, <2>2
<1>11. ASSUME NEW t \in Threads, CatchInThread(t) PROVE (Busy' <=> Busy) /\ sel' = sel
  <2>1. CASE propagate_abort
    BY <1>4, <1>11, <2>1 DEF CatchInThread
  <2>2. CASE ~propagate_abort
    <3>1. Is(t, "catch") /\ Goes(t, "over") /\ sel' = sel
      BY <1>11, <2>2 DEF CatchInThread
    <3>. QED BY <1>1, <1>3, <3>1 DEF Doing
  <2>. QED BY <2>1, <2>2
<1>12. ASSUME NEW t \in Threads, ThrowInThread(t) \/ ThreadReturns(t) PROVE (Busy' <=> Busy) /\ sel' = sel
  <2>1. Is(t, "body") /\ (Goes(t, "catch") \/ Goes(t, "over")) /\ sel' = sel
    BY <1>12 DEF ThrowInThread, ThreadReturns
  <2>. QED BY <1>1, <1>3, <2>1 DEF Doing
<1>13. ASSUME NEW t \in Threads, Start(t) PROVE (Busy' <=> Busy) /\ sel' = sel
  <2>1. Busy /\ Goes(t, "body") /\ sel' = sel
    BY <1>13 DEF Start, Is, Busy
  <2>2. Busy'
    BY <1>1, <2>1, StillBusy DEF Doing
  <2>. QED BY <2>1, <2>2
<1>14. ASSUME NEW t \in Threads, Join(t) PROVE (Busy' <=> Busy) /\ sel' = sel
  <2>1. sel' = sel /\ Busy
    BY <1>14 DEF Join, Is, Busy
  <2>2. Busy'
    BY <1>1, <1>14 DEF Join, Busy, Actors
  <2>. QED BY <2>1, <2>2
<1>15. ASSUME BodyReturns PROVE (Busy' <=> Busy) /\ sel' = sel
  <2>1. Is(Main, "body") /\ Goes(Main, "over") /\ sel' = sel
    BY <1>15 DEF BodyReturns
  <2>. QED BY <1>1, <1>3, <2>1 DEF Doing
<1>16. ASSUME EndSuite, ~run.cond PROVE (Busy' <=> Busy) /\ sel' = sel
  BY <1>4, <1>16 DEF EndSuite
<1>17. ASSUME UNCHANGED tvars PROVE (Busy' <=> Busy) /\ sel' = sel
  BY <1>17 DEF tvars, Busy
<1>. QED
  BY <1>5, <1>6, <1>7, <1>8, <1>9, <1>10, <1>11, <1>12, <1>13, <1>14, <1>15, <1>16, <1>17
     DEF TestsNext

LEMMA SelectStep ==
  ASSUME TestsInv, [TestsNext]_tvars
  PROVE  SelectInv'
<1>. DEFINE n == IF Busy THEN sel.i ELSE sel.i - 1
<1>1. /\ IsSel(sel) /\ sel.i \in 1 .. Len(Suites) + 1 /\ (Busy => sel.i <= Len(Suites))
      /\ Chosen(sel.asked, sel.mode, sel.pat, sel.ran, n) /\ CountsInv
  BY DEF TestsInv, SelectInv
<1>2. Len(Suites) \in Nat
  BY TestsAssumption
<1>3. CASE NextSuite
  <2>. DEFINE s == Select(Suites[sel.i], sel.mode, sel.pat)
              lib == LibraryAfter(Suites[sel.i], sel.mode, sel.pat, sel.library)
  <2>1. ~Busy /\ sel.i <= Len(Suites)
    BY <1>3 DEF NextSuite, Busy
  <2>2. Chosen(sel.asked, s.mode, sel.pat, IF s.pick THEN sel.ran \cup {sel.i} ELSE sel.ran, sel.i)
    <3>1. sel.i - 1 \in Nat /\ (sel.i - 1) + 1 = sel.i
      BY <1>1, <1>2
    <3>2. Chosen(sel.asked, sel.mode, sel.pat, sel.ran, sel.i - 1)
      BY <1>1, <2>1
    <3>. QED BY <3>1, <3>2, ChosenNext
  <2>3. CASE s.pick
    <3>1. Busy'
      <4>1. actor' = [actor EXCEPT ![Main] = "body"]
        BY <1>3, <2>3 DEF NextSuite
      <4>. QED BY <4>1 DEF Busy, TestsInv, AbortInv, Stopping, Orderly, Actors
    <3>. DEFINE m == s.mode
                w == sel.ran \cup {sel.i}
                q == Moded(sel, m, lib)
    <3>2. sel' = [q EXCEPT !.ran = w]
      BY <1>3, <2>3 DEF NextSuite, Moded
    <3>3. Chosen(sel.asked, m, sel.pat, w, sel.i)
      BY <2>2, <2>3
    <3>. HIDE DEF m, w, lib
    <3>4. IsSel(q) /\ q.i = sel.i /\ q.asked = sel.asked /\ q.pat = sel.pat /\ q.mode = m
      BY <1>1, SelMode
    <3>. HIDE DEF q
    <3>5. /\ IsSel(sel') /\ sel'.i = sel.i /\ sel'.asked = sel.asked /\ sel'.pat = sel.pat
          /\ sel'.mode = m /\ sel'.ran = w
      BY <3>2, <3>4, SelRan
    <3>. QED BY <1>1, <1>2, <2>1, <3>1, <3>3, <3>5 DEF SelectInv
  <2>4. CASE ~s.pick
    <3>1. sel' = [sel EXCEPT !.mode = s.mode, !.library = lib, !.i = @ + 1] /\ ~Busy'
      BY <1>3, <2>1, <2>4 DEF NextSuite, Busy
    <3>2. Chosen(sel.asked, s.mode, sel.pat, sel.ran, sel.i)
      BY <2>2, <2>4
    <3>3. /\ IsSel(sel') /\ sel'.i = sel.i + 1 /\ sel'.asked = sel.asked /\ sel'.pat = sel.pat
          /\ sel'.mode = s.mode /\ sel'.ran = sel.ran
      <4>. DEFINE m == s.mode
                  e == [Moded(sel, m, lib) EXCEPT !.i = @ + 1]
      <4>1. sel' = e
        BY <3>1 DEF Moded
      <4>. HIDE DEF m, lib
      <4>2. /\ IsSel(e) /\ e.i = sel.i + 1 /\ e.asked = sel.asked /\ e.pat = sel.pat
            /\ e.mode = m /\ e.ran = sel.ran
        BY <1>1, SelPassed
      <4>. HIDE DEF e
      <4>3. /\ IsSel(sel') /\ sel'.i = sel.i + 1 /\ sel'.asked = sel.asked /\ sel'.pat = sel.pat
            /\ sel'.mode = m /\ sel'.ran = sel.ran
        BY <4>1, <4>2
      <4>. QED BY <4>3 DEF m
    <3>4. sel'.i \in 1 .. Len(Suites) + 1 /\ sel'.i - 1 = sel.i
      BY <1>1, <1>2, <2>1, <3>3
    <3>. HIDE DEF s
    <3>. QED BY <3>1, <3>2, <3>3, <3>4 DEF SelectInv
  <2>. QED BY <2>3, <2>4
<1>4. CASE EndSuite /\ run.cond
  <2>1. /\ sel' = [sel EXCEPT !.i = @ + 1, !.failed = @ \/ run.failed]
        /\ Busy /\ actor' = [a \in Actors |-> "idle"]
    BY <1>4 DEF EndSuite, Is, Busy
  <2>2. ~Busy'
    BY <2>1 DEF Busy, Actors
  <2>3. sel.failed \in BOOLEAN /\ run.failed \in BOOLEAN
    BY <1>1, <2>1, RunFields DEF CountsInv, Right, Verdict, Agree
  <2>4. /\ IsSel(sel') /\ sel'.i = sel.i + 1 /\ sel'.asked = sel.asked /\ sel'.pat = sel.pat
        /\ sel'.mode = sel.mode /\ sel'.ran = sel.ran
    BY <1>1, <2>1, <2>3, SelEnded
  <2>5. sel'.i \in 1 .. Len(Suites) + 1 /\ sel'.i - 1 = sel.i
    BY <1>1, <1>2, <2>1, <2>4
  <2>6. Chosen(sel.asked, sel.mode, sel.pat, sel.ran, sel.i)
    BY <1>1, <2>1
  <2>. QED BY <2>2, <2>4, <2>5, <2>6 DEF SelectInv
<1>5. ASSUME Busy' <=> Busy, sel' = sel \/ sel' = [sel EXCEPT !.steps = sel.steps + 1]
      PROVE  SelectInv'
  <2>1. /\ IsSel(sel') /\ sel'.i = sel.i /\ sel'.asked = sel.asked /\ sel'.pat = sel.pat
        /\ sel'.mode = sel.mode /\ sel'.ran = sel.ran
    <3>. DEFINE k == sel.steps + 1
                e == [sel EXCEPT !.steps = k]
    <3>1. sel' = sel \/ sel' = e
      BY <1>5
    <3>. HIDE DEF k
    <3>2. /\ IsSel(e) /\ e.i = sel.i /\ e.asked = sel.asked /\ e.pat = sel.pat
          /\ e.mode = sel.mode /\ e.ran = sel.ran
      BY <1>1, SelStepped
    <3>. HIDE DEF e
    <3>. QED BY <1>1, <3>1, <3>2
  <2>. QED BY <1>1, <1>5, <2>1 DEF SelectInv
<1>. QED BY <1>3, <1>4, <1>5, SameSuite

-----------------------------------------------------------------------------
(* Every step leaves the aborts right.                                     *)

MovesTo(ac, bd, a, pc) == bd = [ac EXCEPT ![a] = pc]

LEMMA Moved ==
  ASSUME NEW ac \in [Actors -> Doing], NEW a \in Actors, NEW pc \in Doing,
         NEW bd, MovesTo(ac, bd, a, pc)
  PROVE  /\ bd \in [Actors -> Doing]
         /\ pc \notin {"pass", "fail"} => Pending(bd) = Pending(ac) \ {a}
         /\ a = Main => Started(bd) = Started(ac) /\ bd[Main] = pc
         /\ a # Main => bd[Main] = ac[Main]
         /\ a # Main /\ ac[a] \notin {"idle", "joined"} /\ pc \notin {"idle", "joined"} =>
              Started(bd) = Started(ac)
<1>1. Main \in Actors /\ Main \notin Threads /\ Threads \subseteq Actors /\ (a # Main => a \in Threads)
  BY TestsAssumption DEF Main, Actors
<1>2. bd \in [Actors -> Doing] /\ bd[a] = pc /\ \A b \in Actors : b # a => bd[b] = ac[b]
  BY DEF MovesTo
<1>3. pc \notin {"pass", "fail"} => Pending(bd) = Pending(ac) \ {a}
  BY <1>2 DEF Pending
<1>4. a = Main => Started(bd) = Started(ac) /\ bd[Main] = pc
  BY <1>1, <1>2 DEF Started
<1>5. a # Main => bd[Main] = ac[Main]
  BY <1>1, <1>2
<1>6. a # Main /\ ac[a] \notin {"idle", "joined"} /\ pc \notin {"idle", "joined"} =>
        Started(bd) = Started(ac)
  BY <1>1, <1>2 DEF Started
<1>. QED BY <1>2, <1>3, <1>4, <1>5, <1>6

LEMMA AbortSets ==
  ASSUME NEW ac
  PROVE  /\ IsFiniteSet(Threads) /\ IsFiniteSet(Actors)
         /\ Cardinality(Threads) \in Nat
         /\ IsFiniteSet(Pending(ac)) /\ Cardinality(Pending(ac)) \in Nat
         /\ IsFiniteSet(Started(ac)) /\ Cardinality(Started(ac)) \in Nat
         /\ Stoppers(ac) \subseteq Threads
         /\ IsFiniteSet(Stoppers(ac)) /\ Cardinality(Stoppers(ac)) \in Nat
         /\ Cardinality(Stoppers(ac)) <= Cardinality(Threads)
<1>1. IsFiniteSet(Threads)
  BY TestsAssumption
<1>2. IsFiniteSet(Actors)
  <2>1. Actors = Threads \cup {Main}
    BY DEF Actors
  <2>. QED BY <1>1, <2>1, FS_AddElement
<1>3. Pending(ac) \subseteq Actors /\ Started(ac) \subseteq Threads /\ Stoppers(ac) \subseteq Threads
  BY DEF Pending, Started, Stoppers
<1>4. IsFiniteSet(Pending(ac)) /\ IsFiniteSet(Started(ac)) /\ IsFiniteSet(Stoppers(ac))
      /\ Cardinality(Stoppers(ac)) <= Cardinality(Threads)
  BY <1>1, <1>2, <1>3, FS_Subset
<1>. QED BY <1>1, <1>2, <1>3, <1>4, FS_CardinalityType

\* A step by which no more are about to report and none may report less.
LEMMA StillStopping ==
  ASSUME NEW ac, NEW bd, NEW fl, NEW n, NEW m \in Nat, Stopping(ac, fl, n), Orderly(bd, fl), m <= n,
         fl.abort /\ fl.aborted => Pending(bd) \subseteq Pending(ac) /\ Stoppers(ac) \subseteq Stoppers(bd)
  PROVE  Stopping(bd, fl, m)
<1>1. n \in Nat /\ (~(fl.abort /\ fl.aborted) => n = 0)
  BY DEF Stopping
<1>2. ~(fl.abort /\ fl.aborted) => m = 0
  BY <1>1
<1>3. ASSUME fl.abort /\ fl.aborted
      PROVE  m + Cardinality(Pending(bd)) <= Cardinality(Stoppers(bd))
  <2>1. n + Cardinality(Pending(ac)) <= Cardinality(Stoppers(ac))
    BY <1>3 DEF Stopping
  <2>2. Cardinality(Pending(bd)) <= Cardinality(Pending(ac))
    BY <1>3, AbortSets, FS_Subset
  <2>3. Cardinality(Stoppers(ac)) <= Cardinality(Stoppers(bd))
    BY <1>3, AbortSets, FS_Subset
  <2>4. /\ Cardinality(Pending(ac)) \in Nat /\ Cardinality(Pending(bd)) \in Nat
        /\ Cardinality(Stoppers(ac)) \in Nat /\ Cardinality(Stoppers(bd)) \in Nat
    BY AbortSets
  <2>. QED BY <1>1, <2>1, <2>2, <2>3, <2>4
<1>. QED BY <1>2, <1>3 DEF Stopping

\* An actor reports the condition it was about to report.
LEMMA OneLate ==
  ASSUME NEW ac, NEW bd, NEW fl, NEW n, NEW m, NEW a \in Pending(ac), Stopping(ac, fl, n),
         Orderly(bd, fl), Pending(bd) = Pending(ac) \ {a}, Stoppers(bd) = Stoppers(ac),
         m = IF fl.abort /\ fl.aborted THEN n + 1 ELSE n
  PROVE  Stopping(bd, fl, m)
<1>1. n \in Nat /\ (~(fl.abort /\ fl.aborted) => n = 0)
  BY DEF Stopping
<1>2. (~(fl.abort /\ fl.aborted) => m = 0) /\ m \in Nat
  BY <1>1
<1>3. ASSUME fl.abort /\ fl.aborted
      PROVE  m + Cardinality(Pending(bd)) <= Cardinality(Stoppers(bd))
  <2>1. n + Cardinality(Pending(ac)) <= Cardinality(Stoppers(ac))
    BY <1>3 DEF Stopping
  <2>2. Cardinality(Pending(bd)) = Cardinality(Pending(ac)) - 1
    BY AbortSets, FS_RemoveElement
  <2>3. m = n + 1
    BY <1>3
  <2>4. Cardinality(Pending(ac)) \in Nat /\ Cardinality(Stoppers(ac)) \in Nat
    BY AbortSets
  <2>. QED BY <1>1, <2>1, <2>2, <2>3, <2>4
<1>. QED BY <1>2, <1>3 DEF Stopping

\* Every actor about to report, but the body, is a thread that was started.
LEMMA PendingStarted ==
  ASSUME NEW ac
  PROVE  /\ Pending(ac) \subseteq Started(ac) \cup {Main} /\ Started(ac) \subseteq Threads
         /\ ac[Main] \notin {"pass", "fail"} => Pending(ac) \subseteq Started(ac)
BY DEF Pending, Started, Actors

\* The abort is raised by an actor that has failed.
LEMMA AbortRaised ==
  ASSUME NEW ac \in [Actors -> Doing], NEW bd, NEW a \in Actors,
         ac[a] = "failed", MovesTo(ac, bd, a, "aborts")
  PROVE  Cardinality(Pending(bd)) <= Cardinality(Stoppers(bd))
<1>1. "aborts" \in Doing
  BY DEF Doing
<1>2. /\ Pending(bd) = Pending(ac) \ {a} /\ (a = Main => bd[Main] = "aborts")
      /\ a # Main => bd[Main] = ac[Main] /\ Started(bd) = Started(ac)
  BY <1>1, Moved
<1>3. CASE bd[Main] \notin {"body", "pass", "fail", "failed"}
  <2>1. Pending(bd) \subseteq Threads /\ Stoppers(bd) = Threads
    BY <1>3, PendingStarted DEF Stoppers
  <2>. QED BY <2>1, AbortSets, FS_Subset
<1>4. CASE bd[Main] \in {"body", "pass", "fail", "failed"}
  <2>1. a # Main /\ a \in Threads /\ Stoppers(bd) = Started(bd)
    BY <1>2, <1>4 DEF Stoppers, Actors
  <2>2. a \in Started(bd) /\ a \notin Pending(bd)
    BY <1>2, <2>1 DEF Started
  <2>. DEFINE R == Started(bd) \ {a}
  <2>3. Pending(bd) \subseteq R \cup {Main}
    BY <2>2, PendingStarted
  <2>4. Main \notin R
    BY TestsAssumption DEF Main, Started
  <2>5. IsFiniteSet(R) /\ Cardinality(R) = Cardinality(Started(bd)) - 1
    BY <2>2, AbortSets, FS_RemoveElement
  <2>. HIDE DEF R
  <2>6. IsFiniteSet(R \cup {Main}) /\ Cardinality(R \cup {Main}) = Cardinality(R) + 1
    BY <2>4, <2>5, FS_AddElement
  <2>7. Cardinality(Pending(bd)) <= Cardinality(R \cup {Main})
    BY <2>3, <2>6, FS_Subset
  <2>8. Cardinality(Started(bd)) \in Nat /\ Cardinality(Pending(bd)) \in Nat
    BY AbortSets
  <2>. QED BY <2>1, <2>5, <2>6, <2>7, <2>8
<1>. QED BY <1>3, <1>4

LEMMA AbortStep ==
  ASSUME TestsInv, [TestsNext]_tvars
  PROVE  AbortInv'
<1>. DEFINE late == truth.late
            P == flags.abort /\ flags.aborted
<1>1. /\ Stopping(actor, flags, late) /\ Orderly(actor, flags) /\ actor \in [Actors -> Doing]
      /\ late \in Nat /\ IsTruth(truth) /\ (P <=> propagate_abort)
      /\ flags.abort \in BOOLEAN /\ flags.aborted \in BOOLEAN
      /\ flags = [abort |-> flags.abort, aborted |-> flags.aborted]
  BY DEF TestsInv, AbortInv, Stopping, Orderly, CountsInv, Right, Agree, IsTruth, propagate_abort
<1>2. Main \in Actors /\ Main \notin Threads /\ Threads \subseteq Actors /\ \A a \in Actors : a # Main => a \in Threads
  BY TestsAssumption DEF Main, Actors
<1>3. /\ actor[Main] \in {"idle", "over"} => Started(actor) = {}
      /\ flags.aborted /\ actor[Main] \notin {"aborts", "over", "idle"} => Threads # {}
      /\ actor[Main] \notin {"catch", "joined"}
  BY <1>1 DEF Orderly
<1>4. ~Unjoined <=> Started(actor) = {}
  BY DEF Unjoined, Started
<1>goes. ASSUME NEW a, NEW pc, Goes(a, pc) PROVE MovesTo(actor, actor', a, pc)
  BY <1>goes DEF Goes, MovesTo
<1>5. ASSUME UNCHANGED <<actor, flags, truth>> PROVE AbortInv'
  BY <1>1, <1>5 DEF AbortInv
\* A thread that goes from a place where it is started to another.
<1>6. ASSUME NEW a \in Threads, NEW pc \in Doing, actor[a] \notin {"idle", "joined"},
             pc \notin {"idle", "joined", "pass", "fail"}, Goes(a, pc)
      PROVE  /\ Pending(actor') = Pending(actor) \ {a} /\ Stoppers(actor') = Stoppers(actor)
             /\ Orderly(actor', flags)
  <2>1. /\ actor' \in [Actors -> Doing] /\ Pending(actor') = Pending(actor) \ {a}
        /\ actor'[Main] = actor[Main] /\ Started(actor') = Started(actor)
    BY <1>1, <1>2, <1>6, <1>goes, Moved
  <2>. QED BY <1>1, <2>1 DEF Orderly, Stoppers
\* The body, from one place to another.
<1>7. ASSUME NEW pc \in Doing \ {"pass", "fail"}, Goes(Main, pc)
      PROVE  /\ actor' \in [Actors -> Doing] /\ Pending(actor') = Pending(actor) \ {Main}
             /\ actor'[Main] = pc /\ Started(actor') = Started(actor)
  BY <1>1, <1>2, <1>7, <1>goes, Moved
<1>8. CASE NextSuite
  <2>. DEFINE s == Select(Suites[sel.i], sel.mode, sel.pat)
              lib == LibraryAfter(Suites[sel.i], sel.mode, sel.pat, sel.library)
  <2>1. actor[Main] = "idle" /\ truth' = [truth EXCEPT !.late = 0]
    BY <1>8 DEF NextSuite
  <2>2. truth'.late = 0
    BY <1>1, <2>1, LateTruth
  <2>3. CASE s.pick
    <3>1. flags' = [abort |-> FALSE, aborted |-> FALSE]
      BY <1>8, <2>3 DEF NextSuite
    <3>2. actor' = [actor EXCEPT ![Main] = "body"]
      BY <1>8, <2>3 DEF NextSuite
    <3>3. actor' \in [Actors -> Doing] /\ actor'[Main] = "body"
      BY <1>7, <3>2 DEF Goes, Doing
    <3>4. flags' \in [abort : BOOLEAN, aborted : BOOLEAN] /\ ~flags'.aborted
      BY <3>1
    <3>. QED BY <2>2, <3>3, <3>4 DEF AbortInv, Stopping, Orderly
  <2>4. CASE ~s.pick
    <3>1. UNCHANGED <<actor, flags>>
      BY <1>8, <2>4 DEF NextSuite
    <3>2. Stopping(actor, flags, 0)
      BY <1>1, StillStopping
    <3>. QED BY <2>2, <3>1, <3>2 DEF AbortInv
  <2>. QED BY <2>3, <2>4
<1>9. ASSUME NEW abort \in BOOLEAN, Testcase(abort) PROVE AbortInv'
  <2>1. /\ actor[Main] = "body" /\ Goes(Main, "body") /\ flags' = [flags EXCEPT !.abort = abort]
        /\ truth' = [truth EXCEPT !.late = 0]
    BY <1>9 DEF Testcase, Acts, Is
  <2>2. truth'.late = 0
    BY <1>1, <2>1, LateTruth
  <2>3. actor' = actor
    BY <1>1, <2>1 DEF Goes
  <2>4. flags' \in [abort : BOOLEAN, aborted : BOOLEAN] /\ flags'.aborted = flags.aborted
    BY <1>1, <2>1
  <2>5. Orderly(actor', flags')
    BY <1>1, <2>3, <2>4 DEF Orderly
  <2>6. Cardinality(Pending(actor)) <= Cardinality(Stoppers(actor))
    <3>1. Pending(actor) \subseteq Stoppers(actor)
      BY <2>1, PendingStarted DEF Stoppers
    <3>. QED BY <3>1, AbortSets, FS_Subset
  <2>7. 0 + Cardinality(Pending(actor)) = Cardinality(Pending(actor))
    BY AbortSets
  <2>. QED BY <2>2, <2>3, <2>5, <2>6, <2>7 DEF AbortInv, Stopping
<1>10. CASE Log
  <2>1. actor[Main] = "body" /\ Goes(Main, "body") /\ UNCHANGED <<flags, truth>>
    BY <1>10 DEF Log, Acts, Is
  <2>2. actor' = actor
    BY <1>1, <2>1 DEF Goes
  <2>. QED BY <1>5, <2>1, <2>2
<1>11. ASSUME NEW a \in Actors, NEW ok \in BOOLEAN, Check(a, ok) PROVE AbortInv'
  <2>1. actor[a] = "body" /\ UNCHANGED <<flags, truth>>
    BY <1>11 DEF Check, Acts, Is
  <2>2. CASE P
    <3>1. Goes(a, "aborts")
      BY <1>1, <1>11, <2>2 DEF Check, Acts
    <3>2. /\ Pending(actor') \subseteq Pending(actor) /\ Stoppers(actor) \subseteq Stoppers(actor')
          /\ Orderly(actor', flags)
      <4>1. CASE a = Main
        <5>1. /\ actor' \in [Actors -> Doing] /\ Pending(actor') \subseteq Pending(actor)
              /\ actor'[Main] = "aborts"
          BY <1>7, <3>1, <4>1 DEF Doing
        <5>2. Stoppers(actor) \subseteq Threads /\ Stoppers(actor') = Threads
          BY <5>1, AbortSets DEF Stoppers
        <5>. QED BY <1>1, <5>1, <5>2 DEF Orderly
      <4>2. CASE a # Main
        BY <1>2, <1>6, <2>1, <3>1, <4>2 DEF Doing
      <4>. QED BY <4>1, <4>2
    <3>3. Stopping(actor', flags, late)
      BY <1>1, <3>2, StillStopping
    <3>. QED BY <2>1, <3>3 DEF AbortInv
  <2>3. CASE ~P
    <3>. DEFINE pc == IF ok THEN "pass" ELSE "fail"
    <3>1. Goes(a, pc) /\ pc \in Doing /\ pc \in {"pass", "fail"}
      BY <1>1, <1>11, <2>3 DEF Check, Acts, Doing
    <3>. HIDE DEF pc
    <3>2. /\ actor' \in [Actors -> Doing] /\ Started(actor') = Started(actor)
          /\ a = Main => actor'[Main] = pc
          /\ a # Main => actor'[Main] = actor[Main]
      BY <1>1, <1>2, <2>1, <3>1, <1>goes, Moved
    <3>3. Orderly(actor', flags)
      BY <1>1, <1>3, <2>1, <3>1, <3>2 DEF Orderly
    <3>4. late = 0
      BY <1>1, <2>3 DEF Stopping
    <3>. QED BY <2>1, <2>3, <3>3, <3>4 DEF AbortInv, Stopping
  <2>. QED BY <2>2, <2>3
<1>12. ASSUME NEW a \in Actors, RecordPass(a) \/ RecordFail(a) PROVE AbortInv'
  <2>1. PICK pc \in {"body", "failed"}, f \in {0, 1} :
          Goes(a, pc) /\ actor[a] \in {"pass", "fail"} /\ flags' = flags /\ Counted(f)
    BY <1>12 DEF RecordPass, RecordFail, Is
  <2>2. a \in Pending(actor)
    BY <2>1 DEF Pending
  <2>3. truth'.late = IF P THEN late + 1 ELSE late
    <3>1. truth'.late = IF propagate_abort THEN truth.late + 1 ELSE truth.late
      BY <1>1, <2>1, CountedLate
    <3>. QED BY <1>1, <3>1
  <2>4. /\ Pending(actor') = Pending(actor) \ {a} /\ Stoppers(actor') = Stoppers(actor)
        /\ Orderly(actor', flags)
    <3>1. CASE a = Main
      <4>1. /\ actor' \in [Actors -> Doing] /\ Pending(actor') = Pending(actor) \ {Main}
            /\ actor'[Main] = pc /\ Started(actor') = Started(actor)
        BY <1>7, <2>1, <3>1 DEF Doing
      <4>. QED BY <1>1, <1>3, <2>1, <3>1, <4>1 DEF Orderly, Stoppers
    <3>2. CASE a # Main
      BY <1>2, <1>6, <2>1, <3>2 DEF Doing
    <3>. QED BY <3>1, <3>2
  <2>5. Stopping(actor', flags, truth'.late)
    BY <1>1, <2>2, <2>3, <2>4, OneLate
  <2>. QED BY <2>1, <2>5 DEF AbortInv
<1>13. ASSUME NEW a \in Actors, AfterFail(a) PROVE AbortInv'
  <2>1. actor[a] = "failed" /\ truth' = truth
    BY <1>13 DEF AfterFail, Is
  <2>2. CASE ~flags.abort
    <3>1. Goes(a, "body") /\ flags' = flags
      <4>1. flags' = [flags EXCEPT !.aborted = flags.aborted \/ flags.abort] /\ Goes(a, "body")
        BY <1>13, <2>2 DEF AfterFail
      <4>2. (flags.aborted \/ flags.abort) = flags.aborted
        BY <1>1, <2>2
      <4>. QED BY <1>1, <4>1, <4>2
    <3>2. Orderly(actor', flags)
      <4>1. CASE a = Main
        <5>1. /\ actor' \in [Actors -> Doing] /\ actor'[Main] = "body"
          BY <1>7, <3>1, <4>1 DEF Doing
        <5>. QED BY <1>1, <1>3, <2>1, <4>1, <5>1 DEF Orderly
      <4>2. CASE a # Main
        BY <1>2, <1>6, <2>1, <3>1, <4>2 DEF Doing
      <4>. QED BY <4>1, <4>2
    <3>3. Stopping(actor', flags, late)
      BY <1>1, <2>2, <3>2, StillStopping
    <3>. QED BY <2>1, <3>1, <3>3 DEF AbortInv
  <2>3. CASE flags.abort
    <3>1. Goes(a, "aborts") /\ flags' = [abort |-> TRUE, aborted |-> TRUE]
      <4>1. flags' = [flags EXCEPT !.aborted = flags.aborted \/ flags.abort] /\ Goes(a, "aborts")
        BY <1>13, <2>3 DEF AfterFail
      <4>2. (flags.aborted \/ flags.abort) = TRUE /\ flags.abort = TRUE
        BY <1>1, <2>3
      <4>. QED BY <1>1, <4>1, <4>2
    <3>2. flags' \in [abort : BOOLEAN, aborted : BOOLEAN] /\ flags'.abort /\ flags'.aborted
      BY <3>1
    <3>3. /\ actor' \in [Actors -> Doing] /\ (a = Main => actor'[Main] = "aborts")
          /\ Pending(actor') = Pending(actor) \ {a}
          /\ a # Main => actor'[Main] = actor[Main] /\ Started(actor') = Started(actor)
      <4>1. "aborts" \in Doing /\ MovesTo(actor, actor', a, "aborts")
        BY <1>goes, <3>1 DEF Doing
      <4>. QED BY <1>1, <2>1, <4>1, Moved
    <3>4. Orderly(actor', flags) /\ Orderly(actor', flags')
      <4>1. Orderly(actor', flags)
        BY <1>1, <1>3, <3>3 DEF Orderly
      <4>2. Orderly(actor', flags')
        BY <1>1, <1>2, <1>3, <3>2, <3>3 DEF Orderly
      <4>. QED BY <4>1, <4>2
    <3>5. CASE P
      <4>1. flags' = flags
        BY <1>1, <3>1, <3>5
      <4>2. Pending(actor') \subseteq Pending(actor) /\ Stoppers(actor) \subseteq Stoppers(actor')
        BY <3>3, AbortSets DEF Stoppers
      <4>3. Stopping(actor', flags, late)
        BY <1>1, <3>4, <4>2, StillStopping
      <4>. QED BY <2>1, <4>1, <4>3 DEF AbortInv
    <3>6. CASE ~P
      <4>1. late = 0
        BY <1>1, <3>6 DEF Stopping
      <4>2. Cardinality(Pending(actor')) <= Cardinality(Stoppers(actor'))
        BY <1>1, <2>1, <3>1, <3>4, <1>goes, AbortRaised
      <4>3. 0 + Cardinality(Pending(actor')) = Cardinality(Pending(actor'))
        BY AbortSets
      <4>. QED BY <2>1, <3>2, <3>4, <4>1, <4>2, <4>3 DEF AbortInv, Stopping
    <3>. QED BY <3>5, <3>6
  <2>. QED BY <2>2, <2>3
<1>14. ASSUME NEW a \in Actors, Abort(a) PROVE AbortInv'
  <2>1. CASE a = Main /\ Unjoined
    BY <1>5, <1>14, <2>1 DEF Abort, Unwinds, Dies
  <2>2. CASE a = Main /\ ~Unjoined
    <3>1. Goes(Main, "over") /\ UNCHANGED <<flags, truth>> /\ actor[Main] = "aborts"
      BY <1>14, <2>2 DEF Abort, Unwinds, Is
    <3>2. /\ actor' \in [Actors -> Doing] /\ Pending(actor') \subseteq Pending(actor)
          /\ actor'[Main] = "over" /\ Started(actor') = {}
      BY <1>4, <1>7, <2>2, <3>1 DEF Doing
    <3>3. Stoppers(actor) \subseteq Stoppers(actor') /\ Orderly(actor', flags)
      BY <1>1, <3>2, AbortSets DEF Orderly, Stoppers
    <3>4. Stopping(actor', flags, late)
      BY <1>1, <3>2, <3>3, StillStopping
    <3>. QED BY <3>1, <3>4 DEF AbortInv
  <2>3. CASE a # Main
    <3>1. Goes(a, "over") /\ UNCHANGED <<flags, truth>> /\ actor[a] = "aborts"
      BY <1>14, <2>3 DEF Abort, Is
    <3>2. /\ Pending(actor') \subseteq Pending(actor) /\ Stoppers(actor) \subseteq Stoppers(actor')
          /\ Orderly(actor', flags)
      BY <1>2, <1>6, <2>3, <3>1 DEF Doing
    <3>3. Stopping(actor', flags, late)
      BY <1>1, <3>2, StillStopping
    <3>. QED BY <3>1, <3>3 DEF AbortInv
  <2>. QED BY <2>1, <2>2, <2>3
<1>15. CASE Throw
  <2>1. CASE Unjoined
    BY <1>5, <1>15, <2>1 DEF Throw, Dies
  <2>2. CASE ~Unjoined
    <3>1. Goes(Main, "over") /\ flags' = flags /\ actor[Main] = "body" /\ Counted(1)
      BY <1>15, <2>2 DEF Throw, Is
    <3>2. /\ actor' \in [Actors -> Doing] /\ Pending(actor') \subseteq Pending(actor)
          /\ actor'[Main] = "over" /\ Started(actor') = {} /\ Started(actor) = {}
      BY <1>4, <1>7, <2>2, <3>1 DEF Doing
    <3>3. Orderly(actor', flags) /\ Stoppers(actor') = Threads /\ Stoppers(actor) = {}
      BY <1>1, <3>1, <3>2 DEF Orderly, Stoppers
    <3>4. truth'.late = IF P THEN late + 1 ELSE late
      <4>1. truth'.late = IF propagate_abort THEN truth.late + 1 ELSE truth.late
        BY <1>1, <3>1, CountedLate
      <4>. QED BY <1>1, <4>1
    <3>5. CASE P
      <4>1. late + Cardinality(Pending(actor)) <= 0
        BY <1>1, <3>3, <3>5, FS_EmptySet DEF Stopping
      <4>2. Cardinality(Pending(actor)) \in Nat /\ Cardinality(Pending(actor')) \in Nat
        BY AbortSets
      <4>3. late = 0 /\ Cardinality(Pending(actor)) = 0
        BY <1>1, <4>1, <4>2
      <4>4. Cardinality(Pending(actor')) <= Cardinality(Pending(actor))
        BY <3>2, AbortSets, FS_Subset
      <4>5. Cardinality(Pending(actor')) = 0
        BY <4>2, <4>3, <4>4
      <4>6. Cardinality(Threads) >= 1
        <5>1. Threads # {}
          BY <1>3, <3>1, <3>5
        <5>2. Cardinality(Threads) \in Nat /\ Cardinality(Threads) # 0
          BY <5>1, AbortSets, FS_EmptySet
        <5>. QED BY <5>2
      <4>7. truth'.late = 1
        BY <3>4, <3>5, <4>3
      <4>8. 1 + Cardinality(Pending(actor')) <= Cardinality(Stoppers(actor'))
        <5>1. Cardinality(Threads) \in Nat
          BY AbortSets
        <5>. QED BY <3>3, <4>5, <4>6, <5>1
      <4>. QED BY <3>1, <3>3, <3>5, <4>7, <4>8 DEF AbortInv, Stopping
    <3>6. CASE ~P
      <4>1. truth'.late = 0
        BY <1>1, <3>4, <3>6 DEF Stopping
      <4>. QED BY <3>1, <3>3, <3>6, <4>1 DEF AbortInv, Stopping
    <3>. QED BY <3>5, <3>6
  <2>. QED BY <2>1, <2>2
<1>16. ASSUME NEW t \in Threads, CatchInThread(t) PROVE AbortInv'
  <2>1. CASE propagate_abort
    BY <1>5, <1>16, <2>1 DEF CatchInThread, Dies
  <2>2. CASE ~propagate_abort
    <3>1. Goes(t, "over") /\ flags' = flags /\ actor[t] = "catch" /\ Counted(1)
      BY <1>16, <2>2 DEF CatchInThread, Is
    <3>2. truth'.late = late
      <4>1. truth'.late = IF propagate_abort THEN truth.late + 1 ELSE truth.late
        BY <1>1, <3>1, CountedLate
      <4>. QED BY <2>2, <4>1
    <3>3. /\ Pending(actor') \subseteq Pending(actor) /\ Stoppers(actor) \subseteq Stoppers(actor')
          /\ Orderly(actor', flags)
      BY <1>6, <3>1 DEF Doing
    <3>4. Stopping(actor', flags, late)
      BY <1>1, <3>3, StillStopping
    <3>. QED BY <3>1, <3>2, <3>4 DEF AbortInv
  <2>. QED BY <2>1, <2>2
<1>17. ASSUME NEW t \in Threads, ThrowInThread(t) \/ ThreadReturns(t) PROVE AbortInv'
  <2>1. PICK pc \in {"catch", "over"} : Goes(t, pc) /\ UNCHANGED <<flags, truth>> /\ actor[t] = "body"
    BY <1>17 DEF ThrowInThread, ThreadReturns, Is
  <2>2. /\ Pending(actor') \subseteq Pending(actor) /\ Stoppers(actor) \subseteq Stoppers(actor')
        /\ Orderly(actor', flags)
    BY <1>6, <2>1 DEF Doing
  <2>3. Stopping(actor', flags, late)
    BY <1>1, <2>2, StillStopping
  <2>. QED BY <2>1, <2>3 DEF AbortInv
<1>18. ASSUME NEW t \in Threads, Start(t) PROVE AbortInv'
  <2>1. /\ Goes(t, "body") /\ UNCHANGED <<flags, truth>> /\ actor[Main] = "body" /\ actor[t] = "idle"
        /\ t # Main /\ t \in Actors
    BY <1>2, <1>18 DEF Start, Is
  <2>2. /\ actor' \in [Actors -> Doing] /\ actor'[Main] = "body"
        /\ \A b \in Threads : b # t => actor'[b] = actor[b]
    BY <1>1, <1>2, <2>1, ActorMoves DEF Doing
  <2>3. Pending(actor') = Pending(actor) \ {t}
    BY <1>1, <2>1, <1>goes, Moved DEF Doing
  <2>4. Started(actor) \subseteq Started(actor')
    BY <2>1, <2>2 DEF Started
  <2>5. Stoppers(actor) \subseteq Stoppers(actor') /\ Orderly(actor', flags)
    BY <1>1, <2>1, <2>2, <2>4 DEF Orderly, Stoppers
  <2>6. Stopping(actor', flags, late)
    BY <1>1, <2>3, <2>5, StillStopping
  <2>. QED BY <2>1, <2>6 DEF AbortInv
<1>19. ASSUME NEW t \in Threads, Join(t) PROVE AbortInv'
  <2>. DEFINE pc == IF propagate_abort THEN "aborts" ELSE "body"
  <2>1. /\ actor' = [actor EXCEPT ![t] = "joined", ![Main] = pc] /\ UNCHANGED <<flags, truth>>
        /\ actor[Main] = "body" /\ actor[t] = "over" /\ t # Main /\ t \in Actors
    BY <1>2, <1>19 DEF Join, Is
  <2>2. pc \in Doing /\ pc \notin {"pass", "fail"} /\ pc \in {"aborts", "body"}
    BY DEF Doing
  <2>3. propagate_abort => pc = "aborts"
    OBVIOUS
  <2>. HIDE DEF pc
  <2>4. /\ actor' \in [Actors -> Doing] /\ actor'[Main] = pc /\ actor'[t] = "joined"
        /\ \A b \in Actors : b # t /\ b # Main => actor'[b] = actor[b]
    BY <1>1, <1>2, <2>1, <2>2 DEF Doing
  <2>5. Pending(actor') \subseteq Pending(actor)
    BY <2>2, <2>4 DEF Pending
  <2>6. Orderly(actor', flags)
    BY <1>1, <1>3, <2>1, <2>2, <2>4 DEF Orderly
  <2>7. P => Stoppers(actor) \subseteq Stoppers(actor')
    BY <1>1, <2>3, <2>4, AbortSets DEF Stoppers
  <2>8. Stopping(actor', flags, late)
    BY <1>1, <2>5, <2>6, <2>7, StillStopping
  <2>. QED BY <2>1, <2>8 DEF AbortInv
<1>20. CASE BodyReturns
  <2>1. Goes(Main, "over") /\ UNCHANGED <<flags, truth>> /\ ~Unjoined
    BY <1>20 DEF BodyReturns
  <2>2. /\ actor' \in [Actors -> Doing] /\ Pending(actor') \subseteq Pending(actor)
        /\ actor'[Main] = "over" /\ Started(actor') = {}
    BY <1>4, <1>7, <2>1 DEF Doing
  <2>3. Stoppers(actor) \subseteq Stoppers(actor') /\ Orderly(actor', flags)
    BY <1>1, <2>2, AbortSets DEF Orderly, Stoppers
  <2>4. Stopping(actor', flags, late)
    BY <1>1, <2>2, <2>3, StillStopping
  <2>. QED BY <2>1, <2>4 DEF AbortInv
<1>21. CASE EndSuite
  <2>1. CASE ~run.cond
    BY <1>5, <1>21, <2>1 DEF EndSuite, Dies
  <2>2. CASE run.cond
    <3>1. /\ actor' = [a \in Actors |-> "idle"] /\ flags' = flags /\ actor[Main] = "over"
          /\ truth' = [truth EXCEPT !.silent = @ \/ run.def]
      BY <1>21, <2>2 DEF EndSuite, Is
    <3>2. truth'.late = late
      <4>1. run.def \in BOOLEAN
        BY RunFields DEF TestsInv, CountsInv, Right, Agree
      <4>. QED BY <1>1, <3>1, <4>1, SilentTruth
    <3>3. /\ actor' \in [Actors -> Doing] /\ actor'[Main] = "idle" /\ Started(actor') = {}
          /\ Pending(actor') = {}
      BY <1>2, <3>1 DEF Started, Pending, Doing
    <3>4. Stoppers(actor) \subseteq Stoppers(actor') /\ Orderly(actor', flags)
      BY <1>1, <3>3, AbortSets DEF Orderly, Stoppers
    <3>5. Stopping(actor', flags, late)
      BY <1>1, <3>3, <3>4, StillStopping
    <3>. QED BY <3>1, <3>2, <3>5 DEF AbortInv
  <2>. QED BY <2>1, <2>2
<1>22. CASE UNCHANGED tvars
  BY <1>5, <1>22 DEF tvars
<1>. QED
  BY <1>8, <1>9, <1>10, <1>11, <1>12, <1>13, <1>14, <1>15, <1>16, <1>17, <1>18, <1>19, <1>20,
     <1>21, <1>22 DEF TestsNext

-----------------------------------------------------------------------------
LEMMA TestsStart ==
  ASSUME TestsInit
  PROVE  TestsInv
<1>. DEFINE bad == FALSE
<1>1. \E ak, pa : /\ ak \in {"each", "all", "automatch", "suite", "library"}
                  /\ sel = SelOf(1, ak, pa, ak, {}, bad, 0, NoPattern)
  <2>1. PICK asked \in {<<"each", NoPattern>>, <<"all", NoPattern>>}
                         \cup ({"automatch", "suite", "library"} \X Patterns) :
          sel = [i |-> 1, asked |-> asked[1], pat |-> asked[2], mode |-> asked[1],
                 library |-> NoPattern, ran |-> {}, failed |-> FALSE, steps |-> 0]
    BY DEF TestsInit
  <2>2. asked[1] \in {"each", "all", "automatch", "suite", "library"}
    OBVIOUS
  <2>3. sel = SelOf(1, asked[1], asked[2], asked[1], {}, bad, 0, NoPattern)
    BY <2>1 DEF SelOf
  <2>. HIDE DEF bad
  <2>. QED BY <2>2, <2>3
<1>2. PICK ak, pa : /\ ak \in {"each", "all", "automatch", "suite", "library"}
                    /\ sel = SelOf(1, ak, pa, ak, {}, bad, 0, NoPattern)
  BY <1>1
<1>3. ~Busy /\ actor \in [Actors -> Doing]
  BY DEF TestsInit, Busy, Actors, Doing
<1>4. /\ truth = [total |-> 0, failed |-> 0, silent |-> FALSE, late |-> 0]
      /\ flags = [abort |-> FALSE, aborted |-> FALSE] /\ actor = [a \in Actors |-> "idle"]
  BY DEF TestsInit
<1>5. IsTruth(truth) /\ truth.total = 0 /\ truth.failed = 0 /\ truth.late = 0
  BY <1>4 DEF IsTruth
<1>. DEFINE k == [total |-> 0, failed |-> 0]
            su == [cases |-> 0, total |-> 0, failed |-> 0]
            al == [suites |-> 0, cases |-> 0, total |-> 0, failed |-> 0]
            no == [cases |-> 0, held |-> 0, total |-> 0, failed |-> 0]
<1>6. IsCount(k) /\ k.total = 0 /\ k.failed = 0 /\ IsTally(su)
  BY DEF IsCount, IsTally
<1>7. IsAll(al) /\ al.total = 0 /\ al.failed = 0
  BY DEF IsAll
<1>8. IsHolding(no) /\ no.held = 0 /\ no.failed = 0
  BY DEF IsHolding
<1>9. rec = [case |-> k, suite |-> no, all |-> no]
  BY DEF TestsInit, Zero, NoResults
<1>10. run = [def |-> FALSE, failed |-> FALSE, cond |-> FALSE, case |-> k, suite |-> su, all |-> al,
              dead |-> "no"]
  BY DEF TestsInit, Zero
<1>. HIDE DEF k, su, al, no
<1>11. IsRec(rec) /\ rec.all = no /\ rec.case = k
  BY <1>6, <1>8, <1>9 DEF IsRec
<1>12. IsRun(run) /\ run.all = al
  BY <1>6, <1>7, <1>10 DEF IsRun
<1>13. Agree(run, rec, truth, FALSE)
  <2>1. ReportedTotal(run, FALSE) = 0 /\ ReportedFailed(run, FALSE) = 0
    BY <1>7, <1>12 DEF ReportedTotal, ReportedFailed
  <2>2. HeldTotal(rec, run, FALSE) = 0 /\ HeldFailed(rec, run, FALSE) = 0
    BY <1>8, <1>11 DEF HeldTotal, HeldFailed
  <2>3. rec.case.total = 0
    BY <1>6, <1>11
  <2>4. ReportedTotal(run, FALSE) >= truth.total
    <3>1. ASSUME NEW u, NEW v, u = 0, v = 0
          PROVE  u >= v
      BY <3>1
    <3>. QED BY <1>5, <2>1, <3>1
  <2>. QED BY <1>5, <1>11, <1>12, <2>1, <2>2, <2>3, <2>4 DEF Agree
<1>14. sel = SelOf(1, ak, pa, ak, {}, bad, 0, NoPattern) /\ bad \in BOOLEAN /\ ~bad
  BY <1>2
<1>. HIDE DEF bad
<1>15. /\ IsSel(sel) /\ sel.i = 1 /\ sel.asked = ak /\ sel.pat = pa /\ sel.mode = ak /\ sel.ran = {}
       /\ ~sel.failed /\ sel.failed \in BOOLEAN
  <2>1. /\ IsSel(sel) /\ sel.i = 1 /\ sel.asked = ak /\ sel.pat = pa /\ sel.mode = ak /\ sel.ran = {}
        /\ sel.failed = bad
    BY <1>14, SelOfFields
  <2>. QED BY <1>14, <2>1
<1>16. CountsInv
  <2>1. ~(truth.failed > 0)
    BY <1>5
  <2>2. Verdict(sel.failed, run, truth, FALSE)
    BY <1>15, <2>1 DEF Verdict
  <2>3. Right(run, rec, truth, sel.failed, FALSE)
    BY <1>13, <2>2 DEF Right
  <2>. QED BY <1>3, <2>3 DEF CountsInv
<1>17. AbortInv
  <2>1. flags \in [abort : BOOLEAN, aborted : BOOLEAN] /\ ~flags.aborted
    BY <1>4
  <2>2. Started(actor) = {} /\ actor[Main] = "idle"
    BY <1>4 DEF Started, Actors
  <2>. QED BY <1>3, <1>5, <2>1, <2>2 DEF AbortInv, Stopping, Orderly
<1>18. SelectInv
  <2>1. Chosen(ak, ak, pa, {}, 0)
    BY <1>2 DEF Chosen
  <2>2. 1 \in 1 .. Len(Suites) + 1 /\ 1 - 1 = 0
    BY TestsAssumption
  <2>. QED BY <1>3, <1>15, <2>1, <2>2 DEF SelectInv
<1>. QED BY <1>16, <1>17, <1>18 DEF TestsInv

\* The framework's counts, aborts and selection hold together from step to
\* step, whatever the suites do and however their threads interleave: what the
\* reporter and the recorder have counted is what was checked, counting the
\* case and the suite that are open; the conditions late after an abort and
\* the ones about to be reported are no more than the threads that may report
\* them; the suites run so far are the ones asked for of the list so far.
THEOREM TestsInvariance == ToolkitSpec => []TestsInv
<1>1. ToolkitInit => TestsInv
  BY TestsStart DEF ToolkitInit
<1>2. TestsInv /\ [TestsNext]_tvars => TestsInv'
  BY CountsStep, AbortStep, SelectStep DEF TestsInv
<1>. QED BY <1>1, <1>2, TestsPart, PTL DEF ToolkitSpec

\* The runner, its reporter and its recorder count every condition of every
\* suite once, the verdict is a failure exactly if one failed, an abort lets
\* each thread report one condition more at most, and the selector runs the
\* suites asked for: for any suites, pattern and number of threads.
THEOREM TestsCounted == ToolkitSpec => []TestsAreCounted
<1>1. TestsInv => TestsAreCounted
  <2>. SUFFICES ASSUME TestsInv PROVE TestsAreCounted
    OBVIOUS
  <2>1. TotalsAgree
    <3>. SUFFICES ASSUME actor[Main] = "idle"
                  PROVE  /\ ~truth.silent => run.all.total = truth.total /\ run.all.failed = truth.failed
                         /\ run.all.total >= truth.total
                         /\ rec.all.held = truth.total /\ rec.all.failed = truth.failed
                         /\ RecordedTotal = 0
                         /\ sel.failed <=> truth.failed > 0
      BY DEF TotalsAgree
    <3>1. Agree(run, rec, truth, FALSE) /\ Verdict(sel.failed, run, truth, FALSE)
      BY DEF TestsInv, CountsInv, Right, Busy
    <3>2. IsRun(run) /\ IsRec(rec)
      BY <3>1 DEF Agree
    <3>3. ReportedTotal(run, FALSE) = run.all.total /\ ReportedFailed(run, FALSE) = run.all.failed
      BY <3>2, RunFields DEF ReportedTotal, ReportedFailed
    <3>4. HeldTotal(rec, run, FALSE) = rec.all.held /\ HeldFailed(rec, run, FALSE) = rec.all.failed
      BY <3>2, RecFields DEF HeldTotal, HeldFailed
    <3>5. rec.all.held = truth.total /\ rec.all.failed = truth.failed
      BY <3>1, <3>4 DEF Agree
    <3>6. RecordedTotal = 0
      BY <3>2 DEF IsRec, IsHolding, RecordedTotal
    <3>. QED BY <3>1, <3>3, <3>5, <3>6 DEF Agree, Verdict
  <2>2. AbortStops
    <3>1. Stopping(actor, flags, truth.late) /\ truth.late \in Nat
      BY DEF TestsInv, AbortInv, Stopping
    <3>2. /\ Cardinality(Pending(actor)) \in Nat /\ Cardinality(Stoppers(actor)) \in Nat
          /\ Cardinality(Stoppers(actor)) <= Cardinality(Threads) /\ Cardinality(Threads) \in Nat
      BY AbortSets
    <3>3. CASE flags.abort /\ flags.aborted
      <4>1. truth.late + Cardinality(Pending(actor)) <= Cardinality(Stoppers(actor))
        BY <3>1, <3>3 DEF Stopping
      <4>. QED BY <3>1, <3>2, <4>1 DEF AbortStops
    <3>4. CASE ~(flags.abort /\ flags.aborted)
      <4>1. truth.late = 0
        BY <3>1, <3>4 DEF Stopping
      <4>. QED BY <3>2, <4>1 DEF AbortStops
    <3>. QED BY <3>3, <3>4
  <2>3. SelectionIsAsked
    <3>. SUFFICES ASSUME sel.i > Len(Suites) PROVE SelectionIsAsked
      BY DEF SelectionIsAsked
    <3>1. /\ sel.i \in 1 .. Len(Suites) + 1 /\ (Busy => sel.i <= Len(Suites))
          /\ Chosen(sel.asked, sel.mode, sel.pat, sel.ran, IF Busy THEN sel.i ELSE sel.i - 1)
          /\ Len(Suites) \in Nat
      BY TestsAssumption DEF TestsInv, SelectInv
    <3>2. ~Busy /\ sel.i - 1 = Len(Suites)
      BY <3>1
    <3>3. Chosen(sel.asked, sel.mode, sel.pat, sel.ran, Len(Suites))
      BY <3>1, <3>2
    <3>. DEFINE pat == sel.pat
    <3>4. /\ sel.asked \in {"each", "all", "suite", "library", "automatch"}
          /\ sel.asked = "each" => sel.ran = DOMAIN Suites
          /\ sel.asked = "all" => sel.ran = Automatic
          /\ sel.asked = "suite" => sel.ran = SuiteOf(pat)
          /\ sel.asked = "library" => sel.ran = LibraryOf(pat) \cap Automatic
          /\ sel.asked = "automatch" =>
               sel.ran = IF FirstMet(pat) \in NamedBy(pat) THEN {FirstMet(pat)}
                         ELSE IF FirstMet(pat) \in ModuleOf(pat) THEN ModuleOf(pat) \cap Automatic
                         ELSE LibraryOf(pat) \cap Automatic
      BY <3>3, ChosenAll, ZenonT(30)
    <3>5. sel.ran = CASE sel.asked = "each" -> DOMAIN Suites
                      [] sel.asked = "all" -> Automatic
                      [] sel.asked = "suite" -> SuiteOf(pat)
                      [] sel.asked = "library" -> LibraryOf(pat) \cap Automatic
                      [] sel.asked = "automatch" ->
                           IF FirstMet(pat) \in NamedBy(pat) THEN {FirstMet(pat)}
                           ELSE IF FirstMet(pat) \in ModuleOf(pat) THEN ModuleOf(pat) \cap Automatic
                           ELSE LibraryOf(pat) \cap Automatic
      BY <3>4
    <3>. DEFINE f == FirstMet(pat)
    <3>6. {i \in ModuleOf(pat) : Suites[i].library = Suites[f].library}
            \cup {i \in ModuleOf(pat) : Suites[i].library # Suites[f].library} = ModuleOf(pat)
      OBVIOUS
    <3>. QED BY <3>5, <3>6 DEF SelectionIsAsked, NamedBy, ModuleOf, LibraryOf, SuiteOf, Automatic, FirstMet
  <2>. QED BY <2>1, <2>2, <2>3 DEF TestsAreCounted
<1>. QED BY <1>1, TestsInvariance, PTL

-----------------------------------------------------------------------------
(* The containers of header fields.  A set of positions is put in order,   *)
(* and what a sequence has at these positions is a sequence again.         *)

Ascending(p, n, ks) ==
  p \in [1 .. n -> ks] /\ \A i, j \in 1 .. n : i < j => p[i] < p[j]

LEMMA AscendingExists ==
  ASSUME NEW n \in Nat, NEW ks \in SUBSET (1 .. n)
  PROVE  /\ IsFiniteSet(ks) /\ Cardinality(ks) \in Nat
         /\ \E p : Ascending(p, Cardinality(ks), ks)
<1> DEFINE Ok(m) == \A s \in SUBSET (1 .. m) : \E p : Ascending(p, Cardinality(s), s)
           S == {m \in Nat : Ok(m)}
<1>0. ASSUME NEW m \in Nat, NEW s \in SUBSET (1 .. m)
      PROVE  IsFiniteSet(s) /\ Cardinality(s) \in Nat
  <2>1. IsFiniteSet(1 .. m)
    BY FS_Interval
  <2>2. IsFiniteSet(s)
    BY <2>1, FS_Subset
  <2>. QED BY <2>2, FS_CardinalityType
<1>1. Ok(0)
  <2>. SUFFICES ASSUME NEW s \in SUBSET (1 .. 0) PROVE \E p : Ascending(p, Cardinality(s), s)
    OBVIOUS
  <2>1. s = {} /\ Cardinality(s) = 0
    <3>1. 1 .. 0 = {}
      OBVIOUS
    <3>2. s = {}
      BY <3>1, Zenon
    <3>. QED BY <3>2, FS_EmptySet
  <2>2. Ascending([i \in 1 .. 0 |-> i], 0, {})
    BY DEF Ascending
  <2>. QED BY <2>1, <2>2
<1>2. ASSUME NEW m \in Nat, Ok(m) PROVE Ok(m + 1)
  <2>. SUFFICES ASSUME NEW s \in SUBSET (1 .. m + 1)
                PROVE  \E p : Ascending(p, Cardinality(s), s)
    OBVIOUS
  <2>1. CASE m + 1 \notin s
    <3>1. s \in SUBSET (1 .. m)
      BY <2>1
    <3>. QED BY <1>2, <3>1
  <2>2. CASE m + 1 \in s
    <3>1. PICK t : t = s \ {m + 1}
      OBVIOUS
    <3>2. t \in SUBSET (1 .. m) /\ s = t \cup {m + 1} /\ m + 1 \notin t
      BY <2>2, <3>1
    <3>3. PICK c : c = Cardinality(t)
      OBVIOUS
    <3>4. c \in Nat /\ Cardinality(s) = c + 1
      BY <1>0, <3>2, <3>3, FS_AddElement
    <3>5. PICK p : Ascending(p, c, t)
      BY <1>2, <3>2, <3>3
    <3> DEFINE q == [i \in 1 .. c + 1 |-> IF i = c + 1 THEN m + 1 ELSE p[i]]
    <3>6. \A i \in 1 .. c : p[i] \in t /\ p[i] < m + 1
      <4>1. \A x \in t : x \in 1 .. m
        BY <3>2
      <4>2. \A i \in 1 .. c : p[i] \in t
        BY <3>5 DEF Ascending
      <4>3. \A x \in t : x < m + 1
        BY <4>1
      <4>. QED BY <4>2, <4>3
    <3>7. q \in [1 .. c + 1 -> s]
      BY <3>2, <3>4, <3>6
    <3>8. ASSUME NEW i \in 1 .. c + 1, NEW j \in 1 .. c + 1, i < j PROVE q[i] < q[j]
      <4>1. i \in 1 .. c /\ i # c + 1 /\ (j \in 1 .. c \/ j = c + 1)
        BY <3>4, <3>8
      <4>2. CASE j = c + 1
        BY <3>6, <4>1, <4>2
      <4>3. CASE j \in 1 .. c /\ j # c + 1
        BY <3>5, <3>8, <4>1, <4>3 DEF Ascending
      <4>. QED BY <4>1, <4>2, <4>3
    <3>9. Ascending(q, c + 1, s)
      <4>. HIDE DEF q
      <4>. QED BY <3>7, <3>8 DEF Ascending
    <3>. QED BY <3>4, <3>9
  <2>. QED BY <2>1, <2>2
<1>3. \A m \in Nat : m \in S
  <2>. HIDE DEF Ok
  <2>1. 0 \in S /\ \A k \in Nat : k \in S => k + 1 \in S
    BY <1>1, <1>2
  <2>. HIDE DEF S
  <2>. QED BY <2>1, NatSetInduction
<1>. QED BY <1>0, <1>3

\* The order InOrder chooses: each position once.
LEMMA InOrderIs ==
  ASSUME NEW n \in Nat, NEW ks \in SUBSET (1 .. n)
  PROVE  /\ IsFiniteSet(ks) /\ Cardinality(ks) \in Nat
         /\ Ascending(InOrder(ks), Cardinality(ks), ks)
         /\ \A k \in ks : \E i \in 1 .. Cardinality(ks) : InOrder(ks)[i] = k
<1>1. IsFiniteSet(ks) /\ Cardinality(ks) \in Nat
  BY AscendingExists
<1>2. PICK c, p : c = Cardinality(ks) /\ p = InOrder(ks)
  OBVIOUS
<1>3. c \in Nat
  BY <1>1, <1>2
<1>4. PICK q : Ascending(q, c, ks)
  BY <1>2, AscendingExists
<1>5. Ascending(p, c, ks)
  <2>1. q \in [1 .. c -> ks] /\ \A i, j \in DOMAIN q : i < j => q[i] < q[j]
    BY <1>4 DEF Ascending
  <2>2. p = CHOOSE r \in [1 .. c -> ks] : \A i, j \in DOMAIN r : i < j => r[i] < r[j]
    BY <1>2, Zenon DEF InOrder
  <2>3. p \in [1 .. c -> ks] /\ \A i, j \in DOMAIN p : i < j => p[i] < p[j]
    BY <2>1, <2>2, Zenon
  <2>. QED BY <2>3 DEF Ascending
<1>6. p \in Injection(1 .. c, ks)
  <2>1. ASSUME NEW i \in 1 .. c, NEW j \in 1 .. c, p[i] = p[j] PROVE i = j
    <3>1. p[i] \in Nat /\ p[j] \in Nat
      <4>1. p[i] \in ks /\ p[j] \in ks
        BY <1>5 DEF Ascending
      <4>2. \A x \in 1 .. n : x \in Nat
        OBVIOUS
      <4>3. \A x \in ks : x \in 1 .. n
        OBVIOUS
      <4>. QED BY <4>1, <4>2, <4>3, Zenon
    <3>2. ~(i < j) /\ ~(j < i)
      BY <1>5, <2>1, <3>1 DEF Ascending
    <3>. QED BY <3>2
  <2>2. p \in [1 .. c -> ks]
    BY <1>5 DEF Ascending
  <2>. QED BY <2>1, <2>2 DEF Injection, IsInjective
<1>7. Cardinality(1 .. c) = c
  BY <1>3, FS_Interval
<1>8. p \in Surjection(1 .. c, ks)
  BY <1>1, <1>2, <1>6, <1>7, FS_Injection
<1>9. \A k \in ks : \E i \in 1 .. c : p[i] = k
  BY <1>8 DEF Surjection
<1>. QED BY <1>1, <1>2, <1>5, <1>9, Zenon

\* p puts the n positions of ks in order.
Enumerates(p, n, ks) ==
  n \in Nat /\ Ascending(p, n, ks) /\ \A k \in ks : \E i \in 1 .. n : p[i] = k

LEMMA EnumerationIs ==
  ASSUME NEW ks \in SUBSET Nat, NEW c, NEW r, Enumerates(r, c, ks)
  PROVE  /\ c = Cardinality(ks)
         /\ c > 0 => r[1] \in ks /\ \A k \in ks : r[1] <= k
<1>a. c \in Nat /\ Ascending(r, c, ks) /\ \A k \in ks : \E i \in 1 .. c : r[i] = k
  BY DEF Enumerates
<1>1. \A i, j \in 1 .. c : r[i] \in Nat /\ r[j] \in Nat /\ (r[i] = r[j] => i = j)
  <2>. SUFFICES ASSUME NEW i \in 1 .. c, NEW j \in 1 .. c
                PROVE  r[i] \in Nat /\ r[j] \in Nat /\ (r[i] = r[j] => i = j)
    OBVIOUS
  <2>1. r[i] \in Nat /\ r[j] \in Nat
    BY <1>a DEF Ascending
  <2>2. (i < j => r[i] < r[j]) /\ (j < i => r[j] < r[i])
    BY <1>a DEF Ascending
  <2>. QED BY <2>1, <2>2
<1>2. r \in Bijection(1 .. c, ks)
  <2>1. r \in [1 .. c -> ks]
    BY <1>a DEF Ascending
  <2>2. r \in Injection(1 .. c, ks)
    BY <1>1, <2>1 DEF Injection, IsInjective
  <2>3. r \in Surjection(1 .. c, ks)
    BY <1>a, <2>1, Zenon DEF Surjection
  <2>. QED BY <2>2, <2>3, Zenon DEF Bijection
<1>3. IsFiniteSet(1 .. c) /\ Cardinality(1 .. c) = c
  BY <1>a, FS_Interval
<1>4. c = Cardinality(ks)
  BY <1>2, <1>3, FS_Bijection DEF ExistsBijection
<1>5. ASSUME c > 0 PROVE r[1] \in ks /\ \A k \in ks : r[1] <= k
  <2>1. 1 \in 1 .. c /\ r[1] \in ks
    BY <1>a, <1>5 DEF Ascending
  <2>2. ASSUME NEW k \in ks PROVE r[1] <= k
    <3>1. PICK i \in 1 .. c : r[i] = k
      BY <1>a
    <3>2. i = 1 \/ 1 < i
      BY <1>a, <3>1
    <3>3. 1 < i => r[1] < r[i]
      BY <1>a, <2>1, <3>1 DEF Ascending
    <3>. QED BY <1>1, <2>1, <3>1, <3>2, <3>3
  <2>. QED BY <2>1, <2>2
<1>. QED BY <1>4, <1>5

\* Two ways to put the same positions in order are of the same length and
\* have the same first position.
LEMMA OneEnumeration ==
  ASSUME NEW ks \in SUBSET Nat, NEW a, NEW b, NEW p, NEW q,
         Enumerates(p, a, ks), Enumerates(q, b, ks)
  PROVE  a = b /\ (a > 0 => p[1] = q[1])
<1>1. a = Cardinality(ks) /\ b = Cardinality(ks)
  BY EnumerationIs
<1>2. ASSUME a > 0 PROVE p[1] = q[1]
  <2>1. p[1] \in ks /\ \A k \in ks : p[1] <= k
    BY <1>2, EnumerationIs
  <2>2. q[1] \in ks /\ \A k \in ks : q[1] <= k
    BY <1>1, <1>2, EnumerationIs
  <2>3. p[1] <= q[1] /\ q[1] <= p[1] /\ p[1] \in Nat /\ q[1] \in Nat
    BY <2>1, <2>2
  <2>. QED BY <2>3
<1>. QED BY <1>1, <1>2

\* What Only leaves of a sequence: each element at one of the positions, in
\* their order.
LEMMA OnlyIs ==
  ASSUME NEW T, NEW s \in Seq(T), NEW ks \in SUBSET (1 .. Len(s))
  PROVE  /\ Only(s, ks) \in Seq(T) /\ Len(Only(s, ks)) = Cardinality(ks)
         /\ \A k \in 1 .. Cardinality(ks) :
              InOrder(ks)[k] \in ks /\ Only(s, ks)[k] = s[InOrder(ks)[k]]
<1>1. PICK c, p : c = Cardinality(ks) /\ p = InOrder(ks)
  OBVIOUS
<1>2. c \in Nat /\ p \in [1 .. c -> ks]
  <2>1. Len(s) \in Nat
    OBVIOUS
  <2>2. c \in Nat /\ Ascending(p, c, ks)
    BY <1>1, <2>1, InOrderIs
  <2>. QED BY <2>2 DEF Ascending
<1>3. PICK t : t = Only(s, ks)
  OBVIOUS
<1>4. t = [k \in 1 .. c |-> s[p[k]]]
  BY <1>1, <1>3, Zenon DEF Only
<1>5. \A k \in 1 .. c : p[k] \in 1 .. Len(s) /\ s[p[k]] \in T
  <2>1. \A x \in ks : x \in 1 .. Len(s)
    OBVIOUS
  <2>2. \A x \in 1 .. Len(s) : s[x] \in T
    OBVIOUS
  <2>3. \A k \in 1 .. c : p[k] \in ks
    BY <1>2
  <2>. QED BY <2>1, <2>2, <2>3
<1>6. t \in Seq(T) /\ Len(t) = c /\ \A k \in 1 .. c : t[k] = s[p[k]]
  BY <1>2, <1>4, <1>5
<1>7. \A k \in 1 .. c : p[k] \in ks
  BY <1>2
<1>. QED BY <1>1, <1>3, <1>6, <1>7, Zenon

-----------------------------------------------------------------------------
(* The names and values of the model.                                      *)

Trimmed == {<<"a", "SP", "a">>, << >>}

LEMMA LeastIn ==
  ASSUME NEW D \in SUBSET Nat, D # {}
  PROVE  Min(D) \in D /\ \A x \in D : Min(D) <= x
BY LeastOfSet

LEMMA LeastOne ==
  ASSUME NEW D \in SUBSET Int, NEW m \in D, \A x \in D : m <= x PROVE Min(D) = m
<1>1. ASSUME NEW x \in D, \A y \in D : x <= y PROVE x = m
  BY <1>1
<1>. QED BY <1>1 DEF Min

LEMMA MostIs ==
  ASSUME NEW D \in SUBSET Int, NEW m \in D, \A x \in D : m >= x PROVE Max(D) = m
<1>1. ASSUME NEW x \in D, \A y \in D : x >= y PROVE x = m
  BY <1>1
<1>. QED BY <1>1 DEF Max

LEMMA TrimTakes ==
  ASSUME NEW v \in Seq({"a", "SP"}), NEW a \in 1 .. Len(v), NEW b \in a .. Len(v),
         v[a] # "SP", v[b] # "SP", \A k \in 1 .. Len(v) : k < a \/ b < k => v[k] = "SP"
  PROVE  trim(v) = SubSeq(v, a, b)
<1>1. Len(v) \in Nat /\ DOMAIN v = 1 .. Len(v)
  OBVIOUS
<1> DEFINE in == {i \in DOMAIN v : v[i] # "SP"}
           ahead == {j \in 1 .. Len(v) + 1 : j > Len(v) \/ v[j] # "SP"}
<1>2. Max(in) = b /\ in # {}
  <2>1. b \in in /\ in \in SUBSET Int /\ \A x \in in : b >= x
    BY <1>1
  <2>. HIDE DEF in
  <2>. QED BY <2>1, MostIs
<1>3. Min(ahead) = a
  <2>1. a \in ahead /\ ahead \in SUBSET Int /\ \A x \in ahead : a <= x
    BY <1>1
  <2>. HIDE DEF ahead
  <2>. QED BY <2>1, LeastOne
<1>4. skip_ows(v, 1) = a
  BY <1>3, Zenon DEF skip_ows
<1>5. trim(v) = IF in = {} THEN << >> ELSE SubSeq(v, skip_ows(v, 1), Max(in))
  BY Zenon DEF trim
<1>. HIDE DEF in
<1>. QED BY <1>2, <1>4, <1>5

LEMMA TrimDrops ==
  ASSUME NEW v \in Seq({"a", "SP"}), \A k \in 1 .. Len(v) : v[k] = "SP"
  PROVE  trim(v) = << >>
<1>1. {i \in DOMAIN v : v[i] # "SP"} = {}
  OBVIOUS
<1>. QED BY <1>1, Zenon DEF trim

LEMMA TrimIs ==
  /\ \A v \in Values : trim(v) \in Trimmed
  /\ \A v \in Trimmed : trim(v) = v
<1>1. trim(<<"SP", "a", "SP", "a", "SP">>) = <<"a", "SP", "a">>
  <2>1. PICK v : v = <<"SP", "a", "SP", "a", "SP">>
    OBVIOUS
  <2>2. /\ v \in Seq({"a", "SP"}) /\ Len(v) = 5 /\ v[1] = "SP" /\ v[2] = "a" /\ v[3] = "SP"
        /\ v[4] = "a" /\ v[5] = "SP"
    BY <2>1
  <2>3. 2 \in 1 .. Len(v) /\ 4 \in 2 .. Len(v)
        /\ \A k \in 1 .. Len(v) : k < 2 \/ 4 < k => v[k] = "SP"
    BY <2>2
  <2>4. v[2] # "SP" /\ v[4] # "SP"
    BY <2>2
  <2>5. trim(v) = SubSeq(v, 2, 4)
    BY <2>2, <2>3, <2>4, TrimTakes
  <2>6. SubSeq(v, 2, 4) = <<"a", "SP", "a">>
    <3>1. PICK u, w : u = SubSeq(v, 2, 4) /\ w = <<"a", "SP", "a">>
      OBVIOUS
    <3>2. w \in Seq({"a", "SP"}) /\ Len(w) = 3 /\ w[1] = "a" /\ w[2] = "SP" /\ w[3] = "a"
      BY <3>1
    <3>3. u \in Seq({"a", "SP"}) /\ Len(u) = 3 /\ \A k \in 1 .. 3 : u[k] = v[k + 1]
      BY <2>2, <3>1
    <3>4. \A k \in 1 .. Len(u) : u[k] = w[k]
      BY <2>2, <3>2, <3>3
    <3>5. u = w
      BY <3>2, <3>3, <3>4, SeqEqual
    <3>. QED BY <3>1, <3>5, Zenon
  <2>. QED BY <2>1, <2>5, <2>6, Zenon
<1>2. trim(<<"a", "SP", "a">>) = <<"a", "SP", "a">>
  <2>1. PICK v : v = <<"a", "SP", "a">>
    OBVIOUS
  <2>2. v \in Seq({"a", "SP"}) /\ Len(v) = 3 /\ v[1] = "a" /\ v[2] = "SP" /\ v[3] = "a"
    BY <2>1
  <2>3. 1 \in 1 .. Len(v) /\ 3 \in 1 .. Len(v)
        /\ \A k \in 1 .. Len(v) : k < 1 \/ 3 < k => v[k] = "SP"
    BY <2>2
  <2>4. v[1] # "SP" /\ v[3] # "SP"
    BY <2>2
  <2>5. trim(v) = SubSeq(v, 1, 3)
    BY <2>2, <2>3, <2>4, TrimTakes
  <2>6. SubSeq(v, 1, 3) = v
    BY <2>2
  <2>. QED BY <2>1, <2>5, <2>6, Zenon
<1>3. trim(<<"SP">>) = << >>
  <2>1. <<"SP">> \in Seq({"a", "SP"}) /\ \A k \in 1 .. Len(<<"SP">>) : <<"SP">>[k] = "SP"
    OBVIOUS
  <2>. QED BY <2>1, TrimDrops
<1>4. trim(<< >>) = << >>
  <2>1. << >> \in Seq({"a", "SP"}) /\ \A k \in 1 .. Len(<< >>) : << >>[k] = "SP"
    OBVIOUS
  <2>. QED BY <2>1, TrimDrops
<1>. QED BY <1>1, <1>2, <1>3, <1>4, Zenon DEF Values, Trimmed

\* The names are sequences of one letter or two; two of them are the same
\* without regard to case if they are of one length.
LEMMA NamesAre ==
  ASSUME NEW s \in Names
  PROVE  /\ s \in Seq({"a", "A"}) /\ Len(s) \in Nat /\ Len(s) > 0 /\ s # << >>
         /\ ToLower(s) = [i \in 1 .. Len(s) |-> "a"]
<1>1. s \in Seq({"a", "A"}) /\ Len(s) \in Nat /\ Len(s) > 0
  <2>1. CASE s = <<"a">>
    BY <2>1
  <2>2. CASE s = <<"A">>
    BY <2>2
  <2>3. CASE s = <<"a", "a">>
    BY <2>3
  <2>. QED BY <2>1, <2>2, <2>3, Zenon DEF Names
<1>2. s # << >>
  BY <1>1
<1>3. DOMAIN s = 1 .. Len(s) /\ \A i \in 1 .. Len(s) : s[i] \in {"a", "A"}
  BY <1>1
<1>4. ToLower(s) = [i \in 1 .. Len(s) |-> "a"]
  BY <1>3 DEF ToLower
<1>. QED BY <1>1, <1>2, <1>4

LEMMA SameName ==
  ASSUME NEW s \in Names, NEW t \in Names PROVE ci_equal(s, t) <=> Len(s) = Len(t)
<1>1. PICK a, b : a = Len(s) /\ b = Len(t)
  OBVIOUS
<1>2. a \in Nat /\ b \in Nat /\ ToLower(s) = [i \in 1 .. a |-> "a"]
      /\ ToLower(t) = [i \in 1 .. b |-> "a"]
  BY <1>1, NamesAre
<1>3. ASSUME [i \in 1 .. a |-> "a"] = [i \in 1 .. b |-> "a"] PROVE a = b
  <2>1. 1 .. a = 1 .. b
    <3>1. DOMAIN [i \in 1 .. a |-> "a"] = DOMAIN [i \in 1 .. b |-> "a"]
      BY <1>3, Zenon
    <3>. QED BY <3>1
  <2>2. Cardinality(1 .. a) = a /\ Cardinality(1 .. b) = b
    BY <1>2, FS_Interval
  <2>. QED BY <2>1, <2>2
<1>. QED BY <1>1, <1>2, <1>3, Zenon DEF ci_equal

-----------------------------------------------------------------------------
(* A container: its list and its set link the same elements, each once,    *)
(* and the set has them by the length of their names, those of one length  *)
(* in the order of the list.                                               *)

Elements == [name : Names, value : Trimmed, alloc : Both]

Containers == [list : Seq(Nat), set : Seq(Nat), alloc : Both]

Wide(hp, e) == Len(hp[e].name)

Distinct(s) == \A i, j \in 1 .. Len(s) : s[i] = s[j] => i = j

Ordered(hp, list, set) ==
  \A k, l \in 1 .. Len(set) : k < l =>
    /\ Wide(hp, set[k]) <= Wide(hp, set[l])
    /\ Wide(hp, set[k]) = Wide(hp, set[l]) =>
         \A i, j \in 1 .. Len(list) : list[i] = set[k] /\ list[j] = set[l] => i < j

Linked(hp, h) ==
  /\ h \in Containers /\ Distinct(h.list) /\ Distinct(h.set)
  /\ Range(h.set) = Range(h.list)
  /\ \A e \in Range(h.list) : e \in DOMAIN hp /\ hp[e] \in Elements /\ hp[e].alloc = h.alloc
  /\ Ordered(hp, h.list, h.set)

\* What iterating over the list shows.
FieldsOf(hp, list) ==
  [k \in 1 .. Len(list) |-> [name |-> hp[list[k]].name, value |-> hp[list[k]].value]]

LEMMA RangeIs ==
  ASSUME NEW T, NEW s \in Seq(T)
  PROVE  /\ \A e : e \in Range(s) <=> \E k \in 1 .. Len(s) : s[k] = e
         /\ \A k \in 1 .. Len(s) : s[k] \in Range(s)
         /\ Range(s) \subseteq T
<1>1. DOMAIN s = 1 .. Len(s) /\ \A k \in 1 .. Len(s) : s[k] \in T
  OBVIOUS
<1>2. \A e : e \in Range(s) <=> \E k \in 1 .. Len(s) : s[k] = e
  BY <1>1, Zenon DEF Range
<1>. QED BY <1>1, <1>2, Zenon

LEMMA DistinctSize ==
  ASSUME NEW T, NEW s \in Seq(T), Distinct(s)
  PROVE  IsFiniteSet(Range(s)) /\ Cardinality(Range(s)) = Len(s)
<1>1. Len(s) \in Nat /\ DOMAIN s = 1 .. Len(s)
  OBVIOUS
<1>2. s \in [1 .. Len(s) -> Range(s)]
  BY <1>1, RangeIs
<1>3. s \in Injection(1 .. Len(s), Range(s))
  BY <1>1, <1>2 DEF Injection, IsInjective, Distinct
<1>4. s \in Surjection(1 .. Len(s), Range(s))
  <2>1. \A e \in Range(s) : \E k \in 1 .. Len(s) : s[k] = e
    BY RangeIs, Zenon
  <2>. QED BY <1>2, <2>1, Zenon DEF Surjection
<1>5. s \in Bijection(1 .. Len(s), Range(s))
  BY <1>3, <1>4, Zenon DEF Bijection
<1>6. IsFiniteSet(1 .. Len(s)) /\ Cardinality(1 .. Len(s)) = Len(s)
  BY <1>1, FS_Interval
<1>. QED BY <1>5, <1>6, FS_Bijection DEF ExistsBijection

LEMMA LinkedFacts ==
  ASSUME NEW hp, NEW h, Linked(hp, h)
  PROVE  /\ h.list \in Seq(Nat) /\ h.set \in Seq(Nat) /\ h.alloc \in Both
         /\ Len(h.list) \in Nat /\ Len(h.set) = Len(h.list)
         /\ \A k \in 1 .. Len(h.set) : h.set[k] \in Range(h.list)
         /\ \A k \in 1 .. Len(h.list) : h.list[k] \in Range(h.list)
         /\ \A e \in Range(h.list) : e \in Nat /\ hp[e].name \in Names /\ Wide(hp, e) \in Nat
         /\ \A e \in Range(h.list) : \E k \in 1 .. Len(h.set) : h.set[k] = e
         /\ \A e \in Range(h.list) : \E k \in 1 .. Len(h.list) : h.list[k] = e
<1>1. h.list \in Seq(Nat) /\ h.set \in Seq(Nat) /\ h.alloc \in Both
  BY DEF Linked, Containers
<1>2. Len(h.list) \in Nat
  BY <1>1
<1>3. Range(h.set) = Range(h.list) /\ Distinct(h.list) /\ Distinct(h.set)
  BY DEF Linked
<1>4. Len(h.set) = Len(h.list)
  <2>1. Cardinality(Range(h.set)) = Len(h.set) /\ Cardinality(Range(h.list)) = Len(h.list)
    BY <1>1, <1>3, DistinctSize
  <2>. QED BY <1>3, <2>1
<1>5. /\ \A k \in 1 .. Len(h.set) : h.set[k] \in Range(h.list)
      /\ \A k \in 1 .. Len(h.list) : h.list[k] \in Range(h.list)
      /\ \A e \in Range(h.list) : \E k \in 1 .. Len(h.set) : h.set[k] = e
      /\ \A e \in Range(h.list) : \E k \in 1 .. Len(h.list) : h.list[k] = e
  <2>1. PICK a, b : a = h.list /\ b = h.set
    OBVIOUS
  <2>2. a \in Seq(Nat) /\ b \in Seq(Nat) /\ Range(b) = Range(a)
    BY <1>1, <1>3, <2>1
  <2>3. /\ \A k \in 1 .. Len(b) : b[k] \in Range(b)
        /\ \A k \in 1 .. Len(a) : a[k] \in Range(a)
        /\ \A e \in Range(b) : \E k \in 1 .. Len(b) : b[k] = e
        /\ \A e \in Range(a) : \E k \in 1 .. Len(a) : a[k] = e
    BY <2>2, RangeIs
  <2>. QED BY <2>1, <2>2, <2>3, Zenon
<1>6. ASSUME NEW e \in Range(h.list)
      PROVE  e \in Nat /\ hp[e].name \in Names /\ Wide(hp, e) \in Nat
  <2>1. e \in Nat
    BY <1>1, RangeIs
  <2>2. hp[e] \in Elements
    BY DEF Linked
  <2>3. hp[e].name \in Names
    BY <2>2 DEF Elements
  <2>. QED BY <2>1, <2>3, NamesAre DEF Wide
<1>. QED BY <1>1, <1>2, <1>4, <1>5, <1>6

LEMMA SetHolds ==
  ASSUME NEW hp, NEW h, Linked(hp, h), NEW e \in Range(h.list)
  PROVE  \E k \in 1 .. Len(h.set) : h.set[k] = e
<1>1. PICK b : b = h.set
  OBVIOUS
<1>2. b \in Seq(Nat) /\ e \in Range(b)
  BY <1>1 DEF Linked, Containers
<1>3. \E k \in 1 .. Len(b) : b[k] = e
  BY <1>2, RangeIs
<1>. QED BY <1>1, <1>3, Zenon

LEMMA ListHolds ==
  ASSUME NEW hp, NEW h, Linked(hp, h), NEW e \in Range(h.list)
  PROVE  \E k \in 1 .. Len(h.list) : h.list[k] = e
<1>1. PICK a : a = h.list
  OBVIOUS
<1>2. a \in Seq(Nat) /\ e \in Range(a)
  BY <1>1 DEF Linked, Containers
<1>3. \E k \in 1 .. Len(a) : a[k] = e
  BY <1>2, RangeIs
<1>. QED BY <1>1, <1>3, Zenon

\* The first place of a set that is behind some of its positions.
LEMMA FirstPlace ==
  ASSUME NEW n \in Nat, NEW ks \in SUBSET (1 .. n), \A k \in ks : \A l \in k .. n : l \in ks
  PROVE  /\ Min({n + 1} \cup ks) \in 1 .. n + 1
         /\ \A k \in 1 .. n : k \in ks <=> Min({n + 1} \cup ks) <= k
<1>1. PICK D : D = {n + 1} \cup ks
  OBVIOUS
<1>2. D \in SUBSET Nat /\ D # {} /\ \A x \in D : x \in 1 .. n + 1
  <2>1. \A x \in ks : x \in 1 .. n
    OBVIOUS
  <2>2. \A x \in D : x = n + 1 \/ x \in 1 .. n
    BY <1>1, <2>1
  <2>3. \A x \in D : x \in Nat /\ x \in 1 .. n + 1
    BY <2>2
  <2>4. n + 1 \in D
    BY <1>1
  <2>. QED BY <2>3, <2>4
<1>3. PICK m : m = Min(D)
  OBVIOUS
<1>4. m \in D /\ \A x \in D : m <= x
  BY <1>2, <1>3, LeastIn
<1>5. ASSUME NEW k \in 1 .. n PROVE k \in ks <=> m <= k
  <2>1. k \in ks => m <= k
    BY <1>1, <1>4
  <2>2. ASSUME m <= k PROVE k \in ks
    <3>1. m \in 1 .. n + 1 /\ m # n + 1
      BY <1>2, <1>4, <2>2
    <3>2. m \in ks /\ k \in m .. n
      BY <1>1, <1>4, <2>2, <3>1
    <3>. QED BY <3>2
  <2>. QED BY <2>1, <2>2
<1>6. m \in 1 .. n + 1
  BY <1>2, <1>4
<1>. QED BY <1>1, <1>3, <1>5, <1>6, Zenon

\* Where the searches in the set stop.
LEMMA Bounds ==
  ASSUME NEW hp, NEW h, Linked(hp, h), NEW name \in Names
  PROVE  LET lb == lower_bound(hp, h.set, name)
             ub == upper_bound(hp, h.set, name)
             n == Len(h.set)
         IN  /\ lb \in 1 .. n + 1 /\ ub \in 1 .. n + 1 /\ lb <= ub
             /\ \A k \in 1 .. n : lb <= k <=> Wide(hp, h.set[k]) >= Len(name)
             /\ \A k \in 1 .. n : ub <= k <=> Wide(hp, h.set[k]) > Len(name)
<1>1. PICK set, n, w : set = h.set /\ n = Len(h.set) /\ w = Len(name)
  OBVIOUS
<1>2. set \in Seq(Nat) /\ n = Len(set) /\ n \in Nat /\ DOMAIN set = 1 .. n /\ w \in Nat
  BY <1>1, LinkedFacts, NamesAre
<1>3. \A k \in 1 .. n : Wide(hp, set[k]) \in Nat
  BY <1>1, LinkedFacts
<1>4. \A k, l \in 1 .. n : k < l => Wide(hp, set[k]) <= Wide(hp, set[l])
  BY <1>1 DEF Linked, Ordered
<1> DEFINE lo == {k \in 1 .. n : Wide(hp, set[k]) >= w}
           hi == {k \in 1 .. n : Wide(hp, set[k]) > w}
<1>5. lower_bound(hp, set, name) = Min({n + 1} \cup lo)
  <2>1. {k \in DOMAIN set : ~ci_less(NameOf(hp, set[k]), name)} = lo
    <3>1. ASSUME NEW k \in 1 .. n
          PROVE  ~ci_less(NameOf(hp, set[k]), name) <=> Wide(hp, set[k]) >= w
      <4>1. ci_less(NameOf(hp, set[k]), name) <=> Wide(hp, set[k]) < w
        BY <1>1, Zenon DEF ci_less, NameOf, Wide
      <4>2. Wide(hp, set[k]) \in Nat
        BY <1>3
      <4>. QED BY <1>2, <4>1, <4>2
    <3>. QED BY <1>2, <3>1
  <2>. QED BY <1>2, <2>1, Zenon DEF lower_bound
<1>6. upper_bound(hp, set, name) = Min({n + 1} \cup hi)
  <2>1. {k \in DOMAIN set : ci_less(name, NameOf(hp, set[k]))} = hi
    <3>1. ASSUME NEW k \in 1 .. n
          PROVE  ci_less(name, NameOf(hp, set[k])) <=> Wide(hp, set[k]) > w
      <4>1. ci_less(name, NameOf(hp, set[k])) <=> w < Wide(hp, set[k])
        BY <1>1, Zenon DEF ci_less, NameOf, Wide
      <4>2. Wide(hp, set[k]) \in Nat
        BY <1>3
      <4>. QED BY <1>2, <4>1, <4>2
    <3>. QED BY <1>2, <3>1
  <2>. QED BY <1>2, <2>1, Zenon DEF upper_bound
<1>7. PICK lb, ub : lb = Min({n + 1} \cup lo) /\ ub = Min({n + 1} \cup hi)
  OBVIOUS
<1>8. lb \in 1 .. n + 1 /\ \A k \in 1 .. n : k \in lo <=> lb <= k
  <2>1. lo \in SUBSET (1 .. n)
    OBVIOUS
  <2>2. ASSUME NEW k \in lo, NEW l \in k .. n PROVE l \in lo
    <3>1. k \in 1 .. n /\ l \in 1 .. n /\ (k = l \/ k < l)
      BY <1>2, <2>2
    <3>. QED BY <1>2, <1>3, <1>4, <2>2, <3>1
  <2>. HIDE DEF lo
  <2>. QED BY <1>2, <1>7, <2>1, <2>2, FirstPlace
<1>9. ub \in 1 .. n + 1 /\ \A k \in 1 .. n : k \in hi <=> ub <= k
  <2>1. hi \in SUBSET (1 .. n)
    OBVIOUS
  <2>2. ASSUME NEW k \in hi, NEW l \in k .. n PROVE l \in hi
    <3>1. k \in 1 .. n /\ l \in 1 .. n /\ (k = l \/ k < l)
      BY <1>2, <2>2
    <3>. QED BY <1>2, <1>3, <1>4, <2>2, <3>1
  <2>. HIDE DEF hi
  <2>. QED BY <1>2, <1>7, <2>1, <2>2, FirstPlace
<1>10. \A k \in 1 .. n : (lb <= k <=> Wide(hp, set[k]) >= w) /\ (ub <= k <=> Wide(hp, set[k]) > w)
  BY <1>8, <1>9
<1>11. lb <= ub
  <2>. SUFFICES ASSUME ub < lb PROVE FALSE
    BY <1>8, <1>9
  <2>1. ub \in 1 .. n
    BY <1>2, <1>8, <1>9
  <2>2. Wide(hp, set[ub]) > w /\ ~(Wide(hp, set[ub]) >= w)
    BY <1>2, <1>8, <1>10, <2>1
  <2>. QED BY <1>2, <1>3, <2>1, <2>2
<1>. HIDE DEF lo, hi
<1>. QED BY <1>1, <1>5, <1>6, <1>7, <1>8, <1>9, <1>10, <1>11, Zenon

LEMMA InsertAtIs ==
  ASSUME NEW T, NEW s \in Seq(T), NEW k \in 1 .. Len(s) + 1, NEW e \in T
  PROVE  /\ InsertAt(s, k, e) \in Seq(T) /\ Len(InsertAt(s, k, e)) = Len(s) + 1
         /\ \A j \in 1 .. Len(s) + 1 :
              InsertAt(s, k, e)[j] = IF j < k THEN s[j] ELSE IF j = k THEN e ELSE s[j - 1]
<1>1. PICK a, b, n : a = SubSeq(s, 1, k - 1) /\ b = SubSeq(s, k, Len(s)) /\ n = Len(s)
  OBVIOUS
<1>2. n \in Nat /\ k \in 1 .. n + 1 /\ \A j \in 1 .. n : s[j] \in T
  BY <1>1
<1>3. a \in Seq(T) /\ Len(a) = k - 1 /\ \A j \in 1 .. k - 1 : a[j] = s[j]
  BY <1>1, <1>2
<1>4. b \in Seq(T) /\ Len(b) = (n - k) + 1 /\ \A j \in 1 .. (n - k) + 1 : b[j] = s[(k + j) - 1]
  <2>1. k \in Int /\ n \in Int /\ \A i \in k .. n : s[i] \in T
    BY <1>2
  <2>2. /\ SubSeq(s, k, n) \in Seq(T)
        /\ Len(SubSeq(s, k, n)) = IF k <= n THEN n - k + 1 ELSE 0
        /\ \A i \in 1 .. n - k + 1 : SubSeq(s, k, n)[i] = s[k + i - 1]
    BY <2>1, SubSeqProperties
  <2>. QED BY <1>1, <1>2, <2>2
<1>5. PICK t, u : t = a \o <<e>> /\ u = t \o b
  OBVIOUS
<1>6. t \in Seq(T) /\ Len(t) = k /\ \A j \in 1 .. k : t[j] = IF j < k THEN a[j] ELSE e
  <2>1. <<e>> \in Seq(T) /\ Len(<<e>>) = 1 /\ <<e>>[1] = e
    OBVIOUS
  <2>. QED BY <1>2, <1>3, <1>5, <2>1
<1>7. /\ u \in Seq(T) /\ Len(u) = n + 1
      /\ \A j \in 1 .. n + 1 : u[j] = IF j <= k THEN t[j] ELSE b[j - k]
  BY <1>2, <1>4, <1>5, <1>6
<1>8. u = InsertAt(s, k, e)
  BY <1>1, <1>5, Zenon DEF InsertAt
<1>9. ASSUME NEW j \in 1 .. n + 1
      PROVE  u[j] = IF j < k THEN s[j] ELSE IF j = k THEN e ELSE s[j - 1]
  <2>1. CASE j < k
    <3>1. j \in 1 .. k /\ j \in 1 .. k - 1 /\ j <= k
      BY <1>2, <2>1
    <3>. QED BY <1>3, <1>6, <1>7, <2>1, <3>1
  <2>2. CASE j = k
    BY <1>2, <1>6, <1>7, <2>2
  <2>3. CASE j > k
    <3>1. j - k \in 1 .. (n - k) + 1 /\ (k + (j - k)) - 1 = j - 1 /\ ~(j <= k)
      BY <1>2, <2>3
    <3>2. u[j] = b[j - k] /\ b[j - k] = s[(k + (j - k)) - 1]
      BY <1>4, <1>7, <3>1
    <3>. QED BY <2>3, <3>1, <3>2
  <2>. QED BY <1>2, <2>1, <2>2, <2>3
<1>. QED BY <1>1, <1>7, <1>8, <1>9

\* A container keeps its links as long as its elements are left alone.
LEMMA LinkedStays ==
  ASSUME NEW hp, NEW h, Linked(hp, h), NEW hq,
         \A e \in Range(h.list) : e \in DOMAIN hq /\ hq[e] = hp[e]
  PROVE  Linked(hq, h) /\ FieldsOf(hq, h.list) = FieldsOf(hp, h.list)
<1>1. \A e \in Range(h.list) : e \in DOMAIN hq /\ hq[e] \in Elements /\ hq[e].alloc = h.alloc
  BY DEF Linked
<1>2. /\ \A k \in 1 .. Len(h.set) : hq[h.set[k]] = hp[h.set[k]]
      /\ \A k \in 1 .. Len(h.list) : hq[h.list[k]] = hp[h.list[k]]
  BY LinkedFacts
<1>3. Ordered(hq, h.list, h.set)
  <2>1. Ordered(hp, h.list, h.set)
    BY DEF Linked
  <2>2. \A k \in 1 .. Len(h.set) : Wide(hq, h.set[k]) = Wide(hp, h.set[k])
    BY <1>2 DEF Wide
  <2>. QED BY <2>1, <2>2 DEF Ordered
<1>4. Linked(hq, h)
  BY <1>1, <1>3 DEF Linked
<1>5. FieldsOf(hq, h.list) = FieldsOf(hp, h.list)
  BY <1>2 DEF FieldsOf
<1>. QED BY <1>4, <1>5

Field(el) == [name |-> el.name, value |-> el.value]

\* What is added to the list is at its end, what is added to the set at k.
Spliced(a, b, c, d, m, k, e, els) ==
  /\ m \in Nat /\ k \in 1 .. m + 1
  /\ c \in Seq(Nat) /\ Len(c) = m + 1 /\ c[m + 1] = e
  /\ \A j \in 1 .. m : c[j] = a[j]
  /\ d \in Seq(Nat) /\ Len(d) = m + 1
  /\ \A j \in 1 .. m + 1 : d[j] = IF j < k THEN b[j] ELSE IF j = k THEN e ELSE b[j - 1]
  /\ \A j \in 1 .. m : a[j] \in els /\ b[j] \in els
  /\ \A x \in els : (\E j \in 1 .. m : a[j] = x) /\ (\E j \in 1 .. m : b[j] = x)
  /\ e \notin els
  /\ \A i, j \in 1 .. m : a[i] = a[j] => i = j
  /\ \A i, j \in 1 .. m : b[i] = b[j] => i = j

\* Where a position of the new set was in the old one.
Was(j, k) == IF j < k THEN j ELSE j - 1

LEMMA WasOnce ==
  ASSUME NEW m \in Nat, NEW k \in 1 .. m + 1, NEW i \in 1 .. m + 1, NEW j \in 1 .. m + 1,
         i # k, j # k, Was(i, k) = Was(j, k)
  PROVE  i = j
BY DEF Was

LEMMA SplicedFacts ==
  ASSUME NEW a, NEW b, NEW c, NEW d, NEW m, NEW k, NEW e, NEW els,
         Spliced(a, b, c, d, m, k, e, els)
  PROVE  /\ \A x \in 1 .. m + 1 : x = m + 1 \/ x \in 1 .. m
         /\ m + 1 \in 1 .. m + 1 /\ \A x \in 1 .. m : x \in 1 .. m + 1
         /\ d[k] = e
         /\ \A j \in 1 .. m + 1 : j # k => Was(j, k) \in 1 .. m /\ d[j] = b[Was(j, k)] /\ d[j] # e
         /\ \A x \in 1 .. m + 1 : c[x] # e => x \in 1 .. m /\ c[x] = a[x]
         /\ \A x \in 1 .. m + 1 : c[x] = e => x = m + 1
<1>1. m \in Nat /\ k \in 1 .. m + 1
  BY DEF Spliced
<1>2. \A x \in 1 .. m + 1 : x = m + 1 \/ x \in 1 .. m
  BY <1>1
<1>3. m + 1 \in 1 .. m + 1 /\ \A x \in 1 .. m : x \in 1 .. m + 1
  BY <1>1
<1>4. d[k] = e
  BY <1>1 DEF Spliced
<1>5. ASSUME NEW j \in 1 .. m + 1, j # k
      PROVE  Was(j, k) \in 1 .. m /\ d[j] = b[Was(j, k)] /\ d[j] # e
  <2>1. Was(j, k) \in 1 .. m
    BY <1>1, <1>5 DEF Was
  <2>2. d[j] = b[Was(j, k)]
    BY <1>5 DEF Spliced, Was
  <2>. QED BY <2>1, <2>2 DEF Spliced
<1>6. \A x \in 1 .. m : c[x] = a[x] /\ a[x] # e
  BY DEF Spliced
<1>7. c[m + 1] = e
  BY DEF Spliced
<1>. QED BY <1>2, <1>3, <1>4, <1>5, <1>6, <1>7

LEMMA SplicedLinks ==
  ASSUME NEW a, NEW b, NEW c, NEW d, NEW m, NEW k, NEW e, NEW els,
         Spliced(a, b, c, d, m, k, e, els)
  PROVE  Distinct(c) /\ Distinct(d) /\ Range(c) = els \cup {e} /\ Range(d) = els \cup {e}
<1>1. /\ m \in Nat /\ k \in 1 .. m + 1 /\ c \in Seq(Nat) /\ Len(c) = m + 1 /\ c[m + 1] = e
      /\ d \in Seq(Nat) /\ Len(d) = m + 1
  BY DEF Spliced
<1>2. Distinct(c)
  <2>. SUFFICES ASSUME NEW i \in 1 .. m + 1, NEW j \in 1 .. m + 1, c[i] = c[j] PROVE i = j
    BY <1>1 DEF Distinct
  <2>1. CASE c[i] = e
    <3>1. i = m + 1
      BY <2>1, SplicedFacts
    <3>2. c[j] = e
      BY <2>1
    <3>3. j = m + 1
      BY <3>2, SplicedFacts
    <3>. QED BY <3>1, <3>3
  <2>2. CASE c[i] # e
    <3>1. i \in 1 .. m /\ j \in 1 .. m /\ a[i] = a[j]
      BY <2>2, SplicedFacts
    <3>. QED BY <3>1 DEF Spliced
  <2>. QED BY <2>1, <2>2
<1>3. Distinct(d)
  <2>. SUFFICES ASSUME NEW i \in 1 .. m + 1, NEW j \in 1 .. m + 1, d[i] = d[j] PROVE i = j
    BY <1>1 DEF Distinct
  <2>1. CASE i = k \/ j = k
    BY <2>1, SplicedFacts
  <2>2. CASE i # k /\ j # k
    <3>1. Was(i, k) \in 1 .. m /\ Was(j, k) \in 1 .. m /\ b[Was(i, k)] = b[Was(j, k)]
      BY <2>2, SplicedFacts
    <3>2. Was(i, k) = Was(j, k)
      BY <3>1 DEF Spliced
    <3>. QED BY <1>1, <2>2, <3>2, WasOnce
  <2>. QED BY <2>1, <2>2
<1>4. \A x : x \in Range(c) <=> x \in els \/ x = e
  <2>. SUFFICES ASSUME NEW x PROVE x \in Range(c) <=> x \in els \/ x = e
    OBVIOUS
  <2>1. x \in Range(c) <=> \E j \in 1 .. m + 1 : c[j] = x
    BY <1>1, RangeIs
  <2>2. \A j \in 1 .. m + 1 : c[j] = e \/ c[j] \in els
    <3>1. \A j \in 1 .. m : a[j] \in els
      BY DEF Spliced
    <3>. QED BY <3>1, SplicedFacts
  <2>3. \A y \in els : \E j \in 1 .. m + 1 : c[j] = y
    <3>1. \A y \in els : \E j \in 1 .. m : a[j] = y
      BY DEF Spliced
    <3>2. \A j \in 1 .. m : j \in 1 .. m + 1 /\ c[j] = a[j]
      BY <1>1 DEF Spliced
    <3>. QED BY <3>1, <3>2, Zenon
  <2>4. m + 1 \in 1 .. m + 1
    BY <1>1
  <2>. QED BY <1>1, <2>1, <2>2, <2>3, <2>4, Zenon
<1>5. \A x : x \in Range(d) <=> x \in els \/ x = e
  <2>. SUFFICES ASSUME NEW x PROVE x \in Range(d) <=> x \in els \/ x = e
    OBVIOUS
  <2>1. x \in Range(d) <=> \E j \in 1 .. m + 1 : d[j] = x
    BY <1>1, RangeIs
  <2>2. \A j \in 1 .. m + 1 : d[j] = e \/ d[j] \in els
    <3>1. \A j \in 1 .. m : b[j] \in els
      BY DEF Spliced
    <3>. QED BY <3>1, SplicedFacts
  <2>3. \A y \in els : \E j \in 1 .. m + 1 : d[j] = y
    <3>1. \A y \in els : \E j \in 1 .. m : b[j] = y
      BY DEF Spliced
    <3>2. ASSUME NEW j \in 1 .. m PROVE \E l \in 1 .. m + 1 : d[l] = b[j]
      <4>0. \A l \in 1 .. m + 1 :
              d[l] = IF l < k THEN b[l] ELSE IF l = k THEN e ELSE b[l - 1]
        BY DEF Spliced
      <4>1. CASE j < k
        <5>1. j \in 1 .. m + 1
          BY <1>1
        <5>. QED BY <4>0, <4>1, <5>1
      <4>2. CASE ~(j < k)
        <5>1. j + 1 \in 1 .. m + 1 /\ ~(j + 1 < k) /\ j + 1 # k /\ (j + 1) - 1 = j
          BY <1>1, <4>2
        <5>2. d[j + 1] = b[j]
          BY <4>0, <5>1
        <5>. QED BY <5>1, <5>2, Zenon
      <4>. QED BY <4>1, <4>2
    <3>. QED BY <3>1, <3>2, Zenon
  <2>4. d[k] = e
    BY SplicedFacts
  <2>. QED BY <1>1, <2>1, <2>2, <2>3, <2>4, Zenon
<1>6. Range(c) = els \cup {e} /\ Range(d) = els \cup {e}
  BY <1>4, <1>5
<1>. QED BY <1>2, <1>3, <1>6

LEMMA SplicedOrder ==
  ASSUME NEW a, NEW b, NEW c, NEW d, NEW m, NEW k, NEW e, NEW els, NEW hq,
         Spliced(a, b, c, d, m, k, e, els), Wide(hq, e) \in Nat,
         \A j \in 1 .. m : Wide(hq, b[j]) \in Nat,
         \A j \in 1 .. m : k <= j <=> Wide(hq, b[j]) > Wide(hq, e),
         \A i, j \in 1 .. m : i < j =>
           /\ Wide(hq, b[i]) <= Wide(hq, b[j])
           /\ Wide(hq, b[i]) = Wide(hq, b[j]) =>
                \A x, y \in 1 .. m : a[x] = b[i] /\ a[y] = b[j] => x < y
  PROVE  Ordered(hq, c, d)
<1>1. m \in Nat /\ k \in 1 .. m + 1 /\ Len(c) = m + 1 /\ Len(d) = m + 1
  BY DEF Spliced
<1>. SUFFICES ASSUME NEW i \in 1 .. m + 1, NEW j \in 1 .. m + 1, i < j
              PROVE  /\ Wide(hq, d[i]) <= Wide(hq, d[j])
                     /\ Wide(hq, d[i]) = Wide(hq, d[j]) =>
                          \A x, y \in 1 .. m + 1 : c[x] = d[i] /\ c[y] = d[j] => x < y
  BY <1>1 DEF Ordered
<1>2. d[k] = e
  BY SplicedFacts
<1>3. CASE i = k
  <2>1. j # k /\ Was(j, k) \in 1 .. m /\ d[j] = b[Was(j, k)]
    BY <1>3, SplicedFacts
  <2>2. k <= Was(j, k)
    BY <1>1, <1>3 DEF Was
  <2>3. Wide(hq, d[j]) > Wide(hq, e) /\ Wide(hq, d[j]) \in Nat
    BY <2>1, <2>2
  <2>. QED BY <1>2, <1>3, <2>3
<1>4. CASE j = k
  <2>1. i # k /\ Was(i, k) \in 1 .. m /\ d[i] = b[Was(i, k)] /\ d[i] # e
    BY <1>4, SplicedFacts
  <2>2. ~(k <= Was(i, k))
    BY <1>1, <1>4 DEF Was
  <2>3. ~(Wide(hq, d[i]) > Wide(hq, e)) /\ Wide(hq, d[i]) \in Nat
    BY <2>1, <2>2
  <2>4. ASSUME NEW x \in 1 .. m + 1, NEW y \in 1 .. m + 1, c[x] = d[i], c[y] = e PROVE x < y
    <3>1. y = m + 1 /\ x \in 1 .. m
      BY <2>1, <2>4, SplicedFacts
    <3>. QED BY <1>1, <3>1
  <2>. QED BY <1>2, <1>4, <2>3, <2>4
<1>5. CASE i # k /\ j # k
  <2>1. /\ Was(i, k) \in 1 .. m /\ Was(j, k) \in 1 .. m /\ d[i] = b[Was(i, k)]
        /\ d[j] = b[Was(j, k)] /\ d[i] # e /\ d[j] # e
    BY <1>5, SplicedFacts
  <2>2. Was(i, k) < Was(j, k)
    BY <1>1, <1>5 DEF Was
  <2>3. /\ Wide(hq, d[i]) <= Wide(hq, d[j])
        /\ Wide(hq, d[i]) = Wide(hq, d[j]) =>
             \A x, y \in 1 .. m : a[x] = d[i] /\ a[y] = d[j] => x < y
    BY <2>1, <2>2
  <2>4. \A x \in 1 .. m + 1 : c[x] # e => x \in 1 .. m /\ c[x] = a[x]
    BY SplicedFacts
  <2>. QED BY <2>1, <2>3, <2>4
<1>. QED BY <1>3, <1>4, <1>5

\* insert: the element e, new on the heap hq, is at the end of the list and
\* behind its equals in the set.
Inserted(hp, h, hq, g, e) ==
  /\ Linked(hp, h) /\ e \in Nat /\ e \notin Range(h.list)
  /\ e \in DOMAIN hq /\ hq[e] \in Elements /\ hq[e].alloc = h.alloc
  /\ \A x \in Range(h.list) : x \in DOMAIN hq /\ hq[x] = hp[x]
  /\ g.alloc = h.alloc /\ g.list = Append(h.list, e)
  /\ g.set = InsertAt(h.set, upper_bound(hp, h.set, hq[e].name), e)
  /\ g = [list |-> g.list, set |-> g.set, alloc |-> g.alloc]

LEMMA InsertedSplices ==
  ASSUME NEW hp, NEW h, NEW hq, NEW g, NEW e, Inserted(hp, h, hq, g, e)
  PROVE  LET k == upper_bound(hp, h.set, hq[e].name)
         IN  Spliced(h.list, h.set, g.list, g.set, Len(h.list), k, e, Range(h.list))
<1>1. Linked(hp, h) /\ e \in Nat /\ e \notin Range(h.list) /\ hq[e] \in Elements
  BY DEF Inserted
<1>2. PICK a, b, m, k : /\ a = h.list /\ b = h.set /\ m = Len(h.list)
                        /\ k = upper_bound(hp, h.set, hq[e].name)
  OBVIOUS
<1>3. PICK c, d : c = g.list /\ d = g.set
  OBVIOUS
<1>4. a \in Seq(Nat) /\ b \in Seq(Nat) /\ m = Len(a) /\ m = Len(b) /\ m \in Nat
  BY <1>1, <1>2, LinkedFacts
<1>5. k \in 1 .. m + 1
  <2>1. hq[e].name \in Names
    BY <1>1 DEF Elements
  <2>2. upper_bound(hp, h.set, hq[e].name) \in 1 .. Len(h.set) + 1
    BY <1>1, <2>1, Bounds
  <2>. QED BY <1>2, <1>4, <2>2
<1>6. c \in Seq(Nat) /\ Len(c) = m + 1 /\ c[m + 1] = e /\ \A j \in 1 .. m : c[j] = a[j]
  <2>1. c = Append(a, e)
    BY <1>2, <1>3 DEF Inserted
  <2>2. e \in Nat
    BY <1>1
  <2>3. /\ Append(a, e) \in Seq(Nat) /\ Len(Append(a, e)) = m + 1
        /\ Append(a, e)[m + 1] = e /\ \A j \in 1 .. m : Append(a, e)[j] = a[j]
    <3>1. PICK T : T = Nat
      OBVIOUS
    <3>2. a \in Seq(T) /\ e \in T /\ m = Len(a)
      BY <1>4, <2>2, <3>1, Zenon
    <3>3. /\ Append(a, e) \in Seq(T) /\ Len(Append(a, e)) = m + 1
          /\ Append(a, e)[m + 1] = e /\ \A j \in 1 .. m : Append(a, e)[j] = a[j]
      BY <3>2, AppendProperties
    <3>. QED BY <3>1, <3>3, Zenon
  <2>. QED BY <2>1, <2>3, Zenon
<1>7. /\ d \in Seq(Nat) /\ Len(d) = m + 1
      /\ \A j \in 1 .. m + 1 : d[j] = IF j < k THEN b[j] ELSE IF j = k THEN e ELSE b[j - 1]
  <2>1. d = InsertAt(b, k, e)
    BY <1>2, <1>3 DEF Inserted
  <2>2. e \in Nat /\ k \in 1 .. Len(b) + 1
    BY <1>1, <1>4, <1>5
  <2>3. /\ InsertAt(b, k, e) \in Seq(Nat) /\ Len(InsertAt(b, k, e)) = Len(b) + 1
        /\ \A j \in 1 .. Len(b) + 1 :
             InsertAt(b, k, e)[j] = IF j < k THEN b[j] ELSE IF j = k THEN e ELSE b[j - 1]
    <3>1. PICK T : T = Nat
      OBVIOUS
    <3>2. b \in Seq(T) /\ e \in T /\ k \in 1 .. Len(b) + 1
      BY <1>4, <2>2, <3>1, Zenon
    <3>3. InsertAt(b, k, e) \in Seq(T) /\ Len(InsertAt(b, k, e)) = Len(b) + 1
      BY <3>2, InsertAtIs
    <3>4. \A j \in 1 .. Len(b) + 1 :
            InsertAt(b, k, e)[j] = IF j < k THEN b[j] ELSE IF j = k THEN e ELSE b[j - 1]
      BY <3>2, InsertAtIs
    <3>. QED BY <3>1, <3>3, <3>4, Zenon
  <2>. QED BY <1>4, <2>1, <2>3, Zenon
<1>8. /\ \A j \in 1 .. m : a[j] \in Range(a) /\ b[j] \in Range(a)
      /\ \A x \in Range(a) : (\E j \in 1 .. m : a[j] = x) /\ (\E j \in 1 .. m : b[j] = x)
  <2>1. Len(h.set) = Len(h.list) /\ Len(h.list) = m
    BY <1>1, <1>2, LinkedFacts
  <2>2. /\ \A j \in 1 .. Len(h.list) : h.list[j] \in Range(h.list)
        /\ \A j \in 1 .. Len(h.set) : h.set[j] \in Range(h.list)
        /\ \A x \in Range(h.list) : \E j \in 1 .. Len(h.list) : h.list[j] = x
        /\ \A x \in Range(h.list) : \E j \in 1 .. Len(h.set) : h.set[j] = x
    BY <1>1, LinkedFacts, Zenon
  <2>3. /\ \A j \in 1 .. m : h.list[j] \in Range(h.list) /\ h.set[j] \in Range(h.list)
        /\ \A x \in Range(h.list) :
             (\E j \in 1 .. m : h.list[j] = x) /\ (\E j \in 1 .. m : h.set[j] = x)
    BY <2>1, <2>2, Zenon
  <2>. QED BY <1>2, <2>3, Zenon
<1>9. /\ \A i, j \in 1 .. m : a[i] = a[j] => i = j
      /\ \A i, j \in 1 .. m : b[i] = b[j] => i = j
  BY <1>1, <1>2, <1>4 DEF Linked, Distinct
<1>10. e \notin Range(a)
  BY <1>1, <1>2
<1>11. Spliced(a, b, c, d, m, k, e, Range(a))
  BY <1>4, <1>5, <1>6, <1>7, <1>8, <1>9, <1>10 DEF Spliced
<1>. QED BY <1>2, <1>3, <1>11, Zenon

LEMMA InsertLinked ==
  ASSUME NEW hp, NEW h, NEW hq, NEW g, NEW e, Inserted(hp, h, hq, g, e)
  PROVE  /\ Linked(hq, g) /\ Range(g.list) = Range(h.list) \cup {e}
         /\ FieldsOf(hq, g.list) = Append(FieldsOf(hp, h.list), Field(hq[e]))
<1>1. /\ Linked(hp, h) /\ e \in Nat /\ e \in DOMAIN hq /\ hq[e] \in Elements
      /\ hq[e].alloc = h.alloc /\ g.alloc = h.alloc
      /\ \A x \in Range(h.list) : x \in DOMAIN hq /\ hq[x] = hp[x]
      /\ g = [list |-> g.list, set |-> g.set, alloc |-> g.alloc]
  BY DEF Inserted
<1>2. PICK a, b, m, k : /\ a = h.list /\ b = h.set /\ m = Len(h.list)
                        /\ k = upper_bound(hp, h.set, hq[e].name)
  OBVIOUS
<1>3. PICK c, d : c = g.list /\ d = g.set
  OBVIOUS
<1>4. Spliced(a, b, c, d, m, k, e, Range(a))
  BY <1>2, <1>3, InsertedSplices
<1>5. a \in Seq(Nat) /\ b \in Seq(Nat) /\ m = Len(a) /\ m = Len(b) /\ m \in Nat
  BY <1>1, <1>2, LinkedFacts
<1>6. Distinct(c) /\ Distinct(d) /\ Range(c) = Range(a) \cup {e} /\ Range(d) = Range(a) \cup {e}
  BY <1>4, SplicedLinks
<1>7. \A x \in Range(c) : x \in DOMAIN hq /\ hq[x] \in Elements /\ hq[x].alloc = g.alloc
  <2>1. \A x \in Range(a) : hp[x] \in Elements /\ hp[x].alloc = h.alloc
    BY <1>1, <1>2 DEF Linked
  <2>2. \A x \in Range(a) : x \in DOMAIN hq /\ hq[x] = hp[x]
    BY <1>1, <1>2
  <2>. QED BY <1>1, <1>6, <2>1, <2>2
<1>8. /\ \A j \in 1 .. m : a[j] \in Range(a) /\ b[j] \in Range(a)
      /\ \A j \in 1 .. m : hq[a[j]] = hp[a[j]] /\ hq[b[j]] = hp[b[j]]
  <2>1. \A j \in 1 .. m : a[j] \in Range(a) /\ b[j] \in Range(a)
    BY <1>4 DEF Spliced
  <2>. QED BY <1>1, <1>2, <2>1
<1>9. Ordered(hq, c, d)
  <2>1. hq[e].name \in Names
    BY <1>1 DEF Elements
  <2>2. Wide(hq, e) \in Nat
    BY <2>1, NamesAre DEF Wide
  <2>3. \A j \in 1 .. m : Wide(hq, b[j]) = Wide(hp, b[j])
    BY <1>8 DEF Wide
  <2>4. \A j \in 1 .. m : Wide(hp, b[j]) \in Nat
    <3>1. \A x \in Range(a) : Wide(hp, x) \in Nat
      BY <1>1, <1>2, LinkedFacts
    <3>. QED BY <1>8, <3>1
  <2>5. \A j \in 1 .. m : k <= j <=> Wide(hp, b[j]) > Wide(hq, e)
    <3>1. LET ub == upper_bound(hp, h.set, hq[e].name)
          IN  \A j \in 1 .. Len(h.set) : ub <= j <=> Wide(hp, h.set[j]) > Len(hq[e].name)
      BY <1>1, <2>1, Bounds
    <3>2. \A j \in 1 .. m : k <= j <=> Wide(hp, b[j]) > Len(hq[e].name)
      BY <1>2, <1>5, <3>1
    <3>. QED BY <3>2, Zenon DEF Wide
  <2>6. \A i, j \in 1 .. m : i < j =>
          /\ Wide(hp, b[i]) <= Wide(hp, b[j])
          /\ Wide(hp, b[i]) = Wide(hp, b[j]) =>
               \A x, y \in 1 .. m : a[x] = b[i] /\ a[y] = b[j] => x < y
    <3>1. Ordered(hp, a, b)
      BY <1>1, <1>2 DEF Linked
    <3>. QED BY <1>5, <3>1 DEF Ordered
  <2>7. /\ \A j \in 1 .. m : Wide(hq, b[j]) \in Nat
        /\ \A j \in 1 .. m : k <= j <=> Wide(hq, b[j]) > Wide(hq, e)
    BY <2>3, <2>4, <2>5
  <2>8. \A i, j \in 1 .. m : i < j =>
          /\ Wide(hq, b[i]) <= Wide(hq, b[j])
          /\ Wide(hq, b[i]) = Wide(hq, b[j]) =>
               \A x, y \in 1 .. m : a[x] = b[i] /\ a[y] = b[j] => x < y
    BY <2>3, <2>6
  <2>. QED BY <1>4, <2>2, <2>7, <2>8, SplicedOrder
<1>10. Linked(hq, g)
  <2>1. c \in Seq(Nat) /\ d \in Seq(Nat) /\ h.alloc \in Both
    BY <1>1, <1>4, LinkedFacts DEF Spliced
  <2>2. g \in Containers
    BY <1>1, <1>3, <2>1 DEF Containers
  <2>3. Range(d) = Range(c)
    BY <1>6
  <2>. QED BY <1>3, <1>6, <1>7, <1>9, <2>2, <2>3 DEF Linked
<1>11. FieldsOf(hq, c) = Append(FieldsOf(hp, a), Field(hq[e]))
  <2>0. Len(c) = m + 1 /\ c[m + 1] = e /\ \A j \in 1 .. m : c[j] = a[j]
    BY <1>4 DEF Spliced
  <2>1. PICK fs, f : fs = FieldsOf(hp, a) /\ f = Field(hq[e])
    OBVIOUS
  <2>2. PICK T : T = {fs[j] : j \in 1 .. m} \cup {f}
    OBVIOUS
  <2>3. fs = [j \in 1 .. m |-> Field(hp[a[j]])]
    BY <1>5, <2>1, Zenon DEF FieldsOf, Field
  <2>4. fs \in Seq(T) /\ Len(fs) = m /\ f \in T
    <3>1. \A j \in 1 .. m : fs[j] \in T
      BY <2>2
    <3>2. f \in T
      BY <2>2
    <3>. HIDE <2>2
    <3>. QED BY <1>5, <2>3, <3>1, <3>2
  <2>5. PICK u : u = Append(fs, f)
    OBVIOUS
  <2>6. u \in Seq(T) /\ Len(u) = m + 1 /\ u[m + 1] = f /\ \A j \in 1 .. m : u[j] = fs[j]
    BY <2>4, <2>5
  <2>7. PICK v : v = FieldsOf(hq, c)
    OBVIOUS
  <2>8. v = [j \in 1 .. m + 1 |-> Field(hq[c[j]])]
    BY <2>0, <2>7, Zenon DEF FieldsOf, Field
  <2>9. \A j \in 1 .. m + 1 : v[j] = u[j]
    <3>1. \A j \in 1 .. m : Field(hq[c[j]]) = Field(hp[a[j]])
      BY <1>8, <2>0, Zenon
    <3>2. \A j \in 1 .. m + 1 : j = m + 1 \/ j \in 1 .. m
      BY <1>5
    <3>3. m + 1 \in 1 .. m + 1 /\ \A j \in 1 .. m : j \in 1 .. m + 1
      BY <1>5
    <3>4. v[m + 1] = u[m + 1]
      <4>1. v[m + 1] = Field(hq[c[m + 1]])
        BY <2>8, <3>3, Zenon
      <4>. QED BY <2>0, <2>1, <2>6, <4>1, Zenon
    <3>5. \A j \in 1 .. m : v[j] = u[j]
      <4>. SUFFICES ASSUME NEW j \in 1 .. m PROVE v[j] = u[j]
        OBVIOUS
      <4>1. v[j] = Field(hq[c[j]])
        BY <2>8, <3>3, Zenon
      <4>2. fs[j] = Field(hp[a[j]])
        BY <2>3, Zenon
      <4>. QED BY <2>6, <3>1, <4>1, <4>2, Zenon
    <3>. QED BY <3>2, <3>4, <3>5, Zenon
  <2>10. u = [j \in 1 .. m + 1 |-> u[j]]
    BY <2>6
  <2>11. v = u
    BY <2>8, <2>9, <2>10, Zenon
  <2>. QED BY <2>1, <2>5, <2>7, <2>11, Zenon
<1>. QED BY <1>2, <1>3, <1>6, <1>10, <1>11, Zenon

\* t is what s has at the positions p, without the elements that are gone.
Thinned(s, t, p, gone) ==
  /\ s \in Seq(Nat) /\ t \in Seq(Nat) /\ p \in [1 .. Len(t) -> 1 .. Len(s)]
  /\ \A i, j \in 1 .. Len(t) : i < j => p[i] < p[j]
  /\ \A k \in 1 .. Len(t) : t[k] = s[p[k]] /\ t[k] \notin gone
  /\ \A j \in 1 .. Len(s) : s[j] \notin gone => \E k \in 1 .. Len(t) : p[k] = j

LEMMA WithoutIs ==
  ASSUME NEW s \in Seq(Nat), NEW gone
  PROVE  LET ks == {k \in 1 .. Len(s) : s[k] \notin gone}
         IN  /\ Without(s, gone) = Only(s, ks)
             /\ Thinned(s, Without(s, gone), InOrder(ks), gone)
<1>1. PICK n, ks : n = Len(s) /\ ks = {k \in 1 .. Len(s) : s[k] \notin gone}
  OBVIOUS
<1>2. n \in Nat /\ DOMAIN s = 1 .. n
  BY <1>1
<1>3. ks \in SUBSET (1 .. n) /\ ks \in SUBSET (1 .. Len(s))
  BY <1>1
<1>4. PICK t, p, c : t = Only(s, ks) /\ p = InOrder(ks) /\ c = Cardinality(ks)
  OBVIOUS
<1>5. Without(s, gone) = t
  BY <1>1, <1>2, <1>4, Zenon DEF Without
<1>6. /\ c \in Nat /\ Ascending(p, c, ks)
      /\ \A k \in ks : \E i \in 1 .. c : p[i] = k
  BY <1>2, <1>3, <1>4, InOrderIs
<1>7. t \in Seq(Nat) /\ Len(t) = c /\ \A k \in 1 .. c : p[k] \in ks /\ t[k] = s[p[k]]
  BY <1>3, <1>4, OnlyIs
<1>8. \A k \in ks : k \in 1 .. n /\ s[k] \notin gone
  BY <1>1
<1>9. \A j \in 1 .. n : s[j] \notin gone => j \in ks
  BY <1>1
<1>10. p \in [1 .. c -> 1 .. n] /\ \A i, j \in 1 .. c : i < j => p[i] < p[j]
  <2>1. p \in [1 .. c -> ks] /\ \A i, j \in 1 .. c : i < j => p[i] < p[j]
    BY <1>6, Zenon DEF Ascending
  <2>. QED BY <1>8, <2>1
<1>11. \A k \in 1 .. c : t[k] = s[p[k]] /\ t[k] \notin gone
  BY <1>7, <1>8
<1>12. Thinned(s, t, p, gone)
  BY <1>1, <1>6, <1>7, <1>9, <1>10, <1>11, Zenon DEF Thinned
<1>. QED BY <1>1, <1>4, <1>5, <1>12, Zenon

LEMMA ThinnedLinks ==
  ASSUME NEW s, NEW t, NEW p, NEW gone, Thinned(s, t, p, gone)
  PROVE  Range(t) = Range(s) \ gone /\ (Distinct(s) => Distinct(t))
<1>1. /\ s \in Seq(Nat) /\ t \in Seq(Nat) /\ p \in [1 .. Len(t) -> 1 .. Len(s)]
      /\ \A k \in 1 .. Len(t) : t[k] = s[p[k]] /\ t[k] \notin gone
      /\ \A j \in 1 .. Len(s) : s[j] \notin gone => \E k \in 1 .. Len(t) : p[k] = j
  BY DEF Thinned
<1>2. \A k \in 1 .. Len(t) : p[k] \in 1 .. Len(s)
  BY <1>1
<1>3. \A e : e \in Range(t) <=> e \in Range(s) /\ e \notin gone
  <2>1. \A e : e \in Range(t) <=> \E k \in 1 .. Len(t) : t[k] = e
    <3>1. t \in Seq(Nat)
      BY <1>1
    <3>. QED BY <3>1, RangeIs
  <2>2. \A e : e \in Range(s) <=> \E k \in 1 .. Len(s) : s[k] = e
    <3>1. s \in Seq(Nat)
      BY <1>1
    <3>. QED BY <3>1, RangeIs
  <2>3. ASSUME NEW e, e \in Range(t) PROVE e \in Range(s) /\ e \notin gone
    <3>1. PICK k \in 1 .. Len(t) : t[k] = e
      BY <2>1, <2>3
    <3>. QED BY <1>1, <1>2, <2>2, <3>1, Zenon
  <2>4. ASSUME NEW e, e \in Range(s), e \notin gone PROVE e \in Range(t)
    <3>1. PICK j \in 1 .. Len(s) : s[j] = e
      BY <2>2, <2>4
    <3>2. PICK k \in 1 .. Len(t) : p[k] = j
      BY <1>1, <2>4, <3>1, Zenon
    <3>3. t[k] = e
      BY <1>1, <3>1, <3>2, Zenon
    <3>. QED BY <2>1, <3>3, Zenon
  <2>. QED BY <2>3, <2>4, Zenon
<1>4. Range(t) = Range(s) \ gone
  BY <1>3, Zenon
<1>5. ASSUME Distinct(s) PROVE Distinct(t)
  <2>. SUFFICES ASSUME NEW i \in 1 .. Len(t), NEW j \in 1 .. Len(t), t[i] = t[j] PROVE i = j
    BY DEF Distinct
  <2>1. p[i] \in 1 .. Len(s) /\ p[j] \in 1 .. Len(s) /\ s[p[i]] = s[p[j]]
    BY <1>1, <1>2, Zenon
  <2>2. p[i] = p[j]
    BY <1>5, <2>1, Zenon DEF Distinct
  <2>3. (i < j => p[i] < p[j]) /\ (j < i => p[j] < p[i])
    BY Zenon DEF Thinned
  <2>4. PICK u, v : u = p[i] /\ v = p[j]
    OBVIOUS
  <2>5. u \in Int /\ u = v /\ (i < j => u < v) /\ (j < i => v < u)
    BY <2>1, <2>2, <2>3, <2>4
  <2>6. i \in Int /\ j \in Int
    OBVIOUS
  <2>7. ~(i < j) /\ ~(j < i)
    BY <2>5
  <2>. QED BY <2>6, <2>7
<1>. QED BY <1>4, <1>5

LEMMA ThinnedOrder ==
  ASSUME NEW hp, NEW a, NEW b, NEW c, NEW d, NEW p, NEW q, NEW gone,
         Ordered(hp, a, b), Thinned(a, c, p, gone), Thinned(b, d, q, gone)
  PROVE  Ordered(hp, c, d)
<1>1. /\ \A k \in 1 .. Len(c) : p[k] \in 1 .. Len(a) /\ c[k] = a[p[k]]
      /\ \A i, j \in 1 .. Len(c) : i < j => p[i] < p[j]
  BY DEF Thinned
<1>2. /\ \A k \in 1 .. Len(d) : q[k] \in 1 .. Len(b) /\ d[k] = b[q[k]]
      /\ \A i, j \in 1 .. Len(d) : i < j => q[i] < q[j]
  BY DEF Thinned
<1>. SUFFICES ASSUME NEW k \in 1 .. Len(d), NEW l \in 1 .. Len(d), k < l
              PROVE  /\ Wide(hp, d[k]) <= Wide(hp, d[l])
                     /\ Wide(hp, d[k]) = Wide(hp, d[l]) =>
                          \A i, j \in 1 .. Len(c) : c[i] = d[k] /\ c[j] = d[l] => i < j
  BY Zenon DEF Ordered
<1>3. PICK u, v : u = q[k] /\ v = q[l]
  OBVIOUS
<1>4. u \in 1 .. Len(b) /\ v \in 1 .. Len(b) /\ u < v /\ d[k] = b[u] /\ d[l] = b[v]
  BY <1>2, <1>3, Zenon
<1>5. /\ Wide(hp, d[k]) <= Wide(hp, d[l])
      /\ Wide(hp, d[k]) = Wide(hp, d[l]) =>
           \A i, j \in 1 .. Len(a) : a[i] = d[k] /\ a[j] = d[l] => i < j
  BY <1>4, Zenon DEF Ordered
<1>6. ASSUME Wide(hp, d[k]) = Wide(hp, d[l]), NEW i \in 1 .. Len(c), NEW j \in 1 .. Len(c),
             c[i] = d[k], c[j] = d[l]
      PROVE  i < j
  <2>1. PICK x, y : x = p[i] /\ y = p[j]
    OBVIOUS
  <2>2. x \in 1 .. Len(a) /\ y \in 1 .. Len(a) /\ a[x] = d[k] /\ a[y] = d[l]
    BY <1>1, <1>6, <2>1, Zenon
  <2>3. x < y
    BY <1>5, <1>6, <2>2, Zenon
  <2>4. (j < i => y < x) /\ (i = j => x = y)
    BY <1>1, <2>1, Zenon
  <2>5. x \in Int /\ y \in Int
    BY <2>2
  <2>6. ~(j < i) /\ i # j
    BY <2>3, <2>4, <2>5
  <2>7. i \in Int /\ j \in Int
    OBVIOUS
  <2>. QED BY <2>6, <2>7
<1>. QED BY <1>5, <1>6

\* erase and clear: what is gone leaves the list and the set.
Dropped(h, gone, g) ==
  g = [list |-> Without(h.list, gone), set |-> Without(h.set, gone), alloc |-> h.alloc]

Leaves(hp, h, gone, g) ==
  /\ Linked(hp, g) /\ Range(g.list) = Range(h.list) \ gone
  /\ FieldsOf(hp, g.list) =
       Only(FieldsOf(hp, h.list), {k \in 1 .. Len(h.list) : h.list[k] \notin gone})

LEMMA DropLinked ==
  ASSUME NEW hp, NEW h, Linked(hp, h), NEW gone, NEW g, Dropped(h, gone, g)
  PROVE  Leaves(hp, h, gone, g)
<1>1. PICK a, b : a = h.list /\ b = h.set
  OBVIOUS
<1>2. a \in Seq(Nat) /\ b \in Seq(Nat) /\ h.alloc \in Both
  BY <1>1, LinkedFacts
<1>3. PICK c, d : c = Without(a, gone) /\ d = Without(b, gone)
  OBVIOUS
<1>4. g.list = c /\ g.set = d /\ g.alloc = h.alloc /\ g = [list |-> c, set |-> d, alloc |-> h.alloc]
  BY <1>1, <1>3 DEF Dropped
<1>5. PICK p : Thinned(a, c, p, gone)
  BY <1>2, <1>3, WithoutIs
<1>6. PICK q : Thinned(b, d, q, gone)
  BY <1>2, <1>3, WithoutIs
<1>7. /\ Distinct(a) /\ Distinct(b) /\ Range(b) = Range(a) /\ Ordered(hp, a, b)
      /\ \A e \in Range(a) : e \in DOMAIN hp /\ hp[e] \in Elements /\ hp[e].alloc = h.alloc
  BY <1>1 DEF Linked
<1>8. /\ Range(c) = Range(a) \ gone /\ Range(d) = Range(b) \ gone
      /\ Distinct(c) /\ Distinct(d)
  BY <1>5, <1>6, <1>7, ThinnedLinks
<1>9. Ordered(hp, c, d)
  BY <1>5, <1>6, <1>7, ThinnedOrder
<1>10. g \in Containers
  <2>1. c \in Seq(Nat) /\ d \in Seq(Nat)
    BY <1>5, <1>6 DEF Thinned
  <2>2. g = [list |-> c, set |-> d, alloc |-> h.alloc]
    BY <1>4
  <2>. QED BY <1>2, <2>1, <2>2 DEF Containers
<1>11. Linked(hp, g)
  <2>1. Range(d) = Range(c)
    BY <1>7, <1>8
  <2>2. \A e \in Range(c) : e \in DOMAIN hp /\ hp[e] \in Elements /\ hp[e].alloc = g.alloc
    BY <1>4, <1>7, <1>8
  <2>. QED BY <1>4, <1>8, <1>9, <1>10, <2>1, <2>2, Zenon DEF Linked
<1>12. FieldsOf(hp, c) = Only(FieldsOf(hp, a), {k \in 1 .. Len(a) : a[k] \notin gone})
  <2>1. PICK ks, r, n : /\ ks = {k \in 1 .. Len(a) : a[k] \notin gone}
                        /\ r = InOrder(ks) /\ n = Cardinality(ks)
    OBVIOUS
  <2>2. ks \in SUBSET (1 .. Len(a)) /\ c = Only(a, ks)
    BY <1>2, <1>3, <2>1, WithoutIs
  <2>3. Len(c) = n /\ \A k \in 1 .. n : r[k] \in ks /\ c[k] = a[r[k]]
    <3>1. a \in Seq(Nat)
      BY <1>2
    <3>2. /\ Len(Only(a, ks)) = Cardinality(ks)
          /\ \A k \in 1 .. Cardinality(ks) :
               InOrder(ks)[k] \in ks /\ Only(a, ks)[k] = a[InOrder(ks)[k]]
      BY <2>2, <3>1, OnlyIs, Zenon
    <3>. QED BY <2>1, <2>2, <3>2, Zenon
  <2>4. FieldsOf(hp, c) = [k \in 1 .. n |-> Field(hp[c[k]])]
    BY <2>3, Zenon DEF FieldsOf, Field
  <2>5. PICK fs : fs = FieldsOf(hp, a)
    OBVIOUS
  <2>6. \A k \in 1 .. Len(a) : fs[k] = Field(hp[a[k]])
    BY <2>5, Zenon DEF FieldsOf, Field
  <2>7. Only(fs, ks) = [k \in 1 .. n |-> fs[r[k]]]
    BY <2>1, Zenon DEF Only
  <2>8. ASSUME NEW k \in 1 .. n PROVE fs[r[k]] = Field(hp[c[k]])
    <3>1. r[k] \in 1 .. Len(a) /\ c[k] = a[r[k]]
      BY <2>2, <2>3
    <3>2. fs[r[k]] = Field(hp[a[r[k]]])
      BY <2>6, <3>1, Zenon
    <3>. QED BY <3>1, <3>2, Zenon
  <2>9. [k \in 1 .. n |-> fs[r[k]]] = [k \in 1 .. n |-> Field(hp[c[k]])]
    BY <2>8, Zenon
  <2>. QED BY <2>1, <2>4, <2>5, <2>7, <2>9, Zenon
<1>. QED BY <1>1, <1>4, <1>8, <1>11, <1>12, Zenon DEF Leaves

\* The elements erase, count and find are about: the ones with a name of the
\* same length, next to each other in the set.
MatchesOf(hp, a, b, w, ms, lb) ==
  /\ ms \in Seq(Nat) /\ lb \in Nat
  /\ \A e : e \in Range(ms) <=> e \in Range(a) /\ Wide(hp, e) = w
  /\ \A k \in 1 .. Len(ms) : lb + k - 1 \in 1 .. Len(b) /\ ms[k] = b[lb + k - 1]

LEMMA MatchingIs ==
  ASSUME NEW hp, NEW h, Linked(hp, h), NEW name \in Names
  PROVE  MatchesOf(hp, h.list, h.set, Len(name), Matching(hp, h, name),
                 lower_bound(hp, h.set, name))
<1>1. PICK b, n, w : b = h.set /\ n = Len(h.set) /\ w = Len(name)
  OBVIOUS
<1>2. b \in Seq(Nat) /\ n = Len(b) /\ n \in Nat
  BY <1>1, LinkedFacts
<1>3. PICK lb, ub : lb = lower_bound(hp, h.set, name) /\ ub = upper_bound(hp, h.set, name)
  OBVIOUS
<1>4. /\ lb \in 1 .. n + 1 /\ ub \in 1 .. n + 1 /\ lb <= ub
      /\ \A k \in 1 .. n : lb <= k <=> Wide(hp, b[k]) >= w
      /\ \A k \in 1 .. n : ub <= k <=> Wide(hp, b[k]) > w
  BY <1>1, <1>3, Bounds
<1>5. PICK ms : ms = Matching(hp, h, name)
  OBVIOUS
<1>6. ms = SubSeq(b, lb, ub - 1)
  BY <1>1, <1>3, <1>5, Zenon DEF Matching
<1>7. /\ ms \in Seq(Nat) /\ Len(ms) = ub - lb
      /\ \A k \in 1 .. ub - lb : lb + k - 1 \in 1 .. n /\ ms[k] = b[lb + k - 1]
  <2>1. lb \in Int /\ ub - 1 \in Int /\ \A i \in lb .. ub - 1 : i \in 1 .. n
    BY <1>2, <1>4
  <2>2. \A i \in lb .. ub - 1 : b[i] \in Nat
    BY <1>2, <2>1
  <2>3. /\ SubSeq(b, lb, ub - 1) \in Seq(Nat)
        /\ Len(SubSeq(b, lb, ub - 1)) = IF lb <= ub - 1 THEN (ub - 1) - lb + 1 ELSE 0
        /\ \A i \in 1 .. (ub - 1) - lb + 1 : SubSeq(b, lb, ub - 1)[i] = b[lb + i - 1]
    BY <2>1, <2>2, SubSeqProperties
  <2>4. ub - lb = (ub - 1) - lb + 1 /\ (~(lb <= ub - 1) => ub - lb = 0)
    BY <1>4
  <2>5. \A k \in 1 .. ub - lb : lb + k - 1 \in 1 .. n
    BY <1>2, <1>4
  <2>6. /\ SubSeq(b, lb, ub - 1) \in Seq(Nat) /\ Len(SubSeq(b, lb, ub - 1)) = ub - lb
        /\ \A k \in 1 .. ub - lb : SubSeq(b, lb, ub - 1)[k] = b[lb + k - 1]
    BY <2>3, <2>4
  <2>. QED BY <1>6, <2>5, <2>6, Zenon
<1>8. \A k \in 1 .. n : b[k] \in Range(h.list) /\ Wide(hp, b[k]) \in Nat
  BY <1>1, LinkedFacts
<1>9. w \in Nat
  BY <1>1, NamesAre
<1>10. \A k \in 1 .. n : (lb <= k /\ k < ub) <=> Wide(hp, b[k]) = w
  <2>. SUFFICES ASSUME NEW k \in 1 .. n PROVE (lb <= k /\ k < ub) <=> Wide(hp, b[k]) = w
    OBVIOUS
  <2>1. PICK x : x = Wide(hp, b[k])
    OBVIOUS
  <2>2. x \in Nat /\ (lb <= k <=> x >= w) /\ (ub <= k <=> x > w)
    BY <1>4, <1>8, <2>1, Zenon
  <2>3. (lb <= k /\ k < ub) <=> x = w
    BY <1>2, <1>4, <1>9, <2>2
  <2>. QED BY <2>1, <2>3, Zenon
<1>11. ASSUME NEW e PROVE e \in Range(ms) <=> e \in Range(h.list) /\ Wide(hp, e) = w
  <2>1. e \in Range(ms) <=> \E k \in 1 .. Len(ms) : ms[k] = e
    BY <1>7, RangeIs
  <2>2. ASSUME NEW k \in 1 .. Len(ms), ms[k] = e
        PROVE  e \in Range(h.list) /\ Wide(hp, e) = w
    <3>1. PICK j : j = lb + k - 1
      OBVIOUS
    <3>2. j \in 1 .. n /\ e = b[j]
      BY <1>7, <2>2, <3>1
    <3>3. lb <= j /\ j < ub
      BY <1>4, <1>7, <2>2, <3>1
    <3>. QED BY <1>8, <1>10, <3>2, <3>3, Zenon
  <2>3. ASSUME e \in Range(h.list), Wide(hp, e) = w PROVE \E k \in 1 .. Len(ms) : ms[k] = e
    <3>0. \E j \in 1 .. Len(h.set) : h.set[j] = e
      BY <2>3, SetHolds
    <3>1. PICK j \in 1 .. n : b[j] = e
      BY <1>1, <3>0, Zenon
    <3>2. lb <= j /\ j < ub
      BY <1>10, <2>3, <3>1, Zenon
    <3>3. PICK k : k = (j - lb) + 1
      OBVIOUS
    <3>4. k \in 1 .. ub - lb /\ lb + k - 1 = j
      BY <1>2, <1>4, <3>1, <3>2, <3>3
    <3>5. k \in 1 .. Len(ms) /\ ms[k] = e
      BY <1>7, <3>1, <3>4, Zenon
    <3>. QED BY <3>5, Zenon
  <2>. QED BY <2>1, <2>2, <2>3, Zenon
<1>12. lb \in Nat
  BY <1>4
<1>13. \A e : e \in Range(ms) <=> e \in Range(h.list) /\ Wide(hp, e) = w
  BY <1>11
<1>14. \A k \in 1 .. Len(ms) : lb + k - 1 \in 1 .. Len(b) /\ ms[k] = b[lb + k - 1]
  BY <1>2, <1>7, Zenon
<1>15. MatchesOf(hp, h.list, b, w, ms, lb)
  BY <1>7, <1>12, <1>13, <1>14, Zenon DEF MatchesOf
<1>. QED BY <1>1, <1>3, <1>5, <1>15, Zenon

LEMMA FieldNames ==
  ASSUME NEW hp, NEW h, Linked(hp, h), NEW name \in Names
  PROVE  LET fs == FieldsOf(hp, h.list)
         IN  /\ DOMAIN fs = 1 .. Len(h.list)
             /\ \A k \in 1 .. Len(h.list) :
                  /\ fs[k] = Field(hp[h.list[k]]) /\ fs[k].name \in Names
                  /\ ci_equal(fs[k].name, name) <=> Wide(hp, h.list[k]) = Len(name)
<1>1. PICK a, fs : a = h.list /\ fs = FieldsOf(hp, h.list)
  OBVIOUS
<1>2. fs = [k \in 1 .. Len(a) |-> Field(hp[a[k]])]
  BY <1>1, Zenon DEF FieldsOf, Field
<1>3. ASSUME NEW k \in 1 .. Len(a)
      PROVE  /\ fs[k] = Field(hp[a[k]]) /\ fs[k].name \in Names
             /\ ci_equal(fs[k].name, name) <=> Wide(hp, a[k]) = Len(name)
  <2>1. fs[k] = Field(hp[a[k]])
    BY <1>2, Zenon
  <2>2. a[k] \in Range(h.list)
    BY <1>1, LinkedFacts
  <2>3. hp[a[k]].name \in Names
    BY <2>2, LinkedFacts
  <2>4. fs[k].name = hp[a[k]].name
    BY <2>1 DEF Field
  <2>5. ci_equal(hp[a[k]].name, name) <=> Len(hp[a[k]].name) = Len(name)
    BY <2>3, SameName
  <2>. QED BY <2>1, <2>3, <2>4, <2>5, Zenon DEF Wide
<1>4. DOMAIN fs = 1 .. Len(a)
  BY <1>2
<1>. QED BY <1>1, <1>3, <1>4, Zenon

\* What erase leaves is what the reference has of other names.
LEMMA OthersIs ==
  ASSUME NEW hp, NEW h, Linked(hp, h), NEW name \in Names
  PROVE  LET gone == Range(Matching(hp, h, name))
         IN  /\ gone \subseteq Range(h.list)
             /\ Others(FieldsOf(hp, h.list), name) =
                  Only(FieldsOf(hp, h.list), {k \in 1 .. Len(h.list) : h.list[k] \notin gone})
<1>1. PICK a, fs, gone : /\ a = h.list /\ fs = FieldsOf(hp, h.list)
                         /\ gone = Range(Matching(hp, h, name))
  OBVIOUS
<1>2. \A e : e \in gone <=> e \in Range(h.list) /\ Wide(hp, e) = Len(name)
  <2>1. MatchesOf(hp, h.list, h.set, Len(name), Matching(hp, h, name), lower_bound(hp, h.set, name))
    BY MatchingIs
  <2>. QED BY <1>1, <2>1, Zenon DEF MatchesOf
<1>3. gone \subseteq Range(h.list)
  BY <1>2, Zenon
<1>4. DOMAIN fs = 1 .. Len(a)
  BY <1>1, FieldNames
<1>5. \A k \in 1 .. Len(a) : ci_equal(fs[k].name, name) <=> a[k] \in gone
  <2>. SUFFICES ASSUME NEW k \in 1 .. Len(a) PROVE ci_equal(fs[k].name, name) <=> a[k] \in gone
    OBVIOUS
  <2>1. ci_equal(fs[k].name, name) <=> Wide(hp, a[k]) = Len(name)
    BY <1>1, FieldNames
  <2>2. a[k] \in Range(h.list)
    BY <1>1, LinkedFacts
  <2>. QED BY <1>2, <2>1, <2>2, Zenon
<1>6. {k \in DOMAIN fs : ~ci_equal(fs[k].name, name)} = {k \in 1 .. Len(a) : a[k] \notin gone}
  BY <1>4, <1>5, Zenon
<1>7. Others(fs, name) = Only(fs, {k \in 1 .. Len(a) : a[k] \notin gone})
  BY <1>6, Zenon DEF Others
<1>. QED BY <1>1, <1>3, <1>7, Zenon

\* count() is the number of fields with the name, find() the first of them.
Counts(hp, h, name) ==
  LET ms == Matching(hp, h, name)
      fs == FieldsOf(hp, h.list)
      ns == Only(fs, {k \in DOMAIN fs : ci_equal(fs[k].name, name)})
  IN  /\ Len(ms) \in Nat /\ Len(ns) = Len(ms)
      /\ ns = [k \in 1 .. Len(ms) |-> ns[k]]
      /\ Len(ms) > 0 => ns[1] = Field(hp[ms[1]])

LEMMA MatchingCounts ==
  ASSUME NEW hp, NEW h, Linked(hp, h), NEW name \in Names
  PROVE  Counts(hp, h, name)
<1>1. PICK a, b, m, fs : a = h.list /\ b = h.set /\ m = Len(h.list) /\ fs = FieldsOf(hp, h.list)
  OBVIOUS
<1>2. PICK ms, w, lb : /\ ms = Matching(hp, h, name) /\ w = Len(name)
                       /\ lb = lower_bound(hp, h.set, name)
  OBVIOUS
<1>3. PICK ks : ks = {k \in DOMAIN fs : ci_equal(fs[k].name, name)}
  OBVIOUS
<1>4. a \in Seq(Nat) /\ b \in Seq(Nat) /\ m = Len(a) /\ m = Len(b) /\ m \in Nat
  BY <1>1, LinkedFacts
<1>5. /\ ms \in Seq(Nat) /\ lb \in Nat
      /\ \A e : e \in Range(ms) <=> e \in Range(a) /\ Wide(hp, e) = w
      /\ \A k \in 1 .. Len(ms) : lb + k - 1 \in 1 .. m /\ ms[k] = b[lb + k - 1]
  <2>1. MatchesOf(hp, a, b, w, ms, lb)
    BY <1>1, <1>2, MatchingIs
  <2>. QED BY <1>4, <2>1, Zenon DEF MatchesOf
<1>6. Len(ms) \in Nat
  BY <1>5
<1>7. /\ DOMAIN fs = 1 .. m
      /\ \A k \in 1 .. m : /\ fs[k] = Field(hp[a[k]])
                           /\ ci_equal(fs[k].name, name) <=> Wide(hp, a[k]) = w
  BY <1>1, <1>2, FieldNames
<1>8. ks \in SUBSET (1 .. m) /\ \A k : k \in ks <=> k \in 1 .. m /\ Wide(hp, a[k]) = w
  BY <1>3, <1>7
<1>9. /\ \A k \in 1 .. m : a[k] \in Range(a)
      /\ \A e \in Range(a) : \E k \in 1 .. m : a[k] = e
      /\ \A i, j \in 1 .. m : a[i] = a[j] => i = j
  <2>1. /\ \A k \in 1 .. Len(h.list) : h.list[k] \in Range(h.list)
        /\ \A e \in Range(h.list) : \E k \in 1 .. Len(h.list) : h.list[k] = e
    <3>1. \A k \in 1 .. Len(h.list) : h.list[k] \in Range(h.list)
      BY LinkedFacts
    <3>2. \A e \in Range(h.list) : \E k \in 1 .. Len(h.list) : h.list[k] = e
      BY ListHolds
    <3>. QED BY <3>1, <3>2
  <2>2. \A i, j \in 1 .. Len(h.list) : h.list[i] = h.list[j] => i = j
    BY DEF Linked, Distinct
  <2>. QED BY <1>1, <2>1, <2>2, Zenon
<1>10. /\ \A k \in 1 .. Len(ms) : ms[k] \in Range(ms)
       /\ \A e \in Range(ms) : \E k \in 1 .. Len(ms) : ms[k] = e
  BY <1>5, RangeIs
<1> DEFINE q == [k \in 1 .. Len(ms) |-> CHOOSE i \in 1 .. m : a[i] = ms[k]]
<1>11. \A k \in 1 .. Len(ms) : q[k] \in 1 .. m /\ a[q[k]] = ms[k] /\ q[k] \in ks
  <2>. SUFFICES ASSUME NEW k \in 1 .. Len(ms)
                PROVE  q[k] \in 1 .. m /\ a[q[k]] = ms[k] /\ q[k] \in ks
    OBVIOUS
  <2>1. ms[k] \in Range(a) /\ Wide(hp, ms[k]) = w
    BY <1>5, <1>10, Zenon
  <2>2. \E i \in 1 .. m : a[i] = ms[k]
    BY <1>9, <2>1, Zenon
  <2>3. q[k] = CHOOSE i \in 1 .. m : a[i] = ms[k]
    BY Zenon
  <2>4. q[k] \in 1 .. m /\ a[q[k]] = ms[k]
    BY <2>2, <2>3, Zenon
  <2>. QED BY <1>8, <2>1, <2>4, Zenon
<1>12. q \in [1 .. Len(ms) -> ks]
  BY <1>11
<1>. HIDE DEF q
<1>13. ASSUME NEW i \in 1 .. Len(ms), NEW j \in 1 .. Len(ms), i < j PROVE q[i] < q[j]
  <2>1. PICK x, y : x = lb + i - 1 /\ y = lb + j - 1
    OBVIOUS
  <2>2. x \in 1 .. m /\ y \in 1 .. m /\ ms[i] = b[x] /\ ms[j] = b[y]
    BY <1>5, <2>1, Zenon
  <2>3. x < y
    <3>1. i \in Int /\ j \in Int /\ lb \in Int
      BY <1>5, <1>6
    <3>. QED BY <1>13, <2>1, <3>1
  <2>4. Wide(hp, ms[i]) = w /\ Wide(hp, ms[j]) = w
    BY <1>5, <1>10, Zenon
  <2>5. Ordered(hp, a, b)
    BY <1>1 DEF Linked
  <2>6. \A u, v \in 1 .. m : a[u] = b[x] /\ a[v] = b[y] => u < v
    BY <1>4, <2>2, <2>3, <2>4, <2>5, Zenon DEF Ordered
  <2>. QED BY <1>11, <2>2, <2>6, Zenon
<1>14. Ascending(q, Len(ms), ks)
  BY <1>12, <1>13, Zenon DEF Ascending
<1>15. \A k \in ks : \E i \in 1 .. Len(ms) : q[i] = k
  <2>. SUFFICES ASSUME NEW k \in ks PROVE \E i \in 1 .. Len(ms) : q[i] = k
    OBVIOUS
  <2>1. k \in 1 .. m /\ a[k] \in Range(ms)
    BY <1>5, <1>8, <1>9, Zenon
  <2>2. PICK i \in 1 .. Len(ms) : ms[i] = a[k]
    BY <1>10, <2>1, Zenon
  <2>3. q[i] = k
    BY <1>9, <1>11, <2>1, <2>2, Zenon
  <2>. QED BY <2>3, Zenon
<1>16. PICK c, p : c = Cardinality(ks) /\ p = InOrder(ks)
  OBVIOUS
<1>17. /\ c \in Nat /\ Ascending(p, c, ks) /\ \A k \in ks : \E i \in 1 .. c : p[i] = k
  BY <1>4, <1>8, <1>16, InOrderIs
<1>18. Len(ms) = c /\ (Len(ms) > 0 => q[1] = p[1])
  <2>1. ks \in SUBSET Nat
    BY <1>8
  <2>2. PICK n : n = Len(ms)
    OBVIOUS
  <2>3. Enumerates(q, n, ks)
    BY <1>6, <1>14, <1>15, <2>2, Zenon DEF Enumerates
  <2>5. Enumerates(p, c, ks)
    BY <1>17, Zenon DEF Enumerates
  <2>4. n = c /\ (n > 0 => q[1] = p[1])
    BY <2>1, <2>3, <2>5, OneEnumeration
  <2>. QED BY <2>2, <2>4, Zenon
<1>19. PICK ns : ns = Only(fs, ks)
  OBVIOUS
<1>20. ns = [k \in 1 .. c |-> fs[p[k]]]
  BY <1>16, <1>19, Zenon DEF Only
<1>21. Len(ns) = c /\ ns = [k \in 1 .. c |-> ns[k]]
  <2>1. PICK T : T = {ns[k] : k \in 1 .. c}
    OBVIOUS
  <2>2. \A k \in 1 .. c : ns[k] \in T
    BY <2>1
  <2>3. ns = [k \in 1 .. c |-> ns[k]]
    BY <1>20
  <2>4. ns \in [1 .. c -> T]
    BY <2>2, <2>3
  <2>. HIDE <2>1
  <2>. QED BY <1>17, <2>3, <2>4
<1>22. ASSUME Len(ms) > 0 PROVE ns[1] = Field(hp[ms[1]])
  <2>1. 1 \in 1 .. Len(ms)
    BY <1>6, <1>22
  <2>2. ns[1] = fs[q[1]]
    BY <1>18, <1>20, <1>22, <2>1, Zenon
  <2>3. q[1] \in 1 .. m /\ a[q[1]] = ms[1]
    BY <1>11, <2>1, Zenon
  <2>. QED BY <1>7, <2>2, <2>3, Zenon
<1>. QED BY <1>1, <1>2, <1>3, <1>6, <1>18, <1>19, <1>21, <1>22, Zenon DEF Counts

-----------------------------------------------------------------------------
(* Two containers and the heap they share.                                 *)

HeapOK(hp) ==
  /\ DOMAIN hp \subseteq 1 .. MaxElems + 1 /\ hp = [x \in DOMAIN hp |-> hp[x]]
  /\ Cardinality(DOMAIN hp) <= MaxElems

\* Every element that was constructed is in one of the two.
Pair(hp, g, h) ==
  /\ HeapOK(hp) /\ Linked(hp, g) /\ Linked(hp, h)
  /\ Range(g.list) \cap Range(h.list) = {}
  /\ Range(g.list) \cup Range(h.list) = {e \in DOMAIN hp : hp[e] # Raw}

LEMMA HeapSize ==
  ASSUME NEW d \in SUBSET (1 .. MaxElems + 1)
  PROVE  IsFiniteSet(d) /\ Cardinality(d) \in Nat
<1>1. IsFiniteSet(1 .. MaxElems + 1)
  BY HeadersAssumption, FS_Interval
<1>2. IsFiniteSet(d)
  BY <1>1, FS_Subset
<1>. QED BY <1>2, FS_CardinalityType

LEMMA ElementNotRaw == ASSUME NEW el \in Elements PROVE el # Raw
<1>1. el.alloc \in Both /\ Raw.alloc = 0
  BY DEF Elements, Raw
<1>. QED BY <1>1 DEF Both

\* There is room for one more, so the heap has a new element.
LEMMA NextElemIs ==
  ASSUME NEW hp, DOMAIN hp \subseteq 1 .. MaxElems + 1, Cardinality(DOMAIN hp) < MaxElems
  PROVE  /\ NextElem(hp) \in 1 .. MaxElems + 1 /\ NextElem(hp) \notin DOMAIN hp
         /\ Cardinality(DOMAIN hp \cup {NextElem(hp)}) = Cardinality(DOMAIN hp) + 1
<1>1. PICK d, e : d = DOMAIN hp /\ e = NextElem(hp)
  OBVIOUS
<1>2. d \in SUBSET (1 .. MaxElems + 1) /\ IsFiniteSet(d) /\ Cardinality(d) \in Nat
  BY <1>1, HeapSize
<1> DEFINE free == 1 .. MaxElems + 1 \ d
<1>3. free # {}
  <2>. SUFFICES ASSUME free = {} PROVE FALSE
    OBVIOUS
  <2>1. d = 1 .. MaxElems + 1
    BY <1>2
  <2>2. MaxElems + 1 \in Int /\ Cardinality(1 .. MaxElems + 1) = MaxElems + 1
    BY HeadersAssumption, FS_Interval
  <2>. QED BY <1>1, <2>1, <2>2, HeadersAssumption
<1>4. \A x \in free : x \in Nat /\ x \in 1 .. MaxElems + 1 /\ x \notin d
  BY HeadersAssumption
<1>5. e = Min(free)
  BY <1>1, Zenon DEF NextElem
<1>6. e \in free
  <2>1. free \in SUBSET Nat
    BY <1>4
  <2>. HIDE DEF free
  <2>. QED BY <1>3, <1>5, <2>1, LeastIn
<1>7. e \in 1 .. MaxElems + 1 /\ e \notin d
  BY <1>4, <1>6, Zenon
<1>8. Cardinality(d \cup {e}) = Cardinality(d) + 1
  BY <1>2, <1>7, FS_AddElement
<1>. QED BY <1>1, <1>7, <1>8, Zenon

\* The heap with one more element.
More(hp, e, new) == [x \in DOMAIN hp \cup {e} |-> IF x = e THEN new ELSE hp[x]]

Grown(hp, hq, e, new) ==
  /\ HeapOK(hq) /\ Cardinality(DOMAIN hq) = Cardinality(DOMAIN hp) + 1
  /\ e \in Nat /\ e \notin DOMAIN hp /\ DOMAIN hq = DOMAIN hp \cup {e}
  /\ hq[e] = new /\ \A x \in DOMAIN hp : hq[x] = hp[x]

LEMMA MoreIs ==
  ASSUME NEW hp, NEW new, HeapOK(hp), Cardinality(DOMAIN hp) < MaxElems
  PROVE  Grown(hp, More(hp, NextElem(hp), new), NextElem(hp), new)
<1>0. PICK e : e = NextElem(hp)
  OBVIOUS
<1>1. PICK d, hq : d = DOMAIN hp /\ hq = More(hp, e, new)
  OBVIOUS
<1>2. /\ DOMAIN hp \subseteq 1 .. MaxElems + 1
  BY DEF HeapOK
<1>3. /\ e \in 1 .. MaxElems + 1 /\ e \notin d
      /\ Cardinality(d \cup {e}) = Cardinality(d) + 1
  BY <1>0, <1>1, <1>2, NextElemIs
<1>4. DOMAIN hq = d \cup {e} /\ hq = [x \in d \cup {e} |-> hq[x]]
  BY <1>1 DEF More
<1>5. hq[e] = new /\ \A x \in d : hq[x] = hp[x]
  BY <1>1, <1>3 DEF More
<1>6. e \in Nat /\ DOMAIN hq \subseteq 1 .. MaxElems + 1
  BY <1>1, <1>2, <1>3, <1>4, HeadersAssumption
<1>7. Cardinality(DOMAIN hq) = Cardinality(d) + 1
  BY <1>3, <1>4
<1>8. Cardinality(d) \in Nat
  BY <1>1, <1>2, HeapSize
<1>9. Cardinality(DOMAIN hq) <= MaxElems
  BY <1>1, <1>7, <1>8, HeadersAssumption
<1>10. HeapOK(hq)
  BY <1>4, <1>6, <1>9, Zenon DEF HeapOK
<1>. QED BY <1>0, <1>1, <1>3, <1>4, <1>5, <1>6, <1>7, <1>10, Zenon DEF Grown

\* What belongs to a container is on the heap and constructed.
LEMMA PairHolds ==
  ASSUME NEW hp, NEW g, NEW h, Pair(hp, g, h)
  PROVE  /\ \A e \in Range(g.list) : e \in DOMAIN hp /\ hp[e] # Raw
         /\ \A e \in Range(h.list) : e \in DOMAIN hp /\ hp[e] # Raw
BY Zenon DEF Pair

LEMMA PairOther ==
  ASSUME NEW hp, NEW g, NEW h, Pair(hp, g, h) PROVE Pair(hp, h, g)
BY DEF Pair

LEMMA PairRaw ==
  ASSUME NEW hp, NEW g, NEW h, Pair(hp, g, h), Cardinality(DOMAIN hp) < MaxElems
  PROVE  LET hq == More(hp, NextElem(hp), Raw)
         IN  /\ Pair(hq, g, h)
             /\ FieldsOf(hq, g.list) = FieldsOf(hp, g.list)
             /\ FieldsOf(hq, h.list) = FieldsOf(hp, h.list)
<1>1. PICK e, hq : e = NextElem(hp) /\ hq = More(hp, e, Raw)
  OBVIOUS
<1>2. HeapOK(hp) /\ Linked(hp, g) /\ Linked(hp, h)
  BY DEF Pair
<1>3. /\ HeapOK(hq) /\ e \notin DOMAIN hp /\ DOMAIN hq = DOMAIN hp \cup {e}
      /\ hq[e] = Raw /\ \A x \in DOMAIN hp : hq[x] = hp[x]
  <2>1. Grown(hp, More(hp, NextElem(hp), Raw), NextElem(hp), Raw)
    BY <1>2, MoreIs
  <2>. QED BY <1>1, <2>1, Zenon DEF Grown
<1>4. /\ \A x \in Range(g.list) : x \in DOMAIN hq /\ hq[x] = hp[x]
      /\ \A x \in Range(h.list) : x \in DOMAIN hq /\ hq[x] = hp[x]
  BY <1>3, PairHolds
<1>5. Linked(hq, g) /\ FieldsOf(hq, g.list) = FieldsOf(hp, g.list)
  BY <1>2, <1>4, LinkedStays
<1>6. Linked(hq, h) /\ FieldsOf(hq, h.list) = FieldsOf(hp, h.list)
  BY <1>2, <1>4, LinkedStays
<1>7. {x \in DOMAIN hq : hq[x] # Raw} = {x \in DOMAIN hp : hp[x] # Raw}
  BY <1>3, Zenon
<1>8. Pair(hq, g, h)
  <2>1. /\ Range(g.list) \cap Range(h.list) = {}
        /\ Range(g.list) \cup Range(h.list) = {x \in DOMAIN hp : hp[x] # Raw}
    BY DEF Pair
  <2>. QED BY <1>3, <1>5, <1>6, <1>7, <2>1, Zenon DEF Pair
<1>. QED BY <1>1, <1>5, <1>6, <1>8, Zenon

\* insert() into the first of the two: the element, the links and the heap.
NewFor(g, name, v) == [name |-> name, value |-> v, alloc |-> g.alloc]

Longer(hp, g, name) ==
  [list |-> Append(g.list, NextElem(hp)),
   set |-> InsertAt(g.set, upper_bound(hp, g.set, name), NextElem(hp)), alloc |-> g.alloc]

Adds(hp, g, h, name, v, hq, f) ==
  /\ Pair(hq, f, h) /\ Cardinality(DOMAIN hq) = Cardinality(DOMAIN hp) + 1
  /\ FieldsOf(hq, f.list) = Append(FieldsOf(hp, g.list), [name |-> name, value |-> v])
  /\ FieldsOf(hq, h.list) = FieldsOf(hp, h.list)

LEMMA PairInsert ==
  ASSUME NEW hp, NEW g, NEW h, Pair(hp, g, h), Cardinality(DOMAIN hp) < MaxElems,
         NEW name \in Names, NEW v \in Trimmed
  PROVE  Adds(hp, g, h, name, v, More(hp, NextElem(hp), NewFor(g, name, v)), Longer(hp, g, name))
<1>0. PICK e, new : e = NextElem(hp) /\ new = [name |-> name, value |-> v, alloc |-> g.alloc]
  OBVIOUS
<1>1. PICK hq, f : /\ hq = More(hp, e, new)
                   /\ f = [list |-> Append(g.list, e),
                           set |-> InsertAt(g.set, upper_bound(hp, g.set, name), e),
                           alloc |-> g.alloc]
  OBVIOUS
<1>2. HeapOK(hp) /\ Linked(hp, g) /\ Linked(hp, h)
  BY DEF Pair
<1>3. /\ HeapOK(hq) /\ Cardinality(DOMAIN hq) = Cardinality(DOMAIN hp) + 1
      /\ e \in Nat /\ e \notin DOMAIN hp /\ DOMAIN hq = DOMAIN hp \cup {e}
      /\ hq[e] = new /\ \A x \in DOMAIN hp : hq[x] = hp[x]
  <2>1. Grown(hp, More(hp, NextElem(hp), new), NextElem(hp), new)
    BY <1>2, MoreIs
  <2>. QED BY <1>0, <1>1, <2>1, Zenon DEF Grown
<1>4. /\ \A x \in Range(g.list) : x \in DOMAIN hq /\ hq[x] = hp[x]
      /\ \A x \in Range(h.list) : x \in DOMAIN hq /\ hq[x] = hp[x]
  BY <1>3, PairHolds
<1>5. Linked(hq, h) /\ FieldsOf(hq, h.list) = FieldsOf(hp, h.list)
  BY <1>2, <1>4, LinkedStays
<1>6. new \in Elements /\ new.alloc = g.alloc /\ new.name = name /\ Field(new) = [name |-> name, value |-> v]
  <2>1. g.alloc \in Both
    BY <1>2, LinkedFacts
  <2>. QED BY <1>0, <2>1 DEF Elements, Field
<1>7. /\ f.alloc = g.alloc /\ f.list = Append(g.list, e)
      /\ f.set = InsertAt(g.set, upper_bound(hp, g.set, name), e)
      /\ f = [list |-> f.list, set |-> f.set, alloc |-> f.alloc]
  <2>1. PICK l, s : l = Append(g.list, e) /\ s = InsertAt(g.set, upper_bound(hp, g.set, name), e)
    OBVIOUS
  <2>2. f = [list |-> l, set |-> s, alloc |-> g.alloc]
    BY <1>1, <2>1, Zenon
  <2>3. /\ f.alloc = g.alloc /\ f.list = l /\ f.set = s
        /\ f = [list |-> f.list, set |-> f.set, alloc |-> f.alloc]
    BY <2>2
  <2>. QED BY <2>1, <2>3, Zenon
<1>8. e \notin Range(g.list) /\ e \notin Range(h.list)
  BY <1>3, PairHolds, Zenon
<1>9. Inserted(hp, g, hq, f, e)
  BY <1>2, <1>3, <1>4, <1>6, <1>7, <1>8, Zenon DEF Inserted
<1>10. /\ Linked(hq, f) /\ Range(f.list) = Range(g.list) \cup {e}
       /\ FieldsOf(hq, f.list) = Append(FieldsOf(hp, g.list), Field(hq[e]))
  BY <1>9, InsertLinked
<1>11. new # Raw
  BY <1>6, ElementNotRaw
<1>12. Range(f.list) \cap Range(h.list) = {}
  <2>1. Range(g.list) \cap Range(h.list) = {}
    BY DEF Pair
  <2>. QED BY <1>8, <1>10, <2>1, Zenon
<1>13. Range(f.list) \cup Range(h.list) = {x \in DOMAIN hq : hq[x] # Raw}
  <2>1. Range(g.list) \cup Range(h.list) = {x \in DOMAIN hp : hp[x] # Raw}
    BY DEF Pair
  <2>2. ASSUME NEW x PROVE x \in {y \in DOMAIN hq : hq[y] # Raw} <=>
                           x \in {y \in DOMAIN hp : hp[y] # Raw} \/ x = e
    BY <1>3, <1>11, Zenon
  <2>3. {y \in DOMAIN hq : hq[y] # Raw} = {y \in DOMAIN hp : hp[y] # Raw} \cup {e}
    BY <2>2, Zenon
  <2>. QED BY <1>10, <2>1, <2>3, Zenon
<1>14. Pair(hq, f, h)
  BY <1>3, <1>5, <1>10, <1>12, <1>13, Zenon DEF Pair
<1>15. FieldsOf(hq, f.list) = Append(FieldsOf(hp, g.list), [name |-> name, value |-> v])
  BY <1>3, <1>6, <1>10, Zenon
<1>16. new = NewFor(g, name, v) /\ f = Longer(hp, g, name)
  BY <1>0, <1>1, Zenon DEF NewFor, Longer
<1>17. Adds(hp, g, h, name, v, hq, f)
  BY <1>3, <1>5, <1>14, <1>15, Zenon DEF Adds
<1>. QED BY <1>0, <1>1, <1>16, <1>17, Zenon

\* Elements leave the first of the two.
Shorter(g, gone) ==
  [list |-> Without(g.list, gone), set |-> Without(g.set, gone), alloc |-> g.alloc]

Less(hp, gone) == [x \in DOMAIN hp \ gone |-> hp[x]]

Removes(hp, g, h, gone, hq, f) ==
  /\ Pair(hq, f, h) /\ Cardinality(gone) \in Nat
  /\ Cardinality(DOMAIN hq) = Cardinality(DOMAIN hp) - Cardinality(gone)
  /\ FieldsOf(hq, f.list) =
       Only(FieldsOf(hp, g.list), {k \in 1 .. Len(g.list) : g.list[k] \notin gone})
  /\ FieldsOf(hq, h.list) = FieldsOf(hp, h.list)

LEMMA PairDrop ==
  ASSUME NEW hp, NEW g, NEW h, Pair(hp, g, h), NEW gone \in SUBSET Range(g.list)
  PROVE  Removes(hp, g, h, gone, Less(hp, gone), Shorter(g, gone))
<1>1. PICK hq, f : /\ hq = [x \in DOMAIN hp \ gone |-> hp[x]]
                   /\ f = [list |-> Without(g.list, gone), set |-> Without(g.set, gone),
                           alloc |-> g.alloc]
  OBVIOUS
<1>2. HeapOK(hp) /\ Linked(hp, g) /\ Linked(hp, h)
  BY DEF Pair
<1>3. /\ DOMAIN hq = DOMAIN hp \ gone /\ hq = [x \in DOMAIN hq |-> hq[x]]
      /\ \A x \in DOMAIN hp : x \notin gone => hq[x] = hp[x]
  BY <1>1
<1>4. /\ Linked(hp, f) /\ Range(f.list) = Range(g.list) \ gone
      /\ FieldsOf(hp, f.list) =
           Only(FieldsOf(hp, g.list), {k \in 1 .. Len(g.list) : g.list[k] \notin gone})
  <2>1. Dropped(g, gone, f)
    BY <1>1, Zenon DEF Dropped
  <2>2. Leaves(hp, g, gone, f)
    BY <1>2, <2>1, DropLinked
  <2>. QED BY <2>2, Zenon DEF Leaves
<1>5. /\ Range(g.list) \cap Range(h.list) = {}
      /\ Range(g.list) \cup Range(h.list) = {x \in DOMAIN hp : hp[x] # Raw}
  BY DEF Pair
<1>6. /\ \A x \in Range(f.list) : x \in DOMAIN hq /\ hq[x] = hp[x]
      /\ \A x \in Range(h.list) : x \in DOMAIN hq /\ hq[x] = hp[x]
  BY <1>3, <1>4, <1>5
<1>7. Linked(hq, h) /\ FieldsOf(hq, h.list) = FieldsOf(hp, h.list)
  BY <1>2, <1>6, LinkedStays
<1>8. Linked(hq, f) /\ FieldsOf(hq, f.list) = FieldsOf(hp, f.list)
  BY <1>4, <1>6, LinkedStays
<1>9. Range(f.list) \cap Range(h.list) = {}
  BY <1>4, <1>5
<1>10. Range(f.list) \cup Range(h.list) = {x \in DOMAIN hq : hq[x] # Raw}
  <2>1. {x \in DOMAIN hq : hq[x] # Raw} = {x \in DOMAIN hp : hp[x] # Raw} \ gone
    BY <1>3, Zenon
  <2>. QED BY <1>4, <1>5, <2>1
<1>11. /\ Cardinality(gone) \in Nat /\ Cardinality(DOMAIN hp) \in Nat
       /\ Cardinality(DOMAIN hq) = Cardinality(DOMAIN hp) - Cardinality(gone)
  <2>1. DOMAIN hp \in SUBSET (1 .. MaxElems + 1)
    BY <1>2 DEF HeapOK
  <2>2. IsFiniteSet(DOMAIN hp) /\ Cardinality(DOMAIN hp) \in Nat
    BY <2>1, HeapSize
  <2>3. gone \subseteq DOMAIN hp
    BY PairHolds
  <2>4. IsFiniteSet(gone) /\ Cardinality(gone) \in Nat
    BY <2>2, <2>3, FS_Subset, FS_CardinalityType
  <2>5. DOMAIN hp \cap gone = gone
    BY <2>3
  <2>6. Cardinality(DOMAIN hp \ gone) = Cardinality(DOMAIN hp) - Cardinality(DOMAIN hp \cap gone)
    BY <2>2, FS_Difference
  <2>. QED BY <1>3, <2>2, <2>4, <2>5, <2>6, Zenon
<1>12. HeapOK(hq)
  <2>1. DOMAIN hp \subseteq 1 .. MaxElems + 1 /\ Cardinality(DOMAIN hp) <= MaxElems
    BY <1>2 DEF HeapOK
  <2>2. DOMAIN hq \subseteq 1 .. MaxElems + 1
    BY <1>3, <2>1, Zenon
  <2>3. Cardinality(DOMAIN hq) <= MaxElems
    BY <1>11, <2>1, HeadersAssumption
  <2>. QED BY <1>3, <2>2, <2>3, Zenon DEF HeapOK
<1>13. Pair(hq, f, h)
  BY <1>7, <1>8, <1>9, <1>10, <1>12, Zenon DEF Pair
<1>14. FieldsOf(hq, f.list) =
         Only(FieldsOf(hp, g.list), {k \in 1 .. Len(g.list) : g.list[k] \notin gone})
  BY <1>4, <1>8, Zenon
<1>15. hq = Less(hp, gone) /\ f = Shorter(g, gone)
  BY <1>1, Zenon DEF Less, Shorter
<1>16. Removes(hp, g, h, gone, hq, f)
  BY <1>7, <1>11, <1>13, <1>14, Zenon DEF Removes
<1>. QED BY <1>15, <1>16, Zenon

\* An empty container.
Bare(a) == [list |-> << >>, set |-> << >>, alloc |-> a]

LEMMA EmptyIs ==
  ASSUME NEW a \in Both
  PROVE  /\ Range(Bare(a).list) = {} /\ Bare(a).alloc = a
         /\ \A hp : Linked(hp, Bare(a)) /\ FieldsOf(hp, Bare(a).list) = << >>
<1>1. PICK h, l, s : h = Bare(a) /\ l = Bare(a).list /\ s = Bare(a).set
  OBVIOUS
<1>2. l = << >> /\ s = << >> /\ h.alloc = a /\ h = [list |-> << >>, set |-> << >>, alloc |-> a]
  BY <1>1 DEF Bare
<1>3. l \in Seq(Nat) /\ s \in Seq(Nat) /\ Len(l) = 0 /\ Len(s) = 0 /\ 1 .. 0 = {}
  BY <1>2
<1>4. Range(l) = {} /\ Range(s) = {}
  BY <1>3, RangeIs
<1>5. Distinct(l) /\ Distinct(s)
  BY <1>3 DEF Distinct
<1>6. h \in Containers
  BY <1>2, <1>3 DEF Containers
<1>7. ASSUME NEW hp PROVE Linked(hp, h) /\ FieldsOf(hp, l) = << >>
  <2>1. Ordered(hp, l, s)
    BY <1>3 DEF Ordered
  <2>2. Linked(hp, h)
    BY <1>1, <1>4, <1>5, <1>6, <2>1, Zenon DEF Linked
  <2>3. FieldsOf(hp, l) = << >>
    BY <1>3 DEF FieldsOf
  <2>. QED BY <2>2, <2>3
<1>. QED BY <1>1, <1>2, <1>4, <1>7, Zenon

LEMMA FieldsLength ==
  ASSUME NEW hp, NEW h, Linked(hp, h)
  PROVE  Len(FieldsOf(hp, h.list)) = Len(h.list) /\ Len(h.list) \in Nat
<1>1. PICK n, fs : n = Len(h.list) /\ fs = FieldsOf(hp, h.list)
  OBVIOUS
<1>2. n \in Nat
  BY <1>1, LinkedFacts
<1>3. fs = [k \in 1 .. n |-> fs[k]]
  BY <1>1 DEF FieldsOf
<1>4. PICK T : T = {fs[k] : k \in 1 .. n}
  OBVIOUS
<1>5. \A k \in 1 .. n : fs[k] \in T
  BY <1>4
<1>6. fs \in [1 .. n -> T]
  BY <1>3, <1>5
<1>. HIDE <1>4
<1>7. Len(fs) = n
  BY <1>2, <1>3, <1>6
<1>. QED BY <1>1, <1>2, <1>7, Zenon

\* A container that shows nothing is empty.
LEMMA NothingShown ==
  ASSUME NEW hp, NEW h, Linked(hp, h), FieldsOf(hp, h.list) = << >>
  PROVE  h = Bare(h.alloc) /\ h.alloc \in Both
<1>1. PICK a, b : a = h.list /\ b = h.set
  OBVIOUS
<1>2. a \in Seq(Nat) /\ b \in Seq(Nat) /\ Len(b) = Len(a) /\ h.alloc \in Both
  BY <1>1, LinkedFacts
<1>3. Len(a) = 0
  <2>1. Len(FieldsOf(hp, h.list)) = Len(a)
    BY <1>1, FieldsLength
  <2>2. Len(<< >>) = 0
    OBVIOUS
  <2>. QED BY <2>1, <2>2, Zenon
<1>4. a = << >> /\ b = << >>
  BY <1>2, <1>3, EmptySeq
<1>5. h = [list |-> a, set |-> b, alloc |-> h.alloc]
  BY <1>1 DEF Linked, Containers
<1>. QED BY <1>2, <1>4, <1>5, Zenon DEF Bare

LEMMA PairEmpty ==
  ASSUME NEW hp, NEW a, NEW h, Pair(hp, Bare(a), h), a \in Both, NEW b \in Both
  PROVE  Pair(hp, Bare(b), h)
<1>1. Range(Bare(a).list) = {} /\ Range(Bare(b).list) = {} /\ Linked(hp, Bare(b))
  BY EmptyIs
<1>2. /\ HeapOK(hp) /\ Linked(hp, h)
      /\ Range(Bare(a).list) \cup Range(h.list) = {e \in DOMAIN hp : hp[e] # Raw}
  BY Zenon DEF Pair
<1>3. Range(Bare(b).list) \cap Range(h.list) = {}
  BY <1>1, Zenon
<1>4. Range(Bare(b).list) \cup Range(h.list) = {e \in DOMAIN hp : hp[e] # Raw}
  BY <1>1, <1>2, Zenon
<1>. QED BY <1>1, <1>2, <1>3, <1>4, Zenon DEF Pair

-----------------------------------------------------------------------------
(* The operations on a store whose i-th container is g and whose other one *)
(* is h.                                                                   *)

Couple(i, g, h) == [x \in Both |-> IF x = i THEN g ELSE h]

StoreOf(i, g, h, hp) == [hs |-> Couple(i, g, h), heap |-> hp]

LEMMA StoreOfIs ==
  ASSUME NEW i \in Both, NEW g, NEW h, NEW hp
  PROVE  LET st == StoreOf(i, g, h, hp)
         IN  /\ st.heap = hp /\ st.hs[i] = g /\ st.hs[3 - i] = h
             /\ 3 - i \in Both /\ 3 - i # i /\ 3 - (3 - i) = i
             /\ DOMAIN st.hs = Both
<1>1. 3 - i \in Both /\ 3 - i # i /\ 3 - (3 - i) = i
  BY DEF Both
<1>. QED BY <1>1 DEF StoreOf, Couple

LEMMA StoreOther ==
  ASSUME NEW i \in Both, NEW g, NEW h, NEW hp
  PROVE  StoreOf(i, g, h, hp) = StoreOf(3 - i, h, g, hp)
<1>1. \A x \in Both : x = i <=> ~(x = 3 - i)
  BY DEF Both
<1>2. [x \in Both |-> IF x = i THEN g ELSE h] = [x \in Both |-> IF x = 3 - i THEN h ELSE g]
  BY <1>1
<1>. QED BY <1>2, Zenon DEF StoreOf, Couple

\* A store is the one of its own parts.
LEMMA StoreParts ==
  ASSUME NEW i \in Both, NEW cs, NEW hp, cs = [x \in Both |-> cs[x]]
  PROVE  [hs |-> cs, heap |-> hp] = StoreOf(i, cs[i], cs[3 - i], hp)
<1>1. \A x \in Both : x = i \/ x = 3 - i
  BY DEF Both
<1>2. 3 - i # i
  BY DEF Both
<1>3. cs = [x \in Both |-> IF x = i THEN cs[i] ELSE cs[3 - i]]
  BY <1>1, <1>2
<1>. QED BY <1>3, Zenon DEF StoreOf, Couple

Container(l, s, a) == [list |-> l, set |-> s, alloc |-> a]

\* Setting fields of the i-th container.
PutLinks(cs, i, l, s) == [cs EXCEPT ![i].set = s, ![i].list = l]

PutList(st, i, v) == [st EXCEPT !.hs[i].list = v]

PutSet(st, i, v) == [st EXCEPT !.hs[i].set = v]

PutAlloc(st, i, v) == [st EXCEPT !.hs[i].alloc = v]

LEMMA PutLinksIs ==
  ASSUME NEW i \in Both, NEW l, NEW s, NEW a, NEW h, NEW m, NEW t
  PROVE  PutLinks(Couple(i, Container(l, s, a), h), i, m, t) = Couple(i, Container(m, t, a), h)
<1>1. PICK g, cs : g = Container(l, s, a) /\ cs = Couple(i, g, h)
  OBVIOUS
<1>2. PICK r, f : r = [cs EXCEPT ![i].set = t] /\ f = [g EXCEPT !.set = t]
  OBVIOUS
<1>3. cs = [x \in Both |-> IF x = i THEN g ELSE h]
  BY <1>1, Zenon DEF Couple
<1>4. r = [x \in Both |-> IF x = i THEN f ELSE h]
  <2>. HIDE <1>1
  <2>. QED BY <1>2, <1>3
<1>5. f = [list |-> l, set |-> t, alloc |-> a]
  <2>1. g = [list |-> l, set |-> s, alloc |-> a]
    BY <1>1, Zenon DEF Container
  <2>. QED BY <1>2, <2>1
<1>6. [r EXCEPT ![i].list = m] = [x \in Both |-> IF x = i THEN [f EXCEPT !.list = m] ELSE h]
  BY <1>4
<1>7. [f EXCEPT !.list = m] = [list |-> m, set |-> t, alloc |-> a]
  BY <1>5
<1>8. PutLinks(cs, i, m, t) = [[cs EXCEPT ![i].set = t] EXCEPT ![i].list = m]
  BY Zenon DEF PutLinks
<1>. QED BY <1>1, <1>2, <1>6, <1>7, <1>8, Zenon DEF Couple, Container

LEMMA PutListIs ==
  ASSUME NEW i \in Both, NEW l, NEW s, NEW a, NEW h, NEW hp, NEW v
  PROVE  PutList(StoreOf(i, Container(l, s, a), h, hp), i, v) =
           StoreOf(i, Container(v, s, a), h, hp)
<1>1. PICK g, cs, st : /\ g = Container(l, s, a) /\ cs = Couple(i, g, h)
                       /\ st = StoreOf(i, g, h, hp)
  OBVIOUS
<1>2. st = [hs |-> cs, heap |-> hp]
  BY <1>1, Zenon DEF StoreOf
<1>3. [st EXCEPT !.hs[i].list = v] = [hs |-> [cs EXCEPT ![i].list = v], heap |-> hp]
  BY <1>2
<1>4. cs = [x \in Both |-> IF x = i THEN g ELSE h]
  BY <1>1, Zenon DEF Couple
<1>5. [cs EXCEPT ![i].list = v] = [x \in Both |-> IF x = i THEN [g EXCEPT !.list = v] ELSE h]
  BY <1>4
<1>6. g = [list |-> l, set |-> s, alloc |-> a]
  BY <1>1, Zenon DEF Container
<1>7. [g EXCEPT !.list = v] = [list |-> v, set |-> s, alloc |-> a]
  BY <1>6
<1>8. PutList(st, i, v) = [hs |-> [cs EXCEPT ![i].list = v], heap |-> hp]
  BY <1>3, Zenon DEF PutList
<1>9. [cs EXCEPT ![i].list = v] = Couple(i, Container(v, s, a), h)
  BY <1>5, <1>7, Zenon DEF Couple, Container
<1>10. PutList(st, i, v) = StoreOf(i, Container(v, s, a), h, hp)
  BY <1>8, <1>9, Zenon DEF StoreOf
<1>. QED BY <1>1, <1>10, Zenon

LEMMA PutSetIs ==
  ASSUME NEW i \in Both, NEW l, NEW s, NEW a, NEW h, NEW hp, NEW v
  PROVE  PutSet(StoreOf(i, Container(l, s, a), h, hp), i, v) =
           StoreOf(i, Container(l, v, a), h, hp)
<1>1. PICK g, cs, st : /\ g = Container(l, s, a) /\ cs = Couple(i, g, h)
                       /\ st = StoreOf(i, g, h, hp)
  OBVIOUS
<1>2. st = [hs |-> cs, heap |-> hp]
  BY <1>1, Zenon DEF StoreOf
<1>3. [st EXCEPT !.hs[i].set = v] = [hs |-> [cs EXCEPT ![i].set = v], heap |-> hp]
  BY <1>2
<1>4. cs = [x \in Both |-> IF x = i THEN g ELSE h]
  BY <1>1, Zenon DEF Couple
<1>5. [cs EXCEPT ![i].set = v] = [x \in Both |-> IF x = i THEN [g EXCEPT !.set = v] ELSE h]
  BY <1>4
<1>6. g = [list |-> l, set |-> s, alloc |-> a]
  BY <1>1, Zenon DEF Container
<1>7. [g EXCEPT !.set = v] = [list |-> l, set |-> v, alloc |-> a]
  BY <1>6
<1>8. PutSet(st, i, v) = [hs |-> [cs EXCEPT ![i].set = v], heap |-> hp]
  BY <1>3, Zenon DEF PutSet
<1>9. [cs EXCEPT ![i].set = v] = Couple(i, Container(l, v, a), h)
  BY <1>5, <1>7, Zenon DEF Couple, Container
<1>10. PutSet(st, i, v) = StoreOf(i, Container(l, v, a), h, hp)
  BY <1>8, <1>9, Zenon DEF StoreOf
<1>. QED BY <1>1, <1>10, Zenon

LEMMA PutAllocIs ==
  ASSUME NEW i \in Both, NEW l, NEW s, NEW a, NEW h, NEW hp, NEW v
  PROVE  PutAlloc(StoreOf(i, Container(l, s, a), h, hp), i, v) =
           StoreOf(i, Container(l, s, v), h, hp)
<1>1. PICK g, cs, st : /\ g = Container(l, s, a) /\ cs = Couple(i, g, h)
                       /\ st = StoreOf(i, g, h, hp)
  OBVIOUS
<1>2. st = [hs |-> cs, heap |-> hp]
  BY <1>1, Zenon DEF StoreOf
<1>3. [st EXCEPT !.hs[i].alloc = v] = [hs |-> [cs EXCEPT ![i].alloc = v], heap |-> hp]
  BY <1>2
<1>4. cs = [x \in Both |-> IF x = i THEN g ELSE h]
  BY <1>1, Zenon DEF Couple
<1>5. [cs EXCEPT ![i].alloc = v] = [x \in Both |-> IF x = i THEN [g EXCEPT !.alloc = v] ELSE h]
  BY <1>4
<1>6. g = [list |-> l, set |-> s, alloc |-> a]
  BY <1>1, Zenon DEF Container
<1>7. [g EXCEPT !.alloc = v] = [list |-> l, set |-> s, alloc |-> v]
  BY <1>6
<1>8. PutAlloc(st, i, v) = [hs |-> [cs EXCEPT ![i].alloc = v], heap |-> hp]
  BY <1>3, Zenon DEF PutAlloc
<1>9. [cs EXCEPT ![i].alloc = v] = Couple(i, Container(l, s, v), h)
  BY <1>5, <1>7, Zenon DEF Couple, Container
<1>10. PutAlloc(st, i, v) = StoreOf(i, Container(l, s, v), h, hp)
  BY <1>8, <1>9, Zenon DEF StoreOf
<1>. QED BY <1>1, <1>10, Zenon

LEMMA StoreInsert ==
  ASSUME NEW i \in Both, NEW g, NEW h, NEW hp, NEW name, NEW value, g \in Containers
  PROVE  insert(StoreOf(i, g, h, hp), i, name, value) =
           StoreOf(i, Longer(hp, g, name), h,
                   More(hp, NextElem(hp), NewFor(g, name, trim(value))))
<1>0. PICK st : st = StoreOf(i, g, h, hp)
  OBVIOUS
<1>1. PICK e, new : e = NextElem(hp) /\ new = [name |-> name, value |-> trim(value), alloc |-> g.alloc]
  OBVIOUS
<1>2. PICK l, s : l = Append(g.list, e) /\ s = InsertAt(g.set, upper_bound(hp, g.set, name), e)
  OBVIOUS
<1>3. st.heap = hp /\ st.hs[i] = g /\ st.hs = Couple(i, g, h)
  BY <1>0 DEF StoreOf, Couple
<1>4. insert(st, i, name, value) =
        [hs |-> [st.hs EXCEPT ![i].set = InsertAt(@, upper_bound(hp, g.set, name), e),
                              ![i].list = Append(@, e)],
         heap |-> [x \in DOMAIN hp \cup {e} |-> IF x = e THEN new ELSE hp[x]]]
  BY <1>1, <1>3, Zenon DEF insert
<1>5. [st.hs EXCEPT ![i].set = InsertAt(@, upper_bound(hp, g.set, name), e),
                    ![i].list = Append(@, e)]
        = Couple(i, Container(l, s, g.alloc), h)
  <2>1. PICK cs : cs = st.hs
    OBVIOUS
  <2>2. cs[i] = g /\ cs = Couple(i, g, h)
    BY <1>3, <2>1, Zenon
  <2>3. g = Container(g.list, g.set, g.alloc)
    BY DEF Containers, Container
  <2>4. PutLinks(cs, i, l, s) = Couple(i, Container(l, s, g.alloc), h)
    <3>1. cs = Couple(i, Container(g.list, g.set, g.alloc), h)
      BY <2>2, <2>3, Zenon
    <3>2. PutLinks(Couple(i, Container(g.list, g.set, g.alloc), h), i, l, s) =
            Couple(i, Container(l, s, g.alloc), h)
      BY PutLinksIs
    <3>. QED BY <3>1, <3>2, Zenon
  <2>5. [cs EXCEPT ![i].set = InsertAt(@, upper_bound(hp, g.set, name), e), ![i].list = Append(@, e)]
          = PutLinks(cs, i, l, s)
    BY <1>2, <2>2 DEF PutLinks
  <2>. QED BY <2>1, <2>4, <2>5, Zenon
<1>. QED BY <1>0, <1>1, <1>2, <1>4, <1>5, Zenon
  DEF StoreOf, More, Container, Longer, NewFor

LEMMA StoreDrop ==
  ASSUME NEW i \in Both, NEW g, NEW h, NEW hp, NEW gone, g \in Containers
  PROVE  Drop(StoreOf(i, g, h, hp), i, gone) =
           StoreOf(i, Shorter(g, gone), h, Less(hp, gone))
<1>0. PICK st : st = StoreOf(i, g, h, hp)
  OBVIOUS
<1>2. PICK l, s : l = Without(g.list, gone) /\ s = Without(g.set, gone)
  OBVIOUS
<1>3. st.heap = hp /\ st.hs[i] = g /\ st.hs = Couple(i, g, h)
  BY <1>0 DEF StoreOf, Couple
<1>4. Drop(st, i, gone) =
        [hs |-> [st.hs EXCEPT ![i].set = Without(@, gone), ![i].list = Without(@, gone)],
         heap |-> [x \in DOMAIN hp \ gone |-> hp[x]]]
  BY <1>3, Zenon DEF Drop
<1>5. [st.hs EXCEPT ![i].set = Without(@, gone), ![i].list = Without(@, gone)]
        = Couple(i, Container(l, s, g.alloc), h)
  <2>1. PICK cs : cs = st.hs
    OBVIOUS
  <2>2. cs[i] = g /\ cs = Couple(i, g, h)
    BY <1>3, <2>1, Zenon
  <2>3. g = Container(g.list, g.set, g.alloc)
    BY DEF Containers, Container
  <2>4. PutLinks(cs, i, l, s) = Couple(i, Container(l, s, g.alloc), h)
    <3>1. cs = Couple(i, Container(g.list, g.set, g.alloc), h)
      BY <2>2, <2>3, Zenon
    <3>2. PutLinks(Couple(i, Container(g.list, g.set, g.alloc), h), i, l, s) =
            Couple(i, Container(l, s, g.alloc), h)
      BY PutLinksIs
    <3>. QED BY <3>1, <3>2, Zenon
  <2>5. [cs EXCEPT ![i].set = Without(@, gone), ![i].list = Without(@, gone)]
          = PutLinks(cs, i, l, s)
    BY <1>2, <2>2 DEF PutLinks
  <2>. QED BY <2>1, <2>4, <2>5, Zenon
<1>. QED BY <1>0, <1>2, <1>4, <1>5, Zenon DEF StoreOf, Container, Shorter, Less

\* The links of h move to the i-th container.
LEMMA StoreSteal ==
  ASSUME NEW i \in Both, NEW g, NEW h, NEW hp, g \in Containers, h \in Containers
  PROVE  Steal(StoreOf(i, g, h, hp), i, 3 - i) =
           StoreOf(i, Container(h.list, h.set, g.alloc), Bare(h.alloc), hp)
<1>1. PICK j : j = 3 - i
  OBVIOUS
<1>2. j \in Both /\ i = 3 - j
  BY <1>1 DEF Both
<1>3. g = Container(g.list, g.set, g.alloc) /\ h = Container(h.list, h.set, h.alloc)
  BY DEF Containers, Container
<1>4. PICK s0 : s0 = StoreOf(i, g, h, hp)
  OBVIOUS
<1>5. s0.hs[j] = h
  BY <1>1, <1>4, StoreOfIs
<1>6. PICK a, b : a = h.list /\ b = h.set
  OBVIOUS
<1>7. Steal(s0, i, j) = PutSet(PutList(PutSet(PutList(s0, i, a), i, b), j, << >>), j, << >>)
  <2>1. Steal(s0, i, j) = [s0 EXCEPT !.hs[i].list = a, !.hs[i].set = b,
                                     !.hs[j].list = << >>, !.hs[j].set = << >>]
    BY <1>5, <1>6, Zenon DEF Steal
  <2>2. [s0 EXCEPT !.hs[i].list = a, !.hs[i].set = b, !.hs[j].list = << >>, !.hs[j].set = << >>]
          = [[[[s0 EXCEPT !.hs[i].list = a] EXCEPT !.hs[i].set = b]
                  EXCEPT !.hs[j].list = << >>] EXCEPT !.hs[j].set = << >>]
    BY Zenon
  <2>. QED BY <2>1, <2>2, Zenon DEF PutList, PutSet
<1>8. PICK p, q, c, d : p = g.set /\ q = g.list /\ c = g.alloc /\ d = h.alloc
  OBVIOUS
<1>9. s0 = StoreOf(i, Container(q, p, c), h, hp)
  BY <1>3, <1>4, <1>8, Zenon
<1>10. PutList(s0, i, a) = StoreOf(i, Container(a, p, c), h, hp)
  <2>1. PutList(StoreOf(i, Container(q, p, c), h, hp), i, a) = StoreOf(i, Container(a, p, c), h, hp)
    BY PutListIs
  <2>. QED BY <1>9, <2>1, Zenon
<1>11. PutSet(PutList(s0, i, a), i, b) = StoreOf(i, Container(a, b, c), h, hp)
  <2>1. PutSet(StoreOf(i, Container(a, p, c), h, hp), i, b) = StoreOf(i, Container(a, b, c), h, hp)
    BY PutSetIs
  <2>. QED BY <1>10, <2>1, Zenon
<1>12. PICK f, z : f = Container(a, b, c) /\ z = << >>
  OBVIOUS
<1>13. StoreOf(i, f, h, hp) = StoreOf(j, Container(a, b, d), f, hp)
  <2>1. StoreOf(i, f, h, hp) = StoreOf(3 - i, h, f, hp)
    BY StoreOther
  <2>. QED BY <1>1, <1>3, <1>6, <1>8, <2>1, Zenon
<1>14. PutList(StoreOf(j, Container(a, b, d), f, hp), j, z) = StoreOf(j, Container(z, b, d), f, hp)
  BY <1>2, PutListIs
<1>15. PutSet(StoreOf(j, Container(z, b, d), f, hp), j, z) = StoreOf(j, Container(z, z, d), f, hp)
  BY <1>2, PutSetIs
<1>16. StoreOf(j, Container(z, z, d), f, hp) = StoreOf(i, f, Container(z, z, d), hp)
  <2>1. StoreOf(j, Container(z, z, d), f, hp) = StoreOf(3 - j, f, Container(z, z, d), hp)
    BY <1>2, StoreOther
  <2>. QED BY <1>2, <2>1, Zenon
<1>17. Steal(s0, i, j) = StoreOf(i, f, Container(z, z, d), hp)
  BY <1>7, <1>11, <1>12, <1>13, <1>14, <1>15, <1>16, Zenon
<1>18. Container(z, z, d) = Bare(h.alloc) /\ f = Container(h.list, h.set, g.alloc)
  BY <1>6, <1>8, <1>12, Zenon DEF Container, Bare
<1>. QED BY <1>1, <1>4, <1>17, <1>18, Zenon

-----------------------------------------------------------------------------
(* The store st shows the fields f in its i-th container and the fields o  *)
(* in the other one, with n elements on the heap.                          *)

Made(st, i, g, h, hp, f, o, n) ==
  /\ st = StoreOf(i, g, h, hp) /\ Pair(hp, g, h)
  /\ f = FieldsOf(hp, g.list) /\ o = FieldsOf(hp, h.list) /\ n = Cardinality(DOMAIN hp)

Shows(st, i, f, o, n) == \E g, h, hp : Made(st, i, g, h, hp, f, o, n)

LEMMA MadeShows ==
  ASSUME NEW st, NEW i, NEW g, NEW h, NEW hp, NEW f, NEW o, NEW n,
         Made(st, i, g, h, hp, f, o, n)
  PROVE  Shows(st, i, f, o, n)
BY Zenon DEF Shows

LEMMA ShowsMade ==
  ASSUME NEW st, NEW i, NEW f, NEW o, NEW n, Shows(st, i, f, o, n)
  PROVE  \E g, h, hp : Made(st, i, g, h, hp, f, o, n)
BY Zenon DEF Shows

LEMMA MadeFacts ==
  ASSUME NEW st, NEW i \in Both, NEW g, NEW h, NEW hp, NEW f, NEW o, NEW n,
         Made(st, i, g, h, hp, f, o, n)
  PROVE  /\ st = StoreOf(i, g, h, hp) /\ Pair(hp, g, h) /\ Linked(hp, g) /\ Linked(hp, h)
         /\ f = FieldsOf(hp, g.list) /\ o = FieldsOf(hp, h.list) /\ n = Cardinality(DOMAIN hp)
         /\ g \in Containers /\ h \in Containers
         /\ st.heap = hp /\ st.hs[i] = g /\ st.hs[3 - i] = h
<1>1. /\ st = StoreOf(i, g, h, hp) /\ Pair(hp, g, h)
      /\ f = FieldsOf(hp, g.list) /\ o = FieldsOf(hp, h.list) /\ n = Cardinality(DOMAIN hp)
  BY Zenon DEF Made
<1>2. Linked(hp, g) /\ Linked(hp, h)
  BY <1>1, Zenon DEF Pair
<1>3. g \in Containers /\ h \in Containers
  BY <1>2, Zenon DEF Linked
<1>4. st.heap = hp /\ st.hs[i] = g /\ st.hs[3 - i] = h
  <2>1. /\ StoreOf(i, g, h, hp).heap = hp /\ StoreOf(i, g, h, hp).hs[i] = g
        /\ StoreOf(i, g, h, hp).hs[3 - i] = h
    BY StoreOfIs
  <2>. QED BY <1>1, <2>1, Zenon
<1>. QED BY <1>1, <1>2, <1>3, <1>4, Zenon

\* The number of elements and what the fields are.
LEMMA ShowsFacts ==
  ASSUME NEW st, NEW i \in Both, NEW f, NEW o, NEW n, Shows(st, i, f, o, n)
  PROVE  /\ n \in Nat /\ n <= MaxElems /\ n = Cardinality(DOMAIN st.heap)
         /\ Len(f) \in Nat /\ Len(f) = Len(st.hs[i].list)
         /\ Len(o) \in Nat /\ Len(o) = Len(st.hs[3 - i].list)
         /\ st.hs[i].alloc \in Both /\ st.hs[3 - i].alloc \in Both
<1>1. PICK g, h, hp : Made(st, i, g, h, hp, f, o, n)
  BY ShowsMade
<1>2. /\ Pair(hp, g, h) /\ Linked(hp, g) /\ Linked(hp, h) /\ n = Cardinality(DOMAIN hp)
      /\ f = FieldsOf(hp, g.list) /\ o = FieldsOf(hp, h.list)
      /\ st.heap = hp /\ st.hs[i] = g /\ st.hs[3 - i] = h
  BY <1>1, MadeFacts
<1>3. n \in Nat /\ n <= MaxElems
  <2>1. DOMAIN hp \in SUBSET (1 .. MaxElems + 1) /\ Cardinality(DOMAIN hp) <= MaxElems
    BY <1>2, Zenon DEF Pair, HeapOK
  <2>2. Cardinality(DOMAIN hp) \in Nat
    BY <2>1, HeapSize
  <2>. QED BY <1>2, <2>1, <2>2, Zenon
<1>4. /\ Len(FieldsOf(hp, g.list)) = Len(g.list) /\ Len(g.list) \in Nat
      /\ Len(FieldsOf(hp, h.list)) = Len(h.list) /\ Len(h.list) \in Nat
  BY <1>2, FieldsLength
<1>5. g.alloc \in Both /\ h.alloc \in Both
  BY <1>2, LinkedFacts
<1>. QED BY <1>2, <1>3, <1>4, <1>5, Zenon

LEMMA ShowsOther ==
  ASSUME NEW st, NEW i \in Both, NEW f, NEW o, NEW n, Shows(st, i, f, o, n)
  PROVE  Shows(st, 3 - i, o, f, n)
<1>1. PICK g, h, hp : Made(st, i, g, h, hp, f, o, n)
  BY ShowsMade
<1>2. Pair(hp, h, g)
  <2>1. Pair(hp, g, h)
    BY <1>1, MadeFacts
  <2>. QED BY <2>1, PairOther
<1>3. StoreOf(i, g, h, hp) = StoreOf(3 - i, h, g, hp)
  BY StoreOther
<1>4. Made(st, 3 - i, h, g, hp, o, f, n)
  BY <1>1, <1>2, <1>3, Zenon DEF Made
<1>. QED BY <1>4, MadeShows

Entered(sn, st, i, f, name, value, o, n) ==
  /\ Shows(sn, i, Append(f, [name |-> name, value |-> trim(value)]), o, n + 1)
  /\ sn.hs[3 - i] = st.hs[3 - i]

LEMMA ShowsInsert ==
  ASSUME NEW st, NEW i \in Both, NEW f, NEW o, NEW n, Shows(st, i, f, o, n), n < MaxElems,
         NEW name \in Names, NEW value, trim(value) \in Trimmed
  PROVE  Entered(insert(st, i, name, value), st, i, f, name, value, o, n)
<1>1. PICK g, h, hp : Made(st, i, g, h, hp, f, o, n)
  BY ShowsMade
<1>2. /\ st = StoreOf(i, g, h, hp) /\ Pair(hp, g, h) /\ n = Cardinality(DOMAIN hp)
      /\ f = FieldsOf(hp, g.list) /\ o = FieldsOf(hp, h.list)
      /\ g \in Containers /\ st.hs[3 - i] = h
  BY <1>1, MadeFacts
<1>3. PICK v : v = trim(value)
  OBVIOUS
<1>4. PICK k, hq : k = Longer(hp, g, name) /\ hq = More(hp, NextElem(hp), NewFor(g, name, v))
  OBVIOUS
<1>6. insert(st, i, name, value) = StoreOf(i, k, h, hq)
  <2>1. insert(StoreOf(i, g, h, hp), i, name, value) =
          StoreOf(i, Longer(hp, g, name), h, More(hp, NextElem(hp), NewFor(g, name, trim(value))))
    BY <1>2, StoreInsert
  <2>. QED BY <1>2, <1>3, <1>4, <2>1, Zenon
<1>7. Adds(hp, g, h, name, v, hq, k)
  <2>1. Cardinality(DOMAIN hp) < MaxElems /\ v \in Trimmed
    BY <1>2, <1>3
  <2>. QED BY <1>2, <1>4, <2>1, PairInsert
<1>8. Made(insert(st, i, name, value), i, k, h, hq, Append(f, [name |-> name, value |-> trim(value)]), o, n + 1)
  BY <1>3, <1>6, <1>7, <1>2, Zenon DEF Made, Adds
<1>9. insert(st, i, name, value).hs[3 - i] = h
  BY <1>8, MadeFacts
<1>10. Shows(insert(st, i, name, value), i, Append(f, [name |-> name, value |-> trim(value)]), o, n + 1)
  BY <1>8, MadeShows
<1>. QED BY <1>2, <1>9, <1>10, Zenon DEF Entered

\* Elements leave the i-th container.
Reduced(st, i, g, h, gone, f, o, n) ==
  /\ Shows(Drop(st, i, gone), i,
           Only(f, {k \in 1 .. Len(g.list) : g.list[k] \notin gone}), o, n - Cardinality(gone))
  /\ Cardinality(gone) \in Nat
  /\ Drop(st, i, gone).hs[3 - i] = h /\ Drop(st, i, gone).hs[i].alloc = g.alloc

LEMMA ShowsDrop ==
  ASSUME NEW st, NEW i \in Both, NEW g, NEW h, NEW hp, NEW f, NEW o, NEW n,
         Made(st, i, g, h, hp, f, o, n), NEW gone \in SUBSET Range(g.list)
  PROVE  Reduced(st, i, g, h, gone, f, o, n)
<1>1. /\ st = StoreOf(i, g, h, hp) /\ Pair(hp, g, h) /\ n = Cardinality(DOMAIN hp)
      /\ f = FieldsOf(hp, g.list) /\ o = FieldsOf(hp, h.list)
      /\ g \in Containers
  BY MadeFacts
<1>2. PICK k, hq : k = Shorter(g, gone) /\ hq = Less(hp, gone)
  OBVIOUS
<1>3. Drop(st, i, gone) = StoreOf(i, k, h, hq)
  <2>1. Drop(StoreOf(i, g, h, hp), i, gone) = StoreOf(i, Shorter(g, gone), h, Less(hp, gone))
    BY <1>1, StoreDrop
  <2>. QED BY <1>1, <1>2, <2>1, Zenon
<1>4. Removes(hp, g, h, gone, hq, k)
  BY <1>1, <1>2, PairDrop
<1>5. PICK fs : fs = Only(f, {j \in 1 .. Len(g.list) : g.list[j] \notin gone})
  OBVIOUS
<1>6. /\ Made(Drop(st, i, gone), i, k, h, hq, fs, o, n - Cardinality(gone))
      /\ Cardinality(gone) \in Nat
  BY <1>1, <1>3, <1>4, <1>5, Zenon DEF Made, Removes
<1>7. Shows(Drop(st, i, gone), i, fs, o, n - Cardinality(gone))
  BY <1>6, MadeShows
<1>8. Drop(st, i, gone).hs[3 - i] = h /\ Drop(st, i, gone).hs[i] = k
  BY <1>6, MadeFacts
<1>9. k.alloc = g.alloc
  BY <1>2 DEF Shorter
<1>. QED BY <1>5, <1>6, <1>7, <1>8, <1>9, Zenon DEF Reduced

LEMMA ShowsErase ==
  ASSUME NEW st, NEW i \in Both, NEW f, NEW o, NEW n, Shows(st, i, f, o, n), NEW name \in Names
  PROVE  \E m \in Nat : m <= n /\ Shows(erase(st, i, name), i, Others(f, name), o, m)
<1>1. PICK g, h, hp : Made(st, i, g, h, hp, f, o, n)
  BY ShowsMade
<1>2. /\ Linked(hp, g) /\ f = FieldsOf(hp, g.list)
      /\ st.heap = hp /\ st.hs[i] = g
  BY <1>1, MadeFacts
<1>3. PICK gone : gone = Range(Matching(hp, g, name))
  OBVIOUS
<1>4. /\ gone \in SUBSET Range(g.list)
      /\ Others(f, name) = Only(f, {k \in 1 .. Len(g.list) : g.list[k] \notin gone})
  <2>1. LET away == Range(Matching(hp, g, name))
        IN  /\ away \subseteq Range(g.list)
            /\ Others(FieldsOf(hp, g.list), name) =
                 Only(FieldsOf(hp, g.list), {k \in 1 .. Len(g.list) : g.list[k] \notin away})
    BY <1>2, OthersIs, Zenon
  <2>. QED BY <1>2, <1>3, <2>1, Zenon
<1>5. /\ Shows(Drop(st, i, gone), i,
               Only(f, {k \in 1 .. Len(g.list) : g.list[k] \notin gone}), o,
               n - Cardinality(gone))
      /\ Cardinality(gone) \in Nat
  <2>1. Reduced(st, i, g, h, gone, f, o, n)
    BY <1>1, <1>4, ShowsDrop
  <2>. QED BY <2>1, Zenon DEF Reduced
<1>6. PICK m : m = n - Cardinality(gone)
  OBVIOUS
<1>7. Drop(st, i, gone) = erase(st, i, name)
  BY <1>2, <1>3, Zenon DEF erase
<1>8. Shows(erase(st, i, name), i, Others(f, name), o, m)
  BY <1>4, <1>5, <1>6, <1>7, Zenon
<1>9. n \in Nat /\ m \in Nat
  BY <1>8, ShowsFacts
<1>10. m <= n
  BY <1>5, <1>6, <1>9
<1>. QED BY <1>8, <1>9, <1>10, Zenon

LEMMA ShowsClear ==
  ASSUME NEW st, NEW i \in Both, NEW f, NEW o, NEW n, Shows(st, i, f, o, n)
  PROVE  /\ Shows(clear(st, i), i, << >>, o, n - Len(f))
         /\ clear(st, i).hs[3 - i] = st.hs[3 - i] /\ clear(st, i).hs[i].alloc = st.hs[i].alloc
<1>1. PICK g, h, hp : Made(st, i, g, h, hp, f, o, n)
  BY ShowsMade
<1>2. /\ Linked(hp, g) /\ f = FieldsOf(hp, g.list)
      /\ st.heap = hp /\ st.hs[i] = g /\ st.hs[3 - i] = h
  BY <1>1, MadeFacts
<1>3. PICK gone, l : gone = Range(g.list) /\ l = g.list
  OBVIOUS
<1>4. l \in Seq(Nat) /\ Distinct(l)
  BY <1>2, <1>3 DEF Linked, Containers
<1>5. Cardinality(gone) = Len(f)
  <2>1. Cardinality(Range(l)) = Len(l)
    BY <1>4, DistinctSize
  <2>2. Len(f) = Len(l)
    BY <1>2, <1>3, FieldsLength
  <2>. QED BY <1>3, <2>1, <2>2, Zenon
<1>6. {k \in 1 .. Len(g.list) : g.list[k] \notin gone} = {}
  <2>1. \A k \in 1 .. Len(l) : l[k] \in Range(l)
    BY <1>4, RangeIs
  <2>. QED BY <1>3, <2>1, Zenon
<1>7. Only(f, {}) = << >>
  <2>1. Cardinality({}) = 0 /\ 1 .. 0 = {}
    BY FS_EmptySet
  <2>2. PICK p : p = InOrder({})
    OBVIOUS
  <2>3. Only(f, {}) = [k \in 1 .. 0 |-> f[p[k]]]
    BY <2>1, <2>2, Zenon DEF Only
  <2>. QED BY <2>1, <2>3
<1>8. /\ Shows(Drop(st, i, gone), i,
               Only(f, {k \in 1 .. Len(g.list) : g.list[k] \notin gone}), o,
               n - Cardinality(gone))
      /\ Drop(st, i, gone).hs[3 - i] = h /\ Drop(st, i, gone).hs[i].alloc = g.alloc
  <2>1. gone \in SUBSET Range(g.list)
    BY <1>3
  <2>2. Reduced(st, i, g, h, gone, f, o, n)
    BY <1>1, <2>1, ShowsDrop
  <2>. QED BY <2>2, Zenon DEF Reduced
<1>9. Drop(st, i, gone) = clear(st, i)
  BY <1>2, <1>3, Zenon DEF clear
<1>. QED BY <1>2, <1>5, <1>6, <1>7, <1>8, <1>9, Zenon

\* The allocator of an empty container.
LEMMA ShowsAlloc ==
  ASSUME NEW st, NEW i \in Both, NEW o, NEW n, Shows(st, i, << >>, o, n), NEW a \in Both
  PROVE  /\ Shows(PutAlloc(st, i, a), i, << >>, o, n)
         /\ PutAlloc(st, i, a).hs[3 - i] = st.hs[3 - i] /\ PutAlloc(st, i, a).hs[i].alloc = a
<1>1. PICK g, h, hp : Made(st, i, g, h, hp, << >>, o, n)
  BY ShowsMade
<1>2. /\ st = StoreOf(i, g, h, hp) /\ Pair(hp, g, h) /\ Linked(hp, g) /\ n = Cardinality(DOMAIN hp)
      /\ FieldsOf(hp, g.list) = << >> /\ o = FieldsOf(hp, h.list) /\ st.hs[3 - i] = h
  BY <1>1, MadeFacts
<1>3. g = Bare(g.alloc) /\ g.alloc \in Both
  BY <1>2, NothingShown
<1>4. PICK b : b = g.alloc
  OBVIOUS
<1>5. Pair(hp, Bare(a), h)
  <2>1. Pair(hp, Bare(b), h) /\ b \in Both
    BY <1>2, <1>3, <1>4, Zenon
  <2>. QED BY <2>1, PairEmpty
<1>6. PutAlloc(st, i, a) = StoreOf(i, Bare(a), h, hp)
  <2>1. PutAlloc(StoreOf(i, Container(<< >>, << >>, b), h, hp), i, a) =
          StoreOf(i, Container(<< >>, << >>, a), h, hp)
    BY PutAllocIs
  <2>2. Container(<< >>, << >>, b) = g /\ Container(<< >>, << >>, a) = Bare(a)
    BY <1>3, <1>4, Zenon DEF Container, Bare
  <2>. QED BY <1>2, <2>1, <2>2, Zenon
<1>7. FieldsOf(hp, Bare(a).list) = << >> /\ Bare(a).alloc = a
  BY EmptyIs
<1>8. Made(PutAlloc(st, i, a), i, Bare(a), h, hp, << >>, o, n)
  BY <1>2, <1>5, <1>6, <1>7, Zenon DEF Made
<1>9. PutAlloc(st, i, a).hs[3 - i] = h /\ PutAlloc(st, i, a).hs[i] = Bare(a)
  BY <1>8, MadeFacts
<1>10. Shows(PutAlloc(st, i, a), i, << >>, o, n)
  BY <1>8, MadeShows
<1>. QED BY <1>2, <1>7, <1>9, <1>10, Zenon

\* The links move when the elements can stay with the same allocator.
LEMMA ShowsSteal ==
  ASSUME NEW st, NEW i \in Both, NEW o, NEW n, Shows(st, i, << >>, o, n),
         st.hs[i].alloc = st.hs[3 - i].alloc
  PROVE  Shows(Steal(st, i, 3 - i), i, o, << >>, n)
<1>1. PICK g, h, hp : Made(st, i, g, h, hp, << >>, o, n)
  BY ShowsMade
<1>2. /\ st = StoreOf(i, g, h, hp) /\ Pair(hp, g, h) /\ Linked(hp, g) /\ n = Cardinality(DOMAIN hp)
      /\ FieldsOf(hp, g.list) = << >> /\ o = FieldsOf(hp, h.list)
      /\ st.hs[i] = g /\ st.hs[3 - i] = h /\ g \in Containers /\ h \in Containers
  BY <1>1, MadeFacts
<1>3. g = Bare(g.alloc) /\ g.alloc \in Both /\ h.alloc = g.alloc
  BY <1>2, NothingShown
<1>4. Container(h.list, h.set, g.alloc) = h
  BY <1>2, <1>3 DEF Containers, Container
<1>5. Steal(st, i, 3 - i) = StoreOf(i, h, g, hp)
  <2>1. Steal(StoreOf(i, g, h, hp), i, 3 - i) =
          StoreOf(i, Container(h.list, h.set, g.alloc), Bare(h.alloc), hp)
    BY <1>2, StoreSteal
  <2>. QED BY <1>2, <1>3, <1>4, <2>1, Zenon
<1>6. Pair(hp, h, g)
  BY <1>2, PairOther
<1>7. Made(Steal(st, i, 3 - i), i, h, g, hp, o, << >>, n)
  BY <1>2, <1>5, <1>6, Zenon DEF Made
<1>. QED BY <1>7, MadeShows

\* The memory of an element that was not constructed.
LEMMA ShowsRaw ==
  ASSUME NEW st, NEW i \in Both, NEW f, NEW o, NEW n, Shows(st, i, f, o, n), n < MaxElems
  PROVE  Shows([hs |-> st.hs, heap |-> More(st.heap, NextElem(st.heap), Raw)], i, f, o, n + 1)
<1>1. PICK g, h, hp : Made(st, i, g, h, hp, f, o, n)
  BY ShowsMade
<1>2. /\ st = StoreOf(i, g, h, hp) /\ Pair(hp, g, h) /\ n = Cardinality(DOMAIN hp)
      /\ f = FieldsOf(hp, g.list) /\ o = FieldsOf(hp, h.list) /\ st.heap = hp
  <2>1. st.heap = hp
    BY <1>1, MadeFacts
  <2>. QED BY <1>1, <2>1, Zenon DEF Made
<1>3. PICK hq : hq = More(hp, NextElem(hp), Raw)
  OBVIOUS
<1>4. /\ Pair(hq, g, h) /\ FieldsOf(hq, g.list) = FieldsOf(hp, g.list)
      /\ FieldsOf(hq, h.list) = FieldsOf(hp, h.list)
  BY <1>2, <1>3, PairRaw
<1>5. Cardinality(DOMAIN hq) = n + 1
  <2>1. HeapOK(hp)
    BY <1>2, Zenon DEF Pair
  <2>2. Grown(hp, hq, NextElem(hp), Raw)
    BY <1>2, <1>3, <2>1, MoreIs
  <2>. QED BY <1>2, <2>2, Zenon DEF Grown
<1>6. st.hs = Couple(i, g, h)
  BY <1>2 DEF StoreOf
<1>7. [hs |-> st.hs, heap |-> hq] = StoreOf(i, g, h, hq)
  BY <1>6, Zenon DEF StoreOf
<1>8. Made([hs |-> st.hs, heap |-> hq], i, g, h, hq, f, o, n + 1)
  BY <1>2, <1>4, <1>5, <1>7, Zenon DEF Made
<1>9. Shows([hs |-> st.hs, heap |-> hq], i, f, o, n + 1)
  BY <1>8, MadeShows
<1>. QED BY <1>2, <1>3, <1>9, Zenon

\* The element behind a field of the other container.
IsBehind(el, fld) == el.name \in Names /\ el.value \in Trimmed /\ fld = Field(el)

LEMMA ShownAt ==
  ASSUME NEW st, NEW i \in Both, NEW f, NEW o, NEW n, Shows(st, i, f, o, n), NEW k \in 1 .. Len(o)
  PROVE  IsBehind(st.heap[st.hs[3 - i].list[k]], o[k])
<1>1. PICK g, h, hp : Made(st, i, g, h, hp, f, o, n)
  BY ShowsMade
<1>2. Linked(hp, h) /\ o = FieldsOf(hp, h.list) /\ st.heap = hp /\ st.hs[3 - i] = h
  BY <1>1, MadeFacts
<1>3. k \in 1 .. Len(h.list)
  BY <1>2, FieldsLength
<1>4. PICK e : e = h.list[k]
  OBVIOUS
<1>5. e \in Range(h.list)
  BY <1>2, <1>3, <1>4, LinkedFacts
<1>6. hp[e] \in Elements
  BY <1>2, <1>5, Zenon DEF Linked
<1>7. hp[e].name \in Names /\ hp[e].value \in Trimmed
  BY <1>6 DEF Elements
<1>8. o[k] = Field(hp[e])
  BY <1>2, <1>3, <1>4, Zenon DEF FieldsOf, Field
<1>. QED BY <1>2, <1>4, <1>7, <1>8, Zenon DEF IsBehind

\* The first fields.
FirstOnes(o, k) == [j \in 1 .. k |-> o[j]]

LEMMA FrontGrows ==
  ASSUME NEW o, NEW k \in Nat
  PROVE  Append(FirstOnes(o, k), o[k + 1]) = FirstOnes(o, k + 1)
<1>1. PICK s, e, T : s = FirstOnes(o, k) /\ e = o[k + 1] /\ T = {o[j] : j \in 1 .. k + 1}
  OBVIOUS
<1>2. \A j \in 1 .. k + 1 : o[j] \in T
  BY <1>1
<1>3. k + 1 \in 1 .. k + 1 /\ \A j \in 1 .. k : j \in 1 .. k + 1
  OBVIOUS
<1>4. e \in T /\ s \in [1 .. k -> T] /\ \A j \in 1 .. k : s[j] = o[j]
  <2>1. e \in T /\ \A j \in 1 .. k : o[j] \in T
    BY <1>1, <1>2, <1>3, Zenon
  <2>2. s = [j \in 1 .. k |-> o[j]]
    BY <1>1, Zenon DEF FirstOnes
  <2>. HIDE <1>1
  <2>. QED BY <2>1, <2>2
<1>5. s \in Seq(T) /\ Len(s) = k
  <2>. HIDE <1>1
  <2>. QED BY <1>4
<1>6. PICK t : t = Append(s, e)
  OBVIOUS
<1>7. t \in Seq(T) /\ Len(t) = k + 1 /\ t[k + 1] = e /\ \A j \in 1 .. k : t[j] = s[j]
  <2>. HIDE <1>1
  <2>. QED BY <1>4, <1>5, <1>6, AppendProperties
<1>8. t = [j \in 1 .. k + 1 |-> t[j]]
  <2>. HIDE <1>1, <1>6
  <2>. QED BY <1>7
<1>9. \A j \in 1 .. k + 1 : t[j] = o[j]
  <2>1. \A j \in 1 .. k + 1 : j = k + 1 \/ j \in 1 .. k
    OBVIOUS
  <2>. QED BY <1>1, <1>4, <1>7, <2>1, Zenon
<1>10. t = [j \in 1 .. k + 1 |-> o[j]]
  BY <1>8, <1>9, Zenon
<1>. QED BY <1>1, <1>6, <1>10, Zenon DEF FirstOnes

\* copy_from() inserts one field after the other.
CopyStep(i, from, k, s) == insert(s, i, s.heap[from[k]].name, s.heap[from[k]].value)

IsCopy(g, st, i, from, n) ==
  g = [k \in 0 .. n |-> IF k = 0 THEN st ELSE CopyStep(i, from, k, g[k - 1])]

LEMMA CopyExists ==
  ASSUME NEW st, NEW i, NEW from, NEW n \in Nat
  PROVE  \E g : IsCopy(g, st, i, from, n)
<1> DEFINE S == {m \in Nat : \E g : IsCopy(g, st, i, from, m)}
<1>1. 0 \in S
  <2>1. PICK g : g = [k \in 0 .. 0 |-> st]
    OBVIOUS
  <2>2. \A k \in 0 .. 0 : k = 0
    OBVIOUS
  <2>3. g = [k \in 0 .. 0 |-> IF k = 0 THEN st ELSE CopyStep(i, from, k, g[k - 1])]
    BY <2>1, <2>2, Zenon
  <2>4. IsCopy(g, st, i, from, 0)
    BY <2>3, Zenon DEF IsCopy
  <2>. QED BY <2>4
<1>2. ASSUME NEW m \in Nat, m \in S PROVE m + 1 \in S
  <2>1. PICK g : IsCopy(g, st, i, from, m)
    BY <1>2
  <2>2. PICK h : h = [k \in 0 .. m + 1 |-> IF k = m + 1 THEN CopyStep(i, from, m + 1, g[m]) ELSE g[k]]
    OBVIOUS
  <2>3. \A k \in 0 .. m : g[k] = IF k = 0 THEN st ELSE CopyStep(i, from, k, g[k - 1])
    BY <2>1 DEF IsCopy
  <2>4. ASSUME NEW k \in 0 .. m + 1
        PROVE  h[k] = IF k = 0 THEN st ELSE CopyStep(i, from, k, h[k - 1])
    <3>1. CASE k = m + 1
      <4>1. k # 0 /\ k - 1 = m /\ m \in 0 .. m + 1 /\ m # m + 1
        BY <3>1
      <4>2. h[k] = CopyStep(i, from, k, g[m]) /\ h[m] = g[m]
        BY <2>2, <3>1, <4>1, Zenon
      <4>. QED BY <4>1, <4>2, Zenon
    <3>2. CASE k # m + 1 /\ k # 0
      <4>1. k \in 0 .. m /\ k - 1 \in 0 .. m + 1 /\ k - 1 # m + 1
        BY <3>2
      <4>2. h[k] = g[k] /\ h[k - 1] = g[k - 1]
        BY <2>2, <3>2, <4>1, Zenon
      <4>3. g[k] = CopyStep(i, from, k, g[k - 1])
        BY <2>3, <3>2, <4>1, Zenon
      <4>. QED BY <3>2, <4>2, <4>3, Zenon
    <3>3. CASE k # m + 1 /\ k = 0
      <4>1. k \in 0 .. m
        BY <3>3
      <4>2. h[k] = g[k]
        BY <2>2, <3>3, Zenon
      <4>3. g[k] = st
        BY <2>3, <3>3, <4>1, Zenon
      <4>. QED BY <3>3, <4>2, <4>3, Zenon
    <3>. QED BY <3>1, <3>2, <3>3, Zenon
  <2>5. h = [k \in 0 .. m + 1 |-> h[k]]
    BY <2>2
  <2>6. h = [k \in 0 .. m + 1 |-> IF k = 0 THEN st ELSE CopyStep(i, from, k, h[k - 1])]
    BY <2>4, <2>5, Zenon
  <2>7. IsCopy(h, st, i, from, m + 1)
    BY <2>6, Zenon DEF IsCopy
  <2>. QED BY <2>7
<1>3. \A m \in Nat : m \in S => m + 1 \in S
  BY <1>2
<1>4. \A m \in Nat : m \in S
  <2>. HIDE DEF S
  <2>. QED BY <1>1, <1>3, NatSetInduction
<1>. QED BY <1>4

LEMMA CopyFromIs ==
  ASSUME NEW st, NEW i, NEW j, Len(st.hs[j].list) \in Nat
  PROVE  \E g : /\ IsCopy(g, st, i, st.hs[j].list, Len(st.hs[j].list))
                /\ copy_from(st, i, j) = g[Len(st.hs[j].list)]
<1>1. PICK from, n : from = st.hs[j].list /\ n = Len(st.hs[j].list)
  OBVIOUS
<1> DEFINE P(g) == g = [k \in 0 .. n |->
             IF k = 0 THEN st
             ELSE LET s == g[k - 1]
                  IN  insert(s, i, s.heap[from[k]].name, s.heap[from[k]].value)]
           a == CHOOSE g : P(g)
<1>2. copy_from(st, i, j) = a[n]
  BY <1>1, Zenon DEF copy_from
<1>3. \A g : P(g) <=> IsCopy(g, st, i, from, n)
  BY Zenon DEF IsCopy, CopyStep
<1>4. \E g : P(g)
  <2>1. n \in Nat
    BY <1>1
  <2>2. PICK g : IsCopy(g, st, i, from, n)
    BY <2>1, CopyExists
  <2>. QED BY <1>3, <2>2, Zenon
<1>5. P(a)
  <2>. HIDE DEF P
  <2>. QED BY <1>4, Zenon
<1>6. IsCopy(a, st, i, from, n)
  BY <1>3, <1>5, Zenon
<1>. HIDE DEF a
<1>. QED BY <1>1, <1>2, <1>6, Zenon

LEMMA CopyShows ==
  ASSUME NEW st, NEW i \in Both, NEW o, NEW n, Shows(st, i, << >>, o, n),
         n + Len(o) <= MaxElems, NEW g, IsCopy(g, st, i, st.hs[3 - i].list, Len(o)),
         NEW k \in 0 .. Len(o)
  PROVE  Shows(g[k], i, FirstOnes(o, k), o, n + k) /\ g[k].hs[3 - i] = st.hs[3 - i]
<1>0. PICK l, from : l = Len(o) /\ from = st.hs[3 - i].list
  OBVIOUS
<1>1. l \in Nat /\ n \in Nat /\ n + l <= MaxElems
  BY <1>0, ShowsFacts
<1> DEFINE Ok(m) == /\ Shows(g[m], i, FirstOnes(o, m), o, n + m)
                    /\ g[m].hs[3 - i] = st.hs[3 - i]
           S == {m \in Nat : m <= l => Ok(m)}
<1>2. \A m \in 0 .. l : g[m] = IF m = 0 THEN st ELSE CopyStep(i, from, m, g[m - 1])
  <2>1. g = [m \in 0 .. l |-> IF m = 0 THEN st ELSE CopyStep(i, from, m, g[m - 1])]
    BY <1>0, Zenon DEF IsCopy
  <2>. QED BY <2>1, Zenon
<1>3. Ok(0)
  <2>1. g[0] = st
    BY <1>1, <1>2
  <2>2. FirstOnes(o, 0) = << >> /\ n + 0 = n
    BY <1>1 DEF FirstOnes
  <2>. QED BY <2>1, <2>2, Zenon
<1>4. ASSUME NEW m \in Nat, m + 1 <= l, Ok(m) PROVE Ok(m + 1)
  <2>1. PICK s, el : s = g[m] /\ el = s.heap[from[m + 1]]
    OBVIOUS
  <2>2. Shows(s, i, FirstOnes(o, m), o, n + m) /\ s.hs[3 - i] = st.hs[3 - i]
    BY <1>4, <2>1, Zenon
  <2>3. m + 1 \in 1 .. Len(o) /\ m + 1 \in 0 .. l /\ m + 1 # 0 /\ (m + 1) - 1 = m
    BY <1>0, <1>1, <1>4
  <2>4. el.name \in Names /\ el.value \in Trimmed /\ o[m + 1] = Field(el)
    <3>1. IsBehind(s.heap[s.hs[3 - i].list[m + 1]], o[m + 1])
      BY <2>2, <2>3, ShownAt
    <3>. QED BY <1>0, <2>1, <2>2, <3>1, Zenon DEF IsBehind
  <2>5. g[m + 1] = insert(s, i, el.name, el.value)
    <3>1. g[m + 1] = CopyStep(i, from, m + 1, s)
      BY <1>2, <2>1, <2>3, Zenon
    <3>. QED BY <2>1, <3>1, Zenon DEF CopyStep
  <2>6. trim(el.value) = el.value
    BY <2>4, TrimIs
  <2>7. n + m < MaxElems /\ n + m + 1 = n + (m + 1)
    BY <1>1, <1>4, HeadersAssumption
  <2>8. Entered(insert(s, i, el.name, el.value), s, i, FirstOnes(o, m), el.name, el.value, o, n + m)
    <3>1. trim(el.value) \in Trimmed
      BY <2>4, <2>6, Zenon
    <3>2. PICK c : c = n + m
      OBVIOUS
    <3>3. Shows(s, i, FirstOnes(o, m), o, c) /\ c < MaxElems
      BY <2>2, <2>7, <3>2, Zenon
    <3>4. Entered(insert(s, i, el.name, el.value), s, i, FirstOnes(o, m), el.name, el.value, o, c)
      BY <2>4, <3>1, <3>3, ShowsInsert
    <3>. QED BY <3>2, <3>4, Zenon
  <2>9. Append(FirstOnes(o, m), [name |-> el.name, value |-> trim(el.value)]) = FirstOnes(o, m + 1)
    <3>1. [name |-> el.name, value |-> trim(el.value)] = o[m + 1]
      BY <2>4, <2>6, Zenon DEF Field
    <3>2. Append(FirstOnes(o, m), o[m + 1]) = FirstOnes(o, m + 1)
      BY FrontGrows
    <3>. QED BY <3>1, <3>2, Zenon
  <2>. QED BY <2>2, <2>5, <2>7, <2>8, <2>9, Zenon DEF Entered
<1>. HIDE DEF Ok
<1>5. 0 \in S
  BY <1>3
<1>6. ASSUME NEW m \in Nat, m \in S PROVE m + 1 \in S
  <2>1. m + 1 <= l => m <= l
    BY <1>1
  <2>. QED BY <1>4, <1>6, <2>1
<1>7. \A m \in Nat : m \in S
  <2>1. \A m \in Nat : m \in S => m + 1 \in S
    BY <1>6
  <2>. HIDE DEF S
  <2>. QED BY <1>5, <2>1, NatSetInduction
<1>8. k \in Nat /\ k <= l
  BY <1>0, <1>1
<1>9. Ok(k)
  BY <1>7, <1>8
<1>. QED BY <1>9 DEF Ok

LEMMA FrontAll ==
  ASSUME NEW st, NEW i \in Both, NEW f, NEW o, NEW n, Shows(st, i, f, o, n)
  PROVE  FirstOnes(o, Len(o)) = o
<1>1. PICK g, h, hp : Made(st, i, g, h, hp, f, o, n)
  BY ShowsMade
<1>2. Linked(hp, h) /\ o = FieldsOf(hp, h.list)
  BY <1>1, Zenon DEF Made, Pair
<1>3. PICK m : m = Len(h.list)
  OBVIOUS
<1>4. Len(o) = m
  BY <1>2, <1>3, FieldsLength
<1>5. o = [k \in 1 .. m |-> o[k]]
  BY <1>2, <1>3 DEF FieldsOf
<1>. QED BY <1>4, <1>5, Zenon DEF FirstOnes

LEMMA ShowsCopy ==
  ASSUME NEW st, NEW i \in Both, NEW o, NEW n, Shows(st, i, << >>, o, n), n + Len(o) <= MaxElems
  PROVE  /\ Shows(copy_from(st, i, 3 - i), i, o, o, n + Len(o))
         /\ copy_from(st, i, 3 - i).hs[3 - i] = st.hs[3 - i]
<1>1. PICK l : l = Len(o)
  OBVIOUS
<1>2. l \in Nat /\ Len(st.hs[3 - i].list) = l
  BY <1>1, ShowsFacts
<1>3. PICK g : /\ IsCopy(g, st, i, st.hs[3 - i].list, Len(st.hs[3 - i].list))
               /\ copy_from(st, i, 3 - i) = g[Len(st.hs[3 - i].list)]
  BY <1>2, CopyFromIs
<1>4. IsCopy(g, st, i, st.hs[3 - i].list, Len(o)) /\ copy_from(st, i, 3 - i) = g[l]
  BY <1>1, <1>2, <1>3, Zenon
<1>5. l \in 0 .. Len(o)
  BY <1>1, <1>2
<1>6. Shows(g[l], i, FirstOnes(o, l), o, n + l) /\ g[l].hs[3 - i] = st.hs[3 - i]
  BY <1>4, <1>5, CopyShows
<1>7. FirstOnes(o, l) = o
  BY <1>1, FrontAll
<1>. QED BY <1>1, <1>4, <1>6, <1>7, Zenon

\* Nothing to copy.
LEMMA CopyNothing ==
  ASSUME NEW st, NEW i, NEW j, Len(st.hs[j].list) = 0 PROVE copy_from(st, i, j) = st
<1>1. PICK g : /\ IsCopy(g, st, i, st.hs[j].list, Len(st.hs[j].list))
               /\ copy_from(st, i, j) = g[Len(st.hs[j].list)]
  BY CopyFromIs
<1>2. PICK from : from = st.hs[j].list
  OBVIOUS
<1>3. g = [k \in 0 .. 0 |-> IF k = 0 THEN st ELSE CopyStep(i, from, k, g[k - 1])]
  BY <1>1, <1>2, Zenon DEF IsCopy
<1>4. 0 \in 0 .. 0
  OBVIOUS
<1>5. g[0] = st
  BY <1>3, <1>4, Zenon
<1>. QED BY <1>1, <1>5, Zenon

-----------------------------------------------------------------------------
(* The invariant of the containers, and that every operation keeps it.     *)

InvOf(st, fs) ==
  /\ fs = [x \in Both |-> fs[x]]
  /\ \E n : Shows(st, 1, fs[1], fs[2], n)

HeadersInv == InvOf(Store, fields)

LEMMA InvOfIs ==
  ASSUME NEW st, NEW i \in Both, NEW f, NEW o, NEW n, Shows(st, i, f, o, n)
  PROVE  InvOf(st, Couple(i, f, o))
<1>1. PICK fs : fs = Couple(i, f, o)
  OBVIOUS
<1>2. fs = [x \in Both |-> fs[x]]
  BY <1>1 DEF Couple
<1>3. CASE i = 1
  <2>1. fs[1] = f /\ fs[2] = o
    BY <1>1, <1>3 DEF Couple, Both
  <2>. QED BY <1>1, <1>2, <1>3, <2>1, Zenon DEF InvOf
<1>4. CASE i = 2
  <2>1. fs[2] = f /\ fs[1] = o
    BY <1>1, <1>4 DEF Couple, Both
  <2>2. Shows(st, 3 - i, o, f, n)
    BY ShowsOther
  <2>3. 3 - i = 1
    BY <1>4
  <2>. QED BY <1>1, <1>2, <2>1, <2>2, <2>3, Zenon DEF InvOf
<1>. QED BY <1>3, <1>4 DEF Both

LEMMA ShowsRecord ==
  ASSUME NEW st, NEW i, NEW f, NEW o, NEW n, Shows(st, i, f, o, n)
  PROVE  st = [hs |-> st.hs, heap |-> st.heap]
<1>1. PICK g, h, hp : Made(st, i, g, h, hp, f, o, n)
  BY ShowsMade
<1>2. st = [hs |-> Couple(i, g, h), heap |-> hp]
  BY <1>1, Zenon DEF Made, StoreOf
<1>. QED BY <1>2

LEMMA InvShows ==
  ASSUME HeadersInv, NEW i \in Both
  PROVE  /\ Shows(Store, i, fields[i], fields[3 - i], Cardinality(DOMAIN heap))
         /\ fields = [x \in Both |-> fields[x]]
<1>1. PICK n : Shows(Store, 1, fields[1], fields[2], n)
  BY Zenon DEF HeadersInv, InvOf
<1>2. Store.heap = heap
  BY DEF Store
<1>3. 1 \in Both
  BY DEF Both
<1>4. n = Cardinality(DOMAIN heap)
  <2>1. n = Cardinality(DOMAIN Store.heap)
    BY <1>1, <1>3, ShowsFacts
  <2>. QED BY <1>2, <2>1, Zenon
<1>5. CASE i = 1
  <2>1. 3 - i = 2
    BY <1>5
  <2>. QED BY <1>1, <1>4, <1>5, <2>1, Zenon DEF HeadersInv, InvOf
<1>6. CASE i = 2
  <2>1. 3 - 1 = 2 /\ 3 - i = 1
    BY <1>6
  <2>2. Shows(Store, 3 - 1, fields[2], fields[1], n)
    BY <1>1, <1>3, ShowsOther
  <2>. QED BY <1>4, <1>6, <2>1, <2>2, Zenon DEF HeadersInv, InvOf
<1>. QED BY <1>5, <1>6 DEF Both

\* What the step leaves is what the store and the reference show.
LEMMA Lands ==
  ASSUME NEW st, NEW i \in Both, NEW f, NEW o, NEW n, Shows(st, i, f, o, n),
         Becomes(st), fields' = Couple(i, f, o)
  PROVE  HeadersInv'
<1>1. InvOf(st, Couple(i, f, o))
  BY InvOfIs
<1>2. st = [hs |-> st.hs, heap |-> st.heap]
  BY ShowsRecord
<1>3. [hs |-> hs', heap |-> heap'] = st
  BY <1>2, Zenon DEF Becomes
<1>4. Store' = st
  BY <1>3, Zenon DEF Store
<1>. QED BY <1>1, <1>4, Zenon DEF HeadersInv

LEMMA ExceptOne ==
  ASSUME NEW fs, fs = [x \in Both |-> fs[x]], NEW i \in Both, NEW f
  PROVE  [fs EXCEPT ![i] = f] = Couple(i, f, fs[3 - i])
<1>1. \A x \in Both : x = i \/ x = 3 - i
  BY DEF Both
<1>. QED BY <1>1 DEF Couple

LEMMA ExceptBoth ==
  ASSUME NEW fs, fs = [x \in Both |-> fs[x]], NEW i \in Both, NEW f, NEW o
  PROVE  [fs EXCEPT ![i] = f, ![3 - i] = o] = Couple(i, f, o)
<1>1. 3 - i \in Both /\ 3 - i # i /\ \A x \in Both : x = i \/ x = 3 - i
  BY DEF Both
<1>. QED BY <1>1 DEF Couple

LEMMA InsertStep ==
  ASSUME HeadersInv, NEW i \in Both, NEW name \in Names, NEW value \in Values,
         Insert(i, name, value)
  PROVE  HeadersInv'
<1>1. PICK f, o, n : f = fields[i] /\ o = fields[3 - i] /\ n = Cardinality(DOMAIN heap)
  OBVIOUS
<1>2. Shows(Store, i, f, o, n) /\ fields = [x \in Both |-> fields[x]]
  BY <1>1, InvShows
<1>3. n \in Nat
  BY <1>2, ShowsFacts
<1>4. n < MaxElems
  BY <1>1, <1>3, HeadersAssumption DEF Insert, Room
<1>5. PICK v : v = [name |-> name, value |-> trim(value)]
  OBVIOUS
<1>6. Shows(insert(Store, i, name, value), i, Append(f, v), o, n + 1)
  <2>1. trim(value) \in Trimmed
    BY TrimIs
  <2>2. Entered(insert(Store, i, name, value), Store, i, f, name, value, o, n)
    BY <1>2, <1>4, <2>1, ShowsInsert
  <2>. QED BY <1>5, <2>2, Zenon DEF Entered
<1>7. fields' = Couple(i, Append(f, v), o)
  <2>1. fields' = [fields EXCEPT ![i] = Append(f, v)]
    BY <1>1, <1>2, <1>5 DEF Insert
  <2>. QED BY <1>1, <1>2, <2>1, ExceptOne
<1>8. Becomes(insert(Store, i, name, value))
  BY DEF Insert
<1>. QED BY <1>6, <1>7, <1>8, Lands

LEMMA InsertThrowsStep ==
  ASSUME HeadersInv, NEW i \in Both, InsertThrows(i)
  PROVE  HeadersInv'
<1>1. PICK f, o, n : f = fields[i] /\ o = fields[3 - i] /\ n = Cardinality(DOMAIN heap)
  OBVIOUS
<1>2. Shows(Store, i, f, o, n) /\ fields = [x \in Both |-> fields[x]]
  BY <1>1, InvShows
<1>3. n \in Nat
  BY <1>2, ShowsFacts
<1>4. n < MaxElems
  BY <1>1, <1>3, HeadersAssumption DEF InsertThrows, Room
<1>5. PICK st : st = [hs |-> Store.hs, heap |-> More(Store.heap, NextElem(Store.heap), Raw)]
  OBVIOUS
<1>6. Shows(st, i, f, o, n + 1)
  BY <1>2, <1>4, <1>5, ShowsRaw
<1>7. Store.hs = hs /\ Store.heap = heap
  BY DEF Store
<1>8. heap' = More(heap, NextElem(heap), Raw) /\ hs' = hs /\ fields' = fields
  BY Zenon DEF InsertThrows, More
<1>9. st.hs = hs /\ st.heap = More(heap, NextElem(heap), Raw)
  BY <1>5, <1>7
<1>10. Becomes(st)
  BY <1>8, <1>9, Zenon DEF Becomes
<1>11. fields' = Couple(i, f, o)
  <2>1. fields = [fields EXCEPT ![i] = f]
    BY <1>1, <1>2
  <2>2. [fields EXCEPT ![i] = f] = Couple(i, f, fields[3 - i])
    BY <1>2, ExceptOne
  <2>. QED BY <1>1, <1>8, <2>1, <2>2, Zenon
<1>. QED BY <1>6, <1>10, <1>11, Lands

LEMMA EraseStep ==
  ASSUME HeadersInv, NEW i \in Both, NEW name \in Names,
         Becomes(erase(Store, i, name)), fields' = [fields EXCEPT ![i] = Others(@, name)]
  PROVE  HeadersInv'
<1>1. PICK f, o, n : f = fields[i] /\ o = fields[3 - i] /\ n = Cardinality(DOMAIN heap)
  OBVIOUS
<1>2. Shows(Store, i, f, o, n) /\ fields = [x \in Both |-> fields[x]]
  BY <1>1, InvShows
<1>3. PICK m : Shows(erase(Store, i, name), i, Others(f, name), o, m)
  BY <1>2, ShowsErase
<1>4. fields' = Couple(i, Others(f, name), o)
  <2>1. fields' = [fields EXCEPT ![i] = Others(f, name)]
    BY <1>1, <1>2
  <2>. QED BY <1>1, <1>2, <2>1, ExceptOne
<1>. QED BY <1>3, <1>4, Lands

LEMMA ReplaceStep ==
  ASSUME HeadersInv, NEW i \in Both, NEW name \in Names, NEW value \in Values,
         Replace(i, name, value)
  PROVE  HeadersInv'
<1>1. PICK f, o, n : f = fields[i] /\ o = fields[3 - i] /\ n = Cardinality(DOMAIN heap)
  OBVIOUS
<1>2. Shows(Store, i, f, o, n) /\ fields = [x \in Both |-> fields[x]]
  BY <1>1, InvShows
<1>3. n \in Nat
  BY <1>2, ShowsFacts
<1>4. PICK st, g : st = erase(Store, i, name) /\ g = Others(f, name)
  OBVIOUS
<1>5. PICK m \in Nat : m <= n /\ Shows(st, i, g, o, m)
  BY <1>2, <1>4, ShowsErase
<1>6. m < MaxElems
  BY <1>1, <1>3, <1>5, HeadersAssumption DEF Replace, Room
<1>7. PICK w, v : w = trim(value) /\ v = [name |-> name, value |-> trim(value)]
  OBVIOUS
<1>8. Shows(insert(st, i, name, w), i, Append(g, v), o, m + 1)
  <2>1. w \in Trimmed /\ trim(w) = w
    BY <1>7, TrimIs
  <2>2. trim(w) \in Trimmed
    BY <2>1
  <2>3. Entered(insert(st, i, name, w), st, i, g, name, w, o, m)
    BY <1>5, <1>6, <2>2, ShowsInsert
  <2>4. v = [name |-> name, value |-> trim(w)]
    BY <1>7, <2>1, Zenon
  <2>. QED BY <2>3, <2>4, Zenon DEF Entered
<1>9. fields' = Couple(i, Append(g, v), o)
  <2>1. fields' = [fields EXCEPT ![i] = Append(g, v)]
    BY <1>1, <1>2, <1>4, <1>7 DEF Replace
  <2>. QED BY <1>1, <1>2, <2>1, ExceptOne
<1>10. Becomes(insert(st, i, name, w))
  BY <1>4, <1>7 DEF Replace
<1>. QED BY <1>8, <1>9, <1>10, Lands

LEMMA ClearStep ==
  ASSUME HeadersInv, NEW i \in Both, Clear(i)
  PROVE  HeadersInv'
<1>1. PICK f, o, n : f = fields[i] /\ o = fields[3 - i] /\ n = Cardinality(DOMAIN heap)
  OBVIOUS
<1>2. Shows(Store, i, f, o, n) /\ fields = [x \in Both |-> fields[x]]
  BY <1>1, InvShows
<1>3. Shows(clear(Store, i), i, << >>, o, n - Len(f))
  BY <1>2, ShowsClear
<1>4. fields' = Couple(i, << >>, o)
  <2>1. fields' = [fields EXCEPT ![i] = << >>]
    BY DEF Clear
  <2>. QED BY <1>1, <1>2, <2>1, ExceptOne
<1>5. Becomes(clear(Store, i))
  BY DEF Clear
<1>. QED BY <1>3, <1>4, <1>5, Lands

\* The allocator of the container that is assigned to.
LEMMA AllocPut ==
  ASSUME NEW s, NEW i, NEW j, NEW p
  PROVE  [s EXCEPT !.hs[i].alloc = IF p THEN s.hs[j].alloc ELSE @] =
           PutAlloc(s, i, IF p THEN s.hs[j].alloc ELSE s.hs[i].alloc)
<1>1. [s EXCEPT !.hs[i].alloc = IF p THEN s.hs[j].alloc ELSE @] =
        [s EXCEPT !.hs[i].alloc = IF p THEN s.hs[j].alloc ELSE s.hs[i].alloc]
  BY Zenon
<1>. QED BY <1>1, Zenon DEF PutAlloc

\* Both assignments clear the container first.
LEMMA Cleared ==
  ASSUME HeadersInv, NEW i \in Both, NEW s, s = clear(Store, i)
  PROVE  /\ Shows(s, i, << >>, fields[3 - i], Cardinality(DOMAIN heap) - Len(hs[i].list))
         /\ s.hs[i].alloc \in Both /\ s.hs[3 - i].alloc \in Both
         /\ Cardinality(DOMAIN heap) \in Nat /\ Len(hs[i].list) \in Nat
         /\ Len(fields[3 - i]) = Len(hs[3 - i].list) /\ Len(hs[3 - i].list) \in Nat
         /\ fields = [x \in Both |-> fields[x]]
<1>1. PICK f, o, n : f = fields[i] /\ o = fields[3 - i] /\ n = Cardinality(DOMAIN heap)
  OBVIOUS
<1>2. Shows(Store, i, f, o, n) /\ fields = [x \in Both |-> fields[x]]
  BY <1>1, InvShows
<1>3. Shows(s, i, << >>, o, n - Len(f))
  BY <1>2, ShowsClear
<1>4. Store.hs = hs
  BY DEF Store
<1>5. /\ n \in Nat /\ Len(f) \in Nat /\ Len(f) = Len(Store.hs[i].list)
      /\ Len(o) \in Nat /\ Len(o) = Len(Store.hs[3 - i].list)
  <2>1. PICK t : t = Store
    OBVIOUS
  <2>2. Shows(t, i, f, o, n)
    BY <1>2, <2>1, Zenon
  <2>3. n \in Nat
    BY <2>2, ShowsFacts
  <2>4. Len(f) \in Nat /\ Len(f) = Len(t.hs[i].list)
    BY <2>2, ShowsFacts
  <2>5. Len(o) \in Nat /\ Len(o) = Len(t.hs[3 - i].list)
    BY <2>2, ShowsFacts
  <2>. QED BY <2>1, <2>3, <2>4, <2>5, Zenon
<1>6. s.hs[i].alloc \in Both /\ s.hs[3 - i].alloc \in Both
  BY <1>3, ShowsFacts
<1>. QED BY <1>1, <1>2, <1>3, <1>4, <1>5, <1>6, Zenon

LEMMA CopyAssignStep ==
  ASSUME HeadersInv, NEW i \in Both, NEW p \in BOOLEAN, CopyAssign(i, p)
  PROVE  HeadersInv'
<1>1. PICK o, n, j : o = fields[3 - i] /\ n = Cardinality(DOMAIN heap) - Len(hs[i].list) /\ j = 3 - i
  OBVIOUS
<1>2. PICK s : s = clear(Store, i)
  OBVIOUS
<1>3. /\ Shows(s, i, << >>, o, n) /\ s.hs[i].alloc \in Both /\ s.hs[j].alloc \in Both
      /\ fields = [x \in Both |-> fields[x]]
  BY <1>1, <1>2, Cleared
<1>4. n + Len(o) <= MaxElems
  <2>1. PICK c, a, b : c = Cardinality(DOMAIN heap) /\ a = Len(hs[i].list) /\ b = Len(hs[3 - i].list)
    OBVIOUS
  <2>2. c \in Nat /\ a \in Nat /\ b \in Nat /\ Len(o) = b
    BY <1>1, <1>2, <2>1, Cleared
  <2>3. b + c <= MaxElems + a
    BY <2>1 DEF CopyAssign
  <2>4. n = c - a
    BY <1>1, <2>1
  <2>. QED BY <2>2, <2>3, <2>4, HeadersAssumption
<1>5. PICK a : a = IF p THEN s.hs[j].alloc ELSE s.hs[i].alloc
  OBVIOUS
<1>6. a \in Both
  BY <1>3, <1>5
<1>7. PICK t : t = PutAlloc(s, i, a)
  OBVIOUS
<1>8. Shows(t, i, << >>, o, n)
  BY <1>3, <1>6, <1>7, ShowsAlloc
<1>9. Shows(copy_from(t, i, 3 - i), i, o, o, n + Len(o))
  BY <1>4, <1>8, ShowsCopy
<1>10. copy_assign(Store, i, j, p) = copy_from(t, i, j)
  <2>1. copy_assign(Store, i, j, p) =
          copy_from([s EXCEPT !.hs[i].alloc = IF p THEN s.hs[j].alloc ELSE @], i, j)
    BY <1>2, Zenon DEF copy_assign
  <2>2. [s EXCEPT !.hs[i].alloc = IF p THEN s.hs[j].alloc ELSE @] = t
    <3>1. [s EXCEPT !.hs[i].alloc = IF p THEN s.hs[j].alloc ELSE @] =
            PutAlloc(s, i, IF p THEN s.hs[j].alloc ELSE s.hs[i].alloc)
      BY AllocPut
    <3>. QED BY <1>5, <1>7, <3>1, Zenon
  <2>. QED BY <2>1, <2>2, Zenon
<1>11. Becomes(copy_from(t, i, 3 - i))
  BY <1>1, <1>10, Zenon DEF CopyAssign
<1>12. fields' = Couple(i, o, o)
  <2>1. fields' = [fields EXCEPT ![i] = o]
    BY <1>1 DEF CopyAssign
  <2>. QED BY <1>1, <1>3, <2>1, ExceptOne
<1>. QED BY <1>9, <1>11, <1>12, Lands

LEMMA SelfAssignStep ==
  ASSUME HeadersInv, NEW i \in Both, SelfAssign(i)
  PROVE  HeadersInv'
<1>1. PICK o, n : o = fields[3 - i] /\ n = Cardinality(DOMAIN heap) - Len(hs[i].list)
  OBVIOUS
<1>2. PICK s : s = clear(Store, i)
  OBVIOUS
<1>3. /\ Shows(s, i, << >>, o, n) /\ s.hs[i].alloc \in Both
      /\ fields = [x \in Both |-> fields[x]]
  BY <1>1, <1>2, Cleared
<1>4. PICK t : t = PutAlloc(s, i, s.hs[i].alloc)
  OBVIOUS
<1>5. Shows(t, i, << >>, o, n)
  BY <1>3, <1>4, ShowsAlloc
<1>6. Len(t.hs[i].list) = 0
  <2>1. Len(<< >>) = Len(t.hs[i].list)
    BY <1>5, ShowsFacts
  <2>. QED BY <2>1
<1>7. copy_from(t, i, i) = t
  BY <1>6, CopyNothing
<1>8. copy_assign(Store, i, i, FALSE) = t
  <2>1. copy_assign(Store, i, i, FALSE) =
          copy_from([s EXCEPT !.hs[i].alloc = IF FALSE THEN s.hs[i].alloc ELSE @], i, i)
    BY <1>2, Zenon DEF copy_assign
  <2>2. [s EXCEPT !.hs[i].alloc = IF FALSE THEN s.hs[i].alloc ELSE @] =
          PutAlloc(s, i, IF FALSE THEN s.hs[i].alloc ELSE s.hs[i].alloc)
    BY AllocPut
  <2>. QED BY <1>4, <1>7, <2>1, <2>2, Zenon
<1>9. Becomes(t)
  BY <1>8, Zenon DEF SelfAssign
<1>10. fields' = Couple(i, << >>, o)
  <2>1. fields' = [fields EXCEPT ![i] = << >>]
    BY DEF SelfAssign
  <2>. QED BY <1>1, <1>3, <2>1, ExceptOne
<1>. QED BY <1>5, <1>9, <1>10, Lands

LEMMA CopyThrowsStep ==
  ASSUME HeadersInv, NEW i \in Both, CopyThrows(i)
  PROVE  HeadersInv'
<1>1. PICK o, n : o = fields[3 - i] /\ n = Cardinality(DOMAIN heap) - Len(hs[i].list)
  OBVIOUS
<1>2. PICK s, el : s = clear(Store, i) /\ el = heap[hs[3 - i].list[1]]
  OBVIOUS
<1>3. Shows(s, i, << >>, o, n) /\ fields = [x \in Both |-> fields[x]]
  BY <1>1, <1>2, Cleared
<1>4. Shows(Store, i, fields[i], o, Cardinality(DOMAIN heap))
  BY <1>1, InvShows
<1>5. Store.hs = hs /\ Store.heap = heap
  BY DEF Store
<1>6. Len(o) \in Nat /\ Len(o) # 0
  <2>1. PICK g, h, hp : Made(Store, i, g, h, hp, fields[i], o, Cardinality(DOMAIN heap))
    BY <1>4, ShowsMade
  <2>2. h \in Containers /\ Store.hs[3 - i] = h
    BY <2>1, MadeFacts
  <2>3. PICK l : l = h.list
    OBVIOUS
  <2>4. l \in Seq(Nat) /\ l # << >>
    <3>1. h.list \in Seq(Nat)
      BY <2>2 DEF Containers
    <3>2. hs[3 - i].list # << >>
      BY DEF CopyThrows
    <3>. QED BY <1>5, <2>2, <2>3, <3>1, <3>2, Zenon
  <2>5. Len(l) # 0
    BY <2>4, EmptySeq
  <2>6. Len(o) \in Nat /\ Len(o) = Len(Store.hs[3 - i].list)
    BY <1>4, ShowsFacts
  <2>. QED BY <2>2, <2>3, <2>5, <2>6, Zenon
<1>7. el.name \in Names /\ el.value \in Trimmed /\ o[1] = Field(el)
  <2>1. 1 \in 1 .. Len(o)
    BY <1>6
  <2>2. IsBehind(Store.heap[Store.hs[3 - i].list[1]], o[1])
    BY <1>4, <2>1, ShownAt
  <2>. QED BY <1>2, <1>5, <2>2, Zenon DEF IsBehind
<1>8. n < MaxElems
  <2>1. PICK c, a : c = Cardinality(DOMAIN heap) /\ a = Len(hs[i].list)
    OBVIOUS
  <2>2. c \in Nat /\ a \in Nat
    BY <1>2, <2>1, Cleared
  <2>3. c + 1 <= MaxElems
    BY <2>1 DEF CopyThrows, Room
  <2>4. n = c - a
    BY <1>1, <2>1
  <2>. QED BY <2>2, <2>3, <2>4, HeadersAssumption
<1>9. trim(el.value) = el.value
  BY <1>7, TrimIs
<1>10. Shows(insert(s, i, el.name, el.value), i, << o[1] >>, o, n + 1)
  <2>1. trim(el.value) \in Trimmed
    BY <1>7, <1>9, Zenon
  <2>2. Entered(insert(s, i, el.name, el.value), s, i, << >>, el.name, el.value, o, n)
    BY <1>3, <1>7, <1>8, <2>1, ShowsInsert
  <2>3. [name |-> el.name, value |-> trim(el.value)] = o[1]
    BY <1>7, <1>9, Zenon DEF Field
  <2>4. Append(<< >>, o[1]) = << o[1] >>
    OBVIOUS
  <2>. QED BY <2>2, <2>3, <2>4, Zenon DEF Entered
<1>11. Becomes(insert(s, i, el.name, el.value))
  BY <1>2, Zenon DEF CopyThrows
<1>12. fields' = Couple(i, << o[1] >>, o)
  <2>1. fields' = [fields EXCEPT ![i] = << o[1] >>]
    BY <1>1 DEF CopyThrows
  <2>. QED BY <1>1, <1>3, <2>1, ExceptOne
<1>. QED BY <1>10, <1>11, <1>12, Lands

LEMMA MoveAssignStep ==
  ASSUME HeadersInv, NEW i \in Both, NEW p \in BOOLEAN, MoveAssign(i, p)
  PROVE  HeadersInv'
<1>1. PICK o, n, j : o = fields[3 - i] /\ n = Cardinality(DOMAIN heap) - Len(hs[i].list) /\ j = 3 - i
  OBVIOUS
<1>2. PICK s : s = clear(Store, i)
  OBVIOUS
<1>3. /\ Shows(s, i, << >>, o, n) /\ s.hs[i].alloc \in Both /\ s.hs[j].alloc \in Both
      /\ fields = [x \in Both |-> fields[x]]
  BY <1>1, <1>2, Cleared
<1>4. n + Len(o) <= MaxElems
  <2>1. PICK c, a, b : c = Cardinality(DOMAIN heap) /\ a = Len(hs[i].list) /\ b = Len(hs[3 - i].list)
    OBVIOUS
  <2>2. c \in Nat /\ a \in Nat /\ b \in Nat /\ Len(o) = b
    BY <1>1, <1>2, <2>1, Cleared
  <2>3. b + c <= MaxElems
    BY <2>1 DEF MoveAssign
  <2>4. n = c - a
    BY <1>1, <2>1
  <2>. QED BY <2>2, <2>3, <2>4, HeadersAssumption
<1>5. j \in Both /\ 3 - j = i
  BY <1>1 DEF Both
<1>6. fields' = Couple(i, o, << >>)
  <2>1. fields' = [fields EXCEPT ![i] = o, ![3 - i] = << >>]
    BY <1>1 DEF MoveAssign
  <2>. QED BY <1>3, <2>1, ExceptBoth
<1>7. Becomes(move_assign(Store, i, j, p))
  BY <1>1, Zenon DEF MoveAssign
<1>8. CASE p
  <2>1. PICK a, t : a = s.hs[j].alloc /\ t = PutAlloc(s, i, a)
    OBVIOUS
  <2>2. /\ Shows(t, i, << >>, o, n)
        /\ t.hs[3 - i] = s.hs[3 - i] /\ t.hs[i].alloc = a
    <3>1. a \in Both
      BY <1>3, <2>1
    <3>2. Shows(PutAlloc(s, i, a), i, << >>, o, n)
      BY <1>3, <3>1, ShowsAlloc
    <3>3. /\ PutAlloc(s, i, a).hs[3 - i] = s.hs[3 - i]
          /\ PutAlloc(s, i, a).hs[i].alloc = a
      BY <1>3, <3>1, ShowsAlloc
    <3>. QED BY <2>1, <3>2, <3>3, Zenon
  <2>3. t.hs[i].alloc = t.hs[3 - i].alloc
    BY <1>1, <2>1, <2>2, Zenon
  <2>4. Shows(Steal(t, i, 3 - i), i, o, << >>, n)
    BY <2>2, <2>3, ShowsSteal
  <2>5. move_assign(Store, i, j, p) = Steal(t, i, 3 - i)
    BY <1>1, <1>2, <1>8, <2>1, Zenon DEF move_assign, PutAlloc
  <2>6. Becomes(Steal(t, i, 3 - i))
    BY <1>7, <2>5, Zenon
  <2>. QED BY <1>6, <2>4, <2>6, Lands
<1>9. CASE ~p /\ s.hs[i].alloc # s.hs[j].alloc
  <2>1. PICK t : t = copy_from(s, i, j)
    OBVIOUS
  <2>2. Shows(t, i, o, o, n + Len(o))
    <3>1. Shows(copy_from(s, i, 3 - i), i, o, o, n + Len(o))
      BY <1>3, <1>4, ShowsCopy
    <3>. QED BY <1>1, <2>1, <3>1, Zenon
  <2>3. Shows(t, j, o, o, n + Len(o))
    BY <1>1, <2>2, ShowsOther
  <2>4. PICK c, u, m : c = n + Len(o) /\ u = clear(t, j) /\ m = c - Len(o)
    OBVIOUS
  <2>5. Shows(u, j, << >>, o, m)
    <3>1. Shows(t, j, o, o, c)
      BY <2>3, <2>4, Zenon
    <3>2. Shows(clear(t, j), j, << >>, o, c - Len(o))
      BY <1>5, <3>1, ShowsClear
    <3>. QED BY <2>4, <3>2, Zenon
  <2>6. Shows(u, i, o, << >>, m)
    <3>1. Shows(u, 3 - j, o, << >>, m)
      BY <1>5, <2>5, ShowsOther
    <3>. QED BY <1>5, <3>1, Zenon
  <2>7. move_assign(Store, i, j, p) = u
    BY <1>2, <1>9, <2>1, <2>4, Zenon DEF move_assign
  <2>8. Becomes(u)
    BY <1>7, <2>7, Zenon
  <2>. QED BY <1>6, <2>6, <2>8, Lands
<1>10. CASE ~p /\ s.hs[i].alloc = s.hs[j].alloc
  <2>1. s.hs[i].alloc = s.hs[3 - i].alloc
    BY <1>1, <1>10, Zenon
  <2>2. Shows(Steal(s, i, 3 - i), i, o, << >>, n)
    BY <1>3, <2>1, ShowsSteal
  <2>3. move_assign(Store, i, j, p) = Steal(s, i, 3 - i)
    BY <1>1, <1>2, <1>10, Zenon DEF move_assign
  <2>4. Becomes(Steal(s, i, 3 - i))
    BY <1>7, <2>3, Zenon
  <2>. QED BY <1>6, <2>2, <2>4, Lands
<1>. QED BY <1>8, <1>9, <1>10

LEMMA HeadersStep == HeadersInv /\ [HeadersNext]_hvars => HeadersInv'
<1>. SUFFICES ASSUME HeadersInv, [HeadersNext]_hvars PROVE HeadersInv'
  OBVIOUS
<1>1. CASE UNCHANGED hvars
  BY <1>1 DEF hvars, HeadersInv, Store
<1>2. ASSUME NEW i \in Both, NEW name \in Names, ReplaceThrows(i, name) PROVE HeadersInv'
  BY <1>2, EraseStep DEF ReplaceThrows
<1>3. ASSUME NEW i \in Both, NEW name \in Names, Erase(i, name) PROVE HeadersInv'
  BY <1>3, EraseStep DEF Erase
<1>4. CASE HeadersNext
  <2>1. PICK i \in Both :
          \/ \E name \in Names :
               \/ \E value \in Values : Insert(i, name, value) \/ Replace(i, name, value)
               \/ ReplaceThrows(i, name) \/ Erase(i, name)
          \/ Clear(i) \/ InsertThrows(i) \/ SelfAssign(i) \/ CopyThrows(i)
          \/ \E propagate \in BOOLEAN : CopyAssign(i, propagate) \/ MoveAssign(i, propagate)
    BY <1>4, Zenon DEF HeadersNext
  <2>2. ASSUME NEW name \in Names, NEW value \in Values,
               Insert(i, name, value) \/ Replace(i, name, value)
        PROVE  HeadersInv'
    BY <2>2, InsertStep, ReplaceStep
  <2>3. Clear(i) \/ InsertThrows(i) \/ SelfAssign(i) \/ CopyThrows(i) => HeadersInv'
    BY ClearStep, InsertThrowsStep, SelfAssignStep, CopyThrowsStep
  <2>4. ASSUME NEW p \in BOOLEAN, CopyAssign(i, p) \/ MoveAssign(i, p) PROVE HeadersInv'
    BY <2>4, CopyAssignStep, MoveAssignStep
  <2>. QED BY <1>2, <1>3, <2>1, <2>2, <2>3, <2>4, Zenon
<1>. QED BY <1>1, <1>4

LEMMA HeadersStart == HeadersInit => HeadersInv
<1>. SUFFICES ASSUME HeadersInit PROVE HeadersInv
  OBVIOUS
<1>1. PICK a \in Both : hs = [i \in Both |-> IF i = 2 THEN [NoFields EXCEPT !.alloc = a] ELSE NoFields]
  BY DEF HeadersInit
<1>2. heap = << >> /\ fields = [i \in Both |-> << >>]
  BY DEF HeadersInit
<1>3. NoFields = Bare(1) /\ [NoFields EXCEPT !.alloc = a] = Bare(a)
  BY DEF NoFields, Bare
<1>4. hs = Couple(2, Bare(a), Bare(1))
  BY <1>1, <1>3, Zenon DEF Couple
<1>5. Store = StoreOf(2, Bare(a), Bare(1), heap)
  BY <1>4, Zenon DEF Store, StoreOf
<1>6. 1 \in Both /\ 2 \in Both
  BY DEF Both
<1>7. /\ Linked(heap, Bare(a)) /\ FieldsOf(heap, Bare(a).list) = << >> /\ Range(Bare(a).list) = {}
  BY EmptyIs
<1>8. /\ Linked(heap, Bare(1)) /\ FieldsOf(heap, Bare(1).list) = << >> /\ Range(Bare(1).list) = {}
  BY <1>6, EmptyIs
<1>9. DOMAIN heap = {} /\ heap = [x \in DOMAIN heap |-> heap[x]]
  BY <1>2
<1>10. HeapOK(heap)
  <2>1. Cardinality(DOMAIN heap) <= MaxElems
    BY <1>9, FS_EmptySet, HeadersAssumption
  <2>. QED BY <1>9, <2>1 DEF HeapOK
<1>11. Pair(heap, Bare(a), Bare(1))
  <2>1. {e \in DOMAIN heap : heap[e] # Raw} = {}
    BY <1>9
  <2>2. /\ Range(Bare(a).list) \cap Range(Bare(1).list) = {}
        /\ Range(Bare(a).list) \cup Range(Bare(1).list) = {}
    BY <1>7, <1>8
  <2>. QED BY <1>7, <1>8, <1>10, <2>1, <2>2, Zenon DEF Pair
<1>12. PICK n : n = Cardinality(DOMAIN heap)
  OBVIOUS
<1>13. Made(Store, 2, Bare(a), Bare(1), heap, << >>, << >>, n)
  BY <1>5, <1>7, <1>8, <1>11, <1>12, Zenon DEF Made
<1>14. Shows(Store, 2, << >>, << >>, n)
  BY <1>13, MadeShows
<1>15. InvOf(Store, Couple(2, << >>, << >>))
  BY <1>6, <1>14, InvOfIs
<1>16. Couple(2, << >>, << >>) = fields
  BY <1>2 DEF Couple
<1>. QED BY <1>15, <1>16, Zenon DEF HeadersInv

\* What is found is the first of the fields with the name.
LEMMA FoundFirst ==
  ASSUME NEW ns, NEW c \in Nat, Len(ns) = c, ns = [k \in 1 .. c |-> ns[k]]
  PROVE  SubSeq(ns, 1, Min({1, Len(ns)})) = IF c = 0 THEN << >> ELSE << ns[1] >>
<1>1. PICK T : T = {ns[k] : k \in 1 .. c}
  OBVIOUS
<1>2. \A k \in 1 .. c : ns[k] \in T
  BY <1>1
<1>3. ns \in [1 .. c -> T]
  BY <1>2
<1>. HIDE <1>1
<1>4. ns \in Seq(T)
  BY <1>3
<1>5. CASE c = 0
  <2>1. Min({1, 0}) = 0
    <3>1. {1, 0} \in SUBSET Int /\ 0 \in {1, 0} /\ \A x \in {1, 0} : 0 <= x
      OBVIOUS
    <3>. QED BY <3>1, LeastOne
  <2>2. SubSeq(ns, 1, 0) = << >>
    BY <1>4, <1>5
  <2>. QED BY <1>5, <2>1, <2>2, Zenon
<1>6. CASE c # 0
  <2>1. Min({1, c}) = 1
    <3>1. {1, c} \in SUBSET Int /\ 1 \in {1, c} /\ \A x \in {1, c} : 1 <= x
      BY <1>6
    <3>. QED BY <3>1, LeastOne
  <2>2. 1 \in 1 .. c
    BY <1>6
  <2>3. SubSeq(ns, 1, 1) = << ns[1] >>
    <3>1. PICK r : r = SubSeq(ns, 1, 1)
      OBVIOUS
    <3>2. \A x \in 1 .. 1 : ns[x] \in T
      BY <1>2, <2>2
    <3>3. r \in Seq(T) /\ Len(r) = 1 /\ r[1] = ns[1]
      <4>1. /\ SubSeq(ns, 1, 1) \in Seq(T)
            /\ Len(SubSeq(ns, 1, 1)) = IF 1 <= 1 THEN 1 - 1 + 1 ELSE 0
            /\ \A x \in 1 .. 1 - 1 + 1 : SubSeq(ns, 1, 1)[x] = ns[1 + x - 1]
        BY <3>2, SubSeqProperties
      <4>2. Len(SubSeq(ns, 1, 1)) = 1 /\ SubSeq(ns, 1, 1)[1] = ns[1]
        BY <4>1
      <4>. QED BY <3>1, <4>1, <4>2, Zenon
    <3>4. PICK y : y = ns[1]
      OBVIOUS
    <3>5. r = << y >>
      <4>. HIDE <3>1
      <4>1. r[1] = y
        BY <3>3, <3>4
      <4>. QED BY <3>3, <4>1
    <3>. QED BY <3>1, <3>4, <3>5, Zenon
  <2>. QED BY <1>6, <2>1, <2>3, Zenon
<1>. QED BY <1>5, <1>6

LEMMA HeadersFollow == HeadersInv => HeadersAgree
<1>. SUFFICES ASSUME HeadersInv PROVE HeadersAgree
  OBVIOUS
<1>1. ASSUME NEW i \in Both
      PROVE  /\ Pair(heap, hs[i], hs[3 - i]) /\ Linked(heap, hs[i])
             /\ fields[i] = FieldsOf(heap, hs[i].list)
  <2>1. Shows(Store, i, fields[i], fields[3 - i], Cardinality(DOMAIN heap))
    BY InvShows
  <2>2. PICK g, h, hp : Made(Store, i, g, h, hp, fields[i], fields[3 - i], Cardinality(DOMAIN heap))
    BY <2>1, ShowsMade
  <2>3. Pair(hp, g, h) /\ Linked(hp, g) /\ fields[i] = FieldsOf(hp, g.list)
    BY <2>2, Zenon DEF Made, Pair
  <2>4. Store.heap = hp /\ Store.hs[i] = g /\ Store.hs[3 - i] = h
    BY <2>2, MadeFacts
  <2>5. Store.hs = hs /\ Store.heap = heap
    BY DEF Store
  <2>. QED BY <2>3, <2>4, <2>5, Zenon
<1>2. /\ Range(hs[1].list) \cap Range(hs[2].list) = {}
      /\ Range(hs[1].list) \cup Range(hs[2].list) = {e \in DOMAIN heap : heap[e] # Raw}
  <2>1. 1 \in Both /\ 3 - 1 = 2
    BY DEF Both
  <2>2. Pair(heap, hs[1], hs[3 - 1])
    BY <1>1, <2>1
  <2>. QED BY <2>1, <2>2, Zenon DEF Pair
<1>3. ASSUME NEW i \in Both
      PROVE  LET h == hs[i]
             IN  /\ [k \in DOMAIN h.list |-> FieldAt(h.list[k])] = fields[i]
                 /\ Len(h.set) = Len(h.list) /\ Range(h.set) = Range(h.list)
                 /\ \A e \in Range(h.list) : heap[e].alloc = h.alloc
  <2>1. PICK h : h = hs[i]
    OBVIOUS
  <2>2. Linked(heap, h) /\ fields[i] = FieldsOf(heap, h.list)
    BY <1>1, <2>1
  <2>3. h.list \in Seq(Nat) /\ Len(h.set) = Len(h.list)
    BY <2>2, LinkedFacts
  <2>4. DOMAIN h.list = 1 .. Len(h.list)
    BY <2>3
  <2>5. [k \in DOMAIN h.list |-> FieldAt(h.list[k])] = FieldsOf(heap, h.list)
    BY <2>4, Zenon DEF FieldAt, FieldsOf
  <2>6. Range(h.set) = Range(h.list) /\ \A e \in Range(h.list) : heap[e].alloc = h.alloc
    BY <2>2, Zenon DEF Linked
  <2>. QED BY <2>1, <2>2, <2>3, <2>5, <2>6, Zenon
<1>4. ASSUME NEW i \in Both, NEW name \in Names
      PROVE  LET fs == Only(fields[i], {k \in DOMAIN fields[i] : ci_equal(fields[i][k].name, name)})
             IN  /\ count_of(hs[i], name) = Len(fs)
                 /\ find(hs[i], name) = SubSeq(fs, 1, Min({1, Len(fs)}))
  <2>1. PICK h, f : h = hs[i] /\ f = fields[i]
    OBVIOUS
  <2>2. Linked(heap, h) /\ f = FieldsOf(heap, h.list)
    BY <1>1, <2>1
  <2>3. PICK ms, ns : /\ ms = Matching(heap, h, name)
                      /\ ns = Only(f, {k \in DOMAIN f : ci_equal(f[k].name, name)})
    OBVIOUS
  <2>4. /\ Len(ms) \in Nat /\ Len(ns) = Len(ms) /\ ns = [k \in 1 .. Len(ms) |-> ns[k]]
        /\ Len(ms) > 0 => ns[1] = Field(heap[ms[1]])
    <3>1. Counts(heap, h, name)
      BY <2>2, MatchingCounts
    <3>. QED BY <2>2, <2>3, <3>1, Zenon DEF Counts
  <2>5. SubSeq(ns, 1, Min({1, Len(ns)})) = IF Len(ms) = 0 THEN << >> ELSE << ns[1] >>
    <3>1. PICK c : c = Len(ms)
      OBVIOUS
    <3>2. c \in Nat /\ Len(ns) = c /\ ns = [k \in 1 .. c |-> ns[k]]
      BY <2>4, <3>1, Zenon
    <3>3. SubSeq(ns, 1, Min({1, Len(ns)})) = IF c = 0 THEN << >> ELSE << ns[1] >>
      BY <3>2, FoundFirst
    <3>. QED BY <3>1, <3>3, Zenon
  <2>6. count_of(h, name) = Len(ms)
    BY <2>3, Zenon DEF count_of
  <2>7. find(h, name) = IF Len(ms) = 0 THEN << >> ELSE << Field(heap[ms[1]]) >>
    BY <2>3, <2>6, Zenon DEF find, FieldAt, Field
  <2>8. Len(ms) # 0 => Len(ms) > 0
    BY <2>4
  <2>9. find(h, name) = SubSeq(ns, 1, Min({1, Len(ns)}))
    <3>1. PICK r : r = SubSeq(ns, 1, Min({1, Len(ns)}))
      OBVIOUS
    <3>2. CASE Len(ms) = 0
      BY <2>5, <2>7, <3>2, Zenon
    <3>3. CASE Len(ms) # 0
      <4>1. PICK x : x = ns[1]
        OBVIOUS
      <4>2. Field(heap[ms[1]]) = x
        BY <2>4, <2>8, <3>3, <4>1, Zenon
      <4>3. r = << x >>
        BY <2>5, <3>1, <3>3, <4>1, Zenon
      <4>4. find(h, name) = << x >>
        BY <2>7, <3>3, <4>2, Zenon
      <4>. QED BY <3>1, <4>3, <4>4, Zenon
    <3>. QED BY <3>2, <3>3
  <2>. QED BY <2>1, <2>3, <2>4, <2>6, <2>9, Zenon
<1>. QED BY <1>2, <1>3, <1>4, Zenon DEF HeadersAgree

LEMMA HeadersPart == [ToolkitNext]_toolvars => [HeadersNext]_hvars
BY DEF ToolkitNext, toolvars

\* The invariant of the containers: each links its elements into the list and
\* the set, by the length of the name and those of one length in the order of
\* the list; together they hold what is constructed on the heap; and the
\* fields the list shows are the ones of the reference.
THEOREM HeadersInvariance == ToolkitSpec => []HeadersInv
<1>1. ToolkitInit => HeadersInv
  BY HeadersStart DEF ToolkitInit
<1>2. HeadersInv /\ [ToolkitNext]_toolvars => HeadersInv'
  BY HeadersPart, HeadersStep
<1>. QED BY <1>1, <1>2, PTL DEF ToolkitSpec

\* For any number of elements on the heap, whatever was inserted, replaced,
\* erased, copied or moved between two containers and wherever an exception
\* cut an operation short: iterating shows the fields in the order of their
\* insertion, count() and find() answer for all of a name and for the first
\* of them, and every element is in one container, from whose allocator it
\* came.
THEOREM HeadersKept == ToolkitSpec => []HeadersAgree
BY HeadersInvariance, HeadersFollow, PTL

=============================================================================
