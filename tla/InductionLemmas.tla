-------------------------- MODULE InductionLemmas ---------------------------
(***************************************************************************)
(* Induction over the natural numbers in first-order form, and what it     *)
(* gives: a function defined by recursion over 0..n exists.  The proofs    *)
(* about recursive functions and folds of the models rest on these.        *)
(***************************************************************************)
EXTENDS Integers, FiniteSetTheorems, WellFoundedInduction, TLAPS

\* A set that holds 0 and with every number the next one holds all of them:
\* the least number outside it has a predecessor.
LEMMA NatSetInduction ==
  ASSUME NEW S, 0 \in S, \A k \in Nat : k \in S => k + 1 \in S
  PROVE  \A k \in Nat : k \in S
<1>. DEFINE D == {k \in Nat : k \notin S}
            R == OpToRel(<, Nat)
<1>1. IsWellFoundedOn(R, Nat)
  BY NatLessThanWellFounded
<1>2. \A x, y \in Nat : <<x, y>> \in R <=> x < y
  BY DEF OpToRel
<1>3. SUFFICES ASSUME D # {} PROVE FALSE
  OBVIOUS
<1>. HIDE DEF R
<1>4. PICK x \in D : \A y \in D : ~(<<y, x>> \in R)
  BY <1>1, <1>3, WFMin
<1>5. x \in Nat /\ x # 0 /\ x - 1 \in Nat /\ x - 1 < x /\ (x - 1) + 1 = x
  BY <1>4
<1>6. x - 1 \notin D
  BY <1>2, <1>4, <1>5
<1>. QED BY <1>4, <1>5, <1>6

\* The functions over 0..n that start at x0 and at i apply F[i].
Runs(X, x0, n, F) ==
  {g \in [0..n -> X] : g[0] = x0 /\ \A i \in 1..n : g[i] = F[i][g[i - 1]]}

\* There is one, whatever the steps are.
LEMMA Recursion ==
  ASSUME NEW X, NEW x0 \in X, NEW n \in Nat, NEW F,
         \A i \in 1..n : \A x \in X : F[i][x] \in X
  PROVE  \E g : g \in Runs(X, x0, n, F)
<1> DEFINE Ok(m) == \E g \in [0..m -> X] : g[0] = x0 /\ \A i \in 1..m : g[i] = F[i][g[i - 1]]
           S == {m \in Nat : m <= n => Ok(m)}
<1>1. Ok(0)
  <2> DEFINE g == [i \in 0..0 |-> x0]
  <2>1. g \in [0..0 -> X] /\ g[0] = x0 /\ \A i \in 1..0 : g[i] = F[i][g[i - 1]]
    OBVIOUS
  <2>. HIDE DEF g
  <2>. QED BY <2>1
<1>2. ASSUME NEW k \in Nat, k + 1 <= n, Ok(k) PROVE Ok(k + 1)
  <2>1. PICK g \in [0..k -> X] : g[0] = x0 /\ \A i \in 1..k : g[i] = F[i][g[i - 1]]
    BY <1>2
  <2> DEFINE h == [i \in 0..(k + 1) |-> IF i = k + 1 THEN F[k + 1][g[k]] ELSE g[i]]
  <2>2. h \in [0..(k + 1) -> X] /\ h[0] = x0
    BY <1>2, <2>1
  <2>3. ASSUME NEW i \in 1..(k + 1) PROVE h[i] = F[i][h[i - 1]]
    <3>1. h[i - 1] = g[i - 1]
      OBVIOUS
    <3>2. CASE i = k + 1
      BY <3>1, <3>2
    <3>3. CASE i \in 1..k
      <4>1. h[i] = g[i] /\ g[i] = F[i][g[i - 1]]
        BY <2>1, <3>3
      <4>. QED BY <3>1, <4>1
    <3>. QED BY <3>2, <3>3
  <2>. HIDE DEF h
  <2>. QED BY <2>2, <2>3
<1>. HIDE DEF Ok
<1>3. \A m \in Nat : m \in S
  <2>1. 0 \in S
    BY <1>1
  <2>2. \A k \in Nat : k \in S => k + 1 \in S
    BY <1>2
  <2>. HIDE DEF S
  <2>. QED BY <2>1, <2>2, NatSetInduction
<1>4. Ok(n)
  BY <1>3
<1>. QED BY <1>4 DEF Ok, Runs

-----------------------------------------------------------------------------
(* Sums over a finite set, as MapThenSumSet and FoldSeq compute them.      *)

\* The element a fold takes next.
Pick(s) == CHOOSE x \in s : TRUE

LEMMA PickIn == ASSUME NEW s, s # {} PROVE Pick(s) \in s
BY DEF Pick

\* it is the recursive function with which a fold adds f up over D.
IsSum(it, f, D) ==
  it = [s \in SUBSET D |-> IF s = {} THEN 0 ELSE f[Pick(s)] + it[s \ {Pick(s)}]]

\* The subsets of D with no more than n elements.
Small(D, n) == {s \in SUBSET D : Cardinality(s) <= n}

LEMMA SmallStep ==
  ASSUME NEW D, IsFiniteSet(D), NEW n \in Nat, NEW s \in Small(D, n + 1)
  PROVE  /\ s # {} => Pick(s) \in D /\ s \ {Pick(s)} \in Small(D, n)
         /\ s \in Small(D, n) /\ s # {} => s \ {Pick(s)} \in Small(D, n)
<1>1. IsFiniteSet(s) /\ Cardinality(s) \in Nat
  BY FS_Subset, FS_CardinalityType DEF Small
<1>2. s # {} => Pick(s) \in s
  BY PickIn
<1>3. s # {} => Cardinality(s \ {Pick(s)}) = Cardinality(s) - 1
  BY <1>1, <1>2, FS_RemoveElement
<1>. QED BY <1>1, <1>2, <1>3 DEF Small

LEMMA SmallGrows ==
  ASSUME NEW D, IsFiniteSet(D), NEW n \in Nat, NEW s \in Small(D, n)
  PROVE  s \in Small(D, n + 1)
<1>1. Cardinality(s) \in Nat
  BY FS_Subset, FS_CardinalityType DEF Small
<1>. QED BY <1>1 DEF Small

LEMMA SumExists ==
  ASSUME NEW D, IsFiniteSet(D), NEW f \in [D -> Int]
  PROVE  \E it : IsSum(it, f, D)
<1> DEFINE Eq(it, s) == it[s] = IF s = {} THEN 0 ELSE f[Pick(s)] + it[s \ {Pick(s)}]
           Ok(n) == \E it \in [Small(D, n) -> Int] : \A s \in Small(D, n) : Eq(it, s)
           S == {n \in Nat : Ok(n)}
<1>0. {} \in SUBSET D /\ Cardinality({}) = 0
  BY FS_EmptySet
<1>1. 0 \in S
  <2> DEFINE it == [s \in Small(D, 0) |-> 0]
  <2>1. \A s \in Small(D, 0) : s = {}
    BY FS_Subset, FS_EmptySet, FS_CardinalityType DEF Small
  <2>2. it \in [Small(D, 0) -> Int] /\ \A s \in Small(D, 0) : Eq(it, s)
    BY <2>1
  <2>. HIDE DEF it
  <2>. QED BY <2>2
<1>2. ASSUME NEW n \in Nat, Ok(n) PROVE Ok(n + 1)
  <2>1. PICK g \in [Small(D, n) -> Int] : \A s \in Small(D, n) : Eq(g, s)
    BY <1>2
  <2> DEFINE h == [s \in Small(D, n + 1) |->
                     IF s \in Small(D, n) THEN g[s] ELSE f[Pick(s)] + g[s \ {Pick(s)}]]
  <2>2. ASSUME NEW s \in Small(D, n + 1) PROVE h[s] \in Int /\ Eq(h, s)
    <3>1. CASE s = {}
      <4>1. s \in Small(D, n) /\ g[s] = 0
        BY <1>0, <2>1, <3>1 DEF Small
      <4>. QED BY <3>1, <4>1
    <3>2. CASE s # {} /\ s \in Small(D, n)
      <4>1. s \ {Pick(s)} \in Small(D, n) /\ s \ {Pick(s)} \in Small(D, n + 1)
        BY <3>2, SmallStep, SmallGrows
      <4>2. g[s] = f[Pick(s)] + g[s \ {Pick(s)}]
        BY <2>1, <3>2
      <4>. QED BY <3>2, <4>1, <4>2
    <3>3. CASE s # {} /\ s \notin Small(D, n)
      <4>1. Pick(s) \in D /\ s \ {Pick(s)} \in Small(D, n)
        BY <3>3, SmallStep
      <4>2. s \ {Pick(s)} \in Small(D, n + 1)
        BY <4>1, SmallGrows
      <4>. QED BY <3>3, <4>1, <4>2
    <3>. QED BY <3>1, <3>2, <3>3
  <2>. HIDE DEF Eq
  <2>3. h \in [Small(D, n + 1) -> Int] /\ \A s \in Small(D, n + 1) : Eq(h, s)
    BY <2>2
  <2>. HIDE DEF h
  <2>. QED BY <2>3
<1>3. \A n \in Nat : Ok(n)
  <2>. HIDE DEF Ok
  <2>1. \A n \in Nat : n \in S => n + 1 \in S
    BY <1>2
  <2>2. \A n \in Nat : n \in S
    <3>. HIDE DEF S
    <3>. QED BY <1>1, <2>1, NatSetInduction
  <2>. QED BY <2>2
<1>4. Cardinality(D) \in Nat /\ Small(D, Cardinality(D)) = SUBSET D
  BY FS_Subset, FS_CardinalityType DEF Small
<1>5. PICK it \in [SUBSET D -> Int] : \A s \in SUBSET D : Eq(it, s)
  BY <1>3, <1>4
<1>6. IsSum(it, f, D)
  BY <1>5 DEF IsSum
<1>. QED BY <1>6

\* Every element may be taken first: the order does not matter.
LEMMA SumRemove ==
  ASSUME NEW D, IsFiniteSet(D), NEW f \in [D -> Int], NEW it, IsSum(it, f, D)
  PROVE  \A s \in SUBSET D : it[s] \in Int /\ \A x \in s : it[s] = f[x] + it[s \ {x}]
<1> DEFINE Ok(s) == it[s] \in Int /\ \A x \in s : it[s] = f[x] + it[s \ {x}]
           S == {n \in Nat : \A s \in Small(D, n) : Ok(s)}
<1>0. ASSUME NEW s \in SUBSET D
      PROVE  it[s] = IF s = {} THEN 0 ELSE f[Pick(s)] + it[s \ {Pick(s)}]
  BY DEF IsSum
<1>1. 0 \in S
  <2>1. \A s \in Small(D, 0) : s = {}
    BY FS_Subset, FS_EmptySet, FS_CardinalityType DEF Small
  <2>2. it[{}] = 0
    BY <1>0
  <2>3. ASSUME NEW s \in Small(D, 0) PROVE Ok(s)
    <3>1. s = {} /\ it[s] = 0
      BY <2>1, <2>2
    <3>. QED BY <3>1
  <2>. HIDE DEF Ok
  <2>. QED BY <2>3
<1>2. ASSUME NEW n \in Nat, \A s \in Small(D, n) : Ok(s), NEW s \in Small(D, n + 1) PROVE Ok(s)
  <2>1. CASE s = {}
    <3>1. it[s] = 0
      BY <1>0, <2>1
    <3>. QED BY <2>1, <3>1
  <2>2. CASE s # {}
    <3> DEFINE c == Pick(s)
    <3>1. c \in s /\ c \in D /\ s \ {c} \in Small(D, n) /\ s \in SUBSET D
      BY <2>2, SmallStep, PickIn DEF Small
    <3>2. it[s] = f[c] + it[s \ {c}]
      BY <1>0, <2>2, <3>1
    <3>. HIDE DEF c
    <3>3. it[s \ {c}] \in Int
      BY <1>2, <3>1
    <3>4. ASSUME NEW x \in s, x # c PROVE it[s] = f[x] + it[s \ {x}]
      <4>1. IsFiniteSet(s) /\ Cardinality(s) \in Nat /\ Cardinality(s) <= n + 1
        BY FS_Subset, FS_CardinalityType DEF Small
      <4>2. Cardinality(s \ {x}) = Cardinality(s) - 1
        BY <4>1, FS_RemoveElement
      <4>3. s \ {x} \in Small(D, n)
        BY <3>1, <4>1, <4>2 DEF Small
      <4>4. x \in s \ {c} /\ c \in s \ {x} /\ (s \ {c}) \ {x} = (s \ {x}) \ {c}
        BY <3>1, <3>4
      <4>5. it[s \ {c}] = f[x] + it[(s \ {c}) \ {x}]
        BY <1>2, <3>1, <4>4
      <4>6. it[s \ {x}] = f[c] + it[(s \ {x}) \ {c}]
        BY <1>2, <4>3, <4>4
      <4>7. it[(s \ {c}) \ {x}] \in Int
        <5>1. (s \ {x}) \ {c} \in Small(D, n)
          <6>1. Cardinality((s \ {x}) \ {c}) = Cardinality(s \ {x}) - 1
            BY <4>1, <4>4, FS_RemoveElement
          <6>. QED BY <3>1, <4>1, <4>2, <6>1 DEF Small
        <5>. QED BY <1>2, <4>4, <5>1
      <4>8. f[x] \in Int /\ f[c] \in Int
        BY <3>1
      <4> DEFINE w == it[(s \ {c}) \ {x}]
      <4>9. it[s \ {c}] = f[x] + w /\ it[s \ {x}] = f[c] + w /\ w \in Int
        <5>1. it[(s \ {x}) \ {c}] = w
          BY <4>4, Zenon
        <5>. QED BY <4>5, <4>6, <4>7, <5>1
      <4>. HIDE DEF w
      <4>. QED BY <3>2, <4>8, <4>9
    <3>5. it[s] \in Int
      BY <3>1, <3>2, <3>3
    <3>. QED BY <3>2, <3>4, <3>5
  <2>. QED BY <2>1, <2>2
<1>3. \A n \in Nat : n \in S
  <2>. HIDE DEF Ok
  <2>1. \A n \in Nat : n \in S => n + 1 \in S
    BY <1>2
  <2>. HIDE DEF S
  <2>. QED BY <1>1, <2>1, NatSetInduction
<1>4. Cardinality(D) \in Nat /\ Small(D, Cardinality(D)) = SUBSET D
  BY FS_Subset, FS_CardinalityType DEF Small
<1>. QED BY <1>3, <1>4

\* Two sums over the same elements agree, whatever else they are defined for.
LEMMA SumAgree ==
  ASSUME NEW D, IsFiniteSet(D), NEW f \in [D -> Int], NEW it, IsSum(it, f, D),
         NEW E, IsFiniteSet(E), NEW g \in [E -> Int], NEW iu, IsSum(iu, g, E),
         E \subseteq D, \A x \in E : f[x] = g[x]
  PROVE  it[E] = iu[E]
<1> DEFINE S == {n \in Nat : \A s \in Small(E, n) : it[s] = iu[s]}
<1>1. 0 \in S
  <2>1. \A s \in Small(E, 0) : s = {}
    BY FS_Subset, FS_EmptySet, FS_CardinalityType DEF Small
  <2>2. it[{}] = 0 /\ iu[{}] = 0
    BY DEF IsSum
  <2>. QED BY <2>1, <2>2
<1>2. ASSUME NEW n \in Nat, \A s \in Small(E, n) : it[s] = iu[s], NEW s \in Small(E, n + 1)
      PROVE  it[s] = iu[s]
  <2>1. CASE s = {}
    BY <2>1 DEF IsSum
  <2>2. CASE s # {}
    <3>1. Pick(s) \in E /\ s \ {Pick(s)} \in Small(E, n) /\ s \in SUBSET E /\ s \in SUBSET D
      BY <2>2, SmallStep DEF Small
    <3>2. it[s] = f[Pick(s)] + it[s \ {Pick(s)}]
      BY <2>2, <3>1 DEF IsSum
    <3>3. iu[s] = g[Pick(s)] + iu[s \ {Pick(s)}]
      BY <2>2, <3>1 DEF IsSum
    <3>. QED BY <1>2, <3>1, <3>2, <3>3
  <2>. QED BY <2>1, <2>2
<1>3. \A n \in Nat : n \in S
  <2>1. \A n \in Nat : n \in S => n + 1 \in S
    BY <1>2
  <2>. HIDE DEF S
  <2>. QED BY <1>1, <2>1, NatSetInduction
<1>4. Cardinality(E) \in Nat /\ Small(E, Cardinality(E)) = SUBSET E
  BY FS_Subset, FS_CardinalityType DEF Small
<1>. QED BY <1>3, <1>4

\* The first k numbers from lo on.
From(lo, k) == lo .. lo + k - 1

LEMMA FromStep ==
  ASSUME NEW lo \in Int, NEW k \in Nat
  PROVE  /\ From(lo, 0) = {}
         /\ lo + k \in From(lo, k + 1) /\ From(lo, k + 1) \ {lo + k} = From(lo, k)
         /\ \A n \in Nat : k <= n => From(lo, k) \in SUBSET From(lo, n)
         /\ \A n \in Nat : k < n => lo + k \in From(lo, n)
<1>1. From(lo, k + 1) \ {lo + k} = From(lo, k)
  <2>1. \A x : x \in From(lo, k + 1) \ {lo + k} <=> x \in From(lo, k)
    BY DEF From
  <2>. QED BY <2>1
<1>2. From(lo, 0) = {} /\ lo + k \in From(lo, k + 1)
  BY DEF From
<1>3. ASSUME NEW n \in Nat, k <= n PROVE From(lo, k) \in SUBSET From(lo, n)
  <2>1. \A x : x \in From(lo, k) => x \in From(lo, n)
    BY <1>3 DEF From
  <2>. QED BY <2>1
<1>4. \A n \in Nat : k < n => lo + k \in From(lo, n)
  BY DEF From
<1>. QED BY <1>1, <1>2, <1>3, <1>4

\* The sum over an interval is the difference of what is summed up before its
\* two ends.
LEMMA IntervalSum ==
  ASSUME NEW lo \in Int, NEW n \in Nat, NEW f \in [From(lo, n) -> Int],
         NEW it, IsSum(it, f, From(lo, n)),
         NEW e, \A k \in lo - 1 .. lo + n - 1 : e[k] \in Int,
         \A k \in From(lo, n) : e[k] = e[k - 1] + f[k]
  PROVE  it[From(lo, n)] = e[lo + n - 1] - e[lo - 1]
<1> DEFINE Ok(k) == k <= n => it[From(lo, k)] = e[lo + k - 1] - e[lo - 1]
           S == {k \in Nat : Ok(k)}
<1>0. IsFiniteSet(From(lo, n))
  BY FS_Interval DEF From
<1>1. Ok(0)
  <2>1. From(lo, 0) = {} /\ lo + 0 - 1 = lo - 1
    BY FromStep
  <2>2. it[{}] = 0
    BY DEF IsSum
  <2>3. e[lo - 1] \in Int
    <3>1. lo - 1 \in lo - 1 .. lo + n - 1
      OBVIOUS
    <3>. QED BY <3>1
  <2>. QED BY <2>1, <2>2, <2>3
<1>2. ASSUME NEW k \in Nat, Ok(k) PROVE Ok(k + 1)
  <2>. SUFFICES ASSUME k + 1 <= n PROVE it[From(lo, k + 1)] = e[lo + (k + 1) - 1] - e[lo - 1]
    OBVIOUS
  <2>1. /\ From(lo, k + 1) \in SUBSET From(lo, n) /\ lo + k \in From(lo, k + 1)
        /\ From(lo, k + 1) \ {lo + k} = From(lo, k) /\ lo + k \in From(lo, n)
    <3>1. k < n /\ k + 1 \in Nat
      OBVIOUS
    <3>2. From(lo, k + 1) \in SUBSET From(lo, n)
      BY <3>1, FromStep
    <3>3. lo + k \in From(lo, k + 1) /\ From(lo, k + 1) \ {lo + k} = From(lo, k)
      BY FromStep, Zenon
    <3>4. lo + k \in From(lo, n)
      BY <3>1, FromStep, Zenon
    <3>. QED BY <3>2, <3>3, <3>4
  <2>2. it[From(lo, k + 1)] = f[lo + k] + it[From(lo, k)]
    <3>1. it[From(lo, k + 1)] = f[lo + k] + it[From(lo, k + 1) \ {lo + k}]
      BY <1>0, <2>1, SumRemove
    <3>. QED BY <2>1, <3>1
  <2>3. lo + (k + 1) - 1 = lo + k /\ (lo + k) - 1 = lo + k - 1
    OBVIOUS
  <2>4. e[lo + k] = e[lo + k - 1] + f[lo + k]
    BY <2>1, <2>3
  <2>5. f[lo + k] \in Int /\ e[lo - 1] \in Int /\ e[lo + k - 1] \in Int
    <3>1. lo - 1 \in lo - 1 .. lo + n - 1 /\ lo + k - 1 \in lo - 1 .. lo + n - 1
      OBVIOUS
    <3>. QED BY <2>1, <3>1
  <2>6. it[From(lo, k)] = e[lo + k - 1] - e[lo - 1]
    BY <1>2
  <2>. QED BY <2>2, <2>3, <2>4, <2>5, <2>6
<1>3. \A k \in Nat : k \in S
  <2>. HIDE DEF Ok
  <2>1. 0 \in S /\ \A k \in Nat : k \in S => k + 1 \in S
    BY <1>1, <1>2
  <2>. HIDE DEF S
  <2>. QED BY <2>1, NatSetInduction
<1>. QED BY <1>3

\* A function that never steps down is monotone.
LEMMA Monotone ==
  ASSUME NEW n \in Nat, NEW e \in [0 .. n -> Int], \A k \in 1 .. n : e[k - 1] <= e[k]
  PROVE  \A j, k \in 0 .. n : j <= k => e[j] <= e[k]
<1> DEFINE S == {k \in Nat : k <= n => \A j \in 0 .. k : e[j] <= e[k]}
<1>1. 0 \in S
  OBVIOUS
<1>2. ASSUME NEW k \in Nat, k \in S PROVE k + 1 \in S
  <2>. SUFFICES ASSUME k + 1 <= n, NEW j \in 0 .. k + 1 PROVE e[j] <= e[k + 1]
    OBVIOUS
  <2>1. CASE j = k + 1
    BY <2>1
  <2>2. CASE j \in 0 .. k
    <3>1. e[j] <= e[k]
      BY <1>2, <2>2
    <3>2. k + 1 \in 1 .. n /\ (k + 1) - 1 = k
      OBVIOUS
    <3>3. e[k] <= e[k + 1]
      BY <3>2
    <3>. QED BY <3>1, <3>3
  <2>. QED BY <2>1, <2>2
<1>3. \A k \in Nat : k \in S
  <2>. HIDE DEF S
  <2>. QED BY <1>1, <1>2, NatSetInduction
<1>. QED BY <1>3

=============================================================================
