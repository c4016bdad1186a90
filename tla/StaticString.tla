---------------------------- MODULE StaticString ----------------------------
(***************************************************************************)
(* static_string<N>: a count n and an array s of N + 1 characters, of      *)
(* which the ones behind the terminator are whatever an earlier value left *)
(* there.  Two strings of different capacities are assigned to each other, *)
(* from literals and through at(), and resized.  Characters are numbers, 0 *)
(* the terminator; texts is what each string has to read as.               *)
(***************************************************************************)
EXTENDS Integers, Sequences, FiniteSetsExt

CONSTANTS Chars,    \* the characters, without 0
          Limits    \* the capacities N of the two strings

ASSUME StringAssumption == Chars \subseteq Nat \ {0} /\ Limits \in [1 .. 2 -> Nat]

VARIABLES strs,   \* the two strings
          texts   \* what they have to read as

strvars == <<strs, texts>>

Indeterminate == 7   \* an element of s_ nobody has written

\* Positions of s count from 0.
max_size(i) == Limits[i]

FirstOf(str, n) == [k \in 1 .. n |-> str.s[k - 1]]

to_string(str) == FirstOf(str, str.n)

\* From rbegin() to rend().
Backward(str) == [k \in 1 .. str.n |-> str.s[str.n - k]]

\* A literal as the array the compiler makes of it.
Literal(v) == [n |-> Len(v), s |-> [k \in 0 .. Len(v) |-> IF k = Len(v) THEN 0 ELSE v[k + 1]]]

\* Traits::copy of the characters of src, its terminator with them.
CopyChars(str, src) ==
  [n |-> src.n, s |-> [k \in DOMAIN str.s |-> IF k <= src.n THEN src.s[k] ELSE str.s[k]]]

\* Fault: a string that shrinks keeps its old terminator only.
ResizeOpen(str, n) == [str EXCEPT !.n = n]

\* resize(n): the new characters are what was there.
resize(str, n) == [n |-> n, s |-> [str.s EXCEPT ![n] = 0]]

\* resize(n, c)
resize_fill(str, n, c) ==
  [n |-> n, s |-> [k \in DOMAIN str.s |->
     IF k = n THEN 0 ELSE IF str.n <= k /\ k < n THEN c ELSE str.s[k]]]

\* Traits::compare of the first n characters: the sign of the first difference.
TraitsCompare(s, t, n) ==
  LET diff == {k \in 0 .. n - 1 : s[k] # t[k]}
  IN  IF diff = {} THEN 0 ELSE IF s[Min(diff)] < t[Min(diff)] THEN -1 ELSE 1

\* compare of two strings, and of a string and a literal.
compare(a, b) ==
  LET v == TraitsCompare(a.s, b.s, Min({a.n, b.n}))
  IN  IF v # 0 \/ a.n = b.n THEN v ELSE IF a.n < b.n THEN -1 ELSE 1

\* The six operators.
Relations(a, b) ==
  [eq |-> compare(a, b) = 0, ne |-> compare(a, b) # 0, lt |-> compare(a, b) < 0,
   le |-> compare(a, b) <= 0, gt |-> compare(a, b) > 0, ge |-> compare(a, b) >= 0]

at_throws(str, pos) == pos >= str.n

-----------------------------------------------------------------------------
\* The default constructor writes the terminator only.
StringInit ==
  /\ strs = [i \in 1 .. 2 |-> [n |-> 0, s |-> [k \in 0 .. Limits[i] |->
                                 IF k = 0 THEN 0 ELSE Indeterminate]]]
  /\ texts = [i \in 1 .. 2 |-> << >>]

SetString(i, str, v) ==
  strs' = [strs EXCEPT ![i] = str] /\ texts' = [texts EXCEPT ![i] = v]

\* Copy construction and copy assignment from the other string.
Assign(i) ==
  /\ strs[3 - i].n <= max_size(i)
  /\ SetString(i, CopyChars(strs[i], strs[3 - i]), texts[3 - i])

\* std::length_error
AssignThrows(i) == strs[3 - i].n > max_size(i) /\ UNCHANGED strvars

\* The compiler refuses a literal that is too long.
AssignLiteral(i, v) == Len(v) <= max_size(i) /\ SetString(i, CopyChars(strs[i], Literal(v)), v)

\* The characters a longer string gains are not specified.
Resize(i, n) ==
  /\ n <= max_size(i)
  /\ SetString(i, resize(strs[i], n),
             SubSeq(texts[i], 1, Min({n, Len(texts[i])}))
               \o SubSeq(FirstOf(strs[i], n), Len(texts[i]) + 1, n))

ResizeFill(i, n, c) ==
  /\ n <= max_size(i)
  /\ SetString(i, resize_fill(strs[i], n, c),
             [k \in 1 .. n |-> IF k <= Len(texts[i]) THEN texts[i][k] ELSE c])

ResizeThrows(i, n) == n > max_size(i) /\ UNCHANGED strvars

\* A character is written through the reference at() returns.
WriteAt(i, pos, c) ==
  /\ ~at_throws(strs[i], pos)
  /\ SetString(i, [strs[i] EXCEPT !.s[pos] = c], [texts[i] EXCEPT ![pos + 1] = c])

StringNext ==
  \E i \in 1 .. 2 :
    \/ Assign(i) \/ AssignThrows(i)
    \/ \E c, d \in Chars : \E v \in {<< >>, <<c>>, <<c, d>>} : AssignLiteral(i, v)
    \/ \E n \in 0 .. Limits[i] + 1 :
         \/ Resize(i, n) \/ ResizeThrows(i, n)
         \/ \E c \in Chars : ResizeFill(i, n, c) \/ WriteAt(i, n, c)

StringSpec == StringInit /\ [][StringNext]_strvars

-----------------------------------------------------------------------------
\* The order of the dictionary.
Precedes(u, v) ==
  \E k \in 1 .. Len(v) :
    /\ k <= Len(u) + 1 /\ \A j \in 1 .. k - 1 : u[j] = v[j]
    /\ k <= Len(u) => u[k] < v[k]

\* Whatever was assigned, written, cut off and thrown before, each string
\* reads as its text, ends with a terminator and never exceeds its array; the
\* characters behind the terminator take no part in a comparison, whose six
\* operators are the order of the dictionary, between strings of different
\* capacities and with literals; at() accepts the positions of the text only.
StringIsText ==
  /\ \A i \in 1 .. 2 :
       LET str == strs[i]
       IN  /\ str.n <= max_size(i) /\ str.s[str.n] = 0 /\ to_string(str) = texts[i]
           /\ \A k \in DOMAIN texts[i] : Backward(str)[k] = texts[i][str.n + 1 - k]
           /\ \A pos \in 0 .. Limits[i] : at_throws(str, pos) <=> pos + 1 \notin DOMAIN texts[i]
           /\ \A c \in Chars : compare(str, Literal(<<c>>)) = 0 <=> texts[i] = <<c>>
  /\ LET r == Relations(strs[1], strs[2])
     IN  /\ r.eq <=> texts[1] = texts[2]
         /\ r.lt <=> Precedes(texts[1], texts[2])
         /\ r.gt <=> Precedes(texts[2], texts[1])
         /\ r.ne = ~r.eq /\ r.le = ~r.gt /\ r.ge = ~r.lt

=============================================================================
