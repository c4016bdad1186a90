----------------------------- MODULE HttpLists ------------------------------
(***************************************************************************)
(* The lists of a field value: token_list, ext_list and param_list of      *)
(* rfc7230.hpp.  The value arrives octet by octet; the BNF of the header   *)
(* is kept beside it as an automaton that collects what a reader has to    *)
(* find.  An octet is one of its kinds: two token characters that differ   *)
(* in case only, the separators, white space, and a control character.     *)
(* An iterator is the positions (it, first) in the text.                   *)
(***************************************************************************)
EXTENDS Integers, Sequences, SequencesExt, FiniteSetsExt

CONSTANTS MaxText,   \* bound on the octets of a field value
          MaxJunk    \* bound on the octets after the first invalid one

VARIABLES text,   \* the field value
          gram,   \* what the grammar makes of it
          junk    \* the octets after the first invalid one

lvars == <<text, gram, junk>>

ListOctets == {"a", "A", ",", ";", "=", "DQ", "BS", "SP", "CTL"}

is_tchar(ch) == ch \in {"a", "A"}

is_qdchar(ch) == ch \notin {"DQ", "BS", "CTL"}

is_qpchar(ch) == ch # "CTL"

ToLower(s) == [i \in DOMAIN s |-> IF s[i] = "A" THEN "a" ELSE s[i]]

ci_equal(s, t) == ToLower(s) = ToLower(t)

skip_ows(s, i) == Min({j \in i .. Len(s) + 1 : j > Len(s) \/ s[j] # "SP"})

skip_token(s, i) == Min({j \in i .. Len(s) + 1 : j > Len(s) \/ ~is_tchar(s[j])})

At(s, i, ch) == i <= Len(s) /\ s[i] = ch

TokenAt(s, i) == i <= Len(s) /\ is_tchar(s[i])

-----------------------------------------------------------------------------
\* Fault: the octet after a backslash is read as an octet of its own.
PairSplit(s, from) ==
  LET ends[k \in from .. Len(s) + 2] ==
        IF k > Len(s) THEN 0
        ELSE IF s[k] = "DQ" THEN k + 1
        ELSE IF is_qpchar(s[k]) THEN ends[k + 1] ELSE 0
  IN  ends[from]

\* The position behind the quoted-string whose text starts at from; 0 if it
\* has an invalid octet or no end.
quoted_end(s, from) ==
  LET ends[k \in from .. Len(s) + 2] ==
        IF k > Len(s) THEN 0
        ELSE IF s[k] = "DQ" THEN k + 1
        ELSE IF is_qdchar(s[k]) THEN ends[k + 1]
        ELSE IF s[k] = "BS" /\ k < Len(s) /\ is_qpchar(s[k + 1]) THEN ends[k + 2]
        ELSE 0
  IN  ends[from]

\* What a parameter iterator at position i moves to.  It is empty, first = it,
\* where no parameter can be read: the whole parameter is given up, its
\* semicolon too.
param_increment(s, i) ==
  LET first == skip_ows(s, i)
      p0 == skip_ows(s, first + 1)
      p1 == skip_token(s, p0)
      q == skip_ows(s, p1)
      p2 == skip_ows(s, q + 1)
      end == IF At(s, p2, "DQ") THEN quoted_end(s, p2 + 1) ELSE skip_token(s, p2)
      Param(it, value) ==
        [it |-> it, first |-> first, name |-> SubSeq(s, p0, p1 - 1), value |-> value]
      err == [it |-> first, first |-> first, name |-> << >>, value |-> << >>]
  IN  IF ~At(s, first, ";") \/ ~TokenAt(s, p0) THEN err
      ELSE IF q > Len(s) \/ At(s, q, ";") THEN Param(q, << >>)
      ELSE IF s[q] # "=" THEN err
      ELSE IF p2 > Len(s) THEN Param(p2, << >>)
      ELSE IF end <= p2 THEN err
      ELSE Param(end, SubSeq(s, p2, end - 1))

Empty(p) == p.it = p.first

\* Whether octet k of a quoted-string is one unquote keeps: not a quote at
\* its ends, nor a backslash that escapes the next octet.
Kept(v) ==
  LET esc[k \in 1 .. Len(v)] == k > 1 /\ v[k - 1] = "BS" /\ ~esc[k - 1]
  IN  {k \in 2 .. Len(v) - 1 : v[k] # "BS" \/ esc[k]}

unquote(v) ==
  IF v # << >> /\ v[1] = "DQ"
  THEN LET ks == SetToSortSeq(Kept(v), <) IN [n \in DOMAIN ks |-> v[ks[n]]]
  ELSE v

\* The elements of param_list{s}, from begin() to end().
param_list(s) ==
  LET from[i \in 1 .. Len(s) + 1] ==
        LET p == param_increment(s, i)
        IN  IF Empty(p) THEN << >>
            ELSE <<[name |-> p.name, value |-> unquote(p.value)]>> \o from[p.it]
  IN  from[1]

\* Where the parameters behind an extension end.
params_end(s, i) ==
  LET from[k \in 1 .. Len(s) + 1] ==
        LET p == param_increment(s, k) IN IF Empty(p) THEN p.it ELSE from[p.it]
  IN  from[i]

-----------------------------------------------------------------------------
\* What a list iterator at (it, first) moves to: the next token, past white
\* space and commas, at least one of them unless this is the first element;
\* end() otherwise.
token_increment(s, it, first) ==
  LET p0 == Min({j \in it .. Len(s) + 1 : j > Len(s) \/ s[j] \notin {"SP", ","}})
      need_comma == it # first /\ \A j \in it .. p0 - 1 : s[j] # ","
  IN  IF TokenAt(s, p0) /\ ~need_comma
      THEN [it |-> skip_token(s, p0), first |-> it, name |-> SubSeq(s, p0, skip_token(s, p0) - 1)]
      ELSE [it |-> Len(s) + 1, first |-> Len(s) + 1, name |-> << >>]

\* The elements of token_list{s}.
token_list(s) ==
  LET from[i \in 1 .. Len(s) + 1] ==
        LET e == token_increment(s, i, IF i = 1 THEN 1 ELSE 0)
        IN  IF Empty(e) THEN << >> ELSE <<e.name>> \o from[e.it]
  IN  from[1]

\* The elements of ext_list{s}: a token and the param_list behind it.
ext_list(s) ==
  LET from[i \in 1 .. Len(s) + 1] ==
        LET e == token_increment(s, i, IF i = 1 THEN 1 ELSE 0)
            end == params_end(s, e.it)
        IN  IF Empty(e) THEN << >>
            ELSE <<[name |-> e.name, params |-> param_list(SubSeq(s, e.it, end - 1))]>>
                 \o from[end]
  IN  from[1]

ext_exists(s, t) == \E e \in Range(ext_list(s)) : ci_equal(t, e.name)

token_exists(s, t) == \E name \in Range(token_list(s)) : ci_equal(t, name)

-----------------------------------------------------------------------------
\* The BNF in front of ext_list, as an automaton.  at is the place in the
\* grammar; exts the extensions before and with the one being read, without
\* the parameter being read, which is param.  cut is empty, or holds the
\* extensions before the first parameter that was interrupted in its name or
\* in front of its value: the iterators give it up, and stop.
GramInit == [at |-> "gap", exts |-> << >>, param |-> << >>, cut |-> << >>]

NewParam == <<[name |-> << >>, value |-> << >>]>>

\* The extensions with the parameter being read.
WithParam(g) ==
  IF g.param = << >> THEN g.exts
  ELSE [g.exts EXCEPT ![Len(g.exts)].params = @ \o g.param]

Closed(g, at) == [g EXCEPT !.at = at, !.exts = WithParam(g), !.param = << >>]

Named(g, ch) == [g EXCEPT !.at = "name", !.param[1].name = Append(@, ch)]

Valued(g, at, ch) == [g EXCEPT !.at = at, !.param[1].value = Append(@, ch)]

\* What a reader finds if the text ends here: a parameter without a name, or
\* without the end of its value, is not there.
Found(g) == IF g.at \in {"semi", "quoted", "pair"} THEN g.exts ELSE WithParam(g)

\* At an invalid octet the text ends, says the documentation of the lists.
Bad(g) == [g EXCEPT !.at = "bad", !.exts = Found(g), !.param = << >>]

Interrupted(g) == [g EXCEPT !.cut = IF @ = << >> THEN <<g.exts>> ELSE @]

\* Between two elements of the grammar: white space, a semicolon, a comma.
Separator(g, ch, at) ==
  CASE ch = "SP" -> [g EXCEPT !.at = at]
    [] ch = ";" -> [Closed(g, "semi") EXCEPT !.param = NewParam]
    [] ch = "," -> Closed(g, "gap")
    [] OTHER -> Bad(g)

GramRead(g, ch) ==
  CASE g.at = "gap" ->
         IF is_tchar(ch)
         THEN [g EXCEPT !.at = "token",
                        !.exts = Append(@, [name |-> <<ch>>, params |-> << >>])]
         ELSE IF ch \in {"SP", ","} THEN g ELSE Bad(g)
    [] g.at = "token" ->
         IF is_tchar(ch) THEN [g EXCEPT !.exts[Len(g.exts)].name = Append(@, ch)]
         ELSE Separator(g, ch, "after")
    [] g.at = "after" -> Separator(g, ch, "after")
    [] g.at = "semi" ->
         IF is_tchar(ch) THEN Named(g, ch) ELSE IF ch = "SP" THEN g ELSE Bad(g)
    [] g.at \in {"name", "named"} ->
         IF g.at = "name" /\ is_tchar(ch) THEN Named(g, ch)
         ELSE IF ch = "=" THEN [g EXCEPT !.at = "equals"]
         ELSE Separator(IF ch \in {"SP", ";"} THEN g ELSE Interrupted(g), ch, "named")
    [] g.at = "equals" ->
         IF is_tchar(ch) THEN Valued(g, "value", ch)
         ELSE IF ch = "DQ" THEN [g EXCEPT !.at = "quoted"]
         ELSE IF ch = "SP" THEN g ELSE Bad(Interrupted(g))
    [] g.at = "value" ->
         IF is_tchar(ch) THEN Valued(g, "value", ch)
         ELSE Separator(Closed(g, "after"), ch, "after")
    [] g.at = "quoted" ->
         IF ch = "DQ" THEN Closed(g, "after")
         ELSE IF ch = "BS" THEN [g EXCEPT !.at = "pair"]
         ELSE IF is_qdchar(ch) THEN Valued(g, "quoted", ch) ELSE Bad(g)
    [] g.at = "pair" -> IF is_qpchar(ch) THEN Valued(g, "quoted", ch) ELSE Bad(g)
    [] g.at = "bad" -> g

ListInit == text = << >> /\ gram = GramInit /\ junk = 0

\* The next octet of the field value.
Octet(ch) ==
  /\ Len(text) < MaxText /\ junk < MaxJunk
  /\ text' = Append(text, ch)
  /\ gram' = GramRead(gram, ch)
  /\ junk' = IF gram.at = "bad" THEN junk + 1 ELSE junk

ListNext == \E ch \in ListOctets : Octet(ch)

ListSpec == ListInit /\ [][ListNext]_lvars

-----------------------------------------------------------------------------
Queries == {<<"a">>, <<"A", "a">>}

\* The text up to its first semicolon, which ends a token list.
Before(s) == SubSeq(s, 1, Min({Len(s) + 1} \cup {i \in DOMAIN s : s[i] = ";"}) - 1)

\* Iterating a field value from begin() to end() meets exactly the extensions
\* and parameters its BNF derives, quoted values without their quotes and
\* escapes, and reads it as documented, as if it ended in front of the first
\* invalid octet.  The one exception is a parameter that is interrupted before
\* its value: the documentation has it reported (and the list go on, if a comma
\* interrupts it), but it is dropped and the iteration ends with the
\* parameter before it.  exists() finds a token in any case.
ListsAreRead ==
  LET exts   == IF gram.cut = << >> THEN Found(gram) ELSE gram.cut[1]
      names  == [i \in DOMAIN exts |-> exts[i].name]
      tokens == token_list(text)
      found  == {t \in Queries : ext_exists(text, t)}
  IN  /\ ext_list(text) = exts
      /\ found = {t \in Queries : ToLower(t) \in {ToLower(n) : n \in Range(names)}}
      /\ ";" \notin Range(text) => tokens = names
      /\ tokens = token_list(Before(text))
      /\ \A t \in Queries : token_exists(text, t) => t \in found

=============================================================================
