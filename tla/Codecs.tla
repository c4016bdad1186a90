------------------------------- MODULE Codecs -------------------------------
(***************************************************************************)
(* The octet codecs of the library, fed one piece after another as their   *)
(* callers do: the UTF-8 checker, the masking of frame payload, SHA-1's    *)
(* buffer of one block, and base64.  input is all that was fed; what has   *)
(* to come out is defined on it as a whole.                                *)
(*                                                                         *)
(* SHA-1's compression function is left uninterpreted: a digest is the     *)
(* sequence of the blocks it was applied to.  A masked octet is the octet  *)
(* of the key, 1 to 4, that it was combined with.                          *)
(***************************************************************************)
EXTENDS Integers, Sequences, SequencesExt, FiniteSetsExt, TLC

CONSTANTS BlockBytes,   \* BLOCK_BYTES of SHA-1
          LengthBytes,  \* of which the length of the message takes the last
          KeyBytes,     \* size of a prepared mask key: 4, or 8 on 64 bits
          Pieces,       \* sizes of the pieces fed to SHA-1 and the mask
          MaxHash,      \* bound on the octets fed to SHA-1 and the mask
          MaxOctets     \* bound on the octets fed to the other two

ASSUME CodecsAssumption ==
  /\ LengthBytes \in 1 .. BlockBytes - 1 /\ KeyBytes \subseteq {4, 8}
  /\ Pieces \subseteq Nat /\ MaxHash \in Nat /\ MaxOctets \in Nat

VARIABLES codec,   \* which of them it is
          state,   \* its state
          input    \* the octets fed so far

cvars == <<codec, state, input>>

-----------------------------------------------------------------------------
(* utf8_checker *)

\* An octet of every row of the table of types, at the ends of the ranges
\* where they matter: the type the table gives each.
Type ==
  65 :> 0 @@ 128 :> 1 @@ 143 :> 1 @@ 144 :> 9 @@ 159 :> 9 @@ 160 :> 7 @@ 191 :> 7
  @@ 193 :> 8 @@ 194 :> 2 @@ 224 :> 10 @@ 236 :> 3 @@ 237 :> 4 @@ 239 :> 3
  @@ 240 :> 11 @@ 243 :> 6 @@ 244 :> 5 @@ 245 :> 8

\* The state each type of octet leads to; the types not named reject.
Transition ==
  << 0 :> 0 @@ 2 :> 2 @@ 3 :> 3 @@ 4 :> 5 @@ 5 :> 8 @@ 6 :> 7 @@ 10 :> 4 @@ 11 :> 6,
     0 :> 1,
     1 :> 0 @@ 7 :> 0 @@ 9 :> 0,
     1 :> 2 @@ 7 :> 2 @@ 9 :> 2,
     7 :> 2,
     1 :> 2 @@ 9 :> 2,
     7 :> 3 @@ 9 :> 3,
     1 :> 3 @@ 7 :> 3 @@ 9 :> 3,
     1 :> 3 >>

\* state_ after reset()
utf8_reset == 0

\* One octet of write().  An octet that leads to the rejecting state resets
\* the checker, and write() returns false.
utf8_write(st, octet) ==
  LET t == Transition[st + 1]
  IN  IF Type[octet] \in DOMAIN t THEN [ok |-> TRUE, st |-> t[Type[octet]]]
      ELSE [ok |-> FALSE, st |-> utf8_reset]

\* finish(): nothing is left open.
utf8_finish(st) == st = 0

\* The Unicode standard's table of well-formed sequences.
Tails(lead) ==
  CASE lead < 128 -> << >>
    [] lead \in 194 .. 223 -> <<128 .. 191>>
    [] lead = 224 -> <<160 .. 191, 128 .. 191>>
    [] lead \in 225 .. 236 \/ lead \in 238 .. 239 -> <<128 .. 191, 128 .. 191>>
    [] lead = 237 -> <<128 .. 159, 128 .. 191>>
    [] lead = 240 -> <<144 .. 191, 128 .. 191, 128 .. 191>>
    [] lead \in 241 .. 243 -> <<128 .. 191, 128 .. 191, 128 .. 191>>
    [] lead = 244 -> <<128 .. 143, 128 .. 191, 128 .. 191>>
    [] OTHER -> <<{}>>

\* The characters of s, from its start: how the octets from position i on
\* read, "good", "open" if they end within a character, or "bad".
Reads(s) ==
  LET from[i \in 1 .. Len(s) + 4] ==
        IF i > Len(s) THEN "good"
        ELSE LET tails == Tails(s[i])
                 have == Min({Len(tails), Len(s) - i})
             IN  IF tails = <<{}>> \/ \E k \in 1 .. have : s[i + k] \notin tails[k] THEN "bad"
                 ELSE IF have < Len(tails) THEN "open"
                 ELSE from[i + Len(tails) + 1]
  IN  from[1]

-----------------------------------------------------------------------------
(* mask_inplace *)

\* ror(key, 8 * m); the lowest octet of the key is its first.
ror(key, m) == [k \in DOMAIN key |-> key[((k - 1 + m) % Len(key)) + 1]]

\* prepare_key: twice the key on 64 bits.
prepare_key(size) == [k \in 1 .. size |-> ((k - 1) % 4) + 1]

\* The octets of the key a piece of n octets is masked with: the whole key
\* while it lasts, its lower half twice for the rest.
KeyStream(key, n) ==
  LET whole == n - (n % Len(key))
  IN  [i \in 1 .. n |-> IF i <= whole THEN key[((i - 1) % Len(key)) + 1]
                        ELSE key[((i - whole - 1) % 4) + 1]]

mask_inplace(st, n) ==
  [key |-> ror(st.key, n % Len(st.key)), out |-> st.out \o KeyStream(st.key, n)]

-----------------------------------------------------------------------------
(* sha1 *)

sha1_init == [buf |-> << >>, digest |-> << >>]

transform(digest, block) == Append(digest, block)

\* ctx.buf is filled up to a block, again and again.
sha1_update(ctx, octets) ==
  LET all == ctx.buf \o octets
      blocks == Len(all) \div BlockBytes
  IN  [buf |-> SubSeq(all, blocks * BlockBytes + 1, Len(all)),
       digest |-> FoldLeft(transform, ctx.digest,
                    [b \in 1 .. blocks |-> SubSeq(all, (b - 1) * BlockBytes + 1, b * BlockBytes)])]

Zeros(n) == [i \in 1 .. n |-> 0]

\* The last LengthBytes of a block hold the length.
WithLength(block, total) ==
  SubSeq(block, 1, BlockBytes - LengthBytes) \o [i \in 1 .. LengthBytes |-> <<"length", total, i>>]

\* Fault: a block whose end the padding touches is taken for one with room.
FinishTight(ctx) ==
  LET total == Len(ctx.digest) * BlockBytes + Len(ctx.buf)
      padded == Append(ctx.buf, <<"pad">>)
      block == padded \o Zeros(BlockBytes - Len(padded))
  IN  IF Len(padded) > BlockBytes - LengthBytes + 1
      THEN transform(transform(ctx.digest, block), WithLength(Zeros(BlockBytes), total))
      ELSE transform(ctx.digest, WithLength(block, total))

sha1_finish(ctx) ==
  LET total == Len(ctx.digest) * BlockBytes + Len(ctx.buf)
      padded == Append(ctx.buf, <<"pad">>)
      block == padded \o Zeros(BlockBytes - Len(padded))
  IN  IF Len(padded) > BlockBytes - LengthBytes
      THEN transform(transform(ctx.digest, block), WithLength(Zeros(BlockBytes), total))
      ELSE transform(ctx.digest, WithLength(block, total))

\* FIPS 180: the message, a one bit, zeros, and its length.
Padded(s) ==
  LET zeros == CHOOSE z \in 0 .. BlockBytes - 1 :
                 (Len(s) + 1 + z + LengthBytes) % BlockBytes = 0
  IN  s \o <<<<"pad">>>> \o Zeros(zeros) \o [i \in 1 .. LengthBytes |-> <<"length", Len(s), i>>]

-----------------------------------------------------------------------------
(* base64 *)

Padding == 64   \* '='
NoIndex == 255  \* npos as an unsigned char

\* Up to three octets, the missing ones 0, as four letters of the alphabet.
Letters(c3) ==
  <<c3[1] \div 4, (c3[1] % 4) * 16 + c3[2] \div 16,
    (c3[2] % 16) * 4 + c3[3] \div 64, c3[3] % 64>>

base64_encode(s) ==
  LET group(g) == [k \in 1 .. 3 |-> IF 3 * g + k <= Len(s) THEN s[3 * g + k] ELSE 0]
      used(g) == Min({3, Len(s) - 3 * g}) + 1
  IN  FlattenSeq([g \in 1 .. (Len(s) + 2) \div 3 |->
        [k \in 1 .. 4 |-> IF k <= used(g - 1) THEN Letters(group(g - 1))[k] ELSE Padding]])

\* Four letters as three octets.
Octets3(c4) ==
  <<(c4[1] * 4 + ((c4[2] \div 16) % 4)) % 256,
    ((c4[2] % 16) * 16 + ((c4[3] \div 4) % 16)) % 256, ((c4[3] % 4) * 64 + c4[4]) % 256>>

\* Decoding ends at the first octet that is not of the alphabet; of a last
\* group of i letters i - 1 octets are kept.
base64_decode(e) ==
  LET n == Min({Len(e) + 1} \cup {i \in DOMAIN e : e[i] = Padding}) - 1
      group(g) == [k \in 1 .. 4 |-> IF 4 * g + k <= n THEN e[4 * g + k] ELSE NoIndex]
      kept(g) == Min({4, n - 4 * g}) - 1
  IN  FlattenSeq([g \in 1 .. (n + 3) \div 4 |-> SubSeq(Octets3(group(g - 1)), 1, kept(g - 1))])

\* RFC 4648: a group of 24 bits as a number, and its digits in base 64.
Number(s, g) ==
  LET octet(k) == IF 3 * g + k <= Len(s) THEN s[3 * g + k] ELSE 0
  IN  octet(1) * 65536 + octet(2) * 256 + octet(3)

Digits64(n) == <<n \div 262144, (n \div 4096) % 64, (n \div 64) % 64, n % 64>>

-----------------------------------------------------------------------------
CodecsInit ==
  /\ input = << >>
  /\ \/ codec = "utf8" /\ state = [ok |-> TRUE, st |-> utf8_reset]
     \/ codec = "mask" /\ \E size \in KeyBytes : state = [key |-> prepare_key(size), out |-> << >>]
     \/ codec = "sha1" /\ state = sha1_init
     \/ codec = "base64" /\ state = << >>

\* The next octet of a text.  Nobody writes on when write() has returned false.
Utf8Octet(octet) ==
  /\ codec = "utf8" /\ state.ok /\ Len(input) < MaxOctets
  /\ state' = utf8_write(state.st, octet) /\ input' = Append(input, octet)

Fed(n) == input \o [i \in 1 .. n |-> Len(input) + i]

\* The next buffer of a frame's payload.
MaskPiece(n) ==
  /\ codec = "mask" /\ Len(input) + n <= MaxHash
  /\ state' = mask_inplace(state, n) /\ input' = Fed(n)

HashPiece(n) ==
  /\ codec = "sha1" /\ Len(input) + n <= MaxHash
  /\ state' = sha1_update(state, [i \in 1 .. n |-> Len(input) + i]) /\ input' = Fed(n)

Base64Octet(octet) ==
  /\ codec = "base64" /\ Len(input) < MaxOctets
  /\ input' = Append(input, octet) /\ UNCHANGED state

\* Octets with and without each of the bits a letter is cut at.
AnyBits == {0, 65, 150, 255}

CodecsNext ==
  /\ \/ \E octet \in DOMAIN Type : Utf8Octet(octet)
     \/ \E octet \in AnyBits : Base64Octet(octet)
     \/ \E n \in Pieces : MaskPiece(n) \/ HashPiece(n)
  /\ UNCHANGED codec

CodecsSpec == CodecsInit /\ [][CodecsNext]_cvars

-----------------------------------------------------------------------------
\* However the octets are cut into pieces, and wherever a piece ends within a
\* character, a key, a block or a group: the UTF-8 checker rejects a text at
\* the first octet no well-formed text has there and finishes the whole
\* characters only; octet i of a payload is masked with octet i of the key,
\* on 32 and on 64 bits; SHA-1 compresses the blocks of the padded message,
\* each once and in order; base64 is the digits of the bits, and decodes to
\* what was encoded.
CodecsAreExact ==
  CASE codec = "utf8" ->
         /\ state.ok <=> Reads(input) # "bad"
         /\ state.ok /\ utf8_finish(state.st) <=> Reads(input) = "good"
    [] codec = "mask" -> state.out = [i \in DOMAIN input |-> ((i - 1) % 4) + 1]
    [] codec = "sha1" -> FlattenSeq(sha1_finish(state)) = Padded(input)
    [] codec = "base64" ->
         LET e == base64_encode(input)
             groups == (Len(input) + 2) \div 3
             digits == FlattenSeq([g \in 1 .. groups |-> Digits64(Number(input, g - 1))])
         IN  /\ base64_decode(e) = input /\ Len(e) = 4 * groups
             /\ \A i \in DOMAIN e : e[i] # Padding => e[i] = digits[i]
             /\ {i \in DOMAIN e : e[i] = Padding}
                  = Len(e) - (3 * groups - Len(input)) + 1 .. Len(e)

=============================================================================
