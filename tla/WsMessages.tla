----------------------------- MODULE WsMessages -----------------------------
(***************************************************************************)
(* What writing promises: the bytes a caller hands over for a message      *)
(* reach the peer in frames of that message, all of them, the first frame  *)
(* with the message's opcode and the others as continuations, the last     *)
(* marked final.                                                           *)
(***************************************************************************)
EXTENDS Integers

VARIABLES
  left,    \* bytes handed over and not yet announced by a frame
  due,     \* bytes of the frame on the wire that are still to be sent
  ended,   \* the caller handed over the end of the message
  open,    \* the peer has part of a message
  last,    \* opcode of the last frame on the wire
  dead     \* the connection failed

mvars == <<left, due, ended, open, last, dead>>

Init == left = 0 /\ due = 0 /\ ~ended /\ ~open /\ last = "none" /\ ~dead

\* The caller hands over more bytes of a message, and perhaps its end.
Give ==
  /\ ~dead /\ ~ended /\ due = 0
  /\ left' \in Nat /\ left' >= left /\ ended' \in BOOLEAN
  /\ UNCHANGED <<due, open, last, dead>>

\* A frame of left - left' bytes begins, all but due' of them sent with its
\* header.  It is final, and leaves the peer with a whole message, only if the
\* caller ended the message and the frame takes all that is left of it.
Frame ==
  /\ ~dead /\ due = 0
  /\ left' \in Nat /\ due' \in Nat /\ left' + due' <= left
  /\ open' \in BOOLEAN /\ (~open' => ended /\ left' = 0)
  /\ ended' = (ended /\ open')
  /\ last' = IF open THEN "cont" ELSE "first"
  /\ UNCHANGED dead

\* More bytes of the frame.
Piece ==
  /\ ~dead /\ due' \in Nat /\ due' < due
  /\ UNCHANGED <<left, ended, open, last, dead>>

\* The connection fails, and whatever was in progress is dropped.
Fail == dead' /\ left' = 0 /\ due' = 0 /\ ended' = FALSE /\ UNCHANGED <<open, last>>

\* A new connection.
Open == dead /\ Init'

Next == Give \/ Frame \/ Piece \/ Fail \/ Open

Spec == Init /\ [][Next]_mvars

=============================================================================
