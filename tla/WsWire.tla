------------------------------- MODULE WsWire -------------------------------
(***************************************************************************)
(* What the outgoing half of a WebSocket connection promises to the peer,  *)
(* whoever writes: frames one after the other, the fragments of a message  *)
(* in order, control frames between them, and a close frame last.          *)
(***************************************************************************)

VARIABLES
  cur,     \* the frame being sent, "none" between frames
  closed,  \* a close frame was begun
  mid      \* a message was begun whose final frame was not

Init == cur = "none" /\ closed = FALSE /\ mid = FALSE

\* A data frame: the first of a message or, inside a message, a continuation.
BeginData ==
  /\ cur = "none" /\ ~closed
  /\ cur' = IF mid THEN "cont" ELSE "first"
  /\ mid' \in BOOLEAN
  /\ UNCHANGED closed

BeginControl ==
  /\ cur = "none" /\ ~closed
  /\ cur' \in {"ping", "pong", "close"}
  /\ closed' = (cur' = "close")
  /\ UNCHANGED mid

End == cur # "none" /\ cur' = "none" /\ UNCHANGED <<closed, mid>>

Next == BeginData \/ BeginControl \/ End

Spec == Init /\ [][Next]_<<cur, closed, mid>>

=============================================================================
