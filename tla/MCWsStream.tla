----------------------------- MODULE MCWsStream -----------------------------
(***************************************************************************)
(* Instances of WsStream for TLC.  Every variable is finite, so no counter *)
(* needs a cap beyond MaxNeed and MaxPieces: two payload bytes make a      *)
(* partial read, two pieces a masked frame that is sent in several writes. *)
(***************************************************************************)
EXTENDS WsStream

=============================================================================
