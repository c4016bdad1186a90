----------------------------- MODULE MCWsWriter -----------------------------
(***************************************************************************)
(* Small instances of WsWriter.  Two buffer sizes and calls of up to five  *)
(* bytes give messages below, at and above one and two buffers.            *)
(***************************************************************************)
EXTENDS WsWriter

=============================================================================
