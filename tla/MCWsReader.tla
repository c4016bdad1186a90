----------------------------- MODULE MCWsReader -----------------------------
(***************************************************************************)
(* Small instances of WsReader.  Len7 = 3 leaves room for a close frame    *)
(* with a code and a reason, Len16 = 4 and U64Max = 5 for the other two    *)
(* length forms and for a sum that wraps.                                  *)
(***************************************************************************)
EXTENDS WsReader

Reader(async, server, reuse, max) ==
  [async |-> async, server |-> server, reuse |-> reuse, max |-> max]

\* The synchronous reader of a server with a limit, and the asynchronous one
\* of a client without, whose stream serves one connection after another.
MCReaders == {Reader(FALSE, TRUE, FALSE, 4), Reader(TRUE, FALSE, TRUE, 0)}

\* The asynchronous reader on its first connection.
MCAsyncReader == {Reader(TRUE, TRUE, FALSE, 4)}

=============================================================================
