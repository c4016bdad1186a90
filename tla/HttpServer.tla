----------------------------- MODULE HttpServer -----------------------------
(***************************************************************************)
(* The example servers (examples/http_async_server.hpp and                 *)
(* http_sync_server.hpp) with clients that send one request after another  *)
(* (examples/http_crawl.cpp).  A peer is the object (asynchronous) or the  *)
(* detached thread (synchronous) that serves one connection; both keep     *)
(* using the server, whose destructor has to wait for them.  A response is *)
(* a prepared message; how its octets are written is modelled in           *)
(* HttpWriter.                                                             *)
(***************************************************************************)
EXTENDS HttpPrepare

CONSTANT Peers  \* connections a server may be asked for

VARIABLES
  server,     \* "async" or "sync"
  acceptor,   \* is acceptor_ open
  accepting,  \* an async_accept is outstanding
  peer,       \* peer[p]: "none", "reading", "gone", or the response it writes
  client,     \* client[p]: "none", "idle", "waiting" for a response, "closed"
  closing,    \* the destructor's handler that closes acceptor_ is queued
  stopped,    \* ios_.run() has returned for want of work
  dtor,       \* the destructor: "no", "joining", "done"
  unread      \* peers with a request in the socket that was not read yet

svars == <<server, acceptor, accepting, peer, client, closing, stopped, dtor,
           unread>>

\* Responses: 404 and 500 have a string_body, 200 a file_body.
Response(ver, kind) ==
  Prepared([req |-> FALSE, post |-> FALSE, nobody |-> FALSE, ver |-> ver,
            body |-> [kind |-> IF kind = "200" THEN "file" ELSE "whole", len |-> 1],
            cl |-> -1, chunked |-> FALSE, conn |-> "none"], "none")
Writing == {"200", "404", "500"}
Active(p) == peer[p] \in {"reading"} \cup Writing

\* The constructor: acceptor_ listens and the first accept is started.
Listening ==
  /\ acceptor = TRUE /\ accepting = TRUE
  /\ peer = [p \in Peers |-> "none"] /\ client = [p \in Peers |-> "none"]
  /\ closing = FALSE /\ stopped = FALSE /\ dtor = "no" /\ unread = {}

ServerInit == server \in {"async", "sync"} /\ Listening

-----------------------------------------------------------------------------
(* Accepting.                                                              *)

\* on_accept: a client connected; a peer begins to read, the next accept is
\* started.
OnAccept(p) ==
  /\ ~stopped /\ accepting /\ acceptor /\ client[p] = "none"
  /\ client' = [client EXCEPT ![p] = "idle"]
  /\ peer' = [peer EXCEPT ![p] = "reading"]
  /\ UNCHANGED <<server, acceptor, accepting, closing, stopped, dtor, unread>>

\* on_accept with an error, or after acceptor_ was closed: no accept follows.
OnAcceptError ==
  /\ ~stopped /\ accepting
  /\ accepting' = FALSE
  /\ UNCHANGED <<server, acceptor, peer, client, closing, stopped, dtor, unread>>

-----------------------------------------------------------------------------
(* A peer.                                                                 *)

\* The read failed: the client closed, or sent what is not a request.  The
\* peer is gone and its socket with it.
OnReadError(p) ==
  /\ peer[p] = "reading" /\ (p \in unread \/ client[p] = "closed")
  /\ peer' = [peer EXCEPT ![p] = "gone"]
  /\ client' = [client EXCEPT ![p] = "closed"]
  /\ unread' = unread \ {p}
  /\ UNCHANGED <<server, acceptor, accepting, closing, stopped, dtor>>

\* on_read: the file is missing (404), can be opened (200), or prepare()
\* throws because it cannot be opened (500).
OnRead(p) ==
  /\ peer[p] = "reading" /\ p \in unread
  /\ \E kind \in Writing : peer' = [peer EXCEPT ![p] = kind]
  /\ unread' = unread \ {p}
  /\ UNCHANGED <<server, acceptor, accepting, client, closing, stopped, dtor>>

\* What a peer does after a write that ended with code.
AfterWrite(p, code) ==
  IF server = "sync" /\ (code # "ok" \/ peer[p] = "404") THEN "gone" ELSE "reading"

\* The client has read the response; the connection ends when the peer is gone.
AfterResponse(p, next) ==
  IF next = "gone" \/ client[p] = "closed" THEN "closed" ELSE "idle"

\* on_write, and the end of a turn of do_peer: the response was sent.
OnWritten(p) ==
  /\ peer[p] \in Writing
  /\ \E ver \in {10, 11} :
       LET code == IF Closes(Response(ver, peer[p])) THEN "eof" ELSE "ok"
           next == AfterWrite(p, code)
       IN /\ peer' = [peer EXCEPT ![p] = next]
          /\ client' = [client EXCEPT ![p] = AfterResponse(p, next)]
  /\ UNCHANGED <<server, acceptor, accepting, closing, stopped, dtor, unread>>

\* Fault: a synchronous peer reads on after a failed write.
OnWriteErrorReads(p) ==
  /\ peer[p] \in Writing
  /\ peer' = [peer EXCEPT ![p] = "reading"]
  /\ UNCHANGED <<server, acceptor, accepting, client, closing, stopped, dtor, unread>>

\* The write failed: the connection broke, or the file could not be opened
\* the second time.  Of that the client sees nothing while the peer lives.
OnWriteError(p) ==
  /\ peer[p] \in Writing
  /\ LET next == AfterWrite(p, "error")
     IN /\ peer' = [peer EXCEPT ![p] = next]
        /\ \/ client' = [client EXCEPT ![p] = "closed"]
           \/ peer[p] = "200" /\ next = "reading" /\ UNCHANGED client
  /\ UNCHANGED <<server, acceptor, accepting, closing, stopped, dtor, unread>>

-----------------------------------------------------------------------------
(* The clients.                                                            *)

\* write(sock, req).
ClientSend(p) ==
  /\ client[p] = "idle"
  /\ client' = [client EXCEPT ![p] = "waiting"]
  /\ unread' = unread \cup {p}
  /\ UNCHANGED <<server, acceptor, accepting, peer, closing, stopped, dtor>>

ClientClose(p) ==
  /\ client[p] \in {"idle", "waiting"}
  /\ client' = [client EXCEPT ![p] = "closed"]
  /\ UNCHANGED <<server, acceptor, accepting, peer, closing, stopped, dtor, unread>>

-----------------------------------------------------------------------------
(* The end of the server.                                                  *)

\* Fault: the destructor only joins its threads.
DestroyJoins ==
  /\ dtor = "no"
  /\ dtor' = "joining"
  /\ UNCHANGED <<server, acceptor, accepting, peer, client, closing, stopped, unread>>

\* The destructor dispatches the closing of acceptor_ and joins its threads.
Destroy ==
  /\ dtor = "no"
  /\ dtor' = "joining" /\ closing' = TRUE
  /\ UNCHANGED <<server, acceptor, accepting, peer, client, stopped, unread>>

OnCloseAcceptor ==
  /\ closing /\ ~stopped
  /\ acceptor' = FALSE /\ closing' = FALSE
  /\ UNCHANGED <<server, accepting, peer, client, stopped, dtor, unread>>

\* Fault: the peer's thread holds no io_service::work.
RunReturnsEarly ==
  /\ ~stopped /\ ~accepting /\ ~closing
  /\ server = "async" => \A p \in Peers : ~Active(p)
  /\ stopped' = TRUE
  /\ UNCHANGED <<server, acceptor, accepting, peer, client, closing, dtor, unread>>

\* ios_.run() returns when nothing is outstanding: no accept, no handler, no
\* operation of a peer and no peer's io_service::work.
RunReturns ==
  /\ ~stopped /\ ~accepting /\ ~closing
  /\ \A p \in Peers : ~Active(p)
  /\ stopped' = TRUE
  /\ UNCHANGED <<server, acceptor, accepting, peer, client, closing, dtor, unread>>

\* The threads are joined.
Join ==
  /\ dtor = "joining" /\ stopped
  /\ dtor' = "done"
  /\ UNCHANGED <<server, acceptor, accepting, peer, client, closing, stopped, unread>>

-----------------------------------------------------------------------------
ServerStep ==
  \/ \E p \in Peers :
       OnReadError(p) \/ OnRead(p) \/ OnWritten(p) \/ OnWriteError(p)
  \/ OnCloseAcceptor \/ RunReturns \/ Join

\* A pending accept ends with operation_aborted once acceptor_ is closed.
AcceptAborted == ~acceptor /\ OnAcceptError

ServerNext ==
  \/ ServerStep \/ AcceptAborted
  \/ acceptor /\ OnAcceptError
  \/ \E p \in Peers : OnAccept(p) \/ ClientSend(p) \/ ClientClose(p)
  \/ Destroy

ServerEnds == AcceptAborted \/ OnCloseAcceptor \/ RunReturns \/ Join

\* No server was started.
ServerIdle ==
  /\ server = "sync" /\ acceptor = FALSE /\ accepting = FALSE
  /\ peer = [p \in Peers |-> "none"] /\ client = [p \in Peers |-> "closed"]
  /\ closing = FALSE /\ stopped = TRUE /\ dtor = "done" /\ unread = {}

\* Peers hold a reference to the server: its destructor returns only when
\* none of them is left, also for the detached threads of the sync server.
ServerOutlivesPeers == dtor = "done" => \A p \in Peers : ~Active(p)

\* The asynchronous server has read the request of a client that waits, could
\* not begin the response because the file vanished after prepare(), and
\* reads on: each waits for the other.
Forgotten(p) ==
  /\ server = "async" /\ peer[p] = "reading"
  /\ client[p] = "waiting" /\ p \notin unread

\* A client of the synchronous server that sent a request gets a response or
\* sees its connection end, whichever read, prepare() or write fails; so does
\* a client of the asynchronous one unless it is Forgotten.
ClientIsServed ==
  \A p \in Peers : client[p] = "waiting" ~> (client[p] # "waiting" \/ Forgotten(p))

\* Once the clients are gone the destructor ends.
ShutdownEnds ==
  (dtor = "joining" /\ \A p \in Peers : client[p] \in {"none", "closed"})
    ~> (dtor = "done" \/ \E p \in Peers : client[p] \notin {"none", "closed"})

=============================================================================
