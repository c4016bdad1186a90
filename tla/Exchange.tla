------------------------------ MODULE Exchange ------------------------------
(***************************************************************************)
(* The users of the HTTP messages and of a connection side by side: one    *)
(* write of a message (HttpWriter), one server with its clients            *)
(* (HttpServer), one pair of websocket streams that open (WsHandshake),    *)
(* and one that is open (WsSession).  They share no state, so a behaviour  *)
(* is one of one of them, while the others have nothing to do.             *)
(***************************************************************************)
EXTENDS HttpWriter, HttpServer, WsHandshake, WsSession

vars == <<wvars, svars, hvars, sessvars>>

Init ==
  \/ WriteInit /\ ServerIdle /\ HsIdle /\ SessionIdle
  \/ WriteIdle /\ ServerInit /\ HsIdle /\ SessionIdle
  \/ WriteIdle /\ ServerIdle /\ HsInit /\ SessionIdle
  \/ WriteIdle /\ ServerIdle /\ HsIdle /\ SessionInit

Next ==
  \/ WriteNext /\ UNCHANGED <<svars, hvars, sessvars>>
  \/ ServerNext /\ UNCHANGED <<wvars, hvars, sessvars>>
  \/ HsNext /\ UNCHANGED <<wvars, svars, sessvars>>
  \/ SessionNext /\ UNCHANGED <<wvars, svars, hvars>>

(***************************************************************************)
(* The io_service runs what is ready, blocking calls return once the       *)
(* stream has taken or given the octets, and octets arrive or the          *)
(* connection breaks.  A Writer calls the resume context it took           *)
(* ("eventually call it", says Writer.qbk), and asked again and again it   *)
(* does not suspend for ever.  Threads of a server do not starve a peer.   *)
(***************************************************************************)
Fairness ==
  /\ WF_vars(WriteStep /\ UNCHANGED <<svars, hvars, sessvars>>)
  /\ WF_vars(WriterResumes /\ UNCHANGED <<svars, hvars, sessvars>>)
  /\ SF_vars(WriterGoesOn /\ UNCHANGED <<svars, hvars, sessvars>>)
  /\ WF_vars(ServerEnds /\ UNCHANGED <<wvars, hvars, sessvars>>)
  /\ \A p \in Peers :
       /\ WF_vars((OnReadError(p) \/ OnRead(p)) /\ UNCHANGED <<wvars, hvars, sessvars>>)
       /\ WF_vars((OnWritten(p) \/ OnWriteError(p)) /\ UNCHANGED <<wvars, hvars, sessvars>>)
  /\ WF_vars(HsStep /\ UNCHANGED <<wvars, svars, sessvars>>)
  /\ WF_vars(SessionStep /\ UNCHANGED <<wvars, svars, hvars>>)

Spec == Init /\ [][Next]_vars /\ Fairness

\* What is begun ends, whatever the Writer, the stream and the other end do:
\* every write completes unless the Writer makes it Lost, every handshake
\* ends, that of two streams of this library with both open, and two teardowns
\* that wait for each other return.
CallsEnd == WriteCompletes /\ HandshakeEnds /\ OwnHandshakeOpens /\ TeardownEnds

=============================================================================
