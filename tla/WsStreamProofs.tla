--------------------------- MODULE WsStreamProofs ---------------------------
(***************************************************************************)
(* Proofs about WsStream, for every payload bound and piece bound.  First  *)
(* for a caller that defers its writes on a single-threaded io_service,    *)
(* then what every caller keeps, on one thread or on many.                 *)
(* The read operation's handlers are built from five pieces (ReadUpcall,   *)
(* ReadWait, ReadPark, ReadWrite, Teardown), the write operation's from    *)
(* two (WriteUpcall, StartWrite): a lemma says when each piece preserves   *)
(* the invariant, and a handler's lemma combines those of its pieces.      *)
(***************************************************************************)
EXTENDS WsStream, TLAPS

\* No caller starts writes straight from a completion on one thread.
Disciplined == "eager" \notin Callers

Deferred == caller = "deferred"

\* What a handler of the read operation does to the variables its pieces do
\* not mention: the frame read so far changes, the write operation does not.
ReadSide ==
  /\ rd_fh' \in Opcodes
  /\ cr' \in BOOLEAN /\ (cr => cr')
  /\ UNCHANGED <<wop, fh_cont, fh_fin, wr_cont, wire_cont>>

\* The stream that open(role) leaves behind satisfies the invariant.
LEMMA InitIInv == Init => IInv
<1>1. Init => CountsOK
  BY BoundsAssumption DEF Init, CountsOK
<1>2. Init => StatesOK
  BY DEF Init, StatesOK, RdStates, WrStates, Opcodes, Results
<1>3. Init => FlagsOK
  BY DEF Init, FlagsOK
<1>4. Init => BlockInv /\ ParkedReadHasWaker /\ ParkedWriteHasWaker
  BY DEF Init, BlockInv, ParkedReadHasWaker, ParkedWriteHasWaker,
         RdWriting, RdTeardown, RdParked, RdPosted
<1>5. Init => ResumeInv /\ CloseInv /\ ContInv
  BY DEF Init, ResumeInv, CloseInv, ClosedIsAgreed, ContInv,
         RdTeardown, RdParked, RdPosted
<1>. QED BY <1>1, <1>2, <1>3, <1>4, <1>5 DEF IInv, ControlInv

\* The read operation may call its handler whenever it is not suspended,
\* provided it reports error::closed only after both close frames.
LEMMA ReadUpcallKeeps ==
  ASSUME NEW ec \in Results, ControlInv, ReadUpcall(ec), ReadSide,
         rd \notin {"idle"} \cup RdParked, wr # "posted",
         failed' \in BOOLEAN, failed => failed',
         sock' = sock \/ (sock' = "closed" /\ wr_close),
         ec = "closed" => cr' /\ wr_close
  PROVE  ControlInv'
<1> USE DEF ControlInv, ReadUpcall, ReadSide, RdReading, RdWriting, RdTeardown, RdParked, RdPosted
<1>1. StatesOK'
  BY DEF StatesOK, RdStates, WrStates, Results
<1>2. FlagsOK'
  BY DEF FlagsOK
<1>3. BlockInv'
  BY DEF StatesOK, FlagsOK, BlockInv, ParkedWriteHasWaker
<1>4. ParkedReadHasWaker'
  BY DEF FlagsOK, BlockInv, ParkedReadHasWaker
<1>5. ParkedWriteHasWaker'
  BY DEF FlagsOK, BlockInv, ParkedReadHasWaker, ParkedWriteHasWaker
<1>6. ResumeInv'
  BY DEF FlagsOK, ResumeInv, BlockInv, ParkedWriteHasWaker
<1>7. CloseInv'
  BY DEF FlagsOK, CloseInv, ClosedIsAgreed
<1>8. ContInv'
  BY DEF FlagsOK, ContInv, BlockInv, ParkedWriteHasWaker
<1>. QED BY <1>1, <1>2, <1>3, <1>4, <1>5, <1>6, <1>7, <1>8

\* The read operation may go on reading; it is still there to wake a write.
LEMMA ReadWaitKeeps ==
  ASSUME NEW st \in {"abort"} \cup RdReading, ControlInv, ReadWait(st), ReadSide,
         rd \in {"idle", "pong_posted"} \cup RdReading,
         wr_op => st # "abort",
         wr = "posted" => st \in {"abort", "read_fh", "read_payload"}
  PROVE  ControlInv'
<1> USE DEF ControlInv, ReadWait, ReadSide, RdReading, RdWriting, RdTeardown, RdParked, RdPosted
<1>1. StatesOK'
  BY DEF StatesOK, RdStates, WrStates, Results
<1>2. FlagsOK'
  BY DEF FlagsOK
<1>3. BlockInv'
  BY DEF StatesOK, FlagsOK, BlockInv, ParkedWriteHasWaker
<1>4. ParkedReadHasWaker'
  BY DEF FlagsOK, BlockInv, ParkedReadHasWaker
<1>5. ParkedWriteHasWaker'
  BY DEF FlagsOK, BlockInv, ParkedReadHasWaker, ParkedWriteHasWaker
<1>6. ResumeInv'
  BY DEF FlagsOK, ResumeInv, BlockInv, ParkedWriteHasWaker
<1>7. CloseInv'
  BY DEF FlagsOK, CloseInv, ClosedIsAgreed
<1>8. ContInv'
  BY DEF FlagsOK, ContInv, BlockInv, ParkedWriteHasWaker
<1>. QED BY <1>1, <1>2, <1>3, <1>4, <1>5, <1>6, <1>7, <1>8

\* The read operation may suspend itself only behind the write in flight.
LEMMA ReadParkKeeps ==
  ASSUME NEW st \in RdParked, ControlInv, ReadPark(st), ReadSide,
         rd \in RdReading, wr_block # "none", ~wr_close,
         st = "close_parked" => cr'
  PROVE  ControlInv'
<1> USE DEF ControlInv, ReadPark, ReadSide, RdReading, RdWriting, RdTeardown, RdParked, RdPosted
<1>0. wr = "write"
  BY DEF StatesOK, BlockInv
<1>1. StatesOK'
  BY DEF StatesOK, RdStates, WrStates, Results
<1>2. FlagsOK'
  BY DEF FlagsOK
<1>3. BlockInv'
  BY DEF StatesOK, FlagsOK, BlockInv, ParkedWriteHasWaker
<1>4. ParkedReadHasWaker'
  BY <1>0 DEF FlagsOK, ParkedReadHasWaker
<1>5. ParkedWriteHasWaker'
  BY <1>0 DEF FlagsOK, ParkedWriteHasWaker
<1>6. ResumeInv'
  BY <1>0 DEF FlagsOK, ResumeInv
<1>7. CloseInv'
  BY DEF FlagsOK, CloseInv, ClosedIsAgreed
<1>8. ContInv'
  BY DEF FlagsOK, ContInv, BlockInv, ParkedWriteHasWaker
<1>. QED BY <1>1, <1>2, <1>3, <1>4, <1>5, <1>6, <1>7, <1>8

\* The read operation may send a control frame while nobody is writing.
LEMMA ReadWriteKeeps ==
  ASSUME NEW st \in RdWriting, ControlInv, ReadWrite(st), ReadSide,
         rd \in RdReading \cup RdPosted, wr_block = "none", wr # "posted",
         failed' \in BOOLEAN, failed => failed',
         wr_close' \in BOOLEAN, wr_close => wr_close',
         st # "pong_write" => wr_close',
         st = "close_write" => cr'
  PROVE  ControlInv'
<1> USE DEF ControlInv, ReadWrite, ReadSide, RdReading, RdWriting, RdTeardown, RdParked, RdPosted
<1>1. StatesOK'
  BY DEF StatesOK, RdStates, WrStates, Results
<1>2. FlagsOK'
  BY DEF FlagsOK
<1>3. BlockInv'
  BY DEF StatesOK, FlagsOK, BlockInv, ParkedWriteHasWaker
<1>4. ParkedReadHasWaker'
  BY DEF FlagsOK, BlockInv, ParkedReadHasWaker
<1>5. ParkedWriteHasWaker'
  BY DEF FlagsOK, BlockInv, ParkedReadHasWaker, ParkedWriteHasWaker
<1>6. ResumeInv'
  BY DEF FlagsOK, ResumeInv, BlockInv, ParkedWriteHasWaker
<1>7. CloseInv'
  BY DEF FlagsOK, CloseInv, ClosedIsAgreed
<1>8. ContInv'
  BY DEF FlagsOK, ContInv, BlockInv, ParkedWriteHasWaker
<1>. QED BY <1>1, <1>2, <1>3, <1>4, <1>5, <1>6, <1>7, <1>8

\* Teardown may begin once this end's close frame is out.
LEMMA TeardownKeeps ==
  ASSUME NEW st \in RdTeardown, ControlInv, Teardown(st), ReadSide,
         rd \in RdReading \cup {"close_write", "fail_write"}, wr # "posted", wr_close,
         st = "close_teardown" => cr'
  PROVE  ControlInv'
<1> USE DEF ControlInv, Teardown, ReadSide, RdReading, RdWriting, RdTeardown, RdParked, RdPosted
<1>1. StatesOK'
  BY DEF StatesOK, RdStates, WrStates, Results
<1>2. FlagsOK'
  BY DEF FlagsOK
<1>3. BlockInv'
  BY DEF StatesOK, FlagsOK, BlockInv, ParkedWriteHasWaker
<1>4. ParkedReadHasWaker'
  BY DEF FlagsOK, BlockInv, ParkedReadHasWaker
<1>5. ParkedWriteHasWaker'
  BY DEF FlagsOK, BlockInv, ParkedReadHasWaker, ParkedWriteHasWaker
<1>6. ResumeInv'
  BY DEF FlagsOK, ResumeInv, BlockInv, ParkedWriteHasWaker
<1>7. CloseInv'
  BY DEF FlagsOK, CloseInv, ClosedIsAgreed
<1>8. ContInv'
  BY DEF FlagsOK, ContInv, BlockInv, ParkedWriteHasWaker
<1>. QED BY <1>1, <1>2, <1>3, <1>4, <1>5, <1>6, <1>7, <1>8

\* The same when shutdown_send fails and the operation completes at once.
LEMMA CallTeardownKeeps ==
  ASSUME NEW st \in RdTeardown, ControlInv, CallTeardown(st), ReadSide,
         rd \in RdReading \cup {"close_write", "fail_write"}, wr # "posted", wr_close,
         st = "close_teardown" => cr'
  PROVE  ControlInv'
<1>1. CASE Teardown(st)
  BY <1>1, TeardownKeeps
<1>2. CASE ReadUpcall("error") /\ UNCHANGED <<failed, sock>>
  <2>1. "error" \in Results /\ failed' \in BOOLEAN /\ rd \notin {"idle"} \cup RdParked
    BY <1>2 DEF Results, ControlInv, FlagsOK, RdReading, RdParked
  <2>. QED BY <1>2, <2>1, ReadUpcallKeeps
<1>. QED BY <1>1, <1>2 DEF CallTeardown

\* do_fail preserves the invariant in every state the reader can be reading in.
LEMMA DoFailKeeps ==
  ASSUME ControlInv, DoFail, ReadSide, rd \in RdReading, wr # "posted"
  PROVE  ControlInv'
<1>1. CASE wr_close /\ CallTeardown("fail_teardown")
  BY <1>1, CallTeardownKeeps DEF RdTeardown
<1>2. CASE ~wr_close /\ wr_block # "none" /\ ReadPark("fail_parked")
  BY <1>2, ReadParkKeeps DEF RdParked
<1>3. CASE ~wr_close /\ wr_block = "none" /\ SendFailClose
  BY <1>3, ReadWriteKeeps DEF SendFailClose, RdWriting
<1>. QED BY <1>1, <1>2, <1>3 DEF DoFail

\* do_pong preserves the invariant, from do_control and when it is resumed.
LEMMA DoPongKeeps ==
  ASSUME ControlInv, DoPong, ReadSide, wr # "posted", wr_block = "none",
         rd \in {"pong_posted"} \cup RdReading
  PROVE  ControlInv'
<1>1. CASE wr_close /\ ReadWait("read_fh")
  BY <1>1, ReadWaitKeeps DEF RdReading
<1>2. CASE ~wr_close /\ ReadWrite("pong_write") /\ UNCHANGED <<wr_close, failed>>
  <2>1. wr_close' \in BOOLEAN /\ failed' \in BOOLEAN
    BY <1>2 DEF ControlInv, FlagsOK
  <2>. QED BY <1>2, <2>1, ReadWriteKeeps DEF RdWriting, RdPosted
<1>. QED BY <1>1, <1>2 DEF DoPong

\* do_close preserves the invariant once the peer's close frame was read.
LEMMA DoCloseKeeps ==
  ASSUME ControlInv, DoClose, ReadSide, wr # "posted", wr_block = "none", cr',
         rd \in {"close_posted"} \cup RdReading
  PROVE  ControlInv'
<1>1. failed' \in BOOLEAN
  BY DEF ControlInv, FlagsOK, DoClose
<1>. QED BY <1>1, ReadWriteKeeps DEF DoClose, RdWriting, RdPosted

\* do_control preserves the invariant for every control frame.
LEMMA DoControlKeeps ==
  ASSUME NEW op, ControlInv, DoControl(op), rd \in RdReading, wr # "posted",
         rd_fh' \in Opcodes, UNCHANGED wrvars
  PROVE  ControlInv'
<1>0. ReadSide
  BY DEF DoControl, ReadSide, ControlInv, FlagsOK, wrvars
<1>1. CASE DoPing
  <2>1. CASE wr_close /\ ReadWait("read_fh")
    BY <1>0, <2>1, ReadWaitKeeps DEF RdReading
  <2>2. CASE ~wr_close /\ wr_block # "none" /\ ReadPark("pong_parked")
    BY <1>0, <2>2, ReadParkKeeps DEF RdParked
  <2>3. CASE ~wr_close /\ wr_block = "none" /\ DoPong
    BY <1>0, <2>3, DoPongKeeps
  <2>. QED BY <1>1, <2>1, <2>2, <2>3 DEF DoPing
<1>2. CASE ReadWait("read_fh")
  BY <1>0, <1>2, ReadWaitKeeps DEF RdReading
<1>3. CASE DoReceivedClose /\ cr' = TRUE
  <2>1. CASE wr_close /\ ReadUpcall("closed") /\ UNCHANGED <<failed, sock>>
    <3>1. "closed" \in Results /\ failed' \in BOOLEAN /\ rd \notin {"idle"} \cup RdParked
      BY <2>1 DEF Results, ControlInv, FlagsOK, RdReading, RdParked
    <3>. QED BY <1>0, <1>3, <2>1, <3>1, ReadUpcallKeeps
  <2>2. CASE ~wr_close /\ wr_block # "none" /\ ReadPark("close_parked")
    BY <1>0, <1>3, <2>2, ReadParkKeeps DEF RdParked
  <2>3. CASE ~wr_close /\ wr_block = "none" /\ DoClose
    BY <1>0, <1>3, <2>3, DoCloseKeeps
  <2>. QED BY <1>3, <2>1, <2>2, <2>3 DEF DoReceivedClose
<1>4. CASE DoFail
  BY <1>0, <1>4, DoFailKeeps
<1>. QED BY <1>1, <1>2, <1>3, <1>4 DEF DoControl

\* A complete frame header leads to a state that satisfies the invariant.
LEMMA HeaderDoneKeeps ==
  ASSUME NEW op, ControlInv, HeaderDone(op), rd \in RdReading, wr # "posted",
         rd_fh' \in Opcodes, UNCHANGED wrvars
  PROVE  ControlInv'
<1>1. ASSUME UNCHANGED cr PROVE ReadSide
  BY <1>1 DEF ReadSide, ControlInv, FlagsOK, wrvars
<1>2. CASE DoFail /\ UNCHANGED cr
  BY <1>1, <1>2, DoFailKeeps
<1>3. CASE ReadWait("read_control") /\ UNCHANGED cr
  BY <1>1, <1>3, ReadWaitKeeps DEF RdReading
<1>4. CASE DoControl(op)
  BY <1>4, DoControlKeeps
<1>5. CASE ReadWait("read_payload") /\ UNCHANGED cr
  BY <1>1, <1>5, ReadWaitKeeps DEF RdReading
<1>6. CASE ReadUpcall("ok") /\ UNCHANGED <<cr, failed, sock>>
  <2>1. "ok" \in Results /\ failed' \in BOOLEAN /\ rd \notin {"idle"} \cup RdParked
    BY <1>6 DEF Results, ControlInv, FlagsOK, RdReading, RdParked
  <2>. QED BY <1>1, <1>6, <2>1, ReadUpcallKeeps
<1>. QED BY <1>2, <1>3, <1>4, <1>5, <1>6 DEF HeaderDone

\* Every handler of the read operation preserves the invariant.
LEMMA ReadInduct ==
  ASSUME Deferred, ControlInv, ReadHandler PROVE ControlInv'
<1>1. UNCHANGED <<rd_fh, cr, wrvars>> => ReadSide
  BY DEF ReadSide, ControlInv, StatesOK, FlagsOK, wrvars
<1>2. failed \in BOOLEAN /\ rd_fh \in Opcodes /\ Results = {"none", "ok", "error", "aborted", "closed", "failed"}
  BY DEF ControlInv, StatesOK, FlagsOK, Results
<1>3. rd \in RdPosted => wr # "posted" /\ wr_block = "none" /\ ~wr_close
  BY DEF ControlInv, StatesOK, BlockInv, ResumeInv, RdPosted, RdWriting, RdTeardown
<1>4. RdMayRun => wr # "posted"
  BY DEF RdMayRun, Fifo, Deferred
<1>5. CASE OnReadAbort
  BY <1>1, <1>2, <1>4, <1>5, ReadUpcallKeeps DEF OnReadAbort, rdvars, RdParked
<1>6. CASE OnReadError
  BY <1>1, <1>2, <1>4, <1>6, ReadUpcallKeeps
     DEF OnReadError, rdvars, RdParked, RdReading, RdWriting
<1>7. CASE OnReadFh1
  <2>1. PICK op \in Opcodes :
          /\ rd_fh' = op
          /\ \/ DoFail /\ UNCHANGED <<rd_need, cr>>
             \/ ReadWait("read_fh2") /\ UNCHANGED <<rd_need, cr>>
             \/ HeaderDone(op)
    BY <1>7 DEF OnReadFh1
  <2>2. rd \in RdReading /\ wr # "posted" /\ rd_fh' \in Opcodes /\ UNCHANGED wrvars
    BY <1>4, <1>7, <2>1 DEF OnReadFh1, RdReading
  <2>3. UNCHANGED cr => ReadSide
    BY <2>2 DEF ReadSide, ControlInv, FlagsOK, wrvars
  <2>4. CASE DoFail /\ UNCHANGED cr
    BY <2>2, <2>3, <2>4, DoFailKeeps
  <2>5. CASE ReadWait("read_fh2") /\ UNCHANGED cr
    BY <2>2, <2>3, <2>5, ReadWaitKeeps DEF RdReading
  <2>6. CASE HeaderDone(op)
    BY <2>2, <2>6, HeaderDoneKeeps
  <2>. QED BY <2>1, <2>4, <2>5, <2>6
<1>8. CASE OnReadFh2
  BY <1>2, <1>4, <1>8, HeaderDoneKeeps DEF OnReadFh2, RdReading
<1>9. CASE OnReadControl
  BY <1>2, <1>4, <1>9, DoControlKeeps DEF OnReadControl, RdReading
<1>10. CASE OnReadPayload
  <2>1. ReadSide /\ rd \in RdReading /\ rd # "idle" /\ rd \notin RdParked /\ wr # "posted"
    BY <1>1, <1>4, <1>10 DEF OnReadPayload, RdReading, RdParked
  <2>2. CASE DoFail
    BY <2>1, <2>2, DoFailKeeps
  <2>3. CASE ReadWait("read_payload")
    BY <2>1, <2>3, ReadWaitKeeps DEF RdReading
  <2>4. CASE ReadUpcall("ok") /\ UNCHANGED <<failed, sock>>
    BY <1>2, <2>1, <2>4, ReadUpcallKeeps
  <2>. QED BY <1>10, <2>2, <2>3, <2>4 DEF OnReadPayload
<1>11. CASE OnPongResume
  <2>1. ReadSide /\ rd \in RdPosted /\ rd = "pong_posted" /\ rd \notin RdParked
    BY <1>1, <1>11 DEF OnPongResume, rdvars, RdPosted, RdParked
  <2>2. CASE ReadUpcall("aborted") /\ UNCHANGED <<failed, sock>>
    BY <1>2, <1>3, <2>1, <2>2, ReadUpcallKeeps
  <2>3. CASE DoPong
    BY <1>3, <2>1, <2>3, DoPongKeeps
  <2>. QED BY <1>11, <2>2, <2>3 DEF OnPongResume
<1>12. CASE OnCloseResume
  <2>1. ReadSide /\ rd \in RdPosted /\ rd = "close_posted" /\ rd \notin RdParked /\ cr'
    BY <1>1, <1>12
    DEF OnCloseResume, rdvars, RdPosted, RdParked, ControlInv, CloseInv
  <2>2. CASE ReadUpcall("aborted") /\ UNCHANGED <<failed, sock>>
    BY <1>2, <1>3, <2>1, <2>2, ReadUpcallKeeps
  <2>3. CASE DoClose
    BY <1>3, <2>1, <2>3, DoCloseKeeps
  <2>. QED BY <1>3, <1>12, <2>1, <2>2, <2>3 DEF OnCloseResume
<1>13. CASE OnFailResume
  <2>1. ReadSide /\ rd \in RdPosted /\ rd = "fail_posted" /\ rd \notin RdParked
    BY <1>1, <1>13 DEF OnFailResume, rdvars, RdPosted, RdParked
  <2>2. CASE ReadUpcall("failed") /\ UNCHANGED <<failed, sock>>
    BY <1>2, <1>3, <2>1, <2>2, ReadUpcallKeeps
  <2>3. CASE SendFailClose
    BY <1>3, <2>1, <2>3, ReadWriteKeeps DEF SendFailClose, RdWriting
  <2>. QED BY <1>13, <2>2, <2>3 DEF OnFailResume
<1>14. CASE OnPongWritten
  <2>. USE <1>4, <1>14 DEF OnPongWritten, rdvars, wrvars, ControlInv, RdReading, RdWriting,
           RdTeardown, RdParked, RdPosted
  <2>1. StatesOK' /\ FlagsOK'
    BY DEF StatesOK, FlagsOK, RdStates
  <2>2. BlockInv' /\ ResumeInv'
    BY DEF BlockInv, ResumeInv
  <2>3. ParkedReadHasWaker' /\ ParkedWriteHasWaker'
    BY DEF ParkedReadHasWaker, ParkedWriteHasWaker
  <2>4. CloseInv' /\ ContInv'
    BY DEF CloseInv, ClosedIsAgreed, ContInv
  <2>. QED BY <2>1, <2>2, <2>3, <2>4
<1>15. CASE OnCloseWritten
  <2>1. ReadSide /\ wr # "posted" /\ wr_close /\ (rd = "close_write" => cr')
    BY <1>1, <1>4, <1>15
       DEF OnCloseWritten, rdvars, RdPosted, RdParked, ControlInv, CloseInv
  <2>. QED BY <1>15, <2>1, CallTeardownKeeps DEF OnCloseWritten, RdTeardown
<1>16. CASE OnTeardown
  <2>1. ReadSide /\ wr # "posted" /\ wr_close /\ (rd = "close_teardown" => cr')
    BY <1>1, <1>4, <1>16 DEF OnTeardown, rdvars, ControlInv, CloseInv
  <2>2. rd \notin {"idle"} \cup RdParked /\ failed' = failed
    BY <1>16 DEF OnTeardown, RdTeardown, RdParked
  <2>3. CASE sock' = "closed" /\ ReadUpcall(IF rd = "close_teardown" THEN "closed" ELSE "failed")
    BY <1>2, <2>1, <2>2, <2>3, ReadUpcallKeeps
  <2>4. CASE sock' = sock /\ ReadUpcall("error")
    BY <1>2, <2>1, <2>2, <2>4, ReadUpcallKeeps
  <2>. QED BY <1>16, <2>3, <2>4 DEF OnTeardown
<1>. QED BY <1>5, <1>6, <1>7, <1>8, <1>9, <1>10, <1>11, <1>12, <1>13, <1>14,
            <1>15, <1>16 DEF ReadHandler, ReadResume

\* A write operation that completes leaves the invariant true: the read it
\* wakes finds the outgoing half free.
LEMMA WriteUpcallKeeps ==
  ASSUME ControlInv, WriteUpcall, UNCHANGED rdvars, rd \notin RdPosted,
         wr \in {"posted", "abort", "write"},
         wr \in {"posted", "abort"} => failed \/ wr_close,
         failed' \in BOOLEAN, failed => failed'
  PROVE  ControlInv'
<1> USE DEF ControlInv, WriteUpcall, rdvars, RdReading, RdWriting, RdTeardown,
            RdParked, RdPosted
<1>1. StatesOK'
  BY DEF StatesOK, RdStates, WrStates
<1>2. FlagsOK'
  BY DEF FlagsOK
<1>3. BlockInv'
  BY DEF StatesOK, FlagsOK, BlockInv, ParkedReadHasWaker
<1>4. ParkedReadHasWaker'
  BY DEF FlagsOK, ParkedReadHasWaker
<1>5. ParkedWriteHasWaker'
  BY DEF FlagsOK, ParkedWriteHasWaker
<1>6. ResumeInv'
  BY DEF FlagsOK, ResumeInv, ParkedReadHasWaker
<1>7. CloseInv'
  BY DEF FlagsOK, CloseInv, ClosedIsAgreed, ParkedReadHasWaker
<1>8. ContInv'
  BY DEF FlagsOK, ContInv, BlockInv
<1>. QED BY <1>1, <1>2, <1>3, <1>4, <1>5, <1>6, <1>7, <1>8

\* A frame may be begun while nobody is writing, no read is about to be resumed
\* and the stream neither failed nor closed.
LEMMA StartWriteKeeps ==
  ASSUME NEW kind \in {"frame", "ping", "close"}, NEW fin \in BOOLEAN,
         ControlInv, StartWrite(kind, fin), wop' = kind, UNCHANGED rdvars,
         fh_cont' \in BOOLEAN, fh_fin' \in BOOLEAN, wr_cont' \in BOOLEAN,
         rd \notin RdPosted, wr \in {"idle", "posted"}, wr_block = "none",
         ~failed, ~wr_close,
         kind = "frame" => wr_cont' = ~fin,
         kind = "ping" => wr_cont' = wire_cont
  PROVE  ControlInv'
<1> USE DEF ControlInv, StartWrite, rdvars, RdReading, RdWriting, RdTeardown,
            RdParked, RdPosted
<1>1. StatesOK'
  BY DEF StatesOK, RdStates, WrStates
<1>2. FlagsOK'
  BY DEF FlagsOK
<1>3. BlockInv'
  BY DEF StatesOK, FlagsOK, BlockInv, ParkedReadHasWaker
<1>4. ParkedReadHasWaker'
  BY DEF FlagsOK, ParkedReadHasWaker
<1>5. ParkedWriteHasWaker'
  BY DEF FlagsOK, ParkedWriteHasWaker
<1>6. ResumeInv'
  BY DEF FlagsOK, ResumeInv, ParkedReadHasWaker
<1>7. CloseInv'
  BY DEF FlagsOK, CloseInv, ClosedIsAgreed, ParkedReadHasWaker
<1>8. ContInv'
  BY DEF FlagsOK, ContInv, BlockInv
<1>. QED BY <1>1, <1>2, <1>3, <1>4, <1>5, <1>6, <1>7, <1>8

\* Every handler of the write operation preserves the invariant.
LEMMA WriteInduct ==
  ASSUME Deferred, ControlInv, WriteHandler PROVE ControlInv'
<1>1. failed \in BOOLEAN /\ fh_fin \in BOOLEAN /\ fh_cont \in BOOLEAN /\ wr_cont \in BOOLEAN
  BY DEF ControlInv, FlagsOK
<1>2. WrMayRun => rd \notin RdPosted
  BY DEF WrMayRun, Fifo, Deferred
<1>3. CASE OnWriteResume
  <2>1. rd \notin RdPosted /\ wr_block = "none"
    BY <1>3 DEF OnWriteResume, ControlInv, StatesOK, BlockInv, ResumeInv,
                RdPosted, RdWriting, RdTeardown
  <2>2. CASE (failed \/ wr_close) /\ WriteUpcall /\ UNCHANGED failed
    BY <1>1, <1>3, <2>1, <2>2, WriteUpcallKeeps DEF OnWriteResume
  <2>3. CASE /\ ~failed /\ ~wr_close
             /\ StartWrite(wop, fh_fin)
             /\ UNCHANGED <<wop, fh_cont, fh_fin, pieces, wr_cont>>
    <3>1. wop \in {"frame", "ping", "close"}
      BY <1>3 DEF OnWriteResume, ControlInv, StatesOK, BlockInv
    <3>2. /\ wop = "frame" => wr_cont' = ~fh_fin
          /\ wop = "ping" => wr_cont' = wire_cont
      BY <1>3, <2>3 DEF OnWriteResume, ControlInv, ContInv
    <3>. QED
      BY <1>1, <1>3, <2>1, <2>3, <3>1, <3>2, StartWriteKeeps
      DEF OnWriteResume
  <2>. QED BY <1>3, <2>2, <2>3 DEF OnWriteResume
<1>4. CASE OnWritten
  <2>1. CASE pieces = 0 /\ WriteUpcall
    BY <1>1, <1>2, <1>4, <2>1, WriteUpcallKeeps DEF OnWritten
  <2>2. CASE UNCHANGED <<rd, rd_ec, rd_op, wr, wr_op, wop, fh_cont, fh_fin,
                         wr_cont, wire_cont, wr_block, wr_close, sock>>
    <3>. USE <1>4, <2>2 DEF OnWritten, ControlInv, rdvars
    <3>1. StatesOK' /\ FlagsOK' /\ BlockInv'
      BY DEF StatesOK, FlagsOK, BlockInv
    <3>2. ParkedReadHasWaker' /\ ParkedWriteHasWaker' /\ ResumeInv'
      BY DEF ParkedReadHasWaker, ParkedWriteHasWaker, ResumeInv
    <3>3. CloseInv' /\ ContInv'
      BY DEF CloseInv, ClosedIsAgreed, ContInv
    <3>. QED BY <3>1, <3>2, <3>3
  <2>. QED BY <1>4, <2>1, <2>2 DEF OnWritten
<1>5. CASE OnWriteError
  BY <1>2, <1>5, WriteUpcallKeeps DEF OnWriteError
<1>6. CASE OnWriteAbort
  BY <1>1, <1>2, <1>6, WriteUpcallKeeps DEF OnWriteAbort, ControlInv, ContInv
<1>. QED BY <1>3, <1>4, <1>5, <1>6 DEF WriteHandler

\* The three write operations differ in their kind only.
LEMMA CallerForms ==
  Caller <=> AsyncRead \/ \E kind \in {"frame", "ping", "close"} : AsyncWrite(kind)
BY DEF Caller, AsyncWriteFrame, AsyncPing, AsyncClose

\* Starting an operation preserves the invariant.
LEMMA CallerInduct ==
  ASSUME Deferred, ControlInv, Caller PROVE ControlInv'
<1>1. CASE AsyncRead
  <2>1. ReadSide
    BY <1>1 DEF AsyncRead, ReadSide, ControlInv, StatesOK, FlagsOK, rdvars, wrvars
  <2>2. ~wr_op
    BY <1>1 DEF AsyncRead, ControlInv, ParkedWriteHasWaker
  <2>3. \E st \in {"abort", "read_fh", "read_payload"} : ReadWait(st)
    BY <1>1 DEF AsyncRead
  <2>. QED BY <1>1, <2>1, <2>2, <2>3, ReadWaitKeeps DEF AsyncRead, RdReading
<1>2. ASSUME NEW kind \in {"frame", "ping", "close"}, AsyncWrite(kind)
      PROVE  ControlInv'
  <2>1. PICK fin \in BOOLEAN :
          /\ kind # "frame" => fin
          /\ fh_cont' = (kind = "frame" /\ wr_cont)
          /\ fh_fin' = fin
          /\ wr_cont' = IF kind = "frame" THEN ~fin ELSE wr_cont
          /\ \/ /\ wr_block # "none"
                /\ wr' = "parked" /\ wr_op' = TRUE
                /\ UNCHANGED <<rd, rd_ec, rd_op, wr_block, wr_close, failed,
                               sock, wire_cont>>
             \/ /\ wr_block = "none" /\ (failed \/ wr_close)
                /\ wr' = "abort"
                /\ UNCHANGED <<rd, rd_ec, rd_op, wr_op, wr_block, wr_close,
                               failed, sock, wire_cont>>
             \/ /\ wr_block = "none" /\ ~failed /\ ~wr_close
                /\ StartWrite(kind, fin)
    BY <1>2 DEF AsyncWrite
  <2>2. wr = "idle" /\ rd \notin RdPosted /\ wop' = kind /\ UNCHANGED rdvars
    BY <1>2 DEF AsyncWrite, DeferWrites, Deferred
  <2>3. ~failed /\ ~wr_close => wr_cont = wire_cont
    BY <2>2 DEF ControlInv, ContInv
  <2>4. fh_cont' \in BOOLEAN /\ fh_fin' \in BOOLEAN /\ wr_cont' \in BOOLEAN
    BY <2>1 DEF ControlInv, FlagsOK
  <2>5. CASE wr' = "parked"
    <3>. USE <2>1, <2>2, <2>4, <2>5
         DEF ControlInv, rdvars, StartWrite, RdReading, RdWriting, RdTeardown,
             RdParked, RdPosted
    <3>1. StatesOK'
      BY DEF StatesOK, WrStates
    <3>2. FlagsOK'
      BY DEF FlagsOK
    <3>3. BlockInv'
      BY DEF BlockInv
    <3>4. ParkedReadHasWaker' /\ ParkedWriteHasWaker'
      BY DEF StatesOK, BlockInv, ParkedReadHasWaker, ParkedWriteHasWaker
    <3>5. ResumeInv' /\ CloseInv'
      BY DEF ResumeInv, CloseInv, ClosedIsAgreed
    <3>6. ContInv'
      BY <2>3 DEF FlagsOK, ContInv
    <3>. QED BY <3>1, <3>2, <3>3, <3>4, <3>5, <3>6
  <2>6. CASE wr' = "abort"
    <3>. USE <2>1, <2>2, <2>4, <2>6
         DEF ControlInv, rdvars, StartWrite, RdReading, RdWriting, RdTeardown,
             RdParked, RdPosted
    <3>1. StatesOK'
      BY DEF StatesOK, WrStates
    <3>2. FlagsOK'
      BY DEF FlagsOK
    <3>3. BlockInv'
      BY DEF BlockInv
    <3>4. ParkedReadHasWaker' /\ ParkedWriteHasWaker'
      BY DEF StatesOK, BlockInv, ParkedReadHasWaker, ParkedWriteHasWaker
    <3>5. ResumeInv' /\ CloseInv'
      BY DEF ResumeInv, CloseInv, ClosedIsAgreed
    <3>6. ContInv'
      BY <2>3 DEF FlagsOK, ContInv
    <3>. QED BY <3>1, <3>2, <3>3, <3>4, <3>5, <3>6
  <2>7. CASE wr_block = "none" /\ ~failed /\ ~wr_close /\ StartWrite(kind, fin)
    BY <2>1, <2>2, <2>3, <2>4, <2>7, StartWriteKeeps
  <2>. QED BY <2>1, <2>5, <2>6, <2>7
<1>. QED BY <1>1, <1>2, CallerForms

\* The bytes left of a received frame and the pieces left of a sent one stay
\* within their bounds.
LEMMA CountsInduct ==
  ASSUME CountsOK, [Next]_vars PROVE CountsOK'
<1>1. CASE UNCHANGED <<rd_need, pieces>>
  BY <1>1 DEF CountsOK
<1>2. CASE Caller
  BY <1>2, CallerForms, BoundsAssumption
  DEF AsyncRead, AsyncWrite, CountsOK, rdvars, wrvars
<1>3. CASE ReadHandler
  <2>1. UNCHANGED pieces
    BY <1>3 DEF ReadHandler, ReadResume, OnReadAbort, OnReadError, OnReadFh1,
       OnReadFh2, OnReadControl, OnReadPayload, OnPongWritten, OnCloseWritten,
       OnTeardown, OnPongResume, OnCloseResume, OnFailResume, wrvars
  <2>2. ASSUME NEW op, HeaderDone(op) PROVE rd_need' \in 0..MaxNeed
    BY <2>2, BoundsAssumption DEF HeaderDone, CountsOK
  <2>3. rd_need' \in 0..MaxNeed
    <3>1. CASE OnReadFh1
      BY <2>2, <3>1 DEF OnReadFh1, CountsOK
    <3>2. CASE OnReadFh2
      BY <2>2, <3>2 DEF OnReadFh2
    <3>3. CASE OnReadPayload
      BY <3>3, BoundsAssumption DEF OnReadPayload, CountsOK
    <3>4. CASE UNCHANGED rd_need
      BY <3>4 DEF CountsOK
    <3>. QED BY <1>3, <3>1, <3>2, <3>3, <3>4
         DEF ReadHandler, ReadResume, OnReadAbort, OnReadError, OnReadControl,
             OnPongWritten, OnCloseWritten, OnTeardown, OnPongResume,
             OnCloseResume, OnFailResume, rdvars
  <2>. QED BY <2>1, <2>3 DEF CountsOK
<1>4. CASE WriteHandler
  BY <1>4, BoundsAssumption
  DEF WriteHandler, OnWriteResume, OnWritten, OnWriteError,
     OnWriteAbort, WriteUpcall, CountsOK, rdvars
<1>. QED BY <1>1, <1>2, <1>3, <1>4 DEF Next, vars, rdvars, wrvars

\* Every step preserves the invariant.
LEMMA StepIInv == ASSUME Deferred, IInv, [Next]_vars PROVE IInv'
<1>1. CountsOK'
  BY CountsInduct DEF IInv
<1>2. CASE UNCHANGED vars
  <2>. USE <1>2 DEF vars, rdvars, wrvars, IInv, ControlInv
  <2>1. StatesOK' /\ FlagsOK' /\ BlockInv'
    BY DEF StatesOK, FlagsOK, BlockInv
  <2>2. ParkedReadHasWaker' /\ ParkedWriteHasWaker' /\ ResumeInv'
    BY DEF ParkedReadHasWaker, ParkedWriteHasWaker, ResumeInv
  <2>3. CloseInv' /\ ContInv'
    BY DEF CloseInv, ClosedIsAgreed, ContInv
  <2>. QED BY <1>1, <2>1, <2>2, <2>3
<1>3. CASE Next
  BY <1>1, <1>3, CallerInduct, ReadInduct, WriteInduct DEF Next, IInv
<1>. QED BY <1>2, <1>3

\* A caller keeps its discipline.
LEMMA CallerFixed == Spec => [](caller \in Callers) /\ [][caller' = caller]_vars
<1>1. Init => caller \in Callers
  BY DEF Init
<1>2. caller \in Callers /\ [Next]_vars => (caller \in Callers)'
  BY DEF Next, vars
<1>3. [Next]_vars => [caller' = caller]_vars
  BY DEF Next
<1>. QED BY <1>1, <1>2, <1>3, PTL DEF Spec

\* Among the callers examined only the one that defers runs handlers in order.
LEMMA FifoDefers == ASSUME Disciplined, caller \in Callers, Fifo PROVE Deferred
BY CallerAssumption DEF Disciplined, Fifo, Deferred

\* The inductive invariant holds in every reachable state of a stream whose
\* caller defers its writes on one thread.
THEOREM Invariance == Spec => [](Deferred => IInv)
<1>1. Init => IInv
  BY InitIInv
<1>2. (Deferred => IInv) /\ [Next]_vars => (Deferred => IInv)'
  <2>. SUFFICES ASSUME Deferred => IInv, [Next]_vars, Deferred'
                PROVE  IInv'
    OBVIOUS
  <2>1. Deferred
    BY DEF Deferred, Next, vars
  <2>. QED BY <2>1, StepIInv
<1>. QED BY <1>1, <1>2, PTL DEF Spec

\* The reader's control frames and the caller's frames never overlap: an
\* operation with an async_write outstanding owns wr_block_.
THEOREM Exclusion == ASSUME Disciplined PROVE Spec => []WriteExclusive
<1>1. caller \in Callers /\ (Deferred => IInv) => WriteExclusive
  BY FifoDefers DEF IInv, ControlInv, BlockInv, WriteExclusive
<1>. QED BY <1>1, Invariance, CallerFixed, PTL

-----------------------------------------------------------------------------
(* What every caller keeps, on one thread or on many, whatever the order   *)
(* in which handlers run.  The pieces again, with less to preserve.        *)

LEMMA EveryUpcall ==
  ASSUME NEW ec \in Results, EveryControlInv, ReadUpcall(ec), ReadSide,
         rd \notin {"idle"} \cup RdParked, failed' \in BOOLEAN,
         sock' = sock \/ (sock' = "closed" /\ wr_close),
         ec = "closed" => cr' /\ wr_close
  PROVE  EveryControlInv'
<1> USE DEF EveryControlInv, ReadUpcall, ReadSide, RdReading, RdWriting, RdTeardown, RdParked, RdPosted
<1>1. StatesOK'
  BY DEF StatesOK, RdStates, WrStates, Results
<1>0. FlagsOK'
  BY DEF FlagsOK
<1>2. OwnerInv' /\ ParkedReadHasWaker' /\ ParkedWriteHasWaker'
  BY DEF StatesOK, FlagsOK, OwnerInv, ParkedReadHasWaker, ParkedWriteHasWaker
<1>3. CloseInv' /\ ResumeBeforeTeardown'
  BY DEF FlagsOK, CloseInv, ClosedIsAgreed, ResumeBeforeTeardown
<1>. QED BY <1>0, <1>1, <1>2, <1>3

LEMMA EveryWait ==
  ASSUME NEW st \in {"abort"} \cup RdReading, EveryControlInv, ReadWait(st), ReadSide,
         rd \in {"idle", "pong_posted"} \cup RdReading, wr_op => st # "abort"
  PROVE  EveryControlInv'
<1> USE DEF EveryControlInv, ReadWait, ReadSide, RdReading, RdWriting, RdTeardown, RdParked, RdPosted
<1>1. StatesOK' /\ FlagsOK'
  BY DEF StatesOK, FlagsOK, RdStates
<1>2. OwnerInv' /\ ParkedReadHasWaker' /\ ParkedWriteHasWaker'
  BY DEF StatesOK, FlagsOK, OwnerInv, ParkedReadHasWaker, ParkedWriteHasWaker
<1>3. CloseInv' /\ ResumeBeforeTeardown'
  BY DEF FlagsOK, CloseInv, ClosedIsAgreed, ResumeBeforeTeardown
<1>. QED BY <1>1, <1>2, <1>3

LEMMA EveryPark ==
  ASSUME NEW st \in RdParked, EveryControlInv, ReadPark(st), ReadSide,
         rd \in RdReading, wr_block # "none", ~wr_close, st = "close_parked" => cr'
  PROVE  EveryControlInv'
<1> USE DEF EveryControlInv, ReadPark, ReadSide, RdReading, RdWriting, RdTeardown, RdParked, RdPosted
<1>0. wr = "write"
  BY DEF StatesOK, OwnerInv
<1>1. StatesOK' /\ FlagsOK'
  BY DEF StatesOK, FlagsOK, RdStates
<1>2. OwnerInv' /\ ParkedReadHasWaker' /\ ParkedWriteHasWaker'
  BY <1>0 DEF StatesOK, FlagsOK, OwnerInv, ParkedReadHasWaker, ParkedWriteHasWaker
<1>3. CloseInv' /\ ResumeBeforeTeardown'
  BY DEF FlagsOK, CloseInv, ClosedIsAgreed, ResumeBeforeTeardown
<1>. QED BY <1>1, <1>2, <1>3

LEMMA EveryReadWrite ==
  ASSUME NEW st \in RdWriting, EveryControlInv, ReadWrite(st), ReadSide,
         rd \in RdReading \cup RdPosted,
         failed' \in BOOLEAN, wr_close' \in BOOLEAN, wr_close => wr_close',
         st # "pong_write" => wr_close',
         st = "close_write" => cr'
  PROVE  EveryControlInv'
<1> USE DEF EveryControlInv, ReadWrite, ReadSide, RdReading, RdWriting, RdTeardown, RdParked, RdPosted
<1>1. StatesOK' /\ FlagsOK'
  BY DEF StatesOK, FlagsOK, RdStates
<1>2. OwnerInv' /\ ParkedReadHasWaker' /\ ParkedWriteHasWaker'
  BY DEF StatesOK, FlagsOK, OwnerInv, ParkedReadHasWaker, ParkedWriteHasWaker
<1>3. CloseInv' /\ ResumeBeforeTeardown'
  BY DEF FlagsOK, CloseInv, ClosedIsAgreed, ResumeBeforeTeardown
<1>. QED BY <1>1, <1>2, <1>3

LEMMA EveryTeardown ==
  ASSUME NEW st \in RdTeardown, EveryControlInv, CallTeardown(st), ReadSide,
         rd \in RdReading \cup {"close_write", "fail_write"}, wr_close,
         st = "close_teardown" => cr'
  PROVE  EveryControlInv'
<1>1. CASE Teardown(st)
  <2> USE <1>1 DEF EveryControlInv, Teardown, ReadSide, RdReading, RdWriting, RdTeardown, RdParked, RdPosted
  <2>1. StatesOK' /\ FlagsOK'
    BY DEF StatesOK, FlagsOK, RdStates
  <2>2. OwnerInv' /\ ParkedReadHasWaker' /\ ParkedWriteHasWaker'
    BY DEF StatesOK, FlagsOK, OwnerInv, ParkedReadHasWaker, ParkedWriteHasWaker
  <2>3. CloseInv' /\ ResumeBeforeTeardown'
    BY DEF FlagsOK, CloseInv, ClosedIsAgreed, ResumeBeforeTeardown
  <2>. QED BY <2>1, <2>2, <2>3
<1>2. CASE ReadUpcall("error") /\ UNCHANGED <<failed, sock>>
  <2>1. "error" \in Results /\ failed' \in BOOLEAN /\ rd \notin {"idle"} \cup RdParked
    BY <1>2 DEF Results, EveryControlInv, FlagsOK, RdReading, RdParked
  <2>. QED BY <1>2, <2>1, EveryUpcall
<1>. QED BY <1>1, <1>2 DEF CallTeardown

LEMMA EveryFail ==
  ASSUME EveryControlInv, DoFail, ReadSide, rd \in RdReading
  PROVE  EveryControlInv'
<1>1. CASE wr_close /\ CallTeardown("fail_teardown")
  BY <1>1, EveryTeardown DEF RdTeardown
<1>2. CASE ~wr_close /\ wr_block # "none" /\ ReadPark("fail_parked")
  BY <1>2, EveryPark DEF RdParked
<1>3. CASE ~wr_close /\ wr_block = "none" /\ SendFailClose
  BY <1>3, EveryReadWrite DEF SendFailClose, RdWriting
<1>. QED BY <1>1, <1>2, <1>3 DEF DoFail

LEMMA EveryPong ==
  ASSUME EveryControlInv, DoPong, ReadSide, rd \in {"pong_posted"} \cup RdReading
  PROVE  EveryControlInv'
<1>1. CASE wr_close /\ ReadWait("read_fh")
  BY <1>1, EveryWait DEF RdReading
<1>2. CASE ~wr_close /\ ReadWrite("pong_write") /\ UNCHANGED <<wr_close, failed>>
  <2>1. wr_close' \in BOOLEAN /\ failed' \in BOOLEAN
    BY <1>2 DEF EveryControlInv, FlagsOK
  <2>. QED BY <1>2, <2>1, EveryReadWrite DEF RdWriting, RdPosted
<1>. QED BY <1>1, <1>2 DEF DoPong

LEMMA EveryClose ==
  ASSUME EveryControlInv, DoClose, ReadSide, cr', rd \in {"close_posted"} \cup RdReading
  PROVE  EveryControlInv'
<1>1. failed' \in BOOLEAN
  BY DEF EveryControlInv, FlagsOK, DoClose
<1>. QED BY <1>1, EveryReadWrite DEF DoClose, RdWriting, RdPosted

LEMMA EveryControl ==
  ASSUME NEW op, EveryControlInv, DoControl(op), rd \in RdReading,
         rd_fh' \in Opcodes, UNCHANGED wrvars
  PROVE  EveryControlInv'
<1>0. ReadSide
  BY DEF DoControl, ReadSide, EveryControlInv, FlagsOK, wrvars
<1>1. CASE DoPing
  <2>1. CASE wr_close /\ ReadWait("read_fh")
    BY <1>0, <2>1, EveryWait DEF RdReading
  <2>2. CASE ~wr_close /\ wr_block # "none" /\ ReadPark("pong_parked")
    BY <1>0, <2>2, EveryPark DEF RdParked
  <2>3. CASE DoPong
    BY <1>0, <2>3, EveryPong
  <2>. QED BY <1>1, <2>1, <2>2, <2>3 DEF DoPing
<1>2. CASE ReadWait("read_fh")
  BY <1>0, <1>2, EveryWait DEF RdReading
<1>3. CASE DoReceivedClose /\ cr' = TRUE
  <2>1. CASE wr_close /\ ReadUpcall("closed") /\ UNCHANGED <<failed, sock>>
    <3>1. "closed" \in Results /\ failed' \in BOOLEAN /\ rd \notin {"idle"} \cup RdParked
      BY <2>1 DEF Results, EveryControlInv, FlagsOK, RdReading, RdParked
    <3>. QED BY <1>0, <1>3, <2>1, <3>1, EveryUpcall
  <2>2. CASE ~wr_close /\ wr_block # "none" /\ ReadPark("close_parked")
    BY <1>0, <1>3, <2>2, EveryPark DEF RdParked
  <2>3. CASE DoClose
    BY <1>0, <1>3, <2>3, EveryClose
  <2>. QED BY <1>3, <2>1, <2>2, <2>3 DEF DoReceivedClose
<1>4. CASE DoFail
  BY <1>0, <1>4, EveryFail
<1>. QED BY <1>1, <1>2, <1>3, <1>4 DEF DoControl

LEMMA EveryHeader ==
  ASSUME NEW op, EveryControlInv, HeaderDone(op), rd \in RdReading,
         rd_fh' \in Opcodes, UNCHANGED wrvars
  PROVE  EveryControlInv'
<1>1. ASSUME UNCHANGED cr PROVE ReadSide
  BY <1>1 DEF ReadSide, EveryControlInv, FlagsOK, wrvars
<1>2. CASE DoFail /\ UNCHANGED cr
  BY <1>1, <1>2, EveryFail
<1>3. CASE ReadWait("read_control") /\ UNCHANGED cr
  BY <1>1, <1>3, EveryWait DEF RdReading
<1>4. CASE DoControl(op)
  BY <1>4, EveryControl
<1>5. CASE ReadWait("read_payload") /\ UNCHANGED cr
  BY <1>1, <1>5, EveryWait DEF RdReading
<1>6. CASE ReadUpcall("ok") /\ UNCHANGED <<cr, failed, sock>>
  <2>1. "ok" \in Results /\ failed' \in BOOLEAN /\ rd \notin {"idle"} \cup RdParked
    BY <1>6 DEF Results, EveryControlInv, FlagsOK, RdReading, RdParked
  <2>. QED BY <1>1, <1>6, <2>1, EveryUpcall
<1>. QED BY <1>2, <1>3, <1>4, <1>5, <1>6 DEF HeaderDone

\* Every handler of the read operation, whatever the write operation does.
LEMMA EveryReadInduct == ASSUME EveryControlInv, ReadHandler PROVE EveryControlInv'
<1>1. UNCHANGED <<rd_fh, cr, wrvars>> => ReadSide
  BY DEF ReadSide, EveryControlInv, StatesOK, FlagsOK, wrvars
<1>2. failed \in BOOLEAN /\ rd_fh \in Opcodes /\ Results = {"none", "ok", "error", "aborted", "closed", "failed"}
  BY DEF EveryControlInv, StatesOK, FlagsOK, Results
<1>5. CASE OnReadAbort
  BY <1>1, <1>2, <1>5, EveryUpcall DEF OnReadAbort, rdvars, RdParked
<1>6. CASE OnReadError
  BY <1>1, <1>2, <1>6, EveryUpcall DEF OnReadError, rdvars, RdParked, RdReading, RdWriting
<1>7. CASE OnReadFh1
  <2>1. PICK op \in Opcodes :
          /\ rd_fh' = op
          /\ \/ DoFail /\ UNCHANGED <<rd_need, cr>>
             \/ ReadWait("read_fh2") /\ UNCHANGED <<rd_need, cr>>
             \/ HeaderDone(op)
    BY <1>7 DEF OnReadFh1
  <2>2. rd \in RdReading /\ rd_fh' \in Opcodes /\ UNCHANGED wrvars
    BY <1>7, <2>1 DEF OnReadFh1, RdReading
  <2>3. UNCHANGED cr => ReadSide
    BY <2>2 DEF ReadSide, EveryControlInv, FlagsOK, wrvars
  <2>4. CASE DoFail /\ UNCHANGED cr
    BY <2>2, <2>3, <2>4, EveryFail
  <2>5. CASE ReadWait("read_fh2") /\ UNCHANGED cr
    BY <2>2, <2>3, <2>5, EveryWait DEF RdReading
  <2>6. CASE HeaderDone(op)
    BY <2>2, <2>6, EveryHeader
  <2>. QED BY <2>1, <2>4, <2>5, <2>6
<1>8. CASE OnReadFh2
  BY <1>2, <1>8, EveryHeader DEF OnReadFh2, RdReading
<1>9. CASE OnReadControl
  BY <1>2, <1>9, EveryControl DEF OnReadControl, RdReading
<1>10. CASE OnReadPayload
  <2>1. ReadSide /\ rd \in RdReading /\ rd # "idle" /\ rd \notin RdParked
    BY <1>1, <1>10 DEF OnReadPayload, RdReading, RdParked
  <2>2. CASE DoFail
    BY <2>1, <2>2, EveryFail
  <2>3. CASE ReadWait("read_payload")
    BY <2>1, <2>3, EveryWait DEF RdReading
  <2>4. CASE ReadUpcall("ok") /\ UNCHANGED <<failed, sock>>
    BY <1>2, <2>1, <2>4, EveryUpcall
  <2>. QED BY <1>10, <2>2, <2>3, <2>4 DEF OnReadPayload
<1>11. CASE OnPongResume
  <2>1. ReadSide /\ rd = "pong_posted" /\ rd \notin RdParked
    BY <1>1, <1>11 DEF OnPongResume, rdvars, RdParked
  <2>2. CASE ReadUpcall("aborted") /\ UNCHANGED <<failed, sock>>
    BY <1>2, <2>1, <2>2, EveryUpcall
  <2>3. CASE DoPong
    BY <2>1, <2>3, EveryPong
  <2>. QED BY <1>11, <2>2, <2>3 DEF OnPongResume
<1>12. CASE OnCloseResume
  <2>1. ReadSide /\ rd = "close_posted" /\ rd \notin RdParked /\ cr'
    BY <1>1, <1>12 DEF OnCloseResume, rdvars, RdParked, EveryControlInv, CloseInv
  <2>2. CASE ReadUpcall("aborted") /\ UNCHANGED <<failed, sock>>
    BY <1>2, <2>1, <2>2, EveryUpcall
  <2>3. CASE wr_close /\ ReadUpcall("closed") /\ UNCHANGED <<failed, sock>>
    BY <1>2, <2>1, <2>3, EveryUpcall
  <2>4. CASE DoClose
    BY <2>1, <2>4, EveryClose
  <2>. QED BY <1>12, <2>2, <2>3, <2>4 DEF OnCloseResume
<1>13. CASE OnFailResume
  <2>1. ReadSide /\ rd \in RdPosted /\ rd # "idle" /\ rd \notin RdParked
    BY <1>1, <1>13 DEF OnFailResume, rdvars, RdPosted, RdParked
  <2>2. CASE ReadUpcall("failed") /\ UNCHANGED <<failed, sock>>
    BY <1>2, <2>1, <2>2, EveryUpcall
  <2>3. CASE SendFailClose
    BY <2>1, <2>3, EveryReadWrite DEF SendFailClose, RdWriting
  <2>. QED BY <1>13, <2>2, <2>3 DEF OnFailResume
<1>14. CASE OnPongWritten
  <2>. USE <1>14 DEF OnPongWritten, rdvars, wrvars, EveryControlInv, RdReading, RdWriting,
           RdTeardown, RdParked, RdPosted
  <2>1. StatesOK' /\ FlagsOK'
    BY DEF StatesOK, FlagsOK, RdStates
  <2>2. OwnerInv' /\ ParkedReadHasWaker' /\ ParkedWriteHasWaker'
    BY DEF OwnerInv, ParkedReadHasWaker, ParkedWriteHasWaker
  <2>3. CloseInv' /\ ResumeBeforeTeardown'
    BY DEF CloseInv, ClosedIsAgreed, ResumeBeforeTeardown
  <2>. QED BY <2>1, <2>2, <2>3
<1>15. CASE OnCloseWritten
  <2>1. ReadSide /\ wr_close /\ (rd = "close_write" => cr')
    BY <1>1, <1>15 DEF OnCloseWritten, rdvars, EveryControlInv, CloseInv
  <2>. QED BY <1>15, <2>1, EveryTeardown DEF OnCloseWritten, RdTeardown
<1>16. CASE OnTeardown
  <2>1. ReadSide /\ wr_close /\ (rd = "close_teardown" => cr')
    BY <1>1, <1>16 DEF OnTeardown, rdvars, EveryControlInv, CloseInv
  <2>2. rd \notin {"idle"} \cup RdParked /\ failed' = failed
    BY <1>16 DEF OnTeardown, RdTeardown, RdParked
  <2>3. CASE sock' = "closed" /\ ReadUpcall(IF rd = "close_teardown" THEN "closed" ELSE "failed")
    BY <1>2, <2>1, <2>2, <2>3, EveryUpcall
  <2>4. CASE sock' = sock /\ ReadUpcall("error")
    BY <1>2, <2>1, <2>2, <2>4, EveryUpcall
  <2>. QED BY <1>16, <2>3, <2>4 DEF OnTeardown
<1>. QED BY <1>5, <1>6, <1>7, <1>8, <1>9, <1>10, <1>11, <1>12, <1>13, <1>14,
            <1>15, <1>16 DEF ReadHandler, ReadResume

\* A write that completes wakes the read that waits for it.
LEMMA EveryWriteUpcall ==
  ASSUME EveryControlInv, WriteUpcall, UNCHANGED rdvars, wr \in {"posted", "abort", "write"},
         failed' \in BOOLEAN
  PROVE  EveryControlInv'
<1> USE DEF EveryControlInv, WriteUpcall, rdvars, RdReading, RdWriting, RdTeardown, RdParked, RdPosted
<1>1. StatesOK'
  BY DEF StatesOK, RdStates, WrStates
<1>0. FlagsOK'
  BY DEF FlagsOK
<1>2. OwnerInv'
  BY DEF StatesOK, OwnerInv, ParkedReadHasWaker
<1>3. ParkedReadHasWaker' /\ ParkedWriteHasWaker'
  BY DEF StatesOK, FlagsOK, ParkedReadHasWaker, ParkedWriteHasWaker
<1>4. CloseInv' /\ ResumeBeforeTeardown'
  BY DEF StatesOK, FlagsOK, CloseInv, ClosedIsAgreed, ParkedReadHasWaker, ResumeBeforeTeardown
<1>. QED BY <1>0, <1>1, <1>2, <1>3, <1>4

LEMMA EveryStartWrite ==
  ASSUME NEW kind \in {"frame", "ping", "close"}, NEW fin \in BOOLEAN,
         EveryControlInv, StartWrite(kind, fin), wop' = kind, UNCHANGED rdvars,
         fh_cont' \in BOOLEAN, fh_fin' \in BOOLEAN, wr_cont' \in BOOLEAN,
         wr \in {"idle", "posted"}
  PROVE  EveryControlInv'
<1> USE DEF EveryControlInv, StartWrite, rdvars, RdReading, RdWriting, RdTeardown, RdParked, RdPosted
<1>1. StatesOK' /\ FlagsOK'
  BY DEF StatesOK, FlagsOK, WrStates
<1>2. OwnerInv' /\ ParkedReadHasWaker' /\ ParkedWriteHasWaker'
  BY DEF FlagsOK, OwnerInv, ParkedReadHasWaker, ParkedWriteHasWaker
<1>3. CloseInv' /\ ResumeBeforeTeardown'
  BY DEF FlagsOK, CloseInv, ClosedIsAgreed, ResumeBeforeTeardown
<1>. QED BY <1>1, <1>2, <1>3

\* A write in some state has a kind.
KindInv == wop = "none" => wr = "idle"

LEMMA KindInduct == ASSUME StatesOK, KindInv, ParkedWriteHasWaker, [Next]_vars PROVE KindInv'
<1>1. ASSUME NEW ec, ReadUpcall(ec) PROVE wr' = wr \/ (wr' = "posted" /\ wr = "parked")
  BY <1>1 DEF ReadUpcall, ParkedWriteHasWaker
<1>2. ASSUME NEW st, CallTeardown(st) PROVE wr' = wr \/ (wr' = "posted" /\ wr = "parked")
  BY <1>1, <1>2 DEF CallTeardown, Teardown
<1>3. DoFail => wr' = wr \/ (wr' = "posted" /\ wr = "parked")
  BY <1>2 DEF DoFail, ReadPark, SendFailClose, ReadWrite
<1>4. DoPong \/ DoPing => wr' = wr
  BY DEF DoPong, DoPing, ReadPark, ReadWrite, ReadWait
<1>5. DoReceivedClose => wr' = wr \/ (wr' = "posted" /\ wr = "parked")
  BY <1>1 DEF DoReceivedClose, DoClose, ReadPark, ReadWrite
<1>6. ASSUME NEW op, DoControl(op) PROVE wr' = wr \/ (wr' = "posted" /\ wr = "parked")
  BY <1>3, <1>4, <1>5, <1>6 DEF DoControl, ReadWait
<1>7. ASSUME NEW op, HeaderDone(op) PROVE wr' = wr \/ (wr' = "posted" /\ wr = "parked")
  BY <1>1, <1>3, <1>6, <1>7 DEF HeaderDone, ReadWait
<1>8. ReadHandler \/ AsyncRead => (wr' = wr \/ (wr' = "posted" /\ wr = "parked"))
  BY <1>1, <1>2, <1>3, <1>4, <1>5, <1>6, <1>7
     DEF ReadHandler, AsyncRead, ReadResume, OnReadAbort, OnReadError, OnReadFh1,
     OnReadFh2, OnReadControl, OnReadPayload, OnPongWritten, OnCloseWritten,
     OnTeardown, OnPongResume, OnCloseResume, OnFailResume, ReadWait, DoClose, SendFailClose, ReadWrite
<1>9. ReadHandler \/ AsyncRead => wop' = wop
  BY DEF ReadHandler, AsyncRead, ReadResume, OnReadAbort, OnReadError, OnReadFh1,
     OnReadFh2, OnReadControl, OnReadPayload, OnPongWritten, OnCloseWritten,
     OnTeardown, OnPongResume, OnCloseResume, OnFailResume, wrvars
<1>10. WriteHandler => KindInv'
  BY DEF WriteHandler, OnWriteResume, OnWritten, OnWriteError, OnWriteAbort, WriteUpcall, StartWrite, KindInv
<1>11. (\E kind \in {"frame", "ping", "close"} : AsyncWrite(kind)) => KindInv'
  BY DEF AsyncWrite, KindInv
<1>. QED BY <1>8, <1>9, <1>10, <1>11, CallerForms DEF Next, vars, wrvars, KindInv

LEMMA EveryWriteInduct == ASSUME EveryControlInv, KindInv, WriteHandler PROVE EveryControlInv'
<1>1. failed \in BOOLEAN /\ fh_fin \in BOOLEAN /\ fh_cont \in BOOLEAN /\ wr_cont \in BOOLEAN
  BY DEF EveryControlInv, FlagsOK
<1>2. CASE OnWriteResume
  <2>1. CASE WriteUpcall /\ UNCHANGED failed
    BY <1>1, <1>2, <2>1, EveryWriteUpcall DEF OnWriteResume
  <2>2. CASE /\ ~failed /\ ~wr_close
             /\ StartWrite(wop, fh_fin)
             /\ UNCHANGED <<wop, fh_cont, fh_fin, pieces, wr_cont>>
    <3>1. wop \in {"frame", "ping", "close"} /\ UNCHANGED rdvars /\ wr = "posted"
      BY <1>2 DEF OnWriteResume, EveryControlInv, StatesOK, KindInv
    <3>. QED BY <1>1, <2>2, <3>1, EveryStartWrite
  <2>. QED BY <1>2, <2>1, <2>2 DEF OnWriteResume
<1>3. CASE OnWritten
  <2>1. CASE WriteUpcall
    BY <1>1, <1>3, <2>1, EveryWriteUpcall DEF OnWritten
  <2>2. CASE UNCHANGED <<rd, rd_ec, rd_op, wr, wr_op, wop, fh_cont, fh_fin,
                         wr_cont, wire_cont, wr_block, wr_close, sock>>
    <3>. USE <1>3, <2>2 DEF OnWritten, EveryControlInv, rdvars
    <3>1. StatesOK' /\ FlagsOK' /\ OwnerInv'
      BY DEF StatesOK, FlagsOK, OwnerInv
    <3>2. ParkedReadHasWaker' /\ ParkedWriteHasWaker'
      BY DEF ParkedReadHasWaker, ParkedWriteHasWaker
    <3>3. CloseInv' /\ ResumeBeforeTeardown'
      BY DEF CloseInv, ClosedIsAgreed, ResumeBeforeTeardown
    <3>. QED BY <3>1, <3>2, <3>3
  <2>. QED BY <1>3, <2>1, <2>2 DEF OnWritten
<1>4. CASE OnWriteError
  BY <1>4, EveryWriteUpcall DEF OnWriteError
<1>5. CASE OnWriteAbort
  BY <1>1, <1>5, EveryWriteUpcall DEF OnWriteAbort
<1>. QED BY <1>2, <1>3, <1>4, <1>5 DEF WriteHandler

LEMMA EveryCallerInduct == ASSUME EveryControlInv, Caller PROVE EveryControlInv'
<1>1. CASE AsyncRead
  <2>1. ReadSide
    BY <1>1 DEF AsyncRead, ReadSide, EveryControlInv, StatesOK, FlagsOK, rdvars, wrvars
  <2>2. ~wr_op
    BY <1>1 DEF AsyncRead, EveryControlInv, ParkedWriteHasWaker
  <2>3. \E st \in {"abort", "read_fh", "read_payload"} : ReadWait(st)
    BY <1>1 DEF AsyncRead
  <2>. QED BY <1>1, <2>1, <2>2, <2>3, EveryWait DEF AsyncRead, RdReading
<1>2. ASSUME NEW kind \in {"frame", "ping", "close"}, AsyncWrite(kind)
      PROVE  EveryControlInv'
  <2>1. PICK fin \in BOOLEAN :
          /\ fh_cont' = (kind = "frame" /\ wr_cont)
          /\ fh_fin' = fin
          /\ wr_cont' = IF kind = "frame" THEN ~fin ELSE wr_cont
          /\ \/ /\ wr_block # "none"
                /\ wr' = "parked" /\ wr_op' = TRUE
                /\ UNCHANGED <<rd, rd_ec, rd_op, wr_block, wr_close, failed,
                               sock, wire_cont>>
             \/ /\ wr' = "abort"
                /\ UNCHANGED <<rd, rd_ec, rd_op, wr_op, wr_block, wr_close,
                               failed, sock, wire_cont>>
             \/ StartWrite(kind, fin)
    BY <1>2 DEF AsyncWrite
  <2>2. wr = "idle" /\ wop' = kind /\ UNCHANGED rdvars
    BY <1>2 DEF AsyncWrite
  <2>3. wr_block # "W" /\ rd \notin RdParked /\ ~wr_op
    BY <2>2 DEF EveryControlInv, OwnerInv, ParkedReadHasWaker, ParkedWriteHasWaker
  <2>4. fh_cont' \in BOOLEAN /\ fh_fin' \in BOOLEAN /\ wr_cont' \in BOOLEAN
    BY <2>1 DEF EveryControlInv, FlagsOK
  <2>5. CASE wr' # "write"
    <3>. USE <2>1, <2>2, <2>3, <2>4, <2>5
         DEF EveryControlInv, rdvars, StartWrite, RdReading, RdWriting, RdTeardown, RdParked, RdPosted
    <3>1. StatesOK' /\ FlagsOK'
      BY DEF StatesOK, FlagsOK, WrStates
    <3>2. OwnerInv' /\ ParkedReadHasWaker' /\ ParkedWriteHasWaker'
      BY DEF StatesOK, OwnerInv, ParkedReadHasWaker, ParkedWriteHasWaker
    <3>3. CloseInv' /\ ResumeBeforeTeardown'
      BY DEF CloseInv, ClosedIsAgreed, ResumeBeforeTeardown
    <3>. QED BY <3>1, <3>2, <3>3
  <2>6. CASE StartWrite(kind, fin)
    BY <2>2, <2>4, <2>6, EveryStartWrite
  <2>. QED BY <2>1, <2>5, <2>6
<1>. QED BY <1>1, <1>2, CallerForms

\* Whatever the caller's discipline and the number of threads, the parking
\* places rd_op_ and wr_op_ and the closing handshake are kept in order.
THEOREM EveryInvariance == Spec => [](EveryInv /\ KindInv)
<1>1. Init => EveryInv /\ KindInv
  BY InitIInv DEF Init, IInv, ControlInv, EveryInv, EveryControlInv, OwnerInv, KindInv,
     ResumeBeforeTeardown, BlockInv
<1>2. EveryInv /\ KindInv /\ [Next]_vars => (EveryInv /\ KindInv)'
  <2>. SUFFICES ASSUME EveryInv, KindInv, [Next]_vars PROVE (EveryInv /\ KindInv)'
    OBVIOUS
  <2>1. CountsOK' /\ KindInv'
    BY CountsInduct, KindInduct DEF EveryInv, EveryControlInv
  <2>2. CASE UNCHANGED vars
    <3>. USE <2>2 DEF vars, rdvars, wrvars, EveryInv, EveryControlInv
    <3>1. StatesOK' /\ FlagsOK' /\ OwnerInv'
      BY DEF StatesOK, FlagsOK, OwnerInv
    <3>2. ParkedReadHasWaker' /\ ParkedWriteHasWaker'
      BY DEF ParkedReadHasWaker, ParkedWriteHasWaker
    <3>3. CloseInv' /\ ResumeBeforeTeardown'
      BY DEF CloseInv, ClosedIsAgreed, ResumeBeforeTeardown
    <3>. QED BY <2>1, <3>1, <3>2, <3>3
  <2>3. CASE Next
    BY <2>1, <2>3, EveryCallerInduct, EveryReadInduct, EveryWriteInduct DEF Next, EveryInv
  <2>. QED BY <2>2, <2>3
<1>. QED BY <1>1, <1>2, PTL DEF Spec

\* Type correctness, for payloads and piece counts of any size.
THEOREM TypeCorrect == Spec => []TypeOK
<1>1. EveryInv => TypeOK
  BY DEF EveryInv, EveryControlInv, TypeOK
<1>. QED BY <1>1, EveryInvariance, PTL

\* A suspended read operation always has a write in flight that will resume
\* it (rd_op_), whatever the caller does.
THEOREM ReadWakerExists == Spec => []ParkedReadHasWaker
<1>1. EveryInv => ParkedReadHasWaker
  BY DEF EveryInv, EveryControlInv
<1>. QED BY <1>1, EveryInvariance, PTL

\* A suspended write operation always has a read operation under way, itself
\* not suspended, that will resume it (wr_op_), whatever the caller does.
THEOREM WriteWakerExists == Spec => []ParkedWriteHasWaker
<1>1. EveryInv => ParkedWriteHasWaker
  BY DEF EveryInv, EveryControlInv
<1>. QED BY <1>1, EveryInvariance, PTL

\* error::closed reaches any caller only after both ends' close frames.
THEOREM ClosedAgreed == Spec => []ClosedIsAgreed
<1>1. EveryInv => ClosedIsAgreed
  BY DEF EveryInv, EveryControlInv, CloseInv
<1>. QED BY <1>1, EveryInvariance, PTL

\* A frame of the read operation begins before teardown: with a close frame
\* sent there is nothing to answer, and a suspended read was suspended before.
LEMMA ReadBeginsOpen ==
  ASSUME EveryControlInv, ReadHandler \/ AsyncRead, sock # "open"
  PROVE  rd' \notin RdWriting /\ (wr' = "write" => wr = "write")
<1>1. wr_close /\ rd \notin RdPosted
  BY DEF EveryControlInv, CloseInv, ResumeBeforeTeardown
<1>. DEFINE Q == rd' \notin RdWriting /\ (wr' = "write" => wr = "write")
<1>2. ASSUME NEW ec, ReadUpcall(ec) PROVE Q
  BY <1>2 DEF ReadUpcall, RdWriting
<1>3. ASSUME NEW st \in {"abort", "read_fh", "read_fh2", "read_control", "read_payload"}, ReadWait(st) PROVE Q
  BY <1>3 DEF ReadWait, RdWriting
<1>4. ASSUME NEW st \in RdTeardown, CallTeardown(st) PROVE Q
  BY <1>2, <1>4 DEF CallTeardown, Teardown, RdTeardown, RdWriting
<1>5. DoFail => Q
  BY <1>1, <1>4 DEF DoFail, RdTeardown
<1>6. ASSUME NEW op, DoControl(op) PROVE Q
  BY <1>1, <1>2, <1>3, <1>5, <1>6 DEF DoControl, DoPing, DoReceivedClose
<1>7. ASSUME NEW op, HeaderDone(op) PROVE Q
  BY <1>2, <1>3, <1>5, <1>6, <1>7 DEF HeaderDone
<1>8. CASE AsyncRead
  BY <1>3, <1>8 DEF AsyncRead
<1>9. CASE OnReadFh1 \/ OnReadFh2 \/ OnReadControl \/ OnReadPayload
  BY <1>2, <1>3, <1>5, <1>6, <1>7, <1>9 DEF OnReadFh1, OnReadFh2, OnReadControl, OnReadPayload
<1>10. CASE OnReadAbort \/ OnReadError \/ OnTeardown
  BY <1>2, <1>10 DEF OnReadAbort, OnReadError, OnTeardown
<1>11. CASE OnPongWritten
  BY <1>11 DEF OnPongWritten, RdWriting
<1>12. CASE OnCloseWritten
  BY <1>4, <1>12 DEF OnCloseWritten, RdTeardown
<1>13. ~ReadResume
  BY <1>1 DEF ReadResume, OnPongResume, OnCloseResume, OnFailResume, RdPosted
<1>. QED BY <1>8, <1>9, <1>10, <1>11, <1>12, <1>13 DEF ReadHandler

\* After teardown began, no operation begins another frame, whatever the
\* caller still starts and in whatever order the handlers run.
THEOREM QuietAfterTeardown == Spec => TeardownQuiet
<1>1. EveryInv /\ [Next]_vars => [sock # "open" => ~WriteBegins]_vars
  <2>. SUFFICES ASSUME EveryInv, [Next]_vars, sock # "open", WriteBegins PROVE FALSE
    OBVIOUS
  <2>1. EveryControlInv /\ wr_close
    BY DEF EveryInv, EveryControlInv, CloseInv
  <2>2. CASE ReadHandler \/ AsyncRead
    BY <2>1, <2>2, ReadBeginsOpen DEF WriteBegins
  <2>3. CASE WriteHandler \/ \E kind \in {"frame", "ping", "close"} : AsyncWrite(kind)
    <3>1. wr' = "write" => wr = "write"
      BY <2>1, <2>3 DEF WriteHandler, OnWriteResume, OnWritten, OnWriteError, OnWriteAbort,
         WriteUpcall, AsyncWrite
    <3>2. rd' # rd => rd' \in RdPosted
      BY <2>1, <2>3 DEF WriteHandler, OnWriteResume, OnWritten, OnWriteError, OnWriteAbort,
         WriteUpcall, AsyncWrite, StartWrite, RdPosted
    <3>. QED BY <3>1, <3>2 DEF WriteBegins, RdPosted, RdWriting
  <2>4. CASE UNCHANGED vars
    BY <2>4 DEF vars, WriteBegins
  <2>. QED BY <2>2, <2>3, <2>4, CallerForms DEF Next
<1>. QED BY <1>1, EveryInvariance, PTL DEF Spec, TeardownQuiet

-----------------------------------------------------------------------------
(* What a step may do to the wire: nothing new, or one frame of one side.  *)

\* The read operation begins no frame.
ReaderQuiet ==
  /\ rd' \notin RdWriting /\ (wr' = "write" <=> wr = "write")
  /\ UNCHANGED wr_close

\* The read operation begins a control frame on a free, unclosed wire.
ReaderBegins ==
  \E st \in RdWriting :
    /\ ReadWrite(st) /\ wr_block = "none" /\ ~wr_close
    /\ wr_close' = (st # "pong_write")

\* ReadUpcall begins no frame: it wakes a parked write by posting it.
LEMMA UpcallQuiet ==
  ASSUME NEW ec, ControlInv, ReadUpcall(ec) PROVE ReaderQuiet
BY DEF ReadUpcall, ReaderQuiet, RdWriting, ControlInv, ParkedWriteHasWaker

\* Waiting, parking and teardown begin no frame.
LEMMA OtherQuiet ==
  ASSUME NEW st \in RdStates \ RdWriting,
         ControlInv, ReadWait(st) \/ ReadPark(st) \/ CallTeardown(st)
  PROVE  ReaderQuiet
BY UpcallQuiet DEF ReadWait, ReadPark, CallTeardown, Teardown, ReaderQuiet

\* do_fail, do_control and the end of a header begin a frame only on a free wire.
LEMMA ReaderPieces ==
  ASSUME ControlInv
  PROVE  /\ DoFail => ReaderQuiet \/ ReaderBegins
         /\ \A op : DoControl(op) => ReaderQuiet \/ ReaderBegins
         /\ \A op : HeaderDone(op) => ReaderQuiet \/ ReaderBegins
<1>. DEFINE Q == ReaderQuiet \/ ReaderBegins
<1>0. {"read_fh", "read_fh2", "read_control", "read_payload", "fail_teardown",
       "fail_parked", "pong_parked", "close_parked"} \subseteq RdStates \ RdWriting
  BY DEF RdStates, RdWriting, RdReading, RdTeardown, RdParked
<1>1. DoFail => Q
  BY <1>0, OtherQuiet DEF DoFail, SendFailClose, ReaderBegins, RdWriting
<1>2. DoPing => Q
  <2>1. \A st \in RdStates \ RdWriting : ReadWait(st) \/ ReadPark(st) => Q
    BY OtherQuiet
  <2>2. ~wr_close /\ wr_block = "none" /\ DoPong => ReadWait("read_fh") \/ Q
    BY DEF DoPong, ReaderBegins, RdWriting, ControlInv, FlagsOK
  <2>. QED BY <1>0, <2>1, <2>2 DEF DoPing
<1>3. DoReceivedClose => Q
  <2>1. ReadUpcall("closed") => Q
    BY UpcallQuiet
  <2>2. ReadPark("close_parked") => Q
    BY <1>0, OtherQuiet
  <2>3. ~wr_close /\ wr_block = "none" /\ DoClose => Q
    BY DEF DoClose, ReaderBegins, RdWriting
  <2>. QED BY <2>1, <2>2, <2>3 DEF DoReceivedClose
<1>4. ASSUME NEW op PROVE DoControl(op) => Q
  BY <1>0, <1>1, <1>2, <1>3, OtherQuiet DEF DoControl
<1>5. ASSUME NEW op PROVE HeaderDone(op) => Q
  BY <1>0, <1>1, <1>4, OtherQuiet, UpcallQuiet DEF HeaderDone
<1>. QED BY <1>1, <1>4, <1>5

\* Every handler of the read operation leaves the wire alone or begins one
\* control frame on a free, unclosed wire.
LEMMA ReaderSteps ==
  ASSUME Deferred, ControlInv, ReadHandler \/ AsyncRead
  PROVE  (ReaderQuiet \/ ReaderBegins) /\ UNCHANGED wrvars
<1>. DEFINE Q == ReaderQuiet \/ ReaderBegins
<1>0. {"abort", "read_fh", "read_fh2", "read_control", "read_payload",
       "close_teardown", "fail_teardown"} \subseteq RdStates \ RdWriting
  BY DEF RdStates, RdWriting, RdReading, RdTeardown
<1>1. UNCHANGED wrvars
  BY DEF ReadHandler, AsyncRead, ReadResume, OnReadAbort, OnReadError, OnReadFh1,
     OnReadFh2, OnReadControl, OnReadPayload, OnPongWritten, OnCloseWritten,
     OnTeardown, OnPongResume, OnCloseResume, OnFailResume
<1>2. AsyncRead => Q
  BY <1>0, OtherQuiet DEF AsyncRead
<1>3. OnReadAbort \/ OnReadError \/ OnTeardown => Q
  BY UpcallQuiet DEF OnReadAbort, OnReadError, OnTeardown
<1>4. OnReadFh1 \/ OnReadFh2 \/ OnReadControl \/ OnReadPayload => Q
  BY <1>0, OtherQuiet, UpcallQuiet, ReaderPieces
     DEF OnReadFh1, OnReadFh2, OnReadControl, OnReadPayload
<1>5. OnCloseWritten \/ OnPongWritten => Q
  BY <1>0, OtherQuiet DEF OnCloseWritten, OnPongWritten, ReaderQuiet
<1>6. rd \in RdPosted => wr_block = "none" /\ ~wr_close
  BY DEF ControlInv, StatesOK, BlockInv, ResumeInv, RdPosted, RdWriting, RdTeardown
<1>7. ReadResume => Q
  <2>1. \A ec : ReadUpcall(ec) => Q
    BY UpcallQuiet
  <2>2. ReadWait("read_fh") => Q
    BY <1>0, OtherQuiet
  <2>3. \A st \in RdWriting :
          rd \in RdPosted /\ ReadWrite(st) /\ wr_close' = (st # "pong_write") => Q
    BY <1>6 DEF ReaderBegins
  <2>4. OnPongResume => Q
    BY <1>6, <2>1, <2>2, <2>3
       DEF OnPongResume, DoPong, RdPosted, RdWriting, ControlInv, FlagsOK
  <2>5. OnCloseResume => Q
    BY <2>1, <2>3 DEF OnCloseResume, DoClose, RdPosted, RdWriting
  <2>6. OnFailResume => Q
    BY <2>1, <2>3 DEF OnFailResume, SendFailClose, RdPosted, RdWriting
  <2>. QED BY <2>4, <2>5, <2>6 DEF ReadResume
<1>. QED BY <1>1, <1>2, <1>3, <1>4, <1>5, <1>7 DEF ReadHandler

\* The write operation begins no frame: it goes on with its own or stops.
WriterQuiet ==
  /\ wr' = "write" => wr = "write" /\ UNCHANGED <<wop, fh_cont>>
  /\ UNCHANGED <<wr_close, wire_cont>>
  /\ rd' = rd \/ (rd \in RdParked /\ rd' \in RdPosted)

\* The write operation begins a frame on a free, unclosed wire; a data frame
\* is a continuation exactly inside a message.
WriterBegins ==
  \E kind \in {"frame", "ping", "close"}, fin \in BOOLEAN :
    /\ StartWrite(kind, fin) /\ wop' = kind
    /\ wr_block = "none" /\ ~wr_close
    /\ kind = "frame" => fh_cont' = wire_cont

\* The same for the write operation.
LEMMA WriterSteps ==
  ASSUME Deferred, ControlInv,
         WriteHandler \/ \E kind \in {"frame", "ping", "close"} : AsyncWrite(kind)
  PROVE  WriterQuiet \/ WriterBegins
<1>1. WriteUpcall => WriterQuiet
  BY
  DEF WriteUpcall, WriterQuiet, RdParked, RdPosted, ControlInv,
      ParkedReadHasWaker
<1>2. CASE OnWritten \/ OnWriteError \/ OnWriteAbort
  BY <1>1, <1>2 DEF OnWritten, OnWriteError, OnWriteAbort, WriterQuiet
<1>3. CASE OnWriteResume
  <2>1. CASE WriteUpcall
    BY <1>1, <2>1
  <2>2. CASE ~failed /\ ~wr_close /\ StartWrite(wop, fh_fin)
             /\ UNCHANGED <<wop, fh_cont, fh_fin, pieces, wr_cont>>
    <3>1. wop \in {"frame", "ping", "close"} /\ fh_fin \in BOOLEAN /\ wr_block = "none"
      BY <1>3 DEF OnWriteResume, ControlInv, StatesOK, FlagsOK, BlockInv, ResumeInv,
                  RdWriting, RdTeardown
    <3>2. wop = "frame" => fh_cont' = wire_cont
      BY <1>3, <2>2 DEF OnWriteResume, ControlInv, ContInv
    <3>. QED BY <2>2, <3>1, <3>2 DEF WriterBegins
  <2>. QED BY <1>3, <2>1, <2>2 DEF OnWriteResume
<1>4. ASSUME NEW kind \in {"frame", "ping", "close"}, AsyncWrite(kind)
      PROVE  WriterQuiet \/ WriterBegins
  <2>1. CASE wr' # "write"
    BY <1>4, <2>1 DEF AsyncWrite, StartWrite, WriterQuiet
  <2>2. CASE wr' = "write"
    <3>1. PICK fin \in BOOLEAN :
            /\ fh_cont' = (kind = "frame" /\ wr_cont)
            /\ wr_block = "none" /\ ~failed /\ ~wr_close
            /\ StartWrite(kind, fin)
      BY <1>4, <2>2 DEF AsyncWrite
    <3>2. kind = "frame" => fh_cont' = wire_cont
      BY <1>4, <3>1 DEF AsyncWrite, ControlInv, ContInv, FlagsOK
    <3>. QED BY <1>4, <3>1, <3>2 DEF AsyncWrite, WriterBegins
  <2>. QED BY <2>1, <2>2
<1>. QED BY <1>2, <1>3, <1>4 DEF WriteHandler

\* The step behind the three action properties: a frame is begun only while
\* nobody writes and before any close frame.
LEMMA BeginsFree ==
  ASSUME Deferred, ControlInv, [Next]_vars, WriteBegins
  PROVE  wr_block = "none" /\ ~wr_close
<1>1. CASE ReadHandler \/ AsyncRead
  BY <1>1, ReaderSteps DEF ReaderQuiet, ReaderBegins, WriteBegins, ReadWrite
<1>2. CASE WriteHandler \/ \E kind \in {"frame", "ping", "close"} : AsyncWrite(kind)
  BY <1>2, WriterSteps
     DEF WriterQuiet, WriterBegins, WriteBegins, RdParked, RdPosted, RdWriting, StartWrite
<1>3. CASE UNCHANGED vars
  BY <1>3 DEF vars, WriteBegins
<1>. QED BY <1>1, <1>2, <1>3, CallerForms DEF Next

\* BOOST_ASSERT(! wr_block_) never fires for such a caller.
THEOREM AssertHolds == ASSUME Disciplined PROVE Spec => AssertWrBlock
<1>1. caller \in Callers /\ (Deferred => IInv) /\ [Next]_vars
        => [Fifo /\ WriteBegins => wr_block = "none"]_vars
  BY BeginsFree, FifoDefers DEF IInv
<1>. QED BY <1>1, Invariance, CallerFixed, PTL DEF Spec, AssertWrBlock

\* Such a stream never puts a second close frame on the wire.
THEOREM OneCloseFrame == ASSUME Disciplined PROVE Spec => CloseFrameOnce
<1>1. caller \in Callers /\ (Deferred => IInv) /\ [Next]_vars
        => [Fifo /\ rd # rd' /\ rd' \in {"close_write", "fail_write"} => ~wr_close]_vars
  BY BeginsFree, FifoDefers DEF IInv, WriteBegins, RdWriting
<1>. QED BY <1>1, Invariance, CallerFixed, PTL DEF Spec, CloseFrameOnce

\* The three together: such a stream begins its frames in turn.
THEOREM FramesOrdered == ASSUME Disciplined PROVE Spec => FramesInTurn
<1>. QED BY AssertHolds, OneCloseFrame, QuietAfterTeardown DEF FramesInTurn

-----------------------------------------------------------------------------
(* Refinement: the outgoing half implements WsWire.                        *)

\* A step that begins no frame lets the frame being sent go on or ends it.
LEMMA QuietRefines ==
  ASSUME Deferred, Deferred', ControlInv, (ReaderQuiet /\ UNCHANGED wrvars) \/ WriterQuiet
  PROVE  Wire!End \/ UNCHANGED <<WireCur, WireClosed, WireMid>>
<1>1. (wr = "write" => rd \notin RdWriting) /\ (wop # "none" <=> wr # "idle")
  BY DEF ControlInv, BlockInv
<1>2. wop \in {"none", "frame", "ping", "close"}
  BY DEF ControlInv, StatesOK
<1>3. UNCHANGED <<wr_close, wire_cont>>
  BY DEF ReaderQuiet, WriterQuiet, wrvars
<1>4. WireCur' = WireCur \/ (WireCur # "none" /\ WireCur' = "none")
  <2>1. CASE ReaderQuiet /\ UNCHANGED wrvars
    BY <1>1, <2>1 DEF ReaderQuiet, wrvars, WireCur, Fifo, Deferred, RdWriting
  <2>2. CASE WriterQuiet
    BY <1>1, <1>2, <2>2 DEF WriterQuiet, WireCur, Fifo, Deferred, RdWriting, RdParked, RdPosted
  <2>. QED BY <2>1, <2>2
<1>. QED BY <1>3, <1>4 DEF Wire!End, WireClosed, WireMid, Fifo, Deferred

\* A control frame of the read operation is one of WsWire's.
LEMMA ReaderRefines ==
  ASSUME Deferred, Deferred', ControlInv, ReaderBegins, UNCHANGED wrvars PROVE Wire!BeginControl
<1>1. wr # "write" /\ rd \notin RdWriting
  BY DEF ControlInv, BlockInv, ReaderBegins
<1>2. WireCur = "none"
  BY <1>1 DEF WireCur, Fifo, Deferred, RdWriting
<1>3. PICK st \in RdWriting : /\ ReadWrite(st) /\ ~wr_close
                              /\ wr_close' = (st # "pong_write")
  BY DEF ReaderBegins
<1>4. WireCur' = IF st = "pong_write" THEN "pong" ELSE "close"
  BY <1>1, <1>3 DEF ReadWrite, WireCur, Fifo, Deferred, RdWriting
<1>. QED BY <1>2, <1>3, <1>4 DEF Wire!BeginControl, WireClosed, WireMid, Fifo, Deferred, wrvars, RdWriting

\* A frame of the write operation is one of WsWire's.
LEMMA WriterRefines ==
  ASSUME Deferred, Deferred', ControlInv, WriterBegins PROVE Wire!BeginData \/ Wire!BeginControl
<1>1. wr # "write" /\ rd \notin RdWriting
  BY DEF ControlInv, BlockInv, WriterBegins
<1>2. WireCur = "none"
  BY <1>1 DEF WireCur, Fifo, Deferred, RdWriting
<1>3. PICK kind \in {"frame", "ping", "close"}, fin \in BOOLEAN :
        /\ StartWrite(kind, fin) /\ wop' = kind /\ ~wr_close
        /\ kind = "frame" => fh_cont' = wire_cont
  BY DEF WriterBegins
<1>4. CASE kind = "frame"
  <2>1. WireCur' = IF wire_cont THEN "cont" ELSE "first"
    BY <1>3, <1>4 DEF StartWrite, WireCur, Fifo, Deferred
  <2>2. wire_cont' \in BOOLEAN /\ wr_close' = wr_close
    BY <1>3, <1>4 DEF StartWrite, ControlInv, FlagsOK
  <2>. QED BY <1>2, <1>3, <2>1, <2>2 DEF Wire!BeginData, WireClosed, WireMid, Fifo, Deferred
<1>5. CASE kind # "frame"
  <2>1. WireCur' = kind
    BY <1>3, <1>5 DEF StartWrite, WireCur, Fifo, Deferred
  <2>2. wire_cont' = wire_cont /\ wr_close' = (kind = "close")
    BY <1>3, <1>5 DEF StartWrite, ControlInv, FlagsOK
  <2>. QED BY <1>2, <1>3, <1>5, <2>1, <2>2 DEF Wire!BeginControl, WireClosed, WireMid, Fifo, Deferred
<1>. QED BY <1>4, <1>5

\* The outgoing half of the connection implements WsWire: although two
\* operations write, the peer receives a legal sequence of frames.
THEOREM Refinement == ASSUME Disciplined PROVE Spec => WireSpec
<1>1. Init => Wire!Init
  BY DEF Init, Wire!Init, WireCur, WireClosed, WireMid
<1>2. caller \in Callers /\ (Deferred => IInv) /\ [Next]_vars
        => [Wire!Next]_<<WireCur, WireClosed, WireMid>>
  <2>. SUFFICES ASSUME caller \in Callers, Deferred => IInv, [Next]_vars
                PROVE  [Wire!Next]_<<WireCur, WireClosed, WireMid>>
    OBVIOUS
  <2>1. CASE Fifo
    <3>1. Deferred /\ Deferred' /\ ControlInv
      BY <2>1, FifoDefers DEF IInv, Next, vars, Deferred
    <3>2. CASE ReadHandler \/ AsyncRead
      BY <3>1, <3>2, ReaderSteps, QuietRefines, ReaderRefines DEF Wire!Next
    <3>3. CASE WriteHandler \/ \E kind \in {"frame", "ping", "close"} : AsyncWrite(kind)
      BY <3>1, <3>3, WriterSteps, QuietRefines, WriterRefines DEF Wire!Next
    <3>4. CASE UNCHANGED vars
      BY <3>4 DEF vars, wrvars, WireCur, WireClosed, WireMid, Fifo
    <3>. QED BY <3>2, <3>3, <3>4, CallerForms DEF Next
  <2>2. CASE ~Fifo
    <3>1. ~Fifo'
      BY <2>2 DEF Next, vars, Fifo
    <3>. QED BY <2>2, <3>1 DEF WireCur, WireClosed, WireMid
  <2>. QED BY <2>1, <2>2
<1>. QED BY <1>1, <1>2, Invariance, CallerFixed, PTL DEF Spec, WireSpec, Wire!Spec

=============================================================================
