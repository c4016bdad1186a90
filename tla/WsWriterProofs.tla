--------------------------- MODULE WsWriterProofs ---------------------------
(***************************************************************************)
(* Proofs about WsWriter for every set of buffer sizes and every size of   *)
(* the caller's buffers.                                                   *)
(***************************************************************************)
EXTENDS WsWriter, TLAPS

\* The types, in parts that one prover can handle at a time.
Numbers ==
  /\ wr_buf_size_ \in BufSizes /\ wr_size \in Nat /\ wr_max \in Nat
  /\ chunk \in Nat /\ remain \in 0..MaxBytes
Flags ==
  /\ wr_autofrag_ \in BOOLEAN /\ wr_cont \in BOOLEAN /\ wr_autofrag \in BOOLEAN
  /\ failed \in BOOLEAN /\ async \in BOOLEAN /\ fin \in BOOLEAN /\ open \in BOOLEAN
Names ==
  /\ role \in {"client", "server"} /\ op \in {"first", "cont"}
  /\ call \in {"idle", "autofrag", "mask", "pieces", "plain"}
  /\ last.op \in {"none", "first", "cont"}
Wire == last \in [op : {"none", "first", "cont"}, len : Nat]
Limits == limit \in {0} \cup BufSizes

Types == Numbers /\ Flags /\ Names

\* Which branch a call may be in, and what a failed connection has left.
CallInv ==
  /\ failed => call = "idle"
  /\ call \in {"mask", "pieces", "plain"} /\ ~async => ~wr_autofrag
  /\ call = "autofrag" => wr_autofrag /\ ~async

\* The sizes that loops divide the payload by are positive.
SizeInv ==
  /\ (wr_cont \/ call # "idle") /\ ~async => wr_max > 0
  /\ call \in {"mask", "pieces"} => chunk > 0
  /\ call = "pieces" => remain > 0
  /\ call = "autofrag" \/ (wr_cont /\ wr_autofrag /\ ~async) => wr_size < wr_max

\* The promise made when the message began is the buffer it uses.
LimitInv ==
  ~async /\ (wr_cont \/ call # "idle") =>
    limit = IF wr_autofrag THEN wr_max ELSE 0

\* Bytes wait in the write buffer only inside an auto-fragmented message.
KeptInv ==
  /\ ~failed /\ wr_size # 0 => ~async /\ wr_autofrag /\ wr_cont
  /\ call = "autofrag" /\ ~wr_cont /\ ~fin => remain \in {0, wr_max}

\* The next opcode and wr_.cont agree with what the peer has seen.
WireInv ==
  ~failed =>
    /\ call \in {"idle", "pieces"} => open = wr_cont
    /\ call = "autofrag" /\ ~fin => open = wr_cont
    /\ call \in {"autofrag", "mask", "plain"} =>
         op = IF open THEN "cont" ELSE "first"

\* What holds whatever the caller does, and what needs ~AnyParts.
WInv == Types /\ CallInv /\ SizeInv /\ LimitInv
MInv == WInv /\ KeptInv /\ WireInv

-----------------------------------------------------------------------------
\* The numbers keep their types.
LEMMA NumbersStep ==
  ASSUME Types, CallInv, SizeInv, [Next]_vars PROVE Numbers'
<1>. USE WriterAssumption
<1>1. ASSUME NEW a \in BOOLEAN, NEW b \in BufSizes, SetOption(a, b)
      PROVE  Numbers'
  BY <1>1 DEF SetOption, Types, Numbers
<1>2. ASSUME NEW f \in BOOLEAN, NEW n \in 0..MaxBytes, WriteFrame(f, n)
      PROVE  Numbers'
  BY <1>2 DEF WriteFrame, StartCall, WrPrepare, options, Types, Numbers
<1>3. ASSUME NEW f \in BOOLEAN, NEW n \in 0..MaxBytes, AsyncWriteFrame(f, n)
      PROVE  Numbers'
  BY <1>3 DEF AsyncWriteFrame, StartCall, options, Types, Numbers
<1>4. CASE Buffer
  BY <1>4 DEF Buffer, KeepForLater, Room, options, Types, Numbers
<1>5. CASE SendFragment
  BY <1>5
  DEF SendFragment, BeginFrame, KeepForLater, Room, NextOp, Again, Min2,
      options, Types, Numbers, SizeInv
<1>6. CASE SendMasked
  BY <1>6
  DEF SendMasked, BeginFrame, PieceSize, Again, Min2, options, Types, Numbers
<1>7. CASE SendPiece
  BY <1>7 DEF SendPiece, PieceSize, Again, Min2, options, Types, Numbers
<1>8. CASE SendPlain
  BY <1>8 DEF SendPlain, BeginFrame, options, Types, Numbers
<1>9. CASE SendError
  BY <1>9 DEF SendError, options, Types, Numbers
<1>10. CASE Open
  BY <1>10 DEF Open, Types, Numbers
<1>11. CASE UNCHANGED vars
  BY <1>11 DEF vars, options, Types, Numbers
<1>. QED
  BY <1>1, <1>2, <1>3, <1>4, <1>5, <1>6, <1>7, <1>8, <1>9, <1>10, <1>11
  DEF Next, Send

\* The flags keep their types.
LEMMA FlagsStep ==
  ASSUME Types, [Next]_vars PROVE Flags'
<1>. USE WriterAssumption
<1>1. ASSUME NEW a \in BOOLEAN, NEW b \in BufSizes, SetOption(a, b)
      PROVE  Flags'
  BY <1>1 DEF SetOption, Types, Flags
<1>2. ASSUME NEW f \in BOOLEAN, NEW n \in 0..MaxBytes, WriteFrame(f, n)
      PROVE  Flags'
  BY <1>2 DEF WriteFrame, StartCall, WrPrepare, options, Types, Flags
<1>3. ASSUME NEW f \in BOOLEAN, NEW n \in 0..MaxBytes, AsyncWriteFrame(f, n)
      PROVE  Flags'
  BY <1>3 DEF AsyncWriteFrame, StartCall, options, Types, Flags
<1>4. CASE Buffer
  BY <1>4 DEF Buffer, KeepForLater, Room, options, Types, Flags
<1>5. CASE SendFragment
  BY <1>5
  DEF SendFragment, BeginFrame, KeepForLater, Room, NextOp, Again, Min2,
      options, Types, Flags
<1>6. CASE SendMasked
  BY <1>6 DEF SendMasked, BeginFrame, PieceSize, Again, Min2, options, Types, Flags
<1>7. CASE SendPiece
  BY <1>7 DEF SendPiece, PieceSize, Again, Min2, options, Types, Flags
<1>8. CASE SendPlain
  BY <1>8 DEF SendPlain, BeginFrame, options, Types, Flags
<1>9. CASE SendError
  BY <1>9 DEF SendError, options, Types, Flags
<1>10. CASE Open
  BY <1>10 DEF Open, Types, Flags
<1>11. CASE UNCHANGED vars
  BY <1>11 DEF vars, options, Types, Flags
<1>. QED
  BY <1>1, <1>2, <1>3, <1>4, <1>5, <1>6, <1>7, <1>8, <1>9, <1>10, <1>11
  DEF Next, Send

\* The enumerated variables keep their types.
LEMMA NamesStep ==
  ASSUME Types, [Next]_vars PROVE Names'
<1>. USE WriterAssumption
<1>1. ASSUME NEW a \in BOOLEAN, NEW b \in BufSizes, SetOption(a, b)
      PROVE  Names'
  BY <1>1 DEF SetOption, Types, Names
<1>2. ASSUME NEW f \in BOOLEAN, NEW n \in 0..MaxBytes, WriteFrame(f, n)
      PROVE  Names'
  BY <1>2 DEF WriteFrame, StartCall, WrPrepare, options, Types, Names
<1>3. ASSUME NEW f \in BOOLEAN, NEW n \in 0..MaxBytes, AsyncWriteFrame(f, n)
      PROVE  Names'
  BY <1>3 DEF AsyncWriteFrame, StartCall, options, Types, Names
<1>4. CASE Buffer
  BY <1>4 DEF Buffer, KeepForLater, Room, options, Types, Names
<1>5. CASE SendFragment
  BY <1>5
  DEF SendFragment, BeginFrame, KeepForLater, Room, NextOp, Again, Min2,
      options, Types, Names
<1>6. CASE SendMasked
  BY <1>6 DEF SendMasked, BeginFrame, PieceSize, Again, Min2, options, Types, Names
<1>7. CASE SendPiece
  BY <1>7 DEF SendPiece, PieceSize, Again, Min2, options, Types, Names
<1>8. CASE SendPlain
  BY <1>8 DEF SendPlain, BeginFrame, options, Types, Names
<1>9. CASE SendError
  BY <1>9 DEF SendError, options, Types, Names
<1>10. CASE Open
  BY <1>10 DEF Open, Types, Names
<1>11. CASE UNCHANGED vars
  BY <1>11 DEF vars, options, Types, Names
<1>. QED
  BY <1>1, <1>2, <1>3, <1>4, <1>5, <1>6, <1>7, <1>8, <1>9, <1>10, <1>11
  DEF Next, Send

\* Every call stays in its branch.
LEMMA CallStep ==
  ASSUME Types, CallInv, [Next]_vars PROVE CallInv'
<1>. USE WriterAssumption
<1>1. ASSUME NEW a \in BOOLEAN, NEW b \in BufSizes, SetOption(a, b)
      PROVE  CallInv'
  BY <1>1 DEF SetOption, Types, Flags, Names, CallInv
<1>2. ASSUME NEW f \in BOOLEAN, NEW n \in 0..MaxBytes, WriteFrame(f, n)
      PROVE  CallInv'
  BY <1>2
  DEF WriteFrame, StartCall, WrPrepare, options, Types, Flags, Names, CallInv
<1>3. ASSUME NEW f \in BOOLEAN, NEW n \in 0..MaxBytes, AsyncWriteFrame(f, n)
      PROVE  CallInv'
  BY <1>3 DEF AsyncWriteFrame, StartCall, options, Types, Flags, Names, CallInv
<1>4. CASE Buffer
  BY <1>4 DEF Buffer, KeepForLater, Room, options, Types, Flags, Names, CallInv
<1>5. CASE SendFragment
  BY <1>5
  DEF SendFragment, BeginFrame, KeepForLater, Room, NextOp, Again, Min2,
      options, Types, Flags, Names, CallInv
<1>6. CASE SendMasked
  BY <1>6
  DEF SendMasked, BeginFrame, PieceSize, Again, Min2, options, Types, Flags,
      Names, CallInv
<1>7. CASE SendPiece
  BY <1>7
  DEF SendPiece, PieceSize, Again, Min2, options, Types, Flags, Names, CallInv
<1>8. CASE SendPlain
  BY <1>8 DEF SendPlain, BeginFrame, options, Types, Flags, Names, CallInv
<1>9. CASE SendError
  BY <1>9 DEF SendError, options, Types, Flags, Names, CallInv
<1>10. CASE Open
  BY <1>10 DEF Open, Types, Flags, Names, CallInv
<1>11. CASE UNCHANGED vars
  BY <1>11 DEF vars, options, Types, Flags, Names, CallInv
<1>. QED
  BY <1>1, <1>2, <1>3, <1>4, <1>5, <1>6, <1>7, <1>8, <1>9, <1>10, <1>11
  DEF Next, Send

\* The sizes stay positive and the buffer never overflows.
LEMMA SizeStep ==
  ASSUME Types, CallInv, SizeInv, [Next]_vars PROVE SizeInv'
<1>. USE WriterAssumption
<1>1. ASSUME NEW a \in BOOLEAN, NEW b \in BufSizes, SetOption(a, b)
      PROVE  SizeInv'
  BY <1>1 DEF SetOption, Types, Numbers, Flags, Names, CallInv, SizeInv
<1>2. ASSUME NEW f \in BOOLEAN, NEW n \in 0..MaxBytes, WriteFrame(f, n)
      PROVE  SizeInv'
  BY <1>2
  DEF WriteFrame, StartCall, WrPrepare, options, Types, Numbers, Flags, Names,
      CallInv, SizeInv
<1>3. ASSUME NEW f \in BOOLEAN, NEW n \in 0..MaxBytes, AsyncWriteFrame(f, n)
      PROVE  SizeInv'
  BY <1>3
  DEF AsyncWriteFrame, StartCall, options, Types, Numbers, Flags, Names,
      CallInv, SizeInv
<1>4. CASE Buffer
  BY <1>4
  DEF Buffer, KeepForLater, Room, options, Types, Numbers, Flags, Names,
      CallInv, SizeInv
<1>5. CASE SendFragment
  BY <1>5
  DEF SendFragment, BeginFrame, KeepForLater, Room, NextOp, Again, Min2,
      options, Types, Numbers, Flags, Names, CallInv, SizeInv
<1>6. CASE SendMasked
  BY <1>6
  DEF SendMasked, BeginFrame, PieceSize, Again, Min2, options, Types, Numbers,
      Flags, Names, CallInv, SizeInv
<1>7. CASE SendPiece
  BY <1>7
  DEF SendPiece, PieceSize, Again, Min2, options, Types, Numbers, Flags, Names,
      CallInv, SizeInv
<1>8. CASE SendPlain
  BY <1>8
  DEF SendPlain, BeginFrame, options, Types, Numbers, Flags, Names, CallInv,
      SizeInv
<1>9. CASE SendError
  BY <1>9 DEF SendError, options, Types, Numbers, Flags, Names, CallInv, SizeInv
<1>10. CASE Open
  BY <1>10 DEF Open, Types, Numbers, Flags, Names, CallInv, SizeInv
<1>11. CASE UNCHANGED vars
  BY <1>11 DEF vars, options, Types, Numbers, Flags, Names, CallInv, SizeInv
<1>. QED
  BY <1>1, <1>2, <1>3, <1>4, <1>5, <1>6, <1>7, <1>8, <1>9, <1>10, <1>11
  DEF Next, Send

\* The promise stays that of the running message.
LEMMA LimitStep ==
  ASSUME Types, CallInv, LimitInv, [Next]_vars PROVE LimitInv'
<1>. USE WriterAssumption
<1>1. ASSUME NEW a \in BOOLEAN, NEW b \in BufSizes, SetOption(a, b)
      PROVE  LimitInv'
  BY <1>1 DEF SetOption, Types, Flags, Names, CallInv, LimitInv
<1>2. ASSUME NEW f \in BOOLEAN, NEW n \in 0..MaxBytes, WriteFrame(f, n)
      PROVE  LimitInv'
  BY <1>2
  DEF WriteFrame, StartCall, WrPrepare, options, Types, Flags, Names, CallInv,
      LimitInv
<1>3. ASSUME NEW f \in BOOLEAN, NEW n \in 0..MaxBytes, AsyncWriteFrame(f, n)
      PROVE  LimitInv'
  BY <1>3
  DEF AsyncWriteFrame, StartCall, options, Types, Flags, Names, CallInv,
      LimitInv
<1>4. CASE Buffer
  BY <1>4
  DEF Buffer, KeepForLater, Room, options, Types, Flags, Names, CallInv,
      LimitInv
<1>5. CASE SendFragment
  BY <1>5
  DEF SendFragment, BeginFrame, KeepForLater, Room, NextOp, Again, Min2,
      options, Types, Flags, Names, CallInv, LimitInv
<1>6. CASE SendMasked
  BY <1>6
  DEF SendMasked, BeginFrame, PieceSize, Again, Min2, options, Types, Flags,
      Names, CallInv, LimitInv
<1>7. CASE SendPiece
  BY <1>7
  DEF SendPiece, PieceSize, Again, Min2, options, Types, Flags, Names, CallInv,
      LimitInv
<1>8. CASE SendPlain
  BY <1>8 DEF SendPlain, BeginFrame, options, Types, Flags, Names, CallInv, LimitInv
<1>9. CASE SendError
  BY <1>9 DEF SendError, options, Types, Flags, Names, CallInv, LimitInv
<1>10. CASE Open
  BY <1>10 DEF Open, Types, Flags, Names, CallInv, LimitInv
<1>11. CASE UNCHANGED vars
  BY <1>11 DEF vars, options, Types, Flags, Names, CallInv, LimitInv
<1>. QED
  BY <1>1, <1>2, <1>3, <1>4, <1>5, <1>6, <1>7, <1>8, <1>9, <1>10, <1>11
  DEF Next, Send

\* What is buffered belongs to the message in progress.
LEMMA KeptStep ==
  ASSUME ~AnyParts, WInv, KeptInv, [Next]_vars PROVE KeptInv'
<1>. USE WriterAssumption
<1>1. ASSUME NEW a \in BOOLEAN, NEW b \in BufSizes, SetOption(a, b)
      PROVE  KeptInv'
  BY <1>1
  DEF SetOption, WInv, Types, Numbers, Flags, Names, CallInv, SizeInv, KeptInv
<1>2. ASSUME NEW f \in BOOLEAN, NEW n \in 0..MaxBytes, WriteFrame(f, n)
      PROVE  KeptInv'
  BY <1>2
  DEF WriteFrame, StartCall, WrPrepare, options, WInv, Types, Numbers, Flags,
      Names, CallInv, SizeInv, KeptInv
<1>3. ASSUME NEW f \in BOOLEAN, NEW n \in 0..MaxBytes, AsyncWriteFrame(f, n)
      PROVE  KeptInv'
  BY <1>3
  DEF AsyncWriteFrame, StartCall, options, WInv, Types, Numbers, Flags, Names,
      CallInv, SizeInv, KeptInv
<1>4. CASE Buffer
  BY <1>4
  DEF Buffer, KeepForLater, Room, options, WInv, Types, Numbers, Flags, Names,
      CallInv, SizeInv, KeptInv
<1>5. CASE SendFragment
  BY <1>5
  DEF SendFragment, BeginFrame, KeepForLater, Room, NextOp, Again, Min2,
      options, WInv, Types, Numbers, Flags, Names, CallInv, SizeInv, KeptInv
<1>6. CASE SendMasked
  BY <1>6
  DEF SendMasked, BeginFrame, PieceSize, Again, Min2, options, WInv, Types,
      Numbers, Flags, Names, CallInv, SizeInv, KeptInv
<1>7. CASE SendPiece
  BY <1>7
  DEF SendPiece, PieceSize, Again, Min2, options, WInv, Types, Numbers, Flags,
      Names, CallInv, SizeInv, KeptInv
<1>8. CASE SendPlain
  BY <1>8
  DEF SendPlain, BeginFrame, options, WInv, Types, Numbers, Flags, Names,
      CallInv, SizeInv, KeptInv
<1>9. CASE SendError
  BY <1>9
  DEF SendError, options, WInv, Types, Numbers, Flags, Names, CallInv, SizeInv,
      KeptInv
<1>10. CASE Open
  BY <1>10 DEF Open, WInv, Types, Numbers, Flags, Names, CallInv, SizeInv, KeptInv
<1>11. CASE UNCHANGED vars
  BY <1>11
  DEF vars, options, WInv, Types, Numbers, Flags, Names, CallInv, SizeInv,
      KeptInv
<1>. QED
  BY <1>1, <1>2, <1>3, <1>4, <1>5, <1>6, <1>7, <1>8, <1>9, <1>10, <1>11
  DEF Next, Send

\* Opcodes follow what the peer has seen.
LEMMA WireStep ==
  ASSUME ~AnyParts, WInv, KeptInv, WireInv, [Next]_vars PROVE WireInv'
<1>. USE WriterAssumption
<1>1. ASSUME NEW a \in BOOLEAN, NEW b \in BufSizes, SetOption(a, b)
      PROVE  WireInv'
  BY <1>1
  DEF SetOption, WInv, Types, Numbers, Flags, Names, CallInv, SizeInv, KeptInv,
      WireInv
<1>2. ASSUME NEW f \in BOOLEAN, NEW n \in 0..MaxBytes, WriteFrame(f, n)
      PROVE  WireInv'
  BY <1>2
  DEF WriteFrame, StartCall, WrPrepare, options, WInv, Types, Numbers, Flags,
      Names, CallInv, SizeInv, KeptInv, WireInv
<1>3. ASSUME NEW f \in BOOLEAN, NEW n \in 0..MaxBytes, AsyncWriteFrame(f, n)
      PROVE  WireInv'
  BY <1>3
  DEF AsyncWriteFrame, StartCall, options, WInv, Types, Numbers, Flags, Names,
      CallInv, SizeInv, KeptInv, WireInv
<1>4. CASE Buffer
  BY <1>4
  DEF Buffer, KeepForLater, Room, options, WInv, Types, Numbers, Flags, Names,
      CallInv, SizeInv, KeptInv, WireInv
<1>5. CASE SendFragment
  BY <1>5
  DEF SendFragment, BeginFrame, KeepForLater, Room, NextOp, Again, Min2,
      options, WInv, Types, Numbers, Flags, Names, CallInv, SizeInv, KeptInv,
      WireInv
<1>6. CASE SendMasked
  BY <1>6
  DEF SendMasked, BeginFrame, PieceSize, Again, Min2, options, WInv, Types,
      Numbers, Flags, Names, CallInv, SizeInv, KeptInv, WireInv
<1>7. CASE SendPiece
  BY <1>7
  DEF SendPiece, PieceSize, Again, Min2, options, WInv, Types, Numbers, Flags,
      Names, CallInv, SizeInv, KeptInv, WireInv
<1>8. CASE SendPlain
  BY <1>8
  DEF SendPlain, BeginFrame, options, WInv, Types, Numbers, Flags, Names,
      CallInv, SizeInv, KeptInv, WireInv
<1>9. CASE SendError
  BY <1>9
  DEF SendError, options, WInv, Types, Numbers, Flags, Names, CallInv, SizeInv,
      KeptInv, WireInv
<1>10. CASE Open
  BY <1>10
  DEF Open, WInv, Types, Numbers, Flags, Names, CallInv, SizeInv, KeptInv,
      WireInv
<1>11. CASE UNCHANGED vars
  BY <1>11
  DEF vars, options, WInv, Types, Numbers, Flags, Names, CallInv, SizeInv,
      KeptInv, WireInv
<1>. QED
  BY <1>1, <1>2, <1>3, <1>4, <1>5, <1>6, <1>7, <1>8, <1>9, <1>10, <1>11
  DEF Next, Send

\* wire and history variables.
LEMMA WireTypeStep ==
  ASSUME Types, SizeInv, Wire, Limits, [Next]_vars PROVE Wire' /\ Limits'
<1>. USE WriterAssumption
<1>1. ASSUME NEW len \in Nat, NEW final, BeginFrame(len, final) PROVE Wire'
  BY <1>1 DEF BeginFrame, Wire, Types, Names
<1>2. CASE SendFragment
  <2>1. wr_size + Min2(remain, Room) \in Nat
    BY <1>2 DEF SendFragment, Types, Numbers, SizeInv, Min2, Room
  <2>. QED BY <1>1, <1>2, <2>1 DEF SendFragment, Limits
<1>3. CASE SendMasked \/ SendPlain
  <2>1. remain \in Nat
    BY DEF Types, Numbers
  <2>. QED BY <1>1, <1>3, <2>1 DEF SendMasked, SendPlain, Limits
<1>4. ASSUME NEW a \in BOOLEAN, NEW f \in BOOLEAN, NEW n \in 0..MaxBytes,
             StartCall(a, f, n)
      PROVE  Wire' /\ Limits'
  BY <1>4 DEF StartCall, Wire, Limits, Types, Numbers
<1>5. CASE Open
  BY <1>5 DEF Open, Wire, Limits
<1>6. CASE UNCHANGED <<last, limit>>
  BY <1>6 DEF Wire, Limits
<1>. QED
  BY <1>2, <1>3, <1>4, <1>5, <1>6
  DEF Next, Send, SetOption, WriteFrame, AsyncWriteFrame, Buffer, SendPiece,
      SendError, vars

-----------------------------------------------------------------------------
\* A freshly constructed and opened stream satisfies the invariants.
LEMMA InitMInv == Init => MInv /\ Wire /\ Limits
<1>. SUFFICES ASSUME Init PROVE MInv /\ Wire /\ Limits
  OBVIOUS
<1>. USE WriterAssumption
<1>1. Numbers /\ Limits
  BY DEF Init, Numbers, Limits
<1>2. Flags
  BY DEF Init, Flags
<1>3. Names /\ Wire
  BY DEF Init, Names, Wire
<1>4. CallInv /\ SizeInv /\ LimitInv
  BY DEF Init, CallInv, SizeInv, LimitInv
<1>5. KeptInv /\ WireInv
  BY DEF Init, KeptInv, WireInv
<1>. QED BY <1>1, <1>2, <1>3, <1>4, <1>5 DEF MInv, WInv, Types

\* The invariant that needs no discipline.
LEMMA WStep == ASSUME WInv, [Next]_vars PROVE WInv'
BY NumbersStep, FlagsStep, NamesStep, CallStep, SizeStep, LimitStep DEF WInv, Types

\* Whatever parts the caller writes, WInv and the types of the wire hold.
THEOREM WriterInvariance == Spec => [](WInv /\ Wire /\ Limits)
<1>1. Init => WInv /\ Wire /\ Limits
  BY InitMInv DEF MInv
<1>2. WInv /\ Wire /\ Limits /\ [Next]_vars => (WInv /\ Wire /\ Limits)'
  BY WStep, WireTypeStep DEF WInv
<1>. QED BY <1>1, <1>2, PTL DEF Spec

\* Type correctness of the writer.
THEOREM WriterTypes == Spec => []TypeOK
<1>1. WInv /\ Wire /\ Limits => TypeOK
  BY DEF WInv, Types, Numbers, Flags, Names, Wire, Limits, TypeOK
<1>. QED BY <1>1, WriterInvariance, PTL

\* The write buffer is never overrun and the autofrag loop always has room, for
\* every buffer size and every way to cut a message into parts.
THEOREM BufferSuffices == Spec => []BufferFits
<1>1. WInv => BufferFits
  BY DEF WInv, SizeInv, BufferFits
<1>. QED BY <1>1, WriterInvariance, PTL

\* No frame of an auto-fragmented synchronous write exceeds the write buffer.
THEOREM FragmentsBounded == Spec => FrameBounded
<1>1. ASSUME WInv, Limits, [Next]_vars
      PROVE  [last' # last /\ ~async /\ limit # 0 => last'.len <= limit]_vars
  <2>. SUFFICES ASSUME Next, last' # last, ~async, limit # 0
                PROVE  last'.len <= limit
    BY <1>1
  <2>. USE WriterAssumption
  <2>1. CASE SendFragment
    <3>1. wr_size + Min2(remain, Room) <= wr_max
      BY <1>1, <2>1 DEF SendFragment, WInv, SizeInv, Types, Numbers, Min2, Room
    <3>2. last'.len = wr_size + Min2(remain, Room)
      BY <2>1 DEF SendFragment, BeginFrame
    <3>3. limit = wr_max
      BY <1>1, <2>1 DEF SendFragment, WInv, CallInv, LimitInv
    <3>. QED BY <3>1, <3>2, <3>3
  <2>2. CASE SendMasked \/ SendPlain
    BY <1>1, <2>2 DEF SendMasked, SendPlain, WInv, CallInv, LimitInv
  <2>3. CASE Open
    <3>1. last'.len = 0
      BY <2>3 DEF Open
    <3>2. limit \in Nat
      BY <1>1 DEF Limits
    <3>. QED BY <3>1, <3>2
  <2>. QED
    BY <2>1, <2>2, <2>3
    DEF Next, Send, SetOption, WriteFrame, AsyncWriteFrame, StartCall, Buffer,
        SendPiece, SendError
<1>. QED BY <1>1, WriterInvariance, PTL DEF Spec, FrameBounded

-----------------------------------------------------------------------------
\* The invariant of a caller whose first parts fill the write buffer.
THEOREM MessageInvariance == ASSUME ~AnyParts PROVE Spec => []MInv
<1>1. Init => MInv
  BY InitMInv
<1>2. MInv /\ [Next]_vars => MInv'
  BY WStep, KeptStep, WireStep DEF MInv
<1>. QED BY <1>1, <1>2, PTL DEF Spec

\* A call hands over bytes.
LEMMA GiveRefines ==
  ASSUME MInv, NEW f \in BOOLEAN, NEW n \in 0..MaxBytes,
         WriteFrame(f, n) \/ AsyncWriteFrame(f, n)
  PROVE  Messages!Give
<1>. USE WriterAssumption
<1>1. call = "idle" /\ ~failed /\ UNCHANGED <<failed, last, open>>
  BY DEF WriteFrame, AsyncWriteFrame, StartCall
<1>2. /\ remain' = n /\ fin' = f
      /\ call' \in {"autofrag", "mask", "plain"}
  BY DEF WriteFrame, AsyncWriteFrame, StartCall
<1>3. wr_size' = wr_size /\ wr_size \in Nat
  BY <1>1
  DEF WriteFrame, AsyncWriteFrame, WrPrepare, MInv, KeptInv, WInv, Types,
      Numbers
<1>4. Left' = Left + n /\ Left \in Nat
  BY <1>1, <1>2, <1>3 DEF Left
<1>5. Left' \in Nat /\ Left' >= Left
  BY <1>4
<1>6. ~Ended /\ Ended' \in BOOLEAN
  BY <1>1, <1>2 DEF Ended
<1>7. Due = 0 /\ Due' = Due
  BY <1>1, <1>2 DEF Due
<1>. QED BY <1>1, <1>5, <1>6, <1>7 DEF Messages!Give

\* A fragment is a frame.
LEMMA FragmentRefines == ASSUME MInv, SendFragment PROVE Messages!Frame
<1>. USE WriterAssumption
<1>. DEFINE n == Min2(remain, Room)
            final == fin /\ n = remain
<1>0. remain \in Nat /\ wr_size \in Nat /\ wr_max \in Nat /\ wr_size < wr_max
  BY DEF SendFragment, MInv, WInv, Types, Numbers, SizeInv
<1>1. n \in Nat /\ n <= remain
  BY <1>0 DEF Min2, Room
<1>2. /\ call = "autofrag" /\ ~failed /\ failed' = failed /\ fin' = fin
      /\ op = (IF open THEN "cont" ELSE "first")
  BY DEF SendFragment, MInv, WInv, CallInv, WireInv
<1>3. /\ remain' = remain - n /\ wr_size' = 0 /\ open' = ~final
      /\ last'.op = op
      /\ call' = IF remain' > 0 THEN "autofrag" ELSE "idle"
  BY <1>2 DEF SendFragment, BeginFrame, Again
<1>4. Left = wr_size + remain /\ Left' = remain'
  BY <1>0, <1>1, <1>2, <1>3 DEF Left
<1>5. Due = 0 /\ Due' = 0
  BY <1>2, <1>3 DEF Due
<1>6. Left' \in Nat /\ Due' \in Nat /\ Left' + Due' <= Left
  BY <1>0, <1>1, <1>3, <1>4, <1>5
<1>7. ~open' => Ended /\ Left' = 0
  <2>1. ~open' => fin /\ n = remain
    BY <1>3
  <2>2. n = remain => Left' = 0
    BY <1>0, <1>3, <1>4
  <2>. QED BY <1>2, <2>1, <2>2 DEF Ended
<1>8. Ended' = (Ended /\ open')
  <2>1. CASE remain' > 0
    <3>1. n # remain
      BY <1>0, <1>1, <1>3, <2>1
    <3>. QED BY <1>2, <1>3, <2>1, <3>1 DEF Ended
  <2>2. CASE ~(remain' > 0)
    <3>1. n = remain
      BY <1>0, <1>1, <1>3, <2>2
    <3>. QED BY <1>2, <1>3, <2>2, <3>1 DEF Ended
  <2>. QED BY <2>1, <2>2
<1>9. open' \in BOOLEAN
  BY <1>3
<1>. QED BY <1>2, <1>3, <1>5, <1>6, <1>7, <1>8, <1>9 DEF Messages!Frame

\* A masked or plain frame, of the whole of what the call was given.
LEMMA FrameRefines == ASSUME MInv, SendMasked \/ SendPlain PROVE Messages!Frame
<1>. USE WriterAssumption
<1>0. remain \in Nat /\ chunk \in Nat
  BY DEF MInv, WInv, Types, Numbers
<1>1. /\ call \in {"mask", "plain"} /\ ~failed /\ failed' = failed /\ fin' = fin
      /\ op = (IF open THEN "cont" ELSE "first") /\ fin \in BOOLEAN
  BY DEF SendMasked, SendPlain, MInv, WInv, Types, Flags, CallInv, WireInv
<1>2. wr_size = 0 /\ wr_size' = 0
  BY <1>1 DEF SendMasked, SendPlain, MInv, WInv, CallInv, KeptInv
<1>3. /\ remain' \in Nat /\ remain' <= remain /\ open' = ~fin /\ last'.op = op
      /\ call' \in {"idle", "pieces"}
  BY <1>0 DEF SendMasked, SendPlain, BeginFrame, PieceSize, Min2
<1>4. Left = remain /\ Left' = 0
  <2>1. Left = wr_size + remain
    BY <1>1 DEF Left
  <2>2. Left' = wr_size' + 0
    BY <1>1, <1>3 DEF Left
  <2>. QED BY <1>0, <1>2, <2>1, <2>2
<1>5. Due = 0 /\ Due' \in Nat /\ Due' <= remain
  BY <1>0, <1>1, <1>3 DEF Due
<1>6. Left' \in Nat /\ Left' + Due' <= Left
  <2>1. \A l, d, r : l = 0 /\ d \in Nat /\ r \in Nat /\ d <= r => l + d <= r
    OBVIOUS
  <2>2. Left' \in Nat
    BY <1>4
  <2>. QED BY <1>0, <1>4, <1>5, <2>1, <2>2
<1>7. ~open' => Ended /\ Left' = 0
  BY <1>1, <1>3, <1>4 DEF Left, Ended
<1>8. Ended' = (Ended /\ open') /\ open' \in BOOLEAN
  BY <1>1, <1>3 DEF Ended
<1>. QED BY <1>1, <1>3, <1>5, <1>6, <1>7, <1>8 DEF Messages!Frame

\* The other steps of a call.
LEMMA PieceRefines == ASSUME MInv, SendPiece PROVE Messages!Piece
<1>. USE WriterAssumption
<1>0. remain \in Nat /\ chunk \in Nat /\ chunk > 0 /\ remain > 0 /\ wr_size \in Nat
  BY DEF SendPiece, MInv, WInv, Types, Numbers, SizeInv
<1>1. /\ call = "pieces" /\ ~failed /\ UNCHANGED <<failed, last, open, wr_size>>
      /\ call' \in {"idle", "pieces"} /\ (call' = "idle" => ~(remain' > 0))
  BY DEF SendPiece, Again, MInv, WInv, CallInv
<1>2. remain' \in Nat /\ remain' < remain
  BY <1>0 DEF SendPiece, PieceSize, Min2
<1>3. Due' \in Nat /\ Due' < Due
  BY <1>0, <1>1, <1>2 DEF Due
<1>4. Left' = Left /\ Ended' = Ended
  BY <1>1 DEF Left, Ended
<1>. QED BY <1>1, <1>3, <1>4 DEF Messages!Piece

LEMMA BufferRefines == ASSUME MInv, Buffer PROVE UNCHANGED Messages!mvars
<1>1. remain \in Nat /\ wr_size \in Nat
  BY WriterAssumption DEF MInv, WInv, Types, Numbers
<1>2. /\ call = "autofrag" /\ call' = "idle" /\ ~fin /\ ~fin'
      /\ wr_size' = wr_size + remain /\ UNCHANGED <<failed, last, open>>
  BY DEF Buffer, KeepForLater
<1>3. Left' = Left
  BY <1>1, <1>2 DEF Left
<1>4. Due' = Due /\ Ended' = Ended
  BY <1>2 DEF Due, Ended
<1>. QED BY <1>2, <1>3, <1>4 DEF Messages!mvars

LEMMA OtherRefines ==
  ASSUME MInv, SendError \/ Open \/ (\E a \in BOOLEAN, b \in BufSizes : SetOption(a, b))
  PROVE  Messages!Fail \/ Messages!Open \/ UNCHANGED Messages!mvars
<1>1. CASE SendError
  BY <1>1 DEF SendError, Messages!Fail, Left, Due, Ended
<1>2. CASE Open
  BY <1>2 DEF Open, MInv, WInv, CallInv, Messages!Open, Messages!Init,
         Left, Due, Ended
<1>3. CASE \E a \in BOOLEAN, b \in BufSizes : SetOption(a, b)
  BY <1>3 DEF SetOption, Messages!mvars, Left, Due, Ended
<1>. QED BY <1>1, <1>2, <1>3

\* With such a caller the writer implements WsMessages: the peer receives the
\* caller's messages, whole, in order and correctly framed.
THEOREM MessagesDelivered == ASSUME ~AnyParts PROVE Spec => MsgSpec
<1>1. Init => Messages!Init
  BY DEF Init, Messages!Init, Left, Due, Ended
<1>2. MInv /\ [Next]_vars => [Messages!Next]_(Messages!mvars)
  <2>1. CASE UNCHANGED vars
    BY <2>1 DEF vars, options, Messages!mvars, Left, Due, Ended
  <2>. SUFFICES ASSUME MInv, Next PROVE Messages!Next \/ UNCHANGED Messages!mvars
    BY <2>1
  <2>. QED
    BY GiveRefines, FragmentRefines, FrameRefines, PieceRefines, BufferRefines,
       OtherRefines
    DEF Next, Send, Messages!Next
<1>. QED BY <1>1, <1>2, MessageInvariance, PTL DEF Spec, MsgSpec, Messages!Spec

=============================================================================
