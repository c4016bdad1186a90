---------------------------- MODULE TestStreams -----------------------------
(***************************************************************************)
(* The streams of the tests and the loop they are used in.  yield_to runs  *)
(* a function in a coroutine on the thread of an io_service and waits for  *)
(* it.  The function is the loop of the stream tests: round n makes a      *)
(* fail_stream that fails on the nth operation, over a string_stream, and  *)
(* has the code under test perform its operations on it, until a round     *)
(* has no error.                                                           *)
(***************************************************************************)
EXTENDS Integers, Sequences, SequencesExt, FiniteSetsExt

CONSTANTS Scripts,   \* the operations of the code under test
          Text,      \* the string of the string_stream
          Limit      \* the limit of the loop

\* An operation: how it reports an error, what it does, the room of a read.
Operation ==
  [form : {"ec", "throw", "async"}, what : {"read", "write", "teardown"}, room : Nat]

ASSUME StreamsAssumption ==
  /\ Text \in Seq(Nat) /\ Scripts \subseteq Seq(Operation)
  /\ Limit \in Nat /\ \A sc \in Scripts : Len(sc) > 0 /\ Len(sc) + 1 < Limit

VARIABLES loop,     \* the round, its operation, the first it was made to fail,
                    \* what got through after that, and whether a read met eof
          stream,   \* fail_counter's n_, and s_ of the string_stream
          yield     \* the caller of yield_to, the coroutine, running_

tsvars == <<loop, stream, yield>>

\* fail_counter::fail: n_ goes down to 0 and stays there, and it fails if n_
\* is 0 then.
fail(n) == IF n > 0 THEN n - 1 ELSE 0

NewStream(n) == [n |-> n, s |-> Text, got |-> << >>]

-----------------------------------------------------------------------------
StreamsInit ==
  /\ \E sc \in Scripts :
       loop = [script |-> sc, n |-> 0, k |-> 0, first |-> 0, eof |-> FALSE, hit |-> {}, late |-> {},
               pc |-> "none"]
  /\ stream = NewStream(0)
  /\ yield = [caller |-> "idle", co |-> "none", running |-> FALSE]

\* running_ is set under the lock, and the coroutine is queued.
YieldTo ==
  /\ yield.caller = "idle"
  /\ yield' = [caller |-> "check", co |-> "queued", running |-> TRUE]
  /\ UNCHANGED <<loop, stream>>

\* The predicate is evaluated under the lock, before a wait and after it.
CheckRunning ==
  /\ yield.caller = "check"
  /\ yield' = [yield EXCEPT !.caller = IF yield.running THEN "wait" ELSE "returned"]
  /\ UNCHANGED <<loop, stream>>

\* A wait may end without a notification.
WakesSpuriously ==
  /\ yield.caller = "wait" /\ yield' = [yield EXCEPT !.caller = "check"]
  /\ UNCHANGED <<loop, stream>>

\* The io_service's thread enters the coroutine: round 0.
Enter ==
  /\ yield.co = "queued" /\ yield' = [yield EXCEPT !.co = "runs"]
  /\ loop' = [loop EXCEPT !.n = 0, !.k = 0, !.first = 0, !.eof = FALSE, !.hit = {}, !.pc = "op"]
  /\ stream' = NewStream(0)

\* Fault: running_ is cleared, and nobody is told.
LeaveQuietly ==
  /\ yield.co = "runs" /\ loop.pc = "over"
  /\ yield' = [yield EXCEPT !.co = "ended", !.running = FALSE]
  /\ UNCHANGED <<loop, stream>>

\* The function has returned: running_ is cleared and all are notified.
Leave ==
  /\ yield.co = "runs" /\ loop.pc = "over"
  /\ yield' = [caller |-> IF yield.caller = "wait" THEN "check" ELSE yield.caller,
               co |-> "ended", running |-> FALSE]
  /\ UNCHANGED <<loop, stream>>

\* The next test function, or the end of the test: the destructor gives up
\* the work and joins the thread.
NextYield ==
  /\ yield.caller = "returned" /\ yield' = [yield EXCEPT !.caller = "idle"]
  /\ \E sc \in Scripts : loop' = [loop EXCEPT !.script = sc, !.pc = "none"]
  /\ UNCHANGED stream

Destroy ==
  /\ yield.caller = "returned" /\ yield.co = "ended"
  /\ yield' = [yield EXCEPT !.caller = "destroyed"] /\ UNCHANGED <<loop, stream>>

-----------------------------------------------------------------------------
Op == loop.script[loop.k + 1]

\* Reads have room for so many octets; writes are discarded, teardown has no
\* effect here.
ReadOp == Op.what = "read"

Octets == Min({Op.room, Len(stream.s)})

\* The operation has come to an end, or its completion is posted: with no
\* error, the counter's or eof.
Ends(ec) ==
  loop' = [loop EXCEPT
    !.k = @ + 1, !.pc = IF Op.form = "async" THEN "posted" ELSE "next",
    !.first = IF @ = 0 /\ ec = "fail_error" THEN loop.k + 1 ELSE @,
    !.eof = @ \/ ec = "eof",
    !.late = IF ec # "fail_error" /\ loop.first # 0 THEN @ \cup {loop.k + 1} ELSE @]

\* fail_stream: the counter decides before the next layer is asked.
OpFails ==
  /\ yield.co = "runs" /\ loop.pc = "op" /\ fail(stream.n) = 0
  /\ stream' = [stream EXCEPT !.n = fail(stream.n)] /\ Ends("fail_error") /\ UNCHANGED yield

\* The next layer's octets are out of the string when the call returns, also
\* if the completion is still to come.
OpReads ==
  /\ yield.co = "runs" /\ loop.pc = "op" /\ fail(stream.n) # 0 /\ ReadOp /\ Octets > 0
  /\ stream' = [n |-> fail(stream.n), s |-> SubSeq(stream.s, Octets + 1, Len(stream.s)),
                got |-> stream.got \o SubSeq(stream.s, 1, Octets)]
  /\ Ends("ok") /\ UNCHANGED yield

\* A read that gets nothing is an error, also for want of room.
OpEof ==
  /\ yield.co = "runs" /\ loop.pc = "op" /\ fail(stream.n) # 0 /\ ReadOp /\ Octets = 0
  /\ stream' = [stream EXCEPT !.n = fail(stream.n)] /\ Ends("eof") /\ UNCHANGED yield

OpPasses ==
  /\ yield.co = "runs" /\ loop.pc = "op" /\ fail(stream.n) # 0 /\ ~ReadOp
  /\ stream' = [stream EXCEPT !.n = fail(stream.n)] /\ Ends("ok") /\ UNCHANGED yield

\* The io_service invokes the posted handler.
Completes ==
  /\ yield.co = "runs" /\ loop.pc = "posted" /\ loop' = [loop EXCEPT !.pc = "next"]
  /\ UNCHANGED <<stream, yield>>

\* The code under test goes on to its next operation; after an error it may,
\* to close the connection, or gives up.
GoesOn ==
  /\ loop.pc = "next" /\ loop.k < Len(loop.script)
  /\ loop' = [loop EXCEPT !.pc = "op"] /\ UNCHANGED <<stream, yield>>

\* if(! ec) break;
RoundSucceeds ==
  /\ loop.pc = "next" /\ loop.k = Len(loop.script) /\ loop.first = 0 /\ ~loop.eof
  /\ loop' = [loop EXCEPT !.pc = "over"] /\ UNCHANGED <<stream, yield>>

NextRound ==
  /\ loop.pc = "next" /\ (loop.first # 0 \/ loop.eof)
  /\ loop' = [loop EXCEPT !.n = @ + 1, !.k = 0, !.first = 0, !.eof = FALSE,
                          !.hit = @ \cup ({loop.first} \ {0}),
                          !.pc = IF loop.n + 1 < Limit THEN "op" ELSE "over"]
  /\ stream' = NewStream(loop.n + 1) /\ UNCHANGED yield

StreamsNext ==
  \/ YieldTo \/ CheckRunning \/ WakesSpuriously \/ Enter \/ Leave \/ NextYield \/ Destroy
  \/ OpFails \/ OpReads \/ OpEof \/ OpPasses \/ Completes \/ GoesOn \/ RoundSucceeds \/ NextRound

StreamsSpec == StreamsInit /\ [][StreamsNext]_tsvars

-----------------------------------------------------------------------------
\* The operation a counter made with n fails on: the Nth, says the comment of
\* the class, the one with the 0-based index n, that of its constructor.
Nth(n) == n
Indexed(n) == n + 1

\* What the string has left after k operations of a script, without a fault.
LeftAfter(sc) ==
  LET left[k \in 0 .. Len(sc)] ==
        IF k = 0 THEN Len(Text)
        ELSE left[k - 1] - IF sc[k].what = "read" THEN Min({sc[k].room, left[k - 1]}) ELSE 0
  IN  left

\* The reads of a script that get nothing.
Starved(sc) ==
  {k \in DOMAIN sc : sc[k].what = "read" /\ (sc[k].room = 0 \/ LeftAfter(sc)[k - 1] = 0)}

\* The loop of a stream test fails in turn on every operation of the code
\* under test, up to the first read that gets nothing, and then on all that
\* follow in the round; no failure loses or repeats an octet of the string.
\* If every read gets something the loop ends with a round without an error,
\* after one round more than there are operations, for rounds 0 and 1 both
\* fail on the first: n = 0 is an index, any other n is not.  If a read gets
\* nothing every round has an error, and the loop runs into its limit.
FaultsAreSwept ==
  /\ stream.got \o stream.s = Text /\ loop.late = {}
  /\ loop.pc \in {"next", "posted"} /\ loop.first # 0 =>
       loop.first = IF loop.n = 0 THEN Indexed(loop.n) ELSE Nth(loop.n)
  /\ loop.pc = "over" =>
       LET short == Starved(loop.script)
       IN  /\ {k \in DOMAIN loop.script : \A j \in short : k <= j} \subseteq loop.hit
           /\ loop.n = IF short = {} THEN Len(loop.script) + 1 ELSE Limit

\* yield_to returns when the function has, and not before: its caller waits
\* only while the coroutine is still to end, and once it has returned nothing
\* of the function is left in the io_service.
YieldWaits ==
  /\ yield.caller = "wait" => yield.running /\ yield.co # "ended"
  /\ yield.caller \in {"returned", "destroyed"} => yield.co = "ended" /\ loop.pc = "over"

\* A test with injected faults in a coroutine covers all of them.
SweepIsWhole == FaultsAreSwept /\ YieldWaits

=============================================================================
