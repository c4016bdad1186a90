------------------------------ MODULE UnitTest ------------------------------
(***************************************************************************)
(* The test framework: a runner runs the suites a selector picks, one      *)
(* after the other, and counts the conditions they check, as a reporter    *)
(* and as a recorder.  The body of a suite opens test cases, checks        *)
(* conditions, starts threads and joins them; a failed condition or an     *)
(* exception may end it.  A call of a runner is one step, it holds the     *)
(* mutex; a check in a suite is three: the look at the abort flags, the    *)
(* call of the runner, and the abort.                                      *)
(***************************************************************************)
EXTENDS Integers, Sequences, FiniteSetsExt

CONSTANTS Suites,     \* the suites, in order: name, module, library, manual
          Patterns,   \* what --suites may ask for
          Threads,    \* threads a body may start
          MaxSteps    \* bound on the steps of the bodies

ASSUME TestsAssumption ==
  /\ Len(Suites) \in Nat /\ DOMAIN Suites = 1 .. Len(Suites)
  /\ \A i \in DOMAIN Suites : Suites[i].manual \in BOOLEAN
  /\ IsFiniteSet(Threads) /\ "main" \notin Threads
  /\ MaxSteps \in Nat

VARIABLES sel,      \* the selector, the place in the list of suites, the verdict
          run,      \* the runner and the reporter's counts
          rec,      \* the results of a recorder
          flags,    \* abort_ and aborted_ of the suite
          actor,    \* where the body and each thread are
          truth     \* what was checked, by a count of its own

tvars == <<sel, run, rec, flags, actor, truth>>

Main == "main"
Actors == {Main} \cup Threads

Zero == [total |-> 0, failed |-> 0]

-----------------------------------------------------------------------------
(* selector *)

\* A selector that is given no pattern, and one without a library.
NoPattern == ""

\* Whether a suite is picked, and the mode of the selector afterwards.
Automatch(s, pat) ==
  IF pat \in {s.name, s.full} THEN [mode |-> "none", pick |-> TRUE]
  ELSE IF pat = s.module THEN [mode |-> "module", pick |-> ~s.manual]
  ELSE IF pat = s.library THEN [mode |-> "library", pick |-> ~s.manual]
  ELSE [mode |-> "automatch", pick |-> FALSE]

\* "each" is run_each, which has no predicate.
Select(s, mode, pat) ==
  CASE mode = "automatch" -> Automatch(s, pat)
    [] mode = "suite" -> [mode |-> mode, pick |-> pat = s.name]
    [] mode = "all" -> [mode |-> mode, pick |-> ~s.manual]
    [] mode = "module" -> [mode |-> mode, pick |-> pat = s.module /\ ~s.manual]
    [] mode = "library" -> [mode |-> mode, pick |-> pat = s.library /\ ~s.manual]
    [] mode = "none" -> [mode |-> mode, pick |-> FALSE]
    [] mode = "each" -> [mode |-> mode, pick |-> TRUE]

\* library_ after a suite: set where automatch finds the module, read nowhere.
LibraryAfter(s, mode, pat, library) ==
  IF mode = "automatch" /\ Automatch(s, pat).mode = "module" THEN s.library ELSE library

-----------------------------------------------------------------------------
(* runner and reporter *)

AddCase(c, r) == [cases |-> c.cases + 1, total |-> c.total + r.total, failed |-> c.failed + r.failed]

on_case_end(r) == [r EXCEPT !.suite = AddCase(@, r.case)]

on_suite_end(r) ==
  [r EXCEPT !.all = [suites |-> @.suites + 1, cases |-> @.cases + r.suite.cases,
                     total |-> @.total + r.suite.total, failed |-> @.failed + r.suite.failed]]

\* Fault: the case that ends is not added.
TestcaseForgets(r) == [r EXCEPT !.def = FALSE, !.cond = FALSE, !.case = Zero]

testcase(r) ==
  [(IF r.def THEN r ELSE on_case_end(r)) EXCEPT !.def = FALSE, !.cond = FALSE, !.case = Zero]

\* The default case is opened by the first condition or line of a log.
Opened(r) == IF r.def THEN testcase(r) ELSE r

runner_pass(r) == [Opened(r) EXCEPT !.case.total = @ + 1, !.cond = TRUE]

runner_fail(r) ==
  [Opened(r) EXCEPT !.case.total = @ + 1, !.case.failed = @ + 1, !.cond = TRUE, !.failed = TRUE]

runner_log(r) == Opened(r)

\* The recorder.  held counts the conditions its containers hold; insert adds
\* the total of a case that has been moved from, which is empty by then.
NoResults == [cases |-> 0, held |-> 0, total |-> 0, failed |-> 0]

MovedTotal == 0

rec_case_end(c) ==
  IF c.case.total = 0 THEN c
  ELSE [c EXCEPT !.case.total = 0,
                 !.suite = [cases |-> @.cases + 1, held |-> @.held + c.case.total,
                            total |-> @.total + MovedTotal, failed |-> @.failed + c.case.failed]]

rec_suite_end(c) ==
  [c EXCEPT !.all = [f \in DOMAIN @ |-> @[f] + c.suite[f]], !.suite = NoResults]

\* testcase() as the recorder hears it from a runner r.
rec_testcase(c, r) == [(IF r.def THEN c ELSE rec_case_end(c)) EXCEPT !.case = Zero]

rec_opened(c, r) == IF r.def THEN rec_testcase(c, r) ELSE c

rec_pass(c, r) == [rec_opened(c, r) EXCEPT !.case.total = @ + 1]

rec_fail(c, r) == [rec_opened(c, r) EXCEPT !.case.total = @ + 1, !.case.failed = @ + 1]

-----------------------------------------------------------------------------
Alive == run.dead = "no"

TestsInit ==
  /\ \E asked \in {<<"each", NoPattern>>, <<"all", NoPattern>>} \cup ({"automatch", "suite", "library"} \X Patterns) :
       sel = [i |-> 1, asked |-> asked[1], pat |-> asked[2], mode |-> asked[1],
              library |-> NoPattern, ran |-> {}, failed |-> FALSE, steps |-> 0]
  /\ rec = [case |-> Zero, suite |-> NoResults, all |-> NoResults]
  /\ run = [def |-> FALSE, failed |-> FALSE, cond |-> FALSE, case |-> Zero,
            suite |-> [cases |-> 0, total |-> 0, failed |-> 0],
            all |-> [suites |-> 0, cases |-> 0, total |-> 0, failed |-> 0], dead |-> "no"]
  /\ flags = [abort |-> FALSE, aborted |-> FALSE]
  /\ actor = [a \in Actors |-> "idle"]
  /\ truth = [total |-> 0, failed |-> 0, silent |-> FALSE, late |-> 0]

Is(a, pc) == Alive /\ actor[a] = pc

Goes(a, pc) == actor' = [actor EXCEPT ![a] = pc]

\* A step of a body; a suite has only so many.
Acts(a, pc) ==
  /\ Is(a, "body") /\ sel.steps < MaxSteps
  /\ Goes(a, pc) /\ sel' = [sel EXCEPT !.steps = @ + 1]

Dies(how) == run' = [run EXCEPT !.dead = how] /\ UNCHANGED <<sel, rec, flags, actor, truth>>

\* A thread that was started and not joined: its destructor terminates.
Unjoined == \E t \in Threads : actor[t] \notin {"idle", "joined"}

\* The body of the suite is left by an exception.
Unwinds ==
  IF Unjoined THEN Dies("terminate")
  ELSE Goes(Main, "over") /\ UNCHANGED <<sel, run, rec, flags>>

NextSuite ==
  /\ Alive /\ actor[Main] = "idle" /\ sel.i <= Len(Suites)
  /\ LET s == Select(Suites[sel.i], sel.mode, sel.pat)
         lib == LibraryAfter(Suites[sel.i], sel.mode, sel.pat, sel.library)
     IN  IF s.pick
         THEN /\ sel' = [sel EXCEPT !.mode = s.mode, !.library = lib, !.ran = @ \cup {sel.i}]
              /\ run' = [run EXCEPT !.def = TRUE, !.failed = FALSE,
                                    !.suite = [cases |-> 0, total |-> 0, failed |-> 0]]
              /\ rec' = [rec EXCEPT !.suite = NoResults]
              /\ flags' = [abort |-> FALSE, aborted |-> FALSE]
              /\ actor' = [actor EXCEPT ![Main] = "body"]
         ELSE /\ sel' = [sel EXCEPT !.mode = s.mode, !.library = lib, !.i = @ + 1]
              /\ UNCHANGED <<run, rec, flags, actor>>
  /\ truth' = [truth EXCEPT !.late = 0]

\* testcase("name", abort), by the body.  The assertion finds a case that
\* has not checked anything.
Testcase(abort) ==
  /\ Acts(Main, "body")
  /\ IF run.def \/ run.cond
     THEN run' = testcase(run) /\ rec' = rec_testcase(rec, run)
     ELSE run' = [run EXCEPT !.dead = "assert"] /\ UNCHANGED rec
  /\ flags' = [flags EXCEPT !.abort = abort]
  /\ truth' = [truth EXCEPT !.late = 0]

Log ==
  /\ Acts(Main, "body") /\ run' = runner_log(run) /\ rec' = rec_opened(rec, run)
  /\ UNCHANGED <<flags, truth>>

propagate_abort == flags.abort /\ flags.aborted

\* pass() and fail() first look at the flags.
Check(a, ok) ==
  /\ Acts(a, IF propagate_abort THEN "aborts" ELSE IF ok THEN "pass" ELSE "fail")
  /\ UNCHANGED <<run, rec, flags, truth>>

Counted(failed) ==
  truth' = [truth EXCEPT !.total = @ + 1, !.failed = @ + failed,
                         !.late = IF propagate_abort THEN @ + 1 ELSE @]

RecordPass(a) ==
  /\ Is(a, "pass") /\ run' = runner_pass(run) /\ rec' = rec_pass(rec, run) /\ Counted(0)
  /\ Goes(a, "body") /\ UNCHANGED <<sel, flags>>

RecordFail(a) ==
  /\ Is(a, "fail") /\ run' = runner_fail(run) /\ rec' = rec_fail(rec, run) /\ Counted(1)
  /\ Goes(a, "failed") /\ UNCHANGED <<sel, flags>>

\* The abort is thrown.
AfterFail(a) ==
  /\ Is(a, "failed")
  /\ flags' = [flags EXCEPT !.aborted = @ \/ flags.abort]
  /\ Goes(a, IF flags.abort THEN "aborts" ELSE "body") /\ UNCHANGED <<sel, run, rec, truth>>

\* The abort exception ends a thread, or the suite.
Abort(a) ==
  /\ Is(a, "aborts")
  /\ IF a = Main THEN Unwinds ELSE Goes(a, "over") /\ UNCHANGED <<sel, run, rec, flags>>
  /\ UNCHANGED truth

\* An exception out of the body: the runner counts it as a failure.
Throw ==
  /\ Is(Main, "body")
  /\ IF Unjoined THEN Dies("terminate")
     ELSE /\ run' = runner_fail(run) /\ rec' = rec_fail(rec, run) /\ Counted(1)
          /\ Goes(Main, "over") /\ UNCHANGED <<sel, flags>>

\* An exception out of a thread: fail() is called from its handler.
ThrowInThread(t) == Is(t, "body") /\ Goes(t, "catch") /\ UNCHANGED <<sel, run, rec, flags, truth>>

\* An abort that fail() throws there leaves the thread's function.
CatchInThread(t) ==
  /\ Is(t, "catch")
  /\ IF propagate_abort THEN Dies("terminate")
     ELSE /\ run' = [runner_fail(run) EXCEPT !.dead = IF flags.abort THEN "terminate" ELSE @]
          /\ rec' = rec_fail(rec, run) /\ Counted(1)
          /\ Goes(t, "over") /\ UNCHANGED <<sel, flags>>

Start(t) ==
  /\ Is(Main, "body") /\ actor[t] = "idle"
  /\ Goes(t, "body") /\ UNCHANGED <<sel, run, rec, flags, truth>>

ThreadReturns(t) == Is(t, "body") /\ Goes(t, "over") /\ UNCHANGED <<sel, run, rec, flags, truth>>

\* join(), and the abort of the thread reaches the body.
Join(t) ==
  /\ Is(Main, "body") /\ Is(t, "over")
  /\ actor' = [actor EXCEPT ![t] = "joined",
                            ![Main] = IF propagate_abort THEN "aborts" ELSE "body"]
  /\ UNCHANGED <<sel, run, rec, flags, truth>>

BodyReturns ==
  /\ Is(Main, "body") /\ ~Unjoined /\ Goes(Main, "over")
  /\ UNCHANGED <<sel, run, rec, flags, truth>>

\* The rest of runner::run.  A suite that checked nothing ends a case that
\* was never begun: the assertion only sees it if no suite has checked
\* anything before.
EndSuite ==
  /\ Is(Main, "over")
  /\ IF run.cond
     THEN /\ run' = on_suite_end(on_case_end(run)) /\ rec' = rec_suite_end(rec_case_end(rec))
          /\ sel' = [sel EXCEPT !.i = @ + 1, !.failed = @ \/ run.failed]
          /\ actor' = [a \in Actors |-> "idle"]
          /\ truth' = [truth EXCEPT !.silent = @ \/ run.def]
          /\ UNCHANGED flags
     ELSE Dies("assert")

TestsNext ==
  \/ NextSuite \/ Log \/ Throw \/ BodyReturns \/ EndSuite
  \/ \E abort \in BOOLEAN : Testcase(abort)
  \/ \E a \in Actors :
       \/ \E ok \in BOOLEAN : Check(a, ok)
       \/ RecordPass(a) \/ RecordFail(a) \/ AfterFail(a) \/ Abort(a)
  \/ \E t \in Threads :
       ThrowInThread(t) \/ CatchInThread(t) \/ Start(t) \/ ThreadReturns(t) \/ Join(t)

TestsSpec == TestsInit /\ [][TestsNext]_tvars

-----------------------------------------------------------------------------
\* results::total()
RecordedTotal == rec.all.total

\* Between two suites, the reporter has counted every condition once, however
\* the threads, the aborts and the exceptions of the suites went, and the
\* verdict is a failure exactly if one of them failed; the recorder holds the
\* same conditions and counts the same failures.  Two exceptions: with the
\* reporter a suite that checks nothing adds the last case of the suite before
\* it once more; and total() of the recorder's results is documented as their
\* number of conditions, but is 0 however many they hold.
TotalsAgree ==
  Alive /\ actor[Main] = "idle" =>
    /\ ~truth.silent => run.all.total = truth.total /\ run.all.failed = truth.failed
    /\ run.all.total >= truth.total
    /\ rec.all.held = truth.total /\ rec.all.failed = truth.failed
    /\ RecordedTotal = 0
    /\ sel.failed <=> truth.failed > 0

\* Once a condition has failed under abort_on_fail, no actor of the suite
\* gets more than one condition counted, the one it was about to report,
\* unless the body opens another case.
AbortStops == truth.late <= Cardinality(Threads)

\* The suites that have run when the list is through are the ones asked for.
\* Asked for by match_auto, they are the first one of that name, or all of the
\* module or of the library that matched first; a manual suite runs by its
\* name and, without a predicate, with all.  match_auto is documented to pick
\* a module of one library; the suites of a module of that name in another
\* library run as well.
SelectionIsAsked ==
  sel.i > Len(Suites) =>
    LET is == DOMAIN Suites
        named == {i \in is : sel.pat \in {Suites[i].name, Suites[i].full}}
        inModule == {i \in is : Suites[i].module = sel.pat}
        inLibrary == {i \in is : Suites[i].library = sel.pat}
        auto == {i \in is : ~Suites[i].manual}
        first == Min(named \cup inModule \cup inLibrary \cup {Len(Suites) + 1})
        ours == {i \in inModule : Suites[i].library = Suites[first].library}
        others == {i \in inModule : Suites[i].library # Suites[first].library}
    IN  sel.ran = CASE sel.asked = "each" -> is
                    [] sel.asked = "all" -> auto
                    [] sel.asked = "suite" -> {i \in is : Suites[i].name = sel.pat}
                    [] sel.asked = "library" -> inLibrary \cap auto
                    [] sel.asked = "automatch" ->
                         IF first \in named THEN {first}
                         ELSE IF first \in inModule THEN (ours \cup others) \cap auto
                         ELSE inLibrary \cap auto

\* The framework runs the suites asked for and counts right what they check.
TestsAreCounted == TotalsAgree /\ AbortStops /\ SelectionIsAsked

=============================================================================
