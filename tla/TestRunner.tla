----------------------------- MODULE TestRunner -----------------------------
(***************************************************************************)
(* The two test runners and their report: ETF (etf.c), whose suite is a    *)
(* function that calls ETF_test in front of each test body, and EDFTest    *)
(* (edf_test.c), an active object that subscribes to all signals and moves *)
(* to the next entry of its table when the trigger of the current one      *)
(* comes in. emf_test_report.c prints; here it appends to a report.        *)
(***************************************************************************)
EXTENDS Integers, Sequences, SequencesExt, FiniteSets

CONSTANTS
  Sig,        \* the signals that events have
  MaxTests,   \* bound: the tests of a suite
  MaxEvents,  \* bound: the events that wait for the test active object
  LineWidth,  \* LINE_WIDTH
  NameLen     \* the lengths of framework and suite names, with their blanks

ASSUME TestAssumption ==
  /\ LineWidth \in 0 .. 255 \* a uint8_t
  /\ NameLen \subseteq Nat /\ MaxTests \in Nat

VARIABLES
  runner,     \* "etf" or "edf"
  tests,      \* EDF: the table, of [skip, trigger]
  test_idx,   \* the tests begun (test_cnt of ETF), or done (EDF)
  skip_cnt, last_skipped,
  stimuli,    \* EDF: the signals that wait for the test active object
  phase,      \* "begin", "run", "passed", "failed" or "asserted"
  report,     \* what was printed
  fixtures,   \* ghost: the calls of setUp and tearDown
  outcome     \* ghost: what each test body came to

test_vars == <<runner, tests, test_idx, skip_cnt, last_skipped, stimuli, phase,
               report, fixtures, outcome>>

Tables == UNION {[1 .. n -> [skip : BOOLEAN, trigger : Sig]] : n \in 0 .. MaxTests}

TestInit ==
  /\ runner \in {"etf", "edf"}
  /\ tests \in IF runner = "edf" THEN Tables ELSE {<<>>}
  /\ test_idx = 0 /\ skip_cnt = 0 /\ last_skipped = FALSE /\ stimuli = <<>>
  /\ phase = "begin" /\ report = <<>> /\ fixtures = <<>> /\ outcome = <<>>

-----------------------------------------------------------------------------
(* emf_test_report.c. A line is known by its width: a text of this length  *)
(* with as many fill characters in front and behind as uint8_t holds.      *)
PrintRepeated(cnt) == cnt % 256
Centered(len) ==
  LET pad == PrintRepeated((LineWidth - len) \div 2)
  IN pad + len + PrintRepeated(LineWidth - pad - len)

Rule == <<"line", LineWidth>>
PrintHeader(framework, suite) ==
  CASE framework > LineWidth -> <<Rule>>
    [] framework <= LineWidth /\ suite > LineWidth ->
         <<Rule, <<"line", Centered(framework)>>, Rule>>
    [] framework <= LineWidth /\ suite <= LineWidth ->
         <<Rule, <<"line", Centered(framework)>>, Rule, <<"line", Centered(suite)>>>>
TestIntro(n) == <<<<"intro", n>>>>
TestResult(result) == <<<<result, 0>>>>
Summary(total, skipped, failed) == <<<<"summary", <<total, skipped, failed>>>>>>
Verdict(passed) == <<<<"verdict", passed>>>>

Prints(entries) == report' = report \o entries

(* Both mains begin with the header, whose names must fit the line: what   *)
(* goes before a name is printed when its assertion fails.                 *)
Begin(framework, suite) ==
  /\ phase = "begin"
  /\ Prints(PrintHeader(framework, suite))
  /\ phase' = IF framework <= LineWidth /\ suite <= LineWidth THEN "run" ELSE "asserted"

-----------------------------------------------------------------------------
(* ETF_test: the test that went before is over, and has passed.            *)
BugEtfCloses == IF test_idx > 0 THEN TestResult("passed") ELSE <<>>
EtfCloses ==
  IF last_skipped THEN TestResult("skipped")
  ELSE IF test_idx > 0 THEN TestResult("passed") ELSE <<>>

TearsDown == IF test_idx > 0 /\ ~last_skipped THEN <<"tearDown">> ELSE <<>>

EtfBegin(framework, suite) ==
  /\ runner = "etf" /\ Begin(framework, suite)
  /\ UNCHANGED <<runner, tests, test_idx, skip_cnt, last_skipped, stimuli, fixtures, outcome>>

EtfTest(execute) ==
  /\ runner = "etf" /\ phase = "run" /\ test_idx < MaxTests
  /\ Prints(EtfCloses \o TestIntro(test_idx + 1))
  /\ fixtures' = fixtures \o TearsDown \o (IF execute THEN <<"setUp">> ELSE <<>>)
  /\ test_idx' = test_idx + 1
  /\ skip_cnt' = skip_cnt + IF execute THEN 0 ELSE 1
  /\ last_skipped' = ~execute
  /\ outcome' = Append(outcome, IF execute THEN "passed" ELSE "skipped")
  /\ UNCHANGED <<runner, tests, stimuli, phase>>

(* ETF_fail, in the body of a test that is executed.                       *)
EtfFail ==
  /\ runner = "etf" /\ phase = "run" /\ test_idx > 0 /\ ~last_skipped
  /\ Prints(TestResult("failed") \o Summary(test_idx, skip_cnt, 1) \o Verdict(FALSE))
  /\ outcome' = [outcome EXCEPT ![test_idx] = "failed"] /\ phase' = "failed"
  /\ UNCHANGED <<runner, tests, test_idx, skip_cnt, last_skipped, stimuli, fixtures>>

(* The end of main. An empty suite is torn down and reported as passed.    *)
EtfEnd ==
  /\ runner = "etf" /\ phase = "run"
  /\ Prints(TestResult(IF last_skipped THEN "skipped" ELSE "passed")
              \o Summary(test_idx, skip_cnt, 0) \o Verdict(TRUE))
  /\ fixtures' = fixtures \o (IF last_skipped THEN <<>> ELSE <<"tearDown">>)
  /\ phase' = "passed"
  /\ UNCHANGED <<runner, tests, test_idx, skip_cnt, last_skipped, stimuli, outcome>>

-----------------------------------------------------------------------------
(* The first test from i on that is not skipped, or the end of the table.  *)
NextTest(i) ==
  CHOOSE k \in i .. Len(tests) :
    /\ \A j \in i + 1 .. k : tests[j].skip
    /\ k < Len(tests) => ~tests[k + 1].skip

(* The part of main and of waitForEvent that moves on to test k + 1: it    *)
(* reports those it skips, and begins that test or ends the suite, which   *)
(* exits the program.                                                      *)
MoveOn(from, before) ==
  LET k == NextTest(from)
      skipped == skip_cnt + (k - from)
  IN /\ test_idx' = k /\ skip_cnt' = skipped
     /\ Prints(before
          \o FlattenSeq([j \in 1 .. k - from |-> TestIntro(from + j) \o TestResult("skipped")])
          \o IF k < Len(tests) THEN TestIntro(k + 1)
             ELSE Summary(Len(tests), skipped, 0) \o Verdict(TRUE))
     /\ outcome' = outcome \o (IF before = <<>> THEN <<>> ELSE <<"passed">>)
                     \o [j \in 1 .. k - from |-> "skipped"]
     /\ phase' = IF k < Len(tests) THEN "run" ELSE "passed"
     /\ fixtures' = fixtures \o (IF before = <<>> THEN <<>> ELSE <<"tearDown">>)
                      \o (IF k < Len(tests) THEN <<"setUp">> ELSE <<>>)

EdfBegin(framework, suite) ==
  /\ runner = "edf" /\ Begin(framework, suite)
  /\ UNCHANGED <<runner, tests, test_idx, skip_cnt, last_skipped, stimuli, fixtures, outcome>>

(* main, behind EDFTestInit.                                               *)
EdfStart ==
  /\ runner = "edf" /\ phase = "run" /\ fixtures = <<>>
  /\ MoveOn(0, <<>>)
  /\ UNCHANGED <<runner, tests, last_skipped, stimuli>>

(* An event of the program under test, for which all signals are           *)
(* subscribed.                                                             *)
Stimulus(sig) ==
  /\ runner = "edf" /\ phase = "run" /\ fixtures # <<>> /\ Len(stimuli) < MaxEvents
  /\ stimuli' = Append(stimuli, sig)
  /\ UNCHANGED <<runner, tests, test_idx, skip_cnt, last_skipped, phase, report,
                 fixtures, outcome>>

(* waitForEvent: test_verify returns, or calls EDFTest_fail, which does    *)
(* not.                                                                    *)
Triggered == tests[test_idx + 1].trigger = Head(stimuli)
Taking == runner = "edf" /\ phase = "run" /\ stimuli # <<>> /\ stimuli' = Tail(stimuli)

TestPasses ==
  /\ Taking /\ Triggered /\ MoveOn(test_idx + 1, TestResult("passed"))
  /\ UNCHANGED <<runner, tests, last_skipped>>

TestFails ==
  /\ Taking /\ Triggered
  /\ Prints(TestResult("failed") \o Summary(test_idx + 1, skip_cnt, 1) \o Verdict(FALSE))
  /\ outcome' = Append(outcome, "failed") /\ phase' = "failed"
  /\ UNCHANGED <<runner, tests, test_idx, skip_cnt, last_skipped, fixtures>>

EventIgnored ==
  /\ Taking /\ ~Triggered
  /\ UNCHANGED <<runner, tests, test_idx, skip_cnt, last_skipped, phase, report,
                 fixtures, outcome>>

TestNext ==
  \/ \E framework, suite \in NameLen : EtfBegin(framework, suite) \/ EdfBegin(framework, suite)
  \/ \E execute \in BOOLEAN : EtfTest(execute)
  \/ EtfFail \/ EtfEnd
  \/ EdfStart \/ \E sig \in Sig : Stimulus(sig)
  \/ TestPasses \/ TestFails \/ EventIgnored

TestSpec == TestInit /\ [][TestNext]_test_vars

-----------------------------------------------------------------------------
Over == phase \in {"passed", "failed"}
Count(result) == Cardinality({k \in DOMAIN outcome : outcome[k] = result})
Total == IF runner = "edf" /\ phase = "passed" THEN Len(tests) ELSE Len(outcome)

(* When a suite is over its report is the header, the introduction and the *)
(* outcome of every test in turn, the counts and the verdict, whatever     *)
(* tests are skipped, at either end or all of them; a test that is         *)
(* executed is set up and, unless it fails, torn down once. The only       *)
(* exception is the ETF suite without a test: it reports one that passed.  *)
ReportSound == Over /\ (runner = "etf" => test_idx > 0) =>
  /\ report = <<Rule, Rule, Rule, Rule>>
       \o FlattenSeq([k \in DOMAIN outcome |-> TestIntro(k) \o TestResult(outcome[k])])
       \o Summary(Total, Count("skipped"), Count("failed")) \o Verdict(phase = "passed")
  /\ fixtures = FlattenSeq([k \in DOMAIN outcome |->
       CASE outcome[k] = "skipped" -> <<>>
         [] outcome[k] = "passed" -> <<"setUp", "tearDown">>
         [] outcome[k] = "failed" -> <<"setUp">>])
  /\ phase = "passed" <=> Count("failed") = 0
=============================================================================
