--------------------------- MODULE TestVerifyProofs ---------------------------
(***************************************************************************)
(* Theorems about TestVerify, for any set of fixes.  The invariant Rounds  *)
(* says what holds at each point of the loop: what the worktree contains,  *)
(* and which fixes have a verdict.                                         *)
(***************************************************************************)
EXTENDS TestVerify, TLAPS

\* While the verification runs, no fix has passed and nothing counts as tested.
Undecided == tested = {} /\ \A f \in Fixes : tests[f] # "passed"

\* The candidates are the fixes without a verdict.
Open == candidates = {f \in fixes : tests[f] = "none"}

\* Nothing is left to judge.
Closed == \A f \in fixes : tests[f] # "none"

Rounds ==
    /\ TypeOK
    /\ pc \in {"start", "baseline"} =>
           candidates = {} /\ applied = {} /\ \A f \in Fixes : tests[f] = "none"
    /\ pc \in Running => Undecided
    /\ pc \in {"reset", "apply", "rescan", "test"} => Open
    /\ pc \in {"rescan", "test"} => applied \subseteq candidates /\ worktree = applied
    /\ pc \in {"baseline", "apply"} => worktree = {}
    /\ pc = "test" => applied = candidates
    /\ pc \in {"cleanup", "reported"} => Closed
    /\ PassedTogether

-----------------------------------------------------------------------------

LEMMA RoundsInit == Init => Rounds
BY DEF Init, Rounds, TypeOK, Running, Undecided, PassedTogether, Passed

LEMMA RoundsStep == Rounds /\ [Next]_vars => Rounds'
<1>. SUFFICES ASSUME Rounds, [Next]_vars
              PROVE  Rounds'
  OBVIOUS
<1>. USE DEF Rounds, TypeOK, Running, Worktree
<1>1. CASE Preview
  BY <1>1 DEF Preview, Undecided, Closed, PassedTogether, Passed
<1>2. CASE BaselinePasses
  BY <1>2 DEF BaselinePasses, Candidates, Undecided, Open, PassedTogether, Passed
<1>3. CASE BaselineFails
  BY <1>3 DEF BaselineFails, Judged, Verdicts, Undecided, Closed, PassedTogether, Passed
<1>4. CASE Reset
  BY <1>4 DEF Reset, CleanWorktree, Undecided, Open, PassedTogether, Passed
<1>5. CASE Apply
  BY <1>5 DEF Apply, Undecided, Open, PassedTogether, Passed
<1>6. CASE Rescan
  BY <1>6 DEF Rescan, Failures, Remaining, Judged, Verdicts, Undecided, Open, Closed, PassedTogether, Passed
<1>7. CASE NothingLeft
  BY <1>7 DEF NothingLeft, Undecided, Open, Closed, PassedTogether, Passed
<1>8. CASE RescanFails
  BY <1>8 DEF RescanFails, Judged, Verdicts, Undecided, Open, Closed, PassedTogether, Passed
<1>9. CASE TestFixes
  BY <1>9 DEF TestFixes, Judged, VerdictOf, TestStatus, Verdicts, Undecided, Open, Closed, PassedTogether, Passed
<1>10. CASE Problem
  BY <1>10 DEF Problem, Unfinished, Verdicts, Undecided, Closed, PassedTogether, Passed
<1>11. CASE Cleanup
  BY <1>11 DEF Cleanup, Closed, PassedTogether, Passed
<1>12. CASE UNCHANGED vars
  BY <1>12 DEF vars, Undecided, Open, Closed, PassedTogether, Passed
<1>. QED
  BY <1>1, <1>2, <1>3, <1>4, <1>5, <1>6, <1>7, <1>8, <1>9, <1>10, <1>11, <1>12 DEF Next

LEMMA RoundsAlways == Spec => []Rounds
BY RoundsInit, RoundsStep, PTL DEF Spec

-----------------------------------------------------------------------------

\* A fix passes only if the tests passed with exactly the passed fixes in the
\* worktree (the loop of verify_fixes_with_tests), for any number of fixes.
THEOREM PassTogether == Spec => []PassedTogether
<1>1. Rounds => PassedTogether
  BY DEF Rounds
<1>. QED
  BY <1>1, RoundsAlways, PTL

\* Every fix of a report has a verdict, after an error too.
THEOREM AllJudged == Spec => []EveryFixJudged
<1>1. Rounds => EveryFixJudged
  BY DEF Rounds, Closed, EveryFixJudged
<1>. QED
  BY <1>1, RoundsAlways, PTL

\* A verdict, once given, is not changed by a later round, the final test run or
\* an error (verify_fixes_with_tests).
THEOREM VerdictsStay == Spec => VerdictsFinal
<1>1. Rounds /\ [Next]_vars =>
        [\A f \in Fixes : tests[f] # "none" => tests'[f] = tests[f]]_vars
  <2>. SUFFICES ASSUME Rounds, Next, NEW f \in Fixes, tests[f] # "none"
                PROVE  tests'[f] = tests[f]
    BY DEF vars
  <2>. USE DEF Rounds, TypeOK
  <2>1. CASE BaselineFails
    BY <2>1 DEF BaselineFails
  <2>2. CASE Rescan
    BY <2>2 DEF Rescan, Failures, Judged, Open
  <2>3. CASE RescanFails
    BY <2>3 DEF RescanFails, Judged, Open
  <2>4. CASE TestFixes
    BY <2>4 DEF TestFixes, Judged, Open
  <2>5. CASE Problem
    BY <2>5 DEF Problem, Unfinished
  <2>. QED
    BY <2>1, <2>2, <2>3, <2>4, <2>5
    DEF Next, Preview, BaselinePasses, Reset, Apply, NothingLeft, Cleanup
<1>. QED
  BY <1>1, RoundsAlways, PTL DEF Spec, VerdictsFinal

\* WorktreeRemoved: the only ways to a report, the normal end and a git or file
\* error anywhere before it, go through the removal, and nothing adds to the
\* worktree afterwards (temporary_worktree and its finally clause).
THEOREM Removed == Spec => []WorktreeRemoved
<1>1. Init => WorktreeRemoved
  BY DEF Init, WorktreeRemoved
<1>2. Rounds /\ WorktreeRemoved /\ [Next]_vars => WorktreeRemoved'
  BY DEF Rounds, TypeOK, WorktreeRemoved, Next, vars, Running, Preview, BaselinePasses, BaselineFails,
         Reset, Apply, Rescan, NothingLeft, RescanFails, TestFixes, Problem, Cleanup
<1>. QED
  BY <1>1, <1>2, RoundsAlways, PTL DEF Spec
===============================================================================
