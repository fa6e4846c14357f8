------------------------------ MODULE TestVerify ------------------------------
(***************************************************************************)
(* `nephilex fix --verify-with-tests`: verify_fixes_with_tests             *)
(* (remediation/testverify.py).  In a temporary worktree of the scanned    *)
(* commit the tests run once without any fix; then the fixes are applied   *)
(* and the project is scanned again until no fix is refuted; then the      *)
(* tests run with the fixes that are left.                                 *)
(*                                                                         *)
(* A worktree is the set of what was added to the commit: fixes, and       *)
(* whatever a run of the tests left behind.                                *)
(***************************************************************************)
EXTENDS Naturals, FiniteSets

CONSTANTS
    Fixes,      \* the findings with a deterministic fix
    FileOf,     \* the file each fix changes
    Artifacts,  \* what a run of the tests leaves in its worktree
    NoWorktree  \* the worktree does not exist

ASSUME VerifyAssumption ==
    /\ Artifacts \notin Fixes
    /\ \A tree \in SUBSET (Fixes \cup {Artifacts}) : tree # NoWorktree

VARIABLES
    pc,          \* where the verification stands
    worktree,    \* what was added to the commit, or NoWorktree
    fixes,       \* VerificationReport.fixes, from the preview
    candidates,  \* the fixes nothing has refuted so far
    applied,     \* those the applier wrote in this round
    tests,       \* AppliedFix.tests of every fix; "none" before it is set
    error,       \* VerificationReport.error is set
    tested,      \* the fixes whose files are in VerificationReport.tested_files
    noted,       \* a note says that the worktree could not be removed
    ran          \* what the worktree held when the tests ran with the fixes

vars == <<pc, worktree, fixes, candidates, applied, tests, error, tested, noted, ran>>

Verdicts == {"passed", "failed", "not_verified"}

\* TestRun.status: the exit code, the timeout, or the command could not be started.
TestStatus == {"passed", "failed", "timeout", "error"}

VerdictOf(status) == IF status \in {"passed", "failed"} THEN status ELSE "not_verified"

Worktree == SUBSET (Fixes \cup {Artifacts})

Init ==
    /\ pc = "start"
    /\ worktree = NoWorktree
    /\ fixes = {} /\ candidates = {} /\ applied = {}
    /\ tests = [f \in Fixes |-> "none"]
    /\ error = FALSE
    /\ tested = {}
    /\ noted = FALSE
    /\ ran = NoWorktree

\* The verdicts after every fix of `some` got `verdict`.
Judged(some, verdict) == [f \in Fixes |-> IF f \in some THEN verdict ELSE tests[f]]

\* temporary_worktree, and the preview of the fixes that can be applied.
Preview ==
    /\ pc = "start"
    /\ worktree' = {}
    /\ fixes' \in SUBSET Fixes
    /\ pc' = IF fixes' = {} THEN "cleanup" ELSE "baseline"
    /\ UNCHANGED <<candidates, applied, tests, error, tested, noted, ran>>

Candidates == fixes

\* The tests pass on the commit; they may leave files behind.
BaselinePasses ==
    /\ pc = "baseline"
    /\ worktree' \in {worktree, worktree \cup {Artifacts}}
    /\ candidates' = Candidates
    /\ pc' = "reset"
    /\ UNCHANGED <<fixes, applied, tests, error, tested, noted, ran>>

\* They fail, time out or cannot be started: nothing can be judged.
BaselineFails ==
    /\ pc = "baseline"
    /\ worktree' \in {worktree, worktree \cup {Artifacts}}
    /\ tests' = Judged(fixes, "not_verified")
    /\ error' = TRUE
    /\ pc' = "cleanup"
    /\ UNCHANGED <<fixes, candidates, applied, tested, noted, ran>>

-----------------------------------------------------------------------------
(***************************************************************************)
(* One round of the loop: reset, apply, scan again.                        *)
(***************************************************************************)

\* Mutant: untracked files and the fixes of the last round stay.
KeptWorktree == worktree

\* git reset --hard and git clean -ffdx.
CleanWorktree == {}

Reset ==
    /\ pc = "reset"
    /\ candidates # {}
    /\ worktree' = CleanWorktree
    /\ pc' = "apply"
    /\ UNCHANGED <<fixes, candidates, applied, tests, error, tested, noted, ran>>

\* Some of the candidates may not apply: together with others a line is gone,
\* or the file would no longer parse.
Apply ==
    /\ pc = "apply"
    /\ applied' \in SUBSET candidates
    /\ worktree' = worktree \cup applied'
    /\ pc' = "rescan"
    /\ UNCHANGED <<fixes, candidates, tests, error, tested, noted, ran>>

\* Mutant: only the rescan refutes a fix, not that it did not apply.
RefutedByScan(still, files) == still \cup {f \in applied : FileOf[f] \in files}

\* _rescan_failures and the fixes that did not apply: the finding is still
\* reported, or its file has a new High finding.
Failures(still, files) ==
    still \cup {f \in applied : FileOf[f] \in files} \cup (candidates \ applied)

Remaining(failures) == candidates \ failures

Rescan ==
    /\ pc = "rescan"
    /\ \E still \in SUBSET applied, files \in SUBSET {FileOf[f] : f \in applied} :
         LET failures == Failures(still, files)
         IN  /\ tests' = Judged(failures, "failed")
             /\ candidates' = Remaining(failures)
             /\ pc' = IF failures # {} THEN "reset"
                      ELSE IF applied # {} THEN "test" ELSE "cleanup"
    /\ UNCHANGED <<worktree, fixes, applied, error, tested, noted, ran>>

\* Every candidate was refuted.
NothingLeft ==
    /\ pc = "reset"
    /\ candidates = {}
    /\ pc' = "cleanup"
    /\ UNCHANGED <<worktree, fixes, candidates, applied, tests, error, tested, noted, ran>>

\* A scan that fails proves nothing.
RescanFails ==
    /\ pc = "rescan"
    /\ tests' = Judged(candidates, "not_verified")
    /\ candidates' = {}
    /\ pc' = "cleanup"
    /\ UNCHANGED <<worktree, fixes, applied, error, tested, noted, ran>>

\* The tests run with the fixes applied together.
TestFixes ==
    /\ pc = "test"
    /\ ran' = worktree
    /\ worktree' \in {worktree, worktree \cup {Artifacts}}
    /\ \E status \in TestStatus :
         /\ tests' = Judged(applied, VerdictOf(status))
         /\ tested' = IF status = "passed" THEN applied ELSE {}
    /\ pc' = "cleanup"
    /\ UNCHANGED <<fixes, candidates, applied, error, noted>>

-----------------------------------------------------------------------------

Running == {"start", "baseline", "reset", "apply", "rescan", "test"}

\* The verdicts once a problem has ended the verification.
Unfinished == [f \in Fixes |-> IF f \in fixes /\ tests[f] = "none" THEN "not_verified" ELSE tests[f]]

\* A git command or file access fails: worktree and directory are removed on the
\* way out, the fixes without a verdict get one, and the report has an error.
Problem ==
    /\ pc \in Running
    /\ pc' = "reported"
    /\ worktree' \in IF worktree = NoWorktree THEN {NoWorktree} ELSE {NoWorktree, worktree}
    /\ noted' = (worktree' # NoWorktree)
    /\ tests' = Unfinished
    /\ error' = TRUE
    /\ UNCHANGED <<fixes, candidates, applied, tested, ran>>

\* Mutant: the worktree is kept when there is nothing to commit.
CleanupIfPassed ==
    /\ pc = "cleanup"
    /\ pc' = "reported"
    /\ worktree' = IF tested = {} THEN worktree ELSE NoWorktree
    /\ UNCHANGED <<fixes, candidates, applied, tests, error, tested, noted, ran>>

\* The worktree is removed and unregistered; what cannot be removed is noted.
Cleanup ==
    /\ pc = "cleanup"
    /\ pc' = "reported"
    /\ worktree' \in {NoWorktree, worktree}
    /\ noted' = (worktree' # NoWorktree)
    /\ UNCHANGED <<fixes, candidates, applied, tests, error, tested, ran>>

Next ==
    \/ Preview
    \/ BaselinePasses \/ BaselineFails
    \/ Reset \/ Apply \/ Rescan \/ NothingLeft \/ RescanFails
    \/ TestFixes
    \/ Problem \/ Cleanup

\* Every command has a timeout, so the verification keeps going.
Spec == Init /\ [][Next]_vars /\ WF_vars(Next)

-----------------------------------------------------------------------------
(***************************************************************************)
(* Properties.                                                             *)
(***************************************************************************)

Passed == {f \in Fixes : tests[f] = "passed"}

\* Type invariant; verdicts are given to previewed fixes alone.
TypeOK ==
    /\ pc \in Running \cup {"cleanup", "reported"}
    /\ worktree \in Worktree \cup {NoWorktree}
    /\ ran \in Worktree \cup {NoWorktree}
    /\ applied \subseteq fixes
    /\ candidates \subseteq fixes /\ fixes \subseteq Fixes /\ tested \subseteq Fixes
    /\ tests \in [Fixes -> Verdicts \cup {"none"}]
    /\ \A f \in Fixes : tests[f] # "none" => f \in fixes
    /\ error \in BOOLEAN /\ noted \in BOOLEAN

\* A fix passes only if the tests passed with exactly the passed fixes in the
\* worktree: none that was dropped, nothing an earlier run of the tests left.
\* tested_files, which the commit is compared with, names the same fixes.
PassedTogether ==
    Passed # {} => Passed = ran /\ tested = Passed

\* Every fix has a verdict when the report is returned, whatever went wrong.
EveryFixJudged == pc = "reported" => \A f \in fixes : tests[f] # "none"

\* A verdict is final: a fix dropped in one round does not come back.
VerdictsFinal == [][\A f \in Fixes : tests[f] # "none" => tests'[f] = tests[f]]_vars

\* "The worktree is removed at the end, also after an error or a timeout", or a
\* note says so.
WorktreeRemoved == pc = "reported" => worktree = NoWorktree \/ noted

===============================================================================
