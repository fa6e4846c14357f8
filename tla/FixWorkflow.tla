----------------------------- MODULE FixWorkflow -----------------------------
(***************************************************************************)
(* `nephilex fix`: run_fix_workflow (remediation/pullrequest.py) with the  *)
(* applier and the git commands it runs in the operator's own checkout.    *)
(*                                                                         *)
(* The workflow takes minutes when it verifies with tests, and neither the *)
(* operator nor other Nephilex processes are locked out meanwhile: files   *)
(* may be edited and staged, records appended to the audit log.  Every git *)
(* command may fail, some after having done their work, and the process    *)
(* may die between any two steps and be started again.                     *)
(*                                                                         *)
(* The content of a file is the set of marks on it: who contributed to it. *)
(* The empty set is a file that does not exist.                            *)
(***************************************************************************)
EXTENDS Naturals, FiniteSets

CONSTANTS
    Files,       \* the tracked source files
    Findings,    \* those with a finding that has a deterministic fix
    Log,         \* .nephilex/audit.log
    NoTree,      \* the branch does not exist
    Situations,  \* the options of a run, and what is true of the log: see Options
    Careful,     \* the operator keeps off the files with findings, and off the
                 \* index, while the workflow runs
    MaxEdits,    \* bound: edits by the operator
    MaxAppends,  \* bound: appends to the log by other processes
    MaxRuns      \* bound: runs of the workflow, one after the other

\* FixOptions; the log is ignored by git; this process can read it; the scan
\* has just appended to it.
Options == [force: BOOLEAN, openPr: BOOLEAN, verify: BOOLEAN,
            ignored: BOOLEAN, readable: BOOLEAN, scanned: BOOLEAN]

ASSUME FixAssumption ==
    /\ Findings \subseteq Files
    /\ Log \notin Files
    /\ Files \cap {"committed", "scan", "other", "fix.pr_opened"} = {} \* see LogMarks
    /\ Situations \subseteq Options
    /\ Careful \in BOOLEAN
    /\ MaxEdits \in Nat /\ MaxAppends \in Nat /\ MaxRuns \in Nat

Paths == Files \cup {Log}

FileMarks == {"src", "stale", "fix", "edit", "torn"}

\* The records in the log; a fix.applied record is the name of the fixed file.
LogMarks == {"committed", "scan", "other", "fix.pr_opened"} \cup Findings

Tree == [Paths -> SUBSET (FileMarks \cup LogMarks)]

ASSUME NoTreeAssumption == NoTree \notin Tree

VARIABLES
    wt,        \* the working tree
    index,     \* the staging area
    head,      \* the branch that is checked out: "main" or "fix"
    tip,       \* the tree each branch points to
    remote,    \* the tree of the fix branch on the remote
    pr,        \* a pull request of the fix branch is open
    opts,      \* FixOptions, and what is true of the log: see Options
    pc,        \* where the workflow stands
    original,  \* the branch to return to
    existed,   \* the fix branch existed before
    tested,    \* the files that passed the tests and their content then
    todo,      \* files the applier has not looked at yet
    changed,   \* ApplyReport.changed_files
    snapshot,  \* _AuditSnapshot: the log as it was, the empty set if absent
    error,     \* FixOutcome.error is set
    committed, \* FixOutcome.committed
    rollback,  \* "none", "clean", "failed", or "skipped" by an early return
    unrestored, \* some run ended without putting the log back: killed, or an
                \* OSError that was swallowed
    edits, appends, runs  \* what happened so far, against the bounds

repoVars == <<index, head, tip>>
remoteVars == <<remote, pr>>
runVars == <<original, existed, tested, snapshot>>
outcomeVars == <<error, committed, rollback>>
envVars == <<unrestored, edits, appends, runs>>
vars == <<wt, repoVars, remoteVars, opts, pc, runVars, todo, changed, outcomeVars, envVars>>

Labels == {"start", "resolve", "testing", "snapshot", "branch", "apply", "stage", "commit",
           "committed", "pushed", "opened", "failed", "checkout", "delete", "restore",
           "done", "crashed"}

NoneTested == [f \in {} |-> {}]

BaseTree(log) == [p \in Paths |-> IF p = Log THEN log ELSE {"src"}]
StaleTree(log) == [p \in Paths |-> IF p = Log THEN log ELSE {"src", "stale"}]

-----------------------------------------------------------------------------

\* A clean checkout of main; the log is tracked, untracked or ignored, and the
\* scan that found the findings may have just appended to it.
Init ==
    /\ opts \in Situations
    /\ \E inMain \in {{}, {"committed"}} :
         /\ opts.ignored => inMain = {}
         /\ ~opts.readable => opts.scanned
         /\ index = BaseTree(inMain)
         /\ wt = [index EXCEPT ![Log] = IF opts.scanned THEN @ \cup {"scan"} ELSE @]
         /\ \E fixTip \in {NoTree, StaleTree(inMain)} : tip = [main |-> index, fix |-> fixTip]
    /\ head = "main"
    /\ remote = NoTree
    /\ pr = FALSE
    /\ pc = "start"
    /\ original = "main"
    /\ existed = FALSE
    /\ tested = NoneTested
    /\ todo = {}
    /\ changed = {}
    /\ snapshot = {}
    /\ error = FALSE
    /\ committed = FALSE
    /\ rollback = "none"
    /\ unrestored = FALSE
    /\ edits = 0 /\ appends = 0 /\ runs = 1

-----------------------------------------------------------------------------
(***************************************************************************)
(* Git.                                                                    *)
(***************************************************************************)

HeadTree == tip[head]

\* Mutant: staged changes are not looked at.
UnstagedOnly == \E f \in Files : wt[f] # index[f]

\* `git status --porcelain` has output, the audit log left aside.
Dirty == \E f \in Files : wt[f] # HeadTree[f] \/ index[f] # HeadTree[f]

\* Switching branches keeps local changes of paths the two trees agree on, and
\* is refused when it would overwrite others.
CanCheckout(target) ==
    \A p \in Paths : HeadTree[p] # target[p] => wt[p] = HeadTree[p] /\ index[p] = HeadTree[p]

Switched(tree, target) == [p \in Paths |-> IF HeadTree[p] # target[p] THEN target[p] ELSE tree[p]]

\* Mutant: the reset keeps the working tree (git reset --mixed).
MixedReset == wt

\* `git reset --hard` leaves untracked files alone.
HardReset == [p \in Paths |-> IF index[p] # {} \/ HeadTree[p] # {} THEN HeadTree[p] ELSE wt[p]]

-----------------------------------------------------------------------------
(***************************************************************************)
(* Before the repository is touched.                                       *)
(***************************************************************************)

CheckClean ==
    /\ pc = "start"
    /\ ~Dirty
    /\ pc' = "resolve"
    /\ UNCHANGED <<wt, repoVars, remoteVars, opts, runVars, todo, changed, outcomeVars, envVars>>

\* HEAD is at the base, and the branch is new or may be overwritten.
Resolve ==
    /\ pc = "resolve"
    /\ HeadTree = tip["main"]
    /\ tip["fix"] # NoTree => opts.force
    /\ original' = head
    /\ existed' = (tip["fix"] # NoTree)
    /\ todo' = Findings
    /\ pc' = IF opts.verify THEN "testing" ELSE "snapshot"
    /\ UNCHANGED <<wt, repoVars, remoteVars, opts, tested, snapshot, changed, outcomeVars, envVars>>

\* The tests ran on the commit, in a worktree of its own; some fixes passed.
TestsPass ==
    /\ pc = "testing"
    /\ \E passed \in SUBSET Findings \ {{}} :
         /\ todo' = passed
         /\ tested' = [f \in passed |-> HeadTree[f] \cup {"fix"}]
    /\ pc' = "snapshot"
    /\ UNCHANGED <<wt, repoVars, remoteVars, opts, original, existed, snapshot, changed,
                   outcomeVars, envVars>>

\* Dirty tree, wrong base, branch in the way, git failing, verification with an
\* error, or (no error) no fix that passed: return before anything is changed.
StopEarly ==
    /\ pc \in {"start", "resolve", "testing"}
    /\ pc' = "done"
    /\ error' \in IF pc = "testing" THEN BOOLEAN ELSE {TRUE}
    /\ UNCHANGED <<wt, repoVars, remoteVars, opts, runVars, todo, changed, committed, rollback, envVars>>

\* _snapshot_audit_log: a log that cannot be read counts as absent.
TakeSnapshot ==
    /\ pc = "snapshot"
    /\ snapshot' = IF opts.readable THEN wt[Log] ELSE {}
    /\ pc' = "branch"
    /\ UNCHANGED <<wt, repoVars, remoteVars, opts, original, existed, tested, todo, changed,
                   outcomeVars, envVars>>

-----------------------------------------------------------------------------
(***************************************************************************)
(* On the fix branch.                                                      *)
(***************************************************************************)

SwitchToFix ==
    /\ CanCheckout(tip["main"])
    /\ wt' = Switched(wt, tip["main"])
    /\ index' = Switched(index, tip["main"])
    /\ tip' = [tip EXCEPT !["fix"] = tip["main"]]
    /\ head' = "fix"

CreateBranch ==
    /\ pc = "branch"
    /\ SwitchToFix
    /\ pc' = "apply"
    /\ UNCHANGED <<remoteVars, opts, runVars, todo, changed, outcomeVars, envVars>>

\* The command fails, perhaps (a post-checkout hook, a timeout) after it has
\* switched; the workflow returns without rolling anything back.
CreateBranchFails ==
    /\ pc = "branch"
    /\ SwitchToFix \/ UNCHANGED <<wt, repoVars>>
    /\ error' = TRUE
    /\ rollback' = "skipped"
    /\ pc' = "done"
    /\ UNCHANGED <<remoteVars, opts, runVars, todo, changed, committed, envVars>>

\* apply_fixes, one file: it is read, its lines rewritten, and written back.
ApplyFix(f) ==
    /\ pc = "apply"
    /\ f \in todo
    /\ wt' = [wt EXCEPT ![f] = @ \cup {"fix"}]
    /\ todo' = todo \ {f}
    /\ changed' = changed \cup {f}
    /\ UNCHANGED <<repoVars, remoteVars, opts, pc, runVars, outcomeVars, envVars>>

\* Unreadable, no longer fixable, or rejected by the syntax guard.
SkipFile(f) ==
    /\ pc = "apply"
    /\ f \in todo
    /\ todo' = todo \ {f}
    /\ UNCHANGED <<wt, repoVars, remoteVars, opts, pc, runVars, changed, outcomeVars, envVars>>

\* Writing the file raises, before or after truncating it.
WriteFails(f) ==
    /\ pc = "apply"
    /\ f \in todo
    /\ wt' \in {wt, [wt EXCEPT ![f] = {"torn"}]}
    /\ error' = TRUE
    /\ pc' = "failed"
    /\ UNCHANGED <<repoVars, remoteVars, opts, runVars, todo, changed, committed, rollback, envVars>>

\* _match_tested_fixes.
MatchesTests == changed = DOMAIN tested /\ \A f \in changed : wt[f] = tested[f]

\* record_fix_events appends to the log or, with a warning, does not.
Recorded(marks) ==
    \/ opts.readable /\ wt' = [wt EXCEPT ![Log] = @ \cup marks]
    \/ UNCHANGED wt

FinishApply ==
    /\ pc = "apply"
    /\ todo = {}
    /\ opts.verify => MatchesTests
    /\ Recorded(changed)
    /\ pc' = IF changed = {} THEN "checkout" ELSE "stage"
    /\ UNCHANGED <<repoVars, remoteVars, opts, runVars, todo, changed, outcomeVars, envVars>>

\* Mutant: the tests are run again on the changed files.
TestAgain ==
    /\ pc = "apply"
    /\ todo = {}
    /\ opts.verify /\ ~MatchesTests
    /\ pc' = "testing"
    /\ UNCHANGED <<wt, repoVars, remoteVars, opts, runVars, todo, changed, outcomeVars, envVars>>

NotAsTested ==
    /\ pc = "apply"
    /\ todo = {}
    /\ opts.verify /\ ~MatchesTests
    /\ error' = TRUE
    /\ pc' = "failed"
    /\ UNCHANGED <<wt, repoVars, remoteVars, opts, runVars, todo, changed, committed, rollback, envVars>>

\* Mutant: git add -A.
StageEverything(withLog) == Paths

\* The rewritten files, and the log if check-ignore clearly says it is not ignored.
ToStage(withLog) == IF withLog THEN changed \cup {Log} ELSE changed

Stage ==
    /\ pc = "stage"
    /\ \E withLog \in BOOLEAN :
         /\ withLog => wt[Log] # {} /\ ~opts.ignored
         /\ withLog /\ index[Log] # wt[Log] => opts.readable
         /\ index' = [p \in Paths |-> IF p \in ToStage(withLog) THEN wt[p] ELSE index[p]]
    /\ pc' = "commit"
    /\ UNCHANGED <<wt, head, tip, remoteVars, opts, runVars, todo, changed, outcomeVars, envVars>>

\* `git commit` commits the whole index.
CommitIndex ==
    /\ index # HeadTree
    /\ tip' = [tip EXCEPT ![head] = index]

Commit ==
    /\ pc = "commit"
    /\ CommitIndex
    /\ committed' = TRUE
    /\ pc' = "committed"
    /\ UNCHANGED <<wt, index, head, remoteVars, opts, runVars, todo, changed, error, rollback, envVars>>

\* git add or git commit (a hook, a lock, a timeout) fails, or reading the new
\* commit's id does, when the commit is there already.
StageOrCommitFails ==
    /\ pc \in {"stage", "commit"}
    /\ \/ UNCHANGED tip
       \/ pc = "commit" /\ CommitIndex
    /\ error' = TRUE
    /\ pc' = "failed"
    /\ UNCHANGED <<wt, index, head, remoteVars, opts, runVars, todo, changed, committed, rollback, envVars>>

-----------------------------------------------------------------------------
(***************************************************************************)
(* Push and pull request.                                                  *)
(***************************************************************************)

Push ==
    /\ pc = "committed"
    /\ opts.openPr
    /\ remote' = tip["fix"]
    /\ pc' = "pushed"
    /\ UNCHANGED <<wt, repoVars, pr, opts, runVars, todo, changed, outcomeVars, envVars>>

\* No pull request wanted, no usable remote, or the push fails (it may have
\* arrived all the same).
NoPush ==
    /\ pc = "committed"
    /\ \/ UNCHANGED remote
       \/ opts.openPr /\ remote' = tip["fix"]
    /\ error' = opts.openPr
    /\ pc' = "done"
    /\ UNCHANGED <<wt, repoVars, pr, opts, runVars, todo, changed, committed, rollback, envVars>>

OpenPullRequest ==
    /\ pc = "pushed"
    /\ pr' = TRUE
    /\ pc' = "opened"
    /\ UNCHANGED <<wt, repoVars, remote, opts, runVars, todo, changed, outcomeVars, envVars>>

OpenPullRequestFails ==
    /\ pc = "pushed"
    /\ pr' \in {pr, TRUE}
    /\ error' = TRUE
    /\ pc' = "done"
    /\ UNCHANGED <<wt, repoVars, remote, opts, runVars, todo, changed, committed, rollback, envVars>>

RecordPullRequest ==
    /\ pc = "opened"
    /\ Recorded({"fix.pr_opened"})
    /\ pc' = "done"
    /\ UNCHANGED <<repoVars, remoteVars, opts, runVars, todo, changed, outcomeVars, envVars>>

-----------------------------------------------------------------------------
(***************************************************************************)
(* _rollback and _restore_audit_log.  The first git command that fails     *)
(* ends the rollback; after an error the log is put back in any case.      *)
(***************************************************************************)

AfterRollback == IF error THEN "restore" ELSE "done"

Reset ==
    /\ pc = "failed"
    /\ wt' = HardReset
    /\ index' = HeadTree
    /\ pc' = "checkout"
    /\ UNCHANGED <<head, tip, remoteVars, opts, runVars, todo, changed, outcomeVars, envVars>>

Checkout ==
    /\ pc = "checkout"
    /\ CanCheckout(tip[original])
    /\ wt' = Switched(wt, tip[original])
    /\ index' = Switched(index, tip[original])
    /\ head' = original
    /\ rollback' = "clean"
    /\ pc' = IF existed THEN AfterRollback ELSE "delete"
    /\ UNCHANGED <<tip, remoteVars, opts, runVars, todo, changed, error, committed, envVars>>

DeleteBranch ==
    /\ pc = "delete"
    /\ head # "fix"
    /\ tip' = [tip EXCEPT !["fix"] = NoTree]
    /\ pc' = AfterRollback
    /\ UNCHANGED <<wt, index, head, remoteVars, opts, runVars, todo, changed, outcomeVars, envVars>>

RollbackFails ==
    /\ pc \in {"failed", "checkout", "delete"}
    /\ rollback' = "failed"
    /\ pc' = AfterRollback
    /\ UNCHANGED <<wt, repoVars, remoteVars, opts, runVars, todo, changed, error, committed, envVars>>

\* Mutant: the log is left as the reset left it.
KeepLog == wt[Log]

RestoredLog == snapshot

Restore ==
    /\ pc = "restore"
    /\ wt' = [wt EXCEPT ![Log] = RestoredLog]
    /\ pc' = "done"
    /\ UNCHANGED <<repoVars, remoteVars, opts, runVars, todo, changed, outcomeVars, envVars>>

\* An OSError while restoring is swallowed.
RestoreFails ==
    /\ pc = "restore"
    /\ rollback' = "failed"
    /\ unrestored' = TRUE
    /\ pc' = "done"
    /\ UNCHANGED <<wt, repoVars, remoteVars, opts, runVars, todo, changed, error, committed,
                   edits, appends, runs>>

-----------------------------------------------------------------------------
(***************************************************************************)
(* The process and everybody else.                                         *)
(***************************************************************************)

Idle == pc \in {"start", "done", "crashed"}

\* The process is killed, or a KeyboardInterrupt passes the except clauses.
Crash ==
    /\ ~Idle
    /\ pc' = "crashed"
    /\ unrestored' = TRUE
    /\ UNCHANGED <<wt, repoVars, remoteVars, opts, runVars, todo, changed, outcomeVars,
                   edits, appends, runs>>

\* The workflow is started again.
Rerun ==
    /\ pc \in {"done", "crashed"}
    /\ runs < MaxRuns
    /\ runs' = runs + 1
    /\ pc' = "start"
    /\ tested' = NoneTested /\ todo' = {} /\ changed' = {} /\ snapshot' = {}
    /\ error' = FALSE /\ committed' = FALSE /\ rollback' = "none"
    /\ original' = head /\ existed' = FALSE
    /\ UNCHANGED <<wt, repoVars, remoteVars, opts, unrestored, edits, appends>>

\* Bound: what happens after the last run is of no interest.
Watched == runs < MaxRuns \/ pc \notin {"done", "crashed"}

EditFile(f) ==
    /\ Watched
    /\ edits < MaxEdits
    /\ wt[f] # {}
    /\ Careful /\ ~Idle => f \notin Findings
    /\ wt' = [wt EXCEPT ![f] = @ \cup {"edit"}]
    /\ edits' = edits + 1
    /\ UNCHANGED <<repoVars, remoteVars, opts, pc, runVars, todo, changed, outcomeVars,
                   unrestored, appends, runs>>

\* `git add f` by the operator.
StageFile(f) ==
    /\ Watched
    /\ "edit" \in wt[f]
    /\ Careful => Idle
    /\ index' = [index EXCEPT ![f] = wt[f]]
    /\ UNCHANGED <<wt, head, tip, remoteVars, opts, pc, runVars, todo, changed, outcomeVars, envVars>>

\* A scan or a monitor appends to the log (AuditLog).
OtherAppends ==
    /\ Watched
    /\ appends < MaxAppends
    /\ wt' = [wt EXCEPT ![Log] = @ \cup {"other"}]
    /\ appends' = appends + 1
    /\ UNCHANGED <<repoVars, remoteVars, opts, pc, runVars, todo, changed, outcomeVars,
                   unrestored, edits, runs>>

-----------------------------------------------------------------------------

Step ==
    \/ CheckClean \/ Resolve \/ TestsPass \/ StopEarly \/ TakeSnapshot
    \/ CreateBranch \/ CreateBranchFails
    \/ \E f \in Findings : ApplyFix(f) \/ SkipFile(f) \/ WriteFails(f)
    \/ FinishApply \/ NotAsTested
    \/ Stage \/ Commit \/ StageOrCommitFails
    \/ Push \/ NoPush \/ OpenPullRequest \/ OpenPullRequestFails \/ RecordPullRequest
    \/ Reset \/ Checkout \/ DeleteBranch \/ RollbackFails \/ Restore \/ RestoreFails

Others == OtherAppends \/ \E f \in Files : EditFile(f) \/ StageFile(f)

Next == Step \/ Crash \/ Rerun \/ Others

\* Every command the workflow runs has a timeout, so a run goes on until it
\* ends or dies; nothing else is promised to happen.
Spec == Init /\ [][Next]_vars /\ WF_vars(Step)

-----------------------------------------------------------------------------
(***************************************************************************)
(* Properties.                                                             *)
(***************************************************************************)

\* Type invariant; the branch that is checked out exists, and a file is
\* rewritten once.
TypeOK ==
    /\ wt \in Tree /\ index \in Tree
    /\ head \in {"main", "fix"} /\ original \in {"main", "fix"}
    /\ tip \in [{"main", "fix"} -> Tree \cup {NoTree}] /\ HeadTree \in Tree
    /\ remote \in Tree \cup {NoTree} /\ pr \in BOOLEAN
    /\ opts \in Options
    /\ pc \in Labels
    /\ DOMAIN tested \subseteq Findings /\ \A f \in DOMAIN tested : tested[f] \subseteq FileMarks
    /\ todo \subseteq Findings /\ changed \subseteq Findings /\ todo \cap changed = {}
    /\ snapshot \subseteq LogMarks
    /\ {existed, error, committed, unrestored} \subseteq BOOLEAN
    /\ rollback \in {"none", "clean", "failed", "skipped"}
    /\ {edits, appends, runs} \subseteq Nat

\* The trees of the fix branch that anybody can see.
Visible == {tip["fix"], remote} \ {NoTree}

Fixed(tree) == {f \in Files : "fix" \in tree[f]}

\* "Nothing outside the fix set can be swept into the commit": the fix branch
\* differs from the base by fixes and the log alone, here and on the remote,
\* whatever else is in the working tree and however often the run was killed
\* and started again (Careful: see the runs that drop it).
CommitHoldsOnlyFixes ==
    \A tree \in Visible :
        \/ \A f \in Files : tree[f] \in {{"src"}, {"src", "fix"}}
        \/ \A f \in Files : tree[f] = {"src", "stale"}

\* A commit holds the fixes of this run and no others; with --verify-with-tests
\* exactly those that passed, as they were tested.
OnlyTestedFixes ==
    committed =>
        /\ Fixed(tip["fix"]) = changed
        /\ opts.verify => /\ changed = DOMAIN tested
                          /\ \A f \in changed : tip["fix"][f] = tested[f]

\* A run that ends without a commit, and whose rollback met no failing command,
\* leaves no trace: no rewritten file, no staged fix, the branch the operator
\* was on, no fix branch of its own, and the log as it was.
LogBefore == tip["main"][Log] \cup (IF opts.scanned THEN {"scan"} ELSE {})

FailureRestores ==
    (runs = 1 /\ pc = "done" /\ ~committed /\ rollback \in {"none", "clean"}) =>
        /\ \A f \in Files : {"fix", "torn"} \cap (wt[f] \cup index[f]) = {}
        /\ head = original
        /\ tip["fix"] # NoTree => existed \/ Fixed(tip["fix"]) = {}
        /\ appends = 0 => wt[Log] = LogBefore

\* A fix.applied record in a committed log describes a fix of the same commit,
\* unless some run was stopped before it could take its records back.
RecordsTravelWithFixes ==
    ~unrestored => \A tree \in Visible : tree[Log] \cap Files \subseteq Fixed(tree)

\* Every run ends.
RunEnds == pc = "start" ~> pc \in {"done", "crashed"}

\* Discarding everything on a failure is "only safe because the workflow refuses
\* to start on a dirty tree": the workflow throws away no change the operator
\* made to a file without a finding.
EditsKept == [][\A f \in Files \ Findings : "edit" \in wt[f] => "edit" \in wt'[f]]_vars

=============================================================================
