-------------------------- MODULE FixWorkflowProofs --------------------------
(***************************************************************************)
(* Theorems about FixWorkflow, for any files, findings, situations and     *)
(* bounds.  The inductive invariants are stated by the place of the        *)
(* workflow, pc: Base says where the branches are, Records where a record  *)
(* of a fix can be, Kept what an operator who is careful can rely on, and  *)
(* Undone what a run has touched when it fails.                            *)
(***************************************************************************)
EXTENDS FixWorkflow, TLAPS

OnBranch == {"apply", "stage", "commit", "committed", "pushed", "opened", "failed", "checkout"}
BeforeBranch == {"testing", "snapshot", "branch"}
Writing == {"apply", "stage", "commit"}

\* Files exist and carry marks of files, the log carries records.
Proper(tree) ==
    /\ tree \in Tree
    /\ tree[Log] \subseteq LogMarks
    /\ \A f \in Files : tree[f] \subseteq FileMarks /\ tree[f] # {}

Trees ==
    /\ Proper(wt) /\ Proper(index)
    /\ tip \in [{"main", "fix"} -> Tree \cup {NoTree}]
    /\ Proper(tip["main"]) /\ Proper(HeadTree)
    /\ \A tree \in Visible : Proper(tree)

Values ==
    /\ head \in {"main", "fix"} /\ original \in {"main", "fix"}
    /\ opts \in Situations
    /\ pc \in Labels
    /\ DOMAIN tested \subseteq Findings /\ \A f \in DOMAIN tested : tested[f] \subseteq FileMarks
    /\ todo \subseteq Findings /\ changed \subseteq Findings /\ todo \cap changed = {}
    /\ pc \in {"start", "resolve"} \cup BeforeBranch => changed = {}
    /\ snapshot \subseteq LogMarks
    /\ pr \in BOOLEAN /\ {existed, error, committed, unrestored} \subseteq BOOLEAN
    /\ rollback \in {"none", "clean", "failed", "skipped"}
    /\ {edits, appends, runs} \subseteq Nat /\ runs # 0

\* Main stays what it was; the fix branch is checked out from its creation to
\* the rollback, and equals main until the commit.
Branches ==
    /\ \A f \in Files : tip["main"][f] = {"src"}
    /\ tip["main"][Log] \subseteq {"committed"}
    /\ pc \in OnBranch => head = "fix"
    /\ pc \in BeforeBranch => HeadTree = tip["main"]
    /\ pc \in Writing \/ (pc = "checkout" /\ ~error) => tip["fix"] = tip["main"]
    /\ pc = "checkout" /\ ~error => changed = {}
    /\ pc \in {"failed", "restore"} => error
    /\ pc \in BeforeBranch \cup OnBranch \cup {"delete"} => original = "main" \/ existed
    /\ pc = "delete" => ~existed

Base == Trees /\ Values /\ Branches

RecordsOf(tree) == tree[Log] \cap Files

\* Until some run is stopped before it could take its records back: a staged
\* record has its fix in the index and in the working tree, and the log names
\* no fix that is not on the branch or in the run's hands.
RecordsPlaced ==
    /\ \A tree \in Visible : RecordsOf(tree) \subseteq Fixed(tree)
    /\ RecordsOf(index) \subseteq Fixed(index) \cap Fixed(wt)
    /\ pc \in {"start", "resolve", "committed", "pushed", "opened", "done"} =>
           RecordsOf(wt) \subseteq Fixed(HeadTree)
    /\ pc = "resolve" => Fixed(index) \cup Fixed(wt) \subseteq Fixed(HeadTree)
    /\ pc \in BeforeBranch \cup {"apply"} => RecordsOf(wt) = {}
    /\ pc \in BeforeBranch \cup {"apply", "stage"} => RecordsOf(index) = {}
    /\ pc \in {"stage", "commit"} => RecordsOf(wt) \subseteq changed
    /\ pc \in Writing => changed \subseteq Fixed(wt)
    /\ pc = "commit" => changed \subseteq Fixed(index)
    /\ pc = "checkout" => RecordsOf(index) \subseteq RecordsOf(HeadTree)
    /\ pc \in {"branch", "failed", "checkout", "delete", "restore"} \cup Writing => snapshot \cap Files = {}
    /\ pc \in {"checkout", "delete"} /\ ~error => RecordsOf(wt) = {}

Records == ~unrestored => pc # "crashed" /\ RecordsPlaced

\* The content of the files while the fixes are written.
Rewritten(tree, f) == tree[f] = IF f \in changed THEN {"src", "fix"} ELSE {"src"}

Kept ==
    /\ CommitHoldsOnlyFixes
    /\ OnlyTestedFixes
    /\ pc = "resolve" =>
           /\ \A f \in Files : index[f] = HeadTree[f]
           /\ \A f \in Findings : wt[f] = HeadTree[f]
    /\ pc \in BeforeBranch \cup {"apply", "stage"} => \A f \in Files : index[f] = {"src"}
    /\ pc \in BeforeBranch \cup Writing => \A f \in Findings : Rewritten(wt, f)
    /\ pc = "commit" => \A f \in Files : Rewritten(index, f)
    /\ opts.verify /\ pc \in {"stage", "commit"} =>
           changed = DOMAIN tested /\ \A f \in changed : tested[f] = {"src", "fix"}
    /\ committed => pc \in {"committed", "pushed", "opened", "done", "crashed"}

NoTrace(f) == {"fix", "torn"} \cap (wt[f] \cup index[f]) = {}

\* The first run, up to its end.
Undone ==
    /\ original = "main"
    /\ pc \in {"start", "resolve"} \cup BeforeBranch =>
           /\ head = "main" /\ rollback = "none"
           /\ \A f \in Files : NoTrace(f)
    /\ pc \in {"start", "resolve"} /\ tip["fix"] # NoTree => Fixed(tip["fix"]) = {}
    /\ pc \in BeforeBranch => existed = (tip["fix"] # NoTree)
    /\ pc = "apply" => \A f \in Files \ changed : NoTrace(f)
    /\ pc = "apply" => \A f \in Files : "torn" \notin wt[f] \cup index[f]
    /\ pc = "checkout" => \A f \in Files : tip["fix"][f] = {"src"} => NoTrace(f)
    /\ pc \in {"delete", "restore"} /\ rollback # "failed" =>
           (\A f \in Files : NoTrace(f)) /\ head = original
    /\ pc = "restore" /\ rollback # "failed" /\ tip["fix"] # NoTree => existed
    /\ pc = "delete" => rollback = "clean"
    /\ pc \in {"committed", "pushed", "opened"} => committed
    /\ appends = 0 /\ (\/ pc \in {"start", "resolve", "apply"} \cup BeforeBranch
                       \/ pc \in {"checkout", "delete"} /\ ~error) => wt[Log] = LogBefore
    /\ appends = 0 /\ pc \in {"branch", "failed", "checkout", "delete", "restore"} \cup Writing =>
           snapshot = LogBefore

FirstRun == runs = 1 => Undone /\ FailureRestores

-----------------------------------------------------------------------------
(***************************************************************************)
(* Trees.                                                                  *)
(***************************************************************************)

\* A proper tree is a tree.
LEMMA ProperIsTree ==
    ASSUME NEW tree, Proper(tree)
    PROVE  /\ tree \in Tree /\ tree # NoTree /\ tree[Log] \subseteq LogMarks
           /\ \A f \in Files : tree[f] \subseteq FileMarks /\ tree[f] # {}
BY NoTreeAssumption DEF Proper

\* Writing to a file, or to the log, keeps a tree proper.
LEMMA WriteProper ==
    ASSUME NEW tree, Proper(tree)
    PROVE  /\ \A f \in Files, marks \in SUBSET FileMarks :
                  /\ Proper([tree EXCEPT ![f] = @ \cup marks])
                  /\ marks # {} => Proper([tree EXCEPT ![f] = marks])
           /\ \A marks \in SUBSET LogMarks :
                  /\ Proper([tree EXCEPT ![Log] = @ \cup marks])
                  /\ Proper([tree EXCEPT ![Log] = marks])
BY FixAssumption DEF Proper, Tree, Paths

\* Going to the tree that is checked out changes nothing.
LEMMA SwitchInPlace ==
    ASSUME NEW tree, Proper(tree), NEW target, HeadTree = target
    PROVE  Switched(tree, target) = tree
BY DEF Switched, Proper, Tree

\* Switching branches yields a proper tree.
LEMMA SwitchProper ==
    ASSUME NEW tree, Proper(tree), NEW target, Proper(target)
    PROVE  Proper(Switched(tree, target))
BY DEF Switched, Proper, Tree, Paths

\* The fix branch is created in place: nothing in the checkout changes.
LEMMA CreationInPlace ==
    ASSUME Base, pc = "branch", SwitchToFix
    PROVE  wt' = wt /\ index' = index
BY SwitchInPlace DEF SwitchToFix, Base, Trees, Branches, BeforeBranch

\* After a reset the files are those of the branch.
LEMMA ResetRestores ==
    ASSUME Proper(wt), Proper(index), Proper(HeadTree)
    PROVE  Proper(HardReset) /\ \A f \in Files : HardReset[f] = HeadTree[f]
BY DEF HardReset, Proper, Tree, Paths

-----------------------------------------------------------------------------
(***************************************************************************)
(* Base.                                                                   *)
(***************************************************************************)

\* The type invariant follows.
LEMMA BaseTyped == Base => TypeOK
BY ProperIsTree, FixAssumption DEF Base, Trees, Values, TypeOK, Visible

LEMMA BaseInit == Init => Base
<1>. SUFFICES ASSUME Init
              PROVE  Base
  OBVIOUS
<1>. USE FixAssumption
<1>1. PICK inMain \in {{}, {"committed"}} :
          /\ index = BaseTree(inMain)
          /\ wt = [index EXCEPT ![Log] = IF opts.scanned THEN @ \cup {"scan"} ELSE @]
          /\ \E fixTip \in {NoTree, StaleTree(inMain)} : tip = [main |-> index, fix |-> fixTip]
  BY DEF Init
<1>2. Proper(BaseTree(inMain)) /\ Proper(StaleTree(inMain)) /\ Proper(wt)
  BY <1>1 DEF Proper, BaseTree, StaleTree, Tree, Paths, FileMarks, LogMarks
<1>3. Trees
  BY <1>1, <1>2, ProperIsTree DEF Init, Trees, HeadTree, Visible
<1>4. Values
  <2>1. DOMAIN tested = {} /\ opts \in Options /\ pc \in Labels
    BY DEF Init, NoneTested, Labels
  <2>2. {existed, error, committed, unrestored} \subseteq BOOLEAN /\ pr \in BOOLEAN
    BY DEF Init
  <2>3. {edits, appends, runs} \subseteq Nat /\ runs # 0
    BY DEF Init
  <2>. QED
    BY <2>1, <2>2, <2>3 DEF Init, Values
<1>5. Branches
  BY <1>1 DEF Init, Branches, BaseTree, Paths, OnBranch, BeforeBranch, Writing
<1>. QED
  BY <1>3, <1>4, <1>5 DEF Base

LEMMA TreesStep == Base /\ [Next]_vars => Trees'
<1>. SUFFICES ASSUME Base, [Next]_vars
              PROVE  Trees'
  OBVIOUS
<1>. USE FixAssumption, ProperIsTree DEF Base, Trees, Visible, HeadTree,
           repoVars, remoteVars, runVars, outcomeVars, envVars
<1>1. CASE CheckClean
  BY <1>1 DEF CheckClean
<1>2. CASE Resolve
  BY <1>2 DEF Resolve
<1>3. CASE TestsPass
  BY <1>3 DEF TestsPass
<1>4. CASE StopEarly
  BY <1>4 DEF StopEarly
<1>5. CASE TakeSnapshot
  BY <1>5 DEF TakeSnapshot
<1>6. CASE CreateBranch
  BY <1>6, CreationInPlace DEF CreateBranch, SwitchToFix
<1>7. CASE CreateBranchFails
  BY <1>7, CreationInPlace DEF CreateBranchFails, SwitchToFix
<1>8. ASSUME NEW f \in Findings, ApplyFix(f) PROVE Trees'
  BY <1>8, WriteProper DEF ApplyFix, FileMarks
<1>9. ASSUME NEW f \in Findings, SkipFile(f) PROVE Trees'
  BY <1>9 DEF SkipFile
<1>10. ASSUME NEW f \in Findings, WriteFails(f) PROVE Trees'
  <2>1. Proper([wt EXCEPT ![f] = {"torn"}])
    BY WriteProper DEF FileMarks
  <2>. QED
    BY <1>10, <2>1 DEF WriteFails
<1>11. CASE FinishApply
  <2>1. Proper([wt EXCEPT ![Log] = @ \cup changed])
    BY WriteProper DEF Values, LogMarks
  <2>. QED
    BY <1>11, <2>1 DEF FinishApply, Recorded
<1>12. CASE NotAsTested
  BY <1>12 DEF NotAsTested
<1>13. CASE Stage
  <2>1. PICK withLog : index' = [p \in Paths |-> IF p \in ToStage(withLog) THEN wt[p] ELSE index[p]]
    BY <1>13 DEF Stage
  <2>2. Proper(index')
    BY <2>1 DEF Proper, Tree, Paths
  <2>. QED
    BY <1>13, <2>2 DEF Stage
<1>14. CASE Commit
  BY <1>14 DEF Commit, CommitIndex, Values
<1>15. CASE StageOrCommitFails
  BY <1>15 DEF StageOrCommitFails, CommitIndex, Values
<1>16. CASE Push
  BY <1>16 DEF Push
<1>17. CASE NoPush
  BY <1>17 DEF NoPush
<1>18. CASE OpenPullRequest
  BY <1>18 DEF OpenPullRequest
<1>19. CASE OpenPullRequestFails
  BY <1>19 DEF OpenPullRequestFails
<1>20. CASE RecordPullRequest
  <2>1. Proper([wt EXCEPT ![Log] = @ \cup {"fix.pr_opened"}])
    BY WriteProper DEF LogMarks
  <2>. QED
    BY <1>20, <2>1 DEF RecordPullRequest, Recorded
<1>21. CASE Reset
  BY <1>21, ResetRestores DEF Reset
<1>22. CASE Checkout
  BY <1>22, SwitchProper DEF Checkout, Branches, Values, OnBranch
<1>23. CASE DeleteBranch
  BY <1>23 DEF DeleteBranch, Values
<1>24. CASE RollbackFails
  BY <1>24 DEF RollbackFails
<1>25. CASE Restore
  BY <1>25, WriteProper DEF Restore, RestoredLog, Values
<1>26. CASE RestoreFails
  BY <1>26 DEF RestoreFails
<1>27. CASE Crash
  BY <1>27 DEF Crash
<1>28. CASE Rerun
  BY <1>28 DEF Rerun
<1>29. CASE OtherAppends
  BY <1>29, WriteProper DEF OtherAppends, LogMarks
<1>30. ASSUME NEW f \in Files, EditFile(f) PROVE Trees'
  BY <1>30, WriteProper DEF EditFile, FileMarks
<1>31. ASSUME NEW f \in Files, StageFile(f) PROVE Trees'
  BY <1>31 DEF StageFile, Proper, Tree, Paths
<1>32. CASE UNCHANGED vars
  BY <1>32 DEF vars
<1>. QED
  BY <1>1, <1>2, <1>3, <1>4, <1>5, <1>6, <1>7, <1>8, <1>9, <1>10, <1>11, <1>12, <1>13, <1>14, <1>15, <1>16, <1>17, <1>18, <1>19, <1>20, <1>21, <1>22, <1>23, <1>24, <1>25, <1>26, <1>27, <1>28, <1>29, <1>30, <1>31, <1>32 DEF Next, Step, Others

LEMMA ValuesStep == Base /\ [Next]_vars => Values'
<1>. SUFFICES ASSUME Base, [Next]_vars
              PROVE  Values'
  OBVIOUS
<1>. USE FixAssumption DEF Base, Values, Labels, BeforeBranch,
           repoVars, remoteVars, runVars, outcomeVars, envVars
<1>1. CASE CheckClean
  BY <1>1 DEF CheckClean
<1>2. CASE Resolve
  BY <1>2 DEF Resolve
<1>3. CASE TestsPass
  BY <1>3 DEF TestsPass, Trees, Proper, FileMarks
<1>4. CASE StopEarly
  BY <1>4 DEF StopEarly
<1>5. CASE TakeSnapshot
  BY <1>5 DEF TakeSnapshot, Trees, Proper
<1>6. CASE CreateBranch
  BY <1>6 DEF CreateBranch, SwitchToFix
<1>7. CASE CreateBranchFails
  BY <1>7 DEF CreateBranchFails, SwitchToFix
<1>8. ASSUME NEW f \in Findings, ApplyFix(f) PROVE Values'
  BY <1>8 DEF ApplyFix
<1>9. ASSUME NEW f \in Findings, SkipFile(f) PROVE Values'
  BY <1>9 DEF SkipFile
<1>10. ASSUME NEW f \in Findings, WriteFails(f) PROVE Values'
  BY <1>10 DEF WriteFails
<1>11. CASE FinishApply
  BY <1>11 DEF FinishApply
<1>12. CASE NotAsTested
  BY <1>12 DEF NotAsTested
<1>13. CASE Stage
  BY <1>13 DEF Stage
<1>14. CASE Commit
  BY <1>14 DEF Commit
<1>15. CASE StageOrCommitFails
  BY <1>15 DEF StageOrCommitFails
<1>16. CASE Push
  BY <1>16 DEF Push
<1>17. CASE NoPush
  BY <1>17 DEF NoPush, Options
<1>18. CASE OpenPullRequest
  BY <1>18 DEF OpenPullRequest
<1>19. CASE OpenPullRequestFails
  BY <1>19 DEF OpenPullRequestFails
<1>20. CASE RecordPullRequest
  BY <1>20 DEF RecordPullRequest
<1>21. CASE Reset
  BY <1>21 DEF Reset
<1>22. CASE Checkout
  BY <1>22 DEF Checkout, AfterRollback
<1>23. CASE DeleteBranch
  BY <1>23 DEF DeleteBranch, AfterRollback
<1>24. CASE RollbackFails
  BY <1>24 DEF RollbackFails, AfterRollback
<1>25. CASE Restore
  BY <1>25 DEF Restore
<1>26. CASE RestoreFails
  BY <1>26 DEF RestoreFails
<1>27. CASE Crash
  BY <1>27 DEF Crash
<1>28. CASE Rerun
  <2>1. DOMAIN NoneTested = {}
    BY DEF NoneTested
  <2>2. runs' \in Nat /\ runs' # 0
    BY <1>28 DEF Rerun
  <2>. QED
    BY <1>28, <2>1, <2>2 DEF Rerun
<1>29. CASE OtherAppends
  BY <1>29 DEF OtherAppends
<1>30. ASSUME NEW f \in Files, EditFile(f) PROVE Values'
  BY <1>30 DEF EditFile
<1>31. ASSUME NEW f \in Files, StageFile(f) PROVE Values'
  BY <1>31 DEF StageFile
<1>32. CASE UNCHANGED vars
  BY <1>32 DEF vars
<1>. QED
  BY <1>1, <1>2, <1>3, <1>4, <1>5, <1>6, <1>7, <1>8, <1>9, <1>10, <1>11, <1>12, <1>13, <1>14, <1>15, <1>16, <1>17, <1>18, <1>19, <1>20, <1>21, <1>22, <1>23, <1>24, <1>25, <1>26, <1>27, <1>28, <1>29, <1>30, <1>31, <1>32 DEF Next, Step, Others

LEMMA BranchesStep == Base /\ [Next]_vars => Branches'
<1>. SUFFICES ASSUME Base, [Next]_vars
              PROVE  Branches'
  OBVIOUS
<1>. USE DEF Base, Branches, OnBranch, BeforeBranch, Writing, HeadTree,
           repoVars, remoteVars, runVars, outcomeVars, envVars
<1>1. CASE CheckClean
  BY <1>1 DEF CheckClean
<1>2. CASE Resolve
  BY <1>2, ProperIsTree DEF Resolve, Values, Trees
<1>3. CASE TestsPass
  BY <1>3 DEF TestsPass
<1>4. CASE StopEarly
  BY <1>4 DEF StopEarly
<1>5. CASE TakeSnapshot
  BY <1>5 DEF TakeSnapshot
<1>6. CASE CreateBranch
  BY <1>6 DEF CreateBranch, SwitchToFix, Values, Trees
<1>7. CASE CreateBranchFails
  BY <1>7 DEF CreateBranchFails, SwitchToFix, Values, Trees
<1>8. ASSUME NEW f \in Findings, ApplyFix(f) PROVE Branches'
  BY <1>8 DEF ApplyFix
<1>9. ASSUME NEW f \in Findings, SkipFile(f) PROVE Branches'
  BY <1>9 DEF SkipFile
<1>10. ASSUME NEW f \in Findings, WriteFails(f) PROVE Branches'
  BY <1>10 DEF WriteFails
<1>11. CASE FinishApply
  BY <1>11 DEF FinishApply
<1>12. CASE NotAsTested
  BY <1>12 DEF NotAsTested
<1>13. CASE Stage
  BY <1>13 DEF Stage
<1>14. CASE Commit
  BY <1>14 DEF Commit, CommitIndex, Values, Trees
<1>15. CASE StageOrCommitFails
  BY <1>15 DEF StageOrCommitFails, CommitIndex, Values, Trees
<1>16. CASE Push
  BY <1>16 DEF Push
<1>17. CASE NoPush
  BY <1>17 DEF NoPush
<1>18. CASE OpenPullRequest
  BY <1>18 DEF OpenPullRequest
<1>19. CASE OpenPullRequestFails
  BY <1>19 DEF OpenPullRequestFails
<1>20. CASE RecordPullRequest
  BY <1>20 DEF RecordPullRequest
<1>21. CASE Reset
  BY <1>21 DEF Reset
<1>22. CASE Checkout
  BY <1>22 DEF Checkout, AfterRollback
<1>23. CASE DeleteBranch
  BY <1>23 DEF DeleteBranch, AfterRollback, Values, Trees
<1>24. CASE RollbackFails
  BY <1>24 DEF RollbackFails, AfterRollback
<1>25. CASE Restore
  BY <1>25 DEF Restore
<1>26. CASE RestoreFails
  BY <1>26 DEF RestoreFails
<1>27. CASE Crash
  BY <1>27 DEF Crash
<1>28. CASE Rerun
  BY <1>28 DEF Rerun
<1>29. CASE OtherAppends
  BY <1>29 DEF OtherAppends
<1>30. ASSUME NEW f \in Files, EditFile(f) PROVE Branches'
  BY <1>30 DEF EditFile
<1>31. ASSUME NEW f \in Files, StageFile(f) PROVE Branches'
  BY <1>31 DEF StageFile
<1>32. CASE UNCHANGED vars
  BY <1>32 DEF vars
<1>. QED
  BY <1>1, <1>2, <1>3, <1>4, <1>5, <1>6, <1>7, <1>8, <1>9, <1>10, <1>11, <1>12, <1>13, <1>14, <1>15, <1>16, <1>17, <1>18, <1>19, <1>20, <1>21, <1>22, <1>23, <1>24, <1>25, <1>26, <1>27, <1>28, <1>29, <1>30, <1>31, <1>32 DEF Next, Step, Others

LEMMA BaseStep == Base /\ [Next]_vars => Base'
BY TreesStep, ValuesStep, BranchesStep DEF Base

\* TypeOK holds of the specification: whatever fails and whoever interferes,
\* the branch that is checked out exists, and no file is rewritten twice.
THEOREM TypeCorrect == Spec => []TypeOK
<1>1. Init => Base
  BY BaseInit
<1>2. Base /\ [Next]_vars => Base'
  BY BaseStep
<1>3. Base => TypeOK
  BY BaseTyped
<1>. QED
  BY <1>1, <1>2, <1>3, PTL DEF Spec

LEMMA RecordsInit == Init => Records
<1>. SUFFICES ASSUME Init
              PROVE  Records
  OBVIOUS
<1>1. PICK inMain \in {{}, {"committed"}} :
          /\ index = BaseTree(inMain)
          /\ wt = [index EXCEPT ![Log] = IF opts.scanned THEN @ \cup {"scan"} ELSE @]
          /\ \E fixTip \in {NoTree, StaleTree(inMain)} : tip = [main |-> index, fix |-> fixTip]
  BY DEF Init
<1>2. RecordsOf(wt) = {} /\ RecordsOf(index) = {} /\ \A tree \in Visible : RecordsOf(tree) = {}
  BY <1>1, FixAssumption DEF Init, RecordsOf, BaseTree, StaleTree, Visible, Paths
<1>. QED
  BY <1>2 DEF Init, Records, RecordsPlaced, BeforeBranch, Writing

LEMMA RecordsStep == Base /\ Records /\ [Next]_vars => Records'
<1>. SUFFICES ASSUME Base, Records, [Next]_vars, ~unrestored'
              PROVE  pc' # "crashed" /\ RecordsPlaced'
  BY DEF Records
<1>. USE FixAssumption DEF Base, Records, RecordsPlaced, RecordsOf, Fixed, BeforeBranch, Writing, HeadTree,
           repoVars, remoteVars, runVars, outcomeVars, envVars
<1>1. CASE CheckClean
  BY <1>1 DEF CheckClean, Branches, Values, Trees, OnBranch, Visible, Dirty
<1>2. CASE Resolve
  BY <1>2 DEF Resolve, Branches, Values, Trees, OnBranch, Visible
<1>3. CASE TestsPass
  BY <1>3 DEF TestsPass, Branches, Values, Trees, OnBranch, Visible
<1>4. CASE StopEarly
  BY <1>4 DEF StopEarly, Branches, Values, Trees, OnBranch, Visible
<1>5. CASE TakeSnapshot
  BY <1>5 DEF TakeSnapshot, Branches, Values, Trees, OnBranch, Visible
<1>6. CASE CreateBranch
  BY <1>6, CreationInPlace DEF CreateBranch, Branches, Values, Trees, OnBranch, Visible, SwitchToFix
<1>7. CASE CreateBranchFails
  BY <1>7, CreationInPlace DEF CreateBranchFails, Branches, Values, Trees, OnBranch, Visible, SwitchToFix
<1>8. ASSUME NEW f \in Findings, ApplyFix(f) PROVE pc' # "crashed" /\ RecordsPlaced'
  BY <1>8 DEF ApplyFix, Branches, Values, Trees, OnBranch, Visible, Proper, Tree, Paths
<1>9. ASSUME NEW f \in Findings, SkipFile(f) PROVE pc' # "crashed" /\ RecordsPlaced'
  BY <1>9 DEF SkipFile, Branches, Values, Trees, OnBranch, Visible
<1>10. ASSUME NEW f \in Findings, WriteFails(f) PROVE pc' # "crashed" /\ RecordsPlaced'
  BY <1>10 DEF WriteFails, Branches, Values, Trees, OnBranch, Visible, Proper, Tree, Paths
<1>11. CASE FinishApply
  BY <1>11 DEF FinishApply, Branches, Values, Trees, OnBranch, Visible, Recorded, Proper, Tree, Paths
<1>12. CASE NotAsTested
  BY <1>12 DEF NotAsTested, Branches, Values, Trees, OnBranch, Visible
<1>13. CASE Stage
  BY <1>13 DEF Stage, Branches, Values, Trees, OnBranch, Visible, ToStage, Proper, Tree, Paths
<1>14. CASE Commit
  BY <1>14 DEF Commit, Branches, Values, Trees, OnBranch, Visible, CommitIndex
<1>15. CASE StageOrCommitFails
  BY <1>15 DEF StageOrCommitFails, Branches, Values, Trees, OnBranch, Visible, CommitIndex
<1>16. CASE Push
  BY <1>16 DEF Push, Branches, Values, Trees, OnBranch, Visible
<1>17. CASE NoPush
  BY <1>17 DEF NoPush, Branches, Values, Trees, OnBranch, Visible
<1>18. CASE OpenPullRequest
  BY <1>18 DEF OpenPullRequest, Branches, Values, Trees, OnBranch, Visible
<1>19. CASE OpenPullRequestFails
  BY <1>19 DEF OpenPullRequestFails, Branches, Values, Trees, OnBranch, Visible
<1>20. CASE RecordPullRequest
  BY <1>20 DEF RecordPullRequest, Branches, Values, Trees, OnBranch, Visible, Recorded, Proper, Tree, Paths
<1>21. CASE Reset
  <2>1. head = "fix" /\ error /\ Proper(HeadTree)
    BY <1>21 DEF Reset, Branches, Trees, OnBranch
  <2>2. HeadTree \in Visible
    BY <2>1, ProperIsTree DEF Visible
  <2>3. RecordsOf(index') \subseteq Fixed(index') \cap Fixed(wt')
    BY <1>21, <2>1, <2>2, ResetRestores DEF Reset, Trees
  <2>. QED
    BY <1>21, <2>1, <2>3 DEF Reset, Visible
<1>22. CASE Checkout
  BY <1>22 DEF Checkout, Branches, Values, Trees, OnBranch, Visible, AfterRollback, CanCheckout, Switched, Proper, Tree, Paths
<1>23. CASE DeleteBranch
  BY <1>23 DEF DeleteBranch, Branches, Values, Trees, OnBranch, Visible, AfterRollback
<1>24. CASE RollbackFails
  BY <1>24 DEF RollbackFails, Branches, Values, Trees, OnBranch, Visible, AfterRollback
<1>25. CASE Restore
  BY <1>25 DEF Restore, Branches, Values, Trees, OnBranch, Visible, RestoredLog, Proper, Tree, Paths
<1>26. CASE RestoreFails
  BY <1>26 DEF RestoreFails, Branches, Values, Trees, OnBranch, Visible
<1>27. CASE Crash
  BY <1>27 DEF Crash, Branches, Values, Trees, OnBranch, Visible
<1>28. CASE Rerun
  BY <1>28 DEF Rerun, Branches, Values, Trees, OnBranch, Visible
<1>29. CASE OtherAppends
  BY <1>29 DEF OtherAppends, Branches, Values, Trees, OnBranch, Visible, Proper, Tree, Paths
<1>30. ASSUME NEW f \in Files, EditFile(f) PROVE pc' # "crashed" /\ RecordsPlaced'
  BY <1>30 DEF EditFile, Branches, Values, Trees, OnBranch, Visible, Proper, Tree, Paths
<1>31. ASSUME NEW f \in Files, StageFile(f) PROVE pc' # "crashed" /\ RecordsPlaced'
  BY <1>31 DEF StageFile, Branches, Values, Trees, OnBranch, Visible, Proper, Tree, Paths
<1>32. CASE UNCHANGED vars
  BY <1>32 DEF vars, Visible
<1>. QED
  BY <1>1, <1>2, <1>3, <1>4, <1>5, <1>6, <1>7, <1>8, <1>9, <1>10, <1>11, <1>12, <1>13, <1>14, <1>15, <1>16, <1>17, <1>18, <1>19, <1>20, <1>21, <1>22, <1>23, <1>24, <1>25, <1>26, <1>27, <1>28, <1>29, <1>30, <1>31, <1>32 DEF Next, Step, Others

\* RecordsTravelWithFixes holds of the specification, careful operator or not:
\* unless a run was stopped before it could take its records back, a
\* fix.applied record in a committed log describes a fix of the same commit.
THEOREM RecordsTravel == Spec => []RecordsTravelWithFixes
<1>1. Init => Base /\ Records
  BY BaseInit, RecordsInit
<1>2. Base /\ Records /\ [Next]_vars => (Base /\ Records)'
  BY BaseStep, RecordsStep
<1>3. Base /\ Records => RecordsTravelWithFixes
  BY DEF Records, RecordsPlaced, RecordsOf, RecordsTravelWithFixes
<1>. QED
  BY <1>1, <1>2, <1>3, PTL DEF Spec

-----------------------------------------------------------------------------
(***************************************************************************)
(* A careful operator.                                                     *)
(***************************************************************************)

LEMMA KeptInit == Init => Kept
<1>. SUFFICES ASSUME Init
              PROVE  Kept
  OBVIOUS
<1>1. PICK inMain \in {{}, {"committed"}} :
          /\ index = BaseTree(inMain)
          /\ \E fixTip \in {NoTree, StaleTree(inMain)} : tip = [main |-> index, fix |-> fixTip]
  BY DEF Init
<1>2. CommitHoldsOnlyFixes
  BY <1>1, FixAssumption DEF Init, CommitHoldsOnlyFixes, Visible, StaleTree, Paths
<1>. QED
  BY <1>2 DEF Init, Kept, OnlyTestedFixes, BeforeBranch, Writing

LEMMA KeptStep == Base /\ Careful /\ Kept /\ [Next]_vars => Kept'
<1>. SUFFICES ASSUME Base, Careful, Kept, [Next]_vars
              PROVE  Kept'
  OBVIOUS
<1>. USE FixAssumption DEF Base, Kept, CommitHoldsOnlyFixes, OnlyTestedFixes, Visible, Rewritten, Fixed,
           BeforeBranch, Writing, HeadTree, Idle,
           repoVars, remoteVars, runVars, outcomeVars, envVars
<1>1. CASE CheckClean
  BY <1>1 DEF CheckClean, Branches, Values, Trees, OnBranch, Dirty
<1>2. CASE Resolve
  <2>1. (\A f \in Files : index[f] = {"src"}) /\ \A f \in Findings : wt[f] = {"src"}
    BY <1>2 DEF Resolve, Branches
  <2>2. changed = {} /\ ~committed
    BY <1>2 DEF Resolve, Values
  <2>3. pc' \in {"testing", "snapshot"}
    BY <1>2 DEF Resolve
  <2>. QED
    BY <1>2, <2>1, <2>2, <2>3 DEF Resolve
<1>3. CASE TestsPass
  BY <1>3 DEF TestsPass, Branches, Values, Trees, OnBranch
<1>4. CASE StopEarly
  BY <1>4 DEF StopEarly, Branches, Values, Trees, OnBranch
<1>5. CASE TakeSnapshot
  BY <1>5 DEF TakeSnapshot, Branches, Values, Trees, OnBranch
<1>6. CASE CreateBranch
  BY <1>6, CreationInPlace DEF CreateBranch, Branches, Values, Trees, OnBranch, SwitchToFix
<1>7. CASE CreateBranchFails
  BY <1>7, CreationInPlace DEF CreateBranchFails, Branches, Values, Trees, OnBranch, SwitchToFix
<1>8. ASSUME NEW f \in Findings, ApplyFix(f) PROVE Kept'
  <2>1. \A g \in Findings : Rewritten(wt, g)'
    BY <1>8 DEF ApplyFix, Values, Trees, Proper, Tree, Paths
  <2>2. ~committed /\ pc' = "apply"
    BY <1>8 DEF ApplyFix
  <2>. QED
    BY <1>8, <2>1, <2>2 DEF ApplyFix
<1>9. ASSUME NEW f \in Findings, SkipFile(f) PROVE Kept'
  BY <1>9 DEF SkipFile, Branches, Values, Trees, OnBranch
<1>10. ASSUME NEW f \in Findings, WriteFails(f) PROVE Kept'
  BY <1>10 DEF WriteFails, Branches, Values, Trees, OnBranch, Proper, Tree, Paths
<1>11. CASE FinishApply
  BY <1>11 DEF FinishApply, Branches, Values, Trees, OnBranch, Recorded, MatchesTests, Proper, Tree, Paths
<1>12. CASE NotAsTested
  BY <1>12 DEF NotAsTested, Branches, Values, Trees, OnBranch
<1>13. CASE Stage
  <2>1. \A f \in Files : Rewritten(index, f)'
    <3>1. \A f \in Files : index'[f] = IF f \in changed THEN wt[f] ELSE index[f]
      BY <1>13 DEF Stage, ToStage, Paths
    <3>2. \A f \in Files : index[f] = {"src"} /\ (f \in changed => wt[f] = {"src", "fix"})
      BY <1>13 DEF Stage, Values
    <3>. QED
      BY <1>13, <3>1, <3>2 DEF Stage
  <2>2. ~committed /\ pc' = "commit"
    BY <1>13 DEF Stage
  <2>. QED
    BY <1>13, <2>1, <2>2 DEF Stage
<1>14. CASE Commit
  <2>1. tip' = [tip EXCEPT !["fix"] = index] /\ tip'["fix"] = index
    BY <1>14 DEF Commit, CommitIndex, Branches, OnBranch, Trees
  <2>2. \A f \in Files : tip'["fix"][f] = IF f \in changed THEN {"src", "fix"} ELSE {"src"}
    BY <1>14, <2>1 DEF Commit
  <2>3. CommitHoldsOnlyFixes'
    BY <1>14, <2>1, <2>2 DEF Commit
  <2>4. Fixed(tip'["fix"]) = changed
    BY <2>2 DEF Values
  <2>5. opts.verify => changed = DOMAIN tested /\ \A f \in changed : tip'["fix"][f] = tested[f]
    BY <1>14, <2>2 DEF Commit, Values
  <2>. QED
    BY <1>14, <2>3, <2>4, <2>5 DEF Commit
<1>15. CASE StageOrCommitFails
  BY <1>15 DEF StageOrCommitFails, Branches, Values, Trees, OnBranch, CommitIndex
<1>16. CASE Push
  BY <1>16 DEF Push, Branches, Values, Trees, OnBranch
<1>17. CASE NoPush
  BY <1>17 DEF NoPush, Branches, Values, Trees, OnBranch
<1>18. CASE OpenPullRequest
  BY <1>18 DEF OpenPullRequest, Branches, Values, Trees, OnBranch
<1>19. CASE OpenPullRequestFails
  BY <1>19 DEF OpenPullRequestFails, Branches, Values, Trees, OnBranch
<1>20. CASE RecordPullRequest
  BY <1>20 DEF RecordPullRequest, Branches, Values, Trees, OnBranch, Recorded, Proper, Tree, Paths
<1>21. CASE Reset
  BY <1>21 DEF Reset, Branches, Values, Trees, OnBranch
<1>22. CASE Checkout
  BY <1>22 DEF Checkout, Branches, Values, Trees, OnBranch, AfterRollback
<1>23. CASE DeleteBranch
  BY <1>23 DEF DeleteBranch, Branches, Values, Trees, OnBranch, AfterRollback
<1>24. CASE RollbackFails
  BY <1>24 DEF RollbackFails, Branches, Values, Trees, OnBranch, AfterRollback
<1>25. CASE Restore
  BY <1>25 DEF Restore, Branches, Values, Trees, OnBranch, RestoredLog, Proper, Tree, Paths
<1>26. CASE RestoreFails
  BY <1>26 DEF RestoreFails, Branches, Values, Trees, OnBranch
<1>27. CASE Crash
  BY <1>27 DEF Crash, Branches, Values, Trees, OnBranch
<1>28. CASE Rerun
  BY <1>28 DEF Rerun, Branches, Values, Trees, OnBranch
<1>29. CASE OtherAppends
  BY <1>29 DEF OtherAppends, Branches, Values, Trees, OnBranch, Proper, Tree, Paths
<1>30. ASSUME NEW f \in Files, EditFile(f) PROVE Kept'
  BY <1>30 DEF EditFile, Branches, Values, Trees, OnBranch, Proper, Tree, Paths
<1>31. ASSUME NEW f \in Files, StageFile(f) PROVE Kept'
  BY <1>31 DEF StageFile, Branches, Values, Trees, OnBranch, Proper, Tree, Paths
<1>32. CASE UNCHANGED vars
  BY <1>32 DEF vars
<1>. QED
  BY <1>1, <1>2, <1>3, <1>4, <1>5, <1>6, <1>7, <1>8, <1>9, <1>10, <1>11, <1>12, <1>13, <1>14, <1>15, <1>16, <1>17, <1>18, <1>19, <1>20, <1>21, <1>22, <1>23, <1>24, <1>25, <1>26, <1>27, <1>28, <1>29, <1>30, <1>31, <1>32 DEF Next, Step, Others

\* CommitHoldsOnlyFixes holds of the specification while the operator keeps
\* off the files with findings and the index: nothing outside the fix set is
\* swept into the commit, here or on the remote, whatever else is edited and
\* however often the run fails, is killed and is started again.
THEOREM OnlyFixesCommitted == ASSUME Careful PROVE Spec => []CommitHoldsOnlyFixes
<1>1. Init => Base /\ Kept
  BY BaseInit, KeptInit
<1>2. Base /\ Kept /\ [Next]_vars => (Base /\ Kept)'
  BY BaseStep, KeptStep
<1>3. Kept => CommitHoldsOnlyFixes
  BY DEF Kept
<1>. QED
  BY <1>1, <1>2, <1>3, PTL DEF Spec

\* OnlyTestedFixes holds of the specification under the same condition: the
\* commit holds the fixes of this run, and with --verify-with-tests exactly
\* those that passed, as they were tested.
THEOREM TestedCommitted == ASSUME Careful PROVE Spec => []OnlyTestedFixes
<1>1. Init => Base /\ Kept
  BY BaseInit, KeptInit
<1>2. Base /\ Kept /\ [Next]_vars => (Base /\ Kept)'
  BY BaseStep, KeptStep
<1>3. Kept => OnlyTestedFixes
  BY DEF Kept
<1>. QED
  BY <1>1, <1>2, <1>3, PTL DEF Spec

-----------------------------------------------------------------------------
(***************************************************************************)
(* A run that fails.                                                       *)
(***************************************************************************)

LEMMA FirstRunInit == Init => FirstRun
<1>. SUFFICES ASSUME Init
              PROVE  Undone /\ FailureRestores
  BY DEF FirstRun
<1>1. PICK inMain \in {{}, {"committed"}} :
          /\ index = BaseTree(inMain)
          /\ wt = [index EXCEPT ![Log] = IF opts.scanned THEN @ \cup {"scan"} ELSE @]
          /\ \E fixTip \in {NoTree, StaleTree(inMain)} : tip = [main |-> index, fix |-> fixTip]
  BY DEF Init
<1>2. \A f \in Files : NoTrace(f)
  BY <1>1, FixAssumption DEF NoTrace, BaseTree, Paths
<1>3. tip["fix"] # NoTree => Fixed(tip["fix"]) = {}
  BY <1>1, FixAssumption DEF Fixed, StaleTree, Paths
<1>4. wt[Log] = LogBefore
  BY <1>1 DEF LogBefore, BaseTree, Paths
<1>. QED
  BY <1>2, <1>3, <1>4 DEF Init, Undone, FailureRestores, BeforeBranch, Writing

LEMMA FirstRunStep ==
    ASSUME \A o \in Situations : o.readable
    PROVE  Base /\ FirstRun /\ [Next]_vars => FirstRun'
<1>. SUFFICES ASSUME Base, FirstRun, [Next]_vars, runs' = 1
              PROVE  Undone' /\ FailureRestores'
  BY DEF FirstRun
<1>. USE FixAssumption DEF Base, FirstRun, Undone, FailureRestores, NoTrace, Fixed, LogBefore,
           BeforeBranch, Writing, HeadTree,
           repoVars, remoteVars, runVars, outcomeVars, envVars
<1>1. CASE CheckClean
  BY <1>1 DEF CheckClean, Branches, Values, Trees, OnBranch, Dirty
<1>2. CASE Resolve
  BY <1>2 DEF Resolve, Branches, Values, Trees, OnBranch
<1>3. CASE TestsPass
  BY <1>3 DEF TestsPass, Branches, Values, Trees, OnBranch
<1>4. CASE StopEarly
  BY <1>4 DEF StopEarly, Branches, Values, Trees, OnBranch
<1>5. CASE TakeSnapshot
  BY <1>5 DEF TakeSnapshot, Branches, Values, Trees, OnBranch
<1>6. CASE CreateBranch
  BY <1>6, CreationInPlace DEF CreateBranch, Branches, Values, Trees, OnBranch, SwitchToFix
<1>7. CASE CreateBranchFails
  BY <1>7, CreationInPlace DEF CreateBranchFails, Branches, Values, Trees, OnBranch, SwitchToFix
<1>8. ASSUME NEW f \in Findings, ApplyFix(f) PROVE Undone' /\ FailureRestores'
  BY <1>8 DEF ApplyFix, Branches, Values, Trees, OnBranch, Proper, Tree, Paths
<1>9. ASSUME NEW f \in Findings, SkipFile(f) PROVE Undone' /\ FailureRestores'
  BY <1>9 DEF SkipFile, Branches, Values, Trees, OnBranch
<1>10. ASSUME NEW f \in Findings, WriteFails(f) PROVE Undone' /\ FailureRestores'
  BY <1>10 DEF WriteFails, Branches, Values, Trees, OnBranch, Proper, Tree, Paths
<1>11. CASE FinishApply
  BY <1>11 DEF FinishApply, Branches, Values, Trees, OnBranch, Recorded, MatchesTests, Proper, Tree, Paths
<1>12. CASE NotAsTested
  BY <1>12 DEF NotAsTested, Branches, Values, Trees, OnBranch
<1>13. CASE Stage
  BY <1>13 DEF Stage, Branches, Values, Trees, OnBranch, ToStage, Proper, Tree, Paths
<1>14. CASE Commit
  BY <1>14 DEF Commit, Branches, Values, Trees, OnBranch, CommitIndex
<1>15. CASE StageOrCommitFails
  BY <1>15 DEF StageOrCommitFails, Branches, Values, Trees, OnBranch, CommitIndex
<1>16. CASE Push
  BY <1>16 DEF Push, Branches, Values, Trees, OnBranch
<1>17. CASE NoPush
  BY <1>17 DEF NoPush, Branches, Values, Trees, OnBranch
<1>18. CASE OpenPullRequest
  BY <1>18 DEF OpenPullRequest, Branches, Values, Trees, OnBranch
<1>19. CASE OpenPullRequestFails
  BY <1>19 DEF OpenPullRequestFails, Branches, Values, Trees, OnBranch
<1>20. CASE RecordPullRequest
  BY <1>20 DEF RecordPullRequest, Branches, Values, Trees, OnBranch, Recorded, Proper, Tree, Paths
<1>21. CASE Reset
  BY <1>21, ResetRestores DEF Reset, Branches, Values, Trees, OnBranch
<1>22. CASE Checkout
  BY <1>22 DEF Checkout, Branches, Values, Trees, OnBranch, AfterRollback, CanCheckout, Switched, Proper, Tree, Paths
<1>23. CASE DeleteBranch
  BY <1>23 DEF DeleteBranch, Branches, Values, Trees, OnBranch, AfterRollback
<1>24. CASE RollbackFails
  BY <1>24 DEF RollbackFails, Branches, Values, Trees, OnBranch, AfterRollback
<1>25. CASE Restore
  BY <1>25 DEF Restore, Branches, Values, Trees, OnBranch, RestoredLog, Proper, Tree, Paths
<1>26. CASE RestoreFails
  BY <1>26 DEF RestoreFails, Branches, Values, Trees, OnBranch
<1>27. CASE Crash
  BY <1>27 DEF Crash, Branches, Values, Trees, OnBranch
<1>28. CASE Rerun
  BY <1>28 DEF Rerun, Branches, Values, Trees, OnBranch
<1>29. CASE OtherAppends
  BY <1>29 DEF OtherAppends, Branches, Values, Trees, OnBranch, Proper, Tree, Paths
<1>30. ASSUME NEW f \in Files, EditFile(f) PROVE Undone' /\ FailureRestores'
  BY <1>30 DEF EditFile, Branches, Values, Trees, OnBranch, Proper, Tree, Paths
<1>31. ASSUME NEW f \in Files, StageFile(f) PROVE Undone' /\ FailureRestores'
  BY <1>31 DEF StageFile, Branches, Values, Trees, OnBranch, Proper, Tree, Paths
<1>32. CASE UNCHANGED vars
  BY <1>32 DEF vars
<1>. QED
  BY <1>1, <1>2, <1>3, <1>4, <1>5, <1>6, <1>7, <1>8, <1>9, <1>10, <1>11, <1>12, <1>13, <1>14, <1>15, <1>16, <1>17, <1>18, <1>19, <1>20, <1>21, <1>22, <1>23, <1>24, <1>25, <1>26, <1>27, <1>28, <1>29, <1>30, <1>31, <1>32 DEF Next, Step, Others

\* FailureRestores holds of the specification when this process can read the
\* log: a run that ends without a commit, and whose rollback met no failing
\* command, leaves no trace of a fix in the working tree or the index, the
\* branch the operator was on, no fix branch of its own, and the log as it was.
THEOREM NoTraceOfFailure ==
    ASSUME \A o \in Situations : o.readable
    PROVE  Spec => []FailureRestores
<1>1. Init => Base /\ FirstRun
  BY BaseInit, FirstRunInit
<1>2. Base /\ FirstRun /\ [Next]_vars => (Base /\ FirstRun)'
  BY BaseStep, FirstRunStep
<1>3. FirstRun => FailureRestores
  BY DEF FirstRun, FailureRestores
<1>. QED
  BY <1>1, <1>2, <1>3, PTL DEF Spec

==============================================================================
