SPECIFICATION Spec
CONSTANTS
    f1 = f1
    f2 = f2
    f3 = f3
    app = app
    db = db
    Artifacts = Artifacts
    NoWorktree = NoWorktree
    Fixes <- MCFixes
    FileOf <- MCFileOf
INVARIANTS
    PassedTogether
    EveryFixJudged
    WorktreeRemoved
CHECK_DEADLOCK FALSE
