SPECIFICATION Spec
CONSTANTS
    app = app
    db = db
    notes = notes
    Log = Log
    NoTree = NoTree
    Files <- MCFiles
    Findings <- MCFindings
    Situations <- MCSituations
    Careful = TRUE
    MaxEdits = 1
    MaxAppends = 1
    MaxRuns = 2
INVARIANTS
    
    OnlyTestedFixes
    FailureRestores
    RecordsTravelWithFixes
PROPERTIES
    RunEnds
CHECK_DEADLOCK FALSE
