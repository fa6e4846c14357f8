SPECIFICATION Spec
CONSTANTS
    app = app
    db = db
    notes = notes
    Log = Log
    NoTree = NoTree
    Files <- MCFiles
    Findings <- MCFindings
    Situations <- MCSituations
    Careful = TRUE
    MaxEdits = 1
    MaxAppends = 0
    MaxRuns = 1
PROPERTIES
    EditsKept
CHECK_DEADLOCK FALSE
