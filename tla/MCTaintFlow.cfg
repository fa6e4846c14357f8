SPECIFICATION Spec
CONSTANTS
 MaxItems = 4
 MaxStr = 3
 MaxExprDepth = 9
 MaxStmtDepth = 4
 LoopRounds = 3
 MaxSteps = 1000
 Trusted = {}
 Sanitizers = {}
 MaxIterations = 3
 Inputs <- MCInputs
 MaxInline = 3
 LoopDepth = 2
 MaxScanLine = 12
 WindowOverlap = 6
 FixedLength = 3
 OpenLength = 2
 MinValue = 2
 Lead = 1
 Short = 2
 MaxAdded = 9
 MaxSize = 3
 Themes = {"branches", "loops", "guards", "containers", "cleaning", "constants", "nesting", "flows", "checks", "calls", "tools", "roles", "shapes", "schemas", "js flows", "js checks", "js calls", "js tools", "js roles", "secret lines", "secret history"}
 Larger = {"nesting", "cleaning"}
INVARIANTS  OnlyLiveCodeFlagged DangerTold OnlyDangerTold 
CHECK_DEADLOCK FALSE
