SPECIFICATION Spec
CONSTANTS
    w1 = w1
    w2 = w2
    w3 = w3
    ignore = ignore
    exception = exception
    fix = fix
    NoWriter = NoWriter
    Keys <- MCKeys
    Writers <- TwoCalls
    Batches <- WithRefused
    MaxRead = 2
    ChunkLines = 2
    MaxTampers = 1
INVARIANTS
    TamperDetected
    AnchorProtects
PROPERTIES
    AppendReturns
CHECK_DEADLOCK FALSE
