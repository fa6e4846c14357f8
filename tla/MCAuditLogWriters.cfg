SPECIFICATION Spec
CONSTANTS
    w1 = w1
    w2 = w2
    w3 = w3
    ignore = ignore
    exception = exception
    fix = fix
    NoWriter = NoWriter
    Keys <- MCKeys
    Writers <- ThreeCalls
    Batches <- ScansAndFixes
    MaxRead = 2
    ChunkLines = 2
    MaxTampers = 0
SYMMETRY CallSymmetry
INVARIANTS
    ChainExtended
    RecordedOnce
    WrittenIsThere
PROPERTIES
    NoSilentLoss
    DamageStays
    ImplementsTrail
CHECK_DEADLOCK FALSE
