SPECIFICATION Spec
CONSTANTS
    r1 = r1
    r2 = r2
    r3 = r3
    app = app
    web = web
    Nobody = Nobody
    Requests <- MCRequests
    Slugs <- MCSlugs
    SlugOf <- MCSlugOf
    When <- MCWhen
    Size <- MCSize
    MaxScans = 1
    MaxFaults = 1
INVARIANTS
    HistoryBounded
PROPERTIES
    IngestAtomic
CHECK_DEADLOCK FALSE
