SPECIFICATION MCSpec
CONSTANTS
    r1 = r1
    r2 = r2
    regex = regex
    ast = ast
    secrets = secrets
    app = app
    lib = lib
    tainted = tainted
    nested = nested
    noisy = noisy
    all = all
    strict = strict
    none = none
    Regex = regex
    Ast = ast
    Secrets = secrets
    ChainScanner = "chains"
    Owned = {"CWE-89"}
    InjectionCwes = {"CWE-78", "CWE-89"}
    NoCwe = none
    Wildcard = any
    None = none
    Runs = {r1, r2}
    Scanners = {regex, ast, secrets}
    FileLocal = {regex, ast, secrets}
    ContextReaders = {ast}
    Files = {app, lib}
    Texts = {empty, tainted, nested, noisy}
    Empty = empty
    Gone = gone
    Unread = unread
    Configs <- MCConfigs
    Reports <- MCReports
    Comments <- MCComments
    MaxVersion = 1
    MaxEdits = 1
    MaxFaults = 1
SYMMETRY Symmetry
CHECK_DEADLOCK FALSE
INVARIANTS
    CacheSound
    
    Accounted
    GateHolds
