SPECIFICATION Spec
CONSTANTS
    regex = regex
    ast = ast
    secrets = secrets
    semgrep = semgrep
    trivy = trivy
    any = any
    none = none
    broken = broken
    Broken = broken
    top = top
    Regex = regex
    Ast = ast
    Secrets = secrets
    ChainScanner = "chains"
    Owned = {"CWE-89"}
    InjectionCwes = {"CWE-78", "CWE-89"}
    NoCwe = none
    Wildcard = any
    None = none
    Root <- MCRoot
    Up = top
    Unsafe = unsafe
    AtRoot = atroot
    Scanners <- MCScanners
    ProfileScanners <- MCProfiles
    Problems <- MCProblems
    Commands <- MCCommands
    Trees <- MCTrees
    RefSettings <- MCRef
    Entries <- MCEntries
    MaxDay = 1
    MaxEntries = 2
    MaxResults = 20
    NoRun = norun
INVARIANTS
    
    ImportAccounted
    GatesAgree
    TreeHasNoSay
CHECK_DEADLOCK FALSE
