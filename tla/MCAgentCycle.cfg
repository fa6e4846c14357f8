SPECIFICATION MCSpec
CONSTANTS
    sshd = sshd
    fim = fim
    app = app
    a = a
    b = b
    m1 = m1
    m2 = m2
    Absent = Absent
    None = None
    Steps <- MCSteps
    Fim = fim
    Paths = {sshd}
    Contents = {a, b}
    Modes = {m1, m2}
    Results <- MCResults
    Pushing = TRUE
    Floor = 3
    MaxChanges = 2
    MaxFailures = 2
    MaxCrashes = 1
INVARIANTS
    DriftSignalled
PROPERTIES
    PushedBeforeSaved
    NothingSwallowed
    CatchesUp
