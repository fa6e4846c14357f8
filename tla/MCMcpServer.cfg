SPECIFICATION Spec
CONSTANTS
    App = App
    Lib = Lib
    Etc = Etc
    MaxCalls = 2
    Threads <- MCThreads
    Builtin <- MCBuiltin
    EntryPoints <- MCEntryPoints
    Classes <- MCClasses
    Denied = {}
    Nothing = Nothing
    Files = {App, Lib, Etc}
    Home <- MCHome
    FileAt <- MCFileAt
    Texts <- MCTexts
    Gone = Gone
    Start <- MCStart
    Changes <- MCChanges
    Rules <- MCRules
    Unknown = Unknown
    Requests <- MCRequests
    Offline = TRUE
    MaxStored = 3
    MaxEdits = 1
INVARIANTS   FixFits SameScanners
PROPERTIES CallsReturn
CHECK_DEADLOCK FALSE
