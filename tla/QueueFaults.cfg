SPECIFICATION Spec
CONSTANTS
    MaxIds = 2
    MaxJobs = 2
    Accounts = {a1}
    NativeAccounts = {}
    Qualities = {"original"}
    Bytes = {b1, b2}
    InitialOptions <- OneOrTwoWorkers
    OptionSets <- NoOptions
    Networks <- NetworksWiFi
    LegacyContents <- OriginalContents
    SavesMayFail = TRUE
    MaxUserRetries = 0
    MaxCrashes = 1
    CanClose = FALSE
INVARIANTS
    CommitIsDurable
    WorkersMatchStates
    FilesKept
    SeenIsDurable
    NoDuplicateContent
PROPERTIES
    ConcurrencyRespected
    KeepsLedger
