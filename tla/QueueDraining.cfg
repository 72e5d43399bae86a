SPECIFICATION FairSpec
CONSTANTS
    MaxIds = 2
    MaxJobs = 2
    Accounts = {a1}
    NativeAccounts = {}
    Qualities = {"original"}
    Bytes = {b1, b2}
    InitialOptions <- OneWorkerOneRetry
    OptionSets <- NoOptions
    Networks <- NetworksUpDown
    LegacyContents <- NoContents
    SavesMayFail = FALSE
    MaxUserRetries = 0
    MaxCrashes = 1
    CanClose = FALSE
PROPERTIES
    QueueDrains
    CancelSettles
