SPECIFICATION Spec
CONSTANTS
    MaxIds = 2
    MaxJobs = 2
    Accounts = {a1}
    NativeAccounts = {}
    Qualities = {"original"}
    Bytes = {b1}
    InitialOptions <- OneWorker
    OptionSets <- NoOptions
    Networks <- NetworksWiFi
    LegacyContents <- NoContents
    SavesMayFail = FALSE
    MaxUserRetries = 0
    MaxCrashes = 0
    CanClose = FALSE
PROPERTY
    DroppedForLiveJob
