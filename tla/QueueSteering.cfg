SPECIFICATION Spec
CONSTANTS
    MaxIds = 1
    MaxJobs = 1
    Accounts = {a1}
    NativeAccounts = {a1}
    Qualities = {"original"}
    Bytes = {b1}
    InitialOptions <- WiFiRule
    OptionSets <- OptionsSteering
    Networks <- NetworksAll
    LegacyContents <- NoContents
    SavesMayFail = TRUE
    MaxUserRetries = 2
    MaxCrashes = 2
    CanClose = TRUE
INVARIANTS
    NoSilentDuplicate
    InDoubtIsReported
    RunsOnlyWhilePermitted
    BudgetChargesFailures
