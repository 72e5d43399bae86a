SPECIFICATION FairSpec
CONSTANTS
    one = one
    two = two
    a = a
    b = b
    Attempts = {one, two}
    CoreLimit = 2
    Builds = {"daemon", "embedded"}
    Identities = {a, b}
    NoIdentity = NoIdentity
    MaxRevision = 2
    MaxEvents = 2
INVARIANTS
    NoUseAfterFree
    RightsBalanced
    QuietMeansCurrent
    AcknowledgedIsPending
    NotBehindSession
PROPERTIES
    ConditionsConverge
    CompletionIsNoticed
