SPECIFICATION FairSpec
CONSTANTS
    Identities = {u1, u2}
    Emails = {m1, m2}
    u1 = u1
    u2 = u2
    m1 = m1
    m2 = m2
    Email <- OwnEmail
    UsedEmails = {}
    SavesFail = FALSE
    NoIdentity = NoIdentity
    NoEmail = NoEmail
    Absent = Absent
    Legacy = Legacy
    PortLimit = 1
    MaxRestarts = 1
    PanelUsed = FALSE
INVARIANTS
    BearerIsOwn
PROPERTIES
    ConnectedIsCurrent
    ConnectingEnds
    SignOutIsCleared
    AuthorizationReturns
