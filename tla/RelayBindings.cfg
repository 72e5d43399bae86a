SPECIFICATION Spec
CONSTANTS
    Identities = {u1}
    Emails = {m1}
    u1 = u1
    u2 = u2
    m1 = m1
    m2 = m2
    Email <- OneEmail
    UsedEmails = {m1}
    SavesFail = TRUE
    NoIdentity = NoIdentity
    NoEmail = NoEmail
    Absent = Absent
    Legacy = Legacy
    PortLimit = 1
    MaxRestarts = 1
    PanelUsed = FALSE
INVARIANT
    BindingsPreserved
