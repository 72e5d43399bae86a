SPECIFICATION Spec
CONSTANTS
    Requests = {r1, r2}
    Assets = {photo}
    photo = photo
    Accounts = {a1}
    a1 = a1
    a2 = a2
    Asset <- SameAsset
    Owner <- FirstOwner
    NoAsset = NoAsset
    NoAccount = NoAccount
    NoJob = NoJob
    Hosts <- HostsRouting
    MaxCancels = 1
SYMMETRY Interchangeable
INVARIANTS
    RegistrationsMatch
    SuccessIsConfirmed
    NotEndedEarly
PROPERTY
    NoPayloadWhileReconciling
