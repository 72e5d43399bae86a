SPECIFICATION FairSpec
CONSTANTS
    Requests = {r1, r2}
    Assets = {photo}
    photo = photo
    Accounts = {a1, a2}
    a1 = a1
    a2 = a2
    Asset <- OneUnsupported
    Owner <- FirstOwner
    NoAsset = NoAsset
    NoAccount = NoAccount
    NoJob = NoJob
    Hosts <- HostsEach
    MaxCancels = 1
INVARIANTS
    ImportedForOwner
    CancelReachesEngine
    BackgroundCancelKeepsJob
PROPERTY
    TransferSettles
