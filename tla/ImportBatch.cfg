SPECIFICATION Spec
CONSTANTS
    picker = picker
    backup = backup
    photo = photo
    Importers = {picker, backup}
    Nobody = Nobody
    Items = {photo}
    Size <- OneChunk
    Changing = {picker}
    MaxIds = 2
    MaxJobs = 2
    PortLimit = 2
    WritesFail = TRUE
    MaxRestarts = 1
    Batch = picker
    Selection <- SameTwice
INVARIANTS
    SealedIsWhole
    NothingLeftBehind
    ReturnedIsKept
    ShownIsQueued
PROPERTY
    ImportHeedsOwner
