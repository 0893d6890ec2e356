SPECIFICATION TurnsSpec
CONSTANTS
    None = None
    Expirer = expirer
    Connections = {c1}
    Events <- AllEvents
    Hashes <- MCHashes
    Filters <- MCFilters
    MaxN = 14
INVARIANTS
    IndexExact
    StoredIsHave
    OneVersion
    NewestKept
    DeletionHonoured
    LossJustified
PROPERTIES
    RemovedForAuthor
    CallsReturn
    ImplementsStore
