SPECIFICATION Spec
CONSTANTS
    None = None
    Expirer = expirer
    Connections = {c1}
    Events <- ForeignEvents
    Hashes <- MCHashes
    Filters <- MCFilters
    MaxN = 5
PROPERTY
    RemovedForAuthor
