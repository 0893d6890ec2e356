SPECIFICATION FairSpec
CONSTANTS
    None = None
    Times <- MCTimes
    KeysOf <- MCKeysOf
    Written <- MCWritten
    Filters <- MCFilters
    Batch = 2
    MaxU64 = 9
INVARIANT
    TypeOK
PROPERTIES
    KeepsPromise
    Ends
