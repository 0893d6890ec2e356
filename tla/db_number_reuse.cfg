SPECIFICATION CrashSpec
CONSTANTS
    None = None
    Expirer = expirer
    Connections = {c1}
    Events <- ReuseEvents
    Hashes <- MCHashes
    Filters <- MCFilters
    MaxN = 5
INVARIANT
    ServedMatch
