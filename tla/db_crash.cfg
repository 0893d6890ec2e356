SPECIFICATION FairCrashSpec
CONSTANTS
    None = None
    Expirer = expirer
    Connections = {c1}
    Events <- BothEvents
    Hashes <- MCHashes
    Filters <- MCFilters
    MaxN = 6
PROPERTIES
    TombstonesFinal
    ExpiringGone
