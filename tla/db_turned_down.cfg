SPECIFICATION Spec
CONSTANTS
    None = None
    Expirer = expirer
    Connections = {c1}
    Events <- TwoVersions
    Hashes <- MCHashes
    Filters <- MCFilters
    MaxN = 4
INVARIANT
    HaveMeansStored
