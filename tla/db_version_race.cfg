SPECIFICATION Spec
CONSTANTS
    None = None
    Expirer = expirer
    Connections = {c1, c2}
    Events <- TwoVersions
    Hashes <- MCHashes
    Filters <- MCFilters
    MaxN = 5
SYMMETRY Symmetry
INVARIANT
    OneVersion
