SPECIFICATION Spec
CONSTANTS
    None = None
    Expirer = expirer
    Connections = {c1, c2}
    Events <- RaceEvents
    Hashes <- MCHashes
    Filters <- MCFilters
    MaxN = 8
SYMMETRY Symmetry
INVARIANTS
    TypeOK
    ServedMatch
    NumbersOwned
PROPERTIES
    NeverOverwritten
