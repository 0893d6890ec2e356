SPECIFICATION Spec
CONSTANTS
    None = None
    Expirer = expirer
    Connections = {c1}
    Events <- OddKindEvents
    Hashes <- MCHashes
    Filters <- ControlNames
    MaxN = 5
INVARIANT
    ServedMatch
