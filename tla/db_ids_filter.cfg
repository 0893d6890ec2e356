SPECIFICATION Spec
CONSTANTS
    None = None
    Expirer = expirer
    Connections = {c1}
    Events <- ReuseEvents
    Hashes <- MCHashes
    Filters <- IdsAndKinds
    MaxN = 5
INVARIANT
    ServedMatch
