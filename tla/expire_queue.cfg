SPECIFICATION FairSpec
CONSTANTS
    None = None
    x1 = x1
    x2 = x2
    x3 = x3
    note = note
    Events = {x1, x2, x3}
    ExpiresAt <- MCExpiresAt
    Connections = {c1, c2}
    ChannelCap = 1
    MaxN = 3
    MaxTime = 3
    MaxCrashes = 0
CHECK_DEADLOCK FALSE
INVARIANTS
    TypeOK
PROPERTIES
    RemovedRightly
    ExpiringGone
    HandOverEnds
