SPECIFICATION CrashSpec
CONSTANTS
    None = None
    x1 = x1
    x2 = x2
    x3 = x3
    note = note
    Events = {x1, note}
    ExpiresAt <- MCExpiresAt
    Connections = {c1}
    ChannelCap = 1
    MaxN = 2
    MaxTime = 3
    MaxCrashes = 1
CHECK_DEADLOCK FALSE
PROPERTIES
    RemovedRightly
