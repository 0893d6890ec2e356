SPECIFICATION FairSpec
CONSTANTS
    None = None
    Timeout = 2
    MaxInbox = 3
CHECK_DEADLOCK FALSE
INVARIANTS
    TypeOK
    NoResponseDeserved
    SilenceBounded
PROPERTIES
    SilentClosed
