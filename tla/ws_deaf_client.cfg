SPECIFICATION FairSpec
CONSTANTS
    None = None
    Timeout = 2
    MaxInbox = 2
CHECK_DEADLOCK FALSE
PROPERTY
    DeafClosed
