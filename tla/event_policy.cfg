SPECIFICATION FairSpec
CONSTANTS
    None = None
    Events <- PolicyEvents
    Banned <- MCBanned
    Admin <- P2
    BlockNotes = TRUE
    HasPlugin = TRUE
    MaxTime = 1
CHECK_DEADLOCK FALSE
INVARIANTS
    TypeOK
    WritesRestricted
    MaliciousDeserved
PROPERTIES
    EventAnswered
