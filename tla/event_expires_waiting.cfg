SPECIFICATION Spec
CONSTANTS
    None = None
    Events <- ExpiringEvents
    Banned <- MCNobody
    Admin <- P2
    BlockNotes = FALSE
    HasPlugin = TRUE
    MaxTime = 1
CHECK_DEADLOCK FALSE
PROPERTY
    ExpiredRefused
