SPECIFICATION Spec
CONSTANTS
    None = None
    Events <- ExpiringEvents
    Banned <- MCNobody
    Admin = None
    BlockNotes = FALSE
    HasPlugin = FALSE
    MaxTime = 0
CHECK_DEADLOCK FALSE
INVARIANT
    HandedOver
