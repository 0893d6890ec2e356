SPECIFICATION Spec
CONSTANTS
    None = None
    Events <- NoteEvents
    Banned <- MCNobody
    Admin = None
    BlockNotes = TRUE
    HasPlugin = FALSE
    MaxTime = 0
CHECK_DEADLOCK FALSE
INVARIANT
    WritesRestricted
