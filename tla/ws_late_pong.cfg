SPECIFICATION Spec
CONSTANTS
    None = None
    Timeout = 2
    MaxInbox = 2
CHECK_DEADLOCK FALSE
INVARIANT
    NoResponseMeansSilence
