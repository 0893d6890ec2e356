SPECIFICATION WorkingSpec
CONSTANTS
    None = None
    c1 = c1
    c2 = c2
    c3 = c3
    c4 = c4
    c5 = c5
    c6 = c6
    x = x
    y = y
    Calls = {c1, c2, c3, c4, c5, c6}
    EventOf <- OneEvent
    InputCap = 1
    PipeCap = 1
    MaxHeld = 1
    MaxStarts = 1
    Verdicts = {"ok"}
CHECK_DEADLOCK FALSE
PROPERTY
    ChecksReturn
