SPECIFICATION Spec
CONSTANTS
    None = None
    c1 = c1
    c2 = c2
    c3 = c3
    c4 = c4
    c5 = c5
    c6 = c6
    x = x
    y = y
    Calls = {c1, c2, c3}
    EventOf <- TwoEvents
    InputCap = 3
    PipeCap = 1
    MaxHeld = 1
    MaxStarts = 2
    Verdicts = {"ok"}
CHECK_DEADLOCK FALSE
INVARIANT
    AskerWaits
