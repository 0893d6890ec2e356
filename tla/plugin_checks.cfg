SPECIFICATION OrderedSpec
CONSTANTS
    None = None
    c1 = c1
    c2 = c2
    c3 = c3
    c4 = c4
    c5 = c5
    c6 = c6
    x = x
    y = y
    Calls = {c1, c2, c3, c4}
    EventOf <- TwoEvents
    InputCap = 1
    PipeCap = 1
    MaxHeld = 2
    MaxStarts = 2
    Verdicts = {"ok", "unreadable"}
CHECK_DEADLOCK FALSE
INVARIANTS
    TypeOK
    AnswersBelong
PROPERTY
    ReturnOrHeldUp
