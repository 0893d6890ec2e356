SPECIFICATION MCSpec
CONSTANTS
    None = None
    note = note
    other = other
    brief = brief
    wrap = wrap
    k1 = k1
    k2 = k2
    s1 = s1
    s2 = s2
    Scenarios <- SafeScenarios
    Events = {note, other, wrap}
    Ephemeral = {}
    Rumors = {wrap}
    Addressees <- MCAddressees
    Keys = {k1, k2}
    RumorChoices = {TRUE, FALSE}
    Subs = {s1}
    FilterLists <- AllLists
    ChannelCap = 1
    BroadcastCap = 1
    MaxReq = 2
CHECK_DEADLOCK FALSE
INVARIANTS
    TypeOK
    NoGap
    GiftWrapsGuarded
