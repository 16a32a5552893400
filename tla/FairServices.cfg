SPECIFICATION FairSpec
CONSTANTS
    None = none
    Sources = {codex}
    Intervals = {1}
    MinInterval = 1
    FallbackInterval = 2
    MaxMarks = 2
    MaxEpoch = 0
    MaxAge = 1
    Owners = {"A", "B"}
    MaxLines = 2
    MaxTotal = 1
    MaxFiles = 1
    MaxWrites = 2
    MaxCommands = 1
    MaxBindings = 1
    Requests = {r1}
    p1 = p1
    p2 = p2
    Providers = {p1, p2}
    Models = {m1}
    Whole = whole
    Subscription = subscription
    Capacity = 1
    ShortCooldown = 1
    LongCooldown = 1
    Uploads = {u1}
    Downloads = {d1}
    MaxWait = 3
PROPERTIES EveryWriteIsRead ShutdownEnds EveryUseIsStored EveryRequestEnds
    EveryChangeIsDealtWith
CHECK_DEADLOCK FALSE
