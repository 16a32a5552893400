SPECIFICATION AllSpec
CONSTANTS
    None = none
    Sources = {codex}
    Intervals = {1, 2}
    MinInterval = 1
    FallbackInterval = 6
    MaxMarks = 2
    MaxEpoch = 2
    MaxAge = 2
    r1 = r1
    r2 = r2
    Requests = {r1, r2}
    p1 = p1
    p2 = p2
    p3 = p3
    Providers = {p1, p2, p3}
    m1 = m1
    m2 = m2
    m3 = m3
    Models = {m1, m2, m3}
    Whole = whole
    Subscription = subscription
    Capacity = 1
    MaxUpdates = 2
    MaxDays = 1
    ShortCooldown = 1
    LongCooldown = 1
CHECK_DEADLOCK FALSE
INVARIANTS TypeOK UnreadIsAnnounced NothingOutlivesShutdown SentWhereAdmitted RowTellsOutcome
    DrainedIsAudited ChangeIsShown NoStuckProgress
PROPERTY PassesApart FailedProviderRests
