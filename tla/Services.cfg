SPECIFICATION Spec
CONSTANTS
    None = none
    Commands = {c1, c2}
    Selections = {"a"}
    MaxBackups = 2
    Urls = {"own", "other"}
    Accounts = {a1, a2}
    Procs = {p1, p2}
    MaxLogins = 2
    MaxRotations = 1
    Owners = {"A"}
    MaxLines = 2
    MaxTotal = 2
    MaxFiles = 2
    MaxWrites = 3
    MaxCommands = 1
    MaxBindings = 0
    Uploads = {u1}
    Downloads = {d1}
    MaxWait = 3
    Devices = {m1, m2}
    MaxEdits = 2
    MaxCalls = 2
    Callers = {l1, l2}
    Startup = startup
    Licenses = {"free", "pro"}
    MaxChanges = 3
    Routed = {q1}
    Logged = {n1}
    Alike = {{q1, n1}}
    Models = {{q1, n1}}
    Offset = 1
    HoursPerDay = 1
    DetailDays = 1
    Community = 1
    Targets = {2}
    MaxTime = 4
    Counted = {x}
    NamedKeys = {k1}
    Slots = {s1}
    Blank = blank
    Retain = 3
    MaxCopies = 2
INVARIANTS UserSettingsKept TakeoverSaved RemovedStaysAway FileKeepsUp
    NothingElseSkipped AmountsAreRight ChangeIsAnnounced AppliedIsWhole
    NothingHalfApplied Settled AckIsDelivered
    RecordsCount HourlyMatchesDetails SecretsKeepTheirRow
    SafetyBackupIsThere
PROPERTIES SelectionRestored GrantedIsKept
CHECK_DEADLOCK FALSE
