SPECIFICATION Spec
CONSTANTS
    Keys = {k1}
    Uuids = {u1, u2, u3}
    Secrets = {s1, s2}
    Procs = {p1, p2}
    Readers = {r1}
    Reconciler = reconciler
    None = none
    MaxCrashes = 1
SYMMETRY Symmetry
CHECK_DEADLOCK FALSE
INVARIANTS
    TypeOK
    ActiveSecretPresent
    NoStrandedSecret
    UsageMatchesCredential
    DeletedKeyLeavesNothing
PROPERTY ImplementsRegister
