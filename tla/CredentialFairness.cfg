SPECIFICATION FairSpec
CONSTANTS
    Keys = {k1}
    Uuids = {u1, u2}
    Secrets = {s1}
    Procs = {p1}
    Readers = {r1}
    Reconciler = reconciler
    None = none
    MaxCrashes = 1
CHECK_DEADLOCK FALSE
PROPERTIES EveryCallReturns JournalDrains
