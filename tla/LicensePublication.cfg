SPECIFICATION Spec
CONSTANTS
    Callers = {l1, l2}
    Startup = startup
    Licenses = {"free", "pro"}
    None = none
    MaxChanges = 3
INVARIANT WindowKeepsUp
CHECK_DEADLOCK FALSE
