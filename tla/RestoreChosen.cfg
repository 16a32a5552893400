SPECIFICATION Spec
CONSTANTS
    Uses = {x}
    Keys = {k1}
    Slots = {s1}
    None = none
    Blank = blank
    Retain = 3
    MaxCopies = 2
CHECK_DEADLOCK FALSE
INVARIANT RestoredIsChosen
