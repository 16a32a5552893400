SPECIFICATION UndisturbedSpec
CONSTANTS
    None = none
    Routed = {}
    Logged = {n1, n2}
    Alike = {}
    Models = {{n1}, {n2}}
    Offset = 0
    HoursPerDay = 1
    DetailDays = 1
    Community = 1
    Targets = {2}
    MaxTime = 2
INVARIANT HourlyKeepsHistory
CHECK_DEADLOCK FALSE
