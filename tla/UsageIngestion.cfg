SPECIFICATION Spec
CONSTANTS
    Owners = {"A"}
    MaxLines = 2
    MaxTotal = 2
    MaxFiles = 2
    MaxWrites = 4
    MaxCommands = 1
    MaxBindings = 0
INVARIANT WatermarkIsStored
CHECK_DEADLOCK FALSE
