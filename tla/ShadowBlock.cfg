SPECIFICATION Spec
CONSTANTS
    Direction = {"read"}
    MaxCommands = 3
INVARIANTS AckedBeforeDone
CHECK_DEADLOCK FALSE
