SPECIFICATION Spec
CONSTANTS
    Callers = {}
    MaxData = 1
PROPERTIES
    DeathNoticed
    SendReturns
    AttemptEnds
    Drains
CHECK_DEADLOCK FALSE
