SPECIFICATION Spec
CONSTANTS
    Keys = {k1}
    Callers = {p1, p2}
    None = None
    MaxConn = 1
    MaxCount = 1
INVARIANT
    Lockstep
CHECK_DEADLOCK FALSE
