SPECIFICATION Spec
CONSTANTS
    Keys = {k1, k2}
    Callers = {p1, p2}
    None = None
    MaxConn = 3
    MaxCount = 1
SYMMETRY KeySymmetry
INVARIANTS
    TypeOK
    LockstepUnlessRaced
PROPERTIES
    CountersSurvive
    NoRedundantFrame
CHECK_DEADLOCK FALSE
