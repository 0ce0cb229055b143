SPECIFICATION Spec
CONSTANTS
    Callers = {p1, p2, p3}
    NoOne = NoOne
    Grants = {0, 2, 5}
    Default = 4
    Skew = 2
    MaxTime = 9
INVARIANTS
    TypeOK
    CachedTokenAlive
PROPERTIES
    NoNeedlessRefresh
    CallsReturn
CHECK_DEADLOCK FALSE
