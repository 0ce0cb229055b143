SPECIFICATION Spec
CONSTANTS
    Requests = {r1, r2, r3}
SYMMETRY RequestSymmetry
INVARIANTS
    TypeOK
    PanicAnswered
    CompleteUnlessOverlapped
    DepthFollowsRequests
CHECK_DEADLOCK FALSE
