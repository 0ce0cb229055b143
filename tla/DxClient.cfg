SPECIFICATION Spec
CONSTANTS
    Callers = {p1}
    MaxData = 3
INVARIANTS
    NilMeansWritten
PROPERTIES
    HandshakeInOrder
    DeliveredInOrder
CHECK_DEADLOCK FALSE
