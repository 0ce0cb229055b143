SPECIFICATION Spec
CONSTANTS
    Items <- SomeItems
    MaxFrames = 2
    MaxLen = 2
    MaxPending = 2
INVARIANTS
    BatchAllOrNothing
    PublishedInOrder
PROPERTIES
    ShutdownCompletes
CHECK_DEADLOCK FALSE
