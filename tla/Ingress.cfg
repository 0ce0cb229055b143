SPECIFICATION Spec
CONSTANTS
    Readers = {r1}
    MaxClients = 3
    MaxAttempt = 8
INVARIANTS
    TypeOK
    NoClientLeaked
    StatusHonest
    ReconnectVisible
PROPERTIES
    BackoffBounded
    StatusSafety
    StatusRefines
    ReconnectsAfterDrop
    LossReportedUnlessAbandoned
    ReadersAnswered
CHECK_DEADLOCK FALSE
