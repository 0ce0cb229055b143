SPECIFICATION Spec
CONSTANTS
    Keys = {k1, k2}
    MaxEvents = 3
    MaxCalls = 4
SYMMETRY KeySymmetry
INVARIANTS
    CountTracksPublished
    SnapshotCoherent
CHECK_DEADLOCK FALSE
