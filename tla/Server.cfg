SPECIFICATION Spec
CONSTANTS
    Callouts = {q1, q2}
    Equities <- SomeEquities
    Chains <- SomeChains
    MaxSymbols = 2
    NSinks = 2
    TTL = 1
    MaxTime = 1
    MaxTokens = 1
    MaxRestarts = 1
INVARIANTS
    CalloutHonest
    ServesWhole
    NearestOptions
CHECK_DEADLOCK FALSE
