SPECIFICATION NLSpec
CONSTANTS
    Clients = {a, b}
    NLClients = {a}
    Providers = {"anthropic", "openai", "gemini"}
    Default = "anthropic"
    Specs <- SomeSpecs
    Equities <- SomeEquities
    Chains <- SomeChains
    Pairs <- SomePairs
    MaxCalls = 3
INVARIANTS
    ResolvesWanted
    FrameDistinct
PROPERTIES
    AppliedIsRegistered
CHECK_DEADLOCK FALSE
