SPECIFICATION NLSpec
CONSTANTS
    Clients = {a}
    NLClients = {a}
    Providers = {"anthropic", "openai", "gemini"}
    Default = "anthropic"
    Specs <- SomeSpecs
    Equities <- SomeEquities
    Chains <- SomeChains
    Pairs <- SomePairs
    MaxCalls = 1
INVARIANT
    ResolvesDocumented
CHECK_DEADLOCK FALSE
