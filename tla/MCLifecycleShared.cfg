CONSTANTS
    Sizes = {1, 2}
    Count <- One
    None = None
    Docs = {d1, d2}
    Workers = {w1, w2}
    Owner = w1
    Texts <- TextsOf
    Configs <- ConfigsOf
    Menu <- SharedMenu
    MaxCalls = 2
    Initially <- Either
    Stock <- NoStock
    EmbedDim = 3
    ServerEmbedder = "ours"
    MaxFaults = 1
SPECIFICATION Spec
INVARIANTS PromiseKept RegistryStands
PROPERTIES BatchGoesOn
CHECK_DEADLOCK FALSE
