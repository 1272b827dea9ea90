CONSTANTS
    Sizes = {1, 2}
    Count <- One
    None = None
    Docs = {d1}
    Workers = {w1}
    Owner = w1
    Texts <- TextsOf
    Configs <- ConfigsOf
    Menu <- AloneMenu
    MaxCalls = 5
    Initially <- Nothing
    Stock <- NoStock
    EmbedDim = 3
    ServerEmbedder = "ours"
    MaxFaults = 2
SPECIFICATION Spec
INVARIANTS TypeOK PromiseKept NoGap HealthHeals
PROPERTY CreatedIsHealthy
CHECK_DEADLOCK FALSE
