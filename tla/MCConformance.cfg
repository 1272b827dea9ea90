CONSTANTS
    Sizes = {1, 2}
    Count <- One
    None = None
    Docs = {d1, d2}
    Workers = {w1, w2}
    Owner = w1
    Texts <- TextsOf
    Configs <- ConfigsOf
    Menu <- PoliteMenu
    MaxCalls = 3
    Initially <- Existing
    Stock <- NoStock
    EmbedDim = 3
    ServerEmbedder = "ours"
    MaxFaults = 0
SPECIFICATION PoliteSpec
PROPERTY TakesEffectAtOnce
CHECK_DEADLOCK FALSE
