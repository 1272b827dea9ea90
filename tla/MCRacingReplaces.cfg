CONSTANTS
    Sizes = {1, 2}
    Count <- One
    None = None
    Docs = {d1}
    Workers = {w1, w2}
    Owner = w1
    Texts <- TextsOf
    Configs <- ConfigsOf
    Menu <- ReplaceMenu
    MaxCalls = 1
    Initially <- Existing
    Stock <- NoStock
    EmbedDim = 3
    ServerEmbedder = "ours"
    MaxFaults = 0
SPECIFICATION FairSpec
INVARIANT OneGenerationAtRest
CHECK_DEADLOCK FALSE
