CONSTANTS
    Sizes = {1, 2}
    Count <- One
    None = None
    Docs = {d1}
    Workers = {w1}
    Owner = w1
    Texts <- TextsOf
    Configs <- ConfigsOf
    Menu <- PinnedMenu
    MaxCalls = 2
    Initially <- Nothing
    Stock <- NoStock
    EmbedDim = 3
    ServerEmbedder = "ours"
    MaxFaults = 0
SPECIFICATION FairSpec
INVARIANT PinnedEmbedder
CHECK_DEADLOCK FALSE
