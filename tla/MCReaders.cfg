CONSTANTS
    Sizes = {1, 2}
    Count <- One
    None = None
    Docs = {1, 2}
    Workers = {w1}
    Texts <- TextsOf
    Configs <- ConfigsOf
    Menu <- MenuOf
    MaxCalls = 2
    Initially <- Existing
    Stock <- StockOf
    EmbedDim = 3
    ServerEmbedder = "ours"
    MaxFaults = 1
    Readers = {r1}
    Asks <- AsksOf
    MaxReads = 1
    PageSize = 1
SPECIFICATION FairReadSpec
INVARIANTS ServesThePromise UnmarkedIsComplete NeverVanishes AncestorsAtHand
    FusedByRank FitForSelection ListedOnce InspectAccounts AnswersAsMemory
PROPERTIES ReadsEnd
CHECK_DEADLOCK FALSE
