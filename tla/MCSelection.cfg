CONSTANTS
    Sizes = {1, 2, 4}
    None = None
    Count <- Runs
    Requests <- All
SPECIFICATION Spec
INVARIANTS
    TypeOK
    Ledger
    PassageKept
    NoPassageTwice
    EvidenceFlowsUp
    NothingDropped
    ReplayAgrees
    HonorsOptions
    StopsForAReason
    UnexhaustedMeansComplete
    ReadsInOrder
PROPERTIES
    TradesShowMore
CHECK_DEADLOCK FALSE
