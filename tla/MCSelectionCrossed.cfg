CONSTANTS
    Sizes = {1, 2, 4}
    None = None
    Count <- Runs
    Requests <- Racing
SPECIFICATION Spec
INVARIANTS
    NeverCrossesGenerations
CHECK_DEADLOCK FALSE
