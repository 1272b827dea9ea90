CONSTANTS
    Calls = {c1, c2}
    Large = c1
    TextCount <- TextCountOf
    BatchSize = 2
    MaxConcurrency = 2
    Attempts = 2
    MaxFaults = 2
SPECIFICATION FairSpec
INVARIANTS InputOrder FailsForAReason FewMisses
PROPERTIES Drains
CHECK_DEADLOCK FALSE
