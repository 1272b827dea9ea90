CONSTANTS
    Sizes = {2, 4, 8}
    None = None
    Count <- Runs
    Generations <- QuietOrRacing
    MaxHits = 3
SPECIFICATION Spec
INVARIANTS
    TilesAtEverySize
    DescendantsAreTheNested
    NestingIsFound
    StaleParentsAreTold
    NamesAreInjective
CHECK_DEADLOCK FALSE
