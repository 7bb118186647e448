CONSTANTS
    LastSession = 1
    Variants = {1}
    MaxRevision = 0
    None = None
    MaxClicks = 1
    MaxLosses = 1
SPECIFICATION FairSpec
CHECK_DEADLOCK FALSE
INVARIANTS
    TypeOK
    FreedOnceDurable
PROPERTIES
    GenerationReachesPage
    SavingEnds
    LostGoIsReleased
