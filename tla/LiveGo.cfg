CONSTANTS
    LastSession = 1
    Variants = {1}
    MaxRevision = 0
    None = None
    MaxClicks = 0
    MaxLosses = 0
SPECIFICATION Spec
CHECK_DEADLOCK FALSE
INVARIANTS
    NotFoundMeansForeign
