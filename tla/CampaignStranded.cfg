SPECIFICATION Spec
CONSTANTS
    Campaigns = {c1}
    Suites = {s1}
    Models = {m1}
    Handlers = {h1}
    Jobs = {j1}
    Kinds = {"weekly", "retryUnits"}
    MaxRequests = 2
    MaxEdits = 1
    MaxCancels = 0
    MaxRestarts = 0
    None = None
SYMMETRY Symmetry
INVARIANTS
    NoCampaignIsStranded
CHECK_DEADLOCK FALSE
