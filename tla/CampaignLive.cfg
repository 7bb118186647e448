SPECIFICATION FairSpec
CONSTANTS
    Campaigns = {c1}
    Suites = {s1}
    Models = {m1, m2}
    Handlers = {h1}
    Jobs = {j1, j2}
    Kinds = {"weekly", "liveRetry", "resume"}
    MaxRequests = 3
    MaxEdits = 0
    MaxCancels = 1
    MaxRestarts = 0
    None = None
PROPERTIES
    DroppedCellsFail
    CampaignsSettle
CHECK_DEADLOCK FALSE
