SPECIFICATION Spec
CONSTANTS
    Campaigns = {c1}
    Suites = {s1, s2}
    Models = {m1}
    Handlers = {h1, h2}
    Jobs = {j1, j2}
    Kinds = {"sweep", "single", "retryFailed", "retryUnits", "resume"}
    MaxRequests = 3
    MaxEdits = 1
    MaxCancels = 1
    MaxRestarts = 1
    None = None
SYMMETRY Symmetry
INVARIANTS
    TypeOK
    RunningIsOwned
    OneSettler
    SettledIsOver
CHECK_DEADLOCK FALSE
