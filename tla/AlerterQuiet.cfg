SPECIFICATION Spec
CONSTANTS
    e1 = e1
    e2 = e2
    acme = acme
    None = None
    Endpoints = {e1, e2}
    Families = {acme}
    FamilyOf <- OneVendor
    Vendors = {acme}
    DownThreshold = 1
    Window = 1
    DayLength = 4
    QuietSettings <- NightOrNot
    MaxRows = 2
    MaxDrops = 1
    MaxEdits = 1
    MaxFaults = 1
    MaxRestarts = 1
    MaxLate = 1
    Horizon = 4
SYMMETRY Interchangeable
INVARIANTS
    FlagsMatchLog
    ToldAtMostOnce
    DropsLeaveInTheMorning
    BuffersAwaitFlush
CHECK_DEADLOCK FALSE
