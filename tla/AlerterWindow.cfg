SPECIFICATION FairSpec
CONSTANTS
    e1 = e1
    e2 = e2
    acme = acme
    None = None
    Endpoints = {e1, e2}
    Families = {acme}
    FamilyOf <- OneVendor
    Vendors = {acme}
    DownThreshold = 2
    Window = 1
    DayLength = 4
    QuietSettings <- NightOnly
    MaxRows = 7
    MaxDrops = 0
    MaxEdits = 0
    MaxFaults = 0
    MaxRestarts = 1
    MaxLate = 0
    Horizon = 2
INVARIANTS
    TypeOK
    LastOutageIsOnACard
    GroupFollowsMembers
PROPERTIES
    OutageReportedOnce
    BufferIsFlushed
CHECK_DEADLOCK FALSE
