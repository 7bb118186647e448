CONSTANTS
    LastSession = 1
    Variants = {1}
    MaxRevision = 0
    None = None
    Steers <- MCSteers
    a1 = a1
    a2 = a2
    Agents <- MCAgents
    Streams <- MCStreams
    Lane <- MCLane
    MaxRestarts = 1
    MaxFailures = 1
SPECIFICATION FairSpec
CHECK_DEADLOCK FALSE
INVARIANTS
    TypeOK
    ClaimedOnce
    PollsAreServed
    OwedGenerateIsQueued
    NoGhostGeneration
PROPERTIES
    KeepsThePromise
    QueueDrains
