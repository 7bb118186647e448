SPECIFICATION FairSpec
CONSTANTS
    r1 = r1
    Runs = {r1}
    NCells = 2
    RunOf <- SameRun
    NCases <- TwoThenOne
    Jury = 2
    ExamWorkers = {w1, w2}
    JudgeWorkers = {g1, g2}
    Breaker = 1
    AbortCells = 1
    HasBudget = TRUE
INVARIANTS
    TypeOK
    DoneRunsAreComplete
    IncompleteRunsFail
PROPERTIES
    BatchReturns
    CancelEndsBatch
CHECK_DEADLOCK FALSE
