SPECIFICATION FairSpec
CONSTANTS
    r1 = r1
    Runs = {r1}
    NCells = 1
    RunOf <- OneCell
    NCases <- OneCase
    Jury = 2
    ExamWorkers = {w1}
    JudgeWorkers = {g1}
    Breaker = 1
    AbortCells = 2
    HasBudget = TRUE
PROPERTIES
    BudgetEndsBatch
CHECK_DEADLOCK FALSE
