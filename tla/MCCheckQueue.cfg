CONSTANTS
    Checks = {1, 2, 3, 4}
    Workers = {w1, w2}
    Master = m
    nBatchSize = 2
SPECIFICATION FairSpec
INVARIANTS
    TypeOK
    TodoCountsOutstanding
    VerdictCorrect
    NothingLeftBehind
PROPERTY WaitReturns
ACTION_CONSTRAINT InOrder
