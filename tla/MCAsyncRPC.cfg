SPECIFICATION LiveSpec
CONSTANTS
    a = a
    b = b
    c = c
    w1 = w1
    w2 = w2
    None = None
    Ops <- MCOps
    Locking <- MCLocking
    Migrations <- MCMigrations
    Workers <- MCWorkers
    MaxBuilt = 2
INVARIANTS InputsReleased DoneAfterWait
PROPERTIES WaitReturns OperationsEnd
CONSTRAINT InOrder
CHECK_DEADLOCK FALSE
