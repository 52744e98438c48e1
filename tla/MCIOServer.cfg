SPECIFICATION FairSpec
CONSTANTS
    Client = {c1, c2, c3, c4, c5}
    Worker = {w1, w2}
    Null = null
INVARIANTS
    OwnResult
    NoLostWakeup
    NoWorkerLost
PROPERTIES
    EveryCallReturns
    ExecutorSpec
CHECK_DEADLOCK FALSE
