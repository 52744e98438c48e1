SPECIFICATION FairSpec
CONSTANTS
    Client = {c1, c2}
    Worker = {w1, w2}
    Null = null
    Error = {2, 9}
    MaxCalls = 2
INVARIANTS
    OperationOutlivesWork
    AnswerIsTrue
    FailureTellsWhy
PROPERTIES
    CallsReturn
    StopReturns
CHECK_DEADLOCK FALSE
