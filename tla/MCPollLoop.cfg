SPECIFICATION FairSpec
CONSTANTS
    Thread = {t1, t2}
    Null = null
    NumFDs = 2
INVARIANTS
    MirrorsKernel
    HandledExist
    WaitersRegisteredUnlessStale
    ReturnsOnlyWhenDone
PROPERTY
    ReadyFDWakes
CHECK_DEADLOCK FALSE
