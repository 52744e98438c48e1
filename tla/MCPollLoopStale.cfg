SPECIFICATION Spec
CONSTANTS
    Thread = {t1, t2}
    Null = null
    NumFDs = 2
INVARIANT WaitersRegistered
CHECK_DEADLOCK FALSE
