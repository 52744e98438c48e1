SPECIFICATION RuntimeSpec
CONSTANTS
    Thread = {t1, t2, t3, t4}
    Null = null
    NoStack = nostack
    Frame = frame
    StacksPerPool = 2
    MaxPools = 3
INVARIANTS
    IsRing
    OwnStack
    StandsOnOwnStack
PROPERTIES
    QueueSpec
    AllocatorSpec
    LifeSpec
SYMMETRY Symmetry
