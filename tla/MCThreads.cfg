SPECIFICATION FairSpec
CONSTANTS
    Thread = {t1, t2, t3}
    Ref = {b1, b2}
    Host = host
    Null = null
INVARIANTS
    TypeOK
    BlockInverse
    OnePlace
PROPERTIES
    JoinWaitsForEnd
    NoOvertaking
    ReadyRuns
    LifeSpec
