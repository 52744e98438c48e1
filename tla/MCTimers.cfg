SPECIFICATION FairTimersSpec
CONSTANTS
    Timer = {s1, s2, p1, p2}
    Sleeper = {s1, s2}
    MaxDelay = 4
    Tolerance = 1
    IntMax = 4
    Forever = forever
INVARIANTS
    TimersTypeOK
    WaitEndsInTime
PROPERTIES
    FiresInTime
    SleepEnds
