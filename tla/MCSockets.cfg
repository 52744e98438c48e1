SPECIFICATION FairSpec
CONSTANTS
    Capacity = 1
    MaxHanded = 2
    MaxEnds = 2
    Uses <- MCUses
INVARIANTS
    ConnectTellsTruthUnlessTaken
    CancelSticks
    InOrder
    AllOrFalse
PROPERTIES
    CallsEnd
CHECK_DEADLOCK FALSE
