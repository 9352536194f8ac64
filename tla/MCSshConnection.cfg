SPECIFICATION FairSpec
CONSTANTS
    c1 = c1
    c2 = c2
    Ids = {c1, c2}
    Opened = {c1}
    Hops = 2
    MaxAttempts = 2
    MaxGen = 4
    MaxCalls = 1
INVARIANTS
    TypeOK
    SingleFlow
    ShownHonest
    ClosedStaysDown
    GrantNotLeaked
PROPERTIES
    ChildrenFirst
    CloseReleases
    ReconnectDecided
CHECK_DEADLOCK FALSE
