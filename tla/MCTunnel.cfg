SPECIFICATION Spec
CONSTANTS
    t1 = t1
    t2 = t2
    k1 = k1
    k2 = k2
    p1 = p1
    none = none
    Tunnels = {t1, t2}
    Kind <- LocalRemote
    KeyOf <- SameKey
    Peers = {p1}
    NoOne = none
    MaxLosses = 1
    MaxCloses = 2
INVARIANTS
    TypeOK
    Owned
    ReceiptHonest
    ActiveWatched
PROPERTIES
    StopIsFinal
CHECK_DEADLOCK FALSE
