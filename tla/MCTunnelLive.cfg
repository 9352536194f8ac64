SPECIFICATION PeerSpec
CONSTANTS
    t1 = t1
    t2 = t2
    k1 = k1
    k2 = k2
    p1 = p1
    none = none
    Tunnels = {t1, t2}
    Kind <- LocalDynamic
    KeyOf <- OwnKeys
    Peers = {p1}
    NoOne = none
    MaxLosses = 1
    MaxCloses = 1
PROPERTIES
    StopCompletes
CHECK_DEADLOCK FALSE
