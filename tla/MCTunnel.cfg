CONSTANTS
    Attempts = 2
    Rekey = 0
    Reconnect = 1
    Keepalive = 0
    Window = 2
    MaxNonce = 1
    MaxQueue = 1
    MaxInits = 3
    MaxKeys = 2
    Networks = {"wild", "ordered"}
    RateMax = 1
    RateWindow = 1
    IdleMax = 0
    MaxNet = 2
    MaxRestarts = 1
SPECIFICATION MCTunnelSpec
INVARIANTS
    SameSession
PROPERTIES
    EachWayALink
CHECK_DEADLOCK FALSE
