CONSTANTS
    Attempts = 3
    Rekey = 1
    Reconnect = 2
    Keepalive = 0
    Window = 2
    MaxNonce = 1
    MaxQueue = 1
    MaxInits = 4
    MaxKeys = 4
    Networks = {"prompt"}
    RateMax = 4
    RateWindow = 1
    IdleMax = 1
    MaxNet = 2
    MaxRestarts = 0
SPECIFICATION MCTunnelSpec
INVARIANTS
    RekeyAnswered
CHECK_DEADLOCK FALSE
