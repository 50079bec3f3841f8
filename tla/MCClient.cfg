CONSTANTS
    Attempts = 2
    Rekey = 2
    Reconnect = 2
    Keepalive = 1
    Window = 2
    MaxNonce = 1
    MaxQueue = 1
    MaxInits = 3
    MaxKeys = 2
SPECIFICATION SpecLive
INVARIANTS
    TypeOK
    NonceNeverReused
PROPERTIES
    SessionsMoveForward
    StartupEnds
    RoundEndsUnderTraffic
    ShutdownEndsUnderTraffic
CHECK_DEADLOCK FALSE
