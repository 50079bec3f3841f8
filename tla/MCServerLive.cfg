CONSTANTS
    Peers = {p1}
    Strangers = {}
    Ip = {p1}
    TunnelIp <- MCTunnelIp
    Host = {h1}
    Port = {1, 2}
    Index = {i1, i2}
    LowByteOne = {}
    RateMax = 1
    RateWindow = 1
    Window = 4
    MaxNonce = 1
    IdleMax = 0
    MaxKeys = 2
SPECIFICATION SpecLive
PROPERTIES
    StatsConverge
    IdleSessionsReaped
    HalfDeadExits
    EndpointAuthenticated
CHECK_DEADLOCK FALSE
