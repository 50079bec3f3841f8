CONSTANTS
    Peers = {p1}
    Strangers = {}
    Ip = {p1}
    TunnelIp <- MCTunnelIp
    Host = {h1, h2}
    Port = {1}
    Index = {i1, i2}
    LowByteOne = {i1}
    RateMax = 1
    RateWindow = 1
    Window = 2
    MaxNonce = 1
    IdleMax = 0
    MaxKeys = 1
SPECIFICATION SpecOn
SYMMETRY MCSymmetry
INVARIANTS
    DataReachesSession
