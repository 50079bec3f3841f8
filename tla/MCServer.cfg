CONSTANTS
    Peers = {p1, p2}
    Strangers = {s1}
    Ip = {p1, p2}
    TunnelIp <- MCTunnelIp
    Host = {h1}
    Port = {1}
    Index = {i1, i2}
    LowByteOne = {}
    RateMax = 1
    RateWindow = 1
    Window = 4
    MaxNonce = 1
    IdleMax = 0
    MaxKeys = 2
SPECIFICATION SpecOn
SYMMETRY MCSymmetry
INVARIANTS
    TypeOK
    TableConsistent
    SessionsOwned
    NoCollision
    AuthenticSource
    UplinkIsolated
PROPERTIES
    SessionsEndForAReason
