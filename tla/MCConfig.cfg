CONSTANTS
    Bits = 3
    k1 = k1
    k2 = k2
    Keys = {k1, k2}
    MinMtu = 2
    MaxMtu = 4
    Bad = Bad
    Unset = Unset
    Configs <- MCConfigs
SPECIFICATION Spec
INVARIANTS
    PeersUsable
    
CHECK_DEADLOCK FALSE
