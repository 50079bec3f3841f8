CONSTANTS
    Conns = {c1, c2, c3}
    RedirectAll = TRUE
    WantKillSwitch = TRUE
    MaxFaults = 0
SPECIFICATION Spec
SYMMETRY MCSymmetry
INVARIANTS
    TornDownAtExit
CHECK_DEADLOCK FALSE
