CONSTANTS
    Conns = {c1, c2}
    RedirectAll = TRUE
    WantKillSwitch = TRUE
    MaxFaults = 2
SPECIFICATION MonitorSpec
INVARIANTS
    TypeOK
    SwitchMatchesKernel
    KillSwitchOwned
    NothingLeftBehind
PROPERTIES
    ScreenCatchesUp
CHECK_DEADLOCK FALSE
