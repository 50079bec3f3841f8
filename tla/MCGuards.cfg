CONSTANTS
    MaxFaults = 2
    MaxCrashes = 2
SPECIFICATION Spec
INVARIANTS
    ResolvConfKept
    CleanExitRestores
    KillSwitchInForce
    NotCutOffAfterExit
    NatInForceAndUndone
