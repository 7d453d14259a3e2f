SPECIFICATION AllFairSpec
CONSTANTS
    Callers = {"c1"}
    NoCaller = "nobody"
    MaxFd = 12
    MaxBridges = 2
    MaxFaults = 4
INVARIANTS
    BridgeSound JoinNeverBlocks RestoreRestores
PROPERTIES
    CleanedUp LeasesEnd ServicesRecover
CHECK_DEADLOCK FALSE
