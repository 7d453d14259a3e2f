\* The stop session with probes and an unload, no hardware debugging; the logger.
SPECIFICATION BothSpec
CONSTANTS
    a1 = a1
    a2 = a2
    a3 = a3
    b1 = b1
    b2 = b2
    l1 = l1
    l2 = l2
    A = A
    B = B
    NoProc = NoProc
    NoThread = NoThread
    Procs = {A}
    Threads = {a1, a2, a3}
    StopLeases = {1}
    HwLeases = {1}
    MaxTime = 2
    MaxToken = 2
    MaxHwToken = 0
    Stoppers = {a1}
    HwCallers = {}
    Probers = {a2}
    Exempt = {a2}
    Unload = TRUE
    ProcOf <- MCProcOf
SYMMETRY Symmetry
INVARIANTS
    NoOrphanedStop LoggerStopsClean
PROPERTIES
    WatchdogKeepsLease
CHECK_DEADLOCK FALSE
