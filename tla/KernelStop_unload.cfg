\* BeginStop between the release of the session and the retirement of the watchdog.
SPECIFICATION Spec
CONSTANTS
    a1 = a1
    a2 = a2
    a3 = a3
    b1 = b1
    b2 = b2
    A = A
    B = B
    NoProc = NoProc
    NoThread = NoThread
    Procs = {A}
    Threads = {a1, a2}
    StopLeases = {1}
    HwLeases = {1}
    MaxTime = 2
    MaxToken = 1
    MaxHwToken = 1
    Stoppers = {a1}
    HwCallers = {}
    Probers = {}
    Exempt = {}
    Unload = TRUE
    ProcOf <- MCProcOf
INVARIANTS WatchdogOutlivesStops
CHECK_DEADLOCK FALSE
