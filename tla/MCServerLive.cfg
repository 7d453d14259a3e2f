SPECIFICATION AllFairSpec
CONSTANTS
    Procs = {"A"}
    NoProc = "noproc"
    HwLeases = {1}
    MaxTime = 2
    MaxHwToken = 1
    Threads = {"a1", "a2"}
    NoThread = "nobody"
    ProcOf <- MCProcOf
    StopLeases = {1}
    MaxToken = 1
    Stoppers = {"a1", "a2"}
    HwCallers = {"a1"}
    Probers = {}
    Exempt = {}
    Unload = FALSE
INVARIANTS
    TornHardwareHeld
PROPERTIES
    ProgramsStoppedTarget StopEnds Delivered CallsReturn LeavesRetryLoop
CHECK_DEADLOCK FALSE
