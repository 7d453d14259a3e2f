\* A gate that waits for an engine owned by another process.
SPECIFICATION FairSpec
CONSTANTS
    a1 = a1
    a2 = a2
    a3 = a3
    b1 = b1
    b2 = b2
    A = A
    B = B
    NoProc = NoProc
    NoThread = NoThread
    Procs = {A, B}
    Threads = {a1, b1, b2}
    StopLeases = {1}
    HwLeases = {1}
    MaxTime = 2
    MaxToken = 1
    MaxHwToken = 2
    Stoppers = {b1}
    HwCallers = {a1, b1}
    Probers = {}
    Exempt = {}
    Unload = FALSE
    ProcOf <- MCProcOf
PROPERTIES ExpirationResumes
