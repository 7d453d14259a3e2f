\* Two threads redirect at the same time: the second starts while the first
\* waits for its capture thread.
SPECIFICATION Spec
CONSTANTS
    c1 = c1
    c2 = c2
    Callers = {c1, c2}
    NoCaller = NoCaller
    MaxFd = 11
    MaxBridges = 2
    MaxFaults = 0
INVARIANTS ReadFdReserved
