SPECIFICATION AllSpec
CONSTANTS
    t1 = t1
    t2 = t2
    nobody = nobody
    Threads = {t1, t2}
    NoThread = nobody
    Builds = {TRUE, FALSE}
    RealEvents = {TRUE, FALSE}
    Unload = TRUE
    MaxGeneration = 2
    MaxFaults = 1
SYMMETRY Symmetry
INVARIANTS
    RestorationOwed HeldExactly EndsProven JobsKept TicketsExact
PROPERTIES
    RealEventRules EngineTruthful RegistersReturned  StoreDurable AttachLeased
CHECK_DEADLOCK FALSE
