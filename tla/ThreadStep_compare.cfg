\* A compare instruction ahead of the last slot of an IT block.
SPECIFICATION Spec
CONSTANTS
    Threads = {1, 2}
    Programs <- ComparePrograms
    Packets <- StepPackets
    MaxPoints = 1
    InstrLimit = 4
    UnitLimit = 6
INVARIANT StepExact
CHECK_DEADLOCK FALSE
