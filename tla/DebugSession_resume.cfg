\* Two cells of code, two breakpoint slots, three faults.
SPECIFICATION Spec
CONSTANTS
    Cells = {1, 2}
    Data = {"d1", "d2"}
    Slots = 2
    MaxFaults = 3
INVARIANT PendingPreventsResume
CHECK_DEADLOCK FALSE
