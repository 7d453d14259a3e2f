SPECIFICATION AllSpec
CONSTANTS
    w1 = w1
    w2 = w2
    Writers = {w1, w2}
    Slots = 2
    Generation = 3
    FirstGeneration = 2
    Sizes = {1, 3}
    MaxRecords = 3
    MaxSessions = 2
    MaxStops = 1
SYMMETRY Symmetry
INVARIANTS
    TypeOK OneSessionInOrder CommitFindsHead Accounted ClosedIsClosed   StepExact
PROPERTIES
    CaptureWhole
CHECK_DEADLOCK FALSE
