SPECIFICATION StatsSpec
CONSTANTS
    Producers = {p1}
    Events = {e1}
    NoEvent = NoEvent
    Capacity = 2
    Wrap = 16
    Start = 14
    MaxEvents = 2
    MaxStall = 5
    MaxDropped = 1
INVARIANTS PendingObserved
