SPECIFICATION FairSpec
CONSTANTS
    Producers = {p1, p2}
    Events = {e1, e2}
    NoEvent = NoEvent
    Capacity = 2
    Wrap = 16
    Start = 14
    MaxEvents = 4
    MaxStall = 5
    MaxDropped = 1
INVARIANTS SlotExclusive TakenInOrder CountsExact
PROPERTIES ImplementsQueue EventTaken
