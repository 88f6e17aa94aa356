SPECIFICATION Spec
CONSTANTS
    Count = 7
    MaxCount = 1
    DescNeeded = 3
    Budget = 1
    Events = {"hang", "lost"}
    MaxEvents = 1
PROPERTIES
    QueueRestarts
    HangEndsInReset
CHECK_DEADLOCK FALSE
