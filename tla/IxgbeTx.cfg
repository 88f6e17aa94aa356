SPECIFICATION Spec
CONSTANTS
    Count = 7
    MaxCount = 2
    DescNeeded = 3
    Budget = 1
    Events = {"hang", "lost", "link", "mtu", "close"}
    MaxEvents = 1
INVARIANTS
    ServiceResetAlone
    TailKeepsOff
CHECK_DEADLOCK FALSE
