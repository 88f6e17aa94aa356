SPECIFICATION FairSpec
CONSTANTS
    BSP = bsp
    APs = {a1, a2}
    Unknown = unknown
    Vectors = {"v1", "v2"}
INVARIANTS
    IpisForwarded ApStartsAsTold GuestFlagsKept InterceptionEnds
PROPERTIES
    HypervisorBoots SipiStarts
CHECK_DEADLOCK FALSE
