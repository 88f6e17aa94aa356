SPECIFICATION Spec
CONSTANTS
    Big = 2
    Regions = 4
    Pool = 3
    MaxAreas = 3
    MaxPages = 2
    Maps <- MCMaps
    GuestTables <- MCGuestTables
    Unmapped <- MCUnmapped
    Walks = {{}, {2}}
INVARIANTS
    MapsProcess OnlyProcessUser OneTablePerRegion
    SignalDelivered
CHECK_DEADLOCK FALSE
