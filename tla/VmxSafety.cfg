SPECIFICATION FairSpec
CONSTANTS
    NW = 3
    Others = {}
    Initiators = {0, 1, 2, 3}
    Kinds = {"vmcall", "io"}
    Interruptible = {1, 2, 3}
    MaxRounds = 2
    MaxGuestNMI = 1
INVARIANTS
    StopTheWorld
    UpdateSerial
    StageMeansReleased
    NoSpuriousNMI
    UserSpaceReady
PROPERTIES
    QuiesceCompletes
    LoneHypercallReturns
CHECK_DEADLOCK FALSE
