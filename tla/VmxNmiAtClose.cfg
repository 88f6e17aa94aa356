SPECIFICATION FairSpec
CONSTANTS
    NW = 3
    Others = {}
    Initiators = {0}
    Kinds = {"vmcall"}
    Interruptible = {}
    MaxRounds = 1
    MaxGuestNMI = 1
PROPERTY HypercallReturns
CHECK_DEADLOCK FALSE
