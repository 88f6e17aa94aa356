SPECIFICATION Spec
CONSTANTS
    NW = 3
    Others = {9}
    Initiators = {0, 1, 2, 3, 9}
    Kinds = {"vmcall", "io"}
    Interruptible = {1, 2, 3}
    MaxRounds = 1
    MaxGuestNMI = 0
INVARIANT UserCoresRun
CHECK_DEADLOCK FALSE
