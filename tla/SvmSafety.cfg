SPECIFICATION FairSpec
CONSTANTS
    Cores = {c1, c2, c3}
    NoCore = NoCore
    Initiators = {c1, c2, c3}
    MaxRounds = 3
    MaxGuestNMI = 2
INVARIANTS
    StopTheWorld
PROPERTIES
    ImplementsStopWorld
    ResumeOnlyAfterApp
    QuiesceCompletes
    EveryoneResumes
CHECK_DEADLOCK FALSE
