SPECIFICATION Spec
CONSTANTS
    Ids = {1, 2, 3, 4, 5}
    MaxEvents = 2
INVARIANTS
    MessagesWhole
    AckMeansRead
    ConfigStands
PROPERTY VfServed
CHECK_DEADLOCK FALSE
