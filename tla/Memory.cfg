SPECIFICATION Spec
CONSTANTS
    NPAGES = 11
    FANOUT = 2
    LEVELS = 3
    NPROC = 2
    MaxSize = 2
    NStack = 2
    MaxCount = 2
    MaxObjects = 3
    MaxCalls = 3
CHECK_DEADLOCK FALSE
INVARIANTS
    OneOwner
    OnlyTablesLost
    ImageWhole
    PanicsExplained
    RoomFirst
