SPECIFICATION Spec
CONSTANTS
    BSIZE = 2
    NDIRECT = 2
    NINODES = 4
    IPB = 2
    LOGSIZE = 1
    FSSIZE = 16
    BPB = 12
    OP_MAX_NUM_BLOCKS = 7
    Names = {"a", "b"}
    Values = {2, 8, 9}
    Images <- OneFile
    Threads = {t1, t2}
    WriteSizes = {2, 8}
    MaxOps = 3
    MaxCrashes = 1
SYMMETRY AnyThread
INVARIANTS BlocksOwnedOnce SizeBacked 
 
CHECK_DEADLOCK FALSE
