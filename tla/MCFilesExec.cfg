SPECIFICATION FairSpec
CONSTANTS
    Procs = {1, 2}
    initproc = 1
    NumInodes = 4
    Names = {"a", "b"}
    Paths <- MCPaths
    NFILE = 2
    NOFILE = 2
    MaxOps = 2
    MaxCalls = 3

PROPERTY EveryCallReturns
CHECK_DEADLOCK FALSE
