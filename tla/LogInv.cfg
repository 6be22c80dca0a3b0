SPECIFICATION FairSpec
CONSTANTS
    t1 = t1
    t2 = t2
    b1 = b1
    b2 = b2
    d1 = d1
    v0 = v0
    v1 = v1
    Threads = {t1, t2}
    Blocks = {b1, b2, d1}
    DirectBlocks = {d1}
    Values = {v0, v1}
    InitValue = v0
    NumLogBlocks = 5
    LOG_MAX_SIZE = 4
    OP_MAX_NUM_BLOCKS = 2
    MaxCrashes = 1
INVARIANTS ReservationExact NoProtocolPanic SleepersAwaited
PROPERTIES AtomicDurable EndOpReturns
CHECK_DEADLOCK FALSE
