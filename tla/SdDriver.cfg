SPECIFICATION FairSpec
CONSTANTS
    t1 = t1
    t2 = t2
    t3 = t3
    n1 = n1
    v0 = v0
    v1 = v1
    Threads = {t1, t2, t3}
    BlockNos = {n1}
    Values = {v0, v1}
    InitValue = v0
    cpu0 = cpu0
    Handlers = {cpu0}
    MaxErrors = 1
INVARIANTS
    QueueAlive
    
PROPERTIES
    AtomicCalls
    CallReturns
CHECK_DEADLOCK FALSE
