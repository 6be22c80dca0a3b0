SPECIFICATION Spec
CONSTANTS
    t1 = t1
    t2 = t2
    b1 = b1
    b2 = b2
    b3 = b3
    o1 = o1
    o2 = o2
    o3 = o3
    o4 = o4
    v0 = v0
    v1 = v1
    Threads = {t1, t2}
    Blocks = {b1, b2, b3}
    Values = {v0, v1}
    InitValue = v0
    Objects = {o1, o2, o3, o4}
    EVICTION_THRESHOLD = 2
SYMMETRY Symmetry
INVARIANTS HeldExclusive HeldContent 
PROPERTY EvictsLRU
CHECK_DEADLOCK FALSE
