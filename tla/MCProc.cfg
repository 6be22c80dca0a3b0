SPECIFICATION Spec
CONSTANTS
    NPROC = 5
    CPUs = {cpu1, cpu2}
    NPAGES = 8
    NPID = 4
    MaxForking = 1
    MaxForks = 4
    MaxLockers = 2
INVARIANTS
    OnOneCpu
    NoZombieSlept
    SleeplockSound
    FamilyIntact
    
    PidsDiffer
SYMMETRY Symmetry
