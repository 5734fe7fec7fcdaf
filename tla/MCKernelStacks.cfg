SPECIFICATION StackSpec
CONSTANTS
    NCpus = 2
    t1 = t1
    t2 = t2
    t3 = t3
    Threads <- MCThreads
    InitThread = t1
    BasePriority = 1
    Boost = 0
    MaxPriority = 95
    Idle = Idle
    None = None
INVARIANT StacksExclusive
SYMMETRY Spawned
