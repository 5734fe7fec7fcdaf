SPECIFICATION FairSpec
CONSTANTS
    NCpus = 2
    t1 = t1
    t2 = t2
    Threads <- MCThreads
    InitThread = t1
    BasePriority = 2
    Boost = 2
    MaxPriority = 95
    Idle = Idle
    None = None
INVARIANTS TypeOK OneCpuPerThread ReadyInOnePlace Inv
PROPERTIES HaltedIsFinal 
