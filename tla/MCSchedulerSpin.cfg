SPECIFICATION SteadySpec
CONSTANTS
    NCpus = 3
    th_a = th_a
    th_b = th_b
    th_c = th_c
    th_d = th_d
    Threads <- MCThreads
    InitThread = th_a
    BasePriority = 1
    Boost = 0
    MaxPriority = 95
    Idle = Idle
    None = None
INVARIANT NoMutualSpin
