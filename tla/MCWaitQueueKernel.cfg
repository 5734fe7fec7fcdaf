SPECIFICATION KernelSpec
CONSTANTS
    t1 = t1
    t2 = t2
    t3 = t3
    recvq = recvq
    sendq = sendq
    c1 = c1
    c2 = c2
    Null = Null
    Threads <- MCThreads
    Queues <- OneQueue
    Cpus <- OneCpu
INVARIANT WaitersReachable
