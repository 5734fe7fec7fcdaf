SPECIFICATION FairVnodeSpec
CONSTANTS
    r1 = r1
    w1 = w1
    w2 = w2
    Readers <- OneReader
    Writers <- TwoWriters
    PipeBufSize = 3
    ChunkSize = 2
    MaxLen = 3
    MaxCalls = 1
INVARIANTS TypeOK InOrder SleepersJustified
PROPERTIES WritesReturn  

