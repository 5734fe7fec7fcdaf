SPECIFICATION FairSpec
CONSTANTS
    r1 = r1
    w1 = w1
    w2 = w2
    Readers <- OneReader
    Writers <- OneWriter
    PipeBufSize = 3
    ChunkSize = 2
    MaxLen = 3
    MaxCalls = 2
PROPERTY ReadsEnd
\* A pipe without descriptors, or whose writer has made its calls, stops.
CHECK_DEADLOCK FALSE

