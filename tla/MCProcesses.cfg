SPECIFICATION FairSpec
CONSTANTS
    NSlots = 3
    MaxPid = 4
INVARIANTS TypeOK ParentAlive CollectedOnce
 
