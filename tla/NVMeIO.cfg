SPECIFICATION IOFairSpec
CONSTANTS
    RingSize = 3
    MaxCmdId = 2
    MaxBatch = 1
    QueueLen = 3
    Cmd <- AllCmds
    NoCmd <- NullCmd
INVARIANTS
    SameCommands
    QueueInv
    PhaseTellsNew
    NoLostWakeup
PROPERTIES
    Implements
    IOCallsEnd
