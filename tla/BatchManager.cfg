SPECIFICATION FairSpec
CONSTANTS
    RingSize = 3
    MaxCmdId = 5
    MaxBatch = 3
INVARIANTS
    IInv
    UniqueIds
    CountsOwn
    NoEarlyRelease
    BlockedOnlyByWork
PROPERTIES
    ClientSpec
    CallsEnd
