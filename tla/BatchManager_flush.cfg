SPECIFICATION MixedSpec
CONSTANTS
    RingSize = 3
    MaxCmdId = 9
    MaxBatch = 2
INVARIANT
    AssertCounter
