SPECIFICATION MCSpec
CONSTANTS
    Disk <- MCDisk
    Reader = {t1, t2}
    None = None
    NUM_CHUNKS = 2
    Client <- Entries
    BLOCK_SIZE = 2
    BLOCKS_PER_SILO = 2
    Request <- RequestDef
    MaxReads = 4
INVARIANT InodeFreedOnce
CHECK_DEADLOCK FALSE
