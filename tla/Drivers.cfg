SPECIFICATION MCSpec
CONSTANTS
    NUM_DESCRIPTORS = 3
    Kind = {"mine", "arp_any", "error"}
    is_x8254 = TRUE
    MaxPackets = 4
    MaxSends = 1
    MaxLink = 1
    NUM_RX = 5
    LOOK_AHEAD = 2
    RX_BURST = 4
    Buffers = {0, 1, 2, 3, 4, 5, 6}
    NUM_TX = 6
    TX_FREE_THRESH = 2
    TX_RS_THRESH = 3
    TX_BURST = 2
    Segments = {1, 2}
    NoBuf = NoBuf
    nic_num = 1
    channels_per_nic = 2
    Frame_nums = {1, 2, 3}
    Rx_blocks = 1
    Tx_blocks = 1
    PositiveFields = {"nic_num", "channel_size"}
    PlainFields = {"rx_threads_cpu_mask"}
    Dev = {d1, d2}
    DmaDev = {d1}
    Proc = {"p", "q"}
    Task = {"p", "q"}
    User <- MCUser
    Support <- MCSupport
    MaxDevices = 2
    MaxVecs = 2
    MaxDepth = 1
    MaxPages = 2
    None = None
    d1 = d1
    d2 = d2
INVARIANTS
    PacketsInOrder
    ReclaimsDone
    NicStartsSafely
    NoStrayHandler
    DmaMapped
PROPERTIES
    DriversProgress
CHECK_DEADLOCK FALSE
