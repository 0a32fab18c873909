SPECIFICATION MCSpec
CONSTANTS
    QueueLen = 3
    MaxCmdId = 3
    Word = {0, 1}
    Kind = {"create", "plain"}
    Configs <- MCConfigs
    MQES = 3
    Pages <- MCPages
    Timeout = 1
    Bytes = {1, 272}
    Words = {3, 8192}
    MaxOptions = 2
    Images = {0, 6, 8, 4096, 12292}
    OwnNs = 1
    MaxChunks = 4
    MaxNodes = 2
INVARIANTS
    QueuesSound
    ControllerMemoryLive
    CommandsLegal
    OptionsAndImage
    ProgramsSound
PROPERTIES
    BringUpEnds
CHECK_DEADLOCK FALSE
