SPECIFICATION FairSpec
CONSTANTS
    QueueLen = 3
    MaxCmdId = 3
    Word = {0, 1}
    Kind = {"create", "plain"}
PROPERTY
    CreateVerified
