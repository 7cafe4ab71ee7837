SPECIFICATION FairSpec
CONSTANTS
    Fds = {3, 4, 5}
    MaxConnects = 4
INVARIANTS
    TypeOK
    PromptClean
    StatusTells
    ConnectionKept
PROPERTIES
    DisconnectReturns
