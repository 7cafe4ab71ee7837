SPECIFICATION FairSpec
CONSTANTS
    p1 = p1
    p2 = p2
    nopid = nopid
    Pids = {p1, p2}
    NoPid = nopid
    Fds = {4, 5, 6}
    MaxClients = 3
    PidReuse = TRUE
INVARIANTS
    DeathNoticed
    ReaperFindsNode
PROPERTIES
    DeadReaped
    ListEnds
