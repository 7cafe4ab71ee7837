SPECIFICATION Spec
CONSTANTS
    p1 = p1
    p2 = p2
    p3 = p3
    p4 = p4
    nopid = nopid
    Pids = {p1, p2, p3, p4}
    NoPid = nopid
    Fds = {4, 5}
    MaxClients = 4
    PidReuse = FALSE
SYMMETRY Symmetry
INVARIANTS
    TypeOK
    StatusAccurate
    SocketsMatch
    DeathNoticed
    ReaperFindsNode
PROPERTIES
    KeepsRegistry
