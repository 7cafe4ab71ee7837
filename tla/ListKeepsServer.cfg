SPECIFICATION Spec
CONSTANTS
    p1 = p1
    p2 = p2
    nopid = nopid
    Pids = {p1, p2}
    NoPid = nopid
    Fds = {4, 5}
    MaxClients = 2
    PidReuse = FALSE
INVARIANTS
    ListKeepsServer
