SPECIFICATION FairSpec
CONSTANTS
    root = root
    p1 = p1
    p2 = p2
    outside = outside
    blank = blank
    job = job
    Root = root
    Outside = outside
    NoArg = blank
    Pids = {root, p1, p2}
    Names = {blank, job}
    FdLimit = 4
    PidReuse = FALSE
PROPERTIES
    KillallEnds
