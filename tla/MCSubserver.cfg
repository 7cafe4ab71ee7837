SPECIFICATION Spec
CONSTANTS
    root = root
    p1 = p1
    p2 = p2
    p3 = p3
    outside = outside
    blank = blank
    jobA = jobA
    jobB = jobB
    Root = root
    Outside = outside
    NoArg = blank
    Pids = {root, p1, p2, p3}
    Names = {blank, jobA, jobB}
    FdLimit = 4
    PidReuse = FALSE
SYMMETRY Symmetry
INVARIANTS
    OneActiveHandler
    ChildAccounted
    TableAccurate
PROPERTIES
    SweptClean
    KillAllCovers
