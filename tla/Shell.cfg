SPECIFICATION FairSpec
CONSTANTS
    root = root
    window = window
    p1 = p1
    p2 = p2
    outside = outside
    Root = root
    Window = window
    Outside = outside
    Pids = {root, window, p1, p2}
    MaxLines = 3
    MaxWords = 1
INVARIANTS
    TypeOK
    OneActiveParser
    ReaperKnows
    InStep
    OnlyBlankHangs
PROPERTIES
    WaitEnds
    RootFollows
