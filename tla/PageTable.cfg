\* Two table pages and two other blocks over two frames; load comes first.
\* The system stops when the table is gone and the other clients have made their calls.
CONSTANTS
    p1 = p1
    p2 = p2
    o1 = o1
    o2 = o2
    NULL = NULL
    Torn = Torn
    Zero <- MCZero
    Refs <- MCRefs
    Owned <- MCOthers
    Data <- MCData
    NumFrames = 2
    GrowCount = 1
    MaxSlots = 2
    Faults = {}
    Levels = 2
    Index <- MCIndex
    Pmas = {9}
    Vmas <- MCVmas
    TablePages <- MCPages
    Written <- MCWritten
    MaxCalls = 3
    LoadFirst = TRUE
SPECIFICATION PtSpec
SYMMETRY MCSymmetry
INVARIANT PtInv
INVARIANT WalkOnCourse
INVARIANT OthersKeepData
PROPERTY LoadBringsAll
PROPERTY ImplementsFlatTable
CHECK_DEADLOCK FALSE
