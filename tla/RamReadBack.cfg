\* Two blocks resident in two frames are written through RamDirectWrite.
CONSTANTS
    r1 = r1
    r2 = r2
    r3 = r3
    A = A
    NULL = NULL
    Zero = Zero
    Torn = Torn
    Refs <- MCRefs
    Owned <- MCRefs
    Data <- MCData
    NumFrames = 2
    GrowCount = 1
    MaxSlots = 2
    Faults = {}
    PageSize = 4096
SPECIFICATION DirectSpec
SYMMETRY MCSymmetry
INVARIANT DirectReadsBack
