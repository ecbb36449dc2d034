\* Three blocks, two frames, two slots, two data; no call fails while the file is open.
CONSTANTS
    r1 = r1
    r2 = r2
    r3 = r3
    A = A
    NULL = NULL
    Zero = Zero
    Torn = Torn
    Refs <- MCOwnedAll
    Owned <- MCOwnedAll
    Data <- MCData
    NumFrames = 2
    GrowCount = 1
    MaxSlots = 2
    Faults = {}
SPECIFICATION Spec
SYMMETRY MCRefSymmetry
INVARIANT TypeOK
INVARIANT FrameOwnership
INVARIANT NoStaleTranslation
PROPERTY LockedPinned
PROPERTY ImplementsBlockStore
