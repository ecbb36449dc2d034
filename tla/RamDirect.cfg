\* Three blocks, one without an owner, compete for one frame and two slots; reads and
\* writes may fall short, and without a page file every seek fails.
CONSTANTS
    r1 = r1
    r2 = r2
    r3 = r3
    A = A
    NULL = NULL
    Zero = Zero
    Torn = Torn
    Refs <- MCRefs
    Owned <- MCOwnedSome
    Data = {Zero}
    NumFrames = 1
    GrowCount = 1
    MaxSlots = 2
    Faults = {"read", "write"}
    PageSize = 4096
SPECIFICATION DirectSpec
SYMMETRY MCOwnedSymmetry
INVARIANT SlotOwnership
INVARIANT DataIntegrity
PROPERTY SlotWriteTakesEffect
