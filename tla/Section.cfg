\* Two views of a section whose slots serve two offsets each, beside another client.
CONSTANTS
    b0 = b0
    b1 = b1
    r1 = r1
    zero = zero
    NULL = NULL
    Torn = Torn
    Zero = zero
    Refs <- MCRefs
    Owned <- MCRefs
    Data <- MCData
    NumFrames = 2
    GrowCount = 1
    MaxSlots = 1
    Faults = {}
    ACTIVE_BLOCKS = 2
    BlockOf <- MCBlockOf
    NumOffsets = 4
    Views <- MCViews
SPECIFICATION SectionSpec
INVARIANT SectionInv
INVARIANT ViewsFresh
INVARIANT SparesOthers
CONSTRAINT MCUntilRaced
