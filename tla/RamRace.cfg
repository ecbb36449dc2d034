\* Two threads make every call on three blocks over two frames.
CONSTANTS
    r1 = r1
    r2 = r2
    r3 = r3
    t1 = t1
    t2 = t2
    A = A
    NULL = NULL
    Zero = Zero
    Torn = Torn
    Refs <- MCRefs
    Owned <- MCRefs
    Data = {Zero}
    NumFrames = 2
    GrowCount = 1
    MaxSlots = 2
    Faults = {}
    Threads <- MCThreads
    Operations = {"SwapOut", "SwapIn", "Free", "Lock", "Unlock"}
SPECIFICATION RaceSpec
SYMMETRY MCSymmetry
INVARIANT SoundUnlessOvertaken
CONSTRAINT MCUntilOvertaken
