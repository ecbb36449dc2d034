CONSTANTS
    NULL = NULL
    PPages = {p1, p2}
    Entries <- MCEntries
    OneInsn <- MCOneInsn
    MaxTbs = 3
    SMC_BITMAP_USE_THRESHOLD = 1
    HostResets = TRUE
    GuestWaits = TRUE
SPECIFICATION Spec
SYMMETRY Symm
VIEW View
ACTION_CONSTRAINT ThirdOnOnePage
INVARIANT TbInv
INVARIANT LiveFresh
INVARIANT JumpsSound
INVARIANT RunsCurrent
INVARIANT RetryGoesThrough
CHECK_DEADLOCK FALSE
