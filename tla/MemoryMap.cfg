CONSTANTS
    NULL = NULL
    MRs = {m1, m2, m3}
    RamSizes = {1, 4}
    L2_SIZE = 2
    P_L2_LEVELS = 3
    MaxRam = 8
SPECIFICATION MapSpec
SYMMETRY Symm
INVARIANT MapInv
INVARIANT FlatIsFront
INVARIANT TreeIsFront
