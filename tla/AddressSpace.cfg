\* Regions of one to three pages are handed out from either end and at given addresses,
\* protected and given back. The program stops at a bad pointer and at the bound on nodes.
CONSTANTS
    MaxNodes = 7
    Room = 6
    Align = 2
    Sizes = {1, 2, 3}
    Prots = {"none", "rw"}
    NOACCESS = "none"
    MaxProtected = 1
SPECIFICATION ASSpec
INVARIANT SpaceInv
INVARIANT PrevLeadsBack
INVARIANT ProtectExact
PROPERTY GivenStays
CHECK_DEADLOCK FALSE
