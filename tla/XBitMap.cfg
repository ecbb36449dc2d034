\* Three-bit words, at most eight bits, grown by one, two or five.
CONSTANTS
    BitsPerLong = 3
    Growths <- MCGrowths
    MaxBits = 8
SPECIFICATION Spec
INVARIANT FindsLowest
PROPERTY ImplementsSlotMap
