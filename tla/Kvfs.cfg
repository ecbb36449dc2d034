\* Links to a directory, to a drive, to the root and to themselves, created and looked
\* up in any order.  A lookup that overflows its stack ends the run.
CONSTANTS
    NULL = NULL
    file = file
    other = other
    lc = lc
    lg = lg
    ldos = ldos
    lsys = lsys
    lagain = lagain
    Objects <- MCObjects
    Target <- MCTarget
    Creations <- MCCreations
    Lookups <- MCLookups
    StackDepth = 6
    MostLinks = 4
SPECIFICATION FairSpec
INVARIANT KvfsInv
INVARIANT LookupSound
INVARIANT MountedWhereAsked
PROPERTY CallReturns
CHECK_DEADLOCK FALSE
