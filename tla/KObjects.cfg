\* Two objects are mounted, named by handles and held by a refp in every order. The
\* program stops when it has crashed, has read a freed node or refers to a freed object.
CONSTANTS
    o1 = o1
    o2 = o2
    p1 = p1
    NULL = NULL
    Objects = {o1, o2}
    Nodes = {0, 1, 2, 3}
    Parent <- MCParent
    Root = 0
    Refps = {p1}
    HandleMod = 8
SPECIFICATION KObjectsSpec
SYMMETRY MCSymmetry
INVARIANT KObjectsInv
PROPERTY DiesUnheld
PROPERTY BindingLostByErasing
PROPERTY HandleKeepsObject
PROPERTY SweepMissesNone
CHECK_DEADLOCK FALSE
