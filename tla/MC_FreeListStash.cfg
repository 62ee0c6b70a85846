\* Three threads push three free lists and pop, so that two pops can pass
\* the unlocked test on the same head.
CONSTANTS
    p1 = p1
    p2 = p2
    p3 = p3
    l1 = l1
    l2 = l2
    l3 = l3
    Procs <- MCProcs
    FreeLists <- MCFreeLists
    NULL = NULL

SYMMETRY MCSymmetry

SPECIFICATION Spec

INVARIANT NoLostOrDuplicatedFreeList

PROPERTY StashRefinement
