CONSTANTS
    Addr <- MCAddr
    Words = 1
    MaxN = 3
    MaxDepth = 1
    AddrsPerThread = 1
    MaxThreads = 2
    DuplicatesRetired = FALSE

SPECIFICATION Spec

INVARIANT TypeOK
INVARIANT RefsMatchHeap
INVARIANT SweepComplete

PROPERTY ReclaimRefinement
PROPERTY Termination
