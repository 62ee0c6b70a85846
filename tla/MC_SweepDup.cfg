CONSTANTS
    Addr <- MCAddr
    Words = 1
    MaxN = 2
    MaxDepth = 1
    AddrsPerThread = 1
    MaxThreads = 2
    DuplicatesRetired = TRUE

SPECIFICATION Spec


INVARIANT NoDoubleFree
