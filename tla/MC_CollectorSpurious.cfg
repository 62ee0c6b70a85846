CONSTANTS
    Batch <- MCBatch
    Cap = 2
    MaxAddr = 6
    SpuriousWakeups = TRUE
    NULL = NULL

SPECIFICATION Spec


INVARIANT CollectorGetsWork
