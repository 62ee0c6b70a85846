CONSTANTS
    Batch <- MCBatch
    Cap = 2
    MaxAddr = 6
    SpuriousWakeups = FALSE
    NULL = NULL

SPECIFICATION Spec


INVARIANT CarryOverMapped
