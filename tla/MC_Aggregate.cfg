CONSTANTS
    Addrs <- MCAddrs
    MaxBatches = 2
    Cap = 3
    PageSize = 16
    WordSize = 8
    IntSize = 4
    SortThreshold = 1
    Debug = FALSE

SPECIFICATION Spec

INVARIANT LayoutFits
INVARIANT MinimapLocates
