\* Every array of up to six values over three, with SORT_THRESHOLD scaled
\* to 1 so that partition runs on every part of three or more slots.
CONSTANTS
    Vals <- MCVals
    MaxLen = 6
    SortThreshold = 1

SPECIFICATION Spec

INVARIANTS
    SortedPermutation
    CompactDedup
