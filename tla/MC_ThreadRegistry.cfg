\* Three threads go through their lives while two other threads look
\* records up; cleanup runs whenever a thread has exited.
CONSTANTS
    t1 = t1
    t2 = t2
    t3 = t3
    f1 = f1
    f2 = f2
    Threads <- MCThreads
    Finders <- MCFinders
    NULL = NULL

SYMMETRY MCSymmetry

SPECIFICATION Spec

INVARIANTS
    TypeOK
    SafeTeardown
    ListsIntact
