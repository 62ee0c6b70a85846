\* A lookup still holds an exiting thread's record when it is cleaned up.
CONSTANTS
    t1 = t1
    t2 = t2
    t3 = t3
    f1 = f1
    f2 = f2
    Threads <- MCThreads
    Finders <- MCFinders
    NULL = NULL

SYMMETRY MCSymmetry

SPECIFICATION Spec

INVARIANT RaceDetected
