\* Fewer process slots than collections: the unreaped children of earlier
\* collections use them up.
CONSTANTS
    m1 = m1
    m2 = m2
    m3 = m3
    Mutators <- MCMutators
    MaxCycles = 3
    ProcLimit = 2

SYMMETRY MCSymmetry

SPECIFICATION Spec

INVARIANT ForkSucceeds
