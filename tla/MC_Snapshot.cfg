\* Three mutators, three collections back to back (so that a handler of
\* one collection can still be spinning when the next one signals), and a
\* process slot for every child.
CONSTANTS
    m1 = m1
    m2 = m2
    m3 = m3
    Mutators <- MCMutators
    MaxCycles = 3
    ProcLimit = 3

SPECIFICATION Spec

INVARIANTS
    TypeOK
    SnapshotConsistent

PROPERTIES
    ParkedReleased
    CollectionCompletes
