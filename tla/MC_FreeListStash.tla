------------------------- MODULE MC_FreeListStash -------------------------
EXTENDS FreeListStash, TLC

CONSTANTS p1, p2, p3, l1, l2, l3

MCProcs == {p1, p2, p3}
MCFreeLists == {l1, l2, l3}

\* Threads are interchangeable; free lists are not (the stash orders them).
MCSymmetry == Permutations(MCProcs)

=============================================================================
