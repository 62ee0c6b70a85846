------------------------- MODULE MC_ThreadRegistry -------------------------
EXTENDS ThreadRegistry, TLC

CONSTANTS t1, t2, t3, f1, f2

MCThreads == {t1, t2, t3}
MCFinders == {f1, f2}

\* Threads are interchangeable, and so are finders.
MCSymmetry == Permutations(MCThreads) \cup Permutations(MCFinders)

=============================================================================
