---------------------------- MODULE MC_Snapshot ----------------------------
EXTENDS Snapshot, TLC

CONSTANTS m1, m2, m3

MCMutators == {m1, m2, m3}

\* Mutators are interchangeable.
MCSymmetry == Permutations(MCMutators)

=============================================================================
