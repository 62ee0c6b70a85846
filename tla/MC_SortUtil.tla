---------------------------- MODULE MC_SortUtil ----------------------------
EXTENDS SortUtil

\* Three values, so that arrays have duplicates and distinct values alike.
MCVals == {1, 2, 3}

=============================================================================
