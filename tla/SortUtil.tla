------------------------------ MODULE SortUtil ------------------------------
(***************************************************************************)
(* The sort utility of util.c: forkgc_util_sort (a quicksort over          *)
(* [min, max] with the middle element as pivot, falling back to           *)
(* insertion sort when max - min <= SORT_THRESHOLD) and                    *)
(* forkgc_util_compact (in-place dedup of a sorted array, returning the   *)
(* number of entries removed), and forkgc_util_randomize (a shuffle by   *)
(* swaps; it has no caller in this repository).  Arrays are functions     *)
(* from 0 .. len - 1; every loop of the C code is a RECURSIVE operator    *)
(* that carries the loop variables, and every swap is a swap.  The state  *)
(* machine calls the functions in turn on any input array, so that the    *)
(* result of each can be compared with a reference definition.            *)
(***************************************************************************)
EXTENDS Integers, FiniteSets

CONSTANTS
    Vals,           \* values an array slot may hold (addresses)
    MaxLen,         \* longest array checked
    SortThreshold   \* SORT_THRESHOLD (16 in the code)

ASSUME MaxLen \in Nat /\ SortThreshold \in Nat

VARIABLES
    a0,       \* the array as handed to forkgc_util_sort (ghost)
    a,        \* the array, sorted and compacted in place
    len,      \* its length
    savings,  \* the value forkgc_util_compact returned
    phase     \* "input", "randomized", "sorted" or "compacted"

vars == <<a0, a, len, savings, phase>>

Swap(arr, n, m) == [arr EXCEPT ![n] = arr[m], ![m] = arr[n]]

\* The for loop of partition: returns the array and mid.
RECURSIVE PartLoop(_, _, _, _, _)
PartLoop(arr, i, mid, max, pv) ==
    IF i >= max THEN <<arr, mid>>
    ELSE IF arr[i] <= pv THEN PartLoop(Swap(arr, i, mid), i + 1, mid + 1, max, pv)
    ELSE PartLoop(arr, i + 1, mid, max, pv)

\* Mutant: the pivot is never swapped back from max to mid.
PartitionNoFinalSwap(arr, min, max) ==
    LET pivot == (max + min) \div 2
    IN  PartLoop(Swap(arr, pivot, max), min, min, max, arr[pivot])

\* partition: park the pivot at max, move every value <= pivot to the
\* left, put the pivot at mid.  Returns the array and mid.
Partition(arr, min, max) ==
    LET pivot == (max + min) \div 2
        r == PartLoop(Swap(arr, pivot, max), min, min, max, arr[pivot])
    IN  <<Swap(r[1], r[2], max), r[2]>>

\* The inner loop of insertion_sort: sink arr[j] while the left neighbour
\* is larger, down to index 0 (not down to min).
RECURSIVE Sink(_, _)
Sink(arr, j) ==
    IF j > 0 /\ arr[j - 1] > arr[j] THEN Sink(Swap(arr, j, j - 1), j - 1)
    ELSE arr

RECURSIVE InsLoop(_, _, _)
InsLoop(arr, i, max) ==
    IF i > max THEN arr ELSE InsLoop(Sink(arr, i), i + 1, max)

InsertionSort(arr, min, max) == InsLoop(arr, min + 1, max)

RECURSIVE Quicksort(_, _, _)
Quicksort(arr, min, max) ==
    IF max - min > SortThreshold
    THEN LET p == Partition(arr, min, max)
         IN  Quicksort(Quicksort(p[1], min, p[2] - 1), p[2] + 1, max)
    ELSE InsertionSort(arr, min, max)

\* The loop of forkgc_util_compact: returns the array and write.
RECURSIVE CompactLoop(_, _, _, _)
CompactLoop(arr, search, write, n) ==
    IF search >= n THEN <<arr, write>>
    ELSE IF arr[search] = arr[write] THEN CompactLoop(arr, search + 1, write, n)
    ELSE LET w == write + 1
         IN  CompactLoop(IF w < search THEN [arr EXCEPT ![w] = arr[search]] ELSE arr,
                         search + 1, w, n)

\* Mutant: the final ++write is missing.
CompactNoFinalIncrement(arr, n) ==
    IF n < 2 THEN <<arr, 0>>
    ELSE LET r == CompactLoop(arr, 1, 0, n) IN <<r[1], n - r[2]>>

\* forkgc_util_compact: returns the array and the savings.
Compact(arr, n) ==
    IF n < 2 THEN <<arr, 0>>
    ELSE LET r == CompactLoop(arr, 1, 0, n) IN <<r[1], n - (r[2] + 1)>>

\* (i * 2147483647) % n in unsigned int arithmetic: the product wraps
\* modulo 2^32 before the % n.  As 2147483647 = 2^31 - 1, the wrapped
\* product is 2^31 - i for odd i and 2^32 - i for even i > 0; it is
\* reduced modulo n from 2^30 up, as TLC's integers stop below 2^31.
Mul32Mod(i, n) ==
    LET p31 == (2 * (2^30 % n)) % n
        p32 == (2 * p31) % n
    IN  IF i = 0 THEN 0
        ELSE IF i % 2 = 1 THEN (p31 - i) % n ELSE (p32 - i) % n

\* The loop of forkgc_util_randomize.
RECURSIVE RandLoop(_, _, _)
RandLoop(arr, i, n) ==
    IF i >= n THEN arr
    ELSE LET tmp == Mul32Mod(i, n)
         IN  RandLoop(IF i # tmp THEN Swap(arr, i, tmp) ELSE arr, i + 1, n)

\* Mutant: the slot is overwritten instead of swapped.
RandomizeCopy(arr, n) ==
    LET RECURSIVE Loop(_, _)
        Loop(b, i) ==
            IF i >= n THEN b
            ELSE LET tmp == Mul32Mod(i, n)
                 IN  Loop(IF i # tmp THEN [b EXCEPT ![i] = b[tmp]] ELSE b, i + 1)
    IN  Loop(arr, 0)

\* forkgc_util_randomize(addrs, n).
Randomize(arr, n) == RandLoop(arr, 0, n)

Init ==
    /\ len \in 0 .. MaxLen
    /\ a0 \in [0 .. len - 1 -> Vals]
    /\ a = a0
    /\ savings = 0
    /\ phase = "input"

\* The array is shuffled in place by forkgc_util_randomize first.
Shuffle ==
    /\ phase = "input"
    /\ a' = Randomize(a, len)
    /\ phase' = "randomized"
    /\ UNCHANGED <<a0, len, savings>>

\* forkgc_util_sort(a, len) == quicksort(a, 0, len - 1).
Sort ==
    /\ phase \in {"input", "randomized"}
    /\ a' = Quicksort(a, 0, len - 1)
    /\ phase' = "sorted"
    /\ UNCHANGED <<a0, len, savings>>

\* savings = forkgc_util_compact(a, len) on the sorted array.
CompactSorted ==
    /\ phase = "sorted"
    /\ LET r == Compact(a, len) IN a' = r[1] /\ savings' = r[2]
    /\ phase' = "compacted"
    /\ UNCHANGED <<a0, len>>

\* Both calls have returned.
Returned ==
    /\ phase = "compacted"
    /\ UNCHANGED vars

Next == Shuffle \/ Sort \/ CompactSorted \/ Returned

Spec == Init /\ [][Next]_vars

-----------------------------------------------------------------------------
(* Reference definitions and properties.                                   *)

Occurrences(arr, n, v) == Cardinality({i \in 0 .. n - 1 : arr[i] = v})

ValuesOf(arr, n) == {arr[i] : i \in 0 .. n - 1}

\* After forkgc_util_sort the array is the non-decreasing permutation of
\* its input, whatever the recursion does at the threshold: in particular
\* insertion_sort on a right-hand part [min, max] with min > 0, whose inner
\* loop runs past min down to index 0, never moves a value across min.
SortedPermutation ==
    phase = "sorted" =>
        /\ \A i, j \in 0 .. len - 1 : i < j => a[i] <= a[j]
        /\ \A v \in Vals : Occurrences(a, len, v) = Occurrences(a0, len, v)

\* forkgc_util_compact leaves the distinct values of its input, in strictly
\* increasing order, in the first len - savings slots, and savings is the
\* number of duplicates removed.
CompactDedup ==
    phase = "compacted" =>
        /\ savings = len - Cardinality(ValuesOf(a0, len))
        /\ \A i, j \in 0 .. len - savings - 1 : i < j => a[i] < a[j]
        /\ ValuesOf(a, len - savings) = ValuesOf(a0, len)

=============================================================================
