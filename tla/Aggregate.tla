----------------------------- MODULE Aggregate -----------------------------
(***************************************************************************)
(* aggregate_gc_data (forkgc.c): the list of candidate batches (carry-over *)
(* already prepended by garbage_collect) becomes one dataset in a single  *)
(* shared mapping: a header page, then addrs, minimap, refs and alloc_sz, *)
(* each rounded up to whole pages.  The addresses are copied batch by     *)
(* batch, sorted (threadscan_util_sort, the quicksort of SortUtil.tla),   *)
(* checked by assert_monotonicity in debug builds, and sampled every      *)
(* PAGESIZE / sizeof(size_t) entries into the minimap (generate_minimap). *)
(*                                                                         *)
(* Sizes are in bytes and scaled down: a page of PageSize bytes holds a   *)
(* few words, so that the rounding of every page count is exercised by    *)
(* datasets of a handful of addresses.  malloc_usable_size is external:   *)
(* alloc_sz is left out, and so are refs (a fresh mapping, all zero).     *)
(***************************************************************************)
EXTENDS Integers, Sequences, FiniteSets
LOCAL INSTANCE SequencesExt

CONSTANTS
    Addrs,          \* addresses a batch may hold (non-zero pointers)
    MaxBatches,     \* longest list of batches handed to aggregate_gc_data
    Cap,            \* capacity of a batch
    PageSize,       \* PAGE_SIZE = PAGESIZE, in bytes
    WordSize,       \* sizeof(size_t)
    IntSize,        \* sizeof(int)
    SortThreshold,  \* SORT_THRESHOLD
    Debug           \* built without NDEBUG: assert_monotonicity is compiled in

ASSUME Addrs \subseteq Nat \ {0}
ASSUME PageSize % WordSize = 0 /\ PageSize % IntSize = 0 /\ Debug \in BOOLEAN

\* The sort utility, used through its operators only.
Sort == INSTANCE SortUtil WITH Vals <- Addrs, MaxLen <- 0,
            a0 <- <<>>, a <- <<>>, len <- 0, savings <- 0, phase <- "input"

VARIABLES
    list,    \* data_list: the batches' addrs[0 .. n_addrs - 1], in list order
    data,    \* the dataset returned (a record), once status = "done"
    status   \* "input", "done" or "fatal" (threadscan_fatal in the assertion)

vars == <<list, data, status>>

\* Batches as mutators hand them off: 1 .. Cap addresses each.
Batches == UNION {[1 .. k -> Addrs] : k \in 1 .. Cap}

Init ==
    /\ list \in UNION {[1 .. k -> Batches] : k \in 1 .. MaxBatches}
    /\ data = [n |-> 0, addrs |-> <<>>, minimap |-> <<>>,
               pagesAddrs |-> 0, pagesMinimap |-> 0, pagesCount |-> 0]
    /\ status = "input"

\* ((count * elem) + PAGE_SIZE - elem) / PAGE_SIZE: pages for count
\* elements of elem bytes.
PagesOf(count, elem) == (count * elem + PageSize - elem) \div PageSize

\* The loop of __assert_monotonicity: fatal at the first a[i] <= last,
\* last starting at 0.  Arrays are 0-based functions.
RECURSIVE MonotonicFrom(_, _, _, _)
MonotonicFrom(arr, i, n, last) ==
    i >= n \/ (arr[i] > last /\ MonotonicFrom(arr, i + 1, n, arr[i]))

\* Mutant: the sampling loop steps by PAGESIZE / sizeof(int).
GenerateMinimapIntStride(arr, n) ==
    LET stride == PageSize \div IntSize
    IN  [k \in 0 .. ((n + stride - 1) \div stride) - 1 |-> arr[k * stride]]

\* generate_minimap: minimap[n_minimap++] = addrs[i] for i = 0, stride,
\* 2 * stride, ... below n_addrs, stride = PAGESIZE / sizeof(size_t).
GenerateMinimap(arr, n) ==
    LET stride == PageSize \div WordSize
    IN  [k \in 0 .. ((n + stride - 1) \div stride) - 1 |-> arr[k * stride]]

\* Mutant: the minimap's page count is not rounded up.
MinimapPagesTruncated(pagesAddrs) == (pagesAddrs * WordSize) \div PageSize

\* pages_of_minimap: one minimap word per page of addresses.
MinimapPages(pagesAddrs) == PagesOf(pagesAddrs, WordSize)

\* aggregate_gc_data: total the batch sizes, size and map the dataset,
\* copy every batch's addresses in list order, sort them, assert their
\* strict monotonicity (debug builds), generate the minimap.
AggregateGcData ==
    /\ status = "input"
    /\ LET n == FoldSeq(LAMBDA b, acc : Len(b) + acc, 0, list)
           flat == FlattenSeq(list)
           sorted == Sort!Quicksort([i \in 0 .. n - 1 |-> flat[i + 1]], 0, n - 1)
           pa == PagesOf(n, WordSize)
       IN
       IF Debug /\ ~MonotonicFrom(sorted, 0, n, 0)
       THEN status' = "fatal" /\ UNCHANGED data
       ELSE /\ data' = [n |-> n, addrs |-> sorted,
                        minimap |-> GenerateMinimap(sorted, n),
                        pagesAddrs |-> pa,
                        pagesMinimap |-> MinimapPages(pa),
                        pagesCount |-> PagesOf(n, IntSize)]
            /\ status' = "done"
    /\ UNCHANGED list

\* The dataset has been handed to the barrier (or the process has ended).
Returned ==
    /\ status # "input"
    /\ UNCHANGED vars

Next == AggregateGcData \/ Returned

Spec == Init /\ [][Next]_vars

-----------------------------------------------------------------------------
(* Properties.                                                             *)

\* Every retired address of every batch, with its multiplicity.
Retired == FlattenSeq(list)

\* The scanner's two-level search (spec 4.4; threadscan_child is not in this
\* repository): the last minimap entry <= w names the page of addrs to
\* search, and w is looked for in that page only.
Located(w) ==
    LET stride == PageSize \div WordSize
        mm == data.minimap
        ks == {k \in DOMAIN mm : mm[k] <= w}
    IN  ks # {} /\
        LET k == CHOOSE x \in ks : \A y \in ks : y <= x
        IN  \E i \in k * stride .. (k + 1) * stride - 1 :
                i < data.n /\ data.addrs[i] = w

\* Each sub-array of the dataset lies inside its own page-rounded region:
\* the sizes aggregate_gc_data maps (from n_addrs and PAGE_SIZE) hold the
\* n_addrs words and ints and the minimap generate_minimap fills (from
\* PAGESIZE), so nothing the scanner writes or the sweep reads spills into
\* the next array.
LayoutFits ==
    status = "done" =>
        /\ data.n * WordSize <= data.pagesAddrs * PageSize
        /\ Cardinality(DOMAIN data.minimap) * WordSize <= data.pagesMinimap * PageSize
        /\ data.n * IntSize <= data.pagesCount * PageSize

\* After aggregation every retired address, duplicates included, is found
\* by the scanner's minimap-then-page search, so each reference the child
\* sees is counted against the right slot.
MinimapLocates ==
    status = "done" =>
        /\ data.n = Len(Retired)
        /\ \A w \in ToSet(Retired) : Located(w)

=============================================================================
