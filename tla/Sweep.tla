------------------------------- MODULE Sweep -------------------------------
(***************************************************************************)
(* The parent's reference-count sweep of one collection (forkgc.c):       *)
(* garbage_collect's do/while loop over find_unreferenced_nodes, whose    *)
(* worker threads run address_range over disjoint slot ranges and recurse *)
(* through unref_addr, claiming a slot by setting the low bit of its      *)
(* address with a CAS and decrementing counts with fetch_and_sub.         *)
(*                                                                         *)
(* The initial state is what the sweep starts from: the aggregated,       *)
(* sorted address array (aggregate_gc_data) and the reference counts the  *)
(* forked child deposited (threadscan_child, not in this repository, so   *)
(* modelled from the spec: every stack word and every word of every       *)
(* retired block that equals a retired address adds one to the slot the   *)
(* child's binary search finds for it).                                    *)
(*                                                                         *)
(* Addresses are even naturals, so the low bit is free for the collected  *)
(* flag exactly as in the code; 0 is a null word.                         *)
(***************************************************************************)
EXTENDS Naturals, FiniteSets, Sequences
LOCAL INSTANCE FiniteSetsExt

CONSTANTS
    Addr,              \* block addresses (even, > 0)
    Words,             \* words per block: alloc_sz[i] / sizeof(size_t)
    MaxN,              \* most retired addresses in one collection
    MaxDepth,          \* unref_addr's depth budget (30 in the code)
    AddrsPerThread,    \* ADDRS_PER_THREAD (128 * 1024 in the code)
    MaxThreads,        \* MAX_THREADS (80 in the code)
    DuplicatesRetired  \* may the same address be retired twice?

ASSUME Addr \subseteq Nat \ {0} /\ \A a \in Addr : a % 2 = 0
ASSUME Words \in Nat \ {0} /\ MaxN \in Nat \ {0} /\ MaxDepth \in Nat
ASSUME AddrsPerThread \in Nat \ {0} /\ MaxThreads \in Nat \ {0}
ASSUME DuplicatesRetired \in BOOLEAN

VARIABLES
    heap0,    \* ghost: block contents in the snapshot
    roots,    \* ghost: retired blocks some stack word points to
    mem,      \* current block contents (unref_addr nulls what it scans)
    addrs,    \* gc_data->addrs, indexed from 0, low bit = collected
    refs,     \* gc_data->refs
    n,        \* gc_data->n_addrs
    minv,     \* unref_config.min_val
    maxv,     \* unref_config.max_val
    tc,       \* thread_count of the current pass
    idx,      \* each worker's loop index i in address_range
    hi,       \* each worker's range_end
    wpc,      \* each worker's control point
    frames,   \* each worker's unref_addr call stack
    freed,    \* number of free() calls on each block
    phase     \* "sweep" while passes run, "done" after the loop exits

vars == <<heap0, roots, mem, addrs, refs, n, minv, maxv, tc, idx, hi,
          wpc, frames, freed, phase>>

Workers == 1 .. MaxThreads
Null == 0
Word == {Null} \cup Addr

\* PTR_MASK, the collected bit, and the value BCAS installs.
Mask(a) == a - (a % 2)
IsClear(a) == a % 2 = 0
Claim(a) == Mask(a) + 1

Slots == DOMAIN addrs
Live == 0 .. n - 1
Cands == DOMAIN heap0

\* Sorted address arrays aggregate_gc_data can produce (threadscan_util_sort
\* does not remove duplicates).
Layouts ==
    {a \in UNION {[0 .. m - 1 -> Addr] : m \in 1 .. MaxN} :
        \A i \in 0 .. Cardinality(DOMAIN a) - 2 :
            IF DuplicatesRetired THEN a[i] <= a[i + 1] ELSE a[i] < a[i + 1]}

\* Words of all retired blocks (one scan per slot) that hold address b.
WordsTo(h, a, b) ==
    MapThenSumSet(LAMBDA j : Cardinality({k \in 1 .. Words : h[a[j]][k] = b}),
                  DOMAIN a)

\* The child's counts: rep[b] is the slot its binary search finds for b.
ScanRefs(h, r, a, rep) ==
    [i \in DOMAIN a |->
        IF rep[a[i]] = i
        THEN (IF a[i] \in r THEN 1 ELSE 0) + WordsTo(h, a, a[i])
        ELSE 0]

Frame == [n : Nat, a : Nat, k : Nat, d : Nat, loc : Nat, deep : Nat]

\* Top of worker w's unref_addr stack.
Top(w) == frames[w][Len(frames[w])]
SetTop(w, f) == [frames EXCEPT ![w] = [@ EXCEPT ![Len(@)] = f]]

-----------------------------------------------------------------------------
(* find_unreferenced_nodes up to the spawn: the bounds of the pass and     *)
(* the partition of [0, nn) into thread_count ranges.                      *)

Pass(nn, a) ==
    LET cnt == IF nn \div AddrsPerThread + 1 > MaxThreads
               THEN MaxThreads ELSE nn \div AddrsPerThread + 1
        per == nn \div cnt
    IN  [minv |-> a[0], maxv |-> a[nn - 1], tc |-> cnt,
         idx |-> [w \in Workers |-> (w - 1) * per],
         hi |-> [w \in Workers |-> IF w = cnt THEN nn ELSE w * per],
         wpc |-> [w \in Workers |-> IF w <= cnt THEN "outer" ELSE "done"],
         frames |-> [w \in Workers |-> <<>>]]

Init ==
    \E a \in Layouts :
    \E h \in [{a[i] : i \in DOMAIN a} -> [1 .. Words -> Word]] :
    \E r \in SUBSET {a[i] : i \in DOMAIN a} :
    \E rep \in {f \in [{a[i] : i \in DOMAIN a} -> DOMAIN a] :
                    \A b \in DOMAIN f : a[f[b]] = b} :
        LET p == Pass(Cardinality(DOMAIN a), a) IN
        /\ heap0 = h
        /\ roots = r
        /\ mem = h
        /\ addrs = a
        /\ refs = ScanRefs(h, r, a, rep)
        /\ n = Cardinality(DOMAIN a)
        /\ freed = [b \in DOMAIN h |-> 0]
        /\ phase = "sweep"
        /\ minv = p.minv /\ maxv = p.maxv /\ tc = p.tc
        /\ idx = p.idx /\ hi = p.hi /\ wpc = p.wpc /\ frames = p.frames

-----------------------------------------------------------------------------
(* address_range: the outer loop of one worker.                            *)

\* addrs[i] is clear and unreferenced: BCAS it to addr | 1 and call
\* unref_addr(i, 30).  A read of the flag or count followed by a CAS that
\* another worker beats is the same as reading the newer value here.
OuterClaim(w) ==
    LET i == idx[w] IN
    /\ phase = "sweep" /\ wpc[w] = "outer" /\ i < hi[w]
    /\ IsClear(addrs[i]) /\ refs[i] = 0
    /\ addrs' = [addrs EXCEPT ![i] = Claim(@)]
    /\ idx' = [idx EXCEPT ![w] = i + 1]
    /\ frames' = [frames EXCEPT ![w] =
          <<[n |-> i, a |-> Claim(addrs[i]), k |-> 1, d |-> MaxDepth,
             loc |-> 0, deep |-> 0]>>]
    /\ wpc' = [wpc EXCEPT ![w] = "word"]
    /\ UNCHANGED <<heap0, roots, mem, refs, n, minv, maxv, tc, hi, freed, phase>>

OuterSkip(w) ==
    LET i == idx[w] IN
    /\ phase = "sweep" /\ wpc[w] = "outer" /\ i < hi[w]
    /\ ~(IsClear(addrs[i]) /\ refs[i] = 0)
    /\ idx' = [idx EXCEPT ![w] = i + 1]
    /\ UNCHANGED <<heap0, roots, mem, addrs, refs, n, minv, maxv, tc, hi,
                   wpc, frames, freed, phase>>

\* The thread function returns; the parent joins it.
OuterDone(w) ==
    /\ phase = "sweep" /\ wpc[w] = "outer" /\ idx[w] >= hi[w]
    /\ wpc' = [wpc EXCEPT ![w] = "done"]
    /\ UNCHANGED <<heap0, roots, mem, addrs, refs, n, minv, maxv, tc, idx, hi,
                   frames, freed, phase>>

-----------------------------------------------------------------------------
(* unref_addr(n, max_depth): one iteration of its loop over the words of   *)
(* the claimed block, the recursion, and the final free(p).                *)

\* The slots binary_search may return for deep inside [lo, hi): it finds a
\* slot holding deep (masked) when there is one, any slot otherwise, and a
\* position outside the array for an empty range.
Search(deep, lo, up) ==
    IF \E j \in lo .. up - 1 : Mask(addrs[j]) = deep
    THEN {j \in lo .. up - 1 : Mask(addrs[j]) = deep}
    ELSE IF lo < up THEN lo .. up - 1 ELSE {Cardinality(Slots)}

\* is_ref: the slot found really holds deep.
IsRef(loc, deep) == loc \in Live /\ Mask(addrs[loc]) = deep

\* Mutant: the lower search range stops one slot short of n.
SearchRangeShort(f, deep) ==
    IF deep < f.a THEN Search(deep, 0, f.n - 1) ELSE Search(deep, f.n, n)

\* Where unref_addr searches: below n when deep_addr < addr, else [n, n_addrs).
SearchRange(f, deep) ==
    IF deep < f.a THEN Search(deep, 0, f.n) ELSE Search(deep, f.n, n)

\* The word is outside [min_val, max_val]: left alone.
WordSkip(w) ==
    LET f == Top(w)
        deep == Mask(mem[Mask(f.a)][f.k])
    IN
    /\ wpc[w] = "word" /\ f.k <= Words
    /\ ~(minv <= deep /\ deep <= maxv)
    /\ frames' = SetTop(w, [f EXCEPT !.k = @ + 1])
    /\ UNCHANGED <<heap0, roots, mem, addrs, refs, n, minv, maxv, tc, idx, hi,
                   wpc, freed, phase>>

\* In range: p[i] = 0, then binary_search; not a retired address.
WordMiss(w) ==
    LET f == Top(w)
        p == Mask(f.a)
        deep == Mask(mem[p][f.k])
    IN
    /\ wpc[w] = "word" /\ f.k <= Words
    /\ minv <= deep /\ deep <= maxv
    /\ \E loc \in SearchRange(f, deep) : ~IsRef(loc, deep)
    /\ mem' = [mem EXCEPT ![p][f.k] = Null]
    /\ frames' = SetTop(w, [f EXCEPT !.k = @ + 1])
    /\ UNCHANGED <<heap0, roots, addrs, refs, n, minv, maxv, tc, idx, hi,
                   wpc, freed, phase>>

\* Mutant: the is_ref test is dropped; whatever slot the search returns
\* is decremented.
WordDecrNoIsRef(w) ==
    LET f == Top(w)
        p == Mask(f.a)
        deep == Mask(mem[p][f.k])
    IN
    /\ wpc[w] = "word" /\ f.k <= Words
    /\ minv <= deep /\ deep <= maxv
    /\ \E loc \in SearchRange(f, deep) \cap Slots :
          /\ refs' = [refs EXCEPT ![loc] = @ - 1]
          /\ frames' = SetTop(w, [f EXCEPT !.loc = loc, !.deep = deep])
    /\ mem' = [mem EXCEPT ![p][f.k] = Null]
    /\ wpc' = [wpc EXCEPT ![w] = "check"]
    /\ UNCHANGED <<heap0, roots, addrs, n, minv, maxv, tc, idx, hi,
                   freed, phase>>

\* In range and is_ref: p[i] = 0 and __sync_fetch_and_sub(&refs[loc], 1).
WordDecr(w) ==
    LET f == Top(w)
        p == Mask(f.a)
        deep == Mask(mem[p][f.k])
    IN
    /\ wpc[w] = "word" /\ f.k <= Words
    /\ minv <= deep /\ deep <= maxv
    /\ \E loc \in SearchRange(f, deep) :
          /\ IsRef(loc, deep)
          /\ refs' = [refs EXCEPT ![loc] = @ - 1]
          /\ frames' = SetTop(w, [f EXCEPT !.loc = loc, !.deep = deep])
    /\ mem' = [mem EXCEPT ![p][f.k] = Null]
    /\ wpc' = [wpc EXCEPT ![w] = "check"]
    /\ UNCHANGED <<heap0, roots, addrs, n, minv, maxv, tc, idx, hi,
                   freed, phase>>

\* Mutant: recurse whenever the count read is zero, without the BCAS.
CheckClaimNoCas(w) ==
    LET f == Top(w) IN
    /\ wpc[w] = "check"
    /\ f.d > 0 /\ refs[f.loc] = 0
    /\ addrs' = [addrs EXCEPT ![f.loc] = Claim(f.deep)]
    /\ frames' = [frames EXCEPT ![w] =
          Append(SetTop(w, [f EXCEPT !.k = @ + 1])[w],
                 [n |-> f.loc, a |-> Claim(f.deep), k |-> 1, d |-> f.d - 1,
                  loc |-> 0, deep |-> 0])]
    /\ wpc' = [wpc EXCEPT ![w] = "word"]
    /\ UNCHANGED <<heap0, roots, mem, refs, n, minv, maxv, tc, idx, hi,
                   freed, phase>>

\* remaining_refs = refs[loc] read after the decrement; if depth remains, it
\* is 0 and BCAS(&addrs[loc], deep, deep | 1) succeeds, recurse.
CheckClaim(w) ==
    LET f == Top(w) IN
    /\ wpc[w] = "check"
    /\ f.d > 0 /\ refs[f.loc] = 0 /\ addrs[f.loc] = f.deep
    /\ addrs' = [addrs EXCEPT ![f.loc] = Claim(f.deep)]
    /\ frames' = [frames EXCEPT ![w] =
          Append(SetTop(w, [f EXCEPT !.k = @ + 1])[w],
                 [n |-> f.loc, a |-> Claim(f.deep), k |-> 1, d |-> f.d - 1,
                  loc |-> 0, deep |-> 0])]
    /\ wpc' = [wpc EXCEPT ![w] = "word"]
    /\ UNCHANGED <<heap0, roots, mem, refs, n, minv, maxv, tc, idx, hi,
                   freed, phase>>

CheckPass(w) ==
    LET f == Top(w) IN
    /\ wpc[w] = "check"
    /\ ~(f.d > 0 /\ refs[f.loc] = 0 /\ addrs[f.loc] = f.deep)
    /\ frames' = SetTop(w, [f EXCEPT !.k = @ + 1])
    /\ wpc' = [wpc EXCEPT ![w] = "word"]
    /\ UNCHANGED <<heap0, roots, mem, addrs, refs, n, minv, maxv, tc, idx, hi,
                   freed, phase>>

\* All words scanned: free(p) and return to the caller.
Finish(w) ==
    LET f == Top(w) IN
    /\ wpc[w] = "word" /\ f.k > Words
    /\ freed' = [freed EXCEPT ![Mask(f.a)] = @ + 1]
    /\ frames' = [frames EXCEPT ![w] = SubSeq(@, 1, Len(@) - 1)]
    /\ wpc' = [wpc EXCEPT ![w] = IF Len(frames[w]) = 1 THEN "outer" ELSE "word"]
    /\ UNCHANGED <<heap0, roots, mem, addrs, refs, n, minv, maxv, tc, idx, hi,
                   phase>>

-----------------------------------------------------------------------------
(* After the joins: the compaction at the end of find_unreferenced_nodes   *)
(* and the loop test in garbage_collect, which either starts another pass  *)
(* or leaves the loop.                                                      *)

\* Slot indices in [0, n) whose address still has its low bit clear, in order.
Kept == {i \in Live : IsClear(addrs[i])}
KeptAt(j) == CHOOSE i \in Kept : Cardinality({x \in Kept : x < i}) = j

\* Left-pack f over the kept slots; positions past the new n keep old values.
Packed(f) ==
    [j \in Slots |-> IF j < Cardinality(Kept) THEN f[KeptAt(j)] ELSE f[j]]

\* Mutant: a single call of find_unreferenced_nodes, no loop.
EndPassOnce ==
    /\ phase = "sweep"
    /\ \A w \in Workers : wpc[w] = "done"
    /\ addrs' = Packed(addrs)
    /\ refs' = Packed(refs)
    /\ n' = Cardinality(Kept)
    /\ phase' = "done"
    /\ UNCHANGED <<heap0, roots, mem, freed, minv, maxv, tc, idx, hi, wpc, frames>>

\* Mutant: the loop test ignores the savings and repeats while slots remain.
EndPassNoSavings ==
    LET nn == Cardinality(Kept)
        a == Packed(addrs)
        p == Pass(nn, a)
    IN
    /\ phase = "sweep"
    /\ \A w \in Workers : wpc[w] = "done"
    /\ addrs' = a
    /\ refs' = Packed(refs)
    /\ n' = nn
    /\ IF nn > 0
       THEN /\ minv' = p.minv /\ maxv' = p.maxv /\ tc' = p.tc
            /\ idx' = p.idx /\ hi' = p.hi /\ wpc' = p.wpc /\ frames' = p.frames
            /\ UNCHANGED phase
       ELSE /\ phase' = "done"
            /\ UNCHANGED <<minv, maxv, tc, idx, hi, wpc, frames>>
    /\ UNCHANGED <<heap0, roots, mem, freed>>

EndPass ==
    LET nn == Cardinality(Kept)
        savings == n - nn
        a == Packed(addrs)
        p == Pass(nn, a)
    IN
    /\ phase = "sweep"
    /\ \A w \in Workers : wpc[w] = "done"
    /\ addrs' = a
    /\ refs' = Packed(refs)
    /\ n' = nn
    /\ IF savings > 0 /\ nn > 0
       THEN /\ minv' = p.minv /\ maxv' = p.maxv /\ tc' = p.tc
            /\ idx' = p.idx /\ hi' = p.hi /\ wpc' = p.wpc /\ frames' = p.frames
            /\ UNCHANGED phase
       ELSE /\ phase' = "done"
            /\ UNCHANGED <<minv, maxv, tc, idx, hi, wpc, frames>>
    /\ UNCHANGED <<heap0, roots, mem, freed>>

\* The sweep has returned; the collection goes on without it.
Terminated ==
    /\ phase = "done"
    /\ UNCHANGED vars

Worker(w) ==
    \/ OuterClaim(w) \/ OuterSkip(w) \/ OuterDone(w)
    \/ WordSkip(w) \/ WordMiss(w) \/ WordDecr(w)
    \/ CheckClaim(w) \/ CheckPass(w) \/ Finish(w)

Next ==
    \/ \E w \in Workers : Worker(w)
    \/ EndPass
    \/ Terminated

\* Kernel threads: every worker, and the parent, keeps running.
Fairness == (\A w \in Workers : WF_vars(Worker(w))) /\ WF_vars(EndPass)

Spec == Init /\ [][Next]_vars /\ Fairness

-----------------------------------------------------------------------------
(* Properties.                                                             *)

TypeOK ==
    /\ mem \in [Cands -> [1 .. Words -> Word]]
    /\ addrs \in [Slots -> Nat]
    /\ refs \in [Slots -> Nat]
    /\ n \in 0 .. Cardinality(Slots)
    /\ tc \in 1 .. MaxThreads
    /\ wpc \in [Workers -> {"outer", "word", "check", "done"}]
    /\ frames \in [Workers -> Seq(Frame)]
    /\ freed \in [Cands -> Nat]
    /\ phase \in {"sweep", "done"}

R == INSTANCE Reclaim WITH heap <- heap0, roots <- roots, freeCount <- freed

\* Every count the sweep reads is exact: refs[i] is the number of stack
\* words plus not-yet-scanned block words that hold addrs[i].  Each
\* decrement in unref_addr must be matched by nulling the word it came from,
\* under any interleaving of the workers' fetch_and_sub, read and CAS.
RefsMatchHeap ==
    \A i \in Live :
        LET b == Mask(addrs[i]) IN
        refs[i] = (IF b \in roots THEN 1 ELSE 0)
                  + MapThenSumSet(LAMBDA c :
                        Cardinality({k \in 1 .. Words : mem[c][k] = b}), Cands)

\* When garbage_collect leaves its sweep loop, the array it redistributes
\* into the carry-over batches holds exactly the protected blocks, and every
\* other retired block has been freed once: the depth cap of unref_addr and
\* the compaction lose nothing.
SweepComplete ==
    phase = "done" =>
        /\ {Mask(addrs[i]) : i \in Live} = R!Protected
        /\ \A b \in Cands \ R!Protected : freed[b] = 1

\* The sweep implements Reclaim's safety: every free() in unref_addr is of a
\* block no stack word and no surviving block can reach, and is the first
\* free of that block, whatever the workers' interleaving and however the
\* depth budget splits the work into passes.
ReclaimRefinement == R!SafetySpec

\* garbage_collect's do/while loop over find_unreferenced_nodes ends: each
\* pass either frees something or stops.  With SweepComplete this gives
\* Reclaim's liveness: every unprotected block is eventually freed.
Termination == <>(phase = "done")

\* free() is never called twice on the same block (spec section 8).
NoDoubleFree == \A b \in Cands : freed[b] <= 1

=============================================================================
