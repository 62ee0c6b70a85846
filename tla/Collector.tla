----------------------------- MODULE Collector -----------------------------
(***************************************************************************)
(* The hand-off of candidate batches to the collector thread and the      *)
(* carry-over of survivors between collections (forkgc.c):                *)
(* forkgc_initiate_collection pushes a batch on g_gc_data under g_gc_mutex *)
(* and signals g_gc_cond if the collector waits; forkgc_thread waits while *)
(* g_gc_data is NULL and detaches the whole list; garbage_collect prepends *)
(* g_uncollected_data, sweeps, writes the survivors back into the batches  *)
(* of the list, keeps the batches that hold them and munmaps the rest.     *)
(*                                                                         *)
(* Every critical section of g_gc_mutex is one action.  The sweep itself  *)
(* is abstracted to its outcome: any subset of the aggregated addresses   *)
(* may survive (which one depends on the stacks; Sweep.tla checks how).   *)
(* A read through a pointer to an unmapped batch, or through NULL, is a   *)
(* crash of the process.                                                   *)
(***************************************************************************)
EXTENDS Naturals, Sequences, FiniteSets
LOCAL INSTANCE SequencesExt

CONSTANTS
    Batch,            \* batch regions a mutator can hand off
    Cap,              \* capacity of every batch (g_forkgc_ptrs_per_thread)
    MaxAddr,          \* retired addresses are 1 .. MaxAddr
    SpuriousWakeups,  \* may pthread_cond_wait return without a signal?
    NULL

ASSUME Cap \in Nat \ {0} /\ MaxAddr \in Nat /\ SpuriousWakeups \in BOOLEAN
ASSUME NULL \notin Batch

VARIABLES
    gcData,       \* g_gc_data: head of the list waiting for the collector
    uncollected,  \* g_uncollected_data: head of the carry-over list
    next,         \* gc_data_t.next of every batch
    contents,     \* gc_data_t.addrs[0 .. n_addrs - 1] of every batch
    mapped,       \* batches whose region is mapped
    used,         \* batches ever handed off (regions are fresh mappings)
    waiting,      \* g_gc_waiting
    signalled,    \* a pthread_cond_signal not yet consumed by the waiter
    cpc,          \* collector: "top", "wait", "collect" or "crashed"
    work,         \* the list forkgc_thread detached
    nextAddr,     \* next address a mutator retires
    freedSet      \* addresses the sweeps freed

vars == <<gcData, uncollected, next, contents, mapped, used, waiting,
          signalled, cpc, work, nextAddr, freedSet>>

Ptr == Batch \cup {NULL}
Addr == 1 .. MaxAddr

\* The batches of the list starting at h, following next.
RECURSIVE ChainFrom(_, _)
ChainFrom(h, fuel) ==
    IF h = NULL \/ fuel = 0 THEN <<>>
    ELSE <<h>> \o ChainFrom(next[h], fuel - 1)

Chain(h) == ChainFrom(h, Cardinality(Batch))

ChainAddrs(h) == UNION {ToSet(contents[b]) : b \in ToSet(Chain(h))}

Init ==
    /\ gcData = NULL
    /\ uncollected = NULL
    /\ next = [b \in Batch |-> NULL]
    /\ contents = [b \in Batch |-> <<>>]
    /\ mapped = {}
    /\ used = {}
    /\ waiting = FALSE
    /\ signalled = FALSE
    /\ cpc = "top"
    /\ work = NULL
    /\ nextAddr = 1
    /\ freedSet = {}

-----------------------------------------------------------------------------
(* Mutator side.                                                           *)

\* Mutant: the push never signals the condition variable.
InitiateCollectionNoSignal ==
    \E b \in Batch \ used, k \in 1 .. Cap :
        /\ nextAddr + k - 1 <= MaxAddr
        /\ used' = used \cup {b}
        /\ mapped' = mapped \cup {b}
        /\ contents' = [contents EXCEPT ![b] = [i \in 1 .. k |-> nextAddr + i - 1]]
        /\ nextAddr' = nextAddr + k
        /\ next' = [next EXCEPT ![b] = gcData]
        /\ gcData' = b
        /\ UNCHANGED <<uncollected, waiting, signalled, cpc, work, freedSet>>

\* A mutator fills a fresh batch with k retired addresses and calls
\* forkgc_initiate_collection: push it on g_gc_data and, if the collector
\* waits, pthread_cond_signal.
InitiateCollection ==
    \E b \in Batch \ used, k \in 1 .. Cap :
        /\ nextAddr + k - 1 <= MaxAddr
        /\ used' = used \cup {b}
        /\ mapped' = mapped \cup {b}
        /\ contents' = [contents EXCEPT ![b] = [i \in 1 .. k |-> nextAddr + i - 1]]
        /\ nextAddr' = nextAddr + k
        /\ next' = [next EXCEPT ![b] = gcData]
        /\ gcData' = b
        /\ signalled' = (signalled \/ waiting)
        /\ UNCHANGED <<uncollected, waiting, cpc, work, freedSet>>

-----------------------------------------------------------------------------
(* forkgc_thread.                                                          *)

\* Lock; g_gc_data is NULL: g_gc_waiting = 1 and pthread_cond_wait.
CollectorWait ==
    /\ cpc = "top" /\ gcData = NULL
    /\ waiting' = TRUE
    /\ cpc' = "wait"
    /\ UNCHANGED <<gcData, uncollected, next, contents, mapped, used,
                   signalled, work, nextAddr, freedSet>>

\* Lock; g_gc_data is not NULL: detach the list and unlock.
CollectorTake ==
    /\ cpc = "top" /\ gcData # NULL
    /\ work' = gcData
    /\ gcData' = NULL
    /\ cpc' = "collect"
    /\ UNCHANGED <<uncollected, next, contents, mapped, used, waiting,
                   signalled, nextAddr, freedSet>>

\* Mutant: the woken collector copies g_gc_data but does not clear it.
CollectorWakeNoDetach ==
    /\ cpc = "wait"
    /\ signalled \/ SpuriousWakeups
    /\ waiting' = FALSE
    /\ signalled' = FALSE
    /\ work' = gcData
    /\ cpc' = "collect"
    /\ UNCHANGED <<gcData, uncollected, next, contents, mapped, used, nextAddr, freedSet>>

\* pthread_cond_wait returns (signalled, or spuriously) with the mutex;
\* g_gc_waiting = 0, and the list is detached without testing it again.
CollectorWake ==
    /\ cpc = "wait"
    /\ signalled \/ SpuriousWakeups
    /\ waiting' = FALSE
    /\ signalled' = FALSE
    /\ work' = gcData
    /\ gcData' = NULL
    /\ cpc' = "collect"
    /\ UNCHANGED <<uncollected, next, contents, mapped, used, nextAddr, freedSet>>

-----------------------------------------------------------------------------
(* garbage_collect.                                                        *)

\* It dereferences g_uncollected_data (walking to its tail) or, with no
\* carry-over, the detached list (aggregate_gc_data).
CollectCrashes ==
    \/ uncollected # NULL /\ uncollected \notin mapped
    \/ uncollected = NULL /\ work = NULL

CollectCrash ==
    /\ cpc = "collect" /\ CollectCrashes
    /\ cpc' = "crashed"
    /\ UNCHANGED <<gcData, uncollected, next, contents, mapped, used, waiting,
                   signalled, work, nextAddr, freedSet>>

\* Mutant: the capacity test of the write-back loop is `>` instead of `>=`.
BatchOfOver(i) == (i - 1) \div (Cap + 1) + 1

\* The batch of the list (1-based) the i-th survivor is written to: the
\* write-back loop moves to the next batch when n_addrs >= capacity.
BatchOf(i) == (i - 1) \div Cap + 1

\* Mutant: the batch holding the last survivors is munmapped too.
KeepsShort(k) == IF k = 0 THEN 0 ELSE BatchOf(k) - 1

\* Batches at the head of the list kept after the write-back: up to the
\* one the loop ended on, if it holds survivors; none when nothing survived.
Keeps(k) == IF k = 0 THEN 0 ELSE BatchOf(k)

\* The carry-over list is prepended, the list aggregated and swept, the
\* survivors (sorted) written back from the head, the tail munmapped.
Collect ==
    /\ cpc = "collect" /\ ~CollectCrashes
    /\ LET carry == Chain(uncollected)
           L == carry \o Chain(work)
           all == UNION {ToSet(contents[b]) : b \in ToSet(L)}
       IN
       \E S \in SUBSET all :
         LET surv == SetToSortSeq(S, <)
             k == Len(surv)
             keep == Keeps(k)
         IN
         /\ freedSet' = freedSet \cup (all \ S)
         /\ contents' = [b \in Batch |->
               IF \E j \in 1 .. Len(L) : L[j] = b
               THEN LET j == CHOOSE x \in 1 .. Len(L) : L[x] = b IN
                    LET at == SelectSeq([i \in 1 .. k |-> i],
                                        LAMBDA i : BatchOf(i) = j)
                    IN  [x \in 1 .. Len(at) |-> surv[at[x]]]
               ELSE contents[b]]
         /\ next' = [b \in Batch |->
               IF keep > 0 /\ b = L[keep] THEN NULL
               ELSE IF carry # <<>> /\ b = carry[Len(carry)] THEN work
               ELSE next[b]]
         /\ mapped' = mapped \ {L[j] : j \in keep + 1 .. Len(L)}
         /\ uncollected' = IF k > 0 /\ uncollected = NULL THEN L[1] ELSE uncollected
    /\ cpc' = "top"
    /\ work' = NULL
    /\ UNCHANGED <<gcData, used, waiting, signalled, nextAddr>>

\* The process has died: nothing runs any more.
Dead ==
    /\ cpc = "crashed"
    /\ UNCHANGED vars

\* No mutator has anything left to hand off and the collector sleeps in
\* pthread_cond_wait: the program is idle.
Idle ==
    /\ cpc = "wait" /\ ~signalled /\ ~SpuriousWakeups
    /\ (used = Batch \/ nextAddr > MaxAddr)
    /\ UNCHANGED vars

Collector ==
    \/ CollectorWait \/ CollectorTake \/ CollectorWake
    \/ Collect \/ CollectCrash

Next ==
    \/ cpc # "crashed" /\ InitiateCollection
    \/ Collector
    \/ Dead
    \/ Idle

\* The collector is a kernel thread that keeps running; mutators need not
\* retire anything.
Spec == Init /\ [][Next]_vars /\ WF_vars(Collector)

-----------------------------------------------------------------------------
(* Properties.                                                             *)

TypeOK ==
    /\ gcData \in Ptr /\ uncollected \in Ptr /\ work \in Ptr
    /\ next \in [Batch -> Ptr]
    /\ contents \in [Batch -> Seq(Addr)]
    /\ \A b \in Batch : Len(contents[b]) <= Cap
    /\ mapped \subseteq used /\ used \subseteq Batch
    /\ waiting \in BOOLEAN /\ signalled \in BOOLEAN
    /\ cpc \in {"top", "wait", "collect", "crashed"}
    /\ nextAddr \in 1 .. MaxAddr + 1 /\ freedSet \subseteq Addr

\* Addresses held by the lists the program can still reach.
Pending == ChainAddrs(gcData)
Detached == ChainAddrs(work)
Carried == IF uncollected \in mapped THEN ChainAddrs(uncollected) ELSE {}

\* No retired address is lost or duplicated across collections: each one is
\* either freed, or in exactly one of the pending list, the list being
\* collected and the carry-over list, through every write-back and munmap of
\* garbage_collect and every push that races with it.
NoLostCandidate ==
    /\ 1 .. nextAddr - 1 = freedSet \cup Pending \cup Detached \cup Carried
    /\ freedSet \cap (Pending \cup Detached \cup Carried) = {}
    /\ Pending \cap Detached = {} /\ Pending \cap Carried = {}
    /\ Detached \cap Carried = {}

\* A handed-off batch is eventually taken by the collector: the push and
\* the collector's test-then-wait under g_gc_mutex lose no wake-up.
WorkCollected == gcData # NULL ~> (gcData = NULL \/ cpc = "crashed")

\* g_uncollected_data is NULL or the first batch holding survivors, never a
\* munmapped batch (spec 4.6: "re-seeded to the first batch holding
\* survivors, or null if none").
CarryOverMapped == uncollected = NULL \/ uncollected \in mapped

\* forkgc_thread hands garbage_collect a non-empty list (assert(g_gc_data)).
CollectorGetsWork == cpc = "collect" => work # NULL

\* Where each address is in its life, read off the lists: not yet retired,
\* freed, on g_gc_data, on the detached list, on the mapped carry-over
\* list, or none of these (lost).
CandStates ==
    LET P == Pending
        D == Detached
        C == Carried
    IN  [a \in Addr |->
           CASE a >= nextAddr  -> "none"
             [] a \in freedSet -> "freed"
             [] a \in P        -> "pending"
             [] a \in D        -> "collecting"
             [] a \in C        -> "carried"
             [] OTHER          -> "lost"]

Abstract == INSTANCE Candidates WITH Addr <- Addr,
                st <- CandStates, alive <- (cpc # "crashed")

\* The hand-off, the detach, the prepend of g_uncollected_data and the
\* write-back implement the per-address lifecycle of Candidates: an
\* address moves only from retired to pending, from pending to collecting
\* when forkgc_thread detaches the whole list, and from collecting or
\* carried to freed or carried in one collection.  No address is freed
\* while it still waits on g_gc_data, and none returns to an earlier list.
CandidatesRefinement == Abstract!SafetySpec

=============================================================================
