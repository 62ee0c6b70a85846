--------------------------- MODULE ThreadRegistry ---------------------------
(***************************************************************************)
(* Per-thread data and the thread list of util.c.  A thread_data_t is     *)
(* created with ref_count 1 (forkgc_util_thread_data_new), linked into   *)
(* the thread list under its lock (thread_list_add), unlinked on exit     *)
(* (thread_list_remove), and released with thread_data_decr_ref, which    *)
(* stages it on g_td_staged_to_free when the count reaches 0.            *)
(* thread_data_cleanup unlinks it from the staged list, checks the count  *)
(* and unmaps it.  A lookup (thread_list_find) takes a reference to the   *)
(* entry whose stack holds an address and drops it with decr_ref.         *)
(*                                                                         *)
(* Both lists are intrusive and share the one td->next field, so they are *)
(* modelled by that field and two heads.  Every critical section of a     *)
(* lock is one action; the lock-free fetch_and_sub of decr_ref and the    *)
(* locked push that follows it are two.  The callers (thread.c) are not   *)
(* in this repository: the order a thread goes through (new, add, remove, *)
(* decr_ref, cleanup) is the one spec sections 5 and 7 describe.          *)
(***************************************************************************)
EXTENDS Integers, Sequences, FiniteSets
LOCAL INSTANCE SequencesExt

CONSTANTS
    Threads,   \* thread_data_t records (one per thread)
    Finders,   \* threads that call thread_list_find
    NULL

ASSUME NULL \notin Threads /\ NULL \notin Finders

VARIABLES
    tdState,   \* "unmapped", "live" or "freed" (memblock of each record)
    refCount,  \* td->ref_count
    tdNext,    \* td->next, shared by the thread list and the staged list
    head,      \* tl->head
    count,     \* tl->count
    stagedHead,\* g_td_staged_to_free
    tpc,       \* where each thread is in its life
    hold,      \* the record each finder holds a reference to, or NULL
    fpc,       \* each finder: "idle", "holding" or "staging"
    fatal      \* "none", "race" (forkgc_fatal at 119) or "null" (walk hit NULL)

vars == <<tdState, refCount, tdNext, head, count, stagedHead, tpc, hold, fpc, fatal>>

\* The records of the list starting at h, following td->next.
RECURSIVE ChainFrom(_, _)
ChainFrom(h, fuel) ==
    IF h = NULL \/ fuel = 0 THEN <<>> ELSE <<h>> \o ChainFrom(tdNext[h], fuel - 1)

Chain(h) == ChainFrom(h, Cardinality(Threads) + 1)

\* thread_list_init on a list whose head is NULL; nothing is allocated yet.
Init ==
    /\ tdState = [t \in Threads |-> "unmapped"]
    /\ refCount = [t \in Threads |-> 0]
    /\ tdNext = [t \in Threads |-> NULL]
    /\ head = NULL /\ count = 0
    /\ stagedHead = NULL
    /\ tpc = [t \in Threads |-> "unborn"]
    /\ hold = [f \in Finders |-> NULL]
    /\ fpc = [f \in Finders |-> "idle"]
    /\ fatal = "none"

Running == fatal = "none"

-----------------------------------------------------------------------------
(* util.c operations.                                                      *)

\* forkgc_util_thread_data_new.
New(t) ==
    /\ Running /\ tpc[t] = "unborn"
    /\ tdState' = [tdState EXCEPT ![t] = "live"]
    /\ refCount' = [refCount EXCEPT ![t] = 1]
    /\ tpc' = [tpc EXCEPT ![t] = "created"]
    /\ UNCHANGED <<tdNext, head, count, stagedHead, hold, fpc, fatal>>

\* forkgc_util_thread_list_add: push at the head under tl->lock.
ListAdd(t) ==
    /\ Running /\ tpc[t] = "created"
    /\ tdNext' = [tdNext EXCEPT ![t] = head]
    /\ head' = t
    /\ count' = count + 1
    /\ tpc' = [tpc EXCEPT ![t] = "registered"]
    /\ UNCHANGED <<tdState, refCount, stagedHead, hold, fpc, fatal>>

\* Mutant: remove unlinks td as if it were always the head of the list.
ListRemoveHeadOnly(t) ==
    /\ Running /\ tpc[t] = "registered"
    /\ head' = tdNext[t]
    /\ UNCHANGED tdNext
    /\ count' = count - 1
    /\ tpc' = [tpc EXCEPT ![t] = "removed"]
    /\ UNCHANGED <<tdState, refCount, stagedHead, hold, fpc, fatal>>

\* forkgc_util_thread_list_remove: unlink td under tl->lock.
ListRemove(t) ==
    /\ Running /\ tpc[t] = "registered"
    /\ LET L == Chain(head) IN
       \E i \in 1 .. Len(L) :
         /\ L[i] = t
         /\ IF i = 1 THEN head' = tdNext[t] /\ UNCHANGED tdNext
            ELSE tdNext' = [tdNext EXCEPT ![L[i - 1]] = tdNext[t]] /\ UNCHANGED head
    /\ count' = count - 1
    /\ tpc' = [tpc EXCEPT ![t] = "removed"]
    /\ UNCHANGED <<tdState, refCount, stagedHead, hold, fpc, fatal>>

\* The fetch_and_sub of forkgc_util_thread_data_decr_ref; reaching 0 leads
\* to the locked push on g_td_staged_to_free (StagePush).
DecrCount(t) == refCount' = [refCount EXCEPT ![t] = @ - 1]

\* The push on g_td_staged_to_free under g_staged_lock.
StagePush(t) ==
    /\ tdNext' = [tdNext EXCEPT ![t] = stagedHead]
    /\ stagedHead' = t

\* The exiting thread drops its own reference.
ExitDecr(t) ==
    /\ Running /\ tpc[t] = "removed"
    /\ DecrCount(t)
    /\ tpc' = [tpc EXCEPT ![t] = IF refCount[t] - 1 = 0 THEN "staging" ELSE "exited"]
    /\ UNCHANGED <<tdState, tdNext, head, count, stagedHead, hold, fpc, fatal>>

ExitStage(t) ==
    /\ Running /\ tpc[t] = "staging"
    /\ StagePush(t)
    /\ tpc' = [tpc EXCEPT ![t] = "exited"]
    /\ UNCHANGED <<tdState, refCount, head, count, hold, fpc, fatal>>

\* forkgc_util_thread_data_cleanup: walk g_td_staged_to_free for td (the
\* walk dereferences NULL, or trips assert(td), when td is not on it),
\* unlink it, then report a data race if td->ref_count > 0, else unmap it.
Cleanup(t) ==
    /\ Running /\ tpc[t] = "exited"
    /\ LET S == Chain(stagedHead) IN
       IF \A i \in 1 .. Len(S) : S[i] # t
       THEN /\ fatal' = "null"
            /\ UNCHANGED <<tdState, tdNext, stagedHead, tpc>>
       ELSE LET i == CHOOSE x \in 1 .. Len(S) : S[x] = t /\ \A y \in 1 .. x - 1 : S[y] # t
            IN
            /\ IF i = 1 THEN stagedHead' = tdNext[t] /\ UNCHANGED tdNext
               ELSE tdNext' = [tdNext EXCEPT ![S[i - 1]] = tdNext[t]] /\ UNCHANGED stagedHead
            /\ IF refCount[t] > 0
               THEN fatal' = "race" /\ UNCHANGED <<tdState, tpc>>
               ELSE /\ tdState' = [tdState EXCEPT ![t] = "freed"]
                    /\ tpc' = [tpc EXCEPT ![t] = "done"]
                    /\ UNCHANGED fatal
    /\ UNCHANGED <<refCount, head, count, hold, fpc>>

\* Mutant: the lookup returns the record without taking a reference.
FindNoRef(f) ==
    /\ Running /\ fpc[f] = "idle"
    /\ \E t \in ToSet(Chain(head)) : hold' = [hold EXCEPT ![f] = t]
    /\ fpc' = [fpc EXCEPT ![f] = "holding"]
    /\ UNCHANGED <<tdState, refCount, tdNext, head, count, stagedHead, tpc, fatal>>

\* forkgc_util_thread_list_find: under tl->lock, the first record of the
\* list whose stack holds the address gets a reference.  Stacks are
\* disjoint, so the address names one record; an address in no listed
\* stack returns NULL and changes nothing.
Find(f) ==
    /\ Running /\ fpc[f] = "idle"
    /\ \E t \in ToSet(Chain(head)) :
         /\ refCount' = [refCount EXCEPT ![t] = @ + 1]
         /\ hold' = [hold EXCEPT ![f] = t]
    /\ fpc' = [fpc EXCEPT ![f] = "holding"]
    /\ UNCHANGED <<tdState, tdNext, head, count, stagedHead, tpc, fatal>>

\* Mutant: the finder keeps its pointer after dropping the reference.
ReleaseKeepsHold(f) ==
    /\ Running /\ fpc[f] = "holding"
    /\ DecrCount(hold[f])
    /\ IF refCount[hold[f]] - 1 = 0
       THEN fpc' = [fpc EXCEPT ![f] = "staging"] /\ UNCHANGED hold
       ELSE UNCHANGED <<fpc, hold>>
    /\ UNCHANGED <<tdState, tdNext, head, count, stagedHead, tpc, fatal>>

\* The finder is done with the record: the fetch_and_sub of decr_ref.
Release(f) ==
    /\ Running /\ fpc[f] = "holding"
    /\ DecrCount(hold[f])
    /\ IF refCount[hold[f]] - 1 = 0
       THEN fpc' = [fpc EXCEPT ![f] = "staging"] /\ UNCHANGED hold
       ELSE fpc' = [fpc EXCEPT ![f] = "idle"] /\ hold' = [hold EXCEPT ![f] = NULL]
    /\ UNCHANGED <<tdState, tdNext, head, count, stagedHead, tpc, fatal>>

\* It dropped the last reference: the locked push of decr_ref.
ReleaseStage(f) ==
    /\ Running /\ fpc[f] = "staging"
    /\ StagePush(hold[f])
    /\ fpc' = [fpc EXCEPT ![f] = "idle"]
    /\ hold' = [hold EXCEPT ![f] = NULL]
    /\ UNCHANGED <<tdState, refCount, head, count, tpc, fatal>>

\* Every thread has exited and been cleaned up, or the process died.
Quiescent ==
    /\ \/ ~Running
       \/ \A t \in Threads : tpc[t] = "done"
          /\ \A f \in Finders : fpc[f] = "idle"
    /\ UNCHANGED vars

Next ==
    \/ \E t \in Threads :
         New(t) \/ ListAdd(t) \/ ListRemove(t) \/ ExitDecr(t) \/ ExitStage(t) \/ Cleanup(t)
    \/ \E f \in Finders : Find(f) \/ Release(f) \/ ReleaseStage(f)
    \/ Quiescent

Spec == Init /\ [][Next]_vars

-----------------------------------------------------------------------------
(* Properties.                                                             *)

TypeOK ==
    /\ tdState \in [Threads -> {"unmapped", "live", "freed"}]
    /\ refCount \in [Threads -> Nat]
    /\ tdNext \in [Threads -> Threads \cup {NULL}]
    /\ head \in Threads \cup {NULL} /\ stagedHead \in Threads \cup {NULL}
    /\ count \in Nat
    /\ hold \in [Finders -> Threads \cup {NULL}]
    /\ fpc \in [Finders -> {"idle", "holding", "staging"}]
    /\ fatal \in {"none", "race", "null"}

Registered == {t \in Threads : tpc[t] = "registered"}

\* A record is unmapped only when nobody can reach it any more: no finder
\* holds it, its count is 0, and it is on neither list.  This rests on
\* thread_list_find taking its reference under the list lock, before the
\* exiting thread's remove and decr_ref, and on decr_ref staging a record
\* exactly once.
SafeTeardown ==
    \A t \in Threads : tdState[t] = "freed" =>
        /\ refCount[t] = 0
        /\ \A f \in Finders : hold[f] # t
        /\ t \notin ToSet(Chain(head)) \cup ToSet(Chain(stagedHead))

\* The two intrusive lists, although they share td->next, never run into
\* each other: the thread list holds exactly the registered records, once
\* each and as many as tl->count, and the staged list holds distinct live
\* records whose count has dropped to 0.
ListsIntact ==
    LET L == Chain(head)
        S == Chain(stagedHead)
    IN  /\ ToSet(L) = Registered /\ Len(L) = count /\ IsInjective(L)
        /\ IsInjective(S)
        /\ \A t \in ToSet(S) : tdState[t] = "live" /\ refCount[t] = 0
        /\ ToSet(L) \cap ToSet(S) = {}

\* A thread whose record is still referenced when it is cleaned up is
\* reported by forkgc_util_thread_data_cleanup as a data race (its check
\* of ref_count at util.c:118, and spec section 7), rather than by the
\* walk of the staged list running off its end.
RaceDetected == fatal # "null"


=============================================================================
