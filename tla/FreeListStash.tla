--------------------------- MODULE FreeListStash ---------------------------
(***************************************************************************)
(* The free-list stash of util.c: a LIFO of free lists (free_list_list)   *)
(* guarded by free_list_list_lock.  forkgc_util_push_free_list allocates  *)
(* a node and pushes it under the lock.  forkgc_util_pop_free_list first  *)
(* tests free_list_list for NULL without the lock, then pops under the    *)
(* lock, testing the node again.  The unlocked test and the locked pop    *)
(* are separate steps, so other threads can push or pop in between.       *)
(* The stash is a sequence of free lists, head first; a node is           *)
(* identified with the free list it carries.                              *)
(***************************************************************************)
EXTENDS Naturals, Sequences
LOCAL INSTANCE SequencesExt

CONSTANTS
    Procs,      \* threads calling push and pop
    FreeLists,  \* free lists handed to the stash (each at most once)
    NULL

ASSUME NULL \notin FreeLists

VARIABLES
    stash,    \* free_list_list, head first
    pushed,   \* free lists ever pushed (ghost)
    popped,   \* how many times pop returned each free list (ghost)
    ppc,      \* each thread: "idle" or "locked" (past the unlocked test)
    seen      \* the value each thread's unlocked test read

vars == <<stash, pushed, popped, ppc, seen>>

Init ==
    /\ stash = <<>>
    /\ pushed = {}
    /\ popped = [l \in FreeLists |-> 0]
    /\ ppc = [p \in Procs |-> "idle"]
    /\ seen = [p \in Procs |-> NULL]

Head0 == IF stash = <<>> THEN NULL ELSE Head(stash)

\* Mutant: the new node's next is not set to the old head.
PushDropsRest(p, l) ==
    /\ ppc[p] = "idle" /\ l \notin pushed
    /\ stash' = <<l>>
    /\ pushed' = pushed \cup {l}
    /\ UNCHANGED <<popped, ppc, seen>>

\* forkgc_util_push_free_list: MALLOC a node, then push it under the lock.
Push(p, l) ==
    /\ ppc[p] = "idle" /\ l \notin pushed
    /\ stash' = <<l>> \o stash
    /\ pushed' = pushed \cup {l}
    /\ UNCHANGED <<popped, ppc, seen>>

\* The unlocked test of forkgc_util_pop_free_list: NULL returns NULL.
PopTest(p) ==
    /\ ppc[p] = "idle"
    /\ seen' = [seen EXCEPT ![p] = Head0]
    /\ ppc' = [ppc EXCEPT ![p] = IF Head0 = NULL THEN "idle" ELSE "locked"]
    /\ UNCHANGED <<stash, pushed, popped>>

\* Mutant: the node is the one the unlocked test read, not re-read under
\* the lock; the head is set to that node's next.
PopLockedStale(p) ==
    /\ ppc[p] = "locked"
    /\ LET n == seen[p] IN
       /\ stash' = IF \E i \in 1 .. Len(stash) : stash[i] = n
                   THEN LET i == CHOOSE x \in 1 .. Len(stash) : stash[x] = n
                        IN  SubSeq(stash, i + 1, Len(stash))
                   ELSE stash
       /\ popped' = [popped EXCEPT ![n] = @ + 1]
    /\ ppc' = [ppc EXCEPT ![p] = "idle"]
    /\ UNCHANGED <<pushed, seen>>

\* Under the lock: node = free_list_list; if it is not NULL, unlink it;
\* after the unlock its free list is returned and the node freed.
PopLocked(p) ==
    /\ ppc[p] = "locked"
    /\ IF stash = <<>>
       THEN UNCHANGED <<stash, popped>>
       ELSE /\ stash' = Tail(stash)
            /\ popped' = [popped EXCEPT ![Head(stash)] = @ + 1]
    /\ ppc' = [ppc EXCEPT ![p] = "idle"]
    /\ UNCHANGED <<pushed, seen>>

\* Every free list has been handed over and every thread is idle.
Drained ==
    /\ pushed = FreeLists /\ \A p \in Procs : ppc[p] = "idle"
    /\ UNCHANGED vars

Next ==
    \/ \E p \in Procs :
         \/ \E l \in FreeLists : Push(p, l)
         \/ PopTest(p) \/ PopLocked(p)
    \/ Drained

Spec == Init /\ [][Next]_vars

-----------------------------------------------------------------------------
(* Properties.                                                             *)

\* Every free list handed to the stash is, at every moment, either still in
\* it (once) or returned by exactly one pop, however the unlocked emptiness
\* test of a pop interleaves with other threads' pushes and pops.
NoLostOrDuplicatedFreeList ==
    /\ IsInjective(stash)
    /\ \A l \in FreeLists :
         (IF l \in ToSet(stash) THEN 1 ELSE 0) + popped[l]
            = IF l \in pushed THEN 1 ELSE 0

\* The stash implements the atomic LIFO stack of FreeListLifo: every push
\* puts the free list on top, every pop that returns one returns the most
\* recently pushed free list still in the stash and removes only it, and
\* the unlocked test of pop, and a locked re-test that finds the stash
\* emptied since, are steps that change nothing the caller can see.
Lifo == INSTANCE FreeListLifo WITH stack <- stash, returned <- popped

StashRefinement == Lifo!Spec

=============================================================================
