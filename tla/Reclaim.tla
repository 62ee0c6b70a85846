------------------------------ MODULE Reclaim ------------------------------
(***************************************************************************)
(* What one collection promises, stated without workers, depth caps or    *)
(* passes.  The snapshot is fixed: heap[b] lists the words of retired     *)
(* block b, roots the retired blocks some thread stack points to.  A      *)
(* block is Protected when it is reachable from a root, or from a cycle   *)
(* of retired blocks (a reference count never reaches zero on a cycle).   *)
(* The collection frees unprotected blocks, each once, and eventually     *)
(* frees all of them.                                                      *)
(***************************************************************************)
EXTENDS Naturals

VARIABLES heap, roots, freeCount

vars == <<heap, roots, freeCount>>

Blocks == DOMAIN heap

\* Blocks some word of a block in S holds the address of.
Succ(S) == {c \in Blocks : \E b \in S : \E k \in DOMAIN heap[b] : heap[b][k] = c}

\* Blocks reachable from S in one or more steps.
RECURSIVE ReachFrom(_, _)
ReachFrom(S, acc) ==
    IF Succ(S) \subseteq acc THEN acc
    ELSE ReachFrom(Succ(S) \ acc, acc \cup Succ(S))

Reachable(S) == ReachFrom(S, {})

\* Blocks the reference counts can never bring to zero.
Sources == roots \cup {b \in Blocks : b \in Reachable({b})}

Protected == Sources \cup Reachable(Sources)

Init ==
    /\ roots \subseteq Blocks
    /\ freeCount = [b \in Blocks |-> 0]

Free(b) ==
    /\ b \notin Protected
    /\ freeCount[b] = 0
    /\ freeCount' = [freeCount EXCEPT ![b] = 1]
    /\ UNCHANGED <<heap, roots>>

Next == \E b \in Blocks : Free(b)

SafetySpec == Init /\ [][Next]_vars

Spec == SafetySpec /\ WF_vars(Next)

=============================================================================
