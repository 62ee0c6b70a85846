---------------------------- MODULE FreeListLifo ----------------------------
(***************************************************************************)
(* What the free-list stash promises its callers, with no lock and no     *)
(* split pop: an atomic LIFO stack of free lists.  A push puts a free     *)
(* list on top; a pop takes the top one and returns it, or finds the      *)
(* stack empty and returns NULL, which changes nothing.  A free list is   *)
(* returned at most once for each time it was pushed.                     *)
(***************************************************************************)
EXTENDS Naturals, Sequences

CONSTANT FreeLists

VARIABLES
    stack,     \* top first
    returned   \* how many times a pop returned each free list

vars == <<stack, returned>>

Init ==
    /\ stack = <<>>
    /\ returned = [l \in FreeLists |-> 0]

Push(l) ==
    /\ \A i \in 1 .. Len(stack) : stack[i] # l
    /\ stack' = <<l>> \o stack
    /\ UNCHANGED returned

Pop ==
    /\ stack # <<>>
    /\ stack' = Tail(stack)
    /\ returned' = [returned EXCEPT ![Head(stack)] = @ + 1]

Next == (\E l \in FreeLists : Push(l)) \/ Pop

Spec == Init /\ [][Next]_vars

=============================================================================
