----------------------------- MODULE Candidates -----------------------------
(***************************************************************************)
(* What the collector promises for each retired address, with no batches, *)
(* lists, mutex or write-back: an address is retired into the pending     *)
(* work, taken by the collector with all other pending work at once, and  *)
(* a collection either frees it or carries it to the next collection,     *)
(* where it is collected again.  Nothing is freed that was not being      *)
(* collected, and nothing is ever lost.  While the process lives, pending *)
(* work is eventually taken and a collection with work eventually ends.   *)
(***************************************************************************)
EXTENDS FiniteSets

CONSTANT Addr

VARIABLES
    st,     \* each address: "none", "pending", "collecting", "carried", "freed"
    alive   \* the process has not died

vars == <<st, alive>>

InState(s) == {a \in Addr : st[a] = s}

Init ==
    /\ st = [a \in Addr |-> "none"]
    /\ alive = TRUE

\* A mutator hands off a batch of fresh addresses.
Retire ==
    /\ alive
    /\ \E S \in SUBSET InState("none") :
         /\ S # {}
         /\ st' = [a \in Addr |-> IF a \in S THEN "pending" ELSE st[a]]
    /\ UNCHANGED alive

\* The collector takes all pending work.
Take ==
    /\ alive /\ InState("pending") # {}
    /\ st' = [a \in Addr |-> IF st[a] = "pending" THEN "collecting" ELSE st[a]]
    /\ UNCHANGED alive

\* A collection frees some of the work and the carried addresses and
\* carries the rest.
Collect ==
    /\ alive
    /\ LET In == InState("collecting") \cup InState("carried") IN
       \E F \in SUBSET In :
         st' = [a \in Addr |-> IF a \in F THEN "freed"
                               ELSE IF a \in In THEN "carried" ELSE st[a]]
    /\ UNCHANGED alive

CollectWork == InState("collecting") # {} /\ Collect

\* The process dies.
Crash ==
    /\ alive
    /\ alive' = FALSE
    /\ UNCHANGED st

Next == Retire \/ Take \/ Collect \/ Crash

SafetySpec == Init /\ [][Next]_vars

Spec == SafetySpec /\ WF_vars(Take) /\ WF_vars(CollectWork)

=============================================================================
