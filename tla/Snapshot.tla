------------------------------ MODULE Snapshot ------------------------------
(***************************************************************************)
(* The barrier and fork of garbage_collect (forkgc.c) against the mutator  *)
(* side, forkgc_wait_for_snapshot, run from each mutator's signal handler. *)
(* The collector resets g_received_signal, signals every registered        *)
(* mutator (threadscan_proc_signal), spins until all have acknowledged,    *)
(* forks, increments g_cleanup_counter and reads the child's byte count    *)
(* from the pipe.  A mutator's handler reads g_cleanup_counter, spills its *)
(* registers (setjmp), increments g_received_signal and spins until the    *)
(* counter changes.  The child scans and exits; nothing in the code reaps  *)
(* it.  process_death kills an outstanding child when the process exits.   *)
(*                                                                         *)
(* The list handling around the barrier is Collector.tla's and the sweep   *)
(* after it Sweep.tla's; here a collection is its barrier, fork and pipe.  *)
(* threadscan_proc_signal and threadscan_child are not in this repository: *)
(* the first sends one signal to every registered mutator and returns how  *)
(* many it sent, the second writes one size_t to the pipe and exits.      *)
(***************************************************************************)
EXTENDS Naturals, Sequences, FiniteSets

CONSTANTS
    Mutators,     \* registered application threads
    MaxCycles,    \* collections the collector runs
    ProcLimit     \* process slots left for the collector's children

ASSUME MaxCycles \in Nat /\ ProcLimit \in Nat

VARIABLES
    received,   \* g_received_signal
    counter,    \* g_cleanup_counter
    sigCount,   \* sig_count of the current collection
    cycle,      \* collections started
    cpc,        \* collector: "idle", "signal", "spin", "forked", "read",
                \*   "failed" (threadscan_fatal) or "dead" (process exited)
    pending,    \* a SIGTHREADSCAN pending for each mutator
    mpc,        \* mutator: "run" or "handler" (old_counter taken)
    spilled,    \* the handler has run setjmp
    acked,      \* the handler has incremented g_received_signal
    oldCounter, \* each handler's old_counter
    children,   \* forked children: "scanning", "zombie" or "killed"
    pipe        \* the byte count is in the pipe

vars == <<received, counter, sigCount, cycle, cpc, pending, mpc, spilled, acked,
          oldCounter, children, pipe>>

Init ==
    /\ received = 0 /\ counter = 0 /\ sigCount = 0 /\ cycle = 0
    /\ cpc = "idle"
    /\ pending = [m \in Mutators |-> FALSE]
    /\ mpc = [m \in Mutators |-> "run"]
    /\ spilled = [m \in Mutators |-> FALSE]
    /\ acked = [m \in Mutators |-> FALSE]
    /\ oldCounter = [m \in Mutators |-> 0]
    /\ children = <<>>
    /\ pipe = FALSE

Alive == cpc \notin {"failed", "dead"}

\* Children that still hold a process slot (never waited for).
Unreaped == {i \in DOMAIN children : children[i] # "killed"}

-----------------------------------------------------------------------------
(* The collector: garbage_collect from the barrier to the pipe read.       *)

\* Mutant: g_received_signal is not reset at the start of a collection.
StartNoReset ==
    /\ cpc = "idle" /\ cycle < MaxCycles
    /\ cycle' = cycle + 1
    /\ cpc' = "signal"
    /\ UNCHANGED <<received, counter, sigCount, pending, mpc, spilled, acked, oldCounter,
                   children, pipe>>

\* A collection begins (work was taken, the pipe is open):
\* g_received_signal = 0.
Start ==
    /\ cpc = "idle" /\ cycle < MaxCycles
    /\ cycle' = cycle + 1
    /\ received' = 0
    /\ cpc' = "signal"
    /\ UNCHANGED <<counter, sigCount, pending, mpc, spilled, acked, oldCounter, children, pipe>>

\* sig_count = threadscan_proc_signal(SIGTHREADSCAN).
SignalAll ==
    /\ cpc = "signal"
    /\ pending' = [m \in Mutators |-> TRUE]
    /\ sigCount' = Cardinality(Mutators)
    /\ cpc' = "spin"
    /\ UNCHANGED <<received, counter, cycle, mpc, spilled, acked, oldCounter, children, pipe>>

\* The spin ends; child_pid = fork().  With no process slot left, fork
\* returns -1 and threadscan_fatal ends the process.
Fork ==
    /\ cpc = "spin" /\ received >= sigCount
    /\ IF Cardinality(Unreaped) >= ProcLimit
       THEN cpc' = "failed" /\ UNCHANGED children
       ELSE /\ children' = Append(children, "scanning")
            /\ cpc' = "forked"
    /\ UNCHANGED <<received, counter, sigCount, cycle, pending, mpc, spilled, acked, oldCounter, pipe>>

\* Mutant: the counter is incremented in the child, not in the parent.
ReleaseNoIncrement ==
    /\ cpc = "forked"
    /\ cpc' = "read"
    /\ UNCHANGED <<received, counter, sigCount, cycle, pending, mpc, spilled, acked, oldCounter,
                   children, pipe>>

\* ++g_cleanup_counter: the parked mutators may go.
ReleaseMutators ==
    /\ cpc = "forked"
    /\ counter' = counter + 1
    /\ cpc' = "read"
    /\ UNCHANGED <<received, sigCount, cycle, pending, mpc, spilled, acked, oldCounter, children, pipe>>

\* read() of the byte count.  With the byte there the sweep and the
\* write-back follow and the collector goes back to waiting for work; with
\* the child gone and nothing written read returns 0: threadscan_fatal.
ReadPipe ==
    /\ cpc = "read"
    /\ pipe \/ \A i \in DOMAIN children : children[i] # "scanning"
    /\ pipe' = FALSE
    /\ cpc' = IF pipe THEN "idle" ELSE "failed"
    /\ UNCHANGED <<received, counter, sigCount, cycle, pending, mpc, spilled, acked, oldCounter, children>>

\* Mutant: the child exits without writing the byte count.
ChildExitNoWrite ==
    \E i \in DOMAIN children :
        /\ children[i] = "scanning"
        /\ children' = [children EXCEPT ![i] = "zombie"]
        /\ UNCHANGED <<received, counter, sigCount, cycle, cpc, pending, mpc,
                       spilled, acked, oldCounter, pipe>>

\* The child: threadscan_child writes the byte count, then exit(0).  It is
\* never waited for, so it stays a zombie.
ChildExit ==
    \E i \in DOMAIN children :
        /\ children[i] = "scanning"
        /\ children' = [children EXCEPT ![i] = "zombie"]
        /\ pipe' = TRUE
        /\ UNCHANGED <<received, counter, sigCount, cycle, cpc, pending, mpc, spilled, acked, oldCounter>>

-----------------------------------------------------------------------------
(* A mutator: the signal handler calling forkgc_wait_for_snapshot.         *)

\* The pending signal is delivered: old_counter = g_cleanup_counter.
Deliver(m) ==
    /\ mpc[m] = "run" /\ pending[m]
    /\ pending' = [pending EXCEPT ![m] = FALSE]
    /\ oldCounter' = [oldCounter EXCEPT ![m] = counter]
    /\ mpc' = [mpc EXCEPT ![m] = "handler"]
    /\ spilled' = [spilled EXCEPT ![m] = FALSE]
    /\ acked' = [acked EXCEPT ![m] = FALSE]
    /\ UNCHANGED <<received, counter, sigCount, cycle, cpc, children, pipe>>

\* setjmp(env): the registers are on the stack.
Spill(m) ==
    /\ mpc[m] = "handler" /\ ~spilled[m]
    /\ spilled' = [spilled EXCEPT ![m] = TRUE]
    /\ UNCHANGED <<received, counter, sigCount, cycle, cpc, pending, mpc, acked,
                   oldCounter, children, pipe>>

\* Mutant: the handler acknowledges whether or not it has spilled.
AckAnyOrder(m) ==
    /\ mpc[m] = "handler" /\ ~acked[m]
    /\ received' = received + 1
    /\ acked' = [acked EXCEPT ![m] = TRUE]
    /\ UNCHANGED <<counter, sigCount, cycle, cpc, pending, mpc, spilled,
                   oldCounter, children, pipe>>

\* __sync_fetch_and_add(&g_received_signal, 1), after the setjmp.
Ack(m) ==
    /\ mpc[m] = "handler" /\ spilled[m] /\ ~acked[m]
    /\ received' = received + 1
    /\ acked' = [acked EXCEPT ![m] = TRUE]
    /\ UNCHANGED <<counter, sigCount, cycle, cpc, pending, mpc, spilled,
                   oldCounter, children, pipe>>

\* The spin after the increment sees g_cleanup_counter change; the handler
\* returns and the registers are the thread's own again.
Resume(m) ==
    /\ mpc[m] = "handler" /\ acked[m] /\ counter # oldCounter[m]
    /\ mpc' = [mpc EXCEPT ![m] = "run"]
    /\ spilled' = [spilled EXCEPT ![m] = FALSE]
    /\ acked' = [acked EXCEPT ![m] = FALSE]
    /\ UNCHANGED <<received, counter, sigCount, cycle, cpc, pending, oldCounter,
                   children, pipe>>

Mutator(m) == Deliver(m) \/ Spill(m) \/ Ack(m) \/ Resume(m)

Collector == Start \/ SignalAll \/ Fork \/ ReleaseMutators \/ ReadPipe

-----------------------------------------------------------------------------

\* The process exits (a mutator returns from main): process_death kills
\* child_pid if a child was forked.
ProcessDeath ==
    /\ Alive
    /\ cpc' = "dead"
    /\ children' = IF children # <<>> /\ children[Len(children)] = "scanning"
                   THEN [children EXCEPT ![Len(children)] = "killed"]
                   ELSE children
    /\ UNCHANGED <<received, counter, sigCount, cycle, pending, mpc, spilled, acked, oldCounter, pipe>>

\* Nothing runs after the process ended; with all collections done the
\* program idles.
Ended ==
    /\ \/ ~Alive
       \/ cpc = "idle" /\ cycle = MaxCycles /\ \A m \in Mutators : mpc[m] = "run"
    /\ UNCHANGED vars

Next ==
    \/ Alive /\ (Collector \/ \E m \in Mutators : Mutator(m))
    \/ ChildExit
    \/ ProcessDeath
    \/ Ended

\* The collector, the mutators and the child are kernel threads and
\* processes the scheduler keeps running; a pending signal is delivered
\* once the thread runs.  The process need not exit.
Spec ==
    /\ Init /\ [][Next]_vars
    /\ WF_vars(Alive /\ Collector)
    /\ \A m \in Mutators : WF_vars(Alive /\ Mutator(m))
    /\ WF_vars(ChildExit)

-----------------------------------------------------------------------------
(* Properties.                                                             *)

TypeOK ==
    /\ received \in 0 .. Cardinality(Mutators)
    /\ counter \in Nat /\ cycle \in 0 .. MaxCycles
    /\ pending \in [Mutators -> BOOLEAN]
    /\ mpc \in [Mutators -> {"run", "handler"}]
    /\ spilled \in [Mutators -> BOOLEAN] /\ acked \in [Mutators -> BOOLEAN]
    /\ children \in Seq({"scanning", "zombie", "killed"})
    /\ pipe \in BOOLEAN

\* When the collector forks, every registered mutator is parked in its
\* handler with its registers spilled, so the child's copy of every stack
\* holds every pointer the mutator had in a register (spec 4.3).  This
\* needs the handler's setjmp before its increment, the reset of
\* g_received_signal before the signals, and no acknowledgement of an
\* earlier collection counted in this one.
SnapshotConsistent ==
    cpc = "forked" =>
        \A m \in Mutators : mpc[m] = "handler" /\ spilled[m] /\ acked[m]

\* Every mutator parked in forkgc_wait_for_snapshot returns from its
\* handler, unless the process ends: the old_counter it read before
\* acknowledging differs from g_cleanup_counter after the fork.
ParkedReleased ==
    \A m \in Mutators : acked[m] ~> (mpc[m] = "run" \/ ~Alive)

\* Every collection that sends its signals gets past the barrier, the
\* fork and the pipe and returns the collector to waiting for work,
\* unless the process exits: no one waits on anyone for ever.
CollectionCompletes ==
    cpc = "signal" ~> (cpc = "idle" \/ cpc = "dead")

\* Every fork succeeds: the children of earlier collections do not use up
\* the process slots.  Spec section 5 says the parent waits for the child
\* (waitpid); garbage_collect never does.
ForkSucceeds == cpc # "failed"

=============================================================================
