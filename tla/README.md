# TLA+ models of the fork-based reclamation engine (forkgc / forkscan)

This directory holds TLA+ models of the collector in `src/unnamed/part_000`
(forkgc.c: the collector thread, the barrier and fork, the reference-count
sweep) and `src/util.c` (per-thread data, the thread list, the free-list
stash, sort, compact and randomize). Each model comes with the TLC configurations that
check it. `PROJECT.json` lists the components, the runs, the mutants, the
source lines each definition models, the findings and the hazards.

## 1. Inventory

### Components and their state

| Component | Source | State | Operations |
|---|---|---|---|
| Collector hand-off | part_000 63-71, 427-476 | `g_gc_data` list head, `g_gc_waiting`, `g_gc_mutex`, `g_gc_cond` | `forkgc_initiate_collection` (push + signal), `forkgc_thread` (wait while empty, detach list) |
| Carry-over | part_000 317-331, 375-402 | `g_uncollected_data`, every batch's `next`, `n_addrs`, `capacity`, `addrs` | prepend carry-over, write survivors back, keep the head batches and munmap the tail |
| Aggregator | part_000 45-58, 220-315 | one shared mapping: `addrs`, `minimap`, `refs`, `alloc_sz`, `n_addrs` | count, size the pages, copy, sort, `assert_monotonicity` (debug), build minimap, fill `alloc_sz` |
| Barrier / fork | part_000 338-365, 412-422, 503-510 | `g_received_signal`, `g_cleanup_counter`, `child_pid`, pipe | reset, signal all, spin for acks, fork, release, read the child's byte count; mutator handler: read counter, setjmp, ack, spin |
| Child scanner | not in this repository | the shared `refs` | count every stack word and every candidate-block word that equals a candidate address (spec 4.4) |
| Sweep | part_000 82-218, 367-373 | `addrs` (low bit = collected), `refs`, `n_addrs`, block contents, worker threads | partition, `address_range` (claim CAS), `unref_addr` (null word, fetch_and_sub, re-read, claim CAS, recurse with depth - 1, free), join, compact, repeat while savings |
| Thread registry | util.c 62-186 | `thread_data_t` (`ref_count`, stack bounds), thread list (`head`, `count`, lock), staged-to-free list | new, decr_ref (stage at 0), cleanup (unstage, check, free), list add/remove/find (find takes a reference) |
| Free-list stash | util.c 188-214 | `free_list_list` + lock | push, pop (unlocked emptiness test, then locked pop) |
| Sort / compact | util.c 254-347 | an array | partition, insertion sort, quicksort with threshold 16, compact sorted |
| Sort / compact / randomize | util.c 317-326 | an array | `forkgc_util_randomize` (a shuffle by swaps, no caller here) |
| Statistics, diagnostics, timing | part_000 481-501, util.c 220-248, 352-358 | none the collector depends on | printing, exit, clock |

### How they interact

Mutators hand batches to the collector thread through `g_gc_data`, under a
mutex and a condition variable. The collector prepends the carry-over list
and aggregates everything into one array in a `MAP_SHARED` region. It then
signals every registered mutator. Each mutator's signal handler spills its
registers with `setjmp`, increments `g_received_signal` and spins on
`g_cleanup_counter`. When every mutator has acknowledged, the collector forks
and increments `g_cleanup_counter`, which releases the mutators. The child
scans the frozen stacks and the candidate blocks, writes counts into the
shared `refs` and reports through a pipe. The parent reads the pipe and runs
the parallel sweep: worker threads share the arrays and synchronise only
through CAS on `addrs[i]` and fetch_and_sub on `refs[i]`. It repeats the
sweep until a pass frees nothing, then writes the survivors back into the
batches and keeps them as the next carry-over.

### What is hard

- **Interleaving:** sweep workers race on the same slots through the
  cascade, both on the claim CAS and on the count. A pushing mutator races
  with the collector's wait. Mutators race with the barrier.
- **Stale state:** the count is re-read after the decrement, and
  `g_uncollected_data` outlives the batch it points to.
- **Bounds:** the depth budget of 30 means a later pass must finish a chain.
  The write-back must stay within each batch's capacity. The thread
  partition has an edge case when `n_addrs < thread_count`.
- **Liveness:** the pass loop must terminate, pushed work must be taken, and
  the barrier must release every mutator.
- **Process-level failures:** a spurious wake-up. A child that is never
  reaped. A signalled thread that never acknowledges.

### What makes each component correct

- **Sweep:** it frees only blocks no stack and no surviving block can reach.
  It frees each of them at most once. When the pass loop ends it has freed
  all of them. Counts never go negative, and each count matches the words
  still pointing at its block.
- **Collector:** no retired address is lost or duplicated across collections.
  The write-back stays within capacity. Pushed work is always taken.
  `g_uncollected_data` is NULL or a mapped batch.
- **Barrier:** at fork, every signalled mutator has spilled its registers.
  Every parked mutator is eventually released. Acknowledgements of one cycle
  never count for the next.
- **Registry:** an entry is freed only when no lookup holds it, and cleanup
  finds it.
- **Aggregator:** every array lies inside its page-rounded region, and the
  minimap lets the scanner find every retired address.
- **Free-list stash:** it behaves as an atomic LIFO stack despite the
  unlocked test in pop.
- **Sort/compact:** the output is the sorted permutation, or the
  deduplicated prefix with the right savings.

## 2. Plan

Modules, in the order of the plan (the most important behaviour first):

1. `Reclaim` (done): abstract specification of one collection. It frees
   only unprotected blocks, each once. "Protected" means reachable from a
   stack root or from a cycle of retired blocks.
2. `Sweep` + `MC_Sweep` (done): the parallel sweep, refining `Reclaim`.
3. `Collector` + `MC_Collector` (done): the hand-off, the carry-over and the
   write-back.
4. `Snapshot` + `MC_Snapshot` (done): the barrier (`garbage_collect`
   338-365 against `forkgc_wait_for_snapshot`), the fork, the pipe and
   `process_death`, with three mutators and three collections.
5. `SortUtil` + `MC_SortUtil` (done): `partition`, `insertion_sort`,
   `quicksort` and `forkgc_util_compact` as RECURSIVE operators, checked
   against a reference sort and dedup.
6. `ThreadRegistry` and `FreeListStash` (done): `thread_data` reference
   counting, the staged-to-free list, the thread list, and the free-list
   stash.
7. `Aggregate` + `MC_Aggregate` (done): `aggregate_gc_data`,
   `generate_minimap` and `assert_monotonicity`, using `SortUtil`'s
   quicksort through `INSTANCE`; `forkgc_util_randomize` in `SortUtil`;
   the abstract stack `FreeListLifo` and the stash's refinement of it.
8. Done: the abstract per-address lifecycle `Candidates`, with
   `Collector`'s refinement of its safety part checked. A module composing
   `Collector` with `Snapshot` is not planned. `garbage_collect` runs on the
   collector thread alone from the detach to the next wait, so the two
   modules interact only through the order of its steps. Section 7 says
   more.

## 3. Modules and their correspondence to the code

### `Reclaim.tla` (abstract)

- **State:** `heap` (the snapshot's block contents), `roots`, and
  `freeCount`.
- **Action:** `Free(b)` for an unprotected block that has not yet been
  freed.
- `Protected` is computed with a RECURSIVE reachability operator.
- It is a statement of what the sweep promises. It does not model any
  particular line.

### `Sweep.tla`

Addresses are even naturals, so the low bit is free for the collected flag,
as in the code. `Mask`, `IsClear` and `Claim` model `PTR_MASK`, `addr & 1`
and `addr | 1`. The state mirrors the code's variables:

| Model | Code |
|---|---|
| `addrs`, `refs`, `n` | `gc_data->addrs`, `refs`, `n_addrs` (0-based) |
| `mem` | the contents of each block, nulled as `unref_addr` scans them |
| `minv`, `maxv` | `unref_config.min_val`, `max_val` |
| `tc`, `idx`, `hi` | `thread_count`, each worker's `i`, `range_end` |
| `frames` | each worker's `unref_addr` call stack (slot, address read at entry, word index, depth, the slot found and the address searched) |
| `freed` | how many times `free()` was called on each block |

Ghost variables:

- `heap0` and `roots` keep the snapshot, for the properties.

Initial state:

- `addrs` is any sorted array of up to `MaxN` addresses. It is strictly
  increasing unless `DuplicatesRetired` is TRUE.
- Block contents are any words (null, or any address in `Addr`, retired or
  not).
- `roots` is any subset of the retired blocks.
- `refs` comes from the child scanner (`ScanRefs`, modelled from the spec
  because `threadscan_child` is not in this repository).
- The first pass is set up by `Pass`, which is the partition code of
  `find_unreferenced_nodes`.

Actions:

| Action | What it models |
|---|---|
| `OuterClaim`, `OuterSkip`, `OuterDone` | one iteration of `address_range`, and its return |
| `WordSkip` | a word outside `[min_val, max_val]` |
| `WordMiss` | a word in range that is nulled and not found by `binary_search`/`is_ref` |
| `WordDecr` | a word in range that is nulled and decremented with `fetch_and_sub` |
| `CheckClaim` / `CheckPass` | the re-read of `remaining_refs`, the depth test and the CAS, then recursion or moving on |
| `Finish` | `free(p)` and return |
| `EndPass` | join, compaction, and the `do/while` test of `garbage_collect` (next pass or exit) |

Notes on the atomicity chosen:

- The outer loop's read of the flag, the read of the count and the CAS are
  one step. A CAS that fails because another worker claimed the slot in
  between ends exactly as a read of the newer value would, and counts only
  decrease. So this merges no distinguishable interleaving.
- The decrement and the re-read in `unref_addr` are separate steps, because
  that gap is where the race is.

### `Collector.tla`

| Model | Code |
|---|---|
| `gcData`, `uncollected`, `waiting` | `g_gc_data`, `g_uncollected_data`, `g_gc_waiting` |
| `next`, `contents` | the batches' `next` and `addrs[0..n_addrs)` |
| `mapped` | batches whose region is mapped |
| `signalled` | a pending `pthread_cond_signal` |
| `work` | the list the collector detached |
| `freedSet` | the addresses sweeps freed |

Actions:

- `InitiateCollection` is a mutator that fills a fresh batch and calls
  `forkgc_initiate_collection`.
- `CollectorWait`, `CollectorTake` and `CollectorWake` model the two
  critical sections of `forkgc_thread` and the return from `cond_wait`. A
  spurious return is allowed when `SpuriousWakeups` is TRUE.
- `Collect` models `garbage_collect`'s list handling:
  - prepend the carry-over list;
  - sweep, abstracted: any subset of the aggregated addresses may survive;
  - write the sorted survivors back from the head (`BatchOf` is the
    `n_addrs >= capacity` test);
  - keep batches up to the last written one (`Keeps`) and munmap the rest;
  - set `g_uncollected_data` only when it is NULL.
- `CollectCrash` models a dereference of an unmapped `g_uncollected_data`,
  or of a NULL list with no carry-over. It ends the process.
- `Dead` and `Idle` are the stuttering ends of a crashed process, and of an
  idle program when the bound on batches is used up.

### `Candidates.tla` (abstract)

The lifecycle of one retired address, for every address at once. Each
address is `none`, `pending`, `collecting`, `carried` or `freed`, and
`alive` is FALSE once the process has crashed.

- `Retire`: some unretired addresses become pending.
- `Take`: all pending addresses become collecting at once.
- `Collect`: every collecting or carried address becomes freed or
  carried.
- `Crash`: the process ends.

`Spec` adds weak fairness of `Take` and of a `Collect` with work.
`Collector` maps each address to its state with `CandStates`, read off
the lists: `g_gc_data` gives pending, the detached list gives collecting,
and a mapped `g_uncollected_data` list gives carried. `alive` maps to
`cpc # "crashed"`. Under this mapping:

- `InitiateCollection` is `Retire`.
- `CollectorTake` and `CollectorWake` are `Take`. A spurious wake with an
  empty list is a stutter.
- `Collect` is `Collect`, and `CollectCrash` is `Crash`.
- `CollectorWait`, `Idle` and `Dead` are stutters.

An address on none of the lists maps to `lost`, which no abstract state
allows.

### `SortUtil.tla`

Arrays are functions on `0 .. len - 1`. Each C loop is a RECURSIVE operator
that carries its loop variables:

| Model | Code |
|---|---|
| `PartLoop`, `Partition` | `partition` |
| `Sink`, `InsLoop`, `InsertionSort` | `insertion_sort` (its inner loop runs down to 0, as in the code) |
| `Quicksort` | `quicksort` with the threshold `SortThreshold` |
| `CompactLoop`, `Compact` | `forkgc_util_compact` |

| `Mul32Mod`, `RandLoop`, `Randomize` | `forkgc_util_randomize`; `Mul32Mod` is `(i * 2147483647) % n` with the product wrapped modulo 2^32, as in `unsigned int` |

The action `Shuffle` may call `forkgc_util_randomize` first. `Sort` and
`CompactSorted` then call the other two functions in turn, on any input
array. `Returned` is the stutter after both have returned. The reference
properties compare the result with the original input `a0`. So a shuffle
that is not a permutation breaks `SortedPermutation`.

`Mul32Mod` works around TLC's integers, which stop below 2^31. Because
2147483647 = 2^31 - 1, the wrapped product is 2^31 - i for odd i and
2^32 - i for even i > 0. The result is reduced modulo n starting from
2^30.

### `Aggregate.tla`

- `list` is the list of batches after `garbage_collect` prepended the
  carry-over. Each batch holds 1 to `Cap` addresses.
- `AggregateGcData` is the whole of `aggregate_gc_data`, in this order:
  - the count loop (a fold over the list);
  - the three page counts (`PagesOf`, with `MinimapPages` for the
    minimap);
  - the copy in list order (`FlattenSeq`);
  - `threadscan_util_sort` (`SortUtil`'s `Quicksort`, through `INSTANCE`);
  - `assert_monotonicity` (`MonotonicFrom`, only when `Debug`), which ends
    the process (`status = "fatal"`);
  - `generate_minimap`.
- Sizes are in bytes, with a scaled page (`PageSize`). A page holds a few
  words, so the rounding is exercised by small datasets.
- Left out:
  - `alloc_sz`, which `malloc_usable_size` fills;
  - `refs`, which is zero in a fresh mapping.
- `Located(w)` is in the properties section, not a model of code. It is
  the child's two-level search, taken from spec 4.4 (`threadscan_child` is
  absent): take the last minimap entry that is <= w, then search that
  page's entries.

### `FreeListLifo.tla` (abstract)

An atomic LIFO stack of free lists, with `Push(l)` and `Pop`. A pop on
an empty stack is a stutter. `FreeListStash` maps `stash` to `stack` and
`popped` to `returned`:

- `PopTest` is a stutter, and so is a `PopLocked` that finds the stash
  emptied.
- A `PopLocked` that takes the head is `Pop`.

### `ThreadRegistry.tla`

| Model | Code |
|---|---|
| `tdState` | whether each record's memblock is mapped, live or unmapped |
| `refCount` | `td->ref_count` |
| `tdNext` | `td->next`, which both the thread list and `g_td_staged_to_free` link through |
| `head`, `count` | `tl->head`, `tl->count` |
| `stagedHead` | `g_td_staged_to_free` |
| `hold` | the record a `thread_list_find` caller holds a reference to |
| `fatal` | the process ended: `"race"` is `forkgc_fatal` at line 119, `"null"` is the walk at 105-109 running off the list |

Actions:

- `New`, `ListAdd` and `ListRemove` model `thread_data_new`,
  `thread_list_add` and `thread_list_remove`. Each locked section is one
  step.
- `decr_ref` is two steps: the lock-free `fetch_and_sub`, then the locked
  push when the count reached 0. These are `ExitDecr`/`ExitStage` for the
  exiting thread's own reference, and `Release`/`ReleaseStage` for a
  lookup's reference.
- `Cleanup` models `thread_data_cleanup`: the walk and unlink of the staged
  list, the `ref_count` check, and `thread_data_free`.
- `Find` models `thread_list_find`, which takes a reference under the list
  lock.

The callers are in `thread.c`, which is not in this repository. The order
a thread follows (new, add, remove, drop its reference, cleanup) comes
from spec sections 5 and 7. Cleanup may run at any time after the thread
has dropped its reference.

### `FreeListStash.tla`

- `stash` is `free_list_list`, head first.
- `Push` models `forkgc_util_push_free_list`.
- `forkgc_util_pop_free_list` is two steps. `PopTest` is the unlocked test
  of `free_list_list` at line 204, and `seen` is the value it read.
  `PopLocked` is the locked pop, which tests the node again.
- `pushed` and `popped` are ghosts for the property.

### `Snapshot.tla`

| Model | Code |
|---|---|
| `received`, `counter` | `g_received_signal`, `g_cleanup_counter` |
| `sigCount` | `sig_count` |
| `pending` | a `SIGTHREADSCAN` sent to each mutator and not yet delivered |
| `mpc`, `oldCounter`, `spilled`, `acked` | each mutator's handler: inside it or not, its `old_counter`, `setjmp` done, increment done |
| `children` | every forked child: scanning, exited but not reaped (zombie), or killed |
| `pipe` | the byte count is in the pipe |

Collector actions:

| Action | Lines |
|---|---|
| `Start` | 340 |
| `SignalAll` | 341 |
| `Fork` | 342-347. `fork` fails when every process slot is taken. |
| `ReleaseMutators` | 356 |
| `ReadPipe` | 361-364. `read` returns 0 when the child exited without writing. |

Mutator actions model lines 418-421: `Deliver` reads `old_counter`, then
`Spill`, `Ack` and `Resume` follow. `ChildExit` is the child's write and
`exit(0)`. `ProcessDeath` is `process_death`. `threadscan_proc_signal` and
`threadscan_child` are not in this repository and are modelled by their
contracts: one signal to every registered mutator, and one `size_t`
written before exit.

## 4. Runs

| Run | Config | Expect | What it shows |
|---|---|---|---|
| `sweep` | `MC_Sweep.cfg` | pass | See below. |
| `sweep_duplicates` | `MC_SweepDup.cfg` | violation of `NoDoubleFree` | With an address retired twice, the two slots are claimed separately and `free()` runs twice on the block. Spec 4.2 says duplicates are tolerated by the CAS. They are not, because no compaction follows the sort. A debug build aborts earlier instead, in `assert_monotonicity` at line 50 (`Aggregate` with `Debug = TRUE`). |
| `collector` | `MC_Collector.cfg` | pass | See below. |
| `collector_carryover` | `MC_CollectorCarry.cfg` | violation of `CarryOverMapped` | Collection 1 keeps a survivor in batch b1. Collection 2 frees it, and b1 is munmapped with `g_uncollected_data` still pointing at it (line 397 is only an `assert`). The next collection walks b1. |
| `sort_compact` | `MC_SortUtil.cfg` | pass | Every array of up to six values over {1,2,3} is sorted into its non-decreasing permutation (`SortedPermutation`), and compact leaves its distinct values with savings = duplicates removed (`CompactDedup`). The input may first be shuffled by randomize, with its 32-bit wrap. With `SortThreshold = 1`, partition runs on every part of three or more slots, so insertion sort runs on parts with `min > 0`. |
| `registry` | `MC_ThreadRegistry.cfg` | pass | Three threads live and exit while two others look records up. `SafeTeardown`: a record is unmapped only when its count is 0, no lookup holds it and it is on neither list. `ListsIntact`: the two lists that share `td->next` stay separate, with the right members and `tl->count`. |
| `registry_race` | `MC_ThreadRegistryRace.cfg` | violation of `RaceDetected` | A lookup holds a record while its thread is removed, drops its own reference and is cleaned up. The record was never staged, so the walk of the staged list runs off its end (`assert` at 109, a NULL dereference under NDEBUG). The data-race report at 118 never happens. |
| `free_list` | `MC_FreeListStash.cfg` | pass | Three threads push three free lists and pop concurrently. `NoLostOrDuplicatedFreeList`: every pushed list is in the stash once, or has been returned by exactly one pop. This covers two pops that both passed the unlocked test on the same head. `StashRefinement`: the stash implements `FreeListLifo`, so each pop returns the most recent push still there. |
| `aggregate` | `MC_Aggregate.cfg` | pass | Release build. Input: every list of one or two batches of 1-3 addresses over {1..4}, duplicates included. `LayoutFits`: the addresses, the minimap and the int arrays each fit in the pages mapped for them. `MinimapLocates`: the scanner's minimap-then-page search finds every retired address. |
| `snapshot` | `MC_Snapshot.cfg` | pass | See below. |
| `snapshot_zombies` | `MC_SnapshotZombie.cfg` | violation of `ForkSucceeds` | Nothing ever waits for a child, so zombies use up the process slots and a later `fork` fails. `threadscan_fatal` then aborts the process. Spec section 5 says the parent uses `waitpid`. |
| `collector_spurious` | `MC_CollectorSpurious.cfg` | violation of `CollectorGetsWork` | A spurious wake-up passes a NULL list to `garbage_collect`, because line 452 uses `if`, not `while`. |

**`sweep`** checks four properties over every snapshot of up to 3 one-word
blocks over 3 addresses, swept by 2 workers:

- `RefsMatchHeap`: counts stay exact.
- `ReclaimRefinement`: the sweep refines Reclaim's safety, so only
  unprotected blocks are freed, each once.
- `SweepComplete`: when the loop ends, the survivors are exactly the
  protected blocks and everything else was freed once.
- `Termination`: the loop ends.

**`collector`** checks that across three collections:

- `NoLostCandidate`: each retired address is freed or is in exactly one
  reachable list.
- `TypeOK`: the write-back stays within capacity.
- `WorkCollected`: every pushed batch is taken.
- `CandidatesRefinement`: `Collector` implements `Candidates!SafetySpec`
  under `CandStates`. No address is freed while it waits on `g_gc_data`,
  none goes back to an earlier list, and the detach takes the whole list.

The fairness of `Candidates!Spec` is not part of the check. Checking it
through the mapping takes about six minutes on this model, over the
budget of a run. `WorkCollected` checks the liveness that matters here,
the counterpart of the abstract `WF(Take)`.

`WorkCollected` is stated as "taken or the process crashed". This is
because the carry-over bug above crashes the process in some of these
behaviours. The crash itself is the subject of `collector_carryover`.

**`snapshot`** runs three mutators through three back-to-back collections,
so that a handler of one collection can still be spinning when the next one
signals. It checks:

- `SnapshotConsistent`: at every fork, every mutator is in its handler and
  has spilled its registers and acknowledged.
- `ParkedReleased`: every mutator that acknowledged leaves its handler.
- `CollectionCompletes`: every collection returns the collector to waiting
  for work, unless the process exits.

`CollectionCompletes` assumes that every counted mutator runs its handler
and that the child writes its byte. It therefore says nothing about a
mutator that never acknowledges (the spin at line 342 has no timeout), nor
about a child that dies before writing (line 361).

Every property of a passing run has a mutant in `PROJECT.json`: a plausible
bug in a mapped definition that TLC must catch. For example, the claim
without the CAS, the pass loop without repetition, a search range one slot
short, and a push that never signals.

## 5. Bounds and why they are enough

### Sweep

- `Addr = {2,4,6}`, `Words = 1` and `MaxN = 3` give every graph over three
  blocks. That covers chains, two parents of one block, self loops, a
  two-cycle, a non-retired address inside `[min_val, max_val]`, and stack
  roots.
- `MaxDepth = 1` makes a chain of three blocks outrun one cascade. This is
  the same situation as the code's chain of more than 30, and it needs a
  second pass.
- `AddrsPerThread = 1` and `MaxThreads = 2` keep the partition arithmetic
  and give two concurrent workers. In the code, more than one worker needs
  at least 131072 addresses. The arithmetic is the same, scaled.

### Collector

- Four batches, capacity 2 and six addresses allow three collections.
  That is enough for a carry-over list to be built, emptied and used again,
  and for a write-back that spans two batches.

### Aggregate

- Lists of one or two batches of up to three addresses give datasets of 1
  to 6 entries. All 7140 lists are checked.
- `PageSize = 16`, with 8-byte words and 4-byte ints. A page then holds 2
  words or 4 ints, so the minimap stride is 2. Five or more entries need
  three pages of addresses, a two-page minimap and two pages of ints. This
  exercises every round-up, including a last page that is partly used.
- Sizes scale: every page count is `ceil(count * elem / PAGE_SIZE)` and
  the minimap stride is `PAGESIZE / sizeof(size_t)`. So what holds for a
  16-byte page holds for 4096 bytes.
- `SortThreshold = 1`, so the quicksort partitions.

### Registry, stash, snapshot

- **Registry:** three threads and two finders. That allows a lookup to hold
  a record of each position in the thread list (head, middle, tail) and two
  lookups to hold the same record.
- **Stash:** three threads, so that two pops can pass the unlocked test on
  one head while a third pushes.
- **Snapshot:** three collections are enough for a handler of collection k
  to still be spinning when collection k+1 resets `g_received_signal` and
  signals again. `ProcLimit = 3` gives every child a slot in the passing
  run. `snapshot_zombies` uses 2.

## 6. Fairness

- **Sweep:** weak fairness for each worker and for the parent's `EndPass`.
  They are kernel threads that are never blocked, only joined.
- **Collector:** weak fairness for the collector thread's actions. A pending
  signal stays pending until the collector consumes it. Mutators get no
  fairness, because they need not retire anything.

- **Snapshot:** weak fairness for the collector, for each mutator's handler
  and for the child. These are kernel threads and a process that the
  scheduler keeps running, and a pending signal is delivered once its
  thread runs. `ProcessDeath` gets no fairness: the program need not exit.
- **Registry and stash:** no fairness. Only safety is checked, because the
  callers decide when to clean up or pop.

## 7. Not modelled (yet), and why

| Part | Why |
|---|---|
| The candidate queue | `queue.c` is not in this repository. |
| `alloc_sz`, and the minimap inside the sweep | `Aggregate` models the minimap and the page arithmetic. `Sweep` gives each block a fixed word count, and models `binary_search` by its contract: it finds a slot holding the address when there is one. `alloc_sz` is filled by `malloc_usable_size`, which is external. |
| Locks held by parked threads at `fork` (part_000:343) | The child is a copy with only the collector thread. It must not take a lock that a parked mutator held, such as malloc's. `threadscan_child` and the allocator shim are not in this repository. |
| One module composing `Collector` and `Snapshot` | `garbage_collect` is sequential on the collector thread between the detach and the next wait. The interleavings are those of the hand-off (`Collector`) and the barrier (`Snapshot`), and each is checked in its own module. Mutators blocked in the handler make no hand-off, which changes neither module's properties. |
| A mutator that exits, or blocks `SIGTHREADSCAN`, after `threadscan_proc_signal` counted it | Depends on `proc.c` and `thread.c`, which are not in this repository. The collector would spin for ever at line 342. |
| The caller order of the thread registry | Taken from the spec, because `thread.c` is absent. Another exit order (drop the reference before removing the thread) would let `thread_list_find` revive a staged record. |
| Statistics, diagnostics, `forkscan_rdtsc` | Output and timing only. |
