# TLA+ models of IndexZoo

This directory holds TLA+ specifications of the IndexZoo benchmark, TLC
configurations that model-check them on small instances, and TLAPS proofs of
their main safety invariants.

## The system

The code under `src/` has five files:

| file | what it is | modelled by |
|---|---|---|
| `src/src/static_index/kary_index.h` | `KAryIndex`, a static implicit k-ary search tree over a sorted snapshot | `KAryIndex`, `KAryIndexProofs` |
| `src/src/main.cxx` | the benchmark driver: option parsing, initial load, inserter and reader threads, profiler, shutdown | `Workload`, `MCWorkload`, `WorkloadProofs`, `Launch`, `MCLaunch`, `LaunchProofs`; contract `BenchmarkDriver` |
| `src/playground/fast_random.h` | a 48-bit LCG | not modelled |
| `src/src/lognormal_key_generator.h` | lognormal key sampling | not modelled |
| `src/performance/general_test.cxx` | smoke test of `PersistTrie` | not modelled |

**The k-ary index.** `BaseStaticIndex` is not under `src/`, so it is modelled
from spec sections 4.1 and 4.2. `insert` appends a tuple to the store. The index
answers lookups only from the snapshot published by the last `reorganize`.

`reorganize` does the following, in order:
1. `base_reorganize` sorts all tuples into `container_`.
2. It asserts `k^L - 1 < size_`.
3. It sets `key_min_` and `key_max_` from the first and last entries.
4. It allocates `inner_nodes_`, which holds `k^L - 1` slots.
5. `construct_inner_layers` fills the array level by level. Layer `l` starts
   at slot `k^l - 1`, and group `g` sits at offset `g*(k-1)`. Each node stores
   the keys at `lo + step*(i+1)`, where `step = (hi-lo)/k`. The recursion skips
   any subtree whose range is empty.

`find` does the following:
1. It returns on an empty snapshot.
2. It returns if the key is outside `[key_min_, key_max_]`.
3. If `key_min_ = key_max_`, it emits everything.
4. Otherwise it descends the inner layers to a leaf range (`find_inner_layers`).
5. It binary-searches that range (`find_internal`).
6. From the anchor it found, it scans left, then right, for duplicates.

`find_range` is a stub. The destructor deletes `inner_nodes_` whenever
`num_layers_ != 0`.

**The driver.** `main` zeroes `global_curr_key` and calls `run_workload`:
1. It loads `init_key_count` keys, then reorganizes the index.
2. It allocates `operation_counts` without zeroing it.
3. It sets `is_running` and spawns the inserter threads, then the reader
   threads.
4. For `profile_round` rounds, it sleeps and copies the counters.
5. It clears `is_running` and joins the threads.

An inserter loops, while `is_running` is set, through `get_insert_key`, the
table and index inserts, and `++operation_count`. A reader loops through
`get_random_key`, `find`, and `++operation_count`. Each thread first zeroes its
own counter.

Keys come from the `BatchKeys` object each thread owns:
- With `global_max_key = 0` (the default), `get_insert_key` reserves
  `batch_key_count_` keys at a time with `global_curr_key.fetch_add`, and
  `get_random_key` returns `rand % global_curr_key`.
- Otherwise, both return `rand % global_max_key`.

The index `main` drives is `LearnedIndex`, which is not under `src/`. In
`Workload`, its insert only records the key, and its find changes nothing.

## Modules

### `KAryIndex.tla`: the k-ary index and its base class

**State.**
- `store`: the keys inserted, in order. A tuple's value is its 1-based
  insertion number, so insertion order can be read back from what `find`
  returns.
- `container` (over `0..size-1`) and `size`: `container_` and `size_`.
- `inner`: `inner_nodes_`. A slot never written holds the model value `Uninit`.
- `keyMin` and `keyMax`: `key_min_` and `key_max_`.
- `innerPtr`: what `inner_nodes_` points to. It is `"uninit"` after the
  constructor, `"heap"` after a `new`, and `"null"` when `L = 0`.
- `leaked` and `badFree`: record the two memory errors.
- `phase`: `"running"`, `"aborted"` (after the failed ASSERT) or `"destroyed"`.
- `last`: the last operation, what it returned, and which positions of
  `container_` and slots of `inner_nodes_` it read.

**Actions.**
- `Insert` models `BaseStaticIndex::insert`.
- `Reorganize` is `reorganize` when the ASSERT holds. `ReorganizeAbort` is the
  same call when the ASSERT fails, after `base_reorganize` has already run.
- `Find` and `FindRange` model `find` and `find_range`.
- `Destroy` models `~KAryIndex`.

**Operators.** These are pure, so they are operators rather than actions:
- `NodeRanges` and `BuildInner`: `construct_inner_layers(_internal)`. A
  recursive function over layers gives each node its range and says whether
  it is live.
- `DescStep` and `Descend`: `find_inner_layers(_internal)`.
- `BinSearch`: `find_internal`, with the recursion unrolled `size + 2` times.
- `LeftRun`, `RightRun` and `Scan`: the duplicate scans.
- `FindRun`: the whole of `find`.

**Undefined behaviour.**
- Reading an uninitialised slot during the descent ends `find` with the result
  `Undefined` and records the slots read.
- Reads of `container_` outside `0..size_-1` return the marker values `NoKey`
  and `NoVal` and are recorded. `FindInBounds` rules them out.
- The constructor leaves `key_min_` and `key_max_` uninitialised. No path reads
  them before the first `reorganize` sets them, so one value stands for all
  (`Init`).

### `Workload.tla` and `MCWorkload.tla`: the driver

**State.**
- `gck`: `global_curr_key`.
- `bk`: each `BatchKeys`, its `local_curr_key_` and `local_max_key_`. This
  includes `Main`, the object `run_workload` uses for the initial load.
- `inserted`: the keys handed to the index.
- `mainPc` and `pc`: where `main` and each worker thread are.
- `isRunning`: `is_running`.
- `counts`: `operation_counts`. A slot holds `Garbage` until its thread zeroes
  it.
- `snaps`: the profile copies.
- `divZero`: set when `get_random_key` took `% 0`.

**Actions.** `main` is `Load`, `LoadDone`, `Spawn`, `Profile`, `Stop` and
`Join`. Each worker is `ThreadStart`, `LoopTest`, `ThreadExit`, and either
`InserterStep` or `ReaderStep`.

**Atomicity.** The loop test (`while (is_running)`) and the body of one
iteration are separate steps: `LoopTest` reads `is_running` as true and
enters the body, `ThreadExit` reads it as false and leaves. `main`'s
`is_running = false` can fall between a worker's test and its body, and then
the inserter inserts once more after the shutdown. The body itself is one
step. Its only shared effects are:
- one atomic `fetch_add`, or one atomic load of `global_curr_key`;
- the insert;
- the worker's own counter.

Splitting the body further would add no behaviour that the properties can
tell apart. `MaxOps` caps the iterations of each thread.

`MCWorkload` fixes one inserter and one reader.

### `BenchmarkDriver.tla`: what a benchmark run promises

An abstract specification of `run_workload`. It has no `BatchKeys`, no
counters and no profile rounds. Its state:
- `keys`: the keys inserted, in order;
- `stage`: `"load"`, `"run"`, `"stop"` or `"done"`;
- `busy`: the workers started and not yet out of their loop;
- `pending`: after the shutdown, the workers that still have one insert to
  make because they passed their loop test before it.

Its actions:
- `LoadInsert` and `WorkerInsert(w)` append one key of `KeySpace`
  (`AppendsKey`). While loading, `main` appends; during the run, a busy
  worker does. Where `Unique` holds, the key must be fresh.
- `Start` begins the run with every worker busy.
- `Shutdown` announces the stop and chooses `pending`, a subset of `busy`.
- `LateInsert(w)` is the one insert a pending worker makes after the
  shutdown; it leaves `pending`.
- `Leave(w)` removes a busy worker that has no insert pending, and only
  after the shutdown.
- `Finish` ends the run once no worker is busy.

`AppendsKey` names the appended key as the last element of `keys'`, so TLC
never has to enumerate `KeySpace`, which is `Nat` with sequential keys.

`Workload` instantiates it as `Driver`:
- `Workers <- Threads`;
- `KeySpace <- IF MaxKey = 0 THEN Nat ELSE 0..MaxKey-1`;
- `Unique <- (MaxKey = 0)`;
- `keys <- inserted`;
- `stage <- Stage`, which is read off `mainPc`. Load and spawn are `"load"`,
  the profile rounds and the store of `is_running = false` are `"run"`,
  the joins are `"stop"`;
- `busy <- Busy`, the threads whose `pc` is `"started"`, `"loop"` or
  `"body"`;
- `pending <- Pending`, during the joins the inserters whose `pc` is
  `"body"`, and `{}` before them.

The property is `ImplementsBenchmarkDriver == Driver!Spec`.

### `Launch.tla` and `MCLaunch.tla`: option parsing, thread launch and join

`Launch` models `parse_args` and the parts of `run_workload` that depend on
the thread counts. A thread is reduced here to the slot of
`operation_counts` it writes.

Every option value is `(uint64_t)atoi(optarg)`. A `uint64_t` is held as the
signed number with the same 64 bits: `v < 0` stands for `2^64 + v`. `ULess`
compares two such numbers as unsigned values. Sums of them keep their meaning
modulo `2^64`, except where both operands are negative. `ArgVals` is the set
of values `atoi` may return.

**State.**
- `argv`: the options `getopt_long` has still to return.
- `config`: `Config`.
- `pc`: where the program is. The final values say how it ended: `exit`,
  `assert`, `badalloc`, `outofrange`, `terminate` or `done`.
- `tc`: the spawn-loop counter.
- `slots`: the length of `operation_counts`.
- `spawned` and `joined`: the thread ids started and joined.

**Actions.**
- `ParseOpt`: one round of the `getopt_long` loop. `-h` and unknown options
  exit.
- `ParseEnd`: the assert, then `thread_count_ = inserter_count_ +
  reader_count_`.
- `Alloc`: `new uint64_t[thread_count_]`. A length of `2^63` or more throws.
- `Spawn` and `SpawnDone`: the two spawn loops, bounded by `MaxSpawn`.
- `Join`: the join loop, `worker_threads.at(i).join()` for `i <
  thread_count_`. `at` throws if thread `i` was never started. A thread left
  joinable makes `std::thread`'s destructor call `std::terminate`.

## Properties and runs

| run | cfg | checks | result |
|---|---|---|---|
| `kary_k3_l2` | K=3, L=2, 3 keys, ≤9 inserts | TypeOK, FindComplete, FindInBounds, FindReadsWrittenSlots, KeyRangeCoversSnapshot | pass (560,961 states, ~1 min) |
| `kary_l0` | K=2, L=0, 3 keys, ≤4 inserts | FindComplete, FindInBounds | pass (4,377 states) |
| `workload_seq` | 1 inserter, 1 reader, 3 initial keys, batches of 2 | TypeOK, InsertKeysUnique, RandomKeyDefined, WorkloadTerminates, ImplementsBenchmarkDriver | pass (2,285 states) |
| `launch_valid` | argument values {-1,0,1,2}, ≤2 options, ≤4 spawns | CountsSafeUnlessNegative | pass (2,571 states) |
| `viol_absent_key` | K=2, L=2 | FindExcludesAbsentKeys | violated |
| `viol_dup_order` | K=2, L=2 | FindInsertionOrder | violated |
| `viol_find_range` | K=2, L=2 | FindRangeComplete | violated |
| `viol_rebuild_leak` | K=2, L=2 | NoLeakedInnerArray | violated |
| `viol_destroy_unbuilt` | K=2, L=2 | DestructorFreesOwnArray | violated |
| `viol_random_div_zero` | `init_key_count` = 0 | RandomKeyDefined | violated |
| `viol_profile_garbage` | defaults | ProfileReadsInitialisedCounts | violated |
| `viol_negative_count` | argument values {-1,1,2} | CountsIndexInBounds | violated |

**The properties that hold:**
- `FindComplete`: `find` of a held key returns each of that key's values
  exactly once. This needs the descent, the binary search and both scans to
  work together.
- `FindInBounds`: `find` never reads past the snapshot. This covers both the
  `(0, size_)` range when `L = 0` and the right scan's bound.
- `FindReadsWrittenSlots`: the descent reads only slots that `reorganize`
  wrote. This is the non-obvious fact: the guard `k^L - 1 < size_` ensures
  that no node above the leaves has an empty range.
- `KeyRangeCoversSnapshot`: `key_min_` and `key_max_` bound every key of
  the snapshot, which `find`'s early return relies on.
- `InsertKeysUnique`: the batch reservation makes keys unique across threads.
- `RandomKeyDefined`: no division by zero once keys were loaded.
- `WorkloadTerminates`: shutdown completes.
- `ImplementsBenchmarkDriver`: the driver implements the benchmark-run
  contract. Keys go in only during the load, or from a worker still in
  its loop before `is_running` is cleared, or once more from an inserter
  that passed its loop test before the clear. Sequential keys are never
  reused. No worker leaves its loop before the shutdown, and the joins end
  only after every worker has left. Each of these mutants breaks it: a
  `Stop` that leaves `is_running` set, a `Join` that does not wait, and an
  overlapping batch.
- `CountsSafeUnlessNegative`: unless `-r` or `-s` was negative, two
  things hold, whatever the other options:
  - every started thread's slot lies inside `operation_counts`
    (`CountsIndexInBounds`);
  - the join loop joins exactly the threads started (`JoinsEveryThread`).

  Negative `-t`, `-m` and `-n` values do no harm here.

**The violations.** Each one is a finding in `PROJECT.json`:
- `find` returns a wrong value for an absent key when the leaf range has
  collapsed to one position.
- Duplicates come out in reverse order on the left of the anchor.
- `find_range` is empty.
- A rebuild leaks the previous inner array.
- Destroying an index that was never built deletes a garbage pointer.
- `-n 0` divides by zero.
- The first profile round can read uninitialised counters.
- A negative count wraps through `(uint64_t)atoi`. For example, `-s -1` with
  the default reader gives `thread_count_ = 0`, yet inserter thread 0 is
  started and writes `operation_counts[0]` in an array of length 0.

Two smaller disagreements have no run:
- The comment at `main.cxx:45` says `max_key_count_ = 0` means random keys.
  The code uses sequential batches for 0.
- `usage` gives the reader default as 0 and the inserter default as 1.
  `Config` has 1 and 0.

In random-key mode, `main`'s `BatchKeys(0)` and inserter 0's `BatchKeys(0)`
share a seed, so inserter 0 replays the initial keys. This is listed as a
hazard. `FastRandom` is not modelled, so no property can see it.

**Bounds.**
- `kary_k3_l2` is the smallest instance in which the construction recurses,
  nodes have a middle child, and the guard `k^L - 1 < size_` permits a build
  (9 tuples). With three keys, it gets duplicates, absent keys and pivot hits.
- `kary_l0` covers the special case where `find_inner_layers` returns
  `(0, size_)`.
- In `workload_seq`, batches of 2 and three initial keys make `main` use up a
  batch and reserve another. The inserter reserves batches after `main`, so
  the boundary between batches is crossed.
- In `workload_seq`, `MaxOps` lets the inserter iterate while `main`
  profiles, so the shutdown falls both before and after its loop test and
  the late insert occurs.
- `launch_valid` uses values -1..2 and two options. This covers:
  - a count of 0 for either thread kind;
  - an assert failure (`-m 1 -n 2`);
  - both spawn loops;
  - a failed allocation (`-r -1 -s -1`);
  - a negative value of every option.

  -1 is the smallest value that wraps. `viol_negative_count` shows that the
  hypothesis of `CountsSafeUnlessNegative` is needed.

**Mutants.** Each property of a passing run is broken by a plausible bug in
the code it is about. Each such bug is defined next to the operator it
mutates, with the suffix `Mut`:
- `LeftRunMut`: the left scan stops at 1.
- `ScanRightEndMut`: the right scan runs to `size_`.
- `LayersFitMut`: the ASSERT checks only `size_ > 0`.
- `KeyBoundsSwapMut` and `KeyBoundsMut`: the key bounds are swapped, or taken
  from the value field.
- `OutOfKeyRangeMut`: half of the range check is dropped.
- `NextBatchKeyMut`: `local_max_key_` is off by one.
- `RandomKeyDivisorMut`: the branches are swapped.
- `LoadKeyOverMut`: the load loop is off by one.
- `StopMut`: `is_running` is never cleared.
- `JoinMut`: the joins end without waiting for the threads.
- `SpawnBoundMut`: the inserter loop runs one thread too many.
- `JoinsLeftMut`: the join loop runs to `i <= thread_count_`.

**Fairness.** `Workload` assumes weak fairness for `main`'s steps, and for each
worker's start, loop test, body and loop exit. The threads are OS threads and
`main` only sleeps, so each of them keeps being scheduled. A worker whose
body is enabled must take it before it can reach its next test, so the body
needs fairness for the shutdown to complete.

`WorkloadTerminates` also assumes that a worker re-reads `is_running` on every
iteration. `is_running` is a plain `bool` written by `main` and read by the
workers. That is a data race, and a compiler may legally hoist the load out of
the loop. The calls through the index pointer in the loop body make that
unlikely in practice. The model follows the source as written.

`Launch` has no fairness. It is sequential, and its properties are
invariants.

`KAryIndex` has no fairness and no liveness property. It is a single-threaded
object whose operations are invoked by its user.

## What is proved

`KAryIndexProofs.tla` proves these results with TLAPS, for all values of the
constants that satisfy the `ASSUME`s of `KAryIndex`:

- **`TypeCorrect`**: `Spec => []TypeOK`. Its lemmas are:
  - `StableSortType`: the sort returns an array of entries. This is a
    pigeonhole argument: the ranks are distinct (`RankOrder`), so the rank map
    is an injection of `1..n` into `0..n-1`, and hence onto (`RankOnto`, via
    `FS_Injection`).
  - `BuildInnerType`: what `reorganize` builds has the type of
    `inner_nodes_`.
  - `FindOutType`: what `find` returns is a sequence of values, or `Undefined`.

  `TypeOK` is inductive by itself. Its proof does not depend on what the
  descent or the binary search compute. For that reason, the accessors
  `EntryKey` and `ValAt` are total.
- **`KeyRangeCovered`** (`Spec => []KeyRangeCoversSnapshot`). It follows
  from the inductive invariant `IInv == TypeOK /\ SnapshotSorted /\
  KeyBoundsOfSnapshot`. `SnapshotSorted` (the snapshot is sorted by key) is
  a conjunct of the invariant only: the sort of `base_reorganize` is not
  under `src/` and is modelled from the spec, so that it sorts is no finding
  about this code and no run checks it. The lemma `StableSortSorted` gives
  it for each `Reorganize`. The extra conjunct `KeyBoundsOfSnapshot` says that,
  while the index runs, `key_min_` and `key_max_` are the first and last keys
  of the snapshot. It is needed because `KeyRangeCoversSnapshot` is not
  inductive by itself. A step that kept the bounds but changed the snapshot
  would break it, and only the knowledge that `reorganize` always sets both
  together rules that out.

`WorkloadProofs.tla` proves, for every number of inserter and reader threads
and every batch size, round count and key count the `ASSUME`s of `Workload`
allow:

- **`InsertKeysUniqueInvariant`** (`Spec => []InsertKeysUnique`). With
  sequential keys, no two inserts in any interleaving use the same key. The
  inductive invariant `BatchInv` has three parts:
  1. `Remaining(b)`, the keys `local_curr_key_ .. local_max_key_ - 1` still
     ahead of `BatchKeys` `b`, lies below `global_curr_key`.
  2. The remaining ranges of two different `BatchKeys` are disjoint.
  3. Every inserted key is below `global_curr_key` and is in no remaining
     range.

  `InsertKeysUnique` is not inductive by itself. A state with distinct
  inserted keys can still have a batch that overlaps one of them. The lemma
  `BatchInsertStep` shows that one `get_insert_key` call and its insert keep
  `BatchInv`. The argument:
  - A new batch starts at the old `global_curr_key`, above every key in use.
  - An old batch only shrinks from below, and the key it hands out leaves it.

`WorkloadProofs.tla` also proves these results, from the inductive invariant
`RunInv`. `RunInv` is `TypeOK /\ BatchInv` plus four facts:
- a worker at its loop test, in its body or done has a natural-number
  counter;
- while `main` loads, every worker is still idle;
- after the load, `initDone >= InitKeys`;
- `Len(inserted) >= initDone`.

`TypeOK` alone is not inductive: `TypeOK` does not say which keys were
loaded or which counters were zeroed.
- **`WorkloadTypeCorrect`**: `Spec => []TypeOK`.
- **`RandomKeyDefinedInvariant`**: if `InitKeys # 0 \/ MaxKey # 0`, then
  `Spec => []RandomKeyDefined`. The hypothesis is needed:
  `viol_random_div_zero` shows the violation without it. The argument: a
  reader runs only after the load, and the load has reserved at least one
  key (`DivisorPositive`).

- **`DriverRefinement`** (`Spec => ImplementsBenchmarkDriver`). The
  initial state maps to `Driver!Init`. Under the inductive invariant
  `DriverInv == RunInv /\ JoinedAll /\ StageInv`, every step maps to a
  contract step or a stutter (`DriverStep`):
  - `Load` maps to `LoadInsert`. `InserterStep` maps to `WorkerInsert`
    while `main` profiles or is about to stop, and to `LateInsert` during
    the joins: by `StageInv` the inserter then passed its test before the
    stop, so it is in `Pending`, and the step takes it out.
    The lemma `InsertAppendsKey` shows that the key appended is in
    `KeySpace` and, with sequential keys, fresh. Freshness comes from
    `InsertKeysUnique` after the step, which `BatchInv` gives.
  - `Spawn` maps to `Start`, `Stop` to `Shutdown` (the inserters in their
    body become `Pending`, a subset of `Busy`), `ThreadExit` to `Leave`
    and `Join` to `Finish`.
  - `LoadDone`, `Profile`, `ThreadStart`, `LoopTest`, `ReaderStep` and
    stuttering leave `inserted`, `Stage`, `Busy` and `Pending` unchanged.

  `StageInv` is the new part of the invariant. It says that every worker is
  idle before the spawn, and that `is_running` holds exactly while `main`
  is in its profile rounds or about to stop. Without it, the proof cannot
  place an inserter's step in the `"run"` stage. Nor can it show that a
  worker leaving its loop (`is_running` false, worker not idle, `main` not
  done by `JoinedAll`) does so while `main` joins.
  `JoinedAll` (once `main` is done, every thread is done) maps `Join` to
  `Finish`.

`LaunchProofs.tla` proves, for every command line, every number of options
and every spawn bound:

- **`NegativeCountIsOnlyCause`** (`Spec => []CountsSafeUnlessNegative`).
  The inductive invariant `IInv` has an unconditional part and a
  conditional part.

  The unconditional part holds for every command line:
  - the spawn loops have started exactly the ids `0..tc-1`;
  - `thread_count_` is the sum of the counts once `parse_args` returned;
  - nothing is started or joined before the allocation.

  The conditional part, `Bounded`, holds while neither count is negative:
  - `operation_counts` has `thread_count_` slots;
  - the loops stop at `thread_count_`;
  - the join loop starts only with `tc = thread_count_`;
  - it has joined `0..j-1` for some `j <= tc`.

  The invariant must be stated this way because the counts may change sign
  while the options are parsed. `Bounded` holds trivially until the
  allocation, and after parsing the counts no longer change.
- **`CountsInBounds`** and **`JoinsAll`**: if `ArgVals \subseteq Nat`,
  then `Spec => []CountsIndexInBounds` and `Spec => []JoinsEveryThread`.
  They follow from `IInv` and the invariant `NatCounts`.
- **`ULessIsUnsignedLess`** and **`SumIsUnsignedSum`** justify the model's
  representation of `uint64_t`:
  - on values in `-2^63..2^63-1`, `ULess` is `<` on the unsigned values;
  - the model adds two `atoi` results, and that sum is the `uint64_t` sum
    `parse_args` computes, modulo `2^64`.

  `ArgVals \subseteq Nat` covers every non-negative `atoi` result and
  more. The theorems do not use the bound `2^31`, and Zenon fails on
  numerals that large.

**Assumptions.**
- `PowAssumption` (`K^L \in Nat \ {0}`) is a fact of arithmetic that the
  provers have no axioms for. TLC evaluates it on every run.
- The other assumptions are the code's own: `ASSERT(k_ >= 2)`, and sizes that
  are natural numbers.

**What stays with TLC.**
- What `find` computes (`FindComplete`, `FindInBounds`,
  `FindReadsWrittenSlots`). It is defined through recursive functions
  (`NodeRanges`, `Descend`, `BinSearch`). The provers cannot unfold these for
  symbolic arguments, and the induction they would need takes an operator
  parameter that the provers cannot instantiate.
- Liveness (`WorkloadTerminates`), which needs fairness and `ENABLED`. Both
  are beyond the proof system. For this reason `BenchmarkDriver` has no
  fairness: the refinement theorems cover the whole property the runs
  check, and termination is a separate TLC property.
- There is no separate action property. The step-level statements worth
  making (what an insert, a shutdown, a thread exit or a rebuild may do)
  are the `[][Next]_vars` parts of the driver refinement, which is proved.

## Not modelled

- `FastRandom`: its 48-bit arithmetic exceeds TLC's integers. Only its range
  matters, so every random draw is an arbitrary choice.
- `LognormalKeyGenerator`: floating point, and it has no caller.
- `general_test.cxx`: it drives `PersistTrie`, which is not under `src/`.
- `usage`, `print`, the profiler's printout, `pin_to_core` and
  `get_memory_gb`: I/O and system calls.
- `LearnedIndex` and `DataTable`: not under `src/`.
- `std::pow` in double: exact far beyond any array that fits in memory.

## Plan for further work

1. State what a lookup returns against an abstract static index written
   from `find`'s contract; this needs the singleton-leaf bug guarded.
2. Add a variant of the driver with `max_key_count != 0`, which uses random
   keys.
