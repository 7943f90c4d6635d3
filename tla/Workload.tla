------------------------------ MODULE Workload ------------------------------
(***************************************************************************)
(* The benchmark driver of src/src/main.cxx: main inserts init_key_count   *)
(* keys, reorganizes the index, starts the inserter and reader threads,    *)
(* samples their operation counters once per profile round, clears         *)
(* is_running and joins them.  Keys come from one BatchKeys object per     *)
(* thread, which reserves batches of batch_key_count_ keys from the shared *)
(* atomic global_curr_key.                                                 *)
(*                                                                         *)
(* The index main drives (LearnedIndex) and the data table are not under   *)
(* src/; their insert is modelled from the spec as appending the key to    *)
(* the sequence of inserted keys, and a lookup changes nothing.            *)
(***************************************************************************)
EXTENDS Integers, Sequences, FiniteSets

CONSTANTS
  Inserters,   \* thread ids of the inserter threads
  Readers,     \* thread ids of the reader threads
  Main,        \* the id of main's own BatchKeys(0) during the initial load
  InitKeys,    \* config.init_key_count_
  MaxKey,      \* global_max_key = config.max_key_count_ (0: sequential keys)
  Batch,       \* batch_key_count_ (1 << 10 in the code)
  Rounds,      \* profile_round = time_duration_ / profile_duration_
  MaxOps,      \* bound on the loop iterations of one worker thread
  Garbage      \* content of operation_counts[t] before thread t zeroes it

Threads == Inserters \cup Readers

ASSUME ThreadsAssumption ==
  /\ IsFiniteSet(Threads)
  /\ Inserters \cap Readers = {}
  /\ Main \notin Threads
ASSUME NumbersAssumption ==
  /\ InitKeys \in Nat /\ MaxKey \in Nat /\ Batch \in Nat \ {0}
  /\ Rounds \in Nat /\ MaxOps \in Nat
ASSUME GarbageAssumption == Garbage \notin Nat
\* parse_args: assert(init_key_count_ <= max_key_count_) when max_key != 0.
ASSUME InitKeysAssumption == MaxKey # 0 => InitKeys <= MaxKey

VARIABLES
  gck,        \* global_curr_key
  bk,         \* the BatchKeys of each thread: local_curr_key_, local_max_key_
  inserted,   \* the keys handed to data_index->insert, in order
  initDone,   \* iterations of main's initial insert loop completed
  mainPc,     \* where main is in run_workload
  pc,         \* where each worker thread is
  isRunning,  \* is_running
  counts,     \* operation_counts[t]
  snaps,      \* operation_counts_profiles: one snapshot per profile round
  divZero     \* get_random_key computed rand % 0

vars == <<gck, bk, inserted, initDone, mainPc, pc, isRunning, counts, snaps,
          divZero>>

BatchState == [curr : Nat, max : Nat]
MainPcs == {"load", "spawn", "profile", "stop", "join", "done"}

TypeOK ==
  /\ gck \in Nat
  /\ bk \in [Threads \cup {Main} -> BatchState]
  /\ inserted \in Seq(Nat)
  /\ initDone \in 0..InitKeys
  /\ mainPc \in MainPcs
  /\ pc \in [Threads -> {"idle", "started", "loop", "body", "done"}]
  /\ isRunning \in BOOLEAN
  /\ counts \in [Threads -> Nat \cup {Garbage}]
  /\ snaps \in Seq([Threads -> Nat \cup {Garbage}])
  /\ divZero \in BOOLEAN

-----------------------------------------------------------------------------
(***************************************************************************)
(* BatchKeys::get_insert_key with global_max_key = 0: when the current     *)
(* batch is used up, reserve the next one with fetch_add; return and       *)
(* advance local_curr_key_.  The fetch_add is one atomic step.             *)
(***************************************************************************)
NeedsBatch(b) == b.curr = b.max

NextBatchKeyMut(b, g) ==
  LET nb == IF NeedsBatch(b) THEN [curr |-> g, max |-> g + Batch + 1] ELSE b
      ng == IF NeedsBatch(b) THEN g + Batch ELSE g
  IN  [key |-> nb.curr, bk |-> [nb EXCEPT !.curr = @ + 1], gck |-> ng]
NextBatchKey(b, g) ==
  LET nb == IF NeedsBatch(b) THEN [curr |-> g, max |-> g + Batch] ELSE b
      ng == IF NeedsBatch(b) THEN g + Batch ELSE g
  IN  [key |-> nb.curr, bk |-> [nb EXCEPT !.curr = @ + 1], gck |-> ng]

\* The keys get_insert_key may return for BatchKeys b: the next key of the
\* batch, or with global_max_key != 0 any residue of rand_gen_.next().
InsertKeys(b) ==
  IF MaxKey = 0 THEN {NextBatchKey(b, gck).key} ELSE 0..MaxKey-1

\* What one call of get_insert_key by thread t does to its BatchKeys and to
\* the shared global_curr_key.
GetInsertKey(t) ==
  IF MaxKey = 0
    THEN /\ bk' = [bk EXCEPT ![t] = NextBatchKey(bk[t], gck).bk]
         /\ gck' = NextBatchKey(bk[t], gck).gck
    ELSE UNCHANGED <<bk, gck>>

\* get_random_key: rand_gen_.next() % global_curr_key when
\* global_max_key = 0; the divisor is read once from the atomic.
RandomKeyDivisorMut == IF MaxKey = 0 THEN MaxKey ELSE gck
RandomKeyDivisor == IF MaxKey = 0 THEN gck ELSE MaxKey

-----------------------------------------------------------------------------
(***************************************************************************)
(* main: global_curr_key = 0, then run_workload.  operation_counts is      *)
(* allocated with new uint64_t[] and is not zeroed.                        *)
(***************************************************************************)
Init ==
  /\ gck = 0
  /\ bk = [t \in Threads \cup {Main} |-> [curr |-> 0, max |-> 0]]
  /\ inserted = <<>>
  /\ initDone = 0
  /\ mainPc = "load"
  /\ pc = [t \in Threads |-> "idle"]
  /\ isRunning = FALSE
  /\ counts = [t \in Threads |-> Garbage]
  /\ snaps = <<>>
  /\ divZero = FALSE

\* One iteration of the initial load loop of run_workload.
LoadKeyOverMut == InitKeys + 1
LoadKeys == InitKeys

Load ==
  /\ mainPc = "load"
  /\ initDone < LoadKeys
  /\ \E key \in InsertKeys(bk[Main]) :
       /\ GetInsertKey(Main)
       /\ inserted' = Append(inserted, key)
  /\ initDone' = initDone + 1
  /\ UNCHANGED <<mainPc, pc, isRunning, counts, snaps, divZero>>

\* The loop ends and data_index->reorganize() runs; the model of the
\* driver does not follow the index's internal state.
LoadDone ==
  /\ mainPc = "load"
  /\ initDone >= LoadKeys
  /\ mainPc' = "spawn"
  /\ UNCHANGED <<gck, bk, inserted, initDone, pc, isRunning, counts, snaps,
                 divZero>>

\* is_running = true, then one std::thread per inserter and reader.  A
\* spawned thread starts running whenever the scheduler lets it.
Spawn ==
  /\ mainPc = "spawn"
  /\ isRunning' = TRUE
  /\ pc' = [t \in Threads |-> "started"]
  /\ mainPc' = IF Rounds > 0 THEN "profile" ELSE "stop"
  /\ UNCHANGED <<gck, bk, inserted, initDone, counts, snaps, divZero>>

\* One profile round: sleep, then memcpy operation_counts into the
\* round's snapshot (the per-round sums and the printout only read it).
Profile ==
  /\ mainPc = "profile"
  /\ snaps' = Append(snaps, counts)
  /\ mainPc' = IF Len(snaps) + 1 < Rounds THEN "profile" ELSE "stop"
  /\ UNCHANGED <<gck, bk, inserted, initDone, pc, isRunning, counts, divZero>>

\* is_running = false.
StopMut ==
  /\ mainPc = "stop"
  /\ isRunning' = isRunning
  /\ mainPc' = "join"
  /\ UNCHANGED <<gck, bk, inserted, initDone, pc, counts, snaps, divZero>>
Stop ==
  /\ mainPc = "stop"
  /\ isRunning' = FALSE
  /\ mainPc' = "join"
  /\ UNCHANGED <<gck, bk, inserted, initDone, pc, counts, snaps, divZero>>

\* join every worker, sum operation_counts and free the arrays.
JoinMut ==
  /\ mainPc = "join"
  /\ mainPc' = "done"
  /\ UNCHANGED <<gck, bk, inserted, initDone, pc, isRunning, counts, snaps,
                 divZero>>
Join ==
  /\ mainPc = "join"
  /\ \A t \in Threads : pc[t] = "done"
  /\ mainPc' = "done"
  /\ UNCHANGED <<gck, bk, inserted, initDone, pc, isRunning, counts, snaps,
                 divZero>>

-----------------------------------------------------------------------------
(***************************************************************************)
(* The worker threads.                                                     *)
(***************************************************************************)

\* run_inserter_thread / run_reader_thread up to the loop: construct the
\* thread's BatchKeys and set operation_count = 0.
ThreadStart(t) ==
  /\ pc[t] = "started"
  /\ pc' = [pc EXCEPT ![t] = "loop"]
  /\ counts' = [counts EXCEPT ![t] = 0]
  /\ UNCHANGED <<gck, bk, inserted, initDone, mainPc, isRunning, snaps,
                 divZero>>

\* The loop test with is_running == true: the thread enters the body of
\* the iteration.  is_running is a plain bool, read once here; main may
\* clear it before the body runs.
LoopTest(t) ==
  /\ pc[t] = "loop"
  /\ isRunning
  /\ counts[t] < MaxOps
  /\ pc' = [pc EXCEPT ![t] = "body"]
  /\ UNCHANGED <<gck, bk, inserted, initDone, mainPc, isRunning, counts,
                 snaps, divZero>>

\* The loop test with is_running == false: break ends the thread.
ThreadExit(t) ==
  /\ pc[t] = "loop"
  /\ ~isRunning
  /\ pc' = [pc EXCEPT ![t] = "done"]
  /\ UNCHANGED <<gck, bk, inserted, initDone, mainPc, isRunning, counts,
                 snaps, divZero>>

\* The body of an iteration of run_inserter_thread: get_insert_key,
\* insert_tuple and data_index->insert, ++operation_count, back to the test.
InserterStep(t) ==
  /\ pc[t] = "body"
  /\ \E key \in InsertKeys(bk[t]) :
       /\ GetInsertKey(t)
       /\ inserted' = Append(inserted, key)
  /\ counts' = [counts EXCEPT ![t] = @ + 1]
  /\ pc' = [pc EXCEPT ![t] = "loop"]
  /\ UNCHANGED <<initDone, mainPc, isRunning, snaps, divZero>>

\* The body of an iteration of run_reader_thread: get_random_key,
\* data_index->find, ++operation_count, back to the test.  A divisor of 0
\* is a division by zero (SIGFPE).
ReaderStep(t) ==
  /\ pc[t] = "body"
  /\ divZero' = (divZero \/ RandomKeyDivisor = 0)
  /\ counts' = [counts EXCEPT ![t] = @ + 1]
  /\ pc' = [pc EXCEPT ![t] = "loop"]
  /\ UNCHANGED <<gck, bk, inserted, initDone, mainPc, isRunning, snaps>>

Next ==
  \/ Load \/ LoadDone \/ Spawn \/ Profile \/ Stop \/ Join
  \/ \E t \in Threads : ThreadStart(t) \/ LoopTest(t) \/ ThreadExit(t)
  \/ \E t \in Inserters : InserterStep(t)
  \/ \E t \in Readers : ReaderStep(t)

\* Every thread, main included, keeps being scheduled: a worker starts,
\* finishes the body of an iteration it entered, and leaves its loop once
\* it reads is_running == false.
Fairness ==
  /\ WF_vars(Load \/ LoadDone \/ Spawn \/ Profile \/ Stop \/ Join)
  /\ \A t \in Threads : WF_vars(ThreadStart(t) \/ ThreadExit(t))
  /\ \A t \in Inserters : WF_vars(InserterStep(t))
  /\ \A t \in Readers : WF_vars(ReaderStep(t))

Spec == Init /\ [][Next]_vars /\ Fairness

-----------------------------------------------------------------------------
(***************************************************************************)
(* Properties.                                                             *)
(***************************************************************************)

\* With global_max_key = 0 every key inserted, by main's initial load or
\* by any inserter thread, is distinct: the batches fetch_add reserves on
\* global_curr_key never overlap and each BatchKeys walks only its own.
InsertKeysUnique ==
  MaxKey = 0 =>
    \A i, j \in 1..Len(inserted) : i # j => inserted[i] # inserted[j]

\* get_random_key never takes a residue modulo 0.
RandomKeyDefined == ~divZero

\* Every counter main copies into a profile snapshot was zeroed by its
\* thread: operation_counts comes from new uint64_t[] uninitialised.
ProfileReadsInitialisedCounts ==
  \A r \in 1..Len(snaps) : \A t \in Threads : snaps[r][t] # Garbage

\* run_workload returns: once main clears is_running every worker leaves
\* its loop, so the joins complete.
WorkloadTerminates == <>(mainPc = "done")


-----------------------------------------------------------------------------
(***************************************************************************)
(* Refinement.  The stage of the run is read off main's position: the     *)
(* load and the spawn are loading, the profile rounds and the store of     *)
(* is_running = false are the run, the joins are the shutdown.  The busy   *)
(* workers are the threads spawned and not yet out of their loop; after    *)
(* the store of false, the pending ones are the inserters that passed the  *)
(* loop test before it and have not yet inserted.                          *)
(***************************************************************************)
Stage ==
  CASE mainPc \in {"load", "spawn"}   -> "load"
    [] mainPc \in {"profile", "stop"} -> "run"
    [] mainPc = "join"                -> "stop"
    [] mainPc = "done"                -> "done"

Busy == {t \in Threads : pc[t] \in {"started", "loop", "body"}}

Pending ==
  IF mainPc \in {"join", "done"} THEN {t \in Inserters : pc[t] = "body"} ELSE {}

Driver == INSTANCE BenchmarkDriver
            WITH Workers <- Threads,
                 KeySpace <- IF MaxKey = 0 THEN Nat ELSE 0..MaxKey-1,
                 Unique <- (MaxKey = 0),
                 keys <- inserted, stage <- Stage, busy <- Busy,
                 pending <- Pending

\* The driver implements the benchmark-run contract: keys go in only during
\* the load, from a worker in its loop before main clears is_running, or
\* at most once more per inserter that passed its loop test before the
\* store of false; sequential keys are never reused; no worker leaves its
\* loop before the shutdown; main finishes its joins only after every
\* worker has left.
ImplementsBenchmarkDriver == Driver!Spec

=============================================================================
