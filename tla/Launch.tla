------------------------------- MODULE Launch -------------------------------
(***************************************************************************)
(* The start of the benchmark driver of src/src/main.cxx: parse_args reads *)
(* the options into Config, run_workload allocates operation_counts with   *)
(* thread_count_ slots, starts the inserter threads and then the reader    *)
(* threads with ids 0, 1, ..., and at the end joins thread_count_ of them. *)
(* The initial load, the profile rounds and the workers' loops are the     *)
(* subject of Workload; here a thread is only the slot it writes.          *)
(*                                                                         *)
(* Every option value is (uint64_t)atoi(optarg).  A uint64_t is held as    *)
(* the signed number with the same 64 bits: v >= 0 stands for v and v < 0  *)
(* for 2^64 + v, so atoi's negative results keep their unsigned meaning.   *)
(* Sums of such numbers keep it too, and ULess compares them as unsigned.  *)
(***************************************************************************)
EXTENDS Integers, Sequences, FiniteSets

CONSTANTS
  ArgVals,    \* the values atoi may return for an option's argument
  MaxArgs,    \* bound on the number of options on the command line
  MaxSpawn    \* bound on the iterations of the spawn loops

ASSUME LaunchAssumption ==
  /\ ArgVals \subseteq Int
  /\ MaxArgs \in Nat
  /\ MaxSpawn \in Nat

\* "x" stands for any option getopt_long does not know.
Opts == {"t", "m", "n", "r", "s", "h", "x"}
Option == [opt : Opts, val : ArgVals]

\* The Config field each option with an argument sets.
Field == [t |-> "time", m |-> "maxKey", n |-> "initKeys", r |-> "readers",
          s |-> "inserters"]

\* struct Config's initialisers (profile_duration_ is not read here).
Defaults == [time |-> 10, maxKey |-> 0, initKeys |-> 1048576,
             readers |-> 1, inserters |-> 0, threads |-> 1]

\* a < b on the unsigned values.
ULess(a, b) == IF (a < 0) = (b < 0) THEN a < b ELSE b < 0
ULeq(a, b) == a = b \/ ULess(a, b)

VARIABLES
  argv,       \* the options getopt_long has still to return
  config,     \* Config
  pc,         \* where the program is; the final values say how it ended
  tc,         \* thread_count, the counter of the spawn loops
  slots,      \* the length of operation_counts
  spawned,    \* ids of the threads started (each writes operation_counts[id])
  joined      \* ids of the threads joined

vars == <<argv, config, pc, tc, slots, spawned, joined>>

Ends == {"done", "exit", "assert", "badalloc", "outofrange", "terminate"}

Init ==
  /\ argv \in UNION {[1..n -> Option] : n \in 0..MaxArgs}
  /\ config = Defaults
  /\ pc = "parse"
  /\ tc = 0
  /\ slots = 0
  /\ spawned = {}
  /\ joined = {}

\* One round of the getopt_long loop: -h prints the usage and an unknown
\* option an error, both exit(EXIT_FAILURE); the others store atoi's value.
ParseOpt ==
  /\ pc = "parse"
  /\ argv # <<>>
  /\ IF Head(argv).opt \in {"h", "x"}
       THEN /\ pc' = "exit"
            /\ UNCHANGED <<argv, config>>
       ELSE /\ config' = [config EXCEPT ![Field[Head(argv).opt]] = Head(argv).val]
            /\ argv' = Tail(argv)
            /\ UNCHANGED pc
  /\ UNCHANGED <<tc, slots, spawned, joined>>

\* The end of parse_args: assert(init_key_count_ <= max_key_count_) when
\* max_key_count_ != 0, then thread_count_ = inserter_count_ + reader_count_.
ParseEnd ==
  /\ pc = "parse"
  /\ argv = <<>>
  /\ IF config.maxKey # 0 /\ ~ULeq(config.initKeys, config.maxKey)
       THEN /\ pc' = "assert"
            /\ UNCHANGED config
       ELSE /\ config' = [config EXCEPT !.threads = config.inserters + config.readers]
            /\ pc' = "alloc"
  /\ UNCHANGED <<argv, tc, slots, spawned, joined>>

\* operation_counts = new uint64_t[thread_count_]: a length of 2^63 or more
\* throws, and the uncaught exception ends the program.
Alloc ==
  /\ pc = "alloc"
  /\ IF config.threads < 0
       THEN /\ pc' = "badalloc"
            /\ UNCHANGED slots
       ELSE /\ slots' = config.threads
            /\ pc' = "inserters"
  /\ UNCHANGED <<argv, config, tc, spawned, joined>>

\* The two spawn loops: thread_count < inserter_count_, then
\* thread_count < inserter_count_ + reader_count_.
SpawnBoundMut(p) == IF p = "inserters" THEN config.inserters + 1
                    ELSE config.inserters + config.readers
SpawnBound(p) == IF p = "inserters" THEN config.inserters
                 ELSE config.inserters + config.readers

Spawn ==
  /\ pc \in {"inserters", "readers"}
  /\ ULess(tc, SpawnBound(pc))
  /\ tc < MaxSpawn
  /\ spawned' = spawned \cup {tc}
  /\ tc' = tc + 1
  /\ UNCHANGED <<argv, config, pc, slots, joined>>

SpawnDone ==
  /\ pc \in {"inserters", "readers"}
  /\ ~ULess(tc, SpawnBound(pc))
  /\ pc' = IF pc = "inserters" THEN "readers" ELSE "join"
  /\ UNCHANGED <<argv, config, tc, slots, spawned, joined>>

\* for (i = 0; i < thread_count_; ++i) worker_threads.at(i).join(): at()
\* throws when fewer threads were started.  When run_workload returns, a
\* std::thread never joined calls std::terminate in its destructor.
JoinsLeftMut(i) == ULeq(i, config.threads)
JoinsLeft(i) == ULess(i, config.threads)

Join ==
  /\ pc = "join"
  /\ LET i == Cardinality(joined) IN
       IF JoinsLeft(i)
         THEN IF i \in spawned
                THEN /\ joined' = joined \cup {i}
                     /\ UNCHANGED pc
                ELSE /\ pc' = "outofrange"
                     /\ UNCHANGED joined
         ELSE /\ pc' = IF joined = spawned THEN "done" ELSE "terminate"
              /\ UNCHANGED joined
  /\ UNCHANGED <<argv, config, tc, slots, spawned>>

Next == ParseOpt \/ ParseEnd \/ Alloc \/ Spawn \/ SpawnDone \/ Join

Spec == Init /\ [][Next]_vars

-----------------------------------------------------------------------------
\* Every thread started writes operation_counts[thread_id] inside the array
\* of thread_count_ slots run_workload allocated.
CountsIndexInBounds == \A id \in spawned : ULess(id, slots)

\* run_workload joins exactly the threads it started: the join loop neither
\* asks worker_threads for a thread that does not exist nor leaves one
\* joinable.
JoinsEveryThread == pc \notin {"outofrange", "terminate"}

\* Whatever the command line, a thread writes outside operation_counts or
\* the join loop goes wrong only if -r or -s was given a negative value,
\* which (uint64_t)atoi wraps; negative -t, -m or -n values do no harm here.
CountsSafeUnlessNegative ==
  config.inserters >= 0 /\ config.readers >= 0 =>
    CountsIndexInBounds /\ JoinsEveryThread

=============================================================================
