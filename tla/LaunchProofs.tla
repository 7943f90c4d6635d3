---------------------------- MODULE LaunchProofs ----------------------------
(***************************************************************************)
(* Proofs about the Launch specification: when every count atoi returns  *)
(* is non-negative, each thread run_workload starts writes inside          *)
(* operation_counts, and the join loop joins exactly the threads started. *)
(* With a negative count both fail (run viol_negative_count), so the      *)
(* theorems carry that hypothesis: ArgVals \subseteq Nat, which covers    *)
(* every non-negative int atoi returns (0..2^31-1) and more.               *)
(***************************************************************************)
EXTENDS Launch, FiniteSetTheorems, SequenceTheorems, TLAPS

\* The fields of struct Config this model reads or writes.
ConfigFields == {"time", "maxKey", "initKeys", "readers", "inserters", "threads"}

\* The states before run_workload allocated operation_counts, and after.
BeforeAlloc == {"parse", "alloc", "exit", "assert", "badalloc"}
AfterAlloc  == {"inserters", "readers", "join", "done", "outofrange", "terminate"}

\* Neither thread count typed on the command line was negative.
CountsNonNeg == config.inserters >= 0 /\ config.readers >= 0

(***************************************************************************)
(* The inductive invariant.  The spawn loops start the ids 0..tc-1 in     *)
(* order, and thread_count_ is the sum of the two counts once parse_args  *)
(* returned.  When neither count is negative, operation_counts has        *)
(* thread_count_ slots once allocated, the loops never run past it, the  *)
(* join loop is entered only once both loops ran to their bounds, and it  *)
(* joins 0..j-1 in order.  During parsing a count may still change sign,  *)
(* but nothing is started or joined yet.                                  *)
(***************************************************************************)
Bounded ==
  /\ pc \in AfterAlloc => slots = config.threads /\ tc <= config.threads
  /\ pc = "inserters" => tc <= config.inserters
  /\ pc \in AfterAlloc \ {"inserters", "readers"} => tc = config.threads
  /\ \E j \in 0..tc : joined = 0..j-1
  /\ pc \notin {"outofrange", "terminate"}

IInv ==
  /\ argv \in Seq(Option)
  /\ config \in [ConfigFields -> Int]
  /\ pc \in BeforeAlloc \cup AfterAlloc
  /\ tc \in Nat
  /\ slots \in Nat
  /\ spawned = 0..tc-1
  /\ pc \notin {"parse", "exit", "assert"} =>
       config.threads = config.inserters + config.readers
  /\ pc \in BeforeAlloc => tc = 0 /\ joined = {}
  /\ CountsNonNeg => Bounded

-----------------------------------------------------------------------------
\* On counts below 2^63 the unsigned comparison is the ordinary one.
LEMMA ULessNat ==
  ASSUME NEW a \in Nat, NEW b \in Nat
  PROVE  ULess(a, b) <=> a < b
  BY DEF ULess

(***************************************************************************)
(* The representation of uint64_t: a signed number v in -2^63..2^63-1     *)
(* stands for the unsigned value Unsigned(v), and ULess is < on those     *)
(* values.                                                                 *)
(***************************************************************************)
TwoTo63 == 9223372036854775808
TwoTo64 == 18446744073709551616
Repr == {v \in Int : -TwoTo63 <= v /\ v < TwoTo63}
Unsigned(v) == IF v < 0 THEN TwoTo64 + v ELSE v

\* ULess compares two uint64_t values of the code as unsigned numbers.
LEMMA ULessIsUnsignedLess ==
  ASSUME NEW a \in Repr, NEW b \in Repr
  PROVE  ULess(a, b) <=> Unsigned(a) < Unsigned(b)
  BY SMT DEF ULess, Unsigned, Repr, TwoTo63, TwoTo64

\* The values of int atoi returns, and the sum of two of them computed the
\* way parse_args computes thread_count_: in uint64_t, modulo 2^64.  The
\* model adds the representatives, which gives the same uint64_t.
TwoTo31 == 2147483648
AtoiRange == {v \in Int : -TwoTo31 <= v /\ v < TwoTo31}

\* Adding two atoi results as the model does is the uint64_t addition.
LEMMA SumIsUnsignedSum ==
  ASSUME NEW a \in AtoiRange, NEW b \in AtoiRange
  PROVE  /\ a + b \in Repr
         /\ Unsigned(a + b) = (Unsigned(a) + Unsigned(b)) % TwoTo64
<1> DEFINE T == TwoTo64
<1>1. a + b \in Repr /\ a \in Repr /\ b \in Repr
  BY SMT DEF AtoiRange, Repr, TwoTo31, TwoTo63
<1>2. \A x \in Int : 0 <= x /\ x < T => /\ x % T = x
                       /\ (T + x) % T = x
                       /\ (2 * T + x) % T = x
  BY SMT DEF TwoTo64
<1>3. Unsigned(a + b) \in Int /\ 0 <= Unsigned(a + b) /\ Unsigned(a + b) < T
  BY <1>1, SMT DEF Unsigned, Repr, TwoTo63, TwoTo64
<1>4. \/ Unsigned(a) + Unsigned(b) = Unsigned(a + b)
      \/ Unsigned(a) + Unsigned(b) = T + Unsigned(a + b)
      \/ Unsigned(a) + Unsigned(b) = 2 * T + Unsigned(a + b)
  BY SMT DEF Unsigned, AtoiRange, TwoTo31, TwoTo64
<1>. QED
  BY <1>1, <1>2, <1>3, <1>4

\* The ids 0..n-1 of n threads are n of them.
LEMMA IdsCard ==
  ASSUME NEW n \in Nat
  PROVE  IsFiniteSet(0..n-1) /\ Cardinality(0..n-1) = n
<1>1. n - 1 \in Int
  OBVIOUS
<1>2. IsFiniteSet(0..n-1) /\ Cardinality(0..n-1) = IF 0 > n-1 THEN 0 ELSE (n-1)-0+1
  BY <1>1, FS_Interval
<1>. QED
  BY <1>2

\* The command lines Init enumerates are sequences of options.
LEMMA ArgvIsSeq ==
  ASSUME NEW n \in Nat, NEW a \in [1..n -> Option]
  PROVE  a \in Seq(Option)
<1>1. a = [i \in 1..n |-> a[i]]
  OBVIOUS
<1>2. \A i \in 1..n : a[i] \in Option
  OBVIOUS
<1>. QED
  BY <1>1, <1>2, IsASeq

\* Before run_workload allocated operation_counts nothing was started or
\* joined, whatever the counts.
LEMMA BoundedBeforeAlloc ==
  ASSUME pc \in BeforeAlloc, tc = 0, joined = {}
  PROVE  Bounded
<1>1. \E j \in 0..tc : joined = 0..j-1
  <2>1. 0 \in 0..tc /\ joined = 0..0-1
    OBVIOUS
  <2>. QED
    BY <2>1
<1>. QED
  BY <1>1 DEF Bounded, BeforeAlloc, AfterAlloc

\* The same for the state after a step that ends before the allocation.
LEMMA BoundedBeforeAllocNext ==
  ASSUME pc' \in BeforeAlloc, tc' = 0, joined' = {}
  PROVE  Bounded'
<1>1. \E j \in 0..tc' : joined' = 0..j-1
  <2>1. 0 \in 0..tc' /\ joined' = 0..0-1
    OBVIOUS
  <2>. QED
    BY <2>1
<1>. QED
  BY <1>1 DEF Bounded, BeforeAlloc, AfterAlloc

\* main's Config and the command lines getopt_long may return satisfy IInv.
LEMMA InitIInv ==
  Init => IInv
<1> SUFFICES ASSUME Init PROVE IInv
  OBVIOUS
<1>1. argv \in Seq(Option)
  <2>1. PICK n \in 0..MaxArgs : argv \in [1..n -> Option]
    BY DEF Init
  <2>. QED
    BY <2>1, ArgvIsSeq, LaunchAssumption
<1>2. config = Defaults /\ pc = "parse" /\ tc = 0 /\ slots = 0
      /\ spawned = {} /\ joined = {}
  BY DEF Init
<1>3. config \in [ConfigFields -> Int]
  BY <1>2 DEF Defaults, ConfigFields
<1>4. Bounded
  BY <1>2, BoundedBeforeAlloc DEF BeforeAlloc
<1>. QED
  BY <1>1, <1>2, <1>3, <1>4 DEF IInv, BeforeAlloc, AfterAlloc

\* Every step of parse_args and run_workload keeps IInv: one case per action.
LEMMA StepIInv ==
  IInv /\ [Next]_vars => IInv'
<1> SUFFICES ASSUME IInv, [Next]_vars PROVE IInv'
  OBVIOUS
<1>0. /\ config \in [ConfigFields -> Int]
      /\ tc \in Nat /\ slots \in Nat
      /\ spawned = 0..tc-1
  BY DEF IInv
<1>1. CASE ParseOpt
  <2>1. /\ argv \in Seq(Option) /\ argv # <<>>
        /\ pc = "parse" /\ tc = 0 /\ joined = {}
    BY <1>1 DEF ParseOpt, IInv, BeforeAlloc
  <2>2. Head(argv) \in Option /\ Tail(argv) \in Seq(Option)
    BY <2>1, HeadTailProperties
  <2>3. CASE Head(argv).opt \in {"h", "x"}
    <3>1. pc' = "exit" /\ UNCHANGED <<argv, config, tc, slots, spawned, joined>>
      BY <1>1, <2>3 DEF ParseOpt
    <3>2. Bounded'
      BY <2>1, <3>1, BoundedBeforeAllocNext DEF BeforeAlloc
    <3>. QED
      BY <1>0, <2>1, <3>1, <3>2 DEF IInv, BeforeAlloc, AfterAlloc
  <2>4. CASE Head(argv).opt \notin {"h", "x"}
    <3>1. /\ config' = [config EXCEPT ![Field[Head(argv).opt]] = Head(argv).val]
          /\ argv' = Tail(argv) /\ pc' = "parse"
          /\ UNCHANGED <<tc, slots, spawned, joined>>
      BY <1>1, <2>1, <2>4 DEF ParseOpt
    <3>2. Field[Head(argv).opt] \in ConfigFields
      BY <2>2, <2>4 DEF Option, Opts, Field, ConfigFields
    <3>3. Head(argv).val \in Int
      BY <2>2, LaunchAssumption DEF Option
    <3>4. config' \in [ConfigFields -> Int]
      BY <1>0, <3>1, <3>2, <3>3
    <3>5. Bounded'
      BY <2>1, <3>1, BoundedBeforeAllocNext DEF BeforeAlloc
    <3>. QED
      BY <1>0, <2>1, <2>2, <3>1, <3>4, <3>5 DEF IInv, BeforeAlloc, AfterAlloc
  <2>. QED
    BY <2>3, <2>4
<1>2. CASE ParseEnd
  <2>1. pc = "parse" /\ tc = 0 /\ joined = {}
        /\ UNCHANGED <<argv, tc, slots, spawned, joined>>
    BY <1>2 DEF ParseEnd, IInv, BeforeAlloc
  <2>2. CASE config.maxKey # 0 /\ ~ULeq(config.initKeys, config.maxKey)
    <3>1. pc' = "assert" /\ UNCHANGED config
      BY <1>2, <2>2 DEF ParseEnd
    <3>2. Bounded'
      BY <2>1, <3>1, BoundedBeforeAllocNext DEF BeforeAlloc
    <3>. QED
      BY <1>0, <2>1, <3>1, <3>2 DEF IInv, BeforeAlloc, AfterAlloc
  <2>3. CASE ~(config.maxKey # 0 /\ ~ULeq(config.initKeys, config.maxKey))
    <3>1. /\ config' = [config EXCEPT !.threads = config.inserters + config.readers]
          /\ pc' = "alloc"
      BY <1>2, <2>3 DEF ParseEnd
    <3>2. config' \in [ConfigFields -> Int]
          /\ config'.threads = config'.inserters + config'.readers
      BY <1>0, <3>1 DEF ConfigFields
    <3>3. Bounded'
      BY <2>1, <3>1, BoundedBeforeAllocNext DEF BeforeAlloc
    <3>. QED
      BY <1>0, <2>1, <3>1, <3>2, <3>3 DEF IInv, BeforeAlloc, AfterAlloc
  <2>. QED
    BY <2>2, <2>3
<1>3. CASE Alloc
  <2>1. pc = "alloc" /\ tc = 0 /\ joined = {}
        /\ config.threads = config.inserters + config.readers
    BY <1>3 DEF Alloc, IInv, BeforeAlloc
  <2>2. CASE config.threads < 0
    <3>1. pc' = "badalloc" /\ UNCHANGED <<argv, config, tc, slots, spawned, joined>>
      BY <1>3, <2>2 DEF Alloc
    <3>2. Bounded'
      BY <2>1, <3>1, BoundedBeforeAllocNext DEF BeforeAlloc
    <3>. QED
      BY <1>0, <2>1, <3>1, <3>2 DEF IInv, BeforeAlloc, AfterAlloc
  <2>3. CASE ~(config.threads < 0)
    <3>1. slots' = config.threads /\ pc' = "inserters"
          /\ UNCHANGED <<argv, config, tc, spawned, joined>>
      BY <1>3, <2>3 DEF Alloc
    <3>2. slots' \in Nat
      BY <1>0, <2>3, <3>1 DEF ConfigFields
    <3>3. CountsNonNeg' => Bounded'
      <4>1. \E j \in 0..tc' : joined' = 0..j-1
        <5>1. 0 \in 0..tc' /\ joined' = 0..0-1
          BY <2>1, <3>1
        <5>. QED
          BY <5>1
      <4>. QED
        BY <1>0, <2>1, <3>1, <4>1 DEF Bounded, AfterAlloc, CountsNonNeg, ConfigFields
    <3>. QED
      BY <1>0, <2>1, <3>1, <3>2, <3>3 DEF IInv, BeforeAlloc, AfterAlloc
  <2>. QED
    BY <2>2, <2>3
<1>4. CASE Spawn
  <2>1. pc \in {"inserters", "readers"}
    BY <1>4 DEF Spawn
  <2>2. /\ spawned' = 0..tc /\ tc' = tc + 1
        /\ UNCHANGED <<argv, config, pc, slots, joined>>
    BY <1>0, <1>4 DEF Spawn
  <2>3. config.threads = config.inserters + config.readers
    BY <2>1 DEF IInv
  <2>4. CountsNonNeg' => Bounded'
    <3> SUFFICES ASSUME CountsNonNeg PROVE Bounded'
      BY <2>2 DEF CountsNonNeg
    <3>1. config.inserters \in Nat /\ config.readers \in Nat
      BY <1>0 DEF CountsNonNeg, ConfigFields
    <3>2. SpawnBound(pc) \in Nat
      BY <2>1, <3>1 DEF SpawnBound
    <3>3. tc < SpawnBound(pc)
      BY <1>0, <1>4, <3>2, ULessNat DEF Spawn
    <3>4. slots = config.threads /\ (pc = "inserters" => tc <= config.inserters)
      BY <2>1 DEF IInv, Bounded, AfterAlloc
    <3>5. tc + 1 <= config.threads /\ (pc = "inserters" => tc + 1 <= config.inserters)
      BY <1>0, <2>1, <2>3, <3>1, <3>3 DEF SpawnBound
    <3>6. \E j \in 0..tc' : joined' = 0..j-1
      BY <1>0, <2>2 DEF IInv, Bounded
    <3>. QED
      BY <2>1, <2>2, <3>4, <3>5, <3>6 DEF Bounded, AfterAlloc
  <2>. QED
    BY <1>0, <2>1, <2>2, <2>3, <2>4 DEF IInv, BeforeAlloc, AfterAlloc
<1>5. CASE SpawnDone
  <2>1. pc \in {"inserters", "readers"}
    BY <1>5 DEF SpawnDone
  <2>2. /\ pc' = IF pc = "inserters" THEN "readers" ELSE "join"
        /\ UNCHANGED <<argv, config, tc, slots, spawned, joined>>
    BY <1>5 DEF SpawnDone
  <2>3. config.threads = config.inserters + config.readers
    BY <2>1 DEF IInv
  <2>4. CountsNonNeg' => Bounded'
    <3> SUFFICES ASSUME CountsNonNeg PROVE Bounded'
      BY <2>2 DEF CountsNonNeg
    <3>1. config.inserters \in Nat /\ config.readers \in Nat
      BY <1>0 DEF CountsNonNeg, ConfigFields
    <3>2. SpawnBound(pc) \in Nat
      BY <2>1, <3>1 DEF SpawnBound
    <3>3. tc >= SpawnBound(pc)
      BY <1>0, <1>5, <3>2, ULessNat DEF SpawnDone
    <3>4. slots = config.threads /\ tc <= config.threads
          /\ \E j \in 0..tc : joined = 0..j-1
      BY <2>1 DEF IInv, Bounded, AfterAlloc
    <3>5. pc = "readers" => tc = config.threads
      BY <1>0, <2>3, <3>1, <3>3, <3>4 DEF SpawnBound
    <3>. QED
      BY <2>1, <2>2, <3>4, <3>5 DEF Bounded, AfterAlloc
  <2>. QED
    BY <1>0, <2>1, <2>2, <2>3, <2>4 DEF IInv, BeforeAlloc, AfterAlloc
<1>6. CASE Join
  <2>1. pc = "join"
    BY <1>6 DEF Join
  <2>2. UNCHANGED <<argv, config, tc, slots, spawned>>
    BY <1>6 DEF Join
  <2>3. pc' \in AfterAlloc
    BY <1>6 DEF Join, AfterAlloc
  <2>4. config.threads = config.inserters + config.readers
    BY <2>1 DEF IInv
  <2>5. CountsNonNeg' => Bounded'
    <3> SUFFICES ASSUME CountsNonNeg PROVE Bounded'
      BY <2>2 DEF CountsNonNeg
    <3>1. tc = config.threads /\ slots = config.threads /\ config.threads \in Nat
      BY <1>0, <2>1, <2>4 DEF IInv, Bounded, AfterAlloc, CountsNonNeg, ConfigFields
    <3>2. PICK j \in 0..tc : joined = 0..j-1
      BY DEF IInv, Bounded
    <3>3. Cardinality(joined) = j
      BY <1>0, <3>2, IdsCard
    <3>4. CASE j < config.threads
      <4>1. JoinsLeft(Cardinality(joined)) /\ j \in spawned
        BY <1>0, <3>1, <3>3, <3>4, ULessNat DEF JoinsLeft
      <4>2. joined' = joined \cup {j} /\ pc' = "join"
        BY <1>6, <2>1, <3>3, <4>1 DEF Join
      <4>3. joined' = 0..j
        BY <1>0, <3>2, <4>2
      <4>4. \E k \in 0..tc' : joined' = 0..k-1
        BY <1>0, <2>2, <3>1, <3>4, <4>3
      <4>. QED
        BY <2>2, <3>1, <4>2, <4>4 DEF Bounded, AfterAlloc
    <3>5. CASE ~(j < config.threads)
      <4>1. ~JoinsLeft(Cardinality(joined)) /\ joined = spawned
        BY <1>0, <3>1, <3>2, <3>3, <3>5, ULessNat DEF JoinsLeft
      <4>2. pc' = "done" /\ joined' = joined
        BY <1>6, <2>1, <4>1 DEF Join
      <4>. QED
        BY <2>2, <3>1, <3>2, <4>2 DEF Bounded, AfterAlloc
    <3>. QED
      BY <1>0, <3>2, <3>4, <3>5
  <2>. QED
    BY <1>0, <2>1, <2>2, <2>3, <2>4, <2>5 DEF IInv, BeforeAlloc, AfterAlloc
<1>7. CASE UNCHANGED vars
  BY <1>7 DEF vars, IInv, Bounded, CountsNonNeg, BeforeAlloc, AfterAlloc
<1>. QED
  BY <1>1, <1>2, <1>3, <1>4, <1>5, <1>6, <1>7 DEF Next

\* Each of the ids 0..tc-1 the spawn loops started is below thread_count_,
\* the length of operation_counts, when neither count was negative.
LEMMA IInvCounts ==
  IInv /\ CountsNonNeg => CountsIndexInBounds
<1> SUFFICES ASSUME IInv, CountsNonNeg, NEW id \in spawned PROVE ULess(id, slots)
  BY DEF CountsIndexInBounds
<1>1. tc \in Nat /\ slots \in Nat /\ id \in 0..tc-1
  BY DEF IInv
<1>2. pc \in AfterAlloc
  BY <1>1 DEF IInv, BeforeAlloc
<1>3. tc <= slots
  BY <1>2 DEF IInv, Bounded
<1>. QED
  BY <1>1, <1>3, ULessNat

(***************************************************************************)
(* For every command line: a thread run_workload starts can write outside *)
(* operation_counts, or the join loop can call at() on a thread never     *)
(* started or leave one joinable, only if -r or -s was given a negative   *)
(* value, which (uint64_t)atoi wraps to a count near 2^64.  Negative -t, *)
(* -m or -n values do no harm here.                                       *)
(***************************************************************************)
THEOREM NegativeCountIsOnlyCause ==
  Spec => []CountsSafeUnlessNegative
<1>1. IInv => CountsSafeUnlessNegative
  BY IInvCounts DEF IInv, Bounded, JoinsEveryThread, CountsSafeUnlessNegative,
                    CountsNonNeg
<1>. QED
  BY <1>1, InitIInv, StepIInv, PTL DEF Spec

\* With non-negative option values the counts stay non-negative.
NatCounts == config.inserters \in Nat /\ config.readers \in Nat

\* parse_args stores only atoi results in the counts, so with non-negative
\* option values both counts stay natural numbers.
LEMMA NatCountsInvariant ==
  ASSUME ArgVals \subseteq Nat
  PROVE  /\ Init => NatCounts
         /\ IInv /\ NatCounts /\ [Next]_vars => NatCounts'
<1>1. Init => NatCounts
  BY DEF Init, Defaults, NatCounts
<1>2. ASSUME IInv, NatCounts, [Next]_vars PROVE NatCounts'
  <2>1. CASE ParseOpt /\ Head(argv).opt \notin {"h", "x"}
    <3>1. argv \in Seq(Option) /\ argv # <<>>
      BY <1>2, <2>1 DEF ParseOpt, IInv
    <3>2. Head(argv) \in Option
      BY <3>1, HeadTailProperties
    <3>3. Head(argv).val \in Nat
      BY <3>2 DEF Option
    <3>4. config' = [config EXCEPT ![Field[Head(argv).opt]] = Head(argv).val]
      BY <2>1 DEF ParseOpt
    <3>5. Field[Head(argv).opt] \in ConfigFields /\ config \in [ConfigFields -> Int]
      BY <1>2, <3>2, <2>1 DEF Option, Opts, Field, ConfigFields, IInv
    <3>. QED
      BY <1>2, <3>3, <3>4, <3>5 DEF NatCounts, ConfigFields
  <2>2. CASE ParseOpt /\ Head(argv).opt \in {"h", "x"}
    BY <1>2, <2>2 DEF ParseOpt, NatCounts
  <2>3. CASE ParseEnd
    BY <1>2, <2>3 DEF ParseEnd, NatCounts, IInv, ConfigFields
  <2>4. CASE Alloc \/ Spawn \/ SpawnDone \/ Join \/ UNCHANGED vars
    BY <1>2, <2>4 DEF Alloc, Spawn, SpawnDone, Join, vars, NatCounts
  <2>. QED
    BY <1>2, <2>1, <2>2, <2>3, <2>4 DEF Next
<1>. QED
  BY <1>1, <1>2

\* When every count typed on the command line is non-negative, every thread
\* run_workload starts writes operation_counts[thread_id] inside the
\* new uint64_t[thread_count_] array, for any number of options, any
\* values and any number of threads.
THEOREM CountsInBounds ==
  ASSUME ArgVals \subseteq Nat
  PROVE  Spec => []CountsIndexInBounds
<1>1. Init => IInv /\ NatCounts
  BY InitIInv, NatCountsInvariant
<1>2. IInv /\ NatCounts /\ [Next]_vars => IInv' /\ NatCounts'
  BY StepIInv, NatCountsInvariant
<1>3. IInv /\ NatCounts => CountsIndexInBounds
  BY IInvCounts DEF NatCounts, CountsNonNeg
<1>. QED
  BY <1>1, <1>2, <1>3, PTL DEF Spec

\* Under the same hypothesis the join loop of run_workload joins exactly the
\* threads it started: worker_threads.at(i) never throws and no std::thread
\* is destroyed while joinable.
THEOREM JoinsAll ==
  ASSUME ArgVals \subseteq Nat
  PROVE  Spec => []JoinsEveryThread
<1>1. Init => IInv /\ NatCounts
  BY InitIInv, NatCountsInvariant
<1>2. IInv /\ NatCounts /\ [Next]_vars => IInv' /\ NatCounts'
  BY StepIInv, NatCountsInvariant
<1>3. IInv /\ NatCounts => JoinsEveryThread
  BY DEF IInv, Bounded, NatCounts, CountsNonNeg, JoinsEveryThread
<1>. QED
  BY <1>1, <1>2, <1>3, PTL DEF Spec

=============================================================================
