---------------------------- MODULE WorkloadProofs ----------------------------
(***************************************************************************)
(* Proof that the key batches of BatchKeys never hand the same key to two  *)
(* inserts, whatever the interleaving of main and the inserter threads.    *)
(***************************************************************************)
EXTENDS Workload, SequenceTheorems, TLAPS

BK == Threads \cup {Main}

\* The keys left in the batch of BatchKeys b: local_curr_key_ up to
\* local_max_key_ - 1.
Remaining(b) == bk[b].curr .. bk[b].max - 1

(***************************************************************************)
(* The inductive invariant.  With sequential keys every batch lies below  *)
(* global_curr_key, the rest of two objects' batches never overlap, and   *)
(* no inserted key is still in anyone's batch.                             *)
(***************************************************************************)
BatchInv ==
  /\ gck \in Nat
  /\ bk \in [BK -> BatchState]
  /\ inserted \in Seq(Nat)
  /\ MaxKey = 0 =>
       /\ \A b \in BK : bk[b].curr <= bk[b].max /\ bk[b].max <= gck
       /\ \A b, c \in BK : b # c => Remaining(b) \cap Remaining(c) = {}
       /\ \A i \in 1..Len(inserted) :
            /\ inserted[i] < gck
            /\ \A b \in BK : inserted[i] \notin Remaining(b)
       /\ InsertKeysUnique

LEMMA BatchInvInit == Init => BatchInv
<1> SUFFICES ASSUME Init PROVE BatchInv
  OBVIOUS
<1>1. bk \in [BK -> BatchState]
  BY DEF Init, BK, BatchState
<1>2. \A b \in BK : Remaining(b) = {}
  BY DEF Init, Remaining, BK
<1>. QED
  BY <1>1, <1>2, EmptySeq DEF Init, BatchInv, InsertKeysUnique

(***************************************************************************)
(* One call of get_insert_key by t followed by the insert of its key.     *)
(***************************************************************************)
LEMMA BatchInsertStep ==
  ASSUME BatchInv, MaxKey = 0, NEW t \in BK,
         bk' = [bk EXCEPT ![t] = NextBatchKey(bk[t], gck).bk],
         gck' = NextBatchKey(bk[t], gck).gck,
         inserted' = Append(inserted, NextBatchKey(bk[t], gck).key)
  PROVE  BatchInv'
<1> DEFINE b0 == bk[t]
           key == NextBatchKey(bk[t], gck).key
           n == Len(inserted)
<1>0. /\ gck \in Nat /\ bk \in [BK -> BatchState] /\ inserted \in Seq(Nat)
      /\ b0.curr \in Nat /\ b0.max \in Nat /\ n \in Nat
      /\ Batch \in Nat \ {0}
      /\ \A b \in BK : bk[b] = [curr |-> bk[b].curr, max |-> bk[b].max]
                     /\ bk[b].curr \in Nat /\ bk[b].max \in Nat
      /\ \A i \in 1..n : inserted[i] \in Nat
  BY LenProperties, ElementOfSeq, NumbersAssumption DEF BatchInv, BatchState
<1>1. \A b \in BK : bk[b].curr <= bk[b].max /\ bk[b].max <= gck
  BY DEF BatchInv
<1>2. \A b, c \in BK : b # c => Remaining(b) \cap Remaining(c) = {}
  BY DEF BatchInv
<1>3. \A i \in 1..n : inserted[i] < gck /\ \A b \in BK : inserted[i] \notin Remaining(b)
  BY DEF BatchInv
<1>4. \A i, j \in 1..n : i # j => inserted[i] # inserted[j]
  BY DEF BatchInv, InsertKeysUnique
<1>5. /\ Len(inserted') = n + 1
      /\ \A i \in 1..n : inserted'[i] = inserted[i]
      /\ inserted'[n + 1] = key
  <2>1. key \in Nat
    BY <1>0 DEF NextBatchKey, NeedsBatch
  <2>. QED
    BY <1>0, <2>1, AppendProperties
<1>6. \A b \in BK \ {t} : bk'[b] = bk[b]
  BY <1>0
\* The new state of t's BatchKeys, the key returned and global_curr_key,
\* in the two cases of get_insert_key.
<1>7. /\ bk'[t] = [curr |-> key + 1, max |-> bk'[t].max]
      /\ bk'[t].curr = key + 1
      /\ key \in Nat /\ bk'[t].max \in Nat /\ gck' \in Nat
      /\ \A b \in BK \ {t} : key \notin Remaining(b)
      /\ \A i \in 1..n : inserted[i] # key
      /\ key + 1 <= bk'[t].max /\ bk'[t].max <= gck'
      /\ gck <= gck'
      /\ \A b \in BK \ {t} : Remaining(b) \cap (key .. bk'[t].max - 1) = {}
      /\ \A i \in 1..n : inserted[i] \notin key .. bk'[t].max - 1
  <2>1. CASE NeedsBatch(b0)
    <3>1. /\ key = gck
          /\ bk'[t] = [curr |-> gck + 1, max |-> gck + Batch]
          /\ gck' = gck + Batch
      BY <2>1, <1>0 DEF NextBatchKey
    <3>2. \A b \in BK \ {t} : \A k \in Remaining(b) : k < gck
      BY <1>0, <1>1 DEF Remaining
    <3>. QED
      BY <3>1, <3>2, <1>0, <1>3
  <2>2. CASE ~NeedsBatch(b0)
    <3>1. /\ key = b0.curr
          /\ bk'[t] = [curr |-> b0.curr + 1, max |-> b0.max]
          /\ gck' = gck
      BY <2>2, <1>0 DEF NextBatchKey, BatchState
    <3>2. b0.curr < b0.max
      BY <2>2, <1>0, <1>1 DEF NeedsBatch
    <3>3. key \in Remaining(t)
      BY <3>1, <3>2, <1>0 DEF Remaining
    <3>4. \A b \in BK \ {t} : key \notin Remaining(b)
      BY <3>3, <1>2
    <3>5. \A i \in 1..n : inserted[i] # key
      BY <3>3, <1>3
    <3>6. (key .. bk'[t].max - 1) \subseteq Remaining(t)
      BY <3>1, <1>0 DEF Remaining
    <3>7. \A b \in BK \ {t} : Remaining(b) \cap (key .. bk'[t].max - 1) = {}
      BY <3>6, <1>2
    <3>8. \A i \in 1..n : inserted[i] \notin key .. bk'[t].max - 1
      BY <3>6, <1>3
    <3>. QED
      BY <3>1, <3>2, <3>4, <3>5, <3>7, <3>8, <1>0, <1>1
  <2>. QED
    BY <2>1, <2>2
<1>8. Remaining(t)' = (key + 1) .. bk'[t].max - 1
  BY <1>7 DEF Remaining
<1>9. \A b \in BK \ {t} : Remaining(b)' = Remaining(b)
  BY <1>6 DEF Remaining
\* The conjuncts of BatchInv'.
<1>10. gck' \in Nat /\ bk' \in [BK -> BatchState] /\ inserted' \in Seq(Nat)
  <2>1. bk'[t] \in BatchState
    BY <1>7, <1>0 DEF BatchState
  <2>2. \A b \in BK \ {t} : bk'[b] \in BatchState
    BY <1>6, <1>0 DEF BatchInv
  <2>3. bk' \in [BK -> BatchState]
    BY <2>1, <2>2, <1>0
  <2>4. inserted' \in Seq(Nat)
    BY <1>0, <1>7, AppendProperties
  <2>. QED
    BY <1>7, <2>3, <2>4
<1>11. \A b \in BK : bk'[b].curr <= bk'[b].max /\ bk'[b].max <= gck'
  BY <1>0, <1>1, <1>6, <1>7
<1>12. \A b, c \in BK : b # c => Remaining(b)' \cap Remaining(c)' = {}
  <2> SUFFICES ASSUME NEW b \in BK, NEW c \in BK, b # c
               PROVE  Remaining(b)' \cap Remaining(c)' = {}
    OBVIOUS
  <2>1. CASE b = t
    BY <2>1, <1>7, <1>8, <1>9
  <2>2. CASE c = t
    BY <2>2, <1>7, <1>8, <1>9
  <2>3. CASE b # t /\ c # t
    BY <2>3, <1>2, <1>9
  <2>. QED
    BY <2>1, <2>2, <2>3
<1>13. \A i \in 1..Len(inserted') :
         /\ inserted'[i] < gck'
         /\ \A b \in BK : inserted'[i] \notin Remaining(b)'
  <2> SUFFICES ASSUME NEW i \in 1..n + 1, NEW b \in BK
               PROVE  inserted'[i] < gck' /\ inserted'[i] \notin Remaining(b)'
    BY <1>5
  <2>1. CASE i = n + 1
    <3>1. inserted'[i] = key
      BY <2>1, <1>5
    <3>2. key < gck'
      BY <1>7, <1>0
    <3>3. key \notin Remaining(b)'
      <4>1. CASE b = t
        BY <4>1, <1>7, <1>8
      <4>2. CASE b # t
        BY <4>2, <1>7, <1>9
      <4>. QED
        BY <4>1, <4>2
    <3>. QED
      BY <3>1, <3>2, <3>3
  <2>2. CASE i \in 1..n
    <3>1. inserted'[i] = inserted[i]
      BY <2>2, <1>5
    <3>2. inserted[i] < gck'
      BY <2>2, <1>3, <1>7, <1>0
    <3>3. inserted[i] \notin Remaining(b)'
      <4>1. CASE b = t
        <5>1. inserted[i] \notin key .. bk'[t].max - 1
          BY <2>2, <1>7
        <5>. QED
          BY <4>1, <5>1, <1>8, <1>7, <1>0
      <4>2. CASE b # t
        BY <4>2, <2>2, <1>3, <1>9
      <4>. QED
        BY <4>1, <4>2
    <3>. QED
      BY <3>1, <3>2, <3>3
  <2>. QED
    BY <2>1, <2>2, <1>0
<1>14. InsertKeysUnique'
  <2> SUFFICES ASSUME NEW i \in 1..n + 1, NEW j \in 1..n + 1, i # j
               PROVE  inserted'[i] # inserted'[j]
    BY <1>5 DEF InsertKeysUnique
  <2>1. CASE i \in 1..n /\ j \in 1..n
    BY <2>1, <1>4, <1>5
  <2>2. CASE i = n + 1 /\ j \in 1..n
    BY <2>2, <1>5, <1>7
  <2>3. CASE j = n + 1 /\ i \in 1..n
    BY <2>3, <1>5, <1>7
  <2>. QED
    BY <2>1, <2>2, <2>3, <1>0
<1>. QED
  BY <1>10, <1>11, <1>12, <1>13, <1>14 DEF BatchInv

\* The same for any call of get_insert_key followed by the insert of the
\* key it returned; with random keys only the types need checking.
LEMMA InsertCall ==
  ASSUME BatchInv, NEW t \in BK, NEW key \in InsertKeys(bk[t]),
         GetInsertKey(t), inserted' = Append(inserted, key)
  PROVE  BatchInv'
<1>1. CASE MaxKey = 0
  <2>1. key = NextBatchKey(bk[t], gck).key
    BY <1>1 DEF InsertKeys
  <2>2. /\ bk' = [bk EXCEPT ![t] = NextBatchKey(bk[t], gck).bk]
        /\ gck' = NextBatchKey(bk[t], gck).gck
    BY <1>1 DEF GetInsertKey
  <2>. QED
    BY <1>1, <2>1, <2>2, BatchInsertStep
<1>2. CASE MaxKey # 0
  <2>1. bk' = bk /\ gck' = gck
    BY <1>2 DEF GetInsertKey
  <2>2. key \in Nat
    BY <1>2, NumbersAssumption DEF InsertKeys
  <2>3. inserted' \in Seq(Nat)
    BY <2>2, AppendProperties DEF BatchInv
  <2>. QED
    BY <1>2, <2>1, <2>3 DEF BatchInv
<1>. QED
  BY <1>1, <1>2

LEMMA BatchInvStep == BatchInv /\ [Next]_vars => BatchInv'
<1> SUFFICES ASSUME BatchInv, [Next]_vars PROVE BatchInv'
  OBVIOUS
<1>1. CASE Load
  <2>1. PICK key \in InsertKeys(bk[Main]) :
          GetInsertKey(Main) /\ inserted' = Append(inserted, key)
    BY <1>1 DEF Load
  <2>. QED
    BY <2>1, InsertCall DEF BK
<1>2. CASE \E t \in Inserters : InserterStep(t)
  <2>1. PICK t \in Inserters : InserterStep(t)
    BY <1>2
  <2>2. PICK key \in InsertKeys(bk[t]) :
          GetInsertKey(t) /\ inserted' = Append(inserted, key)
    BY <2>1 DEF InserterStep
  <2>. QED
    BY <2>2, InsertCall DEF BK, Threads
<1>3. CASE UNCHANGED <<gck, bk, inserted>>
  BY <1>3 DEF BatchInv, Remaining, InsertKeysUnique
<1>. QED
  BY <1>1, <1>2, <1>3
  DEF Next, vars, LoadDone, Spawn, Profile, Stop, Join, ThreadStart,
      LoopTest, ThreadExit, ReaderStep

\* With sequential keys (max_key_count 0) no two inserts, by main's initial
\* load or by any inserter thread, in any interleaving, use the same key:
\* the fetch_add on global_curr_key hands out disjoint batches.
THEOREM InsertKeysUniqueInvariant == Spec => []InsertKeysUnique
<1>1. BatchInv => InsertKeysUnique
  BY DEF BatchInv, InsertKeysUnique
<1>. QED
  BY <1>1, BatchInvInit, BatchInvStep, PTL DEF Spec


-----------------------------------------------------------------------------
(***************************************************************************)
(* The run of the driver.  RunInv adds to BatchInv what the order of      *)
(* run_workload guarantees: no worker exists during the initial load, the *)
(* load has inserted init_key_count keys before any worker starts, and a  *)
(* worker's counter is a number once the worker has zeroed it.            *)
(***************************************************************************)
RunInv ==
  /\ TypeOK
  /\ BatchInv
  /\ \A t \in Threads : pc[t] \in {"loop", "body", "done"} => counts[t] \in Nat
  /\ mainPc = "load" => \A t \in Threads : pc[t] = "idle"
  /\ mainPc # "load" => initDone >= InitKeys
  /\ Len(inserted) >= initDone

LEMMA InsertKeysNat ==
  ASSUME BatchInv, NEW t \in BK
  PROVE  InsertKeys(bk[t]) \subseteq Nat
<1>1. bk[t].curr \in Nat /\ gck \in Nat
  BY DEF BatchInv, BatchState
<1>. QED
  BY <1>1, NumbersAssumption DEF InsertKeys, NextBatchKey, NeedsBatch

\* One insert by t (main's load or an inserter): BatchInv is kept and the
\* sequence of inserted keys grows by one.
LEMMA InsertEffect ==
  ASSUME BatchInv, NEW t \in BK, NEW key \in InsertKeys(bk[t]),
         GetInsertKey(t), inserted' = Append(inserted, key)
  PROVE  BatchInv' /\ Len(inserted') = Len(inserted) + 1
<1>1. key \in Nat
  BY InsertKeysNat
<1>2. inserted \in Seq(Nat)
  BY DEF BatchInv
<1>. QED
  BY <1>1, <1>2, InsertCall, AppendProperties

LEMMA RunInvInit == Init => RunInv
<1> SUFFICES ASSUME Init PROVE RunInv
  OBVIOUS
<1>1. BatchInv
  BY BatchInvInit
<1>2. TypeOK
  <2>1. initDone \in 0..InitKeys
    BY NumbersAssumption DEF Init
  <2>2. counts \in [Threads -> Nat \cup {Garbage}] /\ snaps \in Seq([Threads -> Nat \cup {Garbage}])
    BY EmptySeq DEF Init
  <2>. QED
    BY <1>1, <2>1, <2>2 DEF Init, TypeOK, BatchInv, BK, MainPcs
<1>. QED
  BY <1>1, <1>2, EmptySeq DEF Init, RunInv

LEMMA RunInvStep == RunInv /\ [Next]_vars => RunInv'
<1> SUFFICES ASSUME RunInv, [Next]_vars PROVE RunInv'
  OBVIOUS
<1>0. /\ TypeOK /\ BatchInv /\ BatchInv' /\ Len(inserted) \in Nat
      /\ initDone \in Nat /\ InitKeys \in Nat
  BY BatchInvStep, LenProperties, NumbersAssumption DEF RunInv, TypeOK, BatchInv
<1>1. CASE Load
  <2>1. PICK key \in InsertKeys(bk[Main]) :
          GetInsertKey(Main) /\ inserted' = Append(inserted, key)
    BY <1>1 DEF Load
  <2>2. Len(inserted') = Len(inserted) + 1
    BY <2>1, InsertEffect, <1>0 DEF BK
  <2>3. initDone' = initDone + 1 /\ initDone < InitKeys
    BY <1>1 DEF Load, LoadKeys
  <2>. QED
    BY <1>0, <1>1, <2>2, <2>3 DEF Load, RunInv, TypeOK, BatchInv, BK
<1>2. CASE \E t \in Inserters : InserterStep(t)
  <2>1. PICK t \in Inserters : InserterStep(t)
    BY <1>2
  <2>2. PICK key \in InsertKeys(bk[t]) :
          GetInsertKey(t) /\ inserted' = Append(inserted, key)
    BY <2>1 DEF InserterStep
  <2>3. Len(inserted') = Len(inserted) + 1
    BY <2>2, InsertEffect, <1>0 DEF BK, Threads
  <2>4. counts[t] \in Nat /\ mainPc # "load"
    BY <2>1 DEF InserterStep, RunInv, Threads
  <2>5. counts' \in [Threads -> Nat \cup {Garbage}]
        /\ \A u \in Threads : pc'[u] \in {"loop", "body", "done"} => counts'[u] \in Nat
    BY <2>1, <2>4 DEF InserterStep, RunInv, TypeOK, Threads
  <2>6. pc' \in [Threads -> {"idle", "started", "loop", "body", "done"}]
    BY <2>1 DEF InserterStep, RunInv, TypeOK, Threads
  <2>. QED
    BY <1>0, <2>1, <2>3, <2>4, <2>5, <2>6 DEF InserterStep, RunInv, TypeOK, BatchInv, BK
<1>3. CASE \E t \in Readers : ReaderStep(t)
  <2>1. PICK t \in Readers : ReaderStep(t)
    BY <1>3
  <2>2. counts[t] \in Nat /\ mainPc # "load"
    BY <2>1 DEF ReaderStep, RunInv, Threads
  <2>3. counts' \in [Threads -> Nat \cup {Garbage}]
        /\ \A u \in Threads : pc'[u] \in {"loop", "body", "done"} => counts'[u] \in Nat
    BY <2>1, <2>2 DEF ReaderStep, RunInv, TypeOK, Threads
  <2>4. pc' \in [Threads -> {"idle", "started", "loop", "body", "done"}]
    BY <2>1 DEF ReaderStep, RunInv, TypeOK, Threads
  <2>. QED
    BY <1>0, <2>1, <2>2, <2>3, <2>4 DEF ReaderStep, RunInv, TypeOK
<1>4. CASE \E t \in Threads : ThreadStart(t)
  <2>1. PICK t \in Threads : ThreadStart(t)
    BY <1>4
  <2>2. mainPc # "load"
    BY <2>1 DEF ThreadStart, RunInv
  <2>. QED
    BY <1>0, <2>1, <2>2 DEF ThreadStart, RunInv, TypeOK
<1>5. CASE \E t \in Threads : ThreadExit(t)
  <2>1. PICK t \in Threads : ThreadExit(t)
    BY <1>5
  <2>. QED
    BY <1>0, <2>1 DEF ThreadExit, RunInv, TypeOK
<1>12. CASE \E t \in Threads : LoopTest(t)
  <2>1. PICK t \in Threads : LoopTest(t)
    BY <1>12
  <2>. QED
    BY <1>0, <2>1 DEF LoopTest, RunInv, TypeOK
<1>6. CASE LoadDone
  BY <1>0, <1>6 DEF LoadDone, LoadKeys, RunInv, TypeOK, MainPcs
<1>7. CASE Spawn
  BY <1>0, <1>7 DEF Spawn, RunInv, TypeOK, MainPcs
<1>8. CASE Profile
  <2>1. snaps' \in Seq([Threads -> Nat \cup {Garbage}])
    BY <1>8, AppendProperties DEF Profile, RunInv, TypeOK
  <2>. QED
    BY <1>0, <1>8, <2>1 DEF Profile, RunInv, TypeOK, MainPcs
<1>9. CASE Stop
  BY <1>0, <1>9 DEF Stop, RunInv, TypeOK, MainPcs
<1>10. CASE Join
  BY <1>0, <1>10 DEF Join, RunInv, TypeOK, MainPcs
<1>11. CASE UNCHANGED vars
  BY <1>0, <1>11 DEF vars, RunInv, TypeOK
<1>. QED
  BY <1>1, <1>2, <1>3, <1>4, <1>5, <1>6, <1>7, <1>8, <1>9, <1>10, <1>11, <1>12
  DEF Next

\* Whatever the interleaving of main and the workers, the driver's state
\* keeps its types; in particular operation_counts[t] is a number whenever
\* a worker increments it, because the worker zeroes it before its loop.
THEOREM WorkloadTypeCorrect == Spec => []TypeOK
<1>1. RunInv => TypeOK
  BY DEF RunInv
<1>. QED
  BY <1>1, RunInvInit, RunInvStep, PTL DEF Spec


\* A reader's divisor is never 0 once the load is done: with sequential
\* keys the load inserted a key, which lies below global_curr_key.
LEMMA DivisorPositive ==
  ASSUME RunInv, InitKeys # 0 \/ MaxKey # 0, mainPc # "load"
  PROVE  RandomKeyDivisor # 0
<1>1. CASE MaxKey # 0
  BY <1>1 DEF RandomKeyDivisor
<1>2. CASE MaxKey = 0
  <2>1. InitKeys \in Nat \ {0}
    BY <1>2, NumbersAssumption
  <2>2. Len(inserted) >= 1
    BY <2>1, LenProperties DEF RunInv, TypeOK
  <2>3. inserted[1] \in Nat /\ inserted[1] < gck
    BY <1>2, <2>2, ElementOfSeq DEF RunInv, BatchInv
  <2>. QED
    BY <1>2, <2>3 DEF RandomKeyDivisor
<1>. QED
  BY <1>1, <1>2

\* With at least one initial key, or with random keys, no reader ever takes
\* rand_gen_.next() % global_curr_key with global_curr_key = 0: readers
\* start only after main's load has reserved a batch.
THEOREM RandomKeyDefinedInvariant ==
  ASSUME InitKeys # 0 \/ MaxKey # 0
  PROVE  Spec => []RandomKeyDefined
<1>1. Init => RunInv /\ RandomKeyDefined
  BY RunInvInit DEF Init, RandomKeyDefined
<1>2. RunInv /\ RandomKeyDefined /\ [Next]_vars => RandomKeyDefined'
  <2> SUFFICES ASSUME RunInv, RandomKeyDefined, [Next]_vars
               PROVE  RandomKeyDefined'
    OBVIOUS
  <2>1. CASE \E t \in Readers : ReaderStep(t)
    <3>1. PICK t \in Readers : ReaderStep(t)
      BY <2>1
    <3>2. mainPc # "load"
      BY <3>1 DEF ReaderStep, RunInv, Threads
    <3>. QED
      BY <3>1, <3>2, DivisorPositive DEF ReaderStep, RandomKeyDefined
  <2>2. CASE ~\E t \in Readers : ReaderStep(t)
    BY <2>2 DEF Next, vars, Load, LoadDone, Spawn, Profile, Stop, Join,
              ThreadStart, LoopTest, ThreadExit, InserterStep, RandomKeyDefined
  <2>. QED
    BY <2>1, <2>2
<1>. QED
  BY <1>1, <1>2, RunInvStep, PTL DEF Spec


\* Once main is done every worker is done: main reaches "done" only
\* through the joins, and a finished worker takes no further step.
JoinedAll == mainPc = "done" => \A t \in Threads : pc[t] = "done"

LEMMA JoinedAllStep == RunInv /\ JoinedAll /\ [Next]_vars => JoinedAll'
<1> SUFFICES ASSUME RunInv, JoinedAll, [Next]_vars PROVE JoinedAll'
  OBVIOUS
<1>1. CASE Join
  BY <1>1 DEF Join, JoinedAll
<1>2. CASE \E t \in Threads : ThreadStart(t) \/ LoopTest(t) \/ ThreadExit(t)
  BY <1>2 DEF ThreadStart, LoopTest, ThreadExit, JoinedAll, RunInv, TypeOK
<1>3. CASE \E t \in Inserters : InserterStep(t)
  BY <1>3 DEF InserterStep, JoinedAll, RunInv, TypeOK, Threads
<1>4. CASE \E t \in Readers : ReaderStep(t)
  BY <1>4 DEF ReaderStep, JoinedAll, RunInv, TypeOK, Threads
<1>5. CASE Load \/ LoadDone \/ Spawn \/ Profile \/ Stop \/ UNCHANGED vars
  BY <1>5 DEF Load, LoadDone, Spawn, Profile, Stop, vars, JoinedAll
<1>. QED
  BY <1>1, <1>2, <1>3, <1>4, <1>5 DEF Next

-----------------------------------------------------------------------------
(***************************************************************************)
(* Refinement of the benchmark-run contract.  Besides RunInv and          *)
(* JoinedAll the step proofs need the link between main's position, the   *)
(* workers and is_running: no worker exists before the spawn, and          *)
(* is_running is set exactly from the spawn to the store of false.         *)
(***************************************************************************)
StageInv ==
  /\ mainPc \in {"load", "spawn"} => \A t \in Threads : pc[t] = "idle"
  /\ isRunning <=> mainPc \in {"profile", "stop"}

DriverInv == RunInv /\ JoinedAll /\ StageInv

LEMMA DriverInvInit == Init => DriverInv
<1> SUFFICES ASSUME Init PROVE DriverInv
  OBVIOUS
<1>1. RunInv
  BY RunInvInit
<1>2. JoinedAll /\ StageInv
  BY DEF Init, JoinedAll, StageInv
<1>. QED
  BY <1>1, <1>2 DEF DriverInv

LEMMA StageInvStep == DriverInv /\ [Next]_vars => StageInv'
<1> SUFFICES ASSUME DriverInv, [Next]_vars PROVE StageInv'
  OBVIOUS
<1>1. CASE \E t \in Threads : ThreadStart(t)
  <2>1. PICK t \in Threads : ThreadStart(t)
    BY <1>1
  <2>2. mainPc \notin {"load", "spawn"}
    BY <2>1 DEF ThreadStart, DriverInv, StageInv
  <2>. QED
    BY <2>1, <2>2 DEF ThreadStart, DriverInv, StageInv
<1>2. CASE \E t \in Threads : ThreadExit(t) \/ LoopTest(t)
  BY <1>2 DEF ThreadExit, LoopTest, DriverInv, StageInv
<1>3. CASE \E t \in Inserters : InserterStep(t)
  BY <1>3 DEF InserterStep, DriverInv, StageInv
<1>4. CASE \E t \in Readers : ReaderStep(t)
  BY <1>4 DEF ReaderStep, DriverInv, StageInv
<1>5. CASE Load \/ LoadDone \/ Spawn \/ Profile \/ Stop \/ Join
  BY <1>5 DEF Load, LoadDone, Spawn, Profile, Stop, Join, DriverInv, StageInv
<1>6. CASE UNCHANGED vars
  BY <1>6 DEF vars, DriverInv, StageInv
<1>. QED
  BY <1>1, <1>2, <1>3, <1>4, <1>5, <1>6 DEF Next

LEMMA DriverInvStep == DriverInv /\ [Next]_vars => DriverInv'
BY RunInvStep, JoinedAllStep, StageInvStep DEF DriverInv

\* An insert by t appends the key get_insert_key returned, and that key is a
\* key of the contract: a natural number below max_key_count, or with
\* sequential keys any natural number not inserted before.
LEMMA InsertAppendsKey ==
  ASSUME BatchInv, NEW t \in BK, NEW key \in InsertKeys(bk[t]),
         GetInsertKey(t), inserted' = Append(inserted, key)
  PROVE  Driver!AppendsKey
<1> DEFINE n == Len(inserted)
<1>1. key \in Nat /\ inserted \in Seq(Nat) /\ n \in Nat
  BY InsertKeysNat, LenProperties DEF BatchInv
<1>2. /\ Len(inserted') = n + 1
      /\ inserted'[n + 1] = key
      /\ \A i \in 1..n : inserted'[i] = inserted[i]
  BY <1>1, AppendProperties
<1>3. key \in IF MaxKey = 0 THEN Nat ELSE 0..MaxKey-1
  BY <1>1 DEF InsertKeys
<1>4. MaxKey = 0 => \A i \in 1..n : inserted[i] # key
  <2> SUFFICES ASSUME MaxKey = 0, NEW i \in 1..n PROVE inserted[i] # key
    OBVIOUS
  <2>1. InsertKeysUnique'
    BY InsertCall DEF BatchInv
  <2>2. inserted'[i] # inserted'[n + 1]
    BY <2>1, <1>1, <1>2 DEF InsertKeysUnique
  <2>. QED
    BY <2>2, <1>2
<1>. QED
  BY <1>2, <1>3, <1>4 DEF Driver!AppendsKey, Driver!Fresh

\* The step simulation: every step of main or of a worker is a step of the
\* contract or leaves the contract's state unchanged.
LEMMA DriverStep == DriverInv /\ [Next]_vars => [Driver!Next]_Driver!vars
<1> SUFFICES ASSUME DriverInv, [Next]_vars PROVE [Driver!Next]_Driver!vars
  OBVIOUS
<1>0. /\ BatchInv /\ JoinedAll /\ StageInv
      /\ mainPc \in MainPcs
      /\ pc \in [Threads -> {"idle", "started", "loop", "body", "done"}]
  BY DEF DriverInv, RunInv, TypeOK
\* Outside the joins nothing is pending.
<1>a. mainPc \notin {"join", "done"} => Pending = {}
  BY DEF Pending
<1>1. CASE Load
  <2>1. PICK key \in InsertKeys(bk[Main]) :
          GetInsertKey(Main) /\ inserted' = Append(inserted, key)
    BY <1>1 DEF Load
  <2>2. Driver!AppendsKey
    BY <2>1, <1>0, InsertAppendsKey DEF BK
  <2>3. Stage = "load" /\ Stage' = "load" /\ Busy' = Busy /\ Pending' = Pending
    BY <1>1 DEF Load, Stage, Busy, Pending
  <2>. QED
    BY <2>2, <2>3 DEF Driver!Next, Driver!LoadInsert
<1>2. CASE \E t \in Inserters : InserterStep(t)
  <2>1. PICK t \in Inserters : InserterStep(t)
    BY <1>2
  <2>2. PICK key \in InsertKeys(bk[t]) :
          GetInsertKey(t) /\ inserted' = Append(inserted, key)
    BY <2>1 DEF InserterStep
  <2>3. Driver!AppendsKey
    BY <2>2, <1>0, InsertAppendsKey DEF BK, Threads
  <2>4. mainPc \in {"profile", "stop", "join"}
    <3>1. mainPc \notin {"load", "spawn"}
      BY <2>1, <1>0 DEF InserterStep, StageInv, Threads
    <3>2. mainPc # "done"
      BY <2>1, <1>0 DEF InserterStep, JoinedAll, Threads
    <3>. QED
      BY <3>1, <3>2, <1>0 DEF MainPcs
  <2>5. Busy' = Busy /\ t \in Busy /\ Stage' = Stage
    BY <2>1 DEF InserterStep, Stage, Busy, Threads
  <2>6. CASE mainPc \in {"profile", "stop"}
    <3>1. Stage = "run"
      BY <2>6 DEF Stage
    <3>2. mainPc' = mainPc
      BY <2>1 DEF InserterStep
    <3>3. Pending = {} /\ Pending' = {}
      BY <2>6, <3>2 DEF Pending
    <3>. QED
      BY <2>3, <2>5, <3>1, <3>3 DEF Driver!Next, Driver!WorkerInsert, Threads
  <2>7. CASE mainPc = "join"
    <3>1. Stage = "stop"
      BY <2>7 DEF Stage
    <3>2. t \in Pending /\ Pending' = Pending \ {t}
      <4>1. mainPc' = "join" /\ pc[t] = "body"
            /\ pc' = [pc EXCEPT ![t] = "loop"]
        BY <2>1, <2>7 DEF InserterStep
      <4>2. t \in Threads /\ Pending = {u \in Inserters : pc[u] = "body"}
            /\ Pending' = {u \in Inserters : pc'[u] = "body"}
        BY <4>1, <2>7 DEF Pending, Threads
      <4>. QED
        BY <4>1, <4>2, <1>0 DEF Threads
    <3>. QED
      BY <2>3, <2>5, <3>1, <3>2 DEF Driver!Next, Driver!LateInsert, Threads
  <2>. QED
    BY <2>4, <2>6, <2>7
<1>3. CASE \E t \in Threads : ThreadExit(t)
  <2>1. PICK t \in Threads : ThreadExit(t)
    BY <1>3
  <2>2. mainPc = "join"
    <3>1. mainPc \notin {"load", "spawn", "profile", "stop"}
      BY <2>1, <1>0 DEF ThreadExit, StageInv
    <3>2. mainPc # "done"
      BY <2>1, <1>0 DEF ThreadExit, JoinedAll
    <3>. QED
      BY <3>1, <3>2, <1>0 DEF MainPcs
  <2>3. Stage = "stop" /\ Stage' = "stop"
    BY <2>1, <2>2 DEF ThreadExit, Stage
  <2>4. t \in Busy /\ Busy' = Busy \ {t}
    BY <2>1, <1>0 DEF ThreadExit, Busy
  <2>5. t \notin Pending /\ Pending' = Pending
    BY <2>1, <1>0 DEF ThreadExit, Pending
  <2>. QED
    BY <2>1, <2>3, <2>4, <2>5 DEF ThreadExit, Driver!Next, Driver!Leave
<1>4. CASE Spawn
  <2>1. Stage = "load" /\ Stage' = "run"
    BY <1>4 DEF Spawn, Stage
  <2>2. Busy' = Threads
    BY <1>4 DEF Spawn, Busy
  <2>3. Pending' = Pending
    BY <1>4, <1>a DEF Spawn, Pending
  <2>. QED
    BY <1>4, <2>1, <2>2, <2>3 DEF Spawn, Driver!Next, Driver!Start
<1>5. CASE Stop
  <2>1. Stage = "run" /\ Stage' = "stop" /\ Busy' = Busy
    BY <1>5 DEF Stop, Stage, Busy
  <2>2. Pending' \subseteq Busy
    BY <1>5 DEF Stop, Pending, Busy, Threads
  <2>. QED
    BY <1>5, <2>1, <2>2 DEF Stop, Driver!Next, Driver!Shutdown
<1>6. CASE Join
  <2>1. Stage = "stop" /\ Stage' = "done" /\ Busy' = Busy
    BY <1>6 DEF Join, Stage, Busy
  <2>2. Busy = {}
    BY <1>6 DEF Join, Busy
  <2>3. Pending = {} /\ Pending' = {}
    BY <1>6 DEF Join, Pending, Threads
  <2>. QED
    BY <1>6, <2>1, <2>2, <2>3 DEF Join, Driver!Next, Driver!Finish
<1>7. CASE LoadDone \/ Profile
  <2>1. Stage' = Stage /\ Pending' = Pending
    BY <1>7, <1>a DEF LoadDone, Profile, Stage, Pending
  <2>. QED
    BY <1>7, <2>1 DEF LoadDone, Profile, Busy, Driver!vars
<1>8. CASE \E t \in Threads : ThreadStart(t)
  <2>1. PICK t \in Threads : ThreadStart(t)
    BY <1>8
  <2>2. Busy' = Busy /\ Pending' = Pending
    BY <2>1, <1>0 DEF ThreadStart, Busy, Pending
  <2>. QED
    BY <2>1, <2>2 DEF ThreadStart, Stage, Driver!vars
<1>11. CASE \E t \in Threads : LoopTest(t)
  <2>1. PICK t \in Threads : LoopTest(t)
    BY <1>11
  <2>2. mainPc \in {"profile", "stop"}
    BY <2>1, <1>0 DEF LoopTest, StageInv
  <2>3. Busy' = Busy /\ Pending' = Pending
    BY <2>1, <2>2, <1>0, <1>a DEF LoopTest, Busy, Pending
  <2>. QED
    BY <2>1, <2>3 DEF LoopTest, Stage, Driver!vars
<1>9. CASE \E t \in Readers : ReaderStep(t)
  <2>1. PICK t \in Readers : ReaderStep(t)
    BY <1>9
  <2>2. t \notin Inserters
    BY ThreadsAssumption
  <2>3. Busy' = Busy /\ Pending' = Pending
    BY <2>1, <2>2 DEF ReaderStep, Busy, Pending, Threads
  <2>. QED
    BY <2>1, <2>3 DEF ReaderStep, Stage, Driver!vars
<1>12. CASE UNCHANGED vars
  BY <1>12 DEF vars, Stage, Busy, Pending, Driver!vars
<1>10. \/ Load \/ LoadDone \/ Spawn \/ Profile \/ Stop \/ Join
       \/ \E t \in Threads : ThreadStart(t)
       \/ \E t \in Threads : LoopTest(t)
       \/ \E t \in Threads : ThreadExit(t)
       \/ \E t \in Inserters : InserterStep(t)
       \/ \E t \in Readers : ReaderStep(t)
       \/ UNCHANGED vars
  BY DEF Next
<1>. QED
  BY <1>1, <1>2, <1>3, <1>4, <1>5, <1>6, <1>7, <1>8, <1>9, <1>10, <1>11, <1>12

\* The driver implements the benchmark-run contract for any number of
\* inserter and reader threads, any batch size and any key mode: main
\* inserts only while loading; a worker inserts while is_running is set,
\* or once more after main clears it if it had passed its loop test
\* before; sequential keys are never reused; no worker leaves its loop
\* before the shutdown or with that last insert still to make; main's joins
\* end only after every worker has left.
THEOREM DriverRefinement == Spec => ImplementsBenchmarkDriver
<1>1. Init => Driver!Init
  BY DEF Init, Stage, Busy, Pending, Driver!Init
<1>. QED
  BY <1>1, DriverInvInit, DriverInvStep, DriverStep, PTL
  DEF Spec, ImplementsBenchmarkDriver, Driver!Spec

=============================================================================
