--------------------------- MODULE KAryIndexProofs ---------------------------
(***************************************************************************)
(* Proofs about the KAryIndex specification.  The lookup itself (Descend, *)
(* BinSearch) is defined by recursive functions whose values the provers  *)
(* cannot unfold, so what find computes is left to TLC; the theorems here *)
(* are about the state the operations build, which is what every lookup   *)
(* reads.                                                                  *)
(***************************************************************************)
EXTENDS KAryIndex, FiniteSetTheorems, SequenceTheorems, TLAPS

(***************************************************************************)
(* The snapshot sort.  Before(s, j, i): tuple j is ordered before tuple i *)
(* (smaller key, or same key and inserted earlier); Rank(s, i) counts the *)
(* tuples before i.                                                       *)
(***************************************************************************)
Before(s, j, i) == s[j] < s[i] \/ (s[j] = s[i] /\ j < i)
BeforeSet(s, i) == {j \in 1..Len(s) : Before(s, j, i)}

\* The arrays of the code are indexed 0..n-1 and hold n slots.
LEMMA ZeroBasedCard ==
  ASSUME NEW n \in Nat
  PROVE  IsFiniteSet(0..n-1) /\ Cardinality(0..n-1) = n
<1>1. n - 1 \in Int
  OBVIOUS
<1>2. IsFiniteSet(0..n-1) /\ Cardinality(0..n-1) = IF 0 > n-1 THEN 0 ELSE (n-1)-0+1
  BY <1>1, FS_Interval
<1>. QED
  BY <1>2

LEMMA RankIsCardinality ==
  ASSUME NEW s \in Seq(Int), NEW i \in 1..Len(s)
  PROVE  /\ IsFiniteSet(BeforeSet(s, i))
         /\ Rank(s, i) = Cardinality(BeforeSet(s, i))
<1>1. IsFiniteSet(1..Len(s))
  BY FS_Interval
<1>2. BeforeSet(s, i) \subseteq 1..Len(s)
  BY DEF BeforeSet
<1>. QED
  BY <1>1, <1>2, FS_Subset DEF Rank, BeforeSet, Before

\* Every rank is a position of the snapshot.
LEMMA RankRange ==
  ASSUME NEW s \in Seq(Int), NEW i \in 1..Len(s)
  PROVE  Rank(s, i) \in 0..Len(s)-1
<1> DEFINE B == BeforeSet(s, i)
           R == (1..Len(s)) \ {i}
<1>1. IsFiniteSet(1..Len(s)) /\ Cardinality(1..Len(s)) = Len(s)
  BY FS_Interval
<1>2. IsFiniteSet(R) /\ Cardinality(R) = Len(s) - 1
  BY <1>1, FS_RemoveElement
<1>3. B \subseteq R
  BY DEF BeforeSet, Before
<1>4. IsFiniteSet(B) /\ Cardinality(B) <= Len(s) - 1
  BY <1>2, <1>3, FS_Subset
<1>5. Cardinality(B) \in Nat
  BY <1>4, FS_CardinalityType
<1>. QED
  BY <1>4, <1>5, RankIsCardinality

\* A tuple ordered before another has a smaller rank.
LEMMA RankOrder ==
  ASSUME NEW s \in Seq(Int), NEW i \in 1..Len(s), NEW j \in 1..Len(s),
         Before(s, j, i)
  PROVE  Rank(s, j) < Rank(s, i)
<1> DEFINE Bi == BeforeSet(s, i)
           Bj == BeforeSet(s, j)
<1>1. IsFiniteSet(Bi) /\ IsFiniteSet(Bj)
  BY RankIsCardinality
<1>2. Bj \cup {j} \subseteq Bi
  BY DEF BeforeSet, Before
<1>3. j \notin Bj
  BY DEF BeforeSet, Before
<1>4. IsFiniteSet(Bj \cup {j}) /\ Cardinality(Bj \cup {j}) = Cardinality(Bj) + 1
  BY <1>1, <1>3, FS_AddElement
<1>5. Cardinality(Bj \cup {j}) <= Cardinality(Bi)
  BY <1>1, <1>2, FS_Subset
<1>6. Cardinality(Bj) \in Nat /\ Cardinality(Bi) \in Nat
  BY <1>1, FS_CardinalityType
<1>7. Rank(s, i) = Cardinality(Bi) /\ Rank(s, j) = Cardinality(Bj)
  BY RankIsCardinality
<1>. QED
  BY <1>4, <1>5, <1>6, <1>7

\* Every position of the snapshot is the rank of some tuple: ranks are
\* distinct and there are as many tuples as positions.
LEMMA RankOnto ==
  ASSUME NEW s \in Seq(Int), NEW p \in 0..Len(s)-1
  PROVE  \E i \in 1..Len(s) : Rank(s, i) = p
<1> DEFINE n == Len(s)
           f == [i \in 1..n |-> Rank(s, i)]
<1>0. n \in Nat
  OBVIOUS
<1>1. f \in [1..n -> 0..n-1]
  BY RankRange
<1>2. \A i, j \in 1..n : f[i] = f[j] => i = j
  <2> SUFFICES ASSUME NEW i \in 1..n, NEW j \in 1..n, i # j
               PROVE  Rank(s, i) # Rank(s, j)
    OBVIOUS
  <2>1. Before(s, i, j) \/ Before(s, j, i)
    BY DEF Before
  <2>2. Rank(s, i) \in Int /\ Rank(s, j) \in Int
    BY RankRange
  <2>. QED
    BY <2>1, <2>2, RankOrder
<1>3. f \in Injection(1..n, 0..n-1)
  BY <1>1, <1>2, Zenon DEF Injection, IsInjective
<1>4. IsFiniteSet(0..n-1) /\ Cardinality(0..n-1) = n
  BY <1>0, ZeroBasedCard
<1>5. IsFiniteSet(1..n) /\ Cardinality(1..n) = n
  <2>1. IsFiniteSet(1..n) /\ Cardinality(1..n) = IF 1 > n THEN 0 ELSE n-1+1
    BY <1>0, FS_Interval
  <2>. QED
    BY <1>0, <2>1
<1>6. f \in Surjection(1..n, 0..n-1)
  BY <1>3, <1>4, <1>5, FS_Injection
<1>. QED
  BY <1>6 DEF Surjection

\* The snapshot reorganize builds is an array of entries over 0..n-1.
LEMMA StableSortType ==
  ASSUME NEW s \in Seq(Keys), Len(s) <= MaxInserts
  PROVE  StableSort(s) \in [0..Len(s)-1 -> Entry]
<1> SUFFICES ASSUME NEW p \in 0..Len(s)-1
             PROVE  StableSort(s)[p] \in Entry
  BY DEF StableSort
<1> DEFINE i == CHOOSE i \in 1..Len(s) : Rank(s, i) = p
<1>0. Keys \subseteq Int
  BY DEF Keys
<1>1. s \in Seq(Int)
  BY <1>0, SeqMonotonic
<1>2. \E j \in 1..Len(s) : Rank(s, j) = p
  BY <1>1, RankOnto
<1>3. i \in 1..Len(s)
  BY <1>2
<1>4. s[i] \in Keys /\ i \in Vals
  BY <1>3, MaxInsertsAssumption DEF Vals
<1>5. StableSort(s)[p] = [key |-> s[i], val |-> i]
  BY DEF StableSort
<1>. QED
  BY <1>4, <1>5 DEF Entry

-----------------------------------------------------------------------------
(***************************************************************************)
(* What reorganize builds and what find returns have the right shape,     *)
(* whatever the descent and the binary search compute.                     *)
(***************************************************************************)

\* A run counted by the duplicate scans is a natural number.
LEMMA RunIsNat ==
  ASSUME NEW n \in Nat, NEW S \in SUBSET (1..n)
  PROVE  Cardinality(S) \in Nat
<1>1. IsFiniteSet(1..n)
  BY FS_Interval
<1>. QED
  BY <1>1, FS_Subset, FS_CardinalityType

\* A slot of the inner-node array holds a key of the snapshot, the
\* past-the-end marker, or nothing reorganize wrote.
LEMMA EntryKeyType ==
  ASSUME NEW n \in Nat, NEW c \in [0..n-1 -> Entry], NEW p
  PROVE  EntryKey(c, n, p) \in Keys \cup {NoKey}
  BY DEF EntryKey, Entry

LEMMA BuildInnerType ==
  ASSUME NEW n \in Nat, NEW c \in [0..n-1 -> Entry]
  PROVE  BuildInner(c, n) \in [Slots -> Keys \cup {NoKey, Uninit}]
<1>1. \A p : EntryKey(c, n, p) \in Keys \cup {NoKey}
  BY EntryKeyType
<1>. QED
  BY <1>1 DEF BuildInner

\* Every value find emits is the value of an entry, or the past-the-end
\* marker; the output is Undefined only after an uninitialised read.
LEMMA FindOutType ==
  ASSUME TypeOK, NEW key \in Keys
  PROVE  FindRun(key).out \in Seq(Vals \cup {NoVal}) \cup {Undefined}
<1> DEFINE V == Vals \cup {NoVal}
<1>1. \A p : ValAt(p) \in V
  BY DEF ValAt, TypeOK, Entry
<1>2. \A a, cr, ir : Scan(key, a, cr, ir).out \in Seq(V)
  <2> SUFFICES ASSUME NEW a, NEW cr, NEW ir
               PROVE  Scan(key, a, cr, ir).out \in Seq(V)
    OBVIOUS
  <2>1. LeftRun(key, a) \in Nat /\ RightRun(key, a) \in Nat
    BY RunIsNat DEF TypeOK, LeftRun, RightRun
  <2>2. <<ValAt(a)>> \in Seq(V)
    BY <1>1
  <2>3. [j \in 1..LeftRun(key, a) |-> ValAt(a - j)] \in Seq(V)
    BY <1>1, <2>1
  <2>4. [j \in 1..RightRun(key, a) |-> ValAt(a + j)] \in Seq(V)
    BY <1>1, <2>1
  <2>. QED
    BY <2>2, <2>3, <2>4, ConcatProperties DEF Scan
<1>3. [j \in 1..size |-> ValAt(j - 1)] \in Seq(V)
  BY <1>1 DEF TypeOK
<1>4. <<>> \in Seq(V)
  OBVIOUS
<1>. QED
  BY <1>2, <1>3, <1>4 DEF FindRun, Answer

-----------------------------------------------------------------------------
(***************************************************************************)
(* Type correctness.                                                       *)
(***************************************************************************)

\* The record an operation that returns nothing leaves in last.
LEMMA NoResultType ==
  /\ DOMAIN NoResult = {"op", "lo", "hi", "out", "cread", "iread"}
  /\ NoResult.op \in {"none", "find", "range"}
  /\ NoResult.lo \in Keys
  /\ NoResult.hi \in Keys
  /\ NoResult.out \in Seq(Vals \cup {NoVal}) \cup {Undefined}
  BY NumKeysAssumption DEF NoResult, Keys

\* The initial state of a fresh index is well typed.
LEMMA TypeOKInit == Init => TypeOK
  <2> SUFFICES ASSUME Init PROVE TypeOK
    OBVIOUS
  <2>1. 0..0-1 = {}
    OBVIOUS
  <2>2. container \in [0..size-1 -> Entry]
    BY <2>1 DEF Init
  <2>3. keyMin \in Keys /\ keyMax \in Keys
    BY NumKeysAssumption DEF Init, Keys
  <2>4. store \in Seq(Keys) /\ Len(store) <= MaxInserts /\ size \in Nat
    BY EmptySeq, MaxInsertsAssumption DEF Init
  <2>5. inner \in [Slots -> Keys \cup {NoKey, Uninit}]
    BY DEF Init
  <2>6. /\ innerPtr \in {"uninit", "heap", "null"}
        /\ leaked \in BOOLEAN /\ badFree \in BOOLEAN
        /\ phase \in {"running", "aborted", "destroyed"}
    BY DEF Init
  <2>7. last = NoResult
    BY DEF Init
  <2>. QED
    BY <2>2, <2>3, <2>4, <2>5, <2>6, <2>7, NoResultType DEF TypeOK

\* Every operation keeps the state well typed.
LEMMA TypeOKStep == TypeOK /\ [Next]_vars => TypeOK'
  <2> SUFFICES ASSUME TypeOK, [Next]_vars PROVE TypeOK'
    OBVIOUS
  <2>1. CASE \E key \in Keys : Insert(key)
    <3>1. PICK key \in Keys : Insert(key)
      BY <2>1
    <3>2. store' \in Seq(Keys) /\ Len(store') = Len(store) + 1
      BY <3>1, AppendProperties DEF Insert, TypeOK
    <3>3. Len(store') <= MaxInserts
      BY <3>1, <3>2, LenProperties, MaxInsertsAssumption DEF Insert, TypeOK
    <3>4. /\ last' = NoResult
          /\ UNCHANGED <<container, size, inner, keyMin, keyMax, innerPtr,
                         leaked, badFree, phase>>
      BY <3>1 DEF Insert
    <3>. QED
      BY <3>2, <3>3, <3>4, NoResultType DEF TypeOK
  <2>2. CASE Reorganize
    <3> DEFINE n == Len(store)
               c == StableSort(store)
    <3>1. n \in Nat /\ n >= 1
      BY <2>2, PowAssumption DEF Reorganize, LayersFit, InnerSize, TypeOK
    <3>2. c \in [0..n-1 -> Entry]
      BY StableSortType DEF TypeOK
    <3>3. c[0].key \in Keys /\ c[n-1].key \in Keys
      BY <3>1, <3>2 DEF Entry
    <3>4. inner' \in [Slots -> Keys \cup {NoKey, Uninit}]
      BY <2>2, <3>1, <3>2, BuildInnerType DEF Reorganize
    <3>. QED
      BY <2>2, <3>1, <3>2, <3>3, <3>4, NumKeysAssumption
      DEF Reorganize, KeyBounds, TypeOK, NoResult, Keys
  <2>3. CASE ReorganizeAbort
    BY <2>3, StableSortType, NumKeysAssumption
    DEF ReorganizeAbort, TypeOK, NoResult, Keys
  <2>4. CASE \E key \in Keys : Find(key)
    BY <2>4, FindOutType DEF Find, TypeOK
  <2>5. CASE \E lhs, rhs \in Keys : FindRange(lhs, rhs)
    BY <2>5 DEF FindRange, TypeOK
  <2>6. CASE Destroy
    BY <2>6, NumKeysAssumption DEF Destroy, TypeOK, NoResult, Keys
  <2>7. CASE UNCHANGED vars
    BY <2>7 DEF vars, TypeOK
  <2>. QED
    BY <2>1, <2>2, <2>3, <2>4, <2>5, <2>6, <2>7 DEF Next

\* The snapshot, the inner-node array, the key range and every result
\* recorded by find and find_range keep their types across every sequence
\* of insert, reorganize, find, find_range and destruction.
THEOREM TypeCorrect == Spec => []TypeOK
  BY TypeOKInit, TypeOKStep, PTL DEF Spec

-----------------------------------------------------------------------------
(***************************************************************************)
(* The published snapshot.  Pos(s, p) is the tuple the sort puts at       *)
(* position p.                                                            *)
(***************************************************************************)
Pos(s, p) == CHOOSE i \in 1..Len(s) : Rank(s, i) = p

LEMMA PosSpec ==
  ASSUME NEW s \in Seq(Int), NEW p \in 0..Len(s)-1
  PROVE  Pos(s, p) \in 1..Len(s) /\ Rank(s, Pos(s, p)) = p
<1>1. \E i \in 1..Len(s) : Rank(s, i) = p
  BY RankOnto
<1>. QED
  BY <1>1 DEF Pos

\* The sort emits each tuple under its own key, in key order with ties in
\* insertion order.
LEMMA StableSortSorted ==
  ASSUME NEW s \in Seq(Int)
  PROVE  /\ \A p \in 0..Len(s)-1 :
              /\ StableSort(s)[p].val \in 1..Len(s)
              /\ s[StableSort(s)[p].val] = StableSort(s)[p].key
         /\ \A p, q \in 0..Len(s)-1 : p < q =>
              \/ StableSort(s)[p].key < StableSort(s)[q].key
              \/ /\ StableSort(s)[p].key = StableSort(s)[q].key
                 /\ StableSort(s)[p].val < StableSort(s)[q].val
<1> DEFINE c == StableSort(s)
<1>1. \A p \in 0..Len(s)-1 : c[p] = [key |-> s[Pos(s, p)], val |-> Pos(s, p)]
  BY DEF StableSort, Pos
<1>2. \A p \in 0..Len(s)-1 : c[p].val \in 1..Len(s) /\ s[c[p].val] = c[p].key
  <2> SUFFICES ASSUME NEW p \in 0..Len(s)-1
               PROVE  c[p].val \in 1..Len(s) /\ s[c[p].val] = c[p].key
    OBVIOUS
  <2>1. Pos(s, p) \in 1..Len(s)
    BY PosSpec
  <2>2. c[p] = [key |-> s[Pos(s, p)], val |-> Pos(s, p)]
    BY <1>1
  <2>. QED
    BY <2>1, <2>2
<1>3. ASSUME NEW p \in 0..Len(s)-1, NEW q \in 0..Len(s)-1, p < q
      PROVE  \/ c[p].key < c[q].key
             \/ c[p].key = c[q].key /\ c[p].val < c[q].val
  <2> DEFINE i == Pos(s, p)
             j == Pos(s, q)
  <2>1. i \in 1..Len(s) /\ Rank(s, i) = p /\ j \in 1..Len(s) /\ Rank(s, j) = q
    BY PosSpec
  <2>2. ~Before(s, j, i)
    <3> SUFFICES ASSUME Before(s, j, i) PROVE FALSE
      OBVIOUS
    <3>1. Rank(s, j) < Rank(s, i)
      BY <2>1, RankOrder
    <3>. QED
      BY <3>1, <2>1, <1>3
  <2>3. i # j
    BY <2>1, <1>3
  <2>4. s[i] \in Int /\ s[j] \in Int
    BY <2>1, ElementOfSeq
  <2>5. Before(s, i, j)
    BY <2>1, <2>2, <2>3, <2>4 DEF Before
  <2>6. c[p] = [key |-> s[i], val |-> i] /\ c[q] = [key |-> s[j], val |-> j]
    BY <1>1
  <2>. QED
    BY <2>5, <2>6 DEF Before
<1>. QED
  BY <1>2, <1>3

\* The snapshot container_ holds tuples inserted before the last
\* reorganize, sorted by key with equal keys in insertion order.  This is
\* what the spec-modelled base_reorganize produces; it is part of the
\* inductive invariant because key_min_ and key_max_ (container_[0] and
\* container_[size_-1]) bound the snapshot only on a sorted array.
SnapshotSorted ==
  /\ size <= Len(store)
  /\ \A p \in 0..size-1 :
       /\ container[p].val \in 1..Len(store)
       /\ store[container[p].val] = container[p].key
  /\ \A p, q \in 0..size-1 : p < q =>
       \/ container[p].key < container[q].key
       \/ container[p].key = container[q].key /\ container[p].val < container[q].val

(***************************************************************************)
(* The inductive invariant: the snapshot is sorted and key_min_/key_max_  *)
(* are its first and last keys while the index runs.  The second part is  *)
(* what makes KeyRangeCoversSnapshot inductive: the bounds are set only   *)
(* by reorganize, from the snapshot it has just built.                     *)
(***************************************************************************)
KeyBoundsOfSnapshot ==
  (phase = "running" /\ size > 0) =>
    keyMin = container[0].key /\ keyMax = container[size-1].key

IInv == TypeOK /\ SnapshotSorted /\ KeyBoundsOfSnapshot

LEMMA IInvInit == Init => IInv
<1> SUFFICES ASSUME Init PROVE IInv
  OBVIOUS
<1>1. TypeOK
  BY TypeOKInit
<1>2. 0..0-1 = {}
  OBVIOUS
<1>. QED
  BY <1>1, <1>2 DEF Init, IInv, SnapshotSorted, KeyBoundsOfSnapshot

\* A reorganize, completed or aborted, publishes a sorted snapshot of the
\* whole store.
LEMMA SnapshotOfStore ==
  ASSUME TypeOK, container' = StableSort(store), size' = Len(store),
         store' = store
  PROVE  SnapshotSorted'
<1>0. Keys \subseteq Int
  BY DEF Keys
<1>1. store \in Seq(Int)
  BY <1>0, SeqMonotonic DEF TypeOK
<1> DEFINE c == StableSort(store)
           n == Len(store)
<1>2. /\ \A p \in 0..n-1 : c[p].val \in 1..n /\ store[c[p].val] = c[p].key
      /\ \A p, q \in 0..n-1 : p < q =>
           \/ c[p].key < c[q].key
           \/ c[p].key = c[q].key /\ c[p].val < c[q].val
  BY <1>1, StableSortSorted
<1>3. n \in Nat
  BY <1>1, LenProperties
<1>. QED
  BY <1>2, <1>3 DEF SnapshotSorted

LEMMA IInvStep == IInv /\ [Next]_vars => IInv'
<1> SUFFICES ASSUME IInv, [Next]_vars PROVE IInv'
  OBVIOUS
<1>0. TypeOK'
  BY TypeOKStep DEF IInv
<1>1. CASE \E key \in Keys : Insert(key)
  <2>1. PICK key \in Keys : Insert(key)
    BY <1>1
  <2>2. /\ Len(store') = Len(store) + 1
        /\ \A v \in 1..Len(store) : store'[v] = store[v]
    BY <2>1, AppendProperties DEF Insert, IInv, TypeOK
  <2>3. UNCHANGED <<container, size, keyMin, keyMax, phase>>
    BY <2>1 DEF Insert
  <2>4. SnapshotSorted'
    <3>1. Len(store) \in Nat /\ size \in Nat /\ size <= Len(store)
      BY LenProperties DEF IInv, TypeOK, SnapshotSorted
    <3>2. size' <= Len(store')
      BY <3>1, <2>2, <2>3
    <3>3. ASSUME NEW p \in 0..size'-1
          PROVE  /\ container'[p].val \in 1..Len(store')
                 /\ store'[container'[p].val] = container'[p].key
      <4>1. p \in 0..size-1
        BY <2>3
      <4>2. container[p].val \in 1..Len(store)
            /\ store[container[p].val] = container[p].key
        BY <4>1 DEF IInv, SnapshotSorted
      <4>. QED
        BY <4>1, <4>2, <3>1, <2>2, <2>3
    <3>4. \A p, q \in 0..size'-1 : p < q =>
            \/ container'[p].key < container'[q].key
            \/ container'[p].key = container'[q].key /\ container'[p].val < container'[q].val
      BY <2>3 DEF IInv, SnapshotSorted
    <3>. QED
      BY <3>2, <3>3, <3>4 DEF SnapshotSorted
  <2>5. KeyBoundsOfSnapshot'
    BY <2>3 DEF IInv, KeyBoundsOfSnapshot
  <2>. QED
    BY <1>0, <2>4, <2>5 DEF IInv
<1>2. CASE Reorganize
  <2> DEFINE n == Len(store)
             c == StableSort(store)
  <2>1. n \in Nat /\ n >= 1
    BY <1>2, PowAssumption DEF Reorganize, LayersFit, InnerSize, IInv, TypeOK
  <2>2. SnapshotSorted'
    BY <1>2, SnapshotOfStore DEF Reorganize, IInv
  <2>3. keyMin' = c[0].key /\ keyMax' = c[n-1].key /\ size' = n /\ container' = c
    BY <1>2 DEF Reorganize, KeyBounds
  <2>. QED
    BY <1>0, <2>2, <2>3 DEF IInv, KeyBoundsOfSnapshot
<1>3. CASE ReorganizeAbort
  <2>1. SnapshotSorted'
    BY <1>3, SnapshotOfStore DEF ReorganizeAbort, IInv
  <2>. QED
    BY <1>0, <1>3, <2>1 DEF IInv, KeyBoundsOfSnapshot, ReorganizeAbort
<1>4. CASE \E key \in Keys : Find(key)
  <2>1. UNCHANGED <<store, container, size, keyMin, keyMax, phase>>
    BY <1>4 DEF Find
  <2>. QED
    BY <1>0, <2>1 DEF IInv, SnapshotSorted, KeyBoundsOfSnapshot
<1>5. CASE \E lhs, rhs \in Keys : FindRange(lhs, rhs)
  <2>1. UNCHANGED <<store, container, size, keyMin, keyMax, phase>>
    BY <1>5 DEF FindRange
  <2>. QED
    BY <1>0, <2>1 DEF IInv, SnapshotSorted, KeyBoundsOfSnapshot
<1>6. CASE Destroy
  <2>1. UNCHANGED <<store, container, size>> /\ phase' = "destroyed"
    BY <1>6 DEF Destroy
  <2>. QED
    BY <1>0, <2>1 DEF IInv, SnapshotSorted, KeyBoundsOfSnapshot
<1>7. CASE UNCHANGED vars
  BY <1>0, <1>7 DEF vars, IInv, SnapshotSorted, KeyBoundsOfSnapshot
<1>. QED
  BY <1>1, <1>2, <1>3, <1>4, <1>5, <1>6, <1>7 DEF Next

\* The sorted snapshot and its key bounds (used by KeyRangeCovers below).
LEMMA IInvHolds == Spec => []IInv
  BY IInvInit, IInvStep, PTL DEF Spec

\* key_min_ and key_max_ bound every key of the snapshot while the index
\* serves lookups, so find's early return for a key outside them is safe.
THEOREM KeyRangeCovered == Spec => []KeyRangeCoversSnapshot
<1>1. IInv => KeyRangeCoversSnapshot
  <2> SUFFICES ASSUME IInv, phase = "running", NEW p \in 0..size-1
               PROVE  keyMin <= container[p].key /\ container[p].key <= keyMax
    BY DEF KeyRangeCoversSnapshot
  <2>1. size \in Nat /\ size > 0
    BY DEF IInv, TypeOK
  <2>2. keyMin = container[0].key /\ keyMax = container[size-1].key
    BY <2>1 DEF IInv, KeyBoundsOfSnapshot
  <2>3. container[0].key \in Int /\ container[p].key \in Int
        /\ container[size-1].key \in Int
    BY <2>1 DEF IInv, TypeOK, Entry, Keys
  <2>4. container[0].key <= container[p].key
    <3>1. CASE p = 0
      BY <3>1, <2>3
    <3>2. CASE p # 0
      BY <3>2, <2>1, <2>3 DEF IInv, SnapshotSorted
    <3>. QED
      BY <3>1, <3>2
  <2>5. container[p].key <= container[size-1].key
    <3>1. CASE p = size-1
      BY <3>1, <2>3
    <3>2. CASE p # size-1
      BY <3>2, <2>1, <2>3 DEF IInv, SnapshotSorted
    <3>. QED
      BY <3>1, <3>2
  <2>. QED
    BY <2>2, <2>4, <2>5
<1>. QED
  BY <1>1, IInvHolds, PTL


=============================================================================
