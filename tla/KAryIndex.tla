------------------------------ MODULE KAryIndex ------------------------------
(***************************************************************************)
(* The static k-ary search index of src/src/static_index/kary_index.h      *)
(* (class static_index::KAryIndex) together with the part of its base      *)
(* class BaseStaticIndex that it relies on (insert, base_reorganize,       *)
(* container_, size_), which is not under src/ and is modelled from the    *)
(* spec (sections 4.2 and 4.6).                                            *)
(*                                                                         *)
(* Keys are the naturals 0..NumKeys-1.  The value stored with a tuple is   *)
(* its offset in the value store, here its 1-based insertion number, so    *)
(* that insertion order can be read back from the values a lookup emits.   *)
(* The snapshot container_ is a function over 0..size-1 and the inner-node *)
(* array inner_nodes_ a function over 0..K^L-2, both indexed as in the     *)
(* code.                                                                   *)
(***************************************************************************)
EXTENDS Integers, Sequences, FiniteSets

CONSTANTS
  K,           \* k_ : the fanout of the inner tree
  L,           \* num_layers_ : the number of inner layers
  NumKeys,     \* keys are 0..NumKeys-1
  MaxInserts,  \* bound on the number of tuples inserted
  Uninit,      \* content of an inner-node slot that was never written
  Undefined    \* the result of a lookup whose behaviour is undefined

\* KAryIndex(): ASSERT(k_ >= 2, ...).
ASSUME KAssumption == K \in Nat /\ K >= 2
ASSUME LAssumption == L \in Nat
ASSUME NumKeysAssumption == NumKeys \in Nat \ {0}
ASSUME MaxInsertsAssumption == MaxInserts \in Nat
ASSUME UninitAssumption == Uninit \notin Int
ASSUME UndefinedAssumption == Undefined \notin Seq(Int)
\* A fact of arithmetic the provers have no axioms for.
ASSUME PowAssumption == K^L \in Nat \ {0}

Keys == 0..NumKeys-1
Vals == 1..MaxInserts
Entry == [key : Keys, val : Vals]

\* std::pow(k_, num_layers_) - 1 : the length of inner_nodes_.
InnerSize == K^L - 1
Slots == 0..InnerSize-1

\* What an out-of-bounds read of container_ yields in the model: a key and a
\* value no tuple has.  Such reads are recorded and ruled out by FindInBounds.
NoKey == -1
NoVal == 0

VARIABLES
  store,      \* the keys inserted, in insertion order (value i = offset i)
  container,  \* container_ : the sorted snapshot, over 0..size-1
  size,       \* size_
  inner,      \* inner_nodes_
  keyMin,     \* key_min_
  keyMax,     \* key_max_
  innerPtr,   \* what inner_nodes_ points to: "uninit", "heap" or "null"
  leaked,     \* an inner-node array was dropped without delete[]
  badFree,    \* delete[] was applied to a pointer never allocated
  phase,      \* "running", "aborted" (a failed ASSERT) or "destroyed"
  last        \* the most recent operation and what it returned and read

vars == <<store, container, size, inner, keyMin, keyMax, innerPtr, leaked,
          badFree, phase, last>>

NoResult == [op |-> "none", lo |-> 0, hi |-> 0, out |-> <<>>,
             cread |-> {}, iread |-> {}]

TypeOK ==
  /\ store \in Seq(Keys)
  /\ Len(store) <= MaxInserts
  /\ size \in Nat
  /\ container \in [0..size-1 -> Entry]
  /\ inner \in [Slots -> Keys \cup {NoKey, Uninit}]
  /\ keyMin \in Keys
  /\ keyMax \in Keys
  /\ innerPtr \in {"uninit", "heap", "null"}
  /\ leaked \in BOOLEAN
  /\ badFree \in BOOLEAN
  /\ phase \in {"running", "aborted", "destroyed"}
  \* The positions a lookup read (cread, iread) are the subject of
  \* FindInBounds and FindReadsWrittenSlots.
  /\ DOMAIN last = {"op", "lo", "hi", "out", "cread", "iread"}
  /\ last.op \in {"none", "find", "range"}
  /\ last.lo \in Keys
  /\ last.hi \in Keys
  /\ last.out \in Seq(Vals \cup {NoVal}) \cup {Undefined}

-----------------------------------------------------------------------------
(***************************************************************************)
(* The sorted snapshot (BaseStaticIndex::base_reorganize, spec 4.2): the   *)
(* tuples sorted by key, ties kept in insertion order.  Tuple i goes to    *)
(* the position equal to the number of tuples ordered before it.          *)
(***************************************************************************)
Rank(s, i) ==
  Cardinality({j \in 1..Len(s) : s[j] < s[i] \/ (s[j] = s[i] /\ j < i)})

StableSort(s) ==
  [p \in 0..Len(s)-1 |->
     LET i == CHOOSE i \in 1..Len(s) : Rank(s, i) = p
     IN  [key |-> s[i], val |-> i]]

Least(S) == CHOOSE i \in S : \A j \in S : i <= j

\* The key at position p of a snapshot c over 0..n-1; a position outside it
\* would read past the end of the vector, which yields NoKey here.
EntryKey(c, n, p) == IF p \in 0..n-1 THEN c[p].key ELSE NoKey

(***************************************************************************)
(* The subrange of child c of the node over [lo, hi] whose pivots sit at   *)
(* lo + step*(i+1); the same arithmetic in construct_inner_layers(_internal)*)
(* and find_inner_layers(_internal).  The +1 skips the pivot's position.   *)
(***************************************************************************)
ChildLo(lo, step, c) == IF c = 0 THEN lo ELSE lo + step * c + 1
ChildHi(lo, hi, step, c) == IF c = K - 1 THEN hi ELSE lo + step * (c + 1) - 1

(***************************************************************************)
(* construct_inner_layers: the node of group g at layer l covers a         *)
(* subrange of the snapshot c of length n; the recursion writes the K-1    *)
(* pivots of a node only if it and all its ancestors have a non-empty      *)
(* range (the early return when begin_offset > end_offset skips the whole  *)
(* subtree).  Layer l holds groups 0..K^l-1 from slot K^l-1 on, group g at *)
(* dst_pos g*(K-1); child c of group g is group g*K+c.                     *)
(***************************************************************************)
NodeRanges(n) ==
  LET R[l \in Nat] ==
        IF l = 0 THEN [g \in {0} |-> [lo |-> 0, hi |-> n - 1, live |-> TRUE]]
        ELSE [g \in 0..K^l - 1 |->
                LET p    == R[l-1][g \div K]
                    step == (p.hi - p.lo) \div K
                    lo   == ChildLo(p.lo, step, g % K)
                    hi   == ChildHi(p.lo, p.hi, step, g % K)
                IN  [lo |-> lo, hi |-> hi, live |-> p.live /\ lo <= hi]]
  IN  R

BuildInner(c, n) ==
  LET R == NodeRanges(n) IN
  [j \in Slots |->
     LET l    == CHOOSE l \in 0..L-1 : K^l - 1 <= j /\ j < K^(l+1) - 1
         off  == j - (K^l - 1)
         node == R[l][off \div (K - 1)]
         step == (node.hi - node.lo) \div K
     IN  IF node.live THEN EntryKey(c, n, node.lo + step * ((off % (K - 1)) + 1))
                      ELSE Uninit]

-----------------------------------------------------------------------------
(***************************************************************************)
(* Lookup.  KeyAt and ValAt read container_; a position outside 0..size-1  *)
(* yields NoKey / NoVal and is caught by FindInBounds through cread.      *)
(***************************************************************************)
KeyAt(p) == EntryKey(container, size, p)
ValAt(p) == IF p \in 0..size-1 THEN container[p].val ELSE NoVal

(***************************************************************************)
(* One level of find_inner_layers(_internal) at a layer below L: compare   *)
(* key with the K-1 pivots of the node; on equality return the pivot's     *)
(* snapshot position, otherwise descend into the first child whose pivot   *)
(* exceeds key (child K-1 if none).  Reading a slot reorganize never wrote *)
(* is undefined behaviour and ends the descent with res = "ub".            *)
(***************************************************************************)
DescStep(key, s) ==
  LET grp  == {s.base + s.dst + i : i \in 0..K-2}
      piv(i) == inner[s.base + s.dst + i]
      step == (s.hi - s.lo) \div K
  IN  IF \E j \in grp : inner[j] = Uninit
        THEN [s EXCEPT !.res = "ub", !.iread = @ \cup grp]
      ELSE IF \E i \in 0..K-2 : key = piv(i)
        THEN LET i == Least({h \in 0..K-2 : key = piv(h)})
             IN  [s EXCEPT !.lo = s.lo + step * (i + 1),
                           !.hi = s.lo + step * (i + 1),
                           !.res = "hit",
                           !.iread = @ \cup {s.base + s.dst + h : h \in 0..i}]
      ELSE LET c == IF \E i \in 0..K-2 : key < piv(i)
                      THEN Least({h \in 0..K-2 : key < piv(h)})
                      ELSE K - 1
           IN  [lo |-> ChildLo(s.lo, step, c),
                hi |-> ChildHi(s.lo, s.hi, step, c),
                base |-> (s.base + 1) * K - 1,
                dst |-> s.dst * K + c * (K - 1),
                res |-> "leaf",
                iread |-> s.iread \cup grp]

\* find_inner_layers: the snapshot range [lo, hi] the inner layers lead to.
\* With no inner layers the code returns (0, size_), one past the end.
Descend(key) ==
  IF L = 0
    THEN [lo |-> 0, hi |-> size, base |-> 0, dst |-> 0, res |-> "leaf",
          iread |-> {}]
    ELSE LET D[l \in Nat] ==
               IF l = 0 THEN [lo |-> 0, hi |-> size - 1, base |-> 0, dst |-> 0,
                              res |-> "leaf", iread |-> {}]
               ELSE IF D[l-1].res # "leaf" THEN D[l-1]
               ELSE DescStep(key, D[l-1])
         IN  D[L]

(***************************************************************************)
(* find_internal: binary search of container_[b..e] for key, returning     *)
(* size_ if absent.  Each call either returns or shrinks the range, so     *)
(* size + 2 rounds reach the answer.                                       *)
(***************************************************************************)
BinSearch(key, b, e) ==
  LET B[i \in Nat] ==
        IF i = 0 THEN [lo |-> b, hi |-> e, res |-> -1, reads |-> {}]
        ELSE LET s == B[i-1] IN
             IF s.res # -1 THEN s
             ELSE IF s.lo > s.hi THEN [s EXCEPT !.res = size]
             ELSE LET m == (s.lo + s.hi) \div 2 IN
                  IF key = KeyAt(m)
                    THEN [s EXCEPT !.res = m, !.reads = @ \cup {m}]
                  ELSE IF key > KeyAt(m)
                    THEN [s EXCEPT !.lo = m + 1, !.reads = @ \cup {m}]
                  ELSE [s EXCEPT !.hi = m - 1, !.reads = @ \cup {m}]
  IN  B[size + 2]

\* The "move left" and "move right" loops of find: how many neighbours of
\* the anchor a carry key.  The left loop stops at 0, the right one at
\* ScanRightEnd.
LeftRunMut(key, a) ==
  Cardinality({t \in 1..size : \A j \in 1..t : a - j >= 1 /\ KeyAt(a - j) = key})
LeftRun(key, a) ==
  Cardinality({t \in 1..size : \A j \in 1..t : a - j >= 0 /\ KeyAt(a - j) = key})
ScanRightEndMut == size
ScanRightEnd == size - 1
RightRun(key, a) ==
  Cardinality({t \in 1..size :
                 \A j \in 1..t : a + j <= ScanRightEnd /\ KeyAt(a + j) = key})

\* The tail of find from the anchor on: emit the anchor, then the run to
\* its left walking leftwards, then the run to its right.  Each loop also
\* reads the first position that stops it, if it passes the bound check.
Scan(key, a, creads, ireads) ==
  LET tl == LeftRun(key, a)
      tr == RightRun(key, a)
  IN  [out   |-> <<ValAt(a)>> \o [j \in 1..tl |-> ValAt(a - j)]
                              \o [j \in 1..tr |-> ValAt(a + j)],
       cread |-> creads \cup {a} \cup {a - j : j \in 1..tl} \cup {a + j : j \in 1..tr}
                 \cup {p \in {a - tl - 1} : p >= 0}
                 \cup {p \in {a + tr + 1} : p <= ScanRightEnd},
       iread |-> ireads]

Answer(out, creads, ireads) == [out |-> out, cread |-> creads, iread |-> ireads]

\* The early return of find for a key outside [key_min_, key_max_].
OutOfKeyRangeMut(key) == key < keyMin
OutOfKeyRange(key) == key > keyMax \/ key < keyMin

\* KAryIndex::find.
FindRun(key) ==
  IF size = 0 THEN Answer(<<>>, {}, {})
  ELSE IF OutOfKeyRange(key) THEN Answer(<<>>, {}, {})
  ELSE IF keyMax = keyMin
    THEN IF keyMax = key
           THEN Answer([j \in 1..size |-> ValAt(j - 1)], 0..size-1, {})
           ELSE Answer(<<>>, {}, {})
  ELSE LET d == Descend(key) IN
       IF d.res = "ub" THEN Answer(Undefined, {}, d.iread)
       ELSE LET bs     == BinSearch(key, d.lo, d.hi)
                anchor == IF d.lo = d.hi THEN d.lo ELSE bs.res
                creads == IF d.lo = d.hi THEN {} ELSE bs.reads
            IN  IF anchor = size THEN Answer(<<>>, creads, d.iread)
                ELSE Scan(key, anchor, creads, d.iread)

-----------------------------------------------------------------------------
(***************************************************************************)
(* Operations.                                                             *)
(***************************************************************************)
Init ==
  /\ store = <<>>
  /\ size = 0
  /\ container = [p \in {} |-> [key |-> 0, val |-> 1]]
  /\ inner = [j \in Slots |-> Uninit]
  \* key_min_ and key_max_ are left uninitialised by the constructor; find
  \* returns on size_ = 0 before reading them and reorganize sets them, so
  \* one representative of their garbage content stands for all.
  /\ keyMin = 0
  /\ keyMax = 0
  /\ innerPtr = "uninit"
  /\ leaked = FALSE
  /\ badFree = FALSE
  /\ phase = "running"
  /\ last = NoResult

\* BaseStaticIndex::insert (spec 4.1): append the tuple; the published
\* snapshot is unchanged until the next reorganize.
Insert(key) ==
  /\ phase = "running"
  /\ Len(store) < MaxInserts
  /\ store' = Append(store, key)
  /\ last' = NoResult
  /\ UNCHANGED <<container, size, inner, keyMin, keyMax, innerPtr, leaked,
                 badFree, phase>>

\* ASSERT(inner_node_size < size_, "exceed maximum layers").
LayersFitMut(n) == 0 < n
LayersFit(n) == InnerSize < n

\* key_min_ and key_max_ from the first and last entries of the snapshot.
KeyBoundsSwapMut(c, n) == [min |-> c[n - 1].key, max |-> c[0].key]
KeyBoundsMut(c, n) == [min |-> c[0].key, max |-> c[n - 1].val]
KeyBounds(c, n) == [min |-> c[0].key, max |-> c[n - 1].key]

\* KAryIndex::reorganize when ASSERT(inner_node_size < size_) holds:
\* base_reorganize, the key range, a fresh inner_nodes_ array (the old one
\* is not freed) and construct_inner_layers.
Reorganize ==
  LET c == StableSort(store)
      n == Len(store)
  IN  /\ phase = "running"
      /\ LayersFit(n)
      /\ container' = c
      /\ size' = n
      /\ keyMin' = KeyBounds(c, n).min
      /\ keyMax' = KeyBounds(c, n).max
      /\ inner' = IF L # 0 THEN BuildInner(c, n) ELSE [j \in Slots |-> Uninit]
      /\ innerPtr' = IF L # 0 THEN "heap" ELSE "null"
      /\ leaked' = (leaked \/ (L # 0 /\ innerPtr = "heap"))
      /\ last' = NoResult
      /\ UNCHANGED <<store, badFree, phase>>

\* KAryIndex::reorganize when the ASSERT fails: base_reorganize has already
\* replaced the snapshot, then the failed ASSERT terminates the program.
ReorganizeAbort ==
  /\ phase = "running"
  /\ ~LayersFit(Len(store))
  /\ container' = StableSort(store)
  /\ size' = Len(store)
  /\ phase' = "aborted"
  /\ last' = NoResult
  /\ UNCHANGED <<store, inner, keyMin, keyMax, innerPtr, leaked, badFree>>

\* KAryIndex::find(key, values).
Find(key) ==
  /\ phase = "running"
  /\ last' = LET r == FindRun(key)
              IN  [op |-> "find", lo |-> key, hi |-> key, out |-> r.out,
                   cread |-> r.cread, iread |-> r.iread]
  /\ UNCHANGED <<store, container, size, inner, keyMin, keyMax, innerPtr,
                 leaked, badFree, phase>>

\* KAryIndex::find_range(lhs, rhs, values): assert(lhs < rhs), then only the
\* empty and out-of-range early returns; nothing is ever emitted.
FindRange(lhs, rhs) ==
  /\ phase = "running"
  /\ lhs < rhs
  /\ last' = [op |-> "range", lo |-> lhs, hi |-> rhs, out |-> <<>>,
              cread |-> {}, iread |-> {}]
  /\ UNCHANGED <<store, container, size, inner, keyMin, keyMax, innerPtr,
                 leaked, badFree, phase>>

\* ~KAryIndex: delete[] inner_nodes_ whenever num_layers_ != 0.
Destroy ==
  /\ phase = "running"
  /\ phase' = "destroyed"
  /\ badFree' = (L # 0 /\ innerPtr = "uninit")
  /\ last' = NoResult
  /\ UNCHANGED <<store, container, size, inner, keyMin, keyMax, innerPtr,
                 leaked>>

Next ==
  \/ \E key \in Keys : Insert(key)
  \/ Reorganize
  \/ ReorganizeAbort
  \/ \E key \in Keys : Find(key)
  \/ \E lhs, rhs \in Keys : FindRange(lhs, rhs)
  \/ Destroy

Spec == Init /\ [][Next]_vars


-----------------------------------------------------------------------------
(***************************************************************************)
(* Properties.  Matches(k) is the set of values the published snapshot    *)
(* holds under key k; values are distinct, so a lookup returns each of     *)
(* them once exactly when its output has that set and that length.        *)
(***************************************************************************)
Matches(k) == {container[p].val : p \in {p \in 0..size-1 : container[p].key = k}}
OutSet(s) == {s[i] : i \in DOMAIN s}

\* find(key) for a key the snapshot holds m times emits exactly those m
\* values (spec 8.1): the descent through the inner pivots, the binary search
\* of the leaf range and the two duplicate scans together miss none of them
\* and emit none twice.
FindComplete ==
  (last.op = "find" /\ Matches(last.lo) # {}) =>
    /\ last.out # Undefined
    /\ OutSet(last.out) = Matches(last.lo)
    /\ Len(last.out) = Cardinality(Matches(last.lo))

\* find(key) for a key the snapshot does not hold emits nothing (spec 8.3),
\* also when key_min < key < key_max.
FindExcludesAbsentKeys ==
  (last.op = "find" /\ Matches(last.lo) = {}) => last.out = <<>>

\* The values find emits for duplicate keys come out in insertion order
\* (spec 8.2 and scenario S4): values are insertion numbers, so the output
\* must be ascending.
FindInsertionOrder ==
  (last.op = "find" /\ last.out # Undefined) =>
    \A i, j \in DOMAIN last.out : i < j => last.out[i] < last.out[j]

\* find reads container_ only at positions 0..size_-1: the range check
\* against key_min_/key_max_ keeps the binary search over (0, size_) with no
\* inner layers, and the right scan's bound, inside the snapshot.
FindInBounds == last.cread \subseteq 0..size-1

\* find reads only inner-node slots that reorganize wrote: under
\* k^L - 1 < size_ no subtree the descent can enter has an empty range, so
\* construct_inner_layers_internal never skipped it.
FindReadsWrittenSlots ==
  \A j \in last.iread : j \in Slots /\ inner[j] # Uninit

\* find_range(lhs, rhs) emits the value of every tuple with
\* lhs <= key < rhs (spec 4.5 and scenario S2).
FindRangeComplete ==
  last.op = "range" =>
    \A p \in 0..size-1 :
      (last.lo <= container[p].key /\ container[p].key < last.hi)
        => container[p].val \in OutSet(last.out)

\* While the index serves lookups, key_min_ and key_max_ bound every key of
\* the snapshot, so the early return of find for a key outside
\* [key_min_, key_max_] never drops a key the index holds.
KeyRangeCoversSnapshot ==
  phase = "running" =>
    \A p \in 0..size-1 : keyMin <= container[p].key /\ container[p].key <= keyMax

\* Every inner-node array reorganize allocates is still owned by the index
\* (spec 4.6 step 5 releases the previous allocation on a rebuild).
NoLeakedInnerArray == ~leaked

\* The destructor deletes only an inner-node array reorganize allocated.
DestructorFreesOwnArray == ~badFree

=============================================================================
