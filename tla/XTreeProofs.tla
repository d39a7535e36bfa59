----------------------------- MODULE XTreeProofs -----------------------------
(***************************************************************************)
(* Proofs about the tree index (XTree) and the iterators that walk it      *)
(* while others insert (XTreeIter), for every number of threads, every     *)
(* node size and every set of distinct keys: first what the operators of a *)
(* leaf (XNode) return, then the inner nodes, the steps, the list of       *)
(* leaves, and the scans.                                                  *)
(*                                                                         *)
(* The inner nodes are reasoned about through the paths of the searches:   *)
(* P[x] is the walk of key x from the root, level by level.  TreeInv says  *)
(* of the paths what makes the nodes a tree.  A split that climbs from a   *)
(* leaf is followed level by level (Climbed); the paths after it differ    *)
(* from those before only where a node split, and only right of its        *)
(* separator (PathsAfter).  XInv adds what the leaves hold and what the    *)
(* threads own, and is inductive.  The list of leaves is the flattening of *)
(* the levels, and a scan is divided at the low key of the leaf behind its *)
(* copied link.                                                            *)
(***************************************************************************)
EXTENDS XTreeIter, SequenceTheorems, FiniteSetTheorems, WellFoundedInduction, TLAPS

(* Least and greatest numbers. *)

\* A set of naturals has a least member.
LEMMA NatMin ==
  ASSUME NEW T \in SUBSET Nat, T # {}
  PROVE  \E m \in T : \A k \in T : m <= k
<1> DEFINE R == OpToRel(<, Nat)
<1>1. IsWellFoundedOn(R, Nat)
  BY NatLessThanWellFounded
<1>2. R = {ss \in Nat \X Nat : ss[1] < ss[2]}
  BY DEF OpToRel
<1> HIDE DEF R
<1>3. PICK x \in T : \A y \in T : <<y, x>> \notin R
  BY <1>1, WFMin
<1>4. \A y \in T : ~(y < x)
  BY <1>2, <1>3
<1>5. ASSUME NEW y \in T PROVE x <= y
  <2>1. x \in Nat /\ y \in Nat
    OBVIOUS
  <2> QED
    BY <2>1, <1>4
<1> QED
  BY <1>5

\* A bounded set of naturals has a greatest member.
LEMMA NatMax ==
  ASSUME NEW B \in Nat, NEW S \in SUBSET (0..B), S # {}
  PROVE  \E m \in S : \A k \in S : k <= m
<1> DEFINE T == {B - k : k \in S}
<1>1. T \in SUBSET Nat /\ T # {}
  <2>1. \A k \in S : k \in 0..B
    OBVIOUS
  <2>2. \A k \in 0..B : B - k \in Nat
    OBVIOUS
  <2> QED
    BY <2>1, <2>2
<1>2. PICK t \in T : \A k \in T : t <= k
  BY <1>1, NatMin
<1>3. PICK m \in S : t = B - m
  OBVIOUS
<1>4. ASSUME NEW k \in S PROVE k <= m
  <2>1. B - m <= B - k
    BY <1>2, <1>3
  <2> QED
    BY <2>1
<1> QED
  BY <1>4

\* First finds the least member of a set of naturals.
LEMMA FirstIsLeast ==
  ASSUME NEW S \in SUBSET Nat, S # {}
  PROVE  First(S) \in S /\ \A j \in S : First(S) <= j
BY NatMin DEF First

-----------------------------------------------------------------------------
(* The operators of a leaf. *)

\* The fields of a leaf.
LEMMA LeafFields ==
  ASSUME NEW l \in Leaf
  PROVE  /\ l.keys \in [Slot -> Key \cup {kInvalidKey}]
         /\ l.vals \in [Slot -> Nat]
         /\ l.incarnation \in 0..(IncarMod - 1)
         /\ l.next \in Nat
         /\ \A i \in Slot : l.keys[i] \in Nat
BY XNodeAssumption DEF Leaf, Key, kInvalidKey

\* The slot add_key takes is the first free one.
LEMMA FirstFree ==
  ASSUME NEW l \in Leaf, Free(l) # {}
  PROVE  /\ First(Free(l)) \in Slot
         /\ l.keys[First(Free(l))] = kInvalidKey
         /\ \A j \in Free(l) : First(Free(l)) <= j
<1>1. Free(l) \in SUBSET Nat
  BY XNodeAssumption DEF Free, Slot
<1>2. First(Free(l)) \in Free(l) /\ \A j \in Free(l) : First(Free(l)) <= j
  BY <1>1, FirstIsLeast
<1> QED
  BY <1>2 DEF Free

\* A leaf with a free slot takes the key and the value there.
LEMMA AddFills ==
  ASSUME NEW l \in Leaf, NEW k \in Key, NEW v \in Nat, Free(l) # {}
  PROVE  LET i == First(Free(l)) IN
         /\ Add(l, k, v) \in Leaf
         /\ Add(l, k, v).keys = [l.keys EXCEPT ![i] = k]
         /\ Add(l, k, v).vals = [l.vals EXCEPT ![i] = v]
         /\ Add(l, k, v).incarnation = l.incarnation
         /\ Add(l, k, v).next = l.next
<1>1. First(Free(l)) \in Slot
  BY FirstFree
<1> QED
  BY <1>1, LeafFields DEF Add, Leaf

\* Clear empties its slots and no others.
LEMMA ClearEmpties ==
  ASSUME NEW l \in Leaf, NEW S
  PROVE  /\ Clear(l, S) \in Leaf
         /\ \A i \in Slot : Clear(l, S).keys[i] = IF i \in S THEN kInvalidKey ELSE l.keys[i]
         /\ Clear(l, S).vals = l.vals
         /\ Clear(l, S).incarnation = l.incarnation
         /\ Clear(l, S).next = l.next
BY LeafFields DEF Clear, Leaf

\* A leaf that is allocated for a split.
LEMMA EmptyLeafType == EmptyLeaf \in Leaf
BY XNodeAssumption DEF EmptyLeaf, Leaf, Key, kInvalidKey, NoVal, Null

\* The median of a full leaf leaves room for one more key in the new leaf, and
\* some smaller key in the old one.
LEMMA MedianSplits ==
  ASSUME NEW l \in Leaf, Free(l) = {}, NEW m \in MedianSlots(l),
         \A i, j \in Slot : l.keys[i] = l.keys[j] => i = j
  PROVE  /\ m \in Slot /\ l.keys[m] \in Key
         /\ Above(l, l.keys[m]) = {i \in Slot : l.keys[i] > l.keys[m]}
         /\ Cardinality(Above(l, l.keys[m])) \in 0..(N - 2)
         /\ \E j \in Slot : l.keys[j] < l.keys[m]
<1> DEFINE A == {i \in Slot : l.keys[i] > l.keys[m]}
           LE == {i \in Slot : l.keys[i] <= l.keys[m]}
<1>1. N \in Nat /\ N >= 2
  BY XNodeAssumption
<1>2. m \in Slot /\ N \div 2 < Cardinality(LE)
  BY DEF MedianSlots
<1>3. Above(l, l.keys[m]) = A /\ l.keys[m] \in Key
  BY <1>2, LeafFields DEF Above, Used, Free
<1>4. \A i \in Slot : l.keys[i] \in Nat
  BY LeafFields
<1>5. IsFiniteSet(Slot) /\ Cardinality(Slot) = N
  BY <1>1, FS_Interval DEF Slot
<1>6. /\ IsFiniteSet(A) /\ IsFiniteSet(LE) /\ Cardinality(A) \in Nat /\ Cardinality(LE) \in Nat
  BY <1>5, FS_Subset, FS_CardinalityType
<1>7. A \cup LE = Slot /\ A \cap LE = {}
  BY <1>2, <1>4
<1>8. N = Cardinality(A) + Cardinality(LE) - 0
  BY <1>5, <1>6, <1>7, FS_Union, FS_EmptySet
<1> HIDE DEF A, LE
<1>9. Cardinality(A) <= N - 2 /\ Cardinality(LE) >= 2
  BY <1>1, <1>2, <1>6, <1>8
<1>10. PICK j \in LE : j # m
  <2>1. m \in LE
    BY <1>2, <1>4 DEF LE
  <2>2. LE # {m}
    BY <1>6, <1>9, FS_Singleton
  <2> QED
    BY <2>1, <2>2
<1>11. l.keys[j] < l.keys[m]
  BY <1>2, <1>4, <1>10 DEF LE
<1> QED
  BY <1>2, <1>3, <1>6, <1>9, <1>10, <1>11 DEF A, LE

\* The number of members below a bound grows by one at each member.
LEMMA RankSteps ==
  ASSUME NEW S \in SUBSET Slot
  PROVE  /\ IsFiniteSet(S) /\ Cardinality(S) \in 0..N
         /\ Rank(S, 0) = 0 /\ Rank(S, N) = Cardinality(S)
         /\ \A i \in 0..N : Rank(S, i) \in Nat
         /\ \A i \in Slot : Rank(S, i + 1) = IF i \in S THEN Rank(S, i) + 1 ELSE Rank(S, i)
         /\ \A i, k \in 0..N : i <= k => Rank(S, i) <= Rank(S, k)
<1> DEFINE B(i) == {j \in S : j < i}
<1>1. N \in Nat /\ IsFiniteSet(Slot) /\ Cardinality(Slot) = N
  BY XNodeAssumption, FS_Interval DEF Slot
<1>2. IsFiniteSet(S) /\ Cardinality(S) \in Nat /\ Cardinality(S) <= N
  BY <1>1, FS_Subset, FS_CardinalityType
<1>3. \A i : IsFiniteSet(B(i)) /\ Rank(S, i) = Cardinality(B(i)) /\ Cardinality(B(i)) \in Nat
  <2> TAKE i
  <2>1. B(i) \in SUBSET S
    OBVIOUS
  <2> HIDE DEF B
  <2>2. IsFiniteSet(B(i)) /\ Cardinality(B(i)) \in Nat
    BY <1>2, <2>1, FS_Subset, FS_CardinalityType
  <2> USE DEF B
  <2>3. Rank(S, i) = Cardinality(B(i))
    BY DEF Rank
  <2> QED
    BY <2>2, <2>3
<1>0. N \in Nat /\ \A j \in S : j \in Nat /\ j < N
  BY XNodeAssumption DEF Slot
<1>4. B(0) = {} /\ B(N) = S
  <2>1. \A j \in S : ~(j < 0)
    BY <1>0
  <2> QED
    BY <1>0, <2>1
<1>5. Rank(S, 0) = 0 /\ Rank(S, N) = Cardinality(S)
  BY <1>3, <1>4, FS_EmptySet
<1>6. ASSUME NEW i \in Slot
      PROVE  Rank(S, i + 1) = IF i \in S THEN Rank(S, i) + 1 ELSE Rank(S, i)
  <2>0. i \in Nat
    BY XNodeAssumption DEF Slot
  <2>1. i \notin B(i)
    BY <2>0
  <2>2. B(i + 1) = IF i \in S THEN B(i) \cup {i} ELSE B(i)
    <3>1. \A j \in S : j < i + 1 <=> j < i \/ j = i
      BY <1>0, <2>0
    <3> QED
      BY <3>1, <2>0
  <2> HIDE DEF B
  <2>3. Cardinality(B(i) \cup {i}) = Cardinality(B(i)) + 1
    BY <1>3, <2>1, FS_AddElement
  <2> QED
    BY <1>3, <2>2, <2>3
<1>7. ASSUME NEW i \in 0..N, NEW k \in 0..N, i <= k PROVE Rank(S, i) <= Rank(S, k)
  <2>1. B(i) \in SUBSET B(k)
    <3>1. i \in Int /\ k \in Int
      BY <1>0
    <3>2. \A j \in S : j < i => j < k
      BY <1>0, <1>7, <3>1
    <3> QED
      BY <3>2
  <2> HIDE DEF B
  <2>2. Cardinality(B(i)) <= Cardinality(B(k))
    BY <1>3, <2>1, FS_Subset
  <2> QED
    BY <1>3, <2>2
<1>8. \A i \in 0..N : Rank(S, i) \in Nat
  <2> HIDE DEF B
  <2> QED
    BY <1>3
<1> HIDE DEF B
<1>9. Cardinality(S) \in 0..N
  BY <1>1, <1>2
<1> QED
  BY <1>2, <1>5, <1>6, <1>7, <1>8, <1>9

\* Nth and Rank are inverse: the members of a set of slots, in order.
LEMMA NthIs ==
  ASSUME NEW S \in SUBSET Slot
  PROVE  /\ \A n \in 0..(Cardinality(S) - 1) : Nth(S, n) \in S /\ Rank(S, Nth(S, n)) = n
         /\ \A i \in S : /\ Rank(S, i) \in 0..(Cardinality(S) - 1)
                         /\ Nth(S, Rank(S, i)) = i
         /\ \A i, k \in S : Rank(S, i) = Rank(S, k) => i = k
<1>1. N \in Nat /\ Slot = 0..(N - 1)
  BY XNodeAssumption DEF Slot
<1>2. ASSUME NEW i \in S, NEW k \in S, i < k PROVE Rank(S, i) < Rank(S, k)
  <2>1. i \in Slot /\ i + 1 \in 0..N /\ i \in 0..N /\ k \in 0..N /\ i + 1 <= k
    BY <1>1, <1>2
  <2> QED
    BY <2>1, RankSteps, SMTT(30)
<1>3. \A i, k \in S : Rank(S, i) = Rank(S, k) => i = k
  <2> SUFFICES ASSUME NEW i \in S, NEW k \in S, i # k PROVE Rank(S, i) # Rank(S, k)
    OBVIOUS
  <2>1. i < k \/ k < i
    BY <1>1
  <2>2. i \in 0..N /\ k \in 0..N
    BY <1>1
  <2>3. Rank(S, i) \in Nat /\ Rank(S, k) \in Nat
    BY <2>2, RankSteps
  <2> QED
    BY <1>2, <2>1, <2>3
<1>4. ASSUME NEW n \in 0..(Cardinality(S) - 1) PROVE \E i \in S : Rank(S, i) = n
  <2> DEFINE T == {i \in 0..N : Rank(S, i) > n}
  <2>1. Cardinality(S) \in Nat /\ N \in T
    <3>1. Cardinality(S) \in 0..N /\ Rank(S, N) = Cardinality(S)
      BY RankSteps
    <3> QED
      BY <1>1, <3>1
  <2>2. PICK i \in T : \A k \in T : i <= k
    <3>1. T \in SUBSET Nat /\ T # {}
      BY <1>1, <2>1
    <3> HIDE DEF T
    <3> QED
      BY <3>1, NatMin
  <2>3. i # 0 /\ i \in 0..N /\ Rank(S, i) > n
    BY <2>1, RankSteps
  <2>4. i - 1 \in Slot /\ i - 1 \in 0..N /\ (i - 1) + 1 = i
    BY <1>1, <2>3
  <2>5. Rank(S, i - 1) <= n
    <3>1. i - 1 \notin T
      BY <1>1, <2>2, <2>4
    <3> QED
      BY <2>1, <2>4, <3>1, RankSteps
  <2> DEFINE j == i - 1
  <2>6. Rank(S, i) = IF j \in S THEN Rank(S, j) + 1 ELSE Rank(S, j)
    BY <2>4, RankSteps
  <2>7. Rank(S, j) \in Nat /\ Rank(S, i) \in Nat
    BY <2>3, <2>4, RankSteps
  <2>8. j \in S
    BY <2>1, <2>3, <2>5, <2>6, <2>7
  <2> QED
    BY <2>1, <2>3, <2>5, <2>6, <2>7, <2>8
<1>5. ASSUME NEW n \in 0..(Cardinality(S) - 1) PROVE Nth(S, n) \in S /\ Rank(S, Nth(S, n)) = n
  BY <1>4 DEF Nth, Rank
<1>6. ASSUME NEW i \in S PROVE Rank(S, i) \in 0..(Cardinality(S) - 1)
  <2>1. i \in Slot /\ i \in 0..N /\ i + 1 \in 0..N /\ N \in 0..N /\ i + 1 <= N
    BY <1>1
  <2> DEFINE k == i + 1
  <2>2. Rank(S, k) = Rank(S, i) + 1 /\ Rank(S, k) <= Rank(S, N)
    <3>1. Rank(S, i + 1) = IF i \in S THEN Rank(S, i) + 1 ELSE Rank(S, i)
      BY <2>1, RankSteps
    <3>2. k \in 0..N /\ k <= N /\ N \in 0..N
      BY <2>1
    <3> HIDE DEF k
    <3>3. Rank(S, k) <= Rank(S, N)
      BY <3>2, RankSteps
    <3> QED
      BY <3>1, <3>3 DEF k
  <2>3. Rank(S, i) \in Nat /\ Rank(S, N) = Cardinality(S) /\ Cardinality(S) \in Nat
    <3>1. \A j \in 0..N : Rank(S, j) \in Nat
      BY RankSteps
    <3>2. Cardinality(S) \in 0..N /\ Rank(S, N) = Cardinality(S)
      BY RankSteps
    <3> QED
      BY <2>1, <3>1, <3>2
  <2> QED
    BY <2>2, <2>3
<1> QED
  BY <1>3, <1>5, <1>6

-----------------------------------------------------------------------------
(* The entries of a leaf. *)

Entries(l) == {<<l.keys[i], l.vals[i]>> : i \in Used(l)}
Unique(l) == \A i, j \in Used(l) : l.keys[i] = l.keys[j] => i = j

\* The keys of a leaf are those of its entries.
LEMMA EntryKeys ==
  ASSUME NEW l \in Leaf
  PROVE  /\ Used(l) \in SUBSET Slot /\ Free(l) \in SUBSET Slot
         /\ \A k : k \in LeafKeys(l) <=> \E v : <<k, v>> \in Entries(l)
         /\ \A k, v : <<k, v>> \in Entries(l) <=> \E i \in Used(l) : l.keys[i] = k /\ l.vals[i] = v
         /\ LeafKeys(l) \in SUBSET Key
         /\ \A i \in Slot : i \in Used(l) <=> l.keys[i] \in Key
<1>1. Used(l) \in SUBSET Slot /\ Free(l) \in SUBSET Slot
  BY DEF Used, Free
<1>2. \A i \in Slot : i \in Used(l) <=> l.keys[i] \in Key
  BY LeafFields, XNodeAssumption DEF Used, Free, Key, kInvalidKey
<1>3. LeafKeys(l) \in SUBSET Key
  BY <1>1, <1>2 DEF LeafKeys
<1> QED
  BY <1>1, <1>2, <1>3 DEF LeafKeys, Entries

\* The same for the keys alone.
LEMMA AddKeys ==
  \A e \in Leaf, a \in Key, b \in Nat :
    Free(e) # {} => /\ Add(e, a, b) \in Leaf
                    /\ Add(e, a, b).keys = [e.keys EXCEPT ![First(Free(e))] = a]
<1> SUFFICES ASSUME NEW e \in Leaf, NEW a \in Key, NEW b \in Nat, Free(e) # {}
             PROVE  /\ Add(e, a, b) \in Leaf
                    /\ Add(e, a, b).keys = [e.keys EXCEPT ![First(Free(e))] = a]
  OBVIOUS
<1>1. LET i == First(Free(e)) IN
      /\ Add(e, a, b) \in Leaf
      /\ Add(e, a, b).keys = [e.keys EXCEPT ![i] = a]
      /\ Add(e, a, b).vals = [e.vals EXCEPT ![i] = b]
      /\ Add(e, a, b).incarnation = e.incarnation
      /\ Add(e, a, b).next = e.next
  BY AddFills, ZenonT(40)
<1> QED
  BY <1>1

\* add_key adds an entry to a leaf with a free slot.
LEMMA AddEntry ==
  ASSUME NEW l \in Leaf, NEW k \in Key, NEW v \in Nat, Free(l) # {}
  PROVE  /\ Add(l, k, v) \in Leaf
         /\ Entries(Add(l, k, v)) = Entries(l) \cup {<<k, v>>}
         /\ k \notin LeafKeys(l) /\ Unique(l) => Unique(Add(l, k, v))
         /\ Add(l, k, v).incarnation = l.incarnation
         /\ Add(l, k, v).next = l.next
         /\ \A i \in Used(l) : Add(l, k, v).keys[i] = l.keys[i]
<1> DEFINE f == First(Free(l)) a == Add(l, k, v)
<1>1. /\ a \in Leaf /\ a.keys = [l.keys EXCEPT ![f] = k] /\ a.vals = [l.vals EXCEPT ![f] = v]
      /\ a.incarnation = l.incarnation /\ a.next = l.next
  BY AddFills
<1>2. f \in Slot /\ l.keys[f] = kInvalidKey
  BY FirstFree
<1>3. k # kInvalidKey
  BY XNodeAssumption DEF Key, kInvalidKey
<1> HIDE DEF a, f
<1>4. \A i \in Slot : /\ a.keys[i] = IF i = f THEN k ELSE l.keys[i]
                      /\ a.vals[i] = IF i = f THEN v ELSE l.vals[i]
  BY <1>1, <1>2, LeafFields
<1>5. Used(a) = Used(l) \cup {f} /\ f \notin Used(l)
  BY <1>2, <1>3, <1>4 DEF Used, Free
<1>6. Used(l) \in SUBSET Slot
  BY DEF Used
<1>7. \A i \in Used(l) : a.keys[i] = l.keys[i] /\ a.vals[i] = l.vals[i]
  BY <1>4, <1>5, <1>6
<1>8. Entries(a) = Entries(l) \cup {<<k, v>>}
  <2>1. ASSUME NEW e \in Entries(a) PROVE e \in Entries(l) \cup {<<k, v>>}
    <3>1. PICK i \in Used(a) : e = <<a.keys[i], a.vals[i]>>
      BY DEF Entries
    <3> QED
      BY <1>2, <1>4, <1>5, <1>7, <3>1 DEF Entries
  <2>2. Entries(l) \subseteq Entries(a)
    BY <1>5, <1>7 DEF Entries
  <2>3. <<k, v>> \in Entries(a)
    BY <1>2, <1>4, <1>5 DEF Entries
  <2> QED
    BY <2>1, <2>2, <2>3
<1>9. ASSUME k \notin LeafKeys(l), Unique(l) PROVE Unique(a)
  <2>1. \A i \in Used(l) : l.keys[i] # k
    BY <1>9 DEF LeafKeys
  <2>2. a.keys[f] = k
    BY <1>2, <1>4
  <2> QED
    BY <1>5, <1>7, <1>9, <2>1, <2>2 DEF Unique
<1> QED
  BY <1>1, <1>7, <1>8, <1>9 DEF a

\* Clear takes the entries of its slots away.
LEMMA ClearEntries ==
  ASSUME NEW l \in Leaf, NEW S
  PROVE  /\ Clear(l, S) \in Leaf
         /\ Entries(Clear(l, S)) = {<<l.keys[i], l.vals[i]>> : i \in Used(l) \ S}
         /\ \A i \in Slot : i \in S => i \in Free(Clear(l, S))
         /\ Unique(l) => Unique(Clear(l, S))
<1> DEFINE c == Clear(l, S)
<1>1. /\ c \in Leaf /\ \A i \in Slot : c.keys[i] = IF i \in S THEN kInvalidKey ELSE l.keys[i]
      /\ c.vals = l.vals
  BY ClearEmpties
<1> HIDE DEF c
<1>2. Used(c) = Used(l) \ S /\ Used(l) \in SUBSET Slot
  BY <1>1 DEF Used, Free
<1>3. \A i \in Used(c) : c.keys[i] = l.keys[i] /\ c.vals[i] = l.vals[i]
  BY <1>1, <1>2
<1>4. Entries(c) = {<<l.keys[i], l.vals[i]>> : i \in Used(l) \ S}
  BY <1>2, <1>3 DEF Entries
<1>5. Unique(l) => Unique(c)
  BY <1>2, <1>3 DEF Unique
<1>6. \A i \in Slot : i \in S => i \in Free(c)
  BY <1>1 DEF Free
<1> QED
  BY <1>1, <1>4, <1>5, <1>6 DEF c

\* The entries of slots S of l go to the first free slots of c, each to one.
LEMMA MoveEntries ==
  ASSUME NEW c \in Leaf, NEW l \in Leaf, NEW S \in SUBSET Used(l),
         Cardinality(S) <= Cardinality(Free(c))
  PROVE  LET r == MoveInto(c, l, S) IN
         /\ r \in Leaf
         /\ r.incarnation = c.incarnation /\ r.next = c.next
         /\ Entries(r) = Entries(c) \cup {<<l.keys[i], l.vals[i]>> : i \in S}
         /\ \A i \in Used(c) : r.keys[i] = c.keys[i]
         /\ Cardinality(S) < Cardinality(Free(c)) => Free(r) # {}
         /\ /\ Unique(c) /\ Unique(l)
            /\ \A i \in Used(c), j \in S : c.keys[i] # l.keys[j]
            => Unique(r)
<1> DEFINE F == Free(c) r == MoveInto(c, l, S)
           to(i) == i \in F /\ Rank(F, i) < Cardinality(S)
           from(i) == Nth(S, Rank(F, i))
<1>1. F \in SUBSET Slot /\ S \in SUBSET Slot
  BY DEF Free, Used
<1>2. /\ r = [c EXCEPT !.keys = [i \in Slot |-> IF to(i) THEN l.keys[from(i)] ELSE @[i]],
                       !.vals = [i \in Slot |-> IF to(i) THEN l.vals[from(i)] ELSE @[i]]]
  BY DEF MoveInto
<1> HIDE DEF r, F
<1>3. Cardinality(S) \in Nat /\ Cardinality(F) \in Nat
  BY <1>1, RankSteps
<1>4. \A i \in F : Rank(F, i) \in Nat /\ Rank(F, i) < Cardinality(F)
  <2>1. \A i \in F : Rank(F, i) \in 0..(Cardinality(F) - 1)
    BY <1>1, NthIs
  <2> QED
    BY <1>3, <2>1
<1>5. \A i \in Slot : to(i) => from(i) \in S /\ Rank(S, from(i)) = Rank(F, i)
  <2> SUFFICES ASSUME NEW i \in Slot, to(i) PROVE from(i) \in S /\ Rank(S, from(i)) = Rank(F, i)
    OBVIOUS
  <2> DEFINE n == Rank(F, i)
  <2>1. n \in 0..(Cardinality(S) - 1)
    BY <1>3, <1>4
  <2> HIDE DEF n
  <2>2. Nth(S, n) \in S /\ Rank(S, Nth(S, n)) = n
    BY <1>1, <2>1, NthIs
  <2> QED
    BY <2>2 DEF n
<1>6. \A j \in S : \E i \in Slot : to(i) /\ from(i) = j
  <2> SUFFICES ASSUME NEW j \in S PROVE \E i \in Slot : to(i) /\ from(i) = j
    OBVIOUS
  <2> DEFINE n == Rank(S, j)
  <2>1. n \in 0..(Cardinality(S) - 1) /\ Nth(S, n) = j
    BY <1>1, NthIs
  <2> HIDE DEF n
  <2>2. n \in 0..(Cardinality(F) - 1)
    BY <1>3, <2>1 DEF F
  <2>3. Nth(F, n) \in F /\ Rank(F, Nth(F, n)) = n
    BY <1>1, <2>2, NthIs
  <2> QED
    BY <1>1, <1>3, <2>1, <2>3
<1>7. \A i, k \in Slot : to(i) /\ to(k) /\ from(i) = from(k) => i = k
  <2> SUFFICES ASSUME NEW i \in Slot, NEW k \in Slot, to(i), to(k), from(i) = from(k) PROVE i = k
    OBVIOUS
  <2>1. Rank(F, i) = Rank(F, k)
    BY <1>5
  <2>2. i \in F /\ k \in F
    OBVIOUS
  <2> QED
    BY <1>1, <2>1, <2>2, NthIs
<1>8. Cardinality(S) < Cardinality(F) => \E i \in F : ~to(i)
  <2> SUFFICES ASSUME Cardinality(S) < Cardinality(F) PROVE \E i \in F : ~to(i)
    OBVIOUS
  <2> DEFINE n == Cardinality(S)
  <2>1. n \in 0..(Cardinality(F) - 1)
    BY <1>3
  <2>2. n \in Nat
    BY <1>3
  <2> HIDE DEF n
  <2>3. Nth(F, n) \in F /\ Rank(F, Nth(F, n)) = n
    BY <1>1, <2>1, NthIs
  <2>4. ~(n < n)
    BY <2>2
  <2> QED
    BY <2>3, <2>4 DEF n
<1>9. \A i \in Slot : to(i) => i \in F /\ l.keys[from(i)] \in Key /\ l.vals[from(i)] \in Nat
  <2>1. \A j \in S : l.keys[j] \in Key /\ l.vals[j] \in Nat
    BY <1>1, EntryKeys, LeafFields
  <2> QED
    BY <1>5, <2>1
<1> HIDE DEF to, from
<1>10. /\ r \in Leaf /\ r.incarnation = c.incarnation /\ r.next = c.next
       /\ \A i \in Slot : /\ r.keys[i] = IF to(i) THEN l.keys[from(i)] ELSE c.keys[i]
                          /\ r.vals[i] = IF to(i) THEN l.vals[from(i)] ELSE c.vals[i]
  <2> DEFINE ks == [i \in Slot |-> IF to(i) THEN l.keys[from(i)] ELSE c.keys[i]]
             vs == [i \in Slot |-> IF to(i) THEN l.vals[from(i)] ELSE c.vals[i]]
  <2>1. ks \in [Slot -> Key \cup {kInvalidKey}] /\ vs \in [Slot -> Nat]
    BY <1>9, LeafFields
  <2>2. /\ \A i \in Slot : ks[i] = IF to(i) THEN l.keys[from(i)] ELSE c.keys[i]
        /\ \A i \in Slot : vs[i] = IF to(i) THEN l.vals[from(i)] ELSE c.vals[i]
    OBVIOUS
  <2>3. r = [c EXCEPT !.keys = ks, !.vals = vs]
    BY <1>2
  <2> HIDE DEF ks, vs
  <2>4. r \in Leaf /\ r.incarnation = c.incarnation /\ r.next = c.next /\ r.keys = ks /\ r.vals = vs
    BY <2>1, <2>3 DEF Leaf
  <2> QED
    BY <2>2, <2>4
<1>11. \A i \in Slot : i \in Used(r) <=> to(i) \/ i \in Used(c)
  <2>1. \A i \in Slot : i \in F <=> i \notin Used(c)
    BY DEF F, Used, Free
  <2>2. kInvalidKey \notin Key
    BY XNodeAssumption DEF Key, kInvalidKey
  <2> QED
    BY <1>9, <1>10, <2>1, <2>2, EntryKeys
<1>12. \A i \in Used(c) : i \in Slot /\ ~to(i) /\ r.keys[i] = c.keys[i] /\ r.vals[i] = c.vals[i]
  <2>1. \A i \in Used(c) : i \in Slot /\ i \notin F
    BY DEF F, Used
  <2> QED
    BY <1>9, <1>10, <2>1
<1>13. Entries(r) = Entries(c) \cup {<<l.keys[i], l.vals[i]>> : i \in S}
  <2>1. ASSUME NEW e \in Entries(r) PROVE e \in Entries(c) \cup {<<l.keys[i], l.vals[i]>> : i \in S}
    <3>1. PICK i \in Used(r) : e = <<r.keys[i], r.vals[i]>>
      BY DEF Entries
    <3>2. i \in Slot
      BY DEF Used
    <3>3. CASE to(i)
      <4>1. from(i) \in S /\ e = <<l.keys[from(i)], l.vals[from(i)]>>
        BY <1>5, <1>10, <3>1, <3>2, <3>3
      <4> QED
        BY <4>1
    <3>4. CASE i \in Used(c)
      BY <1>12, <3>1, <3>4 DEF Entries
    <3> QED
      BY <1>11, <3>2, <3>3, <3>4
  <2>2. Entries(c) \subseteq Entries(r)
    BY <1>11, <1>12 DEF Entries
  <2>3. ASSUME NEW j \in S PROVE <<l.keys[j], l.vals[j]>> \in Entries(r)
    <3>1. PICK i \in Slot : to(i) /\ from(i) = j
      BY <1>6
    <3> QED
      BY <1>10, <1>11, <3>1 DEF Entries
  <2> QED
    BY <2>1, <2>2, <2>3
<1>14. ASSUME Cardinality(S) < Cardinality(F) PROVE Free(r) # {}
  <2>1. PICK i \in F : ~to(i)
    BY <1>8, <1>14
  <2>2. i \in Slot /\ i \notin Used(c)
    BY <1>1 DEF F, Used
  <2>3. i \notin Used(r)
    BY <1>11, <2>1, <2>2
  <2> QED
    BY <2>2, <2>3 DEF Used
<1>15. ASSUME Unique(c), Unique(l), \A i \in Used(c), j \in S : c.keys[i] # l.keys[j]
       PROVE  Unique(r)
  <2> SUFFICES ASSUME NEW i \in Used(r), NEW k \in Used(r), r.keys[i] = r.keys[k] PROVE i = k
    BY DEF Unique
  <2>1. i \in Slot /\ k \in Slot
    BY DEF Used
  <2>2. \A x \in Slot : to(x) => from(x) \in S /\ r.keys[x] = l.keys[from(x)]
    BY <1>5, <1>10
  <2>3. CASE to(i) /\ to(k)
    <3>1. from(i) = from(k)
      BY <1>15, <2>1, <2>2, <2>3 DEF Unique
    <3> QED
      BY <1>7, <2>1, <2>3, <3>1
  <2>4. CASE to(i) /\ k \in Used(c)
    BY <1>12, <1>15, <2>1, <2>2, <2>4
  <2>5. CASE i \in Used(c) /\ to(k)
    BY <1>12, <1>15, <2>1, <2>2, <2>5
  <2>6. CASE i \in Used(c) /\ k \in Used(c)
    BY <1>12, <1>15, <2>6 DEF Unique
  <2> QED
    BY <1>11, <2>1, <2>3, <2>4, <2>5, <2>6
<1>16. \A i \in Used(c) : r.keys[i] = c.keys[i]
  BY <1>12
<1> QED
  BY <1>10, <1>13, <1>14, <1>15, <1>16 DEF r, F

\* The new leaf of a split starts empty.
LEMMA EmptyEntries ==
  /\ EmptyLeaf \in Leaf /\ Free(EmptyLeaf) = Slot /\ Used(EmptyLeaf) = {}
  /\ Entries(EmptyLeaf) = {} /\ LeafKeys(EmptyLeaf) = {} /\ Unique(EmptyLeaf)
  /\ Cardinality(Free(EmptyLeaf)) = N
  /\ Free(EmptyLeaf) # {} /\ First(Free(EmptyLeaf)) = 0
<1>1. N \in Nat /\ N >= 2 /\ Slot = 0..(N - 1)
  BY XNodeAssumption DEF Slot
<1>2. Free(EmptyLeaf) = Slot /\ Used(EmptyLeaf) = {}
  BY DEF EmptyLeaf, Free, Used
<1>3. Cardinality(Slot) = N
  BY <1>1, FS_Interval
<1>4. First(Slot) = 0
  <2>1. Slot \in SUBSET Nat /\ Slot # {} /\ 0 \in Slot
    BY <1>1
  <2>2. First(Slot) \in Slot /\ \A j \in Slot : First(Slot) <= j
    BY <2>1, FirstIsLeast
  <2>3. First(Slot) <= 0 /\ First(Slot) >= 0
    BY <1>1, <2>1, <2>2
  <2> QED
    BY <1>1, <2>2, <2>3
<1> QED
  BY <1>1, <1>2, <1>3, <1>4, EmptyLeafType DEF Entries, LeafKeys, Unique

\* A full leaf of distinct keys splits at its median: the entries below it stay
\* (and a new one below it is added), the others are in the new leaf, the median
\* in slot 0 of it; both insertions fit.
THEOREM LeafSplits ==
  ASSUME NEW l \in Leaf, Free(l) = {}, Unique(l), NEW m \in MedianSlots(l),
         NEW k \in Key, k \notin LeafKeys(l), NEW v \in Nat, NEW c \in Nat
  PROVE  LET pivot == l.keys[m]
             all == Entries(l) \cup {<<k, v>>}
             L == SplitLeft(l, m, k, v, c)
             R == SplitRight(l, EmptyLeaf, m, k, v)
         IN /\ pivot \in LeafKeys(l)
            /\ \E a \in LeafKeys(l) : a < pivot
            /\ SplitFits(l, EmptyLeaf, m, k)
            /\ L \in Leaf /\ R \in Leaf /\ Unique(L) /\ Unique(R)
            /\ Entries(L) = {e \in all : e[1] < pivot}
            /\ Entries(R) = {e \in all : e[1] >= pivot}
            /\ L.incarnation = (l.incarnation + 1) % IncarMod
            /\ L.next = c /\ R.next = l.next
            /\ R.keys[0] = pivot
<1> DEFINE pivot == l.keys[m]
           up == Above(l, pivot)
           kept == Clear(l, {m} \cup up)
           left == IF k > pivot THEN kept ELSE Add(kept, k, v)
           first == Add(EmptyLeaf, pivot, l.vals[m])
           moved == MoveInto(first, l, up)
           right == IF k > pivot THEN Add(moved, k, v) ELSE moved
           L == SplitLeft(l, m, k, v, c)
           R == SplitRight(l, EmptyLeaf, m, k, v)
<1>1. N \in Nat /\ N >= 2 /\ Slot = 0..(N - 1)
  BY XNodeAssumption DEF Slot
<1>2. /\ Used(l) = Slot /\ \A i \in Slot : l.keys[i] \in Nat /\ l.keys[i] \in Key /\ l.vals[i] \in Nat
  <2>1. Used(l) = Slot
    BY DEF Used
  <2> QED
    BY <2>1, EntryKeys, LeafFields
<1>3. \A i, j \in Slot : l.keys[i] = l.keys[j] => i = j
  BY <1>2 DEF Unique
<1>4. /\ m \in Slot /\ pivot \in Key /\ pivot \in Nat
      /\ up = {i \in Slot : l.keys[i] > pivot}
      /\ Cardinality(up) \in 0..(N - 2)
      /\ \E j \in Slot : l.keys[j] < pivot
  BY <1>2, <1>3, MedianSplits
<1>5. k \in Nat /\ k # pivot /\ \A i \in Slot : l.keys[i] # k
  BY <1>2, <1>4, XNodeAssumption DEF Key, LeafKeys
<1> HIDE DEF pivot, up, L, R
<1>6. pivot \in LeafKeys(l) /\ \E a \in LeafKeys(l) : a < pivot
  BY <1>2, <1>4 DEF LeafKeys, pivot
<1>7. SplitFits(l, EmptyLeaf, m, k)
  <2>1. SplitFits(l, EmptyLeaf, m, k) =
          (1 + Cardinality(up) + (IF k > pivot THEN 1 ELSE 0) <= N)
    BY EmptyEntries DEF SplitFits, pivot, up
  <2>2. 1 + Cardinality(up) + (IF k > pivot THEN 1 ELSE 0) <= N
    BY <1>1, <1>4
  <2> QED
    BY <2>1, <2>2
<1>8. /\ kept \in Leaf /\ Unique(kept)
      /\ kept.incarnation = l.incarnation /\ kept.next = l.next
      /\ Entries(kept) = {<<l.keys[i], l.vals[i]>> : i \in Slot \ ({m} \cup up)}
      /\ m \in Free(kept)
  BY <1>2, <1>4, ClearEntries, ClearEmpties
<1>9. \A i \in Slot : i \notin ({m} \cup up) <=> l.keys[i] < pivot
  BY <1>2, <1>3, <1>4 DEF pivot
<1>10. /\ \A e \in Entries(kept) : e \in Entries(l) /\ e[1] < pivot
       /\ \A e \in Entries(l) : e[1] < pivot => e \in Entries(kept)
  <2>1. \A e : e \in Entries(l) <=> \E i \in Slot : e = <<l.keys[i], l.vals[i]>>
    BY <1>2 DEF Entries
  <2>2. \A e : e \in Entries(kept) <=>
          \E i \in Slot : i \notin ({m} \cup up) /\ e = <<l.keys[i], l.vals[i]>>
    <3> HIDE DEF kept
    <3> QED
      BY <1>8
  <2>3. \A i \in Slot : <<l.keys[i], l.vals[i]>>[1] = l.keys[i]
    OBVIOUS
  <2> HIDE DEF kept
  <2> QED
    BY <1>9, <2>1, <2>2, <2>3
<1>11. /\ left \in Leaf /\ Unique(left) /\ left.incarnation = l.incarnation
       /\ Entries(left) = Entries(kept) \cup (IF k > pivot THEN {} ELSE {<<k, v>>})
  <2> HIDE DEF kept
  <2>1. CASE k > pivot
    BY <1>8, <2>1
  <2>2. CASE ~(k > pivot)
    <3>1. k \notin LeafKeys(kept)
      <4>1. \A e \in Entries(kept) : e[1] \in LeafKeys(l)
        BY <1>2, <1>10 DEF Entries, LeafKeys
      <4>2. \A w : <<k, w>> \notin Entries(kept)
        BY <4>1
      <4> QED
        BY <1>8, <4>2, EntryKeys
    <3>2. Free(kept) # {}
      BY <1>8
    <3> QED
      BY <1>8, <2>2, <3>1, <3>2, AddEntry
  <2> QED
    BY <2>1, <2>2
<1>12. L = [left EXCEPT !.incarnation = (@ + 1) % IncarMod, !.next = c]
  BY DEF L, SplitLeft, pivot, up
<1>13. /\ L \in Leaf /\ L.keys = left.keys /\ L.vals = left.vals
       /\ L.incarnation = (l.incarnation + 1) % IncarMod /\ L.next = c
  <2>1. (l.incarnation + 1) % IncarMod \in 0..(IncarMod - 1)
    BY LeafFields, XNodeAssumption
  <2> HIDE DEF left
  <2> QED
    BY <1>11, <1>12, <2>1 DEF Leaf
<1>14. Unique(L) /\ Entries(L) = Entries(left)
  <2> HIDE DEF left
  <2>1. Used(L) = Used(left)
    BY <1>13 DEF Used, Free
  <2> QED
    BY <1>11, <1>13, <2>1 DEF Unique, Entries
<1>15. Entries(L) = {e \in Entries(l) \cup {<<k, v>>} : e[1] < pivot}
  <2> HIDE DEF left, kept
  <2>1. <<k, v>>[1] = k
    OBVIOUS
  <2>2. k < pivot <=> ~(k > pivot)
    BY <1>4, <1>5
  <2> QED
    BY <1>10, <1>11, <1>14, <2>1, <2>2
<1>16. /\ first \in Leaf /\ Unique(first) /\ Entries(first) = {<<pivot, l.vals[m]>>}
       /\ Used(first) = {0} /\ first.keys[0] = pivot
  <2>1. /\ first \in Leaf /\ first.keys = [EmptyLeaf.keys EXCEPT ![0] = pivot]
    <3>1. EmptyLeaf \in Leaf /\ Free(EmptyLeaf) # {} /\ First(Free(EmptyLeaf)) = 0 /\ l.vals[m] \in Nat
      BY <1>2, <1>4, EmptyEntries
    <3>2. \A e \in Leaf, a \in Key, b \in Nat :
            Free(e) # {} => /\ Add(e, a, b) \in Leaf
                            /\ Add(e, a, b).keys = [e.keys EXCEPT ![First(Free(e))] = a]
      BY AddKeys
    <3> HIDE DEF first
    <3>3. /\ Add(EmptyLeaf, pivot, l.vals[m]) \in Leaf
          /\ Add(EmptyLeaf, pivot, l.vals[m]).keys =
               [EmptyLeaf.keys EXCEPT ![First(Free(EmptyLeaf))] = pivot]
      BY <1>4, <3>1, <3>2
    <3> QED
      BY <3>1, <3>3 DEF first
  <2>2. 0 \in Slot /\ \A i \in Slot : first.keys[i] = IF i = 0 THEN pivot ELSE kInvalidKey
    <3> HIDE DEF first
    <3>1. 0 \in Slot
      BY <1>1
    <3> QED
      BY <2>1, <3>1 DEF EmptyLeaf
  <2>3. pivot # kInvalidKey
    BY <1>4, XNodeAssumption DEF Key, kInvalidKey
  <2>4. Used(first) = {0}
    <3> HIDE DEF first
    <3> QED
      BY <2>2, <2>3 DEF Used, Free
  <2>5. Entries(first) = {<<pivot, l.vals[m]>>} /\ Unique(first)
    <3>1. Entries(first) = Entries(EmptyLeaf) \cup {<<pivot, l.vals[m]>>}
      BY <1>2, <1>4, EmptyEntries, AddEntry
    <3>2. Unique(first)
      <4> HIDE DEF first
      <4> QED
        BY <2>4 DEF Unique
    <3> QED
      BY <3>1, <3>2, EmptyEntries
  <2> QED
    BY <2>1, <2>2, <2>4, <2>5
<1>17. Cardinality(Free(first)) = N - 1
  <2> HIDE DEF first
  <2>1. Free(first) = Slot \ {0} /\ Free(first) = 1..(N - 1)
    <3>1. \A i \in Slot : i \in Free(first) <=> i \notin Used(first)
      BY DEF Used
    <3>2. Free(first) \in SUBSET Slot
      BY DEF Free
    <3>3. Free(first) = Slot \ {0}
      BY <1>16, <3>1, <3>2
    <3>4. Slot \ {0} = 1..(N - 1)
      BY <1>1
    <3> QED
      BY <3>3, <3>4
  <2>2. Cardinality(1..(N - 1)) = N - 1
    BY <1>1, FS_Interval
  <2> QED
    BY <2>1, <2>2
<1>18. /\ moved \in Leaf /\ Unique(moved) /\ Free(moved) # {}
       /\ moved.keys[0] = pivot /\ 0 \in Used(moved)
       /\ Entries(moved) = {<<pivot, l.vals[m]>>} \cup {<<l.keys[i], l.vals[i]>> : i \in up}
  <2> HIDE DEF first
  <2>1. up \in SUBSET Used(l) /\ Cardinality(up) < Cardinality(Free(first))
    <3>1. Cardinality(up) < N - 1
      BY <1>1, <1>4
    <3> QED
      BY <1>2, <1>4, <1>17, <3>1
  <2>2. \A i \in Used(first), j \in up : first.keys[i] # l.keys[j]
    BY <1>2, <1>4, <1>16
  <2>3. Cardinality(up) <= Cardinality(Free(first))
    BY <1>1, <1>4, <1>17
  <2>4. /\ moved \in Leaf /\ Free(moved) # {}
        /\ Entries(moved) = Entries(first) \cup {<<l.keys[i], l.vals[i]>> : i \in up}
        /\ \A i \in Used(first) : moved.keys[i] = first.keys[i]
    BY <1>16, <2>1, <2>3, MoveEntries
  <2>5. Unique(moved)
    BY <1>16, <2>1, <2>2, <2>3, MoveEntries
  <2> HIDE DEF moved
  <2>6. moved.keys[0] = pivot /\ 0 \in Slot
    BY <1>1, <1>16, <2>4
  <2>7. 0 \in Used(moved)
    BY <1>4, <2>4, <2>6, EntryKeys
  <2> QED
    BY <1>16, <2>4, <2>5, <2>6, <2>7
<1>19. \A e : e \in Entries(moved) <=> e \in Entries(l) /\ e[1] >= pivot
  <2> HIDE DEF moved
  <2>1. \A e : e \in Entries(l) <=> \E i \in Slot : e = <<l.keys[i], l.vals[i]>>
    BY <1>2 DEF Entries
  <2>2. \A i \in Slot : l.keys[i] >= pivot <=> i = m \/ i \in up
    BY <1>2, <1>3, <1>4 DEF pivot
  <2>3. \A e : e \in Entries(moved) <=> \E i \in Slot : (i = m \/ i \in up) /\ e = <<l.keys[i], l.vals[i]>>
    BY <1>4, <1>18 DEF pivot
  <2> QED
    BY <2>1, <2>2, <2>3
<1>20. /\ right \in Leaf /\ Unique(right) /\ right.keys[0] = pivot
       /\ Entries(right) = Entries(moved) \cup (IF k > pivot THEN {<<k, v>>} ELSE {})
  <2> HIDE DEF moved
  <2>1. CASE ~(k > pivot)
    BY <1>18, <2>1
  <2>2. CASE k > pivot
    <3>1. k \notin LeafKeys(moved)
      <4>1. \A e \in Entries(l) : e[1] \in LeafKeys(l)
        BY <1>2 DEF Entries, LeafKeys
      <4>2. \A w : <<k, w>> \notin Entries(moved)
        BY <1>19, <4>1
      <4> QED
        BY <1>18, <4>2, EntryKeys
    <3> QED
      BY <1>18, <2>2, <3>1, AddEntry
  <2> QED
    BY <2>1, <2>2
<1>21. R = [right EXCEPT !.next = l.next]
  BY DEF R, SplitRight, pivot, up
<1>22. R \in Leaf /\ R.keys = right.keys /\ R.vals = right.vals /\ R.next = l.next
  <2> HIDE DEF right
  <2> QED
    BY <1>20, <1>21, LeafFields DEF Leaf
<1>23. Unique(R) /\ Entries(R) = Entries(right) /\ R.keys[0] = pivot
  <2> HIDE DEF right
  <2>1. Used(R) = Used(right)
    BY <1>22 DEF Used, Free
  <2> QED
    BY <1>20, <1>22, <2>1 DEF Unique, Entries
<1>24. Entries(R) = {e \in Entries(l) \cup {<<k, v>>} : e[1] >= pivot}
  <2> HIDE DEF right, moved
  <2>1. <<k, v>>[1] = k
    OBVIOUS
  <2>2. k >= pivot <=> k > pivot
    BY <1>4, <1>5
  <2> QED
    BY <1>19, <1>20, <1>23, <2>1, <2>2
<1> QED
  BY <1>6, <1>7, <1>13, <1>14, <1>15, <1>22, <1>23, <1>24 DEF L, R, pivot

-----------------------------------------------------------------------------
(* How full the leaves are. *)

\* The keys of the slots J of a leaf l, if another leaf r has them, fill as many slots there.
LEMMA KeysCount ==
  ASSUME NEW l \in Leaf, Unique(l), NEW r \in Leaf, NEW J \in SUBSET Used(l),
         \A j \in J : l.keys[j] \in LeafKeys(r)
  PROVE  Cardinality(J) <= NumKeys(r) /\ Cardinality(J) \in Nat /\ NumKeys(r) \in Nat
<1> DEFINE f == [j \in J |-> CHOOSE i \in Used(r) : r.keys[i] = l.keys[j]]
<1>1. IsFiniteSet(Used(r)) /\ IsFiniteSet(J)
  <2>1. IsFiniteSet(Slot)
    BY XNodeAssumption, FS_Interval DEF Slot
  <2>2. Used(r) \in SUBSET Slot /\ J \in SUBSET Slot
    BY EntryKeys
  <2> QED
    BY <2>1, <2>2, FS_Subset
<1>2. \A j \in J : f[j] \in Used(r) /\ r.keys[f[j]] = l.keys[j]
  BY DEF LeafKeys
<1>3. f \in [J -> Used(r)]
  BY <1>2
<1> HIDE DEF f
<1>4. \A i, j \in J : f[i] = f[j] => i = j
  BY <1>2 DEF Unique
<1>5. f \in Injection(J, Used(r))
  BY <1>3, <1>4 DEF Injection, IsInjective
<1> DEFINE U == Used(r)
<1>6. Cardinality(J) \in Nat /\ Cardinality(U) \in Nat
  BY <1>1, FS_CardinalityType
<1> HIDE DEF U
<1>7. Cardinality(J) <= Cardinality(U)
  BY <1>1, <1>5, FS_Injection DEF U
<1> QED
  BY <1>6, <1>7 DEF NumKeys, U

\* The median of a full leaf has half of the keys below it.
LEMMA MedianHalves ==
  ASSUME NEW l \in Leaf, Free(l) = {}, Unique(l), NEW m \in MedianSlots(l)
  PROVE  /\ Used(l) = Slot
         /\ Cardinality({j \in Slot : l.keys[j] < l.keys[m]}) >= N \div 2
         /\ Cardinality({j \in Slot : l.keys[j] >= l.keys[m]}) >= N \div 2
<1> DEFINE LT == {j \in Slot : l.keys[j] < l.keys[m]}
           LE == {j \in Slot : l.keys[j] <= l.keys[m]}
           GE == {j \in Slot : l.keys[j] >= l.keys[m]}
<1>1. N \in Nat /\ N >= 2 /\ N \div 2 \in Nat /\ 2 * (N \div 2) <= N
  BY XNodeAssumption
<1>2. m \in Slot /\ Cardinality(LT) <= N \div 2 /\ N \div 2 < Cardinality(LE)
  <2>1. m \in Slot /\ Cardinality(LT) <= N \div 2
    BY DEF MedianSlots
  <2>2. N \div 2 < Cardinality(LE)
    BY DEF MedianSlots
  <2> QED
    BY <2>1, <2>2
<1>3. \A i \in Slot : l.keys[i] \in Nat
  BY LeafFields
<1>4. Used(l) = Slot
  BY DEF Used
<1>5. IsFiniteSet(Slot) /\ Cardinality(Slot) = N
  BY <1>1, FS_Interval DEF Slot
<1>6. /\ IsFiniteSet(LT) /\ IsFiniteSet(GE)
      /\ Cardinality(LT) \in Nat /\ Cardinality(GE) \in Nat
  BY <1>5, FS_Subset, FS_CardinalityType
<1>7. LE = LT \cup {m} /\ m \notin LT
  BY <1>2, <1>3, <1>4 DEF Unique
<1>8. Cardinality(LE) = Cardinality(LT) + 1
  BY <1>6, <1>7, FS_AddElement
<1>9. LT \cup GE = Slot /\ LT \cap GE = {}
  BY <1>3, <1>2
<1>10. N = Cardinality(LT) + Cardinality(GE) - 0
  BY <1>5, <1>6, <1>9, FS_Union, FS_EmptySet
<1> HIDE DEF LT, LE, GE
<1>11. Cardinality(LT) = N \div 2
  BY <1>1, <1>2, <1>6, <1>8
<1> QED
  BY <1>1, <1>4, <1>6, <1>10, <1>11 DEF LT, GE

\* The two halves of a leaf that splits are half full at least.
LEMMA SplitHalves ==
  ASSUME NEW l \in Leaf, Free(l) = {}, Unique(l), NEW m \in MedianSlots(l),
         NEW k \in Key, k \notin LeafKeys(l), NEW v \in Nat, NEW c \in Nat
  PROVE  /\ SplitLeft(l, m, k, v, c).next = c
         /\ SplitRight(l, EmptyLeaf, m, k, v).next = l.next
         /\ NumKeys(SplitLeft(l, m, k, v, c)) >= N \div 2
         /\ NumKeys(SplitRight(l, EmptyLeaf, m, k, v)) >= N \div 2
<1> DEFINE left == SplitLeft(l, m, k, v, c) right == SplitRight(l, EmptyLeaf, m, k, v)
<1>1. /\ left \in Leaf /\ right \in Leaf
      /\ left.next = c /\ right.next = l.next
      /\ Entries(left) = {e \in Entries(l) \cup {<<k, v>>} : e[1] < l.keys[m]}
      /\ Entries(right) = {e \in Entries(l) \cup {<<k, v>>} : e[1] >= l.keys[m]}
  BY LeafSplits
<1> HIDE DEF left, right
<1> DEFINE LT == {j \in Slot : l.keys[j] < l.keys[m]} GE == {j \in Slot : l.keys[j] >= l.keys[m]}
<1>2. Used(l) = Slot /\ Cardinality(LT) >= N \div 2 /\ Cardinality(GE) >= N \div 2
  BY MedianHalves
<1>3. \A j \in Slot : /\ <<l.keys[j], l.vals[j]>> \in Entries(l) \cup {<<k, v>>}
                      /\ <<l.keys[j], l.vals[j]>>[1] = l.keys[j]
  BY <1>2 DEF Entries
<1>4. ASSUME NEW j \in LT PROVE l.keys[j] \in LeafKeys(left)
  <2> DEFINE e == <<l.keys[j], l.vals[j]>>
  <2>1. e \in Entries(l) \cup {<<k, v>>} /\ e[1] < l.keys[m]
    BY <1>3
  <2>2. e \in Entries(left)
    <3> HIDE DEF e
    <3> QED
      BY <1>1, <2>1
  <2>3. left \in Leaf /\ <<l.keys[j], l.vals[j]>> \in Entries(left)
    BY <1>1, <2>2
  <2> HIDE DEF e
  <2> QED
    BY <2>3, EntryKeys
<1>5. ASSUME NEW j \in GE PROVE l.keys[j] \in LeafKeys(right)
  <2> DEFINE e == <<l.keys[j], l.vals[j]>>
  <2>1. e \in Entries(l) \cup {<<k, v>>} /\ e[1] >= l.keys[m]
    BY <1>3
  <2>2. e \in Entries(right)
    <3> HIDE DEF e
    <3> QED
      BY <1>1, <2>1
  <2>3. right \in Leaf /\ <<l.keys[j], l.vals[j]>> \in Entries(right)
    BY <1>1, <2>2
  <2> HIDE DEF e
  <2> QED
    BY <2>3, EntryKeys
<1>6. LT \in SUBSET Used(l) /\ GE \in SUBSET Used(l)
  BY <1>2
<1> HIDE DEF LT, GE
<1>7. N \div 2 \in Nat
  BY XNodeAssumption
<1>8. /\ Cardinality(LT) <= NumKeys(left) /\ Cardinality(LT) \in Nat /\ NumKeys(left) \in Nat
      /\ Cardinality(GE) <= NumKeys(right) /\ Cardinality(GE) \in Nat /\ NumKeys(right) \in Nat
  BY <1>1, <1>4, <1>5, <1>6, KeysCount
<1>9. NumKeys(left) >= N \div 2 /\ NumKeys(right) >= N \div 2
  BY <1>2, <1>7, <1>8
<1> QED
  BY <1>1, <1>9 DEF left, right

\* A leaf with the keys of another one and more is as full.
LEMMA KeysGrow ==
  ASSUME NEW l \in Leaf, Unique(l), NEW r \in Leaf, LeafKeys(l) \subseteq LeafKeys(r)
  PROVE  NumKeys(l) <= NumKeys(r) /\ NumKeys(l) \in Nat /\ NumKeys(r) \in Nat
<1>1. \A j \in Used(l) : l.keys[j] \in LeafKeys(r)
  BY DEF LeafKeys
<1> QED
  BY <1>1, KeysCount DEF NumKeys

\* One member in all.
LEMMA OneOrOther ==
  ASSUME NEW S, NEW T, \/ (\E x : S = {x}) /\ T = {}
                       \/ (\E x : T = {x}) /\ S = {}
  PROVE  Cardinality(S) + Cardinality(T) = 1
<1>1. Cardinality({}) = 0 /\ \A x : Cardinality({x}) = 1
  BY FS_EmptySet, FS_Singleton
<1>2. CASE (\E x : S = {x}) /\ T = {}
  <2>1. Cardinality(S) = 1 /\ Cardinality(T) = 0
    BY <1>1, <1>2
  <2> QED
    BY <2>1
<1>3. CASE (\E x : T = {x}) /\ S = {}
  <2>1. Cardinality(S) = 0 /\ Cardinality(T) = 1
    BY <1>1, <1>3
  <2> QED
    BY <2>1
<1> QED
  BY <1>2, <1>3

-----------------------------------------------------------------------------

(* Trees: inner nodes I of depth D, and the paths P of the keys. *)

\* Keys in order, one child more, all of them different.
NodeOK(n) ==
  /\ n \in Inner
  /\ Len(n.keys) <= N
  /\ Len(n.ch) = Len(n.keys) + 1
  /\ \A i, j \in 1..Len(n.keys) : i < j => n.keys[i] < n.keys[j]
  /\ \A i, j \in 1..Len(n.ch) : i # j => n.ch[i] # n.ch[j]

\* The inner levels of a path are nodes.
Inside(I, D, P) == \A x \in Key, d \in 0..(D - 1) : P[x][d] \in DOMAIN I
\* A node is on one level only.
Levels(D, P) == \A x, y \in Key, d, e \in 0..(D - 1) : d # e => P[x][d] # P[y][e]
\* Paths that meet came the same way.
Forks(D, P) == \A x, y \in Key, d \in 1..D : P[x][d] = P[y][d] => P[x][d - 1] = P[y][d - 1]
\* The separators of a node are keys whose searches go through it.
Homes(I, D, P) ==
  \A x \in Key, d \in 0..(D - 1) : \A i \in DOMAIN I[P[x][d]].keys :
     P[I[P[x][d]].keys[i]][d] = P[x][d]
\* Some key goes left of the first separator.
Lows(I, D, P) ==
  \A x \in Key, d \in 0..(D - 1) :
    Len(I[P[x][d]].keys) >= 1 => \E y \in Key : P[y][d] = P[x][d] /\ y < I[P[x][d]].keys[1]
\* The nodes are a tree.
TreeInv(I, D, P) ==
  /\ I \in Seq(Inner) /\ \A n \in DOMAIN I : NodeOK(I[n])
  /\ Inside(I, D, P) /\ Levels(D, P) /\ Forks(D, P) /\ Homes(I, D, P) /\ Lows(I, D, P)

-----------------------------------------------------------------------------
(* Inner nodes. *)

\* An insertion into a sequence moves the elements from its place on.
LEMMA InsertAtIs ==
  ASSUME NEW T, NEW s \in Seq(T), NEW e \in T, NEW p \in 1..(Len(s) + 1)
  PROVE  /\ InsertAt(s, p, e) \in Seq(T)
         /\ Len(InsertAt(s, p, e)) = Len(s) + 1
         /\ \A i \in 1..(Len(s) + 1) :
              InsertAt(s, p, e)[i] = IF i < p THEN s[i] ELSE IF i = p THEN e ELSE s[i - 1]
<1> DEFINE a == SubSeq(s, 1, p - 1) b == SubSeq(s, p, Len(s)) c == <<e>>
<1>0. Len(s) \in Nat /\ p \in Nat /\ p >= 1 /\ p <= Len(s) + 1 /\ \A i \in 1..Len(s) : s[i] \in T
  OBVIOUS
<1>1. a \in Seq(T) /\ Len(a) = p - 1 /\ \A i \in 1..(p - 1) : a[i] = s[i]
  BY <1>0
<1>2. b \in Seq(T) /\ Len(b) = Len(s) - p + 1 /\ \A i \in 1..(Len(s) - p + 1) : b[i] = s[p + i - 1]
  BY <1>0
<1>3. c \in Seq(T) /\ Len(c) = 1 /\ c[1] = e
  OBVIOUS
<1>4. InsertAt(s, p, e) = (a \o c) \o b
  BY DEF InsertAt
<1> DEFINE d == a \o c
<1> HIDE DEF a, b, c
<1>5. /\ d \in Seq(T) /\ Len(d) = p
      /\ \A i \in 1..p : d[i] = IF i < p THEN s[i] ELSE e
  <2>1. /\ d \in Seq(T) /\ Len(d) = Len(a) + Len(c)
        /\ \A i \in 1..(Len(a) + Len(c)) : d[i] = IF i <= Len(a) THEN a[i] ELSE c[i - Len(a)]
    BY <1>1, <1>3, ConcatProperties
  <2> HIDE DEF d
  <2>2. Len(d) = p
    BY <1>0, <1>1, <1>3, <2>1
  <2>3. ASSUME NEW i \in 1..p PROVE d[i] = IF i < p THEN s[i] ELSE e
    <3>1. CASE i < p
      BY <1>0, <1>1, <1>3, <2>1, <3>1
    <3>2. CASE i = p
      <4>1. i - Len(a) = 1 /\ ~(i <= Len(a)) /\ i \in 1..(Len(a) + Len(c))
        BY <1>0, <1>1, <1>3, <3>2
      <4> QED
        BY <1>3, <2>1, <3>2, <4>1
    <3> QED
      BY <1>0, <3>1, <3>2
  <2> QED
    BY <2>1, <2>2, <2>3
<1> HIDE DEF d
<1>6. /\ d \o b \in Seq(T) /\ Len(d \o b) = Len(d) + Len(b)
      /\ \A i \in 1..(Len(d) + Len(b)) : (d \o b)[i] = IF i <= Len(d) THEN d[i] ELSE b[i - Len(d)]
  BY <1>2, <1>5, ConcatProperties
<1>7. InsertAt(s, p, e) = d \o b
  BY <1>4 DEF d
<1>8. Len(d) + Len(b) = Len(s) + 1
  BY <1>0, <1>2, <1>5
<1>9. ASSUME NEW i \in 1..(Len(s) + 1)
      PROVE  (d \o b)[i] = IF i < p THEN s[i] ELSE IF i = p THEN e ELSE s[i - 1]
  <2>1. CASE i <= p
    <3>1. i \in 1..p
      BY <1>0, <2>1
    <3>2. (d \o b)[i] = d[i]
      BY <1>5, <1>6, <1>8, <2>1
    <3> QED
      BY <1>0, <1>5, <2>1, <3>1, <3>2
  <2>2. CASE i > p
    <3>1. i - p \in 1..(Len(s) - p + 1) /\ p + (i - p) - 1 = i - 1 /\ ~(i <= p)
      BY <1>0, <2>2
    <3>2. (d \o b)[i] = b[i - p]
      BY <1>5, <1>6, <1>8, <3>1
    <3> QED
      BY <1>0, <1>2, <2>2, <3>1, <3>2
  <2>3. i <= p \/ i > p
    BY <1>0
  <2> QED
    BY <2>1, <2>2, <2>3
<1> QED
  BY <1>6, <1>7, <1>8, <1>9

\* The place of a key in an inner node, of sorted keys or not: the keys before
\* it are not greater and the next one is; and nothing else is that place.
LEMMA ChildrenIdx ==
  ASSUME NEW n \in Inner, NEW x \in Nat
  PROVE  /\ FindChildrenIdx(n, x) \in 0..Len(n.keys)
         /\ \A i \in 1..FindChildrenIdx(n, x) : n.keys[i] <= x
         /\ FindChildrenIdx(n, x) < Len(n.keys) => x < n.keys[FindChildrenIdx(n, x) + 1]
         /\ \A c \in 0..Len(n.keys) :
              /\ \A i \in 1..c : n.keys[i] <= x
              /\ c < Len(n.keys) => x < n.keys[c + 1]
              => FindChildrenIdx(n, x) = c
<1> DEFINE q == n.keys
           S == {i \in DOMAIN q : \A j \in 1..i : x >= q[j]}
           R == {c \in 0..Len(q) : \A j \in 1..c : x >= q[j]}
<1>1. q \in Seq(Key) /\ Len(q) \in Nat /\ DOMAIN q = 1..Len(q) /\ \A i \in 1..Len(q) : q[i] \in Nat
  <2>1. q \in Seq(Key) /\ \A k \in Key : k \in Nat
    BY XNodeAssumption DEF Inner, Key
  <2> HIDE DEF q
  <2> QED
    BY <2>1
<1>2. FindChildrenIdx(n, x) = Cardinality(S)
  BY DEF FindChildrenIdx
<1> HIDE DEF q
<1>3. PICK c \in R : \A k \in R : k <= c
  <2>1. R \in SUBSET (0..Len(q)) /\ 0 \in R
    BY <1>1
  <2> HIDE DEF R
  <2> QED
    BY <1>1, <2>1, NatMax
<1>4. S = 1..c
  <2>1. \A i \in S : i \in 1..c
    BY <1>1, <1>3
  <2>2. \A i \in 1..c : i \in S
    BY <1>1, <1>3
  <2> QED
    BY <2>1, <2>2
<1>5. c \in Nat /\ Cardinality(1..c) = c
  <2>1. c \in Nat
    BY <1>1, <1>3
  <2> QED
    BY <2>1, FS_Interval
<1>6. FindChildrenIdx(n, x) = c
  BY <1>2, <1>4, <1>5
<1>7. c < Len(q) => x < q[c + 1]
  <2> SUFFICES ASSUME c < Len(q), ~(x < q[c + 1]) PROVE FALSE
    OBVIOUS
  <2>1. c + 1 \in 0..Len(q) /\ c + 1 \in 1..Len(q) /\ x >= q[c + 1]
    BY <1>1, <1>5
  <2>2. \A j \in 1..(c + 1) : x >= q[j]
    <3>1. \A j \in 1..(c + 1) : j \in 1..c \/ j = c + 1
      BY <1>5
    <3> QED
      BY <1>3, <2>1, <3>1
  <2>3. c + 1 \in R
    BY <2>1, <2>2
  <2> QED
    BY <1>3, <1>5, <2>3
<1>8. ASSUME NEW b \in 0..Len(q), \A i \in 1..b : q[i] <= x, b < Len(q) => x < q[b + 1]
      PROVE  c = b
  <2>1. b <= c
    <3>1. b \in R
      BY <1>1, <1>8
    <3> QED
      BY <1>3, <3>1
  <2>2. ~(b < c)
    <3> SUFFICES ASSUME b < c PROVE FALSE
      OBVIOUS
    <3>1. b + 1 \in 1..c /\ b < Len(q) /\ b + 1 \in 1..Len(q)
      BY <1>1, <1>3, <1>5
    <3>2. x >= q[b + 1]
      BY <1>3, <3>1
    <3> QED
      BY <1>1, <1>8, <3>1, <3>2
  <2> QED
    BY <1>1, <1>5, <2>1, <2>2
<1>9. c \in 0..Len(q) /\ \A i \in 1..c : q[i] <= x
  BY <1>1, <1>3
<1> QED
  BY <1>6, <1>7, <1>8, <1>9 DEF q

\* The child a search for x goes to.
Route(n, x) == n.ch[FindChildrenIdx(n, x) + 1]

\* The fields of a node that is in order.
LEMMA NodeFields ==
  ASSUME NEW n, NodeOK(n)
  PROVE  /\ n \in Inner /\ n.keys \in Seq(Key) /\ n.ch \in Seq(Nat \ {Null})
         /\ Len(n.keys) \in 0..N /\ Len(n.ch) = Len(n.keys) + 1
         /\ \A i \in 1..Len(n.keys) : n.keys[i] \in Key /\ n.keys[i] \in Nat
         /\ \A i \in 1..Len(n.ch) : n.ch[i] \in Nat \ {Null}
<1>1. n.keys \in Seq(Key) /\ n.ch \in Seq(Nat \ {Null}) /\ Len(n.keys) <= N
  BY DEF NodeOK, Inner
<1>2. Key \subseteq Nat /\ N \in Nat
  BY XNodeAssumption DEF Key
<1>3. Len(n.keys) \in Nat /\ \A i \in 1..Len(n.keys) : n.keys[i] \in Key
  BY <1>1
<1>4. \A i \in 1..Len(n.ch) : n.ch[i] \in Nat \ {Null}
  BY <1>1
<1>5. Len(n.keys) \in 0..N
  BY <1>1, <1>2, <1>3
<1>6. n \in Inner /\ Len(n.ch) = Len(n.keys) + 1
  BY DEF NodeOK
<1>7. \A i \in 1..Len(n.keys) : n.keys[i] \in Key /\ n.keys[i] \in Nat
  BY <1>2, <1>3
<1> QED
  BY <1>1, <1>4, <1>5, <1>6, <1>7

\* A node with room takes a separator and the child behind it at the place of the
\* separator: only the searches for keys between it and the next one go another way.
LEMMA NodeTakes ==
  ASSUME NEW n, NodeOK(n), Len(n.keys) < N, NEW k \in 0..Len(n.keys),
         NEW up \in Key, NEW c \in Nat \ {Null},
         \A i \in 1..Len(n.ch) : n.ch[i] # c,
         \A i \in 1..k : n.keys[i] < up,
         \A i \in (k + 1)..Len(n.keys) : up < n.keys[i]
  PROVE  LET r == InsertAtPos(n, up, c, k) IN
         /\ NodeOK(r)
         /\ Len(r.keys) = Len(n.keys) + 1
         /\ \A i \in 1..Len(r.keys) : r.keys[i] = up \/ \E j \in 1..Len(n.keys) : r.keys[i] = n.keys[j]
         /\ r.keys[1] = IF k = 0 THEN up ELSE n.keys[1]
         /\ \A x \in Key : Route(r, x) = IF FindChildrenIdx(n, x) = k /\ x >= up THEN c ELSE Route(n, x)
<1> DEFINE q == n.keys h == n.ch
           q2 == InsertAt(n.keys, k + 1, up) h2 == InsertAt(n.ch, k + 2, c)
           r == InsertAtPos(n, up, c, k) M == Len(n.keys)
<1>1. /\ n \in Inner /\ q \in Seq(Key) /\ h \in Seq(Nat \ {Null}) /\ M \in Nat /\ Len(h) = M + 1
      /\ \A i \in 1..M : q[i] \in Key /\ q[i] \in Nat
      /\ \A i \in 1..(M + 1) : h[i] \in Nat \ {Null}
  <2>1. M \in 0..N /\ Len(h) = M + 1
    BY NodeFields
  <2>2. M \in Nat
    BY <2>1, XNodeAssumption
  <2> QED
    BY <2>1, <2>2, NodeFields
<1>2. k \in Nat /\ k <= M /\ M < N /\ N \in Nat /\ up \in Nat
  BY <1>1, XNodeAssumption DEF Key
<1>3. /\ q2 \in Seq(Key) /\ Len(q2) = M + 1
      /\ \A i \in 1..(M + 1) : q2[i] = IF i < k + 1 THEN q[i] ELSE IF i = k + 1 THEN up ELSE q[i - 1]
  <2> DEFINE p == k + 1
  <2>1. p \in 1..(M + 1)
    BY <1>2
  <2> HIDE DEF p, q
  <2>2. /\ InsertAt(q, p, up) \in Seq(Key) /\ Len(InsertAt(q, p, up)) = Len(q) + 1
        /\ \A i \in 1..(Len(q) + 1) :
             InsertAt(q, p, up)[i] = IF i < p THEN q[i] ELSE IF i = p THEN up ELSE q[i - 1]
    <3>1. p \in 1..(Len(q) + 1)
      BY <2>1 DEF q
    <3> QED
      BY <1>1, <3>1, InsertAtIs
  <2> QED
    BY <2>2 DEF p, q
<1>4. /\ h2 \in Seq(Nat \ {Null}) /\ Len(h2) = M + 2
      /\ \A i \in 1..(M + 2) : h2[i] = IF i < k + 2 THEN h[i] ELSE IF i = k + 2 THEN c ELSE h[i - 1]
  <2> DEFINE p == k + 2
  <2>1. p \in 1..(Len(h) + 1) /\ Len(h) + 1 = M + 2
    BY <1>1, <1>2
  <2> DEFINE T == Nat \ {Null}
  <2> HIDE DEF p, h, T
  <2>3. h \in Seq(T) /\ c \in T
    BY <1>1 DEF T
  <2>2. /\ InsertAt(h, p, c) \in Seq(T) /\ Len(InsertAt(h, p, c)) = Len(h) + 1
        /\ \A i \in 1..(Len(h) + 1) :
             InsertAt(h, p, c)[i] = IF i < p THEN h[i] ELSE IF i = p THEN c ELSE h[i - 1]
    <3>1. p \in 1..(Len(h) + 1)
      BY <2>1
    <3> QED
      BY <2>3, <3>1, InsertAtIs
  <2> QED
    BY <2>1, <2>2 DEF p, h, T
<1>5. r = [keys |-> q2, ch |-> h2]
  BY DEF InsertAtPos
<1> HIDE DEF q2, h2
<1>6. r \in Inner /\ r.keys = q2 /\ r.ch = h2
  BY <1>3, <1>4, <1>5 DEF Inner
<1>7. \A i, j \in 1..M : i < j => q[i] < q[j]
  BY DEF NodeOK
<1>8. \A i, j \in 1..(M + 1) : i # j => h[i] # h[j]
  BY <1>1 DEF NodeOK
<1>9. /\ \A i \in 1..k : q[i] < up
      /\ \A i \in (k + 1)..M : up < q[i]
      /\ \A i \in 1..(M + 1) : h[i] # c
  BY <1>1
<1> HIDE DEF q, h, r, M
<1>10. ASSUME NEW i \in 1..(M + 1), NEW j \in 1..(M + 1), i < j PROVE q2[i] < q2[j]
  <2>1. CASE j < k + 1
    <3>1. i \in 1..M /\ j \in 1..M /\ i < k + 1
      BY <1>1, <1>2, <1>10, <2>1
    <3> QED
      BY <1>3, <1>7, <1>10, <2>1, <3>1
  <2>2. CASE j = k + 1
    <3>1. i \in 1..k /\ i < k + 1
      BY <1>1, <1>2, <1>10, <2>2
    <3> QED
      BY <1>3, <1>9, <2>2, <3>1
  <2>3. CASE j > k + 1
    <3>1. j - 1 \in (k + 1)..M /\ j - 1 \in 1..M /\ ~(j < k + 1) /\ j # k + 1
      BY <1>1, <1>2, <2>3
    <3>2. q2[j] = q[j - 1] /\ up < q[j - 1]
      BY <1>3, <1>9, <3>1
    <3>3. CASE i < k + 1
      <4>1. i \in 1..M /\ i < j - 1
        BY <1>1, <1>2, <2>3, <3>3
      <4> QED
        BY <1>3, <1>7, <3>1, <3>2, <3>3, <4>1
    <3>4. CASE i = k + 1
      <4>1. q2[i] = up
        BY <1>3, <3>4, <1>1, <1>2
      <4> QED
        BY <3>2, <4>1
    <3>5. CASE i > k + 1
      <4>1. i - 1 \in 1..M /\ i - 1 < j - 1 /\ ~(i < k + 1) /\ i # k + 1
        BY <1>1, <1>2, <1>10, <3>5
      <4> QED
        BY <1>3, <1>7, <3>1, <3>2, <4>1
    <3> QED
      BY <1>1, <1>2, <3>3, <3>4, <3>5
  <2> QED
    BY <1>1, <1>2, <2>1, <2>2, <2>3
<1>11. ASSUME NEW i \in 1..(M + 2), NEW j \in 1..(M + 2), i # j PROVE h2[i] # h2[j]
  <2> DEFINE at(x) == IF x < k + 2 THEN x ELSE x - 1
  <2>1. \A x \in 1..(M + 2) : x # k + 2 => at(x) \in 1..(M + 1) /\ h2[x] = h[at(x)]
    <3> SUFFICES ASSUME NEW x \in 1..(M + 2), x # k + 2 PROVE at(x) \in 1..(M + 1) /\ h2[x] = h[at(x)]
      OBVIOUS
    <3>1. at(x) \in 1..(M + 1)
      BY <1>1, <1>2, SMTT(30)
    <3>2. h2[x] = h[at(x)]
      BY <1>4
    <3> QED
      BY <3>1, <3>2
  <2>2. \A x, y \in 1..(M + 2) : x # k + 2 /\ y # k + 2 /\ x # y => at(x) # at(y)
    BY <1>1, <1>2
  <2>3. k + 2 \in 1..(M + 2) /\ h2[k + 2] = c
    BY <1>1, <1>2, <1>4
  <2> HIDE DEF at
  <2>4. CASE i = k + 2
    BY <1>9, <1>11, <2>1, <2>3, <2>4
  <2>5. CASE j = k + 2
    BY <1>9, <1>11, <2>1, <2>3, <2>5
  <2>6. CASE i # k + 2 /\ j # k + 2
    BY <1>8, <1>11, <2>1, <2>2, <2>6
  <2> QED
    BY <2>4, <2>5, <2>6
<1>12. NodeOK(r)
  <2>1. Len(r.keys) = M + 1 /\ Len(r.keys) <= N /\ Len(r.ch) = M + 2 /\ Len(r.ch) = Len(r.keys) + 1
    BY <1>1, <1>2, <1>3, <1>4, <1>6
  <2>2. \A i, j \in 1..Len(r.keys) : i < j => r.keys[i] < r.keys[j]
    BY <1>6, <1>10, <2>1
  <2>3. \A i, j \in 1..Len(r.ch) : i # j => r.ch[i] # r.ch[j]
    BY <1>6, <1>11, <2>1
  <2> QED
    BY <1>6, <2>1, <2>2, <2>3 DEF NodeOK
<1>13. \A i \in 1..(M + 1) : q2[i] = up \/ \E j \in 1..M : q2[i] = q[j]
  <2> SUFFICES ASSUME NEW i \in 1..(M + 1), i # k + 1 PROVE \E j \in 1..M : q2[i] = q[j]
    BY <1>3
  <2>1. CASE i < k + 1
    <3>1. i \in 1..M
      BY <1>1, <1>2, <2>1
    <3> QED
      BY <1>3, <2>1, <3>1
  <2>2. CASE i > k + 1
    <3>1. i - 1 \in 1..M /\ ~(i < k + 1)
      BY <1>1, <1>2, <2>2
    <3> QED
      BY <1>3, <3>1
  <2>3. i < k + 1 \/ i > k + 1
    <3>1. i \in Int /\ k \in Int
      BY <1>1, <1>2
    <3> HIDE <1>1, <1>2
    <3> QED
      BY <3>1
  <2> QED
    BY <2>1, <2>2, <2>3
<1>14. q2[1] = IF k = 0 THEN up ELSE q[1]
  <2>1. 1 \in 1..(M + 1) /\ (k = 0 => 1 = k + 1) /\ (k # 0 => 1 < k + 1)
    BY <1>1, <1>2
  <2> QED
    BY <1>3, <2>1
<1>15. ASSUME NEW x \in Key
       PROVE  Route(r, x) = IF FindChildrenIdx(n, x) = k /\ x >= up THEN c ELSE Route(n, x)
  <2> DEFINE i == FindChildrenIdx(n, x)
  <2>1. x \in Nat
    BY XNodeAssumption DEF Key
  <2>2. /\ i \in 0..M /\ (\A j \in 1..i : q[j] <= x)
        /\ i < M => x < q[i + 1]
    BY <1>1, <2>1, ChildrenIdx DEF q, M
  <2>3. \A b \in 0..(M + 1) :
          /\ \A j \in 1..b : q2[j] <= x
          /\ b < M + 1 => x < q2[b + 1]
          => FindChildrenIdx(r, x) = b
    <3>1. Len(r.keys) = M + 1
      BY <1>3, <1>6
    <3> QED
      BY <1>6, <2>1, <3>1, ChildrenIdx
  <2>4. Route(n, x) = h[i + 1] /\ \A b : FindChildrenIdx(r, x) = b => Route(r, x) = h2[b + 1]
    BY <1>6 DEF Route, h
  <2> HIDE DEF i
  <2>5. CASE i < k
    <3>1. x < q[i + 1] /\ i + 1 \in 1..k /\ i + 1 \in 1..M /\ i \in 0..(M + 1) /\ i + 1 < k + 1 /\ i + 1 \in 1..(M + 1)
          /\ i + 1 < k + 2 /\ i + 1 \in 1..(M + 2)
      BY <1>1, <1>2, <2>2, <2>5
    <3>2. x < up /\ ~(x >= up)
      BY <1>1, <1>2, <1>9, <2>1, <3>1
    <3>3. \A j \in 1..i : q2[j] <= x
      <4>1. \A j \in 1..i : j < k + 1 /\ j \in 1..(M + 1)
        BY <1>1, <1>2, <2>2, <2>5
      <4> QED
        BY <1>3, <2>2, <4>1
    <3>4. x < q2[i + 1]
      BY <1>3, <3>1
    <3>5. Route(r, x) = h2[i + 1]
      BY <2>3, <2>4, <3>1, <3>3, <3>4
    <3>6. h2[i + 1] = h[i + 1]
      BY <1>4, <3>1
    <3> QED
      BY <2>4, <3>2, <3>5, <3>6 DEF i
  <2>6. CASE i = k /\ x < up
    <3>1. i \in 0..(M + 1) /\ i + 1 \in 1..(M + 1) /\ i + 1 \in 1..(M + 2) /\ i + 1 < k + 2 /\ ~(x >= up) /\ i + 1 = k + 1
          /\ ~(i + 1 < k + 1)
      BY <1>1, <1>2, <2>1, <2>2, <2>6
    <3>2. \A j \in 1..i : q2[j] <= x
      <4>1. \A j \in 1..i : j < k + 1 /\ j \in 1..(M + 1)
        BY <1>1, <1>2, <2>2, <2>6
      <4> QED
        BY <1>3, <2>2, <4>1
    <3>3. x < q2[i + 1]
      BY <1>3, <2>6, <3>1
    <3>4. Route(r, x) = h2[i + 1]
      BY <2>3, <2>4, <3>1, <3>2, <3>3
    <3>5. h2[i + 1] = h[i + 1]
      BY <1>4, <3>1
    <3> QED
      BY <2>4, <3>1, <3>4, <3>5
  <2>7. CASE i >= k /\ x >= up
    <3>1. i + 1 \in 0..(M + 1) /\ k \in Nat /\ i \in Nat /\ (i + 1 < M + 1 => i < M) /\ i + 2 \in 1..(M + 2)
      BY <1>1, <1>2, <2>2, SMTT(30)
    <3>2. ASSUME NEW j \in 1..(i + 1) PROVE q2[j] <= x
      <4>1. j \in 1..(M + 1)
        BY <1>1, <2>2, <3>1
      <4>2. CASE j < k + 1
        <5>1. j \in 1..i
          BY <2>7, <3>1, <4>2
        <5> QED
          BY <1>3, <2>2, <4>1, <4>2, <5>1
      <4>3. CASE j = k + 1
        BY <1>2, <1>3, <2>1, <2>7, <4>1, <4>3
      <4>4. CASE j > k + 1
        <5>1. j - 1 \in 1..i /\ ~(j < k + 1) /\ j # k + 1
          BY <3>1, <4>4
        <5> QED
          BY <1>3, <2>2, <4>1, <5>1
      <4> QED
        BY <3>1, <4>2, <4>3, <4>4
    <3>3. ASSUME i + 1 < M + 1 PROVE x < q2[(i + 1) + 1]
      <4>1. i + 2 \in 1..(M + 1) /\ ~(i + 2 < k + 1) /\ i + 2 # k + 1 /\ (i + 2) - 1 = i + 1 /\ (i + 1) + 1 = i + 2
        BY <1>1, <2>7, <3>1, <3>3
      <4>2. q2[i + 2] = q[i + 1]
        BY <1>3, <4>1
      <4> QED
        BY <2>2, <3>1, <3>3, <4>1, <4>2
    <3>4. Route(r, x) = h2[(i + 1) + 1] /\ (i + 1) + 1 = i + 2
      <4>1. FindChildrenIdx(r, x) = i + 1
        BY <2>3, <3>1, <3>2, <3>3
      <4> QED
        BY <2>4, <3>1, <4>1
    <3>5. h2[i + 2] = IF i = k THEN c ELSE h[i + 1]
      <4>1. ~(i + 2 < k + 2) /\ (i + 2 = k + 2 <=> i = k) /\ (i + 2) - 1 = i + 1
        BY <2>7, <3>1
      <4> QED
        BY <1>4, <3>1, <4>1
    <3> QED
      BY <2>4, <2>7, <3>4, <3>5 DEF i
  <2>8. i > k => x >= up
    <3> SUFFICES ASSUME i > k PROVE x >= up
      OBVIOUS
    <3>1. i \in (k + 1)..M /\ i \in 1..i /\ i \in 1..M
      BY <1>1, <1>2, <2>2
    <3>2. up < q[i] /\ q[i] <= x /\ q[i] \in Nat
      BY <1>1, <1>9, <2>2, <3>1
    <3> QED
      BY <1>2, <2>1, <3>2
  <2> QED
    BY <1>1, <1>2, <2>1, <2>2, <2>5, <2>6, <2>7, <2>8 DEF i
<1> QED
  BY <1>3, <1>6, <1>12, <1>13, <1>14, <1>15 DEF r, q, M

\* The halves of a full node, as InnerInsert makes them.
Middle == (N + 1) \div 2
\* The halves of a full node, without the middle key.
LeftHalf(n) == [keys |-> SubSeq(n.keys, 1, Middle - 1), ch |-> SubSeq(n.ch, 1, Middle)]
RightHalf(n) == [keys |-> SubSeq(n.keys, Middle + 1, N), ch |-> SubSeq(n.ch, Middle + 1, N + 1)]

\* A part of a sequence.
LEMMA SubSeqIs ==
  ASSUME NEW T, NEW s \in Seq(T), NEW a \in 1..(Len(s) + 1), NEW b \in (a - 1)..Len(s)
  PROVE  /\ SubSeq(s, a, b) \in Seq(T)
         /\ Len(SubSeq(s, a, b)) = b - a + 1
         /\ \A i \in 1..(b - a + 1) : SubSeq(s, a, b)[i] = s[a + i - 1]
<1>1. Len(s) \in Nat /\ a \in Int /\ b \in Int /\ \A i \in 1..Len(s) : s[i] \in T
  OBVIOUS
<1>2. \A i \in a..b : s[i] \in T
  BY <1>1
<1>3. /\ SubSeq(s, a, b) \in Seq(T)
      /\ Len(SubSeq(s, a, b)) = IF a <= b THEN b - a + 1 ELSE 0
      /\ \A i \in 1..(b - a + 1) : SubSeq(s, a, b)[i] = s[a + i - 1]
  BY <1>1, <1>2, SubSeqProperties, SMTT(30)
<1>4. (IF a <= b THEN b - a + 1 ELSE 0) = b - a + 1
  BY <1>1
<1> QED
  BY <1>3, <1>4

\* Each half of a full node is in order; a search goes to the left half for the
\* keys below the middle one, to the right half for the others, and on as before.
LEMMA NodeHalves ==
  ASSUME NEW n, NodeOK(n), Len(n.keys) = N
  PROVE  LET sep == n.keys[Middle] L == LeftHalf(n) R == RightHalf(n) IN
         /\ Middle \in 1..N /\ sep \in Key
         /\ NodeOK(L) /\ Len(L.keys) = Middle - 1
         /\ NodeOK(R) /\ Len(R.keys) = N - Middle
         /\ \A i \in 1..(Middle - 1) : L.keys[i] = n.keys[i] /\ L.keys[i] < sep
         /\ \A i \in 1..(N - Middle) : R.keys[i] = n.keys[Middle + i] /\ sep < R.keys[i]
         /\ \A i \in 1..Middle : L.ch[i] = n.ch[i]
         /\ \A i \in 1..(N - Middle + 1) : R.ch[i] = n.ch[Middle + i]
         /\ \A x \in Key : /\ FindChildrenIdx(n, x) >= Middle <=> x >= sep
                           /\ x < sep => /\ FindChildrenIdx(L, x) = FindChildrenIdx(n, x)
                                         /\ Route(L, x) = Route(n, x)
                           /\ x >= sep => /\ FindChildrenIdx(R, x) = FindChildrenIdx(n, x) - Middle
                                          /\ Route(R, x) = Route(n, x)
<1> DEFINE th == Middle q == n.keys h == n.ch sep == n.keys[Middle] L == LeftHalf(n) R == RightHalf(n)
           lk == SubSeq(n.keys, 1, Middle - 1) lc == SubSeq(n.ch, 1, Middle)
           rk == SubSeq(n.keys, Middle + 1, N) rc == SubSeq(n.ch, Middle + 1, N + 1)
<1>1. N \in Nat /\ N >= 2 /\ th \in 1..N /\ th \in Nat
  BY XNodeAssumption DEF Middle
<1>2. /\ n \in Inner /\ q \in Seq(Key) /\ h \in Seq(Nat \ {Null}) /\ Len(q) = N /\ Len(h) = N + 1
      /\ \A i \in 1..N : q[i] \in Key /\ q[i] \in Nat
  BY NodeFields
<1>3. L = [keys |-> lk, ch |-> lc] /\ R = [keys |-> rk, ch |-> rc]
  BY DEF LeftHalf, RightHalf
<1>4. \A i, j \in 1..N : i < j => q[i] < q[j]
  BY <1>2 DEF NodeOK
<1>5. \A i, j \in 1..(N + 1) : i # j => h[i] # h[j]
  BY <1>2 DEF NodeOK
<1> HIDE DEF q, h, L, R, lk, lc, rk, rc, th
<1>6. lk \in Seq(Key) /\ Len(lk) = th - 1 /\ \A i \in 1..(th - 1) : lk[i] = q[i]
  <2> DEFINE a == 1 b == th - 1
  <2>1. a \in 1..(Len(q) + 1) /\ b \in (a - 1)..Len(q) /\ b - a + 1 = th - 1
    BY <1>1, <1>2
  <2>2. \A i \in 1..(th - 1) : a + i - 1 = i
    BY <1>1
  <2>3. lk = SubSeq(q, a, b)
    BY DEF lk, q, th
  <2> HIDE DEF a, b
  <2>4. /\ SubSeq(q, a, b) \in Seq(Key) /\ Len(SubSeq(q, a, b)) = b - a + 1
        /\ \A i \in 1..(b - a + 1) : SubSeq(q, a, b)[i] = q[a + i - 1]
    BY <1>2, <2>1, SubSeqIs
  <2> QED
    BY <2>1, <2>2, <2>3, <2>4
<1>7. rk \in Seq(Key) /\ Len(rk) = N - th /\ \A i \in 1..(N - th) : rk[i] = q[th + i]
  <2> DEFINE a == th + 1 b == N
  <2>1. a \in 1..(Len(q) + 1) /\ b \in (a - 1)..Len(q) /\ b - a + 1 = N - th
    BY <1>1, <1>2
  <2>2. \A i \in 1..(N - th) : a + i - 1 = th + i
    BY <1>1
  <2>3. rk = SubSeq(q, a, b)
    BY DEF rk, q, th
  <2> HIDE DEF a, b
  <2>4. /\ SubSeq(q, a, b) \in Seq(Key) /\ Len(SubSeq(q, a, b)) = b - a + 1
        /\ \A i \in 1..(b - a + 1) : SubSeq(q, a, b)[i] = q[a + i - 1]
    BY <1>2, <2>1, SubSeqIs
  <2> QED
    BY <2>1, <2>2, <2>3, <2>4
<1> DEFINE T == Nat \ {Null}
<1>8. h \in Seq(T)
  BY <1>2
<1> HIDE DEF T
<1>9. lc \in Seq(T) /\ Len(lc) = th /\ \A i \in 1..th : lc[i] = h[i]
  <2> DEFINE a == 1 b == th
  <2>1. a \in 1..(Len(h) + 1) /\ b \in (a - 1)..Len(h) /\ b - a + 1 = th
    BY <1>1, <1>2
  <2>2. \A i \in 1..th : a + i - 1 = i
    BY <1>1
  <2>3. lc = SubSeq(h, a, b)
    BY DEF lc, h, th
  <2> HIDE DEF a, b
  <2>4. /\ SubSeq(h, a, b) \in Seq(T) /\ Len(SubSeq(h, a, b)) = b - a + 1
        /\ \A i \in 1..(b - a + 1) : SubSeq(h, a, b)[i] = h[a + i - 1]
    BY <1>8, <2>1, SubSeqIs
  <2> QED
    BY <2>1, <2>2, <2>3, <2>4
<1>10. rc \in Seq(T) /\ Len(rc) = N - th + 1 /\ \A i \in 1..(N - th + 1) : rc[i] = h[th + i]
  <2> DEFINE a == th + 1 b == N + 1
  <2>1. a \in 1..(Len(h) + 1) /\ b \in (a - 1)..Len(h) /\ b - a + 1 = N - th + 1
    BY <1>1, <1>2
  <2>2. \A i \in 1..(N - th + 1) : a + i - 1 = th + i
    BY <1>1
  <2>3. rc = SubSeq(h, a, b)
    BY DEF rc, h, th
  <2> HIDE DEF a, b
  <2>4. /\ SubSeq(h, a, b) \in Seq(T) /\ Len(SubSeq(h, a, b)) = b - a + 1
        /\ \A i \in 1..(b - a + 1) : SubSeq(h, a, b)[i] = h[a + i - 1]
    BY <1>8, <2>1, SubSeqIs
  <2> QED
    BY <2>1, <2>2, <2>3, <2>4
<1>11. /\ L \in Inner /\ L.keys = lk /\ L.ch = lc
       /\ R \in Inner /\ R.keys = rk /\ R.ch = rc
  BY <1>3, <1>6, <1>7, <1>9, <1>10 DEF Inner, T
<1>12. sep \in Key /\ sep \in Nat /\ sep = q[th]
  BY <1>1, <1>2 DEF q, th
<1>13. NodeOK(L)
  <2>1. Len(lk) <= N /\ Len(lc) = Len(lk) + 1
    BY <1>1, <1>6, <1>9
  <2>2. ASSUME NEW i \in 1..Len(lk), NEW j \in 1..Len(lk), i < j PROVE lk[i] < lk[j]
    <3>1. i \in 1..N /\ j \in 1..N /\ i \in 1..(th - 1) /\ j \in 1..(th - 1)
      BY <1>1, <1>6
    <3> QED
      BY <1>4, <1>6, <2>2, <3>1
  <2>3. ASSUME NEW i \in 1..Len(lc), NEW j \in 1..Len(lc), i # j PROVE lc[i] # lc[j]
    <3>1. i \in 1..(N + 1) /\ j \in 1..(N + 1) /\ i \in 1..th /\ j \in 1..th
      BY <1>1, <1>9
    <3> QED
      BY <1>5, <1>9, <2>3, <3>1
  <2> QED
    BY <1>11, <2>1, <2>2, <2>3 DEF NodeOK
<1>14. NodeOK(R)
  <2>1. Len(rk) <= N /\ Len(rc) = Len(rk) + 1
    BY <1>1, <1>7, <1>10
  <2>2. ASSUME NEW i \in 1..Len(rk), NEW j \in 1..Len(rk), i < j PROVE rk[i] < rk[j]
    <3>1. th + i \in 1..N /\ th + j \in 1..N /\ th + i < th + j /\ i \in 1..(N - th) /\ j \in 1..(N - th)
      BY <1>1, <1>7, <2>2
    <3> QED
      BY <1>4, <1>7, <3>1
  <2>3. ASSUME NEW i \in 1..Len(rc), NEW j \in 1..Len(rc), i # j PROVE rc[i] # rc[j]
    <3>1. th + i \in 1..(N + 1) /\ th + j \in 1..(N + 1) /\ th + i # th + j
          /\ i \in 1..(N - th + 1) /\ j \in 1..(N - th + 1)
      BY <1>1, <1>10, <2>3
    <3> QED
      BY <1>5, <1>10, <3>1
  <2> QED
    BY <1>11, <2>1, <2>2, <2>3 DEF NodeOK
<1>15. \A i \in 1..(th - 1) : lk[i] = q[i] /\ lk[i] < sep
  <2>1. \A i \in 1..(th - 1) : i \in 1..N /\ th \in 1..N /\ i < th
    BY <1>1
  <2> QED
    BY <1>4, <1>6, <1>12, <2>1
<1>16. \A i \in 1..(N - th) : rk[i] = q[th + i] /\ sep < rk[i]
  <2>1. \A i \in 1..(N - th) : th + i \in 1..N /\ th \in 1..N /\ th < th + i
    BY <1>1
  <2> QED
    BY <1>4, <1>7, <1>12, <2>1
<1>17. ASSUME NEW x \in Key
       PROVE  /\ FindChildrenIdx(n, x) >= th <=> x >= sep
              /\ x < sep => /\ FindChildrenIdx(L, x) = FindChildrenIdx(n, x)
                            /\ Route(L, x) = Route(n, x)
              /\ x >= sep => /\ FindChildrenIdx(R, x) = FindChildrenIdx(n, x) - th
                             /\ Route(R, x) = Route(n, x)
  <2> DEFINE i == FindChildrenIdx(n, x)
  <2>1. x \in Nat
    BY XNodeAssumption DEF Key
  <2>2. /\ i \in 0..N /\ (\A j \in 1..i : q[j] <= x)
        /\ i < N => x < q[i + 1]
    BY <1>2, <2>1, ChildrenIdx DEF q
  <2>3. \A b \in 0..(th - 1) :
          /\ \A j \in 1..b : lk[j] <= x
          /\ b < th - 1 => x < lk[b + 1]
          => FindChildrenIdx(L, x) = b
    <3>1. Len(L.keys) = th - 1 /\ L \in Inner /\ L.keys = lk
      BY <1>6, <1>11
    <3>2. \A b \in 0..Len(L.keys) :
            /\ \A j \in 1..b : L.keys[j] <= x
            /\ b < Len(L.keys) => x < L.keys[b + 1]
            => FindChildrenIdx(L, x) = b
      BY <2>1, <3>1, ChildrenIdx
    <3> QED
      BY <3>1, <3>2
  <2>4. \A b \in 0..(N - th) :
          /\ \A j \in 1..b : rk[j] <= x
          /\ b < N - th => x < rk[b + 1]
          => FindChildrenIdx(R, x) = b
    <3>1. Len(R.keys) = N - th /\ R \in Inner /\ R.keys = rk
      BY <1>7, <1>11
    <3>2. \A b \in 0..Len(R.keys) :
            /\ \A j \in 1..b : R.keys[j] <= x
            /\ b < Len(R.keys) => x < R.keys[b + 1]
            => FindChildrenIdx(R, x) = b
      BY <2>1, <3>1, ChildrenIdx
    <3> QED
      BY <3>1, <3>2
  <2>5. /\ Route(n, x) = h[i + 1]
        /\ \A b : FindChildrenIdx(L, x) = b => Route(L, x) = lc[b + 1]
        /\ \A b : FindChildrenIdx(R, x) = b => Route(R, x) = rc[b + 1]
    BY <1>11 DEF Route, h
  <2> HIDE DEF i
  <2>6. i >= th <=> x >= sep
    <3>1. ASSUME i >= th PROVE x >= sep
      <4>1. th \in 1..i
        BY <1>1, <2>2, <3>1
      <4> QED
        BY <1>12, <2>1, <2>2, <4>1
    <3>2. ASSUME i < th PROVE x < sep
      <4>1. i < N /\ i + 1 \in 1..N /\ th \in 1..N /\ (i + 1 = th \/ i + 1 < th)
        BY <1>1, <2>2, <3>2
      <4>2. q[i + 1] = sep \/ q[i + 1] < sep
        BY <1>4, <1>12, <4>1
      <4>3. q[i + 1] \in Nat
        BY <1>2, <4>1 DEF q
      <4> QED
        BY <1>12, <2>1, <2>2, <4>1, <4>2, <4>3
    <3>3. i \in Nat /\ (i >= th \/ i < th)
      BY <1>1, <2>2
    <3> QED
      BY <1>12, <2>1, <3>1, <3>2, <3>3
  <2>7. ASSUME x < sep PROVE FindChildrenIdx(L, x) = i /\ Route(L, x) = h[i + 1]
    <3>1. i \in 0..(th - 1) /\ i + 1 \in 1..th
      BY <1>1, <1>12, <2>1, <2>2, <2>6, <2>7
    <3>2. \A j \in 1..i : j \in 1..(th - 1) /\ lk[j] <= x
      <4>1. \A j \in 1..i : j \in 1..(th - 1)
        BY <1>1, <3>1
      <4> QED
        BY <1>6, <2>2, <4>1
    <3>3. i < th - 1 => x < lk[i + 1]
      <4>1. i < th - 1 => i + 1 \in 1..(th - 1) /\ i < N
        BY <1>1, <3>1
      <4> QED
        BY <1>6, <2>2, <4>1
    <3>4. FindChildrenIdx(L, x) = i
      BY <2>3, <3>1, <3>2, <3>3
    <3> QED
      BY <1>9, <2>5, <3>1, <3>4
  <2>8. ASSUME x >= sep PROVE FindChildrenIdx(R, x) = i - th /\ Route(R, x) = h[i + 1]
    <3>1. /\ i - th \in 0..(N - th) /\ (i - th) + 1 \in 1..(N - th + 1) /\ th + ((i - th) + 1) = i + 1
      BY <1>1, <2>2, <2>6, <2>8
    <3>2. \A j \in 1..(i - th) : rk[j] <= x
      <4>1. \A j \in 1..(i - th) : j \in 1..(N - th) /\ th + j \in 1..i
        BY <1>1, <2>2, <3>1
      <4> QED
        BY <1>7, <2>2, <4>1
    <3>3. i - th < N - th => x < rk[(i - th) + 1]
      <4>1. i - th < N - th => (i - th) + 1 \in 1..(N - th) /\ i < N
        BY <1>1, <2>2, <3>1
      <4> QED
        BY <1>7, <2>2, <3>1, <4>1
    <3>4. FindChildrenIdx(R, x) = i - th
      BY <2>4, <3>1, <3>2, <3>3
    <3>5. Route(R, x) = rc[(i - th) + 1]
      BY <2>5, <3>4
    <3> QED
      BY <1>10, <3>1, <3>4, <3>5
  <2> QED
    BY <2>5, <2>6, <2>7, <2>8 DEF i
<1> QED
  BY <1>1, <1>6, <1>7, <1>9, <1>10, <1>11, <1>12, <1>13, <1>14, <1>15, <1>16, <1>17 DEF L, R, th, q, h

-----------------------------------------------------------------------------
(* The way down and the way up, as recursive functions. *)

\* The walk of x over nodes I from root r.
WalkOf(I, D, r, x) == CHOOSE w : w = [d \in 0..D |-> IF d = 0 THEN r ELSE Route(I[w[d - 1]], x)]

\* A recursive function over an interval exists: a walk.
LEMMA WalkExists ==
  ASSUME NEW I, NEW r, NEW x
  PROVE  \A D \in Nat : \E w : w = [d \in 0..D |-> IF d = 0 THEN r ELSE Route(I[w[d - 1]], x)]
<1> DEFINE Is(w, D) == w = [d \in 0..D |-> IF d = 0 THEN r ELSE Route(I[w[d - 1]], x)]
           T == {D \in Nat : ~ \E w : Is(w, D)}
<1>1. SUFFICES ASSUME T # {} PROVE FALSE
  OBVIOUS
<1>2. PICK D \in T : \A E \in T : D <= E
  <2>1. T \in SUBSET Nat
    OBVIOUS
  <2> HIDE DEF T
  <2> QED
    BY <1>1, <2>1, NatMin
<1>3. CASE D = 0
  <2> DEFINE w == [d \in 0..0 |-> r]
  <2>1. \A d \in 0..0 : d = 0
    OBVIOUS
  <2>2. w = [d \in 0..0 |-> IF d = 0 THEN r ELSE Route(I[w[d - 1]], x)]
    BY <2>1
  <2> HIDE DEF w
  <2>3. Is(w, 0)
    BY <2>2
  <2> QED
    BY <1>3, <2>3
<1>4. CASE D # 0
  <2>1. D - 1 \in Nat /\ D - 1 \notin T /\ D \in Nat
    BY <1>2, <1>4, SMTT(30)
  <2>2. PICK u : Is(u, D - 1)
    BY <2>1
  <2> DEFINE w == [d \in 0..D |-> IF d = D THEN Route(I[u[D - 1]], x) ELSE u[d]]
  <2>3. \A d \in 0..(D - 1) : u[d] = IF d = 0 THEN r ELSE Route(I[u[d - 1]], x)
    BY <2>2
  <2>4. \A d \in 0..D : w[d] = IF d = D THEN Route(I[u[D - 1]], x) ELSE u[d]
    OBVIOUS
  <2>5. w = [d \in 0..D |-> w[d]]
    OBVIOUS
  <2> HIDE DEF w, Is
  <2>6. ASSUME NEW d \in 0..D PROVE w[d] = IF d = 0 THEN r ELSE Route(I[w[d - 1]], x)
    <3>1. CASE d = D
      <4>1. d - 1 \in 0..D /\ d - 1 # D /\ d # 0
        BY <1>4, <2>1, <3>1
      <4>2. w[d - 1] = u[D - 1]
        BY <2>4, <3>1, <4>1
      <4> QED
        BY <2>4, <3>1, <4>1, <4>2
    <3>2. CASE d # D
      <4>1. d \in 0..(D - 1) /\ (d # 0 => d - 1 \in 0..D /\ d - 1 # D)
        BY <2>1, <3>2
      <4> QED
        BY <2>3, <2>4, <3>2, <4>1
    <3> QED
      BY <3>1, <3>2
  <2>7. Is(w, D)
    BY <2>5, <2>6 DEF Is
  <2> QED
    BY <1>2, <2>7
<1> QED
  BY <1>3, <1>4

\* A walk: from the root, at each inner node to the child of the key.
LEMMA WalkSteps ==
  ASSUME NEW I, NEW D \in Nat, NEW r, NEW x
  PROVE  /\ WalkOf(I, D, r, x)[0] = r
         /\ \A d \in 1..D : WalkOf(I, D, r, x)[d] = Route(I[WalkOf(I, D, r, x)[d - 1]], x)
<1> DEFINE w == WalkOf(I, D, r, x)
<1>1. w = [d \in 0..D |-> IF d = 0 THEN r ELSE Route(I[w[d - 1]], x)]
  BY WalkExists DEF WalkOf
<1> HIDE DEF w
<1>2. 0 \in 0..D /\ \A d \in 1..D : d \in 0..D /\ d # 0
  OBVIOUS
<1>3. w[0] = r
  BY <1>1, <1>2
<1>4. \A d \in 1..D : w[d] = Route(I[w[d - 1]], x)
  BY <1>1, <1>2
<1> QED
  BY <1>3, <1>4 DEF w

\* Walk is that walk over the nodes of the state,
LEMMA WalkIsWalkOf ==
  ASSUME NEW r, NEW x
  PROVE  Walk(r, x) = WalkOf(inners, depth, r, x)
BY DEF Walk, WalkOf, Route

\* and in the next state.
LEMMA WalkIsWalkOfNext ==
  ASSUME NEW x
  PROVE  Walk(root, x)' = WalkOf(inners', depth', root', x)
BY DEF Walk, WalkOf, Route

-----------------------------------------------------------------------------
(* One level of the way up. *)

\* What TreeInner::insert hands from level to level.
Ascent == [inners : Seq(Inner), to_insert : Nat, up_key : Key, ok : BOOLEAN]

\* The three ways a node takes what the level below left.
Ascended(is, c, up) == [inners |-> is, to_insert |-> c, up_key |-> up, ok |-> TRUE]

\* TreeInner::insert at a node with room,
LEMMA InnerInsertInPlace ==
  ASSUME NEW s \in Ascent, s.ok = TRUE, s.to_insert # Null, NEW nn, NEW key,
         NodeOK(s.inners[nn]), Len(s.inners[nn].keys) < N
  PROVE  InnerInsert(s, nn, key) =
           Ascended([s.inners EXCEPT ![nn] = InsertAtPos(s.inners[nn], s.up_key, s.to_insert,
                                                         FindChildrenIdx(s.inners[nn], key))],
                    Null, s.up_key)
<1>1. Len(s.inners[nn].keys) \in Nat /\ N \in Nat
  BY NodeFields, XNodeAssumption
<1>2. Len(s.inners[nn].keys) # N
  BY <1>1
<1>3. InnerInsert(s, nn, key) =
        [s EXCEPT !.inners = [@ EXCEPT ![nn] = InsertAtPos(s.inners[nn], s.up_key, s.to_insert,
                                                           FindChildrenIdx(s.inners[nn], key))],
                  !.to_insert = Null]
  BY <1>2, SMT DEF InnerInsert, InnerFull
<1> QED
  BY <1>3 DEF Ascent, Ascended

\* at a full node, left of the middle key,
LEMMA InnerInsertLeft ==
  ASSUME NEW s \in Ascent, s.ok = TRUE, s.to_insert # Null, NEW nn, NEW key,
         Len(s.inners[nn].keys) = N, s.up_key < s.inners[nn].keys[Middle],
         ~(s.up_key >= s.inners[nn].keys[Middle])
  PROVE  InnerInsert(s, nn, key) =
           Ascended(Append([s.inners EXCEPT ![nn] = InsertAtPos(LeftHalf(s.inners[nn]), s.up_key, s.to_insert,
                                                                FindChildrenIdx(s.inners[nn], key))],
                           RightHalf(s.inners[nn])),
                    Len(s.inners) + 1, s.inners[nn].keys[Middle])
<1>1. InnerInsert(s, nn, key) =
        [s EXCEPT !.inners = Append([@ EXCEPT ![nn] = InsertAtPos(LeftHalf(s.inners[nn]), s.up_key, s.to_insert,
                                                                  FindChildrenIdx(s.inners[nn], key))],
                                    RightHalf(s.inners[nn])),
                  !.to_insert = Len(s.inners) + 1, !.up_key = s.inners[nn].keys[Middle]]
  BY DEF InnerInsert, InnerFull, LeftHalf, RightHalf, Middle
<1> QED
  BY <1>1 DEF Ascent, Ascended

\* and right of it.
LEMMA InnerInsertRight ==
  ASSUME NEW s \in Ascent, s.ok = TRUE, s.to_insert # Null, NEW nn, NEW key,
         Len(s.inners[nn].keys) = N, s.up_key >= s.inners[nn].keys[Middle],
         ~(s.up_key < s.inners[nn].keys[Middle]), FindChildrenIdx(s.inners[nn], key) >= Middle
  PROVE  InnerInsert(s, nn, key) =
           Ascended(Append([s.inners EXCEPT ![nn] = LeftHalf(s.inners[nn])],
                           InsertAtPos(RightHalf(s.inners[nn]), s.up_key, s.to_insert,
                                       FindChildrenIdx(s.inners[nn], key) - Middle)),
                    Len(s.inners) + 1, s.inners[nn].keys[Middle])
<1>1. InnerInsert(s, nn, key) =
        [s EXCEPT !.inners = Append([@ EXCEPT ![nn] = LeftHalf(s.inners[nn])],
                                    InsertAtPos(RightHalf(s.inners[nn]), s.up_key, s.to_insert,
                                                FindChildrenIdx(s.inners[nn], key) - Middle)),
                  !.to_insert = Len(s.inners) + 1, !.up_key = s.inners[nn].keys[Middle]]
  BY DEF InnerInsert, InnerFull, LeftHalf, RightHalf, Middle
<1> QED
  BY <1>1 DEF Ascent, Ascended

\* A split comes from below to node nn: its separator belongs where the key does,
\* strictly above the separator before it, and its new node is no child of nn.
Arrives(s, nn, key) ==
  LET node == s.inners[nn] k == FindChildrenIdx(node, key) IN
  /\ s \in Ascent /\ s.ok = TRUE /\ s.to_insert # Null
  /\ nn \in 1..Len(s.inners) /\ \A m \in 1..Len(s.inners) : NodeOK(s.inners[m])
  /\ key \in Key
  /\ \A i \in 1..Len(node.ch) : node.ch[i] # s.to_insert
  /\ FindChildrenIdx(node, s.up_key) = k
  /\ \E y \in Key : FindChildrenIdx(node, y) = k /\ y < s.up_key

\* The separators of a node.
KeysOf(n) == {n.keys[i] : i \in 1..Len(n.keys)}

\* Node nn took the split; if it was full, it split itself.
Rises(s, t, nn, key) ==
  LET node == s.inners[nn]
      k    == FindChildrenIdx(node, key)
      a    == t.inners[nn]
      b    == t.inners[t.to_insert]
      q    == t.to_insert
  IN /\ t \in Ascent /\ t.ok = TRUE
     /\ \A m \in 1..Len(t.inners) : NodeOK(t.inners[m])
     /\ Len(t.inners) = IF q = Null THEN Len(s.inners) ELSE Len(s.inners) + 1
     /\ q # Null => q = Len(s.inners) + 1
     /\ \A m \in 1..Len(s.inners) : m # nn => t.inners[m] = s.inners[m]
     /\ \A x \in Key :
          (IF q # Null /\ x >= t.up_key THEN Route(b, x) ELSE Route(a, x)) =
          (IF FindChildrenIdx(node, x) = k /\ x >= s.up_key THEN s.to_insert ELSE Route(node, x))
     /\ KeysOf(a) \subseteq KeysOf(node) \cup {s.up_key}
     /\ Len(a.keys) >= 1 => \/ a.keys[1] = s.up_key /\ k = 0
                            \/ Len(node.keys) >= 1 /\ a.keys[1] = node.keys[1]
     /\ q # Null =>
          /\ Len(node.keys) = N /\ t.up_key = node.keys[Middle]
          /\ KeysOf(b) \subseteq KeysOf(node) \cup {s.up_key}
          /\ \A z \in KeysOf(a) : z < t.up_key
          /\ \A z \in KeysOf(b) : t.up_key < z
          /\ \A x \in Key : FindChildrenIdx(node, x) >= Middle <=> x >= t.up_key

\* The separator that arrives lies between its neighbours.
LEMMA ArrivesBetween ==
  ASSUME NEW s, NEW nn, NEW key, Arrives(s, nn, key)
  PROVE  LET node == s.inners[nn] k == FindChildrenIdx(node, key) IN
         /\ NodeOK(node) /\ s.up_key \in Key /\ s.up_key \in Nat /\ s.to_insert \in Nat \ {Null}
         /\ k \in 0..Len(node.keys)
         /\ \A i \in 1..k : node.keys[i] < s.up_key
         /\ \A i \in (k + 1)..Len(node.keys) : s.up_key < node.keys[i]
<1> DEFINE node == s.inners[nn] k == FindChildrenIdx(node, key) up == s.up_key M == Len(node.keys)
<1>1. NodeOK(node) /\ up \in Key /\ s.to_insert \in Nat \ {Null} /\ key \in Key
  BY DEF Arrives, Ascent
<1>2. \A x \in Key : x \in Nat
  BY XNodeAssumption DEF Key
<1>3. node \in Inner /\ M \in Nat /\ \A i \in 1..M : node.keys[i] \in Nat
  BY <1>1, NodeFields
<1>4. PICK y \in Key : FindChildrenIdx(node, y) = k /\ y < up
  BY DEF Arrives
<1>5. FindChildrenIdx(node, up) = k
  BY DEF Arrives
<1> HIDE DEF node, up
<1>6. k \in 0..M
  BY <1>1, <1>2, <1>3, ChildrenIdx
<1>7. \A i \in 1..FindChildrenIdx(node, y) : node.keys[i] <= y
  BY <1>2, <1>3, ChildrenIdx
<1>8. FindChildrenIdx(node, up) < M => up < node.keys[FindChildrenIdx(node, up) + 1]
  BY <1>1, <1>2, <1>3, ChildrenIdx
<1> HIDE DEF k
<1>9. \A i \in 1..k : node.keys[i] < up
  <2> TAKE i \in 1..k
  <2>1. node.keys[i] <= y /\ i \in 1..M
    BY <1>3, <1>4, <1>6, <1>7
  <2>2. node.keys[i] \in Nat
    BY <1>3, <2>1
  <2> QED
    BY <1>1, <1>2, <1>4, <2>1, <2>2
<1> HIDE DEF M
<1>10. \A i \in (k + 1)..M : up < node.keys[i]
  <2> TAKE i \in (k + 1)..M
  <2>1. k < M /\ i \in 1..M /\ k + 1 \in 1..M /\ (i = k + 1 \/ k + 1 < i)
    BY <1>3, <1>6
  <2>2. up < node.keys[k + 1]
    BY <1>5, <1>8, <2>1
  <2>3. k + 1 < i => node.keys[k + 1] < node.keys[i]
    BY <1>1, <2>1 DEF NodeOK, M
  <2>4. node.keys[k + 1] \in Nat /\ node.keys[i] \in Nat /\ up \in Nat
    BY <1>1, <1>2, <1>3, <2>1
  <2> QED
    BY <2>1, <2>2, <2>3, <2>4
<1> QED
  BY <1>1, <1>2, <1>6, <1>9, <1>10 DEF node, up, k, M

\* A node with room takes the split.
LEMMA RiseInPlace ==
  ASSUME NEW s, NEW nn, NEW key, Arrives(s, nn, key), Len(s.inners[nn].keys) < N
  PROVE  Rises(s, InnerInsert(s, nn, key), nn, key)
<1> DEFINE node == s.inners[nn] k == FindChildrenIdx(node, key) up == s.up_key c == s.to_insert
           t == InnerInsert(s, nn, key) r == InsertAtPos(node, up, c, k) I2 == [s.inners EXCEPT ![nn] = r]
<1>1. /\ NodeOK(node) /\ up \in Key /\ c \in Nat \ {Null} /\ k \in 0..Len(node.keys)
      /\ \A i \in 1..k : node.keys[i] < up
      /\ \A i \in (k + 1)..Len(node.keys) : up < node.keys[i]
  BY ArrivesBetween
<1>2. /\ s \in Ascent /\ s.ok = TRUE /\ nn \in 1..Len(s.inners) /\ \A i \in 1..Len(node.ch) : node.ch[i] # c
      /\ \A m \in 1..Len(s.inners) : NodeOK(s.inners[m])
  BY DEF Arrives
<1>3. t = Ascended([s.inners EXCEPT ![nn] = r], Null, up)
  <2>1. s.to_insert # Null /\ NodeOK(s.inners[nn])
    BY <1>1
  <2> QED
    BY <1>2, <2>1, InnerInsertInPlace
<1>4. Len(node.keys) \in Nat /\ Len(node.keys) < N
  BY <1>1, NodeFields
<1> HIDE DEF t, k, c, up, node
<1>5. /\ NodeOK(r)
      /\ Len(r.keys) = Len(node.keys) + 1
      /\ \A i \in 1..Len(r.keys) : r.keys[i] = up \/ \E j \in 1..Len(node.keys) : r.keys[i] = node.keys[j]
      /\ r.keys[1] = IF k = 0 THEN up ELSE node.keys[1]
      /\ \A x \in Key : Route(r, x) = IF FindChildrenIdx(node, x) = k /\ x >= up THEN c ELSE Route(node, x)
  BY <1>1, <1>2, <1>4, NodeTakes, SMTT(30)
<1>6. r \in Inner
  BY <1>5 DEF NodeOK
<1>7. s.inners \in Seq(Inner)
  BY <1>2 DEF Ascent
<1> HIDE DEF r
<1>8. /\ I2 \in Seq(Inner) /\ Len(I2) = Len(s.inners)
      /\ \A m \in 1..Len(s.inners) : I2[m] = IF m = nn THEN r ELSE s.inners[m]
  BY <1>2, <1>6, <1>7, ExceptSeq
<1> HIDE DEF I2
<1>9. t = Ascended(I2, Null, up)
  BY <1>3 DEF I2
<1>10. t \in Ascent /\ t.ok = TRUE /\ t.inners = I2 /\ t.to_insert = Null
  BY <1>1, <1>8, <1>9 DEF Ascent, Ascended, Null
<1>11. I2[nn] = r
  BY <1>2, <1>8
<1>12. KeysOf(r) \subseteq KeysOf(node) \cup {up}
  BY <1>5 DEF KeysOf
<1>13. \/ r.keys[1] = up /\ k = 0
       \/ Len(node.keys) >= 1 /\ r.keys[1] = node.keys[1]
  <2>1. k # 0 => Len(node.keys) >= 1
    BY <1>1, <1>4
  <2>2. r.keys[1] = IF k = 0 THEN up ELSE node.keys[1]
    BY <1>5
  <2> QED
    BY <2>1, <2>2
<1>14. \A m \in 1..Len(I2) : NodeOK(I2[m])
  BY <1>2, <1>5, <1>8
<1>15. \A x \in Key :
         (IF t.to_insert # Null /\ x >= t.up_key THEN Route(t.inners[t.to_insert], x) ELSE Route(t.inners[nn], x)) =
         (IF FindChildrenIdx(node, x) = k /\ x >= up THEN c ELSE Route(node, x))
  BY <1>5, <1>10, <1>11
<1>16. /\ KeysOf(t.inners[nn]) \subseteq KeysOf(node) \cup {up}
       /\ Len(t.inners[nn].keys) >= 1 => \/ t.inners[nn].keys[1] = up /\ k = 0
                                         \/ Len(node.keys) >= 1 /\ t.inners[nn].keys[1] = node.keys[1]
       /\ \A m \in 1..Len(t.inners) : NodeOK(t.inners[m])
       /\ \A m \in 1..Len(s.inners) : m # nn => t.inners[m] = s.inners[m]
       /\ Len(t.inners) = Len(s.inners)
  BY <1>8, <1>10, <1>11, <1>12, <1>13, <1>14
<1> HIDE DEF I2
<1>17. Rises(s, t, nn, key)
  BY <1>10, <1>15, <1>16 DEF Rises, node, k, c, up
<1> QED
  BY <1>17 DEF t

\* The halves of a full node, one of which took the separator.
Halves(s, nn, key, a, b) ==
  LET node == s.inners[nn] k == FindChildrenIdx(node, key) sep == node.keys[Middle] IN
  /\ InnerInsert(s, nn, key) =
       Ascended(Append([s.inners EXCEPT ![nn] = a], b), Len(s.inners) + 1, sep)
  /\ NodeOK(a) /\ NodeOK(b)
  /\ \A x \in Key : (IF x >= sep THEN Route(b, x) ELSE Route(a, x)) =
                    (IF FindChildrenIdx(node, x) = k /\ x >= s.up_key THEN s.to_insert ELSE Route(node, x))
  /\ KeysOf(a) \subseteq KeysOf(node) \cup {s.up_key}
  /\ KeysOf(b) \subseteq KeysOf(node) \cup {s.up_key}
  /\ Len(a.keys) >= 1 => \/ a.keys[1] = s.up_key /\ k = 0
                         \/ a.keys[1] = node.keys[1]
  /\ \A z \in KeysOf(a) : z < sep
  /\ \A z \in KeysOf(b) : sep < z

\* A full node splits, and the half the separator belongs to takes it.
LEMMA RiseHalves ==
  ASSUME NEW s, NEW nn, NEW key, Arrives(s, nn, key), Len(s.inners[nn].keys) = N
  PROVE  \E a, b : Halves(s, nn, key, a, b)
<1> DEFINE node == s.inners[nn] k == FindChildrenIdx(node, key) sep == node.keys[Middle]
           up == s.up_key c == s.to_insert L == LeftHalf(node) R == RightHalf(node)
           t == InnerInsert(s, nn, key) th == Middle
           Good(a, b) ==
             /\ t = Ascended(Append([s.inners EXCEPT ![nn] = a], b), Len(s.inners) + 1, sep)
             /\ NodeOK(a) /\ NodeOK(b)
             /\ \A x \in Key : (IF x >= sep THEN Route(b, x) ELSE Route(a, x)) =
                               (IF FindChildrenIdx(node, x) = k /\ x >= up THEN c ELSE Route(node, x))
             /\ KeysOf(a) \subseteq KeysOf(node) \cup {up}
             /\ KeysOf(b) \subseteq KeysOf(node) \cup {up}
             /\ Len(a.keys) >= 1 => \/ a.keys[1] = up /\ k = 0
                                    \/ a.keys[1] = node.keys[1]
             /\ \A z \in KeysOf(a) : z < sep
             /\ \A z \in KeysOf(b) : sep < z
<1>1. /\ NodeOK(node) /\ up \in Key /\ up \in Nat /\ c \in Nat \ {Null} /\ k \in 0..Len(node.keys)
      /\ \A i \in 1..k : node.keys[i] < up
      /\ \A i \in (k + 1)..Len(node.keys) : up < node.keys[i]
  BY ArrivesBetween
<1>2. /\ s \in Ascent /\ s.ok = TRUE /\ nn \in 1..Len(s.inners) /\ \A i \in 1..Len(node.ch) : node.ch[i] # c
      /\ \A m \in 1..Len(s.inners) : NodeOK(s.inners[m])
      /\ FindChildrenIdx(node, up) = k /\ s.to_insert # Null
  BY DEF Arrives
<1>3. Len(node.keys) = N /\ Len(node.ch) = N + 1 /\ N \in Nat
  BY <1>1, NodeFields, XNodeAssumption
<1>4. /\ th \in 1..N /\ th \in Nat /\ sep \in Key /\ sep \in Nat
      /\ NodeOK(L) /\ Len(L.keys) = th - 1
      /\ NodeOK(R) /\ Len(R.keys) = N - th
      /\ \A i \in 1..(th - 1) : L.keys[i] = node.keys[i] /\ L.keys[i] < sep
      /\ \A i \in 1..(N - th) : R.keys[i] = node.keys[th + i] /\ sep < R.keys[i]
      /\ \A i \in 1..th : L.ch[i] = node.ch[i]
      /\ \A i \in 1..(N - th + 1) : R.ch[i] = node.ch[th + i]
  <2>1. Len(node.keys) = N
    BY <1>3
  <2>2. th \in 1..N /\ sep \in Key
    BY <1>1, <2>1, NodeHalves
  <2>3. th \in Nat /\ sep \in Nat
    BY <1>3, <2>2, XNodeAssumption DEF Key
  <2> HIDE DEF node
  <2> QED
    BY <1>1, <2>1, <2>2, <2>3, NodeHalves
<1>5. \A x \in Key : /\ FindChildrenIdx(node, x) >= th <=> x >= sep
                     /\ x < sep => /\ FindChildrenIdx(L, x) = FindChildrenIdx(node, x)
                                   /\ Route(L, x) = Route(node, x)
                     /\ x >= sep => /\ FindChildrenIdx(R, x) = FindChildrenIdx(node, x) - th
                                    /\ Route(R, x) = Route(node, x)
                     /\ FindChildrenIdx(node, x) \in Nat /\ x \in Nat
  <2>1. Len(node.keys) = N
    BY <1>3
  <2>2. \A x \in Key : x \in Nat
    BY XNodeAssumption DEF Key
  <2>3. node \in Inner
    BY <1>1 DEF NodeOK
  <2> HIDE DEF node
  <2>4. \A x \in Key : FindChildrenIdx(node, x) \in Nat
    <3> TAKE x \in Key
    <3>1. FindChildrenIdx(node, x) \in 0..Len(node.keys)
      BY <2>2, <2>3, ChildrenIdx
    <3> QED
      BY <1>3, <3>1
  <2> QED
    BY <1>1, <2>1, <2>2, <2>4, NodeHalves
<1>6. up < sep <=> k < th
  <2>1. FindChildrenIdx(node, up) >= th <=> up >= sep
    BY <1>1, <1>5
  <2>2. k \in Nat
    BY <1>1, <1>3
  <2> HIDE DEF k, sep, up, node
  <2> QED
    BY <1>1, <1>2, <1>4, <2>1, <2>2
<1>7. node.keys[1] \in KeysOf(node)
  <2>1. 1 \in 1..Len(node.keys)
    BY <1>3, XNodeAssumption
  <2> QED
    BY <2>1 DEF KeysOf
<1>8. KeysOf(L) \subseteq KeysOf(node) /\ KeysOf(R) \subseteq KeysOf(node)
  <2>1. \A i \in 1..(th - 1) : i \in 1..Len(node.keys)
    BY <1>3, <1>4
  <2>2. \A i \in 1..(N - th) : th + i \in 1..Len(node.keys)
    BY <1>3, <1>4
  <2>3. KeysOf(L) \subseteq KeysOf(node)
    <3>1. \A i \in 1..Len(L.keys) : \E j \in 1..Len(node.keys) : L.keys[i] = node.keys[j]
      BY <1>4, <2>1
    <3> HIDE DEF L, node
    <3> QED
      BY <3>1 DEF KeysOf
  <2>4. KeysOf(R) \subseteq KeysOf(node)
    <3>1. \A i \in 1..Len(R.keys) : \E j \in 1..Len(node.keys) : R.keys[i] = node.keys[j]
      BY <1>4, <2>2
    <3> HIDE DEF R, node
    <3> QED
      BY <3>1 DEF KeysOf
  <2> QED
    BY <2>3, <2>4
<1>9. (\A z \in KeysOf(L) : z < sep) /\ (\A z \in KeysOf(R) : sep < z)
  BY <1>4 DEF KeysOf
<1>10. Len(L.keys) >= 1 => L.keys[1] = node.keys[1]
  <2>1. Len(L.keys) >= 1 => 1 \in 1..(th - 1)
    BY <1>4
  <2> QED
    BY <1>4, <2>1
<1>11. CASE up < sep
  <2> DEFINE a == InsertAtPos(L, up, c, k)
  <2>1. t = Ascended(Append([s.inners EXCEPT ![nn] = a], R), Len(s.inners) + 1, sep)
    <3>1. ~(up >= sep)
      BY <1>1, <1>4, <1>11
    <3> QED
      BY <1>2, <1>3, <1>11, <3>1, InnerInsertLeft
  <2>2. k \in 0..Len(L.keys) /\ Len(L.keys) < N
    BY <1>1, <1>3, <1>4, <1>6, <1>11
  <2>3. \A i \in 1..Len(L.ch) : L.ch[i] # c
    <3>1. Len(L.ch) = th /\ \A i \in 1..th : i \in 1..Len(node.ch)
      BY <1>3, <1>4 DEF NodeOK
    <3> QED
      BY <1>2, <1>4, <3>1
  <2>4. \A i \in 1..k : L.keys[i] < up
    <3>1. \A i \in 1..k : i \in 1..(th - 1)
      BY <1>4, <2>2
    <3> QED
      BY <1>1, <1>4, <3>1
  <2>5. \A i \in (k + 1)..Len(L.keys) : up < L.keys[i]
    <3>1. \A i \in (k + 1)..Len(L.keys) : i \in 1..(th - 1) /\ i \in (k + 1)..Len(node.keys)
      BY <1>3, <1>4, <2>2
    <3> QED
      BY <1>1, <1>4, <3>1
  <2> HIDE DEF L, R, node, k, up, c, sep, t, th
  <2>6. /\ NodeOK(a)
        /\ Len(a.keys) = Len(L.keys) + 1
        /\ \A i \in 1..Len(a.keys) : a.keys[i] = up \/ \E j \in 1..Len(L.keys) : a.keys[i] = L.keys[j]
        /\ a.keys[1] = IF k = 0 THEN up ELSE L.keys[1]
        /\ \A x \in Key : Route(a, x) = IF FindChildrenIdx(L, x) = k /\ x >= up THEN c ELSE Route(L, x)
    <3>1. NodeOK(L) /\ Len(L.keys) < N /\ k \in 0..Len(L.keys) /\ up \in Key /\ c \in Nat \ {Null}
      BY <1>1, <1>4, <2>2
    <3> QED
      BY <3>1, <2>3, <2>4, <2>5, NodeTakes
  <2> HIDE DEF a
  <2>7. KeysOf(a) \subseteq KeysOf(L) \cup {up}
    BY <2>6 DEF KeysOf
  <2>8. \A x \in Key : (IF x >= sep THEN Route(R, x) ELSE Route(a, x)) =
                       (IF FindChildrenIdx(node, x) = k /\ x >= up THEN c ELSE Route(node, x))
    <3> TAKE x \in Key
    <3>1. CASE x >= sep
      <4>1. FindChildrenIdx(node, x) >= th /\ FindChildrenIdx(node, x) \in Nat /\ k < th /\ k \in Nat
        BY <1>1, <1>3, <1>5, <1>6, <1>11, <3>1
      <4>2. FindChildrenIdx(node, x) # k
        BY <1>4, <4>1
      <4> QED
        BY <1>5, <3>1, <4>2
    <3>2. CASE ~(x >= sep)
      <4>1. x < sep
        BY <1>4, <1>5, <3>2
      <4> QED
        BY <1>5, <2>6, <3>2, <4>1
    <3> QED
      BY <3>1, <3>2
  <2>9. Len(a.keys) >= 1 => \/ a.keys[1] = up /\ k = 0
                            \/ a.keys[1] = node.keys[1]
    <3>1. k # 0 => Len(L.keys) >= 1
      BY <1>4, <2>2
    <3> QED
      BY <1>10, <2>6, <3>1
  <2>10. \A z \in KeysOf(a) : z < sep
    BY <1>9, <1>11, <2>7
  <2>11. Good(a, R)
    BY <1>4, <1>8, <1>9, <2>1, <2>6, <2>7, <2>8, <2>9, <2>10
  <2>12. Halves(s, nn, key, a, R)
    BY <2>11 DEF Halves, node, k, sep, up, c, t
  <2> QED
    BY <2>12
<1>12. CASE ~(up < sep)
  <2> DEFINE b == InsertAtPos(R, up, c, k - th)
  <2>0. up >= sep /\ k >= th /\ k \in Nat /\ k <= N
    BY <1>1, <1>3, <1>4, <1>6, <1>12
  <2>1. t = Ascended(Append([s.inners EXCEPT ![nn] = L], b), Len(s.inners) + 1, sep)
    BY <1>2, <1>3, <1>12, <2>0, InnerInsertRight
  <2>2. k - th \in 0..Len(R.keys) /\ Len(R.keys) < N
    BY <1>3, <1>4, <2>0
  <2>3. \A i \in 1..Len(R.ch) : R.ch[i] # c
    <3>1. Len(R.ch) = N - th + 1 /\ \A i \in 1..(N - th + 1) : th + i \in 1..Len(node.ch)
      BY <1>3, <1>4 DEF NodeOK
    <3> QED
      BY <1>2, <1>4, <3>1, ZenonT(40)
  <2>4. \A i \in 1..(k - th) : R.keys[i] < up
    <3>1. \A i \in 1..(k - th) : i \in 1..(N - th) /\ th + i \in 1..k
      BY <1>3, <1>4, <2>0, SMTT(30)
    <3> QED
      BY <1>1, <1>4, <3>1
  <2>5. \A i \in ((k - th) + 1)..Len(R.keys) : up < R.keys[i]
    <3>1. ASSUME NEW i \in ((k - th) + 1)..Len(R.keys)
          PROVE  i \in 1..(N - th) /\ th + i \in (k + 1)..Len(node.keys)
      <4>1. i \in Int /\ i >= (k - th) + 1 /\ i <= N - th /\ k - th >= 0
        BY <1>3, <1>4, <2>0
      <4> HIDE DEF L, R, node, k, th
      <4>2. i >= 1 /\ th + i >= k + 1 /\ th + i <= N /\ th + i \in Int
        BY <1>3, <1>4, <2>0, <4>1
      <4> QED
        BY <1>3, <1>4, <2>0, <4>1, <4>2
    <3> QED
      BY <1>1, <1>4, <3>1
  <2>6. sep < up
    <3>1. th \in 1..k
      BY <1>4, <2>0
    <3> QED
      BY <1>1, <3>1
  <2> DEFINE k2 == k - th
  <2>7. k2 \in 0..Len(R.keys) /\ (k2 = 0 <=> k = th)
    BY <1>4, <2>0, <2>2
  <2> HIDE DEF L, R, node, k, up, c, sep, t, th, k2
  <2> DEFINE b2 == InsertAtPos(R, up, c, k2)
  <2>8. /\ NodeOK(b2)
        /\ Len(b2.keys) = Len(R.keys) + 1
        /\ \A i \in 1..Len(b2.keys) : b2.keys[i] = up \/ \E j \in 1..Len(R.keys) : b2.keys[i] = R.keys[j]
        /\ b2.keys[1] = IF k2 = 0 THEN up ELSE R.keys[1]
        /\ \A x \in Key : Route(b2, x) = IF FindChildrenIdx(R, x) = k2 /\ x >= up THEN c ELSE Route(R, x)
    <3>1. /\ \A i \in 1..k2 : R.keys[i] < up
          /\ \A i \in (k2 + 1)..Len(R.keys) : up < R.keys[i]
      BY <2>4, <2>5 DEF k2
    <3>2. NodeOK(R) /\ Len(R.keys) < N /\ k2 \in 0..Len(R.keys) /\ up \in Key /\ c \in Nat \ {Null}
      BY <1>1, <1>4, <2>2, <2>7
    <3> QED
      BY <3>1, <3>2, <2>3, NodeTakes
  <2>9. b = b2
    BY DEF k2
  <2> HIDE DEF b, b2
  <2>10. KeysOf(b) \subseteq KeysOf(R) \cup {up}
    BY <2>8, <2>9 DEF KeysOf
  <2>11. \A x \in Key : (IF x >= sep THEN Route(b, x) ELSE Route(L, x)) =
                        (IF FindChildrenIdx(node, x) = k /\ x >= up THEN c ELSE Route(node, x))
    <3> TAKE x \in Key
    <3>1. CASE x >= sep
      <4>1. FindChildrenIdx(R, x) = k2 <=> FindChildrenIdx(node, x) = k
        BY <1>4, <1>5, <2>0, <3>1 DEF k2
      <4> QED
        BY <1>5, <2>8, <2>9, <3>1, <4>1
    <3>2. CASE ~(x >= sep)
      <4>1. x < sep /\ ~(x >= up)
        BY <1>1, <1>4, <1>5, <2>6, <3>2
      <4> QED
        BY <1>5, <3>2, <4>1
    <3> QED
      BY <3>1, <3>2
  <2>12. \A z \in KeysOf(b) : sep < z
    BY <1>9, <2>6, <2>10
  <2>13. Good(L, b)
    BY <1>4, <1>8, <1>9, <1>10, <2>1, <2>8, <2>9, <2>10, <2>11, <2>12
  <2>14. Halves(s, nn, key, L, b)
    BY <2>13 DEF Halves, node, k, sep, up, c, t
  <2> QED
    BY <2>14
<1> QED
  BY <1>11, <1>12

\* A full node takes the split by splitting itself.
LEMMA RiseSplits ==
  ASSUME NEW s, NEW nn, NEW key, Arrives(s, nn, key), Len(s.inners[nn].keys) = N
  PROVE  Rises(s, InnerInsert(s, nn, key), nn, key)
<1> DEFINE node == s.inners[nn] k == FindChildrenIdx(node, key) sep == node.keys[Middle]
           up == s.up_key c == s.to_insert t == InnerInsert(s, nn, key)
<1>2. PICK a, b : Halves(s, nn, key, a, b)
  BY RiseHalves
<1>0. /\ t = Ascended(Append([s.inners EXCEPT ![nn] = a], b), Len(s.inners) + 1, sep)
      /\ NodeOK(a) /\ NodeOK(b)
      /\ \A x \in Key : (IF x >= sep THEN Route(b, x) ELSE Route(a, x)) =
                        (IF FindChildrenIdx(node, x) = k /\ x >= up THEN c ELSE Route(node, x))
      /\ KeysOf(a) \subseteq KeysOf(node) \cup {up}
      /\ KeysOf(b) \subseteq KeysOf(node) \cup {up}
      /\ Len(a.keys) >= 1 => \/ a.keys[1] = up /\ k = 0
                             \/ a.keys[1] = node.keys[1]
      /\ \A z \in KeysOf(a) : z < sep
      /\ \A z \in KeysOf(b) : sep < z
  BY <1>2 DEF Halves
<1>3. /\ NodeOK(node) /\ NodeOK(a) /\ NodeOK(b) /\ a \in Inner /\ b \in Inner
  <2>1. NodeOK(node)
    BY ArrivesBetween
  <2> QED
    BY <1>0, <2>1 DEF NodeOK
<1>4. /\ s \in Ascent /\ s.ok = TRUE /\ nn \in 1..Len(s.inners)
      /\ \A m \in 1..Len(s.inners) : NodeOK(s.inners[m])
      /\ s.inners \in Seq(Inner)
  BY DEF Arrives, Ascent
<1>5. /\ Len(node.keys) = N /\ N \in Nat /\ N >= 1 /\ sep \in Key
      /\ \A x \in Key : FindChildrenIdx(node, x) >= Middle <=> x >= sep
  <2>1. Len(node.keys) = N /\ N \in Nat /\ N >= 1
    BY XNodeAssumption
  <2> HIDE DEF node
  <2>2. /\ sep \in Key /\ \A x \in Key : FindChildrenIdx(node, x) >= Middle <=> x >= sep
    BY <1>3, <2>1, NodeHalves
  <2> QED
    BY <2>1, <2>2
<1> DEFINE J == [s.inners EXCEPT ![nn] = a] I2 == Append(J, b) n == Len(s.inners) + 1
<1>6. /\ J \in Seq(Inner) /\ Len(J) = Len(s.inners)
      /\ \A m \in 1..Len(s.inners) : J[m] = IF m = nn THEN a ELSE s.inners[m]
  BY <1>3, <1>4, ExceptSeq
<1> HIDE DEF J
<1>7. Len(s.inners) \in Nat
  BY <1>4
<1>8. /\ I2 \in Seq(Inner) /\ Len(I2) = n
      /\ \A m \in 1..Len(s.inners) : I2[m] = J[m]
      /\ I2[n] = b
  BY <1>3, <1>6, <1>7, AppendProperties
<1>9. t = Ascended(I2, n, sep)
  BY <1>0 DEF J
<1> HIDE DEF I2
<1>10. t \in Ascent /\ t.ok = TRUE /\ t.inners = I2 /\ t.to_insert = n /\ t.up_key = sep /\ n \in Nat /\ n # Null
  BY <1>5, <1>7, <1>8, <1>9 DEF Ascent, Ascended, Null
<1>11. /\ \A m \in 1..Len(s.inners) : I2[m] = IF m = nn THEN a ELSE s.inners[m]
       /\ I2[nn] = a
  BY <1>4, <1>6, <1>8
<1>12. \A m \in 1..Len(I2) : NodeOK(I2[m])
  <2>1. \A m \in 1..Len(I2) : m \in 1..Len(s.inners) \/ m = n
    BY <1>7, <1>8
  <2> QED
    BY <1>3, <1>4, <1>8, <1>11, <2>1
<1>13. /\ KeysOf(a) \subseteq KeysOf(node) \cup {up}
       /\ KeysOf(b) \subseteq KeysOf(node) \cup {up}
       /\ Len(a.keys) >= 1 => \/ a.keys[1] = up /\ k = 0
                              \/ Len(node.keys) >= 1 /\ a.keys[1] = node.keys[1]
       /\ \A z \in KeysOf(a) : z < sep
       /\ \A z \in KeysOf(b) : sep < z
       /\ \A x \in Key : (IF x >= sep THEN Route(b, x) ELSE Route(a, x)) =
                         (IF FindChildrenIdx(node, x) = k /\ x >= up THEN c ELSE Route(node, x))
  BY <1>0, <1>5
<1> HIDE DEF t, node, k, sep, up, c, n
<1>14. Rises(s, t, nn, key)
  <2> DEFINE q == t.to_insert
  <2>1. q = n /\ q # Null /\ t.inners[q] = b /\ t.inners[nn] = a
    BY <1>8, <1>10, <1>11
  <2>2. /\ Len(t.inners) = IF q = Null THEN Len(s.inners) ELSE Len(s.inners) + 1
        /\ q # Null => q = Len(s.inners) + 1
        /\ \A m \in 1..Len(s.inners) : m # nn => t.inners[m] = s.inners[m]
    BY <1>8, <1>10, <1>11, <2>1 DEF n
  <2>3. /\ \A x \in Key :
             (IF q # Null /\ x >= t.up_key THEN Route(t.inners[q], x) ELSE Route(t.inners[nn], x)) =
             (IF FindChildrenIdx(node, x) = k /\ x >= up THEN c ELSE Route(node, x))
    BY <1>10, <1>13, <2>1
  <2>4. /\ KeysOf(t.inners[nn]) \subseteq KeysOf(node) \cup {up}
        /\ Len(t.inners[nn].keys) >= 1 => \/ t.inners[nn].keys[1] = up /\ k = 0
                                          \/ Len(node.keys) >= 1 /\ t.inners[nn].keys[1] = node.keys[1]
    BY <1>13, <2>1
  <2>5. /\ Len(node.keys) = N /\ t.up_key = node.keys[Middle]
        /\ KeysOf(t.inners[q]) \subseteq KeysOf(node) \cup {up}
        /\ \A z \in KeysOf(t.inners[nn]) : z < t.up_key
        /\ \A z \in KeysOf(t.inners[q]) : t.up_key < z
        /\ \A x \in Key : FindChildrenIdx(node, x) >= Middle <=> x >= t.up_key
    BY <1>5, <1>10, <1>13, <2>1 DEF sep
  <2>6. /\ t \in Ascent /\ t.ok = TRUE /\ \A m \in 1..Len(t.inners) : NodeOK(t.inners[m])
    BY <1>10, <1>12
  <2> HIDE DEF q
  <2> QED
    BY <2>2, <2>3, <2>4, <2>5, <2>6 DEF Rises, node, k, up, c, q
<1> QED
  BY <1>14 DEF t

\* Either way a node takes the split that arrives.
LEMMA RiseStep ==
  ASSUME NEW s, NEW nn, NEW key, Arrives(s, nn, key)
  PROVE  Rises(s, InnerInsert(s, nn, key), nn, key)
<1>1. NodeOK(s.inners[nn])
  BY ArrivesBetween
<1>2. Len(s.inners[nn].keys) \in 0..N /\ N \in Nat
  BY <1>1, NodeFields, XNodeAssumption
<1>3. Len(s.inners[nn].keys) < N \/ Len(s.inners[nn].keys) = N
  BY <1>2
<1> QED
  BY <1>3, RiseInPlace, RiseSplits

-----------------------------------------------------------------------------
(* A split on its way up, at level d of the path of key: I and J are the inner *)
(* nodes before and after, P the paths before, q[d] and u[d] the new node of   *)
(* level d and its separator, or Null.                                         *)

\* P follows the routes of the inner nodes.
Steps(I, D, P) == \A x \in Key : \A d \in 1..D : P[x][d] = Route(I[P[x][d - 1]], x)

\* What node P[key][d] and its new neighbour became.
LevelOK(I, J, P, key, q, u, d) ==
  LET node == I[P[key][d]]
      k    == FindChildrenIdx(node, key)
      a    == J[P[key][d]]
      b    == J[q[d]]
  IN IF q[d + 1] = Null THEN q[d] = Null /\ a = node
     ELSE /\ \A x \in Key :
               (IF q[d] # Null /\ x >= u[d] THEN Route(b, x) ELSE Route(a, x)) =
               (IF FindChildrenIdx(node, x) = k /\ x >= u[d + 1] THEN q[d + 1] ELSE Route(node, x))
          /\ KeysOf(a) \subseteq KeysOf(node) \cup {u[d + 1]}
          /\ Len(a.keys) >= 1 => \/ a.keys[1] = u[d + 1] /\ k = 0
                                 \/ Len(node.keys) >= 1 /\ a.keys[1] = node.keys[1]
          /\ q[d] # Null =>
               /\ KeysOf(b) \subseteq KeysOf(node) \cup {u[d + 1]}
               /\ \A z \in KeysOf(a) : z < u[d]
               /\ \A z \in KeysOf(b) : u[d] < z
               /\ \A x \in Key : FindChildrenIdx(node, x) >= Middle <=> x >= u[d]

\* The separator of level d belongs to node P[key][d], and not before its first key.
SeparatorOK(P, key, q, u, d) ==
  /\ q[d] \in Nat /\ u[d] \in Key
  /\ q[d] # Null => /\ P[u[d]][d] = P[key][d]
                    /\ \E y \in Key : P[y][d] = P[key][d] /\ y < u[d]

\* The split has climbed from the leaf to level e.
Climbed(I, J, D, P, key, q, u, e) ==
  /\ J \in Seq(Inner) /\ \A n \in 1..Len(J) : NodeOK(J[n])
  /\ Len(I) <= Len(J)
  /\ \A n \in 1..Len(I) : (\A d \in e..(D - 1) : n # P[key][d]) => J[n] = I[n]
  /\ \A d \in e..D : SeparatorOK(P, key, q, u, d)
  /\ \A d \in e..(D - 1) : LevelOK(I, J, P, key, q, u, d)
  /\ \A d \in e..(D - 1) : q[d] # Null => q[d] \in (Len(I) + 1)..Len(J)
  /\ \A d, f \in e..(D - 1) : d # f /\ q[d] # Null => q[d] # q[f]

\* Every child of the node at the height d of the path of x is on the path of some key.
Reached(I, P, x, d) ==
  \A i \in 1..Len(I[P[x][d]].ch) :
     \E y \in Key : P[y][d] = P[x][d] /\ P[y][d + 1] = I[P[x][d]].ch[i]

\* It is so for every node of the tree.
LEMMA AllReached ==
  ASSUME NEW I, NEW D \in Nat, NEW P, TreeInv(I, D, P), Steps(I, D, P),
         NEW x \in Key, NEW d \in 0..(D - 1)
  PROVE  Reached(I, P, x, d)
<1> SUFFICES ASSUME NEW i \in 1..Len(I[P[x][d]].ch)
             PROVE  \E y \in Key : P[y][d] = P[x][d] /\ P[y][d + 1] = I[P[x][d]].ch[i]
  BY Zenon DEF Reached
<1> DEFINE n == I[P[x][d]] M == Len(n.keys)
<1>1. P[x][d] \in DOMAIN I /\ NodeOK(n)
  BY DEF TreeInv, Inside
<1>2. /\ n \in Inner /\ M \in Nat /\ Len(n.ch) = M + 1
      /\ \A j \in 1..M : n.keys[j] \in Key /\ n.keys[j] \in Nat
  <2>1. M \in 0..N /\ N \in Nat
    BY <1>1, NodeFields, XNodeAssumption
  <2>2. M \in Nat
    BY <2>1
  <2> QED
    BY <1>1, <2>2, NodeFields
<1>3. \A y \in Key : y \in Nat
  BY XNodeAssumption DEF Key
<1>4. \A y \in Key : P[y][d] = P[x][d] => P[y][d + 1] = Route(n, y)
  <2>1. d + 1 \in 1..D /\ (d + 1) - 1 = d
    OBVIOUS
  <2> HIDE DEF n
  <2>2. \A y \in Key : P[y][d + 1] = Route(I[P[y][(d + 1) - 1]], y)
    BY <2>1 DEF Steps
  <2> QED
    BY <2>1, <2>2 DEF n
<1>5. SUFFICES \E y \in Key : P[y][d] = P[x][d] /\ FindChildrenIdx(n, y) + 1 = i
  BY <1>4 DEF Route
<1>6. \A y \in Key : \A c \in 0..M :
         /\ \A j \in 1..c : n.keys[j] <= y
         /\ c < M => y < n.keys[c + 1]
         => FindChildrenIdx(n, y) = c
  BY <1>2, <1>3, ChildrenIdx
<1>7. \A j, l \in 1..M : j < l => n.keys[j] < n.keys[l]
  BY <1>1 DEF NodeOK
<1>8. CASE i = 1 /\ M = 0
  <2>1. FindChildrenIdx(n, x) \in 0..M
    BY <1>2, <1>3, ChildrenIdx
  <2> QED
    BY <1>8, <2>1
<1>9. CASE i = 1 /\ M >= 1
  <2>1. PICK y \in Key : P[y][d] = P[x][d] /\ y < n.keys[1]
    BY <1>9 DEF TreeInv, Lows
  <2> HIDE DEF n, M
  <2>2. FindChildrenIdx(n, y) = 0
    <3>1. 0 \in 0..M /\ 0 + 1 = 1 /\ \A j \in 1..0 : FALSE
      BY <1>2
    <3>2. y < n.keys[0 + 1]
      BY <2>1, <3>1
    <3> QED
      BY <1>6, <3>1, <3>2
  <2> QED
    BY <1>9, <2>1, <2>2
<1>10. CASE i > 1
  <2> DEFINE y == n.keys[i - 1]
  <2>1. i - 1 \in 1..M /\ i \in Nat
    BY <1>2, <1>10
  <2>2. y \in Key /\ y \in Nat
    BY <1>2, <2>1
  <2>3. P[y][d] = P[x][d]
    <3>1. i - 1 \in DOMAIN n.keys
      BY <1>2, <2>1 DEF Inner
    <3> QED
      BY <3>1 DEF TreeInv, Homes
  <2> HIDE DEF n
  <2>4. \A j \in 1..(i - 1) : n.keys[j] <= y
    <3> TAKE j \in 1..(i - 1)
    <3>1. j \in 1..M /\ (j < i - 1 \/ j = i - 1)
      BY <1>2, <2>1
    <3> QED
      BY <1>2, <1>7, <2>1, <3>1, SMTT(30)
  <2>5. i - 1 < M => y < n.keys[(i - 1) + 1]
    BY <1>2, <1>7, <2>1
  <2> HIDE DEF y
  <2>6. FindChildrenIdx(n, y) = i - 1
    <3> DEFINE c == i - 1
    <3>1. c \in 0..M
      BY <1>2, <2>1
    <3> HIDE DEF c
    <3>2. (\A j \in 1..c : n.keys[j] <= y) /\ (c < M => y < n.keys[c + 1])
      BY <2>4, <2>5 DEF c
    <3>3. FindChildrenIdx(n, y) = c
      BY <1>6, <2>2, <3>1, <3>2
    <3> QED
      BY <3>3 DEF c
  <2> QED
    BY <2>1, <2>2, <2>3, <2>6
<1>11. i \in Nat /\ i >= 1
  BY <1>2
<1> QED
  BY <1>2, <1>8, <1>9, <1>10, <1>11

\* Two keys go to the same child of a node of the tree iff they have the same place in it.
LEMMA SameChild ==
  ASSUME NEW I, NEW D \in Nat, NEW P, TreeInv(I, D, P), Steps(I, D, P),
         NEW x \in Key, NEW y \in Key, NEW d \in 0..(D - 1), P[x][d] = P[y][d]
  PROVE  P[x][d + 1] = P[y][d + 1] <=>
           FindChildrenIdx(I[P[x][d]], x) = FindChildrenIdx(I[P[x][d]], y)
<1> DEFINE n == I[P[x][d]]
<1>1. P[x][d] \in DOMAIN I /\ NodeOK(n)
  BY DEF TreeInv, Inside
<1>2. n \in Inner /\ Len(n.keys) \in Nat /\ Len(n.ch) = Len(n.keys) + 1
  BY <1>1, NodeFields
<1>3. \A z \in Key : FindChildrenIdx(n, z) \in 0..Len(n.keys)
  <2>1. \A z \in Key : z \in Nat
    BY XNodeAssumption DEF Key
  <2> HIDE DEF n
  <2> QED
    BY <1>2, <2>1, ChildrenIdx
<1>4. d + 1 \in 1..D /\ (d + 1) - 1 = d
  OBVIOUS
<1>5. P[x][d + 1] = Route(n, x) /\ P[y][d + 1] = Route(n, y)
  BY <1>4 DEF Steps
<1> DEFINE i == FindChildrenIdx(n, x) j == FindChildrenIdx(n, y)
<1>6. i \in 0..Len(n.keys) /\ j \in 0..Len(n.keys)
  BY <1>3
<1>7. \A a, b \in 1..Len(n.ch) : a # b => n.ch[a] # n.ch[b]
  BY <1>1 DEF NodeOK
<1>8. P[x][d + 1] = n.ch[i + 1] /\ P[y][d + 1] = n.ch[j + 1]
  BY <1>5 DEF Route
<1> HIDE DEF n, i, j
<1>9. i + 1 \in 1..Len(n.ch) /\ j + 1 \in 1..Len(n.ch) /\ i \in Nat /\ j \in Nat
  BY <1>2, <1>6
<1>10. P[x][d + 1] = P[y][d + 1] <=> i = j
  BY <1>7, <1>8, <1>9
<1> QED
  BY <1>10 DEF n, i, j

\* The facts of a level are about the two nodes of the level only.
LEMMA LevelSame ==
  ASSUME NEW I, NEW J, NEW J2, NEW P, NEW key, NEW q, NEW u, NEW d,
         LevelOK(I, J, P, key, q, u, d),
         J2[P[key][d]] = J[P[key][d]], q[d] # Null => J2[q[d]] = J[q[d]]
  PROVE  LevelOK(I, J2, P, key, q, u, d)
<1>1. CASE q[d] = Null
  BY <1>1 DEF LevelOK
<1>2. CASE q[d] # Null
  <2>1. J2[q[d]] = J[q[d]]
    BY <1>2
  <2> QED
    BY <2>1 DEF LevelOK
<1> QED
  BY <1>1, <1>2

\* In s the split has climbed to the level below e.
Ready(I, D, P, key, q, u, e, s) ==
  /\ D \in Nat /\ TreeInv(I, D, P) /\ Steps(I, D, P)
  /\ key \in Key /\ e \in 0..(D - 1)
  /\ s \in Ascent /\ s.ok = TRUE /\ s.to_insert = q[e + 1] /\ s.up_key = u[e + 1]
  /\ Climbed(I, s.inners, D, P, key, q, u, e + 1)
  /\ \A x \in Key : P[x][D] # q[D]

\* Every child of the next node of the path is on the path of some key.
LEMMA ReadyReached ==
  ASSUME NEW I, NEW D, NEW P, NEW key, NEW q, NEW u, NEW e, NEW s,
         Ready(I, D, P, key, q, u, e, s)
  PROVE  Reached(I, P, key, e)
<1>1. D \in Nat /\ TreeInv(I, D, P) /\ Steps(I, D, P) /\ key \in Key /\ e \in 0..(D - 1)
  BY DEF Ready
<1> QED
  BY <1>1, AllReached, Zenon

\* It arrives at the next node of the path.
LEMMA ClimbArrives ==
  ASSUME NEW I, NEW D, NEW P, NEW key, NEW q, NEW u, NEW e, NEW s,
         Ready(I, D, P, key, q, u, e, s), q[e + 1] # Null
  PROVE  Arrives(s, P[key][e], key) /\ s.inners[P[key][e]] = I[P[key][e]]
<1>0. /\ D \in Nat /\ TreeInv(I, D, P) /\ Steps(I, D, P)
      /\ key \in Key /\ e \in 0..(D - 1)
      /\ s \in Ascent /\ s.ok = TRUE /\ s.to_insert = q[e + 1] /\ s.up_key = u[e + 1]
      /\ Climbed(I, s.inners, D, P, key, q, u, e + 1)
      /\ \A x \in Key : P[x][D] # q[D]
  BY DEF Ready
<1> USE <1>0
<1> DEFINE nn == P[key][e] n == I[nn] J == s.inners f == e + 1
<1>1. I \in Seq(Inner) /\ Len(I) \in Nat /\ nn \in DOMAIN I /\ DOMAIN I = 1..Len(I) /\ NodeOK(n)
  BY DEF TreeInv, Inside
<1>2. J \in Seq(Inner) /\ Len(J) \in Nat /\ Len(I) <= Len(J) /\ \A m \in 1..Len(J) : NodeOK(J[m])
  BY DEF Climbed
<1>3. nn \in 1..Len(J)
  BY <1>1, <1>2
<1>4. J[nn] = n
  <2>1. \A d \in f..(D - 1) : d \in 0..(D - 1) /\ e # d
    OBVIOUS
  <2>2. \A d \in f..(D - 1) : nn # P[key][d]
    BY <2>1 DEF TreeInv, Levels
  <2>3. \A m \in 1..Len(I) : (\A d \in f..(D - 1) : m # P[key][d]) => J[m] = I[m]
    BY DEF Climbed
  <2> QED
    BY <1>1, <2>2, <2>3
<1>5. f \in f..D /\ f \in 1..D /\ f - 1 = e
  OBVIOUS
<1>6. SeparatorOK(P, key, q, u, f)
  BY <1>5 DEF Climbed
<1>7. /\ u[f] \in Key /\ P[u[f]][f] = P[key][f]
      /\ \E y \in Key : P[y][f] = P[key][f] /\ y < u[f]
  BY <1>6 DEF SeparatorOK
<1>8. \A y \in Key : P[y][f] = P[key][f] => FindChildrenIdx(n, y) = FindChildrenIdx(n, key)
  <2> TAKE y \in Key
  <2> SUFFICES ASSUME P[y][f] = P[key][f] PROVE FindChildrenIdx(n, y) = FindChildrenIdx(n, key)
    OBVIOUS
  <2>1. P[y][e] = P[key][e]
    BY <1>5 DEF TreeInv, Forks
  <2> QED
    BY <2>1, SameChild
<1>9. \A i \in 1..Len(n.ch) : n.ch[i] # q[f]
  <2> TAKE i \in 1..Len(n.ch)
  <2>1. PICK y \in Key : P[y][e] = nn /\ P[y][f] = n.ch[i]
    <3>1. i \in 1..Len(I[P[key][e]].ch)
      OBVIOUS
    <3> HIDE DEF nn, n, f
    <3>2. \E y \in Key : P[y][e] = P[key][e] /\ P[y][e + 1] = I[P[key][e]].ch[i]
      BY <3>1, ReadyReached DEF Reached
    <3> QED
      BY <3>2 DEF nn, n, f
  <2>2. CASE f = D
    BY <2>1, <2>2
  <2>3. CASE f # D
    <3>1. f \in 0..(D - 1) /\ f \in f..(D - 1)
      BY <2>3
    <3>2. P[y][f] \in 1..Len(I)
      BY <1>1, <3>1 DEF TreeInv, Inside
    <3>3. q[f] \in (Len(I) + 1)..Len(J)
      BY <3>1 DEF Climbed
    <3> QED
      BY <1>1, <1>2, <2>1, <3>2, <3>3, SMTT(30)
  <2> QED
    BY <2>2, <2>3
<1> HIDE DEF n, J, nn, f
<1>10. /\ s.inners[nn] = n /\ s.to_insert = q[f] /\ s.up_key = u[f] /\ q[f] # Null
       /\ nn \in 1..Len(s.inners) /\ \A m \in 1..Len(s.inners) : NodeOK(s.inners[m])
  BY <1>2, <1>3, <1>4 DEF f, J
<1>11. FindChildrenIdx(n, u[f]) = FindChildrenIdx(n, key)
  BY <1>7, <1>8
<1>12. \E y \in Key : FindChildrenIdx(n, y) = FindChildrenIdx(n, key) /\ y < u[f]
  BY <1>7, <1>8
<1>13. Arrives(s, nn, key)
  BY <1>9, <1>10, <1>11, <1>12 DEF Arrives
<1> QED
  BY <1>10, <1>13 DEF nn, n

\* ... and climbs it.
LEMMA ClimbStep ==
  ASSUME NEW I, NEW D, NEW P, NEW key, NEW q, NEW u, NEW e, NEW s, NEW t,
         Ready(I, D, P, key, q, u, e, s),
         t = InnerInsert(s, P[key][e], key), q[e] = t.to_insert, u[e] = t.up_key
  PROVE  t \in Ascent /\ t.ok = TRUE /\ Climbed(I, t.inners, D, P, key, q, u, e)
<1>0. /\ D \in Nat /\ TreeInv(I, D, P) /\ Steps(I, D, P)
      /\ key \in Key /\ e \in 0..(D - 1)
      /\ s \in Ascent /\ s.ok = TRUE /\ s.to_insert = q[e + 1] /\ s.up_key = u[e + 1]
      /\ Climbed(I, s.inners, D, P, key, q, u, e + 1)
  BY DEF Ready
<1> USE <1>0
<1> DEFINE nn == P[key][e] n == I[nn] J == s.inners f == e + 1
<1>1. I \in Seq(Inner) /\ Len(I) \in Nat /\ nn \in DOMAIN I /\ DOMAIN I = 1..Len(I) /\ NodeOK(n)
  BY DEF TreeInv, Inside
<1>2. J \in Seq(Inner) /\ Len(J) \in Nat /\ Len(I) <= Len(J) /\ \A m \in 1..Len(J) : NodeOK(J[m])
  BY DEF Climbed
<1>3. /\ \A m \in 1..Len(I) : (\A d \in f..(D - 1) : m # P[key][d]) => J[m] = I[m]
      /\ \A d \in f..D : SeparatorOK(P, key, q, u, d)
      /\ \A d \in f..(D - 1) : LevelOK(I, J, P, key, q, u, d)
      /\ \A d \in f..(D - 1) : q[d] # Null => q[d] \in (Len(I) + 1)..Len(J)
      /\ \A d, g \in f..(D - 1) : d # g /\ q[d] # Null => q[d] # q[g]
  BY DEF Climbed
<1>4. /\ \A d \in e..D : d = e \/ d \in f..D
      /\ \A d \in e..(D - 1) : d = e \/ d \in f..(D - 1)
      /\ \A d \in f..(D - 1) : d \in e..(D - 1) /\ d # e /\ d \in 0..(D - 1)
      /\ e \in e..(D - 1)
  OBVIOUS
<1>5. \A d \in f..(D - 1) : P[key][d] # nn /\ P[key][d] \in 1..Len(I)
  BY <1>1, <1>4 DEF TreeInv, Levels, Inside
<1>6. CASE q[f] = Null
  <2>1. t = s
    BY <1>6 DEF InnerInsert
  <2>2. q[e] = Null /\ u[e] \in Key
    BY <1>6, <2>1 DEF Ascent
  <2>3. J[nn] = n
    BY <1>1, <1>3, <1>5
  <2>4. LevelOK(I, J, P, key, q, u, e)
    BY <1>6, <2>2, <2>3 DEF LevelOK
  <2>5. SeparatorOK(P, key, q, u, e)
    BY <2>2 DEF SeparatorOK, Null
  <2> HIDE DEF J, f
  <2>6. /\ \A m \in 1..Len(I) : (\A d \in e..(D - 1) : m # P[key][d]) => J[m] = I[m]
        /\ \A d \in e..D : SeparatorOK(P, key, q, u, d)
        /\ \A d \in e..(D - 1) : LevelOK(I, J, P, key, q, u, d)
        /\ \A d \in e..(D - 1) : q[d] # Null => q[d] \in (Len(I) + 1)..Len(J)
        /\ \A d, g \in e..(D - 1) : d # g /\ q[d] # Null => q[d] # q[g]
    <3>1. \A m \in 1..Len(I) : (\A d \in e..(D - 1) : m # P[key][d]) => J[m] = I[m]
      BY <1>3, <1>4
    <3>2. /\ \A d \in e..D : SeparatorOK(P, key, q, u, d)
          /\ \A d \in e..(D - 1) : LevelOK(I, J, P, key, q, u, d)
      BY <1>3, <1>4, <2>4, <2>5
    <3>3. \A d \in e..(D - 1) : q[d] # Null => q[d] \in (Len(I) + 1)..Len(J)
      BY <1>3, <1>4, <2>2
    <3>4. \A d, g \in e..(D - 1) : d # g /\ q[d] # Null => q[d] # q[g]
      BY <1>3, <1>4, <2>2
    <3> QED
      BY <3>1, <3>2, <3>3, <3>4
  <2>7. Climbed(I, J, D, P, key, q, u, e)
    BY <1>2, <2>6 DEF Climbed
  <2> QED
    BY <2>1, <2>7 DEF J
<1>7. CASE q[f] # Null
  <2>1. Arrives(s, nn, key) /\ s.inners[nn] = n
    <3>1. q[e + 1] # Null
      BY <1>7
    <3> HIDE DEF nn, n, f, J
    <3>2. Arrives(s, P[key][e], key) /\ s.inners[P[key][e]] = I[P[key][e]]
      BY <3>1, ClimbArrives
    <3> QED
      BY <3>2 DEF nn, n
  <2>2. Rises(s, t, nn, key)
    BY <2>1, RiseStep
  <2> DEFINE K == t.inners k == FindChildrenIdx(n, key)
  <2>3. /\ t \in Ascent /\ t.ok = TRUE
        /\ \A m \in 1..Len(K) : NodeOK(K[m])
        /\ Len(K) = IF q[e] = Null THEN Len(J) ELSE Len(J) + 1
        /\ q[e] # Null => q[e] = Len(J) + 1
        /\ \A m \in 1..Len(J) : m # nn => K[m] = J[m]
    BY <2>2 DEF Rises
  <2>4. K \in Seq(Inner) /\ Len(K) \in Nat /\ Len(J) <= Len(K) /\ u[e] \in Key /\ q[e] \in Nat
    BY <1>2, <2>3 DEF Ascent
  <2>5. LevelOK(I, K, P, key, q, u, e)
    <3>1. /\ \A x \in Key :
               (IF q[e] # Null /\ x >= u[e] THEN Route(K[q[e]], x) ELSE Route(K[nn], x)) =
               (IF FindChildrenIdx(n, x) = k /\ x >= u[f] THEN q[f] ELSE Route(n, x))
          /\ KeysOf(K[nn]) \subseteq KeysOf(n) \cup {u[f]}
          /\ Len(K[nn].keys) >= 1 => \/ K[nn].keys[1] = u[f] /\ k = 0
                                     \/ Len(n.keys) >= 1 /\ K[nn].keys[1] = n.keys[1]
          /\ q[e] # Null =>
               /\ KeysOf(K[q[e]]) \subseteq KeysOf(n) \cup {u[f]}
               /\ \A z \in KeysOf(K[nn]) : z < u[e]
               /\ \A z \in KeysOf(K[q[e]]) : u[e] < z
               /\ \A x \in Key : FindChildrenIdx(n, x) >= Middle <=> x >= u[e]
      BY <2>1, <2>2, ZenonT(40) DEF Rises
    <3> QED
      BY <1>7, <3>1 DEF LevelOK
  <2>6. SeparatorOK(P, key, q, u, e)
    <3>1. CASE q[e] = Null
      BY <2>4, <3>1 DEF SeparatorOK
    <3>2. CASE q[e] # Null
      <4>1. Len(n.keys) = N /\ u[e] = n.keys[Middle]
        BY <2>1, <2>2, <3>2 DEF Rises
      <4>2. Middle \in 1..N /\ N >= 1 /\ N \in Nat
        BY <1>1, <4>1, NodeHalves, XNodeAssumption
      <4>3. P[u[e]][e] = nn
        <5>1. Middle \in DOMAIN n.keys
          BY <1>1, <4>1, <4>2 DEF NodeOK, Inner
        <5> QED
          <6>1. \A x \in Key, d \in 0..(D - 1) : \A i \in DOMAIN I[P[x][d]].keys :
                   P[I[P[x][d]].keys[i]][d] = P[x][d]
            BY DEF TreeInv, Homes
          <6>2. P[I[P[key][e]].keys[Middle]][e] = P[key][e]
            BY <5>1, <6>1
          <6> QED
            BY <4>1, <6>2
      <4>4. PICK y \in Key : P[y][e] = nn /\ y < n.keys[1]
        <5>1. Len(n.keys) >= 1
          BY <4>1, <4>2
        <5> QED
          BY <5>1 DEF TreeInv, Lows
      <4>5. y < u[e]
        <5>1. \A i, j \in 1..Len(n.keys) : i < j => n.keys[i] < n.keys[j]
          BY <1>1 DEF NodeOK
        <5>2. \A i \in 1..Len(n.keys) : n.keys[i] \in Nat
          BY <1>1, NodeFields
        <5>3. 1 \in 1..Len(n.keys) /\ Middle \in 1..Len(n.keys) /\ (Middle = 1 \/ 1 < Middle)
          BY <4>1, <4>2
        <5>4. y \in Nat
          BY XNodeAssumption DEF Key
        <5> HIDE DEF n
        <5>5. n.keys[1] <= n.keys[Middle] /\ n.keys[1] \in Nat /\ n.keys[Middle] \in Nat
          BY <5>1, <5>2, <5>3
        <5> QED
          BY <4>1, <4>4, <5>4, <5>5
      <4> QED
        BY <2>4, <4>3, <4>4, <4>5 DEF SeparatorOK
    <3> QED
      BY <3>1, <3>2
  <2>7. ASSUME NEW d \in f..(D - 1) PROVE LevelOK(I, K, P, key, q, u, d)
    <3>1. LevelOK(I, J, P, key, q, u, d)
      BY <1>3
    <3>2. K[P[key][d]] = J[P[key][d]]
      <4>1. P[key][d] \in 1..Len(J) /\ P[key][d] # nn
        BY <1>1, <1>2, <1>5
      <4> QED
        BY <2>3, <4>1
    <3>3. q[d] # Null => K[q[d]] = J[q[d]]
      <4>1. q[d] # Null => q[d] \in 1..Len(J) /\ q[d] # nn
        BY <1>1, <1>2, <1>3
      <4> QED
        BY <2>3, <4>1
    <3> HIDE DEF K, J, f, nn, n
    <3> QED
      BY <3>1, <3>2, <3>3, LevelSame
  <2> HIDE DEF K, J, f, k
  <2>8. \A m \in 1..Len(I) : (\A d \in e..(D - 1) : m # P[key][d]) => K[m] = I[m]
    <3> SUFFICES ASSUME NEW m \in 1..Len(I), \A d \in e..(D - 1) : m # P[key][d] PROVE K[m] = I[m]
      OBVIOUS
    <3>1. m # nn /\ m \in 1..Len(J)
      BY <1>1, <1>2, <1>4
    <3>2. J[m] = I[m]
      BY <1>3, <1>4
    <3> QED
      BY <2>3, <3>1, <3>2
  <2>9. /\ \A d \in e..D : SeparatorOK(P, key, q, u, d)
        /\ \A d \in e..(D - 1) : LevelOK(I, K, P, key, q, u, d)
    BY <1>3, <1>4, <2>5, <2>6, <2>7
  <2>10. \A d \in e..(D - 1) : q[d] # Null => q[d] \in (Len(I) + 1)..Len(K)
    <3>1. \A d \in f..(D - 1) : q[d] # Null => q[d] \in (Len(I) + 1)..Len(K)
      BY <1>1, <1>2, <1>3, <2>4
    <3>2. q[e] # Null => q[e] \in (Len(I) + 1)..Len(K)
      BY <1>1, <1>2, <2>3
    <3> QED
      BY <1>4, <3>1, <3>2
  <2>11. \A d, g \in e..(D - 1) : d # g /\ q[d] # Null => q[d] # q[g]
    <3> SUFFICES ASSUME NEW d \in e..(D - 1), NEW g \in e..(D - 1), d # g, q[d] # Null PROVE q[d] # q[g]
      OBVIOUS
    <3>0. Len(J) \in Nat /\ \A b \in f..(D - 1) : q[b] # Null => q[b] \in Nat /\ q[b] <= Len(J)
      BY <1>1, <1>2, <1>3
    <3>1. CASE d = e
      <4>1. q[d] = Len(J) + 1 /\ g \in f..(D - 1)
        BY <1>4, <2>3, <3>1
      <4> QED
        BY <3>0, <4>1
    <3>2. CASE g = e
      <4>1. d \in f..(D - 1)
        BY <1>4, <3>2
      <4>2. q[g] # Null => q[g] = Len(J) + 1
        BY <2>3, <3>2
      <4> QED
        BY <3>0, <4>1, <4>2
    <3>3. CASE d # e /\ g # e
      <4>1. d \in f..(D - 1) /\ g \in f..(D - 1)
        BY <1>4, <3>3
      <4> QED
        BY <1>3, <4>1
    <3> QED
      BY <3>1, <3>2, <3>3
  <2>12. Len(I) <= Len(K)
    BY <1>1, <1>2, <2>4
  <2>13. Climbed(I, K, D, P, key, q, u, e)
    BY <2>3, <2>4, <2>8, <2>9, <2>10, <2>11, <2>12 DEF Climbed
  <2> QED
    BY <2>3, <2>13 DEF K
<1> QED
  BY <1>6, <1>7

\* The way up path p for H levels, from s0.
IsAscent(s, H, D, p, key, s0) ==
  s = [h \in 0..H |-> IF h = 0 THEN s0 ELSE InnerInsert(s[h - 1], p[D - h], key)]
AscentOf(I, D, p, key, c, up, ok) ==
  CHOOSE s : IsAscent(s, D, D, p, key, [inners |-> I, to_insert |-> c, up_key |-> up, ok |-> ok])

\* The way up exists, as the way down does.
LEMMA AscentExists ==
  ASSUME NEW D, NEW p, NEW key, NEW s0
  PROVE  \A H \in Nat : \E s : IsAscent(s, H, D, p, key, s0)
<1> DEFINE Is(s, H) == IsAscent(s, H, D, p, key, s0)
           T == {H \in Nat : ~ \E s : Is(s, H)}
<1>1. SUFFICES ASSUME T # {} PROVE FALSE
  OBVIOUS
<1>2. PICK H \in T : \A E \in T : H <= E
  <2>1. T \in SUBSET Nat
    OBVIOUS
  <2> HIDE DEF T
  <2> QED
    BY <1>1, <2>1, NatMin
<1>3. CASE H = 0
  <2> DEFINE s == [h \in 0..0 |-> s0]
  <2>1. \A h \in 0..0 : h = 0
    OBVIOUS
  <2>2. s = [h \in 0..0 |-> IF h = 0 THEN s0 ELSE InnerInsert(s[h - 1], p[D - h], key)]
    BY <2>1
  <2> HIDE DEF s
  <2>3. Is(s, 0)
    BY <2>2 DEF IsAscent
  <2> HIDE DEF Is
  <2> QED
    BY <1>2, <1>3, <2>3
<1>4. CASE H # 0
  <2>1. H - 1 \in Nat /\ H \in Nat /\ ~(H <= H - 1)
    BY <1>2, <1>4
  <2>2. PICK r : Is(r, H - 1)
    <3> HIDE DEF Is
    <3> QED
      BY <1>2, <2>1
  <2> DEFINE s == [h \in 0..H |-> IF h = H THEN InnerInsert(r[H - 1], p[D - H], key) ELSE r[h]]
  <2>3. \A h \in 0..(H - 1) : r[h] = IF h = 0 THEN s0 ELSE InnerInsert(r[h - 1], p[D - h], key)
    BY <2>2 DEF IsAscent
  <2>4. \A h \in 0..H : s[h] = IF h = H THEN InnerInsert(r[H - 1], p[D - H], key) ELSE r[h]
    OBVIOUS
  <2>5. s = [h \in 0..H |-> s[h]]
    OBVIOUS
  <2> HIDE DEF s, Is
  <2>6. ASSUME NEW h \in 0..H PROVE s[h] = IF h = 0 THEN s0 ELSE InnerInsert(s[h - 1], p[D - h], key)
    <3>1. CASE h = H
      <4>1. h - 1 \in 0..H /\ h - 1 # H /\ h # 0
        BY <1>4, <2>1, <3>1
      <4>2. s[h - 1] = r[H - 1]
        BY <2>4, <3>1, <4>1
      <4> QED
        BY <2>4, <3>1, <4>1, <4>2
    <3>2. CASE h # H
      <4>1. h \in 0..(H - 1) /\ (h # 0 => h - 1 \in 0..H /\ h - 1 # H)
        BY <2>1, <3>2
      <4> QED
        BY <2>3, <2>4, <3>2, <4>1
    <3> QED
      BY <3>1, <3>2
  <2>7. Is(s, H)
    BY <2>5, <2>6 DEF Is, IsAscent
  <2> QED
    BY <1>2, <2>7
<1> QED
  BY <1>3, <1>4

\* The way up, node by node.
AscentWay(s, I, D, p, key, c, up, ok) ==
  /\ s[0] = [inners |-> I, to_insert |-> c, up_key |-> up, ok |-> ok]
  /\ \A h \in 1..D : s[h] = InnerInsert(s[h - 1], p[D - h], key)

LEMMA AscentSteps ==
  ASSUME NEW I, NEW D \in Nat, NEW p, NEW key, NEW c, NEW up, NEW ok
  PROVE  AscentWay(AscentOf(I, D, p, key, c, up, ok), I, D, p, key, c, up, ok)
<1> DEFINE s == AscentOf(I, D, p, key, c, up, ok)
           s0 == [inners |-> I, to_insert |-> c, up_key |-> up, ok |-> ok]
<1>1. \E r : IsAscent(r, D, D, p, key, s0)
  <2> HIDE DEF s0
  <2> QED
    BY AscentExists
<1>2. s = [h \in 0..D |-> IF h = 0 THEN s0 ELSE InnerInsert(s[h - 1], p[D - h], key)]
  <2>1. s = CHOOSE r : IsAscent(r, D, D, p, key, s0)
    BY DEF AscentOf
  <2> HIDE DEF s, s0
  <2>2. IsAscent(s, D, D, p, key, s0)
    BY <1>1, <2>1
  <2> QED
    BY <2>2 DEF IsAscent
<1> HIDE DEF s, s0
<1>3. 0 \in 0..D /\ \A h \in 1..D : h \in 0..D /\ h # 0
  OBVIOUS
<1>4. s[0] = s0
  BY <1>2, <1>3
<1>5. \A h \in 1..D : s[h] = InnerInsert(s[h - 1], p[D - h], key)
  BY <1>2, <1>3
<1> QED
  BY <1>4, <1>5 DEF s, s0, AscentWay

\* Ascend is the end of that way.
LEMMA AscendIsAscentOf ==
  ASSUME NEW p, NEW key, NEW c, NEW up, NEW ok
  PROVE  Ascend(p, key, c, up, ok) = AscentOf(inners, depth, p, key, c, up, ok)[depth]
BY DEF Ascend, AscentOf, IsAscent

\* What the levels were left with.
NewOf(s, D) == [d \in 0..D |-> s[D - d].to_insert]
SepOf(s, D) == [d \in 0..D |-> s[D - d].up_key]

\* A split of a leaf climbs to the root.
LEMMA ClimbsAll ==
  ASSUME NEW I, NEW D \in Nat, NEW P, TreeInv(I, D, P), Steps(I, D, P),
         NEW key \in Key, NEW c \in Nat \ {Null}, NEW up \in Key,
         \A x \in Key : P[x][D] # c,
         P[up][D] = P[key][D], \E y \in Key : P[y][D] = P[key][D] /\ y < up
  PROVE  LET s == AscentOf(I, D, P[key], key, c, up, TRUE) q == NewOf(s, D) u == SepOf(s, D) IN
         /\ s[D] \in Ascent /\ s[D].ok = TRUE /\ s[D].to_insert = q[0] /\ s[D].up_key = u[0]
         /\ q[D] = c /\ u[D] = up
         /\ Climbed(I, s[D].inners, D, P, key, q, u, 0)
<1> DEFINE s == AscentOf(I, D, P[key], key, c, up, TRUE) q == NewOf(s, D) u == SepOf(s, D)
           Claim(h) == s[h] \in Ascent /\ s[h].ok = TRUE /\ Climbed(I, s[h].inners, D, P, key, q, u, D - h)
           T == {h \in 0..D : ~Claim(h)}
<1>1. /\ s[0] = [inners |-> I, to_insert |-> c, up_key |-> up, ok |-> TRUE]
      /\ \A h \in 1..D : s[h] = InnerInsert(s[h - 1], P[key][D - h], key)
  <2>1. AscentWay(AscentOf(I, D, P[key], key, c, up, TRUE), I, D, P[key], key, c, up, TRUE)
    BY AscentSteps, Zenon
  <2> QED
    BY <2>1, Zenon DEF AscentWay
<1> HIDE DEF s
<1>2. \A d \in 0..D : q[d] = s[D - d].to_insert /\ u[d] = s[D - d].up_key
  BY DEF NewOf, SepOf
<1>3. q[D] = c /\ u[D] = up
  <2>1. D \in 0..D /\ D - D = 0
    OBVIOUS
  <2> QED
    BY <1>1, <1>2, <2>1
<1>4. q[0] = s[D].to_insert /\ u[0] = s[D].up_key
  <2>1. 0 \in 0..D /\ D - 0 = D
    OBVIOUS
  <2> QED
    BY <1>2, <2>1
<1> HIDE DEF q, u
<1>5. I \in Seq(Inner) /\ \A n \in 1..Len(I) : NodeOK(I[n])
  BY DEF TreeInv
<1>6. Claim(0)
  <2>1. s[0] \in Ascent /\ s[0].ok = TRUE /\ s[0].inners = I
    BY <1>1, <1>5 DEF Ascent
  <2>2. SeparatorOK(P, key, q, u, D)
    BY <1>3 DEF SeparatorOK
  <2>3. /\ D - 0 = D /\ \A d \in D..D : d = D
        /\ \A d \in D..(D - 1) : FALSE
    OBVIOUS
  <2>4. Len(I) <= Len(I)
    BY <1>5
  <2>5. Climbed(I, I, D, P, key, q, u, D)
    BY <1>5, <2>2, <2>3, <2>4 DEF Climbed
  <2> QED
    BY <2>1, <2>3, <2>5
<1>7. ASSUME NEW h \in 1..D, Claim(h - 1) PROVE Claim(h)
  <2> DEFINE e == D - h r == s[h - 1] t == s[h]
  <2>1. e \in 0..(D - 1) /\ e + 1 \in 0..D /\ e \in 0..D /\ D - (e + 1) = h - 1 /\ D - e = h /\ D - (h - 1) = e + 1
    OBVIOUS
  <2>2. t = InnerInsert(r, P[key][e], key)
    BY <1>1
  <2>3. /\ q[e] = t.to_insert /\ u[e] = t.up_key
        /\ q[e + 1] = r.to_insert /\ u[e + 1] = r.up_key
    <3>1. \A d \in 0..D : q[d] = s[D - d].to_insert /\ u[d] = s[D - d].up_key
      BY <1>2
    <3> QED
      BY <2>1, <3>1
  <2>4. r \in Ascent /\ r.ok = TRUE /\ Climbed(I, r.inners, D, P, key, q, u, e + 1)
    BY <1>7, <2>1
  <2>5. \A x \in Key : P[x][D] # q[D]
    BY <1>3
  <2> HIDE DEF e, r, t
  <2>6. Ready(I, D, P, key, q, u, e, r)
    BY <2>1, <2>3, <2>4, <2>5 DEF Ready
  <2>7. t \in Ascent /\ t.ok = TRUE /\ Climbed(I, t.inners, D, P, key, q, u, e)
    BY <2>2, <2>3, <2>6, ClimbStep
  <2> QED
    BY <2>7 DEF t, e
<1> HIDE DEF Claim
<1>8. \A h \in 0..D : Claim(h)
  <2> SUFFICES ASSUME T # {} PROVE FALSE
    OBVIOUS
  <2>1. PICK h \in T : \A g \in T : h <= g
    <3>1. T \in SUBSET Nat
      OBVIOUS
    <3> HIDE DEF T
    <3> QED
      BY <3>1, NatMin
  <2>2. h \in 1..D /\ h - 1 \in 0..D /\ ~(h <= h - 1)
    BY <1>6, <2>1
  <2>3. h - 1 \notin T
    BY <2>1, <2>2
  <2> QED
    BY <1>7, <2>1, <2>2, <2>3
<1>9. s[D] \in Ascent /\ s[D].ok = TRUE /\ Climbed(I, s[D].inners, D, P, key, q, u, 0)
  <2>1. D \in 0..D /\ D - D = 0
    OBVIOUS
  <2> QED
    BY <1>8, <2>1 DEF Claim
<1> QED
  BY <1>3, <1>4, <1>9 DEF q, u, s

-----------------------------------------------------------------------------
(* The paths after the split has reached the root. *)

\* A split of a leaf that has climbed all levels.
Split(I, J, D, P, key, q, u) ==
  /\ D \in Nat /\ TreeInv(I, D, P) /\ Steps(I, D, P) /\ key \in Key
  /\ Climbed(I, J, D, P, key, q, u, 0)
  /\ q[D] # Null /\ \A x \in Key : P[x][D] # q[D]

\* Does the search for x turn to the new node of level d?
Turns(P, key, q, u, d, x) == P[x][d] = P[key][d] /\ q[d] # Null /\ x >= u[d]
\* The paths after the split.
PathsAfter(D, P, key, q, u) ==
  [x \in Key |-> [d \in 0..D |-> IF Turns(P, key, q, u, d, x) THEN q[d] ELSE P[x][d]]]

\* What a split means for one level.
LEMMA SplitLevel ==
  ASSUME NEW I, NEW J, NEW D, NEW P, NEW key, NEW q, NEW u, Split(I, J, D, P, key, q, u)
  PROVE  /\ D \in Nat /\ key \in Key /\ Len(I) \in Nat /\ Len(J) \in Nat /\ Len(I) <= Len(J)
         /\ I \in Seq(Inner) /\ J \in Seq(Inner) /\ DOMAIN I = 1..Len(I) /\ DOMAIN J = 1..Len(J)
         /\ \A n \in 1..Len(I) : NodeOK(I[n])
         /\ \A n \in 1..Len(J) : NodeOK(J[n])
         /\ \A x \in Key, d \in 0..(D - 1) : P[x][d] \in 1..Len(I)
         /\ \A d \in 0..D : SeparatorOK(P, key, q, u, d)
         /\ \A d \in 0..(D - 1) : LevelOK(I, J, P, key, q, u, d)
         /\ \A d \in 0..(D - 1) : q[d] # Null => q[d] \in (Len(I) + 1)..Len(J)
         /\ \A d, f \in 0..(D - 1) : d # f /\ q[d] # Null => q[d] # q[f]
         /\ \A x \in Key, d \in 0..D : q[d] # Null => P[x][d] # q[d]
         /\ \A x \in Key, d \in 0..(D - 1) : P[x][d] # P[key][d] => J[P[x][d]] = I[P[x][d]]
         /\ \A x, y \in Key, d \in 0..(D - 1) : P[x][d + 1] = P[y][d + 1] => P[x][d] = P[y][d]
         /\ \A x \in Key, d \in 0..(D - 1) : P[x][d + 1] = Route(I[P[x][d]], x)
<1>1. /\ D \in Nat /\ TreeInv(I, D, P) /\ Steps(I, D, P) /\ key \in Key
      /\ Climbed(I, J, D, P, key, q, u, 0)
      /\ q[D] # Null /\ \A x \in Key : P[x][D] # q[D]
  BY DEF Split
<1>2. /\ I \in Seq(Inner) /\ Len(I) \in Nat /\ DOMAIN I = 1..Len(I)
      /\ \A n \in 1..Len(I) : NodeOK(I[n])
  BY <1>1 DEF TreeInv
<1>3. /\ J \in Seq(Inner) /\ Len(J) \in Nat /\ DOMAIN J = 1..Len(J) /\ Len(I) <= Len(J)
      /\ \A n \in 1..Len(J) : NodeOK(J[n])
  BY <1>1 DEF Climbed
<1>4. \A x \in Key, d \in 0..(D - 1) : P[x][d] \in 1..Len(I)
  BY <1>1, <1>2 DEF TreeInv, Inside
<1>5. /\ \A d \in 0..D : SeparatorOK(P, key, q, u, d)
      /\ \A d \in 0..(D - 1) : LevelOK(I, J, P, key, q, u, d)
      /\ \A d \in 0..(D - 1) : q[d] # Null => q[d] \in (Len(I) + 1)..Len(J)
      /\ \A d, f \in 0..(D - 1) : d # f /\ q[d] # Null => q[d] # q[f]
      /\ \A n \in 1..Len(I) : (\A d \in 0..(D - 1) : n # P[key][d]) => J[n] = I[n]
  BY <1>1 DEF Climbed
<1>6. ASSUME NEW x \in Key, NEW d \in 0..D, q[d] # Null PROVE P[x][d] # q[d]
  <2>1. CASE d = D
    BY <1>1, <2>1
  <2>2. CASE d # D
    <3>1. d \in 0..(D - 1)
      BY <1>1, <2>2
    <3>2. P[x][d] \in 1..Len(I) /\ q[d] \in (Len(I) + 1)..Len(J)
      BY <1>4, <1>5, <1>6, <3>1
    <3> QED
      BY <1>2, <3>2
  <2> QED
    BY <2>1, <2>2
<1>7. ASSUME NEW x \in Key, NEW d \in 0..(D - 1), P[x][d] # P[key][d] PROVE J[P[x][d]] = I[P[x][d]]
  <2>1. \A f \in 0..(D - 1) : P[x][d] # P[key][f]
    <3> TAKE f \in 0..(D - 1)
    <3>1. d # f => P[x][d] # P[key][f]
      BY <1>1 DEF TreeInv, Levels
    <3> QED
      BY <1>7, <3>1
  <2> QED
    BY <1>4, <1>5, <2>1
<1>8. ASSUME NEW x \in Key, NEW y \in Key, NEW d \in 0..(D - 1)
      PROVE  P[x][d + 1] = P[y][d + 1] => P[x][d] = P[y][d]
  <2> DEFINE f == d + 1
  <2>1. f \in 1..D /\ f - 1 = d
    BY <1>1
  <2> HIDE DEF f
  <2>2. P[x][f] = P[y][f] => P[x][f - 1] = P[y][f - 1]
    BY <1>1, <2>1 DEF TreeInv, Forks
  <2> QED
    BY <2>1, <2>2 DEF f
<1>9. ASSUME NEW x \in Key, NEW d \in 0..(D - 1) PROVE P[x][d + 1] = Route(I[P[x][d]], x)
  <2> DEFINE f == d + 1
  <2>1. f \in 1..D /\ f - 1 = d
    BY <1>1
  <2> HIDE DEF f
  <2>2. P[x][f] = Route(I[P[x][f - 1]], x)
    BY <1>1, <2>1 DEF Steps
  <2> QED
    BY <2>1, <2>2 DEF f
<1> QED
  BY <1>1, <1>2, <1>3, <1>4, <1>5, <1>6, <1>7, <1>8, <1>9

\* The nodes of the paths.
LEMMA AfterIs ==
  ASSUME NEW D \in Nat, NEW P, NEW key, NEW q, NEW u, NEW x \in Key, NEW d \in 0..D
  PROVE  /\ Turns(P, key, q, u, d, x) => PathsAfter(D, P, key, q, u)[x][d] = q[d]
         /\ ~Turns(P, key, q, u, d, x) => PathsAfter(D, P, key, q, u)[x][d] = P[x][d]
BY DEF PathsAfter

\* The new paths follow the new nodes.
LEMMA AfterSteps ==
  ASSUME NEW I, NEW J, NEW D, NEW P, NEW key, NEW q, NEW u, Split(I, J, D, P, key, q, u)
  PROVE  Steps(J, D, PathsAfter(D, P, key, q, u))
<1> DEFINE P2 == PathsAfter(D, P, key, q, u)
           Tn(d, x) == Turns(P, key, q, u, d, x)
<1>1. D \in Nat /\ key \in Key
  BY SplitLevel
<1>2. \A x \in Key, d \in 0..D : (Tn(d, x) => P2[x][d] = q[d]) /\ (~Tn(d, x) => P2[x][d] = P[x][d])
  BY <1>1, AfterIs
<1> HIDE DEF P2
<1>3. ASSUME NEW x \in Key, NEW d \in 0..(D - 1)
      PROVE  P2[x][d + 1] = Route(J[P2[x][d]], x)
  <2>0. d \in 0..D /\ d + 1 \in 0..D
    BY <1>1
  <2>1. P[x][d + 1] = Route(I[P[x][d]], x)
    BY SplitLevel
  <2>2. CASE P[x][d] # P[key][d]
    <3>1. P[x][d + 1] # P[key][d + 1]
      BY <1>1, <2>2, SplitLevel
    <3>2. ~Tn(d, x) /\ ~Tn(d + 1, x)
      BY <2>2, <3>1 DEF Turns
    <3>3. P2[x][d] = P[x][d] /\ P2[x][d + 1] = P[x][d + 1]
      BY <1>2, <2>0, <3>2
    <3>4. J[P[x][d]] = I[P[x][d]]
      BY <2>2, SplitLevel
    <3> QED
      BY <2>1, <3>3, <3>4
  <2>3. CASE P[x][d] = P[key][d]
    <3> DEFINE node == I[P[key][d]]
    <3>1. LevelOK(I, J, P, key, q, u, d)
      BY SplitLevel
    <3>2. CASE q[d + 1] = Null
      <4>1. q[d] = Null /\ J[P[key][d]] = node
        BY <3>1, <3>2 DEF LevelOK
      <4>2. P2[x][d] = P[x][d] /\ P2[x][d + 1] = P[x][d + 1]
        BY <1>2, <2>0, <3>2, <4>1 DEF Turns
      <4> QED
        BY <2>1, <2>3, <4>1, <4>2
    <3>3. CASE q[d + 1] # Null
      <4>1. (IF q[d] # Null /\ x >= u[d] THEN Route(J[q[d]], x) ELSE Route(J[P[key][d]], x)) =
            (IF FindChildrenIdx(node, x) = FindChildrenIdx(node, key) /\ x >= u[d + 1]
             THEN q[d + 1] ELSE Route(node, x))
        BY <3>1, <3>3 DEF LevelOK
      <4>2. P[x][d + 1] = P[key][d + 1] <=> FindChildrenIdx(node, x) = FindChildrenIdx(node, key)
        <5>1. /\ D \in Nat /\ TreeInv(I, D, P) /\ Steps(I, D, P)
          BY DEF Split
        <5>2. P[x][d + 1] = P[key][d + 1] <=>
                FindChildrenIdx(I[P[x][d]], x) = FindChildrenIdx(I[P[x][d]], key)
          BY <1>1, <2>3, <5>1, SameChild
        <5> QED
          BY <2>3, <5>2
      <4>3. Route(J[P2[x][d]], x) =
              IF q[d] # Null /\ x >= u[d] THEN Route(J[q[d]], x) ELSE Route(J[P[key][d]], x)
        BY <1>2, <2>0, <2>3 DEF Turns
      <4>4. P2[x][d + 1] =
              IF FindChildrenIdx(node, x) = FindChildrenIdx(node, key) /\ x >= u[d + 1]
              THEN q[d + 1] ELSE Route(node, x)
        <5>1. Tn(d + 1, x) <=> FindChildrenIdx(node, x) = FindChildrenIdx(node, key) /\ x >= u[d + 1]
          BY <3>3, <4>2 DEF Turns
        <5>2. P[x][d + 1] = Route(node, x)
          BY <2>1, <2>3
        <5> HIDE DEF node, Tn
        <5> QED
          BY <1>2, <2>0, <5>1, <5>2
      <4> QED
        BY <4>1, <4>3, <4>4
    <3> QED
      BY <3>2, <3>3
  <2> QED
    BY <2>2, <2>3
<1>4. ASSUME NEW x \in Key, NEW d \in 1..D PROVE P2[x][d] = Route(J[P2[x][d - 1]], x)
  <2>1. d - 1 \in 0..(D - 1) /\ (d - 1) + 1 = d
    BY <1>1
  <2>2. P2[x][(d - 1) + 1] = Route(J[P2[x][d - 1]], x)
    BY <1>3, <2>1
  <2> QED
    BY <2>1, <2>2
<1>5. Steps(J, D, P2)
  BY <1>4 DEF Steps
<1> QED
  BY <1>5 DEF P2

\* The order of a tree after the split: its paths stay apart.
LEMMA AfterApart ==
  ASSUME NEW I, NEW J, NEW D, NEW P, NEW key, NEW q, NEW u, Split(I, J, D, P, key, q, u)
  PROVE  LET P2 == PathsAfter(D, P, key, q, u) IN
         Inside(J, D, P2) /\ Levels(D, P2) /\ Forks(D, P2)
<1> DEFINE P2 == PathsAfter(D, P, key, q, u)
           Tn(d, x) == Turns(P, key, q, u, d, x)
<1>1. D \in Nat /\ key \in Key /\ Len(I) \in Nat /\ Len(J) \in Nat /\ Len(I) <= Len(J) /\ DOMAIN J = 1..Len(J)
  BY SplitLevel
<1>2. \A x \in Key, d \in 0..D : (Tn(d, x) => P2[x][d] = q[d]) /\ (~Tn(d, x) => P2[x][d] = P[x][d])
  BY <1>1, AfterIs
<1>3. /\ \A x \in Key, d \in 0..(D - 1) : P[x][d] \in 1..Len(I)
      /\ \A d \in 0..(D - 1) : q[d] # Null => q[d] \in (Len(I) + 1)..Len(J)
      /\ \A d, f \in 0..(D - 1) : d # f /\ q[d] # Null => q[d] # q[f]
      /\ \A x \in Key, d \in 0..D : q[d] # Null => P[x][d] # q[d]
      /\ \A x, y \in Key, d \in 0..(D - 1) : P[x][d + 1] = P[y][d + 1] => P[x][d] = P[y][d]
  BY SplitLevel
<1> HIDE DEF P2
<1>4. \A d \in 0..(D - 1) : d \in 0..D /\ d + 1 \in 0..D
  BY <1>1
<1>5. ASSUME NEW x \in Key, NEW d \in 0..(D - 1) PROVE P2[x][d] \in DOMAIN J
  <2>1. CASE Tn(d, x)
    BY <1>1, <1>2, <1>3, <1>4, <2>1 DEF Turns
  <2>2. CASE ~Tn(d, x)
    <3>1. P2[x][d] = P[x][d] /\ P[x][d] \in 1..Len(I)
      BY <1>2, <1>3, <1>4, <2>2
    <3> QED
      BY <1>1, <3>1
  <2> QED
    BY <2>1, <2>2
<1>6. ASSUME NEW x \in Key, NEW y \in Key, NEW d \in 0..(D - 1), NEW e \in 0..(D - 1), d # e
      PROVE  P2[x][d] # P2[y][e]
  <2>1. P[x][d] # P[y][e]
    <3>1. TreeInv(I, D, P)
      BY DEF Split
    <3> QED
      BY <1>6, <3>1 DEF TreeInv, Levels
  <2>2. P[x][d] \in 1..Len(I) /\ P[y][e] \in 1..Len(I)
    BY <1>3
  <2>3. /\ Tn(d, x) => q[d] \in (Len(I) + 1)..Len(J) /\ q[d] # q[e]
        /\ Tn(e, y) => q[e] \in (Len(I) + 1)..Len(J)
    BY <1>3, <1>6 DEF Turns
  <2>4. P2[x][d] = (IF Tn(d, x) THEN q[d] ELSE P[x][d]) /\ P2[y][e] = (IF Tn(e, y) THEN q[e] ELSE P[y][e])
    BY <1>2, <1>4
  <2> HIDE DEF Tn
  <2> QED
    BY <1>1, <2>1, <2>2, <2>3, <2>4
<1>7. ASSUME NEW x \in Key, NEW y \in Key, NEW d \in 0..(D - 1), P2[x][d + 1] = P2[y][d + 1]
      PROVE  P2[x][d] = P2[y][d]
  <2>1. P[x][d + 1] = P[y][d + 1]
    <3>1. /\ P2[x][d + 1] = (IF Tn(d + 1, x) THEN q[d + 1] ELSE P[x][d + 1])
          /\ P2[y][d + 1] = (IF Tn(d + 1, y) THEN q[d + 1] ELSE P[y][d + 1])
      BY <1>2, <1>4
    <3>2. q[d + 1] # Null => P[x][d + 1] # q[d + 1] /\ P[y][d + 1] # q[d + 1]
      BY <1>3, <1>4
    <3> QED
      BY <1>7, <3>1, <3>2 DEF Turns
  <2>2. P[x][d] = P[y][d]
    BY <1>3, <2>1
  <2>3. CASE P[x][d] # P[key][d] \/ q[d] = Null
    BY <1>2, <1>4, <2>2, <2>3 DEF Turns
  <2>4. CASE P[x][d] = P[key][d] /\ q[d] # Null
    <3> DEFINE node == I[P[key][d]]
    <3>1. LevelOK(I, J, P, key, q, u, d)
      BY SplitLevel
    <3>2. \A z \in Key : FindChildrenIdx(node, z) >= Middle <=> z >= u[d]
      BY <2>4, <3>1 DEF LevelOK
    <3>3. FindChildrenIdx(node, x) = FindChildrenIdx(node, y)
      <4>1. /\ D \in Nat /\ TreeInv(I, D, P) /\ Steps(I, D, P)
        BY DEF Split
      <4>2. P[x][d + 1] = P[y][d + 1] <=>
              FindChildrenIdx(I[P[x][d]], x) = FindChildrenIdx(I[P[x][d]], y)
        BY <2>2, <4>1, SameChild
      <4> QED
        BY <2>1, <2>4, <4>2
    <3>4. x >= u[d] <=> y >= u[d]
      BY <3>2, <3>3
    <3>5. Tn(d, x) <=> Tn(d, y)
      BY <2>2, <3>4 DEF Turns
    <3> HIDE DEF Tn
    <3> QED
      BY <1>2, <1>4, <2>2, <3>5
  <2> QED
    BY <2>3, <2>4
<1>8. ASSUME NEW x \in Key, NEW y \in Key, NEW d \in 1..D, P2[x][d] = P2[y][d]
      PROVE  P2[x][d - 1] = P2[y][d - 1]
  <2> DEFINE e == d - 1
  <2>1. e \in 0..(D - 1) /\ e + 1 = d
    BY <1>1
  <2> HIDE DEF e
  <2>2. P2[x][e + 1] = P2[y][e + 1]
    BY <1>8, <2>1
  <2>3. P2[x][e] = P2[y][e]
    BY <1>7, <2>1, <2>2
  <2> QED
    BY <2>3 DEF e
<1>9. Inside(J, D, P2) /\ Levels(D, P2) /\ Forks(D, P2)
  <2>1. Inside(J, D, P2)
    BY <1>5 DEF Inside
  <2>2. Levels(D, P2)
    BY <1>6 DEF Levels
  <2>3. Forks(D, P2)
    BY <1>8 DEF Forks
  <2> QED
    BY <2>1, <2>2, <2>3
<1> QED
  BY <1>9 DEF P2

\* A split level: the keys of both nodes, and their bounds.
LEMMA SplitKeys ==
  ASSUME NEW I, NEW J, NEW D, NEW P, NEW key, NEW q, NEW u, Split(I, J, D, P, key, q, u),
         NEW d \in 0..(D - 1)
  PROVE  LET node == I[P[key][d]] a == J[P[key][d]] b == J[q[d]] IN
         /\ NodeOK(node) /\ NodeOK(a) /\ u[d] \in Key
         /\ \A z \in KeysOf(a) : z \in Key /\ P[z][d] = P[key][d]
         /\ Len(a.keys) >= 1 => \E y \in Key : P[y][d] = P[key][d] /\ y < a.keys[1]
         /\ q[d] # Null =>
              /\ NodeOK(b) /\ P[u[d]][d] = P[key][d]
              /\ \A z \in KeysOf(b) : z \in Key /\ P[z][d] = P[key][d]
              /\ \A z \in KeysOf(a) : z < u[d]
              /\ \A z \in KeysOf(b) : u[d] < z
<1> DEFINE n == P[key][d] node == I[n] a == J[n] b == J[q[d]]
<1>1. /\ D \in Nat /\ key \in Key /\ Len(I) \in Nat /\ Len(J) \in Nat /\ Len(I) <= Len(J)
      /\ n \in 1..Len(I) /\ \A m \in 1..Len(I) : NodeOK(I[m])
      /\ \A m \in 1..Len(J) : NodeOK(J[m])
      /\ q[d] # Null => q[d] \in (Len(I) + 1)..Len(J)
      /\ LevelOK(I, J, P, key, q, u, d)
  BY SplitLevel
<1>2. d \in 0..D /\ d + 1 \in 0..D
  BY <1>1
<1>3. SeparatorOK(P, key, q, u, d) /\ SeparatorOK(P, key, q, u, d + 1)
  BY <1>2, SplitLevel
<1>4. NodeOK(node) /\ NodeOK(a) /\ (q[d] # Null => NodeOK(b))
  <2>1. n \in 1..Len(J) /\ (q[d] # Null => q[d] \in 1..Len(J))
    BY <1>1
  <2> QED
    BY <1>1, <2>1
<1>5. u[d] \in Key /\ (q[d] # Null => P[u[d]][d] = n)
  BY <1>3 DEF SeparatorOK
<1>6. \A z \in KeysOf(node) : z \in Key /\ P[z][d] = n
  <2> TAKE z \in KeysOf(node)
  <2>1. PICK i \in 1..Len(node.keys) : z = node.keys[i]
    BY DEF KeysOf
  <2>2. z \in Key /\ DOMAIN node.keys = 1..Len(node.keys)
    <3> HIDE DEF node
    <3> QED
      BY <1>4, <2>1, NodeFields
  <2>3. P[z][d] = n
    <3>1. Homes(I, D, P)
      BY DEF Split, TreeInv
    <3> QED
      BY <1>1, <2>1, <2>2, <3>1 DEF Homes
  <2> QED
    BY <2>2, <2>3
<1>7. q[d + 1] # Null => /\ u[d + 1] \in Key /\ P[u[d + 1]][d] = n
                         /\ \E y \in Key : P[y][d] = n /\ y < u[d + 1]
  <2> SUFFICES ASSUME q[d + 1] # Null
               PROVE  /\ u[d + 1] \in Key /\ P[u[d + 1]][d] = n
                      /\ \E y \in Key : P[y][d] = n /\ y < u[d + 1]
    OBVIOUS
  <2>1. /\ u[d + 1] \in Key /\ P[u[d + 1]][d + 1] = P[key][d + 1]
        /\ \E y \in Key : P[y][d + 1] = P[key][d + 1] /\ y < u[d + 1]
    BY <1>3 DEF SeparatorOK
  <2>2. \A x \in Key : P[x][d + 1] = P[key][d + 1] => P[x][d] = P[key][d]
    BY <1>1, SplitLevel
  <2> QED
    BY <2>1, <2>2
<1>8. Len(node.keys) >= 1 => \E y \in Key : P[y][d] = n /\ y < node.keys[1]
  <2>1. Lows(I, D, P)
    BY DEF Split, TreeInv
  <2> QED
    BY <1>1, <2>1 DEF Lows
<1> HIDE DEF node, a, b, n
<1>9. CASE q[d + 1] = Null
  <2>1. q[d] = Null /\ a = node
    BY <1>1, <1>9 DEF LevelOK, node, a, n
  <2> QED
    BY <1>4, <1>5, <1>6, <1>8, <2>1 DEF node, a, b, n
<1>10. CASE q[d + 1] # Null
  <2>1. /\ KeysOf(a) \subseteq KeysOf(node) \cup {u[d + 1]}
        /\ Len(a.keys) >= 1 => \/ a.keys[1] = u[d + 1]
                               \/ Len(node.keys) >= 1 /\ a.keys[1] = node.keys[1]
        /\ q[d] # Null =>
               /\ KeysOf(b) \subseteq KeysOf(node) \cup {u[d + 1]}
               /\ \A z \in KeysOf(a) : z < u[d]
               /\ \A z \in KeysOf(b) : u[d] < z
    BY <1>1, <1>10 DEF LevelOK, node, a, b, n
  <2>2. \A z \in KeysOf(node) \cup {u[d + 1]} : z \in Key /\ P[z][d] = n
    BY <1>6, <1>7, <1>10
  <2>3. Len(a.keys) >= 1 => \E y \in Key : P[y][d] = n /\ y < a.keys[1]
    BY <1>7, <1>8, <1>10, <2>1
  <2> QED
    BY <1>4, <1>5, <2>1, <2>2, <2>3 DEF node, a, b, n
<1> QED
  BY <1>9, <1>10

\* The keys of the new nodes belong to them.
LEMMA AfterKeys ==
  ASSUME NEW I, NEW J, NEW D, NEW P, NEW key, NEW q, NEW u, Split(I, J, D, P, key, q, u)
  PROVE  LET P2 == PathsAfter(D, P, key, q, u) IN Homes(J, D, P2) /\ Lows(J, D, P2)
<1> DEFINE P2 == PathsAfter(D, P, key, q, u)
           Tn(d, x) == Turns(P, key, q, u, d, x)
<1>1. D \in Nat /\ key \in Key /\ \A x \in Key : x \in Nat
  BY SplitLevel, XNodeAssumption DEF Key
<1>2. \A x \in Key, d \in 0..D : (Tn(d, x) => P2[x][d] = q[d]) /\ (~Tn(d, x) => P2[x][d] = P[x][d])
  BY <1>1, AfterIs
<1> HIDE DEF P2
<1>3. ASSUME NEW x \in Key, NEW d \in 0..(D - 1)
      PROVE  /\ \A z \in KeysOf(J[P2[x][d]]) : z \in Key /\ P2[z][d] = P2[x][d]
             /\ Len(J[P2[x][d]].keys) >= 1 => \E y \in Key : P2[y][d] = P2[x][d] /\ y < J[P2[x][d]].keys[1]
             /\ NodeOK(J[P2[x][d]])
  <2>0. d \in 0..D
    BY <1>1
  <2>1. \A y \in Key : P2[y][d] = IF Tn(d, y) THEN q[d] ELSE P[y][d]
    BY <1>2, <2>0
  <2>2. CASE P[x][d] # P[key][d]
    <3> DEFINE node == I[P[x][d]]
    <3>1. \A y \in Key : P[y][d] = P[x][d] => P2[y][d] = P[y][d]
      BY <2>1, <2>2 DEF Turns
    <3>2. P2[x][d] = P[x][d] /\ J[P[x][d]] = node /\ NodeOK(node) /\ P[x][d] \in 1..Len(I)
      BY <2>2, <3>1, SplitLevel
    <3>3. Homes(I, D, P) /\ Lows(I, D, P)
      BY DEF Split, TreeInv
    <3>4. ASSUME NEW z \in KeysOf(node) PROVE z \in Key /\ P[z][d] = P[x][d]
      <4>1. PICK i \in 1..Len(node.keys) : z = node.keys[i]
        BY DEF KeysOf
      <4>2. z \in Key /\ DOMAIN node.keys = 1..Len(node.keys)
        <5> HIDE DEF node
        <5> QED
          BY <3>2, <4>1, NodeFields
      <4> QED
        BY <3>3, <4>1, <4>2 DEF Homes
    <3>5. Len(node.keys) >= 1 => \E y \in Key : P[y][d] = P[x][d] /\ y < node.keys[1]
      BY <3>3 DEF Lows
    <3> HIDE DEF node
    <3>6. J[P2[x][d]] = node
      BY <3>2
    <3> QED
      BY <3>1, <3>2, <3>4, <3>5, <3>6
  <2>3. CASE P[x][d] = P[key][d]
    <3> DEFINE a == J[P[key][d]] b == J[q[d]]
    <3>1. /\ NodeOK(a) /\ u[d] \in Key
          /\ \A z \in KeysOf(a) : z \in Key /\ P[z][d] = P[key][d]
          /\ Len(a.keys) >= 1 => \E y \in Key : P[y][d] = P[key][d] /\ y < a.keys[1]
          /\ q[d] # Null =>
               /\ NodeOK(b) /\ P[u[d]][d] = P[key][d]
               /\ \A z \in KeysOf(b) : z \in Key /\ P[z][d] = P[key][d]
               /\ \A z \in KeysOf(a) : z < u[d]
               /\ \A z \in KeysOf(b) : u[d] < z
      BY SplitKeys
    <3>2. \A r : Len(r.keys) >= 1 /\ NodeOK(r) => r.keys[1] \in KeysOf(r) /\ r.keys[1] \in Nat
      <4> TAKE r
      <4> SUFFICES ASSUME Len(r.keys) >= 1, NodeOK(r) PROVE r.keys[1] \in KeysOf(r) /\ r.keys[1] \in Nat
        OBVIOUS
      <4>0. N \in Nat
        BY XNodeAssumption
      <4>1. Len(r.keys) \in 0..N /\ \A i \in 1..Len(r.keys) : r.keys[i] \in Nat
        BY NodeFields
      <4>2. 1 \in 1..Len(r.keys)
        BY <4>0, <4>1
      <4> QED
        BY <4>1, <4>2 DEF KeysOf
    <3> HIDE DEF a, b
    <3>3. CASE Tn(d, x)
      <4>1. q[d] # Null /\ P2[x][d] = q[d]
        BY <2>1, <3>3 DEF Turns
      <4>2. \A y \in Key : P[y][d] = P[key][d] /\ y >= u[d] => P2[y][d] = q[d]
        BY <2>1, <4>1 DEF Turns
      <4>3. \A z \in KeysOf(b) : z \in Key /\ P2[z][d] = q[d]
        <5> TAKE z \in KeysOf(b)
        <5>1. z \in Key /\ P[z][d] = P[key][d] /\ u[d] < z
          BY <3>1, <4>1
        <5>2. z >= u[d]
          BY <1>1, <3>1, <5>1
        <5> QED
          BY <4>2, <5>1, <5>2
      <4>4. Len(b.keys) >= 1 => \E y \in Key : P2[y][d] = q[d] /\ y < b.keys[1]
        <5> SUFFICES ASSUME Len(b.keys) >= 1 PROVE P2[u[d]][d] = q[d] /\ u[d] < b.keys[1]
          BY <3>1
        <5>1. b.keys[1] \in KeysOf(b)
          BY <3>1, <3>2, <4>1
        <5>2. u[d] >= u[d]
          BY <1>1, <3>1
        <5> QED
          BY <3>1, <4>1, <4>2, <5>1, <5>2
      <4>5. J[P2[x][d]] = b
        BY <4>1 DEF b
      <4> QED
        BY <3>1, <4>1, <4>3, <4>4, <4>5
    <3>4. CASE ~Tn(d, x)
      <4>1. P2[x][d] = P[key][d]
        BY <2>1, <2>3, <3>4
      <4>2. \A y \in Key : P[y][d] = P[key][d] /\ (q[d] # Null => y < u[d]) => P2[y][d] = P[key][d]
        <5> TAKE y \in Key
        <5> SUFFICES ASSUME P[y][d] = P[key][d], q[d] # Null => y < u[d] PROVE P2[y][d] = P[key][d]
          OBVIOUS
        <5>1. y < u[d] => ~(y >= u[d])
          BY <1>1, <3>1
        <5>2. ~Tn(d, y)
          BY <5>1 DEF Turns
        <5> QED
          BY <2>1, <5>2
      <4>3. \A z \in KeysOf(a) : z \in Key /\ P2[z][d] = P[key][d]
        BY <3>1, <4>2
      <4>4. Len(a.keys) >= 1 => \E y \in Key : P2[y][d] = P[key][d] /\ y < a.keys[1]
        <5> SUFFICES ASSUME Len(a.keys) >= 1 PROVE \E y \in Key : P2[y][d] = P[key][d] /\ y < a.keys[1]
          OBVIOUS
        <5>1. PICK y \in Key : P[y][d] = P[key][d] /\ y < a.keys[1]
          BY <3>1
        <5>2. a.keys[1] \in KeysOf(a) /\ a.keys[1] \in Nat
          BY <3>1, <3>2
        <5>3. q[d] # Null => a.keys[1] < u[d]
          BY <3>1, <5>2
        <5>4. q[d] # Null => y < u[d]
          BY <1>1, <3>1, <5>1, <5>2, <5>3
        <5> QED
          BY <4>2, <5>1, <5>4
      <4>5. J[P2[x][d]] = a
        BY <4>1 DEF a
      <4> QED
        BY <3>1, <4>1, <4>3, <4>4, <4>5
    <3> QED
      BY <3>3, <3>4
  <2> QED
    BY <2>2, <2>3
<1>4. Homes(J, D, P2)
  <2>1. ASSUME NEW x \in Key, NEW d \in 0..(D - 1), NEW i \in DOMAIN J[P2[x][d]].keys
        PROVE  P2[J[P2[x][d]].keys[i]][d] = P2[x][d]
    <3> DEFINE r == J[P2[x][d]]
    <3>1. NodeOK(r) /\ \A z \in KeysOf(r) : P2[z][d] = P2[x][d]
      BY <1>3
    <3>2. i \in 1..Len(r.keys)
      <4>1. i \in DOMAIN r.keys
        BY <2>1
      <4> HIDE DEF r
      <4>2. r.keys \in Seq(Key)
        BY <3>1, NodeFields
      <4> QED
        BY <4>1, <4>2
    <3> HIDE DEF r
    <3>3. r.keys[i] \in KeysOf(r)
      BY <3>2 DEF KeysOf
    <3> QED
      BY <3>1, <3>3 DEF r
  <2> QED
    BY <2>1 DEF Homes
<1>5. Lows(J, D, P2)
  BY <1>3 DEF Lows
<1> QED
  BY <1>4, <1>5 DEF P2

\* After the split the nodes are a tree again, of the same depth.
LEMMA TreeAfter ==
  ASSUME NEW I, NEW J, NEW D, NEW P, NEW key, NEW q, NEW u, Split(I, J, D, P, key, q, u)
  PROVE  LET P2 == PathsAfter(D, P, key, q, u) IN TreeInv(J, D, P2) /\ Steps(J, D, P2)
<1> DEFINE P2 == PathsAfter(D, P, key, q, u)
<1>1. J \in Seq(Inner) /\ \A n \in DOMAIN J : NodeOK(J[n])
  BY SplitLevel
<1>2. Inside(J, D, P2) /\ Levels(D, P2) /\ Forks(D, P2)
  BY AfterApart
<1>3. Homes(J, D, P2) /\ Lows(J, D, P2)
  BY AfterKeys
<1>4. Steps(J, D, P2)
  BY AfterSteps
<1> HIDE DEF P2
<1>5. TreeInv(J, D, P2)
  BY <1>1, <1>2, <1>3 DEF TreeInv
<1> QED
  BY <1>4, <1>5 DEF P2

-----------------------------------------------------------------------------
(* The tree grows at the root. *)

\* The new root, and the paths under it.
NewRoot(up, r, n) == [keys |-> <<up>>, ch |-> <<r, n>>]
PathsGrown(D, Q, nr) == [x \in Key |-> [d \in 0..(D + 1) |-> IF d = 0 THEN nr ELSE Q[x][d - 1]]]

\* The root over two nodes.
LEMMA NewRootOK ==
  ASSUME NEW up \in Key, NEW r \in Nat \ {Null}, NEW n \in Nat \ {Null}, r # n
  PROVE  LET R == NewRoot(up, r, n) IN
         /\ NodeOK(R) /\ R \in Inner /\ Len(R.keys) = 1 /\ R.keys[1] = up /\ DOMAIN R.keys = 1..1
         /\ \A x \in Key : Route(R, x) = IF x >= up THEN n ELSE r
<1> DEFINE R == NewRoot(up, r, n)
<1>1. R.keys = <<up>> /\ R.ch = <<r, n>>
  BY DEF NewRoot
<1>2. /\ Len(<<up>>) = 1 /\ Len(<<r, n>>) = 2 /\ <<up>>[1] = up /\ <<r, n>>[1] = r /\ <<r, n>>[2] = n
      /\ <<up>> \in Seq(Key) /\ <<r, n>> \in Seq(Nat \ {Null}) /\ DOMAIN <<up>> = 1..1
  OBVIOUS
<1>3. R \in Inner
  BY <1>2 DEF NewRoot, Inner
<1>4. N \in Nat /\ N >= 2 /\ \A x \in Key : x \in Nat
  BY XNodeAssumption DEF Key
<1> HIDE DEF R
<1>5. NodeOK(R)
  <2>1. \A i, j \in 1..1 : ~(i < j)
    OBVIOUS
  <2>2. \A i, j \in 1..2 : i # j => R.ch[i] # R.ch[j]
    <3>1. \A i \in 1..2 : i = 1 \/ i = 2
      OBVIOUS
    <3> QED
      BY <1>1, <1>2, <3>1
  <2> QED
    BY <1>1, <1>2, <1>3, <1>4, <2>1, <2>2 DEF NodeOK
<1>6. ASSUME NEW x \in Key PROVE Route(R, x) = IF x >= up THEN n ELSE r
  <2>1. \A c \in 0..Len(R.keys) :
              /\ \A i \in 1..c : R.keys[i] <= x
              /\ c < Len(R.keys) => x < R.keys[c + 1]
              => FindChildrenIdx(R, x) = c
    BY <1>3, <1>4, ChildrenIdx
  <2>2. CASE x >= up
    <3>1. 1 \in 0..Len(R.keys) /\ (\A i \in 1..1 : i = 1) /\ ~(1 < Len(R.keys))
      BY <1>1, <1>2
    <3>2. R.keys[1] <= x
      BY <1>1, <1>2, <1>4, <2>2
    <3>3. FindChildrenIdx(R, x) = 1
      BY <2>1, <3>1, <3>2
    <3> QED
      BY <1>1, <1>2, <2>2, <3>3 DEF Route
  <2>3. CASE ~(x >= up)
    <3>1. 0 \in 0..Len(R.keys) /\ (\A i \in 1..0 : FALSE) /\ 0 + 1 = 1
      BY <1>1, <1>2
    <3>2. x < R.keys[0 + 1]
      BY <1>1, <1>2, <1>4, <2>3, <3>1
    <3>3. FindChildrenIdx(R, x) = 0
      BY <2>1, <3>1, <3>2
    <3> QED
      BY <1>1, <1>2, <2>3, <3>3 DEF Route
  <2> QED
    BY <2>2, <2>3
<1> QED
  BY <1>1, <1>2, <1>3, <1>5, <1>6 DEF R

\* A tree whose root split, under a new root.
LEMMA TreeGrows ==
  ASSUME NEW J, NEW D \in Nat, NEW Q, TreeInv(J, D, Q), Steps(J, D, Q),
         NEW up \in Key, NEW r \in Nat \ {Null}, NEW n \in Nat \ {Null}, r # n,
         \A x \in Key : Q[x][0] = IF x >= up THEN n ELSE r,
         \E y \in Key : y < up
  PROVE  LET K == Append(J, NewRoot(up, r, n)) G == PathsGrown(D, Q, Len(J) + 1) IN
         TreeInv(K, D + 1, G) /\ Steps(K, D + 1, G)
<1> DEFINE R == NewRoot(up, r, n) K == Append(J, R) nr == Len(J) + 1 G == PathsGrown(D, Q, nr)
<1>1. /\ NodeOK(R) /\ R \in Inner /\ Len(R.keys) = 1 /\ R.keys[1] = up
      /\ \A x \in Key : Route(R, x) = IF x >= up THEN n ELSE r
  BY NewRootOK
<1>2. J \in Seq(Inner) /\ Len(J) \in Nat /\ DOMAIN J = 1..Len(J) /\ \A m \in DOMAIN J : NodeOK(J[m])
  BY DEF TreeInv
<1> HIDE DEF R
<1>3. /\ K \in Seq(Inner) /\ Len(K) = nr /\ DOMAIN K = 1..nr /\ K[nr] = R
      /\ \A m \in DOMAIN J : K[m] = J[m] /\ m # nr /\ m \in DOMAIN K
  BY <1>1, <1>2
<1>4. /\ \A x \in Key : G[x][0] = nr
      /\ \A x \in Key, d \in 0..D : G[x][d + 1] = Q[x][d]
  <2>1. 0 \in 0..(D + 1) /\ \A d \in 0..D : d + 1 \in 0..(D + 1) /\ d + 1 # 0 /\ (d + 1) - 1 = d
    OBVIOUS
  <2> QED
    BY <2>1 DEF PathsGrown
<1> HIDE DEF K, G, nr
<1>5. \A d \in 0..D : d = 0 \/ (d - 1 \in 0..(D - 1) /\ d - 1 \in 0..D /\ (d - 1) + 1 = d)
  OBVIOUS
<1>6. \A x \in Key, d \in 0..(D - 1) : Q[x][d] \in DOMAIN J
  BY DEF TreeInv, Inside
<1>7. \A x \in Key, d \in 0..(D - 1) : G[x][d + 1] = Q[x][d] /\ K[Q[x][d]] = J[Q[x][d]] /\ Q[x][d] # nr
  <2>1. \A d \in 0..(D - 1) : d \in 0..D
    OBVIOUS
  <2> QED
    BY <1>3, <1>4, <1>6, <2>1
<1>8. (D + 1) - 1 = D
  OBVIOUS
<1>9. \A m \in DOMAIN K : NodeOK(K[m])
  <2>1. \A m \in DOMAIN K : m = nr \/ m \in DOMAIN J
    BY <1>2, <1>3 DEF nr
  <2> QED
    BY <1>1, <1>2, <1>3, <2>1
<1>10. ASSUME NEW x \in Key, NEW d \in 0..D PROVE G[x][d] \in DOMAIN K
  <2>1. CASE d = 0
    <3>1. nr \in DOMAIN K
      BY <1>2, <1>3 DEF nr
    <3> QED
      BY <1>4, <2>1, <3>1
  <2>2. CASE d # 0
    <3> DEFINE e == d - 1
    <3>1. e \in 0..(D - 1) /\ e + 1 = d
      BY <1>5, <2>2
    <3> HIDE DEF e
    <3>2. G[x][e + 1] \in DOMAIN K
      BY <1>3, <1>6, <1>7, <3>1
    <3> QED
      BY <3>1, <3>2
  <2> QED
    BY <2>1, <2>2
<1>11. ASSUME NEW x \in Key, NEW y \in Key, NEW d \in 0..D, NEW e \in 0..D, d # e
       PROVE  G[x][d] # G[y][e]
  <2>1. \A z \in Key, f \in 0..D : f # 0 => G[z][f] # nr
    <3> TAKE z \in Key, f \in 0..D
    <3> SUFFICES ASSUME f # 0 PROVE G[z][f] # nr
      OBVIOUS
    <3> DEFINE g == f - 1
    <3>1. g \in 0..(D - 1) /\ g + 1 = f
      BY <1>5
    <3> HIDE DEF g
    <3>2. G[z][g + 1] # nr
      BY <1>7, <3>1, SMTT(30)
    <3> QED
      BY <3>1, <3>2
  <2>2. CASE d = 0 \/ e = 0
    <3>1. G[x][0] = nr /\ G[y][0] = nr
      BY <1>4
    <3> QED
      BY <1>11, <2>1, <2>2, <3>1
  <2>3. CASE d # 0 /\ e # 0
    <3> DEFINE g == d - 1 h == e - 1
    <3>1. g \in 0..(D - 1) /\ g + 1 = d /\ h \in 0..(D - 1) /\ h + 1 = e /\ g # h
      BY <1>5, <1>11, <2>3
    <3> HIDE DEF g, h
    <3>2. Q[x][g] # Q[y][h]
      BY <3>1 DEF TreeInv, Levels
    <3>3. G[x][g + 1] # G[y][h + 1]
      BY <1>7, <3>1, <3>2
    <3> QED
      BY <3>1, <3>3
  <2> QED
    BY <2>2, <2>3
<1>12. ASSUME NEW x \in Key, NEW y \in Key, NEW d \in 0..D, G[x][d + 1] = G[y][d + 1]
       PROVE  G[x][d] = G[y][d]
  <2>1. CASE d = 0
    BY <1>4, <2>1
  <2>2. CASE d # 0
    <3> DEFINE e == d - 1
    <3>1. e \in 0..(D - 1) /\ e + 1 = d /\ d \in 1..D
      BY <1>5, <2>2
    <3>2. Q[x][d] = Q[y][d]
      BY <1>4, <1>12
    <3>3. Q[x][d - 1] = Q[y][d - 1]
      BY <3>1, <3>2 DEF TreeInv, Forks
    <3>4. Q[x][e] = Q[y][e]
      BY <3>3
    <3> HIDE DEF e
    <3>5. G[x][e + 1] = G[y][e + 1]
      BY <1>7, <3>1, <3>4
    <3> QED
      BY <3>1, <3>5
  <2> QED
    BY <2>1, <2>2
<1>13. ASSUME NEW x \in Key, NEW d \in 0..D, NEW i \in DOMAIN K[G[x][d]].keys
       PROVE  G[K[G[x][d]].keys[i]][d] = G[x][d]
  <2>1. CASE d = 0
    <3>1. K[G[x][d]] = R
      BY <1>3, <1>4, <2>1
    <3>2. R.keys[i] = up
      <4>1. DOMAIN R.keys = 1..1
        BY NewRootOK DEF R
      <4>2. i = 1
        BY <1>13, <3>1, <4>1
      <4> QED
        BY <1>1, <4>2
    <3> QED
      BY <1>4, <2>1, <3>1, <3>2
  <2>2. CASE d # 0
    <3> DEFINE e == d - 1
    <3>1. e \in 0..(D - 1) /\ e + 1 = d
      BY <1>5, <2>2
    <3> HIDE DEF e
    <3>2. K[G[x][d]] = J[Q[x][e]] /\ G[x][d] = Q[x][e]
      BY <1>7, <3>1
    <3> DEFINE z == J[Q[x][e]].keys[i]
    <3>3. Q[z][e] = Q[x][e]
      BY <1>13, <3>1, <3>2 DEF TreeInv, Homes
    <3>4. z \in Key
      <4>1. NodeOK(J[Q[x][e]]) /\ i \in DOMAIN J[Q[x][e]].keys
        BY <1>2, <1>6, <1>13, <3>1, <3>2
      <4> DEFINE m == J[Q[x][e]]
      <4>2. z = m.keys[i] /\ NodeOK(m) /\ i \in DOMAIN m.keys
        BY <4>1
      <4> HIDE DEF m, z
      <4>3. m.keys \in Seq(Key)
        BY <4>2, NodeFields
      <4> QED
        BY <4>2, <4>3
    <3>5. K[G[x][d]].keys[i] = z
      BY <3>2
    <3> HIDE DEF z
    <3>6. G[z][e + 1] = Q[z][e]
      BY <1>7, <3>1, <3>4
    <3> QED
      BY <3>1, <3>2, <3>3, <3>5, <3>6
  <2> QED
    BY <2>1, <2>2
<1>14. ASSUME NEW x \in Key, NEW d \in 0..D, Len(K[G[x][d]].keys) >= 1
       PROVE  \E y \in Key : G[y][d] = G[x][d] /\ y < K[G[x][d]].keys[1]
  <2>1. CASE d = 0
    <3>1. K[G[x][d]] = R
      BY <1>3, <1>4, <2>1
    <3> QED
      BY <1>1, <1>4, <2>1, <3>1
  <2>2. CASE d # 0
    <3> DEFINE e == d - 1
    <3>1. e \in 0..(D - 1) /\ e + 1 = d
      BY <1>5, <2>2
    <3> HIDE DEF e
    <3>2. K[G[x][d]] = J[Q[x][e]] /\ G[x][d] = Q[x][e]
      BY <1>7, <3>1
    <3>3. \E y \in Key : Q[y][e] = Q[x][e] /\ y < J[Q[x][e]].keys[1]
      BY <1>14, <3>1, <3>2 DEF TreeInv, Lows
    <3>4. PICK y \in Key : Q[y][e] = Q[x][e] /\ y < J[Q[x][e]].keys[1]
      BY <3>3
    <3>5. G[y][e + 1] = Q[y][e]
      BY <1>7, <3>1
    <3> QED
      BY <3>1, <3>2, <3>4, <3>5
  <2> QED
    BY <2>1, <2>2
<1>15. ASSUME NEW x \in Key, NEW d \in 0..D PROVE G[x][d + 1] = Route(K[G[x][d]], x)
  <2>1. CASE d = 0
    <3>1. K[G[x][d]] = R /\ G[x][d + 1] = Q[x][0]
      BY <1>3, <1>4, <2>1
    <3> QED
      BY <1>1, <3>1
  <2>2. CASE d # 0
    <3> DEFINE e == d - 1
    <3>1. e \in 0..(D - 1) /\ e + 1 = d /\ d \in 1..D
      BY <1>5, <2>2
    <3>2. Q[x][d] = Route(J[Q[x][d - 1]], x)
      BY <3>1 DEF Steps
    <3>3. Q[x][d] = Route(J[Q[x][e]], x)
      BY <3>2
    <3> HIDE DEF e
    <3>4. K[G[x][d]] = J[Q[x][e]]
      BY <1>7, <3>1
    <3> QED
      BY <1>4, <3>3, <3>4
  <2> QED
    BY <2>1, <2>2
<1>16. \A d \in 1..(D + 1) : d - 1 \in 0..D /\ (d - 1) + 1 = d
  OBVIOUS
<1>17. TreeInv(K, D + 1, G)
  <2>1. Inside(K, D + 1, G) /\ Levels(D + 1, G)
    BY <1>8, <1>10, <1>11 DEF Inside, Levels
  <2>2. Forks(D + 1, G)
    <3>1. ASSUME NEW x \in Key, NEW y \in Key, NEW d \in 1..(D + 1), G[x][d] = G[y][d]
          PROVE  G[x][d - 1] = G[y][d - 1]
      <4> DEFINE e == d - 1
      <4>1. e \in 0..D /\ e + 1 = d
        BY <1>16
      <4> HIDE DEF e
      <4>2. G[x][e] = G[y][e]
        BY <1>12, <3>1, <4>1
      <4> QED
        BY <4>2 DEF e
    <3> QED
      BY <3>1 DEF Forks
  <2>3. Homes(K, D + 1, G) /\ Lows(K, D + 1, G)
    BY <1>8, <1>13, <1>14 DEF Homes, Lows
  <2> QED
    BY <1>3, <1>9, <2>1, <2>2, <2>3 DEF TreeInv
<1>18. Steps(K, D + 1, G)
  <2>1. ASSUME NEW x \in Key, NEW d \in 1..(D + 1) PROVE G[x][d] = Route(K[G[x][d - 1]], x)
    <3> DEFINE e == d - 1
    <3>1. e \in 0..D /\ e + 1 = d
      BY <1>16
    <3> HIDE DEF e
    <3>2. G[x][e + 1] = Route(K[G[x][e]], x)
      BY <1>15, <3>1
    <3> QED
      BY <3>1, <3>2 DEF e
  <2> QED
    BY <2>1 DEF Steps
<1> QED
  BY <1>17, <1>18 DEF K, G, R, nr

-----------------------------------------------------------------------------
(* The walks of a tree are its paths. *)

\* The walks of all keys.
PathsOf(I, D, r) == [x \in Key |-> WalkOf(I, D, r, x)]

\* Functions that are paths of length D.
IsPaths(Q, D) == Q = [x \in Key |-> [d \in 0..D |-> Q[x][d]]]

\* They start at the root and follow the routes.
LEMMA PathsOfSteps ==
  ASSUME NEW I, NEW D \in Nat, NEW r
  PROVE  /\ IsPaths(PathsOf(I, D, r), D) /\ Steps(I, D, PathsOf(I, D, r))
         /\ \A x \in Key : PathsOf(I, D, r)[x] = WalkOf(I, D, r, x) /\ PathsOf(I, D, r)[x][0] = r
<1> DEFINE P == PathsOf(I, D, r)
<1>1. \A x \in Key : P[x] = WalkOf(I, D, r, x)
  BY DEF PathsOf
<1>2. ASSUME NEW x \in Key PROVE P[x] = [d \in 0..D |-> P[x][d]]
  <2> DEFINE w == WalkOf(I, D, r, x)
  <2>1. w = [d \in 0..D |-> IF d = 0 THEN r ELSE Route(I[w[d - 1]], x)]
    BY WalkExists, SMTT(30) DEF WalkOf
  <2> HIDE DEF w
  <2>2. w = [d \in 0..D |-> w[d]]
    BY <2>1
  <2> QED
    BY <1>1, <2>2 DEF w
<1>3. P = [x \in Key |-> P[x]]
  BY DEF PathsOf
<1> HIDE DEF P
<1>4. IsPaths(P, D)
  <2> DEFINE R == [x \in Key |-> [d \in 0..D |-> P[x][d]]]
  <2>1. R = [x \in Key |-> P[x]]
    BY <1>2
  <2> QED
    BY <1>3, <2>1 DEF IsPaths
<1>5. \A x \in Key : P[x][0] = r /\ \A d \in 1..D : P[x][d] = Route(I[P[x][d - 1]], x)
  BY <1>1, WalkSteps
<1>6. Steps(I, D, P)
  BY <1>5 DEF Steps
<1> QED
  BY <1>1, <1>4, <1>5, <1>6 DEF P

\* There is one way down for each key.
LEMMA OnePath ==
  ASSUME NEW I, NEW D \in Nat, NEW r, NEW Q, IsPaths(Q, D), Steps(I, D, Q),
         \A x \in Key : Q[x][0] = r
  PROVE  Q = PathsOf(I, D, r)
<1> DEFINE P == PathsOf(I, D, r)
<1>1. IsPaths(P, D) /\ Steps(I, D, P) /\ \A x \in Key : P[x][0] = r
  BY PathsOfSteps
<1> HIDE DEF P
<1>2. ASSUME NEW x \in Key PROVE \A d \in 0..D : Q[x][d] = P[x][d]
  <2> DEFINE T == {d \in 0..D : Q[x][d] # P[x][d]}
  <2> SUFFICES ASSUME T # {} PROVE FALSE
    OBVIOUS
  <2>1. PICK d \in T : \A e \in T : d <= e
    <3>1. T \in SUBSET Nat
      OBVIOUS
    <3> HIDE DEF T
    <3> QED
      BY <3>1, NatMin
  <2>2. d # 0
    BY <1>1, <2>1
  <2>3. d \in 1..D /\ d - 1 \in 0..D /\ ~(d <= d - 1)
    BY <2>1, <2>2
  <2>4. Q[x][d - 1] = P[x][d - 1]
    BY <2>1, <2>3
  <2>5. Q[x][d] = Route(I[Q[x][d - 1]], x) /\ P[x][d] = Route(I[P[x][d - 1]], x)
    BY <1>1, <2>3 DEF Steps
  <2> QED
    BY <2>1, <2>4, <2>5
<1>3. [x \in Key |-> [d \in 0..D |-> Q[x][d]]] = [x \in Key |-> [d \in 0..D |-> P[x][d]]]
  BY <1>2
<1>4. Q = P
  BY <1>1, <1>3 DEF IsPaths
<1> QED
  BY <1>4 DEF P

\* The tree after insert_core has split the leaf P[key][D] into c, from up on.
InnersAfter(a, r) == IF a.to_insert # Null THEN Append(a.inners, NewRoot(a.up_key, r, a.to_insert)) ELSE a.inners
RootAfter(a, r) == IF a.to_insert # Null THEN Len(a.inners) + 1 ELSE r
DepthAfter(a, D) == IF a.to_insert # Null THEN D + 1 ELSE D

\* The leaf is about to split: c is new, up has a smaller neighbour in the leaf.
TreeSplits(I, D, r, key, c, up) ==
  /\ D \in Nat /\ r \in Nat \ {Null} /\ TreeInv(I, D, PathsOf(I, D, r))
  /\ key \in Key /\ c \in Nat \ {Null} /\ up \in Key
  /\ \A x \in Key : PathsOf(I, D, r)[x][D] # c
  /\ PathsOf(I, D, r)[up][D] = PathsOf(I, D, r)[key][D]
  /\ \E y \in Key : PathsOf(I, D, r)[y][D] = PathsOf(I, D, r)[key][D] /\ y < up

\* With a back from the way up the nodes are a tree in which the searches for the
\* keys from up on, of the split leaf, end at c.
TreeSplit(I, D, r, key, c, up, a) ==
  LET P  == PathsOf(I, D, r)
      I2 == InnersAfter(a, r)
      r2 == RootAfter(a, r)
      D2 == DepthAfter(a, D)
      P2 == PathsOf(I2, D2, r2)
  IN /\ a.ok = TRUE /\ r2 \in Nat \ {Null} /\ D2 \in Nat
     /\ TreeInv(I2, D2, P2)
     /\ \A x \in Key : P2[x][D2] = IF P[x][D] = P[key][D] /\ x >= up THEN c ELSE P[x][D]

\* A split leaf leaves a tree.
LEMMA SplitTree ==
  ASSUME NEW I, NEW D, NEW r, NEW key, NEW c, NEW up, TreeSplits(I, D, r, key, c, up)
  PROVE  TreeSplit(I, D, r, key, c, up, AscentOf(I, D, PathsOf(I, D, r)[key], key, c, up, TRUE)[D])
<1> DEFINE P == PathsOf(I, D, r)
           s == AscentOf(I, D, P[key], key, c, up, TRUE)
           a == s[D] J == a.inners q == NewOf(s, D) u == SepOf(s, D)
           I2 == InnersAfter(a, r)
           r2 == RootAfter(a, r)
           D2 == DepthAfter(a, D)
           P2 == PathsOf(I2, D2, r2)
           Q == PathsAfter(D, P, key, q, u)
           End(x) == IF P[x][D] = P[key][D] /\ x >= up THEN c ELSE P[x][D]
<1>0. D \in Nat /\ r \in Nat \ {Null} /\ key \in Key /\ c \in Nat \ {Null} /\ up \in Key
  BY DEF TreeSplits
<1> USE <1>0
<1>1. IsPaths(P, D) /\ Steps(I, D, P) /\ \A x \in Key : P[x][0] = r
  BY PathsOfSteps
<1>2. /\ TreeInv(I, D, P) /\ \A x \in Key : P[x][D] # c
      /\ P[up][D] = P[key][D] /\ \E y \in Key : P[y][D] = P[key][D] /\ y < up
  BY DEF TreeSplits
<1> HIDE DEF P
<1>3. /\ a \in Ascent /\ a.ok = TRUE /\ a.to_insert = q[0] /\ a.up_key = u[0]
      /\ q[D] = c /\ u[D] = up
      /\ Climbed(I, J, D, P, key, q, u, 0)
  BY <1>1, <1>2, ClimbsAll
<1> HIDE DEF s, q, u
<1>4. Split(I, J, D, P, key, q, u)
  BY <1>1, <1>2, <1>3 DEF Split
<1>5. TreeInv(J, D, Q) /\ Steps(J, D, Q)
  BY <1>4, TreeAfter
<1>6. \A x \in Key, d \in 0..D :
         Q[x][d] = IF P[x][d] = P[key][d] /\ q[d] # Null /\ x >= u[d] THEN q[d] ELSE P[x][d]
  BY AfterIs DEF Turns
<1>7. IsPaths(Q, D)
  <2>1. Q = [x \in Key |-> [d \in 0..D |-> IF Turns(P, key, q, u, d, x) THEN q[d] ELSE P[x][d]]]
    BY DEF PathsAfter
  <2> HIDE DEF Q
  <2>2. Q = [x \in Key |-> [d \in 0..D |-> Q[x][d]]]
    BY <2>1
  <2> QED
    BY <2>2 DEF IsPaths
<1> HIDE DEF Q
<1>8. 0 \in 0..D /\ D \in 0..D
  OBVIOUS
<1>9. \A x \in Key : Q[x][D] = End(x)
  BY <1>3, <1>6, <1>8
<1>10. \A x \in Key : Q[x][0] = IF q[0] # Null /\ x >= u[0] THEN q[0] ELSE r
  BY <1>1, <1>6, <1>8
<1>11. /\ SeparatorOK(P, key, q, u, 0)
       /\ q[0] # Null => P[key][0] # q[0]
       /\ Len(J) \in Nat
  <2>1. /\ \A d \in 0..D : SeparatorOK(P, key, q, u, d)
        /\ \A x \in Key, d \in 0..D : q[d] # Null => P[x][d] # q[d]
        /\ Len(J) \in Nat
    BY <1>4, SplitLevel
  <2> QED
    BY <1>8, <2>1
<1> HIDE DEF a, J, End
<1>12. CASE q[0] = Null
  <2>1. I2 = J /\ r2 = r /\ D2 = D
    BY <1>3, <1>12 DEF InnersAfter, RootAfter, DepthAfter, J
  <2>2. Q = PathsOf(J, D, r)
    <3>1. \A x \in Key : Q[x][0] = r
      BY <1>10, <1>12
    <3> QED
      BY <1>5, <1>7, <3>1, OnePath
  <2>3. P2 = Q
    BY <2>1, <2>2
  <2>4. TreeInv(I2, D2, P2) /\ r2 \in Nat \ {Null} /\ D2 \in Nat /\ \A x \in Key : P2[x][D2] = End(x)
    BY <1>5, <1>9, <2>1, <2>3
  <2> QED
    BY <1>3, <2>4 DEF End, a, s, P, TreeSplit
<1>13. CASE q[0] # Null
  <2> DEFINE n == q[0] v == u[0] K == Append(J, NewRoot(v, r, n)) G == PathsGrown(D, Q, Len(J) + 1)
  <2>1. I2 = K /\ r2 = Len(J) + 1 /\ D2 = D + 1
    BY <1>3, <1>13 DEF InnersAfter, RootAfter, DepthAfter, J
  <2>2. n \in Nat \ {Null} /\ v \in Key /\ n # r /\ \E y \in Key : y < v
    BY <1>1, <1>11, <1>13 DEF SeparatorOK
  <2>3. \A x \in Key : Q[x][0] = IF x >= v THEN n ELSE r
    BY <1>10, <1>13
  <2> HIDE DEF n, v
  <2>4. TreeInv(K, D + 1, G) /\ Steps(K, D + 1, G)
    BY <1>5, <2>2, <2>3, TreeGrows
  <2>5. /\ IsPaths(G, D + 1) /\ \A x \in Key : G[x][0] = Len(J) + 1
        /\ \A x \in Key : G[x][D + 1] = Q[x][D]
    <3>1. G = [x \in Key |-> [d \in 0..(D + 1) |-> IF d = 0 THEN Len(J) + 1 ELSE Q[x][d - 1]]]
      BY DEF PathsGrown
    <3> HIDE DEF G
    <3>2. 0 \in 0..(D + 1) /\ D + 1 \in 0..(D + 1) /\ D + 1 # 0 /\ (D + 1) - 1 = D
      OBVIOUS
    <3>3. G = [x \in Key |-> [d \in 0..(D + 1) |-> G[x][d]]]
      BY <3>1
    <3> QED
      BY <3>1, <3>2, <3>3 DEF IsPaths
  <2> HIDE DEF K, G
  <2>6. G = PathsOf(K, D + 1, Len(J) + 1)
    <3> DEFINE D1 == D + 1 m == Len(J) + 1
    <3>1. D1 \in Nat
      OBVIOUS
    <3>2. IsPaths(G, D1) /\ Steps(K, D1, G) /\ \A x \in Key : G[x][0] = m
      BY <2>4, <2>5
    <3> HIDE DEF D1, m
    <3>3. G = PathsOf(K, D1, m)
      BY <3>1, <3>2, OnePath
    <3> QED
      BY <3>3 DEF D1, m
  <2>7. P2 = G
    BY <2>1, <2>6
  <2>8. Len(J) + 1 \in Nat \ {Null} /\ D + 1 \in Nat
    BY <1>11 DEF Null
  <2>9. TreeInv(I2, D2, P2) /\ r2 \in Nat \ {Null} /\ D2 \in Nat
    BY <2>1, <2>4, <2>7, <2>8
  <2>10. \A x \in Key : P2[x][D2] = End(x)
    BY <1>9, <2>1, <2>5, <2>7
  <2> HIDE DEF I2, D2, P2, r2
  <2> QED
    BY <1>3, <2>9, <2>10 DEF End, a, s, P, I2, D2, P2, r2, TreeSplit
<1> QED
  BY <1>12, <1>13

-----------------------------------------------------------------------------
(* The inductive invariant of the index, of distinct keys. *)

\* The paths, and the leaf each key leads to.
Paths == [x \in Key |-> Walk(root, x)]
HomeMap == [x \in Key |-> Walk(root, x)[depth]]

\* Of leaves L, insertions A and the leaf H[x] each key x leads to: an entry of a
\* linked leaf leads there, and was inserted, once.
LeafInv(L, A, H) ==
  \A x \in Key :
    /\ H[x] \in DOMAIN L
    /\ Unique(L[H[x]])
    /\ \A e \in Entries(L[H[x]]) : e[1] \in Key /\ H[e[1]] = H[x] /\ e[2] = ValOf(e[1]) /\ A[e[1]] = 1

\* The pre-allocated leaf p of a thread at step c is not used yet.
Spare(p, c) == p # Null /\ c # "take"

\* A thread that inserts has a spare leaf and a key nobody else inserts; spare
\* leaves are empty, outside the tree, and of one thread each.
ThreadInv(L, A, H, r, p, c, a) ==
  /\ \A t \in Threads :
       /\ c[t] # "idle" => p[t] # Null
       /\ c[t] = "core" => A[a[t]] = 1
       /\ c[t] = "core" /\ r # Null => a[t] \notin LeafKeys(L[H[a[t]]])
       /\ c[t] = "take" => r # Null
       /\ Spare(p[t], c[t]) => L[p[t]] = EmptyLeaf
       /\ Spare(p[t], c[t]) /\ r # Null => \A x \in Key : H[x] # p[t]
  /\ \A t, u \in Threads : t # u /\ Spare(p[t], c[t]) /\ Spare(p[u], c[u]) => p[t] # p[u]
  /\ \A t, u \in Threads : t # u /\ c[t] = "core" /\ c[u] = "core" => a[t] # a[u]

\* The inductive invariant: a tree, its leaves and the threads.
XInv ==
  /\ TypeOK /\ aborted # "assert"
  /\ root = Null => depth = 0 /\ inners = <<>>
  /\ root # Null => TreeInv(inners, depth, Paths)
  /\ root # Null => LeafInv(leaves, asked, HomeMap)
  /\ ThreadInv(leaves, asked, HomeMap, root, pre, pc, arg)

\* The invariant in terms of the walks as constants.
HomesOf(I, D, r) == [x \in Key |-> PathsOf(I, D, r)[x][D]]
\* Paths and homes of the state,
LEMMA PathsNow ==
  /\ Paths = PathsOf(inners, depth, root)
  /\ HomeMap = HomesOf(inners, depth, root)
  /\ \A x \in Key : Walk(root, x) = PathsOf(inners, depth, root)[x]
                    /\ Walk(root, x)[depth] = HomesOf(inners, depth, root)[x]
<1>1. \A x \in Key : Walk(root, x) = WalkOf(inners, depth, root, x)
  BY WalkIsWalkOf
<1> QED
  BY <1>1 DEF Paths, HomeMap, PathsOf, HomesOf

\* and of the next state.
LEMMA PathsNext ==
  /\ Paths' = PathsOf(inners', depth', root')
  /\ HomeMap' = HomesOf(inners', depth', root')
<1>1. \A x \in Key : Walk(root, x)' = WalkOf(inners', depth', root', x)
  BY WalkIsWalkOfNext
<1>2. Paths' = [x \in Key |-> WalkOf(inners', depth', root', x)]
  BY <1>1 DEF Paths
<1>3. HomeMap' = [x \in Key |-> WalkOf(inners', depth', root', x)[depth']]
  BY <1>1 DEF HomeMap
<1> QED
  BY <1>2, <1>3 DEF PathsOf, HomesOf

\* The invariant of the next state, from constants.
LEMMA XInvNext ==
  ASSUME TypeOK', aborted' # "assert",
         root' = Null => depth' = 0 /\ inners' = <<>>,
         root' # Null => TreeInv(inners', depth', PathsOf(inners', depth', root')),
         root' # Null => LeafInv(leaves', asked', HomesOf(inners', depth', root')),
         ThreadInv(leaves', asked', HomesOf(inners', depth', root'), root', pre', pc', arg')
  PROVE  XInv'
BY PathsNext DEF XInv

-----------------------------------------------------------------------------
(* The steps that leave the tree alone. *)

\* The empty index.
LEMMA InitInv == Init => XInv
<1> SUFFICES ASSUME Init PROVE XInv
  OBVIOUS
<1>1. 0 \in Key /\ 0 \in 0..MaxPerKey /\ Null = 0
  BY XNodeAssumption, XTreeAssumption DEF Key, Null
<1>2. leaves = <<>> /\ inners = <<>> /\ root = Null /\ depth = 0 /\ aborted = "no"
  BY DEF Init
<1>3. TypeOK
  <2>1. <<>> \in Seq(Leaf) /\ <<>> \in Seq(Inner) /\ DOMAIN <<>> = {} /\ Len(<<>>) = 0
    OBVIOUS
  <2>2. pre \in [Threads -> 0..0] /\ pc \in [Threads -> {"idle", "core", "take"}]
    BY <1>1 DEF Init
  <2>3. arg \in [Threads -> Key] /\ asked \in [Key -> 0..MaxPerKey]
    BY <1>1 DEF Init
  <2> QED
    BY <1>1, <1>2, <2>1, <2>2, <2>3 DEF TypeOK
<1>4. ThreadInv(leaves, asked, HomeMap, root, pre, pc, arg)
  BY DEF Init, ThreadInv, Spare
<1> QED
  BY <1>2, <1>3, <1>4 DEF XInv

\* What allocating a leaf does to the leaves.
LEMMA Allocates ==
  ASSUME NEW L \in Seq(Leaf)
  PROVE  /\ Append(L, EmptyLeaf) \in Seq(Leaf) /\ Len(L) \in Nat
         /\ Len(Append(L, EmptyLeaf)) = Len(L) + 1
         /\ DOMAIN L = 1..Len(L) /\ DOMAIN Append(L, EmptyLeaf) = 1..(Len(L) + 1)
         /\ Append(L, EmptyLeaf)[Len(L) + 1] = EmptyLeaf
         /\ \A i \in DOMAIN L : Append(L, EmptyLeaf)[i] = L[i]
BY EmptyLeafType

\* The fields of the invariant, for a step.
LEMMA XInvParts ==
  ASSUME XInv
  PROVE  /\ TypeOK /\ aborted # "assert"
         /\ root = Null => depth = 0 /\ inners = <<>>
         /\ root # Null => TreeInv(inners, depth, PathsOf(inners, depth, root))
         /\ root # Null => LeafInv(leaves, asked, HomesOf(inners, depth, root))
         /\ ThreadInv(leaves, asked, HomesOf(inners, depth, root), root, pre, pc, arg)
BY PathsNow DEF XInv

\* insert_w_alloc starts: the key is new, and so is the leaf, if one is allocated.
LEMMA BeginLeaves ==
  ASSUME NEW L \in Seq(Leaf), NEW L2, L2 = L \/ L2 = Append(L, EmptyLeaf),
         NEW A, NEW A2, NEW H, LeafInv(L, A, H), \A k \in Key : A[k] = 1 => A2[k] = 1
  PROVE  LeafInv(L2, A2, H)
<1>1. \A i \in DOMAIN L : i \in DOMAIN L2 /\ L2[i] = L[i]
  <2>1. CASE L2 = L
    BY <2>1
  <2>2. CASE L2 = Append(L, EmptyLeaf)
    BY <2>2, Allocates
  <2> QED
    BY <2>1, <2>2
<1> SUFFICES ASSUME NEW x \in Key
             PROVE  /\ H[x] \in DOMAIN L2 /\ Unique(L2[H[x]])
                    /\ \A e \in Entries(L2[H[x]]) :
                          e[1] \in Key /\ H[e[1]] = H[x] /\ e[2] = ValOf(e[1]) /\ A2[e[1]] = 1
  BY DEF LeafInv
<1>2. /\ H[x] \in DOMAIN L /\ Unique(L[H[x]])
      /\ \A e \in Entries(L[H[x]]) : e[1] \in Key /\ H[e[1]] = H[x] /\ e[2] = ValOf(e[1]) /\ A[e[1]] = 1
  BY DEF LeafInv
<1> QED
  BY <1>1, <1>2

\* insert_w_alloc up to the RTMScope keeps the invariant.
LEMMA BeginInv ==
  ASSUME MaxPerKey <= 1, XInv, NEW t \in Threads, NEW k \in Key, InsertBegin(t, k)
  PROVE  XInv'
<1> DEFINE H == HomesOf(inners, depth, root) n == Len(leaves)
<1>1. /\ TypeOK /\ aborted # "assert"
      /\ root = Null => depth = 0 /\ inners = <<>>
      /\ root # Null => TreeInv(inners, depth, PathsOf(inners, depth, root))
      /\ root # Null => LeafInv(leaves, asked, H)
      /\ ThreadInv(leaves, asked, H, root, pre, pc, arg)
  BY XInvParts
<1>2. /\ aborted = "no" /\ pc[t] = "idle" /\ asked[k] < MaxPerKey
      /\ asked' = [asked EXCEPT ![k] = asked[k] + 1]
      /\ arg' = [arg EXCEPT ![t] = k] /\ pc' = [pc EXCEPT ![t] = "core"]
      /\ inners' = inners /\ root' = root /\ depth' = depth /\ aborted' = aborted
  BY DEF InsertBegin
<1>3. /\ leaves \in Seq(Leaf) /\ n \in Nat /\ DOMAIN leaves = 1..n
      /\ pre \in [Threads -> 0..n] /\ pc \in [Threads -> {"idle", "core", "take"}]
      /\ arg \in [Threads -> Key] /\ asked \in [Key -> 0..MaxPerKey]
  BY <1>1 DEF TypeOK
<1>4. asked[k] = 0 /\ asked[k] + 1 = 1 /\ MaxPerKey = 1
  <2>1. asked[k] \in 0..MaxPerKey /\ MaxPerKey \in Nat
    BY <1>3, XTreeAssumption
  <2> QED
    BY <1>2, <2>1
<1>5. \/ pre[t] = Null /\ leaves' = Append(leaves, EmptyLeaf) /\ pre' = [pre EXCEPT ![t] = n + 1]
      \/ pre[t] # Null /\ leaves' = leaves /\ pre' = pre
  BY DEF InsertBegin, PreAlloc
<1>6. \A x \in Key : asked[x] = 1 => asked'[x] = 1 /\ x # k
  BY <1>2, <1>3, <1>4
<1>7. /\ leaves' \in Seq(Leaf) /\ \A i \in DOMAIN leaves : i \in DOMAIN leaves' /\ leaves'[i] = leaves[i]
      /\ pre' \in [Threads -> 0..Len(leaves')]
  <2>1. CASE pre[t] = Null
    <3>1. leaves' = Append(leaves, EmptyLeaf) /\ pre' = [pre EXCEPT ![t] = n + 1]
      BY <1>5, <2>1
    <3>2. /\ leaves' \in Seq(Leaf) /\ Len(leaves') = n + 1
          /\ \A i \in DOMAIN leaves : i \in DOMAIN leaves' /\ leaves'[i] = leaves[i]
      BY <1>3, <3>1, Allocates
    <3>3. pre' \in [Threads -> 0..(n + 1)]
      BY <1>3, <3>1
    <3> QED
      BY <3>2, <3>3
  <2>2. CASE pre[t] # Null
    BY <1>3, <1>5, <2>2
  <2> QED
    BY <2>1, <2>2
<1>8. TypeOK'
  <2>1. /\ pc' \in [Threads -> {"idle", "core", "take"}] /\ arg' \in [Threads -> Key]
    BY <1>2, <1>3
  <2>2. asked' \in [Key -> 0..MaxPerKey]
    <3>1. 1 \in 0..MaxPerKey
      BY <1>4
    <3> QED
      BY <1>2, <1>3, <1>4, <3>1
  <2> QED
    BY <1>1, <1>2, <1>7, <2>1, <2>2 DEF TypeOK
<1>9. root # Null => LeafInv(leaves', asked', H)
  <2> HIDE DEF H
  <2> SUFFICES ASSUME root # Null PROVE LeafInv(leaves', asked', H)
    OBVIOUS
  <2>1. LeafInv(leaves, asked, H)
    BY <1>1
  <2> QED
    BY <1>3, <1>5, <1>6, <2>1, BeginLeaves, ZenonT(40)
<1>10. root # Null => /\ \A x \in Key : H[x] \in DOMAIN leaves
                      /\ k \notin LeafKeys(leaves[H[k]])
  <2> HIDE DEF H
  <2> SUFFICES ASSUME root # Null
               PROVE  (\A x \in Key : H[x] \in DOMAIN leaves) /\ k \notin LeafKeys(leaves[H[k]])
    OBVIOUS
  <2>1. LeafInv(leaves, asked, H)
    BY <1>1
  <2>2. \A x \in Key : H[x] \in DOMAIN leaves
    BY <2>1 DEF LeafInv
  <2>3. leaves[H[k]] \in Leaf
    BY <1>3, <2>2
  <2>4. \A e \in Entries(leaves[H[k]]) : asked[e[1]] = 1
    BY <2>1 DEF LeafInv
  <2>5. k \notin LeafKeys(leaves[H[k]])
    <3> SUFFICES ASSUME k \in LeafKeys(leaves[H[k]]) PROVE FALSE
      OBVIOUS
    <3>1. PICK v : <<k, v>> \in Entries(leaves[H[k]])
      BY <2>3, EntryKeys
    <3>2. asked[<<k, v>>[1]] = 1
      BY <2>4, <3>1
    <3> QED
      BY <1>4, <3>2
  <2> QED
    BY <2>2, <2>5
<1>11. pre'[t] # Null /\ leaves'[pre'[t]] = EmptyLeaf
       /\ (root # Null => \A x \in Key : H[x] # pre'[t])
       /\ \A v \in Threads : v # t /\ Spare(pre[v], pc[v]) => pre[v] # pre'[t]
  <2> HIDE DEF H
  <2>1. CASE pre[t] = Null
    <3>1. leaves' = Append(leaves, EmptyLeaf) /\ pre'[t] = n + 1
      BY <1>3, <1>5, <2>1
    <3>2. leaves'[n + 1] = EmptyLeaf
      BY <1>3, <3>1, Allocates
    <3>3. \A i \in 0..n : i # n + 1
      BY <1>3
    <3>4. n + 1 # Null
      BY <1>3 DEF Null
    <3>5. root # Null => \A x \in Key : H[x] \in 0..n
      BY <1>3, <1>10
    <3>6. \A v \in Threads : pre[v] \in 0..n
      BY <1>3
    <3> QED
      BY <3>1, <3>2, <3>3, <3>4, <3>5, <3>6
  <2>2. CASE pre[t] # Null
    <3>1. leaves' = leaves /\ pre' = pre /\ Spare(pre[t], pc[t])
      BY <1>2, <1>5, <2>2 DEF Spare
    <3>2. /\ leaves[pre[t]] = EmptyLeaf
          /\ root # Null => \A x \in Key : H[x] # pre[t]
          /\ \A v \in Threads : v # t /\ Spare(pre[v], pc[v]) => pre[v] # pre[t]
      BY <1>1, <3>1 DEF ThreadInv
    <3> QED
      BY <2>2, <3>1, <3>2
  <2> QED
    BY <2>1, <2>2
<1> HIDE DEF H
<1>12. \A v \in Threads : v # t => pre'[v] = pre[v] /\ pc'[v] = pc[v] /\ arg'[v] = arg[v]
  BY <1>2, <1>3, <1>5
<1>13. pc'[t] = "core" /\ arg'[t] = k /\ asked'[k] = 1
  BY <1>2, <1>3, <1>4
<1>14. \A v \in Threads : v # t /\ pc[v] = "core" => arg[v] # k /\ asked'[arg[v]] = 1
  BY <1>1, <1>3, <1>6 DEF ThreadInv
<1>15. \A v \in Threads : pre[v] # Null => pre[v] \in DOMAIN leaves
  <2>1. \A i \in 0..n : i # Null => i \in 1..n
    BY <1>3 DEF Null
  <2> QED
    BY <1>3, <2>1
<1>16. ThreadInv(leaves', asked', H, root, pre', pc', arg')
  <2>1. ASSUME NEW v \in Threads
        PROVE  /\ pc'[v] # "idle" => pre'[v] # Null
               /\ pc'[v] = "core" => asked'[arg'[v]] = 1
               /\ pc'[v] = "core" /\ root # Null => arg'[v] \notin LeafKeys(leaves'[H[arg'[v]]])
               /\ pc'[v] = "take" => root # Null
               /\ Spare(pre'[v], pc'[v]) => leaves'[pre'[v]] = EmptyLeaf
               /\ Spare(pre'[v], pc'[v]) /\ root # Null => \A x \in Key : H[x] # pre'[v]
    <3>1. CASE v = t
      BY <1>7, <1>10, <1>11, <1>13, <3>1
    <3>2. CASE v # t
      <4>1. /\ pc[v] # "idle" => pre[v] # Null
            /\ pc[v] = "core" /\ root # Null => arg[v] \notin LeafKeys(leaves[H[arg[v]]])
            /\ pc[v] = "take" => root # Null
            /\ Spare(pre[v], pc[v]) => leaves[pre[v]] = EmptyLeaf
            /\ Spare(pre[v], pc[v]) /\ root # Null => \A x \in Key : H[x] # pre[v]
        BY <1>1 DEF ThreadInv
      <4>2. root # Null => leaves'[H[arg[v]]] = leaves[H[arg[v]]]
        BY <1>3, <1>7, <1>10
      <4>3. Spare(pre[v], pc[v]) => leaves'[pre[v]] = leaves[pre[v]]
        BY <1>7, <1>15 DEF Spare
      <4> QED
        BY <1>12, <1>14, <3>2, <4>1, <4>2, <4>3
    <3> QED
      BY <3>1, <3>2
  <2>2. ASSUME NEW v \in Threads, NEW w \in Threads, v # w, Spare(pre'[v], pc'[v]), Spare(pre'[w], pc'[w])
        PROVE  pre'[v] # pre'[w]
    <3>1. CASE v = t
      BY <1>11, <1>12, <2>2, <3>1
    <3>2. CASE w = t
      BY <1>11, <1>12, <2>2, <3>2
    <3>3. CASE v # t /\ w # t
      BY <1>1, <1>12, <2>2, <3>3 DEF ThreadInv
    <3> QED
      BY <3>1, <3>2, <3>3
  <2>3. ASSUME NEW v \in Threads, NEW w \in Threads, v # w, pc'[v] = "core", pc'[w] = "core"
        PROVE  arg'[v] # arg'[w]
    <3>1. CASE v = t
      BY <1>12, <1>13, <1>14, <2>3, <3>1
    <3>2. CASE w = t
      BY <1>12, <1>13, <1>14, <2>3, <3>2
    <3>3. CASE v # t /\ w # t
      BY <1>1, <1>12, <2>3, <3>3 DEF ThreadInv
    <3> QED
      BY <3>1, <3>2, <3>3
  <2> QED
    BY <2>1, <2>2, <2>3 DEF ThreadInv
<1>17. /\ aborted' # "assert"
       /\ root' = Null => depth' = 0 /\ inners' = <<>>
       /\ root' # Null => TreeInv(inners', depth', PathsOf(inners', depth', root'))
       /\ root' # Null => LeafInv(leaves', asked', HomesOf(inners', depth', root'))
       /\ ThreadInv(leaves', asked', HomesOf(inners', depth', root'), root', pre', pc', arg')
  BY <1>1, <1>2, <1>9, <1>16 DEF H
<1> QED
  BY <1>8, <1>17, XInvNext

\* take_pre_alloced_leaf: the thread has a spare leaf again.
LEMMA TakeInv ==
  ASSUME XInv, NEW t \in Threads, TakePreAlloced(t)
  PROVE  XInv'
<1> DEFINE H == HomesOf(inners, depth, root) n == Len(leaves)
<1>1. /\ TypeOK /\ aborted # "assert"
      /\ root = Null => depth = 0 /\ inners = <<>>
      /\ root # Null => TreeInv(inners, depth, PathsOf(inners, depth, root))
      /\ root # Null => LeafInv(leaves, asked, H)
      /\ ThreadInv(leaves, asked, H, root, pre, pc, arg)
  BY XInvParts
<1>2. /\ pc[t] = "take" /\ pc' = [pc EXCEPT ![t] = "idle"]
      /\ leaves' = Append(leaves, EmptyLeaf) /\ pre' = [pre EXCEPT ![t] = n + 1]
      /\ inners' = inners /\ root' = root /\ depth' = depth /\ arg' = arg /\ asked' = asked
      /\ aborted' = aborted
  BY DEF TakePreAlloced, PreAlloc
<1>3. /\ leaves \in Seq(Leaf) /\ n \in Nat /\ DOMAIN leaves = 1..n
      /\ pre \in [Threads -> 0..n] /\ pc \in [Threads -> {"idle", "core", "take"}]
      /\ arg \in [Threads -> Key] /\ asked \in [Key -> 0..MaxPerKey]
  BY <1>1 DEF TypeOK
<1>4. /\ leaves' \in Seq(Leaf) /\ Len(leaves') = n + 1 /\ leaves'[n + 1] = EmptyLeaf
      /\ \A i \in DOMAIN leaves : i \in DOMAIN leaves' /\ leaves'[i] = leaves[i]
  BY <1>2, <1>3, Allocates
<1>5. TypeOK'
  <2>1. pre' \in [Threads -> 0..(n + 1)] /\ pc' \in [Threads -> {"idle", "core", "take"}]
    BY <1>2, <1>3
  <2> QED
    BY <1>1, <1>2, <1>4, <2>1 DEF TypeOK
<1> HIDE DEF H
<1>6. root # Null => LeafInv(leaves', asked', H)
  <2> SUFFICES ASSUME root # Null PROVE LeafInv(leaves', asked', H)
    OBVIOUS
  <2>1. LeafInv(leaves, asked, H)
    BY <1>1
  <2> QED
    BY <1>2, <1>3, <2>1, BeginLeaves
<1>7. root # Null /\ \A x \in Key : H[x] \in DOMAIN leaves
  BY <1>1, <1>2 DEF ThreadInv, LeafInv
<1>8. \A v \in Threads : pre[v] # Null => pre[v] \in DOMAIN leaves
  <2>1. \A i \in 0..n : i # Null => i \in 1..n
    BY <1>3 DEF Null
  <2> QED
    BY <1>3, <2>1
<1>9. /\ pre'[t] = n + 1 /\ pc'[t] = "idle"
      /\ \A v \in Threads : v # t => pre'[v] = pre[v] /\ pc'[v] = pc[v]
  BY <1>2, <1>3
<1>10. /\ n + 1 # Null /\ \A x \in Key : H[x] # n + 1
       /\ \A v \in Threads : pre[v] # n + 1
  <2>1. \A i \in 0..n : i # n + 1
    BY <1>3
  <2>2. n + 1 # Null /\ 1..n \subseteq 0..n
    BY <1>3 DEF Null
  <2> QED
    BY <1>3, <1>7, <2>1, <2>2
<1>11. ThreadInv(leaves', asked', H, root, pre', pc', arg')
  <2>1. ASSUME NEW v \in Threads
        PROVE  /\ pc'[v] # "idle" => pre'[v] # Null
               /\ pc'[v] = "core" => asked'[arg'[v]] = 1
               /\ pc'[v] = "core" /\ root # Null => arg'[v] \notin LeafKeys(leaves'[H[arg'[v]]])
               /\ pc'[v] = "take" => root # Null
               /\ Spare(pre'[v], pc'[v]) => leaves'[pre'[v]] = EmptyLeaf
               /\ Spare(pre'[v], pc'[v]) /\ root # Null => \A x \in Key : H[x] # pre'[v]
    <3>1. CASE v = t
      BY <1>4, <1>9, <1>10, <3>1
    <3>2. CASE v # t
      <4>1. /\ pc[v] # "idle" => pre[v] # Null
            /\ pc[v] = "core" => asked[arg[v]] = 1
            /\ pc[v] = "core" /\ root # Null => arg[v] \notin LeafKeys(leaves[H[arg[v]]])
            /\ Spare(pre[v], pc[v]) => leaves[pre[v]] = EmptyLeaf
            /\ Spare(pre[v], pc[v]) /\ root # Null => \A x \in Key : H[x] # pre[v]
        BY <1>1 DEF ThreadInv
      <4>2. leaves'[H[arg[v]]] = leaves[H[arg[v]]]
        BY <1>3, <1>4, <1>7
      <4>3. Spare(pre[v], pc[v]) => leaves'[pre[v]] = leaves[pre[v]]
        BY <1>4, <1>8 DEF Spare
      <4> QED
        BY <1>2, <1>7, <1>9, <3>2, <4>1, <4>2, <4>3
    <3> QED
      BY <3>1, <3>2
  <2>2. ASSUME NEW v \in Threads, NEW w \in Threads, v # w, Spare(pre'[v], pc'[v]), Spare(pre'[w], pc'[w])
        PROVE  pre'[v] # pre'[w]
    <3>1. CASE v = t \/ w = t
      BY <1>9, <1>10, <2>2, <3>1
    <3>2. CASE v # t /\ w # t
      BY <1>1, <1>9, <2>2, <3>2 DEF ThreadInv
    <3> QED
      BY <3>1, <3>2
  <2>3. ASSUME NEW v \in Threads, NEW w \in Threads, v # w, pc'[v] = "core", pc'[w] = "core"
        PROVE  arg'[v] # arg'[w]
    <3>1. v # t /\ w # t
      BY <1>9, <2>3
    <3> QED
      BY <1>1, <1>2, <1>9, <2>3, <3>1 DEF ThreadInv
  <2> QED
    BY <2>1, <2>2, <2>3 DEF ThreadInv
<1>12. /\ aborted' # "assert"
       /\ root' = Null => depth' = 0 /\ inners' = <<>>
       /\ root' # Null => TreeInv(inners', depth', PathsOf(inners', depth', root'))
       /\ root' # Null => LeafInv(leaves', asked', HomesOf(inners', depth', root'))
       /\ ThreadInv(leaves', asked', HomesOf(inners', depth', root'), root', pre', pc', arg')
  BY <1>1, <1>2, <1>6, <1>11 DEF H
<1> QED
  BY <1>5, <1>12, XInvNext

\* An exhausted slab ends the process and changes nothing.
LEMMA FailInv ==
  ASSUME XInv, NEW t \in Threads, AllocFails(t)
  PROVE  XInv'
<1>1. aborted' = "alloc" /\ UNCHANGED <<leaves, inners, root, depth, pre, pc, arg, asked>>
  BY DEF AllocFails, tree
<1>2. /\ TypeOK
      /\ root = Null => depth = 0 /\ inners = <<>>
      /\ root # Null => TreeInv(inners, depth, PathsOf(inners, depth, root))
      /\ root # Null => LeafInv(leaves, asked, HomesOf(inners, depth, root))
      /\ ThreadInv(leaves, asked, HomesOf(inners, depth, root), root, pre, pc, arg)
  BY XInvParts
<1>3. TypeOK'
  BY <1>1, <1>2 DEF TypeOK
<1> QED
  BY <1>1, <1>2, <1>3, XInvNext

\* So does a stuttering step.
LEMMA StutterInv ==
  ASSUME XInv, UNCHANGED vars
  PROVE  XInv'
<1>1. UNCHANGED <<leaves, inners, root, depth, pre, pc, arg, asked, aborted>>
  BY DEF vars, tree
<1>2. /\ TypeOK /\ aborted # "assert"
      /\ root = Null => depth = 0 /\ inners = <<>>
      /\ root # Null => TreeInv(inners, depth, PathsOf(inners, depth, root))
      /\ root # Null => LeafInv(leaves, asked, HomesOf(inners, depth, root))
      /\ ThreadInv(leaves, asked, HomesOf(inners, depth, root), root, pre, pc, arg)
  BY XInvParts
<1>3. TypeOK'
  BY <1>1, <1>2 DEF TypeOK
<1> QED
  BY <1>1, <1>2, <1>3, XInvNext

-----------------------------------------------------------------------------
(* insert_core into a leaf with a free slot. *)

\* The leaf takes the entry, and the entry leads to it.
LEMMA PutInv ==
  ASSUME NEW L \in Seq(Leaf), NEW A, NEW H, LeafInv(L, A, H),
         NEW k \in Key, A[k] = 1, Free(L[H[k]]) # {}, k \notin LeafKeys(L[H[k]])
  PROVE  LET L2 == [L EXCEPT ![H[k]] = Add(L[H[k]], k, ValOf(k))] IN
         /\ L2 \in Seq(Leaf) /\ Len(L2) = Len(L) /\ DOMAIN L2 = DOMAIN L
         /\ \A i \in DOMAIN L : i # H[k] => L2[i] = L[i]
         /\ LeafInv(L2, A, H)
         /\ \A y \in Key : y \in LeafKeys(L2[H[y]]) <=> y = k \/ y \in LeafKeys(L[H[y]])
         /\ \A i \in DOMAIN L : LeafKeys(L[i]) \subseteq LeafKeys(L2[i])
<1> DEFINE h == H[k] l == L[h] a == Add(l, k, ValOf(k)) L2 == [L EXCEPT ![h] = a]
<1>1. h \in DOMAIN L /\ Unique(l) /\ \A x \in Key : H[x] \in DOMAIN L
  BY DEF LeafInv
<1>2. l \in Leaf /\ DOMAIN L = 1..Len(L)
  BY <1>1
<1>3. ValOf(k) \in Nat
  BY XNodeAssumption DEF ValOf, Key
<1>4. /\ a \in Leaf /\ Entries(a) = Entries(l) \cup {<<k, ValOf(k)>>} /\ Unique(a)
  <2> DEFINE v == ValOf(k)
  <2>1. v \in Nat /\ l \in Leaf /\ Free(l) # {} /\ k \notin LeafKeys(l) /\ Unique(l)
    BY <1>1, <1>2, <1>3
  <2> HIDE DEF v, l
  <2>2. /\ Add(l, k, v) \in Leaf
        /\ Entries(Add(l, k, v)) = Entries(l) \cup {<<k, v>>}
        /\ k \notin LeafKeys(l) /\ Unique(l) => Unique(Add(l, k, v))
    BY <2>1, AddEntry
  <2> QED
    BY <2>1, <2>2 DEF v, l
<1> HIDE DEF a
<1>5. L2 \in Seq(Leaf) /\ Len(L2) = Len(L) /\ DOMAIN L2 = DOMAIN L
  <2>1. h \in 1..Len(L)
    BY <1>1, <1>2
  <2> HIDE DEF h
  <2>2. /\ [L EXCEPT ![h] = a] \in Seq(Leaf)
        /\ Len([L EXCEPT ![h] = a]) = Len(L)
    BY <1>4, <2>1, ExceptSeq
  <2> QED
    BY <2>2
<1>6. L2[h] = a /\ \A i \in DOMAIN L : i # h => L2[i] = L[i]
  BY <1>1
<1> HIDE DEF L2
<1>7. LeafInv(L2, A, H)
  <2>1. ASSUME NEW x \in Key
        PROVE  /\ H[x] \in DOMAIN L2 /\ Unique(L2[H[x]])
               /\ \A e \in Entries(L2[H[x]]) :
                     e[1] \in Key /\ H[e[1]] = H[x] /\ e[2] = ValOf(e[1]) /\ A[e[1]] = 1
    <3>1. /\ H[x] \in DOMAIN L /\ Unique(L[H[x]])
          /\ \A e \in Entries(L[H[x]]) : e[1] \in Key /\ H[e[1]] = H[x] /\ e[2] = ValOf(e[1]) /\ A[e[1]] = 1
      BY DEF LeafInv
    <3>2. CASE H[x] # h
      BY <1>5, <1>6, <3>1, <3>2
    <3>3. CASE H[x] = h
      <4>1. \A e \in Entries(a) : e \in Entries(L[H[x]]) \/ e = <<k, ValOf(k)>>
        BY <1>4, <3>3
      <4>2. \A e \in Entries(a) : e[1] \in Key /\ H[e[1]] = H[x] /\ e[2] = ValOf(e[1]) /\ A[e[1]] = 1
        <5> TAKE e \in Entries(a)
        <5>1. CASE e \in Entries(L[H[x]])
          BY <3>1, <5>1
        <5>2. CASE e = <<k, ValOf(k)>>
          <6>1. e[1] = k /\ e[2] = ValOf(k)
            BY <5>2
          <6> QED
            BY <3>3, <6>1
        <5> QED
          BY <4>1, <5>1, <5>2
      <4> QED
        BY <1>4, <1>5, <1>6, <3>1, <3>3, <4>2
    <3> QED
      BY <3>2, <3>3
  <2> QED
    BY <2>1 DEF LeafInv
<1>8. \A y : y \in LeafKeys(a) <=> y = k \/ y \in LeafKeys(l)
  <2>1. /\ \A y : y \in LeafKeys(a) <=> \E v : <<y, v>> \in Entries(a)
        /\ \A y : y \in LeafKeys(l) <=> \E v : <<y, v>> \in Entries(l)
    BY <1>2, <1>4, EntryKeys
  <2>2. \A y, v : <<y, v>> \in Entries(a) <=> <<y, v>> \in Entries(l) \/ <<y, v>> = <<k, ValOf(k)>>
    BY <1>4
  <2>3. \A y, v : <<y, v>> = <<k, ValOf(k)>> <=> y = k /\ v = ValOf(k)
    OBVIOUS
  <2> QED
    BY <2>1, <2>2, <2>3
<1>9. \A y \in Key : y \in LeafKeys(L2[H[y]]) <=> y = k \/ y \in LeafKeys(L[H[y]])
  <2> TAKE y \in Key
  <2>1. CASE H[y] = h
    BY <1>6, <1>8, <2>1
  <2>2. CASE H[y] # h
    BY <1>1, <1>6, <2>2
  <2> QED
    BY <2>1, <2>2
<1>10. \A i \in DOMAIN L : LeafKeys(L[i]) \subseteq LeafKeys(L2[i])
  BY <1>6, <1>8
<1> QED
  BY <1>5, <1>6, <1>7, <1>9, <1>10 DEF L2, a

\* The keys a search finds.
HeldOf(L, H, r) == {x \in Key : r # Null /\ x \in LeafKeys(L[H[x]])}

\* Key k is put into the leaf it leads to; in an empty tree that is leaf c.
Placed(L, L2, H, G, r, k, c) ==
  /\ \A x \in Key : G[x] = IF r = Null THEN c ELSE H[x]
  /\ Free(L[G[k]]) # {} /\ L2 = [L EXCEPT ![G[k]] = Add(L[G[k]], k, ValOf(k))]

\* insert_core in place keeps the invariant, and adds its key to those found.
LEMMA PlaceInv ==
  ASSUME XInv, NEW t \in Threads, InsertInPlace(t)
  PROVE  /\ XInv'
         /\ arg[t] \in Key \ HeldOf(leaves, HomesOf(inners, depth, root), root)
         /\ HeldOf(leaves', HomesOf(inners', depth', root'), root') =
              HeldOf(leaves, HomesOf(inners, depth, root), root) \cup {arg[t]}
         /\ \A i \in DOMAIN leaves : LeafKeys(leaves[i]) \subseteq LeafKeys(leaves'[i])
         /\ Placed(leaves, leaves', HomesOf(inners, depth, root), HomesOf(inners', depth', root'),
                   root, arg[t], pre[t])
<1> DEFINE k == arg[t] r == IF root = Null THEN pre[t] ELSE root
           H == HomesOf(inners, depth, root) G == HomesOf(inners, depth, r)
           h == G[k] L2 == [leaves EXCEPT ![h] = Add(leaves[h], k, ValOf(k))]
<1>1. /\ TypeOK /\ aborted # "assert"
      /\ root = Null => depth = 0 /\ inners = <<>>
      /\ root # Null => TreeInv(inners, depth, PathsOf(inners, depth, root))
      /\ root # Null => LeafInv(leaves, asked, H)
      /\ ThreadInv(leaves, asked, H, root, pre, pc, arg)
  BY XInvParts
<1>2. /\ leaves \in Seq(Leaf) /\ DOMAIN leaves = 1..Len(leaves) /\ Len(leaves) \in Nat
      /\ pre \in [Threads -> 0..Len(leaves)] /\ pc \in [Threads -> {"idle", "core", "take"}]
      /\ arg \in [Threads -> Key] /\ asked \in [Key -> 0..MaxPerKey]
      /\ root \in Nat /\ depth \in Nat
  BY <1>1 DEF TypeOK
<1>3. k \in Key
  BY <1>2
<1>4. h = Walk(r, k)[depth] /\ \A x \in Key : G[x] = PathsOf(inners, depth, r)[x][depth]
  BY <1>3, WalkIsWalkOf DEF HomesOf, PathsOf
<1>5. /\ pc[t] = "core" /\ Free(leaves[h]) # {} /\ leaves' = L2 /\ root' = r
      /\ pc' = [pc EXCEPT ![t] = IF root = Null THEN "take" ELSE "idle"]
      /\ inners' = inners /\ depth' = depth /\ pre' = pre /\ arg' = arg /\ asked' = asked
      /\ aborted' = aborted
  BY <1>4 DEF InsertInPlace
<1>6. pre[t] # Null /\ Spare(pre[t], pc[t]) /\ asked[k] = 1
  BY <1>1, <1>5 DEF ThreadInv, Spare
<1>7. \A v \in Threads : pre[v] # Null => pre[v] \in DOMAIN leaves
  <2>1. \A i \in 0..Len(leaves) : i # Null => i \in 1..Len(leaves)
    BY <1>2 DEF Null
  <2> QED
    BY <1>2, <2>1
<1>8. /\ LeafInv(leaves, asked, G)
      /\ TreeInv(inners, depth, PathsOf(inners, depth, r)) /\ r # Null /\ r \in Nat
      /\ \A v \in Threads : pc[v] = "core" => arg[v] \notin LeafKeys(leaves[G[arg[v]]])
      /\ \A v \in Threads : v # t /\ Spare(pre[v], pc[v]) => \A x \in Key : G[x] # pre[v]
      /\ root # Null => \A x \in Key : G[x] # pre[t]
      /\ \A y \in Key : y \in LeafKeys(leaves[G[y]]) <=> y \in HeldOf(leaves, H, root)
  <2>1. CASE root # Null
    <3>1. r = root /\ G = H
      BY <2>1
    <3> HIDE DEF r, G, H
    <3>2. \A v \in Threads : Spare(pre[v], pc[v]) => \A x \in Key : H[x] # pre[v]
      BY <1>1, <2>1 DEF ThreadInv
    <3>3. \A v \in Threads : pc[v] = "core" => arg[v] \notin LeafKeys(leaves[H[arg[v]]])
      BY <1>1, <2>1 DEF ThreadInv
    <3> QED
      BY <1>1, <1>2, <1>6, <2>1, <3>1, <3>2, <3>3 DEF HeldOf
  <2>2. CASE root = Null
    <3>1. r = pre[t] /\ depth = 0 /\ inners = <<>> /\ leaves[r] = EmptyLeaf /\ r \in DOMAIN leaves /\ r # Null
      BY <1>1, <1>6, <1>7, <2>2 DEF ThreadInv
    <3> DEFINE P == PathsOf(inners, depth, r)
    <3>2. \A x \in Key : P[x][0] = r
      BY <1>2, PathsOfSteps
    <3>3. \A x \in Key : G[x] = r
      BY <1>4, <3>1, <3>2
    <3> HIDE DEF G, P, r
    <3>4. LeafInv(leaves, asked, G)
      BY <3>1, <3>3, EmptyEntries DEF LeafInv
    <3>5. TreeInv(inners, depth, P)
      <4>1. inners \in Seq(Inner) /\ DOMAIN inners = {} /\ \A d \in 0..(depth - 1) : FALSE
        BY <3>1
      <4>2. \A d \in 1..depth : FALSE
        BY <3>1
      <4> QED
        BY <4>1, <4>2 DEF TreeInv, Inside, Levels, Forks, Homes, Lows
    <3>6. /\ \A y \in Key : y \notin LeafKeys(leaves[G[y]])
          /\ \A v \in Threads : arg[v] \notin LeafKeys(leaves[G[arg[v]]])
      BY <1>2, <3>1, <3>3, EmptyEntries
    <3>7. \A v \in Threads : v # t /\ Spare(pre[v], pc[v]) => pre[v] # r
      BY <1>1, <1>6, <3>1 DEF ThreadInv
    <3>8. r \in Nat
      BY <1>2, <3>1
    <3> QED
      BY <2>2, <3>1, <3>3, <3>4, <3>5, <3>6, <3>7, <3>8 DEF P, HeldOf
  <2> QED
    BY <2>1, <2>2
<1>18. \A x \in Key : G[x] = IF root = Null THEN pre[t] ELSE H[x]
  <2>1. CASE root # Null
    BY <2>1
  <2>2. CASE root = Null
    <3>1. r = pre[t] /\ depth = 0
      BY <1>1, <2>2
    <3> HIDE DEF r
    <3>2. \A x \in Key : PathsOf(inners, depth, r)[x][0] = r
      BY <1>2, PathsOfSteps
    <3> QED
      BY <1>4, <2>2, <3>1, <3>2
  <2> QED
    BY <2>1, <2>2
<1> HIDE DEF G, H, r
<1>9. k \notin LeafKeys(leaves[h])
  BY <1>5, <1>8
<1>10. /\ L2 \in Seq(Leaf) /\ Len(L2) = Len(leaves) /\ DOMAIN L2 = DOMAIN leaves
       /\ \A i \in DOMAIN leaves : i # h => L2[i] = leaves[i]
       /\ LeafInv(L2, asked, G)
       /\ \A y \in Key : y \in LeafKeys(L2[G[y]]) <=> y = k \/ y \in LeafKeys(leaves[G[y]])
       /\ \A i \in DOMAIN leaves : LeafKeys(leaves[i]) \subseteq LeafKeys(L2[i])
  <2> HIDE DEF k
  <2> QED
    BY <1>2, <1>3, <1>5, <1>6, <1>8, <1>9, PutInv, ZenonT(40)
<1> HIDE DEF L2
<1>11. TypeOK'
  <2>1. pc' \in [Threads -> {"idle", "core", "take"}]
    BY <1>2, <1>5
  <2> QED
    BY <1>1, <1>5, <1>8, <1>10, <2>1 DEF TypeOK
<1>12. /\ pc'[t] = (IF root = Null THEN "take" ELSE "idle")
       /\ \A v \in Threads : v # t => pc'[v] = pc[v]
  BY <1>2, <1>5
<1>13. ThreadInv(leaves', asked', G, r, pre', pc', arg')
  <2>1. ASSUME NEW v \in Threads
        PROVE  /\ pc'[v] # "idle" => pre'[v] # Null
               /\ pc'[v] = "core" => asked'[arg'[v]] = 1
               /\ pc'[v] = "core" /\ r # Null => arg'[v] \notin LeafKeys(leaves'[G[arg'[v]]])
               /\ pc'[v] = "take" => r # Null
               /\ Spare(pre'[v], pc'[v]) => leaves'[pre'[v]] = EmptyLeaf
               /\ Spare(pre'[v], pc'[v]) /\ r # Null => \A x \in Key : G[x] # pre'[v]
    <3>1. CASE v = t
      <4>1. pc'[t] # "core"
        BY <1>12
      <4>2. Spare(pre[t], pc'[t]) => root # Null
        BY <1>12 DEF Spare
      <4>3. root # Null => leaves'[pre[t]] = EmptyLeaf /\ \A x \in Key : G[x] # pre[t]
        <5> SUFFICES ASSUME root # Null
                     PROVE  leaves'[pre[t]] = EmptyLeaf /\ \A x \in Key : G[x] # pre[t]
          OBVIOUS
        <5>1. \A x \in Key : G[x] # pre[t]
          BY <1>8
        <5>2. leaves[pre[t]] = EmptyLeaf
          BY <1>1, <1>6 DEF ThreadInv
        <5>3. pre[t] # h /\ pre[t] \in DOMAIN leaves
          BY <1>3, <1>6, <1>7, <5>1
        <5> QED
          BY <1>5, <1>10, <5>1, <5>2, <5>3
      <4> QED
        BY <1>5, <1>6, <1>8, <3>1, <4>1, <4>2, <4>3
    <3>2. CASE v # t
      <4>1. /\ pc[v] # "idle" => pre[v] # Null
            /\ pc[v] = "core" => asked[arg[v]] = 1
            /\ Spare(pre[v], pc[v]) => leaves[pre[v]] = EmptyLeaf
            /\ pc[v] = "core" => arg[v] # k
        BY <1>1, <1>5, <3>2 DEF ThreadInv
      <4>2. pc[v] = "core" => arg[v] \notin LeafKeys(L2[G[arg[v]]])
        <5>1. arg[v] \in Key
          BY <1>2
        <5> HIDE DEF k
        <5> QED
          BY <1>8, <1>10, <4>1, <5>1
      <4>3. Spare(pre[v], pc[v]) => (\A x \in Key : G[x] # pre[v]) /\ L2[pre[v]] = EmptyLeaf
        <5> SUFFICES ASSUME Spare(pre[v], pc[v])
                     PROVE  (\A x \in Key : G[x] # pre[v]) /\ L2[pre[v]] = EmptyLeaf
          OBVIOUS
        <5>1. \A x \in Key : G[x] # pre[v]
          BY <1>8, <3>2
        <5>2. pre[v] # h /\ pre[v] \in DOMAIN leaves
          BY <1>3, <1>7, <5>1 DEF Spare
        <5> QED
          BY <1>10, <4>1, <5>1, <5>2
      <4> QED
        BY <1>5, <1>8, <1>12, <3>2, <4>1, <4>2, <4>3
    <3> QED
      BY <3>1, <3>2
  <2>2. ASSUME NEW v \in Threads, NEW w \in Threads, v # w, Spare(pre'[v], pc'[v]), Spare(pre'[w], pc'[w])
        PROVE  pre'[v] # pre'[w]
    <3>1. Spare(pre[v], pc[v]) /\ Spare(pre[w], pc[w])
      BY <1>5, <1>6, <1>12, <2>2
    <3> QED
      BY <1>1, <1>5, <2>2, <3>1 DEF ThreadInv
  <2>3. ASSUME NEW v \in Threads, NEW w \in Threads, v # w, pc'[v] = "core", pc'[w] = "core"
        PROVE  arg'[v] # arg'[w]
    <3>1. pc[v] = "core" /\ pc[w] = "core"
      BY <1>12, <2>3
    <3> QED
      BY <1>1, <1>5, <2>3, <3>1 DEF ThreadInv
  <2> QED
    BY <2>1, <2>2, <2>3 DEF ThreadInv
<1>14. /\ aborted' # "assert"
       /\ root' = Null => depth' = 0 /\ inners' = <<>>
       /\ root' # Null => TreeInv(inners', depth', PathsOf(inners', depth', root'))
       /\ root' # Null => LeafInv(leaves', asked', HomesOf(inners', depth', root'))
       /\ ThreadInv(leaves', asked', HomesOf(inners', depth', root'), root', pre', pc', arg')
  BY <1>1, <1>5, <1>8, <1>10, <1>13 DEF G
<1>15. XInv'
  BY <1>11, <1>14, XInvNext
<1>16. k \in Key \ HeldOf(leaves, H, root)
  BY <1>3, <1>5, <1>8
<1>17. HeldOf(leaves', G, r) = HeldOf(leaves, H, root) \cup {k}
  <2> DEFINE X == HeldOf(leaves', G, r) Y == HeldOf(leaves, H, root) \cup {k}
  <2>1. \A y \in Key : y \in X <=> y \in Y
    BY <1>5, <1>8, <1>10 DEF HeldOf
  <2>2. X \subseteq Key /\ Y \subseteq Key
    BY <1>3 DEF HeldOf
  <2> HIDE DEF X, Y
  <2>3. X = Y
    BY <2>1, <2>2
  <2> QED
    BY <2>3 DEF X, Y
<1>19. Placed(leaves, leaves', H, G, root, k, pre[t])
  BY <1>5, <1>18 DEF Placed, L2
<1> QED
  BY <1>5, <1>10, <1>15, <1>16, <1>17, <1>19 DEF G, H

-----------------------------------------------------------------------------
(* insert_core into a full leaf. *)

\* The leaves the keys lead to after leaf h gave those from pivot on to leaf c.
HomesSplit(H, h, pivot, c) == [x \in Key |-> IF H[x] = h /\ x >= pivot THEN c ELSE H[x]]

\* Key k is to be inserted, the leaf it leads to is full, and c is a spare leaf.
SplitReady(L, A, H, k, m, c) ==
  /\ L \in Seq(Leaf) /\ LeafInv(L, A, H)
  /\ k \in Key /\ A[k] = 1 /\ Free(L[H[k]]) = {} /\ k \notin LeafKeys(L[H[k]])
  /\ m \in MedianSlots(L[H[k]])
  /\ c \in DOMAIN L /\ L[c] = EmptyLeaf /\ \A x \in Key : H[x] # c

\* The two halves hold the entries of the leaf and the new one, each its side.
LEMMA SplitPut ==
  ASSUME NEW L, NEW A, NEW H, NEW k, NEW m, NEW c, SplitReady(L, A, H, k, m, c)
  PROVE  LET h == H[k]
             pivot == L[h].keys[m]
             left  == SplitLeft(L[h], m, k, ValOf(k), c)
             right == SplitRight(L[h], L[c], m, k, ValOf(k))
             L2 == [L EXCEPT ![h] = left, ![c] = right]
             G == HomesSplit(H, h, pivot, c)
         IN /\ pivot \in Key /\ H[pivot] = h /\ \E y \in Key : H[y] = h /\ y < pivot
            /\ SplitFits(L[h], L[c], m, k) /\ right.keys[0] = pivot
            /\ L2 \in Seq(Leaf) /\ Len(L2) = Len(L) /\ DOMAIN L2 = DOMAIN L
            /\ h # c /\ \A i \in DOMAIN L : i # h /\ i # c => L2[i] = L[i]
            /\ LeafInv(L2, A, G)
            /\ \A y \in Key : y \in LeafKeys(L2[G[y]]) <=> y = k \/ y \in LeafKeys(L[H[y]])
            /\ L2[h].incarnation # L[h].incarnation
            /\ \A a \in LeafKeys(L[h]) \ LeafKeys(L2[h]), b \in LeafKeys(L2[h]) : a > b
<1> DEFINE h == H[k] l == L[h] pivot == l.keys[m] v == ValOf(k)
           left == SplitLeft(l, m, k, v, c) right == SplitRight(l, L[c], m, k, v)
           L2 == [L EXCEPT ![h] = left, ![c] = right]
           G == HomesSplit(H, h, pivot, c) all == Entries(l) \cup {<<k, v>>}
<1>0. /\ L \in Seq(Leaf) /\ LeafInv(L, A, H)
      /\ k \in Key /\ A[k] = 1 /\ Free(L[H[k]]) = {} /\ k \notin LeafKeys(L[H[k]])
      /\ m \in MedianSlots(L[H[k]])
      /\ c \in DOMAIN L /\ L[c] = EmptyLeaf /\ \A x \in Key : H[x] # c
  BY DEF SplitReady
<1> USE <1>0
<1>1. /\ h \in DOMAIN L /\ Unique(l) /\ \A x \in Key : H[x] \in DOMAIN L
      /\ \A e \in Entries(l) : e[1] \in Key /\ H[e[1]] = h /\ e[2] = ValOf(e[1]) /\ A[e[1]] = 1
  BY DEF LeafInv
<1>2. l \in Leaf /\ DOMAIN L = 1..Len(L) /\ Len(L) \in Nat
  BY <1>1
<1>3. v \in Nat /\ \A x \in Key : x \in Nat
  BY XNodeAssumption DEF ValOf, Key
<1>4. h # c /\ c \in Nat
  BY <1>2
<1>5. /\ pivot \in LeafKeys(l)
      /\ \E a \in LeafKeys(l) : a < pivot
      /\ SplitFits(l, L[c], m, k)
      /\ left \in Leaf /\ right \in Leaf /\ Unique(left) /\ Unique(right)
      /\ Entries(left) = {e \in all : e[1] < pivot}
      /\ Entries(right) = {e \in all : e[1] >= pivot}
      /\ left.incarnation = (l.incarnation + 1) % IncarMod
      /\ right.keys[0] = pivot
  <2>1. l \in Leaf /\ Free(l) = {} /\ Unique(l) /\ m \in MedianSlots(l) /\ k \notin LeafKeys(l)
    BY <1>1, <1>2
  <2> HIDE DEF v, l
  <2>2. /\ l.keys[m] \in LeafKeys(l)
        /\ \E a \in LeafKeys(l) : a < l.keys[m]
        /\ SplitFits(l, EmptyLeaf, m, k)
        /\ SplitLeft(l, m, k, v, c) \in Leaf /\ SplitRight(l, EmptyLeaf, m, k, v) \in Leaf
        /\ Unique(SplitLeft(l, m, k, v, c)) /\ Unique(SplitRight(l, EmptyLeaf, m, k, v))
        /\ Entries(SplitLeft(l, m, k, v, c)) = {e \in Entries(l) \cup {<<k, v>>} : e[1] < l.keys[m]}
        /\ Entries(SplitRight(l, EmptyLeaf, m, k, v)) = {e \in Entries(l) \cup {<<k, v>>} : e[1] >= l.keys[m]}
        /\ SplitLeft(l, m, k, v, c).incarnation = (l.incarnation + 1) % IncarMod
        /\ SplitRight(l, EmptyLeaf, m, k, v).keys[0] = l.keys[m]
    BY <1>3, <1>4, <2>1, LeafSplits
  <2> QED
    BY <2>2
<1>6. \A y : y \in LeafKeys(l) <=> \E w : <<y, w>> \in Entries(l)
  BY <1>2, EntryKeys
<1>7. \A e \in all : e[1] \in Key /\ H[e[1]] = h /\ e[2] = ValOf(e[1]) /\ A[e[1]] = 1
  <2> TAKE e \in all
  <2>1. CASE e \in Entries(l)
    BY <1>1, <2>1
  <2>2. CASE e = <<k, v>>
    <3>1. e[1] = k /\ e[2] = v
      BY <2>2
    <3> QED
      BY <3>1
  <2> QED
    BY <2>1, <2>2
<1>8. \A y \in LeafKeys(l) : y \in Key /\ H[y] = h
  <2> TAKE y \in LeafKeys(l)
  <2>1. PICK w : <<y, w>> \in Entries(l)
    BY <1>6
  <2>2. <<y, w>>[1] \in Key /\ H[<<y, w>>[1]] = h
    BY <1>1, <2>1
  <2> QED
    BY <2>2
<1>9. pivot \in Key /\ H[pivot] = h /\ \E y \in Key : H[y] = h /\ y < pivot
  BY <1>5, <1>8
<1> HIDE DEF left, right, l, pivot, h, v, all
<1>10. /\ L2 \in Seq(Leaf) /\ Len(L2) = Len(L) /\ DOMAIN L2 = DOMAIN L
       /\ L2[h] = left /\ L2[c] = right /\ \A i \in DOMAIN L : i # h /\ i # c => L2[i] = L[i]
  <2> DEFINE M == [L EXCEPT ![h] = left] M2 == [M EXCEPT ![c] = right]
  <2>1. /\ M \in Seq(Leaf) /\ Len(M) = Len(L)
        /\ \A i \in 1..Len(L) : M[i] = IF i = h THEN left ELSE L[i]
    <3>1. h \in 1..Len(L)
      BY <1>1, <1>2
    <3> QED
      BY <1>5, <3>1, ExceptSeq
  <2>2. L2 = M2
    OBVIOUS
  <2> HIDE DEF M
  <2>3. /\ M2 \in Seq(Leaf) /\ Len(M2) = Len(M)
        /\ \A i \in 1..Len(M) : M2[i] = IF i = c THEN right ELSE M[i]
    <3>1. c \in 1..Len(M)
      BY <1>2, <2>1
    <3> QED
      BY <1>5, <2>1, <3>1, ExceptSeq
  <2> HIDE DEF M2, L2
  <2>4. L2 \in Seq(Leaf) /\ Len(L2) = Len(L) /\ DOMAIN L2 = DOMAIN L
    BY <1>2, <2>1, <2>2, <2>3
  <2>5. \A i \in DOMAIN L : L2[i] = IF i = c THEN right ELSE IF i = h THEN left ELSE L[i]
    BY <1>2, <2>1, <2>2, <2>3
  <2> QED
    BY <1>1, <1>4, <2>4, <2>5
<1> HIDE DEF L2
<1>11. \A x \in Key : G[x] = IF H[x] = h /\ x >= pivot THEN c ELSE H[x]
  BY DEF HomesSplit
<1> HIDE DEF G
<1>12. LeafInv(L2, A, G)
  <2>1. ASSUME NEW x \in Key
        PROVE  /\ G[x] \in DOMAIN L2 /\ Unique(L2[G[x]])
               /\ \A e \in Entries(L2[G[x]]) :
                     e[1] \in Key /\ G[e[1]] = G[x] /\ e[2] = ValOf(e[1]) /\ A[e[1]] = 1
    <3>1. CASE H[x] = h /\ x >= pivot
      <4>1. G[x] = c /\ L2[G[x]] = right
        BY <1>10, <1>11, <3>1
      <4>2. \A e \in Entries(right) : e \in all /\ e[1] >= pivot
        BY <1>5
      <4>3. \A e \in Entries(right) : e[1] \in Key /\ G[e[1]] = c /\ e[2] = ValOf(e[1]) /\ A[e[1]] = 1
        BY <1>7, <1>11, <4>2
      <4> QED
        BY <1>5, <1>10, <4>1, <4>3
    <3>2. CASE H[x] = h /\ ~(x >= pivot)
      <4>1. G[x] = h /\ L2[G[x]] = left
        BY <1>10, <1>11, <3>2
      <4>2. \A e \in Entries(left) : e \in all /\ e[1] < pivot
        BY <1>5
      <4>3. \A e \in Entries(left) : e[1] \in Key /\ G[e[1]] = h /\ e[2] = ValOf(e[1]) /\ A[e[1]] = 1
        <5> TAKE e \in Entries(left)
        <5>1. e[1] \in Key /\ H[e[1]] = h /\ e[2] = ValOf(e[1]) /\ A[e[1]] = 1 /\ e[1] < pivot
          BY <1>7, <4>2
        <5>2. ~(e[1] >= pivot)
          BY <1>3, <1>9, <5>1
        <5> QED
          BY <1>11, <5>1, <5>2
      <4> QED
        BY <1>1, <1>5, <1>10, <4>1, <4>3
    <3>3. CASE H[x] # h
      <4>1. G[x] = H[x] /\ H[x] # c /\ H[x] \in DOMAIN L /\ L2[G[x]] = L[H[x]]
        BY <1>1, <1>10, <1>11, <3>3
      <4>2. /\ Unique(L[H[x]])
            /\ \A e \in Entries(L[H[x]]) : e[1] \in Key /\ H[e[1]] = H[x] /\ e[2] = ValOf(e[1]) /\ A[e[1]] = 1
        BY DEF LeafInv
      <4>3. \A e \in Entries(L[H[x]]) : G[e[1]] = G[x]
        BY <1>11, <3>3, <4>1, <4>2
      <4> QED
        BY <1>10, <4>1, <4>2, <4>3
    <3> QED
      BY <3>1, <3>2, <3>3
  <2> QED
    BY <2>1 DEF LeafInv
<1>13. /\ \A y : y \in LeafKeys(left) <=> y < pivot /\ (y = k \/ y \in LeafKeys(l))
       /\ \A y : y \in LeafKeys(right) <=> y >= pivot /\ (y = k \/ y \in LeafKeys(l))
  <2>1. /\ \A y : y \in LeafKeys(left) <=> \E w : <<y, w>> \in Entries(left)
        /\ \A y : y \in LeafKeys(right) <=> \E w : <<y, w>> \in Entries(right)
    BY <1>5, EntryKeys
  <2>2. \A y, w : <<y, w>>[1] = y /\ (<<y, w>> = <<k, v>> <=> y = k /\ w = v)
    OBVIOUS
  <2>3. \A y, w : /\ <<y, w>> \in Entries(left) <=> y < pivot /\ ((y = k /\ w = v) \/ <<y, w>> \in Entries(l))
                  /\ <<y, w>> \in Entries(right) <=> y >= pivot /\ ((y = k /\ w = v) \/ <<y, w>> \in Entries(l))
    BY <1>5, <2>2 DEF all
  <2> QED
    BY <1>6, <2>1, <2>3
<1>14. ASSUME NEW y \in Key PROVE y \in LeafKeys(L2[G[y]]) <=> y = k \/ y \in LeafKeys(L[H[y]])
  <2>1. CASE H[y] = h /\ y >= pivot
    <3>1. L2[G[y]] = right /\ L[H[y]] = l
      BY <1>10, <1>11, <2>1 DEF l
    <3> QED
      BY <1>13, <2>1, <3>1
  <2>2. CASE H[y] = h /\ ~(y >= pivot)
    <3>1. L2[G[y]] = left /\ L[H[y]] = l /\ y < pivot
      BY <1>3, <1>9, <1>10, <1>11, <2>2 DEF l
    <3> QED
      BY <1>13, <3>1
  <2>3. CASE H[y] # h
    <3>1. L2[G[y]] = L[H[y]] /\ y # k
      BY <1>1, <1>10, <1>11, <2>3 DEF h
    <3> QED
      BY <3>1
  <2> QED
    BY <2>1, <2>2, <2>3
<1>15. L2[h].incarnation # L[h].incarnation
  <2>1. l.incarnation \in 0..(IncarMod - 1) /\ IncarMod \in Nat /\ IncarMod >= 2
    BY <1>2, LeafFields, XNodeAssumption
  <2>2. \A n \in Nat, M \in Nat : M >= 2 /\ n <= M - 1 => (n + 1) % M # n
    <3> TAKE n \in Nat, M \in Nat
    <3> SUFFICES ASSUME M >= 2, n <= M - 1 PROVE (n + 1) % M # n
      OBVIOUS
    <3>1. CASE n = M - 1
      <4>1. n + 1 = M
        BY <3>1
      <4>2. M % M = 0
        OBVIOUS
      <4> QED
        BY <3>1, <4>1, <4>2
    <3>2. CASE n < M - 1
      <4>1. n + 1 \in 0..(M - 1)
        BY <3>2
      <4>2. (n + 1) % M = n + 1
        BY <4>1
      <4> QED
        BY <4>2
    <3> QED
      BY <3>1, <3>2
  <2>3. l.incarnation \in Nat /\ l.incarnation <= IncarMod - 1
    BY <2>1
  <2>4. (l.incarnation + 1) % IncarMod # l.incarnation
    BY <2>1, <2>2, <2>3
  <2> QED
    BY <1>5, <1>10, <2>4 DEF l
<1>16. ASSUME NEW a \in LeafKeys(L[h]) \ LeafKeys(L2[h]), NEW b \in LeafKeys(L2[h]) PROVE a > b
  <2>1. a \in LeafKeys(l) /\ a \notin LeafKeys(left) /\ b \in LeafKeys(left)
    BY <1>10, <1>16 DEF l
  <2>2. ~(a < pivot) /\ b < pivot /\ (b = k \/ b \in LeafKeys(l))
    BY <1>13, <2>1
  <2>3. a \in Nat /\ b \in Nat /\ pivot \in Nat
    BY <1>3, <1>8, <1>9, <2>1, <2>2
  <2> QED
    BY <2>2, <2>3
<1> QED
  BY <1>4, <1>5, <1>9, <1>10, <1>12, <1>14, <1>15, <1>16 DEF left, right, l, pivot, h, v, L2, G

\* The leaf h of key k splits into leaf c.
Parted(L, L2, H, G, A, k, c) ==
  \E m \in Slot :
    LET h == H[k] IN
    /\ SplitReady(L, A, H, k, m, c)
    /\ L2 = [L EXCEPT ![h] = SplitLeft(L[h], m, k, ValOf(k), c),
                      ![c] = SplitRight(L[h], L[c], m, k, ValOf(k))]
    /\ G = HomesSplit(H, h, L[h].keys[m], c)

\* The split of a leaf and its way up, in one step.
LEMMA SplitInv ==
  ASSUME XInv, NEW t \in Threads, InsertSplit(t)
  PROVE  /\ XInv'
         /\ arg[t] \in Key \ HeldOf(leaves, HomesOf(inners, depth, root), root)
         /\ HeldOf(leaves', HomesOf(inners', depth', root'), root') =
              HeldOf(leaves, HomesOf(inners, depth, root), root) \cup {arg[t]}
         /\ \A i \in DOMAIN leaves :
              \/ LeafKeys(leaves[i]) \subseteq LeafKeys(leaves'[i])
              \/ /\ leaves'[i].incarnation # leaves[i].incarnation
                 /\ \A a \in LeafKeys(leaves[i]) \ LeafKeys(leaves'[i]), b \in LeafKeys(leaves'[i]) : a > b
         /\ root # Null /\ root' # Null
         /\ Parted(leaves, leaves', HomesOf(inners, depth, root), HomesOf(inners', depth', root'),
                   asked, arg[t], pre[t])
<1> DEFINE k == arg[t] c == pre[t] P == PathsOf(inners, depth, root) p == Walk(root, k)
           H == HomesOf(inners, depth, root) h == H[k] l == leaves[h] cand == leaves[c]
<1>1. /\ TypeOK /\ aborted # "assert"
      /\ root = Null => depth = 0 /\ inners = <<>>
      /\ root # Null => TreeInv(inners, depth, P)
      /\ root # Null => LeafInv(leaves, asked, H)
      /\ ThreadInv(leaves, asked, H, root, pre, pc, arg)
  BY XInvParts
<1>2. /\ leaves \in Seq(Leaf) /\ DOMAIN leaves = 1..Len(leaves) /\ Len(leaves) \in Nat
      /\ pre \in [Threads -> 0..Len(leaves)] /\ pc \in [Threads -> {"idle", "core", "take"}]
      /\ arg \in [Threads -> Key] /\ asked \in [Key -> 0..MaxPerKey]
      /\ root \in Nat /\ depth \in Nat
  BY <1>1 DEF TypeOK
<1>3. k \in Key
  BY <1>2
<1>4. /\ p = P[k] /\ p[depth] = h /\ \A x \in Key : H[x] = P[x][depth]
  BY <1>3, WalkIsWalkOf DEF HomesOf, PathsOf
<1>5. /\ aborted = "no" /\ pc[t] = "core" /\ root # Null /\ Free(l) = {}
      /\ pre' = pre /\ arg' = arg /\ asked' = asked
  BY <1>4 DEF InsertSplit
<1>6. PICK m \in MedianSlots(l) :
        LET left  == SplitLeft(l, m, k, ValOf(k), c)
            right == SplitRight(l, cand, m, k, ValOf(k))
            s     == Ascend(p, k, c, right.keys[0], SplitFits(l, cand, m, k))
            grow  == s.to_insert # Null
            newRoot == [keys |-> <<s.up_key>>, ch |-> <<root, s.to_insert>>] IN
        IF s.ok
        THEN /\ leaves' = [leaves EXCEPT ![h] = left, ![c] = right]
             /\ inners' = IF grow THEN Append(s.inners, newRoot) ELSE s.inners
             /\ root' = IF grow THEN Len(s.inners) + 1 ELSE root
             /\ depth' = IF grow THEN depth + 1 ELSE depth
             /\ pc' = [pc EXCEPT ![t] = "take"]
             /\ UNCHANGED aborted
        ELSE aborted' = "assert" /\ UNCHANGED <<tree, pc>>
  BY <1>4 DEF InsertSplit
<1>7. \A v \in Threads : pre[v] # Null => pre[v] \in DOMAIN leaves
  <2>1. \A i \in 0..Len(leaves) : i # Null => i \in 1..Len(leaves)
    BY <1>2 DEF Null
  <2> QED
    BY <1>2, <2>1
<1>8. /\ c # Null /\ Spare(c, pc[t]) /\ asked[k] = 1 /\ cand = EmptyLeaf
      /\ \A x \in Key : H[x] # c
      /\ k \notin LeafKeys(l)
  BY <1>1, <1>5 DEF ThreadInv, Spare
<1>9. c \in DOMAIN leaves /\ c \in Nat \ {Null} /\ root \in Nat \ {Null}
  BY <1>2, <1>5, <1>7, <1>8
<1> DEFINE pivot == l.keys[m]
           left  == SplitLeft(l, m, k, ValOf(k), c)
           right == SplitRight(l, cand, m, k, ValOf(k))
           fits == SplitFits(l, cand, m, k)
           L2 == [leaves EXCEPT ![h] = left, ![c] = right]
           G == HomesSplit(H, h, pivot, c)
<1> HIDE DEF H, P, p
<1>10. /\ pivot \in Key /\ H[pivot] = h /\ \E y \in Key : H[y] = h /\ y < pivot
       /\ fits /\ right.keys[0] = pivot
       /\ L2 \in Seq(Leaf) /\ Len(L2) = Len(leaves) /\ DOMAIN L2 = DOMAIN leaves
       /\ h # c /\ \A i \in DOMAIN leaves : i # h /\ i # c => L2[i] = leaves[i]
       /\ LeafInv(L2, asked, G)
       /\ \A y \in Key : y \in LeafKeys(L2[G[y]]) <=> y = k \/ y \in LeafKeys(leaves[H[y]])
       /\ L2[h].incarnation # leaves[h].incarnation
       /\ \A a \in LeafKeys(leaves[h]) \ LeafKeys(L2[h]), b \in LeafKeys(L2[h]) : a > b
  <2>1. LeafInv(leaves, asked, H)
    BY <1>1, <1>5
  <2> HIDE DEF c, k
  <2>2. SplitReady(leaves, asked, H, k, m, c)
    BY <1>2, <1>3, <1>5, <1>8, <1>9, <2>1 DEF SplitReady
  <2> QED
    BY <2>2, SplitPut
<1>11. fits = TRUE
  <2>1. fits \in BOOLEAN
    BY DEF SplitFits
  <2> HIDE DEF fits
  <2> QED
    BY <1>10, <2>1
<1> DEFINE a == AscentOf(inners, depth, P[k], k, c, pivot, TRUE)[depth]
           s == Ascend(p, k, c, right.keys[0], fits)
<1>12. s = a
  <2> HIDE DEF fits, right, pivot, c, k
  <2>1. s = Ascend(P[k], k, c, pivot, TRUE)
    BY <1>4, <1>10, <1>11
  <2> DEFINE w == P[k]
  <2> HIDE DEF w
  <2>2. Ascend(w, k, c, pivot, TRUE) = AscentOf(inners, depth, w, k, c, pivot, TRUE)[depth]
    BY AscendIsAscentOf
  <2> QED
    BY <2>1, <2>2 DEF w
<1> DEFINE I2 == InnersAfter(a, root) r2 == RootAfter(a, root) D2 == DepthAfter(a, depth)
           P2 == PathsOf(I2, D2, r2)
<1>13. /\ a.ok = TRUE /\ r2 \in Nat \ {Null} /\ D2 \in Nat
       /\ TreeInv(I2, D2, P2)
       /\ \A x \in Key : P2[x][D2] = IF P[x][depth] = P[k][depth] /\ x >= pivot THEN c ELSE P[x][depth]
  <2>1. /\ TreeInv(inners, depth, P) /\ \A x \in Key : P[x][depth] # c
        /\ P[pivot][depth] = P[k][depth]
        /\ \E y \in Key : P[y][depth] = P[k][depth] /\ y < pivot
    BY <1>1, <1>3, <1>4, <1>5, <1>8, <1>10, ZenonT(40)
  <2> HIDE DEF pivot, c, k
  <2>2. TreeSplits(inners, depth, root, k, c, pivot)
    BY <1>2, <1>3, <1>9, <1>10, <2>1 DEF P, TreeSplits
  <2>3. TreeSplit(inners, depth, root, k, c, pivot, a)
    BY <2>2, SplitTree DEF P
  <2> HIDE DEF a
  <2> QED
    BY <2>3 DEF TreeSplit, P
<1>14. /\ leaves' = L2 /\ inners' = I2 /\ root' = r2 /\ depth' = D2
       /\ pc' = [pc EXCEPT ![t] = "take"] /\ aborted' = aborted
  <2>1. s.ok = TRUE
    BY <1>12, <1>13
  <2>2. /\ leaves' = L2
        /\ inners' = IF s.to_insert # Null THEN Append(s.inners, NewRoot(s.up_key, root, s.to_insert)) ELSE s.inners
        /\ root' = IF s.to_insert # Null THEN Len(s.inners) + 1 ELSE root
        /\ depth' = IF s.to_insert # Null THEN depth + 1 ELSE depth
        /\ pc' = [pc EXCEPT ![t] = "take"] /\ aborted' = aborted
    BY <1>6, <2>1 DEF NewRoot
  <2> HIDE DEF a, s, L2
  <2> QED
    BY <1>12, <2>2 DEF InnersAfter, RootAfter, DepthAfter
<1> HIDE DEF a, s, L2, I2, r2, D2, left, right, fits, G
<1>15. HomesOf(I2, D2, r2) = G
  <2>1. \A x \in Key : P2[x][D2] = IF H[x] = h /\ x >= pivot THEN c ELSE H[x]
    BY <1>3, <1>4, <1>13
  <2> HIDE DEF P2
  <2>2. [x \in Key |-> P2[x][D2]] = [x \in Key |-> IF H[x] = h /\ x >= pivot THEN c ELSE H[x]]
    BY <2>1
  <2> QED
    BY <2>2 DEF HomesOf, G, HomesSplit, P2
<1>16. TypeOK'
  <2>1. pc' \in [Threads -> {"idle", "core", "take"}]
    BY <1>2, <1>14
  <2>2. I2 \in Seq(Inner) /\ \A i \in DOMAIN I2 : NodeOK(I2[i])
    BY <1>13 DEF TreeInv
  <2>3. \A i \in DOMAIN I2 : Len(I2[i].keys) \in 0..N /\ Len(I2[i].ch) = Len(I2[i].keys) + 1
    BY <2>2, NodeFields
  <2> QED
    BY <1>1, <1>5, <1>10, <1>13, <1>14, <2>1, <2>2, <2>3 DEF TypeOK
<1>17. pc'[t] = "take" /\ \A v \in Threads : v # t => pc'[v] = pc[v]
  BY <1>2, <1>14
<1>18. \A x \in Key : G[x] = c \/ G[x] = H[x]
  BY DEF G, HomesSplit
<1>19. ThreadInv(leaves', asked', G, r2, pre', pc', arg')
  <2>1. ASSUME NEW v \in Threads
        PROVE  /\ pc'[v] # "idle" => pre'[v] # Null
               /\ pc'[v] = "core" => asked'[arg'[v]] = 1
               /\ pc'[v] = "core" /\ r2 # Null => arg'[v] \notin LeafKeys(leaves'[G[arg'[v]]])
               /\ pc'[v] = "take" => r2 # Null
               /\ Spare(pre'[v], pc'[v]) => leaves'[pre'[v]] = EmptyLeaf
               /\ Spare(pre'[v], pc'[v]) /\ r2 # Null => \A x \in Key : G[x] # pre'[v]
    <3>1. CASE v = t
      BY <1>5, <1>8, <1>13, <1>17, <3>1 DEF Spare
    <3>2. CASE v # t
      <4>1. /\ pc[v] # "idle" => pre[v] # Null
            /\ pc[v] = "core" => asked[arg[v]] = 1
            /\ pc[v] = "core" => arg[v] \notin LeafKeys(leaves[H[arg[v]]])
            /\ Spare(pre[v], pc[v]) => leaves[pre[v]] = EmptyLeaf
            /\ Spare(pre[v], pc[v]) => \A x \in Key : H[x] # pre[v]
            /\ pc[v] = "core" => arg[v] # k
            /\ Spare(pre[v], pc[v]) => pre[v] # c
        BY <1>1, <1>5, <1>8, <3>2 DEF ThreadInv
      <4>2. pc[v] = "core" => arg[v] \notin LeafKeys(L2[G[arg[v]]])
        <5>1. arg[v] \in Key
          BY <1>2
        <5> HIDE DEF k
        <5> QED
          BY <1>10, <4>1, <5>1
      <4>3. Spare(pre[v], pc[v]) => (\A x \in Key : G[x] # pre[v]) /\ L2[pre[v]] = EmptyLeaf
        <5> SUFFICES ASSUME Spare(pre[v], pc[v])
                     PROVE  (\A x \in Key : G[x] # pre[v]) /\ L2[pre[v]] = EmptyLeaf
          OBVIOUS
        <5>1. \A x \in Key : G[x] # pre[v]
          BY <1>18, <4>1
        <5>2. pre[v] # h /\ pre[v] # c /\ pre[v] \in DOMAIN leaves
          BY <1>3, <1>7, <4>1 DEF Spare
        <5> QED
          BY <1>10, <4>1, <5>1, <5>2
      <4> QED
        BY <1>5, <1>13, <1>14, <1>17, <3>2, <4>1, <4>2, <4>3
    <3> QED
      BY <3>1, <3>2
  <2>2. ASSUME NEW v \in Threads, NEW w \in Threads, v # w, Spare(pre'[v], pc'[v]), Spare(pre'[w], pc'[w])
        PROVE  pre'[v] # pre'[w]
    <3>1. v # t /\ w # t
      BY <1>17, <2>2 DEF Spare
    <3> QED
      BY <1>1, <1>5, <1>17, <2>2, <3>1 DEF ThreadInv
  <2>3. ASSUME NEW v \in Threads, NEW w \in Threads, v # w, pc'[v] = "core", pc'[w] = "core"
        PROVE  arg'[v] # arg'[w]
    <3>1. v # t /\ w # t
      BY <1>17, <2>3
    <3> QED
      BY <1>1, <1>5, <1>17, <2>3, <3>1 DEF ThreadInv
  <2> QED
    BY <2>1, <2>2, <2>3 DEF ThreadInv
<1>20. /\ aborted' # "assert"
       /\ root' = Null => depth' = 0 /\ inners' = <<>>
       /\ root' # Null => TreeInv(inners', depth', PathsOf(inners', depth', root'))
       /\ root' # Null => LeafInv(leaves', asked', HomesOf(inners', depth', root'))
       /\ ThreadInv(leaves', asked', HomesOf(inners', depth', root'), root', pre', pc', arg')
  BY <1>1, <1>5, <1>10, <1>13, <1>14, <1>15, <1>19 DEF P2
<1>21. XInv'
  BY <1>16, <1>20, XInvNext
<1>22. k \in Key \ HeldOf(leaves, H, root)
  BY <1>3, <1>8 DEF HeldOf
<1>23. HeldOf(leaves', G, r2) = HeldOf(leaves, H, root) \cup {k}
  <2> DEFINE X == HeldOf(leaves', G, r2) Y == HeldOf(leaves, H, root) \cup {k}
  <2>1. \A y \in Key : y \in X <=> y \in Y
    BY <1>5, <1>10, <1>13, <1>14 DEF HeldOf
  <2>2. X \subseteq Key /\ Y \subseteq Key
    BY <1>3 DEF HeldOf
  <2> HIDE DEF X, Y
  <2>3. X = Y
    BY <2>1, <2>2
  <2> QED
    BY <2>3 DEF X, Y
<1>24. ASSUME NEW i \in DOMAIN leaves
       PROVE  \/ LeafKeys(leaves[i]) \subseteq LeafKeys(leaves'[i])
              \/ /\ leaves'[i].incarnation # leaves[i].incarnation
                 /\ \A x \in LeafKeys(leaves[i]) \ LeafKeys(leaves'[i]), y \in LeafKeys(leaves'[i]) : x > y
  <2>1. CASE i = h
    BY <1>10, <1>14, <2>1
  <2>2. CASE i = c
    BY <1>8, <2>2, EmptyEntries
  <2>3. CASE i # h /\ i # c
    BY <1>10, <1>14, <2>3
  <2> QED
    BY <2>1, <2>2, <2>3
<1>25. Parted(leaves, leaves', H, G, asked, k, c)
  <2>1. LeafInv(leaves, asked, H)
    BY <1>1, <1>5
  <2>2. m \in Slot
    BY DEF MedianSlots
  <2> HIDE DEF c, k
  <2>3. SplitReady(leaves, asked, H, k, m, c)
    BY <1>2, <1>3, <1>5, <1>8, <1>9, <2>1 DEF SplitReady
  <2>4. leaves' = [leaves EXCEPT ![h] = left, ![c] = right]
    BY <1>14 DEF L2
  <2> QED
    BY <2>2, <2>3, <2>4 DEF Parted, G, left, right
<1> QED
  BY <1>5, <1>13, <1>14, <1>15, <1>21, <1>22, <1>23, <1>24, <1>25 DEF H

-----------------------------------------------------------------------------
(* The theorems. *)

\* The keys that a search finds now.
Held == HeldOf(leaves, HomesOf(inners, depth, root), root)

\* What a step may do to the contents of a leaf.
LeafMoves(l, m) ==
  \/ LeafKeys(l) \subseteq LeafKeys(m)
  \/ /\ m.incarnation # l.incarnation
     /\ \A a \in LeafKeys(l) \ LeafKeys(m), b \in LeafKeys(m) : a > b

\* A step that only allocates a leaf changes no content.
LEMMA QuietStep ==
  ASSUME XInv, leaves' = leaves \/ leaves' = Append(leaves, EmptyLeaf),
         UNCHANGED <<inners, depth, root>>
  PROVE  Held' = Held /\ \A i \in DOMAIN leaves : leaves'[i] = leaves[i]
<1> DEFINE H == HomesOf(inners, depth, root)
<1>1. leaves \in Seq(Leaf) /\ (root # Null => LeafInv(leaves, asked, H))
  BY XInvParts DEF TypeOK
<1>2. \A i \in DOMAIN leaves : leaves'[i] = leaves[i]
  <2>1. CASE leaves' = leaves
    BY <2>1
  <2>2. CASE leaves' = Append(leaves, EmptyLeaf)
    BY <1>1, <2>2, Allocates
  <2> QED
    BY <2>1, <2>2
<1>3. Held' = HeldOf(leaves', H, root)
  BY DEF Held
<1> HIDE DEF H
<1>4. HeldOf(leaves', H, root) = HeldOf(leaves, H, root)
  <2>1. CASE root = Null
    BY <2>1 DEF HeldOf
  <2>2. CASE root # Null
    <3>1. \A x \in Key : leaves'[H[x]] = leaves[H[x]]
      BY <1>1, <1>2, <2>2 DEF LeafInv
    <3> QED
      BY <3>1 DEF HeldOf
  <2> QED
    BY <2>1, <2>2
<1> QED
  BY <1>2, <1>3, <1>4 DEF Held, H

\* What a step does to the keys that are found, and to the leaves.
LEMMA StepEffect ==
  ASSUME MaxPerKey <= 1, XInv, [Next]_vars
  PROVE  /\ XInv'
         /\ Held' = Held \/ \E k \in Key \ Held : Held' = Held \cup {k}
         /\ \A i \in DOMAIN leaves : LeafMoves(leaves[i], leaves'[i])
<1>1. \A l : LeafMoves(l, l)
  BY DEF LeafMoves
<1>2. ASSUME NEW t \in Threads, NEW k \in Key, InsertBegin(t, k)
      PROVE  XInv' /\ Held' = Held /\ \A i \in DOMAIN leaves : LeafMoves(leaves[i], leaves'[i])
  <2>1. XInv'
    BY <1>2, BeginInv
  <2>2. /\ leaves' = leaves \/ leaves' = Append(leaves, EmptyLeaf)
        /\ UNCHANGED <<inners, depth, root>>
    BY <1>2 DEF InsertBegin, PreAlloc
  <2>3. Held' = Held /\ \A i \in DOMAIN leaves : leaves'[i] = leaves[i]
    BY <2>2, QuietStep
  <2> QED
    BY <1>1, <2>1, <2>3
<1>3. ASSUME NEW t \in Threads, TakePreAlloced(t)
      PROVE  XInv' /\ Held' = Held /\ \A i \in DOMAIN leaves : LeafMoves(leaves[i], leaves'[i])
  <2>1. XInv'
    BY <1>3, TakeInv
  <2>2. /\ leaves' = leaves \/ leaves' = Append(leaves, EmptyLeaf)
        /\ UNCHANGED <<inners, depth, root>>
    BY <1>3 DEF TakePreAlloced, PreAlloc
  <2>3. Held' = Held /\ \A i \in DOMAIN leaves : leaves'[i] = leaves[i]
    BY <2>2, QuietStep
  <2> QED
    BY <1>1, <2>1, <2>3
<1>4. ASSUME NEW t \in Threads, AllocFails(t)
      PROVE  XInv' /\ Held' = Held /\ \A i \in DOMAIN leaves : LeafMoves(leaves[i], leaves'[i])
  <2>1. XInv'
    BY <1>4, FailInv
  <2>2. leaves' = leaves /\ UNCHANGED <<inners, depth, root>>
    BY <1>4 DEF AllocFails, tree
  <2>3. Held' = Held
    BY <2>2, QuietStep
  <2> QED
    BY <1>1, <2>1, <2>2, <2>3
<1>5. ASSUME NEW t \in Threads, InsertInPlace(t)
      PROVE  /\ XInv' /\ \E k \in Key \ Held : Held' = Held \cup {k}
             /\ \A i \in DOMAIN leaves : LeafMoves(leaves[i], leaves'[i])
  <2>1. /\ XInv'
        /\ arg[t] \in Key \ HeldOf(leaves, HomesOf(inners, depth, root), root)
        /\ HeldOf(leaves', HomesOf(inners', depth', root'), root') =
              HeldOf(leaves, HomesOf(inners, depth, root), root) \cup {arg[t]}
        /\ \A i \in DOMAIN leaves : LeafKeys(leaves[i]) \subseteq LeafKeys(leaves'[i])
    BY <1>5, PlaceInv
  <2>2. arg[t] \in Key \ Held /\ Held' = Held \cup {arg[t]}
    BY <2>1 DEF Held
  <2> QED
    BY <2>1, <2>2 DEF LeafMoves
<1>6. ASSUME NEW t \in Threads, InsertSplit(t)
      PROVE  /\ XInv' /\ \E k \in Key \ Held : Held' = Held \cup {k}
             /\ \A i \in DOMAIN leaves : LeafMoves(leaves[i], leaves'[i])
  <2>1. /\ XInv'
        /\ arg[t] \in Key \ HeldOf(leaves, HomesOf(inners, depth, root), root)
        /\ HeldOf(leaves', HomesOf(inners', depth', root'), root') =
              HeldOf(leaves, HomesOf(inners, depth, root), root) \cup {arg[t]}
        /\ \A i \in DOMAIN leaves :
              \/ LeafKeys(leaves[i]) \subseteq LeafKeys(leaves'[i])
              \/ /\ leaves'[i].incarnation # leaves[i].incarnation
                 /\ \A a \in LeafKeys(leaves[i]) \ LeafKeys(leaves'[i]), b \in LeafKeys(leaves'[i]) : a > b
    BY <1>6, SplitInv
  <2>2. arg[t] \in Key \ Held /\ Held' = Held \cup {arg[t]}
    BY <2>1 DEF Held
  <2> QED
    BY <2>1, <2>2 DEF LeafMoves
<1>7. CASE UNCHANGED vars
  <2>1. XInv'
    BY <1>7, StutterInv
  <2>2. leaves' = leaves /\ UNCHANGED <<inners, depth, root>>
    BY <1>7 DEF vars, tree
  <2>3. Held' = Held
    BY <2>2, QuietStep
  <2> QED
    BY <1>1, <2>1, <2>2, <2>3
<1>8. CASE Next
  BY <1>2, <1>3, <1>4, <1>5, <1>6, <1>8 DEF Next
<1> QED
  BY <1>7, <1>8

\* With distinct keys the index stays a tree: XInv holds in every state.
THEOREM TreeHolds == ASSUME MaxPerKey <= 1 PROVE Spec => []XInv
<1>1. XInv /\ [Next]_vars => XInv'
  BY StepEffect
<1> QED
  BY <1>1, InitInv, PTL DEF Spec

\* TypeOK, of XTree and CXTree: the structure of nodes and threads.
THEOREM TreeTypes == ASSUME MaxPerKey <= 1 PROVE Spec => []TypeOK
<1>1. XInv => TypeOK
  BY DEF XInv
<1> QED
  BY <1>1, TreeHolds, PTL

\* NoAssertFails: no insertion of distinct keys fails an assertion of raw_insert
\* or of TreeInner::insert, whatever the order, the threads and the node size.
THEOREM AssertionsHold == ASSUME MaxPerKey <= 1 PROVE Spec => []NoAssertFails
<1>1. XInv => NoAssertFails
  BY DEF XInv, NoAssertFails
<1> QED
  BY <1>1, TreeHolds, PTL

\* IncarnationGuardsMoves: a leaf that loses keys has another incarnation, and
\* loses those above the ones it keeps.
THEOREM MovesAreGuarded == ASSUME MaxPerKey <= 1 PROVE Spec => IncarnationGuardsMoves
<1> DEFINE A == \A i \in DOMAIN leaves :
       ~(LeafKeys(leaves[i]) \subseteq LeafKeys(leaves'[i]))
         => /\ leaves'[i].incarnation # leaves[i].incarnation
            /\ \A a \in LeafKeys(leaves[i]) \ LeafKeys(leaves'[i]), b \in LeafKeys(leaves'[i]) : a > b
<1>1. XInv /\ [Next]_vars => A
  <2> SUFFICES ASSUME XInv, [Next]_vars PROVE A
    OBVIOUS
  <2>1. \A i \in DOMAIN leaves : LeafMoves(leaves[i], leaves'[i])
    BY StepEffect
  <2> QED
    BY <2>1 DEF LeafMoves
<1>2. XInv /\ [Next]_vars => [A]_vars
  BY <1>1
<1> QED
  BY <1>2, TreeHolds, PTL DEF Spec, IncarnationGuardsMoves

\* The index as a map: a key is found with its value, or not at all.
LookupsFind == \A x \in Key : Lookup(x) = IF x \in Held THEN ValOf(x) ELSE NoVal

\* get_impl finds the held keys, with their values.
LEMMA LookupFinds == XInv => LookupsFind
<1> SUFFICES ASSUME XInv, NEW x \in Key
             PROVE  Lookup(x) = IF x \in Held THEN ValOf(x) ELSE NoVal
  BY DEF LookupsFind
<1> DEFINE H == HomesOf(inners, depth, root) l == leaves[H[x]]
           hits == {i \in Slot : l.keys[i] = x}
<1>1. CASE root = Null
  BY <1>1 DEF Lookup, Held, HeldOf
<1>2. CASE root # Null
  <2>1. leaves \in Seq(Leaf) /\ LeafInv(leaves, asked, H)
    BY <1>2, XInvParts DEF TypeOK
  <2>2. Walk(root, x)[depth] = H[x]
    BY PathsNow
  <2>3. Lookup(x) = IF Search(l, x) = N THEN NoVal ELSE l.vals[Search(l, x)]
    BY <1>2, <2>2 DEF Lookup
  <2>4. x \in Held <=> x \in LeafKeys(l)
    BY <1>2 DEF Held, HeldOf
  <2> HIDE DEF H
  <2>5. l \in Leaf /\ \A e \in Entries(l) : e[2] = ValOf(e[1])
    BY <2>1 DEF LeafInv
  <2> HIDE DEF l
  <2>6. \A i \in Slot : i \in Used(l) <=> l.keys[i] \in Key
    BY <2>5, EntryKeys
  <2>7. CASE hits = {}
    <3>1. Search(l, x) = N
      BY <2>7 DEF Search
    <3>2. x \notin LeafKeys(l)
      BY <2>5, <2>7, EntryKeys DEF LeafKeys
    <3> QED
      BY <2>3, <2>4, <3>1, <3>2
  <2>8. CASE hits # {}
    <3> DEFINE i == First(hits)
    <3>1. Search(l, x) = i
      BY <2>8 DEF Search
    <3>2. i \in hits
      <4>1. hits \in SUBSET Nat
        BY XNodeAssumption DEF Slot
      <4> HIDE DEF hits
      <4> QED
        BY <2>8, <4>1, FirstIsLeast
    <3> HIDE DEF i
    <3>3. i \in Slot /\ l.keys[i] = x /\ i # N
      <4>1. \A j \in Slot : j # N
        BY XNodeAssumption DEF Slot
      <4> QED
        BY <3>2, <4>1
    <3>4. i \in Used(l)
      BY <2>6, <3>3
    <3>5. x \in LeafKeys(l)
      BY <3>3, <3>4 DEF LeafKeys
    <3>6. <<x, l.vals[i]>> \in Entries(l)
      BY <3>3, <3>4 DEF Entries
    <3>7. l.vals[i] = ValOf(x)
      <4>1. <<x, l.vals[i]>>[2] = ValOf(<<x, l.vals[i]>>[1])
        BY <2>5, <3>6
      <4> QED
        BY <4>1
    <3> QED
      BY <2>3, <2>4, <3>1, <3>3, <3>5, <3>7
  <2> QED
    BY <2>7, <2>8
<1> QED
  BY <1>1, <1>2

\* ImplementsMap: in every interleaving of its steps a tree of distinct keys is
\* the abstract map: each insertion adds its entry in one step, nothing is lost.
THEOREM IndexIsMap == ASSUME MaxPerKey <= 1 PROVE Spec => ImplementsMap
<1> DEFINE map == [k \in Key |-> Lookup(k)]
           Val == {ValOf(k) : k \in Key}
<1>1. Init => Map!Init
  <2> SUFFICES ASSUME Init PROVE map = [k \in Key |-> NoVal]
    BY DEF Map!Init
  <2>1. root = Null
    BY DEF Init
  <2> QED
    BY <2>1 DEF Lookup
<1>2. XInv' => LookupsFind'
  BY LookupFinds, PTL
<1>3. XInv /\ [Next]_vars => [Map!Next]_map
  <2> SUFFICES ASSUME XInv, [Next]_vars PROVE [Map!Next]_map
    OBVIOUS
  <2>1. /\ XInv'
        /\ Held' = Held \/ \E k \in Key \ Held : Held' = Held \cup {k}
    BY StepEffect
  <2>2. map = [x \in Key |-> IF x \in Held THEN ValOf(x) ELSE NoVal]
    BY LookupFinds DEF LookupsFind
  <2>3. map' = [x \in Key |-> IF x \in Held' THEN ValOf(x) ELSE NoVal]
    <3>1. LookupsFind'
      BY <1>2, <2>1
    <3>2. \A x \in Key : Lookup(x)' = IF x \in Held' THEN ValOf(x) ELSE NoVal
      BY <3>1 DEF LookupsFind
    <3> QED
      BY <3>2
  <2> HIDE DEF map
  <2>4. CASE Held' = Held
    BY <2>2, <2>3, <2>4
  <2>5. ASSUME NEW k \in Key \ Held, Held' = Held \cup {k} PROVE Map!Next
    <3>1. map[k] = NoVal /\ map'[k] = ValOf(k) /\ ValOf(k) \in Val
      BY <2>2, <2>3, <2>5
    <3>2. map' = [map EXCEPT ![k] = map'[k]]
      <4>1. \A x \in Key : map'[x] = IF x = k THEN ValOf(k) ELSE map[x]
        BY <2>2, <2>3, <2>5
      <4>2. map' = [x \in Key |-> IF x = k THEN ValOf(k) ELSE map[x]]
        BY <2>3, <4>1
      <4>3. map = [x \in Key |-> map[x]]
        BY <2>2
      <4> QED
        BY <3>1, <4>2, <4>3
    <3>3. map[k] = NoVal /\ map'[k] \in Val /\ map' = [map EXCEPT ![k] = map'[k]]
      BY <3>1, <3>2
    <3>4. Map!Insert(k)
      BY <3>3 DEF map, Map!Insert
    <3> QED
      BY <3>4 DEF Map!Next
  <2> QED
    BY <2>1, <2>4, <2>5
<1> QED
  BY <1>1, <1>3, TreeHolds, PTL DEF Spec, ImplementsMap, Map!Spec

-----------------------------------------------------------------------------
(* Flattening. *)

\* The first M sequences of T one behind the other, as FlattenSeq builds them.
IsFlat(f, M, T) == f = [i \in 1..M |-> IF i = 1 THEN T[i] ELSE f[i - 1] \o T[i]]

\* A recursive function over an interval exists.
LEMMA FlatExists ==
  ASSUME NEW T
  PROVE  \A M \in Nat : \E f : IsFlat(f, M, T)
<1> DEFINE B == {M \in Nat : ~ \E f : IsFlat(f, M, T)}
<1>1. SUFFICES ASSUME B # {} PROVE FALSE
  OBVIOUS
<1>2. PICK M \in B : \A E \in B : M <= E
  <2>1. B \in SUBSET Nat
    OBVIOUS
  <2> HIDE DEF B
  <2> QED
    BY <1>1, <2>1, NatMin
<1>3. CASE M = 0
  <2> DEFINE f == [i \in 1..0 |-> T[1]]
  <2>1. \A i \in 1..0 : FALSE
    OBVIOUS
  <2>2. IsFlat(f, 0, T)
    BY <2>1 DEF IsFlat
  <2> QED
    BY <1>2, <1>3, <2>2
<1>4. CASE M # 0
  <2>1. M - 1 \in Nat /\ M - 1 \notin B /\ M \in Nat
    BY <1>2, <1>4, SMTT(30)
  <2>2. PICK u : IsFlat(u, M - 1, T)
    BY <2>1
  <2> DEFINE f == [i \in 1..M |-> IF i = M THEN (IF M = 1 THEN T[M] ELSE u[M - 1] \o T[M]) ELSE u[i]]
  <2>3. \A i \in 1..(M - 1) : u[i] = IF i = 1 THEN T[i] ELSE u[i - 1] \o T[i]
    BY <2>2 DEF IsFlat
  <2>4. \A i \in 1..M : f[i] = IF i = M THEN (IF M = 1 THEN T[M] ELSE u[M - 1] \o T[M]) ELSE u[i]
    OBVIOUS
  <2>5. f = [i \in 1..M |-> f[i]]
    OBVIOUS
  <2> HIDE DEF f
  <2>6. ASSUME NEW i \in 1..M PROVE f[i] = IF i = 1 THEN T[i] ELSE f[i - 1] \o T[i]
    <3>1. CASE i = M
      <4>1. CASE i = 1
        BY <2>4, <3>1, <4>1
      <4>2. CASE i # 1
        <5>1. i - 1 \in 1..M /\ i - 1 # M
          BY <2>1, <3>1, <4>2
        <5>2. f[i - 1] = u[M - 1]
          BY <2>4, <3>1, <5>1
        <5> QED
          BY <2>4, <3>1, <4>2, <5>2
      <4> QED
        BY <4>1, <4>2
    <3>2. CASE i # M
      <4>1. i \in 1..(M - 1) /\ (i # 1 => i - 1 \in 1..M /\ i - 1 # M)
        BY <2>1, <3>2
      <4> QED
        BY <2>3, <2>4, <3>2, <4>1
    <3> QED
      BY <3>1, <3>2
  <2>7. IsFlat(f, M, T)
    BY <2>5, <2>6 DEF IsFlat
  <2> QED
    BY <1>2, <2>7
<1> QED
  BY <1>3, <1>4

\* Sequence F has the elements of the first k sequences of T, in the order of T:
\* whatever relation R orders those orders F.
Flattens(F, T, k, E, R) ==
  /\ F \in Seq(E)
  /\ \A p \in 1..Len(F) : \E i \in 1..k : \E j \in 1..Len(T[i]) : F[p] = T[i][j]
  /\ \A i \in 1..k : \A j \in 1..Len(T[i]) : \E p \in 1..Len(F) : F[p] = T[i][j]
  /\ \A p, q \in 1..Len(F) : p < q => <<F[p], F[q]>> \in R

\* Sequences in the order R, each of them in that order.
Rising(T, R) ==
  /\ \A i, j \in 1..Len(T) : i < j =>
       \A a \in 1..Len(T[i]), b \in 1..Len(T[j]) : <<T[i][a], T[j][b]>> \in R
  /\ \A i \in 1..Len(T) : \A a, b \in 1..Len(T[i]) : a < b => <<T[i][a], T[i][b]>> \in R

\* One sequence more.
LEMMA FlatMore ==
  ASSUME NEW E, NEW T \in Seq(Seq(E)), NEW R, Rising(T, R),
         NEW k \in 2..Len(T), NEW F, Flattens(F, T, k - 1, E, R)
  PROVE  Flattens(F \o T[k], T, k, E, R)
<1> DEFINE t == T[k] G == F \o t
<1>1. /\ Len(T) \in Nat /\ k \in 1..Len(T) /\ t \in Seq(E) /\ F \in Seq(E)
      /\ Len(F) \in Nat /\ Len(t) \in Nat /\ k - 1 \in Nat /\ 1..k = 1..(k - 1) \cup {k}
      /\ \A i \in 1..(k - 1) : i < k /\ i \in 1..Len(T)
  BY DEF Flattens
<1> HIDE DEF t
<1>2. /\ G \in Seq(E) /\ Len(G) = Len(F) + Len(t)
      /\ \A p \in 1..Len(F) : p \in 1..Len(G) /\ G[p] = F[p]
      /\ \A j \in 1..Len(t) : Len(F) + j \in 1..Len(G) /\ G[Len(F) + j] = t[j]
      /\ \A p \in 1..Len(G) : p \in 1..Len(F) \/ \E j \in 1..Len(t) : p = Len(F) + j
  <2>1. G \in Seq(E) /\ Len(G) = Len(F) + Len(t)
    BY <1>1
  <2>2. \A p \in 1..Len(G) : p \notin 1..Len(F) => p - Len(F) \in 1..Len(t) /\ p = Len(F) + (p - Len(F))
    BY <1>1, <2>1
  <2>3. \A p \in 1..Len(F) : p \in 1..Len(G) /\ G[p] = F[p]
    BY <1>1, <2>1
  <2>4. \A j \in 1..Len(t) : Len(F) + j \in 1..Len(G) /\ G[Len(F) + j] = t[j]
    BY <1>1, <2>1
  <2> HIDE DEF G
  <2> QED
    BY <2>1, <2>2, <2>3, <2>4
<1> HIDE DEF G
<1>3. /\ \A p \in 1..Len(F) : \E i \in 1..(k - 1) : \E j \in 1..Len(T[i]) : F[p] = T[i][j]
      /\ \A i \in 1..(k - 1) : \A j \in 1..Len(T[i]) : \E p \in 1..Len(F) : F[p] = T[i][j]
      /\ \A p, q \in 1..Len(F) : p < q => <<F[p], F[q]>> \in R
  BY DEF Flattens
<1>4. \A p \in 1..Len(G) : \E i \in 1..k : \E j \in 1..Len(T[i]) : G[p] = T[i][j]
  <2> TAKE p \in 1..Len(G)
  <2>1. CASE p \in 1..Len(F)
    <3>1. PICK i \in 1..(k - 1) : \E j \in 1..Len(T[i]) : F[p] = T[i][j]
      BY <1>3, <2>1
    <3>2. i \in 1..k
      BY <1>1
    <3>3. G[p] = F[p]
      BY <1>2, <2>1
    <3> QED
      BY <3>1, <3>2, <3>3
  <2>2. ASSUME NEW j \in 1..Len(t), p = Len(F) + j
        PROVE  \E i \in 1..k : \E m \in 1..Len(T[i]) : G[p] = T[i][m]
    <3>1. G[p] = T[k][j] /\ k \in 1..k /\ j \in 1..Len(T[k])
      BY <1>1, <1>2, <2>2 DEF t
    <3> QED
      BY <3>1
  <2> QED
    BY <1>2, <2>1, <2>2
<1>5. \A i \in 1..k : \A j \in 1..Len(T[i]) : \E p \in 1..Len(G) : G[p] = T[i][j]
  <2> TAKE i \in 1..k
  <2> TAKE j \in 1..Len(T[i])
  <2>1. CASE i = k
    BY <1>2, <2>1 DEF t
  <2>2. CASE i # k
    <3>1. PICK p \in 1..Len(F) : F[p] = T[i][j]
      BY <1>1, <1>3, <2>2
    <3> QED
      BY <1>2, <3>1
  <2> QED
    BY <2>1, <2>2
<1>6. ASSUME NEW p \in 1..Len(G), NEW q \in 1..Len(G), p < q
      PROVE  <<G[p], G[q]>> \in R
  <2>1. CASE q \in 1..Len(F)
    <3>1. p \in 1..Len(F)
      BY <1>6, <2>1
    <3> QED
      BY <1>2, <1>3, <1>6, <2>1, <3>1
  <2>2. ASSUME NEW b \in 1..Len(t), q = Len(F) + b, p \in 1..Len(F)
        PROVE  <<G[p], G[q]>> \in R
    <3>1. PICK i \in 1..(k - 1) : \E a \in 1..Len(T[i]) : F[p] = T[i][a]
      BY <1>3, <2>2
    <3>2. PICK a \in 1..Len(T[i]) : F[p] = T[i][a]
      BY <3>1
    <3>3. <<T[i][a], T[k][b]>> \in R
      <4>1. i < k /\ i \in 1..Len(T) /\ k \in 1..Len(T) /\ b \in 1..Len(T[k])
        BY <1>1 DEF t
      <4> QED
        BY <4>1 DEF Rising
    <3> QED
      BY <1>2, <2>2, <3>2, <3>3 DEF t
  <2>3. ASSUME NEW a \in 1..Len(t), NEW b \in 1..Len(t), p = Len(F) + a, q = Len(F) + b
        PROVE  <<G[p], G[q]>> \in R
    <3>1. a < b
      BY <1>1, <1>6, <2>3
    <3>2. <<T[k][a], T[k][b]>> \in R
      BY <1>1, <3>1 DEF Rising, t
    <3> QED
      BY <1>2, <2>3, <3>2 DEF t
  <2> QED
    BY <1>2, <2>1, <2>2, <2>3
<1> QED
  BY <1>2, <1>4, <1>5, <1>6 DEF Flattens, G, t

\* What FlattenSeq returns.
LEMMA FlattenIs ==
  ASSUME NEW E, NEW T \in Seq(Seq(E)), Len(T) >= 1, NEW R, Rising(T, R)
  PROVE  Flattens(FlattenSeq(T), T, Len(T), E, R)
<1> DEFINE M == Len(T) f == CHOOSE g : IsFlat(g, M, T)
<1>1. M \in Nat /\ M # 0 /\ \A i \in 1..M : T[i] \in Seq(E)
  OBVIOUS
<1>2. FlattenSeq(T) = f[M]
  BY <1>1 DEF FlattenSeq, IsFlat
<1>3. IsFlat(f, M, T)
  BY <1>1, FlatExists
<1> HIDE DEF f
<1>4. /\ f[1] = T[1]
      /\ \A i \in 2..M : f[i] = f[i - 1] \o T[i]
  <2>1. 1 \in 1..M /\ \A i \in 2..M : i \in 1..M /\ i # 1
    BY <1>1
  <2> HIDE DEF M
  <2>2. \A i \in 1..M : f[i] = IF i = 1 THEN T[i] ELSE f[i - 1] \o T[i]
    BY <1>3 DEF IsFlat
  <2> QED
    BY <2>1, <2>2
<1> DEFINE B == {k \in 1..M : ~Flattens(f[k], T, k, E, R)}
<1>5. B = {}
  <2>1. SUFFICES ASSUME B # {} PROVE FALSE
    OBVIOUS
  <2>2. PICK k \in B : \A i \in B : k <= i
    <3>1. B \in SUBSET Nat
      OBVIOUS
    <3> HIDE DEF B
    <3> QED
      BY <2>1, <3>1, NatMin
  <2>3. k \in 1..M /\ ~Flattens(f[k], T, k, E, R)
    BY <2>2
  <2>4. CASE k = 1
    <3>1. T[1] \in Seq(E) /\ 1 \in 1..1 /\ \A i \in 1..1 : i = 1
      BY <1>1
    <3>2. \A p \in 1..Len(T[1]) : \E i \in 1..1 : \E j \in 1..Len(T[i]) : T[1][p] = T[i][j]
      BY <3>1
    <3>3. \A i \in 1..1 : \A j \in 1..Len(T[i]) : \E p \in 1..Len(T[1]) : T[1][p] = T[i][j]
      BY <3>1
    <3>4. \A p, q \in 1..Len(T[1]) : p < q => <<T[1][p], T[1][q]>> \in R
      BY <1>1 DEF Rising
    <3> QED
      BY <1>4, <2>3, <2>4, <3>1, <3>2, <3>3, <3>4 DEF Flattens
  <2>5. CASE k # 1
    <3>1. k \in 2..M /\ k - 1 \in 1..M /\ k - 1 \notin B
      BY <2>2, <2>3, <2>5, SMTT(30)
    <3>2. Flattens(f[k - 1], T, k - 1, E, R)
      BY <3>1
    <3>3. Flattens(f[k - 1] \o T[k], T, k, E, R)
      BY <3>1, <3>2, FlatMore
    <3> QED
      BY <1>4, <2>3, <3>1, <3>3
  <2> QED
    BY <2>4, <2>5
<1>6. M \in 1..M
  BY <1>1
<1> QED
  BY <1>2, <1>5, <1>6

-----------------------------------------------------------------------------
(* The levels of the tree. *)

\* The children of the nodes S, in their order.
Spread(I, S) == FlattenSeq([i \in DOMAIN S |-> I[S[i]].ch])

\* The levels from root r down to depth D, as Level computes them.
IsLevels(v, I, D, r) == v = [d \in 0..D |-> IF d = 0 THEN <<r>> ELSE Spread(I, v[d - 1])]
LevelsOf(I, D, r) == CHOOSE v : IsLevels(v, I, D, r)

\* A recursive function over an interval exists.
LEMMA LevelsExist ==
  ASSUME NEW I, NEW r
  PROVE  \A D \in Nat : \E v : IsLevels(v, I, D, r)
<1> DEFINE B == {D \in Nat : ~ \E v : IsLevels(v, I, D, r)}
<1>1. SUFFICES ASSUME B # {} PROVE FALSE
  OBVIOUS
<1>2. PICK D \in B : \A E \in B : D <= E
  <2>1. B \in SUBSET Nat
    OBVIOUS
  <2> HIDE DEF B
  <2> QED
    BY <1>1, <2>1, NatMin
<1>3. CASE D = 0
  <2> DEFINE v == [d \in 0..0 |-> <<r>>]
  <2>1. \A d \in 0..0 : d = 0
    OBVIOUS
  <2>2. v = [d \in 0..0 |-> IF d = 0 THEN <<r>> ELSE Spread(I, v[d - 1])]
    BY <2>1
  <2> HIDE DEF v
  <2>3. IsLevels(v, I, 0, r)
    BY <2>2 DEF IsLevels
  <2> QED
    BY <1>2, <1>3, <2>3
<1>4. CASE D # 0
  <2>1. D - 1 \in Nat /\ D - 1 \notin B /\ D \in Nat
    BY <1>2, <1>4, SMTT(30)
  <2>2. PICK u : IsLevels(u, I, D - 1, r)
    BY <2>1
  <2> DEFINE v == [d \in 0..D |-> IF d = D THEN Spread(I, u[D - 1]) ELSE u[d]]
  <2>3. \A d \in 0..(D - 1) : u[d] = IF d = 0 THEN <<r>> ELSE Spread(I, u[d - 1])
    BY <2>2 DEF IsLevels
  <2>4. \A d \in 0..D : v[d] = IF d = D THEN Spread(I, u[D - 1]) ELSE u[d]
    OBVIOUS
  <2>5. v = [d \in 0..D |-> v[d]]
    OBVIOUS
  <2> HIDE DEF v
  <2>6. ASSUME NEW d \in 0..D PROVE v[d] = IF d = 0 THEN <<r>> ELSE Spread(I, v[d - 1])
    <3>1. CASE d = D
      <4>1. d - 1 \in 0..D /\ d - 1 # D /\ d # 0
        BY <1>4, <2>1, <3>1
      <4>2. v[d - 1] = u[D - 1]
        BY <2>4, <3>1, <4>1
      <4> QED
        BY <2>4, <3>1, <4>1, <4>2
    <3>2. CASE d # D
      <4>1. d \in 0..(D - 1) /\ (d # 0 => d - 1 \in 0..D /\ d - 1 # D)
        BY <2>1, <3>2
      <4> QED
        BY <2>3, <2>4, <3>2, <4>1
    <3> QED
      BY <3>1, <3>2
  <2>7. IsLevels(v, I, D, r)
    BY <2>5, <2>6 DEF IsLevels
  <2> QED
    BY <1>2, <2>7
<1> QED
  BY <1>3, <1>4

\* Level by level.
LevelByLevel(v, I, D, r) ==
  /\ v[0] = <<r>>
  /\ \A d \in 1..D : v[d] = Spread(I, v[d - 1])

LEMMA LevelSteps ==
  ASSUME NEW I, NEW D \in Nat, NEW r
  PROVE  LevelByLevel(LevelsOf(I, D, r), I, D, r)
<1> DEFINE v == LevelsOf(I, D, r)
<1>1. IsLevels(v, I, D, r)
  BY LevelsExist DEF LevelsOf
<1> HIDE DEF v
<1>2. 0 \in 0..D /\ \A d \in 1..D : d \in 0..D /\ d # 0
  OBVIOUS
<1>3. \A d \in 0..D : v[d] = IF d = 0 THEN <<r>> ELSE Spread(I, v[d - 1])
  BY <1>1 DEF IsLevels
<1> QED
  BY <1>2, <1>3 DEF v, LevelByLevel

\* Level is that function for the nodes of the state.
LEMMA LevelIsLevelsOf ==
  Level = LevelsOf(inners, depth, root)
BY DEF Level, LevelsOf, IsLevels, Spread

\* S has each node of level d of the paths P once, in the order of the keys.
Enumerates(S, P, d) ==
  /\ S \in Seq(Nat)
  /\ \A i \in 1..Len(S) : \E x \in Key : P[x][d] = S[i]
  /\ \A x \in Key : \E i \in 1..Len(S) : P[x][d] = S[i]
  /\ \A i, j \in 1..Len(S) : i < j =>
       \A x, y \in Key : P[x][d] = S[i] /\ P[y][d] = S[j] => x < y

\* The order of two children of a level, by the keys that lead there.
Before(P, d) == {w \in Nat \X Nat : \A x, y \in Key : P[x][d] = w[1] /\ P[y][d] = w[2] => x < y}

\* Keys rise from child to child of a node.
LEMMA ChildrenRise ==
  ASSUME NEW I, NEW D \in Nat, NEW P, TreeInv(I, D, P), Steps(I, D, P),
         NEW x \in Key, NEW y \in Key, NEW d \in 0..(D - 1), P[x][d] = P[y][d],
         NEW a \in 1..Len(I[P[x][d]].ch), NEW b \in 1..Len(I[P[x][d]].ch), a < b,
         P[x][d + 1] = I[P[x][d]].ch[a], P[y][d + 1] = I[P[x][d]].ch[b]
  PROVE  x < y
<1> DEFINE n == I[P[x][d]] i == FindChildrenIdx(n, x) j == FindChildrenIdx(n, y)
<1>1. NodeOK(n)
  BY DEF TreeInv, Inside
<1>2. /\ n \in Inner /\ Len(n.keys) \in Nat /\ Len(n.ch) = Len(n.keys) + 1
      /\ \A m \in 1..Len(n.keys) : n.keys[m] \in Nat
  <2> HIDE DEF n
  <2>1. Len(n.keys) \in 0..N /\ N \in Nat
    BY <1>1, NodeFields, XNodeAssumption
  <2> QED
    BY <1>1, <2>1, NodeFields
<1>3. x \in Nat /\ y \in Nat
  BY XNodeAssumption DEF Key
<1>4. /\ i \in 0..Len(n.keys) /\ j \in 0..Len(n.keys)
      /\ i < Len(n.keys) => x < n.keys[i + 1]
      /\ \A m \in 1..j : n.keys[m] <= y
  BY <1>2, <1>3, ChildrenIdx
<1>5. P[x][d + 1] = n.ch[i + 1] /\ P[y][d + 1] = n.ch[j + 1]
  <2>1. d + 1 \in 1..D /\ (d + 1) - 1 = d
    OBVIOUS
  <2>2. P[x][d + 1] = Route(I[P[x][d]], x) /\ P[y][d + 1] = Route(I[P[y][d]], y)
    BY <2>1 DEF Steps
  <2> QED
    BY <2>2 DEF Route
<1> HIDE DEF n, i, j
<1>6. i + 1 \in 1..Len(n.ch) /\ j + 1 \in 1..Len(n.ch) /\ i \in Nat /\ j \in Nat
  BY <1>2, <1>4
<1>7. \A m, o \in 1..Len(n.ch) : m # o => n.ch[m] # n.ch[o]
  BY <1>1 DEF NodeOK
<1>8. i + 1 = a /\ j + 1 = b
  <2>1. n.ch[i + 1] = n.ch[a] /\ n.ch[j + 1] = n.ch[b] /\ a \in 1..Len(n.ch) /\ b \in 1..Len(n.ch)
    BY <1>5 DEF n
  <2> QED
    BY <1>6, <1>7, <2>1
<1>9. i < j /\ i < Len(n.keys) /\ i + 1 \in 1..j /\ i + 1 \in 1..Len(n.keys)
  <2> DEFINE l == Len(n.keys)
  <2>1. i \in Nat /\ j \in Nat /\ l \in Nat /\ j <= l /\ i < j
    BY <1>2, <1>4, <1>6, <1>8
  <2> HIDE DEF l
  <2>2. i < l /\ i + 1 \in 1..j /\ i + 1 \in 1..l
    BY <2>1
  <2> QED
    BY <2>1, <2>2 DEF l
<1>10. x < n.keys[i + 1] /\ n.keys[i + 1] <= y /\ n.keys[i + 1] \in Nat
  BY <1>2, <1>4, <1>9
<1> QED
  BY <1>3, <1>10

\* From level to level.
LEMMA SpreadEnumerates ==
  ASSUME NEW I, NEW D \in Nat, NEW P, TreeInv(I, D, P), Steps(I, D, P),
         NEW d \in 0..(D - 1), NEW S, Enumerates(S, P, d)
  PROVE  Enumerates(Spread(I, S), P, d + 1)
<1> DEFINE T == [i \in DOMAIN S |-> I[S[i]].ch] F == Spread(I, S) R == Before(P, d + 1)
<1>1. /\ S \in Seq(Nat) /\ Len(S) \in Nat /\ DOMAIN S = 1..Len(S)
      /\ \A i \in 1..Len(S) : \E x \in Key : P[x][d] = S[i]
      /\ \A x \in Key : \E i \in 1..Len(S) : P[x][d] = S[i]
      /\ \A i, j \in 1..Len(S) : i < j =>
           \A x, y \in Key : P[x][d] = S[i] /\ P[y][d] = S[j] => x < y
  <2>1. /\ S \in Seq(Nat)
        /\ \A i \in 1..Len(S) : \E x \in Key : P[x][d] = S[i]
        /\ \A x \in Key : \E i \in 1..Len(S) : P[x][d] = S[i]
        /\ \A i, j \in 1..Len(S) : i < j =>
             \A x, y \in Key : P[x][d] = S[i] /\ P[y][d] = S[j] => x < y
    BY Zenon DEF Enumerates
  <2>2. Len(S) \in Nat /\ DOMAIN S = 1..Len(S)
    BY <2>1
  <2> QED
    BY <2>1, <2>2
<1>2. d + 1 \in 1..D /\ (d + 1) - 1 = d
  OBVIOUS
<1>3. \A i \in 1..Len(S) : I[S[i]].ch \in Seq(Nat) /\ NodeOK(I[S[i]])
  <2> TAKE i \in 1..Len(S)
  <2>1. PICK x \in Key : P[x][d] = S[i]
    BY <1>1
  <2>2. NodeOK(I[S[i]])
    BY <2>1 DEF TreeInv, Inside
  <2>3. I[S[i]].ch \in Seq(Nat \ {Null})
    BY <2>2, NodeFields
  <2> QED
    BY <2>2, <2>3
<1>4. /\ T \in Seq(Seq(Nat)) /\ Len(T) = Len(S) /\ DOMAIN T = 1..Len(S)
      /\ \A i \in 1..Len(S) : T[i] = I[S[i]].ch
  BY <1>1, <1>3
<1>5. Len(T) >= 1
  <2>1. 0 \in Key
    BY XNodeAssumption DEF Key
  <2> QED
    BY <1>1, <1>4, <2>1
<1> HIDE DEF T
<1>6. ASSUME NEW i \in 1..Len(S), NEW a \in 1..Len(T[i])
      PROVE  /\ T[i][a] \in Nat
             /\ \E x \in Key : P[x][d] = S[i] /\ P[x][d + 1] = T[i][a]
             /\ \A x \in Key : P[x][d + 1] = T[i][a] => P[x][d] = S[i]
  <2>1. PICK z \in Key : P[z][d] = S[i]
    BY <1>1
  <2>2. Reached(I, P, z, d)
    BY AllReached, Zenon
  <2>3. a \in 1..Len(I[P[z][d]].ch) /\ T[i][a] = I[P[z][d]].ch[a]
    BY <1>4, <2>1
  <2>4. PICK w \in Key : P[w][d] = P[z][d] /\ P[w][d + 1] = I[P[z][d]].ch[a]
    BY <2>2, <2>3 DEF Reached
  <2>5. \A x \in Key : P[x][d + 1] = P[w][d + 1] => P[x][d] = P[w][d]
    BY <1>2 DEF TreeInv, Forks
  <2>6. T[i][a] \in Nat
    BY <1>3, <1>4
  <2> QED
    BY <2>1, <2>3, <2>4, <2>5, <2>6
<1>7. Rising(T, R)
  <2>1. ASSUME NEW i \in 1..Len(T), NEW j \in 1..Len(T), i < j,
               NEW a \in 1..Len(T[i]), NEW b \in 1..Len(T[j])
        PROVE  <<T[i][a], T[j][b]>> \in R
    <3>1. T[i][a] \in Nat /\ T[j][b] \in Nat
      BY <1>4, <1>6
    <3>2. ASSUME NEW x \in Key, NEW y \in Key, P[x][d + 1] = T[i][a], P[y][d + 1] = T[j][b]
          PROVE  x < y
      <4>1. i \in 1..Len(S) /\ j \in 1..Len(S)
        BY <1>4
      <4>2. P[x][d] = S[i] /\ P[y][d] = S[j]
        BY <1>6, <3>2, <4>1
      <4>3. \A m, o \in 1..Len(S) : m < o =>
              \A v, w \in Key : P[v][d] = S[m] /\ P[w][d] = S[o] => v < w
        BY <1>1, Zenon
      <4>4. \A v, w \in Key : P[v][d] = S[i] /\ P[w][d] = S[j] => v < w
        BY <2>1, <4>1, <4>3, Zenon
      <4> QED
        BY <4>2, <4>4, Zenon
    <3> QED
      BY <3>1, <3>2 DEF Before
  <2>2. ASSUME NEW i \in 1..Len(T), NEW a \in 1..Len(T[i]), NEW b \in 1..Len(T[i]), a < b
        PROVE  <<T[i][a], T[i][b]>> \in R
    <3>1. T[i][a] \in Nat /\ T[i][b] \in Nat
      BY <1>4, <1>6
    <3>2. ASSUME NEW x \in Key, NEW y \in Key, P[x][d + 1] = T[i][a], P[y][d + 1] = T[i][b]
          PROVE  x < y
      <4>0. i \in 1..Len(S)
        BY <1>4
      <4>1. P[x][d] = S[i] /\ P[y][d] = S[i] /\ T[i] = I[P[x][d]].ch
        <5>1. P[x][d] = S[i] /\ P[y][d] = S[i]
          BY <1>6, <3>2, <4>0
        <5>2. T[i] = I[S[i]].ch
          BY <1>4, <4>0
        <5> QED
          BY <5>1, <5>2
      <4>2. P[x][d] = P[y][d] /\ P[x][d + 1] = I[P[x][d]].ch[a] /\ P[y][d + 1] = I[P[x][d]].ch[b]
        BY <3>2, <4>1
      <4>3. a \in 1..Len(I[P[x][d]].ch) /\ b \in 1..Len(I[P[x][d]].ch)
        BY <4>1
      <4> QED
        BY <2>2, <4>2, <4>3, ChildrenRise
    <3> QED
      BY <3>1, <3>2 DEF Before
  <2> QED
    BY <2>1, <2>2 DEF Rising
<1>8. Flattens(F, T, Len(T), Nat, R)
  <2>1. F = FlattenSeq(T)
    BY DEF Spread, T
  <2> HIDE DEF F, R
  <2> QED
    BY <1>4, <1>5, <1>7, <2>1, FlattenIs
<1> HIDE DEF F, R
<1>9. /\ F \in Seq(Nat)
      /\ \A p \in 1..Len(F) : \E i \in 1..Len(S) : \E j \in 1..Len(T[i]) : F[p] = T[i][j]
      /\ \A i \in 1..Len(S) : \A j \in 1..Len(T[i]) : \E p \in 1..Len(F) : F[p] = T[i][j]
      /\ \A p, q \in 1..Len(F) : p < q => <<F[p], F[q]>> \in R
  <2>1. Flattens(F, T, Len(S), Nat, R)
    BY <1>4, <1>8
  <2> QED
    BY <2>1, Zenon DEF Flattens
<1>10. \A p \in 1..Len(F) : \E x \in Key : P[x][d + 1] = F[p]
  <2> TAKE p \in 1..Len(F)
  <2>1. PICK i \in 1..Len(S) : \E j \in 1..Len(T[i]) : F[p] = T[i][j]
    BY <1>9
  <2> QED
    BY <1>6, <2>1
<1>11. \A x \in Key : \E p \in 1..Len(F) : P[x][d + 1] = F[p]
  <2> TAKE x \in Key
  <2>1. PICK i \in 1..Len(S) : P[x][d] = S[i]
    BY <1>1
  <2> DEFINE n == I[S[i]] c == FindChildrenIdx(n, x)
  <2>2. n \in Inner /\ Len(n.ch) = Len(n.keys) + 1 /\ Len(n.keys) \in Nat
    BY <1>3, NodeFields
  <2>3. c \in 0..Len(n.keys)
    <3>1. x \in Nat
      BY XNodeAssumption DEF Key
    <3> QED
      BY <2>2, <3>1, ChildrenIdx
  <2>4. P[x][d + 1] = n.ch[c + 1]
    BY <1>2, <2>1 DEF Steps, Route
  <2>5. c + 1 \in 1..Len(T[i]) /\ T[i] = n.ch
    <3>1. T[i] = n.ch
      BY <1>4
    <3> HIDE DEF c, n
    <3>2. c + 1 \in 1..Len(n.ch)
      BY <2>2, <2>3
    <3> QED
      BY <3>1, <3>2
  <2>6. PICK p \in 1..Len(F) : F[p] = T[i][c + 1]
    <3> HIDE DEF c, n
    <3> QED
      BY <1>9, <2>5
  <2>7. F[p] = P[x][d + 1]
    <3> HIDE DEF c, n
    <3> QED
      BY <2>4, <2>5, <2>6
  <2> QED
    BY <2>7
<1>12. \A p, q \in 1..Len(F) : p < q =>
         \A x, y \in Key : P[x][d + 1] = F[p] /\ P[y][d + 1] = F[q] => x < y
  <2> TAKE p, q \in 1..Len(F)
  <2> HAVE p < q
  <2>1. <<F[p], F[q]>> \in R
    BY <1>9
  <2> QED
    BY <2>1 DEF R, Before
<1> QED
  BY <1>9, <1>10, <1>11, <1>12 DEF Enumerates, F

\* Each level of a tree is enumerated.
LEMMA LevelsEnumerate ==
  ASSUME NEW I, NEW D \in Nat, NEW P, TreeInv(I, D, P), Steps(I, D, P),
         NEW r \in Nat, \A x \in Key : P[x][0] = r
  PROVE  \A d \in 0..D : Enumerates(LevelsOf(I, D, r)[d], P, d)
<1> DEFINE v == LevelsOf(I, D, r) B == {d \in 0..D : ~Enumerates(v[d], P, d)}
<1>1. /\ v[0] = <<r>>
      /\ \A d \in 1..D : v[d] = Spread(I, v[d - 1])
  <2>1. LevelByLevel(LevelsOf(I, D, r), I, D, r)
    BY LevelSteps, Zenon
  <2> QED
    BY <2>1, Zenon DEF LevelByLevel
<1> HIDE DEF v
<1>2. SUFFICES ASSUME B # {} PROVE FALSE
  BY DEF v
<1>3. PICK d \in B : \A e \in B : d <= e
  <2>1. B \in SUBSET Nat
    OBVIOUS
  <2> HIDE DEF B
  <2> QED
    BY <1>2, <2>1, NatMin
<1>4. d \in 0..D /\ ~Enumerates(v[d], P, d)
  BY <1>3
<1>5. CASE d = 0
  <2>1. <<r>> \in Seq(Nat) /\ Len(<<r>>) = 1 /\ <<r>>[1] = r /\ 1 \in 1..1 /\ \A i \in 1..1 : i = 1
    OBVIOUS
  <2>2. 0 \in Key
    BY XNodeAssumption DEF Key
  <2>3. Enumerates(<<r>>, P, 0)
    BY <2>1, <2>2 DEF Enumerates
  <2> QED
    BY <1>1, <1>4, <1>5, <2>3
<1>6. CASE d # 0
  <2>1. d - 1 \in 0..(D - 1) /\ d - 1 \notin B /\ d - 1 \in 0..D /\ d \in 1..D /\ (d - 1) + 1 = d
    BY <1>3, <1>4, <1>6, SMTT(30)
  <2>2. Enumerates(v[d - 1], P, d - 1)
    BY <2>1
  <2>3. Enumerates(Spread(I, v[d - 1]), P, (d - 1) + 1)
    BY <2>1, <2>2, SpreadEnumerates
  <2> QED
    BY <1>1, <1>4, <2>1, <2>3
<1> QED
  BY <1>5, <1>6

-----------------------------------------------------------------------------
(* The inductive invariant of the list. *)

\* Leaf n is the one behind the leaf of key x: y is the least key that leads there.
NextAt(n, H, x) ==
  /\ n = Null => \A y \in Key : y > x => H[y] = H[x]
  /\ n # Null => /\ n # H[x]
                 /\ \E y \in Key : /\ y > x /\ H[y] = n
                                   /\ \A z \in Key : z > x => H[z] = H[x] \/ y <= z

\* The links of the leaves, in the order of the keys that lead to them.
LinksOK(L, H) == \A x \in Key : NextAt(L[H[x]].next, H, x)

\* Below an inner node no leaf is less than half full.
HalfFull(L, H, D) == D > 0 => \A x \in Key : NumKeys(L[H[x]]) >= N \div 2

\* A leaf is in the tree or the spare one of a thread.
Owned(L, H, r, p, c) ==
  \A i \in DOMAIN L : \/ r # Null /\ \E x \in Key : H[x] = i
                      \/ \E t \in Threads : Spare(p[t], c[t]) /\ p[t] = i

ListInv ==
  /\ root # Null => LinksOK(leaves, HomeMap) /\ HalfFull(leaves, HomeMap, depth)
  /\ Owned(leaves, HomeMap, root, pre, pc)

\* The list S has each leaf of the homes H once, in the order of the keys.
Lists(S, H) ==
  /\ S \in Seq(Nat)
  /\ \A i \in 1..Len(S) : \E x \in Key : H[x] = S[i]
  /\ \A x \in Key : \E i \in 1..Len(S) : H[x] = S[i]
  /\ \A i, j \in 1..Len(S) : i < j =>
       \A x, y \in Key : H[x] = S[i] /\ H[y] = S[j] => x < y

\* The keys of a leaf have no key of another leaf between them.
Convex(H) == \A x, y, z \in Key : x < z /\ z < y /\ H[x] = H[y] => H[z] = H[x]

-----------------------------------------------------------------------------
(* The list of a state. *)

\* The leaves in tree order are a list of the homes.
LEMMA ListNow ==
  ASSUME XInv, root # Null
  PROVE  Lists(LinkedLeaves, HomesOf(inners, depth, root))
<1> DEFINE P == PathsOf(inners, depth, root) H == HomesOf(inners, depth, root)
           S == LevelsOf(inners, depth, root)[depth]
<1>1. TreeInv(inners, depth, P) /\ depth \in Nat /\ root \in Nat
  BY XInvParts DEF TypeOK
<1>2. Steps(inners, depth, P) /\ \A x \in Key : P[x][0] = root
  BY <1>1, PathsOfSteps
<1> HIDE DEF P
<1>3. Enumerates(S, P, depth)
  <2>1. depth \in 0..depth
    BY <1>1
  <2> QED
    BY <1>1, <1>2, <2>1, LevelsEnumerate
<1>4. \A x \in Key : H[x] = P[x][depth]
  BY DEF HomesOf, P
<1>5. LinkedLeaves = S
  BY LevelIsLevelsOf DEF LinkedLeaves
<1> HIDE DEF S, H
<1>6. /\ S \in Seq(Nat)
      /\ \A i \in 1..Len(S) : \E x \in Key : P[x][depth] = S[i]
      /\ \A x \in Key : \E i \in 1..Len(S) : P[x][depth] = S[i]
      /\ \A i, j \in 1..Len(S) : i < j =>
           \A x, y \in Key : P[x][depth] = S[i] /\ P[y][depth] = S[j] => x < y
  BY <1>3, Zenon DEF Enumerates
<1>7. Lists(S, H)
  BY <1>4, <1>6 DEF Lists
<1> QED
  BY <1>5, <1>7 DEF H

\* The keys of the leaves of a list rise.
LEMMA ListOrder ==
  ASSUME NEW S, NEW H, Lists(S, H), NEW i \in 1..Len(S), NEW j \in 1..Len(S), i < j,
         NEW x \in Key, NEW y \in Key, H[x] = S[i], H[y] = S[j]
  PROVE  x < y
BY DEF Lists

\* A list of the homes shows that they are convex.
LEMMA ListConvex ==
  ASSUME NEW S, NEW H, Lists(S, H)
  PROVE  Convex(H)
<1> SUFFICES ASSUME NEW x \in Key, NEW y \in Key, NEW z \in Key, x < z, z < y, H[x] = H[y], H[z] # H[x]
             PROVE  FALSE
  BY DEF Convex
<1>1. /\ S \in Seq(Nat)
      /\ \A w \in Key : \E i \in 1..Len(S) : H[w] = S[i]
      /\ \A i, j \in 1..Len(S) : i < j =>
           \A v, w \in Key : H[v] = S[i] /\ H[w] = S[j] => v < w
  BY Zenon DEF Lists
<1>2. x \in Nat /\ y \in Nat /\ z \in Nat
  BY XNodeAssumption DEF Key
<1>3. PICK i \in 1..Len(S) : H[x] = S[i]
  BY <1>1
<1>4. PICK j \in 1..Len(S) : H[z] = S[j]
  BY <1>1
<1>5. i # j /\ i \in Nat /\ j \in Nat
  BY <1>1, <1>3, <1>4
<1>6. CASE i < j
  <2>1. y < z
    BY <1>3, <1>4, <1>6, ListOrder
  <2> QED
    BY <1>2, <2>1
<1>7. CASE j < i
  <2>1. z < x
    BY <1>3, <1>4, <1>7, ListOrder
  <2> QED
    BY <1>2, <2>1
<1> QED
  BY <1>5, <1>6, <1>7

\* A key in the leaf of another key leads there too.
LEMMA KeyLeadsHome ==
  ASSUME NEW L \in Seq(Leaf), NEW A, NEW H, LeafInv(L, A, H), NEW x \in Key, NEW a \in LeafKeys(L[H[x]])
  PROVE  a \in Key /\ H[a] = H[x]
<1>1. L[H[x]] \in Leaf /\ \A e \in Entries(L[H[x]]) : e[1] \in Key /\ H[e[1]] = H[x]
  BY DEF LeafInv
<1>2. PICK v : <<a, v>> \in Entries(L[H[x]])
  BY <1>1, EntryKeys
<1>3. <<a, v>>[1] \in Key /\ H[<<a, v>>[1]] = H[x]
  BY <1>1, <1>2
<1> QED
  BY <1>3

\* The links of a list of homes are its order, and its keys rise.
LEMMA LinksSort ==
  ASSUME NEW S, NEW H, Lists(S, H), NEW L, NEW A, LinksOK(L, H), LeafInv(L, A, H), L \in Seq(Leaf),
         NEW i \in DOMAIN S
  PROVE  /\ L[S[i]].next = IF i = Len(S) THEN Null ELSE S[i + 1]
         /\ i < Len(S) => \A a \in LeafKeys(L[S[i]]), b \in LeafKeys(L[S[i + 1]]) : a < b
<1>1. /\ S \in Seq(Nat)
      /\ \A j \in 1..Len(S) : \E x \in Key : H[x] = S[j]
      /\ \A w \in Key : \E j \in 1..Len(S) : H[w] = S[j]
      /\ \A m, j \in 1..Len(S) : m < j =>
           \A v, w \in Key : H[v] = S[m] /\ H[w] = S[j] => v < w
  BY Zenon DEF Lists
<1>2. Len(S) \in Nat /\ i \in 1..Len(S) /\ i \in Nat /\ i <= Len(S)
  BY <1>1
<1>3. \A x \in Key : x \in Nat
  BY XNodeAssumption DEF Key
<1>4. PICK x \in Key : H[x] = S[i]
  BY <1>1, <1>2
<1> DEFINE n == L[S[i]].next
<1>5. NextAt(n, H, x)
  BY <1>4 DEF LinksOK
<1> HIDE DEF n
<1>6. CASE i = Len(S)
  <2>1. SUFFICES ASSUME n # Null PROVE FALSE
    BY <1>2, <1>6 DEF n
  <2>2. PICK y \in Key : y > x /\ H[y] = n /\ n # H[x]
    BY <1>5, <2>1 DEF NextAt
  <2>3. PICK j \in 1..Len(S) : H[y] = S[j]
    BY <1>1
  <2>4. j < i
    BY <1>2, <1>4, <1>6, <2>2, <2>3
  <2>5. y < x
    BY <1>2, <1>4, <2>3, <2>4, ListOrder
  <2> QED
    BY <1>3, <2>2, <2>5
<1>7. CASE i # Len(S)
  <2>1. i < Len(S) /\ i + 1 \in 1..Len(S) /\ i < i + 1
    BY <1>2, <1>7
  <2>2. PICK z \in Key : H[z] = S[i + 1]
    BY <1>1, <2>1
  <2>3. x < z
    BY <1>2, <1>4, <2>1, <2>2, ListOrder
  <2>4. H[z] # H[x]
    <3>1. H[z] = H[x] => x < x
      BY <1>2, <1>4, <2>1, <2>2, ListOrder
    <3> QED
      BY <1>3, <3>1
  <2>5. n # Null /\ n # H[x]
    BY <1>3, <1>5, <2>3, <2>4 DEF NextAt
  <2>6. PICK y \in Key : y > x /\ H[y] = n /\ \A w \in Key : w > x => H[w] = H[x] \/ y <= w
    BY <1>5, <2>5 DEF NextAt
  <2>7. y <= z
    BY <1>3, <2>3, <2>4, <2>6
  <2>8. PICK j \in 1..Len(S) : H[y] = S[j]
    BY <1>1
  <2>9. j # i /\ j \in Nat
    BY <1>2, <1>4, <2>5, <2>6, <2>8
  <2>10. ~(j < i)
    <3>1. j < i => y < x
      BY <1>2, <1>4, <2>8, ListOrder
    <3> QED
      BY <1>3, <2>6, <3>1
  <2>11. ~(i + 1 < j)
    <3>1. i + 1 < j => z < y
      BY <2>1, <2>2, <2>8, ListOrder
    <3> QED
      BY <1>3, <2>7, <3>1
  <2>12. j = i + 1
    BY <1>2, <2>9, <2>10, <2>11
  <2>13. ASSUME NEW a \in LeafKeys(L[S[i]]), NEW b \in LeafKeys(L[S[i + 1]])
         PROVE  a < b
    <3>1. a \in Key /\ H[a] = H[x]
      BY <1>4, KeyLeadsHome
    <3>2. b \in Key /\ H[b] = H[z]
      BY <2>2, KeyLeadsHome
    <3> QED
      BY <1>2, <1>4, <2>1, <2>2, <3>1, <3>2, ListOrder
  <2> QED
    BY <1>7, <2>6, <2>8, <2>12, <2>13 DEF n
<1> QED
  BY <1>2, <1>6, <1>7 DEF n

-----------------------------------------------------------------------------
(* A split, and the list. *)

\* The two halves of a split leaf: their links, and how full they are.
LEMMA HalvesLinked ==
  ASSUME NEW L, NEW A, NEW H, NEW k, NEW m, NEW c, SplitReady(L, A, H, k, m, c)
  PROVE  LET l == L[H[k]]
             left  == SplitLeft(l, m, k, ValOf(k), c)
             right == SplitRight(l, L[c], m, k, ValOf(k))
         IN /\ left.next = c /\ right.next = l.next
            /\ NumKeys(left) >= N \div 2 /\ NumKeys(right) >= N \div 2
<1> DEFINE l == L[H[k]] v == ValOf(k)
<1>0. /\ L \in Seq(Leaf) /\ LeafInv(L, A, H)
      /\ k \in Key /\ Free(l) = {} /\ k \notin LeafKeys(l)
      /\ m \in MedianSlots(l)
      /\ c \in DOMAIN L /\ L[c] = EmptyLeaf
  BY DEF SplitReady
<1>1. l \in Leaf /\ Unique(l) /\ c \in Nat
  BY <1>0 DEF LeafInv
<1>2. v \in Nat
  BY <1>0, XNodeAssumption DEF ValOf, Key
<1> HIDE DEF l, v
<1>3. /\ SplitLeft(l, m, k, v, c).next = c /\ SplitRight(l, EmptyLeaf, m, k, v).next = l.next
      /\ NumKeys(SplitLeft(l, m, k, v, c)) >= N \div 2
      /\ NumKeys(SplitRight(l, EmptyLeaf, m, k, v)) >= N \div 2
  BY <1>0, <1>1, <1>2, SplitHalves
<1> QED
  BY <1>0, <1>3 DEF l, v

\* What the list depends on of a split of leaf h at pivot into leaf c.
PartedAt(L, L2, H, G, k, c, h, pivot) ==
  /\ k \in Key /\ pivot \in Key /\ h = H[k] /\ H[pivot] = h /\ \E y \in Key : H[y] = h /\ y < pivot
  /\ h # c /\ c # Null /\ h # Null /\ DOMAIN L2 = DOMAIN L
  /\ \A y \in Key : H[y] # c /\ H[y] \in DOMAIN L
  /\ \A y \in Key : G[y] = IF H[y] = h /\ y >= pivot THEN c ELSE H[y]
  /\ \A i \in DOMAIN L : i # h /\ i # c => L2[i] = L[i]
  /\ L2[h].next = c /\ L2[c].next = L[h].next
  /\ NumKeys(L2[h]) >= N \div 2 /\ NumKeys(L2[c]) >= N \div 2

LEMMA PartedIs ==
  ASSUME NEW L, NEW L2, NEW A, NEW H, NEW G, NEW k, NEW c, Parted(L, L2, H, G, A, k, c)
  PROVE  \E h, pivot : PartedAt(L, L2, H, G, k, c, h, pivot)
<1>1. PICK m \in Slot :
        LET h == H[k] IN
        /\ SplitReady(L, A, H, k, m, c)
        /\ L2 = [L EXCEPT ![h] = SplitLeft(L[h], m, k, ValOf(k), c),
                          ![c] = SplitRight(L[h], L[c], m, k, ValOf(k))]
        /\ G = HomesSplit(H, h, L[h].keys[m], c)
  BY DEF Parted
<1> DEFINE h == H[k] pivot == L[h].keys[m]
           left == SplitLeft(L[h], m, k, ValOf(k), c) right == SplitRight(L[h], L[c], m, k, ValOf(k))
           M == [L EXCEPT ![h] = left, ![c] = right]
<1>2. /\ L \in Seq(Leaf) /\ k \in Key /\ c \in DOMAIN L /\ \A x \in Key : H[x] # c
      /\ \A x \in Key : H[x] \in DOMAIN L
  BY <1>1 DEF SplitReady, LeafInv
<1>3. SplitReady(L, A, H, k, m, c)
  BY <1>1
<1>4. /\ pivot \in Key /\ H[pivot] = h /\ (\E y \in Key : H[y] = h /\ y < pivot)
      /\ h # c /\ \A i \in DOMAIN L : i # h /\ i # c => M[i] = L[i]
  <2>1. /\ pivot \in Key /\ H[pivot] = h /\ \E y \in Key : H[y] = h /\ y < pivot
        /\ SplitFits(L[h], L[c], m, k) /\ right.keys[0] = pivot
        /\ M \in Seq(Leaf) /\ Len(M) = Len(L) /\ DOMAIN M = DOMAIN L
        /\ h # c /\ \A i \in DOMAIN L : i # h /\ i # c => M[i] = L[i]
        /\ LeafInv(M, A, HomesSplit(H, h, pivot, c))
        /\ \A y \in Key : y \in LeafKeys(M[HomesSplit(H, h, pivot, c)[y]]) <=> y = k \/ y \in LeafKeys(L[H[y]])
        /\ M[h].incarnation # L[h].incarnation
        /\ \A a \in LeafKeys(L[h]) \ LeafKeys(M[h]), b \in LeafKeys(M[h]) : a > b
    BY <1>3, SplitPut, ZenonT(60)
  <2> HIDE DEF M, h, pivot, right
  <2> QED
    BY <2>1
<1>5. /\ left.next = c /\ right.next = L[h].next
      /\ NumKeys(left) >= N \div 2 /\ NumKeys(right) >= N \div 2
  BY <1>3, HalvesLinked
<1>6. L2 = M
  BY <1>1
<1> HIDE DEF left, right, pivot
<1>7. M[h] = left /\ M[c] = right /\ DOMAIN M = DOMAIN L
  BY <1>2, <1>4
<1>8. \A x \in Key : G[x] = IF H[x] = h /\ x >= pivot THEN c ELSE H[x]
  BY <1>1 DEF HomesSplit, pivot
<1>9. c # Null /\ h # Null
  BY <1>2 DEF Null
<1> HIDE DEF M
<1>10. PartedAt(L, L2, H, G, k, c, h, pivot)
  BY <1>2, <1>4, <1>5, <1>6, <1>7, <1>8, <1>9 DEF PartedAt
<1> QED
  BY <1>10

\* Links after a split.
LEMMA LinksSplit ==
  ASSUME NEW L, NEW L2, NEW H, NEW G, NEW k, NEW c, NEW h, NEW pivot,
         PartedAt(L, L2, H, G, k, c, h, pivot), Convex(H), LinksOK(L, H)
  PROVE  LinksOK(L2, G)
<1> SUFFICES ASSUME NEW x \in Key PROVE NextAt(L2[G[x]].next, G, x)
  BY DEF LinksOK
<1>0. /\ k \in Key /\ pivot \in Key /\ h = H[k] /\ H[pivot] = h
      /\ h # c /\ c # Null /\ h # Null
      /\ \A y \in Key : H[y] # c /\ H[y] \in DOMAIN L
      /\ \A y \in Key : G[y] = IF H[y] = h /\ y >= pivot THEN c ELSE H[y]
      /\ \A i \in DOMAIN L : i # h /\ i # c => L2[i] = L[i]
      /\ L2[h].next = c /\ L2[c].next = L[h].next
  BY DEF PartedAt
<1>1. PICK y0 \in Key : H[y0] = h /\ y0 < pivot
  BY DEF PartedAt
<1>2. \A z \in Key : z \in Nat
  BY XNodeAssumption DEF Key
<1>3. NextAt(L[H[x]].next, H, x)
  BY DEF LinksOK
<1>4. CASE H[x] = h /\ x >= pivot
  <2> DEFINE n == L[h].next
  <2>1. G[x] = c /\ L2[G[x]].next = n /\ NextAt(n, H, x)
    BY <1>0, <1>3, <1>4
  <2> HIDE DEF n
  <2>2. \A z \in Key : z > x /\ H[z] = h => G[z] = c
    BY <1>0, <1>2, <1>4
  <2>3. CASE n = Null
    <3>1. \A y \in Key : y > x => H[y] = h
      BY <1>4, <2>1, <2>3 DEF NextAt
    <3> QED
      BY <2>1, <2>2, <2>3, <3>1 DEF NextAt
  <2>4. CASE n # Null
    <3>1. PICK y \in Key : /\ n # h /\ y > x /\ H[y] = n
                           /\ \A z \in Key : z > x => H[z] = h \/ y <= z
      BY <1>4, <2>1, <2>4 DEF NextAt
    <3>2. G[y] = n /\ n # c
      BY <1>0, <3>1
    <3>3. \A z \in Key : z > x => G[z] = c \/ y <= z
      BY <2>2, <3>1
    <3> QED
      BY <2>1, <2>4, <3>1, <3>2, <3>3 DEF NextAt
  <2> QED
    BY <2>3, <2>4
<1>5. CASE H[x] = h /\ x < pivot
  <2>1. G[x] = h /\ L2[G[x]].next = c
    BY <1>0, <1>2, <1>5
  <2>2. G[pivot] = c /\ pivot > x
    BY <1>0, <1>2, <1>5
  <2>3. ASSUME NEW z \in Key, z > x, ~(pivot <= z)
        PROVE  G[z] = h
    <3>1. x < z /\ z < pivot
      BY <1>0, <1>2, <2>3
    <3>2. H[z] = h
      BY <1>0, <1>5, <3>1 DEF Convex
    <3> QED
      BY <1>0, <1>2, <3>1, <3>2
  <2>4. \A z \in Key : z > x => G[z] = G[x] \/ pivot <= z
    BY <2>1, <2>3
  <2>5. c # Null /\ c # G[x] /\ pivot \in Key /\ G[pivot] = c
    BY <1>0, <2>1, <2>2
  <2>6. NextAt(c, G, x)
    BY <2>2, <2>4, <2>5 DEF NextAt
  <2> QED
    BY <2>1, <2>6
<1>6. CASE H[x] # h
  <2> DEFINE n == L[H[x]].next
  <2>1. G[x] = H[x] /\ L2[G[x]].next = n /\ NextAt(n, H, x)
    BY <1>0, <1>3, <1>6
  <2> HIDE DEF n
  <2>2. \A z \in Key : H[z] = H[x] => G[z] = G[x]
    BY <1>0, <1>6, <2>1
  <2>3. CASE n = Null
    <3>1. \A y \in Key : y > x => H[y] = H[x]
      BY <2>1, <2>3 DEF NextAt
    <3> QED
      BY <2>1, <2>2, <2>3, <3>1 DEF NextAt
  <2>4. CASE n # Null
    <3>1. PICK y \in Key : /\ n # H[x] /\ y > x /\ H[y] = n
                           /\ \A z \in Key : z > x => H[z] = H[x] \/ y <= z
      BY <2>1, <2>4 DEF NextAt
    <3>2. G[y] = n
      <4>1. CASE n = h
        <5>1. y0 # x
          BY <1>1, <1>6
        <5>2. ~(y0 < x)
          <6>1. SUFFICES ASSUME y0 < x PROVE FALSE
            OBVIOUS
          <6>2. H[x] = H[y0]
            BY <1>1, <3>1, <4>1, <6>1 DEF Convex
          <6> QED
            BY <1>1, <1>6, <6>2
        <5>3. y0 > x
          BY <1>2, <5>1, <5>2
        <5>4. y <= y0
          BY <1>1, <1>6, <3>1, <5>3
        <5>5. y < pivot /\ ~(y >= pivot)
          BY <1>1, <1>2, <5>4, <1>0
        <5> QED
          BY <1>0, <3>1, <5>5
      <4>2. CASE n # h
        BY <1>0, <3>1, <4>2
      <4> QED
        BY <4>1, <4>2
    <3>3. \A z \in Key : z > x => G[z] = G[x] \/ y <= z
      BY <2>2, <3>1
    <3>4. n # G[x]
      BY <2>1, <3>1
    <3> QED
      BY <2>1, <2>4, <3>1, <3>2, <3>3, <3>4 DEF NextAt
  <2> QED
    BY <2>3, <2>4
<1>7. x >= pivot \/ x < pivot
  BY <1>0, <1>2
<1> QED
  BY <1>4, <1>5, <1>6, <1>7

\* How full the leaves are after a split.
LEMMA HalfSplit ==
  ASSUME NEW L, NEW L2, NEW H, NEW G, NEW k, NEW c, NEW h, NEW pivot,
         PartedAt(L, L2, H, G, k, c, h, pivot),
         NEW D, NEW E, HalfFull(L, H, D), D > 0 \/ \A x \in Key : H[x] = h
  PROVE  HalfFull(L2, G, E)
<1> SUFFICES ASSUME NEW x \in Key PROVE NumKeys(L2[G[x]]) >= N \div 2
  BY DEF HalfFull
<1>1. /\ \A y \in Key : H[y] # c /\ H[y] \in DOMAIN L
      /\ \A y \in Key : G[y] = IF H[y] = h /\ y >= pivot THEN c ELSE H[y]
      /\ \A i \in DOMAIN L : i # h /\ i # c => L2[i] = L[i]
      /\ NumKeys(L2[h]) >= N \div 2 /\ NumKeys(L2[c]) >= N \div 2
  BY DEF PartedAt
<1>2. CASE H[x] = h
  BY <1>1, <1>2
<1>3. CASE H[x] # h
  <2>1. G[x] = H[x] /\ L2[G[x]] = L[H[x]]
    BY <1>1, <1>3
  <2>2. NumKeys(L[H[x]]) >= N \div 2
    BY <1>3 DEF HalfFull
  <2> QED
    BY <2>1, <2>2
<1> QED
  BY <1>2, <1>3

-----------------------------------------------------------------------------
(* An insertion in place, and the list. *)

\* The links after an insertion in place.
LEMMA LinksPlaced ==
  ASSUME NEW L \in Seq(Leaf), NEW L2, NEW H, NEW G, NEW r, NEW k \in Key, NEW c \in DOMAIN L,
         Placed(L, L2, H, G, r, k, c),
         r = Null => L[c] = EmptyLeaf,
         r # Null => LinksOK(L, H) /\ \A x \in Key : H[x] \in DOMAIN L
  PROVE  LinksOK(L2, G)
<1>1. /\ \A x \in Key : G[x] = IF r = Null THEN c ELSE H[x]
      /\ Free(L[G[k]]) # {} /\ L2 = [L EXCEPT ![G[k]] = Add(L[G[k]], k, ValOf(k))]
  BY DEF Placed
<1>2. \A x \in Key : G[x] \in DOMAIN L
  BY <1>1
<1>3. L[G[k]] \in Leaf /\ ValOf(k) \in Nat
  <2>1. k \in Nat
    BY XNodeAssumption DEF Key
  <2> QED
    BY <1>2, <2>1 DEF ValOf
<1>4. Add(L[G[k]], k, ValOf(k)).next = L[G[k]].next
  BY <1>1, <1>3, AddEntry
<1>5. \A i \in DOMAIN L : L2[i].next = L[i].next
  <2> DEFINE a == Add(L[G[k]], k, ValOf(k))
  <2>1. \A i \in DOMAIN L : L2[i] = IF i = G[k] THEN a ELSE L[i]
    BY <1>1
  <2> HIDE DEF a
  <2> QED
    BY <1>4, <2>1 DEF a
<1> SUFFICES ASSUME NEW x \in Key PROVE NextAt(L2[G[x]].next, G, x)
  BY DEF LinksOK
<1>6. L2[G[x]].next = L[G[x]].next
  BY <1>2, <1>5
<1>7. CASE r = Null
  <2>1. L2[G[x]].next = Null
    BY <1>1, <1>6, <1>7 DEF EmptyLeaf
  <2>2. \A y \in Key : G[y] = G[x]
    BY <1>1, <1>7
  <2> QED
    BY <2>1, <2>2 DEF NextAt
<1>8. CASE r # Null
  <2>1. \A y \in Key : G[y] = H[y]
    BY <1>1, <1>8
  <2>2. NextAt(L[H[x]].next, H, x)
    BY <1>8 DEF LinksOK
  <2> DEFINE n == L[H[x]].next
  <2>3. L2[G[x]].next = n
    BY <1>6, <2>1
  <2> HIDE DEF n
  <2>4. NextAt(n, H, x)
    BY <2>2 DEF n
  <2>5. NextAt(n, G, x)
    BY <2>1, <2>4 DEF NextAt
  <2> QED
    BY <2>3, <2>5
<1> QED
  BY <1>7, <1>8

\* The keys an insertion leaves in a leaf.
LEMMA HalfPlaced ==
  ASSUME NEW L \in Seq(Leaf), NEW L2 \in Seq(Leaf), NEW A, NEW H, NEW G, NEW r, NEW k, NEW c, NEW D,
         Placed(L, L2, H, G, r, k, c), D > 0 => r # Null, r # Null => LeafInv(L, A, H),
         \A i \in DOMAIN L : LeafKeys(L[i]) \subseteq LeafKeys(L2[i]), DOMAIN L2 = DOMAIN L,
         r # Null => HalfFull(L, H, D)
  PROVE  HalfFull(L2, G, D)
<1> SUFFICES ASSUME D > 0, NEW x \in Key PROVE NumKeys(L2[G[x]]) >= N \div 2
  BY DEF HalfFull
<1>1. G[x] = H[x] /\ H[x] \in DOMAIN L /\ Unique(L[H[x]])
  BY DEF Placed, LeafInv
<1>2. NumKeys(L[H[x]]) >= N \div 2
  BY DEF HalfFull
<1>3. NumKeys(L[H[x]]) <= NumKeys(L2[H[x]]) /\ NumKeys(L[H[x]]) \in Nat /\ NumKeys(L2[H[x]]) \in Nat
  BY <1>1, KeysGrow
<1>4. N \div 2 \in Nat
  BY XNodeAssumption
<1> QED
  BY <1>1, <1>2, <1>3, <1>4

-----------------------------------------------------------------------------
(* The list from state to state. *)

\* The invariant of the list, and of the next state, from constants.
LEMMA ListParts ==
  /\ ListInv <=> /\ root # Null => LinksOK(leaves, HomesOf(inners, depth, root))
                                   /\ HalfFull(leaves, HomesOf(inners, depth, root), depth)
                 /\ Owned(leaves, HomesOf(inners, depth, root), root, pre, pc)
  /\ ListInv' <=> /\ root' # Null => LinksOK(leaves', HomesOf(inners', depth', root'))
                                     /\ HalfFull(leaves', HomesOf(inners', depth', root'), depth')
                  /\ Owned(leaves', HomesOf(inners', depth', root'), root', pre', pc')
BY PathsNow, PathsNext DEF ListInv

\* A step that at most allocates a leaf keeps the list, and an allocated leaf is
\* the spare one of its thread.
LEMMA QuietList ==
  ASSUME XInv, ListInv, UNCHANGED <<inners, depth, root>>,
         \/ leaves' = leaves /\ \A u \in Threads : Spare(pre[u], pc[u]) =>
                                   Spare(pre'[u], pc'[u]) /\ pre'[u] = pre[u]
         \/ /\ leaves' = Append(leaves, EmptyLeaf)
            /\ \E t \in Threads : /\ ~Spare(pre[t], pc[t])
                                  /\ Spare(pre'[t], pc'[t]) /\ pre'[t] = Len(leaves) + 1
                                  /\ \A u \in Threads : u # t => pre'[u] = pre[u] /\ pc'[u] = pc[u]
  PROVE  ListInv'
<1> DEFINE H == HomesOf(inners, depth, root)
<1>1. /\ leaves \in Seq(Leaf) /\ (root # Null => LeafInv(leaves, asked, H))
      /\ root # Null => LinksOK(leaves, H) /\ HalfFull(leaves, H, depth)
      /\ Owned(leaves, H, root, pre, pc)
  BY XInvParts, ListParts DEF TypeOK
<1>2. H = HomesOf(inners', depth', root')
  OBVIOUS
<1> HIDE DEF H
<1>3. /\ \A i \in DOMAIN leaves : leaves'[i] = leaves[i]
      /\ \A i \in DOMAIN leaves' : i \in DOMAIN leaves \/ (leaves' # leaves /\ i = Len(leaves) + 1)
  <2>1. CASE leaves' = leaves
    BY <2>1
  <2>2. CASE leaves' = Append(leaves, EmptyLeaf)
    <3>1. /\ DOMAIN leaves = 1..Len(leaves) /\ DOMAIN leaves' = 1..(Len(leaves) + 1)
          /\ \A i \in DOMAIN leaves : leaves'[i] = leaves[i]
          /\ Len(leaves') = Len(leaves) + 1 /\ Len(leaves) \in Nat
      BY <1>1, <2>2, Allocates
    <3>2. leaves' # leaves
      BY <3>1
    <3> QED
      BY <3>1, <3>2
  <2> QED
    BY <2>1, <2>2
<1>4. ASSUME root # Null PROVE LinksOK(leaves', H) /\ HalfFull(leaves', H, depth)
  <2>1. \A x \in Key : leaves'[H[x]] = leaves[H[x]]
    BY <1>1, <1>3, <1>4 DEF LeafInv
  <2> QED
    BY <1>1, <1>4, <2>1 DEF LinksOK, HalfFull
<1>5. \A u \in Threads : Spare(pre[u], pc[u]) => Spare(pre'[u], pc'[u]) /\ pre'[u] = pre[u]
  OBVIOUS
<1>6. Owned(leaves', H, root, pre', pc')
  <2> SUFFICES ASSUME NEW i \in DOMAIN leaves'
               PROVE  \/ root # Null /\ \E x \in Key : H[x] = i
                      \/ \E t \in Threads : Spare(pre'[t], pc'[t]) /\ pre'[t] = i
    BY DEF Owned
  <2>1. CASE i \in DOMAIN leaves
    BY <1>1, <1>5, <2>1 DEF Owned
  <2>2. CASE i = Len(leaves) + 1 /\ leaves' # leaves
    BY <2>2
  <2> QED
    BY <1>3, <2>1, <2>2
<1> QED
  BY <1>2, <1>4, <1>6, ListParts

\* insert_core in place keeps the list.
LEMMA PlaceList ==
  ASSUME XInv, ListInv, NEW t \in Threads, InsertInPlace(t)
  PROVE  ListInv'
<1> DEFINE H == HomesOf(inners, depth, root) G == HomesOf(inners', depth', root') c == pre[t]
<1>1. /\ leaves \in Seq(Leaf) /\ (root # Null => LeafInv(leaves, asked, H))
      /\ (root = Null => depth = 0) /\ arg[t] \in Key /\ pre[t] \in 0..Len(leaves)
      /\ pc \in [Threads -> {"idle", "core", "take"}]
      /\ ThreadInv(leaves, asked, H, root, pre, pc, arg)
  BY XInvParts DEF TypeOK
<1>2. /\ root # Null => LinksOK(leaves, H) /\ HalfFull(leaves, H, depth)
      /\ Owned(leaves, H, root, pre, pc)
  BY ListParts
<1>3. /\ XInv'
      /\ \A i \in DOMAIN leaves : LeafKeys(leaves[i]) \subseteq LeafKeys(leaves'[i])
      /\ Placed(leaves, leaves', H, G, root, arg[t], c)
  BY PlaceInv
<1>4. /\ pc[t] = "core" /\ depth' = depth /\ pre' = pre
      /\ root' = IF root = Null THEN c ELSE root
      /\ pc' = [pc EXCEPT ![t] = IF root = Null THEN "take" ELSE "idle"]
      /\ DOMAIN leaves' = DOMAIN leaves
  BY DEF InsertInPlace
<1>5. leaves' \in Seq(Leaf)
  BY <1>3 DEF XInv, TypeOK
<1> HIDE DEF H, G
<1>6. c # Null /\ c \in DOMAIN leaves /\ leaves[c] = EmptyLeaf
  <2>1. c # Null /\ leaves[c] = EmptyLeaf
    BY <1>1, <1>4 DEF ThreadInv, Spare
  <2> QED
    BY <1>1, <2>1 DEF Null
<1>7. LinksOK(leaves', G)
  <2>1. root # Null => LinksOK(leaves, H) /\ \A x \in Key : H[x] \in DOMAIN leaves
    BY <1>1, <1>2 DEF LeafInv
  <2> QED
    BY <1>1, <1>3, <1>6, <2>1, LinksPlaced
<1>8. HalfFull(leaves', G, depth)
  <2>1. depth > 0 => root # Null
    BY <1>1
  <2> QED
    BY <1>1, <1>2, <1>3, <1>4, <1>5, <2>1, HalfPlaced
<1>9. Owned(leaves', G, root', pre', pc')
  <2> SUFFICES ASSUME NEW i \in DOMAIN leaves
               PROVE  \/ root' # Null /\ \E x \in Key : G[x] = i
                      \/ \E u \in Threads : Spare(pre'[u], pc'[u]) /\ pre'[u] = i
    BY <1>4 DEF Owned
  <2>1. 0 \in Key
    BY XNodeAssumption DEF Key
  <2>2. \A u \in Threads : u # t => pc'[u] = pc[u]
    BY <1>1, <1>4
  <2>3. root' # Null
    BY <1>4, <1>6
  <2>4. CASE root # Null
    <3>1. \A x \in Key : G[x] = H[x]
      BY <1>3, <2>4 DEF Placed
    <3>2. pc'[t] = "idle"
      BY <1>1, <1>4, <2>4
    <3>3. \A u \in Threads : Spare(pre[u], pc[u]) => Spare(pre'[u], pc'[u]) /\ pre'[u] = pre[u]
      BY <1>4, <2>2, <3>2 DEF Spare
    <3> QED
      BY <1>2, <2>3, <3>1, <3>3 DEF Owned
  <2>5. CASE root = Null
    <3>1. \A x \in Key : G[x] = c
      BY <1>3, <2>5 DEF Placed
    <3>2. PICK u \in Threads : Spare(pre[u], pc[u]) /\ pre[u] = i
      BY <1>2, <2>5 DEF Owned
    <3>3. CASE u = t
      BY <2>1, <2>3, <3>1, <3>2, <3>3
    <3>4. CASE u # t
      BY <1>4, <2>2, <3>2, <3>4
    <3> QED
      BY <3>3, <3>4
  <2> QED
    BY <2>4, <2>5
<1> QED
  BY <1>4, <1>7, <1>8, <1>9, ListParts DEF G

\* A split that fails no assertion: its thread takes a new leaf next.
LEMMA SplitQuiet ==
  ASSUME NEW t \in Threads, InsertSplit(t), aborted' # "assert"
  PROVE  pre' = pre /\ pc' = [pc EXCEPT ![t] = "take"]
BY DEF InsertSplit

\* A split keeps the list.
LEMMA SplitList ==
  ASSUME XInv, ListInv, NEW t \in Threads, InsertSplit(t)
  PROVE  ListInv'
<1> DEFINE H == HomesOf(inners, depth, root) G == HomesOf(inners', depth', root') c == pre[t] k == arg[t]
<1>1. /\ pc \in [Threads -> {"idle", "core", "take"}] /\ depth \in Nat /\ root \in Nat
  BY XInvParts DEF TypeOK
<1>2. /\ XInv' /\ root # Null /\ root' # Null
      /\ Parted(leaves, leaves', H, G, asked, k, c)
  BY SplitInv
<1>3. /\ LinksOK(leaves, H) /\ HalfFull(leaves, H, depth)
      /\ Owned(leaves, H, root, pre, pc)
  BY <1>2, ListParts
<1>4. pre' = pre /\ pc' = [pc EXCEPT ![t] = "take"]
  <2>1. aborted' # "assert"
    BY <1>2 DEF XInv
  <2> QED
    BY <2>1, SplitQuiet
<1>5. Convex(H)
  <2>1. Lists(LinkedLeaves, H)
    BY <1>2, ListNow
  <2> QED
    BY <2>1, ListConvex
<1>6. PICK h, pivot : PartedAt(leaves, leaves', H, G, k, c, h, pivot)
  BY <1>2, PartedIs
<1>7. depth > 0 \/ \A x \in Key : H[x] = h
  <2>1. ASSUME depth = 0 PROVE \A x \in Key : H[x] = root
    <3>1. \A x \in Key : PathsOf(inners, depth, root)[x][0] = root
      BY <1>1, PathsOfSteps
    <3> QED
      BY <2>1, <3>1 DEF HomesOf
  <2>2. k \in Key /\ h = H[k]
    BY <1>6 DEF PartedAt
  <2> QED
    BY <1>1, <2>1, <2>2
<1> HIDE DEF H, G
<1>8. LinksOK(leaves', G)
  BY <1>3, <1>5, <1>6, LinksSplit
<1>9. HalfFull(leaves', G, depth')
  BY <1>3, <1>6, <1>7, HalfSplit
<1>10. Owned(leaves', G, root', pre', pc')
  <2>1. /\ pivot \in Key /\ H[pivot] = h /\ (\E y \in Key : H[y] = h /\ y < pivot)
        /\ h # c /\ DOMAIN leaves' = DOMAIN leaves
        /\ \A y \in Key : G[y] = IF H[y] = h /\ y >= pivot THEN c ELSE H[y]
    BY <1>6 DEF PartedAt
  <2>2. \A y \in Key : y \in Nat
    BY XNodeAssumption DEF Key
  <2> SUFFICES ASSUME NEW i \in DOMAIN leaves
               PROVE  \/ root' # Null /\ \E x \in Key : G[x] = i
                      \/ \E u \in Threads : Spare(pre'[u], pc'[u]) /\ pre'[u] = i
    BY <2>1 DEF Owned
  <2>3. ASSUME NEW x \in Key, H[x] = i PROVE \E y \in Key : G[y] = i
    <3>1. CASE i = h
      <4>1. PICK y \in Key : H[y] = h /\ y < pivot
        BY <2>1
      <4>2. ~(y >= pivot)
        BY <2>1, <2>2, <4>1
      <4> QED
        BY <2>1, <3>1, <4>1, <4>2
    <3>2. CASE i # h
      BY <2>1, <2>3, <3>2
    <3> QED
      BY <3>1, <3>2
  <2>4. ASSUME NEW u \in Threads, Spare(pre[u], pc[u]), pre[u] = i
        PROVE  \/ \E y \in Key : G[y] = i
               \/ Spare(pre'[u], pc'[u]) /\ pre'[u] = i
    <3>1. CASE u = t
      <4>1. G[pivot] = c
        BY <2>1, <2>2
      <4> QED
        BY <2>1, <2>4, <3>1, <4>1
    <3>2. CASE u # t
      BY <1>1, <1>4, <2>4, <3>2
    <3> QED
      BY <3>1, <3>2
  <2> QED
    BY <1>2, <1>3, <2>3, <2>4 DEF Owned
<1> QED
  BY <1>8, <1>9, <1>10, ListParts DEF G

\* Every step keeps the list.
LEMMA ListStep ==
  ASSUME MaxPerKey <= 1, XInv, ListInv, [Next]_vars
  PROVE  ListInv'
<1>1. pc \in [Threads -> {"idle", "core", "take"}] /\ pre \in [Threads -> 0..Len(leaves)] /\ leaves \in Seq(Leaf)
  BY XInvParts DEF TypeOK
<1>2. ASSUME NEW t \in Threads, ~Spare(pre[t], pc[t]), PreAlloc(t), UNCHANGED <<inners, depth, root>>,
             NEW step \in {"idle", "core"}, pc' = [pc EXCEPT ![t] = step]
      PROVE  ListInv'
  <2>1. leaves' = Append(leaves, EmptyLeaf) /\ pre' = [pre EXCEPT ![t] = Len(leaves) + 1]
    BY <1>2 DEF PreAlloc
  <2>2. pre'[t] = Len(leaves) + 1 /\ pc'[t] = step /\ \A u \in Threads : u # t => pre'[u] = pre[u] /\ pc'[u] = pc[u]
    BY <1>1, <1>2, <2>1
  <2>3. Spare(pre'[t], pc'[t])
    <3>1. Len(leaves) \in Nat
      BY <1>1
    <3> QED
      BY <1>2, <2>2, <3>1 DEF Spare, Null
  <2> QED
    BY <1>2, <2>1, <2>2, <2>3, QuietList
<1>3. ASSUME NEW t \in Threads, NEW k \in Key, InsertBegin(t, k)
      PROVE  ListInv'
  <2>1. pc' = [pc EXCEPT ![t] = "core"] /\ UNCHANGED <<inners, depth, root>> /\ pc[t] = "idle"
    BY <1>3 DEF InsertBegin
  <2>2. CASE pre[t] = Null /\ PreAlloc(t)
    <3>1. ~Spare(pre[t], pc[t])
      BY <2>2 DEF Spare
    <3> QED
      BY <1>2, <2>1, <2>2, <3>1
  <2>3. CASE pre[t] # Null /\ UNCHANGED <<leaves, pre>>
    <3>1. \A u \in Threads : Spare(pre[u], pc[u]) => Spare(pre'[u], pc'[u]) /\ pre'[u] = pre[u]
      <4>1. \A u \in Threads : pc'[u] = pc[u] \/ pc'[u] = "core"
        BY <1>1, <2>1
      <4> QED
        BY <2>3, <4>1 DEF Spare
    <3> QED
      BY <2>1, <2>3, <3>1, QuietList
  <2>4. \/ pre[t] = Null /\ PreAlloc(t)
        \/ pre[t] # Null /\ UNCHANGED <<leaves, pre>>
    BY <1>3 DEF InsertBegin
  <2> QED
    BY <2>2, <2>3, <2>4
<1>4. ASSUME NEW t \in Threads, TakePreAlloced(t)
      PROVE  ListInv'
  <2>1. /\ pc' = [pc EXCEPT ![t] = "idle"] /\ UNCHANGED <<inners, depth, root>>
        /\ pc[t] = "take" /\ PreAlloc(t)
    BY <1>4 DEF TakePreAlloced
  <2>2. ~Spare(pre[t], pc[t])
    BY <2>1 DEF Spare
  <2> QED
    BY <1>2, <2>1, <2>2
<1>5. ASSUME UNCHANGED <<leaves, inners, depth, root, pre, pc>>
      PROVE  ListInv'
  BY <1>5, QuietList
<1>6. ASSUME NEW t \in Threads, AllocFails(t)
      PROVE  ListInv'
  BY <1>5, <1>6 DEF AllocFails, tree
<1>7. CASE UNCHANGED vars
  BY <1>5, <1>7 DEF vars, tree
<1>8. CASE Next
  BY <1>3, <1>4, <1>6, <1>8, PlaceList, SplitList DEF Next
<1> QED
  BY <1>7, <1>8

\* The list of leaves is one in every state: ListInv holds with XInv.
THEOREM ListHolds == ASSUME MaxPerKey <= 1 PROVE Spec => [](XInv /\ ListInv)
<1>1. Init => ListInv
  <2> SUFFICES ASSUME Init PROVE ListInv
    OBVIOUS
  <2>1. root = Null /\ DOMAIN leaves = {}
    BY DEF Init
  <2> QED
    BY <2>1 DEF ListInv, Owned
<1>2. XInv /\ ListInv /\ [Next]_vars => ListInv'
  BY ListStep
<1> QED
  BY <1>1, <1>2, TreeHolds, PTL DEF Spec

\* LeafListSorted: the next links are the leaves in tree order, and the keys of
\* a leaf are smaller than those of the leaf behind it.
THEOREM LeavesInOrder == ASSUME MaxPerKey <= 1 PROVE Spec => []LeafListSorted
<1>1. XInv /\ ListInv => LeafListSorted
  <2> SUFFICES ASSUME XInv, ListInv PROVE LeafListSorted
    OBVIOUS
  <2> DEFINE S == LinkedLeaves H == HomesOf(inners, depth, root)
  <2>1. CASE root = Null
    <3>1. S = <<>>
      BY <2>1 DEF LinkedLeaves
    <3>2. DOMAIN S = {}
      BY <3>1
    <3> HIDE DEF S
    <3> QED
      BY <3>2 DEF LeafListSorted, S
  <2>2. CASE root # Null
    <3>1. leaves \in Seq(Leaf) /\ LeafInv(leaves, asked, H)
      BY <2>2, XInvParts DEF TypeOK
    <3>2. LinksOK(leaves, H)
      BY <2>2, ListParts
    <3>3. Lists(S, H)
      BY <2>2, ListNow
    <3> HIDE DEF S, H
    <3>4. \A i \in DOMAIN S :
            /\ leaves[S[i]].next = IF i = Len(S) THEN Null ELSE S[i + 1]
            /\ i < Len(S) => \A a \in LeafKeys(leaves[S[i]]), b \in LeafKeys(leaves[S[i + 1]]) : a < b
      BY <3>1, <3>2, <3>3, LinksSort
    <3> QED
      BY <3>4 DEF LeafListSorted, S
  <2> QED
    BY <2>1, <2>2
<1> QED
  BY <1>1, ListHolds, PTL

\* LeavesHalfFull: below an inner node no leaf is less than half full.
THEOREM LeavesStayHalfFull == ASSUME MaxPerKey <= 1 PROVE Spec => []LeavesHalfFull
<1>1. XInv /\ ListInv => LeavesHalfFull
  <2> SUFFICES ASSUME XInv, ListInv, depth > 0 PROVE \A i \in DOMAIN LinkedLeaves : NumKeys(leaves[LinkedLeaves[i]]) >= N \div 2
    BY DEF LeavesHalfFull
  <2> DEFINE S == LinkedLeaves H == HomesOf(inners, depth, root)
  <2>1. root # Null
    BY XInvParts
  <2>2. HalfFull(leaves, H, depth)
    BY <2>1, ListParts
  <2>3. Lists(S, H)
    BY <2>1, ListNow
  <2> HIDE DEF S, H
  <2>4. \A i \in DOMAIN S : \E x \in Key : H[x] = S[i]
    BY <2>3 DEF Lists
  <2>5. \A i \in DOMAIN S : NumKeys(leaves[S[i]]) >= N \div 2
    BY <2>2, <2>4 DEF HalfFull
  <2> QED
    BY <2>5 DEF S
<1> QED
  BY <1>1, ListHolds, PTL

\* LeafOwnership: a leaf is linked once or the spare one of one thread.
THEOREM LeavesAreOwned == ASSUME MaxPerKey <= 1 PROVE Spec => []LeafOwnership
<1>1. XInv /\ ListInv => LeafOwnership
  <2> SUFFICES ASSUME XInv, ListInv PROVE LeafOwnership
    OBVIOUS
  <2> DEFINE S == LinkedLeaves H == HomesOf(inners, depth, root)
             linked(i) == {n \in DOMAIN S : S[n] = i}
             owners(i) == {t \in Threads : (pre[t] # Null /\ pc[t] # "take") /\ pre[t] = i}
  <2>1. /\ ThreadInv(leaves, asked, H, root, pre, pc, arg)
        /\ Owned(leaves, H, root, pre, pc)
    BY XInvParts, ListParts
  <2>2. root = Null => S = <<>>
    BY DEF LinkedLeaves
  <2>3. root # Null => Lists(S, H)
    BY ListNow
  <2> HIDE DEF S, H
  <2>4. ASSUME NEW i \in DOMAIN leaves
        PROVE  /\ \/ (\E n : linked(i) = {n}) /\ owners(i) = {}
                  \/ (\E t : owners(i) = {t}) /\ linked(i) = {}
               /\ owners(i) # {} => leaves[i] = EmptyLeaf
    <3>1. \A t \in owners(i) : t \in Threads /\ Spare(pre[t], pc[t]) /\ pre[t] = i
      BY DEF Spare
    <3>2. owners(i) # {} => leaves[i] = EmptyLeaf
      BY <2>1, <3>1 DEF ThreadInv
    <3>3. \A t, u \in owners(i) : t = u
      BY <2>1, <3>1 DEF ThreadInv
    <3>4. ASSUME root # Null, NEW x \in Key, H[x] = i
          PROVE  (\E n : linked(i) = {n}) /\ owners(i) = {}
      <4>1. owners(i) = {}
        BY <2>1, <3>1, <3>4 DEF ThreadInv
      <4>2. /\ S \in Seq(Nat) /\ DOMAIN S = 1..Len(S) /\ \A m \in DOMAIN S : m \in Nat
            /\ \E n \in DOMAIN S : S[n] = i
        BY <2>3, <3>4 DEF Lists
      <4>3. PICK n \in DOMAIN S : S[n] = i
        BY <4>2
      <4>4. ASSUME NEW m \in DOMAIN S, S[m] = i PROVE m = n
        <5>1. m \in 1..Len(S) /\ n \in 1..Len(S) /\ m \in Nat /\ n \in Nat /\ x \in Nat
          BY <4>2, <4>3, XNodeAssumption DEF Key
        <5>2. ~(m < n)
          <6>1. m < n => x < x
            BY <2>3, <3>4, <4>3, <4>4, <5>1, ListOrder
          <6> QED
            BY <5>1, <6>1
        <5>3. ~(n < m)
          <6>1. n < m => x < x
            BY <2>3, <3>4, <4>3, <4>4, <5>1, ListOrder
          <6> QED
            BY <5>1, <6>1
        <5> QED
          BY <5>1, <5>2, <5>3
      <4>5. linked(i) = {n}
        BY <4>3, <4>4
      <4> QED
        BY <4>1, <4>5
    <3>5. ASSUME ~(root # Null /\ \E x \in Key : H[x] = i)
          PROVE  (\E t : owners(i) = {t}) /\ linked(i) = {}
      <4>1. PICK t \in Threads : Spare(pre[t], pc[t]) /\ pre[t] = i
        BY <2>1, <3>5 DEF Owned
      <4>2. t \in owners(i)
        BY <4>1 DEF Spare
      <4>3. owners(i) = {t}
        BY <3>3, <4>2
      <4>4. linked(i) = {}
        <5>1. CASE root = Null
          <6>1. DOMAIN S = {}
            BY <2>2, <5>1
          <6> QED
            BY <6>1
        <5>2. CASE root # Null
          <6>1. S \in Seq(Nat) /\ \A n \in 1..Len(S) : \E x \in Key : H[x] = S[n]
            BY <2>3, <5>2 DEF Lists
          <6>2. DOMAIN S = 1..Len(S)
            BY <6>1
          <6> QED
            BY <3>5, <5>2, <6>1, <6>2
        <5> QED
          BY <5>1, <5>2
      <4> QED
        BY <4>3, <4>4
    <3> HIDE DEF linked, owners
    <3> QED
      BY <3>2, <3>4, <3>5
  <2>5. ASSUME NEW i \in DOMAIN leaves
        PROVE  /\ Cardinality(linked(i)) + Cardinality(owners(i)) = 1
               /\ owners(i) # {} => leaves[i] = EmptyLeaf
    BY <2>4, OneOrOther
  <2> QED
    BY <2>5 DEF LeafOwnership, S
<1> QED
  BY <1>1, ListHolds, PTL

-----------------------------------------------------------------------------
(* The iterators: the inductive invariant. *)

\* Key x is the least one that leads to its leaf.
Low(H, x) == \A y \in Key : H[y] = H[x] => x <= y

\* Keys stored in the leaves L.
StoredIn(L, H) == {x \in Key : x \in LeafKeys(L[H[x]])}

\* No leaf of the tree is empty.
NoneEmpty(L, H) == \A x \in Key : LeafKeys(L[H[x]]) # {}

\* Members of a sequence, and a sequence that repeats none.
Members(s) == {s[i] : i \in DOMAIN s}
NoRepeat(s) == \A i, j \in DOMAIN s : s[i] = s[j] => i = j

\* The valid keys of a copied leaf from slot i on.
Valid(keys) == {j \in Slot : keys[j] # kInvalidKey}
KeysFrom(keys, i) == {keys[j] : j \in {m \in Valid(keys) : m >= i}}

\* A copy of a leaf has no key twice; that of the sorted iterator rises.
Copy(kd, keys) ==
  /\ keys \in [Slot -> Key \cup {kInvalidKey}]
  /\ \A i, j \in Valid(keys) : keys[i] = keys[j] => i = j
  /\ kd = "sorted" => \A i, j \in Valid(keys) : i < j => keys[i] < keys[j]

\* What a key iterator still has to reach starts at key y, the least one of the
\* leaf np of the copied link.
Ahead(H, keys, i, np, s, d, y) ==
  /\ H[y] = np /\ Low(H, y)
  /\ \A a \in Members(s) \cup KeysFrom(keys, 0) : a < y
  /\ \A a \in d : a \in Members(s) \cup KeysFrom(keys, i + 1) \/ y <= a

\* A scan of keys that has returned s, of the keys d due.
KeyScan(L, H, kd, keys, i, cp, np, s, d) ==
  /\ Copy(kd, keys) /\ i \in 0..N
  /\ s \in Seq(Key) /\ NoRepeat(s) /\ Members(s) \cap KeysFrom(keys, i + 1) = {}
  /\ d \subseteq StoredIn(L, H)
  /\ cp # Null => i \in Valid(keys) /\ Len(s) > 0 /\ s[Len(s)] = keys[i]
  /\ cp = Null => np = Null /\ i = N
  /\ np # Null => \E y \in Key : Ahead(H, keys, i, np, s, d, y)
  /\ np = Null => d \subseteq Members(s) \cup KeysFrom(keys, i + 1)
  /\ kd = "sorted" => \A j \in 1..(Len(s) - 1) : s[j] < s[j + 1]

\* A scan of leaves: those returned are before the current one, whose least key
\* is y, or that one; those not returned are behind it.
PageAt(H, cp, s, d, y) ==
  /\ H[y] = cp /\ Low(H, y) /\ cp \in Members(s)
  /\ \A m \in Members(s) : m = cp \/ \A x \in Key : H[x] = m => x < y
  /\ \A m \in d : m \in Members(s) \/ \A x \in Key : H[x] = m => y < x

PageScan(H, cp, s, d) ==
  /\ s \in Seq(Nat) /\ NoRepeat(s)
  /\ \A m \in Members(s) \cup d : \E x \in Key : H[x] = m
  /\ cp # Null => \E y \in Key : PageAt(H, cp, s, d, y)
  /\ cp = Null => d \subseteq Members(s)

ScanInv ==
  /\ root # Null => NoneEmpty(leaves, HomeMap)
  /\ kind \in Kinds \cup {"none"}
  /\ kind = "none" => cur_ptr = Null /\ seen = <<>>
  /\ kind # "none" => root # Null
  /\ kind \in {"iter", "sorted"} =>
       KeyScan(leaves, HomeMap, kind, cur_node, idx, cur_ptr, next_ptr, seen, due)
  /\ kind = "page" => PageScan(HomeMap, cur_ptr, seen, due)

\* What an insertion may do to leaves L and the homes H of the keys: a key goes to
\* a new leaf or stays, the least one of a leaf stays, and stored keys are still.
StepKeeps(L, L2, H, G) ==
  /\ \A x \in Key : G[x] = H[x] \/ \A y \in Key : H[y] # G[x]
  /\ \A x \in Key : Low(H, x) => G[x] = H[x]
  /\ StoredIn(L, H) \subseteq StoredIn(L2, G)

-----------------------------------------------------------------------------
(* The iterators: the operators they use. *)

\* The number of slots of a set, and of one with more slots.
LEMMA SlotsCount ==
  ASSUME NEW A \in SUBSET Slot, NEW B \in SUBSET Slot, A \subseteq B
  PROVE  /\ Cardinality(A) \in Nat /\ Cardinality(B) \in Nat
         /\ Cardinality(A) <= Cardinality(B)
         /\ (\E b \in B : b \notin A) => Cardinality(A) < Cardinality(B)
<1>1. IsFiniteSet(B) /\ IsFiniteSet(A)
  BY RankSteps
<1>2. Cardinality(A) \in Nat /\ Cardinality(B) \in Nat /\ Cardinality(A) <= Cardinality(B)
  BY <1>1, FS_Subset, FS_CardinalityType
<1>3. A # B => Cardinality(A) # Cardinality(B)
  BY <1>1, FS_Subset
<1> QED
  BY <1>2, <1>3

\* What SortedKeys chooses for slot i.
Ranked(keys, i, k) ==
  /\ k \in Key \cup {kInvalidKey}
  /\ Cardinality({j \in Slot : keys[j] < k}) <= i
  /\ i < Cardinality({j \in Slot : keys[j] <= k})

\* Two keys of one rank are equal, and a higher rank has no smaller key.
LEMMA RankedOnce ==
  ASSUME NEW keys \in [Slot -> Key \cup {kInvalidKey}], NEW i \in Nat, NEW h \in Nat, i <= h,
         NEW k, Ranked(keys, i, k), NEW l, Ranked(keys, h, l)
  PROVE  k <= l
<1> DEFINE LT(x) == {j \in Slot : keys[j] < x} LE(x) == {j \in Slot : keys[j] <= x}
<1>1. /\ k \in Nat /\ l \in Nat /\ Cardinality(LT(k)) <= i /\ h < Cardinality(LE(l))
      /\ \A j \in Slot : keys[j] \in Nat
  BY XNodeAssumption DEF Ranked, Key, kInvalidKey
<1>2. SUFFICES ASSUME l < k PROVE FALSE
  BY <1>1
<1>3. LE(l) \subseteq LT(k)
  BY <1>1, <1>2
<1>4. LE(l) \in SUBSET Slot /\ LT(k) \in SUBSET Slot
  OBVIOUS
<1> HIDE DEF LE, LT
<1>5. /\ Cardinality(LE(l)) <= Cardinality(LT(k))
      /\ Cardinality(LE(l)) \in Nat /\ Cardinality(LT(k)) \in Nat
  BY <1>3, <1>4, SlotsCount
<1> QED
  BY <1>1, <1>5

\* Every slot has a key of its rank.
LEMMA RankedExists ==
  ASSUME NEW keys \in [Slot -> Key \cup {kInvalidKey}], NEW i \in Slot
  PROVE  \E k : Ranked(keys, i, k) /\ \E j \in Slot : keys[j] = k
<1> DEFINE LT(x) == {j \in Slot : keys[j] < x} LE(x) == {j \in Slot : keys[j] <= x}
           T == {x \in Nat : i < Cardinality(LE(x))}
<1>1. /\ kInvalidKey \in Nat /\ i \in Nat /\ i < N /\ \A j \in Slot : keys[j] \in Nat /\ keys[j] <= kInvalidKey
      /\ \A j \in Slot : keys[j] \in Key \cup {kInvalidKey}
  BY XNodeAssumption DEF Key, kInvalidKey, Slot
<1>2. Cardinality(Slot) = N
  BY XNodeAssumption, FS_Interval DEF Slot
<1>3. LE(kInvalidKey) = Slot
  BY <1>1
<1>4. T \in SUBSET Nat /\ kInvalidKey \in T
  BY <1>1, <1>2, <1>3
<1> HIDE DEF T
<1>5. PICK k \in T : \A x \in T : k <= x
  BY <1>4, NatMin
<1> USE DEF T
<1>6. k \in Nat /\ i < Cardinality(LE(k))
  BY <1>5
<1>7. LT(k) \in SUBSET Slot /\ LE(k) \in SUBSET Slot /\ Cardinality(LT(k)) \in Nat
  <2>1. LT(k) \in SUBSET Slot /\ LE(k) \in SUBSET Slot
    OBVIOUS
  <2> HIDE DEF LT, LE, T
  <2> QED
    BY <2>1, SlotsCount
<1>8. Cardinality(LT(k)) <= i
  <2>1. CASE k = 0
    <3>1. LT(k) = {}
      <4>1. \A j \in Slot : ~(keys[j] < k)
        BY <1>1, <2>1
      <4> HIDE DEF T
      <4> QED
        BY <4>1
    <3> QED
      BY <1>1, <3>1, FS_EmptySet
  <2>2. CASE k # 0
    <3>1. k - 1 \in Nat /\ k - 1 \notin T
      BY <1>5, <1>6, <2>2
    <3>2. LT(k) = LE(k - 1)
      <4>1. \A j \in Slot : keys[j] < k <=> keys[j] <= k - 1
        BY <1>1, <1>6
      <4> HIDE DEF T
      <4> QED
        BY <4>1
    <3> QED
      BY <1>1, <1>7, <3>1, <3>2
  <2> QED
    BY <2>1, <2>2
<1>9. \E j \in Slot : keys[j] = k
  <2>1. SUFFICES ASSUME \A j \in Slot : keys[j] # k PROVE FALSE
    OBVIOUS
  <2>2. LE(k) = LT(k)
    <3>1. \A j \in Slot : keys[j] <= k <=> keys[j] < k
      BY <1>1, <1>6, <2>1
    <3> HIDE DEF T
    <3> QED
      BY <3>1
  <2> HIDE DEF LE, LT, T
  <2> QED
    BY <1>1, <1>6, <1>7, <1>8, <2>2
<1>10. Ranked(keys, i, k)
  BY <1>1, <1>6, <1>8, <1>9 DEF Ranked
<1> QED
  BY <1>9, <1>10

\* A sorted copy has the keys of the leaf, in their order.
LEMMA SortedCopy ==
  ASSUME NEW keys \in [Slot -> Key \cup {kInvalidKey}],
         \A i, j \in Valid(keys) : keys[i] = keys[j] => i = j
  PROVE  /\ SortedKeys(keys) \in [Slot -> Key \cup {kInvalidKey}]
         /\ \A i, j \in Valid(SortedKeys(keys)) : i < j => SortedKeys(keys)[i] < SortedKeys(keys)[j]
         /\ \A k \in Key : (\E i \in Slot : SortedKeys(keys)[i] = k) <=> (\E i \in Slot : keys[i] = k)
<1> DEFINE S == SortedKeys(keys)
           LT(x) == {j \in Slot : keys[j] < x} LE(x) == {j \in Slot : keys[j] <= x}
<1>1. \A i \in Slot : S[i] = CHOOSE k : Ranked(keys, i, k)
  BY Zenon DEF SortedKeys, Ranked
<1>2. \A i \in Slot : Ranked(keys, i, S[i])
  BY <1>1, RankedExists
<1>4. S \in [Slot -> Key \cup {kInvalidKey}]
  <2>1. \A i \in Slot : Ranked(keys, i, CHOOSE k : Ranked(keys, i, k))
    BY <1>1, <1>2
  <2>2. \A i \in Slot : (CHOOSE k : Ranked(keys, i, k)) \in Key \cup {kInvalidKey}
    BY <2>1 DEF Ranked
  <2> QED
    BY <2>2, Zenon DEF SortedKeys, Ranked
<1> HIDE DEF S
<1>5. /\ \A i \in Slot : i \in Nat /\ i < N /\ keys[i] \in Nat /\ S[i] \in Nat
      /\ \A k \in Key : k \in Nat /\ k # kInvalidKey
      /\ kInvalidKey \in Nat
  BY <1>4, XNodeAssumption DEF Key, kInvalidKey, Slot
<1>6. \A i \in Slot : \E j \in Slot : keys[j] = S[i]
  <2> TAKE i \in Slot
  <2>1. PICK k : Ranked(keys, i, k) /\ \E j \in Slot : keys[j] = k
    BY RankedExists
  <2>2. k <= S[i] /\ S[i] <= k /\ k \in Nat
    <3>1. i \in Nat /\ i <= i
      BY <1>5
    <3>2. k \in Nat
      BY <2>1, <1>5 DEF Ranked
    <3> QED
      BY <1>2, <2>1, <3>1, <3>2, RankedOnce
  <2> QED
    BY <1>5, <2>1, <2>2
<1>7. ASSUME NEW i \in Valid(S), NEW j \in Valid(S), i < j PROVE S[i] < S[j]
  <2>1. i \in Slot /\ j \in Slot /\ S[i] # kInvalidKey /\ i \in Nat /\ j \in Nat
    BY <1>5, <1>7 DEF Valid
  <2>2. S[i] <= S[j]
    BY <1>2, <1>7, <2>1, RankedOnce
  <2>3. ASSUME S[i] = S[j] PROVE FALSE
    <3> DEFINE k == S[i] A == LT(k) B == LE(k)
    <3>1. Cardinality(A) <= i /\ j < Cardinality(B)
      BY <1>2, <2>1, <2>3 DEF Ranked
    <3>2. PICK n \in Slot : keys[n] = k
      BY <1>6, <2>1
    <3>3. B = A \cup {n}
      <4>1. ASSUME NEW q \in Slot, keys[q] = k PROVE q = n
        BY <2>1, <3>2, <4>1 DEF Valid
      <4>2. \A q \in Slot : keys[q] <= k <=> keys[q] < k \/ q = n
        <5>1. k \in Nat
          BY <1>5, <2>1
        <5> HIDE DEF k
        <5> QED
          BY <1>5, <3>2, <4>1, <5>1
      <4> HIDE DEF k
      <4> QED
        BY <3>2, <4>2
    <3>4. n \notin A
      BY <1>5, <3>2
    <3>5. A \in SUBSET Slot
      OBVIOUS
    <3> HIDE DEF A, B
    <3>6. IsFiniteSet(A) /\ Cardinality(A) \in Nat
      BY <3>5, RankSteps
    <3>7. Cardinality(B) = Cardinality(A) + 1
      BY <3>3, <3>4, <3>6, FS_AddElement
    <3> QED
      BY <1>7, <2>1, <3>1, <3>6, <3>7
  <2> QED
    BY <1>5, <2>1, <2>2, <2>3
<1>8. ASSUME NEW k \in Key, NEW n \in Slot, keys[n] = k PROVE \E i \in Slot : S[i] = k
  <2> DEFINE A == LT(k) B == LE(k) i == Cardinality(A)
  <2>1. A \in SUBSET B /\ B \in SUBSET Slot /\ A \in SUBSET Slot /\ n \in B /\ n \notin A
    BY <1>5, <1>8
  <2> HIDE DEF A, B
  <2>2. i \in Nat /\ i < Cardinality(B) /\ Cardinality(B) \in Nat /\ Cardinality(B) <= N
    <3>1. Cardinality(B) \in 0..N
      BY <2>1, RankSteps
    <3> QED
      BY <2>1, <3>1, SlotsCount, XNodeAssumption
  <2>3. i \in Slot
    BY <2>2, XNodeAssumption DEF Slot
  <2>4. Ranked(keys, i, k)
    BY <1>5, <1>8, <2>2 DEF Ranked, A, B
  <2> HIDE DEF i
  <2>5. S[i] <= k /\ k <= S[i]
    <3>1. i <= i
      BY <2>2
    <3> QED
      BY <1>2, <2>2, <2>3, <2>4, <3>1, RankedOnce
  <2> QED
    BY <1>5, <2>3, <2>5
<1> QED
  BY <1>4, <1>6, <1>7, <1>8 DEF S

\* seek_idx finds the first valid slot from i on.
LEMMA SeekFirst ==
  ASSUME NEW keys \in [Slot -> Key \cup {kInvalidKey}], NEW i \in Nat
  PROVE  /\ SeekIdx(keys, i) \in 0..N
         /\ SeekIdx(keys, i) # N => SeekIdx(keys, i) \in Valid(keys) /\ SeekIdx(keys, i) >= i
         /\ \A j \in Valid(keys) : j >= i => SeekIdx(keys, i) # N /\ SeekIdx(keys, i) <= j
<1> DEFINE V == {j \in Slot : j >= i /\ keys[j] # kInvalidKey}
<1>1. V \in SUBSET Nat /\ V \subseteq Slot /\ SeekIdx(keys, i) = IF V = {} THEN N ELSE First(V)
  BY DEF SeekIdx, Slot
<1>2. \A j : j \in V <=> j \in Valid(keys) /\ j >= i
  BY DEF Valid
<1>3. N \in Nat /\ N \in 0..N /\ \A j \in Slot : j \in Nat /\ j \in 0..N /\ j # N
  BY XNodeAssumption DEF Slot
<1> HIDE DEF V
<1>4. CASE V = {}
  BY <1>1, <1>2, <1>3, <1>4
<1>5. CASE V # {}
  <2>1. First(V) \in V /\ \A j \in V : First(V) <= j
    BY <1>1, <1>5, FirstIsLeast
  <2>2. First(V) \in Slot
    BY <1>1, <2>1
  <2> QED
    BY <1>1, <1>2, <1>3, <1>5, <2>1, <2>2
<1> QED
  BY <1>4, <1>5

-----------------------------------------------------------------------------
(* The iterators: what insertions do to the list they walk. *)

\* A step adds a key to a leaf, splits one, or leaves the tree alone.
LEMMA StepKinds ==
  ASSUME [Next]_vars
  PROVE  \/ /\ leaves' = leaves \/ leaves' = Append(leaves, EmptyLeaf)
            /\ UNCHANGED <<inners, depth, root>>
         \/ \E t \in Threads : InsertInPlace(t)
         \/ \E t \in Threads : InsertSplit(t)
<1>1. ASSUME NEW t \in Threads, NEW k \in Key, InsertBegin(t, k)
      PROVE  /\ leaves' = leaves \/ leaves' = Append(leaves, EmptyLeaf)
             /\ UNCHANGED <<inners, depth, root>>
  BY <1>1 DEF InsertBegin, PreAlloc
<1>2. ASSUME NEW t \in Threads, TakePreAlloced(t)
      PROVE  /\ leaves' = leaves \/ leaves' = Append(leaves, EmptyLeaf)
             /\ UNCHANGED <<inners, depth, root>>
  BY <1>2 DEF TakePreAlloced, PreAlloc
<1>3. ASSUME (\E t \in Threads : AllocFails(t)) \/ UNCHANGED vars
      PROVE  leaves' = leaves /\ UNCHANGED <<inners, depth, root>>
  BY <1>3 DEF AllocFails, tree, vars
<1>4. CASE UNCHANGED vars
  BY <1>3, <1>4
<1>5. CASE Next
  BY <1>1, <1>2, <1>3, <1>5 DEF Next
<1> QED
  BY <1>4, <1>5

\* Keys found are those stored in the leaf they lead to.
LEMMA HeldStored ==
  /\ root # Null => Held = StoredIn(leaves, HomesOf(inners, depth, root))
  /\ root' # Null => Held' = StoredIn(leaves', HomesOf(inners', depth', root'))
BY DEF Held, HeldOf, StoredIn

\* An insertion keeps what iterators rely on.
LEMMA KeepsStep ==
  ASSUME MaxPerKey <= 1, XInv, ListInv, [Next]_vars, root # Null
  PROVE  /\ root' # Null
         /\ StepKeeps(leaves, leaves', HomesOf(inners, depth, root), HomesOf(inners', depth', root'))
<1> DEFINE H == HomesOf(inners, depth, root) G == HomesOf(inners', depth', root')
<1>1. Held \subseteq Held'
  BY StepEffect
<1>2. root' # Null => StoredIn(leaves, H) \subseteq StoredIn(leaves', G)
  BY <1>1, HeldStored
<1>3. CASE UNCHANGED <<inners, depth, root>>
  <2>1. G = H /\ root' = root
    BY <1>3
  <2> HIDE DEF G, H
  <2> QED
    BY <1>2, <2>1 DEF StepKeeps, G, H
<1>4. ASSUME NEW t \in Threads, InsertInPlace(t)
      PROVE  root' # Null /\ StepKeeps(leaves, leaves', H, G)
  <2>1. Placed(leaves, leaves', H, G, root, arg[t], pre[t])
    BY <1>4, PlaceInv
  <2>2. root' = root
    BY <1>4 DEF InsertInPlace
  <2> HIDE DEF G, H
  <2>3. \A x \in Key : G[x] = H[x]
    BY <2>1 DEF Placed
  <2> QED
    BY <1>2, <2>2, <2>3 DEF StepKeeps
<1>5. ASSUME NEW t \in Threads, InsertSplit(t)
      PROVE  root' # Null /\ StepKeeps(leaves, leaves', H, G)
  <2>1. root' # Null /\ Parted(leaves, leaves', H, G, asked, arg[t], pre[t])
    BY <1>5, SplitInv
  <2> DEFINE k == arg[t] c == pre[t]
  <2>2. PICK h, pivot : PartedAt(leaves, leaves', H, G, k, c, h, pivot)
    BY <2>1, PartedIs
  <2> HIDE DEF G, H, k, c
  <2>3. /\ pivot \in Key /\ (\E y \in Key : H[y] = h /\ y < pivot)
        /\ \A y \in Key : H[y] # c
        /\ \A y \in Key : G[y] = IF H[y] = h /\ y >= pivot THEN c ELSE H[y]
    BY <2>2 DEF PartedAt
  <2>4. \A y \in Key : y \in Nat
    BY XNodeAssumption DEF Key
  <2>5. ASSUME NEW x \in Key, Low(H, x) PROVE G[x] = H[x]
    <3>1. PICK y \in Key : H[y] = h /\ y < pivot
      BY <2>3
    <3>2. H[x] = h => x <= y
      BY <2>5, <3>1 DEF Low
    <3>3. ~(H[x] = h /\ x >= pivot)
      BY <2>3, <2>4, <3>1, <3>2
    <3> QED
      BY <2>3, <3>3
  <2>6. \A x \in Key : G[x] = H[x] \/ \A y \in Key : H[y] # G[x]
    BY <2>3
  <2> QED
    BY <1>2, <2>1, <2>5, <2>6 DEF StepKeeps
<1> HIDE DEF G, H
<1> QED
  BY <1>3, <1>4, <1>5, StepKinds DEF G, H

\* A leaf with slots in use has a key.
LEMMA UsedKeys ==
  ASSUME NEW l, NumKeys(l) >= N \div 2
  PROVE  LeafKeys(l) # {}
<1>1. N \div 2 >= 1 /\ N \div 2 \in Nat
  BY XNodeAssumption
<1>2. Used(l) # {}
  <2>1. SUFFICES ASSUME Used(l) = {} PROVE FALSE
    OBVIOUS
  <2>2. NumKeys(l) = 0
    BY <2>1, FS_EmptySet DEF NumKeys
  <2> QED
    BY <1>1, <2>2
<1> QED
  BY <1>2 DEF LeafKeys

\* No leaf of the tree gets empty.
LEMMA EmptyStep ==
  ASSUME MaxPerKey <= 1, XInv, ListInv, [Next]_vars,
         root # Null => NoneEmpty(leaves, HomesOf(inners, depth, root)), root' # Null
  PROVE  NoneEmpty(leaves', HomesOf(inners', depth', root'))
<1> DEFINE H == HomesOf(inners, depth, root) G == HomesOf(inners', depth', root')
<1>1. XInv' /\ ListInv'
  BY StepEffect, ListStep
<1>2. HalfFull(leaves', G, depth') /\ depth' \in Nat
  BY <1>1, ListParts DEF XInv, TypeOK
<1>3. CASE depth' > 0
  <2> HIDE DEF G, H
  <2>1. \A x \in Key : NumKeys(leaves'[G[x]]) >= N \div 2
    BY <1>2, <1>3 DEF HalfFull
  <2>2. \A x \in Key : LeafKeys(leaves'[G[x]]) # {}
    BY <2>1, UsedKeys
  <2> QED
    BY <2>2 DEF NoneEmpty, G
<1>4. CASE depth' = 0
  <2>1. \A x \in Key : G[x] = root'
    <3>1. \A x \in Key : PathsOf(inners', depth', root')[x][0] = root'
      BY <1>4, PathsOfSteps
    <3> QED
      BY <1>4, <3>1 DEF HomesOf
  <2>2. ASSUME UNCHANGED <<inners, depth, root>>,
               leaves' = leaves \/ leaves' = Append(leaves, EmptyLeaf)
        PROVE  NoneEmpty(leaves', G)
    <3>1. LeafInv(leaves, asked, H) /\ G = H /\ root # Null
      BY <2>2, XInvParts
    <3>2. \A i \in DOMAIN leaves : leaves'[i] = leaves[i]
      BY <2>2, QuietStep
    <3>3. NoneEmpty(leaves, H)
      BY <3>1
    <3> HIDE DEF G, H
    <3> QED
      BY <3>1, <3>2, <3>3 DEF NoneEmpty, LeafInv
  <2>3. ASSUME NEW t \in Threads, InsertInPlace(t) \/ InsertSplit(t)
        PROVE  NoneEmpty(leaves', G)
    <3>1. /\ arg[t] \in Key
          /\ HeldOf(leaves', G, root') = HeldOf(leaves, H, root) \cup {arg[t]}
      BY <2>3, PlaceInv, SplitInv
    <3> HIDE DEF G, H
    <3>2. arg[t] \in LeafKeys(leaves'[G[arg[t]]])
      BY <3>1 DEF HeldOf
    <3> QED
      BY <2>1, <3>1, <3>2 DEF NoneEmpty
  <2> HIDE DEF G, H
  <2> QED
    BY <2>2, <2>3, StepKinds DEF G
<1> QED
  BY <1>2, <1>3, <1>4

-----------------------------------------------------------------------------
(* The iterators: a scan while others insert. *)

\* Keys are naturals.
LEMMA KeysNat == \A x \in Key : x \in Nat /\ x # kInvalidKey
BY XNodeAssumption DEF Key, kInvalidKey

\* Each leaf has a least key that leads to it.
LEMMA LowExists ==
  ASSUME NEW H, NEW x \in Key
  PROVE  \E y \in Key : H[y] = H[x] /\ Low(H, y)
<1> DEFINE T == {y \in Key : H[y] = H[x]}
<1>1. T \in SUBSET Nat /\ x \in T
  BY KeysNat
<1> HIDE DEF T
<1>2. PICK y \in T : \A z \in T : y <= z
  BY <1>1, NatMin
<1> USE DEF T
<1> QED
  BY <1>2 DEF Low

\* The least key of a leaf stays the least one there.
LEMMA LowKept ==
  ASSUME NEW L, NEW L2, NEW H, NEW G, StepKeeps(L, L2, H, G), NEW y \in Key, Low(H, y)
  PROVE  G[y] = H[y] /\ Low(G, y)
<1>1. G[y] = H[y]
  BY DEF StepKeeps
<1>2. ASSUME NEW z \in Key, G[z] = G[y] PROVE H[z] = H[y]
  BY <1>1, <1>2 DEF StepKeeps
<1> QED
  BY <1>1, <1>2 DEF Low

\* A scan of keys goes on in the new tree.
LEMMA KeyScanKept ==
  ASSUME NEW L, NEW L2, NEW H, NEW G, StepKeeps(L, L2, H, G),
         NEW kd, NEW keys, NEW i, NEW cp, NEW np, NEW s, NEW d, KeyScan(L, H, kd, keys, i, cp, np, s, d)
  PROVE  KeyScan(L2, G, kd, keys, i, cp, np, s, d)
<1>1. d \subseteq StoredIn(L2, G)
  BY DEF KeyScan, StepKeeps
<1>2. ASSUME np # Null PROVE \E y \in Key : Ahead(G, keys, i, np, s, d, y)
  <2>1. PICK y \in Key : Ahead(H, keys, i, np, s, d, y)
    BY <1>2 DEF KeyScan
  <2>2. G[y] = H[y] /\ Low(G, y)
    BY <2>1, LowKept DEF Ahead
  <2>3. Ahead(G, keys, i, np, s, d, y)
    BY <2>1, <2>2 DEF Ahead
  <2> QED
    BY <2>3
<1> QED
  BY <1>1, <1>2 DEF KeyScan

\* A scan of leaves goes on in the new tree.
LEMMA PageScanKept ==
  ASSUME NEW L, NEW L2, NEW H, NEW G, StepKeeps(L, L2, H, G),
         NEW cp, NEW s, NEW d, PageScan(H, cp, s, d)
  PROVE  PageScan(G, cp, s, d)
<1>1. ASSUME NEW x \in Key, NEW m, G[x] = m, \E z \in Key : H[z] = m PROVE H[x] = m
  BY <1>1 DEF StepKeeps
<1>2. ASSUME NEW x \in Key PROVE \E z \in Key : G[z] = H[x]
  <2>1. PICK y \in Key : H[y] = H[x] /\ Low(H, y)
    BY LowExists
  <2>2. G[y] = H[y]
    BY <2>1, LowKept
  <2> QED
    BY <2>1, <2>2
<1>3. \A m \in Members(s) \cup d : \E x \in Key : H[x] = m
  BY DEF PageScan
<1>4. \A m \in Members(s) \cup d : \E x \in Key : G[x] = m
  BY <1>2, <1>3
<1>5. ASSUME cp # Null PROVE \E y \in Key : PageAt(G, cp, s, d, y)
  <2>1. PICK y \in Key : PageAt(H, cp, s, d, y)
    BY <1>5 DEF PageScan
  <2>2. G[y] = H[y] /\ Low(G, y)
    BY <2>1, LowKept DEF PageAt
  <2>3. \A m \in Members(s) \cup d : \A x \in Key : G[x] = m => H[x] = m
    BY <1>1, <1>3
  <2>4. PageAt(G, cp, s, d, y)
    BY <2>1, <2>2, <2>3 DEF PageAt
  <2> QED
    BY <2>4
<1> QED
  BY <1>4, <1>5 DEF PageScan

-----------------------------------------------------------------------------
(* The iterators: their own steps. *)

\* What is appended to a sequence is its last member, and a new one if it was none.
LEMMA AppendIs ==
  ASSUME NEW E, NEW s \in Seq(E), NEW e \in E
  PROVE  /\ Append(s, e) \in Seq(E) /\ Len(Append(s, e)) = Len(s) + 1 /\ Len(s) \in Nat
         /\ Append(s, e)[Len(s) + 1] = e
         /\ \A j \in 1..Len(s) : Append(s, e)[j] = s[j]
         /\ Members(Append(s, e)) = Members(s) \cup {e}
         /\ NoRepeat(s) /\ e \notin Members(s) => NoRepeat(Append(s, e))
<1> DEFINE t == Append(s, e)
<1>1. /\ t \in Seq(E) /\ Len(t) = Len(s) + 1 /\ Len(s) \in Nat
      /\ t[Len(s) + 1] = e /\ \A j \in 1..Len(s) : t[j] = s[j]
      /\ DOMAIN t = 1..(Len(s) + 1) /\ DOMAIN s = 1..Len(s)
  OBVIOUS
<1> HIDE DEF t
<1>2. \A j : j \in 1..(Len(s) + 1) <=> j \in 1..Len(s) \/ j = Len(s) + 1
  BY <1>1
<1>3. Members(t) = Members(s) \cup {e}
  BY <1>1, <1>2 DEF Members
<1>4. ASSUME NoRepeat(s), e \notin Members(s) PROVE NoRepeat(t)
  BY <1>1, <1>2, <1>4 DEF NoRepeat, Members
<1> QED
  BY <1>1, <1>3, <1>4 DEF t

\* The keys of a copy from the first valid slot on.
LEMMA KeysFromFirst ==
  ASSUME NEW kd, NEW keys, Copy(kd, keys), NEW i \in Nat, SeekIdx(keys, i) # N
  PROVE  LET j == SeekIdx(keys, i) IN
         /\ j \in Valid(keys) /\ j >= i /\ j \in Nat /\ j \in 0..N /\ keys[j] \in Key
         /\ KeysFrom(keys, i) = {keys[j]} \cup KeysFrom(keys, j + 1)
         /\ keys[j] \notin KeysFrom(keys, j + 1)
<1> DEFINE j == SeekIdx(keys, i)
<1>1. keys \in [Slot -> Key \cup {kInvalidKey}]
  BY DEF Copy
<1>2. /\ j \in 0..N /\ j \in Valid(keys) /\ j >= i
      /\ \A h \in Valid(keys) : h >= i => j <= h
  BY <1>1, SeekFirst
<1> HIDE DEF j
<1>3. j \in Nat /\ keys[j] \in Key /\ \A h \in Valid(keys) : h \in Nat
  BY <1>1, <1>2, XNodeAssumption DEF Valid, Slot
<1>4. \A h \in Valid(keys) : h >= i <=> h = j \/ h >= j + 1
  BY <1>2, <1>3
<1>5. KeysFrom(keys, i) = {keys[j]} \cup KeysFrom(keys, j + 1)
  BY <1>2, <1>4 DEF KeysFrom
<1>6. keys[j] \notin KeysFrom(keys, j + 1)
  <2>1. ASSUME NEW h \in Valid(keys), h >= j + 1, keys[h] = keys[j] PROVE FALSE
    <3>1. h = j
      BY <1>2, <2>1 DEF Copy
    <3> QED
      BY <1>3, <2>1, <3>1
  <2> QED
    BY <2>1 DEF KeysFrom
<1> QED
  BY <1>2, <1>3, <1>5, <1>6 DEF j

\* next inside the copied leaf.
LEMMA KeyScanInLeaf ==
  ASSUME NEW L, NEW H, NEW kd, NEW keys, NEW i, NEW cp, NEW np, NEW s, NEW d,
         KeyScan(L, H, kd, keys, i, cp, np, s, d), cp # Null, SeekIdx(keys, i + 1) # N
  PROVE  LET j == SeekIdx(keys, i + 1) IN
         KeyScan(L, H, kd, keys, j, cp, np, Append(s, keys[j]), d)
<1> DEFINE j == SeekIdx(keys, i + 1) t == Append(s, keys[j])
<1>1. /\ Copy(kd, keys) /\ i \in 0..N /\ s \in Seq(Key) /\ NoRepeat(s)
      /\ Members(s) \cap KeysFrom(keys, i + 1) = {} /\ d \subseteq StoredIn(L, H)
      /\ i \in Valid(keys) /\ Len(s) > 0 /\ s[Len(s)] = keys[i]
      /\ np # Null => \E y \in Key : Ahead(H, keys, i, np, s, d, y)
      /\ np = Null => d \subseteq Members(s) \cup KeysFrom(keys, i + 1)
      /\ kd = "sorted" => \A h \in 1..(Len(s) - 1) : s[h] < s[h + 1]
  BY DEF KeyScan
<1>2. i \in Nat /\ i + 1 \in Nat
  BY <1>1, XNodeAssumption
<1>3. /\ j \in Valid(keys) /\ j >= i + 1 /\ j \in Nat /\ j \in 0..N /\ keys[j] \in Key
      /\ KeysFrom(keys, i + 1) = {keys[j]} \cup KeysFrom(keys, j + 1)
      /\ keys[j] \notin KeysFrom(keys, j + 1)
  BY <1>1, <1>2, KeysFromFirst
<1> HIDE DEF j
<1>4. /\ t \in Seq(Key) /\ Len(t) = Len(s) + 1 /\ Len(s) \in Nat /\ t[Len(s) + 1] = keys[j]
      /\ \A h \in 1..Len(s) : t[h] = s[h]
      /\ Members(t) = Members(s) \cup {keys[j]}
      /\ NoRepeat(s) /\ keys[j] \notin Members(s) => NoRepeat(t)
  BY <1>1, <1>3, AppendIs
<1> HIDE DEF t
<1>5. keys[j] \notin Members(s)
  BY <1>1, <1>3
<1>6. ASSUME NEW y \in Key, Ahead(H, keys, i, np, s, d, y) PROVE Ahead(H, keys, j, np, t, d, y)
  <2>1. keys[j] \in KeysFrom(keys, 0)
    BY <1>3 DEF KeysFrom
  <2> QED
    BY <1>3, <1>4, <1>6, <2>1 DEF Ahead
<1>7. ASSUME kd = "sorted" PROVE \A h \in 1..(Len(t) - 1) : t[h] < t[h + 1]
  <2>1. keys[i] < keys[j]
    BY <1>1, <1>2, <1>3, <1>7 DEF Copy
  <2> TAKE h \in 1..(Len(t) - 1)
  <2>2. h \in 1..Len(s) /\ h \in Nat
    BY <1>4
  <2>3. CASE h = Len(s)
    BY <1>1, <1>4, <2>1, <2>2, <2>3
  <2>4. CASE h # Len(s)
    <3>1. h \in 1..(Len(s) - 1) /\ h + 1 \in 1..Len(s)
      BY <1>4, <2>2, <2>4
    <3> QED
      BY <1>1, <1>4, <1>7, <2>2, <3>1
  <2> QED
    BY <2>3, <2>4
<1>8. t[Len(t)] = keys[j] /\ Len(t) > 0
  BY <1>4
<1>9. Members(t) \cap KeysFrom(keys, j + 1) = {}
  BY <1>1, <1>3, <1>4
<1>10. np = Null => d \subseteq Members(t) \cup KeysFrom(keys, j + 1)
  BY <1>1, <1>3, <1>4
<1> QED
  BY <1>1, <1>3, <1>4, <1>5, <1>6, <1>7, <1>8, <1>9, <1>10 DEF KeyScan, t, j

\* Behind the leaf of y: the leaf of its next link and its least key, or nothing.
LEMMA NextLow ==
  ASSUME NEW L, NEW H, LinksOK(L, H), Convex(H), NEW y \in Key, Low(H, y),
         NEW n, n = L[H[y]].next
  PROVE  /\ n = Null => \A z \in Key : z > y => H[z] = H[y]
         /\ n # Null => \E z \in Key : /\ y < z /\ H[z] = n /\ Low(H, z) /\ n # H[y]
                                       /\ \A x \in Key : H[x] = H[y] => x < z
                                       /\ \A x \in Key : x > y => H[x] = H[y] \/ z <= x
<1>1. NextAt(n, H, y)
  BY DEF LinksOK
<1>2. ASSUME n # Null
      PROVE  \E z \in Key : /\ y < z /\ H[z] = n /\ Low(H, z) /\ n # H[y]
                            /\ \A x \in Key : H[x] = H[y] => x < z
                            /\ \A x \in Key : x > y => H[x] = H[y] \/ z <= x
  <2>1. n # H[y]
    BY <1>1, <1>2 DEF NextAt
  <2>2. PICK z \in Key : z > y /\ H[z] = n /\ \A x \in Key : x > y => H[x] = H[y] \/ z <= x
    BY <1>1, <1>2 DEF NextAt
  <2>3. ASSUME NEW x \in Key, H[x] = H[y] PROVE x < z
    <3>1. SUFFICES ASSUME z < x PROVE FALSE
      BY <2>1, <2>2, <2>3, KeysNat
    <3>2. H[z] = H[y]
      BY <2>2, <2>3, <3>1 DEF Convex
    <3> QED
      BY <2>1, <2>2, <3>2
  <2>4. ASSUME NEW x \in Key, H[x] = H[z] PROVE z <= x
    <3>1. SUFFICES ASSUME x < z PROVE FALSE
      BY KeysNat
    <3>2. ~(x > y)
      BY <2>1, <2>2, <2>4, <3>1, KeysNat
    <3>3. x # y
      BY <2>1, <2>2, <2>4
    <3>4. x < y
      BY <3>2, <3>3, KeysNat
    <3>5. H[y] = H[x]
      BY <2>2, <2>4, <3>4 DEF Convex
    <3> QED
      BY <2>1, <2>2, <2>4, <3>5
  <2> QED
    BY <2>1, <2>2, <2>3, <2>4, KeysNat DEF Low
<1> QED
  BY <1>1, <1>2 DEF NextAt

\* The keys read_from copies.
KeysRead(kd, l) == IF kd = "sorted" THEN SortedKeys(l.keys) ELSE l.keys

\* A copy holds the keys of its leaf.
LEMMA CopyIs ==
  ASSUME NEW l \in Leaf, Unique(l), NEW kd
  PROVE  Copy(kd, KeysRead(kd, l)) /\ KeysFrom(KeysRead(kd, l), 0) = LeafKeys(l)
<1>1. /\ l.keys \in [Slot -> Key \cup {kInvalidKey}] /\ Valid(l.keys) = Used(l)
      /\ \A j \in Slot : j \in Nat
  BY LeafFields, XNodeAssumption DEF Valid, Used, Free, Slot
<1>2. \A i, j \in Valid(l.keys) : l.keys[i] = l.keys[j] => i = j
  BY <1>1 DEF Unique
<1>3. \A keys : keys \in [Slot -> Key \cup {kInvalidKey}] =>
        /\ KeysFrom(keys, 0) = {keys[j] : j \in Valid(keys)}
        /\ \A k : k \in KeysFrom(keys, 0) <=> k \in Key /\ \E j \in Slot : keys[j] = k
  <2> TAKE keys
  <2> HAVE keys \in [Slot -> Key \cup {kInvalidKey}]
  <2>1. {m \in Valid(keys) : m >= 0} = Valid(keys)
    BY <1>1 DEF Valid
  <2>2. KeysFrom(keys, 0) = {keys[j] : j \in Valid(keys)}
    BY <2>1, Zenon DEF KeysFrom
  <2>3. \A k : k \in KeysFrom(keys, 0) <=> k \in Key /\ \E j \in Slot : keys[j] = k
    BY <2>2, KeysNat DEF Valid
  <2> QED
    BY <2>2, <2>3
<1>4. KeysFrom(l.keys, 0) = LeafKeys(l)
  BY <1>1, <1>3, Zenon DEF LeafKeys
<1>5. CASE kd # "sorted"
  BY <1>1, <1>2, <1>4, <1>5 DEF Copy, KeysRead
<1>6. CASE kd = "sorted"
  <2> DEFINE S == SortedKeys(l.keys)
  <2>1. /\ S \in [Slot -> Key \cup {kInvalidKey}]
        /\ \A i, j \in Valid(S) : i < j => S[i] < S[j]
        /\ \A k \in Key : (\E i \in Slot : S[i] = k) <=> (\E i \in Slot : l.keys[i] = k)
    BY <1>1, <1>2, SortedCopy
  <2> HIDE DEF S
  <2>2. KeysFrom(S, 0) = KeysFrom(l.keys, 0)
    <3>1. \A k : k \in KeysFrom(S, 0) <=> k \in KeysFrom(l.keys, 0)
      BY <1>1, <1>3, <2>1
    <3> QED
      BY <3>1
  <2>3. ASSUME NEW i \in Valid(S), NEW j \in Valid(S), S[i] = S[j] PROVE i = j
    <3>1. i \in Nat /\ j \in Nat /\ S[i] \in Nat /\ S[j] \in Nat
      BY <1>1, <2>1, KeysNat DEF Valid
    <3> QED
      BY <2>1, <2>3, <3>1
  <2>4. Copy(kd, S)
    BY <2>1, <2>3 DEF Copy
  <2> QED
    BY <1>4, <1>6, <2>2, <2>4 DEF KeysRead, S
<1> QED
  BY <1>5, <1>6

\* Entering the leaf of y, the least key that leads there, after returning s.
LEMMA EnterLeaf ==
  ASSUME NEW L \in Seq(Leaf), NEW A, NEW H, LeafInv(L, A, H), LinksOK(L, H), Convex(H), NoneEmpty(L, H),
         NEW y \in Key, Low(H, y), NEW kd, NEW s \in Seq(Key), NoRepeat(s), \A a \in Members(s) : a < y,
         kd = "sorted" => \A j \in 1..(Len(s) - 1) : s[j] < s[j + 1],
         NEW d \in SUBSET StoredIn(L, H), \A a \in d : a \in Members(s) \/ y <= a
  PROVE  LET l == L[H[y]]
             keys == KeysRead(kd, l)
             i == SeekIdx(keys, 0)
         IN i # N /\ KeyScan(L, H, kd, keys, i, H[y], l.next, Append(s, keys[i]), d)
<1> DEFINE l == L[H[y]] keys == KeysRead(kd, l) i == SeekIdx(keys, 0) t == Append(s, keys[i]) n == l.next
<1>1. l \in Leaf /\ Unique(l) /\ H[y] \in DOMAIN L /\ H[y] # Null
  BY DEF LeafInv, Null
<1>2. /\ n = Null => \A z \in Key : z > y => H[z] = H[y]
      /\ n # Null => \E z \in Key : /\ y < z /\ H[z] = n /\ Low(H, z) /\ n # H[y]
                                    /\ \A x \in Key : H[x] = H[y] => x < z
                                    /\ \A x \in Key : x > y => H[x] = H[y] \/ z <= x
  BY NextLow
<1>3. \A a \in LeafKeys(l) : a \in Key /\ H[a] = H[y] /\ y <= a
  <2> TAKE a \in LeafKeys(l)
  <2>1. a \in Key /\ H[a] = H[y]
    BY KeyLeadsHome
  <2> QED
    BY <2>1 DEF Low
<1>4. LeafKeys(l) # {}
  BY DEF NoneEmpty
<1>5. \A a \in d : a \in Key /\ a \in LeafKeys(L[H[a]])
  BY DEF StoredIn
<1> HIDE DEF l
<1>6. Copy(kd, keys) /\ KeysFrom(keys, 0) = LeafKeys(l)
  BY <1>1, CopyIs
<1> HIDE DEF keys
<1>7. i # N
  <2>1. keys \in [Slot -> Key \cup {kInvalidKey}]
    BY <1>6 DEF Copy
  <2>2. \E j \in Valid(keys) : j >= 0
    BY <1>4, <1>6 DEF KeysFrom
  <2> QED
    BY <2>1, <2>2, SeekFirst
<1>8. /\ i \in Valid(keys) /\ i \in Nat /\ i \in 0..N /\ keys[i] \in Key
      /\ LeafKeys(l) = {keys[i]} \cup KeysFrom(keys, i + 1)
      /\ keys[i] \notin KeysFrom(keys, i + 1)
  BY <1>6, <1>7, KeysFromFirst
<1> HIDE DEF i
<1>9. /\ t \in Seq(Key) /\ Len(t) = Len(s) + 1 /\ Len(s) \in Nat /\ t[Len(s) + 1] = keys[i]
      /\ \A h \in 1..Len(s) : t[h] = s[h]
      /\ Members(t) = Members(s) \cup {keys[i]}
      /\ NoRepeat(s) /\ keys[i] \notin Members(s) => NoRepeat(t)
  BY <1>8, AppendIs
<1> HIDE DEF t
<1>10. y <= keys[i] /\ \A a \in Members(s) : a \in Key /\ a < y
  <2>1. \A a \in Members(s) : a \in Key
    BY DEF Members
  <2> QED
    BY <1>3, <1>8, <2>1
<1>11. NoRepeat(t) /\ Members(t) \cap KeysFrom(keys, i + 1) = {}
  <2>1. \A a \in Members(s) : a \notin LeafKeys(l)
    BY <1>3, <1>10, KeysNat
  <2> QED
    BY <1>8, <1>9, <2>1
<1>12. ASSUME kd = "sorted" PROVE \A j \in 1..(Len(t) - 1) : t[j] < t[j + 1]
  <2> TAKE j \in 1..(Len(t) - 1)
  <2>1. j \in 1..Len(s) /\ j \in Nat
    BY <1>9
  <2>2. CASE j = Len(s)
    <3>1. s[j] \in Members(s) /\ t[j] = s[j] /\ t[j + 1] = keys[i]
      BY <1>9, <2>1, <2>2 DEF Members
    <3> QED
      BY <1>8, <1>10, <3>1, KeysNat
  <2>3. CASE j # Len(s)
    <3>1. j \in 1..(Len(s) - 1) /\ j + 1 \in 1..Len(s)
      BY <1>9, <2>1, <2>3
    <3> QED
      BY <1>9, <1>12, <2>1, <3>1
  <2> QED
    BY <2>2, <2>3
<1>13. \A a \in d : a \in Members(t) \/ (a \in Key /\ y <= a)
  BY <1>5, <1>9
<1>14. \A a \in d : H[a] = H[y] => a \in Members(t) \cup KeysFrom(keys, i + 1)
  BY <1>5, <1>8, <1>9 DEF l
<1>15. ASSUME n = Null PROVE d \subseteq Members(t) \cup KeysFrom(keys, i + 1)
  <2> SUFFICES ASSUME NEW a \in d PROVE a \in Members(t) \cup KeysFrom(keys, i + 1)
    OBVIOUS
  <2>1. CASE a \in Members(t)
    BY <2>1
  <2>2. CASE a \in Key /\ y <= a
    <3>1. H[a] = H[y]
      BY <1>2, <1>15, <2>2, KeysNat
    <3> QED
      BY <1>14, <3>1
  <2> QED
    BY <1>13, <2>1, <2>2
<1>16. ASSUME n # Null PROVE \E z \in Key : Ahead(H, keys, i, n, t, d, z)
  <2>1. PICK z \in Key : /\ y < z /\ H[z] = n /\ Low(H, z) /\ n # H[y]
                         /\ \A x \in Key : H[x] = H[y] => x < z
                         /\ \A x \in Key : x > y => H[x] = H[y] \/ z <= x
    BY <1>2, <1>16
  <2>2. ASSUME NEW a \in Members(t) \cup KeysFrom(keys, 0) PROVE a < z
    <3>1. CASE a \in LeafKeys(l)
      BY <1>3, <2>1, <3>1
    <3>2. CASE a \notin LeafKeys(l)
      <4>1. a \in Members(s)
        BY <1>6, <1>8, <1>9, <2>2, <3>2
      <4> QED
        BY <1>10, <2>1, <4>1, KeysNat
    <3> QED
      BY <3>1, <3>2
  <2>3. ASSUME NEW a \in d PROVE a \in Members(t) \cup KeysFrom(keys, i + 1) \/ z <= a
    <3>1. CASE a \in Members(t)
      BY <3>1
    <3>2. CASE a \in Key /\ y <= a
      <4>1. a = y \/ a > y
        BY <3>2, KeysNat
      <4>2. H[a] = H[y] \/ z <= a
        BY <2>1, <3>2, <4>1
      <4> QED
        BY <1>14, <4>2
    <3> QED
      BY <1>13, <3>1, <3>2
  <2> QED
    BY <2>1, <2>2, <2>3 DEF Ahead
<1>17. t[Len(t)] = keys[i] /\ Len(t) > 0
  BY <1>9
<1> QED
  BY <1>1, <1>6, <1>7, <1>8, <1>9, <1>11, <1>12, <1>15, <1>16, <1>17 DEF KeyScan, t, i, keys, l

\* Entering the leaf of y after returning the leaves s.
LEMMA EnterPage ==
  ASSUME NEW H, NEW y \in Key, Low(H, y), H[y] \in Nat, H[y] # Null, NEW s \in Seq(Nat), NoRepeat(s), NEW d,
         \A m \in Members(s) \cup d : \E x \in Key : H[x] = m,
         \A m \in Members(s) : \A x \in Key : H[x] = m => x < y,
         \A m \in d : m \in Members(s) \/ m = H[y] \/ \A x \in Key : H[x] = m => y < x
  PROVE  PageScan(H, H[y], Append(s, H[y]), d)
<1> DEFINE t == Append(s, H[y])
<1>1. H[y] \notin Members(s)
  BY KeysNat
<1>2. t \in Seq(Nat) /\ Members(t) = Members(s) \cup {H[y]} /\ NoRepeat(t)
  BY <1>1, AppendIs
<1> HIDE DEF t
<1>3. PageAt(H, H[y], t, d, y)
  BY <1>2 DEF PageAt
<1>4. \A m \in Members(t) \cup d : \E x \in Key : H[x] = m
  BY <1>2
<1> QED
  BY <1>2, <1>3, <1>4 DEF PageScan, t

\* The page iterator goes to the leaf the next link leads to.
LEMMA PageScanNext ==
  ASSUME NEW L \in Seq(Leaf), NEW A, NEW H, LeafInv(L, A, H), LinksOK(L, H), Convex(H),
         NEW cp, cp # Null, NEW s, NEW d, PageScan(H, cp, s, d)
  PROVE  LET n == L[cp].next IN
         /\ n # Null => PageScan(H, n, Append(s, n), d)
         /\ n = Null => PageScan(H, Null, s, d)
<1> DEFINE n == L[cp].next
<1>1. PICK y \in Key : PageAt(H, cp, s, d, y)
  BY DEF PageScan
<1>2. /\ H[y] = cp /\ Low(H, y) /\ cp \in Members(s)
      /\ \A m \in Members(s) : m = cp \/ \A x \in Key : H[x] = m => x < y
      /\ \A m \in d : m \in Members(s) \/ \A x \in Key : H[x] = m => y < x
      /\ s \in Seq(Nat) /\ NoRepeat(s) /\ \A m \in Members(s) \cup d : \E x \in Key : H[x] = m
  BY <1>1 DEF PageAt, PageScan
<1>3. /\ n = Null => \A z \in Key : z > y => H[z] = H[y]
      /\ n # Null => \E z \in Key : /\ y < z /\ H[z] = n /\ Low(H, z) /\ n # H[y]
                                    /\ \A x \in Key : H[x] = H[y] => x < z
                                    /\ \A x \in Key : x > y => H[x] = H[y] \/ z <= x
  BY <1>2, NextLow
<1>4. \A x \in Key : H[x] \in Nat
  BY DEF LeafInv
<1> HIDE DEF n
<1>5. ASSUME n = Null PROVE PageScan(H, Null, s, d)
  <2>1. ASSUME NEW m \in d PROVE m \in Members(s)
    <3>1. SUFFICES ASSUME m \notin Members(s) PROVE FALSE
      OBVIOUS
    <3>2. PICK x \in Key : H[x] = m
      BY <1>2
    <3>3. y < x
      BY <1>2, <3>1, <3>2
    <3>4. H[x] = H[y]
      BY <1>3, <1>5, <3>3, KeysNat
    <3> QED
      BY <1>2, <3>1, <3>2, <3>4
  <2> QED
    BY <1>2, <2>1 DEF PageScan
<1>6. ASSUME n # Null PROVE PageScan(H, n, Append(s, n), d)
  <2>1. PICK z \in Key : /\ y < z /\ H[z] = n /\ Low(H, z) /\ n # H[y]
                         /\ \A x \in Key : H[x] = H[y] => x < z
                         /\ \A x \in Key : x > y => H[x] = H[y] \/ z <= x
    BY <1>3, <1>6
  <2>2. ASSUME NEW m \in Members(s), NEW x \in Key, H[x] = m PROVE x < z
    <3>1. CASE m = cp
      BY <1>2, <2>1, <2>2, <3>1
    <3>2. CASE m # cp
      <4>1. x < y
        BY <1>2, <2>2, <3>2
      <4> QED
        BY <2>1, <4>1, KeysNat
    <3> QED
      BY <3>1, <3>2
  <2>3. ASSUME NEW m \in d, m \notin Members(s), m # n, NEW x \in Key, H[x] = m PROVE z < x
    <3>1. y < x
      BY <1>2, <2>3
    <3>2. H[x] # H[y]
      BY <1>2, <2>3
    <3>3. z <= x
      BY <2>1, <3>1, <3>2, KeysNat
    <3>4. x # z
      BY <2>1, <2>3
    <3> QED
      BY <3>3, <3>4, KeysNat
  <2>4. \A m \in d : m \in Members(s) \/ m = H[z] \/ \A x \in Key : H[x] = m => z < x
    BY <2>1, <2>3
  <2>5. \A m \in Members(s) : \A x \in Key : H[x] = m => x < z
    BY <2>2
  <2>6. PageScan(H, H[z], Append(s, H[z]), d)
    BY <1>2, <1>4, <1>6, <2>1, <2>4, <2>5, EnterPage
  <2> QED
    BY <2>1, <2>6
<1> QED
  BY <1>5, <1>6 DEF n

\* The rest of the list S from leaf n on.
PlaceOf(S, n) == CHOOSE i \in DOMAIN S : S[i] = n
RestOf(S, n) == {S[i] : i \in PlaceOf(S, n)..Len(S)}

LEMMA FromLeaf ==
  ASSUME NEW S, NEW H, Lists(S, H), NEW y \in Key, Low(H, y)
  PROVE  \A m \in RestOf(S, H[y]) :
           /\ \E x \in Key : H[x] = m
           /\ m = H[y] \/ \A x \in Key : H[x] = m => y < x
<1> DEFINE at == PlaceOf(S, H[y])
<1>1. /\ S \in Seq(Nat) /\ DOMAIN S = 1..Len(S) /\ Len(S) \in Nat
      /\ \A i \in 1..Len(S) : \E x \in Key : H[x] = S[i]
      /\ \E i \in 1..Len(S) : S[i] = H[y]
  BY DEF Lists
<1>2. at \in 1..Len(S) /\ S[at] = H[y]
  BY <1>1 DEF PlaceOf
<1> HIDE DEF at
<1>3. ASSUME NEW i \in at..Len(S)
      PROVE  /\ \E x \in Key : H[x] = S[i]
             /\ S[i] = H[y] \/ \A x \in Key : H[x] = S[i] => y < x
  <2>1. i \in 1..Len(S) /\ at \in Nat /\ i \in Nat /\ (at = i \/ at < i)
    BY <1>1, <1>2
  <2>2. CASE at = i
    BY <1>1, <1>2, <2>1, <2>2
  <2>3. ASSUME at < i, NEW x \in Key, H[x] = S[i] PROVE y < x
    BY <1>2, <2>1, <2>3, ListOrder
  <2> QED
    BY <1>1, <2>1, <2>2, <2>3
<1> QED
  BY <1>3 DEF at, RestOf

-----------------------------------------------------------------------------
(* The iterators: the invariant, and the theorems. *)

\* What the invariants of the index say of the leaves of a tree.
LEMMA TreeNow ==
  ASSUME XInv, ListInv, root # Null, ScanInv
  PROVE  LET H == HomesOf(inners, depth, root) IN
         /\ leaves \in Seq(Leaf) /\ LeafInv(leaves, asked, H) /\ LinksOK(leaves, H)
         /\ Convex(H) /\ Lists(LinkedLeaves, H) /\ NoneEmpty(leaves, H)
<1> DEFINE H == HomesOf(inners, depth, root)
<1>1. leaves \in Seq(Leaf) /\ LeafInv(leaves, asked, H) /\ LinksOK(leaves, H)
  BY XInvParts, ListParts DEF TypeOK
<1>2. Lists(LinkedLeaves, H)
  BY ListNow
<1>3. Convex(H)
  BY <1>2, ListConvex
<1>4. NoneEmpty(leaves, H)
  BY PathsNow DEF ScanInv
<1> QED
  BY <1>1, <1>2, <1>3, <1>4

\* The invariant over the homes as constants, now and in the next state.
ScanOf(L, H, r, kd, keys, i, cp, np, s, d) ==
  /\ kd \in Kinds \cup {"none"}
  /\ kd = "none" => cp = Null /\ s = <<>>
  /\ kd # "none" => r # Null
  /\ kd \in {"iter", "sorted"} => KeyScan(L, H, kd, keys, i, cp, np, s, d)
  /\ kd = "page" => PageScan(H, cp, s, d)

LEMMA ScanParts ==
  /\ ScanInv <=> /\ root # Null => NoneEmpty(leaves, HomesOf(inners, depth, root))
                 /\ ScanOf(leaves, HomesOf(inners, depth, root), root,
                           kind, cur_node, idx, cur_ptr, next_ptr, seen, due)
  /\ ScanInv' <=> /\ root' # Null => NoneEmpty(leaves', HomesOf(inners', depth', root'))
                  /\ ScanOf(leaves', HomesOf(inners', depth', root'), root',
                            kind', cur_node', idx', cur_ptr', next_ptr', seen', due')
<1>1. HomeMap = HomesOf(inners, depth, root) /\ HomeMap' = HomesOf(inners', depth', root')
  BY PathsNow, PathsNext
<1> QED
  BY <1>1 DEF ScanInv, ScanOf

\* Insertions keep the invariant of the iterators.
LEMMA InsertScan ==
  ASSUME MaxPerKey <= 1, XInv, ListInv, ScanInv, [Next]_vars, UNCHANGED iter
  PROVE  ScanInv'
<1> DEFINE H == HomesOf(inners, depth, root) G == HomesOf(inners', depth', root')
<1>1. UNCHANGED <<kind, cur_node, cur_ptr, next_ptr, idx, counter, seen, due>>
  BY DEF iter
<1>2. root # Null => NoneEmpty(leaves, H)
  BY ScanParts
<1>3. ScanOf(leaves, H, root, kind, cur_node, idx, cur_ptr, next_ptr, seen, due)
  BY ScanParts
<1>4. root' # Null => NoneEmpty(leaves', G)
  BY <1>2, EmptyStep
<1>5. root # Null => root' # Null /\ StepKeeps(leaves, leaves', H, G)
  BY KeepsStep
<1> HIDE DEF G, H
<1>6. ScanOf(leaves', G, root', kind, cur_node, idx, cur_ptr, next_ptr, seen, due)
  <2>1. ASSUME kind \in {"iter", "sorted"}
        PROVE  KeyScan(leaves', G, kind, cur_node, idx, cur_ptr, next_ptr, seen, due)
    BY <1>3, <1>5, <2>1, KeyScanKept DEF ScanOf
  <2>2. ASSUME kind = "page" PROVE PageScan(G, cur_ptr, seen, due)
    BY <1>3, <1>5, <2>2, PageScanKept DEF ScanOf
  <2> QED
    BY <1>3, <1>5, <2>1, <2>2 DEF ScanOf
<1>7. ScanOf(leaves', G, root', kind', cur_node', idx', cur_ptr', next_ptr', seen', due')
  BY <1>1, <1>6
<1> QED
  BY <1>4, <1>7, ScanParts DEF G

\* Steps of the iterators leave the tree alone.
LEMMA ScanHere ==
  ASSUME ScanInv, UNCHANGED vars,
         ScanOf(leaves, HomesOf(inners, depth, root), root,
                kind', cur_node', idx', cur_ptr', next_ptr', seen', due')
  PROVE  ScanInv'
<1>1. UNCHANGED <<leaves, inners, depth, root>>
  BY DEF vars, tree
<1>2. root # Null => NoneEmpty(leaves, HomesOf(inners, depth, root))
  BY ScanParts
<1>3. /\ root' # Null => NoneEmpty(leaves', HomesOf(inners', depth', root'))
      /\ ScanOf(leaves', HomesOf(inners', depth', root'), root',
                kind', cur_node', idx', cur_ptr', next_ptr', seen', due')
  BY <1>1, <1>2
<1> QED
  BY <1>3, ScanParts

\* What read_from copies, and the current slot.
LEMMA ReadIs ==
  ASSUME NEW kd, NEW n, ReadFrom(kd, n)
  PROVE  /\ cur_ptr' = n /\ next_ptr' = leaves[n].next
         /\ cur_node' = KeysRead(kd, leaves[n]) /\ idx' = SeekIdx(KeysRead(kd, leaves[n]), 0)
BY Zenon DEF ReadFrom, KeysRead

\* The empty sequence, and the first member.
LEMMA FirstOf ==
  ASSUME NEW E
  PROVE  /\ <<>> \in Seq(E) /\ NoRepeat(<<>>) /\ Members(<<>>) = {} /\ Len(<<>>) = 0
         /\ \A e \in E : <<e>> = Append(<<>>, e)
<1>1. <<>> \in Seq(E) /\ Len(<<>>) = 0 /\ DOMAIN <<>> = {}
  OBVIOUS
<1>2. \A e \in E : <<e>> = Append(<<>>, e)
  OBVIOUS
<1> QED
  BY <1>1, <1>2 DEF NoRepeat, Members

\* The constructor and seek.
LEMMA SeekScan ==
  ASSUME XInv, ListInv, ScanInv, NEW kd \in Kinds, NEW k \in Key, Seek(kd, k)
  PROVE  ScanInv'
<1> DEFINE H == HomesOf(inners, depth, root) n == H[k] keys == KeysRead(kd, leaves[n]) i == SeekIdx(keys, 0)
           D == ItemsFrom(kd, n)
<1>1. Walk(root, k)[depth] = n
  BY PathsNow
<1>2. /\ root # Null /\ kind' = kd /\ UNCHANGED vars /\ ReadFrom(kd, n)
      /\ seen' = <<Item(kd, n, cur_node', idx')>> /\ due' = D
  BY <1>1 DEF Seek
<1>3. cur_ptr' = n /\ next_ptr' = leaves[n].next /\ cur_node' = keys /\ idx' = i
  BY <1>2, ReadIs
<1>4. /\ leaves \in Seq(Leaf) /\ LeafInv(leaves, asked, H) /\ LinksOK(leaves, H)
      /\ Convex(H) /\ Lists(LinkedLeaves, H) /\ NoneEmpty(leaves, H)
  BY <1>2, TreeNow
<1>5. seen' = <<IF kd = "page" THEN n ELSE keys[i]>>
  BY <1>2, <1>3 DEF Item
<1>6. LeavesFrom(n) = RestOf(LinkedLeaves, n)
  BY Zenon DEF LeavesFrom, RestOf, PlaceOf
<1> HIDE DEF H
<1>7. PICK y \in Key : H[y] = n /\ Low(H, y)
  BY LowExists
<1>8. \A l \in LeavesFrom(n) : /\ \E x \in Key : H[x] = l
                               /\ l = n \/ \A x \in Key : H[x] = l => y < x
  <2>1. \A l \in RestOf(LinkedLeaves, H[y]) :
          /\ \E x \in Key : H[x] = l
          /\ l = H[y] \/ \A x \in Key : H[x] = l => y < x
    BY <1>4, <1>7, FromLeaf
  <2> QED
    BY <1>6, <1>7, <2>1
<1>9. CASE kd = "page"
  <2>1. D = LeavesFrom(n)
    BY <1>9 DEF ItemsFrom
  <2>2. n \in Nat /\ n # Null
    BY <1>4 DEF LeafInv, Null
  <2>3. PageScan(H, n, Append(<<>>, n), D)
    <3>1. <<>> \in Seq(Nat) /\ NoRepeat(<<>>) /\ Members(<<>>) = {}
      BY FirstOf
    <3> HIDE DEF n, D
    <3>2. PageScan(H, H[y], Append(<<>>, H[y]), D)
      BY <1>7, <1>8, <2>1, <2>2, <3>1, EnterPage
    <3> QED
      BY <1>7, <3>2
  <2>4. Append(<<>>, n) = <<n>>
    BY <2>2, FirstOf
  <2> HIDE DEF n, D, keys, i
  <2>5. seen' = Append(<<>>, n)
    BY <1>5, <1>9, <2>4
  <2>6. ScanOf(leaves, H, root, kind', cur_node', idx', cur_ptr', next_ptr', seen', due')
    BY <1>2, <1>3, <1>9, <2>3, <2>5 DEF ScanOf, Kinds
  <2> QED
    BY <1>2, <2>6, ScanHere DEF H
<1>10. CASE kd # "page"
  <2>1. D = UNION {LeafKeys(leaves[l]) : l \in LeavesFrom(n)}
    BY <1>10 DEF ItemsFrom
  <2>2. ASSUME NEW a \in D PROVE a \in StoredIn(leaves, H) /\ y <= a
    <3>1. PICK l \in LeavesFrom(n) : a \in LeafKeys(leaves[l])
      BY <2>1
    <3>2. PICK x \in Key : H[x] = l
      BY <1>8
    <3>3. a \in Key /\ H[a] = l
      BY <1>4, <3>1, <3>2, KeyLeadsHome
    <3>4. l = n \/ y < a
      BY <1>8, <3>3
    <3>5. y <= a
      BY <1>7, <3>3, <3>4, KeysNat DEF Low
    <3> QED
      BY <3>1, <3>3, <3>5 DEF StoredIn
  <2>3. D \in SUBSET StoredIn(leaves, H)
    BY <2>2
  <2>4. <<>> \in Seq(Key) /\ NoRepeat(<<>>) /\ Members(<<>>) = {} /\ Len(<<>>) = 0
    BY FirstOf
  <2>5. /\ i # N
        /\ KeyScan(leaves, H, kd, keys, i, n, leaves[n].next, Append(<<>>, keys[i]), D)
    <3>1. \A a \in D : a \in Members(<<>>) \/ y <= a
      BY <2>2
    <3>2. \A a \in Members(<<>>) : a < y
      BY <2>4
    <3>3. \A j \in 1..(Len(<<>>) - 1) : <<>>[j] < <<>>[j + 1]
      OBVIOUS
    <3> HIDE DEF n, D
    <3>4. LET l2 == leaves[H[y]]
              keys2 == KeysRead(kd, l2)
              i2 == SeekIdx(keys2, 0)
          IN i2 # N /\ KeyScan(leaves, H, kd, keys2, i2, H[y], l2.next, Append(<<>>, keys2[i2]), D)
      BY <1>4, <1>7, <2>3, <2>4, <3>1, <3>2, <3>3, EnterLeaf
    <3> QED
      BY <1>7, <3>4
  <2>6. keys[i] \in Key
    <3>1. Copy(kd, keys) /\ i \in Valid(keys) /\ n # Null
      BY <1>4, <1>7, <2>5 DEF KeyScan, LeafInv, Null
    <3> HIDE DEF keys, i
    <3> QED
      BY <3>1, KeysNat DEF Copy, Valid
  <2>7. Append(<<>>, keys[i]) = <<keys[i]>>
    BY <2>6, FirstOf
  <2> HIDE DEF n, D, keys, i
  <2>8. seen' = Append(<<>>, keys[i])
    BY <1>5, <1>10, <2>7
  <2>9. kd \in {"iter", "sorted"} /\ kd # "none"
    BY <1>10 DEF Kinds
  <2>10. ScanOf(leaves, H, root, kind', cur_node', idx', cur_ptr', next_ptr', seen', due')
    BY <1>2, <1>3, <1>10, <2>5, <2>8, <2>9 DEF ScanOf
  <2> QED
    BY <1>2, <2>10, ScanHere DEF H
<1> QED
  BY <1>9, <1>10

\* next inside the copied leaf.
LEMMA InLeafScan ==
  ASSUME ScanInv, NextInLeaf
  PROVE  ScanInv'
<1> DEFINE H == HomesOf(inners, depth, root) j == SeekIdx(cur_node, idx + 1)
<1>1. /\ kind \in {"iter", "sorted"} /\ cur_ptr # Null /\ j # N /\ idx' = j
      /\ seen' = Append(seen, cur_node[j])
      /\ UNCHANGED <<vars, kind, cur_node, cur_ptr, next_ptr, due>>
  BY DEF NextInLeaf
<1>2. ScanOf(leaves, H, root, kind, cur_node, idx, cur_ptr, next_ptr, seen, due)
  BY ScanParts
<1> HIDE DEF H
<1>3. KeyScan(leaves, H, kind, cur_node, idx, cur_ptr, next_ptr, seen, due)
  BY <1>1, <1>2 DEF ScanOf
<1>4. KeyScan(leaves, H, kind, cur_node, j, cur_ptr, next_ptr, Append(seen, cur_node[j]), due)
  BY <1>1, <1>3, KeyScanInLeaf
<1> HIDE DEF j
<1>5. ScanOf(leaves, H, root, kind', cur_node', idx', cur_ptr', next_ptr', seen', due')
  BY <1>1, <1>2, <1>4 DEF ScanOf
<1> QED
  BY <1>1, <1>5, ScanHere DEF H

\* next that leaves the copied leaf.
LEMMA NextLeafScan ==
  ASSUME XInv, ListInv, ScanInv, NextLeaf
  PROVE  ScanInv'
<1> DEFINE H == HomesOf(inners, depth, root)
           n == IF kind = "page" THEN leaves[cur_ptr].next ELSE next_ptr
<1>1. /\ cur_ptr # Null /\ n # Null /\ ReadFrom(kind, n)
      /\ kind # "page" => SeekIdx(cur_node, idx + 1) = N
      /\ seen' = Append(seen, Item(kind, n, cur_node', idx'))
      /\ UNCHANGED <<vars, kind, due>>
  BY DEF NextLeaf
<1>2. ScanOf(leaves, H, root, kind, cur_node, idx, cur_ptr, next_ptr, seen, due)
  BY ScanParts
<1> DEFINE keys == KeysRead(kind, leaves[n]) i == SeekIdx(keys, 0)
<1>3. cur_ptr' = n /\ next_ptr' = leaves[n].next /\ cur_node' = keys /\ idx' = i
  BY <1>1, ReadIs
<1>4. kind \in Kinds /\ root # Null
  BY <1>1, <1>2 DEF ScanOf
<1>5. /\ leaves \in Seq(Leaf) /\ LeafInv(leaves, asked, H) /\ LinksOK(leaves, H)
      /\ Convex(H) /\ NoneEmpty(leaves, H)
  BY <1>4, TreeNow
<1>6. seen' = Append(seen, IF kind = "page" THEN n ELSE keys[i])
  BY <1>1, <1>3 DEF Item
<1> HIDE DEF H
<1>7. CASE kind = "page"
  <2>1. PageScan(H, cur_ptr, seen, due)
    BY <1>2, <1>7 DEF ScanOf
  <2>2. PageScan(H, n, Append(seen, n), due)
    BY <1>1, <1>5, <1>7, <2>1, PageScanNext
  <2> HIDE DEF n, keys, i
  <2>3. ScanOf(leaves, H, root, kind', cur_node', idx', cur_ptr', next_ptr', seen', due')
    BY <1>1, <1>3, <1>4, <1>6, <1>7, <2>2 DEF ScanOf
  <2> QED
    BY <1>1, <2>3, ScanHere DEF H
<1>8. CASE kind # "page"
  <2>1. kind \in {"iter", "sorted"} /\ kind # "none" /\ n = next_ptr
    BY <1>4, <1>8 DEF Kinds
  <2> HIDE DEF n
  <2>2. KeyScan(leaves, H, kind, cur_node, idx, cur_ptr, next_ptr, seen, due)
    BY <1>2, <2>1 DEF ScanOf
  <2>3. PICK y \in Key : Ahead(H, cur_node, idx, n, seen, due, y)
    BY <1>1, <2>1, <2>2 DEF KeyScan
  <2>4. KeysFrom(cur_node, idx + 1) = {}
    <3>1. cur_node \in [Slot -> Key \cup {kInvalidKey}] /\ idx + 1 \in Nat
      BY <2>2, XNodeAssumption DEF KeyScan, Copy
    <3>2. \A j \in Valid(cur_node) : ~(j >= idx + 1)
      BY <1>1, <1>8, <3>1, SeekFirst
    <3> QED
      BY <3>2 DEF KeysFrom
  <2>5. /\ seen \in Seq(Key) /\ NoRepeat(seen) /\ due \in SUBSET StoredIn(leaves, H)
        /\ kind = "sorted" => \A j \in 1..(Len(seen) - 1) : seen[j] < seen[j + 1]
    BY <2>2 DEF KeyScan
  <2>6. /\ H[y] = n /\ Low(H, y) /\ (\A a \in Members(seen) : a < y)
        /\ \A a \in due : a \in Members(seen) \/ y <= a
    BY <2>3, <2>4 DEF Ahead
  <2>7. LET l2 == leaves[H[y]]
            keys2 == KeysRead(kind, l2)
            i2 == SeekIdx(keys2, 0)
        IN i2 # N /\ KeyScan(leaves, H, kind, keys2, i2, H[y], l2.next, Append(seen, keys2[i2]), due)
    BY <1>5, <2>5, <2>6, EnterLeaf
  <2>8. KeyScan(leaves, H, kind, keys, i, n, leaves[n].next, Append(seen, keys[i]), due)
    BY <2>6, <2>7
  <2> HIDE DEF keys, i
  <2>9. ScanOf(leaves, H, root, kind', cur_node', idx', cur_ptr', next_ptr', seen', due')
    BY <1>1, <1>3, <1>4, <1>6, <1>8, <2>1, <2>8 DEF ScanOf
  <2> QED
    BY <1>1, <2>9, ScanHere DEF H
<1> QED
  BY <1>7, <1>8

\* next at the end of the list.
LEMMA NextEndScan ==
  ASSUME XInv, ListInv, ScanInv, NextEnd
  PROVE  ScanInv'
<1> DEFINE H == HomesOf(inners, depth, root)
           n == IF kind = "page" THEN leaves[cur_ptr].next ELSE next_ptr
<1>1. /\ cur_ptr # Null /\ n = Null /\ cur_ptr' = Null /\ idx' = N
      /\ kind # "page" => SeekIdx(cur_node, idx + 1) = N
      /\ UNCHANGED <<vars, kind, cur_node, next_ptr, seen, due>>
  BY DEF NextEnd
<1>2. ScanOf(leaves, H, root, kind, cur_node, idx, cur_ptr, next_ptr, seen, due)
  BY ScanParts
<1>3. kind \in Kinds /\ root # Null
  BY <1>1, <1>2 DEF ScanOf
<1>4. /\ leaves \in Seq(Leaf) /\ LeafInv(leaves, asked, H) /\ LinksOK(leaves, H) /\ Convex(H)
  BY <1>3, TreeNow
<1> HIDE DEF H
<1>5. CASE kind = "page"
  <2>1. PageScan(H, cur_ptr, seen, due)
    BY <1>2, <1>5 DEF ScanOf
  <2>2. PageScan(H, Null, seen, due)
    BY <1>1, <1>4, <1>5, <2>1, PageScanNext
  <2> HIDE DEF n
  <2>3. ScanOf(leaves, H, root, kind', cur_node', idx', cur_ptr', next_ptr', seen', due')
    BY <1>1, <1>3, <1>5, <2>2 DEF ScanOf
  <2> QED
    BY <1>1, <2>3, ScanHere DEF H
<1>6. CASE kind # "page"
  <2>1. kind \in {"iter", "sorted"} /\ kind # "none" /\ next_ptr = Null
    BY <1>1, <1>3, <1>6 DEF Kinds
  <2> HIDE DEF n
  <2>2. KeyScan(leaves, H, kind, cur_node, idx, cur_ptr, next_ptr, seen, due)
    BY <1>2, <2>1 DEF ScanOf
  <2>3. cur_node \in [Slot -> Key \cup {kInvalidKey}] /\ idx + 1 \in Nat /\ N \in 0..N
    BY <2>2, XNodeAssumption DEF KeyScan, Copy
  <2>4. KeysFrom(cur_node, idx + 1) = {}
    <3>1. \A j \in Valid(cur_node) : ~(j >= idx + 1)
      BY <1>1, <1>6, <2>3, SeekFirst
    <3> QED
      BY <3>1 DEF KeysFrom
  <2>5. KeysFrom(cur_node, N + 1) = {}
    <3>1. \A j \in Valid(cur_node) : ~(j >= N + 1)
      BY XNodeAssumption DEF Valid, Slot
    <3> QED
      BY <3>1 DEF KeysFrom
  <2>6. KeyScan(leaves, H, kind, cur_node, N, Null, Null, seen, due)
    BY <2>1, <2>2, <2>3, <2>4, <2>5 DEF KeyScan
  <2>7. ScanOf(leaves, H, root, kind', cur_node', idx', cur_ptr', next_ptr', seen', due')
    BY <1>1, <1>3, <1>6, <2>1, <2>6 DEF ScanOf
  <2> QED
    BY <1>1, <2>7, ScanHere DEF H
<1> QED
  BY <1>5, <1>6

\* The iterators walk the index: the index does its own steps.
LEMMA IterIsTree == IterSpec => Spec
<1>1. IterInit => Init
  BY DEF IterInit
<1>2. [IterNext]_ivars => [Next]_vars
  <2>1. ASSUME Insert \/ UNCHANGED ivars PROVE [Next]_vars
    BY <2>1 DEF Insert, ivars
  <2>2. ASSUME NEW kd \in Kinds, NEW k \in Key, Seek(kd, k) PROVE UNCHANGED vars
    BY <2>2 DEF Seek
  <2>3. ASSUME NextInLeaf \/ NextLeaf \/ NextEnd PROVE UNCHANGED vars
    BY <2>3 DEF NextInLeaf, NextLeaf, NextEnd
  <2> QED
    BY <2>1, <2>2, <2>3 DEF IterNext
<1> QED
  BY <1>1, <1>2, PTL DEF IterSpec, Spec

\* What an iterator has returned and has yet to return, in every state.
THEOREM ScansHold == ASSUME MaxPerKey <= 1 PROVE IterSpec => []ScanInv
<1>1. IterInit => ScanInv
  <2> SUFFICES ASSUME IterInit PROVE ScanInv
    OBVIOUS
  <2>1. root = Null /\ kind = "none" /\ cur_ptr = Null /\ seen = <<>>
    BY DEF IterInit, Init
  <2> QED
    BY <2>1 DEF ScanInv, Kinds
<1>2. XInv /\ ListInv /\ ScanInv /\ [IterNext]_ivars => ScanInv'
  <2> SUFFICES ASSUME XInv, ListInv, ScanInv, [IterNext]_ivars PROVE ScanInv'
    OBVIOUS
  <2>1. ASSUME Insert \/ UNCHANGED ivars PROVE ScanInv'
    <3>1. [Next]_vars /\ UNCHANGED iter
      BY <2>1 DEF Insert, ivars
    <3> QED
      BY <3>1, InsertScan
  <2> QED
    BY <2>1, SeekScan, InLeafScan, NextLeafScan, NextEndScan DEF IterNext
<1> QED
  BY <1>1, <1>2, IterIsTree, ListHolds, PTL DEF IterSpec

\* SortedScan: the sorted iterator returns rising keys, although leaves split
\* before, at and behind its position.
THEOREM SortedScansRise == ASSUME MaxPerKey <= 1 PROVE IterSpec => []SortedScan
<1>1. ScanInv => SortedScan
  <2> SUFFICES ASSUME ScanInv, kind = "sorted" PROVE \A i \in 1..(Len(seen) - 1) : seen[i] < seen[i + 1]
    BY DEF SortedScan
  <2>1. KeyScan(leaves, HomeMap, kind, cur_node, idx, cur_ptr, next_ptr, seen, due)
    BY DEF ScanInv
  <2> QED
    BY <2>1 DEF KeyScan
<1> QED
  BY <1>1, ScansHold, PTL

\* A sequence that repeats none has as many members as places.
LEMMA CountMembers ==
  ASSUME NEW E, NEW s \in Seq(E), NoRepeat(s)
  PROVE  Cardinality(Members(s)) = Len(s)
<1>1. DOMAIN s = 1..Len(s) /\ Len(s) \in Nat
  OBVIOUS
<1> DEFINE n == Len(s) f == [i \in 1..n |-> s[i]]
<1>2. f \in Bijection(1..n, Members(s))
  <2>1. \A i \in 1..n : f[i] = s[i] /\ s[i] \in Members(s)
    BY <1>1 DEF Members
  <2>2. f \in [1..n -> Members(s)]
    BY <2>1
  <2>3. \A i, j \in 1..n : f[i] = f[j] => i = j
    BY <1>1, <2>1 DEF NoRepeat
  <2>4. \A m \in Members(s) : \E i \in 1..n : f[i] = m
    BY <1>1, <2>1 DEF Members
  <2> HIDE DEF f, n
  <2> QED
    BY <2>2, <2>3, <2>4 DEF Bijection, Injection, Surjection, IsInjective
<1> HIDE DEF f, n
<1>3. IsFiniteSet(1..n) /\ Cardinality(1..n) = n
  BY <1>1, FS_Interval DEF n
<1>4. Cardinality(Members(s)) = Cardinality(1..n)
  <2>1. ExistsBijection(1..n, Members(s))
    BY <1>2 DEF ExistsBijection
  <2> QED
    BY <1>3, <2>1, FS_Bijection
<1> QED
  BY <1>3, <1>4 DEF n

\* ScanExactlyOnce: a scan returns nothing twice, and at its end all that was in
\* the list from its start on, whatever is inserted meanwhile.
THEOREM ScansAreExact == ASSUME MaxPerKey <= 1 PROVE IterSpec => []ScanExactlyOnce
<1>1. ScanInv => ScanExactlyOnce
  <2> SUFFICES ASSUME ScanInv PROVE ScanExactlyOnce
    OBVIOUS
  <2>1. Seen = Members(seen)
    BY DEF Seen, Members
  <2>2. CASE kind = "none"
    <3>1. seen \in Seq(Nat) /\ NoRepeat(seen)
      BY <2>2, FirstOf DEF ScanInv
    <3> QED
      BY <2>1, <2>2, <3>1, CountMembers DEF ScanExactlyOnce
  <2>3. CASE kind \in {"iter", "sorted"}
    <3>1. KeyScan(leaves, HomeMap, kind, cur_node, idx, cur_ptr, next_ptr, seen, due)
      BY <2>3 DEF ScanInv
    <3>2. seen \in Seq(Key) /\ NoRepeat(seen)
      BY <3>1 DEF KeyScan
    <3>3. ASSUME cur_ptr = Null PROVE due \subseteq Members(seen)
      <4>1. due \subseteq Members(seen) \cup KeysFrom(cur_node, N + 1)
        BY <3>1, <3>3 DEF KeyScan
      <4>2. \A j \in Valid(cur_node) : ~(j >= N + 1)
        BY XNodeAssumption DEF Valid, Slot
      <4> QED
        BY <4>1, <4>2 DEF KeysFrom
    <3> QED
      BY <2>1, <3>2, <3>3, CountMembers DEF ScanExactlyOnce
  <2>4. CASE kind = "page"
    <3>1. PageScan(HomeMap, cur_ptr, seen, due)
      BY <2>4 DEF ScanInv
    <3>2. /\ seen \in Seq(Nat) /\ NoRepeat(seen)
          /\ cur_ptr = Null => due \subseteq Members(seen)
      BY <3>1 DEF PageScan
    <3> QED
      BY <2>1, <3>2, CountMembers DEF ScanExactlyOnce
  <2> QED
    BY <2>2, <2>3, <2>4 DEF ScanInv, Kinds
<1> QED
  BY <1>1, ScansHold, PTL

=============================================================================
