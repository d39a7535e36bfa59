-------------------------- MODULE LiveReadsProofs --------------------------
(***************************************************************************)
(* The readers of LiveReads and what they may rely on, proved for every    *)
(* number of slots, keys, pages and operations of a batch.                 *)
(*                                                                         *)
(* WInv is about the tree and the insertion alone: where the keys are at   *)
(* every store of a split.  StepEffect is all that a reader can notice of  *)
(* a step of the insertion, TableInv what its table still tells it, and    *)
(* CountInv how the bits in the table relate to the splits since training. *)
(* LookupInv follows a lookup, and OrderInv and ScanInv an iterator,       *)
(* through the steps of the insertion, which change what they see only as  *)
(* StepEffect says.  StoresInv relates each store of a split to the split  *)
(* that XTree takes as one step.                                           *)
(*                                                                         *)
(* A lookup is followed by the number of splits of a leaf, so that the     *)
(* bits in the table may repeat.  What is said of an iterator depends on   *)
(* incarnations: there Len(leaves) <= IncarMod stands before it, for each  *)
(* split adds a leaf, so while there are no more leaves than values of the *)
(* 16-bit counter no leaf's incarnation has returned to an earlier value.  *)
(***************************************************************************)
EXTENDS LiveReads, FiniteSetTheorems, WellFoundedInduction, TLAPS

(* Least and greatest numbers. *)

\* A set of naturals has a least member.
LEMMA NatMin ==
  ASSUME NEW T \in SUBSET Nat, T # {}
  PROVE  \E m \in T : \A k \in T : m <= k
<1> DEFINE R == OpToRel(<, Nat)
<1>1. IsWellFoundedOn(R, Nat)
  BY NatLessThanWellFounded
<1>2. R = {ss \in Nat \X Nat : ss[1] < ss[2]}
  BY DEF OpToRel
<1> HIDE DEF R
<1>3. PICK x \in T : \A y \in T : <<y, x>> \notin R
  BY <1>1, WFMin
<1>4. \A y \in T : ~(y < x)
  BY <1>2, <1>3
<1>5. ASSUME NEW y \in T PROVE x <= y
  <2>1. x \in Nat /\ y \in Nat
    OBVIOUS
  <2> QED
    BY <2>1, <1>4
<1> QED
  BY <1>5

\* A bounded set of naturals has a greatest member.
LEMMA NatMax ==
  ASSUME NEW B \in Nat, NEW S \in SUBSET (0..B), S # {}
  PROVE  \E m \in S : \A k \in S : k <= m
<1> DEFINE T == {B - k : k \in S}
<1>1. T \in SUBSET Nat /\ T # {}
  <2>1. \A k \in S : k \in 0..B
    OBVIOUS
  <2>2. \A k \in 0..B : B - k \in Nat
    OBVIOUS
  <2> QED
    BY <2>1, <2>2
<1>2. PICK t \in T : \A k \in T : t <= k
  BY <1>1, NatMin
<1>3. PICK m \in S : t = B - m
  OBVIOUS
<1>4. ASSUME NEW k \in S PROVE k <= m
  <2>1. B - m <= B - k
    BY <1>2, <1>3
  <2> QED
    BY <2>1
<1> QED
  BY <1>4

\* First finds the least member of a set of naturals.
LEMMA FirstIsLeast ==
  ASSUME NEW S \in SUBSET Nat, S # {}
  PROVE  First(S) \in S /\ \A j \in S : First(S) <= j
BY NatMin DEF First

-----------------------------------------------------------------------------
(* The operators of a leaf. *)

\* The fields of a leaf.
LEMMA LeafFields ==
  ASSUME NEW l \in Leaf
  PROVE  /\ l.keys \in [Slot -> Key \cup {kInvalidKey}]
         /\ l.vals \in [Slot -> Nat]
         /\ l.incarnation \in 0..(IncarMod - 1)
         /\ l.next \in Nat
         /\ \A i \in Slot : l.keys[i] \in Nat
BY XNodeAssumption DEF Leaf, Key, kInvalidKey

\* The leaves with a low key are leaves.
LEMMA LowLeaves ==
  ASSUME NEW L \in Seq(Leaf), NEW W \in Seq(Key), NEW c \in {0, 1}, Len(L) = Len(W) + c
  PROVE  /\ Len(L) \in Nat /\ Len(W) \in Nat /\ Len(W) <= Len(L) /\ DOMAIN W = 1..Len(W)
         /\ \A n \in DOMAIN W :
              /\ n \in 1..Len(L) /\ L[n] \in Leaf
              /\ L[n].incarnation \in 0..(IncarMod - 1) /\ L[n].incarnation \in Nat
<1>1. Len(L) \in Nat /\ Len(W) \in Nat /\ Len(W) <= Len(L) /\ DOMAIN W = 1..Len(W)
  OBVIOUS
<1>2. \A n \in DOMAIN W : n \in 1..Len(L)
  BY <1>1
<1>3. \A n \in DOMAIN W : L[n] \in Leaf
  BY <1>2
<1>4. \A n \in DOMAIN W : L[n].incarnation \in 0..(IncarMod - 1)
  BY <1>3, LeafFields
<1> QED
  BY <1>1, <1>2, <1>3, <1>4

\* The slot add_key takes is the first free one.
LEMMA FirstFree ==
  ASSUME NEW l \in Leaf, Free(l) # {}
  PROVE  /\ First(Free(l)) \in Slot
         /\ l.keys[First(Free(l))] = kInvalidKey
         /\ \A j \in Free(l) : First(Free(l)) <= j
<1>1. Free(l) \in SUBSET Nat
  BY XNodeAssumption DEF Free, Slot
<1>2. First(Free(l)) \in Free(l) /\ \A j \in Free(l) : First(Free(l)) <= j
  BY <1>1, FirstIsLeast
<1> QED
  BY <1>2 DEF Free

\* A leaf with a free slot takes the key and the value there.
LEMMA AddFills ==
  ASSUME NEW l \in Leaf, NEW k \in Key, NEW v \in Nat, Free(l) # {}
  PROVE  LET i == First(Free(l)) IN
         /\ Add(l, k, v) \in Leaf
         /\ Add(l, k, v).keys = [l.keys EXCEPT ![i] = k]
         /\ Add(l, k, v).vals = [l.vals EXCEPT ![i] = v]
         /\ Add(l, k, v).incarnation = l.incarnation
         /\ Add(l, k, v).next = l.next
<1>1. First(Free(l)) \in Slot
  BY FirstFree
<1> QED
  BY <1>1, LeafFields DEF Add, Leaf

\* Clear empties its slots and no others.
LEMMA ClearEmpties ==
  ASSUME NEW l \in Leaf, NEW S
  PROVE  /\ Clear(l, S) \in Leaf
         /\ \A i \in Slot : Clear(l, S).keys[i] = IF i \in S THEN kInvalidKey ELSE l.keys[i]
         /\ Clear(l, S).vals = l.vals
         /\ Clear(l, S).incarnation = l.incarnation
         /\ Clear(l, S).next = l.next
BY LeafFields DEF Clear, Leaf

\* A leaf that is allocated for a split.
LEMMA EmptyLeafType == EmptyLeaf \in Leaf
BY XNodeAssumption DEF EmptyLeaf, Leaf, Key, kInvalidKey, NoVal, Null

\* The median of a full leaf leaves room for one more key in the new leaf, and
\* some smaller key in the old one.
LEMMA MedianSplits ==
  ASSUME NEW l \in Leaf, Free(l) = {}, NEW m \in MedianSlots(l),
         \A i, j \in Slot : l.keys[i] = l.keys[j] => i = j
  PROVE  /\ m \in Slot /\ l.keys[m] \in Key
         /\ Above(l, l.keys[m]) = {i \in Slot : l.keys[i] > l.keys[m]}
         /\ Cardinality(Above(l, l.keys[m])) \in 0..(N - 2)
         /\ \E j \in Slot : l.keys[j] < l.keys[m]
<1> DEFINE A == {i \in Slot : l.keys[i] > l.keys[m]}
           LE == {i \in Slot : l.keys[i] <= l.keys[m]}
<1>1. N \in Nat /\ N >= 2
  BY XNodeAssumption
<1>2. m \in Slot /\ N \div 2 < Cardinality(LE)
  BY DEF MedianSlots
<1>3. Above(l, l.keys[m]) = A /\ l.keys[m] \in Key
  BY <1>2, LeafFields DEF Above, Used, Free
<1>4. \A i \in Slot : l.keys[i] \in Nat
  BY LeafFields
<1>5. IsFiniteSet(Slot) /\ Cardinality(Slot) = N
  BY <1>1, FS_Interval DEF Slot
<1>6. /\ IsFiniteSet(A) /\ IsFiniteSet(LE) /\ Cardinality(A) \in Nat /\ Cardinality(LE) \in Nat
  BY <1>5, FS_Subset, FS_CardinalityType
<1>7. A \cup LE = Slot /\ A \cap LE = {}
  BY <1>2, <1>4
<1>8. N = Cardinality(A) + Cardinality(LE) - 0
  BY <1>5, <1>6, <1>7, FS_Union, FS_EmptySet
<1> HIDE DEF A, LE
<1>9. Cardinality(A) <= N - 2 /\ Cardinality(LE) >= 2
  BY <1>1, <1>2, <1>6, <1>8
<1>10. PICK j \in LE : j # m
  <2>1. m \in LE
    BY <1>2, <1>4 DEF LE
  <2>2. LE # {m}
    BY <1>6, <1>9, FS_Singleton
  <2> QED
    BY <2>1, <2>2
<1>11. l.keys[j] < l.keys[m]
  BY <1>2, <1>4, <1>10 DEF LE
<1> QED
  BY <1>2, <1>3, <1>6, <1>9, <1>10, <1>11 DEF A, LE

-----------------------------------------------------------------------------
(* The writer. *)

Split == wpc \in {"move", "new", "last", "link"}

\* find_leaf sends key k to leaf n.
Holds(n, k) == /\ low[n] <= k
               /\ \A m \in DOMAIN low : low[m] <= low[n] \/ k < low[m]

Has(n, k) == \E i \in Slot : leaves[n].keys[i] = k

\* The types, and the number of leaves: a leaf that is being filled has no low key yet.
WType ==
  /\ leaves \in Seq(Leaf) /\ low \in Seq(Key)
  /\ wpc \in {"idle", "add", "value", "move", "new", "last", "link"}
  /\ wkey \in Key /\ wnode \in 0..Len(low) /\ widx \in Slot
  /\ pivot \in Key \cup {kInvalidKey} /\ todo \in Seq(Slot) /\ full \in Leaf /\ done \subseteq Key
  /\ Len(leaves) = Len(low) + (IF Split THEN 1 ELSE 0)

\* The low keys are distinct, and leaf 1 answers for the least key.
LowInv == /\ Len(low) >= 1 /\ low[1] = 0
          /\ \A m, n \in DOMAIN low : low[m] = low[n] => m = n

\* The next leaf is the one with the next low key.
ChainInv ==
  \A n \in DOMAIN low :
    /\ leaves[n].next \in {Null} \cup DOMAIN low
    /\ leaves[n].next = Null => \A m \in DOMAIN low : low[m] <= low[n]
    /\ leaves[n].next # Null =>
         /\ low[n] < low[leaves[n].next]
         /\ \A m \in DOMAIN low : low[m] <= low[n] \/ low[leaves[n].next] <= low[m]

\* The insertion has not ended, and its key goes to the leaf.
WriterInv ==
  wpc # "idle" =>
    /\ wkey \notin done /\ wnode # Null /\ Holds(wnode, wkey)
    /\ wpc \in {"value", "last"} => leaves[wnode].keys[widx] = wkey
    /\ Split => wkey # pivot
    /\ wpc = "last" => wkey < pivot
    /\ wpc = "link" => IF wkey < pivot THEN Has(wnode, wkey) ELSE Has(Cand, wkey)

\* A leaf holds keys that were inserted, each once, with its value, and only keys
\* that find_leaf sends to it.
LeafInv ==
  \A n \in LeafId : \A i \in Slot :
    leaves[n].keys[i] # kInvalidKey =>
      /\ leaves[n].keys[i] \in done \/ (wpc \in {"value", "last", "link"} /\ leaves[n].keys[i] = wkey)
      /\ leaves[n].vals[i] = ValOf(leaves[n].keys[i]) \/ (wpc \in {"value", "last"} /\ n = wnode /\ i = widx)
      /\ Holds(IF n \in DOMAIN low THEN n ELSE wnode, leaves[n].keys[i])
      /\ \A j \in Slot : leaves[n].keys[j] = leaves[n].keys[i] => j = i

\* An inserted key is in its leaf, or while that splits in one of the halves.
PlaceInv ==
  \A k \in done : \A n \in DOMAIN low :
    Holds(n, k) => Has(n, k) \/ (Split /\ n = wnode /\ Has(Cand, k))

\* No leaf is empty once a key is stored.
FilledInv ==
  IF done = {} THEN Len(low) = 1
  ELSE \A n \in DOMAIN low : \E k \in Key : Has(n, k) /\ (Split /\ n = wnode => k < pivot)

\* A split: the keys from the pivot on move to the candidate, which has room for
\* them and for the new key.
SplitInv ==
  Split =>
    /\ pivot \in done /\ low[wnode] < pivot /\ Holds(wnode, pivot)
    /\ \A i \in Slot : leaves[Cand].keys[i] # kInvalidKey =>
         /\ leaves[Cand].keys[i] >= pivot
         /\ ~Has(wnode, leaves[Cand].keys[i])
    /\ wpc = "move" => todo # <<>>
    /\ wpc # "move" => todo = <<>>
    /\ \A a, b \in DOMAIN todo : todo[a] = todo[b] => a = b
    /\ \A i \in Slot : leaves[wnode].keys[i] # kInvalidKey =>
         (leaves[wnode].keys[i] >= pivot <=> \E a \in DOMAIN todo : todo[a] = i)
    /\ \A a \in DOMAIN todo : leaves[wnode].keys[todo[a]] # kInvalidKey
    /\ wpc \in {"move", "new"} => \E c \in 0..(N - 1 - Len(todo)) : Free(leaves[Cand]) = c..(N - 1)

\* A leaf has split less often than there are leaves.
IncarInv == Len(leaves) <= IncarMod =>
              \A n \in LeafId : leaves[n].incarnation < Len(leaves)

WInv == /\ WType /\ LowInv /\ ChainInv /\ WriterInv /\ LeafInv
        /\ PlaceInv /\ FilledInv /\ SplitInv /\ IncarInv

-----------------------------------------------------------------------------
(* The translation table of a client. *)

\* The leaf has split since the table was made.
Changed(n) == splits[n] # 0

\* The leaf of page p has not split since the table was made.
Same(p) == splits[tt[p][1]] = 0

\* Page p is the one that held key k when the table was made.
IsHome(p, k) == /\ low[tt[p][1]] <= k
                /\ \A q \in DOMAIN tt : low[tt[q][1]] <= k => q <= p

\* The table names leaves; one that has not split since answers for the keys of its page.
TableInv ==
  /\ tt \in Seq(Nat \X (0..(TableMod - 1)))
  /\ \A p \in DOMAIN tt : tt[p][1] \in DOMAIN low
  /\ \A p, q \in DOMAIN tt : p < q => low[tt[p][1]] < low[tt[q][1]]
  /\ tt # <<>> => low[tt[1][1]] = 0 /\ done # {}
  /\ \A p \in DOMAIN tt :
       Same(p) => /\ ~(Split /\ wnode = tt[p][1])
                  /\ \A m \in DOMAIN low :
                       low[tt[p][1]] < low[m] =>
                         \E q \in DOMAIN tt : p < q /\ low[tt[q][1]] <= low[m]

\* The bits in the table and the splits since make up the bits of the leaf.
CountInv ==
  /\ splits \in Seq(Nat) /\ Len(splits) = Len(leaves)
  /\ \A p \in DOMAIN tt : leaves[tt[p][1]].incarnation % TableMod = (tt[p][2] + splits[tt[p][1]]) % TableMod

-----------------------------------------------------------------------------
(* Numbers and sets. *)

Rising(q, n) == \A i, j \in 1..n : i < j => q[i] < q[j]

\* A bounded set of naturals can be put in order.
LEMMA OrderExists ==
  ASSUME NEW B \in Nat, NEW S \in SUBSET (0..B)
  PROVE  /\ IsFiniteSet(S) /\ Cardinality(S) \in Nat
         /\ \E q \in [1..Cardinality(S) -> S] : Rising(q, Cardinality(S))
<1> DEFINE Orders(A) == {q \in [1..Cardinality(A) -> A] : Rising(q, Cardinality(A))}
           T == {Cardinality(A) : A \in {A \in SUBSET (0..B) : Orders(A) = {}}}
<1>1. \A A \in SUBSET (0..B) : IsFiniteSet(A) /\ Cardinality(A) \in Nat
  <2>1. IsFiniteSet(0..B)
    BY FS_Interval
  <2> QED
    BY <2>1, FS_Subset, FS_CardinalityType
<1>2. ASSUME T # {} PROVE FALSE
  <2>1. T \in SUBSET Nat
    BY <1>1
  <2>2. PICK c \in T : \A k \in T : c <= k
    BY <2>1, <1>2, NatMin
  <2>3. PICK A \in SUBSET (0..B) : Orders(A) = {} /\ c = Cardinality(A)
    OBVIOUS
  <2>4. c \in Nat
    BY <2>1
  <2>5. A # {}
    <3>1. SUFFICES ASSUME A = {} PROVE FALSE
      OBVIOUS
    <3>2. Cardinality(A) = 0
      BY <3>1, FS_EmptySet
    <3>3. [i \in 1..0 |-> i] \in [1..0 -> A] /\ Rising([i \in 1..0 |-> i], 0)
      BY DEF Rising
    <3> QED
      BY <2>3, <3>2, <3>3
  <2>6. PICK m \in A : \A k \in A : k <= m
    BY <2>5, NatMax
  <2> DEFINE A1 == A \ {m}
  <2>7. Cardinality(A1) = c - 1 /\ c - 1 \in Nat
    BY <1>1, <2>3, <2>4, FS_RemoveElement
  <2>8. PICK q \in Orders(A1) : TRUE
    <3>1. SUFFICES ASSUME Orders(A1) = {} PROVE FALSE
      OBVIOUS
    <3>2. A1 \in SUBSET (0..B)
      OBVIOUS
    <3>3. Cardinality(A1) \in T
      BY <3>1, <3>2
    <3>4. c <= Cardinality(A1)
      BY <2>2, <3>3
    <3> HIDE DEF A1
    <3> QED
      BY <2>4, <2>7, <3>4
  <2> DEFINE q1 == [i \in 1..c |-> IF i = c THEN m ELSE q[i]]
  <2>9. q \in [1..(c - 1) -> A1] /\ Rising(q, c - 1)
    BY <2>7, <2>8
  <2>10. q1 \in [1..c -> A]
    BY <2>4, <2>7, <2>9, SMTT(30)
  <2>11. Rising(q1, c)
    <3> SUFFICES ASSUME NEW i \in 1..c, NEW j \in 1..c, i < j PROVE q1[i] < q1[j]
      BY DEF Rising
    <3>1. CASE j = c
      <4>1. i \in 1..(c - 1)
        BY <3>1, <2>4
      <4>2. q[i] \in A /\ q[i] # m
        BY <4>1, <2>9
      <4>3. q[i] <= m
        BY <4>2, <2>6
      <4>5. q[i] \in 0..B /\ m \in 0..B
        BY <4>2
      <4>4. q1[i] = q[i] /\ q1[j] = m
        BY <3>1, <4>1, <2>4
      <4> QED
        BY <4>2, <4>3, <4>4, <4>5
    <3>2. CASE j # c
      <4>1. i \in 1..(c - 1) /\ j \in 1..(c - 1)
        BY <3>2, <2>4
      <4>2. q1[i] = q[i] /\ q1[j] = q[j]
        BY <4>1, <2>4
      <4> QED
        BY <4>1, <4>2, <2>9 DEF Rising
    <3> QED
      BY <3>1, <3>2
  <2> QED
    BY <2>3, <2>10, <2>11
<1>3. Orders(S) # {}
  BY <1>2
<1> QED
  BY <1>1, <1>3

\* Ascending lists the members of a bounded set of naturals, each once, in order.
LEMMA AscendingIsOrder ==
  ASSUME NEW B \in Nat, NEW S \in SUBSET (0..B)
  PROVE  /\ Cardinality(S) \in Nat
         /\ Ascending(S) \in [1..Cardinality(S) -> S]
         /\ Rising(Ascending(S), Cardinality(S))
         /\ \A x \in S : \E i \in 1..Cardinality(S) : Ascending(S)[i] = x
<1> DEFINE c == Cardinality(S)
           q == Ascending(S)
<1>1. IsFiniteSet(S) /\ c \in Nat
  BY OrderExists
<1>2. q \in [1..c -> S] /\ Rising(q, c)
  <2>1. \E r \in [1..c -> S] : Rising(r, c)
    BY OrderExists
  <2> QED
    BY <2>1 DEF Ascending, Rising
<1> HIDE DEF q, c
<1>3. q \in Injection(1..c, S)
  <2> SUFFICES ASSUME NEW i \in 1..c, NEW j \in 1..c, q[i] = q[j] PROVE i = j
    BY <1>2 DEF Injection, IsInjective
  <2>1. q[i] \in Nat
    <3>1. q[i] \in 0..B
      BY <1>2
    <3> QED
      BY <3>1
  <2>2. ~(i < j) /\ ~(j < i)
    BY <1>2, <2>1 DEF Rising
  <2> QED
    BY <1>1, <2>2
<1>4. IsFiniteSet(1..c) /\ Cardinality(1..c) = c
  BY <1>1, FS_Interval
<1>5. q \in Surjection(1..c, S)
  BY <1>1, <1>3, <1>4, FS_Injection DEF c
<1> QED
  BY <1>1, <1>2, <1>5 DEF Surjection, q, c

-----------------------------------------------------------------------------

\* find_leaf always finds the leaf of a key.
LEMMA FindLeafHolds ==
  ASSUME WType, LowInv, NEW k \in Key
  PROVE  FindLeaf(k) \in DOMAIN low /\ Holds(FindLeaf(k), k)
<1> DEFINE S == {low[n] : n \in {n \in DOMAIN low : low[n] <= k}}
<1>1. MaxKey \in Nat /\ S \in SUBSET (0..MaxKey)
  BY XNodeAssumption DEF WType, Key
<1>2. S # {}
  BY DEF LowInv, WType, Key
<1>3. PICK m \in S : \A x \in S : x <= m
  BY <1>1, <1>2, NatMax
<1>4. PICK n \in DOMAIN low : low[n] = m /\ low[n] <= k
  BY <1>3
<1>5. \A j \in DOMAIN low : low[j] <= k => low[j] <= low[n]
  BY <1>3, <1>4
<1>6. /\ FindLeaf(k) \in DOMAIN low
      /\ low[FindLeaf(k)] <= k
      /\ \A j \in DOMAIN low : low[j] <= k => low[j] <= low[FindLeaf(k)]
  BY <1>4, <1>5 DEF FindLeaf
<1>7. \A j \in DOMAIN low : low[j] \in Nat
  BY <1>1, SMTT(30) DEF WType, Key
<1> QED
  BY <1>6, <1>7 DEF Holds, Key

\* A key belongs to one leaf.
LEMMA HoldsOnce ==
  ASSUME WType, LowInv, NEW k \in Nat, NEW m \in DOMAIN low, NEW n \in DOMAIN low,
         Holds(m, k), Holds(n, k)
  PROVE  m = n
<1>1. low[m] \in Nat /\ low[n] \in Nat
  BY XNodeAssumption, SMTT(30) DEF WType, Key
<1>2. low[m] = low[n]
  BY <1>1 DEF Holds
<1> QED
  BY <1>2 DEF LowInv

\* The same of the next state.
LEMMA HoldsOnceNext ==
  ASSUME WType', LowInv', NEW k \in Nat, NEW m \in DOMAIN low', NEW n \in DOMAIN low',
         Holds(m, k)', Holds(n, k)'
  PROVE  m = n
<1>1. low'[m] \in Nat /\ low'[n] \in Nat
  BY XNodeAssumption, SMTT(30) DEF WType, Key
<1>2. low'[m] = low'[n]
  BY <1>1 DEF Holds
<1> QED
  BY <1>2 DEF LowInv

-----------------------------------------------------------------------------
(* The insertion preserves WInv. *)

\* The tree is empty when the server starts.
LEMMA InitW == Init => WInv
<1> SUFFICES ASSUME Init PROVE WInv
  OBVIOUS
<1>1. WType /\ LowInv /\ ChainInv
  BY EmptyLeafType, XNodeAssumption
  DEF Init, WType, LowInv, ChainInv, Split, EmptyLeaf, Null, Key, Slot, kInvalidKey
<1>2. WriterInv /\ LeafInv /\ PlaceInv /\ FilledInv /\ SplitInv
  BY XNodeAssumption
  DEF Init, WriterInv, LeafInv, PlaceInv, FilledInv, SplitInv, Split, EmptyLeaf, LeafId, Slot
<1>3. IncarInv
  BY DEF Init, IncarInv, EmptyLeaf, LeafId
<1> QED
  BY <1>1, <1>2, <1>3 DEF WInv

\* An insertion that begins has found the leaf of its key.
LEMMA InsertBeginW ==
  ASSUME WInv, NEW k \in Key, InsertBegin(k)
  PROVE  WInv'
<1> USE DEF WInv
<1>1. FindLeaf(k) \in DOMAIN low /\ Holds(FindLeaf(k), k)
  BY FindLeafHolds
<1>2. ~Split /\ ~Split'
  BY DEF InsertBegin, Split
<1>3. WType' /\ LowInv' /\ ChainInv' /\ IncarInv'
  BY <1>1, <1>2 DEF InsertBegin, WType, LowInv, ChainInv, IncarInv, tree, LeafId
<1>4. WriterInv'
  BY <1>1, <1>2 DEF InsertBegin, WriterInv, Holds, tree, Null, WType
<1>5. LeafInv' /\ PlaceInv' /\ FilledInv' /\ SplitInv'
  <2>1. DOMAIN low = LeafId
    BY <1>2 DEF WType, LeafId
  <2> QED
    BY <1>2, <2>1 DEF InsertBegin, LeafInv, PlaceInv, FilledInv, SplitInv, Holds, Has, tree, LeafId
<1> QED
  BY <1>3, <1>4, <1>5

\* The facts about the leaf an insertion works on.
LEMMA WriterLeaf ==
  ASSUME WType, WriterInv, wpc # "idle"
  PROVE  /\ wnode \in DOMAIN low /\ wnode \in LeafId
         /\ leaves[wnode] \in Leaf /\ wkey \in Nat /\ ValOf(wkey) \in Nat
         /\ wkey # kInvalidKey /\ kInvalidKey \in Nat
BY XNodeAssumption DEF WType, WriterInv, Key, Null, ValOf, kInvalidKey, LeafId

\* The key is stored in a free slot of its leaf.
LEMMA AddKeyW ==
  ASSUME WInv, AddKey
  PROVE  WInv'
<1> USE DEF WInv
<1> DEFINE i == First(Free(leaves[wnode]))
<1>1. /\ wpc \in {"add", "new"} /\ Free(leaves[wnode]) # {}
      /\ wpc = "new" => wkey < pivot
      /\ leaves' = [leaves EXCEPT ![wnode].keys[i] = wkey]
      /\ widx' = i
      /\ wpc' = IF wpc = "add" THEN "value" ELSE "last"
      /\ low' = low /\ wkey' = wkey /\ wnode' = wnode /\ pivot' = pivot /\ todo' = todo
      /\ full' = full /\ done' = done
  BY DEF AddKey
<1>2. /\ wnode \in DOMAIN low /\ wnode \in LeafId
      /\ leaves[wnode] \in Leaf /\ wkey \in Nat /\ ValOf(wkey) \in Nat
      /\ wkey # kInvalidKey /\ kInvalidKey \in Nat
  BY <1>1, WriterLeaf
<1>3. i \in Slot /\ leaves[wnode].keys[i] = kInvalidKey
  BY <1>1, <1>2, FirstFree
<1> HIDE DEF i
<1>4. Split' = Split
  BY <1>1 DEF Split
<1>5. /\ leaves' \in Seq(Leaf) /\ Len(leaves') = Len(leaves)
      /\ \A n \in LeafId : n # wnode => leaves'[n] = leaves[n]
      /\ leaves'[wnode].keys = [leaves[wnode].keys EXCEPT ![i] = wkey]
      /\ leaves'[wnode].vals = leaves[wnode].vals
      /\ leaves'[wnode].incarnation = leaves[wnode].incarnation
      /\ leaves'[wnode].next = leaves[wnode].next
  <2> DEFINE l2 == [leaves[wnode] EXCEPT !.keys = [@ EXCEPT ![i] = wkey]]
  <2>1. /\ l2 \in Leaf
        /\ l2.keys = [leaves[wnode].keys EXCEPT ![i] = wkey]
        /\ l2.vals = leaves[wnode].vals
        /\ l2.incarnation = leaves[wnode].incarnation
        /\ l2.next = leaves[wnode].next
    BY <1>2, <1>3, LeafFields DEF Leaf, WType
  <2>2. leaves' = [leaves EXCEPT ![wnode] = l2]
    BY <1>1
  <2> HIDE DEF l2
  <2> QED
    BY <1>2, <2>1, <2>2 DEF WType, LeafId
<1>6. /\ \A j \in Slot : j # i => leaves'[wnode].keys[j] = leaves[wnode].keys[j]
      /\ leaves'[wnode].keys[i] = wkey
  BY <1>2, <1>3, <1>5, LeafFields
<1>7. \A n \in LeafId, k \in Key : Has(n, k) => Has(n, k)'
  <2> SUFFICES ASSUME NEW n \in LeafId, NEW k \in Key, NEW j \in Slot, leaves[n].keys[j] = k
               PROVE  leaves'[n].keys[j] = k
    BY DEF Has
  <2>1. k # kInvalidKey
    BY XNodeAssumption DEF Key, kInvalidKey
  <2> QED
    BY <1>3, <1>5, <1>6, <2>1
<1>8. \A n, k : Holds(n, k)' = Holds(n, k)
  BY <1>1 DEF Holds
<1>9. ~Has(wnode, wkey) /\ (Split => ~Has(Cand, wkey))
  <2>1. \A n \in LeafId : ~Has(n, wkey)
    BY <1>1, <1>2 DEF Has, LeafInv, WriterInv
  <2>2. Split => Cand \in LeafId
    BY DEF WType, Cand, LeafId
  <2> QED
    BY <1>2, <2>1, <2>2
<1>10. WType' /\ LowInv'
  BY <1>1, <1>2, <1>3, <1>4, <1>5 DEF WType, LowInv
<1>11. ChainInv' /\ IncarInv'
  <2>1. \A n \in LeafId : /\ leaves'[n].next = leaves[n].next
                          /\ leaves'[n].incarnation = leaves[n].incarnation
    BY <1>5
  <2>2. DOMAIN low \subseteq LeafId /\ LeafId' = LeafId
    BY <1>5 DEF WType, LeafId
  <2> QED
    BY <1>1, <1>5, <2>1, <2>2 DEF ChainInv, IncarInv
<1>12. WriterInv'
  <2>1. wkey \notin done /\ wnode # Null /\ Holds(wnode, wkey)
    BY <1>1 DEF WriterInv
  <2>2. Split => wkey # pivot
    BY <1>1 DEF WriterInv
  <2> QED
    BY <2>1, <2>2, <1>1, <1>4, <1>6, <1>8 DEF WriterInv
<1>13. LeafInv'
  <2> SUFFICES ASSUME NEW n \in LeafId, NEW j \in Slot, leaves'[n].keys[j] # kInvalidKey
               PROVE  (/\ leaves[n].keys[j] \in done \/ (wpc \in {"value", "last", "link"} /\ leaves[n].keys[j] = wkey)
                       /\ leaves[n].vals[j] = ValOf(leaves[n].keys[j]) \/ (wpc \in {"value", "last"} /\ n = wnode /\ j = widx)
                       /\ Holds(IF n \in DOMAIN low THEN n ELSE wnode, leaves[n].keys[j])
                       /\ \A h \in Slot : leaves[n].keys[h] = leaves[n].keys[j] => h = j)'
    BY <1>5 DEF LeafInv, LeafId
  <2>1. CASE n = wnode /\ j = i
    <3>1. \A h \in Slot : leaves[wnode].keys[h] # wkey
      BY <1>9 DEF Has
    <3>2. Holds(wnode, wkey)
      BY <1>1 DEF WriterInv
    <3> QED
      BY <2>1, <1>1, <1>2, <1>5, <1>6, <1>8, <3>1, <3>2
  <2>2. CASE ~(n = wnode /\ j = i)
    <3>1. leaves'[n].keys[j] = leaves[n].keys[j] /\ leaves'[n].vals[j] = leaves[n].vals[j]
      BY <2>2, <1>5, <1>6
    <3>2. /\ leaves[n].keys[j] \in done
          /\ leaves[n].vals[j] = ValOf(leaves[n].keys[j])
          /\ Holds(IF n \in DOMAIN low THEN n ELSE wnode, leaves[n].keys[j])
          /\ \A h \in Slot : leaves[n].keys[h] = leaves[n].keys[j] => h = j
      BY <3>1, <1>1 DEF LeafInv
    <3>3. n = wnode => leaves[n].keys[j] # wkey
      BY <1>9 DEF Has
    <3>4. \A h \in Slot : leaves'[n].keys[h] = leaves[n].keys[j] => h = j
      <4>1. CASE n = wnode
        BY <4>1, <3>2, <3>3, <1>6
      <4>2. CASE n # wnode
        BY <4>2, <3>2, <1>5
      <4> QED
        BY <4>1, <4>2
    <3> QED
      BY <3>1, <3>2, <3>4, <1>1, <1>8
  <2> QED
    BY <2>1, <2>2
<1>14. PlaceInv'
  <2> SUFFICES ASSUME NEW k \in done, NEW n \in DOMAIN low, Holds(n, k)
               PROVE  Has(n, k)' \/ (Split /\ n = wnode /\ Has(Cand, k)')
    BY <1>1, <1>4, <1>5, <1>8 DEF PlaceInv, Cand
  <2>1. k \in Key /\ n \in LeafId /\ (Split => Cand \in LeafId)
    BY DEF WType, LeafId, Cand, Split
  <2>2. Cand' = Cand
    BY <1>5 DEF Cand
  <2> QED
    BY <1>7, <2>1, <2>2 DEF PlaceInv, Has
<1>15. FilledInv'
  <2>1. DOMAIN low \subseteq LeafId
    BY DEF WType, LeafId
  <2> QED
    BY <1>1, <1>4, <1>7, <2>1 DEF FilledInv
<1>16. SplitInv'
  <2> SUFFICES ASSUME Split PROVE SplitInv'
    BY <1>4 DEF SplitInv
  <2>1. wpc = "new" /\ wkey < pivot /\ todo = <<>> /\ wpc' = "last"
    BY <1>1 DEF Split, SplitInv
  <2>2. Cand \in LeafId /\ Cand # wnode /\ leaves'[Cand] = leaves[Cand] /\ Cand' = Cand
    BY <1>2, <1>5 DEF WType, LeafId, Cand, Split
  <2>3. pivot \in done /\ low[wnode] < pivot /\ Holds(wnode, pivot)
    BY DEF SplitInv
  <2>4. \A j \in Slot : leaves[Cand].keys[j] # kInvalidKey =>
          leaves[Cand].keys[j] >= pivot /\ ~Has(wnode, leaves[Cand].keys[j])
    BY DEF SplitInv
  <2>5. \A j \in Slot : leaves[Cand].keys[j] # kInvalidKey => ~Has(wnode, leaves[Cand].keys[j])'
    <3> SUFFICES ASSUME NEW j \in Slot, leaves[Cand].keys[j] # kInvalidKey,
                        NEW h \in Slot, leaves'[wnode].keys[h] = leaves[Cand].keys[j]
                 PROVE  FALSE
      BY <1>1, <2>2 DEF Has
    <3>1. leaves[Cand].keys[j] # wkey
      BY <1>9 DEF Has
    <3> QED
      BY <2>4, <3>1, <1>6 DEF Has
  <2>6. \A j \in Slot : leaves'[wnode].keys[j] # kInvalidKey => leaves'[wnode].keys[j] < pivot
    <3>1. \A j \in Slot : leaves[wnode].keys[j] # kInvalidKey => ~(leaves[wnode].keys[j] >= pivot)
      BY <2>1 DEF SplitInv
    <3>2. pivot \in Nat /\ \A j \in Slot : leaves[wnode].keys[j] \in Nat
      BY <1>2, <2>3, LeafFields DEF WType, Key
    <3> QED
      BY <3>1, <3>2, <1>6, <2>1
  <2>7. pivot \in Nat /\ \A j \in Slot : leaves'[wnode].keys[j] \in Nat
    <3>1. leaves'[wnode] \in Leaf
      BY <1>2, <1>5 DEF LeafId
    <3>2. \A j \in Slot : leaves'[wnode].keys[j] \in Nat
      BY <3>1, LeafFields
    <3>3. pivot \in Nat
      BY <2>3 DEF WType, Key
    <3> QED
      BY <3>2, <3>3
  <2> QED
    BY <1>1, <1>4, <1>8, <2>1, <2>2, <2>3, <2>4, <2>5, <2>6, <2>7 DEF SplitInv, Split
<1> QED
  BY <1>10, <1>11, <1>12, <1>13, <1>14, <1>15, <1>16

\* The value is stored behind the key; in a leaf that does not split this ends the
\* insertion.
LEMMA ValueUpdateW ==
  ASSUME WInv, ValueUpdate
  PROVE  WInv'
<1> USE DEF WInv
<1>1. /\ wpc \in {"value", "last"}
      /\ leaves' = [leaves EXCEPT ![wnode].vals[widx] = ValOf(wkey)]
      /\ wpc' = IF wpc = "value" THEN "idle" ELSE "link"
      /\ done' = IF wpc = "value" THEN done \cup {wkey} ELSE done
      /\ low' = low /\ wkey' = wkey /\ wnode' = wnode /\ widx' = widx /\ pivot' = pivot
      /\ todo' = todo /\ full' = full
  BY DEF ValueUpdate
<1>2. /\ wnode \in DOMAIN low /\ wnode \in LeafId
      /\ leaves[wnode] \in Leaf /\ wkey \in Nat /\ ValOf(wkey) \in Nat
      /\ wkey # kInvalidKey /\ kInvalidKey \in Nat
  BY <1>1, WriterLeaf
<1>3. leaves[wnode].keys[widx] = wkey /\ widx \in Slot /\ wkey \notin done /\ Holds(wnode, wkey)
  BY <1>1 DEF WriterInv, WType
<1>4. Split' = Split
  BY <1>1 DEF Split
<1>5. /\ leaves' \in Seq(Leaf) /\ Len(leaves') = Len(leaves)
      /\ \A n \in LeafId : n # wnode => leaves'[n] = leaves[n]
      /\ leaves'[wnode].keys = leaves[wnode].keys
      /\ leaves'[wnode].vals = [leaves[wnode].vals EXCEPT ![widx] = ValOf(wkey)]
      /\ leaves'[wnode].incarnation = leaves[wnode].incarnation
      /\ leaves'[wnode].next = leaves[wnode].next
  <2> DEFINE l2 == [leaves[wnode] EXCEPT !.vals = [@ EXCEPT ![widx] = ValOf(wkey)]]
  <2>1. /\ l2 \in Leaf
        /\ l2.keys = leaves[wnode].keys
        /\ l2.vals = [leaves[wnode].vals EXCEPT ![widx] = ValOf(wkey)]
        /\ l2.incarnation = leaves[wnode].incarnation
        /\ l2.next = leaves[wnode].next
    BY <1>2, <1>3, LeafFields DEF Leaf
  <2>2. leaves' = [leaves EXCEPT ![wnode] = l2]
    BY <1>1
  <2> HIDE DEF l2
  <2> QED
    BY <1>2, <2>1, <2>2 DEF WType, LeafId
<1>6. \A n \in LeafId : /\ leaves'[n].keys = leaves[n].keys
                        /\ leaves'[n].next = leaves[n].next
                        /\ leaves'[n].incarnation = leaves[n].incarnation
  BY <1>5
<1>7. DOMAIN low \subseteq LeafId /\ LeafId' = LeafId /\ Cand' = Cand /\ (Split => Cand \in LeafId)
  BY <1>5 DEF WType, LeafId, Cand
<1>8. \A n, k : Holds(n, k)' = Holds(n, k)
  BY <1>1 DEF Holds
<1>9. \A n \in LeafId : \A k : Has(n, k)' = Has(n, k)
  BY <1>6 DEF Has
<1>10. WType' /\ LowInv'
  BY <1>1, <1>2, <1>3, <1>4, <1>5 DEF WType, LowInv
<1>11. ChainInv' /\ IncarInv'
  BY <1>1, <1>5, <1>6, <1>7 DEF ChainInv, IncarInv
<1>12. WriterInv'
  <2>1. CASE wpc = "value"
    BY <2>1, <1>1 DEF WriterInv
  <2>2. CASE wpc = "last"
    <3>1. wkey < pivot /\ wkey # pivot /\ Has(wnode, wkey) /\ wnode # Null
      BY <2>2, <1>3 DEF WriterInv, Has, Split
    <3> QED
      BY <2>2, <3>1, <1>1, <1>2, <1>3, <1>8, <1>9 DEF WriterInv
  <2> QED
    BY <1>1, <2>1, <2>2
<1>13. LeafInv'
  <2> SUFFICES ASSUME NEW n \in LeafId, NEW j \in Slot, leaves'[n].keys[j] # kInvalidKey
               PROVE  (/\ leaves[n].keys[j] \in done \/ (wpc \in {"value", "last", "link"} /\ leaves[n].keys[j] = wkey)
                       /\ leaves[n].vals[j] = ValOf(leaves[n].keys[j]) \/ (wpc \in {"value", "last"} /\ n = wnode /\ j = widx)
                       /\ Holds(IF n \in DOMAIN low THEN n ELSE wnode, leaves[n].keys[j])
                       /\ \A h \in Slot : leaves[n].keys[h] = leaves[n].keys[j] => h = j)'
    BY <1>5 DEF LeafInv, LeafId
  <2>1. leaves'[n].keys = leaves[n].keys
    BY <1>6
  <2>2. /\ leaves[n].keys[j] \in done \/ leaves[n].keys[j] = wkey
        /\ leaves[n].vals[j] = ValOf(leaves[n].keys[j]) \/ (n = wnode /\ j = widx)
        /\ Holds(IF n \in DOMAIN low THEN n ELSE wnode, leaves[n].keys[j])
        /\ \A h \in Slot : leaves[n].keys[h] = leaves[n].keys[j] => h = j
    BY <2>1 DEF LeafInv
  <2>3. leaves'[n].vals[j] = ValOf(leaves[n].keys[j])
    <3>1. CASE n = wnode /\ j = widx
      BY <3>1, <1>2, <1>3, <1>5, LeafFields
    <3>2. CASE n = wnode /\ j # widx
      BY <3>2, <1>2, <1>3, <1>5, <2>2, LeafFields
    <3>3. CASE n # wnode
      BY <3>3, <1>5, <2>2
    <3> QED
      BY <3>1, <3>2, <3>3
  <2> QED
    BY <1>1, <1>8, <2>1, <2>2, <2>3
<1>14. PlaceInv'
  <2> SUFFICES ASSUME NEW k \in done', NEW n \in DOMAIN low, Holds(n, k)
               PROVE  Has(n, k) \/ (Split /\ n = wnode /\ Has(Cand, k))
    BY <1>1, <1>4, <1>7, <1>8, <1>9 DEF PlaceInv, Cand
  <2>1. CASE k \in done
    BY <2>1 DEF PlaceInv
  <2>2. CASE k = wkey
    <3>1. n = wnode
      BY <2>2, <1>2, <1>3, HoldsOnce
    <3> QED
      BY <2>2, <3>1, <1>3 DEF Has
  <2> QED
    BY <1>1, <2>1, <2>2
<1>15. FilledInv'
  <2>1. CASE done # {}
    BY <2>1, <1>1, <1>4, <1>7, <1>9 DEF FilledInv
  <2>2. CASE done = {}
    <3>1. ~Split
      BY <2>2 DEF SplitInv
    <3>2. \A n \in DOMAIN low : \E k \in Key : Has(n, k)
      <4> SUFFICES ASSUME NEW n \in DOMAIN low PROVE Has(n, wkey)
        BY DEF WType
      <4>1. n = wnode
        BY <2>2, <1>2 DEF FilledInv, WType
      <4> QED
        BY <4>1, <1>3 DEF Has
    <3> QED
      BY <3>1, <3>2, <1>4, <1>7, <1>9, <1>1 DEF FilledInv
  <2> QED
    BY <2>1, <2>2
<1>16. SplitInv'
  <2> SUFFICES ASSUME Split PROVE SplitInv'
    BY <1>4 DEF SplitInv
  <2>1. wpc = "last" /\ wpc' = "link" /\ done' = done
    BY <1>1 DEF Split
  <2>2. leaves'[Cand].keys = leaves[Cand].keys /\ leaves'[wnode].keys = leaves[wnode].keys
    BY <1>2, <1>6, <1>7
  <2> QED
    BY <1>1, <1>2, <1>4, <1>7, <1>8, <1>9, <2>1, <2>2 DEF SplitInv
<1> QED
  BY <1>10, <1>11, <1>12, <1>13, <1>14, <1>15, <1>16

\* A full leaf starts to split: the incarnation changes, and the slots to move are listed.
LEMMA SplitBeginW ==
  ASSUME WInv, SplitBegin
  PROVE  WInv'
<1> USE DEF WInv
<1> DEFINE l == leaves[wnode]
           l2 == [l EXCEPT !.incarnation = (@ + 1) % IncarMod]
<1>1. /\ wpc = "add" /\ Free(l) = {} /\ wpc' = "move" /\ full' = l
      /\ leaves' = Append([leaves EXCEPT ![wnode] = l2], EmptyLeaf)
      /\ low' = low /\ wkey' = wkey /\ wnode' = wnode /\ widx' = widx /\ done' = done
  BY DEF SplitBegin
<1>2. /\ wnode \in DOMAIN low /\ wnode \in LeafId
      /\ l \in Leaf /\ wkey \in Nat /\ ValOf(wkey) \in Nat
      /\ wkey # kInvalidKey /\ kInvalidKey \in Nat
  BY <1>1, WriterLeaf
<1>3. ~Split /\ Split' /\ DOMAIN low = LeafId /\ Len(low) = Len(leaves)
  BY <1>1 DEF Split, WType, LeafId
<1>4. /\ l2 \in Leaf /\ l2.keys = l.keys /\ l2.vals = l.vals /\ l2.next = l.next
      /\ l2.incarnation = (l.incarnation + 1) % IncarMod
  BY <1>2, LeafFields, XNodeAssumption DEF Leaf
<1> HIDE DEF l2
<1>5. /\ leaves' \in Seq(Leaf) /\ Len(leaves') = Len(leaves) + 1 /\ Cand' = Len(leaves) + 1
      /\ \A n \in LeafId : n # wnode => leaves'[n] = leaves[n]
      /\ leaves'[wnode] = l2 /\ leaves'[Cand'] = EmptyLeaf
  BY <1>1, <1>2, <1>4, EmptyLeafType DEF WType, LeafId, Cand
<1>6. \A n \in LeafId : /\ leaves'[n].keys = leaves[n].keys
                        /\ leaves'[n].vals = leaves[n].vals
                        /\ leaves'[n].next = leaves[n].next
  BY <1>4, <1>5
<1>7. \A j \in Slot : l.keys[j] # kInvalidKey /\ l.keys[j] \in done
  BY <1>1, <1>2 DEF Free, LeafInv
<1>8. \A i, j \in Slot : l.keys[i] = l.keys[j] => i = j
  BY <1>2, <1>7 DEF LeafInv
<1>9. PICK m \in MedianSlots(l) : pivot' = l.keys[m] /\ todo' = <<m>> \o Ascending(Above(l, l.keys[m]))
  BY DEF SplitBegin
<1> DEFINE A == Above(l, l.keys[m])
           c == Cardinality(A)
<1>10. /\ m \in Slot /\ l.keys[m] \in Key /\ A = {i \in Slot : l.keys[i] > l.keys[m]}
       /\ c \in 0..(N - 2) /\ \E j \in Slot : l.keys[j] < l.keys[m]
  BY <1>1, <1>2, <1>8, MedianSplits
<1>11. /\ Ascending(A) \in [1..c -> A]
       /\ Rising(Ascending(A), c)
       /\ \A x \in A : \E i \in 1..c : Ascending(A)[i] = x
  <2>1. N - 1 \in Nat /\ A \in SUBSET (0..(N - 1))
    BY <1>10, XNodeAssumption DEF Slot
  <2> QED
    BY <2>1, AscendingIsOrder
<1> HIDE DEF A, c
<1> DEFINE q == Ascending(A)
<1>12. /\ Len(todo') = c + 1 /\ todo' \in Seq(Slot) /\ todo'[1] = m
       /\ \A i \in 1..c : todo'[i + 1] = q[i]
       /\ \A i \in 2..(c + 1) : todo'[i] = q[i - 1]
  <2>1. q \in Seq(Slot) /\ Len(q) = c /\ c \in Nat
    <3>1. A \subseteq Slot /\ c \in Nat
      BY <1>10
    <3>2. q \in [1..c -> Slot]
      BY <3>1, <1>11
    <3> QED
      BY <3>1, <3>2
  <2>2. todo' = <<m>> \o q
    BY <1>9 DEF A
  <2> HIDE DEF q
  <2> QED
    BY <1>10, <2>1, <2>2
<1> HIDE DEF q
<1>13. \A i \in Slot : (\E a \in DOMAIN todo' : todo'[a] = i) <=> l.keys[i] >= l.keys[m]
  <2>1. \A i \in Slot : l.keys[i] \in Nat
    BY <1>2, LeafFields
  <2>2. ASSUME NEW i \in Slot, NEW a \in DOMAIN todo', todo'[a] = i PROVE l.keys[i] >= l.keys[m]
    <3>1. CASE a = 1
      BY <3>1, <2>1, <2>2, <1>12, <1>10
    <3>2. CASE a # 1
      <4>1. a - 1 \in 1..c /\ i = q[a - 1]
        BY <3>2, <2>2, <1>12, <1>10
      <4>2. i \in A
        BY <4>1, <1>11 DEF q
      <4> QED
        BY <4>2, <1>10, <2>1
    <3> QED
      BY <3>1, <3>2
  <2>3. ASSUME NEW i \in Slot, l.keys[i] >= l.keys[m] PROVE \E a \in DOMAIN todo' : todo'[a] = i
    <3>1. CASE i = m
      BY <3>1, <1>12, <1>10
    <3>2. CASE i # m
      <4>1. i \in A
        BY <3>2, <2>3, <2>1, <1>8, <1>10
      <4>2. PICK a \in 1..c : q[a] = i
        BY <4>1, <1>11 DEF q
      <4>3. todo'[a + 1] = i /\ a + 1 \in DOMAIN todo'
        BY <4>2, <1>12, <1>10
      <4> QED
        BY <4>3
    <3> QED
      BY <3>1, <3>2
  <2> QED
    BY <2>2, <2>3
<1>14. \A a, b \in DOMAIN todo' : todo'[a] = todo'[b] => a = b
  <2>1. \A a \in 1..c : q[a] \in A /\ q[a] \in Nat
    <3>1. A \subseteq Slot /\ \A x \in Slot : x \in Nat
      BY <1>10 DEF Slot
    <3> QED
      BY <3>1, <1>11 DEF q
  <2>2. m \notin A
    BY <1>10, <1>2, LeafFields
  <2>3. ASSUME NEW a \in DOMAIN todo', NEW b \in DOMAIN todo', a < b, todo'[a] = todo'[b] PROVE FALSE
    <3>1. b - 1 \in 1..c /\ todo'[b] = q[b - 1]
      BY <2>3, <1>12, <1>10
    <3>2. CASE a = 1
      BY <3>1, <3>2, <2>1, <2>2, <2>3, <1>12
    <3>3. CASE a # 1
      <4>1. a - 1 \in 1..c /\ todo'[a] = q[a - 1] /\ a - 1 < b - 1
        BY <3>3, <2>3, <1>12, <1>10, SMTT(30)
      <4>2. q[a - 1] < q[b - 1]
        BY <3>1, <4>1, <1>11 DEF Rising, q
      <4> QED
        BY <3>1, <4>1, <4>2, <2>1, <2>3
    <3> QED
      BY <3>2, <3>3
  <2>4. DOMAIN todo' = 1..(c + 1) /\ c \in Nat
    BY <1>10, <1>12
  <2> QED
    BY <2>3, <2>4
<1>15. \A n, k : Holds(n, k)' = Holds(n, k)
  BY <1>1 DEF Holds
<1>16. \A n \in LeafId : \A k : Has(n, k)' = Has(n, k)
  BY <1>6 DEF Has
<1>17. pivot' \in done /\ Holds(wnode, pivot') /\ pivot' \in Key /\ pivot' = l.keys[m]
  <2>1. Holds(wnode, l.keys[m])
    BY <1>2, <1>7, <1>10 DEF LeafInv
  <2> QED
    BY <2>1, <1>7, <1>9, <1>10
<1>18. WType' /\ LowInv'
  BY <1>1, <1>2, <1>3, <1>5, <1>12, <1>17 DEF WType, LowInv
<1>19. ChainInv'
  BY <1>1, <1>3, <1>6 DEF ChainInv
<1>20. IncarInv'
  <2> SUFFICES ASSUME Len(leaves') <= IncarMod, NEW n \in LeafId' PROVE leaves'[n].incarnation < Len(leaves')
    BY DEF IncarInv
  <2>0. Len(leaves) \in Nat /\ IncarMod \in Nat
    BY XNodeAssumption DEF WType
  <2>1. \A h \in LeafId : leaves[h].incarnation < Len(leaves) /\ leaves[h].incarnation \in 0..(IncarMod - 1)
    BY <1>5, <2>0, LeafFields, SMTT(30) DEF IncarInv, WType, LeafId
  <2>2. CASE n = wnode
    <3>1. (l.incarnation + 1) % IncarMod = l.incarnation + 1
      <4>1. l.incarnation + 1 \in 0..(IncarMod - 1)
        BY <2>0, <2>1, <1>2, <1>5
      <4> QED
        BY <4>1, <2>0, SMTT(30)
    <3> QED
      BY <2>0, <2>1, <2>2, <3>1, <1>2, <1>4, <1>5, SMTT(30)
  <2>3. CASE n = Len(leaves) + 1
    BY <2>3, <2>0, <1>5 DEF EmptyLeaf
  <2>4. CASE n # wnode /\ n # Len(leaves) + 1
    BY <2>4, <2>0, <2>1, <1>5, SMTT(30) DEF LeafId
  <2> QED
    BY <2>2, <2>3, <2>4
<1>21. WriterInv'
  <2>1. wkey \notin done /\ wnode # Null /\ Holds(wnode, wkey)
    BY <1>1 DEF WriterInv
  <2> QED
    BY <1>1, <1>15, <1>17, <2>1 DEF WriterInv
<1>22. LeafInv'
  <2> SUFFICES ASSUME NEW n \in LeafId', NEW j \in Slot, leaves'[n].keys[j] # kInvalidKey
               PROVE  (/\ leaves[n].keys[j] \in done \/ (wpc \in {"value", "last", "link"} /\ leaves[n].keys[j] = wkey)
                       /\ leaves[n].vals[j] = ValOf(leaves[n].keys[j]) \/ (wpc \in {"value", "last"} /\ n = wnode /\ j = widx)
                       /\ Holds(IF n \in DOMAIN low THEN n ELSE wnode, leaves[n].keys[j])
                       /\ \A h \in Slot : leaves[n].keys[h] = leaves[n].keys[j] => h = j)'
    BY DEF LeafInv
  <2>1. n \in LeafId
    BY <1>5 DEF EmptyLeaf, LeafId, WType
  <2> QED
    BY <2>1, <1>1, <1>3, <1>6, <1>15 DEF LeafInv
<1>23. PlaceInv'
  BY <1>1, <1>3, <1>15, <1>16 DEF PlaceInv
<1>24. FilledInv'
  <2> SUFFICES ASSUME NEW n \in DOMAIN low
               PROVE  \E k \in Key : Has(n, k)' /\ (n = wnode => k < pivot')
    BY <1>1, <1>3, <1>17 DEF FilledInv
  <2>1. CASE n = wnode
    <3>1. PICK j \in Slot : l.keys[j] < l.keys[m]
      BY <1>10
    <3>2. l.keys[j] \in Key /\ Has(n, l.keys[j])
      BY <2>1, <3>1, <1>7, <1>2 DEF Has, WType
    <3> QED
      BY <2>1, <3>1, <3>2, <1>3, <1>16, <1>17
  <2>2. CASE n # wnode
    BY <2>2, <1>3, <1>16, <1>17 DEF FilledInv
  <2> QED
    BY <2>1, <2>2
<1>25. SplitInv'
  <2>1. /\ Free(EmptyLeaf) = 0..(N - 1)
        /\ \A j \in Slot : EmptyLeaf.keys[j] = kInvalidKey
    BY DEF Free, EmptyLeaf, Slot
  <2>2. low[wnode] < pivot'
    <3>1. PICK j \in Slot : l.keys[j] < l.keys[m]
      BY <1>10
    <3>2. Holds(wnode, l.keys[j])
      BY <3>1, <1>2, <1>7 DEF LeafInv
    <3>3. low[wnode] \in Nat /\ l.keys[j] \in Nat /\ l.keys[m] \in Nat
      <4>1. low[wnode] \in Nat
        BY <1>2, XNodeAssumption DEF WType, Key
      <4>2. \A i \in Slot : l.keys[i] \in Nat
        BY <1>2, LeafFields
      <4> QED
        BY <4>1, <4>2, <1>10
    <3> QED
      BY <3>1, <3>2, <3>3, <1>17 DEF Holds
  <2>3. 0 \in 0..(N - 1 - Len(todo')) /\ todo' # <<>>
    BY <1>10, <1>12, XNodeAssumption
  <2>4. \A a \in DOMAIN todo' : todo'[a] \in Slot
    BY <1>12
  <2>5. leaves'[wnode].keys = l.keys /\ leaves'[Cand'].keys = EmptyLeaf.keys /\ Free(leaves'[Cand']) = 0..(N - 1)
    BY <1>2, <1>5, <1>6, <2>1
  <2> QED
    BY <1>1, <1>7, <1>13, <1>14, <1>15, <1>17, <2>1, <2>2, <2>3, <2>4, <2>5 DEF SplitInv
<1> QED
  BY <1>18, <1>19, <1>20, <1>21, <1>22, <1>23, <1>24, <1>25

SlotsFrom(c) == c..(N - 1)

\* While the candidate has room it takes the next free slot.
LEMMA CandTakes ==
  ASSUME NEW l \in Leaf, NEW k \in Key, NEW v \in Nat, NEW c \in 0..(N - 1), Free(l) = SlotsFrom(c)
  PROVE  /\ c \in Slot /\ Free(l) # {} /\ First(Free(l)) = c
         /\ l.keys[c] = kInvalidKey
         /\ Free(Add(l, k, v)) = (c + 1)..(N - 1)
<1>0. Free(l) = c..(N - 1)
  BY DEF SlotsFrom
<1>1. c \in Slot /\ c \in Free(l) /\ Free(l) # {} /\ N \in Nat
  <2>1. N \in Nat /\ c \in c..(N - 1)
    BY XNodeAssumption
  <2> QED
    BY <1>0, <2>1 DEF Slot
<1>2. First(Free(l)) = c
  <2>1. First(Free(l)) \in Free(l) /\ First(Free(l)) <= c
    BY <1>1, FirstFree DEF Free
  <2> QED
    BY <1>0, <2>1
<1>3. /\ Add(l, k, v) \in Leaf
      /\ Add(l, k, v).keys = [l.keys EXCEPT ![c] = k]
      /\ Add(l, k, v).vals = [l.vals EXCEPT ![c] = v]
      /\ Add(l, k, v).incarnation = l.incarnation
      /\ Add(l, k, v).next = l.next
  BY <1>1, <1>2, AddFills
<1>4. l.keys[c] = kInvalidKey
  BY <1>1 DEF Free
<1>5. k # kInvalidKey
  BY XNodeAssumption DEF Key, kInvalidKey
<1>6. Free(Add(l, k, v)) = Free(l) \ {c}
  BY <1>1, <1>3, <1>5, LeafFields DEF Free
<1> QED
  BY <1>0, <1>1, <1>2, <1>4, <1>6

\* The facts about a split.
LEMMA SplitFacts ==
  ASSUME WType, WriterInv, SplitInv, Split
  PROVE  /\ Cand \in LeafId /\ Cand \notin DOMAIN low /\ Cand # wnode
         /\ Cand = Len(low) + 1 /\ LeafId = DOMAIN low \cup {Cand} /\ leaves[Cand] \in Leaf
         /\ pivot \in Key /\ pivot \in Nat /\ pivot # kInvalidKey
         /\ wnode \in DOMAIN low /\ leaves[wnode] \in Leaf
<1>1. wnode \in DOMAIN low /\ leaves[wnode] \in Leaf
  BY WriterLeaf DEF Split
<1>2. pivot \in Key /\ pivot \in Nat /\ pivot # kInvalidKey
  BY XNodeAssumption, SMTT(30) DEF SplitInv, WType, Key, kInvalidKey
<1> QED
  BY <1>1, <1>2 DEF Cand, LeafId, WType

\* A key moves: it is copied to the candidate and cleared here.
LEMMA MoveKeyW ==
  ASSUME WInv, MoveKey
  PROVE  WInv'
<1> USE DEF WInv
<1> DEFINE i == Head(todo)
           l == leaves[wnode]
           k == l.keys[i]
           v == l.vals[i]
           c2 == Add(leaves[Cand], k, v)
           l2 == Clear(l, {i})
<1>1. /\ wpc = "move" /\ todo # <<>>
      /\ leaves' = [leaves EXCEPT ![Cand] = c2, ![wnode] = l2]
      /\ todo' = Tail(todo)
      /\ wpc' = IF Len(todo) = 1 THEN "new" ELSE "move"
      /\ low' = low /\ wkey' = wkey /\ wnode' = wnode /\ widx' = widx /\ pivot' = pivot
      /\ full' = full /\ done' = done
  BY DEF MoveKey
<1>2. Split /\ Split'
  BY <1>1 DEF Split
<1>3. /\ Cand \in LeafId /\ Cand \notin DOMAIN low /\ Cand # wnode
      /\ Cand = Len(low) + 1 /\ LeafId = DOMAIN low \cup {Cand} /\ leaves[Cand] \in Leaf
      /\ pivot \in Key /\ pivot \in Nat /\ pivot # kInvalidKey
      /\ wnode \in DOMAIN low /\ l \in Leaf
  BY <1>2, SplitFacts
<1>4. i \in Slot /\ i = todo[1] /\ 1 \in DOMAIN todo /\ Len(todo) \in Nat /\ Len(todo) >= 1
  BY <1>1 DEF WType
<1>5. k # kInvalidKey /\ k \in Key /\ k >= pivot /\ k \in done /\ k \in Nat /\ v = ValOf(k)
      /\ v \in Nat /\ Holds(wnode, k)
  <2>1. k # kInvalidKey
    BY <1>2, <1>4 DEF SplitInv
  <2>2. k \in Key /\ k \in Nat /\ l.vals[i] \in Nat
    BY <1>3, <1>4, <2>1, LeafFields
  <2>3. k >= pivot
    BY <1>2, <1>4, <2>1 DEF SplitInv
  <2>4. wnode \in LeafId
    BY <1>3
  <2> QED
    BY <1>1, <1>3, <1>4, <2>1, <2>2, <2>3, <2>4 DEF LeafInv
<1> HIDE DEF k, v, i
<1>6. PICK c \in 0..(N - 1 - Len(todo)) : Free(leaves[Cand]) = c..(N - 1)
  BY <1>1, <1>2 DEF SplitInv
<1>7. c \in 0..(N - 1)
  BY <1>4, XNodeAssumption
<1>8. /\ c \in Slot /\ c2 \in Leaf
      /\ c2.keys = [leaves[Cand].keys EXCEPT ![c] = k]
      /\ c2.vals = [leaves[Cand].vals EXCEPT ![c] = v]
      /\ c2.incarnation = leaves[Cand].incarnation
      /\ c2.next = leaves[Cand].next
      /\ leaves[Cand].keys[c] = kInvalidKey
      /\ Free(c2) = (c + 1)..(N - 1)
  <2>1. leaves[Cand] \in Leaf /\ k \in Key /\ v \in Nat
    BY <1>3, <1>5
  <2> DEFINE d == leaves[Cand]
  <2>2. d \in Leaf /\ Free(d) = SlotsFrom(c)
    BY <1>6, <2>1 DEF SlotsFrom
  <2> HIDE DEF d, l
  <2>3. /\ c \in Slot /\ Free(d) # {} /\ First(Free(d)) = c /\ d.keys[c] = kInvalidKey
        /\ Free(Add(d, k, v)) = (c + 1)..(N - 1)
    BY <1>7, <2>1, <2>2, CandTakes
  <2>4. /\ Add(d, k, v) \in Leaf
        /\ Add(d, k, v).keys = [d.keys EXCEPT ![c] = k]
        /\ Add(d, k, v).vals = [d.vals EXCEPT ![c] = v]
        /\ Add(d, k, v).incarnation = d.incarnation
        /\ Add(d, k, v).next = d.next
    BY <2>1, <2>2, <2>3, AddFills
  <2> QED
    BY <2>3, <2>4 DEF d
<1>9. /\ l2 \in Leaf
      /\ \A j \in Slot : l2.keys[j] = IF j \in {i} THEN kInvalidKey ELSE l.keys[j]
      /\ l2.vals = l.vals
      /\ l2.incarnation = l.incarnation
      /\ l2.next = l.next
  BY <1>3, ClearEmpties
<1> HIDE DEF c2, l2
<1>10. /\ leaves' \in Seq(Leaf) /\ Len(leaves') = Len(leaves) /\ LeafId' = LeafId /\ Cand' = Cand
       /\ \A n \in LeafId : n # wnode /\ n # Cand => leaves'[n] = leaves[n]
       /\ leaves'[wnode] = l2 /\ leaves'[Cand] = c2
  <2>1. leaves' \in Seq(Leaf) /\ Len(leaves') = Len(leaves)
    BY <1>1, <1>3, <1>8, <1>9, SMTT(30) DEF WType, LeafId
  <2>2. LeafId' = LeafId /\ Cand' = Cand
    BY <2>1 DEF LeafId, Cand
  <2> HIDE DEF l
  <2>3. \A n \in LeafId : leaves'[n] = IF n = wnode THEN l2 ELSE IF n = Cand THEN c2 ELSE leaves[n]
    BY <1>1, <1>3, SMTT(30) DEF WType, LeafId
  <2> QED
    BY <1>3, <2>1, <2>2, <2>3
<1>11. /\ \A j \in Slot : j # c => c2.keys[j] = leaves[Cand].keys[j] /\ c2.vals[j] = leaves[Cand].vals[j]
       /\ c2.keys[c] = k /\ c2.vals[c] = v
  BY <1>3, <1>8, LeafFields, SMTT(30)
<1>12. /\ \A j \in Slot : j # i => l2.keys[j] = l.keys[j]
       /\ l2.keys[i] = kInvalidKey
  BY <1>4, <1>9
<1>13. \A n, x : Holds(n, x)' = Holds(n, x)
  BY <1>1 DEF Holds
<1>14. /\ \A n \in LeafId : n # wnode /\ n # Cand => \A x : Has(n, x)' = Has(n, x)
       /\ \A x \in Key : Has(wnode, x) /\ x # k => Has(wnode, x)'
       /\ \A x \in Key : Has(Cand, x) => Has(Cand, x)'
       /\ \A x \in Key : x = k => Has(Cand, x)'
  <2>1. \A x \in Key : x # kInvalidKey
    BY XNodeAssumption DEF Key, kInvalidKey
  <2>2. \A n \in LeafId : n # wnode /\ n # Cand => \A x : Has(n, x)' = Has(n, x)
    BY <1>10 DEF Has
  <2>3. \A x \in Key : Has(wnode, x) /\ x # k => Has(wnode, x)'
    BY <1>1, <1>3, <1>10, <1>12, SMTT(30) DEF Has, k
  <2>4. \A x \in Key : Has(Cand, x) => Has(Cand, x)'
    <3> SUFFICES ASSUME NEW x \in Key, NEW j \in Slot, leaves[Cand].keys[j] = x PROVE leaves'[Cand].keys[j] = x
      BY <1>10 DEF Has
    <3> QED
      BY <2>1, <1>8, <1>10, <1>11
  <2>5. \A x \in Key : x = k => Has(Cand, x)'
    BY <1>8, <1>10, <1>11 DEF Has
  <2> QED
    BY <2>2, <2>3, <2>4, <2>5
<1>15. WType' /\ LowInv'
  <2>1. todo' \in Seq(Slot)
    BY <1>1 DEF WType
  <2> QED
    BY <1>1, <1>2, <1>10, <2>1 DEF WType, LowInv
<1>16. ChainInv' /\ IncarInv'
  <2>1. \A n \in LeafId : /\ leaves'[n].next = leaves[n].next
                          /\ leaves'[n].incarnation = leaves[n].incarnation
    BY <1>8, <1>9, <1>10
  <2> QED
    BY <1>1, <1>3, <1>10, <2>1, ZenonT(40) DEF ChainInv, IncarInv
<1>17. WriterInv'
  <2>1. wkey \notin done /\ wnode # Null /\ Holds(wnode, wkey) /\ wkey # pivot
    BY <1>1, <1>2 DEF WriterInv
  <2> QED
    BY <1>1, <1>13, <2>1 DEF WriterInv
<1>18. \A j \in Slot : leaves[Cand].keys[j] # kInvalidKey =>
         leaves[Cand].keys[j] >= pivot /\ leaves[Cand].keys[j] # k /\ ~Has(wnode, leaves[Cand].keys[j])
  BY <1>2, <1>4 DEF SplitInv, Has, k
<1>19. LeafInv'
  <2> SUFFICES ASSUME NEW n \in LeafId, NEW j \in Slot, leaves'[n].keys[j] # kInvalidKey
               PROVE  /\ leaves'[n].keys[j] \in done
                      /\ leaves'[n].vals[j] = ValOf(leaves'[n].keys[j])
                      /\ Holds(IF n \in DOMAIN low THEN n ELSE wnode, leaves'[n].keys[j])
                      /\ \A h \in Slot : leaves'[n].keys[h] = leaves'[n].keys[j] => h = j
    <3> SUFFICES ASSUME NEW n \in LeafId, NEW j \in Slot, leaves'[n].keys[j] # kInvalidKey
                 PROVE  (/\ leaves[n].keys[j] \in done
                         /\ leaves[n].vals[j] = ValOf(leaves[n].keys[j])
                         /\ Holds(IF n \in DOMAIN low THEN n ELSE wnode, leaves[n].keys[j])
                         /\ \A h \in Slot : leaves[n].keys[h] = leaves[n].keys[j] => h = j)'
      BY <1>10 DEF LeafInv
    <3> QED
      BY <1>1, <1>13
  <2>1. ASSUME NEW h \in Slot, leaves[n].keys[h] # kInvalidKey
        PROVE  /\ leaves[n].keys[h] \in done
               /\ leaves[n].vals[h] = ValOf(leaves[n].keys[h])
               /\ Holds(IF n \in DOMAIN low THEN n ELSE wnode, leaves[n].keys[h])
               /\ \A g \in Slot : leaves[n].keys[g] = leaves[n].keys[h] => g = h
    BY <1>1, <2>1 DEF LeafInv
  <2>2. CASE n # wnode /\ n # Cand
    BY <2>1, <2>2, <1>10
  <2>3. CASE n = wnode
    BY <2>1, <2>3, <1>9, <1>10, <1>12
  <2>4. CASE n = Cand /\ j = c
    BY <2>1, <2>4, <1>3, <1>5, <1>10, <1>11, <1>18, SMTT(30) DEF k
  <2>5. CASE n = Cand /\ j # c
    BY <2>1, <2>5, <1>3, <1>10, <1>11, <1>18, SMTT(30)
  <2> QED
    BY <2>2, <2>3, <2>4, <2>5
<1>20. PlaceInv'
  <2> SUFFICES ASSUME NEW x \in done, NEW n \in DOMAIN low, Holds(n, x)
               PROVE  Has(n, x)' \/ (n = wnode /\ Has(Cand, x)')
    BY <1>1, <1>2, <1>10, <1>13 DEF PlaceInv
  <2>1. x \in Key /\ n # Cand /\ n \in LeafId
    BY <1>3 DEF WType
  <2>2. Has(n, x) \/ (n = wnode /\ Has(Cand, x))
    BY DEF PlaceInv
  <2> QED
    <3>1. CASE n # wnode
      BY <3>1, <1>14, <2>1, <2>2
    <3>2. CASE n = wnode /\ x = k
      BY <3>2, <1>14, <2>1
    <3>3. CASE n = wnode /\ x # k
      BY <3>3, <1>1, <1>14, <2>1, <2>2
    <3> QED
      BY <3>1, <3>2, <3>3
<1>21. FilledInv'
  <2>1. done # {}
    BY <1>5
  <2> SUFFICES ASSUME NEW n \in DOMAIN low
               PROVE  \E x \in Key : Has(n, x)' /\ (n = wnode => x < pivot)
    BY <1>1, <1>2, <2>1 DEF FilledInv
  <2>2. PICK x \in Key : Has(n, x) /\ (n = wnode => x < pivot)
    BY <1>2, <2>1 DEF FilledInv
  <2>3. x \in Nat /\ (n = wnode => x # k)
    BY <2>2, <1>5, <1>3 DEF Key
  <2> QED
    <3>1. CASE n # wnode
      BY <3>1, <1>3, <1>14, <2>2
    <3>2. CASE n = wnode
      BY <3>2, <1>1, <1>14, <2>2, <2>3
    <3> QED
      BY <3>1, <3>2
<1>22. SplitInv'
  <2>1. pivot \in done /\ low[wnode] < pivot /\ Holds(wnode, pivot)
    BY <1>2 DEF SplitInv
  <2>2. ASSUME NEW j \in Slot, leaves'[Cand].keys[j] # kInvalidKey
        PROVE  /\ leaves'[Cand].keys[j] >= pivot
               /\ \A h \in Slot : leaves'[wnode].keys[h] # leaves'[Cand].keys[j]
    <3> SUFFICES ASSUME NEW h \in Slot, l2.keys[h] = c2.keys[j] PROVE FALSE
      <4>1. leaves'[Cand].keys[j] >= pivot
        BY <2>2, <1>5, <1>10, <1>11, <1>18
      <4> QED
        BY <4>1, <1>10
    <3>1. h # i /\ l2.keys[h] = l.keys[h]
      BY <2>2, <1>10, <1>12
    <3>2. CASE j = c
      <4>1. l.keys[h] = k
        BY <3>1, <3>2, <1>11
      <4>2. wnode \in LeafId /\ l.keys[i] = k
        BY <1>3 DEF k
      <4> QED
        BY <4>1, <4>2, <3>1, <1>4, <1>5 DEF LeafInv
    <3>3. CASE j # c
      <4>1. leaves[Cand].keys[j] # kInvalidKey /\ leaves[Cand].keys[j] = l.keys[h]
        BY <2>2, <3>1, <3>3, <1>10, <1>11
      <4> QED
        BY <4>1, <1>18 DEF Has
    <3> QED
      BY <3>2, <3>3
  <2>3. /\ Len(todo') = Len(todo) - 1 /\ DOMAIN todo' = 1..(Len(todo) - 1)
        /\ \A a \in DOMAIN todo' : a + 1 \in DOMAIN todo /\ todo'[a] = todo[a + 1]
        /\ \A a \in DOMAIN todo : a = 1 \/ (a - 1 \in DOMAIN todo' /\ todo[a] = todo'[a - 1])
        /\ (Len(todo) = 1 <=> todo' = <<>>)
    <3>1. todo \in Seq(Slot)
      BY DEF WType
    <3>2. /\ Len(todo') = Len(todo) - 1 /\ DOMAIN todo' = 1..(Len(todo) - 1)
          /\ \A a \in 1..(Len(todo) - 1) : todo'[a] = todo[a + 1]
      BY <1>1, <1>4, <3>1
    <3> QED
      BY <1>4, <3>1, <3>2
  <2>4. \A a, b \in DOMAIN todo : todo[a] = todo[b] => a = b
    BY <1>2 DEF SplitInv
  <2>5. \A a, b \in DOMAIN todo' : todo'[a] = todo'[b] => a = b
    <3> SUFFICES ASSUME NEW a \in DOMAIN todo', NEW b \in DOMAIN todo', todo'[a] = todo'[b] PROVE a = b
      OBVIOUS
    <3>1. a + 1 = b + 1
      BY <2>3, <2>4
    <3> QED
      BY <3>1, <2>3, <1>4
  <2>6. \A a \in DOMAIN todo' : todo'[a] # i /\ todo'[a] \in Slot
    <3> SUFFICES ASSUME NEW a \in DOMAIN todo' PROVE todo'[a] # i /\ todo'[a] \in Slot
      OBVIOUS
    <3>1. a + 1 \in DOMAIN todo /\ a + 1 # 1 /\ todo'[a] = todo[a + 1]
      BY <2>3, <1>4
    <3>2. todo[a + 1] \in Slot
      BY <3>1 DEF WType
    <3> QED
      BY <3>1, <3>2, <2>4, <1>4
  <2>7. \A j \in Slot : leaves'[wnode].keys[j] # kInvalidKey =>
          (leaves'[wnode].keys[j] >= pivot <=> \E a \in DOMAIN todo' : todo'[a] = j)
    <3> SUFFICES ASSUME NEW j \in Slot, l2.keys[j] # kInvalidKey
                 PROVE  l2.keys[j] >= pivot <=> \E a \in DOMAIN todo' : todo'[a] = j
      BY <1>10
    <3>1. j # i /\ l2.keys[j] = l.keys[j]
      BY <1>12
    <3>2. l.keys[j] >= pivot <=> \E a \in DOMAIN todo : todo[a] = j
      BY <3>1, <1>2 DEF SplitInv
    <3>3. (\E a \in DOMAIN todo : todo[a] = j) <=> (\E a \in DOMAIN todo' : todo'[a] = j)
      BY <3>1, <2>3, <1>4
    <3> QED
      BY <3>1, <3>2, <3>3
  <2>8. \A a \in DOMAIN todo' : leaves'[wnode].keys[todo'[a]] # kInvalidKey
    <3> SUFFICES ASSUME NEW a \in DOMAIN todo' PROVE l2.keys[todo'[a]] # kInvalidKey
      BY <1>10
    <3>1. l2.keys[todo'[a]] = l.keys[todo[a + 1]]
      BY <2>3, <2>6, <1>12
    <3> QED
      BY <3>1, <2>3, <1>2 DEF SplitInv
  <2>9. c + 1 \in 0..(N - 1 - Len(todo')) /\ Free(leaves'[Cand]) = (c + 1)..(N - 1)
    <3>1. Len(todo) \in Nat /\ Len(todo') = Len(todo) - 1 /\ N \in Nat /\ c \in Nat
      BY <2>3, <1>4, <1>7, XNodeAssumption
    <3>2. c <= N - 1 - Len(todo)
      BY <1>6, <3>1
    <3>3. c + 1 \in 0..(N - 1 - Len(todo'))
      BY <3>1, <3>2
    <3>4. leaves'[Cand] = c2 /\ Free(c2) = (c + 1)..(N - 1)
      BY <1>8, <1>10
    <3> QED
      BY <3>3, <3>4
  <2>10. (wpc' = "move" => todo' # <<>>) /\ (wpc' # "move" => todo' = <<>>)
    BY <1>1, <2>3
  <2> QED
    BY <1>1, <1>2, <1>10, <1>13, <2>1, <2>2, <2>5, <2>7, <2>8, <2>9, <2>10 DEF SplitInv, Has
<1> QED
  BY <1>15, <1>16, <1>17, <1>19, <1>20, <1>21, <1>22

\* The new key is larger than the pivot and goes to the candidate, which nobody reads yet.
LEMMA NewKeyRightW ==
  ASSUME WInv, NewKeyRight
  PROVE  WInv'
<1> USE DEF WInv
<1> DEFINE v == ValOf(wkey)
           c2 == Add(leaves[Cand], wkey, v)
<1>1. /\ wpc = "new" /\ wkey > pivot /\ wpc' = "link"
      /\ leaves' = [leaves EXCEPT ![Cand] = c2]
      /\ low' = low /\ wkey' = wkey /\ wnode' = wnode /\ widx' = widx /\ pivot' = pivot
      /\ todo' = todo /\ full' = full /\ done' = done
  BY DEF NewKeyRight
<1>2. Split /\ Split'
  BY <1>1 DEF Split
<1>3. /\ Cand \in LeafId /\ Cand \notin DOMAIN low /\ Cand # wnode
      /\ Cand = Len(low) + 1 /\ LeafId = DOMAIN low \cup {Cand} /\ leaves[Cand] \in Leaf
      /\ pivot \in Key /\ pivot \in Nat /\ pivot # kInvalidKey
      /\ wnode \in DOMAIN low /\ leaves[wnode] \in Leaf
  BY <1>2, SplitFacts
<1>4. wkey \in Key /\ v \in Nat /\ wkey # kInvalidKey /\ wkey \in Nat
  BY <1>1, WriterLeaf DEF WType
<1>5. wkey \notin done /\ wnode # Null /\ Holds(wnode, wkey) /\ wkey # pivot /\ todo = <<>>
  BY <1>1, <1>2 DEF WriterInv, SplitInv
<1>6. PICK c \in 0..(N - 1) : Free(leaves[Cand]) = c..(N - 1)
  <2>1. N - 1 - Len(todo) = N - 1
    BY <1>5, XNodeAssumption
  <2>2. \E c \in 0..(N - 1 - Len(todo)) : Free(leaves[Cand]) = c..(N - 1)
    BY <1>1, <1>2 DEF SplitInv
  <2> QED
    BY <2>1, <2>2
<1>7. /\ c \in Slot /\ c2 \in Leaf
      /\ c2.keys = [leaves[Cand].keys EXCEPT ![c] = wkey]
      /\ c2.vals = [leaves[Cand].vals EXCEPT ![c] = v]
      /\ c2.incarnation = leaves[Cand].incarnation
      /\ c2.next = leaves[Cand].next
      /\ leaves[Cand].keys[c] = kInvalidKey
  <2> DEFINE d == leaves[Cand]
  <2>1. d \in Leaf /\ Free(d) = SlotsFrom(c)
    BY <1>3, <1>6 DEF SlotsFrom
  <2> HIDE DEF d, v
  <2>2. /\ c \in Slot /\ Free(d) # {} /\ First(Free(d)) = c /\ d.keys[c] = kInvalidKey
    BY <1>4, <1>6, <2>1, CandTakes
  <2>3. /\ Add(d, wkey, v) \in Leaf
        /\ Add(d, wkey, v).keys = [d.keys EXCEPT ![c] = wkey]
        /\ Add(d, wkey, v).vals = [d.vals EXCEPT ![c] = v]
        /\ Add(d, wkey, v).incarnation = d.incarnation
        /\ Add(d, wkey, v).next = d.next
    BY <1>4, <2>1, <2>2, AddFills
  <2> QED
    BY <2>2, <2>3 DEF d
<1> HIDE DEF c2
<1>8. /\ leaves' \in Seq(Leaf) /\ Len(leaves') = Len(leaves) /\ LeafId' = LeafId /\ Cand' = Cand
      /\ \A n \in LeafId : n # Cand => leaves'[n] = leaves[n]
      /\ leaves'[Cand] = c2
  BY <1>1, <1>3, <1>7 DEF WType, LeafId, Cand
<1>9. /\ \A j \in Slot : j # c => c2.keys[j] = leaves[Cand].keys[j] /\ c2.vals[j] = leaves[Cand].vals[j]
      /\ c2.keys[c] = wkey /\ c2.vals[c] = v
  BY <1>3, <1>7, LeafFields
<1>10. \A n, x : Holds(n, x)' = Holds(n, x)
  BY <1>1 DEF Holds
<1>11. \A n \in LeafId : \A x \in Key : Has(n, x) => Has(n, x)'
  <2> SUFFICES ASSUME NEW n \in LeafId, NEW x \in Key, NEW j \in Slot, leaves[n].keys[j] = x
               PROVE  leaves'[n].keys[j] = x
    BY DEF Has
  <2>1. x # kInvalidKey
    BY XNodeAssumption DEF Key, kInvalidKey
  <2> QED
    BY <2>1, <1>7, <1>8, <1>9
<1>12. \A n \in LeafId : \A j \in Slot :
         leaves[n].keys[j] # kInvalidKey => leaves[n].keys[j] \in done /\ leaves[n].keys[j] # wkey
  BY <1>1, <1>5 DEF LeafInv
<1>13. WType' /\ LowInv'
  BY <1>1, <1>2, <1>8 DEF WType, LowInv
<1>14. ChainInv' /\ IncarInv'
  <2>1. \A n \in LeafId : /\ leaves'[n].next = leaves[n].next
                          /\ leaves'[n].incarnation = leaves[n].incarnation
    BY <1>7, <1>8
  <2> QED
    BY <1>1, <1>3, <1>8, <2>1 DEF ChainInv, IncarInv
<1>15. WriterInv'
  <2>1. (\E j \in Slot : leaves[Cand].keys[j] = wkey)'
    BY <1>1, <1>7, <1>8, <1>9
  <2>2. ~(wkey < pivot)
    BY <1>1, <1>3, <1>4
  <2> QED
    BY <1>1, <1>5, <1>10, <2>1, <2>2 DEF WriterInv, Has
<1>16. LeafInv'
  <2> SUFFICES ASSUME NEW n \in LeafId, NEW j \in Slot, leaves'[n].keys[j] # kInvalidKey
               PROVE  (/\ leaves[n].keys[j] \in done \/ leaves[n].keys[j] = wkey
                       /\ leaves[n].vals[j] = ValOf(leaves[n].keys[j])
                       /\ Holds(IF n \in DOMAIN low THEN n ELSE wnode, leaves[n].keys[j])
                       /\ \A h \in Slot : leaves[n].keys[h] = leaves[n].keys[j] => h = j)'
    BY <1>1, <1>8 DEF LeafInv
  <2>1. ASSUME NEW h \in Slot, leaves[n].keys[h] # kInvalidKey
        PROVE  /\ leaves[n].keys[h] \in done
               /\ leaves[n].vals[h] = ValOf(leaves[n].keys[h])
               /\ Holds(IF n \in DOMAIN low THEN n ELSE wnode, leaves[n].keys[h])
               /\ \A g \in Slot : leaves[n].keys[g] = leaves[n].keys[h] => g = h
    BY <1>1, <2>1, <1>12 DEF LeafInv
  <2>2. CASE n # Cand
    BY <2>1, <2>2, <1>1, <1>8, <1>10
  <2>3. CASE n = Cand /\ j = c
    <3>1. \A h \in Slot : leaves'[n].keys[h] = wkey => h = c
      BY <2>3, <1>4, <1>8, <1>9, <1>12
    <3>2. leaves'[n].keys[j] = wkey /\ leaves'[n].vals[j] = v
      BY <2>3, <1>8, <1>9
    <3> QED
      BY <2>3, <3>1, <3>2, <1>1, <1>3, <1>5, <1>10
  <2>4. CASE n = Cand /\ j # c
    <3>1. leaves'[n].keys[j] = leaves[n].keys[j] /\ leaves'[n].vals[j] = leaves[n].vals[j]
      BY <2>4, <1>8, <1>9
    <3>2. leaves[n].keys[j] # wkey
      BY <3>1, <1>12
    <3>3. \A h \in Slot : leaves'[n].keys[h] = leaves[n].keys[j] => h = j
      BY <2>1, <2>4, <3>1, <3>2, <1>8, <1>9
    <3> QED
      BY <2>1, <2>4, <3>1, <3>3, <1>1, <1>10
  <2> QED
    BY <2>2, <2>3, <2>4
<1>17. PlaceInv'
  <2> SUFFICES ASSUME NEW x \in done, NEW n \in DOMAIN low, Holds(n, x)
               PROVE  Has(n, x)' \/ (n = wnode /\ Has(Cand, x)')
    BY <1>1, <1>2, <1>8, <1>10 DEF PlaceInv
  <2>1. x \in Key /\ n \in LeafId
    BY <1>3 DEF WType
  <2>2. Has(n, x) \/ (n = wnode /\ Has(Cand, x))
    BY DEF PlaceInv
  <2> QED
    BY <1>3, <1>8, <1>11, <2>1, <2>2
<1>18. FilledInv'
  <2>1. pivot \in done
    BY <1>2 DEF SplitInv
  <2> SUFFICES ASSUME NEW n \in DOMAIN low
               PROVE  \E x \in Key : Has(n, x)' /\ (n = wnode => x < pivot)
    BY <1>1, <1>2, <2>1 DEF FilledInv
  <2>2. PICK x \in Key : Has(n, x) /\ (n = wnode => x < pivot)
    BY <1>2, <2>1 DEF FilledInv
  <2> QED
    BY <1>3, <1>11, <2>2
<1>19. SplitInv'
  <2>1. pivot \in done /\ low[wnode] < pivot /\ Holds(wnode, pivot)
    BY <1>2 DEF SplitInv
  <2>2. leaves'[wnode] = leaves[wnode]
    BY <1>3, <1>8
  <2>3. \A j \in Slot : leaves[wnode].keys[j] # wkey
    BY <1>3, <1>4, <1>12
  <2>4. ASSUME NEW j \in Slot, leaves'[Cand].keys[j] # kInvalidKey
        PROVE  /\ leaves'[Cand].keys[j] >= pivot
               /\ \A h \in Slot : leaves'[wnode].keys[h] # leaves'[Cand].keys[j]
    <3>1. CASE j = c
      BY <3>1, <1>1, <1>3, <1>4, <1>8, <1>9, <2>2, <2>3
    <3>2. CASE j # c
      <4>1. leaves'[Cand].keys[j] = leaves[Cand].keys[j]
        BY <3>2, <1>8, <1>9
      <4> QED
        BY <2>4, <4>1, <1>2, <2>2 DEF SplitInv, Has
    <3> QED
      BY <3>1, <3>2
  <2>5. \A j \in Slot : leaves[wnode].keys[j] # kInvalidKey =>
          (leaves[wnode].keys[j] >= pivot <=> \E a \in DOMAIN todo : todo[a] = j)
    BY <1>2 DEF SplitInv
  <2> QED
    BY <1>1, <1>2, <1>5, <1>8, <1>10, <2>1, <2>2, <2>4, <2>5 DEF SplitInv, Has
<1> QED
  BY <1>13, <1>14, <1>15, <1>16, <1>17, <1>18, <1>19

\* How the candidate's low key divides the keys of the leaf that has split.
LEMMA PivotDivides ==
  ASSUME WInv, Split, low' = Append(low, pivot)
  PROVE  /\ \A m \in DOMAIN low : low[m] # pivot
         /\ \A n \in DOMAIN low, k \in Nat : Holds(n, k) /\ (n = wnode => k < pivot) => Holds(n, k)'
         /\ \A n \in DOMAIN low, k \in Nat : Holds(n, k)' => Holds(n, k) /\ (n = wnode => k < pivot)
         /\ \A k \in Nat : Holds(wnode, k) /\ k >= pivot => \A c \in {Cand} : Holds(c, k)'
<1> USE DEF WInv
<1>1. /\ Cand = Len(low) + 1 /\ pivot \in Nat /\ wnode \in DOMAIN low
  BY SplitFacts
<1>2. low[wnode] < pivot /\ Holds(wnode, pivot)
  BY DEF SplitInv
<1>3. \A m \in DOMAIN low : low[m] \in Nat
  BY XNodeAssumption DEF WType, Key
<1>4. /\ DOMAIN low' = DOMAIN low \cup {Len(low) + 1} /\ \A m \in DOMAIN low : low'[m] = low[m]
      /\ low'[Len(low) + 1] = pivot
  BY DEF WType
<1>5. \A m \in DOMAIN low : low[m] <= low[wnode] \/ pivot < low[m]
  BY <1>2 DEF Holds
<1>6. \A m \in DOMAIN low : low[m] = low[wnode] => m = wnode
  BY <1>1 DEF LowInv
<1>7. \A m \in DOMAIN low : low[m] # pivot
  BY <1>1, <1>2, <1>3, <1>5
<1>8. ASSUME NEW n \in DOMAIN low, NEW k \in Nat, Holds(n, k), n = wnode => k < pivot
      PROVE  Holds(n, k)'
  <2>1. low[n] <= k /\ \A m \in DOMAIN low : low[m] <= low[n] \/ k < low[m]
    BY <1>8 DEF Holds
  <2>2. pivot <= low[n] \/ k < pivot
    BY <2>1, <1>1, <1>2, <1>3, <1>5, <1>6, <1>8
  <2> QED
    BY <2>1, <2>2, <1>4 DEF Holds
<1>9. ASSUME NEW n \in DOMAIN low, NEW k \in Nat, Holds(n, k)'
      PROVE  Holds(n, k) /\ (n = wnode => k < pivot)
  <2>1. low[n] <= k /\ (\A m \in DOMAIN low : low[m] <= low[n] \/ k < low[m]) /\ (pivot <= low[n] \/ k < pivot)
    BY <1>4, <1>9 DEF Holds
  <2> QED
    BY <2>1, <1>1, <1>2, <1>3 DEF Holds
<1>10. ASSUME NEW k \in Nat, Holds(wnode, k), k >= pivot, NEW c \in {Cand}
       PROVE  Holds(c, k)'
  <2>1. \A m \in DOMAIN low : low[m] <= low[wnode] \/ k < low[m]
    BY <1>10 DEF Holds
  <2>2. \A m \in DOMAIN low : low[m] <= pivot \/ k < low[m]
    BY <2>1, <1>1, <1>2, <1>3
  <2>3. low'[c] = pivot
    BY <1>1, <1>4
  <2> QED
    BY <1>1, <1>4, <1>10, <2>2, <2>3 DEF Holds
<1> QED
  BY <1>7, <1>8, <1>9, <1>10

\* The candidate is linked, find_leaf knows its low key, and the insertion ends.
LEMMA LinkW ==
  ASSUME WInv, Link
  PROVE  WInv'
<1> USE DEF WInv
<1> DEFINE l == leaves[wnode]
           nx == l.next
           c2 == [leaves[Cand] EXCEPT !.next = nx]
           l2 == [l EXCEPT !.next = Cand]
<1>1. /\ wpc = "link" /\ wpc' = "idle"
      /\ leaves' = [leaves EXCEPT ![Cand] = c2, ![wnode] = l2]
      /\ low' = Append(low, pivot) /\ done' = done \cup {wkey}
      /\ pivot' = kInvalidKey /\ full' = EmptyLeaf
      /\ wkey' = wkey /\ wnode' = wnode /\ widx' = widx /\ todo' = todo
  BY DEF Link
<1>2. Split /\ ~Split'
  BY <1>1 DEF Split
<1>3. /\ Cand \in LeafId /\ Cand \notin DOMAIN low /\ Cand # wnode
      /\ Cand = Len(low) + 1 /\ LeafId = DOMAIN low \cup {Cand} /\ leaves[Cand] \in Leaf
      /\ pivot \in Key /\ pivot \in Nat /\ pivot # kInvalidKey
      /\ wnode \in DOMAIN low /\ l \in Leaf
  BY <1>2, SplitFacts
<1>4. /\ wkey \in Key /\ wkey \in Nat /\ wkey \notin done /\ Holds(wnode, wkey) /\ wkey # pivot
      /\ IF wkey < pivot THEN Has(wnode, wkey) ELSE Has(Cand, wkey)
      /\ todo = <<>> /\ pivot \in done /\ low[wnode] < pivot /\ Holds(wnode, pivot)
  <2>1. wkey \in Key /\ wkey \in Nat
    BY <1>1, WriterLeaf DEF WType
  <2>2. /\ wkey \notin done /\ Holds(wnode, wkey) /\ wkey # pivot
        /\ IF wkey < pivot THEN Has(wnode, wkey) ELSE Has(Cand, wkey)
    BY <1>1, <1>2 DEF WriterInv
  <2>3. todo = <<>> /\ pivot \in done /\ low[wnode] < pivot /\ Holds(wnode, pivot)
    BY <1>1, <1>2 DEF SplitInv
  <2> QED
    BY <2>1, <2>2, <2>3
<1>5. /\ c2 \in Leaf /\ c2.keys = leaves[Cand].keys /\ c2.vals = leaves[Cand].vals
      /\ c2.incarnation = leaves[Cand].incarnation /\ c2.next = nx
      /\ l2 \in Leaf /\ l2.keys = l.keys /\ l2.vals = l.vals
      /\ l2.incarnation = l.incarnation /\ l2.next = Cand
  <2>1. nx \in Nat /\ Cand \in Nat
    BY <1>3, LeafFields DEF LeafId
  <2>2. ASSUME NEW d \in Leaf, NEW x \in Nat
        PROVE  LET e == [d EXCEPT !.next = x] IN
               /\ e \in Leaf /\ e.keys = d.keys /\ e.vals = d.vals
               /\ e.incarnation = d.incarnation /\ e.next = x
    BY DEF Leaf
  <2> HIDE DEF l, nx
  <2> QED
    BY <1>3, <2>1, <2>2
<1> HIDE DEF c2, l2
<1>6. leaves' \in Seq(Leaf) /\ Len(leaves') = Len(leaves) /\ LeafId' = LeafId
  BY <1>1, <1>3, <1>5 DEF WType, LeafId
<1>7. \A n \in LeafId : leaves'[n] = IF n = wnode THEN l2 ELSE IF n = Cand THEN c2 ELSE leaves[n]
  <2> HIDE DEF l
  <2> QED
    BY <1>1, <1>3 DEF WType, LeafId
<1>8. /\ \A n \in LeafId : /\ leaves'[n].keys = leaves[n].keys
                           /\ leaves'[n].vals = leaves[n].vals
                           /\ leaves'[n].incarnation = leaves[n].incarnation
      /\ leaves'[wnode].next = Cand /\ leaves'[Cand].next = nx
      /\ \A n \in LeafId : n # wnode /\ n # Cand => leaves'[n].next = leaves[n].next
  BY <1>3, <1>5, <1>7
<1>9. /\ DOMAIN low' = LeafId /\ \A m \in DOMAIN low : low'[m] = low[m]
      /\ low'[Cand] = pivot /\ low' \in Seq(Key) /\ Len(low') = Len(low) + 1 /\ Len(low') = Len(leaves')
  BY <1>1, <1>2, <1>3, <1>6 DEF WType
<1>10. \A m \in DOMAIN low : low[m] \in Nat
  BY XNodeAssumption DEF WType, Key
<1>11. /\ \A m \in DOMAIN low : low[m] # pivot
       /\ \A n \in DOMAIN low, k \in Nat : Holds(n, k) /\ (n = wnode => k < pivot) => Holds(n, k)'
       /\ \A n \in DOMAIN low, k \in Nat : Holds(n, k)' => Holds(n, k) /\ (n = wnode => k < pivot)
       /\ \A k \in Nat : Holds(wnode, k) /\ k >= pivot => \A c \in {Cand} : Holds(c, k)'
  BY <1>1, <1>2, PivotDivides
<1>12. /\ \A j \in Slot : l.keys[j] # kInvalidKey => l.keys[j] < pivot
       /\ \A j \in Slot : leaves[Cand].keys[j] # kInvalidKey => leaves[Cand].keys[j] >= pivot
  <2>1. \A j \in Slot : l.keys[j] # kInvalidKey => ~(l.keys[j] >= pivot)
    BY <1>2, <1>4 DEF SplitInv
  <2>2. \A j \in Slot : l.keys[j] \in Nat
    BY <1>3, LeafFields
  <2> QED
    BY <1>2, <1>3, <2>1, <2>2 DEF SplitInv
<1>13. \A n \in LeafId : \A k : Has(n, k)' = Has(n, k)
  BY <1>8 DEF Has
<1>14. \A m \in DOMAIN low : low[m] <= low[wnode] \/ pivot < low[m]
  BY <1>4 DEF Holds
<1>15. WType'
  BY <1>1, <1>2, <1>3, <1>6, <1>9, <1>4, EmptyLeafType DEF WType
<1>16. LowInv'
  <2>1. Len(low') >= 1 /\ low'[1] = 0
    BY <1>9 DEF LowInv, WType
  <2>2. \A m, n \in DOMAIN low' : low'[m] = low'[n] => m = n
    BY <1>3, <1>9, <1>11 DEF LowInv
  <2> QED
    BY <2>1, <2>2 DEF LowInv
<1>17. ChainInv'
  <2> SUFFICES ASSUME NEW n \in LeafId
               PROVE  /\ leaves'[n].next \in {Null} \cup LeafId
                      /\ leaves'[n].next = Null => \A m \in LeafId : low'[m] <= low'[n]
                      /\ leaves'[n].next # Null =>
                           /\ low'[n] < low'[leaves'[n].next]
                           /\ \A m \in LeafId : low'[m] <= low'[n] \/ low'[leaves'[n].next] <= low'[m]
    BY <1>9 DEF ChainInv
  <2>1. \A h \in DOMAIN low :
          /\ leaves[h].next \in {Null} \cup DOMAIN low
          /\ leaves[h].next = Null => \A m \in DOMAIN low : low[m] <= low[h]
          /\ leaves[h].next # Null =>
               /\ low[h] < low[leaves[h].next]
               /\ \A m \in DOMAIN low : low[m] <= low[h] \/ low[leaves[h].next] <= low[m]
    BY DEF ChainInv
  <2>2. CASE n = wnode
    <3>1. Cand # Null
      BY <1>3 DEF Null, LeafId, WType
    <3>2. \A m \in LeafId : low'[m] <= low[wnode] \/ pivot <= low'[m]
      BY <1>3, <1>9, <1>10, <1>14
    <3> QED
      BY <2>2, <3>1, <3>2, <1>3, <1>4, <1>8, <1>9
  <2>3. CASE n = Cand
    <3>1. nx \in {Null} \cup DOMAIN low
      BY <2>1, <1>3
    <3>2. CASE nx = Null
      <4>1. \A m \in LeafId : low'[m] <= pivot
        BY <3>2, <2>1, <1>3, <1>4, <1>9, <1>10
      <4> QED
        BY <2>3, <3>2, <4>1, <1>8, <1>9
    <3>3. CASE nx # Null
      <4>1. nx \in DOMAIN low /\ low[wnode] < low[nx] /\ low'[nx] = low[nx] /\ nx \in LeafId
        BY <3>1, <3>3, <2>1, <1>3, <1>9
      <4>2. pivot < low[nx]
        BY <4>1, <1>10, <1>14, <1>3
      <4>3. \A m \in LeafId : low'[m] <= pivot \/ low[nx] <= low'[m]
        BY <3>3, <2>1, <1>3, <1>4, <1>9, <1>10
      <4> QED
        BY <2>3, <3>3, <4>1, <4>2, <4>3, <1>8, <1>9
    <3> QED
      BY <3>2, <3>3
  <2>4. CASE n # wnode /\ n # Cand
    <3>1. n \in DOMAIN low /\ leaves'[n].next = leaves[n].next /\ low'[n] = low[n] /\ low[n] # low[wnode]
      BY <2>4, <1>3, <1>8, <1>9 DEF LowInv
    <3>2. CASE leaves[n].next = Null
      <4>1. low[wnode] < low[n]
        BY <3>1, <3>2, <2>1, <1>3, <1>10
      <4>2. pivot < low[n]
        BY <4>1, <3>1, <1>3, <1>10, <1>14
      <4>3. \A m \in LeafId : low'[m] <= low[n]
        BY <3>1, <3>2, <4>2, <2>1, <1>3, <1>9, <1>10
      <4> QED
        BY <3>1, <3>2, <4>3
    <3>3. CASE leaves[n].next # Null
      <4> DEFINE h == leaves[n].next
      <4>1. h \in DOMAIN low /\ h \in LeafId /\ low[n] < low[h] /\ low'[h] = low[h]
        BY <3>1, <3>3, <2>1, <1>3, <1>9
      <4>2. pivot <= low[n] \/ low[h] <= pivot
        <5>1. CASE low[wnode] < low[n]
          BY <5>1, <3>1, <1>3, <1>10, <1>14
        <5>2. CASE low[n] < low[wnode]
          <6>1. low[h] <= low[wnode]
            BY <5>2, <3>1, <3>3, <2>1, <1>3, <1>10
          <6> QED
            BY <6>1, <4>1, <1>3, <1>4, <1>10
        <5> QED
          BY <5>1, <5>2, <3>1, <1>3, <1>10
      <4>3. \A m \in LeafId : low'[m] <= low[n] \/ low[h] <= low'[m]
        BY <3>1, <3>3, <4>2, <2>1, <1>3, <1>9, <1>10
      <4> QED
        BY <3>1, <3>3, <4>1, <4>3
    <3> QED
      BY <3>2, <3>3
  <2> QED
    BY <2>2, <2>3, <2>4
<1>18. IncarInv'
  BY <1>6, <1>8 DEF IncarInv
<1>19. WriterInv' /\ SplitInv'
  BY <1>1, <1>2 DEF WriterInv, SplitInv
<1>20. LeafInv'
  <2> SUFFICES ASSUME NEW n \in LeafId, NEW j \in Slot, leaves'[n].keys[j] # kInvalidKey
               PROVE  (/\ leaves[n].keys[j] \in done
                       /\ leaves[n].vals[j] = ValOf(leaves[n].keys[j])
                       /\ Holds(n, leaves[n].keys[j])
                       /\ \A h \in Slot : leaves[n].keys[h] = leaves[n].keys[j] => h = j)'
    BY <1>6, <1>9 DEF LeafInv
  <2>1. leaves'[n].keys = leaves[n].keys /\ leaves'[n].vals = leaves[n].vals
    BY <1>8
  <2>2. /\ leaves[n].keys[j] \in done \/ leaves[n].keys[j] = wkey
        /\ leaves[n].vals[j] = ValOf(leaves[n].keys[j])
        /\ Holds(IF n \in DOMAIN low THEN n ELSE wnode, leaves[n].keys[j])
        /\ \A h \in Slot : leaves[n].keys[h] = leaves[n].keys[j] => h = j
    BY <2>1, <1>1 DEF LeafInv
  <2>3. leaves[n].keys[j] \in Nat
    BY LeafFields DEF WType, LeafId
  <2>4. \A k \in Nat : k = leaves[n].keys[j] => Holds(n, k)'
    <3> SUFFICES ASSUME NEW k \in Nat, k = leaves[n].keys[j] PROVE Holds(n, k)'
      OBVIOUS
    <3>1. CASE n = Cand
      BY <3>1, <2>1, <2>2, <1>3, <1>11, <1>12
    <3>2. CASE n # Cand
      <4>1. n \in DOMAIN low /\ Holds(n, k) /\ (n = wnode => k < pivot)
        BY <3>2, <2>1, <2>2, <1>3, <1>12
      <4> QED
        BY <4>1, <1>11
    <3> QED
      BY <3>1, <3>2
  <2>5. Holds(n, leaves[n].keys[j])'
    BY <2>1, <2>3, <2>4
  <2>6. leaves'[n].keys[j] \in done' /\ leaves'[n].vals[j] = ValOf(leaves'[n].keys[j])
    BY <1>1, <2>1, <2>2
  <2>7. \A h \in Slot : leaves'[n].keys[h] = leaves'[n].keys[j] => h = j
    BY <2>1, <2>2
  <2> QED
    BY <2>5, <2>6, <2>7
<1>21. PlaceInv'
  <2> SUFFICES ASSUME NEW k \in done', NEW n \in LeafId, Holds(n, k)'
               PROVE  Has(n, k)
    BY <1>9, <1>13 DEF PlaceInv
  <2>1. k \in Key /\ k \in Nat
    BY <1>1, <1>4, XNodeAssumption DEF WType, Key
  <2>2. PICK n0 \in DOMAIN low : Holds(n0, k)
    BY <2>1, FindLeafHolds
  <2>3. CASE n0 = wnode /\ k >= pivot
    <3>1. \A c \in {Cand} : Holds(c, k)'
      BY <2>1, <2>2, <2>3, <1>11
    <3>2. n = Cand
      <4> SUFFICES ASSUME NEW c \in {Cand} PROVE n = c
        OBVIOUS
      <4>1. c \in DOMAIN low' /\ n \in DOMAIN low' /\ Holds(c, k)' /\ Holds(n, k)'
        BY <3>1, <1>3, <1>9
      <4> QED
        BY <4>1, <2>1, <1>15, <1>16, HoldsOnceNext
    <3>3. ~Has(wnode, k)
      BY <2>1, <2>3, <1>3, <1>12, XNodeAssumption DEF Has, Key, kInvalidKey
    <3>4. CASE k \in done
      BY <3>2, <3>3, <3>4, <2>2, <2>3 DEF PlaceInv
    <3>5. CASE k = wkey
      BY <3>2, <3>5, <2>3, <1>3, <1>4
    <3> QED
      BY <3>4, <3>5, <1>1
  <2>4. CASE n0 # wnode \/ k < pivot
    <3>1. Holds(n0, k)'
      BY <2>1, <2>2, <2>4, <1>11
    <3>2. n = n0
      BY <3>1, <2>1, <2>2, <1>3, <1>9, <1>15, <1>16, HoldsOnceNext
    <3>3. n0 = wnode => ~Has(Cand, k)
      BY <2>1, <2>4, <1>3, <1>12, XNodeAssumption DEF Has, Key, kInvalidKey
    <3>4. CASE k \in done
      BY <3>2, <3>3, <3>4, <2>2 DEF PlaceInv
    <3>5. CASE k = wkey
      <4>1. n0 = wnode
        BY <3>5, <2>2, <1>3, <1>4, HoldsOnce
      <4> QED
        BY <3>2, <3>5, <4>1, <2>4, <1>4
    <3> QED
      BY <3>4, <3>5, <1>1
  <2>5. (n0 = wnode /\ k >= pivot) \/ (n0 # wnode \/ k < pivot)
    BY <2>1, <1>3
  <2> QED
    BY <2>3, <2>4, <2>5
<1>22. FilledInv'
  <2> SUFFICES ASSUME NEW n \in LeafId PROVE \E k \in Key : Has(n, k)
    BY <1>1, <1>2, <1>9, <1>13 DEF FilledInv
  <2>1. CASE n \in DOMAIN low
    BY <2>1, <1>4 DEF FilledInv
  <2>2. CASE n = Cand
    <3>1. ~Has(wnode, pivot)
      BY <1>3, <1>12 DEF Has
    <3>2. Has(Cand, pivot)
      BY <3>1, <1>3, <1>4 DEF PlaceInv
    <3> QED
      BY <2>2, <3>2, <1>3
  <2> QED
    BY <2>1, <2>2, <1>3
<1> QED
  BY <1>15, <1>16, <1>17, <1>18, <1>19, <1>20, <1>21, <1>22

-----------------------------------------------------------------------------
(* What a reader may see of a step of the insertion. *)

\* The leaf is not splitting after a step that kept its link, its keys, but for new ones
\* whose insertion has not ended, and the range it answers for.
Undisturbed(n) ==
  /\ ~(Split' /\ wnode' = n) /\ leaves'[n].next = leaves[n].next
  /\ \A i \in Slot : \/ leaves'[n].keys[i] = leaves[n].keys[i]
                     \/ leaves[n].keys[i] = kInvalidKey /\ leaves'[n].keys[i] \notin done
  /\ \A m \in DOMAIN low' : m \in DOMAIN low \/ ~Holds(n, low'[m])

\* Low keys stay; a leaf counts its splits; one that neither splits nor begins to is
\* undisturbed.
StepEffect ==
  /\ Len(leaves) <= Len(leaves') /\ DOMAIN low \subseteq DOMAIN low' /\ done \subseteq done'
  /\ splits' \in Seq(Nat) /\ Len(splits') = Len(leaves')
  /\ \A n \in DOMAIN low :
       /\ low'[n] = low[n]
       /\ \/ splits'[n] = splits[n] /\ leaves'[n].incarnation = leaves[n].incarnation
          \/ splits'[n] = splits[n] + 1 /\ leaves'[n].incarnation = (leaves[n].incarnation + 1) % IncarMod
       /\ splits'[n] = splits[n] /\ ~(Split /\ wnode = n) => Undisturbed(n)
  /\ Len(leaves') <= IncarMod =>
       \A n \in DOMAIN low :
         /\ leaves[n].incarnation <= leaves'[n].incarnation
         /\ leaves'[n].incarnation = leaves[n].incarnation /\ ~(Split /\ wnode = n) => Undisturbed(n)

\* A step that changes neither the tree nor the insertion.
LEMMA WUnchanged ==
  ASSUME WInv, UNCHANGED <<leaves, low, writer>>
  PROVE  WInv'
<1>1. /\ leaves' = leaves /\ low' = low /\ wpc' = wpc /\ wkey' = wkey /\ wnode' = wnode
      /\ widx' = widx /\ pivot' = pivot /\ todo' = todo /\ full' = full /\ done' = done
  BY DEF writer
<1>2. WType' /\ LowInv' /\ ChainInv' /\ IncarInv'
  BY <1>1 DEF WInv, WType, LowInv, ChainInv, IncarInv, Split, LeafId
<1>3. WriterInv' /\ LeafInv' /\ PlaceInv' /\ FilledInv'
  BY <1>1 DEF WInv, WriterInv, LeafInv, PlaceInv, FilledInv, Split, LeafId, Holds, Has, Cand
<1>4. SplitInv'
  BY <1>1 DEF WInv, SplitInv, Split, LeafId, Holds, Has, Cand
<1> QED
  BY <1>2, <1>3, <1>4 DEF WInv

\* Each step of the insertion preserves WInv.
LEMMA WriterW ==
  ASSUME WInv, WriterNext
  PROVE  WInv'
BY InsertBeginW, AddKeyW, ValueUpdateW, SplitBeginW, MoveKeyW, NewKeyRightW, LinkW DEF WriterNext

\* Where a leaf only gains keys whose insertion has not ended, StepEffect holds.
LEMMA QuietStep ==
  ASSUME WInv, WInv', CountInv, low' = low, done \subseteq done', Len(leaves') >= Len(leaves),
         splits' \in Seq(Nat), Len(splits') = Len(leaves'),
         \A n \in DOMAIN low :
           \/ /\ Split /\ wnode = n
              /\ leaves'[n].incarnation = leaves[n].incarnation /\ splits'[n] = splits[n]
           \/ /\ leaves'[n].incarnation = (leaves[n].incarnation + 1) % IncarMod
              /\ splits'[n] = splits[n] + 1
              /\ Len(leaves') <= IncarMod => leaves[n].incarnation < leaves'[n].incarnation
           \/ /\ ~(Split' /\ wnode' = n) /\ leaves'[n].next = leaves[n].next
              /\ leaves'[n].incarnation = leaves[n].incarnation /\ splits'[n] = splits[n]
              /\ \A i \in Slot : \/ leaves'[n].keys[i] = leaves[n].keys[i]
                                 \/ leaves[n].keys[i] = kInvalidKey /\ leaves'[n].keys[i] \notin done
  PROVE  StepEffect
<1>0. /\ leaves \in Seq(Leaf) /\ leaves' \in Seq(Leaf) /\ low \in Seq(Key)
      /\ Len(leaves) = Len(low) + (IF Split THEN 1 ELSE 0)
      /\ Len(leaves') = Len(low) + (IF Split' THEN 1 ELSE 0)
  BY DEF WInv, WType
<1> DEFINE c == IF Split THEN 1 ELSE 0
           d == IF Split' THEN 1 ELSE 0
<1>a. c \in {0, 1} /\ d \in {0, 1} /\ Len(leaves) = Len(low) + c /\ Len(leaves') = Len(low) + d
  BY <1>0
<1> HIDE DEF c, d
<1>b. /\ Len(leaves) \in Nat /\ Len(leaves') \in Nat
      /\ \A n \in DOMAIN low : /\ n \in 1..Len(leaves) /\ n \in 1..Len(leaves')
                               /\ leaves[n].incarnation \in Nat /\ leaves'[n].incarnation \in Nat
  BY <1>0, <1>a, LowLeaves
<1>1. \A n \in DOMAIN low : n \in LeafId /\ n \in LeafId' /\ n \in DOMAIN low'
  BY <1>b DEF LeafId
<1>2. Len(leaves) <= Len(leaves')
  BY <1>b
<1>3. \A n \in DOMAIN low : leaves[n].incarnation \in Nat /\ leaves'[n].incarnation \in Nat
  BY <1>b
<1>4. \A n \in DOMAIN low : splits[n] \in Nat
  BY <1>1 DEF CountInv, LeafId
<1>5. ASSUME NEW n \in DOMAIN low
      PROVE  /\ \/ splits'[n] = splits[n] /\ leaves'[n].incarnation = leaves[n].incarnation
                \/ splits'[n] = splits[n] + 1 /\ leaves'[n].incarnation = (leaves[n].incarnation + 1) % IncarMod
             /\ Len(leaves') <= IncarMod => leaves[n].incarnation <= leaves'[n].incarnation
  BY <1>3
<1>6. ASSUME NEW n \in DOMAIN low, ~(Split /\ wnode = n),
             \/ splits'[n] = splits[n]
             \/ Len(leaves') <= IncarMod /\ leaves'[n].incarnation = leaves[n].incarnation
      PROVE  Undisturbed(n)
  BY <1>3, <1>4, <1>6 DEF Undisturbed
<1> QED
  BY <1>1, <1>2, <1>5, <1>6 DEF StepEffect

\* Every step of the insertion has this effect.
LEMMA WriterEffect ==
  ASSUME WInv, CountInv, WriterNext
  PROVE  StepEffect
<1> USE DEF WInv
<1>1. WInv'
  BY WriterW
<1>0. splits \in Seq(Nat) /\ Len(splits) = Len(leaves)
  BY DEF CountInv
<1>2. CASE \E k \in Key : InsertBegin(k)
  <2>1. /\ leaves' = leaves /\ low' = low /\ done' = done /\ wpc' = "add" /\ splits' = splits
    BY <1>2 DEF InsertBegin, tree
  <2>2. ~Split' /\ Len(leaves) \in Nat
    BY <2>1 DEF Split, WType
  <2> QED
    BY <1>0, <1>1, <2>1, <2>2, QuietStep
<1>3. CASE AddKey
  <2> DEFINE i == First(Free(leaves[wnode]))
  <2>1. /\ wpc \in {"add", "new"} /\ Free(leaves[wnode]) # {}
        /\ leaves' = [leaves EXCEPT ![wnode].keys[i] = wkey]
        /\ low' = low /\ done' = done /\ wnode' = wnode /\ splits' = splits
        /\ wpc' = IF wpc = "add" THEN "value" ELSE "last"
    BY <1>3 DEF AddKey
  <2>2. /\ wnode \in DOMAIN low /\ wnode \in LeafId /\ leaves[wnode] \in Leaf
        /\ wkey \notin done
    BY <2>1, WriterLeaf DEF WriterInv
  <2>3. i \in Slot /\ leaves[wnode].keys[i] = kInvalidKey
    BY <2>1, <2>2, FirstFree
  <2> HIDE DEF i
  <2>4. Len(leaves') >= Len(leaves) /\ Len(splits') = Len(leaves')
    BY <1>0, <2>1 DEF WType
  <2>5. \A n \in DOMAIN low : n # wnode => leaves'[n] = leaves[n]
    BY <2>1 DEF WType
  <2>6. /\ leaves'[wnode].next = leaves[wnode].next
        /\ leaves'[wnode].incarnation = leaves[wnode].incarnation
        /\ leaves'[wnode].keys = [leaves[wnode].keys EXCEPT ![i] = wkey]
    <3> DEFINE l2 == [leaves[wnode] EXCEPT !.keys = [@ EXCEPT ![i] = wkey]]
    <3>1. leaves' = [leaves EXCEPT ![wnode] = l2]
      BY <2>1
    <3>2. leaves'[wnode] = l2
      <4> HIDE DEF l2
      <4> QED
        BY <2>2, <3>1 DEF WType, LeafId
    <3> QED
      BY <2>2, <3>2 DEF Leaf
  <2>7. \A j \in Slot : \/ leaves'[wnode].keys[j] = leaves[wnode].keys[j]
                        \/ leaves[wnode].keys[j] = kInvalidKey /\ leaves'[wnode].keys[j] \notin done
    BY <2>2, <2>3, <2>6, LeafFields
  <2>8. Split' = Split
    BY <2>1 DEF Split
  <2> QED
    BY <1>0, <1>1, <2>1, <2>2, <2>4, <2>5, <2>6, <2>7, <2>8, QuietStep
<1>4. CASE ValueUpdate
  <2>1. /\ wpc \in {"value", "last"} /\ low' = low /\ wnode' = wnode /\ splits' = splits
        /\ leaves' = [leaves EXCEPT ![wnode].vals[widx] = ValOf(wkey)]
        /\ done \subseteq done' /\ wpc' = IF wpc = "value" THEN "idle" ELSE "link"
    BY <1>4 DEF ValueUpdate
  <2>2. wnode \in DOMAIN low /\ wnode \in LeafId /\ leaves[wnode] \in Leaf
    BY <2>1, WriterLeaf
  <2>3. /\ Len(leaves') >= Len(leaves) /\ Len(splits') = Len(leaves')
        /\ \A n \in DOMAIN low : n # wnode => leaves'[n] = leaves[n]
    BY <1>0, <2>1 DEF WType
  <2>4. /\ leaves'[wnode].next = leaves[wnode].next
        /\ leaves'[wnode].incarnation = leaves[wnode].incarnation
        /\ leaves'[wnode].keys = leaves[wnode].keys
    BY <2>1, <2>2, LeafFields DEF WType, Leaf, LeafId
  <2>5. Split' = Split
    BY <2>1 DEF Split
  <2> QED
    BY <1>0, <1>1, <2>1, <2>2, <2>3, <2>4, <2>5, QuietStep
<1>5. CASE SplitBegin
  <2>1. /\ wpc = "add" /\ low' = low /\ done' = done /\ wnode' = wnode
        /\ leaves' = Append([leaves EXCEPT ![wnode].incarnation = (@ + 1) % IncarMod], EmptyLeaf)
        /\ splits' = Append([splits EXCEPT ![wnode] = @ + 1], 0)
    BY <1>5 DEF SplitBegin
  <2>2. wnode \in DOMAIN low /\ wnode \in LeafId /\ leaves[wnode] \in Leaf
    BY <2>1, WriterLeaf
  <2> DEFINE l2 == [leaves[wnode] EXCEPT !.incarnation = (@ + 1) % IncarMod]
             h == [leaves EXCEPT ![wnode] = l2]
  <2>0. l2.incarnation = (leaves[wnode].incarnation + 1) % IncarMod /\ l2 \in Leaf
    BY <2>2, LeafFields, XNodeAssumption DEF Leaf
  <2>3. leaves' = Append(h, EmptyLeaf)
    BY <2>1
  <2> HIDE DEF l2
  <2>9. /\ h \in Seq(Leaf) /\ Len(h) = Len(leaves) /\ Len(leaves) \in Nat
        /\ \A n \in LeafId : h[n] = IF n = wnode THEN l2 ELSE leaves[n]
        /\ DOMAIN low \subseteq LeafId /\ LeafId = 1..Len(leaves)
    BY <2>0, <2>2 DEF WType, LeafId
  <2> HIDE DEF h
  <2>8. Len(leaves') = Len(leaves) + 1 /\ \A n \in LeafId : leaves'[n] = h[n]
    BY <2>3, <2>9, EmptyLeafType
  <2>4. \A n \in DOMAIN low : n # wnode => leaves'[n] = leaves[n]
    BY <2>8, <2>9
  <2>5. leaves'[wnode].incarnation = (leaves[wnode].incarnation + 1) % IncarMod
    BY <2>0, <2>2, <2>8, <2>9
  <2>6. Len(leaves') <= IncarMod => leaves[wnode].incarnation < leaves'[wnode].incarnation
    <3> SUFFICES ASSUME Len(leaves') <= IncarMod PROVE leaves[wnode].incarnation < leaves'[wnode].incarnation
      OBVIOUS
    <3>1. IncarMod \in Nat /\ leaves[wnode].incarnation \in Nat
      BY <2>2, XNodeAssumption, LeafFields
    <3>2. leaves[wnode].incarnation < Len(leaves)
      BY <2>2, <2>8, <2>9, <3>1 DEF IncarInv
    <3>3. (leaves[wnode].incarnation + 1) % IncarMod = leaves[wnode].incarnation + 1
      <4>1. leaves[wnode].incarnation + 1 \in 0..(IncarMod - 1)
        BY <2>8, <2>9, <3>1, <3>2
      <4>2. \A x \in 0..(IncarMod - 1) : x % IncarMod = x
        BY XNodeAssumption
      <4> QED
        BY <4>1, <4>2
    <3> QED
      BY <2>5, <3>1, <3>3
  <2>7. Len(leaves') >= Len(leaves)
    BY <2>8, <2>9
  <2>10. \A n \in DOMAIN low : n # wnode => ~(Split' /\ wnode' = n)
    BY <2>1
  <2>11. /\ splits' \in Seq(Nat) /\ Len(splits') = Len(leaves')
         /\ splits'[wnode] = splits[wnode] + 1
         /\ \A n \in DOMAIN low : n # wnode => splits'[n] = splits[n]
    <3> DEFINE s == [splits EXCEPT ![wnode] = @ + 1]
    <3>1. wnode \in DOMAIN splits /\ splits[wnode] + 1 \in Nat
      BY <1>0, <2>2, <2>9
    <3>2. /\ s \in Seq(Nat) /\ Len(s) = Len(splits) /\ s[wnode] = splits[wnode] + 1
          /\ \A n \in DOMAIN splits : n # wnode => s[n] = splits[n]
      BY <1>0, <3>1
    <3>3. splits' = Append(s, 0)
      BY <2>1
    <3> HIDE DEF s
    <3>4. DOMAIN low \subseteq DOMAIN splits /\ DOMAIN splits = 1..Len(splits)
      BY <1>0, <2>9
    <3>5. /\ splits' \in Seq(Nat) /\ Len(splits') = Len(splits) + 1
          /\ \A n \in 1..Len(splits) : splits'[n] = s[n]
      BY <3>2, <3>3
    <3> QED
      BY <1>0, <2>2, <2>8, <2>9, <3>1, <3>2, <3>4, <3>5
  <2> QED
    BY <1>1, <2>1, <2>7, <2>4, <2>5, <2>6, <2>10, <2>11, QuietStep
<1>6. CASE MoveKey
  <2> DEFINE c2 == Add(leaves[Cand], leaves[wnode].keys[Head(todo)], leaves[wnode].vals[Head(todo)])
             l2 == Clear(leaves[wnode], {Head(todo)})
  <2>1. /\ wpc = "move" /\ low' = low /\ done' = done /\ wnode' = wnode /\ splits' = splits
        /\ leaves' = [leaves EXCEPT ![Cand] = c2, ![wnode] = l2]
    BY <1>6 DEF MoveKey
  <2>2. Split /\ Cand # wnode /\ Cand \notin DOMAIN low /\ wnode \in DOMAIN low /\ leaves[wnode] \in Leaf
    BY <2>1, SplitFacts DEF Split
  <2>3. l2.incarnation = leaves[wnode].incarnation
    BY <2>2, ClearEmpties
  <2> HIDE DEF c2, l2
  <2>4. /\ Len(leaves') >= Len(leaves) /\ Len(splits') = Len(leaves') /\ leaves'[wnode] = l2
        /\ \A n \in DOMAIN low : n # wnode => leaves'[n] = leaves[n]
    BY <1>0, <2>1, <2>2 DEF WType
  <2> QED
    BY <1>0, <1>1, <2>1, <2>2, <2>3, <2>4, QuietStep
<1>7. CASE NewKeyRight
  <2> DEFINE c2 == Add(leaves[Cand], wkey, ValOf(wkey))
  <2>1. /\ wpc = "new" /\ low' = low /\ done' = done /\ wnode' = wnode /\ splits' = splits
        /\ leaves' = [leaves EXCEPT ![Cand] = c2]
    BY <1>7 DEF NewKeyRight
  <2>2. Split /\ Cand # wnode /\ Cand \notin DOMAIN low /\ wnode \in DOMAIN low
    BY <2>1, SplitFacts DEF Split
  <2> HIDE DEF c2
  <2>3. /\ Len(leaves') >= Len(leaves) /\ Len(splits') = Len(leaves')
        /\ \A n \in DOMAIN low : leaves'[n] = leaves[n]
    BY <1>0, <2>1, <2>2 DEF WType
  <2> QED
    BY <1>0, <1>1, <2>1, <2>2, <2>3, QuietStep
<1>8. CASE Link
  <2>1. /\ wpc = "link" /\ wpc' = "idle" /\ low' = Append(low, pivot) /\ done' = done \cup {wkey}
        /\ leaves' = [leaves EXCEPT ![Cand].next = leaves[wnode].next, ![wnode].next = Cand]
        /\ splits' = splits
    BY <1>8 DEF Link
  <2>2. Split /\ ~Split' /\ pivot \in Nat /\ wnode \in DOMAIN low
        /\ Cand # wnode /\ Cand \notin DOMAIN low /\ leaves[wnode] \in Leaf
    BY <2>1, SplitFacts DEF Split
  <2>3. Holds(wnode, pivot)
    BY <2>2 DEF SplitInv
  <2>4. /\ Len(leaves') = Len(leaves) /\ Len(leaves) \in Nat
        /\ DOMAIN low' = DOMAIN low \cup {Len(low) + 1} /\ low'[Len(low) + 1] = pivot
        /\ \A n \in DOMAIN low : low'[n] = low[n] /\ n \in DOMAIN low' /\ n \in LeafId'
    BY <2>1 DEF WType, LeafId
  <2>5. \A n \in DOMAIN low : n # wnode => leaves'[n] = leaves[n]
    BY <2>1, <2>2 DEF WType
  <2>6. leaves'[wnode].incarnation = leaves[wnode].incarnation
    <3> DEFINE c2 == [leaves[Cand] EXCEPT !.next = leaves[wnode].next]
               l2 == [leaves[wnode] EXCEPT !.next = Cand]
    <3>1. leaves' = [leaves EXCEPT ![Cand] = c2, ![wnode] = l2]
      BY <2>1
    <3>2. l2.incarnation = leaves[wnode].incarnation
      BY <2>2 DEF Leaf
    <3> HIDE DEF c2, l2
    <3>3. leaves'[wnode] = l2
      BY <3>1, <2>2 DEF WType
    <3> QED
      BY <3>2, <3>3
  <2>8. \A n \in DOMAIN low : n # wnode => ~Holds(n, pivot)
    BY <2>2, <2>3, HoldsOnce
  <2>9. \A n \in DOMAIN low : leaves[n].incarnation \in Nat
    BY LeafFields DEF WType
  <2>10. \A n \in DOMAIN low : leaves[n].incarnation = leaves'[n].incarnation
    BY <2>5, <2>6
  <2>11. \A n \in DOMAIN low : ~(Split /\ wnode = n) =>
              /\ ~(Split' /\ wnode' = n) /\ leaves'[n] = leaves[n]
              /\ \A m \in DOMAIN low' : m \in DOMAIN low \/ ~Holds(n, low'[m])
    BY <2>2, <2>4, <2>5, <2>8
  <2>12. Len(leaves) <= Len(leaves') /\ DOMAIN low \subseteq DOMAIN low' /\ done \subseteq done'
    BY <2>1, <2>4
  <2>13. \A n \in DOMAIN low : leaves[n].incarnation <= leaves'[n].incarnation
    BY <2>9, <2>10
  <2> QED
    BY <1>0, <2>1, <2>4, <2>10, <2>11, <2>12, <2>13 DEF StepEffect, Undisturbed
<1> QED
  BY <1>2, <1>3, <1>4, <1>5, <1>6, <1>7, <1>8 DEF WriterNext

-----------------------------------------------------------------------------
(* Counting modulo M. *)

\* A remainder is determined by its number up to multiples of M.
LEMMA ModUnique ==
  ASSUME NEW M \in Nat \ {0}, NEW q \in Nat, NEW r \in 0..(M - 1)
  PROVE  (q * M + r) % M = r
<1> DEFINE x == q * M + r
<1>1. q * M \in Nat /\ x \in Nat
  OBVIOUS
<1>2. x = M * (x \div M) + (x % M) /\ x % M \in 0..(M - 1) /\ x \div M \in Nat
  BY <1>1
<1> DEFINE d == x \div M
           s == x % M
<1>3. M * d + s = M * q + r /\ s \in 0..(M - 1) /\ d \in Nat
  BY <1>2
<1> HIDE DEF d, s
<1>4. ~(d < q)
  <2> SUFFICES ASSUME d < q PROVE FALSE
    OBVIOUS
  <2>1. M * d + M <= M * q
    <3>1. M * (d + 1) <= M * q
      BY <1>3
    <3> QED
      BY <1>3, <3>1
  <2>2. M * d \in Nat /\ M * q \in Nat
    BY <1>3
  <2> QED
    BY <1>3, <2>1, <2>2
<1>5. ~(q < d)
  <2> SUFFICES ASSUME q < d PROVE FALSE
    OBVIOUS
  <2>1. M * q + M <= M * d
    <3>1. M * (q + 1) <= M * d
      BY <1>3
    <3> QED
      BY <1>3, <3>1
  <2>2. M * d \in Nat /\ M * q \in Nat
    BY <1>3
  <2> QED
    BY <1>3, <2>1, <2>2
<1>6. d = q
  BY <1>3, <1>4, <1>5
<1> QED
  BY <1>3, <1>6 DEF s

\* Counting one further depends on the remainder alone.
LEMMA ModInc ==
  ASSUME NEW M \in Nat \ {0}, NEW x \in Nat
  PROVE  (x + 1) % M = IF (x % M) + 1 = M THEN 0 ELSE (x % M) + 1
<1> DEFINE q == x \div M
           r == x % M
<1>1. x = q * M + r /\ q \in Nat /\ r \in 0..(M - 1)
  OBVIOUS
<1> HIDE DEF q, r
<1>2. CASE r + 1 = M
  <2>1. x + 1 = (q + 1) * M + 0
    BY <1>1, <1>2
  <2>2. ((q + 1) * M + 0) % M = 0
    BY <1>1, ModUnique
  <2> QED
    BY <1>2, <2>1, <2>2 DEF r
<1>3. CASE r + 1 # M
  <2>1. x + 1 = q * M + (r + 1) /\ r + 1 \in 0..(M - 1)
    BY <1>1, <1>3
  <2>2. (q * M + (r + 1)) % M = r + 1
    BY <1>1, <2>1, ModUnique
  <2> QED
    BY <1>3, <2>1, <2>2 DEF r
<1> QED
  BY <1>2, <1>3

\* The low bits of a counter that wraps count on as if it did not.
LEMMA ModWrap ==
  ASSUME NEW M \in Nat \ {0}, NEW W \in Nat \ {0}, W % M = 0, NEW x \in 0..(W - 1)
  PROVE  ((x + 1) % W) % M = (x + 1) % M
<1>1. x \in Nat /\ x % W = x
  BY ModUnique
<1>2. (x + 1) % W = IF (x % W) + 1 = W THEN 0 ELSE (x % W) + 1
  BY <1>1, ModInc
<1>3. (x + 1) % W = IF x + 1 = W THEN 0 ELSE x + 1
  BY <1>1, <1>2
<1>4. 0 % M = 0
  OBVIOUS
<1>5. x + 1 = W => (x + 1) % M = 0
  OBVIOUS
<1> QED
  BY <1>3, <1>4, <1>5

\* If counting s further leads back to the same remainder, s is a multiple of M.
LEMMA ModCancel ==
  ASSUME NEW M \in Nat \ {0}, NEW t \in 0..(M - 1), NEW s \in Nat, (t + s) % M = t
  PROVE  s % M = 0
<1> DEFINE q == (t + s) \div M
<1>1. t + s = q * M + t /\ q \in Nat
  OBVIOUS
<1> HIDE DEF q
<1>2. s = q * M + 0
  BY <1>1
<1>3. (q * M + 0) % M = 0
  BY <1>1, ModUnique
<1> QED
  BY <1>2, <1>3

-----------------------------------------------------------------------------
(* The translation table. *)

\* The leaves can be listed in the order of their low keys, and Linked does.
LEMMA LinkedInOrder ==
  ASSUME WType, LowInv, ~Split
  PROVE  /\ Linked \in [LeafId -> LeafId]
         /\ \A i, j \in LeafId : i < j => low[Linked[i]] < low[Linked[j]]
         /\ \A n \in LeafId : \E i \in LeafId : Linked[i] = n
<1> DEFINE S == {low[n] : n \in LeafId}
           c == Cardinality(S)
           q == Ascending(S)
<1>1. DOMAIN low = LeafId /\ LeafId = 1..Len(low) /\ Len(low) \in Nat /\ \A n \in LeafId : low[n] \in Key
  BY DEF WType, LeafId
<1>2. MaxKey \in Nat /\ S \in SUBSET (0..MaxKey)
  BY <1>1, XNodeAssumption DEF Key
<1>3. /\ c \in Nat /\ q \in [1..c -> S] /\ Rising(q, c)
  BY <1>2, AscendingIsOrder
<1>4. IsFiniteSet(LeafId) /\ Cardinality(LeafId) = Len(low)
  BY <1>1, FS_Interval, SMTT(30)
<1>5. c = Len(low)
  <2> DEFINE f == [n \in LeafId |-> low[n]]
  <2>1. f \in Surjection(LeafId, S)
    BY DEF Surjection
  <2>2. f \in Injection(LeafId, S)
    BY <1>1 DEF Injection, IsInjective, LowInv
  <2> HIDE DEF f
  <2> QED
    BY <1>4, <2>1, <2>2, FS_Surjection
<1> HIDE DEF c, q
<1> DEFINE f == [i \in LeafId |-> CHOOSE n \in LeafId : low[n] = q[i]]
<1>6. \A i \in LeafId : f[i] \in LeafId /\ low[f[i]] = q[i]
  BY <1>1, <1>3, <1>5
<1>11. \A i, j \in LeafId : i < j => q[i] < q[j]
  BY <1>1, <1>3, <1>5 DEF Rising
<1>12. f \in [LeafId -> LeafId]
  <2>1. f = [i \in LeafId |-> f[i]]
    OBVIOUS
  <2> HIDE DEF f
  <2> QED
    BY <2>1, <1>6
<1>7. f \in [LeafId -> LeafId] /\ \A i, j \in LeafId : i < j => low[f[i]] < low[f[j]]
  <2> HIDE DEF f
  <2> QED
    BY <1>6, <1>11, <1>12
<1> HIDE DEF f
<1>8. /\ Linked \in [LeafId -> LeafId]
      /\ \A i, j \in LeafId : i < j => low[Linked[i]] < low[Linked[j]]
  BY <1>7 DEF Linked
<1>9. Linked \in Injection(LeafId, LeafId)
  <2> SUFFICES ASSUME NEW i \in LeafId, NEW j \in LeafId, Linked[i] = Linked[j] PROVE i = j
    BY <1>8 DEF Injection, IsInjective
  <2>1. low[Linked[i]] \in Nat
    BY <1>1, <1>8, XNodeAssumption DEF Key
  <2>2. ~(i < j) /\ ~(j < i)
    BY <1>8, <2>1
  <2> QED
    BY <1>1, <2>2
<1>10. Linked \in Surjection(LeafId, LeafId)
  BY <1>4, <1>9, FS_Injection
<1> QED
  BY <1>8, <1>10 DEF Surjection

\* A table that Train makes describes the tree.
LEMMA TrainT ==
  ASSUME WInv, Train
  PROVE  TableInv' /\ CountInv'
<1> USE DEF WInv
<1>1. /\ wpc = "idle" /\ done # {} /\ leaves' = leaves /\ low' = low /\ done' = done /\ wpc' = wpc
      /\ tt' = [i \in LeafId |-> <<Linked[i], leaves[Linked[i]].incarnation % TableMod>>]
      /\ splits' = [i \in LeafId |-> 0]
  BY DEF Train, writer
<1>2. ~Split /\ ~Split'
  BY <1>1 DEF Split
<1>3. DOMAIN low = LeafId /\ LeafId = 1..Len(low) /\ Len(low) \in Nat /\ Len(low) >= 1
      /\ \A n \in LeafId : low[n] \in Nat
  BY <1>2, XNodeAssumption DEF WType, LeafId, LowInv, Key
<1>4. /\ \A i \in LeafId : Linked[i] \in LeafId
      /\ \A i, j \in LeafId : i < j => low[Linked[i]] < low[Linked[j]]
      /\ \A n \in LeafId : \E i \in LeafId : Linked[i] = n
  BY <1>2, LinkedInOrder
<1>5. \A n \in LeafId : leaves[n].incarnation % TableMod \in 0..(TableMod - 1)
  <2>1. \A n \in LeafId : leaves[n].incarnation \in Nat
    BY LeafFields DEF WType, LeafId
  <2> QED
    BY <2>1, LiveReadsAssumption
<1>6. /\ DOMAIN tt' = LeafId
      /\ \A p \in LeafId : tt'[p][1] = Linked[p] /\ tt'[p][2] = leaves[Linked[p]].incarnation % TableMod
      /\ tt' \in Seq(Nat \X (0..(TableMod - 1)))
  <2>1. \A p \in LeafId :
          <<Linked[p], leaves[Linked[p]].incarnation % TableMod>> \in Nat \X (0..(TableMod - 1))
    <3> SUFFICES ASSUME NEW p \in LeafId
                 PROVE  Linked[p] \in Nat /\ leaves[Linked[p]].incarnation % TableMod \in 0..(TableMod - 1)
      OBVIOUS
    <3>1. Linked[p] \in LeafId
      BY <1>4
    <3> QED
      BY <3>1, <1>3, <1>5
  <2> QED
    BY <1>1, <1>3, <2>1
<1>7. low[Linked[1]] = 0
  <2>0. 1 \in LeafId /\ low[1] = 0
    BY <1>3 DEF LowInv
  <2>1. PICK i \in LeafId : Linked[i] = 1
    BY <2>0, <1>4
  <2>2. i = 1 \/ 1 < i
    BY <1>3
  <2>3. i # 1 => low[Linked[1]] < 0
    BY <2>0, <2>1, <2>2, <1>4
  <2>4. low[Linked[1]] \in Nat
    BY <2>0, <1>3, <1>4
  <2> QED
    BY <2>0, <2>1, <2>3, <2>4
<1>8. ASSUME NEW p \in LeafId, NEW m \in LeafId, low[Linked[p]] < low[m]
      PROVE  \E q \in LeafId : p < q /\ low[Linked[q]] <= low[m]
  <2>1. PICK q \in LeafId : Linked[q] = m
    BY <1>4
  <2>2. ~(q < p) /\ q # p
    <3>1. low[Linked[p]] \in Nat /\ low[m] \in Nat
      BY <1>3, <1>4
    <3>2. q < p => low[m] < low[Linked[p]]
      BY <2>1, <1>4
    <3> QED
      BY <2>1, <1>8, <3>1, <3>2
  <2>3. p < q /\ low[Linked[q]] <= low[m]
    BY <2>1, <2>2, <1>3
  <2> QED
    BY <2>3
<1>9. CountInv'
  <2>1. /\ Len(leaves) \in Nat /\ splits' \in Seq(Nat) /\ Len(splits') = Len(leaves)
        /\ \A n \in LeafId : splits'[n] = 0
    BY <1>1 DEF WType, LeafId
  <2>2. \A r \in 0..(TableMod - 1) : (r + 0) % TableMod = r
    <3> SUFFICES ASSUME NEW r \in 0..(TableMod - 1) PROVE (r + 0) % TableMod = r
      OBVIOUS
    <3>1. (0 * TableMod + r) % TableMod = r
      BY LiveReadsAssumption, ModUnique
    <3> QED
      BY <3>1, LiveReadsAssumption
  <2>3. ASSUME NEW p \in LeafId
        PROVE  leaves[tt'[p][1]].incarnation % TableMod = (tt'[p][2] + splits'[tt'[p][1]]) % TableMod
    <3> DEFINE r == leaves[Linked[p]].incarnation % TableMod
    <3>1. Linked[p] \in LeafId /\ splits'[Linked[p]] = 0
      BY <1>4, <2>1
    <3>2. r \in 0..(TableMod - 1)
      BY <1>5, <3>1
    <3>3. tt'[p][1] = Linked[p] /\ tt'[p][2] = r
      BY <1>6
    <3> HIDE DEF r
    <3>4. (tt'[p][2] + splits'[tt'[p][1]]) % TableMod = r
      BY <2>2, <3>1, <3>2, <3>3
    <3> QED
      BY <3>3, <3>4 DEF r
  <2> QED
    BY <1>1, <1>6, <2>1, <2>3 DEF CountInv
<1>10. tt'[1][1] = Linked[1]
  BY <1>3, <1>6
<1> QED
  BY <1>1, <1>2, <1>3, <1>4, <1>6, <1>7, <1>8, <1>9, <1>10 DEF TableInv

\* The table stays right through a step of the insertion.
LEMMA TableStep ==
  ASSUME WInv, WInv', TableInv, CountInv, StepEffect, tt' = tt
  PROVE  /\ TableInv'
         /\ \A n \in DOMAIN low : Changed(n) => Changed(n)'
         /\ \A p \in DOMAIN tt : Same(p)' =>
              /\ Same(p)
              /\ \A i \in Slot : \/ leaves'[tt[p][1]].keys[i] = leaves[tt[p][1]].keys[i]
                                 \/ /\ leaves[tt[p][1]].keys[i] = kInvalidKey
                                    /\ leaves'[tt[p][1]].keys[i] \notin done
<1>1. \A p \in DOMAIN tt : tt[p][1] \in DOMAIN low /\ tt[p][1] \in Nat
  BY DEF TableInv
<1>2. \A n \in DOMAIN low : low'[n] = low[n] /\ n \in DOMAIN low'
  BY DEF StepEffect
<1>0. \A k \in Key : k \in Nat
  BY XNodeAssumption DEF Key
<1>4. \A n \in DOMAIN low : low[n] \in Nat
  <2>1. low \in Seq(Key)
    BY DEF WInv, WType
  <2> QED
    BY <1>0, <2>1
<1>5. \A n \in DOMAIN low' : low'[n] \in Nat
  <2>1. low' \in Seq(Key)
    BY DEF WInv, WType
  <2> QED
    BY <1>0, <2>1
<1>6. \A n \in DOMAIN low : splits[n] \in Nat /\ (splits'[n] = splits[n] \/ splits'[n] = splits[n] + 1)
  <2>1. \A n \in DOMAIN low : n \in DOMAIN splits
    BY DEF WInv, WType, CountInv
  <2> QED
    BY <2>1 DEF CountInv, StepEffect
<1>7. \A n \in DOMAIN low : Changed(n) => Changed(n)'
  BY <1>6 DEF Changed
<1>8. ASSUME NEW p \in DOMAIN tt, Same(p)'
      PROVE  /\ Same(p) /\ splits'[tt[p][1]] = splits[tt[p][1]]
             /\ ~(Split /\ wnode = tt[p][1])
  <2>1. splits'[tt[p][1]] = 0
    BY <1>8 DEF Same
  <2>2. splits[tt[p][1]] = 0
    BY <2>1, <1>1, <1>6
  <2>3. Same(p)
    BY <2>2 DEF Same
  <2> QED
    BY <2>1, <2>2, <2>3 DEF TableInv
<1>9. ASSUME NEW p \in DOMAIN tt, Same(p)'
      PROVE  /\ ~(Split' /\ wnode' = tt[p][1])
             /\ \A i \in Slot : \/ leaves'[tt[p][1]].keys[i] = leaves[tt[p][1]].keys[i]
                                \/ /\ leaves[tt[p][1]].keys[i] = kInvalidKey
                                   /\ leaves'[tt[p][1]].keys[i] \notin done
             /\ \A m \in DOMAIN low' : m \in DOMAIN low \/ ~Holds(tt[p][1], low'[m])
  BY <1>1, <1>8, <1>9 DEF StepEffect, Undisturbed
<1>10. ASSUME NEW p \in DOMAIN tt, Same(p)', NEW m \in DOMAIN low',
              low[tt[p][1]] < low'[m]
       PROVE  \E q \in DOMAIN tt : p < q /\ low[tt[q][1]] <= low'[m]
  <2>1. \A h \in DOMAIN low : low[tt[p][1]] < low[h] => \E q \in DOMAIN tt : p < q /\ low[tt[q][1]] <= low[h]
    BY <1>8, <1>10 DEF TableInv
  <2>2. CASE m \in DOMAIN low
    BY <2>1, <2>2, <1>2, <1>10
  <2>3. CASE m \notin DOMAIN low
    <3>1. ~Holds(tt[p][1], low'[m])
      BY <2>3, <1>9, <1>10
    <3>2. PICK h \in DOMAIN low : ~(low[h] <= low[tt[p][1]]) /\ ~(low'[m] < low[h])
      BY <3>1, <1>1, <1>4, <1>5, <1>10 DEF Holds
    <3>3. low[tt[p][1]] < low[h] /\ low[h] <= low'[m]
      BY <3>2, <1>1, <1>4, <1>5
    <3>4. PICK q \in DOMAIN tt : p < q /\ low[tt[q][1]] <= low[h]
      BY <2>1, <3>3
    <3>5. low[tt[q][1]] <= low'[m]
      BY <3>3, <3>4, <1>1, <1>4, <1>5
    <3> QED
      BY <3>4, <3>5
  <2> QED
    BY <2>2, <2>3
<1>11. tt # <<>> => low'[tt[1][1]] = 0 /\ done' # {}
  <2>1. tt # <<>> => 1 \in DOMAIN tt
    BY DEF TableInv
  <2> QED
    BY <2>1, <1>1, <1>2 DEF TableInv, StepEffect
<1>12. TableInv'
  <2>1. \A p \in DOMAIN tt : low'[tt[p][1]] = low[tt[p][1]] /\ tt[p][1] \in DOMAIN low'
    BY <1>1, <1>2
  <2>2. tt \in Seq(Nat \X (0..(TableMod - 1))) /\ \A p, q \in DOMAIN tt : p < q => low[tt[p][1]] < low[tt[q][1]]
    BY DEF TableInv
  <2>3. ASSUME NEW p \in DOMAIN tt, Same(p)'
        PROVE  (/\ ~(Split /\ wnode = tt[p][1])
                /\ \A m \in DOMAIN low :
                     low[tt[p][1]] < low[m] =>
                       \E q \in DOMAIN tt : p < q /\ low[tt[q][1]] <= low[m])'
    BY <2>1, <2>3, <1>9, <1>10
  <2> QED
    BY <2>1, <2>2, <2>3, <1>11 DEF TableInv
<1> QED
  BY <1>7, <1>8, <1>9, <1>12

\* Each split of a leaf is counted in the bits of its incarnation.
LEMMA CountStep ==
  ASSUME WInv, WInv', TableInv, CountInv, StepEffect, tt' = tt
  PROVE  CountInv'
<1>1. ASSUME NEW p \in DOMAIN tt
      PROVE  leaves'[tt[p][1]].incarnation % TableMod = (tt[p][2] + splits'[tt[p][1]]) % TableMod
  <2> DEFINE n == tt[p][1]
             t == tt[p][2]
             x == leaves[n].incarnation
             s == splits[n]
  <2>1. n \in DOMAIN low /\ t \in Nat
    BY LiveReadsAssumption DEF TableInv
  <2>0. splits \in Seq(Nat) /\ Len(splits) = Len(leaves) /\ DOMAIN low \subseteq 1..Len(leaves)
    <3>1. splits \in Seq(Nat) /\ Len(splits) = Len(leaves)
      BY DEF CountInv
    <3>2. /\ leaves \in Seq(Leaf) /\ low \in Seq(Key)
          /\ Len(leaves) = Len(low) + (IF Split THEN 1 ELSE 0)
      BY DEF WInv, WType
    <3>3. DOMAIN low \subseteq 1..Len(leaves)
      BY <3>2
    <3> QED
      BY <3>1, <3>3
  <2>2. n \in LeafId /\ n \in DOMAIN splits /\ s \in Nat
    BY <2>0, <2>1 DEF LeafId
  <2>3. x \in 0..(IncarMod - 1) /\ x \in Nat
    BY <2>2, LeafFields DEF WInv, WType, LeafId
  <2>4. x % TableMod = (t + s) % TableMod
    BY DEF CountInv
  <2>5. \/ splits'[n] = s /\ leaves'[n].incarnation = x
        \/ splits'[n] = s + 1 /\ leaves'[n].incarnation = (x + 1) % IncarMod
    BY <2>1 DEF StepEffect
  <2> HIDE DEF n, t, x, s
  <2>6. ((x + 1) % IncarMod) % TableMod = (x + 1) % TableMod
    <3>1. TableMod \in Nat \ {0} /\ IncarMod \in Nat \ {0} /\ IncarMod % TableMod = 0
      BY LiveReadsAssumption, XNodeAssumption
    <3> QED
      BY <2>3, <3>1, ModWrap
  <2>7. (x + 1) % TableMod = (t + (s + 1)) % TableMod
    <3>1. (x + 1) % TableMod = IF (x % TableMod) + 1 = TableMod THEN 0 ELSE (x % TableMod) + 1
      BY <2>3, LiveReadsAssumption, ModInc
    <3> DEFINE u == t + s
    <3>2. u \in Nat /\ t + (s + 1) = u + 1 /\ x % TableMod = u % TableMod
      BY <2>1, <2>2, <2>4
    <3> HIDE DEF u
    <3>3. (u + 1) % TableMod = IF (u % TableMod) + 1 = TableMod THEN 0 ELSE (u % TableMod) + 1
      BY <3>2, LiveReadsAssumption, ModInc
    <3> QED
      BY <3>1, <3>2, <3>3
  <2>8. leaves'[n].incarnation % TableMod = (t + splits'[n]) % TableMod
    BY <2>4, <2>5, <2>6, <2>7
  <2> QED
    BY <2>8 DEF n, t
<1> QED
  BY <1>1 DEF CountInv, StepEffect

\* A leaf that has split is told by the bits in the table, or they are the same again.
LEMMA ChangedIsSeen ==
  ASSUME WInv, TableInv, CountInv, NEW p \in DOMAIN tt, Changed(tt[p][1])
  PROVE  Moved(tt[p][1]) \/ Unseen(tt[p][1])
<1> DEFINE n == tt[p][1]
           t == tt[p][2]
<1>1. n \in DOMAIN low /\ t \in 0..(TableMod - 1)
  BY DEF TableInv
<1>2. splits[n] \in Nat
  <2>1. /\ leaves \in Seq(Leaf) /\ low \in Seq(Key)
        /\ Len(leaves) = Len(low) + (IF Split THEN 1 ELSE 0)
    BY DEF WInv, WType
  <2>2. DOMAIN low \subseteq 1..Len(leaves)
    BY <2>1
  <2>3. splits \in Seq(Nat) /\ Len(splits) = Len(leaves)
    BY DEF CountInv
  <2> HIDE DEF n
  <2> QED
    BY <1>1, <2>2, <2>3
<1>3. leaves[n].incarnation % TableMod = (t + splits[n]) % TableMod
  BY DEF CountInv
<1>4. CASE leaves[n].incarnation % TableMod = t
  <2> HIDE DEF n, t
  <2>1. splits[n] % TableMod = 0
    BY <1>1, <1>2, <1>3, <1>4, LiveReadsAssumption, ModCancel
  <2> QED
    BY <2>1 DEF Changed, Unseen, n
<1>5. CASE leaves[n].incarnation % TableMod # t
  BY <1>5 DEF Moved
<1> QED
  BY <1>4, <1>5

\* The page of a key.
LEMMA HomePageIsHome ==
  ASSUME WInv, TableInv, tt # <<>>, NEW k \in Key
  PROVE  HomePage(k) \in DOMAIN tt /\ IsHome(HomePage(k), k)
<1> DEFINE S == {p \in DOMAIN tt : low[tt[p][1]] <= k}
<1>1. Len(tt) \in Nat /\ S \in SUBSET (0..Len(tt)) /\ 1 \in DOMAIN tt
  BY DEF TableInv
<1>2. 1 \in S
  BY <1>1 DEF TableInv, Key
<1>3. \E p \in S : \A q \in S : q <= p
  BY <1>1, <1>2, NatMax
<1> QED
  BY <1>3 DEF HomePage, IsHome

\* The leaf of a page that has not split answers for the keys of the page.
LEMMA HomeHolds ==
  ASSUME WInv, TableInv, NEW k \in Key, NEW p \in DOMAIN tt,
         IsHome(p, k), Same(p)
  PROVE  Holds(tt[p][1], k) /\ ~(Split /\ wnode = tt[p][1])
<1>2. k \in Nat /\ \A m \in DOMAIN low : low[m] \in Nat
  BY XNodeAssumption DEF WInv, WType, Key
<1>1. \A q \in DOMAIN tt : tt[q][1] \in DOMAIN low /\ low[tt[q][1]] \in Nat /\ q \in Nat
  BY <1>2, SMTT(30) DEF TableInv
<1>4. /\ ~(Split /\ wnode = tt[p][1])
      /\ \A m \in DOMAIN low : low[tt[p][1]] < low[m] => \E q \in DOMAIN tt : p < q /\ low[tt[q][1]] <= low[m]
  BY DEF TableInv
<1>3. ASSUME NEW m \in DOMAIN low, ~(low[m] <= low[tt[p][1]]), ~(k < low[m]) PROVE FALSE
  <2>1. PICK q \in DOMAIN tt : p < q /\ low[tt[q][1]] <= low[m]
    BY <1>1, <1>2, <1>3, <1>4
  <2>2. low[tt[q][1]] <= k
    BY <2>1, <1>1, <1>2, <1>3
  <2> QED
    BY <2>1, <2>2, <1>1 DEF IsHome
<1> QED
  BY <1>3, <1>4 DEF Holds, IsHome

-----------------------------------------------------------------------------
(* A lookup. *)

\* The types; what a reader has while it is in a state.
RType ==
  /\ rpc \in {"idle", "post", "read", "search", "value", "found", "missed", "link", "copy", "end", "lost"}
  /\ rkey \in Key /\ left \subseteq Slot /\ hasty \in BOOLEAN /\ val \in Nat
  /\ ops \in Seq(DOMAIN low) /\ Len(ops) <= BatchSize /\ pages \in Seq(DOMAIN low)
  /\ \A n \in DOMAIN got : n \in DOMAIN low /\ got[n] \in [Slot -> Key \cup {kInvalidKey}]
  /\ hit \in ({Null} \cup DOMAIN low) \X Slot
  /\ cur \in {Null} \cup DOMAIN low /\ nxt \in {Null} \cup DOMAIN low
  /\ seen \in Seq(Key) /\ due \subseteq done
  /\ incar \in 0..(IncarMod - 1) /\ raced \in BOOLEAN
  /\ rpc \in {"post", "read", "search", "value", "found", "missed", "link", "copy"} => tt # <<>>
  /\ rpc = "post" => pages # <<>> /\ Len(ops) < BatchSize /\ left = Slot
  /\ rpc = "read" => ops # <<>> /\ left # {}
  /\ rpc \notin {"link", "copy", "end", "lost"} => seen = <<>> /\ raced = FALSE
  /\ rpc \in {"idle", "link", "end", "lost"} => got = <<>>
  /\ rpc \in {"link", "copy"} => cur # Null
  /\ rpc \in {"value", "found", "missed"} => hit[1] \in {tt[p][1] : p \in DOMAIN tt}

\* The slot is still to be read by the network card.
Awaited(n, i) == \/ ops # <<>> /\ n = Head(ops) /\ i \in left
                 \/ \E a \in 2..Len(ops) : ops[a] = n
                 \/ \E a \in DOMAIN pages : pages[a] = n

\* What a lookup copied from a leaf that has not split is still there; and its own
\* key was copied from its page, or is still to be.
LookupInv ==
  /\ rpc \in {"post", "read", "search"} =>
       /\ hasty \/ rkey \in done
       /\ \A p \in DOMAIN tt : \A i \in Slot :
            Same(p) /\ tt[p][1] \in DOMAIN got /\ got[tt[p][1]][i] # kInvalidKey
              => leaves[tt[p][1]].keys[i] = got[tt[p][1]][i]
       /\ \A p \in DOMAIN tt : \A i \in Slot :
            LET n == tt[p][1]
            IN ~hasty /\ IsHome(p, rkey) /\ Same(p) /\ leaves[n].keys[i] = rkey =>
                 \/ n \in DOMAIN got /\ got[n][i] = rkey
                 \/ rpc \in {"post", "read"} /\ Awaited(n, i)
  /\ rpc \in {"value", "found"} =>
       /\ hasty \/ rkey \in done
       /\ Changed(hit[1]) \/ leaves[hit[1]].keys[hit[2]] = rkey
  /\ rpc = "found" /\ val # ValOf(rkey) => hasty \/ Changed(hit[1])
  /\ rpc = "missed" => hasty \/ Changed(hit[1])

-----------------------------------------------------------------------------
(* The iterator. *)

\* What was returned lies before the leaf that is read, what was copied in it, and
\* the link that was loaded bounds it.
OrderInv ==
  /\ \A i, j \in DOMAIN seen : i < j => seen[i] < seen[j]
  /\ rpc \in {"link", "copy"} => \A i \in DOMAIN seen : seen[i] < low[cur]
  /\ rpc = "copy" =>
       /\ \A n \in DOMAIN got : n = cur
       /\ nxt # Null => low[cur] < low[nxt]
       /\ \A n \in DOMAIN got : \A i \in Slot :
            got[n][i] # kInvalidKey => /\ low[cur] <= got[n][i]
                                       /\ nxt # Null => got[n][i] < low[nxt]

\* As long as no split interfered, the stored keys before the current leaf were
\* returned; those in it were copied, or are still to be.
Quiet == ~raced /\ leaves[cur].incarnation = incar
CopiedSlot(i) == i \in left \/ (cur \in DOMAIN got /\ got[cur][i] = leaves[cur].keys[i])
ScanInv ==
  Len(leaves) <= IncarMod =>
    /\ rpc \in {"link", "copy"} /\ ~raced =>
         \A k \in due : k < low[cur] => \E i \in DOMAIN seen : seen[i] = k
    /\ rpc = "copy" => incar <= leaves[cur].incarnation
    /\ rpc = "copy" /\ Quiet =>
         /\ ~(Split /\ wnode = cur) /\ leaves[cur].next = nxt
         /\ \A i \in Slot : leaves[cur].keys[i] \in due => CopiedSlot(i)
         /\ \E i \in Slot : leaves[cur].keys[i] # kInvalidKey /\ CopiedSlot(i)
    /\ rpc = "end" /\ ~raced => \A k \in due : \E i \in DOMAIN seen : seen[i] = k
    /\ rpc = "lost" => raced

RInv == RType /\ LookupInv /\ OrderInv /\ ScanInv

-----------------------------------------------------------------------------
(* The readers through a step of the insertion. *)

\* The types hold through a step of the insertion.
LEMMA TypeStep ==
  ASSUME RType, StepEffect, UNCHANGED <<tt, rpc, lookup, got, left, scan>>
  PROVE  RType'
<1>1. /\ tt' = tt /\ rpc' = rpc /\ rkey' = rkey /\ pages' = pages /\ ops' = ops /\ hit' = hit
      /\ val' = val /\ hasty' = hasty /\ got' = got /\ left' = left /\ cur' = cur /\ nxt' = nxt
      /\ seen' = seen /\ due' = due /\ incar' = incar /\ raced' = raced
  BY DEF lookup, scan
<1>2. DOMAIN low \subseteq DOMAIN low' /\ done \subseteq done'
  BY DEF StepEffect
<1>3. \A s \in Seq(DOMAIN low) : s \in Seq(DOMAIN low')
  BY <1>2
<1>4. ops' \in Seq(DOMAIN low') /\ pages' \in Seq(DOMAIN low')
  BY <1>1, <1>3 DEF RType
<1>5. /\ \A n \in DOMAIN got' : n \in DOMAIN low' /\ got'[n] \in [Slot -> Key \cup {kInvalidKey}]
      /\ hit' \in ({Null} \cup DOMAIN low') \X Slot
      /\ cur' \in {Null} \cup DOMAIN low' /\ nxt' \in {Null} \cup DOMAIN low' /\ due' \subseteq done'
  BY <1>1, <1>2 DEF RType
<1> QED
  BY <1>1, <1>4, <1>5 DEF RType

\* What a lookup knows holds through a step of the insertion: a leaf that has not split
\* gains only keys whose insertion has not ended.
LEMMA LookupStep ==
  ASSUME WInv, WInv', TableInv, CountInv, RType, LookupInv, StepEffect,
         UNCHANGED <<tt, rpc, lookup, got, left, scan>>
  PROVE  LookupInv'
<1>1. /\ tt' = tt /\ rpc' = rpc /\ rkey' = rkey /\ pages' = pages /\ ops' = ops /\ hit' = hit
      /\ val' = val /\ hasty' = hasty /\ got' = got /\ left' = left
  BY DEF lookup
<1>2. /\ \A n \in DOMAIN low : Changed(n) => Changed(n)'
      /\ \A p \in DOMAIN tt : Same(p)' =>
           /\ Same(p)
           /\ \A i \in Slot : \/ leaves'[tt[p][1]].keys[i] = leaves[tt[p][1]].keys[i]
                              \/ /\ leaves[tt[p][1]].keys[i] = kInvalidKey
                                 /\ leaves'[tt[p][1]].keys[i] \notin done
  BY <1>1, TableStep
<1>3. done \subseteq done'
  BY DEF StepEffect
<1>4. rkey # kInvalidKey
  BY XNodeAssumption DEF RType, Key, kInvalidKey
<1>5. ASSUME rpc \in {"value", "found", "missed"}, Changed(hit[1])
      PROVE  Changed(hit[1])'
  <2>1. hit[1] \in DOMAIN low
    BY <1>5 DEF RType, TableInv
  <2> QED
    BY <2>1, <1>1, <1>2, <1>5 DEF Changed
<1>6. ASSUME rpc \in {"post", "read", "search"}
      PROVE  (/\ hasty \/ rkey \in done
              /\ \A p \in DOMAIN tt : \A i \in Slot :
                   Same(p) /\ tt[p][1] \in DOMAIN got /\ got[tt[p][1]][i] # kInvalidKey
                     => leaves[tt[p][1]].keys[i] = got[tt[p][1]][i])'
  <2>1. /\ hasty \/ rkey \in done
        /\ \A p \in DOMAIN tt : \A i \in Slot :
             Same(p) /\ tt[p][1] \in DOMAIN got /\ got[tt[p][1]][i] # kInvalidKey
               => leaves[tt[p][1]].keys[i] = got[tt[p][1]][i]
    BY <1>6 DEF LookupInv
  <2>2. (hasty \/ rkey \in done)'
    BY <2>1, <1>1, <1>3
  <2>3. ASSUME NEW p \in DOMAIN tt, NEW i \in Slot, Same(p)', tt[p][1] \in DOMAIN got, got[tt[p][1]][i] # kInvalidKey
        PROVE  leaves'[tt[p][1]].keys[i] = got[tt[p][1]][i]
    BY <2>1, <2>3, <1>2
  <2> QED
    BY <2>2, <2>3, <1>1
<1>7. ASSUME rpc \in {"post", "read", "search"}, NEW p \in DOMAIN tt, NEW i \in Slot,
             ~hasty, IsHome(p, rkey)', Same(p)', leaves'[tt[p][1]].keys[i] = rkey
      PROVE  \/ tt[p][1] \in DOMAIN got /\ got[tt[p][1]][i] = rkey
             \/ rpc \in {"post", "read"} /\ Awaited(tt[p][1], i)
  <2>1. IsHome(p, rkey)
    <3>1. \A q \in DOMAIN tt : low'[tt[q][1]] = low[tt[q][1]]
      BY DEF TableInv, StepEffect
    <3> QED
      BY <1>1, <1>7, <3>1 DEF IsHome
  <2>2. rkey \in done
    BY <1>7 DEF LookupInv
  <2>3. leaves[tt[p][1]].keys[i] = rkey /\ Same(p)
    BY <2>2, <1>2, <1>7
  <2> QED
    BY <2>1, <2>3, <1>7 DEF LookupInv
<1>8. \A n, i : Awaited(n, i) => Awaited(n, i)'
  BY <1>1 DEF Awaited
<1>9. ASSUME rpc \in {"value", "found"}
      PROVE  (hasty \/ rkey \in done)' /\ (Changed(hit[1]) \/ leaves[hit[1]].keys[hit[2]] = rkey)'
  <2>1. (hasty \/ rkey \in done) /\ (Changed(hit[1]) \/ leaves[hit[1]].keys[hit[2]] = rkey)
    BY <1>9 DEF LookupInv
  <2>2. PICK p \in DOMAIN tt : tt[p][1] = hit[1]
    BY <1>9 DEF RType
  <2>3. hit[2] \in Slot
    BY DEF RType
  <2>4. CASE Changed(hit[1])
    BY <2>1, <2>4, <1>1, <1>3, <1>5, <1>9
  <2>5. CASE ~Changed(hit[1])'
    <3>1. Same(p)'
      BY <2>2, <2>5, <1>1 DEF Same, Changed
    <3>2. ~Changed(hit[1])
      BY <2>5, <1>5, <1>9
    <3>3. leaves[hit[1]].keys[hit[2]] = rkey
      BY <2>1, <3>2
    <3>4. leaves'[hit[1]].keys[hit[2]] = rkey
      BY <3>1, <3>3, <2>2, <2>3, <1>2, <1>4
    <3> QED
      BY <3>4, <2>1, <1>1, <1>3
  <2> QED
    BY <2>1, <2>5, <1>1, <1>3
<1>10. (rpc = "found" /\ val # ValOf(rkey) => hasty \/ Changed(hit[1]))'
  BY <1>1, <1>5 DEF LookupInv, ValOf
<1>11. (rpc = "missed" => hasty \/ Changed(hit[1]))'
  BY <1>1, <1>5 DEF LookupInv
<1> QED
  BY <1>1, <1>6, <1>7, <1>8, <1>9, <1>10, <1>11 DEF LookupInv

\* What an iterator knows holds through a step of the insertion.
LEMMA ScanStep ==
  ASSUME WInv, WInv', RType, OrderInv, ScanInv, StepEffect,
         UNCHANGED <<tt, rpc, lookup, got, left, scan>>
  PROVE  OrderInv' /\ ScanInv'
<1>1. /\ rpc' = rpc /\ got' = got /\ left' = left /\ cur' = cur /\ nxt' = nxt
      /\ seen' = seen /\ due' = due /\ incar' = incar /\ raced' = raced
  BY DEF scan
<1>2. \A n \in DOMAIN low : low'[n] = low[n]
  BY DEF StepEffect
<1>3. (rpc \in {"link", "copy"} => low'[cur] = low[cur]) /\ (nxt # Null => low'[nxt] = low[nxt])
  BY <1>2 DEF RType
<1>4. OrderInv'
  BY <1>1, <1>3 DEF OrderInv
<1>5. ASSUME Len(leaves') <= IncarMod
      PROVE  (/\ rpc \in {"link", "copy"} /\ ~raced =>
                   \A k \in due : k < low[cur] => \E i \in DOMAIN seen : seen[i] = k
              /\ rpc = "copy" => incar <= leaves[cur].incarnation
              /\ rpc = "copy" /\ Quiet =>
                   /\ ~(Split /\ wnode = cur) /\ leaves[cur].next = nxt
                   /\ \A i \in Slot : leaves[cur].keys[i] \in due => CopiedSlot(i)
                   /\ \E i \in Slot : leaves[cur].keys[i] # kInvalidKey /\ CopiedSlot(i)
              /\ rpc = "end" /\ ~raced => \A k \in due : \E i \in DOMAIN seen : seen[i] = k
              /\ rpc = "lost" => raced)'
  <2>0. /\ leaves \in Seq(Leaf) /\ leaves' \in Seq(Leaf) /\ low \in Seq(Key) /\ low' \in Seq(Key)
        /\ Len(leaves) = Len(low) + (IF Split THEN 1 ELSE 0)
        /\ Len(leaves') = Len(low') + (IF Split' THEN 1 ELSE 0)
    BY DEF WInv, WType
  <2>1. Len(leaves) <= IncarMod
    <3>1. Len(leaves) <= Len(leaves')
      BY DEF StepEffect
    <3>2. Len(leaves) \in Nat /\ Len(leaves') \in Nat /\ IncarMod \in Nat
      BY <2>0, XNodeAssumption
    <3> QED
      BY <1>5, <3>1, <3>2
  <2>2. rpc = "copy" => cur \in DOMAIN low /\ incar \in Nat
    BY XNodeAssumption DEF RType
  <2>3. \A n \in DOMAIN low : leaves[n].incarnation \in Nat /\ leaves'[n].incarnation \in Nat
    <3> DEFINE c == IF Split THEN 1 ELSE 0
               d == IF Split' THEN 1 ELSE 0
    <3>1. c \in {0, 1} /\ d \in {0, 1} /\ Len(leaves) = Len(low) + c /\ Len(leaves') = Len(low') + d
      BY <2>0
    <3>2. \A n \in DOMAIN low : n \in DOMAIN low'
      BY DEF StepEffect
    <3> HIDE DEF c, d
    <3> QED
      BY <2>0, <3>1, <3>2, LowLeaves
  <2>4. (rpc \in {"link", "copy"} /\ ~raced =>
           \A k \in due : k < low[cur] => \E i \in DOMAIN seen : seen[i] = k)'
    BY <2>1, <1>1, <1>3 DEF ScanInv
  <2>5. rpc = "copy" => incar <= leaves[cur].incarnation /\ leaves[cur].incarnation <= leaves'[cur].incarnation
    BY <2>1, <2>2, <1>5 DEF ScanInv, StepEffect
  <2>6. (rpc = "copy" => incar <= leaves[cur].incarnation)'
    BY <2>2, <2>3, <2>5, <1>1
  <2>7. ASSUME rpc = "copy", Quiet'
        PROVE  (/\ ~(Split /\ wnode = cur) /\ leaves[cur].next = nxt
                /\ \A i \in Slot : leaves[cur].keys[i] \in due => CopiedSlot(i)
                /\ \E i \in Slot : leaves[cur].keys[i] # kInvalidKey /\ CopiedSlot(i))'
    <3>1. ~raced /\ leaves'[cur].incarnation = incar
      BY <2>7, <1>1 DEF Quiet
    <3>2. leaves[cur].incarnation = incar
      BY <3>1, <2>2, <2>3, <2>5, <2>7
    <3>3. /\ ~(Split /\ wnode = cur) /\ leaves[cur].next = nxt
          /\ \A i \in Slot : leaves[cur].keys[i] \in due => CopiedSlot(i)
          /\ \E i \in Slot : leaves[cur].keys[i] # kInvalidKey /\ CopiedSlot(i)
      BY <2>1, <2>7, <3>1, <3>2 DEF ScanInv, Quiet
    <3>4. /\ ~(Split' /\ wnode' = cur) /\ leaves'[cur].next = leaves[cur].next
          /\ \A i \in Slot : \/ leaves'[cur].keys[i] = leaves[cur].keys[i]
                             \/ leaves[cur].keys[i] = kInvalidKey /\ leaves'[cur].keys[i] \notin done
      BY <3>1, <3>2, <3>3, <2>2, <2>7, <1>5 DEF StepEffect, Undisturbed
    <3>5. due \subseteq done
      BY DEF RType
    <3>6. \A i \in Slot : leaves'[cur].keys[i] = leaves[cur].keys[i] /\ CopiedSlot(i) => CopiedSlot(i)'
      BY <1>1 DEF CopiedSlot
    <3>7. \A i \in Slot : leaves'[cur].keys[i] \in due => CopiedSlot(i)'
      BY <3>3, <3>4, <3>5, <3>6
    <3>8. \E i \in Slot : leaves'[cur].keys[i] # kInvalidKey /\ CopiedSlot(i)'
      BY <3>3, <3>4, <3>6
    <3> QED
      BY <1>1, <3>3, <3>4, <3>7, <3>8
  <2>8. (rpc = "end" /\ ~raced => \A k \in due : \E i \in DOMAIN seen : seen[i] = k)'
        /\ (rpc = "lost" => raced)'
    BY <2>1, <1>1 DEF ScanInv
  <2> QED
    BY <1>1, <2>4, <2>6, <2>7, <2>8
<1>6. ScanInv'
  BY <1>5 DEF ScanInv
<1> QED
  BY <1>4, <1>6

\* No step of the insertion disturbs a reader.
LEMMA WriterR ==
  ASSUME WInv, TableInv, CountInv, RInv, WriterNext
  PROVE  WInv' /\ TableInv' /\ CountInv' /\ RInv'
<1>1. WInv' /\ StepEffect
  BY WriterW, WriterEffect
<1>2. UNCHANGED <<tt, rpc, lookup, got, left, scan>>
  BY DEF WriterNext, InsertBegin, AddKey, ValueUpdate, SplitBegin, MoveKey, NewKeyRight, Link
<1>3. TableInv' /\ CountInv'
  BY <1>1, <1>2, TableStep, CountStep
<1> QED
  BY <1>1, <1>2, <1>3, TypeStep, LookupStep, ScanStep DEF RInv

-----------------------------------------------------------------------------
(* Steps that change neither the tree, nor the insertion, nor the table. *)

\* What depends on the tree, the insertion and the table alone.
LEMMA ReaderFrame ==
  ASSUME WInv, TableInv, UNCHANGED <<tree, writer, tt>>
  PROVE  /\ WInv' /\ TableInv'
         /\ leaves' = leaves /\ low' = low /\ tt' = tt /\ done' = done
         /\ \A p : Same(p)' = Same(p)
         /\ \A p, k : IsHome(p, k)' = IsHome(p, k)
         /\ \A n : Changed(n)' = Changed(n)
         /\ Split' = Split /\ wnode' = wnode
<1>1. /\ leaves' = leaves /\ low' = low /\ splits' = splits /\ tt' = tt /\ done' = done
      /\ wpc' = wpc /\ wnode' = wnode
  BY DEF tree, writer
<1>2. Split' = Split
  BY <1>1 DEF Split
<1>3. TableInv'
  BY <1>1, <1>2 DEF TableInv, Same
<1>4. \A p : Same(p)' = Same(p)
  BY <1>1 DEF Same
<1>5. \A p, k : IsHome(p, k)' = IsHome(p, k)
  BY <1>1 DEF IsHome
<1>6. \A n : Changed(n)' = Changed(n)
  BY <1>1 DEF Changed
<1>7. WInv'
  BY WUnchanged DEF tree
<1> QED
  BY <1>1, <1>2, <1>3, <1>4, <1>5, <1>6, <1>7

\* Training disturbs no reader: none has begun.
LEMMA TrainR ==
  ASSUME WInv, TableInv, RInv, Train
  PROVE  WInv' /\ TableInv' /\ CountInv' /\ RInv'
<1>1. /\ tt = <<>> /\ leaves' = leaves /\ low' = low /\ done' = done /\ rpc' = rpc
      /\ rkey' = rkey /\ pages' = pages /\ ops' = ops /\ hit' = hit
      /\ val' = val /\ hasty' = hasty /\ got' = got /\ left' = left /\ cur' = cur /\ nxt' = nxt
      /\ seen' = seen /\ due' = due /\ incar' = incar /\ raced' = raced
  BY DEF Train, writer, lookup, scan
<1>2. WInv' /\ TableInv' /\ CountInv'
  BY TrainT, WUnchanged DEF Train
<1>3. rpc \in {"idle", "end", "lost"}
  BY <1>1 DEF RInv, RType
<1>4. RType'
  BY <1>1, <1>3 DEF RInv, RType
<1>5. LookupInv'
  BY <1>1, <1>3 DEF LookupInv
<1>6. OrderInv'
  BY <1>1, <1>3 DEF RInv, OrderInv
<1>7. ScanInv'
  BY <1>1, <1>3 DEF RInv, ScanInv
<1> QED
  BY <1>2, <1>4, <1>5, <1>6, <1>7 DEF RInv

-----------------------------------------------------------------------------
(* The steps of a lookup. *)

\* A lookup begins: the page of its key is among those to be read.
LEMMA LookupBeginR ==
  ASSUME WInv, TableInv, RInv,
         NEW k \in Key, NEW ns \in DOMAIN tt, NEW ne \in DOMAIN tt, LookupBegin(k, ns, ne)
  PROVE  WInv' /\ TableInv' /\ RInv'
<1> DEFINE ps == [i \in 1..(ne - ns + 1) |-> tt[ns + i - 1][1]]
<1>1. /\ rpc = "idle" /\ tt # <<>> /\ HomePage(k) \in ns..ne
      /\ rkey' = k /\ pages' = ps /\ ops' = <<>> /\ got' = <<>> /\ left' = Slot
      /\ hasty' = (k \notin done) /\ rpc' = "post"
      /\ UNCHANGED <<tree, writer, tt, hit, val, scan>>
  BY DEF LookupBegin
<1>2. /\ WInv' /\ TableInv'
      /\ leaves' = leaves /\ low' = low /\ tt' = tt /\ done' = done
      /\ \A p : Same(p)' = Same(p)
      /\ \A p, x : IsHome(p, x)' = IsHome(p, x)
  BY <1>1, ReaderFrame
<1>3. /\ Len(tt) \in Nat /\ DOMAIN tt = 1..Len(tt) /\ ns \in Nat /\ ne \in Nat /\ HomePage(k) \in Nat
      /\ ns <= HomePage(k) /\ HomePage(k) <= ne
  <2>1. Len(tt) \in Nat /\ DOMAIN tt = 1..Len(tt)
    BY DEF TableInv
  <2>2. HomePage(k) \in DOMAIN tt
    BY <1>1, HomePageIsHome
  <2> QED
    BY <2>1, <2>2, <1>1
<1>4. ps \in Seq(DOMAIN low) /\ ps # <<>> /\ DOMAIN ps = 1..(ne - ns + 1)
  <2>1. \A i \in 1..(ne - ns + 1) : ns + i - 1 \in DOMAIN tt
    BY <1>3
  <2>2. \A i \in 1..(ne - ns + 1) : tt[ns + i - 1][1] \in DOMAIN low
    BY <2>1 DEF TableInv
  <2>3. ne - ns + 1 \in Nat /\ ne - ns + 1 >= 1
    BY <1>3
  <2> QED
    BY <2>2, <2>3
<1>5. ps[HomePage(k) - ns + 1] = tt[HomePage(k)][1] /\ HomePage(k) - ns + 1 \in DOMAIN ps
  <2>1. HomePage(k) - ns + 1 \in 1..(ne - ns + 1) /\ ns + (HomePage(k) - ns + 1) - 1 = HomePage(k)
    BY <1>3
  <2> QED
    BY <2>1
<1> HIDE DEF ps
<1>6. /\ ops' \in Seq(DOMAIN low) /\ Len(ops') = 0 /\ Len(ops') < BatchSize /\ Len(ops') <= BatchSize
      /\ pages' \in Seq(DOMAIN low) /\ pages' # <<>> /\ left' = Slot
      /\ \E b \in DOMAIN pages' : pages'[b] = tt[HomePage(k)][1]
  BY <1>1, <1>4, <1>5, LiveReadsAssumption
<1>8. hit' = hit /\ val' = val /\ cur' = cur /\ nxt' = nxt /\ seen' = seen /\ due' = due /\ incar' = incar /\ raced' = raced
  BY <1>1 DEF scan
<1>9. RType'
  BY <1>1, <1>2, <1>6, <1>8 DEF RInv, RType
<1>10. LookupInv'
  <2>1. \A p \in DOMAIN tt : IsHome(p, k) => p = HomePage(k)
    <3> SUFFICES ASSUME NEW p \in DOMAIN tt, IsHome(p, k) PROVE p = HomePage(k)
      OBVIOUS
    <3>1. HomePage(k) \in DOMAIN tt /\ IsHome(HomePage(k), k)
      BY <1>1, HomePageIsHome
    <3>2. p <= HomePage(k) /\ HomePage(k) <= p
      BY <3>1 DEF IsHome
    <3> QED
      BY <3>1, <3>2, <1>3
  <2>3. \A p \in DOMAIN tt : \A i \in Slot : IsHome(p, rkey)' => Awaited(tt[p][1], i)'
    <3> SUFFICES ASSUME NEW p \in DOMAIN tt, NEW i \in Slot, IsHome(p, rkey)' PROVE Awaited(tt[p][1], i)'
      OBVIOUS
    <3>1. p = HomePage(k)
      BY <1>1, <1>2, <2>1 DEF IsHome
    <3> QED
      BY <1>2, <1>6, <3>1 DEF Awaited
  <2>4. DOMAIN got' = {} /\ rpc' = "post"
    BY <1>1
  <2>5. (hasty \/ rkey \in done)'
    BY <1>1, <1>2, Zenon
  <2> QED
    BY <1>2, <2>3, <2>4, <2>5 DEF LookupInv
<1>11. OrderInv' /\ ScanInv'
  BY <1>1, <1>8, <1>9 DEF RInv, OrderInv, ScanInv
<1> QED
  BY <1>2, <1>9, <1>10, <1>11 DEF RInv

\* A read is put into the batch, which has room for it: a full batch is posted at once.
LEMMA EmplaceR ==
  ASSUME WInv, TableInv, RInv, Emplace
  PROVE  WInv' /\ TableInv' /\ RInv'
<1> USE DEF RInv
<1>1. /\ rpc = "post" /\ ops' = Append(ops, Head(pages)) /\ pages' = Tail(pages)
      /\ rpc' = IF Len(ops) + 1 = BatchSize \/ Len(pages) = 1 THEN "read" ELSE "post"
      /\ UNCHANGED <<tree, writer, tt, rkey, hit, val, hasty, got, left, scan>>
  BY DEF Emplace
<1>2. /\ WInv' /\ TableInv'
      /\ leaves' = leaves /\ low' = low /\ tt' = tt /\ done' = done
      /\ \A p : Same(p)' = Same(p)
      /\ \A p, x : IsHome(p, x)' = IsHome(p, x)
  BY <1>1, ReaderFrame
<1>3. /\ hit' = hit /\ val' = val /\ hasty' = hasty /\ got' = got /\ left' = left /\ rkey' = rkey
      /\ cur' = cur /\ nxt' = nxt
      /\ seen' = seen /\ due' = due /\ incar' = incar /\ raced' = raced
  BY <1>1 DEF scan
<1>4. /\ ops \in Seq(DOMAIN low) /\ pages \in Seq(DOMAIN low) /\ pages # <<>>
      /\ Len(ops) < BatchSize /\ left = Slot /\ Len(ops) \in Nat /\ Len(pages) \in Nat /\ Len(pages) >= 1
      /\ BatchSize \in Nat
  BY <1>1, LiveReadsAssumption DEF RType
<1>5. /\ pages[1] \in DOMAIN low /\ Head(pages) = pages[1]
      /\ pages' \in Seq(DOMAIN low) /\ Len(pages') = Len(pages) - 1
      /\ \A a \in 2..Len(pages) : pages'[a - 1] = pages[a] /\ a - 1 \in DOMAIN pages'
  BY <1>1, <1>4
<1>6. /\ ops' \in Seq(DOMAIN low) /\ Len(ops') = Len(ops) + 1 /\ ops' # <<>>
      /\ \A a \in 1..Len(ops) : ops'[a] = ops[a]
      /\ ops'[Len(ops) + 1] = pages[1] /\ Head(ops') = ops'[1]
  BY <1>1, <1>4, <1>5
<1>7. RType'
  <2>0. 0 \in Slot
    BY XNodeAssumption DEF Slot
  <2>1. Len(ops') <= BatchSize /\ left' # {}
    BY <1>3, <1>4, <1>6, <2>0
  <2>2. rpc' = "post" => pages' # <<>> /\ Len(ops') < BatchSize /\ left' = Slot
    <3> SUFFICES ASSUME rpc' = "post" PROVE pages' # <<>> /\ Len(ops') < BatchSize /\ left' = Slot
      OBVIOUS
    <3>1. Len(ops) + 1 # BatchSize /\ Len(pages) # 1
      BY <1>1
    <3> QED
      BY <3>1, <1>3, <1>4, <1>5, <1>6
  <2> QED
    BY <1>1, <1>2, <1>3, <1>5, <1>6, <2>1, <2>2 DEF RType
<1>8. ASSUME NEW x \in DOMAIN low, NEW i \in Slot, Awaited(x, i) PROVE Awaited(x, i)'
  <2>1. CASE ops # <<>> /\ x = Head(ops)
    <3>1. Len(ops) >= 1 /\ Head(ops) = ops[1]
      BY <1>4, <2>1
    <3>2. Head(ops') = x
      BY <1>4, <1>6, <2>1, <3>1
    <3> QED
      BY <1>3, <1>4, <1>6, <3>2 DEF Awaited
  <2>2. CASE \E a \in 2..Len(ops) : ops[a] = x
    BY <1>4, <1>6, <2>2 DEF Awaited
  <2>3. ASSUME NEW a \in DOMAIN pages, pages[a] = x PROVE Awaited(x, i)'
    <3>1. CASE a # 1
      <4>1. a \in 2..Len(pages)
        BY <1>4, <3>1
      <4> QED
        BY <1>5, <2>3, <4>1 DEF Awaited
    <3>2. CASE a = 1 /\ Len(ops) = 0
      BY <1>3, <1>4, <1>6, <2>3, <3>2 DEF Awaited
    <3>3. CASE a = 1 /\ Len(ops) # 0
      <4>1. Len(ops) + 1 \in 2..Len(ops')
        BY <1>4, <1>6, <3>3
      <4> QED
        BY <1>6, <2>3, <3>3, <4>1 DEF Awaited
    <3> QED
      BY <3>1, <3>2, <3>3
  <2> QED
    BY <1>8, <2>1, <2>2, <2>3 DEF Awaited
<1>9. LookupInv'
  <2>1. /\ hasty \/ rkey \in done
        /\ \A p \in DOMAIN tt : \A i \in Slot :
             Same(p) /\ tt[p][1] \in DOMAIN got /\ got[tt[p][1]][i] # kInvalidKey
               => leaves[tt[p][1]].keys[i] = got[tt[p][1]][i]
        /\ \A p \in DOMAIN tt : \A i \in Slot :
             ~hasty /\ IsHome(p, rkey) /\ Same(p) /\ leaves[tt[p][1]].keys[i] = rkey =>
               \/ tt[p][1] \in DOMAIN got /\ got[tt[p][1]][i] = rkey
               \/ Awaited(tt[p][1], i)
    BY <1>1 DEF LookupInv
  <2>2. rpc' \in {"post", "read"} /\ (hasty \/ rkey \in done)'
    BY <2>1, <1>1, <1>2, <1>3
  <2>3. \A p \in DOMAIN tt : tt[p][1] \in DOMAIN low
    BY DEF TableInv
  <2>4. \A p \in DOMAIN tt : \A i \in Slot : Awaited(tt[p][1], i) => Awaited(tt[p][1], i)'
    <3> SUFFICES ASSUME NEW p \in DOMAIN tt, NEW i \in Slot, Awaited(tt[p][1], i) PROVE Awaited(tt[p][1], i)'
      OBVIOUS
    <3>1. \A x \in DOMAIN low : x = tt[p][1] => Awaited(x, i) /\ x = tt'[p][1]
      BY <1>2
    <3>2. \A x \in DOMAIN low : x = tt[p][1] => Awaited(x, i)'
      BY <1>8, <3>1
    <3> QED
      BY <1>2, <2>3, <3>2 DEF Awaited
  <2>5. \A p \in DOMAIN tt : IsHome(p, rkey)' => IsHome(p, rkey)
    BY <1>2, <1>3 DEF IsHome
  <2> QED
    BY <1>2, <1>3, <2>1, <2>2, <2>4, <2>5 DEF LookupInv
<1>10. OrderInv' /\ ScanInv'
  BY <1>1, <1>3 DEF RType, OrderInv, ScanInv
<1> QED
  BY <1>2, <1>7, <1>9, <1>10

\* Copying one slot of a leaf.
LEMMA CopyFacts ==
  ASSUME WInv, RType, NEW n \in DOMAIN low, NEW i \in Slot
  PROVE  /\ DOMAIN Copy(n, i) = DOMAIN got \cup {n}
         /\ \A m \in DOMAIN got : m # n => Copy(n, i)[m] = got[m]
         /\ Copy(n, i)[n] = Copied(n, i)
         /\ Copied(n, i) \in [Slot -> Key \cup {kInvalidKey}]
         /\ Copied(n, i)[i] = leaves[n].keys[i]
         /\ \A j \in Slot : j # i => Copied(n, i)[j] = IF n \in DOMAIN got THEN got[n][j] ELSE kInvalidKey
<1>1. leaves[n].keys \in [Slot -> Key \cup {kInvalidKey}]
  BY LeafFields DEF WInv, WType
<1>2. n \in DOMAIN got => got[n] \in [Slot -> Key \cup {kInvalidKey}]
  BY DEF RType
<1>3. /\ Copied(n, i) \in [Slot -> Key \cup {kInvalidKey}]
      /\ Copied(n, i)[i] = leaves[n].keys[i]
      /\ \A j \in Slot : j # i => Copied(n, i)[j] = IF n \in DOMAIN got THEN got[n][j] ELSE kInvalidKey
  <2>1. CASE n \in DOMAIN got
    BY <1>1, <1>2, <2>1 DEF Copied
  <2>2. CASE n \notin DOMAIN got
    BY <1>1, <2>2 DEF Copied
  <2> QED
    BY <2>1, <2>2
<1> QED
  BY <1>3 DEF Copy

\* One slot is read; what is still awaited stays in the batch or the pages.
LEMMA ReadSlotR ==
  ASSUME WInv, TableInv, RInv, NEW i \in Slot, ReadSlot(i)
  PROVE  WInv' /\ TableInv' /\ RInv'
<1> USE DEF RInv
<1> DEFINE n == Head(ops)
<1>1. /\ rpc = "read" /\ i \in left /\ got' = Copy(n, i) /\ pages' = pages
      /\ UNCHANGED <<tree, writer, tt, rkey, hit, val, hasty, scan>>
  BY DEF ReadSlot
<1>2. /\ WInv' /\ TableInv'
      /\ leaves' = leaves /\ low' = low /\ tt' = tt /\ done' = done
      /\ \A p : Same(p)' = Same(p)
      /\ \A p, x : IsHome(p, x)' = IsHome(p, x)
  BY <1>1, ReaderFrame
<1>3. /\ hit' = hit /\ val' = val /\ hasty' = hasty /\ rkey' = rkey /\ cur' = cur /\ nxt' = nxt
      /\ seen' = seen /\ due' = due /\ incar' = incar /\ raced' = raced
  BY <1>1 DEF scan
<1>4. /\ ops \in Seq(DOMAIN low) /\ ops # <<>> /\ pages \in Seq(DOMAIN low) /\ Len(ops) <= BatchSize
      /\ n = ops[1] /\ n \in DOMAIN low /\ Len(ops) \in Nat /\ Len(ops) >= 1
  BY <1>1 DEF RType
<1> HIDE DEF n
<1>5. /\ DOMAIN got' = DOMAIN got \cup {n}
      /\ \A m \in DOMAIN got : m # n => got'[m] = got[m]
      /\ got'[n] \in [Slot -> Key \cup {kInvalidKey}]
      /\ got'[n][i] = leaves[n].keys[i]
      /\ \A j \in Slot : j # i => got'[n][j] = IF n \in DOMAIN got THEN got[n][j] ELSE kInvalidKey
  <2>1. /\ DOMAIN Copy(n, i) = DOMAIN got \cup {n}
        /\ \A m \in DOMAIN got : m # n => Copy(n, i)[m] = got[m]
        /\ Copy(n, i)[n] = Copied(n, i)
        /\ Copied(n, i) \in [Slot -> Key \cup {kInvalidKey}]
        /\ Copied(n, i)[i] = leaves[n].keys[i]
        /\ \A j \in Slot : j # i => Copied(n, i)[j] = IF n \in DOMAIN got THEN got[n][j] ELSE kInvalidKey
    BY <1>4, CopyFacts
  <2> QED
    BY <1>1, <2>1
<1>6. /\ rpc' \in {"post", "read", "search"}
      /\ ops' \in Seq(DOMAIN low) /\ Len(ops') <= BatchSize /\ pages' \in Seq(DOMAIN low)
      /\ left' \subseteq Slot
      /\ rpc' = "post" => pages' # <<>> /\ Len(ops') < BatchSize /\ left' = Slot
      /\ rpc' = "read" => ops' # <<>> /\ left' # {}
      /\ \A p \in DOMAIN tt : \A j \in Slot :
           Awaited(tt[p][1], j) =>
             \/ tt[p][1] = n /\ j = i
             \/ /\ rpc' \in {"post", "read"}
                /\ \/ ops' # <<>> /\ tt[p][1] = Head(ops') /\ j \in left'
                   \/ \E b \in 2..Len(ops') : ops'[b] = tt[p][1]
                   \/ \E b \in DOMAIN pages' : pages'[b] = tt[p][1]
  <2>1. CASE left # {i} /\ left' = left \ {i} /\ rpc' = rpc /\ ops' = ops
    BY <1>1, <1>4, <2>1 DEF RType, Awaited, n
  <2>2. CASE left = {i} /\ Len(ops) > 1 /\ left' = Slot /\ ops' = Tail(ops) /\ rpc' = rpc
    <3>1. /\ ops' \in Seq(DOMAIN low) /\ Len(ops') = Len(ops) - 1
          /\ \A a \in 2..Len(ops) : ops'[a - 1] = ops[a] /\ a - 1 \in 1..Len(ops')
      BY <1>4, <2>2
    <3>4. Len(ops') >= 1 /\ Len(ops') <= BatchSize
      BY <1>4, <2>2, <3>1, LiveReadsAssumption
    <3>2. ops' # <<>> /\ Head(ops') = ops'[1] /\ Len(ops') <= BatchSize
      BY <3>1, <3>4
    <3>3. ASSUME NEW p \in DOMAIN tt, NEW j \in Slot, Awaited(tt[p][1], j)
          PROVE  \/ tt[p][1] = n /\ j = i
                 \/ tt[p][1] = Head(ops') /\ j \in left'
                 \/ \E b \in 2..Len(ops') : ops'[b] = tt[p][1]
                 \/ \E b \in DOMAIN pages' : pages'[b] = tt[p][1]
      <4>1. CASE tt[p][1] = Head(ops) /\ j \in left
        BY <4>1, <2>2 DEF n
      <4>2. CASE \E b \in DOMAIN pages : pages[b] = tt[p][1]
        BY <4>2, <1>1
      <4>3. ASSUME NEW a \in 2..Len(ops), ops[a] = tt[p][1]
            PROVE  \/ tt[p][1] = Head(ops') /\ j \in left'
                   \/ \E b \in 2..Len(ops') : ops'[b] = tt[p][1]
        <5>1. ops'[a - 1] = tt[p][1] /\ a - 1 \in 1..Len(ops')
          BY <3>1, <4>3
        <5>2. CASE a = 2
          BY <5>1, <5>2, <3>2, <2>2
        <5>3. CASE a # 2
          <6>1. a - 1 \in 2..Len(ops')
            BY <5>3, <4>3, <3>1, <1>4
          <6> QED
            BY <5>1, <6>1
        <5> QED
          BY <5>2, <5>3
      <4> QED
        BY <3>3, <4>1, <4>2, <4>3 DEF Awaited
    <3> QED
      BY <1>1, <1>4, <2>2, <3>1, <3>2, <3>3, XNodeAssumption DEF Slot
  <2>3. CASE left = {i} /\ Len(ops) = 1 /\ pages # <<>> /\ left' = Slot /\ ops' = <<>> /\ rpc' = "post"
    <3>1. ASSUME NEW p \in DOMAIN tt, NEW j \in Slot, Awaited(tt[p][1], j)
          PROVE  (tt[p][1] = n /\ j = i) \/ \E a \in DOMAIN pages' : pages'[a] = tt[p][1]
      BY <3>1, <1>1, <2>3 DEF Awaited, n
    <3>2. ops' \in Seq(DOMAIN low) /\ Len(ops') = 0 /\ Len(ops') < BatchSize /\ Len(ops') <= BatchSize
      BY <2>3, LiveReadsAssumption
    <3> QED
      BY <1>1, <1>4, <2>3, <3>1, <3>2
  <2>4. CASE left = {i} /\ Len(ops) = 1 /\ pages = <<>> /\ left' = {} /\ ops' = <<>> /\ rpc' = "search"
    <3>1. ASSUME NEW p \in DOMAIN tt, NEW j \in Slot, Awaited(tt[p][1], j)
          PROVE  tt[p][1] = n /\ j = i
      BY <3>1, <2>4 DEF Awaited, n
    <3> QED
      BY <1>1, <1>4, <2>4, <3>1, LiveReadsAssumption
  <2> QED
    BY <2>1, <2>2, <2>3, <2>4 DEF ReadSlot
<1>7. \A m \in DOMAIN got' : m \in DOMAIN low /\ got'[m] \in [Slot -> Key \cup {kInvalidKey}]
  BY <1>4, <1>5 DEF RType
<1>8. RType'
  BY <1>1, <1>2, <1>3, <1>6, <1>7 DEF RType
<1>9. LookupInv'
  <2>1. /\ hasty \/ rkey \in done
        /\ \A p \in DOMAIN tt : \A j \in Slot :
             Same(p) /\ tt[p][1] \in DOMAIN got /\ got[tt[p][1]][j] # kInvalidKey
               => leaves[tt[p][1]].keys[j] = got[tt[p][1]][j]
        /\ \A p \in DOMAIN tt : \A j \in Slot :
             ~hasty /\ IsHome(p, rkey) /\ Same(p) /\ leaves[tt[p][1]].keys[j] = rkey =>
               \/ tt[p][1] \in DOMAIN got /\ got[tt[p][1]][j] = rkey
               \/ Awaited(tt[p][1], j)
    BY <1>1 DEF LookupInv
  <2>2. (hasty \/ rkey \in done)'
    BY <2>1, <1>2, <1>3
  <2>3. ASSUME NEW p \in DOMAIN tt, NEW j \in Slot,
               Same(p), tt[p][1] \in DOMAIN got', got'[tt[p][1]][j] # kInvalidKey
        PROVE  leaves[tt[p][1]].keys[j] = got'[tt[p][1]][j]
    <3>1. CASE tt[p][1] # n
      BY <2>1, <2>3, <3>1, <1>5
    <3>2. CASE tt[p][1] = n /\ j = i
      BY <3>2, <1>5
    <3>3. CASE tt[p][1] = n /\ j # i
      BY <2>1, <2>3, <3>3, <1>5
    <3> QED
      BY <3>1, <3>2, <3>3
  <2>4. ASSUME NEW p \in DOMAIN tt, NEW j \in Slot,
               ~hasty, IsHome(p, rkey), Same(p), leaves[tt[p][1]].keys[j] = rkey
        PROVE  \/ tt[p][1] \in DOMAIN got' /\ got'[tt[p][1]][j] = rkey
               \/ /\ rpc' \in {"post", "read"}
                  /\ \/ ops' # <<>> /\ tt[p][1] = Head(ops') /\ j \in left'
                     \/ \E b \in 2..Len(ops') : ops'[b] = tt[p][1]
                     \/ \E b \in DOMAIN pages' : pages'[b] = tt[p][1]
    <3>1. CASE tt[p][1] = n /\ j = i
      BY <2>4, <3>1, <1>5
    <3>2. CASE ~(tt[p][1] = n /\ j = i)
      <4>1. CASE tt[p][1] \in DOMAIN got /\ got[tt[p][1]][j] = rkey
        BY <3>2, <4>1, <1>5
      <4>2. CASE Awaited(tt[p][1], j)
        BY <3>2, <4>2, <1>6
      <4> QED
        BY <2>1, <2>4, <4>1, <4>2
    <3> QED
      BY <3>1, <3>2
  <2>5. \A p \in DOMAIN tt : IsHome(p, rkey)' => IsHome(p, rkey)
    BY <1>2, <1>3 DEF IsHome
  <2>6. \A p \in DOMAIN tt : \A j \in Slot :
          (\/ ops' # <<>> /\ tt[p][1] = Head(ops') /\ j \in left'
           \/ \E b \in 2..Len(ops') : ops'[b] = tt[p][1]
           \/ \E b \in DOMAIN pages' : pages'[b] = tt[p][1]) => Awaited(tt[p][1], j)'
    BY <1>2 DEF Awaited
  <2> QED
    BY <1>2, <1>3, <1>6, <2>2, <2>3, <2>4, <2>5, <2>6 DEF LookupInv
<1>10. OrderInv' /\ ScanInv'
  BY <1>1, <1>3, <1>6 DEF RType, OrderInv, ScanInv
<1> QED
  BY <1>2, <1>8, <1>9, <1>10

\* A key that is stored in a leaf that has not split is found on its page.
LEMMA SearchPagesR ==
  ASSUME WInv, TableInv, RInv, SearchPages
  PROVE  WInv' /\ TableInv' /\ RInv'
<1> USE DEF RInv
<1>1. /\ rpc = "search"
      /\ UNCHANGED <<tree, writer, tt, rkey, pages, ops, got, left, val, scan>>
  BY DEF SearchPages
<1>2. /\ WInv' /\ TableInv'
      /\ leaves' = leaves /\ low' = low /\ tt' = tt /\ done' = done
      /\ \A m : Changed(m)' = Changed(m)
  BY <1>1, ReaderFrame
<1>3. /\ pages' = pages /\ ops' = ops /\ got' = got /\ left' = left /\ val' = val /\ rkey' = rkey
      /\ cur' = cur /\ nxt' = nxt
      /\ seen' = seen /\ due' = due /\ incar' = incar /\ raced' = raced
  BY <1>1 DEF scan
<1>4. rkey \in Key /\ rkey # kInvalidKey /\ tt # <<>> /\ 0 \in Slot
  BY <1>1, XNodeAssumption DEF RType, Key, kInvalidKey, Slot
<1>5. CASE Hits # {} /\ rpc' = "value"
  <2> DEFINE p == First(Hits)
             n == tt[p][1]
             S == {i \in Slot : got[n][i] = rkey}
             j == First(S)
  <2>1. hasty' = (rkey \notin done) /\ hit' = <<n, j>>
    BY <1>5 DEF SearchPages
  <2>2. p \in Hits
    <3>1. Hits \in SUBSET Nat
      BY DEF Hits, TableInv
    <3> QED
      BY <3>1, <1>5, FirstIsLeast
  <2>3. p \in DOMAIN tt /\ n \in DOMAIN got /\ n \in DOMAIN low /\ S # {}
    BY <2>2 DEF Hits, TableInv
  <2>4. j \in S
    <3>1. S \in SUBSET Nat
      BY XNodeAssumption DEF Slot
    <3> QED
      BY <3>1, <2>3, FirstIsLeast
  <2>5. j \in Slot /\ got[n][j] = rkey
    BY <2>4
  <2> HIDE DEF j
  <2>6. RType'
    <3>1. hasty' \in BOOLEAN
      BY <2>1
    <3>2. hit' \in ({Null} \cup DOMAIN low) \X Slot /\ hit'[1] \in {tt[q][1] : q \in DOMAIN tt}
      BY <2>1, <2>3, <2>5
    <3> QED
      BY <1>1, <1>2, <1>3, <1>5, <3>1, <3>2 DEF RType
  <2>7. (hasty \/ rkey \in done)'
    BY <2>1, <1>2, <1>3, Zenon
  <2>8. Changed(n) \/ leaves[n].keys[j] = rkey
    <3>1. Same(p) => leaves[n].keys[j] = rkey
      BY <1>1, <1>4, <2>3, <2>5 DEF LookupInv
    <3>2. ~Same(p) => Changed(n)
      BY <2>3 DEF Same, Changed
    <3> QED
      BY <3>1, <3>2
  <2>9. (Changed(hit[1]) \/ leaves[hit[1]].keys[hit[2]] = rkey)'
    <3>1. hit'[1] = n /\ hit'[2] = j
      BY <2>1
    <3>2. Changed(n) => Changed(hit[1])'
      BY <3>1, <1>2 DEF Changed
    <3>3. leaves[n].keys[j] = rkey => leaves'[hit'[1]].keys[hit'[2]] = rkey'
      BY <3>1, <1>2, <1>3
    <3> QED
      BY <2>8, <3>2, <3>3
  <2>10. LookupInv'
    BY <1>2, <1>5, <2>7, <2>9 DEF LookupInv
  <2>11. OrderInv' /\ ScanInv'
    BY <1>1, <1>3, <1>5 DEF RType, OrderInv, ScanInv
  <2> QED
    BY <1>2, <2>6, <2>10, <2>11
<1>6. CASE Hits = {} /\ rpc' = "missed" /\ hasty' = hasty /\ hit' = <<tt[HomePage(rkey)][1], 0>>
  <2> DEFINE p == HomePage(rkey)
             n == tt[p][1]
  <2>1. p \in DOMAIN tt /\ IsHome(p, rkey) /\ n \in DOMAIN low
    BY <1>4, HomePageIsHome DEF TableInv
  <2>2. hasty \/ Changed(n)
    <3> SUFFICES ASSUME ~hasty, ~Changed(n) PROVE FALSE
      OBVIOUS
    <3>1. Same(p)
      BY DEF Same, Changed
    <3>2. Holds(n, rkey) /\ ~(Split /\ wnode = n)
      BY <1>4, <2>1, <3>1, HomeHolds
    <3>3. rkey \in done
      BY <1>1 DEF LookupInv
    <3>4. PICK i \in Slot : leaves[n].keys[i] = rkey
      BY <2>1, <3>2, <3>3 DEF WInv, PlaceInv, Has
    <3>5. n \in DOMAIN got /\ got[n][i] = rkey
      BY <1>1, <2>1, <3>1, <3>4 DEF LookupInv
    <3>6. p \in Hits
      BY <2>1, <3>5 DEF Hits
    <3> QED
      BY <1>6, <3>6
  <2>3. hit'[1] = n /\ hit'[2] = 0
    BY <1>6
  <2>4. RType'
    <3>1. hit' \in ({Null} \cup DOMAIN low) \X Slot /\ hit'[1] \in {tt[q][1] : q \in DOMAIN tt}
      BY <1>4, <1>6, <2>1
    <3> QED
      BY <1>1, <1>2, <1>3, <1>6, <3>1 DEF RType
  <2>5. Changed(n) => Changed(hit[1])'
    BY <2>3, <1>2 DEF Changed
  <2>6. LookupInv'
    BY <1>2, <1>6, <2>2, <2>5 DEF LookupInv
  <2>7. OrderInv' /\ ScanInv'
    BY <1>1, <1>3, <1>6 DEF RType, OrderInv, ScanInv
  <2> QED
    BY <1>2, <2>4, <2>6, <2>7
<1> QED
  BY <1>5, <1>6 DEF SearchPages

\* The slot of a stored key has the value of that key.
LEMMA ReadValueR ==
  ASSUME WInv, TableInv, RInv, ReadValue
  PROVE  WInv' /\ TableInv' /\ RInv'
<1> USE DEF RInv
<1>1. /\ rpc = "value" /\ rpc' = "found" /\ val' = leaves[hit[1]].vals[hit[2]]
      /\ UNCHANGED <<tree, writer, tt, rkey, pages, ops, hit, hasty, got, left, scan>>
  BY DEF ReadValue
<1>2. /\ WInv' /\ TableInv'
      /\ leaves' = leaves /\ low' = low /\ tt' = tt /\ done' = done
      /\ \A m : Changed(m)' = Changed(m)
  BY <1>1, ReaderFrame
<1>3. /\ pages' = pages /\ ops' = ops /\ got' = got /\ left' = left /\ rkey' = rkey
      /\ hit' = hit /\ hasty' = hasty /\ cur' = cur /\ nxt' = nxt
      /\ seen' = seen /\ due' = due /\ incar' = incar /\ raced' = raced
  BY <1>1 DEF scan
<1>4. /\ hit[1] \in DOMAIN low /\ hit[2] \in Slot /\ hit[1] \in LeafId
      /\ rkey \in Key /\ rkey # kInvalidKey
  <2>1. hit[1] \in {tt[p][1] : p \in DOMAIN tt} /\ hit[2] \in Slot /\ rkey \in Key
    BY <1>1 DEF RType
  <2>2. hit[1] \in DOMAIN low
    BY <2>1 DEF TableInv
  <2> QED
    <3>1. /\ leaves \in Seq(Leaf) /\ low \in Seq(Key)
          /\ Len(leaves) = Len(low) + (IF Split THEN 1 ELSE 0)
      BY DEF WInv, WType
    <3>2. DOMAIN low \subseteq 1..Len(leaves)
      BY <3>1
    <3>3. rkey # kInvalidKey
      BY <2>1, XNodeAssumption DEF Key, kInvalidKey
    <3> QED
      BY <2>1, <2>2, <3>2, <3>3 DEF LeafId
<1>5. val' \in Nat
  BY <1>1, <1>4, LeafFields DEF WInv, WType, LeafId
<1>6. RType'
  BY <1>1, <1>2, <1>3, <1>5 DEF RType
<1>7. Changed(hit[1])' = Changed(hit[1])
  BY <1>2, <1>3 DEF Changed
<1>8. /\ hasty \/ rkey \in done
      /\ Changed(hit[1]) \/ leaves[hit[1]].keys[hit[2]] = rkey
  BY <1>1 DEF LookupInv
<1>9. ASSUME leaves[hit[1]].keys[hit[2]] = rkey, rkey \in done
      PROVE  val' = ValOf(rkey)
  <2>1. \/ leaves[hit[1]].vals[hit[2]] = ValOf(rkey)
        \/ wpc \in {"value", "last"} /\ hit[1] = wnode /\ hit[2] = widx
    BY <1>4, <1>9 DEF WInv, LeafInv
  <2>2. ~(wpc \in {"value", "last"} /\ hit[1] = wnode /\ hit[2] = widx)
    BY <1>9 DEF WInv, WriterInv
  <2> QED
    BY <1>1, <2>1, <2>2
<1>10. ValOf(rkey)' = ValOf(rkey)
  BY <1>3 DEF ValOf
<1>11. LookupInv'
  <2>1. (hasty \/ rkey \in done)' /\ (Changed(hit[1]) \/ leaves[hit[1]].keys[hit[2]] = rkey)'
    BY <1>2, <1>3, <1>7, <1>8
  <2>2. val' # ValOf(rkey) => hasty \/ Changed(hit[1])
    BY <1>8, <1>9
  <2>3. (val # ValOf(rkey) => hasty \/ Changed(hit[1]))'
    BY <2>2, <1>3, <1>7, <1>10
  <2> QED
    BY <1>1, <2>1, <2>3 DEF LookupInv
<1>12. OrderInv' /\ ScanInv'
  BY <1>1, <1>3 DEF RType, OrderInv, ScanInv
<1> QED
  BY <1>2, <1>6, <1>11, <1>12

\* A lookup ends.
LEMMA LookupEndR ==
  ASSUME WInv, TableInv, RInv, LookupEnd
  PROVE  WInv' /\ TableInv' /\ RInv'
<1> USE DEF RInv
<1>1. /\ rpc \in {"found", "missed"} /\ rpc' = "idle" /\ rkey' = 0 /\ hit' = <<Null, 0>> /\ val' = 0
      /\ hasty' = FALSE /\ got' = <<>>
      /\ UNCHANGED <<tree, writer, tt, pages, ops, left, scan>>
  BY DEF LookupEnd, NoHit, NoVal
<1>2. WInv' /\ TableInv' /\ low' = low /\ tt' = tt /\ done' = done
  BY <1>1, ReaderFrame
<1>3. /\ pages' = pages /\ ops' = ops /\ left' = left /\ cur' = cur /\ nxt' = nxt
      /\ seen' = seen /\ due' = due /\ incar' = incar /\ raced' = raced
  BY <1>1 DEF scan
<1>4. 0 \in Key /\ 0 \in Slot /\ <<Null, 0>> \in ({Null} \cup DOMAIN low) \X Slot
  BY XNodeAssumption DEF Key, Slot
<1>7. hit' \in ({Null} \cup DOMAIN low') \X Slot /\ rkey' \in Key /\ hasty' \in BOOLEAN /\ val' \in Nat
  BY <1>1, <1>2, <1>4
<1>8. DOMAIN got' = {}
  BY <1>1
<1>5. RType'
  BY <1>1, <1>2, <1>3, <1>7, <1>8 DEF RType
<1>6. LookupInv' /\ OrderInv' /\ ScanInv'
  BY <1>1, <1>3 DEF RType, LookupInv, OrderInv, ScanInv
<1> QED
  BY <1>2, <1>5, <1>6

-----------------------------------------------------------------------------
(* The steps of an iterator. *)

\* An iterator begins at the leaf of the least keys.
LEMMA ScanBeginR ==
  ASSUME WInv, TableInv, RInv, ScanBegin
  PROVE  WInv' /\ TableInv' /\ RInv'
<1> USE DEF RInv
<1>1. /\ rpc = "idle" /\ tt # <<>> /\ cur' = 1 /\ due' = done /\ rpc' = "link"
      /\ UNCHANGED <<tree, writer, tt, lookup, got, left, nxt, seen, incar, raced>>
  BY DEF ScanBegin
<1>2. WInv' /\ TableInv' /\ low' = low /\ tt' = tt /\ done' = done
  BY <1>1, ReaderFrame
<1>3. /\ rkey' = rkey /\ pages' = pages /\ ops' = ops /\ hit' = hit /\ val' = val /\ hasty' = hasty
      /\ got' = got /\ left' = left /\ nxt' = nxt /\ seen' = seen /\ incar' = incar /\ raced' = raced
  BY <1>1 DEF lookup
<1>4. 1 \in DOMAIN low /\ low[1] = 0 /\ done \subseteq Key /\ \A k \in Key : ~(k < 0)
  BY XNodeAssumption DEF WInv, WType, LowInv, Key
<1>5. RType'
  BY <1>1, <1>2, <1>3, <1>4 DEF RType, Null
<1>6. seen = <<>> /\ got = <<>>
  BY <1>1 DEF RType
<1>7. LookupInv' /\ OrderInv'
  BY <1>1, <1>3, <1>6 DEF LookupInv, OrderInv
<1>8. ScanInv'
  BY <1>1, <1>2, <1>4 DEF ScanInv
<1> QED
  BY <1>2, <1>5, <1>7, <1>8

\* The link is loaded before the keys.
LEMMA LoadLinkR ==
  ASSUME WInv, TableInv, RInv, LoadLink
  PROVE  WInv' /\ TableInv' /\ RInv'
<1> USE DEF RInv
<1>1. /\ rpc = "link" /\ rpc' = "copy" /\ nxt' = leaves[cur].next /\ left' = Slot
      /\ incar' = leaves[cur].incarnation /\ raced' = (raced \/ Splitting(cur))
      /\ UNCHANGED <<tree, writer, tt, lookup, got, cur, seen, due>>
  BY DEF LoadLink
<1>2. /\ WInv' /\ TableInv' /\ leaves' = leaves /\ low' = low /\ tt' = tt /\ done' = done
      /\ Split' = Split /\ wnode' = wnode
  BY <1>1, ReaderFrame
<1>3. /\ rkey' = rkey /\ pages' = pages /\ ops' = ops /\ hit' = hit /\ val' = val /\ hasty' = hasty
      /\ got' = got /\ cur' = cur /\ seen' = seen /\ due' = due
  BY <1>1 DEF lookup
<1>4. cur \in DOMAIN low /\ got = <<>> /\ tt # <<>>
  BY <1>1 DEF RType
<1>5. leaves[cur].incarnation \in 0..(IncarMod - 1) /\ leaves[cur].incarnation \in Int
  BY <1>4, LeafFields DEF WInv, WType
<1>6. nxt' \in {Null} \cup DOMAIN low /\ (nxt' # Null => low[cur] < low[nxt'])
  BY <1>1, <1>4 DEF WInv, ChainInv
<1>7. raced' \in BOOLEAN /\ (raced' => raced \/ Splitting(cur)) /\ (~raced' => ~raced /\ ~Splitting(cur))
  BY <1>1 DEF RType, Splitting
<1>8. RType'
  BY <1>1, <1>2, <1>3, <1>4, <1>5, <1>6, <1>7 DEF RType
<1>9. LookupInv'
  BY <1>1 DEF LookupInv
<1>10. OrderInv'
  BY <1>1, <1>2, <1>3, <1>4, <1>6 DEF OrderInv
<1>11. PICK i \in Slot : leaves[cur].keys[i] # kInvalidKey
  <2>1. done # {}
    BY <1>4 DEF TableInv
  <2>2. PICK k \in Key : Has(cur, k)
    BY <1>4, <2>1 DEF WInv, FilledInv
  <2>3. k # kInvalidKey
    BY XNodeAssumption DEF Key, kInvalidKey
  <2> QED
    BY <2>2, <2>3 DEF Has
<1>12. \A j \in Slot : CopiedSlot(j)'
  BY <1>1 DEF CopiedSlot
<1>13. ScanInv'
  <2>1. ASSUME Len(leaves) <= IncarMod, ~raced' PROVE \A k \in due : k < low[cur] => \E j \in DOMAIN seen : seen[j] = k
    BY <1>1, <1>7, <2>1 DEF ScanInv
  <2>2. (incar <= leaves[cur].incarnation)'
    BY <1>1, <1>2, <1>3, <1>5
  <2>3. ~raced' => ~(Split' /\ wnode' = cur')
    BY <1>2, <1>3, <1>7 DEF Splitting, Split
  <2>4. leaves'[cur'].next = nxt'
    BY <1>1, <1>2, <1>3
  <2>5. Quiet' => ~raced'
    BY DEF Quiet
  <2>6. \E j \in Slot : leaves'[cur'].keys[j] # kInvalidKey /\ CopiedSlot(j)'
    BY <1>2, <1>3, <1>11, <1>12
  <2> QED
    BY <1>1, <1>2, <1>3, <1>12, <2>1, <2>2, <2>3, <2>4, <2>5, <2>6 DEF ScanInv
<1> QED
  BY <1>2, <1>8, <1>9, <1>10, <1>13

\* What an iterator has copied of a leaf after slot i lies between the low keys of the
\* leaf and of the one whose link was loaded; and it lost nothing, if it was not raced.
LEMMA CopiedKeys ==
  ASSUME WInv, RInv, rpc = "copy", NEW i \in left
  PROVE  /\ cur \in DOMAIN low /\ i \in Slot
         /\ DOMAIN Copy(cur, i) = {cur} /\ Copy(cur, i)[cur] = Copied(cur, i)
         /\ Copied(cur, i) \in [Slot -> Key \cup {kInvalidKey}]
         /\ \A j \in Slot : Copied(cur, i)[j] # kInvalidKey =>
              /\ low[cur] <= Copied(cur, i)[j]
              /\ nxt # Null => Copied(cur, i)[j] < low[nxt]
         /\ \A j \in Slot : CopiedSlot(j) =>
              (j \in left /\ j # i) \/ Copied(cur, i)[j] = leaves[cur].keys[j]
<1> USE DEF RInv
<1>1. cur \in DOMAIN low /\ i \in Slot
  BY DEF RType
<1>2. /\ DOMAIN Copy(cur, i) = DOMAIN got \cup {cur}
      /\ Copy(cur, i)[cur] = Copied(cur, i)
      /\ Copied(cur, i) \in [Slot -> Key \cup {kInvalidKey}]
      /\ Copied(cur, i)[i] = leaves[cur].keys[i]
      /\ \A j \in Slot : j # i => Copied(cur, i)[j] = IF cur \in DOMAIN got THEN got[cur][j] ELSE kInvalidKey
  BY <1>1, CopyFacts
<1>3. DOMAIN Copy(cur, i) = {cur}
  BY <1>2 DEF OrderInv
<1>4. ASSUME NEW j \in Slot, Copied(cur, i)[j] # kInvalidKey
      PROVE  /\ low[cur] <= Copied(cur, i)[j]
             /\ nxt # Null => Copied(cur, i)[j] < low[nxt]
  <2>1. CASE j # i
    BY <2>1, <1>2, <1>4 DEF OrderInv
  <2>2. CASE j = i
    <3>1. Holds(cur, leaves[cur].keys[i])
      <4>1. cur \in LeafId
        BY <1>1 DEF WInv, WType, LeafId
      <4> QED
        BY <4>1, <2>2, <1>1, <1>2, <1>4 DEF WInv, LeafInv
    <3>2. nxt # Null => nxt \in DOMAIN low /\ low[cur] < low[nxt]
      BY DEF RType, OrderInv
    <3>3. \A n \in DOMAIN low : low[n] \in Nat
      BY XNodeAssumption DEF WInv, WType, Key
    <3>4. nxt # Null => ~(low[nxt] <= low[cur])
      BY <3>2, <3>3, <1>1
    <3> QED
      BY <2>2, <1>2, <3>1, <3>2, <3>4 DEF Holds
  <2> QED
    BY <2>1, <2>2
<1>5. ASSUME NEW j \in Slot, CopiedSlot(j)
      PROVE  (j \in left /\ j # i) \/ Copied(cur, i)[j] = leaves[cur].keys[j]
  BY <1>2, <1>5 DEF CopiedSlot
<1> QED
  BY <1>1, <1>2, <1>3, <1>4, <1>5

\* A slot is copied; after the last one the sorted keys are returned.
LEMMA CopySlotR ==
  ASSUME WInv, TableInv, RInv, NEW i \in Slot, CopySlot(i)
  PROVE  WInv' /\ TableInv' /\ RInv'
<1> USE DEF RInv
<1> DEFINE C == Copied(cur, i)
           K == {C[j] : j \in Slot} \ {kInvalidKey}
           c == Cardinality(K)
           q == Ascending(K)
<1>1. /\ rpc = "copy" /\ i \in left
      /\ raced' = (raced \/ leaves[cur].incarnation # incar)
      /\ UNCHANGED <<tree, writer, tt, lookup, due, incar>>
  BY DEF CopySlot
<1>2. /\ WInv' /\ TableInv' /\ leaves' = leaves /\ low' = low /\ tt' = tt /\ done' = done
      /\ Split' = Split /\ wnode' = wnode
  BY <1>1, ReaderFrame
<1>3. /\ rkey' = rkey /\ pages' = pages /\ ops' = ops /\ hit' = hit /\ val' = val /\ hasty' = hasty
      /\ due' = due /\ incar' = incar
  BY <1>1 DEF lookup
<1>4. /\ cur \in DOMAIN low /\ DOMAIN Copy(cur, i) = {cur} /\ Copy(cur, i)[cur] = C
      /\ C \in [Slot -> Key \cup {kInvalidKey}]
      /\ \A j \in Slot : C[j] # kInvalidKey =>
           /\ low[cur] <= C[j]
           /\ nxt # Null => C[j] < low[nxt]
      /\ \A j \in Slot : CopiedSlot(j) => (j \in left /\ j # i) \/ C[j] = leaves[cur].keys[j]
  BY <1>1, CopiedKeys
<1>5. raced' \in BOOLEAN /\ (raced => raced') /\ (~raced' => ~raced /\ leaves[cur].incarnation = incar)
  BY <1>1 DEF RType
<1> HIDE DEF C
<1>6. CASE left # {i} /\ left' = left \ {i} /\ got' = Copy(cur, i) /\ rpc' = rpc /\ cur' = cur
           /\ nxt' = nxt /\ seen' = seen
  <2>1. RType'
    BY <1>1, <1>2, <1>3, <1>4, <1>5, <1>6 DEF RType
  <2>2. LookupInv'
    BY <1>1, <1>6 DEF LookupInv
  <2>3. OrderInv'
    BY <1>1, <1>2, <1>4, <1>6 DEF OrderInv
  <2>4. \A j \in Slot : CopiedSlot(j) => CopiedSlot(j)'
    BY <1>2, <1>4, <1>6 DEF CopiedSlot
  <2>5. Quiet' => Quiet
    BY <1>5 DEF Quiet
  <2>6. ScanInv'
    <3> SUFFICES ASSUME Len(leaves) <= IncarMod
                 PROVE  (/\ ~raced => \A k \in due : k < low[cur] => \E j \in DOMAIN seen : seen[j] = k
                         /\ incar <= leaves[cur].incarnation
                         /\ Quiet =>
                              /\ ~(Split /\ wnode = cur) /\ leaves[cur].next = nxt
                              /\ \A j \in Slot : leaves[cur].keys[j] \in due => CopiedSlot(j)
                              /\ \E j \in Slot : leaves[cur].keys[j] # kInvalidKey /\ CopiedSlot(j))'
      BY <1>1, <1>2, <1>6 DEF ScanInv
    <3>1. (~raced => \A k \in due : k < low[cur] => \E j \in DOMAIN seen : seen[j] = k)'
      BY <1>1, <1>2, <1>3, <1>5, <1>6 DEF ScanInv
    <3>2. (incar <= leaves[cur].incarnation)'
      BY <1>1, <1>2, <1>3, <1>6 DEF ScanInv
    <3>3. ASSUME Quiet'
          PROVE  (/\ ~(Split /\ wnode = cur) /\ leaves[cur].next = nxt
                  /\ \A j \in Slot : leaves[cur].keys[j] \in due => CopiedSlot(j)
                  /\ \E j \in Slot : leaves[cur].keys[j] # kInvalidKey /\ CopiedSlot(j))'
      <4>1. /\ ~(Split /\ wnode = cur) /\ leaves[cur].next = nxt
            /\ \A j \in Slot : leaves[cur].keys[j] \in due => CopiedSlot(j)
            /\ \E j \in Slot : leaves[cur].keys[j] # kInvalidKey /\ CopiedSlot(j)
        BY <1>1, <2>5, <3>3 DEF ScanInv
      <4> QED
        BY <1>2, <1>3, <1>6, <2>4, <4>1
    <3> QED
      BY <3>1, <3>2, <3>3
  <2> QED
    BY <1>2, <2>1, <2>2, <2>3, <2>6
<1>7. CASE /\ left = {i} /\ left' = {} /\ got' = <<>> /\ seen' = seen \o SortedKeys(cur, i)
           /\ cur' = nxt /\ nxt' = Null
           /\ rpc' = IF SortedKeys(cur, i) = <<>> THEN "lost" ELSE IF nxt = Null THEN "end" ELSE "link"
  <2>1. SortedKeys(cur, i) = q
    BY DEF SortedKeys, C
  <2>2. K \subseteq Key /\ K \in SUBSET (0..MaxKey) /\ MaxKey \in Nat
    BY <1>4, XNodeAssumption DEF Key
  <2>3. /\ \A k \in K : low[cur] <= k /\ (nxt # Null => k < low[nxt])
        /\ \A j \in Slot : C[j] # kInvalidKey => C[j] \in K
    BY <1>4
  <2> HIDE DEF K
  <2>4. /\ c \in Nat /\ q \in [1..c -> K] /\ Rising(q, c)
        /\ \A k \in K : \E j \in 1..c : q[j] = k
    BY <2>2, AscendingIsOrder
  <2> HIDE DEF c, q
  <2>5. q \in Seq(Key) /\ Len(q) = c /\ seen \in Seq(Key) /\ Len(seen) \in Nat
    <3>1. q \in [1..c -> Key]
      BY <2>2, <2>4
    <3>2. q \in Seq(Key) /\ Len(q) = c
      BY <2>4, <3>1
    <3> QED
      BY <3>2 DEF RType
  <2>6. /\ seen' \in Seq(Key) /\ DOMAIN seen' = 1..(Len(seen) + c)
        /\ \A j \in 1..Len(seen) : seen'[j] = seen[j]
        /\ \A j \in 1..c : seen'[Len(seen) + j] = q[j]
        /\ \A j \in 1..(Len(seen) + c) : j \in 1..Len(seen) \/ (j - Len(seen) \in 1..c /\ seen'[j] = q[j - Len(seen)])
    <3>1. seen' = seen \o q
      BY <1>7, <2>1
    <3>7. \A s, r \in Seq(Key) :
            /\ s \o r \in Seq(Key) /\ Len(s \o r) = Len(s) + Len(r)
            /\ \A j \in 1..(Len(s) + Len(r)) : (s \o r)[j] = IF j <= Len(s) THEN s[j] ELSE r[j - Len(s)]
      OBVIOUS
    <3>2. seen' \in Seq(Key) /\ Len(seen') = Len(seen) + c
      BY <3>1, <3>7, <2>5
    <3>3. \A j \in 1..(Len(seen) + c) : seen'[j] = IF j <= Len(seen) THEN seen[j] ELSE q[j - Len(seen)]
      BY <3>1, <3>7, <2>5
    <3>4. \A j \in 1..Len(seen) : seen'[j] = seen[j]
      BY <3>3, <2>4, <2>5
    <3>5. \A j \in 1..c : seen'[Len(seen) + j] = q[j]
      <4> SUFFICES ASSUME NEW j \in 1..c PROVE seen'[Len(seen) + j] = q[j]
        OBVIOUS
      <4>1. Len(seen) + j \in 1..(Len(seen) + c) /\ ~(Len(seen) + j <= Len(seen)) /\ (Len(seen) + j) - Len(seen) = j
        BY <2>4, <2>5
      <4> QED
        BY <3>3, <4>1
    <3>6. \A j \in 1..(Len(seen) + c) : j \in 1..Len(seen) \/ (j - Len(seen) \in 1..c /\ seen'[j] = q[j - Len(seen)])
      BY <3>3, <2>4, <2>5
    <3>8. seen' \in Seq(Key) /\ DOMAIN seen' = 1..(Len(seen) + c)
      BY <3>2
    <3> QED
      BY <3>4, <3>5, <3>6, <3>8, Zenon
  <2>7. \A j \in 1..c : low[cur] <= q[j] /\ q[j] \in Nat /\ (nxt # Null => q[j] < low[nxt])
    <3> SUFFICES ASSUME NEW j \in 1..c
                 PROVE  low[cur] <= q[j] /\ q[j] \in Nat /\ (nxt # Null => q[j] < low[nxt])
      OBVIOUS
    <3>1. q[j] \in K
      BY <2>4
    <3>2. q[j] \in 0..MaxKey
      BY <2>2, <3>1
    <3> QED
      BY <2>3, <3>1, <3>2
  <2>8. \A j \in 1..Len(seen) : seen[j] < low[cur] /\ seen[j] \in Nat
    <3>1. \A j \in 1..Len(seen) : seen[j] \in Key
      BY <2>5
    <3> QED
      BY <3>1, <1>1, <2>5, XNodeAssumption DEF OrderInv, Key
  <2>9. \A n \in DOMAIN low : low[n] \in Nat
    BY XNodeAssumption DEF WInv, WType, Key
  <2>10. nxt # Null => nxt \in DOMAIN low /\ low[cur] < low[nxt]
    BY <1>1 DEF RType, OrderInv
  <2>11. nxt \in {Null} \cup DOMAIN low
    BY DEF RType
  <2>12. rpc' \in {"lost", "end", "link"} /\ (rpc' = "link" => nxt # Null) /\ (rpc' = "end" => nxt = Null)
    BY <1>7
  <2>13. RType'
    <3>1. DOMAIN got' = {}
      BY <1>7
    <3> QED
      BY <1>1, <1>2, <1>3, <1>5, <1>7, <2>6, <2>11, <2>12, <3>1 DEF RType
  <2>14. LookupInv'
    BY <2>12 DEF LookupInv
  <2>15. \A a, b \in DOMAIN seen' : a < b => seen'[a] < seen'[b]
    <3> SUFFICES ASSUME NEW a \in 1..(Len(seen) + c), NEW b \in 1..(Len(seen) + c), a < b
                 PROVE  seen'[a] < seen'[b]
      BY <2>6
    <3>1. CASE a \in 1..Len(seen) /\ b \in 1..Len(seen)
      BY <3>1, <2>5, <2>6 DEF OrderInv
    <3>2. CASE a \in 1..Len(seen) /\ b \notin 1..Len(seen)
      <4>1. b - Len(seen) \in 1..c /\ seen'[b] = q[b - Len(seen)] /\ seen'[a] = seen[a]
        BY <3>2, <2>6
      <4>2. low[cur] <= q[b - Len(seen)] /\ q[b - Len(seen)] \in Nat /\ seen[a] < low[cur] /\ seen[a] \in Nat /\ low[cur] \in Nat
        BY <4>1, <3>2, <2>7, <2>8, <2>9, <1>4
      <4> QED
        BY <4>1, <4>2
    <3>3. CASE a \notin 1..Len(seen)
      <4>1. /\ b - Len(seen) \in 1..c /\ seen'[b] = q[b - Len(seen)]
            /\ a - Len(seen) \in 1..c /\ seen'[a] = q[a - Len(seen)]
            /\ a - Len(seen) < b - Len(seen)
        BY <3>3, <2>4, <2>5, <2>6
      <4> QED
        BY <4>1, <2>4 DEF Rising
    <3> QED
      BY <3>1, <3>2, <3>3
  <2>16. OrderInv'
    <3>1. ASSUME rpc' = "link", NEW a \in DOMAIN seen' PROVE seen'[a] < low'[cur']
      <4>1. nxt # Null /\ low'[cur'] = low[nxt]
        BY <1>2, <1>7, <2>12, <3>1
      <4>2. CASE a \in 1..Len(seen)
        <5>1. seen'[a] = seen[a] /\ seen[a] < low[cur] /\ seen[a] \in Nat
          BY <4>2, <2>6, <2>8
        <5> QED
          BY <4>1, <5>1, <2>9, <2>10, <1>4
      <4>3. CASE a \notin 1..Len(seen)
        <5>1. a - Len(seen) \in 1..c /\ seen'[a] = q[a - Len(seen)]
          BY <4>3, <2>6
        <5> QED
          BY <4>1, <5>1, <2>7
      <4> QED
        BY <4>2, <4>3
    <3> QED
      BY <2>12, <2>15, <3>1 DEF OrderInv
  <2>17. ASSUME Len(leaves) <= IncarMod, ~raced'
         PROVE  /\ ~(Split /\ wnode = cur) /\ leaves[cur].next = nxt
                /\ \A j \in Slot : leaves[cur].keys[j] \in due => C[j] = leaves[cur].keys[j]
                /\ \E j \in Slot : C[j] # kInvalidKey
    <3>1. /\ ~(Split /\ wnode = cur) /\ leaves[cur].next = nxt
          /\ \A j \in Slot : leaves[cur].keys[j] \in due => CopiedSlot(j)
          /\ \E j \in Slot : leaves[cur].keys[j] # kInvalidKey /\ CopiedSlot(j)
      BY <1>1, <1>5, <2>17 DEF ScanInv, Quiet
    <3>2. \A j \in Slot : CopiedSlot(j) => C[j] = leaves[cur].keys[j]
      BY <1>4, <1>7
    <3> QED
      BY <3>1, <3>2
  <2>18. ASSUME Len(leaves) <= IncarMod, ~raced', NEW k \in due, nxt # Null => k < low[nxt]
         PROVE  \E j \in DOMAIN seen' : seen'[j] = k
    <3>0. k \in done /\ k \in Key
      BY <2>18 DEF RType, WInv, WType
    <3>1. k \in done /\ k \in Key /\ k \in Nat /\ k # kInvalidKey
      BY <3>0, XNodeAssumption DEF Key, kInvalidKey
    <3>2. CASE k < low[cur]
      <4>1. PICK j \in DOMAIN seen : seen[j] = k
        BY <3>2, <2>18, <1>1, <1>5 DEF ScanInv
      <4>2. j \in 1..Len(seen) /\ j \in 1..(Len(seen) + c)
        BY <2>4, <2>5
      <4> QED
        BY <4>1, <4>2, <2>6
    <3>3. CASE low[cur] <= k
      <4>1. Holds(cur, k)
        <5>1. leaves[cur].next = nxt
          BY <2>17, <2>18
        <5>2. CASE nxt = Null
          BY <5>1, <5>2, <3>3, <1>4 DEF WInv, ChainInv, Holds
        <5>3. CASE nxt # Null
          <6>1. \A m \in DOMAIN low : low[m] <= low[cur] \/ low[nxt] <= low[m]
            BY <5>1, <5>3, <1>4 DEF WInv, ChainInv
          <6>2. \A m \in DOMAIN low : low[m] <= low[cur] \/ k < low[m]
            BY <6>1, <5>3, <3>1, <2>9, <2>10, <2>18
          <6> QED
            BY <6>2, <3>3 DEF Holds
        <5> QED
          BY <5>2, <5>3
      <4>2. PICK j \in Slot : leaves[cur].keys[j] = k
        BY <4>1, <3>1, <2>17, <2>18, <1>4 DEF WInv, PlaceInv, Has
      <4>3. k \in K
        BY <4>2, <3>1, <2>3, <2>17, <2>18
      <4>4. PICK b \in 1..c : q[b] = k
        BY <4>3, <2>4
      <4>5. Len(seen) + b \in 1..(Len(seen) + c) /\ seen'[Len(seen) + b] = k
        BY <4>4, <2>4, <2>5, <2>6
      <4> QED
        BY <4>5, <2>6
    <3> QED
      BY <3>1, <3>2, <3>3, <2>9, <1>4
  <2>19. ASSUME Len(leaves) <= IncarMod, ~raced' PROVE rpc' # "lost"
    <3>1. PICK k \in K : TRUE
      BY <2>3, <2>17, <2>19
    <3>2. c >= 1
      BY <2>4, <3>1
    <3>3. q # <<>>
      BY <2>5, <3>2
    <3> QED
      BY <1>7, <2>1, <3>3
  <2>20. ScanInv'
    <3>1. ASSUME Len(leaves') <= IncarMod, rpc' = "link", ~raced', NEW k \in due', k < low'[cur']
          PROVE  \E j \in DOMAIN seen' : seen'[j] = k
      BY <1>2, <1>3, <1>7, <2>18, <3>1
    <3>2. ASSUME Len(leaves') <= IncarMod, rpc' = "end", ~raced', NEW k \in due'
          PROVE  \E j \in DOMAIN seen' : seen'[j] = k
      BY <1>2, <1>3, <2>12, <2>18, <3>2
    <3>3. Len(leaves') <= IncarMod /\ rpc' = "lost" => raced'
      BY <1>2, <2>19
    <3> QED
      BY <2>12, <3>1, <3>2, <3>3 DEF ScanInv
  <2> QED
    BY <1>2, <2>13, <2>14, <2>16, <2>20
<1> QED
  BY <1>6, <1>7 DEF CopySlot

\* An iterator ends.
LEMMA ScanEndR ==
  ASSUME WInv, TableInv, RInv, ScanEnd
  PROVE  WInv' /\ TableInv' /\ RInv'
<1> USE DEF RInv
<1>1. /\ rpc = "end" /\ rpc' = "idle" /\ seen' = <<>> /\ due' = {} /\ incar' = 0 /\ raced' = FALSE
      /\ UNCHANGED <<tree, writer, tt, lookup, got, left, cur, nxt>>
  BY DEF ScanEnd
<1>2. WInv' /\ TableInv' /\ low' = low /\ tt' = tt /\ done' = done
  BY <1>1, ReaderFrame
<1>3. /\ rkey' = rkey /\ pages' = pages /\ ops' = ops /\ hit' = hit /\ val' = val /\ hasty' = hasty
      /\ got' = got /\ left' = left /\ cur' = cur /\ nxt' = nxt
  BY <1>1 DEF lookup
<1>4. incar' \in 0..(IncarMod - 1) /\ seen' \in Seq(Key) /\ DOMAIN seen' = {}
  BY <1>1, XNodeAssumption
<1>5. RType'
  BY <1>1, <1>2, <1>3, <1>4 DEF RType
<1>6. LookupInv' /\ OrderInv' /\ ScanInv'
  BY <1>1, <1>4 DEF LookupInv, OrderInv, ScanInv
<1> QED
  BY <1>2, <1>5, <1>6

-----------------------------------------------------------------------------
(* The stores of a split, and the split in one step. *)

\* Same keys, values and incarnation: all but the link.
Alike(a, b) == a.keys = b.keys /\ a.vals = b.vals /\ a.incarnation = b.incarnation

\* The slots of leaf f that leave it when it splits at its median m, in the order they
\* move: the median, then those of the larger keys.
Larger(f, m) == Above(f, f.keys[m])
MovesAt(f, m, i) == IF i = 0 THEN m ELSE Ascending(Larger(f, m))[i]
Moves(f, m) == Cardinality(Larger(f, m)) + 1

\* What is left in the leaf, and what is in the candidate, when all have moved.
Kept(f, m) == [Clear(f, {m} \cup Larger(f, m)) EXCEPT !.incarnation = (@ + 1) % IncarMod]
Taken(f, m) == MoveInto(Add(EmptyLeaf, f.keys[m], f.vals[m]), f, Larger(f, m))

\* The first j slots have moved and the others are still to move.
MovedSo(m, j) ==
  /\ Len(todo) = Moves(full, m) - j
  /\ \A i \in DOMAIN todo : todo[i] = MovesAt(full, m, j + i - 1)
  /\ \A s \in Slot :
       /\ leaves[Cand].keys[s] = IF s < j THEN full.keys[MovesAt(full, m, s)] ELSE kInvalidKey
       /\ leaves[Cand].vals[s] = IF s < j THEN full.vals[MovesAt(full, m, s)] ELSE NoVal
       /\ leaves[wnode].keys[s] = IF \E i \in 0..(j - 1) : MovesAt(full, m, i) = s THEN kInvalidKey
                                  ELSE full.keys[s]
  /\ leaves[wnode].vals = full.vals
  /\ leaves[wnode].incarnation = (full.incarnation + 1) % IncarMod
  /\ leaves[Cand].incarnation = 0

\* What the stores of a split have made of the leaf it began with.
StoresInv ==
  Split =>
    /\ Free(full) = {}
    /\ \E m \in MedianSlots(full) :
         /\ full.keys[m] = pivot
         /\ wpc \in {"move", "new"} => \E j \in 0..Moves(full, m) : MovedSo(m, j)
         /\ wpc = "last" =>
              /\ Alike(leaves[Cand], Taken(full, m)) /\ Free(Kept(full, m)) # {}
              /\ widx = First(Free(Kept(full, m)))
              /\ Alike(leaves[wnode], [Kept(full, m) EXCEPT !.keys = [@ EXCEPT ![widx] = wkey]])
         /\ wpc = "link" =>
              /\ Alike(leaves[wnode], IF wkey < pivot THEN Add(Kept(full, m), wkey, ValOf(wkey)) ELSE Kept(full, m))
              /\ Alike(leaves[Cand], IF wkey > pivot THEN Add(Taken(full, m), wkey, ValOf(wkey)) ELSE Taken(full, m))

\* The n-th smallest member of a set of slots is the n-th that Ascending lists.
LEMMA AscendingNth ==
  ASSUME NEW S \in SUBSET Slot, NEW i \in 1..Cardinality(S)
  PROVE  Nth(S, i - 1) = Ascending(S)[i]
<1> DEFINE n == Cardinality(S)
           q == Ascending(S)
<1>1. /\ n \in Nat /\ q \in [1..n -> S] /\ Rising(q, n)
      /\ \A x \in S : \E j \in 1..n : q[j] = x
  <2>1. N - 1 \in Nat /\ S \in SUBSET (0..(N - 1))
    BY XNodeAssumption DEF Slot
  <2> QED
    BY <2>1, AscendingIsOrder
<1> HIDE DEF q
<1>2. S \in SUBSET Nat
  BY XNodeAssumption DEF Slot
<1>3. \A j, k \in 1..n : q[j] \in Nat /\ (q[j] < q[k] <=> j < k)
  <2> SUFFICES ASSUME NEW j \in 1..n, NEW k \in 1..n PROVE q[j] \in Nat /\ (q[j] < q[k] <=> j < k)
    OBVIOUS
  <2>1. q[j] \in Nat /\ q[k] \in Nat
    BY <1>1, <1>2
  <2>2. (j < k => q[j] < q[k]) /\ (k < j => q[k] < q[j]) /\ (j < k \/ j = k \/ k < j)
    BY <1>1 DEF Rising
  <2> QED
    BY <2>1, <2>2
<1>4. ASSUME NEW j \in 1..n PROVE Cardinality({x \in S : x < q[j]}) = j - 1
  <2> DEFINE B == {x \in S : x < q[j]}
             f == [k \in 1..(j - 1) |-> q[k]]
  <2>0. n \in Nat /\ j \in 1..n
    BY <1>1
  <2> HIDE DEF n
  <2>1. f \in Bijection(1..(j - 1), B)
    <3>1. f \in [1..(j - 1) -> B]
      BY <1>1, <1>3, <2>0
    <3>2. \A k, p \in 1..(j - 1) : f[k] = f[p] => k = p
      <4> SUFFICES ASSUME NEW k \in 1..(j - 1), NEW p \in 1..(j - 1), q[k] = q[p] PROVE k = p
        OBVIOUS
      <4>1. k \in 1..n /\ p \in 1..n
        BY <2>0
      <4> QED
        BY <1>3, <4>1, <2>0
    <3>3. \A x \in B : \E k \in 1..(j - 1) : f[k] = x
      <4> SUFFICES ASSUME NEW x \in B PROVE \E k \in 1..(j - 1) : f[k] = x
        OBVIOUS
      <4>1. PICK k \in 1..n : q[k] = x
        BY <1>1
      <4>2. k < j
        BY <1>3, <4>1, <2>0
      <4> QED
        BY <4>1, <4>2, <2>0
    <3> QED
      BY <3>1, <3>2, <3>3 DEF Bijection, Injection, Surjection, IsInjective
  <2>2. IsFiniteSet(1..(j - 1)) /\ Cardinality(1..(j - 1)) = j - 1
    BY <2>0, FS_Interval
  <2> HIDE DEF f, B
  <2>3. Cardinality(B) = j - 1
    BY <2>1, <2>2, FS_Bijection DEF ExistsBijection
  <2> QED
    BY <2>3 DEF B
<1>5. q[i] \in S /\ Cardinality({x \in S : x < q[i]}) = i - 1
  BY <1>1, <1>4
<1>6. ASSUME NEW x \in S, Cardinality({y \in S : y < x}) = i - 1 PROVE x = q[i]
  <2>1. PICK j \in 1..n : q[j] = x
    BY <1>1
  <2>2. j - 1 = i - 1
    BY <1>4, <1>6, <2>1
  <2>3. j = i
    BY <1>1, <2>2
  <2> QED
    BY <2>1, <2>3
<1>7. Nth(S, i - 1) = q[i]
  BY <1>5, <1>6 DEF Nth
<1> QED
  BY <1>7 DEF q

\* Of the slots from 1 on, the one before slot i are i - 1.
LEMMA RankFrom ==
  ASSUME NEW i \in 1..(N - 1)
  PROVE  Rank(1..(N - 1), i) = i - 1
<1>1. N \in Nat
  BY XNodeAssumption
<1>2. {j \in 1..(N - 1) : j < i} = 1..(i - 1)
  BY <1>1
<1>3. Cardinality(1..(i - 1)) = i - 1
  BY FS_Interval
<1> QED
  BY <1>2, <1>3 DEF Rank

\* A leaf that is offered an entry is a leaf, with its incarnation.
LEMMA AddLeaf ==
  ASSUME NEW l \in Leaf, NEW k \in Key, NEW v \in Nat
  PROVE  Add(l, k, v) \in Leaf /\ Add(l, k, v).incarnation = l.incarnation
<1>1. CASE Free(l) = {}
  BY <1>1 DEF Add
<1>2. CASE Free(l) # {}
  <2>1. Add(l, k, v) \in Leaf
    BY <1>2, AddFills, Zenon
  <2>2. Add(l, k, v).incarnation = l.incarnation
    BY <1>2 DEF Add, Leaf
  <2> QED
    BY <2>1, <2>2
<1> QED
  BY <1>1, <1>2

\* A leaf takes the same entries where its keys and values are the same.
LEMMA AddAlike ==
  ASSUME NEW a \in Leaf, NEW b \in Leaf, NEW k, NEW v, Alike(a, b)
  PROVE  Alike(Add(a, k, v), Add(b, k, v))
<1>1. Free(a) = Free(b)
  BY DEF Free, Alike
<1>2. CASE Free(a) = {}
  BY <1>1, <1>2 DEF Add, Alike
<1>3. CASE Free(a) # {}
  <2> DEFINE i == First(Free(a))
  <2>1. Add(a, k, v) = [a EXCEPT !.keys = [@ EXCEPT ![i] = k], !.vals = [@ EXCEPT ![i] = v]]
    BY <1>3 DEF Add
  <2>2. Add(b, k, v) = [b EXCEPT !.keys = [@ EXCEPT ![i] = k], !.vals = [@ EXCEPT ![i] = v]]
    BY <1>1, <1>3 DEF Add
  <2> HIDE DEF i
  <2> QED
    BY <2>1, <2>2 DEF Alike, Leaf
<1> QED
  BY <1>2, <1>3

\* The facts about the leaf before its split, and the slots that leave it.
LEMMA MovesFacts ==
  ASSUME NEW f \in Leaf, Free(f) = {}, NEW m \in MedianSlots(f)
  PROVE  /\ m \in Slot /\ m \notin Larger(f, m) /\ f.keys[m] \in Key /\ f.keys[m] # kInvalidKey
         /\ Larger(f, m) \in SUBSET Slot
         /\ Cardinality(Larger(f, m)) \in 0..(N - 1)
         /\ Moves(f, m) = Cardinality(Larger(f, m)) + 1 /\ Moves(f, m) \in 1..N
         /\ \A i \in 0..(Moves(f, m) - 1) : MovesAt(f, m, i) \in Slot /\ MovesAt(f, m, i) \in {m} \cup Larger(f, m)
         /\ \A i, k \in 0..(Moves(f, m) - 1) : MovesAt(f, m, i) = MovesAt(f, m, k) => i = k
         /\ \A x \in {m} \cup Larger(f, m) : \E i \in 0..(Moves(f, m) - 1) : MovesAt(f, m, i) = x
         /\ \A i \in 1..(Moves(f, m) - 1) : MovesAt(f, m, i) = Ascending(Larger(f, m))[i]
<1> DEFINE n == Cardinality(Larger(f, m))
           q == Ascending(Larger(f, m))
<1>1. m \in Slot /\ Larger(f, m) \in SUBSET Slot
  BY DEF MedianSlots, Larger, Above, Used
<1>2. f.keys[m] \in Key /\ f.keys[m] # kInvalidKey /\ f.keys[m] \in Nat
  BY <1>1, LeafFields, XNodeAssumption DEF Free, Key, kInvalidKey
<1>3. m \notin Larger(f, m)
  BY <1>2 DEF Larger, Above
<1>4. N \in Nat /\ IsFiniteSet(Slot) /\ Cardinality(Slot) = N
  BY XNodeAssumption, FS_Interval DEF Slot
<1>5. n \in 0..(N - 1)
  <2>1. Larger(f, m) \in SUBSET (Slot \ {m})
    BY <1>1, <1>3
  <2>2. IsFiniteSet(Slot \ {m}) /\ Cardinality(Slot \ {m}) = N - 1
    BY <1>1, <1>4, FS_RemoveElement
  <2>3. IsFiniteSet(Larger(f, m)) /\ Cardinality(Larger(f, m)) <= Cardinality(Slot \ {m}) /\ Cardinality(Larger(f, m)) \in Nat
    BY <2>1, <2>2, FS_Subset, FS_CardinalityType
  <2> QED
    BY <1>4, <2>2, <2>3
<1>6. /\ n \in Nat /\ q \in [1..n -> Larger(f, m)] /\ Rising(q, n)
      /\ \A x \in Larger(f, m) : \E j \in 1..n : q[j] = x
  <2>1. N - 1 \in Nat /\ Larger(f, m) \in SUBSET (0..(N - 1))
    BY XNodeAssumption, <1>1 DEF Slot
  <2> QED
    BY <2>1, AscendingIsOrder
<1>7. Moves(f, m) = n + 1 /\ Moves(f, m) \in 1..N /\ 0..(Moves(f, m) - 1) = {0} \cup 1..n
  BY <1>4, <1>5 DEF Moves
<1>8. MovesAt(f, m, 0) = m /\ \A i \in 1..n : MovesAt(f, m, i) = q[i]
  BY <1>6 DEF MovesAt
<1> HIDE DEF q, n
<1>9. \A i, k \in 1..n : q[i] = q[k] => i = k
  <2> SUFFICES ASSUME NEW i \in 1..n, NEW k \in 1..n, q[i] = q[k] PROVE i = k
    OBVIOUS
  <2>0. q[i] \in Larger(f, m) /\ Slot \subseteq Nat
    BY <1>6, XNodeAssumption DEF Slot
  <2>1. q[i] \in Nat
    BY <1>1, <2>0
  <2>2. ~(i < k) /\ ~(k < i)
    BY <1>6, <2>1 DEF Rising
  <2> QED
    BY <1>6, <2>2
<1>10. \A i \in 1..n : q[i] \in Larger(f, m)
  BY <1>6
<1>11. \A i \in 0..(Moves(f, m) - 1) : MovesAt(f, m, i) \in Slot /\ MovesAt(f, m, i) \in {m} \cup Larger(f, m)
  BY <1>1, <1>7, <1>8, <1>10
<1>12. \A i, k \in 0..(Moves(f, m) - 1) : MovesAt(f, m, i) = MovesAt(f, m, k) => i = k
  <2> SUFFICES ASSUME NEW i \in 0..(Moves(f, m) - 1), NEW k \in 0..(Moves(f, m) - 1), MovesAt(f, m, i) = MovesAt(f, m, k)
               PROVE i = k
    OBVIOUS
  <2>1. (i = 0 \/ i \in 1..n) /\ (k = 0 \/ k \in 1..n)
    BY <1>7
  <2> QED
    BY <1>3, <1>8, <1>9, <1>10, <2>1
<1>13. \A x \in {m} \cup Larger(f, m) : \E i \in 0..(Moves(f, m) - 1) : MovesAt(f, m, i) = x
  BY <1>6, <1>7, <1>8
<1>14. \A i \in 1..(Moves(f, m) - 1) : MovesAt(f, m, i) = q[i]
  BY <1>6, <1>7, <1>8
<1> QED
  BY <1>1, <1>2, <1>3, <1>5, <1>7, <1>11, <1>12, <1>13, <1>14 DEF n, q

\* raw_insert into the empty candidate takes its slots in turn.
LEMMA TakenIs ==
  ASSUME NEW f \in Leaf, Free(f) = {}, NEW m \in MedianSlots(f)
  PROVE  /\ Taken(f, m) \in Leaf /\ Taken(f, m).incarnation = 0
         /\ \A s \in Slot :
              /\ Taken(f, m).keys[s] = IF s < Moves(f, m) THEN f.keys[MovesAt(f, m, s)] ELSE kInvalidKey
              /\ Taken(f, m).vals[s] = IF s < Moves(f, m) THEN f.vals[MovesAt(f, m, s)] ELSE NoVal
<1> DEFINE n == Cardinality(Larger(f, m))
           c == Add(EmptyLeaf, f.keys[m], f.vals[m])
           to(i) == i \in Free(c) /\ Rank(Free(c), i) < n
           from(i) == Nth(Larger(f, m), Rank(Free(c), i))
<1>1. /\ m \in Slot /\ m \notin Larger(f, m) /\ f.keys[m] \in Key /\ f.keys[m] # kInvalidKey
      /\ Larger(f, m) \in SUBSET Slot
      /\ n \in 0..(N - 1)
      /\ Moves(f, m) = n + 1 /\ Moves(f, m) \in 1..N
      /\ \A i \in 0..(Moves(f, m) - 1) : MovesAt(f, m, i) \in Slot
      /\ \A i \in 1..(Moves(f, m) - 1) : MovesAt(f, m, i) = Ascending(Larger(f, m))[i]
  BY MovesFacts
<1>2. f.vals[m] \in Nat /\ EmptyLeaf \in Leaf /\ N \in Nat /\ N >= 2
  BY <1>1, LeafFields, EmptyLeafType, XNodeAssumption
<1>3. Free(EmptyLeaf) = SlotsFrom(0) /\ 0 \in 0..(N - 1) /\ 0 + 1 = 1
  BY <1>2 DEF Free, EmptyLeaf, SlotsFrom, Slot
<1>4. Free(EmptyLeaf) # {} /\ First(Free(EmptyLeaf)) = 0 /\ Free(c) = 1..(N - 1)
  BY <1>1, <1>2, <1>3, CandTakes
<1>5. /\ c \in Leaf
      /\ c.keys = [EmptyLeaf.keys EXCEPT ![0] = f.keys[m]]
      /\ c.vals = [EmptyLeaf.vals EXCEPT ![0] = f.vals[m]]
      /\ c.incarnation = EmptyLeaf.incarnation
  BY <1>1, <1>2, <1>4, AddFills
<1>6. Taken(f, m) = [c EXCEPT !.keys = [i \in Slot |-> IF to(i) THEN f.keys[from(i)] ELSE @[i]],
                           !.vals = [i \in Slot |-> IF to(i) THEN f.vals[from(i)] ELSE @[i]]]
  BY DEF Taken, MoveInto
<1> HIDE DEF c
<1>7. \A s \in Slot : to(s) <=> s # 0 /\ s < Moves(f, m)
  <2> SUFFICES ASSUME NEW s \in Slot PROVE to(s) <=> s # 0 /\ s < Moves(f, m)
    OBVIOUS
  <2>1. s = 0 \/ (s \in 1..(N - 1) /\ Rank(Free(c), s) = s - 1)
    BY <1>2, <1>4, RankFrom DEF Slot
  <2> QED
    BY <1>1, <1>2, <1>4, <2>1
<1>8. \A s \in Slot : to(s) => from(s) = MovesAt(f, m, s) /\ from(s) \in Slot
  <2> SUFFICES ASSUME NEW s \in Slot, to(s) PROVE from(s) = MovesAt(f, m, s) /\ from(s) \in Slot
    OBVIOUS
  <2>1. s \in 1..(N - 1) /\ s \in 1..n /\ s \in 0..(Moves(f, m) - 1) /\ s \in 1..(Moves(f, m) - 1)
    BY <1>1, <1>2, <1>7 DEF Slot
  <2>2. from(s) = Nth(Larger(f, m), s - 1)
    BY <1>4, <2>1, RankFrom
  <2>3. Nth(Larger(f, m), s - 1) = Ascending(Larger(f, m))[s]
    BY <1>1, <2>1, AscendingNth
  <2> QED
    BY <1>1, <2>1, <2>2, <2>3
<1> HIDE DEF to, from
<1> DEFINE ks == [i \in Slot |-> IF to(i) THEN f.keys[from(i)] ELSE c.keys[i]]
           vs == [i \in Slot |-> IF to(i) THEN f.vals[from(i)] ELSE c.vals[i]]
<1>9. ks \in [Slot -> Key \cup {kInvalidKey}] /\ vs \in [Slot -> Nat]
  <2>1. \A i \in Slot : /\ to(i) => f.keys[from(i)] \in Key \cup {kInvalidKey} /\ f.vals[from(i)] \in Nat
                        /\ c.keys[i] \in Key \cup {kInvalidKey} /\ c.vals[i] \in Nat
    BY <1>5, <1>8, LeafFields
  <2> QED
    BY <2>1
<1>10. Taken(f, m) = [c EXCEPT !.keys = ks, !.vals = vs]
  BY <1>6
<1>11. \A s \in Slot : /\ ks[s] = IF s < Moves(f, m) THEN f.keys[MovesAt(f, m, s)] ELSE kInvalidKey
                       /\ vs[s] = IF s < Moves(f, m) THEN f.vals[MovesAt(f, m, s)] ELSE NoVal
  <2> SUFFICES ASSUME NEW s \in Slot
               PROVE  /\ ks[s] = IF s < Moves(f, m) THEN f.keys[MovesAt(f, m, s)] ELSE kInvalidKey
                      /\ vs[s] = IF s < Moves(f, m) THEN f.vals[MovesAt(f, m, s)] ELSE NoVal
    OBVIOUS
  <2>1. CASE s = 0
    <3>1. c.keys[0] = f.keys[m] /\ c.vals[0] = f.vals[m] /\ MovesAt(f, m, 0) = m /\ 0 \in Slot
      BY <1>2, <1>5, LeafFields, <2>1 DEF MovesAt
    <3>2. ~to(s) /\ s < Moves(f, m)
      BY <1>1, <1>7, <2>1
    <3> QED
      BY <2>1, <3>1, <3>2
  <2>2. CASE s # 0 /\ s < Moves(f, m)
    BY <1>7, <1>8, <2>2
  <2>3. CASE s # 0 /\ ~(s < Moves(f, m))
    <3>1. c.keys[s] = kInvalidKey /\ c.vals[s] = NoVal
      BY <1>5, <2>3 DEF EmptyLeaf
    <3> QED
      BY <1>7, <2>3, <3>1
  <2> QED
    BY <2>1, <2>2, <2>3
<1> HIDE DEF ks, vs
<1>12. Taken(f, m) \in Leaf /\ Taken(f, m).keys = ks /\ Taken(f, m).vals = vs /\ Taken(f, m).incarnation = c.incarnation
  BY <1>5, <1>9, <1>10 DEF Leaf
<1> QED
  BY <1>5, <1>11, <1>12 DEF EmptyLeaf

\* Counting the split keeps a leaf a leaf.
LEMMA KeptIs ==
  ASSUME NEW f \in Leaf, NEW m
  PROVE  LET c == Clear(f, {m} \cup Larger(f, m)) IN
         /\ c \in Leaf /\ Kept(f, m) \in Leaf /\ Kept(f, m).keys = c.keys /\ Kept(f, m).vals = c.vals
         /\ Kept(f, m).vals = f.vals /\ Kept(f, m).incarnation = (f.incarnation + 1) % IncarMod
<1> DEFINE c == Clear(f, {m} \cup Larger(f, m))
<1>1. c \in Leaf /\ c.vals = f.vals /\ c.incarnation = f.incarnation
  BY ClearEmpties
<1>2. Kept(f, m) = [c EXCEPT !.incarnation = (@ + 1) % IncarMod]
  BY DEF Kept
<1>3. (f.incarnation + 1) % IncarMod \in 0..(IncarMod - 1)
  <2>1. f.incarnation \in Nat
    BY LeafFields, XNodeAssumption
  <2> QED
    BY <2>1, XNodeAssumption
<1> QED
  BY <1>1, <1>2, <1>3 DEF Leaf

\* Once all have moved, the two leaves are what the split in one step makes of them.
LEMMA AllMoved ==
  ASSUME full \in Leaf, Free(full) = {}, NEW m \in MedianSlots(full), full.keys[m] = pivot,
         leaves[Cand] \in Leaf, leaves[wnode] \in Leaf, todo = <<>>,
         NEW j \in 0..Moves(full, m), MovedSo(m, j)
  PROVE  /\ Alike(leaves[Cand], Taken(full, m)) /\ Taken(full, m) \in Leaf
         /\ Alike(leaves[wnode], Kept(full, m)) /\ Kept(full, m) \in Leaf
<1> DEFINE gone == {m} \cup Larger(full, m)
<1>1. /\ Moves(full, m) \in 1..N
      /\ \A i \in 0..(Moves(full, m) - 1) : MovesAt(full, m, i) \in gone
      /\ \A x \in gone : \E i \in 0..(Moves(full, m) - 1) : MovesAt(full, m, i) = x
  BY MovesFacts
<1>2. /\ Taken(full, m) \in Leaf /\ Taken(full, m).incarnation = 0
      /\ \A s \in Slot :
           /\ Taken(full, m).keys[s] = IF s < Moves(full, m) THEN full.keys[MovesAt(full, m, s)] ELSE kInvalidKey
           /\ Taken(full, m).vals[s] = IF s < Moves(full, m) THEN full.vals[MovesAt(full, m, s)] ELSE NoVal
  BY TakenIs
<1>3. j = Moves(full, m)
  BY <1>1 DEF MovedSo
<1>4. /\ \A s \in Slot :
           /\ leaves[Cand].keys[s] = IF s < Moves(full, m) THEN full.keys[MovesAt(full, m, s)] ELSE kInvalidKey
           /\ leaves[Cand].vals[s] = IF s < Moves(full, m) THEN full.vals[MovesAt(full, m, s)] ELSE NoVal
           /\ leaves[wnode].keys[s] = IF s \in gone THEN kInvalidKey ELSE full.keys[s]
      /\ leaves[wnode].vals = full.vals
      /\ leaves[wnode].incarnation = (full.incarnation + 1) % IncarMod
      /\ leaves[Cand].incarnation = 0
  BY <1>1, <1>3 DEF MovedSo
<1> HIDE DEF gone
<1>5. Alike(leaves[Cand], Taken(full, m))
  <2>1. /\ leaves[Cand].keys \in [Slot -> Key \cup {kInvalidKey}] /\ leaves[Cand].vals \in [Slot -> Nat]
        /\ Taken(full, m).keys \in [Slot -> Key \cup {kInvalidKey}] /\ Taken(full, m).vals \in [Slot -> Nat]
    BY <1>2, LeafFields
  <2>2. \A s \in Slot : leaves[Cand].keys[s] = Taken(full, m).keys[s]
    BY <1>2, <1>4
  <2>3. \A s \in Slot : leaves[Cand].vals[s] = Taken(full, m).vals[s]
    BY <1>2, <1>4
  <2> QED
    BY <1>2, <1>4, <2>1, <2>2, <2>3 DEF Alike
<1>6. Kept(full, m) \in Leaf /\ Alike(leaves[wnode], Kept(full, m))
  <2>1. /\ Clear(full, gone) \in Leaf
        /\ \A i \in Slot : Clear(full, gone).keys[i] = IF i \in gone THEN kInvalidKey ELSE full.keys[i]
        /\ Clear(full, gone).vals = full.vals
        /\ Clear(full, gone).incarnation = full.incarnation
    BY ClearEmpties
  <2>2. /\ Kept(full, m) \in Leaf /\ Kept(full, m).keys = Clear(full, gone).keys
        /\ Kept(full, m).vals = full.vals /\ Kept(full, m).incarnation = (full.incarnation + 1) % IncarMod
    BY KeptIs DEF gone
  <2>3. /\ leaves[wnode].keys \in [Slot -> Key \cup {kInvalidKey}]
        /\ Kept(full, m).keys \in [Slot -> Key \cup {kInvalidKey}]
    BY <2>2, LeafFields
  <2>4. \A s \in Slot : leaves[wnode].keys[s] = Kept(full, m).keys[s]
    BY <1>4, <2>1, <2>2
  <2> QED
    BY <1>4, <2>2, <2>3, <2>4 DEF Alike
<1> QED
  BY <1>2, <1>5, <1>6

\* The stores of a split, one step each.
LEMMA SplitBeginS ==
  ASSUME WInv, WInv', SplitBegin
  PROVE  StoresInv'
<1>0. WType /\ WriterInv /\ SplitInv /\ WType'
  BY DEF WInv
<1> DEFINE l == leaves[wnode]
<1>1. /\ wpc = "add" /\ Free(l) = {} /\ wpc' = "move" /\ full' = l /\ wnode' = wnode /\ low' = low
      /\ leaves' = Append([leaves EXCEPT ![wnode].incarnation = (@ + 1) % IncarMod], EmptyLeaf)
  BY DEF SplitBegin
<1>2. PICK m \in MedianSlots(l) : /\ pivot' = l.keys[m]
                                  /\ todo' = <<m>> \o Ascending(Above(l, l.keys[m]))
  BY DEF SplitBegin
<1>3. /\ wnode \in LeafId /\ l \in Leaf /\ leaves \in Seq(Leaf)
  BY <1>0, <1>1, WriterLeaf DEF WType
<1>4. /\ Len(leaves') = Len(leaves) + 1 /\ Cand' = Len(leaves) + 1 /\ Cand' # wnode'
      /\ leaves'[Cand'] = EmptyLeaf
      /\ leaves'[wnode'] = [l EXCEPT !.incarnation = (@ + 1) % IncarMod]
  <2>1. [leaves EXCEPT ![wnode].incarnation = (@ + 1) % IncarMod] \in Seq(Leaf)
        /\ Len([leaves EXCEPT ![wnode].incarnation = (@ + 1) % IncarMod]) = Len(leaves)
    <3>1. [l EXCEPT !.incarnation = (@ + 1) % IncarMod] \in Leaf
      <4>1. l.incarnation \in Nat /\ (l.incarnation + 1) % IncarMod \in 0..(IncarMod - 1)
        BY <1>3, LeafFields, XNodeAssumption
      <4> QED
        BY <1>3, <4>1 DEF Leaf
    <3> QED
      BY <1>3, <3>1 DEF LeafId
  <2> QED
    BY <1>1, <1>3, <2>1, EmptyLeafType DEF LeafId, Cand
<1>5. /\ leaves'[wnode'].keys = l.keys /\ leaves'[wnode'].vals = l.vals
      /\ leaves'[wnode'].incarnation = (l.incarnation + 1) % IncarMod
  BY <1>3, <1>4 DEF Leaf
<1>6. /\ full' \in Leaf /\ Free(full') = {} /\ m \in MedianSlots(full') /\ full'.keys[m] = pivot'
  BY <1>1, <1>2, <1>3
<1> HIDE DEF l
<1>7. /\ m \in Slot /\ Larger(l, m) \in SUBSET Slot /\ Cardinality(Larger(l, m)) \in 0..(N - 1)
      /\ Moves(l, m) = Cardinality(Larger(l, m)) + 1 /\ Moves(l, m) \in 1..N
      /\ \A i \in 1..(Moves(l, m) - 1) : MovesAt(l, m, i) = Ascending(Larger(l, m))[i]
  BY <1>1, <1>2, <1>3, MovesFacts
<1>8. Ascending(Larger(l, m)) \in [1..Cardinality(Larger(l, m)) -> Larger(l, m)]
  <2>1. N - 1 \in Nat /\ Larger(l, m) \in SUBSET (0..(N - 1))
    BY <1>7, XNodeAssumption DEF Slot
  <2> QED
    BY <2>1, AscendingIsOrder
<1>9. todo' = <<m>> \o Ascending(Larger(l, m))
  BY <1>1, <1>2 DEF Larger
<1>10. Len(todo') = Moves(l, m) /\ \A i \in DOMAIN todo' : todo'[i] = MovesAt(l, m, i - 1)
  <2> DEFINE q == Ascending(Larger(l, m)) n == Cardinality(Larger(l, m))
  <2>1. q \in [1..n -> Slot] /\ n \in Nat
    BY <1>7, <1>8
  <2>2. q \in Seq(Slot) /\ Len(q) = n
    BY <2>1
  <2> HIDE DEF q
  <2>3. /\ Len(<<m>> \o q) = n + 1 /\ DOMAIN (<<m>> \o q) = 1..(n + 1)
        /\ \A i \in 1..(n + 1) : (<<m>> \o q)[i] = IF i = 1 THEN m ELSE q[i - 1]
    BY <1>7, <2>1, <2>2
  <2>4. todo' = <<m>> \o q
    BY <1>9 DEF q
  <2>5. \A i \in 1..(n + 1) : i = 1 \/ i - 1 \in 1..(Moves(l, m) - 1)
    BY <1>7, <2>1
  <2>6. MovesAt(l, m, 1 - 1) = m
    BY DEF MovesAt
  <2>7. \A i \in 1..(n + 1) : i # 1 => MovesAt(l, m, i - 1) = q[i - 1]
    BY <1>7, <2>5 DEF q
  <2> QED
    BY <1>7, <2>1, <2>3, <2>4, <2>6, <2>7
<1>11. MovedSo(m, 0)' /\ 0 \in 0..Moves(l, m)
  <2>1. Len(todo') = Moves(l, m) - 0 /\ 0..(0 - 1) = {} /\ 0 \in 0..Moves(l, m)
    BY <1>7, <1>10
  <2>2. \A i \in DOMAIN todo' : todo'[i] = MovesAt(l, m, 0 + i - 1)
    <3>1. \A i \in DOMAIN todo' : 0 + i - 1 = i - 1
      <4>1. \A i \in DOMAIN todo' : i \in Nat
        BY <1>0 DEF WType
      <4> QED
        BY <4>1
    <3> QED
      BY <1>10, <3>1
  <2>3. \A s \in Slot : ~(s < 0)
    BY XNodeAssumption DEF Slot
  <2>4. /\ \A s \in Slot : leaves'[Cand'].keys[s] = kInvalidKey /\ leaves'[Cand'].vals[s] = NoVal
        /\ leaves'[Cand'].incarnation = 0
    BY <1>4 DEF EmptyLeaf
  <2>6. \A s \in Slot : leaves'[wnode'].keys[s] = full'.keys[s]
    BY <1>1, <1>5
  <2>5. leaves'[wnode'].vals = full'.vals /\ leaves'[wnode'].incarnation = (full'.incarnation + 1) % IncarMod
    BY <1>1, <1>5
  <2> QED
    BY <1>1, <2>1, <2>2, <2>3, <2>4, <2>5, <2>6 DEF MovedSo
<1> QED
  BY <1>1, <1>6, <1>11 DEF StoresInv

\* The candidate stays the last leaf.
LEMMA SameCand ==
  ASSUME WType, WType', Split, Split', low' = low
  PROVE  /\ Cand' = Cand /\ DOMAIN leaves = LeafId
         /\ \A n \in DOMAIN low : n \in LeafId
BY DEF WType, Cand, LeafId

LEMMA MoveKeyS ==
  ASSUME WInv, WInv', StoresInv, MoveKey
  PROVE  StoresInv'
<1>0. WType /\ WriterInv /\ SplitInv /\ WType'
  BY DEF WInv
<1> DEFINE i == Head(todo)
           l == leaves[wnode]
           k == l.keys[i]
           v == l.vals[i]
           c2 == Add(leaves[Cand], k, v)
           l2 == Clear(l, {i})
<1>1. /\ wpc = "move" /\ todo # <<>>
      /\ leaves' = [leaves EXCEPT ![Cand] = c2, ![wnode] = l2]
      /\ todo' = Tail(todo)
      /\ wpc' \in {"move", "new"}
      /\ wnode' = wnode /\ pivot' = pivot /\ full' = full
  BY DEF MoveKey
<1>2. Split /\ Split' /\ full \in Leaf
  BY <1>0, <1>1 DEF Split, WType
<1>3. /\ Cand \in LeafId /\ Cand # wnode /\ leaves[Cand] \in Leaf
      /\ wnode \in DOMAIN low /\ l \in Leaf /\ wnode \in LeafId
  BY <1>0, <1>2, SplitFacts
<1>4. i \in Slot /\ i = todo[1] /\ 1 \in DOMAIN todo /\ Len(todo) \in Nat /\ Len(todo) >= 1
      /\ Len(todo') = Len(todo) - 1 /\ \A a \in DOMAIN todo' : a + 1 \in DOMAIN todo /\ todo'[a] = todo[a + 1]
  BY <1>0, <1>1 DEF WType
<1>5. PICK m \in MedianSlots(full) :
        full.keys[m] = pivot /\ \E j \in 0..Moves(full, m) : MovedSo(m, j)
  <2>1. wpc \in {"move", "new"}
    BY <1>1
  <2> QED
    BY <1>2, <2>1 DEF StoresInv
<1>17. PICK j \in 0..Moves(full, m) : MovedSo(m, j)
  BY <1>5
<1>6. Free(full) = {}
  BY <1>2 DEF StoresInv
<1>7. /\ Moves(full, m) \in 1..N
      /\ \A a \in 0..(Moves(full, m) - 1) : MovesAt(full, m, a) \in Slot
      /\ \A a, b \in 0..(Moves(full, m) - 1) : MovesAt(full, m, a) = MovesAt(full, m, b) => a = b
  BY <1>2, <1>5, <1>6, MovesFacts
<1>8. /\ Len(todo) = Moves(full, m) - j
      /\ \A a \in DOMAIN todo : todo[a] = MovesAt(full, m, j + a - 1)
      /\ \A s \in Slot :
           /\ leaves[Cand].keys[s] = IF s < j THEN full.keys[MovesAt(full, m, s)] ELSE kInvalidKey
           /\ leaves[Cand].vals[s] = IF s < j THEN full.vals[MovesAt(full, m, s)] ELSE NoVal
           /\ l.keys[s] = IF \E a \in 0..(j - 1) : MovesAt(full, m, a) = s THEN kInvalidKey ELSE full.keys[s]
      /\ l.vals = full.vals
      /\ l.incarnation = (full.incarnation + 1) % IncarMod
      /\ leaves[Cand].incarnation = 0
  BY <1>17 DEF MovedSo
<1>9. j \in 0..(Moves(full, m) - 1) /\ j \in 0..(N - 1) /\ Len(todo') = Moves(full, m) - (j + 1) /\ i = MovesAt(full, m, j)
  <2>1. j \in 0..(Moves(full, m) - 1) /\ j \in 0..(N - 1) /\ Len(todo') = Moves(full, m) - (j + 1)
    BY <1>4, <1>7, <1>8, XNodeAssumption
  <2>2. todo[1] = MovesAt(full, m, j + 1 - 1)
    BY <1>4, <1>8
  <2>3. j + 1 - 1 = j
    BY <2>1
  <2> QED
    BY <1>4, <2>1, <2>2, <2>3
<1> HIDE DEF i
<1>10. k = full.keys[i] /\ v = full.vals[i] /\ k \in Key /\ v \in Nat
  <2>1. ~\E a \in 0..(j - 1) : MovesAt(full, m, a) = i
    <3> SUFFICES ASSUME NEW a \in 0..(j - 1), MovesAt(full, m, a) = i PROVE FALSE
      OBVIOUS
    <3>1. a \in 0..(Moves(full, m) - 1) /\ a # j
      BY <1>7, <1>9
    <3> QED
      BY <1>7, <1>9, <3>1
  <2>2. full.keys[i] # kInvalidKey /\ full.keys[i] \in Key \cup {kInvalidKey} /\ full.vals[i] \in Nat
    BY <1>2, <1>4, <1>6, LeafFields DEF Free
  <2> QED
    BY <1>4, <1>8, <2>1, <2>2
<1>11. Free(leaves[Cand]) = SlotsFrom(j)
  <2>1. \A s \in Slot : leaves[Cand].keys[s] = kInvalidKey <=> ~(s < j)
    <3> SUFFICES ASSUME NEW s \in Slot PROVE leaves[Cand].keys[s] = kInvalidKey <=> ~(s < j)
      OBVIOUS
    <3>1. s < j => full.keys[MovesAt(full, m, s)] # kInvalidKey
      <4>1. s < j => s \in 0..(Moves(full, m) - 1)
        BY <1>7, <1>9, XNodeAssumption DEF Slot
      <4> QED
        BY <1>6, <1>7, <4>1 DEF Free
    <3> QED
      BY <1>8, <3>1
  <2>2. \A s : s \in Slot /\ ~(s < j) <=> s \in SlotsFrom(j)
    BY <1>9, XNodeAssumption DEF Slot, SlotsFrom
  <2> QED
    BY <2>1, <2>2 DEF Free
<1> HIDE DEF k, v
<1>12. j \in Slot /\ Free(leaves[Cand]) # {} /\ First(Free(leaves[Cand])) = j
  BY <1>3, <1>9, <1>10, <1>11, CandTakes
<1>13. /\ c2 \in Leaf
       /\ c2.keys = [leaves[Cand].keys EXCEPT ![j] = k]
       /\ c2.vals = [leaves[Cand].vals EXCEPT ![j] = v]
       /\ c2.incarnation = leaves[Cand].incarnation
  BY <1>3, <1>10, <1>12, AddFills
<1>14. /\ l2 \in Leaf
       /\ \A s \in Slot : l2.keys[s] = IF s \in {i} THEN kInvalidKey ELSE l.keys[s]
       /\ l2.vals = l.vals /\ l2.incarnation = l.incarnation
  BY <1>3, ClearEmpties
<1> HIDE DEF c2, l2
<1>15. Cand' = Cand /\ leaves'[Cand'] = c2 /\ leaves'[wnode'] = l2
  <2>1. Cand' = Cand /\ DOMAIN leaves = LeafId
    BY <1>0, <1>2, SameCand DEF MoveKey
  <2> QED
    BY <1>1, <1>3, <2>1
<1>16. MovedSo(m, j + 1)' /\ j + 1 \in 0..Moves(full, m)
  <2>1. Len(todo') = Moves(full, m) - (j + 1) /\ j + 1 \in 0..Moves(full, m)
    BY <1>7, <1>9
  <2>2. \A a \in DOMAIN todo' : todo'[a] = MovesAt(full, m, (j + 1) + a - 1)
    <3> SUFFICES ASSUME NEW a \in DOMAIN todo' PROVE todo'[a] = MovesAt(full, m, (j + 1) + a - 1)
      OBVIOUS
    <3>1. a \in Nat
      BY <1>0 DEF WType
    <3>2. todo'[a] = todo[a + 1] /\ todo[a + 1] = MovesAt(full, m, j + (a + 1) - 1)
      BY <1>4, <1>8
    <3>3. j + (a + 1) - 1 = (j + 1) + a - 1
      BY <1>9, <3>1
    <3> QED
      BY <3>2, <3>3
  <2>3. ASSUME NEW s \in Slot
        PROVE  /\ c2.keys[s] = IF s < j + 1 THEN full.keys[MovesAt(full, m, s)] ELSE kInvalidKey
               /\ c2.vals[s] = IF s < j + 1 THEN full.vals[MovesAt(full, m, s)] ELSE NoVal
    <3>1. s \in Nat /\ j \in Nat
      BY <1>9, XNodeAssumption DEF Slot
    <3>2. CASE s = j
      <4>1. c2.keys[s] = k /\ c2.vals[s] = v
        BY <1>3, <1>12, <1>13, <3>2, LeafFields
      <4> QED
        BY <1>9, <1>10, <3>1, <3>2, <4>1
    <3>3. CASE s # j
      <4>1. c2.keys[s] = leaves[Cand].keys[s] /\ c2.vals[s] = leaves[Cand].vals[s]
        BY <1>13, <3>3
      <4>2. s < j + 1 <=> s < j
        BY <3>1, <3>3
      <4> QED
        BY <1>8, <4>1, <4>2
    <3> QED
      BY <3>2, <3>3
  <2>4. ASSUME NEW s \in Slot
        PROVE  l2.keys[s] = IF \E a \in 0..((j + 1) - 1) : MovesAt(full, m, a) = s THEN kInvalidKey ELSE full.keys[s]
    <3>1. 0..((j + 1) - 1) = 0..(j - 1) \cup {j}
      BY <1>9
    <3>2. CASE s = i
      BY <1>9, <1>14, <3>1, <3>2
    <3>3. CASE s # i
      <4>1. (\E a \in 0..((j + 1) - 1) : MovesAt(full, m, a) = s) <=> (\E a \in 0..(j - 1) : MovesAt(full, m, a) = s)
        BY <1>9, <3>1, <3>3
      <4> QED
        BY <1>8, <1>14, <3>3, <4>1
    <3> QED
      BY <3>2, <3>3
  <2>5. /\ leaves'[wnode'].vals = full.vals
        /\ leaves'[wnode'].incarnation = (full.incarnation + 1) % IncarMod
        /\ leaves'[Cand'].incarnation = 0
    BY <1>8, <1>13, <1>14, <1>15
  <2>6. full' = full
    BY <1>1
  <2> QED
    BY <1>15, <2>1, <2>2, <2>3, <2>4, <2>5, <2>6 DEF MovedSo
<1> QED
  BY <1>1, <1>5, <1>6, <1>16 DEF StoresInv

\* The steps after the moves: the new key is added to one of the two leaves.
LEMMA AddKeyS ==
  ASSUME WInv, WInv', StoresInv, AddKey
  PROVE  StoresInv'
<1>0. WType /\ WriterInv /\ SplitInv /\ WType'
  BY DEF WInv
<1> DEFINE i == First(Free(leaves[wnode]))
<1>1. /\ wpc \in {"add", "new"} /\ Free(leaves[wnode]) # {}
      /\ leaves' = [leaves EXCEPT ![wnode].keys[i] = wkey]
      /\ widx' = i
      /\ wpc' = IF wpc = "add" THEN "value" ELSE "last"
      /\ wkey' = wkey /\ wnode' = wnode /\ pivot' = pivot /\ full' = full
  BY DEF AddKey
<1>2. CASE wpc = "add"
  BY <1>1, <1>2 DEF StoresInv, Split
<1>3. CASE wpc = "new"
  <2>1. Split /\ wpc \in {"move", "new"} /\ todo = <<>>
    BY <1>0, <1>3 DEF Split, SplitInv
  <2>2. /\ Cand \in LeafId /\ Cand # wnode /\ leaves[Cand] \in Leaf
        /\ wnode \in LeafId /\ leaves[wnode] \in Leaf /\ full \in Leaf
    BY <1>0, <2>1, SplitFacts DEF WType
  <2>3. PICK m \in MedianSlots(full) :
          full.keys[m] = pivot /\ \E j \in 0..Moves(full, m) : MovedSo(m, j)
    BY <2>1 DEF StoresInv
  <2>4. Free(full) = {}
    BY <2>1 DEF StoresInv
  <2>5. /\ Alike(leaves[Cand], Taken(full, m)) /\ Alike(leaves[wnode], Kept(full, m))
        /\ Kept(full, m) \in Leaf
    BY <2>1, <2>2, <2>3, <2>4, AllMoved
  <2>6. Free(leaves[wnode]) = Free(Kept(full, m))
    BY <2>5 DEF Free, Alike
  <2>7. /\ Cand' = Cand /\ leaves'[Cand'] = leaves[Cand]
        /\ leaves'[wnode] = [leaves[wnode] EXCEPT !.keys = [@ EXCEPT ![i] = wkey]]
    <3>1. Split' /\ low' = low
      BY <1>1, <1>3 DEF Split, AddKey
    <3>2. Cand' = Cand /\ DOMAIN leaves = LeafId
      BY <1>0, <2>1, <3>1, SameCand
    <3> QED
      BY <1>1, <2>2, <3>2
  <2> HIDE DEF i
  <2>8. Alike(leaves'[wnode], [Kept(full, m) EXCEPT !.keys = [@ EXCEPT ![i] = wkey]])
    BY <2>2, <2>5, <2>7 DEF Alike, Leaf
  <2>9. wpc' = "last" /\ widx' = First(Free(Kept(full, m))) /\ Free(Kept(full, m)) # {}
    BY <1>1, <1>3, <2>6 DEF i
  <2> QED
    BY <1>1, <2>3, <2>4, <2>5, <2>7, <2>8, <2>9 DEF StoresInv
<1> QED
  BY <1>1, <1>2, <1>3

LEMMA ValueUpdateS ==
  ASSUME WInv, WInv', StoresInv, ValueUpdate
  PROVE  StoresInv'
<1>0. WType /\ WriterInv /\ SplitInv /\ WType'
  BY DEF WInv
<1>1. /\ wpc \in {"value", "last"}
      /\ leaves' = [leaves EXCEPT ![wnode].vals[widx] = ValOf(wkey)]
      /\ wpc' = IF wpc = "value" THEN "idle" ELSE "link"
      /\ wkey' = wkey /\ wnode' = wnode /\ pivot' = pivot /\ full' = full
  BY DEF ValueUpdate
<1>2. CASE wpc = "value"
  BY <1>1, <1>2 DEF StoresInv, Split
<1>3. CASE wpc = "last"
  <2>1. Split
    BY <1>3 DEF Split
  <2>2. /\ Cand \in LeafId /\ Cand # wnode /\ leaves[Cand] \in Leaf
        /\ wnode \in LeafId /\ leaves[wnode] \in Leaf /\ full \in Leaf
        /\ pivot \in Nat /\ wkey \in Nat /\ wkey < pivot
    BY <1>0, <1>3, <2>1, SplitFacts, WriterLeaf DEF WType, WriterInv
  <2>3. PICK m \in MedianSlots(full) :
          /\ full.keys[m] = pivot
          /\ Alike(leaves[Cand], Taken(full, m)) /\ Free(Kept(full, m)) # {}
          /\ widx = First(Free(Kept(full, m)))
          /\ Alike(leaves[wnode], [Kept(full, m) EXCEPT !.keys = [@ EXCEPT ![widx] = wkey]])
    BY <1>3, <2>1 DEF StoresInv
  <2>4. Free(full) = {}
    BY <2>1 DEF StoresInv
  <2>5. /\ Cand' = Cand /\ leaves'[Cand'] = leaves[Cand]
        /\ leaves'[wnode] = [leaves[wnode] EXCEPT !.vals = [@ EXCEPT ![widx] = ValOf(wkey)]]
    <3>1. Split' /\ low' = low
      BY <1>1, <1>3 DEF Split, ValueUpdate
    <3>2. Cand' = Cand /\ DOMAIN leaves = LeafId
      BY <1>0, <2>1, <3>1, SameCand
    <3> QED
      BY <1>1, <2>2, <3>2
  <2>6. Kept(full, m) \in Leaf
    BY <2>2, KeptIs
  <2>7. Add(Kept(full, m), wkey, ValOf(wkey)) =
          [Kept(full, m) EXCEPT !.keys = [@ EXCEPT ![widx] = wkey], !.vals = [@ EXCEPT ![widx] = ValOf(wkey)]]
    BY <2>3 DEF Add
  <2>8. Alike(leaves'[wnode], Add(Kept(full, m), wkey, ValOf(wkey)))
    BY <2>2, <2>3, <2>5, <2>6, <2>7 DEF Alike, Leaf
  <2>9. wpc' = "link" /\ wkey < pivot /\ ~(wkey > pivot)
    BY <1>1, <1>3, <2>2
  <2> QED
    BY <1>1, <2>3, <2>4, <2>5, <2>8, <2>9 DEF StoresInv
<1> QED
  BY <1>1, <1>2, <1>3

LEMMA NewKeyRightS ==
  ASSUME WInv, WInv', StoresInv, NewKeyRight
  PROVE  StoresInv'
<1>0. WType /\ WriterInv /\ SplitInv /\ WType'
  BY DEF WInv
<1>1. /\ wpc = "new" /\ wkey > pivot
      /\ leaves' = [leaves EXCEPT ![Cand] = Add(@, wkey, ValOf(wkey))]
      /\ wpc' = "link"
      /\ wkey' = wkey /\ wnode' = wnode /\ pivot' = pivot /\ full' = full
  BY DEF NewKeyRight
<1>2. Split /\ wpc \in {"move", "new"} /\ todo = <<>>
  BY <1>0, <1>1 DEF Split, SplitInv
<1>3. /\ Cand \in LeafId /\ Cand # wnode /\ leaves[Cand] \in Leaf
      /\ wnode \in LeafId /\ leaves[wnode] \in Leaf /\ full \in Leaf
      /\ pivot \in Nat /\ wkey \in Nat
  BY <1>0, <1>1, <1>2, SplitFacts, WriterLeaf DEF WType
<1>4. PICK m \in MedianSlots(full) :
        full.keys[m] = pivot /\ \E j \in 0..Moves(full, m) : MovedSo(m, j)
  BY <1>2 DEF StoresInv
<1>5. Free(full) = {}
  BY <1>2 DEF StoresInv
<1>6. /\ Alike(leaves[Cand], Taken(full, m)) /\ Alike(leaves[wnode], Kept(full, m))
      /\ Taken(full, m) \in Leaf
  BY <1>2, <1>3, <1>4, <1>5, AllMoved
<1>7. /\ Cand' = Cand /\ leaves'[wnode] = leaves[wnode]
      /\ leaves'[Cand'] = Add(leaves[Cand], wkey, ValOf(wkey))
  <2>1. Split' /\ low' = low
    BY <1>1 DEF Split, NewKeyRight
  <2>2. Cand' = Cand /\ DOMAIN leaves = LeafId
    BY <1>0, <1>2, <2>1, SameCand
  <2> QED
    BY <1>1, <1>3, <2>2
<1>8. Alike(leaves'[Cand'], Add(Taken(full, m), wkey, ValOf(wkey)))
  BY <1>3, <1>6, <1>7, AddAlike
<1>9. wkey > pivot /\ ~(wkey < pivot)
  BY <1>1, <1>3
<1> QED
  BY <1>1, <1>4, <1>5, <1>6, <1>7, <1>8, <1>9 DEF StoresInv

\* A step that begins or ends an insertion, or that changes nothing of it.
LEMMA OtherS ==
  ASSUME StoresInv, (\E k \in Key : InsertBegin(k)) \/ Link \/ UNCHANGED <<leaves, low, writer>>
  PROVE  StoresInv'
<1>1. CASE \E k \in Key : InsertBegin(k)
  BY <1>1 DEF InsertBegin, StoresInv, Split
<1>2. CASE Link
  BY <1>2 DEF Link, StoresInv, Split
<1>3. CASE UNCHANGED <<leaves, low, writer>>
  <2>1. /\ leaves' = leaves /\ wpc' = wpc /\ wkey' = wkey /\ wnode' = wnode /\ widx' = widx
        /\ pivot' = pivot /\ todo' = todo /\ full' = full /\ Cand' = Cand
    BY <1>3 DEF writer, Cand
  <2>2. \A m, j : MovedSo(m, j)' <=> MovedSo(m, j)
    BY <2>1 DEF MovedSo
  <2> QED
    BY <2>1, <2>2 DEF StoresInv, Split
<1> QED
  BY <1>1, <1>2, <1>3

-----------------------------------------------------------------------------
(* The theorems. *)

Inv == WInv /\ TableInv /\ CountInv /\ RInv

\* The invariant holds at the start.
LEMMA InitInv == Init => Inv
<1> SUFFICES ASSUME Init PROVE Inv
  OBVIOUS
<1>1. WInv
  BY InitW
<1>2. TableInv /\ CountInv
  BY DEF Init, TableInv, CountInv
<1>3. 0 \in Key /\ 0 \in Slot /\ 0 \in 0..(IncarMod - 1)
  BY XNodeAssumption DEF Key, Slot
<1>4. RType
  <2>1. /\ ops = <<>> /\ pages = <<>> /\ seen = <<>> /\ got = <<>> /\ Len(ops) = 0 /\ DOMAIN got = {}
        /\ hit = <<Null, 0>> /\ cur = Null /\ nxt = Null /\ due = {} /\ left = {} /\ rkey = 0
        /\ incar = 0 /\ raced = FALSE /\ hasty = FALSE /\ val = 0 /\ rpc = "idle"
    BY DEF Init, NoHit, NoVal
  <2>2. ops \in Seq(DOMAIN low) /\ pages \in Seq(DOMAIN low) /\ seen \in Seq(Key)
    BY <2>1
  <2>3. Len(ops) <= BatchSize
    BY <2>1, LiveReadsAssumption
  <2>4. hit \in ({Null} \cup DOMAIN low) \X Slot
    BY <1>3, <2>1
  <2> QED
    BY <1>3, <2>1, <2>2, <2>3, <2>4 DEF RType
<1>5. LookupInv /\ OrderInv /\ ScanInv
  BY DEF Init, LookupInv, OrderInv, ScanInv
<1> QED
  BY <1>1, <1>2, <1>4, <1>5 DEF Inv, RInv

\* A reader counts nothing.
LEMMA SameCount ==
  ASSUME CountInv, UNCHANGED <<leaves, splits, tt>>
  PROVE  CountInv'
BY DEF CountInv

\* Every step preserves it.
LEMMA NextInv == Inv /\ [Next]_vars => Inv'
<1> SUFFICES ASSUME Inv, [Next]_vars PROVE Inv'
  OBVIOUS
<1> USE DEF Inv
<1>1. CASE WriterNext
  BY <1>1, WriterR
<1>2. CASE Train
  BY <1>2, TrainR
<1>3. CASE LookupNext
  <2>1. CountInv'
    BY <1>3, SameCount DEF LookupNext, LookupBegin, Emplace, ReadSlot, SearchPages, ReadValue, LookupEnd, tree
  <2> QED
    BY <1>3, <2>1, LookupBeginR, EmplaceR, ReadSlotR, SearchPagesR, ReadValueR, LookupEndR DEF LookupNext
<1>4. CASE ScanNext
  <2>1. CountInv'
    BY <1>4, SameCount DEF ScanNext, ScanBegin, LoadLink, CopySlot, ScanEnd, tree
  <2> QED
    BY <1>4, <2>1, ScanBeginR, LoadLinkR, CopySlotR, ScanEndR DEF ScanNext
<1>5. CASE UNCHANGED vars
  <2>1. /\ UNCHANGED <<tree, writer, tt>>
        /\ rpc' = rpc /\ rkey' = rkey /\ pages' = pages /\ ops' = ops /\ hit' = hit
        /\ val' = val /\ hasty' = hasty /\ got' = got /\ left' = left /\ cur' = cur /\ nxt' = nxt
        /\ seen' = seen /\ due' = due /\ incar' = incar /\ raced' = raced
    BY <1>5 DEF vars, lookup, scan
  <2>2. /\ WInv' /\ TableInv' /\ leaves' = leaves /\ low' = low /\ tt' = tt /\ done' = done
        /\ Split' = Split /\ wnode' = wnode
    BY <2>1, ReaderFrame
  <2>6. splits' = splits /\ CountInv'
    BY <2>1, <2>2, SameCount DEF tree
  <2>3. RType'
    BY <2>1, <2>2 DEF RInv, RType
  <2>4. LookupInv'
    BY <2>1, <2>2, <2>6 DEF RInv, LookupInv, Same, Changed, IsHome, Awaited, ValOf
  <2>5. OrderInv' /\ ScanInv'
    BY <2>1, <2>2 DEF RInv, OrderInv, ScanInv, Quiet, CopiedSlot
  <2> QED
    BY <2>2, <2>3, <2>4, <2>5, <2>6 DEF RInv
<1> QED
  BY <1>1, <1>2, <1>3, <1>4, <1>5 DEF Next

\* It holds in every reachable state.
LEMMA SpecInv == Spec => []Inv
BY InitInv, NextInv, PTL DEF Spec

\* The variables of the readers and of the insertion keep their types (raw_insert,
\* core_eval, read_from): no index leaves its array and no link its leaves.
THEOREM LiveTypes == Spec => []TypeOK
<1>1. Inv => TypeOK
  <2> SUFFICES ASSUME Inv PROVE TypeOK
    OBVIOUS
  <2> USE DEF Inv, WInv, RInv
  <2>1. Len(leaves) \in Nat /\ Len(low) \in Nat /\ Len(low) <= Len(leaves) /\ DOMAIN low = 1..Len(low)
    BY DEF WType
  <2>2. tt \in Seq((1..Len(leaves)) \X (0..(TableMod - 1)))
    <3>1. \A p \in DOMAIN tt : tt[p] \in (1..Len(leaves)) \X (0..(TableMod - 1))
      <4> SUFFICES ASSUME NEW p \in DOMAIN tt PROVE tt[p] \in (1..Len(leaves)) \X (0..(TableMod - 1))
        OBVIOUS
      <4>1. tt[p] \in Nat \X (0..(TableMod - 1)) /\ tt[p][1] \in 1..Len(leaves)
        BY <2>1 DEF TableInv
      <4> QED
        BY <4>1
    <3> QED
      BY <3>1 DEF TableInv
  <2>3. \A n \in {Null} \cup DOMAIN low : n \in 0..Len(leaves)
    BY <2>1 DEF Null
  <2>4. wnode \in 0..Len(leaves)
    BY <2>1 DEF WType
  <2>5. /\ hit \in (0..Len(leaves)) \X Slot /\ cur \in 0..Len(leaves) /\ nxt \in 0..Len(leaves)
        /\ due \subseteq Key
    BY <2>3 DEF RType, WType
  <2> QED
    BY <2>2, <2>4, <2>5 DEF TypeOK, WType, CountInv, RType
<1> QED
  BY <1>1, SpecInv, PTL

\* Whatever the insertion does meanwhile, an iterator returns rising keys (read_from
\* loads the link before the keys, iter.hh:81): the keys of a leaf lie below the leaf
\* that was next when its copy began, for a split can only move the bound down.
THEOREM ScansRise == Spec => []SortedScanLive
<1>1. Inv => SortedScanLive
  BY DEF Inv, RInv, OrderInv, SortedScanLive
<1> QED
  BY <1>1, SpecInv, PTL

\* A lookup of core_eval gives the right value, or its key was not stored yet, or the
\* bits that the table has of the incarnation tell that the leaf has split since
\* training, unless it has split so often that they are the same again.
THEOREM LookupsAnswer == Spec => []ReadIsRight
<1>1. Inv => ReadIsRight
  <2> SUFFICES ASSUME Inv, rpc \in {"found", "missed"}, Changed(hit[1]) PROVE Moved(hit[1]) \/ Unseen(hit[1])
    BY DEF Inv, RInv, LookupInv, ReadIsRight
  <2>1. PICK p \in DOMAIN tt : tt[p][1] = hit[1]
    BY DEF Inv, RInv, RType
  <2> QED
    BY <2>1, ChangedIsSeen DEF Inv
<1> QED
  BY <1>1, SpecInv, PTL

\* An iterator that met no split in the middle of a copy returns every key that was
\* stored when it began, and never loses its way (read_from, seek_impl and next_impl);
\* as long as the counter of no leaf can have wrapped.
THEOREM ScansLoseOnlyToSplits == Spec => [](Len(leaves) <= IncarMod => ScanLosesOnlyToSplits)
<1>1. Inv => (Len(leaves) <= IncarMod => ScanLosesOnlyToSplits)
  BY DEF Inv, RInv, RType, ScanInv, ScanLosesOnlyToSplits, Range
<1> QED
  BY <1>1, SpecInv, PTL

\* SplitIsAtomic: the stores of raw_insert, one by one, make of the two leaves what the
\* split that XTree takes as one step makes of them.
THEOREM SplitsAreAtomic == Spec => []SplitIsAtomic
<1>1. Init => StoresInv
  BY DEF Init, StoresInv, Split
<1>2. Inv /\ Inv' /\ StoresInv /\ [Next]_vars => StoresInv'
  <2> SUFFICES ASSUME Inv, Inv', StoresInv, [Next]_vars PROVE StoresInv'
    OBVIOUS
  <2>1. WInv /\ WInv'
    BY DEF Inv
  <2>2. CASE WriterNext
    BY <2>1, <2>2, SplitBeginS, MoveKeyS, AddKeyS, ValueUpdateS, NewKeyRightS, OtherS DEF WriterNext
  <2>3. ASSUME ~WriterNext PROVE UNCHANGED <<leaves, low, writer>>
    BY <2>3 DEF Next, vars, tree, Train, LookupNext, ScanNext, LookupBegin, Emplace, ReadSlot, SearchPages,
                ReadValue, LookupEnd, ScanBegin, LoadLink, CopySlot, ScanEnd
  <2> QED
    BY <2>2, <2>3, OtherS
<1>3. Inv /\ StoresInv => SplitIsAtomic
  <2> SUFFICES ASSUME Inv, StoresInv, wpc = "link" PROVE SplitIsAtomic
    BY DEF SplitIsAtomic
  <2>1. Split /\ WType /\ WriterInv /\ SplitInv
    BY DEF Split, Inv, WInv
  <2>2. full \in Leaf /\ wkey \in Nat /\ pivot \in Nat /\ wkey # pivot /\ Free(full) = {}
        /\ wkey \in Key /\ ValOf(wkey) \in Nat
    BY <2>1, SplitFacts, WriterLeaf DEF WType, WriterInv, StoresInv
  <2>3. PICK m \in MedianSlots(full) :
          /\ full.keys[m] = pivot
          /\ Alike(leaves[wnode], IF wkey < pivot THEN Add(Kept(full, m), wkey, ValOf(wkey)) ELSE Kept(full, m))
          /\ Alike(leaves[Cand], IF wkey > pivot THEN Add(Taken(full, m), wkey, ValOf(wkey)) ELSE Taken(full, m))
    BY <2>1 DEF StoresInv
  <2> DEFINE v == ValOf(wkey)
             c == Clear(full, {m} \cup Larger(full, m))
             L == SplitLeft(full, m, wkey, v, Cand)
             R == SplitRight(full, EmptyLeaf, m, wkey, v)
             l0 == IF wkey > pivot THEN c ELSE Add(c, wkey, v)
             r0 == IF wkey > pivot THEN Add(Taken(full, m), wkey, v) ELSE Taken(full, m)
  <2>4. /\ c \in Leaf /\ Kept(full, m) \in Leaf /\ Kept(full, m).keys = c.keys /\ Kept(full, m).vals = c.vals
        /\ c.vals = full.vals /\ c.incarnation = full.incarnation
        /\ Kept(full, m).incarnation = (full.incarnation + 1) % IncarMod
        /\ Taken(full, m) \in Leaf
    BY <2>2, KeptIs, ClearEmpties, TakenIs
  <2>5. L = [l0 EXCEPT !.incarnation = (@ + 1) % IncarMod, !.next = Cand]
    BY <2>3 DEF SplitLeft, Larger
  <2>6. R = [r0 EXCEPT !.next = full.next]
    BY <2>3 DEF SplitRight, Larger, Taken
  <2> HIDE DEF L, R, v, c
  <2>7. Alike(leaves[Cand], R)
    <3>1. r0 \in Leaf
      BY <2>2, <2>4, AddLeaf DEF v
    <3>2. Alike(leaves[Cand], r0)
      BY <2>3 DEF v
    <3> HIDE DEF r0
    <3> QED
      BY <2>6, <3>1, <3>2 DEF Alike, Leaf
  <2>8. Alike(leaves[wnode], L)
    <3>1. CASE wkey > pivot
      <4>1. L = [c EXCEPT !.incarnation = (@ + 1) % IncarMod, !.next = Cand] /\ ~(wkey < pivot)
        BY <2>2, <2>5, <3>1
      <4> QED
        BY <2>3, <2>4, <4>1 DEF Alike, Leaf
    <3>2. CASE ~(wkey > pivot)
      <4> DEFINE a == Add(c, wkey, v)
                 b == Add(Kept(full, m), wkey, v)
      <4>1. L = [a EXCEPT !.incarnation = (@ + 1) % IncarMod, !.next = Cand] /\ wkey < pivot
        BY <2>2, <2>5, <3>2
      <4>2. a \in Leaf /\ b \in Leaf /\ a.incarnation = c.incarnation
            /\ b.incarnation = Kept(full, m).incarnation
        BY <2>2, <2>4, AddLeaf DEF v
      <4>3. a.keys = b.keys /\ a.vals = b.vals
        <5>1. Free(c) = Free(Kept(full, m))
          BY <2>4 DEF Free
        <5>2. CASE Free(c) = {}
          BY <2>4, <5>1, <5>2 DEF Add
        <5>3. CASE Free(c) # {}
          <6>1. /\ a.keys = [c.keys EXCEPT ![First(Free(c))] = wkey]
                /\ a.vals = [c.vals EXCEPT ![First(Free(c))] = v]
            BY <2>2, <2>4, <5>3, AddFills DEF v
          <6>2. /\ b.keys = [Kept(full, m).keys EXCEPT ![First(Free(Kept(full, m)))] = wkey]
                /\ b.vals = [Kept(full, m).vals EXCEPT ![First(Free(Kept(full, m)))] = v]
            BY <2>2, <2>4, <5>1, <5>3, AddFills DEF v
          <6> QED
            BY <2>4, <5>1, <6>1, <6>2
        <5> QED
          BY <5>2, <5>3
      <4>4. Alike(leaves[wnode], b)
        BY <2>3, <4>1 DEF v
      <4> HIDE DEF a, b
      <4> QED
        BY <2>4, <4>1, <4>2, <4>3, <4>4 DEF Alike, Leaf
    <3> QED
      BY <3>1, <3>2
  <2> QED
    BY <2>7, <2>8 DEF SplitIsAtomic, Alike, L, R, v
<1> QED
  BY <1>1, <1>2, <1>3, SpecInv, PTL DEF Spec

=============================================================================
