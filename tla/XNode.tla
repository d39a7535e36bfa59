-------------------------------- MODULE XNode --------------------------------
(***************************************************************************)
(* The leaf of the tree index, xkv_core/src/xtree/{xkeys,xnode}.hh: N      *)
(* unsorted slots of keys and values, an incarnation, and the link to the  *)
(* next leaf.  A full leaf splits at its median key into a leaf the caller *)
(* provides.                                                               *)
(***************************************************************************)
EXTENDS Integers, FiniteSets

CONSTANTS
  N,          \* slots of a node
  MaxKey,     \* keys are 0..MaxKey
  IncarMod    \* values of the incarnation (2^16 in the code)

ASSUME XNodeAssumption ==
  /\ N \in Nat /\ N >= 2
  /\ MaxKey \in Nat
  /\ IncarMod \in Nat /\ IncarMod >= 2

Slot == 0..(N - 1)
Key  == 0..MaxKey
kInvalidKey == MaxKey + 1      \* the largest u64: sorts after every key
Null == 0                      \* a null pointer; leaves are numbered from 1
NoVal == 0                     \* content of a value slot never written

EmptyLeaf ==
  [keys |-> [i \in Slot |-> kInvalidKey], vals |-> [i \in Slot |-> NoVal],
   incarnation |-> 0, next |-> Null]

Leaf ==
  [keys : [Slot -> Key \cup {kInvalidKey}], vals : [Slot -> Nat],
   incarnation : 0..(IncarMod - 1), next : Nat]

Free(l) == {i \in Slot : l.keys[i] = kInvalidKey}
Used(l) == Slot \ Free(l)
LeafKeys(l) == {l.keys[i] : i \in Used(l)}
NumKeys(l) == Cardinality(Used(l))

\* The n-th smallest member of a set of slots, from 0.
Nth(S, n) == CHOOSE i \in S : Cardinality({j \in S : j < i}) = n
Rank(S, i) == Cardinality({j \in S : j < i})
First(S) == CHOOSE i \in S : \A j \in S : i <= j

\* XNodeKeys::search: the first slot that holds k, or N.
Search(l, k) ==
  LET hits == {i \in Slot : l.keys[i] = k} IN IF hits = {} THEN N ELSE First(hits)

\* XNodeKeys::add_key and XNode::value_update.  Equal keys are not looked for,
\* and a full leaf takes nothing.
Add(l, k, v) ==
  IF Free(l) = {} THEN l
  ELSE LET i == First(Free(l)) IN
       [l EXCEPT !.keys = [@ EXCEPT ![i] = k], !.vals = [@ EXCEPT ![i] = v]]

Clear(l, S) ==
  [l EXCEPT !.keys = [i \in Slot |-> IF i \in S THEN kInvalidKey ELSE @[i]]]

\* Faulty variant: the smallest key.
MedianSlots_First(l) == {i \in Slot : \A j \in Slot : l.keys[i] <= l.keys[j]}

\* Faulty variant: the largest key.
MedianSlots_Last(l) == {i \in Slot : \A j \in Slot : l.keys[i] >= l.keys[j]}

\* find_median_key: slot of the element N / 2 in key order.  std::sort is not
\* stable: among equal keys any may come there.
MedianSlots(l) ==
  {i \in Slot : /\ Cardinality({j \in Slot : l.keys[j] < l.keys[i]}) <= N \div 2
                /\ N \div 2 < Cardinality({j \in Slot : l.keys[j] <= l.keys[i]})}

\* raw_insert of the content of slots S of l, in slot order, into c.
MoveInto(c, l, S) ==
  LET to(i) == i \in Free(c) /\ Rank(Free(c), i) < Cardinality(S)
      from(i) == Nth(S, Rank(Free(c), i)) IN
  [c EXCEPT !.keys = [i \in Slot |-> IF to(i) THEN l.keys[from(i)] ELSE @[i]],
            !.vals = [i \in Slot |-> IF to(i) THEN l.vals[from(i)] ELSE @[i]]]

Above(l, pivot) == {i \in Used(l) : l.keys[i] > pivot}

\* Faulty variant: the incarnation is not incremented.
SplitLeft_SameIncarnation(l, m, k, v, c) ==
  LET pivot == l.keys[m]
      kept == Clear(l, {m} \cup Above(l, pivot))
      left == IF k > pivot THEN kept ELSE Add(kept, k, v) IN
  [left EXCEPT !.next = c]

(***************************************************************************)
(* raw_insert on a full leaf: the median key first, then the larger keys   *)
(* move to the candidate, whose number is c; then the new key is added to  *)
(* one of the two, and the candidate is linked behind the leaf.            *)
(***************************************************************************)
SplitLeft(l, m, k, v, c) ==
  LET pivot == l.keys[m]
      kept == Clear(l, {m} \cup Above(l, pivot))
      left == IF k > pivot THEN kept ELSE Add(kept, k, v) IN
  [left EXCEPT !.incarnation = (@ + 1) % IncarMod, !.next = c]

\* Faulty variant: the link of the split leaf is dropped.
SplitRight_Unlinked(l, cand, m, k, v) ==
  LET pivot == l.keys[m]
      moved == MoveInto(Add(cand, pivot, l.vals[m]), l, Above(l, pivot)) IN
  IF k > pivot THEN Add(moved, k, v) ELSE moved

SplitRight(l, cand, m, k, v) ==
  LET pivot == l.keys[m]
      moved == MoveInto(Add(cand, pivot, l.vals[m]), l, Above(l, pivot))
      right == IF k > pivot THEN Add(moved, k, v) ELSE moved IN
  [right EXCEPT !.next = l.next]

\* The assertions of raw_insert hold: no insertion into the candidate splits.
SplitFits(l, cand, m, k) ==
  LET pivot == l.keys[m] IN
  1 + Cardinality(Above(l, pivot)) + (IF k > pivot THEN 1 ELSE 0) <= Cardinality(Free(cand))

=============================================================================
