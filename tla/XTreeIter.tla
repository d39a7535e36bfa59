------------------------------ MODULE XTreeIter ------------------------------
(***************************************************************************)
(* The iterators over the tree index: XTreeIter (iter.hh) over all keys in *)
(* slot order, XTreeSIter (sorted_iter.hh) over all keys in key order, and *)
(* XTreePageIter (page_iter.hh) over the leaves, which training uses.      *)
(* Each copies the keys of a leaf when it enters it and works on the copy. *)
(* The thread that iterates may insert between two calls of the iterator,  *)
(* so a leaf may split after it was copied.                                *)
(***************************************************************************)
EXTENDS XTree

VARIABLES
  kind,       \* "none", or which iterator: "iter", "sorted", "page"
  cur_node,   \* the copied keys
  cur_ptr,    \* the leaf they come from; Null: has_next() is false
  next_ptr,   \* its next link when it was copied
  idx,        \* slot of the current key
  counter,    \* opaque_val (logic_page_id of the page iterator)
  seen,       \* ghost: keys (or leaves) returned so far, in order
  due         \* ghost: keys (or leaves) that the scan has to return

iter  == <<kind, cur_node, cur_ptr, next_ptr, idx, counter, seen, due>>
ivars == <<vars, iter>>

Kinds == {"iter", "sorted", "page"}
NoKeys == [i \in Slot |-> kInvalidKey]

IterInit ==
  /\ Init
  /\ kind = "none" /\ cur_node = NoKeys /\ cur_ptr = Null /\ next_ptr = Null
  /\ idx = N /\ counter = 0 /\ seen = <<>> /\ due = {}

\* Faulty variant: the copy is left in slot order.
SortedKeys_Slots(keys) == keys

\* The slots of a leaf in key order, invalid ones last (std::sort).
SortedKeys(keys) ==
  [i \in Slot |->
     CHOOSE k \in Key \cup {kInvalidKey} :
       /\ Cardinality({j \in Slot : keys[j] < k}) <= i
       /\ i < Cardinality({j \in Slot : keys[j] <= k})]

\* seek_idx: the first valid slot from i on, or N.
SeekIdx(keys, i) ==
  LET valid == {j \in Slot : j >= i /\ keys[j] # kInvalidKey} IN
  IF valid = {} THEN N ELSE First(valid)

\* read_from a leaf, and then seek_idx from its first slot.
ReadFrom(kd, n) ==
  LET keys == IF kd = "sorted" THEN SortedKeys(leaves[n].keys) ELSE leaves[n].keys IN
  /\ cur_ptr' = n
  /\ next_ptr' = leaves[n].next
  /\ cur_node' = keys
  /\ idx' = SeekIdx(keys, 0)

\* The key iterators return keys, the page iterator leaves.
Item(kd, n, keys, i) == IF kd = "page" THEN n ELSE keys[i]

\* Leaves from leaf n to the end of the list, and what they hold.
LeavesFrom(n) ==
  LET L == LinkedLeaves
      at == CHOOSE i \in DOMAIN L : L[i] = n IN
  {L[i] : i \in at..Len(L)}

ItemsFrom(kd, n) ==
  IF kd = "page" THEN LeavesFrom(n) ELSE UNION {LeafKeys(leaves[m]) : m \in LeavesFrom(n)}

-----------------------------------------------------------------------------
InsertIdle == aborted = "no" /\ \A t \in Threads : pc[t] = "idle"

\* The constructor (from) and seek.  Iterating over an empty tree ends the
\* process.
Seek(kd, k) ==
  LET n == Walk(root, k)[depth] IN
  /\ InsertIdle /\ root # Null
  /\ kind' = kd
  /\ ReadFrom(kd, n)
  /\ counter' = 0
  /\ seen' = <<Item(kd, n, cur_node', idx')>>
  /\ due' = ItemsFrom(kd, n)
  /\ UNCHANGED vars

\* next of a key iterator inside the copied leaf.
NextInLeaf ==
  LET i == SeekIdx(cur_node, idx + 1) IN
  /\ InsertIdle /\ kind \in {"iter", "sorted"} /\ cur_ptr # Null
  /\ i # N
  /\ idx' = i
  /\ counter' = counter + 1
  /\ seen' = Append(seen, cur_node[i])
  /\ UNCHANGED <<vars, kind, cur_node, cur_ptr, next_ptr, due>>

\* Faulty variant: the key iterators too follow the link the leaf has now.
NextLeaf_Current ==
  LET n == leaves[cur_ptr].next IN
  /\ InsertIdle /\ cur_ptr # Null
  /\ kind # "page" => SeekIdx(cur_node, idx + 1) = N
  /\ n # Null
  /\ ReadFrom(kind, n)
  /\ counter' = counter + 1
  /\ seen' = Append(seen, Item(kind, n, cur_node', idx'))
  /\ UNCHANGED <<vars, kind, due>>

\* next that leaves the copied leaf: a key iterator follows the link copied
\* with it, the page iterator the one the leaf has now.
NextLeaf ==
  LET n == IF kind = "page" THEN leaves[cur_ptr].next ELSE next_ptr IN
  /\ InsertIdle /\ cur_ptr # Null
  /\ kind # "page" => SeekIdx(cur_node, idx + 1) = N
  /\ n # Null
  /\ ReadFrom(kind, n)
  /\ counter' = counter + 1
  /\ seen' = Append(seen, Item(kind, n, cur_node', idx'))
  /\ UNCHANGED <<vars, kind, due>>

\* next at the end of the list.
NextEnd ==
  LET n == IF kind = "page" THEN leaves[cur_ptr].next ELSE next_ptr IN
  /\ InsertIdle /\ cur_ptr # Null
  /\ kind # "page" => SeekIdx(cur_node, idx + 1) = N
  /\ n = Null
  /\ cur_ptr' = Null
  /\ counter' = IF kind = "page" THEN counter + 1 ELSE counter
  /\ idx' = N
  /\ UNCHANGED <<vars, kind, cur_node, next_ptr, seen, due>>

Insert == Next /\ UNCHANGED iter

IterNext ==
  \/ Insert
  \/ \E kd \in Kinds, k \in Key : Seek(kd, k)
  \/ NextInLeaf \/ NextLeaf \/ NextEnd

IterSpec == IterInit /\ [][IterNext]_ivars

-----------------------------------------------------------------------------
IterTypeOK ==
  /\ kind \in Kinds \cup {"none"}
  /\ cur_node \in [Slot -> Key \cup {kInvalidKey}]
  /\ cur_ptr \in 0..Len(leaves) /\ next_ptr \in 0..Len(leaves)
  /\ idx \in 0..N /\ counter \in Nat
  /\ seen \in Seq(Nat) /\ due \subseteq Nat

Seen == {seen[i] : i \in DOMAIN seen}

\* A scan returns nothing twice, and at its end it has returned everything that
\* was in the list from the leaf of the seek key on when it started, although
\* insertions split leaves before, behind and at its position.
ScanExactlyOnce ==
  /\ Cardinality(Seen) = Len(seen)
  /\ kind # "none" /\ cur_ptr = Null => due \subseteq Seen

\* The sorted iterator returns keys in ascending order, across splits too.
SortedScan ==
  kind = "sorted" => \A i \in 1..(Len(seen) - 1) : seen[i] < seen[i + 1]

=============================================================================
