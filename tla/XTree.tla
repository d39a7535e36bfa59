-------------------------------- MODULE XTree --------------------------------
(***************************************************************************)
(* The tree index of xkv_core/src: XTree (xtree/mod.hh, inner_node.hh) and *)
(* its concurrent wrapper CXTree (xtree_con.hh).  An insertion runs in     *)
(* three steps of its thread: make sure a leaf is pre-allocated, run       *)
(* insert_core inside an RTMScope (one atomic step, see RTMScope), and     *)
(* replace the pre-allocated leaf if insert_core used it.  Leaves come     *)
(* from the XAlloc slab of the server and are numbered in the order of     *)
(* their allocation; inner nodes come from new.  With a single thread this *)
(* is the plain XTree.                                                     *)
(***************************************************************************)
EXTENDS XNode, SequencesExt

CONSTANTS
  Threads,
  MaxLeaves,    \* leaves the slab holds
  MaxPerKey     \* bound: insertions of one key; 1 makes the keys distinct

ASSUME XTreeAssumption == MaxLeaves \in Nat /\ MaxPerKey \in Nat

VARIABLES
  leaves,       \* every leaf allocated so far
  inners,       \* every inner node allocated so far
  root, depth,  \* of the tree: root is a leaf iff depth = 0
  pre,          \* pre_alloc_leaf_node of each thread
  pc, arg,      \* step of insert_w_alloc each thread is at, and its key
  asked,        \* number of insertions called with each key
  aborted       \* "no", or what ended the process: "assert" or "alloc"

tree == <<leaves, inners, root, depth>>
vars == <<tree, pre, pc, arg, asked, aborted>>

\* The value stored with a key (the tests store the key plus a constant).
ValOf(k) == k + 1

Init ==
  /\ leaves = <<>> /\ inners = <<>> /\ root = Null /\ depth = 0
  /\ pre = [t \in Threads |-> Null]
  /\ pc = [t \in Threads |-> "idle"]
  /\ arg = [t \in Threads |-> 0]
  /\ asked = [k \in Key |-> 0]
  /\ aborted = "no"

-----------------------------------------------------------------------------
\* Faulty variant: k <= keys[i].
FindChildrenIdx_Strict(n, k) ==
  Cardinality({i \in DOMAIN n.keys : \A j \in 1..i : k > n.keys[j]})

\* TreeInner::find_children_idx: the first i with k < keys[i], or num_keys.
FindChildrenIdx(n, k) ==
  Cardinality({i \in DOMAIN n.keys : \A j \in 1..i : k >= n.keys[j]})

\* find_leaf from root r: the nodes on the way down, the leaf last.
Walk(r, k) ==
  LET node[d \in 0..depth] ==
        IF d = 0 THEN r
        ELSE LET n == inners[node[d - 1]] IN n.ch[FindChildrenIdx(n, k) + 1]
  IN node

\* get_impl; an empty tree has no leaf to search.
Lookup(k) ==
  IF root = Null THEN NoVal
  ELSE LET l == leaves[Walk(root, k)[depth]]
           i == Search(l, k)
       IN IF i = N THEN NoVal ELSE l.vals[i]

\* Faulty variant: one key too many.
InnerFull_Late(n) == Len(n.keys) > N

\* TreeInner::full.
InnerFull(n) == Len(n.keys) = N

\* TreeInner::insert_at_pos.
InsertAtPos(n, k, child, pos) ==
  [keys |-> InsertAt(n.keys, pos + 1, k), ch |-> InsertAt(n.ch, pos + 2, child)]

(***************************************************************************)
(* The second half of TreeInner::insert at inner node n, after the level   *)
(* below left in s the node to_insert and its up_key (or Null: no split).  *)
(* A full node gives the keys after the middle one to a new sibling, which *)
(* is what the level above has to insert.                                  *)
(***************************************************************************)
InnerInsert(s, n, key) ==
  LET node  == s.inners[n]
      k     == FindChildrenIdx(node, key)
      th    == (N + 1) \div 2
      left  == [keys |-> SubSeq(node.keys, 1, th - 1), ch |-> SubSeq(node.ch, 1, th)]
      right == [keys |-> SubSeq(node.keys, th + 1, N), ch |-> SubSeq(node.ch, th + 1, N + 1)]
      sep   == node.keys[th]
      put(m, pos) == InsertAtPos(m, s.up_key, s.to_insert, pos)
  IN CASE s.to_insert = Null \/ ~s.ok -> s
       [] s.to_insert # Null /\ s.ok /\ ~InnerFull(node) ->
            [s EXCEPT !.inners = [@ EXCEPT ![n] = put(node, k)], !.to_insert = Null]
       [] s.to_insert # Null /\ s.ok /\ InnerFull(node) /\ s.up_key < sep ->
            [s EXCEPT !.inners = Append([@ EXCEPT ![n] = put(left, k)], right),
                      !.to_insert = Len(s.inners) + 1, !.up_key = sep]
       [] s.to_insert # Null /\ s.ok /\ InnerFull(node) /\ s.up_key >= sep ->
            IF k >= th      \* ASSERT(k >= threshod)
            THEN [s EXCEPT !.inners = Append([@ EXCEPT ![n] = left], put(right, k - th)),
                           !.to_insert = Len(s.inners) + 1, !.up_key = sep]
            ELSE [s EXCEPT !.ok = FALSE]

\* TreeInner::insert on the way back up path p, from the leaf's split (cand,
\* up_key) to the root.
Ascend(p, key, cand, up_key, ok) ==
  LET s[h \in 0..depth] ==
        IF h = 0
        THEN [inners |-> inners, to_insert |-> cand, up_key |-> up_key, ok |-> ok]
        ELSE InnerInsert(s[h - 1], p[depth - h], key)
  IN s[depth]

-----------------------------------------------------------------------------
\* Faulty variant: pre_alloc_leaf_node is shared by the threads.
PreAlloc_Shared(t) ==
  /\ Len(leaves) < MaxLeaves
  /\ leaves' = Append(leaves, EmptyLeaf)
  /\ pre' = [u \in Threads |-> Len(leaves) + 1]

\* init_pre_alloced_leaf: XAlloc::alloc_impl and the constructor of the leaf.
PreAlloc(t) ==
  /\ Len(leaves) < MaxLeaves
  /\ leaves' = Append(leaves, EmptyLeaf)
  /\ pre' = [pre EXCEPT ![t] = Len(leaves) + 1]

\* An exhausted slab returns nothing, and init_pre_alloced_leaf takes its value
\* all the same: the process ends.
AllocFails(t) ==
  /\ aborted = "no" /\ Len(leaves) >= MaxLeaves
  /\ pc[t] = "take" \/ (pc[t] = "idle" /\ pre[t] = Null)
  /\ aborted' = "alloc"
  /\ UNCHANGED <<tree, pre, pc, arg, asked>>

\* insert_w_alloc, up to the RTMScope.
InsertBegin(t, k) ==
  /\ aborted = "no" /\ pc[t] = "idle" /\ asked[k] < MaxPerKey
  /\ asked' = [asked EXCEPT ![k] = @ + 1]
  /\ arg' = [arg EXCEPT ![t] = k]
  /\ pc' = [pc EXCEPT ![t] = "core"]
  /\ \/ pre[t] = Null /\ PreAlloc(t)
     \/ pre[t] # Null /\ UNCHANGED <<leaves, pre>>
  /\ UNCHANGED <<inners, root, depth, aborted>>

\* insert_core when the leaf has a free slot; the first key of all makes the
\* pre-allocated leaf the root.
InsertInPlace(t) ==
  LET k == arg[t]
      r == IF root = Null THEN pre[t] ELSE root
      leaf == Walk(r, k)[depth] IN
  /\ aborted = "no" /\ pc[t] = "core"
  /\ Free(leaves[leaf]) # {}
  /\ leaves' = [leaves EXCEPT ![leaf] = Add(@, k, ValOf(k))]
  /\ root' = r
  /\ pc' = [pc EXCEPT ![t] = IF root = Null THEN "take" ELSE "idle"]
  /\ UNCHANGED <<inners, depth, pre, arg, asked, aborted>>

\* insert_core when the leaf is full: it splits into the pre-allocated leaf,
\* the split climbs the inner nodes and the root may get a parent.
InsertSplit(t) ==
  LET k == arg[t]
      p == Walk(root, k)
      leaf == p[depth]
      l == leaves[leaf]
      cand == leaves[pre[t]] IN
  /\ aborted = "no" /\ pc[t] = "core"
  /\ root # Null /\ Free(l) = {}
  /\ \E m \in MedianSlots(l) :
       LET left  == SplitLeft(l, m, k, ValOf(k), pre[t])
           right == SplitRight(l, cand, m, k, ValOf(k))
           s     == Ascend(p, k, pre[t], right.keys[0], SplitFits(l, cand, m, k))
           grow  == s.to_insert # Null
           newRoot == [keys |-> <<s.up_key>>, ch |-> <<root, s.to_insert>>] IN
       IF s.ok
       THEN /\ leaves' = [leaves EXCEPT ![leaf] = left, ![pre[t]] = right]
            /\ inners' = IF grow THEN Append(s.inners, newRoot) ELSE s.inners
            /\ root' = IF grow THEN Len(s.inners) + 1 ELSE root
            /\ depth' = IF grow THEN depth + 1 ELSE depth
            /\ pc' = [pc EXCEPT ![t] = "take"]
            /\ UNCHANGED aborted
       ELSE aborted' = "assert" /\ UNCHANGED <<tree, pc>>
  /\ UNCHANGED <<pre, arg, asked>>

\* take_pre_alloced_leaf, after the RTMScope: the used leaf is replaced.
TakePreAlloced(t) ==
  /\ aborted = "no" /\ pc[t] = "take"
  /\ pc' = [pc EXCEPT ![t] = "idle"]
  /\ PreAlloc(t)
  /\ UNCHANGED <<inners, root, depth, arg, asked, aborted>>

Next ==
  \E t \in Threads :
    \/ \E k \in Key : InsertBegin(t, k)
    \/ InsertInPlace(t) \/ InsertSplit(t) \/ TakePreAlloced(t) \/ AllocFails(t)

Spec == Init /\ [][Next]_vars

-----------------------------------------------------------------------------
Inner == [keys : Seq(Key), ch : Seq(Nat \ {Null})]

TypeOK ==
  /\ leaves \in Seq(Leaf) /\ inners \in Seq(Inner)
  /\ root \in Nat /\ depth \in Nat
  /\ pre \in [Threads -> 0..Len(leaves)]
  /\ pc \in [Threads -> {"idle", "core", "take"}]
  /\ arg \in [Threads -> Key]
  /\ asked \in [Key -> 0..MaxPerKey]
  /\ aborted \in {"no", "assert", "alloc"}
  /\ \A i \in DOMAIN inners : /\ Len(inners[i].keys) \in 0..N
                              /\ Len(inners[i].ch) = Len(inners[i].keys) + 1

\* The nodes of the tree, level by level from the root.
Level ==
  LET level[d \in 0..depth] ==
        IF d = 0 THEN <<root>>
        ELSE FlattenSeq([i \in DOMAIN level[d - 1] |-> inners[level[d - 1][i]].ch])
  IN level

LinkedLeaves == IF root = Null THEN <<>> ELSE Level[depth]

\* No insertion fails an assertion of raw_insert or TreeInner::insert.
NoAssertFails == aborted # "assert"

\* The leaves in tree order are the list of their next links, and the keys of a
\* leaf are all smaller than those of the leaves behind it: what the iterators,
\* the page sampler and a remote scan rely on although slots are unsorted.
LeafListSorted ==
  LET L == LinkedLeaves IN
  \A i \in DOMAIN L :
    /\ leaves[L[i]].next = IF i = Len(L) THEN Null ELSE L[i + 1]
    /\ i < Len(L) => \A a \in LeafKeys(leaves[L[i]]), b \in LeafKeys(leaves[L[i + 1]]) : a < b

\* Every allocated leaf is linked into the tree exactly once or is the empty
\* pre-allocated leaf of exactly one thread: pre_alloc_leaf_node is replaced
\* outside the transaction, and must not be used twice nor leaked.
LeafOwnership ==
  LET L == LinkedLeaves
      spare(t) == pre[t] # Null /\ pc[t] # "take"
      linked(i) == {n \in DOMAIN L : L[n] = i}
      owners(i) == {t \in Threads : spare(t) /\ pre[t] = i} IN
  \A i \in DOMAIN leaves :
    /\ Cardinality(linked(i)) + Cardinality(owners(i)) = 1
    /\ owners(i) # {} => leaves[i] = EmptyLeaf

\* A leaf of a tree of distinct keys is never less than half full: a slab sized
\* for 2 / N leaves per key, as the tests size it, is not exhausted.
LeavesHalfFull ==
  depth > 0 => \A i \in DOMAIN LinkedLeaves : NumKeys(leaves[LinkedLeaves[i]]) >= N \div 2

\* A key that leaves a leaf changes its incarnation, and the range of keys a
\* leaf answers for only shrinks at its right end: a client that cached the
\* address of a leaf detects by the incarnation that a key may have moved.
IncarnationGuardsMoves ==
  [][\A i \in DOMAIN leaves :
       ~(LeafKeys(leaves[i]) \subseteq LeafKeys(leaves'[i]))
         => /\ leaves'[i].incarnation # leaves[i].incarnation
            /\ \A a \in LeafKeys(leaves[i]) \ LeafKeys(leaves'[i]), b \in LeafKeys(leaves'[i]) : a > b]_vars

\* Looking a key up from the root finds exactly the entries inserted, at every
\* step of every insertion: the tree implements the abstract map.
Map == INSTANCE KVMap WITH Value <- {ValOf(k) : k \in Key}, map <- [k \in Key |-> Lookup(k)]

ImplementsMap == Map!Spec

=============================================================================
