------------------------------ MODULE LiveReads ------------------------------
(***************************************************************************)
(* Reads of leaves that an insertion is changing.  Under the fallback lock *)
(* of RTMScope the stores of XNode::raw_insert are visible one by one to   *)
(* those that take neither the lock nor a transaction: the one-sided reads *)
(* of a client (core_eval of the two benchmarks, which post the pages of   *)
(* a prediction as one BatchOp and then fetch the value), and an iterator  *)
(* that copies a leaf (XTreeSIter::read_from).  Stores to the leaf a split *)
(* fills are not visible until it is linked, and go with the store that    *)
(* follows them.                                                           *)
(*                                                                         *)
(* Readers change nothing, so one of them at a time shows what any number  *)
(* can see.  The keys before Train are the loaded ones.                    *)
(***************************************************************************)
EXTENDS XNode, Sequences, Functions

CONSTANTS
  MaxPages,    \* more pages than this are left to the server (kMaxBatch)
  BatchSize,   \* operations of a BatchOp
  TableMod,    \* values an incarnation has in the translation table (2^kIncarBit)
  Loads        \* bound: the numbers of keys that are loaded when training starts

\* The table keeps the low bits of an incarnation.
ASSUME LiveReadsAssumption ==
  /\ MaxPages \in Nat \ {0} /\ BatchSize \in Nat \ {0}
  /\ TableMod \in Nat \ {0} /\ IncarMod % TableMod = 0

VARIABLES
  leaves,      \* every leaf; leaf 1 is the leftmost one
  low,         \* low[n]: the least key find_leaf sends to leaf n
  splits,      \* ghost: splits[n]: how often leaf n has begun to split since Train
  wpc,         \* the insertion: "idle", "add", "value", "move", "new", "last" or "link"
  wkey, wnode, \* its key and its leaf
  widx,        \* the slot add_key installed the key in
  pivot, todo, \* of a split: the pivot key, and the slots to move
  full,        \* ghost: the leaf before it splits
  done,        \* keys whose insertion has ended
  tt,          \* the client's translation table: <<leaf, low bits of its incarnation>>
  rpc,         \* the reader: "idle", "post", "read", "search", "value", "found", "missed" or "link", "copy", "end", "lost"
  rkey, pages, \* a lookup: its key, and the pages of the predicted range not yet emplaced
  ops,         \* operations of the BatchOp not yet executed
  got,         \* what the reader copied: leaf -> keys
  left,        \* slots of the current leaf not read yet
  hit,         \* leaf and slot of the key
  val,         \* the value fetched
  hasty,       \* ghost: the key was found, or its lookup began, before its insertion ended
  cur, nxt,    \* an iterator: the leaf it reads, and the link it loaded
  seen,        \* keys it returned
  due,         \* ghost: the keys stored when it began
  incar,       \* ghost: the leaf's incarnation when its link was loaded
  raced        \* ghost: a split overlapped its copy of a leaf

tree == <<leaves, low, splits>>
writer == <<wpc, wkey, wnode, widx, pivot, todo, full, done>>
lookup == <<rkey, pages, ops, hit, val, hasty>>
scan == <<cur, nxt, seen, due, incar, raced>>
vars == <<tree, writer, tt, rpc, lookup, got, left, scan>>

ValOf(k) == k + 1
LeafId == 1..Len(leaves)
NoHit == <<Null, 0>>

\* The members of a set of numbers in increasing order.
Ascending(S) == CHOOSE q \in [1..Cardinality(S) -> S] :
                  \A i, j \in 1..Cardinality(S) : i < j => q[i] < q[j]

Init ==
  /\ leaves = <<EmptyLeaf>> /\ low = <<0>> /\ splits = <<0>>
  /\ wpc = "idle" /\ wkey = 0 /\ wnode = Null /\ widx = 0
  /\ pivot = kInvalidKey /\ todo = <<>> /\ full = EmptyLeaf /\ done = {}
  /\ tt = <<>> /\ rpc = "idle"
  /\ rkey = 0 /\ pages = <<>> /\ ops = <<>> /\ hit = NoHit /\ val = NoVal /\ hasty = FALSE
  /\ got = <<>> /\ left = {}
  /\ cur = Null /\ nxt = Null /\ seen = <<>> /\ due = {} /\ incar = 0 /\ raced = FALSE

TypeOK ==
  /\ leaves \in Seq(Leaf) /\ low \in Seq(Key) /\ splits \in Seq(Nat)
  /\ wpc \in {"idle", "add", "value", "move", "new", "last", "link"}
  /\ wkey \in Key /\ wnode \in 0..Len(leaves) /\ widx \in Slot
  /\ pivot \in Key \cup {kInvalidKey} /\ todo \in Seq(Slot) /\ full \in Leaf /\ done \subseteq Key
  /\ tt \in Seq((1..Len(leaves)) \X (0..(TableMod - 1)))
  /\ rpc \in {"idle", "post", "read", "search", "value", "found", "missed", "link", "copy", "end", "lost"}
  /\ rkey \in Key /\ Len(ops) <= BatchSize /\ left \subseteq Slot
  /\ hit \in (0..Len(leaves)) \X Slot /\ val \in Nat /\ hasty \in BOOLEAN
  /\ cur \in 0..Len(leaves) /\ nxt \in 0..Len(leaves) /\ seen \in Seq(Key) /\ due \subseteq Key
  /\ incar \in 0..(IncarMod - 1) /\ raced \in BOOLEAN

-----------------------------------------------------------------------------
(* The insertion: one step per store that a reader can see. *)

FindLeaf(k) == CHOOSE n \in DOMAIN low : /\ low[n] <= k
                                         /\ \A m \in DOMAIN low : low[m] <= k => low[m] <= low[n]

InsertBegin(k) ==
  /\ wpc = "idle" /\ k \notin done
  /\ tt = <<>> => \E n \in Loads : Cardinality(done) < n
  /\ wkey' = k /\ wnode' = FindLeaf(k)
  /\ wpc' = "add"
  /\ UNCHANGED <<tree, widx, pivot, todo, full, done, tt, rpc, lookup, got, left, scan>>

\* add_key stores the key of the new entry; its value comes later.
AddKey ==
  LET i == First(Free(leaves[wnode])) IN
  /\ wpc = "add" \/ (wpc = "new" /\ wkey < pivot)
  /\ Free(leaves[wnode]) # {}
  /\ leaves' = [leaves EXCEPT ![wnode].keys[i] = wkey]
  /\ widx' = i
  /\ wpc' = IF wpc = "add" THEN "value" ELSE "last"
  /\ UNCHANGED <<low, splits, wkey, wnode, pivot, todo, full, done, tt, rpc, lookup, got, left, scan>>

\* value_update
ValueUpdate ==
  /\ wpc \in {"value", "last"}
  /\ leaves' = [leaves EXCEPT ![wnode].vals[widx] = ValOf(wkey)]
  /\ wpc' = IF wpc = "value" THEN "idle" ELSE "link"
  /\ done' = IF wpc = "value" THEN done \cup {wkey} ELSE done
  /\ UNCHANGED <<low, splits, wkey, wnode, widx, pivot, todo, full, tt, rpc, lookup, got, left, scan>>

\* A full leaf: the incarnation is incremented before anything moves.
SplitBegin ==
  LET l == leaves[wnode] IN
  /\ wpc = "add" /\ Free(l) = {}
  /\ \E m \in MedianSlots(l) :
       /\ pivot' = l.keys[m]
       /\ todo' = <<m>> \o Ascending(Above(l, l.keys[m]))
  /\ leaves' = Append([leaves EXCEPT ![wnode].incarnation = (@ + 1) % IncarMod], EmptyLeaf)
  /\ splits' = Append([splits EXCEPT ![wnode] = @ + 1], 0)
  /\ full' = l
  /\ wpc' = "move"
  /\ UNCHANGED <<low, wkey, wnode, widx, done, tt, rpc, lookup, got, left, scan>>

Cand == Len(leaves)

\* Faulty variant: the moved key is not cleared.
MoveKey_Kept ==
  LET i == Head(todo)
      l == leaves[wnode] IN
  /\ wpc = "move" /\ todo # <<>>
  /\ leaves' = [leaves EXCEPT ![Cand] = Add(@, l.keys[i], l.vals[i])]
  /\ todo' = Tail(todo)
  /\ wpc' = IF Len(todo) = 1 THEN "new" ELSE "move"
  /\ UNCHANGED <<low, splits, wkey, wnode, widx, pivot, full, done, tt, rpc, lookup, got, left, scan>>

\* The pivot, then the larger keys: copied to the candidate, then cleared here.
MoveKey ==
  LET i == Head(todo)
      l == leaves[wnode] IN
  /\ wpc = "move" /\ todo # <<>>
  /\ leaves' = [leaves EXCEPT ![Cand] = Add(@, l.keys[i], l.vals[i]), ![wnode] = Clear(@, {i})]
  /\ todo' = Tail(todo)
  /\ wpc' = IF Len(todo) = 1 THEN "new" ELSE "move"
  /\ UNCHANGED <<low, splits, wkey, wnode, widx, pivot, full, done, tt, rpc, lookup, got, left, scan>>

\* The new key belongs to the candidate.
NewKeyRight ==
  /\ wpc = "new" /\ wkey > pivot
  /\ leaves' = [leaves EXCEPT ![Cand] = Add(@, wkey, ValOf(wkey))]
  /\ wpc' = "link"
  /\ UNCHANGED <<low, splits, wkey, wnode, widx, pivot, todo, full, done, tt, rpc, lookup, got, left, scan>>

\* Faulty variant: the candidate does not take over the link.
Link_Cut ==
  /\ wpc = "link"
  /\ leaves' = [leaves EXCEPT ![wnode].next = Cand]
  /\ low' = Append(low, pivot)
  /\ done' = done \cup {wkey}
  /\ wpc' = "idle"
  /\ pivot' = kInvalidKey /\ full' = EmptyLeaf
  /\ UNCHANGED <<splits, wkey, wnode, widx, todo, tt, rpc, lookup, got, left, scan>>

\* The candidate takes over the link and becomes the next leaf; then the inner nodes
\* learn the pivot.
Link ==
  /\ wpc = "link"
  /\ leaves' = [leaves EXCEPT ![Cand].next = leaves[wnode].next, ![wnode].next = Cand]
  /\ low' = Append(low, pivot)
  /\ done' = done \cup {wkey}
  /\ wpc' = "idle"
  /\ pivot' = kInvalidKey /\ full' = EmptyLeaf
  /\ UNCHANGED <<splits, wkey, wnode, widx, todo, tt, rpc, lookup, got, left, scan>>

-----------------------------------------------------------------------------
(* Training: the table lists the leaves in order, and keeps of each incarnation what  *)
(* the bits below the address hold.                                                   *)

Linked == CHOOSE f \in [LeafId -> LeafId] : \A i, j \in LeafId : i < j => low[f[i]] < low[f[j]]

Train ==
  /\ tt = <<>> /\ wpc = "idle" /\ done # {} /\ Cardinality(done) \in Loads
  /\ tt' = [i \in LeafId |-> <<Linked[i], leaves[Linked[i]].incarnation % TableMod>>]
  /\ splits' = [i \in LeafId |-> 0]
  /\ UNCHANGED <<leaves, low, writer, rpc, lookup, got, left, scan>>

-----------------------------------------------------------------------------
(* A client's lookup. *)

\* The table page that held key k when the table was made.
HomePage(k) == CHOOSE p \in DOMAIN tt :
                 /\ low[tt[p][1]] <= k
                 /\ \A q \in DOMAIN tt : low[tt[q][1]] <= k => q <= p

\* core_eval: the predicted pages have the key's one among them.
LookupBegin(k, ns, ne) ==
  /\ rpc = "idle" /\ tt # <<>>
  /\ HomePage(k) \in ns..ne /\ ne - ns + 1 <= MaxPages
  /\ rkey' = k
  /\ pages' = [i \in 1..(ne - ns + 1) |-> tt[ns + i - 1][1]] /\ ops' = <<>>
  /\ got' = <<>> /\ left' = Slot
  /\ hasty' = (k \notin done)
  /\ rpc' = "post"
  /\ UNCHANGED <<tree, writer, tt, hit, val, scan>>

\* Faulty variant: a full batch is not executed.
Emplace_Late ==
  /\ rpc = "post"
  /\ ops' = Append(ops, Head(pages)) /\ pages' = Tail(pages)
  /\ rpc' = IF Len(pages) = 1 THEN "read" ELSE "post"
  /\ UNCHANGED <<tree, writer, tt, rkey, hit, val, hasty, got, left, scan>>

\* One round of the loop over the pages: a read is put into the batch, and execute_async
\* posts the batch when it is full, and when the loop has ended.
Emplace ==
  /\ rpc = "post"
  /\ ops' = Append(ops, Head(pages)) /\ pages' = Tail(pages)
  /\ rpc' = IF Len(ops) + 1 = BatchSize \/ Len(pages) = 1 THEN "read" ELSE "post"
  /\ UNCHANGED <<tree, writer, tt, rkey, hit, val, hasty, got, left, scan>>

Copied(n, i) == IF n \in DOMAIN got THEN [got[n] EXCEPT ![i] = leaves[n].keys[i]]
                ELSE [j \in Slot |-> IF j = i THEN leaves[n].keys[i] ELSE kInvalidKey]
Copy(n, i) == [m \in DOMAIN got \cup {n} |-> IF m = n THEN Copied(n, i) ELSE got[m]]

\* The network card reads one key of the first operation; nothing orders the slots.
\* execute_async waits for the last operation and leaves the batch empty; then the loop
\* goes on with the next page, or is over.
ReadSlot(i) ==
  LET n == Head(ops) IN
  /\ rpc = "read" /\ i \in left
  /\ got' = Copy(n, i)
  /\ \/ /\ left # {i}
        /\ left' = left \ {i}
        /\ UNCHANGED <<rpc, ops>>
     \/ /\ left = {i} /\ Len(ops) > 1
        /\ left' = Slot
        /\ ops' = Tail(ops)
        /\ UNCHANGED rpc
     \/ /\ left = {i} /\ Len(ops) = 1 /\ pages # <<>>
        /\ left' = Slot /\ ops' = <<>>
        /\ rpc' = "post"
     \/ /\ left = {i} /\ Len(ops) = 1 /\ pages = <<>>
        /\ left' = {} /\ ops' = <<>>
        /\ rpc' = "search"
  /\ UNCHANGED <<tree, writer, tt, rkey, pages, hit, val, hasty, scan>>

\* The key is looked for on the copied pages in the order of the table, or the
\* assertion at the end fails.
Hits == {p \in DOMAIN tt : tt[p][1] \in DOMAIN got /\ \E i \in Slot : got[tt[p][1]][i] = rkey}
SearchPages ==
  /\ rpc = "search"
  /\ \/ /\ Hits # {}
        /\ hasty' = (rkey \notin done)
        /\ LET n == tt[First(Hits)][1] IN
           hit' = <<n, First({i \in Slot : got[n][i] = rkey})>>
        /\ rpc' = "value"
     \/ /\ Hits = {}
        /\ hit' = <<tt[HomePage(rkey)][1], 0>>
        /\ rpc' = "missed"
        /\ UNCHANGED hasty
  /\ UNCHANGED <<tree, writer, tt, rkey, pages, ops, got, left, val, scan>>

\* Faulty variant: the slot is left out of the address.
ReadValue_First ==
  /\ rpc = "value"
  /\ val' = leaves[hit[1]].vals[0]
  /\ rpc' = "found"
  /\ UNCHANGED <<tree, writer, tt, rkey, pages, ops, hit, hasty, got, left, scan>>

\* The second read, at value_offset of the slot.
ReadValue ==
  /\ rpc = "value"
  /\ val' = leaves[hit[1]].vals[hit[2]]
  /\ rpc' = "found"
  /\ UNCHANGED <<tree, writer, tt, rkey, pages, ops, hit, hasty, got, left, scan>>

LookupEnd ==
  /\ rpc \in {"found", "missed"}
  /\ rpc' = "idle"
  /\ rkey' = 0 /\ hit' = NoHit /\ val' = NoVal /\ hasty' = FALSE /\ got' = <<>>
  /\ UNCHANGED <<tree, writer, tt, pages, ops, left, scan>>

-----------------------------------------------------------------------------
(* A sorted iterator over the whole tree, from the leftmost leaf. *)

Splitting(n) == wnode = n /\ wpc \in {"move", "new", "last", "link"}

ScanBegin ==
  /\ rpc = "idle" /\ tt # <<>>
  /\ cur' = 1
  /\ due' = done
  /\ rpc' = "link"
  /\ UNCHANGED <<tree, writer, tt, lookup, got, left, nxt, seen, incar, raced>>

\* read_from loads the link before the keys.
LoadLink ==
  /\ rpc = "link"
  /\ nxt' = leaves[cur].next
  /\ left' = Slot
  /\ rpc' = "copy"
  /\ incar' = leaves[cur].incarnation
  /\ raced' = (raced \/ Splitting(cur))
  /\ UNCHANGED <<tree, writer, tt, lookup, got, cur, seen, due>>

SortedKeys(n, i) == Ascending({Copied(n, i)[j] : j \in Slot} \ {kInvalidKey})

\* Faulty variant: the link is loaded after the keys.
CopySlot_LinkLast(i) ==
  /\ rpc = "copy" /\ i \in left
  /\ raced' = (raced \/ leaves[cur].incarnation # incar)
  /\ \/ /\ left # {i}
        /\ left' = left \ {i}
        /\ got' = Copy(cur, i)
        /\ UNCHANGED <<rpc, cur, nxt, seen>>
     \/ /\ left = {i}
        /\ left' = {} /\ got' = <<>>
        /\ seen' = seen \o SortedKeys(cur, i)
        /\ cur' = leaves[cur].next /\ nxt' = Null
        /\ rpc' = IF cur' = Null THEN "end" ELSE "link"
  /\ UNCHANGED <<tree, writer, tt, lookup, due, incar>>

\* The keys are copied (XTreeIter copies the structure, so in any order) and sorted;
\* the iterator then returns them, and goes to the leaf whose link it loaded.  On an
\* empty copy the assertion of seek_impl fails; in next_impl the index passes the last
\* slot and the iterator never leaves the leaf.
CopySlot(i) ==
  /\ rpc = "copy" /\ i \in left
  /\ raced' = (raced \/ leaves[cur].incarnation # incar)
  /\ \/ /\ left # {i}
        /\ left' = left \ {i}
        /\ got' = Copy(cur, i)
        /\ UNCHANGED <<rpc, cur, nxt, seen>>
     \/ /\ left = {i}
        /\ left' = {} /\ got' = <<>>
        /\ seen' = seen \o SortedKeys(cur, i)
        /\ cur' = nxt /\ nxt' = Null
        /\ rpc' = IF SortedKeys(cur, i) = <<>> THEN "lost" ELSE IF nxt = Null THEN "end" ELSE "link"
  /\ UNCHANGED <<tree, writer, tt, lookup, due, incar>>

ScanEnd ==
  /\ rpc = "end"
  /\ rpc' = "idle"
  /\ seen' = <<>> /\ due' = {} /\ incar' = 0 /\ raced' = FALSE
  /\ UNCHANGED <<tree, writer, tt, lookup, got, left, cur, nxt>>

-----------------------------------------------------------------------------
WriterNext == \/ \E k \in Key : InsertBegin(k)
              \/ AddKey \/ ValueUpdate \/ SplitBegin \/ MoveKey \/ NewKeyRight \/ Link

LookupNext == \/ \E k \in Key, ns, ne \in DOMAIN tt : LookupBegin(k, ns, ne)
              \/ Emplace
              \/ \E i \in Slot : ReadSlot(i)
              \/ SearchPages \/ ReadValue \/ LookupEnd

ScanNext == ScanBegin \/ LoadLink \/ (\E i \in Slot : CopySlot(i)) \/ ScanEnd

Next == WriterNext \/ Train \/ LookupNext \/ ScanNext

Spec == Init /\ [][Next]_vars

-----------------------------------------------------------------------------
\* The incarnation in the table tells that the leaf has split since.
Moved(n) == \E p \in DOMAIN tt : tt[p][1] = n /\ tt[p][2] # leaves[n].incarnation % TableMod

\* The leaf has split so often that the bits in the table are the same again.
Unseen(n) == splits[n] # 0 /\ splits[n] % TableMod = 0

\* A lookup returns the key's value, unless the key's insertion had not ended
\* (xnode.hh:190 stores the key before its value), or the leaf has split since the
\* table was made.  The client does not compare the incarnation (eval_c.hh:126,
\* eval_c.hh:116): then the key may be missed, and the slot it was found in may hold
\* the value of another key.  The eight bits the table has of the incarnation
\* (translation_table.hh:51) would tell it, but for a leaf that has split a multiple
\* of 256 times.
ReadIsRight ==
  /\ rpc = "found" /\ val # ValOf(rkey) => hasty \/ Moved(hit[1]) \/ Unseen(hit[1])
  /\ rpc = "missed" => hasty \/ Moved(hit[1]) \/ Unseen(hit[1])

\* The keys an iterator returns rise strictly although leaves split under it, so none
\* is returned twice: the link is loaded before the keys (iter.hh:81).
SortedScanLive == \A i, j \in DOMAIN seen : i < j => seen[i] < seen[j]

\* An iterator loses a stored key, or finds a leaf empty and with it its way, only if
\* a leaf was splitting between the load of its link and the copy of its keys
\* (iter.hh:106, iter.hh:52).  Its incarnation alone would not tell: the split may have
\* begun before the link was loaded.
ScanLosesOnlyToSplits ==
  /\ rpc = "end" => raced \/ due \subseteq Range(seen)
  /\ rpc = "lost" => raced

\* The stores of a split add up to the split that XTree takes as one step.
SplitIsAtomic ==
  wpc = "link" =>
    LET same(a, b) == a.keys = b.keys /\ a.vals = b.vals /\ a.incarnation = b.incarnation
    IN \E m \in MedianSlots(full) :
         /\ same(leaves[wnode], SplitLeft(full, m, wkey, ValOf(wkey), Cand))
         /\ same(leaves[Cand], SplitRight(full, EmptyLeaf, m, wkey, ValOf(wkey)))

=============================================================================
