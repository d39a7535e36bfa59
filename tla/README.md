# XStore: a TLA+ verification project

XStore (`src/`) is an ordered key-value store over RDMA. A server keeps an
in-memory tree index; clients look keys up with one-sided RDMA READs of its
leaves, guided by a learned cache that predicts in which leaves a key is, and
fall back to RPC. This directory models the parts of the code whose correctness
depends on interleavings, on long series of legal calls or on numeric edges,
checks them with TLC on small instances, and proves the most important
properties with TLAPS for every size.

## Components

| Component | State | Operations | Interacts with | Hard because | Correct when |
|---|---|---|---|---|---|
| Versioned object, `xcomm/src/atomic_rw` | `seq`, payload, `seq_check`; a reader's copy and `retry_cnt` | `begin_write`, stores, `done_write`; `atomic_read` | values of leaves; local and remote readers | the copy and the update interleave word by word; the number wraps; the copy's order matters | a copy that is returned is one whole update, and reads end |
| RTM scope, `xutils/rtm.hh`, `spin_lock.hh` | lock word, abort counters, read sets | scope entry and exit, lock, unlock | wraps `CXTree::get` and `insert_core` | transactions and lock holders run side by side; any step may abort | scopes are atomic and end |
| Leaf, `xkv_core/src/xtree/{xkeys,xnode}.hh` | N unsorted slots, incarnation, next link | add, search, clear, median split | tree, iterators, remote readers | odd and even N, equal keys, a half-moved leaf | a split partitions the keys at the pivot |
| Tree, `xtree/{mod,inner_node}.hh`, `xtree_con.hh`, `xalloc.hh` | inner nodes, root, depth, one pre-allocated leaf per thread, slab | get, `insert_w_alloc`, `insert_core`, `take_pre_alloced_leaf` | RTM scope, slab, iterators | splits climb; leaf hand-over happens outside the transaction; the slab ends | lookups find what was inserted, the leaf list is sorted, every leaf has one owner |
| Iterators, `xtree/{iter,sorted_iter,page_iter}.hh` | copy of a leaf, its link, index, counter | from, seek, next, has_next | tree, trainers | the leaf splits after it was copied | nothing twice, nothing missed |
| Trainer, `xcache/src/submodel_trainer.hh` | key range, two watermarks | `update_key`, `train_w_it_w_shrink` | iterators, model | watermarks are read and written outside the mutex | every reported key is trained on |
| Learned cache, `xcache/src`, `x_ml/src/xmodel.hh` | two model layers, error bounds, translation table | dispatch, sample, train, predict | trainers, client | clamps, shrunk training sets, page boundaries | the predicted pages contain the key's leaf |
| RPC and UD transport, `xcomm/src/{rpc,transport}`, `xcomm/benchs/rpc_*.cc` | sessions, reply entries per coroutine, posted receives | connect, request, reply, poll | server callbacks, client | datagrams are lost or overtaken; no timeout; receives are posted late | a reply reaches the coroutine that asked, once; receives suffice |
| Batched reads, `xcomm/src/batch_rw_op.hh` | work requests | emplace, execute | client lookup | fixed size, predictions are wider | the batch never overflows, all pages are read |
| Array index, `xarray*.hh` | array and iterator | insert, get, seek | trainers' tests | sequential | get returns what was put |
| Benchmarks, `benchs/{ycsb,data_dist}` | flags, server main and workers, client main, threads and coroutines, registered memory | load, train, serialize, META, GET, lookup, stop | all of the above | start-up order, layout of the serialized cache, either side stops at any time, stale leaves | a client finds every key; both sides end |
| Barrier, file loader, marshalling, `xutils/` | | | benchmarks | counts and boundaries | with the benchmarks |
| Numerics (`x_ml`), statistics, micro-benchmarks, scripts | | | | floating point, I/O | not modelled |

`PROJECT.json` lists each with its files and status, and the hazards of the code
line by line.

## Modules

**AtomicRW** (refines **AtomicRegister**). One step per store of the writer and
per load of a reader. A payload word is the number of the update that stored it,
so a torn copy shows as two different numbers; a sequence number has `SeqMod`
values. `Ordered` says whether the copy loads ascending addresses
(`OrderedRWOp`; also taken for an RDMA READ) or in any order (`memcpy` in
`LocalRWOp`). `asserted` is the `ASSERT(false)` of `atomic_read`; `v0` and `v1`
are ghosts. Both sequence numbers are volatile and the target is x86,
so stores take effect in program order.

**RTMScope**. `pc` walks the constructor (`begin`, `check`), the body (`tx_a`,
`tx_b`; or `cs_a` to `cs_wb` under the lock) and the destructor (`xend`,
`unlock`). The hardware is modelled by read sets and the `doomed` flag; it may
abort a transaction at any step with each of the four statuses that the
constructor counts. Statuses with none of those bits, other than the explicit
abort, are left out. The two cells `a`, `b` stand for the words of the tree.

**XNode** has the leaf as a record and its operations as operators; **XTree**
(refines **KVMap**) has the leaves and inner nodes in sequences indexed by
address, and an insertion in three steps: pre-allocate, `insert_core` (one step,
which is what RTMScope establishes), replace the used leaf. A failed assertion
or an exhausted slab stops the process (`aborted`). `Walk` is `find_leaf`,
`InnerInsert` and `Ascend` are the return path of `TreeInner::insert`. std::sort
is not stable, so among equal keys any may be the median. **XTreeIter** adds one
iterator of each kind; insertions run between two of its calls.

**XMLTrainer**. `InsertKey` puts a key into the index and `update_key` reports
it; a training is five steps. A model is the set of keys it was trained on. The
walk skips no key that was in the index when it began (XTreeIter's
`ScanExactlyOnce`) and may or may not return a later one. Without news a
training returns at once and changes nothing. The ghost `late` holds the keys
reported between the snapshot and the end of a running training, the only ones
that can be lost.

**XCache**. `train_db` of the servers and the lookup of the clients. A `setup` is
one of the programs in `benchs/`: YCSB (page sampler, step 2, error to the label)
or data_dist (all keys, step 1, error to the edge of the page), and whether the
values have variable length (`core_eval_v`). `Dispatch` gives every submodel its
key range; `Seek`, `ScanKey` and `TrainMl` are the walk that samples keys and
fills the translation table, and the end of it; `CalError` measures one sample.
The walk numbers the leaves with a counter of its own, `logic_page_id`, and the
table grows beside it: that both agree is part of `LabelsTranslate`.
`Lookup` predicts the pages, then the client reads them or goes by RPC, whose
answer is the tree's (KVMap). The index does not change after the load, as in the
benchmarks, and is any list of leaves that XTree can leave: sorted, at least half
full (`LeafListSorted`, `LeavesHalfFull`). Trained models are arbitrary functions
of the key: monotone ones for the linear regression, whose labels ascend with the
keys, any for the others. Predictions are taken after the truncation to `int`. The
address of a leaf is its place in the list, and an entry of the translation table
keeps 8 bits of the incarnation below it. A read at an address that is no leaf
finds nothing: the address shifted by the incarnation lies outside the registered
memory, and the client asserts that the read succeeds.

**LiveReads** opens two steps that the modules above take as one, the split of a
leaf and the copy of a leaf, for those that read without the lock or a
transaction. `InsertBegin` to `Link` are the stores of `insert_core` on leaves, one
step per store a reader can see; the inner nodes are the table `low` of the least
key of each leaf. `Train` fills the table, with the low bits of each leaf's
incarnation (`TableMod` values, 256 in `translation_table.hh:51`) beside it.
`LookupBegin` to `LookupEnd` are `core_eval` of `data_dist`: one round of the loop puts
one page of the prediction into a `BatchOp` (`Emplace`), a full batch is executed before
the next round, the card copies each leaf slot by slot in any order, the key is
searched, and a second READ fetches the value. No benchmark program inserts after
training, so this is `core_eval` as it would run beside insertions, which the
concurrent tree and the incarnations in the table are made for.
`ScanBegin` to `ScanEnd` are the sorted iterator: the link, then the keys, then on to
the leaf of that link. The prediction is any range of pages around the page that held
the key when the table was made, which is what XCache establishes. Readers change
nothing, so one at a time shows what any number can see. A lookup with a stale table
may miss its key or return another key's value, and an iterator may lose keys;
`ReadIsRight` and `ScanLosesOnlyToSplits` state the only ways in which they can. The
ghost `splits` counts the splits of each leaf since training: after a multiple of
`TableMod` of them the bits in the table are the same again, and a client that compared
them would not see that the leaf has changed (`Unseen`).

**RPC** defines the handlers of the RPC layer and of the UD transport without a
next-state relation of its own. An endpoint is a queue pair with the datagrams that
have arrived (`inbox`), how many of them the current poll returned (`polled`), and
the receives it has used up (`held`): `end()` posts them again after the last one.
`Send` is the network: a datagram arrives, finds no receive, is lost, or overtakes
the one before it (`MaxFaults` bounds the last two; a UD network does not duplicate).
`sessions` is `incoming_sesions`, including the empty entry that `operator[]` makes
for an unknown id, and `station` the reply station. `crashed` are threads that failed
an assertion or called a null channel. `unlinked` and `gone` are ghosts: what the
network has spoilt. **RPCBench** composes it with `rpc_client.cc` and `rpc_server.cc`:
server threads run the receive loop until a stop request clears `running`; a client
thread connects, then runs one coroutine or the poll future at a time.

**Service** composes RPC with the two key-value benchmarks. `flags` are the command
lines of the processes, one of `Deployments`. Server: `MainBoot` to `MainExit` are
`main`, `WorkerStart` to `WorkerExit` a worker; both meet at the barrier. Client:
`ThreadConnect` to `ThreadRun` are a thread up to its barrier, with thread 0 fetching
the index for its process; the coroutines then look keys up. A thread whose assertion
fails takes its process with it. The tree and the models are abstract here: the leaf
of a key follows from its rank, and a table lists the leaves of its submodel's keys
(what XTree and XCache check in detail). Whether a lookup goes by READ or by RPC is
left open, as it depends on the width of the prediction. **DataSets** has the loaders
and key encodings with `HalfBits` bits to half a word; **XImage** the serialized index
in cells of four bytes, so that alignment and offsets are real.

`MC*` modules instantiate these for TLC. Definitions with an underscore suffix
(`LockIsFree_Outside`, ...) are faulty variants of the definition they precede:
with any of them in its place a property named in `PROJECT.json` fails, which
shows that the property depends on that code.

## What TLC checks

| Run | Bounds | Shows |
|---|---|---|
| `seqlock` | 2 words, 4 sequence numbers, 3 updates | `NoTornRead`, refinement of the register; `ReadReturns`; the last update wraps to `kInvalidSeq` |
| `rtm` | 2 threads, 2 scopes each | `NoLostUpdate`, `ConsistentReads`, `FallbackExcludes` in every mixture of transactions and lock holders; `ScopesEnd` |
| `tree_orders` | N = 2, 7 keys, all orders | `NoAssertFails`, `LeafListSorted`, `IncarnationGuardsMoves`, refinement of the map, to depth 3 |
| `tree_threads` | 2 threads, N = 4, 9 keys, 5 leaves, nearly ascending | splits that move several keys keep `LeavesHalfFull`; `LeafOwnership` of pre-allocated leaves of two threads; an exhausted slab |
| `tree_iterators` | N = 3, 6 keys | exactly-once scans across uneven splits |
| `trainer` | 4 keys | watermarks, coverage of the snapshot, `OnlyLateReportsLost`, `ReportedIsTrained` |
| `xcache` | N = 4, 8 keys on 2 to 4 leaves, 2 submodels, 4 routers, 15 lines, 4 other models | `LabelsTranslate`: the labels address the translation table; `KeyInRange`, `LookupSucceeds`, `TrainingEnds` |
| `live` | N = 3, 6 keys, 3 or 5 of them loaded before training, up to 3 pages in batches of 2, `IncarMod` 4, `TableMod` 2 | `ReadIsRight`, `SortedScanLive`, `ScanLosesOnlyToSplits` at the granularity of loads and stores; `SplitIsAtomic`, which justifies the single step of XTree |
| `rpc` | 2 client threads of 2 coroutines, 2 server threads, 2 calls per thread, 1 fault, the fewest receives | `OneInFlight`, `SessionIsCurrent`, `NullChannelNeedsFault`, `NoOverflow`, `ThreadEnds` |
| `service` | 12 deployments: both programs, all 6 data sets, up to 2 server threads and 3 client threads in 2 processes, 1 fault | `CopyIsIndex`, `LookupsAreRight`, `ServerFailsOnlyByFault`, `OrdersStayApart`, `ClientEnds`, `ServerEnds` |

The bounds are the smallest at which the case in question happens: the refinement
of the register needs fewer updates than sequence numbers, and that a number comes
round during a copy is left to the proof of `NoTornRead`; an inner node splits from N + 1 leaves on, so with N = 2 seven keys
split inner nodes on two levels; two threads allow a lock holder beside a fresh or
a doomed transaction, and the proofs cover more; eight keys on leaves of two to
four give walks that start and end inside the list, pages with one sample at the
end, and predictions that miss by up to three pages on either side, more than the
batch of two. With N = 3 a split
moves two of three keys, so a reader can fall between any two of its stores, and the
keys that arrive after training make tables stale; three of them can split one leaf
twice, after which the bit of its incarnation in the table is what it was. A server thread with
2 coroutines at its client needs 4 receives (`Fits`); thread 1 of `rpc` gets fewer, so that the drop itself happens too. One fault
is enough to lose or overtake each kind of datagram, and a lost one is never repaired,
so a second one adds no new kind of state. The deployments of `service` have, besides
the ordinary ones: orders that do not fit half a word, an order that fails the
assertion on the district, an index that does not fit the memory, a client that asks
for keys not loaded, a client thread without its server thread, a check of more
submodels than exist, and a YCSB index with an odd number of submodels. The routers send keys to one submodel, to both in order, and
alternating, so that ranges are empty or overlap. `NearlyAscending` narrows the
insertion orders of the larger instances to keys at most `Window` places out of
order. The incarnation has its 16 bits (`IncarMod`) in the runs of the tree and any
number of values in the proofs; in `live` it has 4 values, of which the table tells 2
apart, so that its bits come round.

`TypeOK` of each module states its types. It is an invariant of the runs where it bounds
something (the inner nodes of `tree_orders`, the batch of `live`), and proved for
AtomicRW, RTMScope, XTree and LiveReads.

Deadlock checking is off where the system may really stop: all keys inserted,
all scopes run, the process aborted.

### Disagreements between code and its documentation

| Run | Property | What TLC shows |
|---|---|---|
| `xcache_vlen` | `LookupSucceeds` | `core_eval_v` reads at entries of the translation table that still carry the incarnation (`eval_c.hh:149`); `translation_table.hh:42` trims it |
| `trainer_lost` | `NoLostRetrain` | a key reported during a background training is never trained on, against `submodel_trainer.hh:64` |

`ReadReturns` carries one exception: `done_write` lets `seq` wrap to `kInvalidSeq`,
and the object, although at rest, then reads as being written (`wrapper_type.hh:19`)
until its next update.

Other things the modelling brought up, which no run is kept for:

- `LocalRWOp` copies with `memcpy`, whose loads have no order; with `Ordered = FALSE`
  a torn copy passes `consistent()`, although `test_local_concurrent.cc:85` says it
  should work. `retry_cnt` is cleared at the label `retry`, so the limit asserted at
  `atomic_rw/mod.hh:46` is out of reach.
- With `MaxPerKey = 2` (equal keys, which `data_dist` loads) a series of splits fails
  `ASSERT(k >= threshod)`, `inner_node.hh:114`.
- A YCSB client looks for the tables right behind the submodels, the server aligns them
  (`ycsb/client.cc:241`, `server/db.hh:287`): with an odd number of submodels the tables
  are misread. `CopyIsIndex` and `LookupsAreRight` are stated but for this case, and the
  run contains it.
- The client strips the incarnation from its table and does not compare it, so after a
  split a lookup may fail its assertion or return another key's value. For an iterator
  comparing the incarnation would not even suffice: the split may have begun before the
  link was loaded.
- An entry of `incoming_sesions` made by `operator[]` stays null although the Connect
  comes later, and an id that is used again keeps the queue pair of its first user.
- A stop request of one `rpc_client` thread ends the server for all; a call has no
  timeout, so a client whose server stops first waits for ever.
- A reply station has twelve entries, so a thread of more than eleven coroutines fails
  the assertion at `reply_station.hh:52`. The coroutines of `rpc_client.cc` build their
  requests in one buffer, which is safe only as long as small sends are inlined.
- `core_eval_v` of both programs puts any number of pages into a batch of sixteen
  (`data_dist/eval_c.hh:193`, `ycsb/eval_c.hh:145`). `core_eval` of YCSB needs no flush:
  it goes by RPC beyond the ten pages its batch holds. The buffers of the coroutines of
  `data_dist` hold pages of 128 bytes, fewer than are read (`client.cc:351`).
- The table's eight bits of an incarnation repeat after 256 splits of a leaf
  (`translation_table.hh:51`), so comparing them, which no client does, would not catch
  every stale leaf.
- `TPCCKey` asserts that the district is small, not that the key fits its word.
- `load_map` loads one key more than asked for, `load_tpcc` and `load_ar` at least one.
  The client of `data_dist` fills no keys for `ar` and `map`, so these two are deployed
  without client threads.

### Fairness

- `AtomicRW!FairSpec`: the writer goes on between `begin_write` and `done_write`,
  and a thread inside `atomic_read` goes on; both are straight-line code or busy
  loops. Neither has to start another operation.
- `RTMScope!FairSpec`: weak fairness of each thread inside a scope (busy loops).
  Nothing makes a transaction commit or the lock fair; scopes end because aborts
  are limited and each thread runs finitely many scopes (`MaxScopes`).
- `XMLTrainer!FairSpec`: a training runs to its end, and its owner starts one
  when `need_train` holds, as `train_db` does after the dispatch.
- `RPCBench!Fairness`: a server thread is a busy loop. The scheduler of a client
  thread polls the future and serves every ready coroutine in turn, hence weak
  fairness of each. Nothing makes a datagram arrive: a lost one is an outcome of its
  sending.
- `Service!Fairness`: the same for its workers, threads and coroutines; `main` of
  server and client run straight-line code with a loop of fixed length, so the serving
  time and the report end.
- LiveReads has no fairness and no liveness.
- `XCache!FairSpec`: `train_db`, one thread of straight-line code and loops, goes
  on. Clients need no fairness.

## What TLAPS proves

For every value of the constants, from the assumptions in the modules:

- **AtomicRWProofs**: `TypeCorrect`; `ReadsAreAtomic` (`Spec => []NoTornRead`
  when copies are ordered); `RegisterRefinement` (the register, for fewer updates
  than sequence numbers). `NoTornRead` is not inductive. The invariant adds what
  the writer has stored at each of its places, and for a reader what the prefix
  it copied says: a valid `seq` it has seen pins the version of the words behind
  it unless the writer has moved on, in which case `seq_check` can match again
  only after a full round of the sequence number.
- **RTMScopeProofs**: `TypeCorrect`, `UpdatesAreAtomic`, `ReadsAreConsistent`,
  `FallbackIsExclusive`. The invariant: holders are unique and hold the lock; a
  transaction past its check that is not doomed has the lock in its read set and
  the lock is free, and what it has read is still there; likewise for a holder
  until it stores.
- **XMLTrainerProofs**: `OneTrainingOwed`, `SnapshotIsCovered`,
  `ReportsInTimeAreKept`. The invariant: the range covers the reported keys, and
  the walk has collected every snapshot key it has passed.
- **RPCBenchProofs**: `RepliesGoHome` (`SessionIsCurrent`), from the invariant that a
  Connect on the wire carries the queue pair of the client whose id it has;
  `NullChannelsNeedFaults` (`NullChannelNeedsFault`). For the second, a session is in
  one of three states as long as the network spares its Connect: the client has sent
  nothing, its worker knows it, or its Connect waits in the worker's queue ahead of all
  its other datagrams. Lemmas about queues say how arriving, overtaking and taking
  keep that order. Both rest on session ids being unique (`UniqueSessionIds`).
  `CallsAreSingle` (`OneInFlight`) and `ReceivesSuffice` (`NoOverflow`), from `FlowInv`:
  the datagrams in a queue are of distinct coroutines (`Distinct`); a pending call is
  at the server, answered or lost, and only one of them; a client whose Connect waits
  has heard nothing; and the receives that are not posted again yet belong to
  coroutines whose datagrams were polled, and are in no queue behind them (`HeldInv`).
  The second theorem counts those sets: two per coroutine and one per client thread,
  less one, is all an endpoint can owe. The set of clients is finite
  (`RPCAssumption`) and `rpc_client` casts only its stop message (`CastsAssumption`).
- **XTreeProofs**: the operators of a leaf first. `LeafSplits`: the split of a full leaf
  of distinct keys partitions its entries and the new one at the median, leaves no half
  empty and fails no assertion. The copy of the larger entries into the free slots in
  slot order is a bijection because both sides are ranked (`NthIs`, `MoveEntries`). Then
  the index above the leaves, when no key is inserted twice
  (`MaxPerKey <= 1`, as in the runs; equal keys break `NoAssertFails`, see above), for
  every node size, number of threads, order of insertion and depth: `TreeTypes`
  (`TypeOK`), `AssertionsHold` (`NoAssertFails`), `MovesAreGuarded`
  (`IncarnationGuardsMoves`) and the refinement `IndexIsMap` (`ImplementsMap`), all from
  `TreeHolds` (`Spec => []XInv`). The inner nodes are reasoned about through the paths
  of the keys, `P[x][d]` being the node at level `d` of the search for `x`; `TreeInv` is
  what makes them a tree: paths that meet came the same way (`Forks`), no node is on two
  levels (`Levels`), a separator is a key whose own search goes through its node
  (`Homes`), and some key goes left of the first one (`Lows`). `Homes` and `Lows` are
  what makes `ASSERT(k >= threshod)` hold. `Climbed` follows a split from the leaf up,
  one `InnerInsert` at a time; `PathsAfter` says which keys it sends to the new siblings.
  `LeafInv` (a key's entry is only in the leaf its search ends in) and `ThreadInv` (a
  spare leaf is empty, outside the tree, and of one thread; two threads never insert the
  same key) complete `XInv`, which TLC checked for one thread with N = 2 and two threads
  with N = 4 before it was proved.

  The list of the leaves, under the same assumption: `LeavesInOrder`
  (`LeafListSorted`), `LeavesStayHalfFull` (`LeavesHalfFull`) and `LeavesAreOwned`
  (`LeafOwnership`), from `ListHolds` (`Spec => [](XInv /\ ListInv)`).
  `Level` flattens the children of a level into the next one; `FlattenIs` says what
  `FlattenSeq` returns for a sequence of sequences that rise in some order, and
  `LevelsEnumerate` that a level lists the nodes of the paths once each, in the order of
  the keys. `ListInv` itself is over the paths, where an insertion is local: the next
  link of a leaf is the home of the next key that has another home (`NextAt`), no leaf
  below an inner node is less than half full, and a leaf no search leads to is the
  spare of a thread. A median split puts the new leaf between the split one and its
  successor (`LinksSplit`).

  The iterators between insertions: `SortedScansRise`
  (`SortedScan`) and `ScansAreExact` (`ScanExactlyOnce`), from `ScansHold`
  (`IterSpec => []ScanInv`). An iterator holds a copy of a leaf's keys and of its next
  link, both of which insertions make stale. `StepKeeps` is all that it needs of an
  insertion: a stored key stays stored, a key that moves goes to a new leaf, and the
  least key of a leaf that is reached stays in it (`Low`). Hence the low key `y` of the
  leaf behind the copied link divides the keys for good: what is returned or copied is
  below `y`, and a key that was there at `begin` is returned, in the copy, or not below
  `y` (`KeyScan`; `PageScan` says the same of pages). `SortedCopy` shows that the
  `std::sort` of a leaf's slots, modelled by ranks, returns each key once and in order.
- **XCacheProofs**: the learned cache after `train_db`, for every leaf list, router,
  number of submodels, and any of its programs: `CacheTypes`, `SampledLabelsTranslate`
  (`LabelsTranslate`), `PredictionsHoldKeys` (`KeyInRange`), `LookupsSucceed`
  (`LookupSucceeds`), from `CacheHolds`. `WalkInv` and `TableInv`: the walk of the
  iterator, its counter and the table it fills agree on the leaves, from the same first
  one;
  `AllInv` and `PageInv`: what the samplers have kept of the leaves passed; `BracketInv`:
  each key of a submodel lies between two samples of its page, so a monotone model errs
  no more on it than on them; `ErrInv` and `TrainedInv`: the errors cover the samples.
  Models of all keys may be any function, those of page samples any monotone one.
  `LookupsSucceed` is for set-ups without values of variable length: with them the
  client compares an untrimmed incarnation, which is the divergence that
  `MCXCache_vlen` shows.
- **LiveReadsProofs**: readers beside insertions, whatever the
  order of their loads: `LiveTypes`, `ScansRise` (`SortedScanLive`), `LookupsAnswer`
  (`ReadIsRight`), `ScansLoseOnlyToSplits`. `WInv` says where the keys are at every
  store of a split: a leaf holds keys between its low key and the next leaf's, those
  still to move are in both leaves, and the candidate fills from slot 0.
  `StepEffect` is all that a reader can notice of a step of the insertion, so each
  step of the writer is looked at once; the readers' invariants (`LookupInv`,
  `OrderInv`, `ScanInv`) are shown to survive any step with that effect. `LookupsAnswer`
  has no bound on leaves or splits: `LookupInv` speaks of leaves that have split
  (`splits`), and `CountInv` says that the incarnation of a leaf, modulo `TableMod`, is
  what the table had plus its splits since, although the incarnation itself wraps at
  `IncarMod` (`ModWrap`: `TableMod` divides it). Hence the bits in the table differ from
  the leaf's after a split, unless the splits are a multiple of `TableMod`
  (`ChangedIsSeen`). Complete scans are stated with whole incarnations and proved while
  `Len(leaves) <= IncarMod`: every split makes a leaf, so no counter has wrapped. Beyond
  that an iterator that sleeps for 2^16 splits of one leaf may be fooled. `LiveReads`
  keeps `Ascending` and `Linked` free of recursion for these proofs. `SplitsAreAtomic`
  (`SplitIsAtomic`) is the bridge to XTree: `StoresInv` says what the first stores of
  `raw_insert` have made of the leaf and of the candidate (TLC checked it with N = 4
  first), and `AscendingNth` that moving entries one by one in the order of their slots
  gives the ranks by which XNode's split moves them at once.

- **ServiceProofs**: the key-value services over RPC, for every data set, number of
  submodels, processes, threads and coroutines, and any loss or overtaking:
  `CopyIsRight` (`CopyIsIndex`), `LookupsSucceed` (`LookupsAreRight`), `ServerHolds`
  (`ServerFailsOnlyByFault`) and `OrdersAreApart` (`OrdersStayApart`), from `Invariance`
  (`Spec => []IInv`). None of them is inductive. `IInv` follows what is on the wire:
  `LinkInv`, that the datagrams a server thread has of a client begin with its Connect
  unless the network spoilt it; `MailInv` and `OneEach`, that a call that waits has at
  most one datagram on its way, which carries what the caller asked or the answer to it,
  although a reply names only the coroutine; `StationInv`, that a caller that is not
  waiting any more has its answer. `DataInv` is what the server's `main` has done by the
  time it is where it is; a worker answers only behind `init`, and from then on the index
  and its image stay. `LocalInv` puts the copy before the barrier: a thread runs only
  when its thread 0 has fetched. `ParsedIsIndex` shows that parsing undoes
  `serialize_db`: `ImageIs` says which cell holds what, for every number of submodels
  and every table, and `TablesInPlace` is where the parser of YCSB needs an even number
  of cells. `InOrderCovers` says that a table lists every leaf of its submodel's keys.
  `KeysKeepOrder` compares TPC-C keys digit by digit, for every width of a word. Assumed
  are the flags as the programs take them (`FlagsAssumption`: numbers, at least one
  submodel, a thread 0 in every process that has threads), a reply station with an entry
  for every coroutine (`CallsAssumption`; beyond that a client fails its assertion, see
  above), leaves with room for a key (`ServiceAssumption`) and files of numbers
  (`DataAssumption`). TLC checked `IInv` on the deployments of the run before it was
  proved.

TLAPS cannot instantiate induction theorems over a predicate; where a proof needs
induction over numbers it takes the least counterexample (`NatMin`).

Model-checked only: liveness (`ReadReturns`, `ScopesEnd`, `ReportedIsTrained`,
`TrainingEnds`, `ThreadEnds`, `ClientEnds`, `ServerEnds`), which TLAPS does not reach.
Every safety property of a passing run is proved, `LookupSucceeds` and those of the tree
under the assumptions named above.

## Not modelled, and the plan

Not modelled: floating-point models (`x_ml`; XCache takes any function for a model);
the array index, which is sequential and used by tests only; the asynchronous
`atomic_rw` operations and the ring transport, thin wrappers of a library; loading of
values of variable length; sizes of client buffers; the micro-benchmarks `bench_*`,
which time one operation; statistics, memory mapping, build and deployment scripts.
Checks of sizes that the models fix are left out: that an address survives the shift of
`add_w_incar` (`translation_table.hh:50`), that a buffer holds the object
(`atomic_rw/mod.hh:24-27`) and that a reply fits its buffer (`reply_station.hh:75`).
A crash of a server thread other than by its own assertions is not modelled: the code
has no recovery, and nothing is persistent.

Left to prove: `OneInFlight` and `NoOverflow` for the programs of Service;
RPCBenchProofs has them for the benchmark, and Service needs only that a call has at
most one datagram on its way.
