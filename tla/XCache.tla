-------------------------------- MODULE XCache --------------------------------
(***************************************************************************)
(* The learned cache: train_db of the servers (benchs/{ycsb,data_dist}/    *)
(* server/db.hh) over xcache/src and x_ml/src/xmodel.hh, and the lookups   *)
(* of the clients (eval_c.hh).  The first layer routes each key to one of  *)
(* NumSub submodels; each submodel is trained on a walk over the leaves of *)
(* its key range, which also fills its translation table; then its errors  *)
(* are measured.  A client predicts a range of logical addresses, turns it *)
(* into pages of the translation table, and reads those leaves.            *)
(*                                                                         *)
(* Training runs after the load and nothing is inserted later, so the leaf *)
(* list is fixed.  It is what XTree leaves: sorted, distinct keys, leaves  *)
(* at least half full (LeafListSorted, LeavesHalfFull).  The regressions   *)
(* are arbitrary functions of the key, truncated to int.                   *)
(***************************************************************************)
EXTENDS Integers, Sequences, FiniteSets

CONSTANTS
  N,            \* kNPageKey
  MaxKey,       \* keys are 0..MaxKey
  Loads,        \* leaf lists that a load may leave
  Routers,      \* first-layer models
  Lines,        \* second-layer models that are monotone (LR)
  Curves,       \* second-layer models of any shape (NN, MvLR)
  NumSub,       \* number of submodels
  kMaxBatch,    \* leaves a client reads at most before it falls back to RPC
  Setups        \* programs under check

Key == 0..MaxKey
Sub == 0..(NumSub - 1)
Page == [keys : Seq(Key), incarnation : Nat]

\* The leaves in list order, their keys in the order of XTreeSIter's copy.
LeafList(L) ==
  /\ L \in Seq(Page) /\ L # <<>>
  /\ \A p \in DOMAIN L :
       /\ Len(L[p].keys) \in 1..N
       /\ Len(L) > 1 => Len(L[p].keys) >= N \div 2
       /\ \A i, j \in DOMAIN L[p].keys : i < j => L[p].keys[i] < L[p].keys[j]
  /\ \A p, q \in DOMAIN L : p < q =>
       \A i \in DOMAIN L[p].keys, j \in DOMAIN L[q].keys : L[p].keys[i] < L[q].keys[j]

Monotone(f) == \A x, y \in Key : x < y => f[x] <= f[y]

\* How train_db trains: the sampler of keys ("page": PageSampler, "all":
\* DefaultSample), the step of the second sampler, whether page_updater
\* measures the error only up to the edge of the page (data_dist), and whether
\* the client is core_eval_v, for values of variable length.
Setup == [sampler : {"page", "all"}, step : {1, 2}, gap : BOOLEAN, vlen : BOOLEAN]

Programs ==
  {s \in Setup : (s.sampler = "all") <=> (s.step = 1)}

ASSUME XCacheAssumption ==
  /\ N \in Nat /\ N >= 4
  /\ MaxKey \in Nat
  /\ \A L \in Loads : LeafList(L)
  /\ Routers \subseteq [Key -> Int]
  /\ Lines \subseteq [Key -> Int] /\ \A f \in Lines : Monotone(f)
  /\ Curves \subseteq [Key -> Int]
  /\ NumSub \in Nat \ {0}
  /\ kMaxBatch \in Nat
  /\ Setups \subseteq Programs

VARIABLES
  setup, leaves, router,    \* the program, the loaded index, the first layer
  pc,                       \* step of train_db; "serve" when it is done
  start_key, end_key,       \* of each trainer
  m, page, idx,             \* submodel in training, place of its iterator
  logic_page_id,            \* leaves the iterator has entered since it sought
  smin, smax,               \* PageSampler: smallest and largest key of the page
  train, done,              \* training set, elements cal_error has measured
  second_layer, tts,        \* the cache
  cpc, ckey, ns, ne         \* a client: step, key, pages to read

index  == <<setup, leaves, router>>
walk   == <<m, page, idx, logic_page_id, smin, smax, train, done>>
client == <<cpc, ckey, ns, ne>>
vars   == <<index, pc, start_key, end_key, walk, second_layer, tts, client>>

Min2(x, y) == IF x < y THEN x ELSE y
Max2(x, y) == IF x > y THEN x ELSE y

None == [key |-> 0, label |-> -1]      \* an empty Option
NullModel == [ml |-> [k \in Key |-> 0], max |-> 0, err_min |-> 0, err_max |-> 0]

Init ==
  /\ setup \in Setups /\ leaves \in Loads /\ router \in Routers
  /\ pc = "dispatch"
  /\ start_key = [s \in Sub |-> MaxKey + 1] /\ end_key = [s \in Sub |-> -1]
  /\ m = 0 /\ page = 0 /\ idx = 0 /\ logic_page_id = 0 /\ smin = None /\ smax = None
  /\ train = <<>> /\ done = 0
  /\ second_layer = [s \in Sub |-> NullModel]
  /\ tts = [s \in Sub |-> <<>>]
  /\ cpc = "idle" /\ ckey = 0 /\ ns = 0 /\ ne = 0

-----------------------------------------------------------------------------
\* LogicAddr
encode_logic_addr(id, off) == id * N + off
decode_logic_id(a) == a \div N
decode_off(a) == a % N

\* Faulty variant: the incarnation is not masked and spills into the address.
add_w_incar_Unmasked(t, addr, incar) == Append(t, addr * 256 + incar)

\* The translation table keeps 8 bits of the incarnation beside the address.
add_w_incar(t, addr, incar) == Append(t, addr * 256 + (incar % 256))
get_wo_incar(e) == e \div 256

KeysOf(p) == {leaves[p].keys[i] : i \in DOMAIN leaves[p].keys}
Stored == UNION {KeysOf(p) : p \in DOMAIN leaves}
LeafOf(k) == CHOOSE p \in DOMAIN leaves : k \in KeysOf(p)

-----------------------------------------------------------------------------
\* Dispatcher::predict; up_bound is the number of keys the first layer was
\* trained on.
first_layer_predict(k) ==
  LET up_bound == Cardinality(Stored)
      res == Max2(router[k], 0)
  IN IF res >= up_bound THEN NumSub - 1 ELSE (res * NumSub) \div up_bound

select_sec_model(k) == Min2(first_layer_predict(k), NumSub - 1)

Routed(s) == {k \in Stored : select_sec_model(k) = s}

\* dispatch_keys_to_trainers: update_key for every key.
Dispatch ==
  /\ pc = "dispatch"
  /\ start_key' = [s \in Sub |-> IF Routed(s) = {} THEN MaxKey + 1
                                 ELSE CHOOSE k \in Routed(s) : \A j \in Routed(s) : k <= j]
  /\ end_key' = [s \in Sub |-> IF Routed(s) = {} THEN -1
                               ELSE CHOOSE k \in Routed(s) : \A j \in Routed(s) : k >= j]
  /\ pc' = "next"
  /\ UNCHANGED <<index, walk, second_layer, tts, client>>

\* The loop of train_db goes to the next trainer.
Done(s) ==
  /\ m' = s + 1
  /\ pc' = IF s + 1 = NumSub THEN "serve" ELSE "next"

\* A trainer without keys does not need_train: it returns an untrained model.
TrainNull ==
  /\ pc = "next" /\ end_key[m] = -1
  /\ Done(m)
  /\ UNCHANGED <<index, start_key, end_key, page, idx, logic_page_id, smin, smax, train,
                 done, second_layer, tts, client>>

\* Faulty variant: the leaf is not counted.
Enter_Uncounted(p, entered) ==
  /\ page' = p /\ idx' = 1 /\ logic_page_id' = Max2(entered, 1)
  /\ tts' = [tts EXCEPT ![m] = add_w_incar(@, p, leaves[p].incarnation)]

\* XCacheTreeIter::reset_old_ptr on a leaf it has not entered yet; it has counted
\* the leaves entered before.
Enter(p, entered) ==
  /\ page' = p /\ idx' = 1 /\ logic_page_id' = entered + 1
  /\ tts' = [tts EXCEPT ![m] = add_w_incar(@, p, leaves[p].incarnation)]

\* snapshpot_train_labels: seek to the leaf of start_key, with new samplers.
Seek ==
  /\ pc = "next" /\ end_key[m] # -1
  /\ Enter(LeafOf(start_key[m]), 0)
  /\ smin' = None /\ smax' = None /\ train' = <<>> /\ done' = 0
  /\ pc' = "scan"
  /\ UNCHANGED <<index, start_key, end_key, m, second_layer, client>>

CurKey == leaves[page].keys[idx]
\* opaque_val
CurLabel == encode_logic_addr(logic_page_id - 1, idx - 1)
Cur == [key |-> CurKey, label |-> CurLabel]

\* PageSampler::add_cur.
AddCur ==
  IF smin = None THEN train
  ELSE IF smax = None \/ decode_off(smin.label) = decode_off(smax.label)
       THEN Append(train, smin)
       ELSE train \o <<smin, smax>>

\* PageSampler::add_to_impl.
AddToPage ==
  \/ smin = None /\ smin' = Cur /\ UNCHANGED <<smax, train>>
  \/ /\ smin # None /\ decode_logic_id(CurLabel) # decode_logic_id(smin.label)
     /\ train' = AddCur /\ smin' = Cur /\ smax' = None
  \/ /\ smin # None /\ decode_logic_id(CurLabel) = decode_logic_id(smin.label)
     /\ smax' = IF smax = None \/ CurKey > smax.key THEN Cur ELSE smax
     /\ smin' = IF smin.key > CurKey THEN Cur ELSE smin
     /\ UNCHANGED train

AddTo ==
  \/ setup.sampler = "page" /\ AddToPage
  \/ setup.sampler = "all" /\ train' = Append(train, Cur) /\ UNCHANGED <<smin, smax>>

\* XCacheTreeIter::next.
IterNext ==
  \/ /\ idx < Len(leaves[page].keys)
     /\ idx' = idx + 1 /\ UNCHANGED <<page, logic_page_id, tts>>
  \/ /\ idx = Len(leaves[page].keys) /\ page < Len(leaves)
     /\ Enter(page + 1, logic_page_id)
  \/ /\ idx = Len(leaves[page].keys) /\ page = Len(leaves)
     /\ page' = 0 /\ UNCHANGED <<idx, logic_page_id, tts>>

\* One round of the loop over the index.
ScanKey ==
  /\ pc = "scan" /\ page # 0 /\ CurKey <= end_key[m]
  /\ AddTo /\ IterNext
  /\ UNCHANGED <<index, pc, start_key, end_key, m, done, second_layer, client>>

\* Index of the last of n elements that a StepSampler keeps; it keeps the first.
LastKept(n) == n - ((n - 1) % setup.step)

\* The loop ends: finalize, shrink with the StepSampler, train_ml.
TrainMl ==
  LET set == IF setup.sampler = "page" THEN AddCur ELSE train IN
  /\ pc = "scan" /\ (page # 0 => CurKey > end_key[m])
  /\ \E f \in IF setup.sampler = "page" THEN Lines ELSE Curves :
       second_layer' = [second_layer EXCEPT ![m] =
                          [ml |-> f, max |-> set[LastKept(Len(set))].label,
                           err_min |-> 0, err_max |-> 0]]
  /\ train' = set /\ done' = 0
  /\ pc' = "err"
  /\ UNCHANGED <<index, start_key, end_key, m, page, idx, logic_page_id, smin, smax, tts,
                 client>>

-----------------------------------------------------------------------------
\* XSubModel
get_point_predict(x, k) == Max2(Min2(x.ml[k], x.max - 1), 0)

get_predict_range(x, k) ==
  LET p == get_point_predict(x, k) IN
  <<Max2(0, p + x.err_min), Min2(x.max, p + x.err_max)>>

(***************************************************************************)
(* page_updater: the error that a key with this label adds, which is none  *)
(* on the right page.  The one of data_dist adds none either when the page *)
(* is in reach already (a negative address wraps round and is not), and    *)
(* else only the distance to the near edge of the page.                    *)
(***************************************************************************)
Reaches(x, p, id) ==
  /\ p + x.err_min >= 0
  /\ decode_logic_id(p + x.err_min) <= id /\ id <= decode_logic_id(p + x.err_max)

\* Faulty variant: one address short of the page.
Gap_Short(label, p) ==
  LET edge == decode_logic_id(label) * N IN
  IF label < p THEN edge + N - p ELSE edge - 1 - p

Gap(label, p) ==
  LET edge == decode_logic_id(label) * N IN
  IF label < p THEN edge + N - 1 - p ELSE edge - p

page_updater(x, label, p) ==
  LET id  == decode_logic_id(label)
      err == IF setup.gap THEN Gap(label, p) ELSE label - p
  IN IF decode_logic_id(p) = id \/ (setup.gap /\ Reaches(x, p, id)) THEN x
     ELSE [x EXCEPT !.err_min = Min2(@, err), !.err_max = Max2(@, err)]

\* Faulty variant: the loop measures the same sample again.
CalError_Again ==
  LET x == second_layer[m]
      s == train[done + 1] IN
  /\ pc = "err" /\ done < Len(train)
  /\ second_layer' = [second_layer EXCEPT ![m] =
                        page_updater(x, s.label, get_point_predict(x, s.key))]
  /\ UNCHANGED <<index, pc, start_key, end_key, walk, tts, client>>

\* One round of cal_error, over the unshrunk training set.
CalError ==
  LET x == second_layer[m]
      s == train[done + 1] IN
  /\ pc = "err" /\ done < Len(train)
  /\ second_layer' = [second_layer EXCEPT ![m] =
                        page_updater(x, s.label, get_point_predict(x, s.key))]
  /\ done' = done + 1
  /\ UNCHANGED <<index, pc, start_key, end_key, m, page, idx, logic_page_id, smin, smax,
                 train, tts, client>>

TrainDone ==
  /\ pc = "err" /\ done = Len(train)
  /\ Done(m)
  /\ UNCHANGED <<index, start_key, end_key, page, idx, logic_page_id, smin, smax, train,
                 done, second_layer, tts, client>>

-----------------------------------------------------------------------------
FirstPage(k) ==
  Max2(get_predict_range(second_layer[select_sec_model(k)], k)[1] \div N, 0)

LastPage(k) ==
  LET s == select_sec_model(k) IN
  Min2(Len(tts[s]) - 1, get_predict_range(second_layer[s], k)[2] \div N)

\* core_eval, up to the check of the number of pages.
Lookup(k) ==
  /\ pc = "serve" /\ cpc \in {"idle", "ok"} /\ k \in Stored
  /\ ckey' = k /\ ns' = FirstPage(k) /\ ne' = LastPage(k)
  /\ cpc' = "predicted"
  /\ UNCHANGED <<index, pc, start_key, end_key, walk, second_layer, tts>>

\* Too many pages: the server looks the key up in the tree (see KVMap).  The
\* comparison is one of unsigned numbers.  core_eval_v has none.
TooWide == ~setup.vlen /\ ne - ns + 1 \notin 0..kMaxBatch

LookupByRpc ==
  /\ cpc = "predicted" /\ TooWide
  /\ cpc' = "ok"
  /\ UNCHANGED <<index, pc, start_key, end_key, walk, second_layer, tts, ckey, ns, ne>>

\* Faulty variant: no client trims the incarnation.
AddrOf_Raw(p) == tts[select_sec_model(ckey)][p + 1]

\* Address of page p.  core_eval_v does not trim the incarnation.
AddrOf(p) ==
  LET e == tts[select_sec_model(ckey)][p + 1] IN
  IF setup.vlen THEN e ELSE get_wo_incar(e)

\* The leaves are read and searched; without the key an assertion fails.
LookupByRead ==
  /\ cpc = "predicted" /\ ~TooWide
  /\ cpc' = IF \E p \in ns..ne : AddrOf(p) \in DOMAIN leaves /\ ckey \in KeysOf(AddrOf(p))
            THEN "ok" ELSE "assert"
  /\ UNCHANGED <<index, pc, start_key, end_key, walk, second_layer, tts, ckey, ns, ne>>

Train == Dispatch \/ TrainNull \/ Seek \/ ScanKey \/ TrainMl \/ CalError \/ TrainDone

Next == Train \/ (\E k \in Key : Lookup(k)) \/ LookupByRpc \/ LookupByRead

Spec == Init /\ [][Next]_vars

\* The server goes on training: straight-line code and loops over the index.
FairSpec == Spec /\ WF_vars(Train)

-----------------------------------------------------------------------------
Sample == [key : Key, label : Nat]

\* Types of the state; the error bounds of a submodel always include no error.
TypeOK ==
  /\ setup \in Programs /\ LeafList(leaves) /\ router \in [Key -> Int]
  /\ pc \in {"dispatch", "next", "scan", "err", "serve"}
  /\ start_key \in [Sub -> Key \cup {MaxKey + 1}] /\ end_key \in [Sub -> Key \cup {-1}]
  /\ m \in 0..NumSub
  /\ page \in 0..Len(leaves) /\ idx \in 0..N /\ logic_page_id \in Nat
  /\ smin \in Sample \cup {None} /\ smax \in Sample \cup {None}
  /\ train \in Seq(Sample) /\ done \in 0..Len(train)
  /\ second_layer \in [Sub -> [ml : [Key -> Int], max : Nat, err_min : Int, err_max : Nat]]
  /\ \A s \in Sub : second_layer[s].err_min <= 0
  /\ tts \in [Sub -> Seq(Nat)]
  /\ cpc \in {"idle", "predicted", "ok", "assert"}
  /\ ckey \in Key /\ ns \in Nat /\ ne \in Int

\* A logical address that was sampled is translated to the leaf that holds its
\* key, and its offset is the place of the key there: iterator, sampler and
\* translation table count the same pages, although the walk starts in the
\* middle of the list and ends in the middle of a leaf.
LabelsTranslate ==
  pc \in {"scan", "err"} =>
    \A i \in DOMAIN train :
      LET id == decode_logic_id(train[i].label) IN
      /\ id < Len(tts[m])
      /\ LET p   == get_wo_incar(tts[m][id + 1])
             off == decode_off(train[i].label)
         IN /\ p \in DOMAIN leaves /\ off + 1 \in DOMAIN leaves[p].keys
            /\ leaves[p].keys[off + 1] = train[i].key

\* "the label corresponds to the key (l) must be in [s,e]": the pages a client
\* reads for a key hold its leaf, although the errors are measured on a sample of
\* the keys, rounded to pages, and cut at both ends.
KeyInRange ==
  pc = "serve" =>
    \A k \in Stored :
      \E p \in FirstPage(k)..LastPage(k) :
        get_wo_incar(tts[select_sec_model(k)][p + 1]) = LeafOf(k)

\* A lookup of a stored key does not reach the ASSERT(false) of core_eval.
LookupSucceeds == cpc # "assert"

\* The training of all submodels comes to its end.
TrainingEnds == <>(pc = "serve")

=============================================================================
