-------------------------------- MODULE Service --------------------------------
(***************************************************************************)
(* The two key-value benchmarks as a service: server processes             *)
(* src/benchs/{ycsb,data_dist}/server and client processes                 *)
(* src/benchs/{ycsb,data_dist}/client.cc over the RPC layer and one-sided  *)
(* reads.  The server loads a data set, trains the index, serialises it    *)
(* into registered memory and serves; thread 0 of each client copies the   *)
(* index (META, one READ) for all threads of its process; then coroutines  *)
(* look keys up, by reads through the copy or by rpc GET.                  *)
(*                                                                         *)
(* The tree and the models are abstract: leaf l holds the keys of rank     *)
(* l * LeafKeys .. , and the submodel of a key is chosen by its rank.      *)
(***************************************************************************)
EXTENDS RPC, DataSets, XImage

CONSTANTS
  Proc, ProcOf,    \* client processes; the process of a client thread
  Boot,            \* the threads with number 0
  Deployments,     \* the flags of the processes
  LeafKeys,        \* keys per leaf
  BufCells         \* cells between model_buf and the end of registered memory

ASSUME ServiceAssumption ==
  /\ ProcOf \in [Client -> Proc]
  /\ Boot \subseteq Client /\ \A p \in Proc : \E c \in Boot : ProcOf[c] = p
  /\ LeafKeys \in Nat \ {0}

\* meta_callback and get_callback reply; flag coros (1 by default) leaves room for every
\* coroutine in the reply station.
ASSUME CallsAssumption == Casts = {} /\ Coros < StationSize

\* The flags are numbers, a process with threads has a thread 0, and there is a submodel.
ASSUME FlagsAssumption ==
  \A f \in Deployments :
    /\ f.data \in {"linear", "file", "log", "tpcc", "ar", "map"}
    /\ f.nkeys \in Nat /\ f.cnkeys \in Nat /\ f.nsub \in Nat \ {0}
    /\ f.threads \subseteq Client
    /\ \A c \in f.threads : \E b \in f.threads \cap Boot : ProcOf[b] = ProcOf[c]

META == 0
GET == 1
MetaArg == 73
NoKey == -1
NoIndex == [models |-> <<>>, tts |-> <<>>]
NoImage == [cells |-> <<>>, tt_buf |-> 0]

VARIABLES
  flags,     \* [prog, data, nkeys, cnkeys, nsub, ncheck, workers, threads]
  spc,       \* server main
  init, running,
  wpc,       \* wpc[w]: "off", "bar", "loop" or "exit"
  db,        \* the rows loaded
  xcache,    \* the server's submodels and translation tables
  image,     \* what serialize_db wrote
  mpc,       \* mpc[p]: client main
  crunning,  \* crunning[p]: the client's flag
  tpc,       \* tpc[c]: client thread
  cache,     \* cache[p]: the client's copy of the index
  cpc, ckey, \* cpc[c][i], ckey[c][i]: a coroutine and the key it looks up
  wrong      \* a lookup returned another value than the key's

serverVars == <<spc, init, running, wpc, db, xcache, image>>
clientVars == <<mpc, crunning, tpc, cache, cpc, ckey, wrong>>
vars == <<flags, serverVars, clientVars, rpcVars>>

Cors == 1..Coros

Init ==
  /\ RPCInit
  /\ flags \in Deployments
  /\ spc = "boot" /\ init = FALSE /\ running = TRUE
  /\ wpc = [w \in Worker |-> "off"]
  /\ db = {} /\ xcache = NoIndex /\ image = NoImage
  /\ mpc = [p \in Proc |-> "bar"]
  /\ crunning = [p \in Proc |-> TRUE]
  /\ tpc = [c \in Client |-> "connect"]
  /\ cache = [p \in Proc |-> NoIndex]
  /\ cpc = [c \in Client |-> [i \in Cors |-> "loop"]]
  /\ ckey = [c \in Client |-> [i \in Cors |-> NoKey]]
  /\ wrong = FALSE

TypeOK ==
  /\ RPCTypeOK
  /\ flags \in Deployments
  /\ spc \in {"boot", "daemon", "load", "train", "serialize", "init", "bar", "serve", "join", "exit", "abort"}
  /\ init \in BOOLEAN /\ running \in BOOLEAN /\ wrong \in BOOLEAN
  /\ wpc \in [Worker -> {"off", "bar", "loop", "exit"}]
  /\ mpc \in [Proc -> {"bar", "report", "join", "exit"}]
  /\ crunning \in [Proc -> BOOLEAN]
  /\ tpc \in [Client -> {"connect", "bind", "boot", "meta", "bar", "run", "exit", "failed"}]
  /\ cpc \in [Client -> [Cors -> {"loop", "pages", "value", "rpc", "done"}]]

-----------------------------------------------------------------------------
(* The index. *)

StoredKeys == {r[1] : r \in db}
ValueOf(k) == (CHOOSE r \in db : r[1] = k)[2]
Rank(k) == Cardinality({j \in StoredKeys : j < k})
LeafOf(k) == Rank(k) \div LeafKeys + 1

\* select_sec_model for nsub submodels.
SubOf(k) == (Rank(k) * flags.nsub) \div Max({1, Cardinality(StoredKeys)}) + 1

\* The members of S in their order.
InOrder(S) ==
  [i \in 1..Cardinality(S) |-> CHOOSE l \in S : Cardinality({j \in S : j < l}) = i - 1]

\* Faulty variant: the submodel's last key is not sampled.
TrainedTT_NoLast(m) ==
  LET keys == {j \in StoredKeys : SubOf(j) = m} IN
  InOrder({LeafOf(k) : k \in {j \in keys : \E l \in keys : j < l}})

\* train_db: the table of a submodel lists the leaves of its keys in order.
TrainedTT(m) == InOrder({LeafOf(k) : k \in {j \in StoredKeys : SubOf(j) = m}})
Trained ==
  [models |-> [m \in 1..flags.nsub |-> m], tts |-> [m \in 1..flags.nsub |-> TrainedTT(m)]]

-----------------------------------------------------------------------------
(* The server's main thread. *)

ServerUp == crashed \cap Worker = {} /\ spc \notin {"abort", "exit"}

\* The listener thread answers queries for queue pairs and memory regions.
DaemonUp == ServerUp /\ spc \notin {"boot", "daemon"}

\* Memory is registered and the worker threads are started.
MainBoot ==
  /\ spc = "boot"
  /\ spc' = "daemon"
  /\ UNCHANGED <<flags, init, running, wpc, db, xcache, image, clientVars, rpcVars>>

MainDaemon ==
  /\ spc = "daemon"
  /\ spc' = "load"
  /\ UNCHANGED <<flags, init, running, wpc, db, xcache, image, clientVars, rpcVars>>

MainLoad ==
  /\ spc = "load"
  /\ \/ /\ Loads(flags.data, flags.nkeys)
        /\ db' = Rows(flags.data, flags.nkeys)
        /\ spc' = "train"
     \/ /\ ~Loads(flags.data, flags.nkeys)
        /\ spc' = "abort"
        /\ UNCHANGED db
  /\ UNCHANGED <<flags, init, running, wpc, xcache, image, clientVars, rpcVars>>

MainTrain ==
  /\ spc = "train"
  /\ xcache' = Trained
  /\ spc' = "serialize"
  /\ UNCHANGED <<flags, init, running, wpc, db, image, clientVars, rpcVars>>

\* serialize_db fails an assertion when the memory ends.
MainSerialize ==
  LET img == SerializeDB(xcache.models, xcache.tts) IN
  /\ spc = "serialize"
  /\ \/ /\ Len(img.cells) <= BufCells
        /\ image' = img
        /\ spc' = "init"
     \/ /\ Len(img.cells) > BufCells
        /\ spc' = "abort"
        /\ UNCHANGED image
  /\ UNCHANGED <<flags, init, running, wpc, db, xcache, clientVars, rpcVars>>

\* Faulty variant: the flag is not set.
MainInit_Unset ==
  /\ spc = "init"
  /\ spc' = "bar"
  /\ UNCHANGED <<flags, init, running, wpc, db, xcache, image, clientVars, rpcVars>>

\* init is set, and main waits at the barrier.
MainInit ==
  /\ spc = "init"
  /\ init' = TRUE
  /\ spc' = "bar"
  /\ UNCHANGED <<flags, running, wpc, db, xcache, image, clientVars, rpcVars>>

ServerBarrierOpen == spc \notin {"boot", "daemon", "load", "train", "serialize", "init"}
                     /\ \A w \in flags.workers : wpc[w] # "off"

\* Faulty variant: one submodel too many is checked.
MainCheck_Past ==
  /\ spc = "bar" /\ ServerBarrierOpen
  /\ spc' = IF flags.ncheck >= flags.nsub THEN "abort" ELSE "serve"
  /\ UNCHANGED <<flags, init, running, wpc, db, xcache, image, clientVars, rpcVars>>

\* The check of the first ncheck submodels throws when there are fewer.
MainCheck ==
  /\ spc = "bar" /\ ServerBarrierOpen
  /\ spc' = IF flags.ncheck > flags.nsub THEN "abort" ELSE "serve"
  /\ UNCHANGED <<flags, init, running, wpc, db, xcache, image, clientVars, rpcVars>>

\* The serving time is over.
MainStop ==
  /\ ServerUp /\ spc = "serve"
  /\ running' = FALSE
  /\ spc' = "join"
  /\ UNCHANGED <<flags, init, wpc, db, xcache, image, clientVars, rpcVars>>

MainExit ==
  /\ ServerUp /\ spc = "join" /\ \A w \in flags.workers : wpc[w] = "exit"
  /\ spc' = "exit"
  /\ UNCHANGED <<flags, init, running, wpc, db, xcache, image, clientVars, rpcVars>>

-----------------------------------------------------------------------------
(* A worker thread of the server. *)

\* Receives posted, queue pair registered, callbacks set; then the barrier.
WorkerStart(w) ==
  /\ ServerUp /\ spc # "boot" /\ w \in flags.workers /\ wpc[w] = "off"
  /\ wpc' = [wpc EXCEPT ![w] = "bar"]
  /\ UNCHANGED <<flags, spc, init, running, db, xcache, image, clientVars, rpcVars>>

\* Behind the barrier a worker waits for init.
WorkerLoop(w) ==
  /\ ServerUp /\ wpc[w] = "bar" /\ ServerBarrierOpen /\ init
  /\ wpc' = [wpc EXCEPT ![w] = "loop"]
  /\ UNCHANGED <<flags, spc, init, running, db, xcache, image, clientVars, rpcVars>>

\* Dispatcher::serialize puts the number of submodels first.
DispatcherCell == Len(xcache.models)

\* meta_callback: the sizes, the addresses and the dispatcher of the index.
MetaReply ==
  <<DispatcherCell, Len(image.cells), image.tt_buf>>

OnMeta(w) ==
  IF xcache = NoIndex THEN RecvFails(w) ELSE RecvReq(w, MetaReply)

\* get_callback: value() throws when the key is not stored.
OnGet(w) ==
  LET k == Head(inbox[w]).body[1] IN
  \/ k \in StoredKeys /\ RecvReq(w, <<ValueOf(k)>>)
  \/ k \notin StoredKeys /\ RecvFails(w)

WorkerRecv(w) ==
  /\ ServerUp /\ wpc[w] = "loop"
  /\ InPoll(w) \/ running
  /\ HasMsg(w)
  /\ \/ RecvConnect(w)
     \/ Head(inbox[w]).type = "req" /\ Head(inbox[w]).rpc = META /\ OnMeta(w)
     \/ Head(inbox[w]).type = "req" /\ Head(inbox[w]).rpc = GET /\ OnGet(w)
  /\ UNCHANGED <<flags, serverVars, clientVars>>

WorkerExit(w) ==
  /\ ServerUp /\ wpc[w] = "loop" /\ ~InPoll(w) /\ ~running
  /\ wpc' = [wpc EXCEPT ![w] = "exit"]
  /\ UNCHANGED <<flags, spc, init, running, db, xcache, image, clientVars, rpcVars>>

-----------------------------------------------------------------------------
(* A client thread up to the barrier of its process. *)

ThreadsOf(p) == {c \in flags.threads : ProcOf[c] = p}

\* No thread of the process failed an assertion.
ProcUp(p) == ThreadsOf(p) # {} /\ \A c \in ThreadsOf(p) : tpc[c] # "failed" /\ c \notin crashed
ThreadUp(c) == c \in flags.threads /\ ProcUp(ProcOf[c])

Registered(w) == wpc[w] # "off"

\* The connect loop, and the Connect datagram.
ThreadConnect(c) ==
  /\ ThreadUp(c) /\ tpc[c] = "connect"
  /\ DaemonUp /\ Registered(ServerOf[c])
  /\ tpc' = [tpc EXCEPT ![c] = "bind"]
  /\ SendConnect(c)
  /\ UNCHANGED <<flags, serverVars, mpc, crunning, cache, cpc, ckey, wrong>>

\* Ten seconds without the server's queue pair.
ThreadConnectTimeout(c) ==
  /\ ThreadUp(c) /\ tpc[c] = "connect"
  /\ ~(DaemonUp /\ Registered(ServerOf[c]))
  /\ tpc' = [tpc EXCEPT ![c] = "failed"]
  /\ UNCHANGED <<flags, serverVars, mpc, crunning, cache, cpc, ckey, wrong, rpcVars>>

\* The reliable connection and the key of the server's memory.
ThreadBind(c) ==
  /\ ThreadUp(c) /\ tpc[c] = "bind"
  /\ tpc' = [tpc EXCEPT ![c] = IF ~DaemonUp THEN "failed" ELSE IF c \in Boot THEN "boot" ELSE "bar"]
  /\ UNCHANGED <<flags, serverVars, mpc, crunning, cache, cpc, ckey, wrong, rpcVars>>

ThreadMeta(c) ==
  /\ ThreadUp(c) /\ tpc[c] = "boot"
  /\ Call(c, 0, META, <<MetaArg>>)
  /\ tpc' = [tpc EXCEPT ![c] = "meta"]
  /\ UNCHANGED <<flags, serverVars, mpc, crunning, cache, cpc, ckey, wrong>>

\* A reply, at thread 0 while it waits for META and later in the poll future.
ThreadPoll(c) ==
  /\ ThreadUp(c) /\ tpc[c] \in {"meta", "run"}
  /\ RecvReply(c)
  /\ UNCHANGED <<flags, serverVars, clientVars>>

\* The dispatcher as the client rebuilds it from the reply.
DispatchNum(reply) == reply[1]

\* One READ of total_sz bytes fetches the submodels and the tables.
Parsed(reply) ==
  LET num == DispatchNum(reply)
      cells == SubSeq(image.cells, 1, reply[2])
      tt_buf == reply[3]
  IN IF flags.prog = "ycsb" THEN YCSBParse(cells, num, tt_buf) ELSE DistParse(cells, num, tt_buf)

ThreadFetch(c) ==
  /\ ThreadUp(c) /\ tpc[c] = "meta" /\ CorReady(c, 0) /\ ~InPoll(c)
  /\ \/ /\ ServerUp
        /\ cache' = [cache EXCEPT ![ProcOf[c]] = Parsed(station[c][0].buf)]
        /\ tpc' = [tpc EXCEPT ![c] = "bar"]
     \/ /\ ~ServerUp
        /\ tpc' = [tpc EXCEPT ![c] = "failed"]
        /\ UNCHANGED cache
  /\ UNCHANGED <<flags, serverVars, mpc, crunning, cpc, ckey, wrong, rpcVars>>

-----------------------------------------------------------------------------
(* The barrier of the client (threads and main), its main and its coroutines. *)

AtBarrier(c) == tpc[c] \in {"bar", "run", "exit"}
ClientBarrierOpen(p) == \A c \in ThreadsOf(p) : AtBarrier(c)

ThreadRun(c) ==
  /\ ThreadUp(c) /\ tpc[c] = "bar" /\ ClientBarrierOpen(ProcOf[c])
  /\ tpc' = [tpc EXCEPT ![c] = "run"]
  /\ UNCHANGED <<flags, serverVars, mpc, crunning, cache, cpc, ckey, wrong, rpcVars>>

ClientMainReport(p) ==
  /\ ProcUp(p) /\ mpc[p] = "bar" /\ ClientBarrierOpen(p)
  /\ mpc' = [mpc EXCEPT ![p] = "report"]
  /\ UNCHANGED <<flags, serverVars, crunning, tpc, cache, cpc, ckey, wrong, rpcVars>>

\* The report is over after its seconds.
ClientMainStop(p) ==
  /\ ProcUp(p) /\ mpc[p] = "report"
  /\ crunning' = [crunning EXCEPT ![p] = FALSE]
  /\ mpc' = [mpc EXCEPT ![p] = "join"]
  /\ UNCHANGED <<flags, serverVars, tpc, cache, cpc, ckey, wrong, rpcVars>>

ClientMainExit(p) ==
  /\ ProcUp(p) /\ mpc[p] = "join" /\ \A c \in ThreadsOf(p) : tpc[c] = "exit"
  /\ mpc' = [mpc EXCEPT ![p] = "exit"]
  /\ UNCHANGED <<flags, serverVars, crunning, tpc, cache, cpc, ckey, wrong, rpcVars>>

Scheduled(c) == ThreadUp(c) /\ tpc[c] = "run" /\ ~InPoll(c)

\* Faulty variant: no coroutine stops the scheduler.
CoroutineEnd_NoStop(c, i) ==
  /\ Scheduled(c) /\ cpc[c][i] = "loop" /\ ~crunning[ProcOf[c]]
  /\ cpc' = [cpc EXCEPT ![c][i] = "done"]
  /\ UNCHANGED <<flags, serverVars, mpc, crunning, tpc, cache, ckey, wrong, rpcVars>>

\* The loop ends; the last coroutine stops the scheduler and with it the thread.
CoroutineEnd(c, i) ==
  /\ Scheduled(c) /\ cpc[c][i] = "loop" /\ ~crunning[ProcOf[c]]
  /\ cpc' = [cpc EXCEPT ![c][i] = "done"]
  /\ tpc' = [tpc EXCEPT ![c] = IF i = Coros THEN "exit" ELSE @]
  /\ UNCHANGED <<flags, serverVars, mpc, crunning, cache, ckey, wrong, rpcVars>>

Begins(c, i, k) ==
  /\ Scheduled(c) /\ cpc[c][i] = "loop" /\ crunning[ProcOf[c]]
  /\ k \in AskedKeys(flags.data, flags.cnkeys)
  /\ ckey' = [ckey EXCEPT ![c][i] = k]

\* core_eval: too many pages are predicted, eval_w_rpc asks the server.
LookupByRPC(c, i, k) ==
  /\ Begins(c, i, k)
  /\ Call(c, i, GET, <<k>>)
  /\ cpc' = [cpc EXCEPT ![c][i] = "rpc"]
  /\ UNCHANGED <<flags, serverVars, mpc, crunning, tpc, cache, wrong>>

\* core_eval posts the reads of the predicted pages and yields.
LookupByRead(c, i, k) ==
  /\ Begins(c, i, k)
  /\ cpc' = [cpc EXCEPT ![c][i] = "pages"]
  /\ UNCHANGED <<flags, serverVars, mpc, crunning, tpc, cache, wrong, rpcVars>>

\* The pages are in: the key is on one of the leaves of its submodel's table, or the
\* assertion at the end of core_eval fails.  A read of a server that is gone fails.
PagesRead(c, i) ==
  LET k == ckey[c][i]
      tts == cache[ProcOf[c]].tts
      found == k \in StoredKeys /\ \E j \in DOMAIN tts[SubOf(k)] : tts[SubOf(k)][j] = LeafOf(k)
  IN
  /\ Scheduled(c) /\ cpc[c][i] = "pages"
  /\ \/ /\ ServerUp /\ found
        /\ cpc' = [cpc EXCEPT ![c][i] = "value"]
        /\ UNCHANGED <<tpc, crashed>>
     \/ /\ ServerUp /\ ~found
        /\ crashed' = crashed \cup {c}
        /\ UNCHANGED <<cpc, tpc>>
     \/ /\ ~ServerUp
        /\ tpc' = [tpc EXCEPT ![c] = "failed"]
        /\ UNCHANGED <<cpc, crashed>>
  /\ UNCHANGED <<flags, serverVars, mpc, crunning, cache, ckey, wrong,
                 inbox, polled, held, sessions, station, faults, unlinked, gone, overflowed>>

ValueRead(c, i) ==
  /\ Scheduled(c) /\ cpc[c][i] = "value"
  /\ \/ ServerUp /\ cpc' = [cpc EXCEPT ![c][i] = "loop"] /\ UNCHANGED tpc
     \/ ~ServerUp /\ tpc' = [tpc EXCEPT ![c] = "failed"] /\ UNCHANGED cpc
  /\ UNCHANGED <<flags, serverVars, mpc, crunning, cache, ckey, wrong, rpcVars>>

\* eval_w_rpc resumes, and the value is compared with the key's (client.cc:309).
ReplyRead(c, i) ==
  /\ Scheduled(c) /\ cpc[c][i] = "rpc" /\ CorReady(c, i)
  /\ cpc' = [cpc EXCEPT ![c][i] = "loop"]
  /\ wrong' = (wrong \/ station[c][i].buf # <<ValueOf(ckey[c][i])>>)
  /\ UNCHANGED <<flags, serverVars, mpc, crunning, tpc, cache, ckey, rpcVars>>

-----------------------------------------------------------------------------
MainNext == \/ MainBoot \/ MainDaemon \/ MainLoad \/ MainTrain \/ MainSerialize
            \/ MainInit \/ MainCheck \/ MainStop \/ MainExit

WorkerNext(w) == WorkerStart(w) \/ WorkerLoop(w) \/ WorkerRecv(w) \/ WorkerExit(w)

ThreadNext(c) == \/ ThreadConnect(c) \/ ThreadConnectTimeout(c) \/ ThreadBind(c) \/ ThreadMeta(c)
                 \/ ThreadPoll(c) \/ ThreadFetch(c) \/ ThreadRun(c)

CoroutineNext(c, i) == \/ CoroutineEnd(c, i) \/ PagesRead(c, i) \/ ValueRead(c, i) \/ ReplyRead(c, i)
                       \/ \E k \in AskedKeys(flags.data, flags.cnkeys) :
                            LookupByRPC(c, i, k) \/ LookupByRead(c, i, k)

ClientMainNext(p) == ClientMainReport(p) \/ ClientMainStop(p) \/ ClientMainExit(p)

Next == \/ MainNext
        \/ \E w \in Worker : WorkerNext(w)
        \/ \E c \in Client : ThreadNext(c) \/ \E i \in Cors : CoroutineNext(c, i)
        \/ \E p \in Proc : ClientMainNext(p)

\* Every thread that can go on does; a scheduler serves all its coroutines.
Fairness ==
  /\ WF_vars(MainNext)
  /\ \A w \in Worker : WF_vars(WorkerNext(w))
  /\ \A c \in Client : WF_vars(ThreadNext(c)) /\ \A i \in Cors : WF_vars(CoroutineNext(c, i))
  /\ \A p \in Proc : WF_vars(ClientMainNext(p))

Spec == Init /\ [][Next]_vars /\ Fairness

-----------------------------------------------------------------------------
\* The flags of the client do not ask for more keys than the server loaded.
KeysMatch == flags.cnkeys <= flags.nkeys

\* The tables start where the client of YCSB looks for them, behind the last submodel:
\* serialize_db aligns them to 8 bytes (ycsb/server/db.hh:287), and a submodel takes 36.
TablesInPlace == flags.prog = "ycsb" => (flags.nsub * ModelCells) % 2 = 0

\* The copy a thread uses is there before its first lookup, and is the index of the
\* server: META is answered only when the index is trained and serialised, and the
\* parser finds every submodel and every table where serialize_db put it, but for the
\* tables of an odd number of submodels in YCSB (ycsb/client.cc:239).
CopyIsIndex ==
  /\ \A c \in Client : tpc[c] = "run" => cache[ProcOf[c]] # NoIndex
  /\ \A p \in Proc : cache[p] # NoIndex =>
       cache[p].models = xcache.models /\ (TablesInPlace => cache[p].tts = xcache.tts)

\* No lookup returns the value of another key, misses its key, or finds its reply
\* entry in use, whichever way it goes (ycsb/client.cc:309, eval_c.hh:126), if the
\* client asks for loaded keys and its tables are in place.
LookupsAreRight == ~wrong /\ (KeysMatch /\ TablesInPlace => crashed \cap Client = {})

\* The server fails only because the network lost a Connect, a client asks for keys
\* that were not loaded, the data or the memory does not fit, or fewer submodels exist
\* than are checked.
ServerFailsOnlyByFault ==
  /\ crashed \cap Worker # {} => unlinked # {} \/ ~KeysMatch
  /\ spc = "abort" => flags.ncheck > flags.nsub \/ image = NoImage

\* Orders whose district and number fit half a word keep their order and their
\* identity as keys: tpcc_key.hh:23 asserts less than that.
Fit(l) == DistrictOf(l[1], l[2]) * kMaxOrderPD + l[3] < Half /\ l[4] < Half /\ l[3] < kMaxOrderPD
Before(a, b) == \E j \in 1..4 : a[j] < b[j] /\ \A i \in 1..(j - 1) : a[i] = b[i]
OrdersStayApart ==
  flags.data = "tpcc" /\ spc \notin {"boot", "daemon", "load", "abort"} =>
    \A i, j \in Read(OrderFile, AfterUse(flags.nkeys)) :
      LET a == OrderFile[i]  b == OrderFile[j] IN
      /\ TPCCRow(a) \in db
      /\ Fit(a) /\ Fit(b) /\ a[2] < kMaxDPerW /\ b[2] < kMaxDPerW /\ Before(a, b)
           => TPCCRow(a)[1] < TPCCRow(b)[1]

\* A client process ends or fails, unless one of its threads waits for ever for a
\* reply that was lost or that the server was stopped before it sent: a call has no
\* timeout (eval_c.hh:59, client.cc:185).
WaitsForNothing(c) ==
  \E i \in CorId : ~CorReady(c, i) /\ (<<c, i>> \in gone \/ ~running \/ ~ServerUp)

ClientEnds ==
  \A p \in Proc :
    <>[](mpc[p] = "exit" \/ ~ProcUp(p) \/ \E c \in ThreadsOf(p) : WaitsForNothing(c))

\* The server ends: the barrier of main and workers opens, and all are joined.
ServerEnds == <>(spc = "exit" \/ ~ServerUp)

=============================================================================
