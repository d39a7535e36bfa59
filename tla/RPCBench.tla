------------------------------- MODULE RPCBench -------------------------------
(***************************************************************************)
(* src/xcomm/benchs/rpc_client.cc against rpc_server.cc: every client      *)
(* thread connects to the server thread of its number, runs Coros          *)
(* coroutines that call rpc 0 in a loop, and asks the server to stop (rpc  *)
(* 1) when enough calls have returned.                                     *)
(***************************************************************************)
EXTENDS RPC

CONSTANT Limit  \* calls per client thread (10000000 in the code)

ASSUME LimitAssumption == Limit \in Nat

Request == <<73>>
Result == <<74>>
Echo == 0
Stop == 1

ASSUME WordAssumption == {73, 74} \subseteq Word

\* bench_callback replies, bench_stop does not.
ASSUME CastsAssumption == Casts = {Stop}

VARIABLES
  running,    \* the flag of the server's threads
  wpc,        \* wpc[w]: "init", "loop" or "exit"
  tpc,        \* tpc[c]: "init", "run", "exit" or "refused"
  cpc,        \* cpc[c][i]: "spawned", "wait" or "done"
  total       \* total_processed of a client thread

benchVars == <<running, wpc, tpc, cpc, total>>
vars == <<rpcVars, benchVars>>

Cors == 1..Coros

TypeOK ==
  /\ RPCTypeOK
  /\ running \in BOOLEAN
  /\ wpc \in [Worker -> {"init", "loop", "exit"}]
  /\ tpc \in [Client -> {"init", "run", "exit", "refused"}]
  /\ cpc \in [Client -> [Cors -> {"spawned", "wait", "done"}]]
  /\ total \in [Client -> 0..(Limit + Coros)]

Init ==
  /\ RPCInit
  /\ running = TRUE
  /\ wpc = [w \in Worker |-> "init"]
  /\ tpc = [c \in Client |-> "init"]
  /\ cpc = [c \in Client |-> [i \in Cors |-> "spawned"]]
  /\ total = [c \in Client |-> 0]

ServerUp == crashed \cap Worker = {}

\* The server has registered thread w, and its listener answers while it runs.
Listening(w) == ServerUp /\ wpc[w] # "init" /\ \E v \in Worker : wpc[v] # "exit"

ClientUp == crashed \cap Client = {} /\ \A c \in Client : tpc[c] # "refused"

-----------------------------------------------------------------------------
(* A server thread. *)

\* The receives are posted, the queue pair is registered, the callbacks are set.
WorkerStart(w) ==
  /\ wpc[w] = "init"
  /\ wpc' = [wpc EXCEPT ![w] = "loop"]
  /\ UNCHANGED <<rpcVars, running, tpc, cpc, total>>

\* One datagram of recv_event_loop; the flag is read before each poll.
WorkerRecv(w) ==
  /\ ServerUp /\ wpc[w] = "loop"
  /\ InPoll(w) \/ running
  /\ HasMsg(w)
  /\ \/ RecvConnect(w) /\ UNCHANGED running
     \/ /\ Head(inbox[w]).type = "req" /\ Head(inbox[w]).rpc = Echo
        /\ RecvReq(w, Result)
        /\ UNCHANGED running
     \/ /\ Head(inbox[w]).type = "req" /\ Head(inbox[w]).rpc = Stop
        /\ RecvCast(w)
        /\ running' = FALSE
  /\ UNCHANGED <<wpc, tpc, cpc, total>>

WorkerExit(w) ==
  /\ ServerUp /\ wpc[w] = "loop" /\ ~InPoll(w) /\ ~running
  /\ wpc' = [wpc EXCEPT ![w] = "exit"]
  /\ UNCHANGED <<rpcVars, running, tpc, cpc, total>>

-----------------------------------------------------------------------------
(* A client thread: it runs one coroutine or polls for replies, never both. *)

\* UDTransport::connect finds the server's queue pair by name, or the thread's
\* assertion fails; then the Connect datagram is sent, which may be after the server
\* has stopped.
ThreadStart(c) ==
  /\ ClientUp /\ tpc[c] = "init"
  /\ \/ /\ wpc[ServerOf[c]] # "init"
        /\ tpc' = [tpc EXCEPT ![c] = "run"]
        /\ SendConnect(c)
     \/ /\ ~Listening(ServerOf[c])
        /\ tpc' = [tpc EXCEPT ![c] = "refused"]
        /\ UNCHANGED rpcVars
  /\ UNCHANGED <<running, wpc, cpc, total>>

\* The poll future.
ThreadPoll(c) ==
  /\ ClientUp /\ tpc[c] = "run"
  /\ RecvReply(c)
  /\ UNCHANGED benchVars

Scheduled(c) == ClientUp /\ tpc[c] = "run" /\ ~InPoll(c)

FirstCall(c, i) ==
  /\ Scheduled(c) /\ cpc[c][i] = "spawned"
  /\ Call(c, i, Echo, Request)
  /\ cpc' = [cpc EXCEPT ![c][i] = "wait"]
  /\ UNCHANGED <<running, wpc, tpc, total>>

\* Faulty variant: the last coroutine is not recognised.
Resume_NoLast(c, i) ==
  /\ Scheduled(c) /\ cpc[c][i] = "wait" /\ CorReady(c, i)
  /\ total' = [total EXCEPT ![c] = @ + 1]
  /\ \/ /\ total[c] + 1 <= Limit
        /\ Call(c, i, Echo, Request)
        /\ UNCHANGED cpc
     \/ /\ total[c] + 1 > Limit
        /\ cpc' = [cpc EXCEPT ![c][i] = "done"]
        /\ UNCHANGED rpcVars
  /\ UNCHANGED <<running, wpc, tpc>>

\* A coroutine whose reply is in counts it, and calls again or ends; the last one
\* asks the server to stop and stops the scheduler.
Resume(c, i) ==
  /\ Scheduled(c) /\ cpc[c][i] = "wait" /\ CorReady(c, i)
  /\ total' = [total EXCEPT ![c] = @ + 1]
  /\ \/ /\ total[c] + 1 <= Limit
        /\ Call(c, i, Echo, Request)
        /\ UNCHANGED <<cpc, tpc>>
     \/ /\ total[c] + 1 > Limit
        /\ cpc' = [cpc EXCEPT ![c][i] = "done"]
        /\ IF i = Coros
             THEN Cast(c, i, Stop, <<>>) /\ tpc' = [tpc EXCEPT ![c] = "exit"]
             ELSE UNCHANGED <<rpcVars, tpc>>
  /\ UNCHANGED <<running, wpc>>

-----------------------------------------------------------------------------
ServerNext == \E w \in Worker : WorkerStart(w) \/ WorkerRecv(w) \/ WorkerExit(w)
ThreadNext(c) == ThreadStart(c) \/ ThreadPoll(c) \/ \E i \in Cors : FirstCall(c, i) \/ Resume(c, i)
ClientNext == \E c \in Client : ThreadNext(c)

Next == ServerNext \/ ClientNext

\* Each thread keeps running while it has something to do, and the client's
\* scheduler serves its future and its coroutines in turn.
Fairness ==
  /\ \A w \in Worker : WF_vars(WorkerStart(w)) /\ WF_vars(WorkerRecv(w)) /\ WF_vars(WorkerExit(w))
  /\ \A c \in Client : /\ WF_vars(ThreadStart(c)) /\ WF_vars(ThreadPoll(c))
                       /\ \A i \in Cors : WF_vars(FirstCall(c, i)) /\ WF_vars(Resume(c, i))

Spec == Init /\ [][Next]_vars /\ Fairness

-----------------------------------------------------------------------------
\* A client thread ends unless a datagram of it is gone for good, or the server
\* failed or was stopped by the stop request of a thread (rpc_server.cc:47): there is
\* no timeout and no retry, and the stop of one thread ends the service for all.
ThreadEnds ==
  \A c \in Client :
    <>(\/ tpc[c] = "exit" \/ ~ClientUp
       \/ \E i \in CorId : <<c, i>> \in gone
       \/ ~running \/ ~ServerUp)

=============================================================================
