---------------------------- MODULE RPCBenchProofs ----------------------------
(***************************************************************************)
(* For every number of threads and coroutines, every depth of the queues   *)
(* and every number of faults: replies go to the queue pair that asked,    *)
(* a request whose session is unknown is due to a fault of the network, a  *)
(* call has one datagram on its way, and the receives that Fits counts are *)
(* enough.                                                                 *)
(***************************************************************************)
EXTENDS RPCBench, FiniteSetTheorems, TLAPS

\* A Connect carries the queue pair of the client whose id it has.
Owned == {m \in Datagram : m.type = "connect" => m.qp \in Client /\ SessionId[m.qp] = m.sid}

Boxes == [Endpoint -> Seq(Owned)]

\* The inductive invariant: what is on the wire, and what is in the tables.
WireInv ==
  /\ inbox \in Boxes
  /\ polled \in [Endpoint -> Nat]
  /\ sessions \in [Worker -> [Sid -> Client \cup {NoChannel, NoSession}]]
  /\ SessionIsCurrent

USE RPCAssumption

\* The datagrams the handlers build are owned.
LEMMA ConnectOwned == \A c \in Client : Connect(c) \in Owned
  BY DEF Connect, Owned, Datagram, Sid, CorId, Payload

LEMMA ReqOwned ==
  ASSUME NEW c \in Client, NEW i \in CorId, NEW id \in 0..1, NEW args \in Payload
  PROVE  Req(c, i, id, args) \in Owned
  BY DEF Req, Owned, Datagram, Sid, CorId

LEMMA ReplyOwned ==
  ASSUME NEW m \in Owned, NEW val \in Payload
  PROVE  Reply(m, val) \in Owned
  BY DEF Reply, Owned, Datagram

\* Whatever the network does with a datagram, the queues hold owned datagrams.
LEMMA SendKeepsBoxes ==
  ASSUME NEW e \in Endpoint, NEW m \in Owned, NEW box \in Boxes, NEW hld,
         NEW pol \in [Endpoint -> Nat], Send(e, m, box, hld, pol)
  PROVE  inbox' \in Boxes
<1> DEFINE n == Len(box[e])
           swapped == Append([box[e] EXCEPT ![n] = m], box[e][n])
<1>0. box[e] \in Seq(Owned) /\ n \in Nat
  BY DEF Boxes
<1>1. CASE inbox' = [box EXCEPT ![e] = Append(@, m)]
  BY <1>0, <1>1 DEF Boxes
<1>2. CASE inbox' = box
  BY <1>2
<1>3. CASE n > pol[e] /\ inbox' = [box EXCEPT ![e] = swapped]
  <2>1. n \in 1..n
    BY <1>0, <1>3
  <2>2. [box[e] EXCEPT ![n] = m] \in Seq(Owned) /\ box[e][n] \in Owned
    BY <1>0, <2>1
  <2>3. swapped \in Seq(Owned)
    BY <2>2
  <2> QED BY <1>3, <2>3 DEF Boxes
<1> QED BY <1>1, <1>2, <1>3 DEF Send

\* Taking the datagram at the head of a queue.
LEMMA TakeKeeps ==
  ASSUME WireInv, NEW e \in Endpoint, HasMsg(e)
  PROVE  /\ Head(inbox[e]) \in Owned
         /\ Taken(e) \in Boxes
         /\ PolledAfter(e) \in [Endpoint -> Nat]
<1>1. inbox[e] \in Seq(Owned) /\ inbox[e] # <<>>
  BY DEF WireInv, Boxes, HasMsg
<1>2. Head(inbox[e]) \in Owned /\ Tail(inbox[e]) \in Seq(Owned) /\ Len(inbox[e]) \in Nat \ {0}
  BY <1>1
<1>3. LeftOf(e) \in Nat
  BY <1>2 DEF LeftOf, InPoll, WireInv
<1> QED BY <1>2, <1>3 DEF Taken, PolledAfter, WireInv, Boxes

\* A Connect enters the queue pair of its owner.
LEMMA ConnectKeepsSessions ==
  ASSUME WireInv, NEW w \in Worker, NEW m \in Owned, m.type = "connect", AddNewSession(w, m)
  PROVE  /\ sessions' \in [Worker -> [Sid -> Client \cup {NoChannel, NoSession}]]
         /\ SessionIsCurrent'
<1>1. m.qp \in Client /\ SessionId[m.qp] = m.sid /\ m.sid \in Sid
  BY DEF Owned, Datagram
<1>2. sessions' \in [Worker -> [Sid -> Client \cup {NoChannel, NoSession}]]
  BY <1>1 DEF AddNewSession, WireInv
<1>3. ASSUME NEW v \in Worker, NEW c \in Client
      PROVE  sessions'[v][SessionId[c]] \in {c, NoChannel, NoSession}
  <2>1. SessionId[c] \in Sid
    BY DEF Sid
  <2>2. CASE v = w /\ SessionId[c] = m.sid
    BY <1>1, <2>1, <2>2, UniqueSessionIds DEF AddNewSession, WireInv, SessionIsCurrent
  <2>3. CASE ~(v = w /\ SessionId[c] = m.sid)
    BY <2>1, <2>3 DEF AddNewSession, WireInv, SessionIsCurrent
  <2> QED BY <2>2, <2>3
<1> QED BY <1>2, <1>3 DEF SessionIsCurrent

\* The lookup of an unknown id enters an empty entry and changes no other one.
LEMMA LookupKeepsSessions ==
  ASSUME WireInv, NEW w \in Worker, NEW m \in Owned, LookupSession(w, m)
  PROVE  /\ sessions' \in [Worker -> [Sid -> Client \cup {NoChannel, NoSession}]]
         /\ SessionIsCurrent'
<1>1. m.sid \in Sid
  BY DEF Owned, Datagram
<1>2. sessions' \in [Worker -> [Sid -> Client \cup {NoChannel, NoSession}]]
  BY <1>1 DEF LookupSession, WireInv
<1>3. ASSUME NEW v \in Worker, NEW c \in Client
      PROVE  sessions'[v][SessionId[c]] \in {c, NoChannel, NoSession}
  <2>1. SessionId[c] \in Sid
    BY DEF Sid
  <2> QED BY <1>1, <2>1 DEF LookupSession, WireInv, SessionIsCurrent
<1> QED BY <1>2, <1>3 DEF SessionIsCurrent

\* A callback's reply goes to a client, over the channel of the session.
LEMMA ReplyKeepsBoxes ==
  ASSUME WireInv, NEW w \in Worker, HasMsg(w), NEW val \in Payload,
         ReplyTo(w, Head(inbox[w]), val)
  PROVE  inbox' \in Boxes
<1> DEFINE m == Head(inbox[w])
           ch == ReplyChannel(w, m)
<1>1. w \in Endpoint /\ m \in Owned /\ Taken(w) \in Boxes /\ PolledAfter(w) \in [Endpoint -> Nat]
  BY TakeKeeps DEF Endpoint
<1>2. CASE ch = NoChannel
  BY <1>1, <1>2 DEF ReplyTo
<1>3. CASE ch # NoChannel
  <2>1. m.sid \in Sid
    BY <1>1 DEF Owned, Datagram
  <2>2. ch \in Endpoint
    BY <1>3, <2>1 DEF ReplyChannel, WireInv, Endpoint
  <2>3. Reply(m, val) \in Owned
    BY <1>1, ReplyOwned
  <2>4. Send(ch, Reply(m, val), Taken(w), HeldAfter(w), PolledAfter(w))
    BY <1>3 DEF ReplyTo
  <2> QED BY <1>1, <2>2, <2>3, <2>4, SendKeepsBoxes
<1> QED BY <1>2, <1>3

LEMMA SameTables ==
  ASSUME WireInv, inbox' \in Boxes, polled' \in [Endpoint -> Nat], UNCHANGED sessions
  PROVE  WireInv'
  BY DEF WireInv, SessionIsCurrent

\* A client's datagram leaves for its server thread.
LEMMA ClientSends ==
  ASSUME WireInv, NEW c \in Client, NEW m \in Owned,
         Send(ServerOf[c], m, inbox, held, polled), UNCHANGED <<polled, sessions>>
  PROVE  WireInv'
<1>1. ServerOf[c] \in Endpoint
  BY DEF Endpoint
<1>2. inbox' \in Boxes
  BY <1>1, SendKeepsBoxes DEF WireInv
<1> QED BY <1>2, SameTables DEF WireInv

LEMMA CallKeeps ==
  ASSUME WireInv, NEW c \in Client, NEW i \in Cors, Call(c, i, Echo, Request)
  PROVE  WireInv'
<1>1. Request \in Payload /\ i \in CorId /\ Echo \in 0..1
  BY WordAssumption DEF Request, Payload, CorId, Cors, Echo
<1>2. CASE i < StationSize
  BY <1>1, <1>2, ReqOwned, ClientSends DEF Call
<1>3. CASE ~(i < StationSize)
  BY <1>3, SameTables DEF Call, WireInv
<1> QED BY <1>2, <1>3

LEMMA CastKeeps ==
  ASSUME WireInv, NEW c \in Client, NEW i \in Cors, Cast(c, i, Stop, <<>>)
  PROVE  WireInv'
<1>1. <<>> \in Payload /\ i \in CorId /\ Stop \in 0..1
  BY DEF Payload, CorId, Cors, Stop
<1> QED BY <1>1, ReqOwned, ClientSends DEF Cast

LEMMA InitWire == Init => WireInv
<1> SUFFICES ASSUME Init PROVE WireInv
  OBVIOUS
<1>1. inbox \in Boxes
  BY DEF Init, RPCInit, Boxes
<1>2. sessions \in [Worker -> [Sid -> Client \cup {NoChannel, NoSession}]]
  BY DEF Init, RPCInit
<1>3. SessionIsCurrent
  BY DEF Init, RPCInit, SessionIsCurrent, Sid
<1> QED BY <1>1, <1>2, <1>3 DEF Init, RPCInit, WireInv

\* A step of a server thread.
LEMMA ServerKeeps ==
  ASSUME WireInv, NEW w \in Worker, WorkerStart(w) \/ WorkerRecv(w) \/ WorkerExit(w)
  PROVE  WireInv'
<1> DEFINE m == Head(inbox[w])
<1>1. CASE WorkerStart(w) \/ WorkerExit(w)
  BY <1>1, SameTables DEF WorkerStart, WorkerExit, rpcVars, WireInv
<1>2. CASE WorkerRecv(w)
  <2>1. HasMsg(w) /\ w \in Endpoint
    BY <1>2 DEF WorkerRecv, Endpoint
  <2>2. m \in Owned /\ Taken(w) \in Boxes /\ PolledAfter(w) \in [Endpoint -> Nat]
    BY <2>1, TakeKeeps
  <2>3. CASE RecvConnect(w)
    <3>1. inbox' \in Boxes /\ polled' \in [Endpoint -> Nat]
      BY <2>2, <2>3 DEF RecvConnect, Take
    <3>2. m.type = "connect" /\ AddNewSession(w, m)
      BY <2>3 DEF RecvConnect
    <3> QED BY <2>2, <3>1, <3>2, ConnectKeepsSessions DEF WireInv
  <2>4. CASE RecvReq(w, Result)
    <3>1. Result \in Payload
      BY WordAssumption DEF Result, Payload
    <3>2. inbox' \in Boxes
      BY <2>1, <2>4, <3>1, ReplyKeepsBoxes DEF RecvReq
    <3>3. polled' \in [Endpoint -> Nat] /\ LookupSession(w, m)
      BY <2>2, <2>4 DEF RecvReq, Take
    <3> QED BY <2>2, <3>2, <3>3, LookupKeepsSessions DEF WireInv
  <2>5. CASE RecvCast(w)
    <3>1. inbox' \in Boxes /\ polled' \in [Endpoint -> Nat] /\ LookupSession(w, m)
      BY <2>2, <2>5 DEF RecvCast, Take
    <3> QED BY <2>2, <3>1, LookupKeepsSessions DEF WireInv
  <2> QED BY <1>2, <2>3, <2>4, <2>5 DEF WorkerRecv
<1> QED BY <1>1, <1>2

\* A step of a client thread.
LEMMA ClientKeeps ==
  ASSUME WireInv, NEW c \in Client, ThreadNext(c)
  PROVE  WireInv'
<1>1. CASE ThreadStart(c)
  <2>1. CASE SendConnect(c)
    BY <2>1, ConnectOwned, ClientSends DEF SendConnect
  <2>2. CASE UNCHANGED rpcVars
    BY <2>2, SameTables DEF rpcVars, WireInv
  <2> QED BY <1>1, <2>1, <2>2 DEF ThreadStart
<1>2. CASE ThreadPoll(c)
  <2>1. HasMsg(c) /\ c \in Endpoint
    BY <1>2 DEF ThreadPoll, RecvReply, Endpoint
  <2>2. inbox' \in Boxes /\ polled' \in [Endpoint -> Nat] /\ UNCHANGED sessions
    BY <1>2, <2>1, TakeKeeps DEF ThreadPoll, RecvReply, Take
  <2> QED BY <2>2, SameTables
<1>3. ASSUME NEW i \in Cors, FirstCall(c, i)
      PROVE  WireInv'
  BY <1>3, CallKeeps DEF FirstCall
<1>4. ASSUME NEW i \in Cors, Resume(c, i)
      PROVE  WireInv'
  <2>1. CASE Call(c, i, Echo, Request)
    BY <2>1, CallKeeps
  <2>2. CASE Cast(c, i, Stop, <<>>)
    BY <2>2, CastKeeps
  <2>3. CASE UNCHANGED rpcVars
    BY <2>3, SameTables DEF rpcVars, WireInv
  <2> QED BY <1>4, <2>1, <2>2, <2>3 DEF Resume
<1> QED BY <1>1, <1>2, <1>3, <1>4 DEF ThreadNext

LEMMA WireStep == WireInv /\ [Next]_vars => WireInv'
<1> SUFFICES ASSUME WireInv, [Next]_vars PROVE WireInv'
  OBVIOUS
<1>1. CASE UNCHANGED vars
  BY <1>1, SameTables DEF vars, rpcVars, WireInv
<1>2. CASE ServerNext
  BY <1>2, ServerKeeps DEF ServerNext
<1>3. CASE ClientNext
  BY <1>3, ClientKeeps DEF ClientNext
<1> QED BY <1>1, <1>2, <1>3 DEF Next

\* The table of sessions of a server thread sends the replies to a client's requests to
\* that client's queue pair, or nowhere (rdma_ud_t.hh:123, rpc/mod.hh:76).
THEOREM RepliesGoHome == Spec => []SessionIsCurrent
<1>1. WireInv => SessionIsCurrent
  BY DEF WireInv
<1> QED BY InitWire, WireStep, <1>1, PTL DEF Spec

-----------------------------------------------------------------------------
(* A request never meets a worker that does not know its session, unless its *)
(* Connect was lost or overtaken.  In the queue of its worker the Connect of *)
(* a client leads all its other datagrams.                                   *)

Clean(q, s) == \A j \in 1..Len(q) : q[j].sid # s
Led(q, s) == \E p \in 1..Len(q) : /\ q[p].type = "connect" /\ q[p].sid = s
                                  /\ \A j \in 1..Len(q) : q[j].sid = s => j >= p
Swapped(q, m) == Append([q EXCEPT ![Len(q)] = m], q[Len(q)])

LEMMA CleanQueues ==
  ASSUME NEW q \in Seq(Owned), NEW m \in Owned, NEW s, Clean(q, s)
  PROVE  /\ m.sid # s => Clean(Append(q, m), s)
         /\ m.sid # s /\ Len(q) > 0 => Clean(Swapped(q, m), s)
         /\ m.sid = s /\ m.type = "connect" => Led(Append(q, m), s)
         /\ m.sid = s /\ m.type = "connect" /\ Len(q) > 0 => Led(Swapped(q, m), s)
         /\ q # <<>> => Clean(Tail(q), s)
<1> DEFINE n == Len(q)
<1>0. n \in Nat
  OBVIOUS
<1>1. m.sid # s => Clean(Append(q, m), s)
  BY <1>0 DEF Clean
<1>2. m.sid = s /\ m.type = "connect" => Led(Append(q, m), s)
  <2> SUFFICES ASSUME m.sid = s, m.type = "connect" PROVE Led(Append(q, m), s)
    OBVIOUS
  <2>1. /\ n + 1 \in 1..Len(Append(q, m)) /\ Append(q, m)[n + 1] = m
        /\ \A j \in 1..Len(Append(q, m)) : Append(q, m)[j].sid = s => j >= n + 1
    BY <1>0 DEF Clean
  <2> QED BY <2>1 DEF Led
<1>3. ASSUME n > 0
      PROVE  /\ Len(Swapped(q, m)) = n + 1
             /\ Swapped(q, m)[n] = m /\ Swapped(q, m)[n + 1] = q[n]
             /\ \A j \in 1..(n - 1) : Swapped(q, m)[j] = q[j]
  BY <1>0, <1>3 DEF Swapped
<1>4. m.sid # s /\ n > 0 => Clean(Swapped(q, m), s)
  BY <1>0, <1>3, SMTT(30) DEF Clean
<1>5. m.sid = s /\ m.type = "connect" /\ n > 0 => Led(Swapped(q, m), s)
  <2> SUFFICES ASSUME m.sid = s, m.type = "connect", n > 0 PROVE Led(Swapped(q, m), s)
    OBVIOUS
  <2>1. /\ n \in 1..Len(Swapped(q, m)) /\ Swapped(q, m)[n] = m
        /\ \A j \in 1..Len(Swapped(q, m)) : Swapped(q, m)[j].sid = s => j >= n
    BY <1>0, <1>3 DEF Clean
  <2> QED BY <2>1 DEF Led
<1>6. q # <<>> => Clean(Tail(q), s)
  BY <1>0 DEF Clean
<1> QED BY <1>1, <1>2, <1>4, <1>5, <1>6

LEMMA LedQueues ==
  ASSUME NEW q \in Seq(Owned), NEW m \in Owned, NEW s, Led(q, s)
  PROVE  /\ Led(Append(q, m), s)
         /\ ~(q[Len(q)].type = "connect" /\ q[Len(q)].sid = s /\ m.sid = s) => Led(Swapped(q, m), s)
         /\ q # <<>>
         /\ Head(q).sid = s => Head(q).type = "connect"
         /\ Head(q).sid # s => Led(Tail(q), s)
<1> DEFINE n == Len(q)
<1>1. PICK p \in 1..n : /\ q[p].type = "connect" /\ q[p].sid = s
                        /\ \A j \in 1..n : q[j].sid = s => j >= p
  BY DEF Led
<1>2. n \in Nat /\ n > 0 /\ q # <<>>
  BY <1>1
<1>3. Led(Append(q, m), s)
  <2>1. /\ p \in 1..Len(Append(q, m)) /\ Append(q, m)[p] = q[p]
        /\ \A j \in 1..Len(Append(q, m)) : Append(q, m)[j].sid = s => j >= p
    BY <1>1, <1>2
  <2> QED BY <1>1, <2>1 DEF Led
<1>4. /\ Len(Swapped(q, m)) = n + 1
      /\ Swapped(q, m)[n] = m /\ Swapped(q, m)[n + 1] = q[n]
      /\ \A j \in 1..(n - 1) : Swapped(q, m)[j] = q[j]
  BY <1>2 DEF Swapped
<1>5. ASSUME ~(q[n].type = "connect" /\ q[n].sid = s /\ m.sid = s)
      PROVE  Led(Swapped(q, m), s)
  <2>1. CASE p = n
    <3>1. /\ n + 1 \in 1..Len(Swapped(q, m)) /\ Swapped(q, m)[n + 1] = q[p]
          /\ \A j \in 1..Len(Swapped(q, m)) : Swapped(q, m)[j].sid = s => j >= n + 1
      BY <1>1, <1>2, <1>4, <1>5, <2>1
    <3> QED BY <1>1, <3>1 DEF Led
  <2>2. CASE p # n
    <3>1. /\ p \in 1..Len(Swapped(q, m)) /\ Swapped(q, m)[p] = q[p]
          /\ \A j \in 1..Len(Swapped(q, m)) : Swapped(q, m)[j].sid = s => j >= p
      BY <1>1, <1>2, <1>4, <2>2, SMTT(30)
    <3> QED BY <1>1, <3>1 DEF Led
  <2> QED BY <2>1, <2>2
<1>6. Head(q) = q[1]
  BY <1>2
<1>7. Head(q).sid = s => Head(q).type = "connect"
  BY <1>1, <1>2, <1>6
<1>8. ASSUME Head(q).sid # s
      PROVE  Led(Tail(q), s)
  <2>1. Len(Tail(q)) = n - 1 /\ \A j \in 1..(n - 1) : Tail(q)[j] = q[j + 1]
    BY <1>2
  <2>2. p - 1 \in 1..(n - 1)
    BY <1>1, <1>2, <1>6, <1>8
  <2>3. /\ Tail(q)[p - 1] = q[p]
        /\ \A j \in 1..Len(Tail(q)) : Tail(q)[j].sid = s => j >= p - 1
    BY <1>1, <1>2, <2>1, <2>2
  <2> QED BY <1>1, <2>1, <2>2, <2>3 DEF Led
<1> QED BY <1>2, <1>3, <1>5, <1>7, <1>8

-----------------------------------------------------------------------------
\* Where the session of client c stands at its worker.
Session(c) == sessions[ServerOf[c]][SessionId[c]]
Queue(c) == inbox[ServerOf[c]]

Fresh(c) == tpc[c] \in {"init", "refused"} /\ Session(c) = NoSession /\ Clean(Queue(c), SessionId[c])
Known(c) == Session(c) = c \/ (Session(c) = NoSession /\ Led(Queue(c), SessionId[c]))

\* No other worker has heard of c.
Apart(c) ==
  \A v \in Worker \ {ServerOf[c]} : sessions[v][SessionId[c]] = NoSession /\ Clean(inbox[v], SessionId[c])

\* The inductive invariant of NullChannelNeedsFault.
LinkInv == \A c \in Client : Apart(c) /\ (c \in unlinked \/ Fresh(c) \/ Known(c))

LEMMA OwnerOf ==
  ASSUME NEW c \in Client, NEW m, m.sid = SessionId[c]
  PROVE  Owner(m) = c
  BY UniqueSessionIds DEF Owner

\* What a send does to the queues, and what it records.
LEMMA SendEffect ==
  ASSUME NEW e \in Endpoint, NEW m \in Owned, NEW box \in Boxes, NEW hld,
         NEW pol \in [Endpoint -> Nat], Send(e, m, box, hld, pol)
  PROVE  /\ unlinked \subseteq unlinked'
         /\ \/ inbox' = [box EXCEPT ![e] = Append(box[e], m)]
            \/ inbox' = box /\ (m.type = "connect" => Owner(m) \in unlinked')
            \/ /\ Len(box[e]) > 0
               /\ inbox' = [box EXCEPT ![e] = Swapped(box[e], m)]
               /\ box[e][Len(box[e])].type = "connect" /\ box[e][Len(box[e])].sid = m.sid
                    => Owner(m) \in unlinked'
<1>1. Len(box[e]) \in Nat /\ pol[e] \in Nat
  BY DEF Boxes
<1>2. CASE /\ HasRoom(e, box, hld)
           /\ inbox' = [box EXCEPT ![e] = Append(@, m)]
           /\ UNCHANGED <<faults, unlinked, gone, overflowed>>
  BY <1>2
<1>3. CASE inbox' = box /\ MarkUndelivered(m)
  BY <1>3 DEF MarkUndelivered
<1>4. CASE LET n == Len(box[e]) IN
           /\ n > pol[e]
           /\ inbox' = [box EXCEPT ![e] = Append([@ EXCEPT ![n] = m], @[n])]
           /\ unlinked' = IF box[e][n].type = "connect" /\ box[e][n].sid = m.sid
                            THEN unlinked \cup {Owner(m)} ELSE unlinked
  BY <1>1, <1>4 DEF Swapped
<1> QED BY <1>2, <1>3, <1>4 DEF Send

\* A client sends its Connect, or a request once it is connected.
LEMMA SendKeepsLinks ==
  ASSUME WireInv, LinkInv, NEW d \in Client, NEW m \in Owned, m.sid = SessionId[d],
         Send(ServerOf[d], m, inbox, held, polled), UNCHANGED sessions,
         m.type = "connect" \/ tpc[d] \notin {"init", "refused"},
         \A c \in Client \ {d} : tpc'[c] = tpc[c]
  PROVE  LinkInv'
<1> DEFINE w == ServerOf[d]
           n == Len(inbox[w])
<1>0. w \in Worker /\ w \in Endpoint /\ inbox \in Boxes /\ inbox[w] \in Seq(Owned)
  BY DEF Endpoint, WireInv, Boxes
<1>1. /\ unlinked \subseteq unlinked'
      /\ \/ inbox' = [inbox EXCEPT ![w] = Append(inbox[w], m)]
         \/ inbox' = inbox /\ (m.type = "connect" => d \in unlinked')
         \/ /\ n > 0
            /\ inbox' = [inbox EXCEPT ![w] = Swapped(inbox[w], m)]
            /\ inbox[w][n].type = "connect" /\ inbox[w][n].sid = m.sid => d \in unlinked'
  <2>1. Owner(m) = d
    BY OwnerOf
  <2>2. polled \in [Endpoint -> Nat]
    BY DEF WireInv
  <2>3. /\ unlinked \subseteq unlinked'
        /\ \/ inbox' = [inbox EXCEPT ![w] = Append(inbox[w], m)]
           \/ inbox' = inbox /\ (m.type = "connect" => Owner(m) \in unlinked')
           \/ /\ Len(inbox[w]) > 0
              /\ inbox' = [inbox EXCEPT ![w] = Swapped(inbox[w], m)]
              /\ inbox[w][Len(inbox[w])].type = "connect" /\ inbox[w][Len(inbox[w])].sid = m.sid
                   => Owner(m) \in unlinked'
    BY <1>0, <2>2, SendEffect
  <2> QED BY <2>1, <2>3
<1>2. \A v \in Worker \ {w} : inbox'[v] = inbox[v]
  BY <1>0, <1>1 DEF Endpoint, Boxes
<1>3. \/ inbox'[w] = Append(inbox[w], m)
      \/ inbox'[w] = inbox[w] /\ (m.type = "connect" => d \in unlinked')
      \/ /\ n > 0
         /\ inbox'[w] = Swapped(inbox[w], m)
         /\ inbox[w][n].type = "connect" /\ inbox[w][n].sid = m.sid => d \in unlinked'
  BY <1>0, <1>1 DEF Endpoint, Boxes
<1>c. ASSUME NEW s, Clean(inbox[w], s)
      PROVE  /\ m.sid # s => Clean(Append(inbox[w], m), s)
             /\ m.sid # s /\ n > 0 => Clean(Swapped(inbox[w], m), s)
             /\ m.sid = s /\ m.type = "connect" => Led(Append(inbox[w], m), s)
             /\ m.sid = s /\ m.type = "connect" /\ n > 0 => Led(Swapped(inbox[w], m), s)
  BY <1>0, <1>c, CleanQueues
<1>l. ASSUME NEW s, Led(inbox[w], s)
      PROVE  /\ Led(Append(inbox[w], m), s)
             /\ ~(inbox[w][n].type = "connect" /\ inbox[w][n].sid = s /\ m.sid = s)
                  => Led(Swapped(inbox[w], m), s)
  BY <1>0, <1>l, LedQueues
<1> HIDE DEF n
<1>4. ASSUME NEW c \in Client \ {d}
      PROVE  Apart(c)' /\ (c \in unlinked' \/ Fresh(c)' \/ Known(c)')
  <2>0. m.sid # SessionId[c]
    BY UniqueSessionIds
  <2>1. Clean(inbox[w], SessionId[c]) => Clean(inbox'[w], SessionId[c])
    BY <1>3, <1>c, <2>0
  <2>2. Led(inbox[w], SessionId[c]) => Led(inbox'[w], SessionId[c])
    BY <1>3, <1>l, <2>0
  <2>3. Apart(c)'
    BY <1>2, <2>1 DEF LinkInv, Apart
  <2>4. CASE c \in unlinked
    BY <1>1, <2>3, <2>4
  <2>5. CASE Fresh(c)
    BY <1>2, <2>1, <2>3, <2>5 DEF Fresh, Session, Queue
  <2>6. CASE Known(c)
    BY <1>2, <2>2, <2>3, <2>6 DEF Known, Session, Queue
  <2> QED BY <2>3, <2>4, <2>5, <2>6 DEF LinkInv
<1>5. Apart(d)'
  BY <1>2 DEF LinkInv, Apart
<1>6. d \in unlinked' \/ Known(d)'
  <2>1. CASE d \in unlinked
    BY <1>1, <2>1
  <2>2. CASE Fresh(d)
    <3>1. m.type = "connect" /\ Session(d)' = NoSession /\ Clean(inbox[w], SessionId[d])
      BY <2>2 DEF Fresh, Session, Queue
    <3>2. d \in unlinked' \/ Led(inbox'[w], SessionId[d])
      BY <1>3, <1>c, <3>1, ZenonT(40)
    <3> QED BY <3>1, <3>2 DEF Known, Queue
  <2>3. CASE Session(d) = d
    BY <2>3 DEF Known, Session
  <2>4. CASE Session(d) = NoSession /\ Led(inbox[w], SessionId[d])
    <3>1. d \in unlinked' \/ Led(inbox'[w], SessionId[d])
      <4>1. /\ Led(Append(inbox[w], m), SessionId[d])
            /\ ~(inbox[w][n].type = "connect" /\ inbox[w][n].sid = m.sid) => Led(Swapped(inbox[w], m), SessionId[d])
        BY <1>l, <2>4
      <4> QED BY <1>3, <2>4, <4>1
    <3> QED BY <2>4, <3>1 DEF Known, Session, Queue
  <2> QED BY <2>1, <2>2, <2>3, <2>4 DEF LinkInv, Known, Queue
<1> QED BY <1>4, <1>5, <1>6 DEF LinkInv

\* A step that leaves the workers' queues and tables alone.
LEMMA QuietKeepsLinks ==
  ASSUME LinkInv, \A v \in Worker : inbox'[v] = inbox[v], UNCHANGED sessions,
         unlinked \subseteq unlinked',
         \A c \in Client : tpc[c] \in {"init", "refused"} => tpc'[c] \in {"init", "refused"}
  PROVE  LinkInv'
<1> SUFFICES ASSUME NEW c \in Client
             PROVE  Apart(c)' /\ (c \in unlinked' \/ Fresh(c)' \/ Known(c)')
  BY DEF LinkInv
<1>1. ServerOf[c] \in Worker
  OBVIOUS
<1>2. Apart(c)'
  BY DEF LinkInv, Apart
<1>3. Fresh(c) => Fresh(c)'
  BY <1>1 DEF Fresh, Session, Queue
<1>4. Known(c) => Known(c)'
  BY <1>1 DEF Known, Session, Queue
<1> QED BY <1>2, <1>3, <1>4 DEF LinkInv

\* A worker takes datagram m and updates the session of m's sender.
LEMMA TakeKeepsLinks ==
  ASSUME WireInv, LinkInv, NEW w \in Worker, HasMsg(w), UNCHANGED tpc,
         unlinked \subseteq unlinked',
         \A v \in Worker : inbox'[v] = Taken(w)[v],
         LET m == Head(inbox[w]) IN
           \/ m.type = "connect" /\ AddNewSession(w, m)
           \/ m.type # "connect" /\ LookupSession(w, m)
  PROVE  LinkInv'
<1> DEFINE m == Head(inbox[w])
           q == inbox[w]
<1>0. w \in Endpoint /\ q \in Seq(Owned) /\ q # <<>> /\ m \in Owned /\ m.sid \in Sid
  BY TakeKeeps DEF Endpoint, WireInv, Boxes, HasMsg, Owned, Datagram
<1>1. inbox'[w] = Tail(q) /\ \A v \in Worker \ {w} : inbox'[v] = inbox[v]
  BY <1>0 DEF Taken, WireInv, Boxes, Endpoint
<1>2. m = q[1] /\ 1 \in 1..Len(q)
  BY <1>0
<1> SUFFICES ASSUME NEW c \in Client
             PROVE  Apart(c)' /\ (c \in unlinked' \/ Fresh(c)' \/ Known(c)')
  BY DEF LinkInv
<1>3. ServerOf[c] \in Worker /\ SessionId[c] \in Sid /\ c # NoSession
  BY ChannelAssumption DEF Sid
<1>4. Clean(q, SessionId[c]) => Clean(Tail(q), SessionId[c]) /\ m.sid # SessionId[c]
  BY <1>0, <1>2, CleanQueues DEF Clean
<1>5. \A v \in Worker, s \in Sid : v # w \/ s # m.sid => sessions'[v][s] = sessions[v][s]
  BY <1>0 DEF AddNewSession, LookupSession, WireInv
<1>6. Apart(c)'
  BY <1>1, <1>3, <1>4, <1>5 DEF LinkInv, Apart
<1>7. CASE ServerOf[c] # w
  BY <1>1, <1>3, <1>5, <1>6, <1>7 DEF LinkInv, Fresh, Known, Session, Queue
<1>8. CASE ServerOf[c] = w
  <2>1. CASE c \in unlinked
    BY <1>6, <2>1
  <2>2. CASE Fresh(c)
    BY <1>1, <1>3, <1>4, <1>5, <1>6, <1>8, <2>2 DEF Fresh, Session, Queue
  <2>3. CASE Session(c) = c
    <3>1. Session(c)' = c
      BY <1>0, <1>3, <1>8, <2>3 DEF AddNewSession, LookupSession, WireInv, Session
    <3> QED BY <1>6, <3>1 DEF Known
  <2>4. CASE Session(c) = NoSession /\ Led(q, SessionId[c])
    <3>1. CASE m.sid = SessionId[c]
      <4>1. m.type = "connect"
        BY <1>0, <2>4, <3>1, LedQueues
      <4>2. m.qp = c
        BY <1>0, <3>1, <4>1, UniqueSessionIds DEF Owned
      <4>3. Session(c)' = c
        BY <1>0, <1>3, <1>8, <2>4, <3>1, <4>1, <4>2 DEF AddNewSession, WireInv, Session
      <4> QED BY <1>6, <4>3 DEF Known
    <3>2. CASE m.sid # SessionId[c]
      <4>1. Led(Tail(q), SessionId[c])
        BY <1>0, <2>4, <3>2, LedQueues
      <4>2. Session(c)' = NoSession
        BY <1>3, <1>5, <1>8, <2>4, <3>2 DEF Session
      <4> QED BY <1>1, <1>6, <1>8, <4>1, <4>2 DEF Known, Queue
    <3> QED BY <3>1, <3>2
  <2> QED BY <1>8, <2>1, <2>2, <2>3, <2>4 DEF LinkInv, Known, Queue
<1> QED BY <1>7, <1>8

LEMMA InitLinks == Init => LinkInv
<1> SUFFICES ASSUME Init, NEW c \in Client PROVE Apart(c) /\ Fresh(c)
  BY DEF LinkInv
<1>1. ServerOf[c] \in Worker /\ SessionId[c] \in Sid
  BY DEF Sid
<1>2. \A v \in Worker : sessions[v][SessionId[c]] = NoSession /\ inbox[v] = <<>>
  BY <1>1 DEF Init, RPCInit, Endpoint
<1>3. Clean(<<>>, SessionId[c])
  BY DEF Clean
<1>4. tpc[c] = "init"
  BY DEF Init
<1> QED BY <1>1, <1>2, <1>3, <1>4 DEF Apart, Fresh, Session, Queue

LEMMA CallKeepsLinks ==
  ASSUME WireInv, LinkInv, NEW c \in Client, NEW i \in Cors, Call(c, i, Echo, Request),
         tpc[c] = "run", UNCHANGED tpc
  PROVE  LinkInv'
<1> DEFINE m == Req(c, i, Echo, Request)
<1>1. m \in Owned /\ m.sid = SessionId[c]
  <2>1. Request \in Payload /\ i \in CorId /\ Echo \in 0..1
    BY WordAssumption DEF Request, Payload, CorId, Cors, Echo
  <2>2. m \in Owned
    BY <2>1, ReqOwned
  <2> QED BY <2>2 DEF Req
<1>2. CASE i < StationSize
  <2>1. Send(ServerOf[c], m, inbox, held, polled) /\ UNCHANGED sessions
    BY <1>2 DEF Call
  <2> HIDE DEF m
  <2> QED BY <1>1, <2>1, SendKeepsLinks
<1>3. CASE ~(i < StationSize)
  BY <1>3, QuietKeepsLinks DEF Call
<1> QED BY <1>2, <1>3

LEMMA CastKeepsLinks ==
  ASSUME WireInv, LinkInv, NEW c \in Client, NEW i \in Cors, Cast(c, i, Stop, <<>>),
         tpc[c] = "run", \A d \in Client \ {c} : tpc'[d] = tpc[d]
  PROVE  LinkInv'
<1> DEFINE m == Req(c, i, Stop, <<>>)
<1>1. m \in Owned /\ m.sid = SessionId[c]
  <2>1. <<>> \in Payload /\ i \in CorId /\ Stop \in 0..1
    BY DEF Payload, CorId, Cors, Stop
  <2>2. m \in Owned
    BY <2>1, ReqOwned
  <2> QED BY <2>2 DEF Req
<1>2. Send(ServerOf[c], m, inbox, held, polled) /\ UNCHANGED sessions
  BY DEF Cast
<1> HIDE DEF m
<1> QED BY <1>1, <1>2, SendKeepsLinks

\* The replies of a callback do not touch the workers' queues.
LEMMA ReplyLeavesWorkers ==
  ASSUME WireInv, NEW w \in Worker, HasMsg(w), NEW val \in Payload,
         ReplyTo(w, Head(inbox[w]), val)
  PROVE  unlinked \subseteq unlinked' /\ \A v \in Worker : inbox'[v] = Taken(w)[v]
<1> DEFINE m == Head(inbox[w])
           ch == ReplyChannel(w, m)
<1>1. w \in Endpoint /\ m \in Owned /\ Taken(w) \in Boxes /\ PolledAfter(w) \in [Endpoint -> Nat]
  BY TakeKeeps DEF Endpoint
<1>2. CASE ch = NoChannel
  BY <1>1, <1>2 DEF ReplyTo
<1>3. CASE ch # NoChannel
  <2>1. m.sid \in Sid
    BY <1>1 DEF Owned, Datagram
  <2>2. ch \in Client /\ ch \in Endpoint
    BY <1>3, <2>1 DEF ReplyChannel, WireInv, Endpoint
  <2>3. Reply(m, val) \in Owned
    BY <1>1, ReplyOwned
  <2>4. Send(ch, Reply(m, val), Taken(w), HeldAfter(w), PolledAfter(w))
    BY <1>3 DEF ReplyTo
  <2> DEFINE box == Taken(w)
             rep == Reply(m, val)
  <2>5. /\ unlinked \subseteq unlinked'
        /\ \/ inbox' = [box EXCEPT ![ch] = Append(box[ch], rep)]
           \/ inbox' = box
           \/ inbox' = [box EXCEPT ![ch] = Swapped(box[ch], rep)]
    BY <1>1, <2>2, <2>3, <2>4, SendEffect
  <2> HIDE DEF box, rep
  <2>6. box \in Boxes
    BY <1>1 DEF box
  <2>7. \A v \in Worker : v # ch /\ v \in Endpoint
    BY <2>2 DEF Endpoint
  <2>8. \A v \in Worker : inbox'[v] = box[v]
    BY <2>5, <2>6, <2>7 DEF Boxes
  <2> QED BY <2>5, <2>8 DEF box
<1> QED BY <1>2, <1>3

LEMMA ServerKeepsLinks ==
  ASSUME WireInv, LinkInv, NEW w \in Worker, WorkerStart(w) \/ WorkerRecv(w) \/ WorkerExit(w)
  PROVE  LinkInv'
<1> DEFINE m == Head(inbox[w])
<1>1. CASE WorkerStart(w) \/ WorkerExit(w)
  BY <1>1, QuietKeepsLinks DEF WorkerStart, WorkerExit, rpcVars
<1>2. CASE WorkerRecv(w)
  <2>1. HasMsg(w) /\ UNCHANGED tpc
    BY <1>2 DEF WorkerRecv
  <2>2. CASE RecvConnect(w)
    BY <2>1, <2>2, TakeKeepsLinks DEF RecvConnect
  <2>3. CASE m.type = "req" /\ RecvReq(w, Result)
    <3>1. Result \in Payload
      BY WordAssumption DEF Result, Payload
    <3>2. unlinked \subseteq unlinked' /\ \A v \in Worker : inbox'[v] = Taken(w)[v]
      BY <2>1, <2>3, <3>1, ReplyLeavesWorkers DEF RecvReq
    <3>3. m.type # "connect" /\ LookupSession(w, m)
      BY <2>3 DEF RecvReq
    <3> QED BY <2>1, <3>2, <3>3, TakeKeepsLinks
  <2>4. CASE m.type = "req" /\ RecvCast(w)
    BY <2>1, <2>4, TakeKeepsLinks DEF RecvCast
  <2> QED BY <1>2, <2>2, <2>3, <2>4 DEF WorkerRecv
<1> QED BY <1>1, <1>2

LEMMA ClientKeepsLinks ==
  ASSUME WireInv, LinkInv, tpc \in [Client -> {"init", "run", "exit", "refused"}],
         NEW c \in Client, ThreadNext(c)
  PROVE  LinkInv'
<1>1. CASE ThreadStart(c)
  <2>1. CASE tpc' = [tpc EXCEPT ![c] = "run"] /\ SendConnect(c)
    <3>1. Connect(c) \in Owned /\ Connect(c).sid = SessionId[c] /\ Connect(c).type = "connect"
      BY ConnectOwned DEF Connect
    <3>2. /\ Send(ServerOf[c], Connect(c), inbox, held, polled) /\ UNCHANGED sessions
          /\ \A d \in Client \ {c} : tpc'[d] = tpc[d]
      BY <2>1 DEF SendConnect
    <3> QED BY <3>1, <3>2, SendKeepsLinks
  <2>2. CASE tpc' = [tpc EXCEPT ![c] = "refused"] /\ UNCHANGED rpcVars
    BY <2>2, QuietKeepsLinks DEF rpcVars
  <2> QED BY <1>1, <2>1, <2>2 DEF ThreadStart
<1>2. CASE ThreadPoll(c)
  <2>1. inbox' = Taken(c) /\ UNCHANGED <<sessions, unlinked, tpc>>
    BY <1>2 DEF ThreadPoll, RecvReply, benchVars
  <2>2. \A v \in Worker : inbox'[v] = inbox[v]
    BY <2>1 DEF Taken, WireInv, Boxes, Endpoint
  <2> QED BY <2>1, <2>2, QuietKeepsLinks
<1>3. ASSUME NEW i \in Cors, FirstCall(c, i)
      PROVE  LinkInv'
  BY <1>3, CallKeepsLinks DEF FirstCall, Scheduled
<1>4. ASSUME NEW i \in Cors, Resume(c, i)
      PROVE  LinkInv'
  <2>0. tpc[c] = "run"
    BY <1>4 DEF Resume, Scheduled
  <2>1. CASE Call(c, i, Echo, Request) /\ UNCHANGED tpc
    BY <2>0, <2>1, CallKeepsLinks
  <2>2. CASE Cast(c, i, Stop, <<>>) /\ tpc' = [tpc EXCEPT ![c] = "exit"]
    <3>1. \A d \in Client \ {c} : tpc'[d] = tpc[d]
      BY <2>2
    <3> QED BY <2>0, <2>2, <3>1, CastKeepsLinks
  <2>3. CASE UNCHANGED <<rpcVars, tpc>>
    BY <2>3, QuietKeepsLinks DEF rpcVars
  <2> QED BY <1>4, <2>1, <2>2, <2>3 DEF Resume
<1> QED BY <1>1, <1>2, <1>3, <1>4 DEF ThreadNext

\* An entry without a channel is the mark of a Connect that was lost or overtaken: if
\* the network spares a client's Connect, no callback that answers it gets a null
\* channel (rpc/mod.hh:76).
THEOREM NullChannelsNeedFaults == Spec => []NullChannelNeedsFault
<1> DEFINE TpcOK == tpc \in [Client -> {"init", "run", "exit", "refused"}]
           Inv == WireInv /\ LinkInv /\ TpcOK
<1>1. Init => Inv
  BY InitWire, InitLinks DEF Init
<1>2. Inv /\ [Next]_vars => Inv'
  <2> SUFFICES ASSUME Inv, [Next]_vars PROVE Inv'
    OBVIOUS
  <2>1. WireInv'
    BY WireStep
  <2>2. TpcOK'
    BY DEF Next, vars, benchVars, ServerNext, ClientNext, ThreadNext, WorkerStart, WorkerRecv,
           WorkerExit, ThreadStart, ThreadPoll, FirstCall, Resume
  <2>3. CASE UNCHANGED vars
    <3>1. LinkInv'
      BY <2>3, QuietKeepsLinks DEF vars, rpcVars, benchVars
    <3> QED BY <2>1, <2>2, <3>1
  <2>4. CASE ServerNext
    <3>1. LinkInv'
      BY <2>4, ServerKeepsLinks DEF ServerNext
    <3> QED BY <2>1, <2>2, <3>1
  <2>5. CASE ClientNext
    <3>1. LinkInv'
      BY <2>5, ClientKeepsLinks DEF ClientNext
    <3> QED BY <2>1, <2>2, <3>1
  <2> QED BY <2>3, <2>4, <2>5 DEF Next
<1>3. Inv => NullChannelNeedsFault
  <2> SUFFICES ASSUME Inv, NEW w \in Worker, NEW c \in Client,
                      sessions[w][SessionId[c]] = NoChannel
               PROVE  c \in unlinked
    BY DEF NullChannelNeedsFault
  <2>1. NoChannel # NoSession /\ NoChannel # c
    BY ChannelAssumption DEF NoChannel, NoSession
  <2>2. w = ServerOf[c]
    BY <2>1 DEF LinkInv, Apart
  <2> QED BY <2>1, <2>2 DEF LinkInv, Fresh, Known, Session
<1> QED BY <1>1, <1>2, <1>3, PTL DEF Spec

-----------------------------------------------------------------------------
(* One datagram per call, and a receive for each. *)

USE RPCAssumption

In(q) == {q[p] : p \in 1..Len(q)}

\* The coroutine a datagram is of; a Connect is of the main routine.
Slot(m) == <<Owner(m), m.cor>>
Slots(q) == {Slot(m) : m \in In(q)}
Distinct(q) == \A p, r \in 1..Len(q) : Slot(q[p]) = Slot(q[r]) => p = r

\* What travels to a server thread, and to a client thread.
ToServer(w) ==
  {m \in Owned : /\ m.type # "reply" /\ ServerOf[Owner(m)] = w
                 /\ IF m.type = "connect" THEN m.cor = 0 ELSE m.cor \in Cors}
ToClient(c) == {m \in Owned : m.type = "reply" /\ Owner(m) = c /\ m.cor \in Cors}
Mail(e) == IF e \in Client THEN ToClient(e) ELSE ToServer(e)

FlowType ==
  /\ inbox \in Boxes
  /\ polled \in [Endpoint -> Nat] /\ held \in [Endpoint -> Nat]
  /\ station \in [Client -> [CorId -> [pending : 0..1, buf : Payload]]]
  /\ gone \subseteq Client \X Cors
  /\ tpc \in [Client -> {"init", "run", "exit", "refused"}]
  /\ cpc \in [Client -> [Cors -> {"spawned", "wait", "done"}]]

QueueInv ==
  \A e \in Endpoint :
    /\ In(inbox[e]) \subseteq Mail(e) /\ Distinct(inbox[e])
    /\ polled[e] <= Len(inbox[e])
    /\ polled[e] = 0 => held[e] = 0

\* A call waits at the server, or its reply at the client, or it is gone.
Asked(c, i) == \E m \in In(inbox[ServerOf[c]]) : IsCall(m) /\ Slot(m) = <<c, i>>
Answered(c, i) == \E m \in In(inbox[c]) : Slot(m) = <<c, i>>
Gone(c, i) == <<c, i>> \in gone

CallInv ==
  \A c \in Client, i \in CorId :
    /\ station[c][i].pending = 0 <=> ~Asked(c, i) /\ ~Answered(c, i) /\ ~Gone(c, i)
    /\ ~(Asked(c, i) /\ Answered(c, i)) /\ ~(Asked(c, i) /\ Gone(c, i)) /\ ~(Answered(c, i) /\ Gone(c, i))

Started(c) == tpc[c] \notin {"init", "refused"}

ThreadInv ==
  \A c \in Client :
    /\ ~Started(c) => /\ \A i \in Cors : cpc[c][i] = "spawned"
                      /\ \A m \in In(inbox[ServerOf[c]]) : Owner(m) # c
    /\ \A i \in Cors : cpc[c][i] = "spawned" => station[c][i].pending = 0
    /\ \A m \in In(inbox[ServerOf[c]]) : Owner(m) = c /\ m.type = "req" /\ ~IsCall(m) => tpc[c] = "exit"

\* A client whose Connect waits at the server has heard nothing yet.
Waits(c) == <<c, 0>> \in Slots(inbox[ServerOf[c]])
ConnectInv ==
  \A c \in Client :
    /\ Session(c) = c => Started(c)
    /\ Waits(c) => /\ tpc[c] = "run" /\ Session(c) # c /\ inbox[c] = <<>>
                   /\ ClientUp => \A i \in Cors : cpc[c][i] = "spawned" \/ station[c][i].pending = 1

\* Where the receives that are not posted again may come from.
Idle(c) == {i \in Cors : station[c][i].pending = 0}
Refill(w) ==
  {s \in Client \X CorId :
     /\ ServerOf[s[1]] = w /\ Started(s[1])
     /\ IF Waits(s[1]) THEN s \in gone ELSE \A p \in 1..polled[w] : Slot(inbox[w][p]) # s}

HeldInv ==
  /\ \A c \in Client : held[c] <= Cardinality(Idle(c))
  /\ \A w \in Worker : held[w] <= Cardinality(Refill(w))

FlowInv == FlowType /\ QueueInv /\ CallInv /\ ThreadInv /\ ConnectInv /\ HeldInv

-----------------------------------------------------------------------------
(* Queues. *)

\* Queue q2 is q with m in it, behind the first k datagrams.
Joined(q, m, k, q2) ==
  /\ q2 \in Seq(Owned) /\ Len(q2) = Len(q) + 1
  /\ In(q2) = In(q) \cup {m}
  /\ \A p \in 1..k : q2[p] = q[p]
  /\ Distinct(q) /\ Slot(m) \notin Slots(q) => Distinct(q2)

LEMMA AppendJoins ==
  ASSUME NEW q \in Seq(Owned), NEW m \in Owned, NEW k \in Nat, k <= Len(q)
  PROVE  Joined(q, m, k, Append(q, m))
<1> DEFINE n == Len(q)
           a == Append(q, m)
<1>1. /\ n \in Nat /\ a \in Seq(Owned) /\ Len(a) = n + 1 /\ a[n + 1] = m
      /\ \A p \in 1..n : a[p] = q[p]
  OBVIOUS
<1> HIDE DEF a
<1>2. In(a) = In(q) \cup {m}
  <2>1. ASSUME NEW x \in In(a) PROVE x \in In(q) \cup {m}
    BY <1>1, <2>1 DEF In
  <2>2. ASSUME NEW x \in In(q) \cup {m} PROVE x \in In(a)
    <3>1. CASE x = m
      <4>1. n + 1 \in 1..Len(a)
        BY <1>1
      <4> QED BY <1>1, <3>1, <4>1 DEF In
    <3>2. CASE x \in In(q)
      <4>1. PICK p \in 1..n : x = q[p]
        BY <3>2 DEF In
      <4>2. p \in 1..Len(a) /\ x = a[p]
        BY <1>1, <4>1
      <4> QED BY <4>2 DEF In
    <3> QED BY <2>2, <3>1, <3>2
  <2> QED BY <2>1, <2>2
<1>3. ASSUME Distinct(q), Slot(m) \notin Slots(q) PROVE Distinct(a)
  <2> SUFFICES ASSUME NEW p \in 1..(n + 1), NEW r \in 1..(n + 1), Slot(a[p]) = Slot(a[r])
               PROVE  p = r
    BY <1>1 DEF Distinct
  <2>1. \A x \in 1..n : Slot(q[x]) \in Slots(q)
    BY DEF Slots, In
  <2>2. CASE p \in 1..n /\ r \in 1..n
    BY <1>1, <1>3, <2>2 DEF Distinct
  <2>3. CASE p = n + 1 /\ r \in 1..n
    BY <1>1, <1>3, <2>1, <2>3
  <2>4. CASE r = n + 1 /\ p \in 1..n
    BY <1>1, <1>3, <2>1, <2>4
  <2> QED BY <1>1, <2>2, <2>3, <2>4
<1>4. \A p \in 1..k : a[p] = q[p]
  BY <1>1
<1> QED BY <1>1, <1>2, <1>3, <1>4 DEF Joined, a

LEMMA SwapJoins ==
  ASSUME NEW q \in Seq(Owned), NEW m \in Owned, NEW k \in Nat, k < Len(q)
  PROVE  Joined(q, m, k, Swapped(q, m))
<1> DEFINE n == Len(q)
           a == Swapped(q, m)
<1>1. n \in Nat /\ n \in 1..n /\ q[n] \in Owned
  OBVIOUS
<1>2. [q EXCEPT ![n] = m] \in Seq(Owned)
  BY <1>1
<1>3. /\ a \in Seq(Owned) /\ Len(a) = n + 1 /\ a[n] = m /\ a[n + 1] = q[n]
      /\ \A p \in 1..(n - 1) : a[p] = q[p]
  BY <1>1, <1>2 DEF Swapped
<1> HIDE DEF a
<1>4. In(a) = In(q) \cup {m}
  <2>1. ASSUME NEW x \in In(a) PROVE x \in In(q) \cup {m}
    <3>1. PICK p \in 1..(n + 1) : x = a[p]
      BY <1>3 DEF In
    <3>2. CASE p = n
      BY <1>3, <3>1, <3>2
    <3>3. CASE p # n
      <4>1. \E r \in 1..n : x = q[r]
        BY <1>1, <1>3, <3>1, <3>3
      <4> QED BY <4>1 DEF In
    <3> QED BY <3>2, <3>3
  <2>2. ASSUME NEW x \in In(q) \cup {m} PROVE x \in In(a)
    <3>1. \E p \in 1..(n + 1) : x = a[p]
      <4>1. CASE x = m
        BY <1>1, <1>3, <4>1
      <4>2. CASE x \in In(q)
        <5>1. PICK r \in 1..n : x = q[r]
          BY <4>2 DEF In
        <5>2. CASE r = n
          <6>1. n + 1 \in 1..(n + 1)
            BY <1>1
          <6> QED BY <1>3, <5>1, <5>2, <6>1
        <5>3. CASE r # n
          BY <1>1, <1>3, <5>1, <5>3
        <5> QED BY <5>2, <5>3
      <4> QED BY <2>2, <4>1, <4>2
    <3> QED BY <1>3, <3>1 DEF In
  <2> QED BY <2>1, <2>2
<1>5. ASSUME Distinct(q), Slot(m) \notin Slots(q) PROVE Distinct(a)
  <2> SUFFICES ASSUME NEW p \in 1..(n + 1), NEW r \in 1..(n + 1), Slot(a[p]) = Slot(a[r])
               PROVE  p = r
    BY <1>3 DEF Distinct
  <2> DEFINE At(x) == IF x = n + 1 THEN n ELSE x
  <2>1. \A x \in 1..n : Slot(q[x]) # Slot(m)
    BY <1>5 DEF Slots, In
  <2>2. \A x \in 1..(n + 1) : x # n => At(x) \in 1..n /\ a[x] = q[At(x)]
    BY <1>1, <1>3, SMTT(30)
  <2>3. CASE p # n /\ r # n
    <3>1. At(p) = At(r)
      BY <1>5, <2>2, <2>3 DEF Distinct
    <3> QED BY <1>1, <2>3, <3>1
  <2>4. CASE p = n /\ r # n
    <3>1. At(r) \in 1..n /\ a[r] = q[At(r)] /\ a[p] = m
      BY <1>3, <2>2, <2>4
    <3>2. Slot(q[At(r)]) # Slot(m)
      BY <2>1, <3>1
    <3> QED BY <3>1, <3>2
  <2>5. CASE r = n /\ p # n
    <3>1. At(p) \in 1..n /\ a[p] = q[At(p)] /\ a[r] = m
      BY <1>3, <2>2, <2>5
    <3>2. Slot(q[At(p)]) # Slot(m)
      BY <2>1, <3>1
    <3> QED BY <3>1, <3>2
  <2> QED BY <2>3, <2>4, <2>5
<1>6. \A p \in 1..k : a[p] = q[p]
  BY <1>1, <1>3
<1> QED BY <1>3, <1>4, <1>5, <1>6 DEF Joined, a

\* Taking the datagram at the head.
LEMMA TailLeaves ==
  ASSUME NEW q \in Seq(Owned), q # <<>>
  PROVE  /\ Head(q) \in Owned /\ Head(q) \in In(q) /\ Head(q) = q[1]
         /\ Tail(q) \in Seq(Owned) /\ Len(Tail(q)) = Len(q) - 1 /\ Len(q) \in Nat \ {0}
         /\ \A p \in 1..(Len(q) - 1) : Tail(q)[p] = q[p + 1]
         /\ In(q) = In(Tail(q)) \cup {Head(q)}
         /\ Distinct(q) => Distinct(Tail(q)) /\ Slot(Head(q)) \notin Slots(Tail(q))
<1> DEFINE n == Len(q)
           t == Tail(q)
<1>1. /\ n \in Nat \ {0} /\ Head(q) \in Owned /\ Head(q) = q[1]
      /\ t \in Seq(Owned) /\ Len(t) = n - 1
      /\ \A p \in 1..(n - 1) : t[p] = q[p + 1]
  OBVIOUS
<1> HIDE DEF t
<1>2. 1 \in 1..n
  BY <1>1
<1>3. Head(q) \in In(q)
  BY <1>1, <1>2 DEF In
<1>4. In(q) = In(t) \cup {Head(q)}
  <2>1. ASSUME NEW x \in In(q) PROVE x \in In(t) \cup {Head(q)}
    <3>1. PICK p \in 1..n : x = q[p]
      BY <2>1 DEF In
    <3>2. CASE p = 1
      BY <1>1, <3>1, <3>2
    <3>3. CASE p # 1
      <4>1. p - 1 \in 1..Len(t) /\ x = t[p - 1]
        BY <1>1, <3>1, <3>3
      <4> QED BY <4>1 DEF In
    <3> QED BY <3>2, <3>3
  <2>2. ASSUME NEW x \in In(t) PROVE x \in In(q)
    <3>1. PICK p \in 1..Len(t) : x = t[p]
      BY <2>2 DEF In
    <3>2. p + 1 \in 1..n /\ x = q[p + 1]
      BY <1>1, <3>1
    <3> QED BY <3>2 DEF In
  <2> QED BY <1>3, <2>1, <2>2
<1>5. ASSUME Distinct(q) PROVE Distinct(t) /\ Slot(Head(q)) \notin Slots(t)
  <2>1. \A p \in 1..Len(t) : p + 1 \in 1..n /\ t[p] = q[p + 1]
    BY <1>1
  <2>2. ASSUME NEW p \in 1..Len(t), NEW r \in 1..Len(t), Slot(t[p]) = Slot(t[r]) PROVE p = r
    <3>1. p + 1 = r + 1
      BY <1>5, <2>1, <2>2 DEF Distinct
    <3> QED BY <3>1
  <2>3. ASSUME NEW p \in 1..Len(t) PROVE Slot(t[p]) # Slot(Head(q))
    <3>1. p + 1 # 1
      OBVIOUS
    <3> QED BY <1>1, <1>2, <1>5, <2>1, <3>1 DEF Distinct
  <2> QED BY <2>2, <2>3 DEF Distinct, Slots, In
<1> QED BY <1>1, <1>3, <1>4, <1>5 DEF t

\* As many datagrams as slots.
LEMMA LenIsSlots ==
  ASSUME NEW q \in Seq(Owned), Distinct(q), NEW T, IsFiniteSet(T), Slots(q) \subseteq T
  PROVE  Len(q) <= Cardinality(T)
<1> DEFINE f == [p \in 1..Len(q) |-> Slot(q[p])]
<1>1. f \in Injection(1..Len(q), T)
  <2>1. \A p \in 1..Len(q) : Slot(q[p]) \in T
    BY DEF Slots, In
  <2> QED BY <2>1 DEF Injection, IsInjective, Distinct
<1>2. Cardinality(1..Len(q)) <= Cardinality(T)
  BY <1>1, FS_Injection
<1>3. Len(q) \in Nat
  OBVIOUS
<1>4. Cardinality(1..Len(q)) = IF 1 > Len(q) THEN 0 ELSE Len(q) - 1 + 1
  BY <1>3, FS_Interval, SMTT(30)
<1> QED BY <1>2, <1>3, <1>4

\* What a send does: the datagram joins the queue, or is gone.
LEMMA Delivery ==
  ASSUME NEW e \in Endpoint, NEW m \in Owned, NEW box \in Boxes, NEW hld,
         NEW pol \in [Endpoint -> Nat], pol[e] <= Len(box[e]), Send(e, m, box, hld, pol)
  PROVE  /\ overflowed' = overflowed \/ (~HasRoom(e, box, hld) /\ overflowed' = overflowed \cup {e})
         /\ \/ /\ \E q2 : inbox' = [box EXCEPT ![e] = q2] /\ Joined(box[e], m, pol[e], q2)
               /\ gone' = gone
            \/ inbox' = box /\ gone' = gone \cup CallsOf(m)
<1>0. box[e] \in Seq(Owned) /\ Len(box[e]) \in Nat /\ pol[e] \in Nat
  BY DEF Boxes
<1>1. CASE /\ inbox' = [box EXCEPT ![e] = Append(@, m)]
           /\ UNCHANGED <<faults, unlinked, gone, overflowed>>
  BY <1>0, <1>1, AppendJoins
<1>2. CASE /\ ~HasRoom(e, box, hld) /\ inbox' = box
           /\ overflowed' = overflowed \cup {e} /\ MarkUndelivered(m)
  BY <1>2 DEF MarkUndelivered
<1>3. CASE inbox' = box /\ MarkUndelivered(m) /\ UNCHANGED overflowed
  BY <1>3 DEF MarkUndelivered
<1>4. CASE /\ Len(box[e]) > pol[e]
           /\ inbox' = [box EXCEPT ![e] = Append([@ EXCEPT ![Len(box[e])] = m], @[Len(box[e])])]
           /\ UNCHANGED <<gone, overflowed>>
  <2>1. inbox' = [box EXCEPT ![e] = Swapped(box[e], m)]
    BY <1>4 DEF Swapped
  <2>2. Joined(box[e], m, pol[e], Swapped(box[e], m))
    BY <1>0, <1>4, SwapJoins
  <2> QED BY <1>4, <2>1, <2>2
<1> QED BY <1>1, <1>2, <1>3, <1>4 DEF Send

-----------------------------------------------------------------------------
(* The slots of the calls. *)

LEMMA OwnerIn ==
  ASSUME NEW m \in Owned
  PROVE  Owner(m) \in Client /\ SessionId[Owner(m)] = m.sid
<1>1. \E c \in Client : SessionId[c] = m.sid
  BY DEF Owned, Datagram, Sid
<1> QED BY <1>1 DEF Owner

\* What a queue holds, server thread by server thread and client thread by client thread.
LEMMA MailIn ==
  ASSUME FlowType, QueueInv
  PROVE  /\ \A w \in Worker : /\ w \in Endpoint /\ inbox[w] \in Seq(Owned) /\ Distinct(inbox[w])
                              /\ In(inbox[w]) \subseteq ToServer(w)
         /\ \A c \in Client : /\ c \in Endpoint /\ inbox[c] \in Seq(Owned) /\ Distinct(inbox[c])
                              /\ In(inbox[c]) \subseteq ToClient(c)
  BY DEF FlowType, QueueInv, Mail, Boxes, Endpoint

\* A coroutine that waits for nothing has no datagram anywhere.
LEMMA FreeSlot ==
  ASSUME FlowType, QueueInv, CallInv, ThreadInv, NEW c \in Client, NEW i \in Cors,
         station[c][i].pending = 0, tpc[c] = "run"
  PROVE  <<c, i>> \notin Slots(inbox[ServerOf[c]]) /\ <<c, i>> \notin gone
<1>1. i \in CorId
  BY DEF CorId, Cors
<1>2. ~Asked(c, i) /\ <<c, i>> \notin gone
  BY <1>1 DEF CallInv, Gone
<1>3. ASSUME NEW m \in In(inbox[ServerOf[c]]), Slot(m) = <<c, i>> PROVE FALSE
  <2>1. ServerOf[c] \in Worker
    OBVIOUS
  <2>2. m \in ToServer(ServerOf[c]) /\ Owner(m) = c /\ m.cor = i
    BY <1>3, <2>1, MailIn DEF Slot
  <2>3. i # 0
    BY DEF Cors
  <2>4. m.type = "req"
    BY <2>2, <2>3 DEF ToServer, Owned, Datagram
  <2>5. ~IsCall(m)
    BY <1>2, <1>3 DEF Asked
  <2> QED BY <2>2, <2>4, <2>5 DEF ThreadInv
<1> QED BY <1>2, <1>3 DEF Slots

\* A datagram of a client joins the queue of its server thread, or is gone.
LEMMA ToServerPosted ==
  ASSUME FlowType, QueueInv, NEW c \in Client, NEW m \in ToServer(ServerOf[c]), Owner(m) = c,
         Slot(m) \notin Slots(inbox[ServerOf[c]]),
         Send(ServerOf[c], m, inbox, held, polled), UNCHANGED <<polled, held>>
  PROVE  /\ inbox' \in Boxes /\ gone' \subseteq Client \X Cors /\ QueueInv'
         /\ gone \subseteq gone'
         /\ \A e \in Endpoint \ {ServerOf[c]} : inbox'[e] = inbox[e]
         /\ \A p \in 1..polled[ServerOf[c]] : inbox'[ServerOf[c]][p] = inbox[ServerOf[c]][p]
         /\ \/ In(inbox'[ServerOf[c]]) = In(inbox[ServerOf[c]]) \cup {m} /\ gone' = gone
            \/ inbox' = inbox /\ gone' = gone \cup CallsOf(m)
         /\ \/ overflowed' = overflowed
            \/ ~HasRoom(ServerOf[c], inbox, held) /\ overflowed' = overflowed \cup {ServerOf[c]}
<1> DEFINE w == ServerOf[c]
           q == inbox[w]
<1>1. /\ w \in Worker /\ w \in Endpoint /\ w \notin Client /\ m \in Owned
      /\ inbox \in Boxes /\ polled \in [Endpoint -> Nat] /\ q \in Seq(Owned) /\ Distinct(q)
      /\ polled[w] <= Len(q) /\ Len(q) \in Nat
  BY MailIn DEF FlowType, QueueInv, ToServer
<1>2. /\ \/ overflowed' = overflowed
         \/ ~HasRoom(w, inbox, held) /\ overflowed' = overflowed \cup {w}
      /\ \/ /\ \E q2 : inbox' = [inbox EXCEPT ![w] = q2] /\ Joined(q, m, polled[w], q2)
            /\ gone' = gone
         \/ inbox' = inbox /\ gone' = gone \cup CallsOf(m)
  BY <1>1, Delivery
<1>3. CallsOf(m) \subseteq Client \X Cors
  <2>1. IsCall(m) => m.cor \in Cors
    BY DEF ToServer, IsCall
  <2> QED BY <2>1 DEF CallsOf
<1>4. gone \subseteq Client \X Cors
  BY DEF FlowType
<1>5. CASE inbox' = inbox /\ gone' = gone \cup CallsOf(m)
  <2>1. QueueInv'
    BY <1>5 DEF QueueInv
  <2>2. inbox' \in Boxes /\ gone \subseteq gone' /\ gone' \subseteq Client \X Cors
    BY <1>1, <1>3, <1>4, <1>5
  <2> QED BY <1>2, <1>5, <2>1, <2>2
<1>6. ASSUME NEW q2, inbox' = [inbox EXCEPT ![w] = q2], Joined(q, m, polled[w], q2), gone' = gone
      PROVE  /\ inbox' \in Boxes /\ QueueInv'
             /\ \A e \in Endpoint \ {w} : inbox'[e] = inbox[e]
             /\ \A p \in 1..polled[w] : inbox'[w][p] = inbox[w][p]
             /\ In(inbox'[w]) = In(inbox[w]) \cup {m}
  <2>1. /\ q2 \in Seq(Owned) /\ Len(q2) = Len(q) + 1 /\ In(q2) = In(q) \cup {m}
        /\ \A p \in 1..polled[w] : q2[p] = q[p]
        /\ Distinct(q2)
    BY <1>1, <1>6 DEF Joined
  <2>2. inbox'[w] = q2 /\ (\A e \in Endpoint \ {w} : inbox'[e] = inbox[e]) /\ inbox' \in Boxes
    BY <1>1, <1>6, <2>1 DEF Boxes
  <2>3. ASSUME NEW e \in Endpoint
        PROVE  /\ In(inbox'[e]) \subseteq Mail(e) /\ Distinct(inbox'[e])
               /\ polled'[e] <= Len(inbox'[e])
               /\ polled'[e] = 0 => held'[e] = 0
    <3>1. CASE e # w
      BY <2>2, <3>1 DEF QueueInv
    <3>2. CASE e = w
      <4>1. In(q) \subseteq Mail(w) /\ polled[w] <= Len(q) + 1 /\ (polled[w] = 0 => held[w] = 0)
        BY <1>1 DEF QueueInv
      <4>2. m \in Mail(w)
        BY <1>1 DEF Mail
      <4>3. In(q2) \subseteq Mail(w) /\ Distinct(q2) /\ polled[w] <= Len(q2)
        BY <2>1, <4>1, <4>2
      <4>4. inbox'[w] = q2 /\ polled' = polled /\ held' = held
        BY <2>2
      <4> HIDE DEF w, q
      <4> QED BY <3>2, <4>1, <4>3, <4>4
    <3> QED BY <3>1, <3>2
  <2>4. QueueInv'
    BY <2>3 DEF QueueInv
  <2> QED BY <2>1, <2>2, <2>4
<1>7. CASE /\ \E q2 : inbox' = [inbox EXCEPT ![w] = q2] /\ Joined(q, m, polled[w], q2)
           /\ gone' = gone
  <2> HIDE DEF w, q
  <2>1. /\ inbox' \in Boxes /\ QueueInv'
        /\ \A e \in Endpoint \ {w} : inbox'[e] = inbox[e]
        /\ \A p \in 1..polled[w] : inbox'[w][p] = inbox[w][p]
        /\ In(inbox'[w]) = In(inbox[w]) \cup {m}
    BY <1>6, <1>7
  <2> QED BY <1>2, <1>4, <1>7, <2>1 DEF w, q
<1> QED BY <1>2, <1>5, <1>7

-----------------------------------------------------------------------------
(* Room. *)

LEMMA SlotSets ==
  /\ IsFiniteSet(Cors) /\ Cardinality(Cors) = Coros
  /\ IsFiniteSet(CorId) /\ Cardinality(CorId) = Coros + 1
  /\ Coros \in Nat \ {0} /\ Cors = CorId \ {0}
<1>1. Coros \in Nat \ {0} /\ 0 \in Int /\ 1 \in Int /\ Coros \in Int
  OBVIOUS
<1>2. IsFiniteSet(1..Coros) /\ Cardinality(1..Coros) = IF 1 > Coros THEN 0 ELSE Coros - 1 + 1
  BY <1>1, FS_Interval
<1>3. IsFiniteSet(0..Coros) /\ Cardinality(0..Coros) = IF 0 > Coros THEN 0 ELSE Coros - 0 + 1
  BY <1>1, FS_Interval
<1>4. Cors = CorId \ {0}
  BY <1>1 DEF Cors, CorId
<1> QED BY <1>1, <1>2, <1>3, <1>4 DEF Cors, CorId

\* The slots of a server thread's queue and of its receives are those of its clients.
LEMMA SlotsOfServer ==
  ASSUME FlowType, QueueInv, NEW w \in Worker
  PROVE  /\ Slots(inbox[w]) \subseteq {d \in Client : ServerOf[d] = w} \X CorId
         /\ Refill(w) \subseteq {d \in Client : ServerOf[d] = w} \X CorId
<1>1. ASSUME NEW m \in In(inbox[w]) PROVE Slot(m) \in {d \in Client : ServerOf[d] = w} \X CorId
  <2>1. m \in ToServer(w)
    BY MailIn
  <2>2. m \in Owned /\ m.cor \in CorId /\ ServerOf[Owner(m)] = w
    BY <2>1 DEF ToServer, Owned, Datagram
  <2> QED BY <2>2, OwnerIn DEF Slot
<1>2. Slots(inbox[w]) \subseteq {d \in Client : ServerOf[d] = w} \X CorId
  BY <1>1 DEF Slots
<1>3. Refill(w) \subseteq {d \in Client : ServerOf[d] = w} \X CorId
  BY DEF Refill
<1> QED BY <1>2, <1>3

\* A client whose Connect waits has no receive back but those of its calls that are gone.
LEMMA RefillOfWaiting ==
  ASSUME FlowType, QueueInv, CallInv, ThreadInv, ConnectInv, NEW w \in Worker,
         NEW d \in Client, ServerOf[d] = w, Waits(d), NEW j \in CorId, <<d, j>> \in Refill(w)
  PROVE  <<d, j>> \in gone /\ j \in Cors /\ <<d, j>> \notin Slots(inbox[w])
<1>1. <<d, j>> \in gone
  BY DEF Refill
<1>2. j \in Cors /\ j # 0
  BY <1>1 DEF FlowType, Cors
<1>3. ASSUME NEW m \in In(inbox[w]), Slot(m) = <<d, j>> PROVE FALSE
  <2>1. m \in ToServer(w) /\ Owner(m) = d /\ m.cor = j
    BY <1>3, MailIn DEF Slot
  <2>2. m.type = "req"
    BY <1>2, <2>1 DEF ToServer, Owned, Datagram
  <2>3. tpc[d] # "exit"
    BY DEF ConnectInv
  <2>4. IsCall(m)
    BY <2>1, <2>2, <2>3 DEF ThreadInv
  <2>5. Asked(d, j)
    BY <1>3, <2>4 DEF Asked
  <2> QED BY <1>1, <2>5 DEF CallInv, Gone
<1> QED BY <1>1, <1>2, <1>3 DEF Slots

LEMMA ServerRoom ==
  ASSUME FlowType, QueueInv, CallInv, ThreadInv, ConnectInv, HeldInv,
         NEW c \in Client, NEW i \in CorId,
         <<c, i>> \notin Slots(inbox[ServerOf[c]]), <<c, i>> \notin gone,
         i = 0 => ~Started(c), Fits(ServerOf[c])
  PROVE  HasRoom(ServerOf[c], inbox, held)
<1> DEFINE w == ServerOf[c]
           q == inbox[w]
           K == {d \in Client : ServerOf[d] = w}
           n == Cardinality(K)
           X == Slots(q)
           Y == X \cup {<<c, i>>}
           R == Refill(w)
           P == K \X Cors
           nc == n * Coros
<1>1. /\ w \in Worker /\ w \in Endpoint /\ w \notin Client /\ q \in Seq(Owned) /\ Distinct(q)
      /\ Len(q) \in Nat /\ held[w] \in Nat /\ polled[w] \in Nat /\ polled[w] <= Len(q)
      /\ polled[w] = 0 => held[w] = 0
      /\ RecvDepth[w] \in Nat
  BY MailIn DEF FlowType, QueueInv
<1>2. IsFiniteSet(K) /\ n \in Nat /\ n # 0
  <2>1. IsFiniteSet(K)
    BY FS_Subset
  <2>2. c \in K
    OBVIOUS
  <2> QED BY <2>1, <2>2, FS_CardinalityType, FS_EmptySet
<1>3. /\ IsFiniteSet(K \X CorId) /\ Cardinality(K \X CorId) = n * (Coros + 1)
      /\ IsFiniteSet(P) /\ Cardinality(P) = n * Coros
  BY <1>2, SlotSets, FS_Product
<1>4. X \subseteq K \X CorId /\ R \subseteq K \X CorId /\ Y \subseteq K \X CorId
  BY <1>1, SlotsOfServer
<1>5. /\ IsFiniteSet(X) /\ IsFiniteSet(Y) /\ IsFiniteSet(R)
      /\ Cardinality(X) \in Nat /\ Cardinality(R) \in Nat
      /\ Cardinality(Y) = Cardinality(X) + 1
  <2>1. IsFiniteSet(X) /\ IsFiniteSet(R)
    BY <1>3, <1>4, FS_Subset
  <2>2. <<c, i>> \notin X
    OBVIOUS
  <2> QED BY <2>1, <2>2, FS_AddElement, FS_CardinalityType
<1>6. Len(q) <= Cardinality(X)
  BY <1>1, <1>5, LenIsSlots
<1>7. held[w] <= Cardinality(R)
  BY <1>1 DEF HeldInv
<1>8. Y \cap R \subseteq P
  <2> SUFFICES ASSUME NEW d \in K, NEW j \in CorId, <<d, j>> \in Y, <<d, j>> \in R
               PROVE  j \in Cors
    BY <1>4
  <2>1. CASE Waits(d)
    BY <1>1, <2>1, RefillOfWaiting
  <2>2. CASE ~Waits(d)
    <3>1. Started(d)
      BY DEF Refill
    <3>2. j # 0
      BY <2>2, <3>1 DEF Waits
    <3> QED BY <3>2, SlotSets
  <2> QED BY <2>1, <2>2
<1>9. Coros \in Nat \ {0} /\ Cors = CorId \ {0}
  BY SlotSets
<1>10. /\ nc \in Nat /\ nc >= 1 /\ n * (Coros + 1) = nc + n
       /\ (2 * Coros + 1) * n = 2 * nc + n
  <2>1. n \in Nat \ {0} /\ Coros \in Nat \ {0}
    BY <1>2, <1>9
  <2> HIDE DEF n
  <2>2. \A a, b \in Nat \ {0} : /\ a * b \in Nat /\ a * b >= 1 /\ a * (b + 1) = a * b + a
                                /\ (2 * b + 1) * a = 2 * (a * b) + a
    OBVIOUS
  <2> QED BY <2>1, <2>2
<1>11. RecvDepth[w] >= (2 * nc + n) - 1
  <2>1. RecvDepth[w] >= (2 * Coros + 1) * n - 1
    BY <1>1 DEF Fits
  <2>2. (2 * Coros + 1) * n = 2 * nc + n
    BY <1>10
  <2> HIDE DEF n, w, nc
  <2> QED BY <2>1, <2>2
<1>12. CASE polled[w] = 0
  <2>1. Cardinality(Y) <= nc + n
    BY <1>3, <1>4, <1>10, FS_Subset
  <2>2. held[w] = 0
    BY <1>1, <1>12
  <2> HIDE DEF n, X, Y, R, q, w, nc
  <2>3. Len(q) + held[w] < RecvDepth[w]
    BY <1>1, <1>2, <1>5, <1>6, <1>10, <1>11, <2>1, <2>2
  <2> QED BY <2>3 DEF HasRoom, q, w
<1>13. ASSUME NEW t \in P, t \notin Y \cap R
       PROVE  HasRoom(w, inbox, held)
  <2>1. IsFiniteSet(P \ {t}) /\ Cardinality(P \ {t}) = nc - 1
    <3>1. IsFiniteSet(P \ {t}) /\ Cardinality(P \ {t}) = Cardinality(P) - 1
      BY <1>3, <1>13, FS_RemoveElement
    <3>2. Cardinality(P) = nc
      BY <1>3
    <3> HIDE DEF P, nc
    <3> QED BY <3>1, <3>2
  <2>2. Y \cap R \subseteq P \ {t}
    BY <1>8, <1>13
  <2>3. IsFiniteSet(Y \cap R) /\ Cardinality(Y \cap R) \in Nat /\ Cardinality(Y \cap R) <= nc - 1
    BY <2>1, <2>2, FS_Subset, FS_CardinalityType
  <2>4. Cardinality(Y \cup R) = Cardinality(Y) + Cardinality(R) - Cardinality(Y \cap R)
    BY <1>5, FS_Union
  <2>5. Cardinality(Y \cup R) <= nc + n
    <3>1. Y \cup R \subseteq K \X CorId
      BY <1>4
    <3> QED BY <1>3, <1>10, <3>1, FS_Subset
  <2> HIDE DEF n, X, Y, R, q, w, nc
  <2>6. Len(q) + held[w] <= (Cardinality(Y) - 1) + Cardinality(R)
    BY <1>1, <1>5, <1>6, <1>7
  <2>7. Cardinality(Y) + Cardinality(R) <= (nc + n) + (nc - 1)
    <3>1. Cardinality(Y) \in Nat /\ Cardinality(R) \in Nat /\ n \in Nat /\ nc \in Nat
      BY <1>2, <1>5, <1>10
    <3> QED BY <3>1, <2>3, <2>4, <2>5
  <2>8. Len(q) + held[w] < RecvDepth[w]
    <3>1. /\ Cardinality(Y) \in Nat /\ Cardinality(R) \in Nat /\ n \in Nat /\ nc \in Nat
          /\ Len(q) \in Nat /\ held[w] \in Nat /\ RecvDepth[w] \in Nat
      BY <1>1, <1>2, <1>5, <1>10
    <3>2. \A a, h, y, r, m, k, e \in Nat :
            (/\ a + h <= (y - 1) + r /\ y + r <= (k + m) + (k - 1)
             /\ e >= (2 * k + m) - 1) => a + h < e
      OBVIOUS
    <3> QED BY <3>1, <3>2, <2>6, <2>7, <1>11
  <2> QED BY <2>8 DEF HasRoom, q, w
<1>14. CASE polled[w] # 0
  <2>1. 1 \in 1..polled[w] /\ 1 \in 1..Len(q)
    BY <1>1, <1>14
  <2> DEFINE h == q[1]
  <2>2. h \in In(q) /\ Slot(h) \in X
    BY <2>1 DEF In, Slots
  <2>3. PICK d \in K, j \in CorId : Slot(h) = <<d, j>>
    BY <1>4, <2>2
  <2>4. CASE j # 0
    <3>1. <<d, j>> \in P
      BY <1>9, <2>4
    <3>2. <<d, j>> \notin R
      <4>1. CASE Waits(d)
        BY <1>1, <2>2, <2>3, <4>1, RefillOfWaiting
      <4>2. CASE ~Waits(d)
        BY <2>1, <2>3, <4>2 DEF Refill
      <4> QED BY <4>1, <4>2
    <3> QED BY <1>13, <3>1, <3>2
  <2>5. CASE j = 0
    <3>1. Waits(d)
      BY <2>2, <2>3, <2>5 DEF Waits
    <3>2. 1 \in Cors /\ 1 \in CorId
      BY <1>9 DEF CorId
    <3>3. <<d, 1>> \in P
      BY <3>2
    <3>4. <<d, 1>> \notin Y \cap R
      <4> SUFFICES ASSUME <<d, 1>> \in Y, <<d, 1>> \in R PROVE FALSE
        OBVIOUS
      <4>1. <<d, 1>> \in gone /\ <<d, 1>> \notin X
        BY <1>1, <3>1, <3>2, RefillOfWaiting
      <4> QED BY <4>1
    <3> QED BY <1>13, <3>3, <3>4
  <2> QED BY <2>4, <2>5
<1> QED BY <1>12, <1>14

\* The replies that wait at a client thread are of coroutines that wait for them.
LEMMA ClientRoom ==
  ASSUME FlowType, QueueInv, CallInv, HeldInv, NEW c \in Client, NEW i \in Cors,
         Asked(c, i), Fits(c)
  PROVE  HasRoom(c, inbox, held) /\ <<c, i>> \notin Slots(inbox[c])
<1> DEFINE q == inbox[c]
           A == {j \in Cors : Answered(c, j)}
           T == {c} \X A
<1>1. /\ c \in Endpoint /\ q \in Seq(Owned) /\ Distinct(q) /\ In(q) \subseteq ToClient(c)
      /\ Len(q) \in Nat /\ held[c] \in Nat /\ RecvDepth[c] \in Nat
  BY MailIn DEF FlowType
<1>2. Slots(q) \subseteq T
  <2> SUFFICES ASSUME NEW m \in In(q) PROVE Slot(m) \in T
    BY DEF Slots
  <2>1. Owner(m) = c /\ m.cor \in Cors
    BY <1>1 DEF ToClient
  <2>2. Answered(c, m.cor)
    BY <2>1 DEF Answered, Slot
  <2> QED BY <2>1, <2>2 DEF Slot
<1>3. IsFiniteSet(A) /\ IsFiniteSet(Idle(c)) /\ IsFiniteSet({c}) /\ Cardinality({c}) = 1
  BY SlotSets, FS_Subset, FS_Singleton DEF Idle
<1>4. IsFiniteSet(T) /\ Cardinality(T) = 1 * Cardinality(A) /\ Cardinality(A) \in Nat
  BY <1>3, FS_Product, FS_CardinalityType
<1>5. Len(q) <= Cardinality(A)
  BY <1>1, <1>2, <1>4, LenIsSlots
<1>6. ~Answered(c, i) /\ \A j \in Cors : Answered(c, j) \/ Asked(c, j) => station[c][j].pending # 0
  BY SlotSets DEF CallInv
<1>7. A \cap Idle(c) = {} /\ i \notin A /\ i \notin Idle(c)
  BY <1>6 DEF Idle
<1>8. /\ IsFiniteSet(A \cup Idle(c)) /\ Cardinality(A \cup Idle(c)) = Cardinality(A) + Cardinality(Idle(c))
      /\ Cardinality(Idle(c)) \in Nat
  <2>1. Cardinality(Idle(c)) \in Nat /\ Cardinality(A) \in Nat
    BY <1>3, FS_CardinalityType
  <2>2. Cardinality(A \cap Idle(c)) = 0
    BY <1>7, FS_EmptySet
  <2>3. /\ IsFiniteSet(A \cup Idle(c))
        /\ Cardinality(A \cup Idle(c)) = Cardinality(A) + Cardinality(Idle(c)) - Cardinality(A \cap Idle(c))
    BY <1>3, FS_Union
  <2> HIDE DEF A
  <2> QED BY <2>1, <2>2, <2>3
<1>9. Cardinality((A \cup Idle(c)) \cup {i}) = Cardinality(A \cup Idle(c)) + 1
  BY <1>7, <1>8, FS_AddElement
<1>10. Cardinality((A \cup Idle(c)) \cup {i}) <= Coros
  <2>1. (A \cup Idle(c)) \cup {i} \subseteq Cors
    BY DEF Idle
  <2> QED BY <2>1, SlotSets, FS_Subset
<1>11. held[c] <= Cardinality(Idle(c)) /\ RecvDepth[c] >= Coros
  BY DEF HeldInv, Fits
<1>12. <<c, i>> \notin Slots(q)
  BY <1>2, <1>7
<1> HIDE DEF A
<1>13. Len(q) + held[c] < RecvDepth[c]
  BY <1>1, <1>4, <1>5, <1>8, <1>9, <1>10, <1>11, SlotSets
<1> QED BY <1>12, <1>13 DEF HasRoom

-----------------------------------------------------------------------------
(* A client thread sends a Connect, a call or the stop request. *)

Post(c, m) ==
  /\ ClientUp
  /\ m \in ToServer(ServerOf[c]) /\ Owner(m) = c
  /\ Slot(m) \notin Slots(inbox[ServerOf[c]]) /\ Slot(m) \notin gone
  /\ Send(ServerOf[c], m, inbox, held, polled)
  /\ UNCHANGED <<polled, held, sessions, crashed>>
  /\ station' = IF IsCall(m) THEN [station EXCEPT ![c][m.cor] = [pending |-> 1, buf |-> <<>>]] ELSE station
  /\ tpc' \in [Client -> {"init", "run", "exit", "refused"}]
  /\ cpc' \in [Client -> [Cors -> {"spawned", "wait", "done"}]]
  /\ \A d \in Client \ {c} : tpc'[d] = tpc[d] /\ cpc'[d] = cpc[d]
  /\ \/ m.type = "connect" /\ ~Started(c) /\ tpc'[c] = "run" /\ cpc' = cpc
     \/ /\ m.type = "req" /\ IsCall(m)
        /\ polled[c] = 0 /\ station[c][m.cor].pending = 0 /\ tpc[c] = "run" /\ tpc' = tpc
        /\ cpc'[c][m.cor] = "wait" /\ \A j \in Cors \ {m.cor} : cpc'[c][j] = cpc[c][j]
     \/ /\ m.type = "req" /\ ~IsCall(m)
        /\ tpc[c] = "run" /\ tpc'[c] = "exit" /\ ~Waits(c)
        /\ \A j \in Cors : cpc'[c][j] = "spawned" => cpc[c][j] = "spawned"

\* What Post does to the queues, in the form the invariants ask for.
LEMMA PostEffect ==
  ASSUME FlowType, QueueInv, NEW c \in Client, NEW m, Post(c, m)
  PROVE  /\ FlowType' /\ QueueInv' /\ gone \subseteq gone'
         /\ m \in Owned /\ m.cor \in CorId /\ (m.type # "connect" => m.cor \in Cors)
         /\ \A e \in Endpoint \ {ServerOf[c]} : inbox'[e] = inbox[e]
         /\ \A p \in 1..polled[ServerOf[c]] : inbox'[ServerOf[c]][p] = inbox[ServerOf[c]][p]
         /\ \/ In(inbox'[ServerOf[c]]) = In(inbox[ServerOf[c]]) \cup {m} /\ gone' = gone
            \/ inbox' = inbox /\ gone' = gone \cup CallsOf(m)
         /\ \/ overflowed' = overflowed
            \/ ~HasRoom(ServerOf[c], inbox, held) /\ overflowed' = overflowed \cup {ServerOf[c]}
<1>1. /\ inbox' \in Boxes /\ gone' \subseteq Client \X Cors /\ QueueInv'
      /\ gone \subseteq gone'
      /\ \A e \in Endpoint \ {ServerOf[c]} : inbox'[e] = inbox[e]
      /\ \A p \in 1..polled[ServerOf[c]] : inbox'[ServerOf[c]][p] = inbox[ServerOf[c]][p]
      /\ \/ In(inbox'[ServerOf[c]]) = In(inbox[ServerOf[c]]) \cup {m} /\ gone' = gone
         \/ inbox' = inbox /\ gone' = gone \cup CallsOf(m)
      /\ \/ overflowed' = overflowed
         \/ ~HasRoom(ServerOf[c], inbox, held) /\ overflowed' = overflowed \cup {ServerOf[c]}
  BY ToServerPosted DEF Post
<1>2. m \in Owned /\ m.cor \in CorId /\ (m.type # "connect" => m.cor \in Cors)
  BY DEF Post, ToServer, Owned, Datagram
<1>3. station' \in [Client -> [CorId -> [pending : 0..1, buf : Payload]]]
  <2>1. station \in [Client -> [CorId -> [pending : 0..1, buf : Payload]]]
    BY DEF FlowType
  <2>2. [pending |-> 1, buf |-> <<>>] \in [pending : 0..1, buf : Payload]
    BY DEF Payload
  <2> QED BY <1>2, <2>1, <2>2 DEF Post
<1>4. FlowType'
  BY <1>1, <1>3 DEF FlowType, Post
<1> QED BY <1>1, <1>2, <1>4

LEMMA PostCalls ==
  ASSUME FlowType, QueueInv, CallInv, NEW c \in Client, NEW m, Post(c, m)
  PROVE  CallInv'
<1> DEFINE w == ServerOf[c]
           joined == In(inbox'[w]) = In(inbox[w]) \cup {m} /\ gone' = gone
           lost == inbox' = inbox /\ gone' = gone \cup CallsOf(m)
<1>1. /\ joined \/ lost
      /\ \A e \in Endpoint \ {w} : inbox'[e] = inbox[e]
      /\ m.cor \in CorId
  BY PostEffect
<1>2. Slot(m) = <<c, m.cor>>
  BY DEF Post, Slot
<1>3. CallsOf(m) = IF IsCall(m) THEN {<<c, m.cor>>} ELSE {}
  BY <1>2 DEF CallsOf, Slot
<1> SUFFICES ASSUME NEW d \in Client, NEW j \in CorId
             PROVE  /\ station'[d][j].pending = 0 <=> ~Asked(d, j)' /\ ~Answered(d, j)' /\ ~Gone(d, j)'
                    /\ ~(Asked(d, j)' /\ Answered(d, j)') /\ ~(Asked(d, j)' /\ Gone(d, j)')
                    /\ ~(Answered(d, j)' /\ Gone(d, j)')
  BY DEF CallInv
<1> DEFINE new == IsCall(m) /\ d = c /\ j = m.cor
<1>4. Answered(d, j)' <=> Answered(d, j)
  <2>1. d # w /\ d \in Endpoint
    BY DEF Endpoint
  <2> QED BY <1>1, <2>1 DEF Answered
<1>5. ServerOf[d] \in Endpoint
  BY DEF Endpoint
<1>6. /\ Gone(d, j)' <=> Gone(d, j) \/ (~joined /\ new)
      /\ Asked(d, j)' <=> Asked(d, j) \/ (joined /\ new)
  <2>1. CASE joined
    <3>1. Gone(d, j)' <=> Gone(d, j)
      BY <2>1 DEF Gone
    <3>2. Asked(d, j)' <=> Asked(d, j) \/ new
      <4>1. CASE ServerOf[d] = w
        <5>1. In(inbox'[ServerOf[d]]) = In(inbox[ServerOf[d]]) \cup {m}
          BY <2>1, <4>1
        <5>2. Slot(m) = <<d, j>> <=> d = c /\ j = m.cor
          BY <1>2
        <5> HIDE DEF w
        <5> QED BY <5>1, <5>2 DEF Asked
      <4>2. CASE ServerOf[d] # w
        <5>1. inbox'[ServerOf[d]] = inbox[ServerOf[d]] /\ d # c
          BY <1>1, <1>5, <4>2
        <5> QED BY <5>1 DEF Asked
      <4> QED BY <4>1, <4>2
    <3> QED BY <2>1, <3>1, <3>2
  <2>2. CASE ~joined
    <3>1. lost
      BY <1>1, <2>2
    <3>2. Gone(d, j)' <=> Gone(d, j) \/ new
      BY <1>3, <3>1 DEF Gone
    <3>3. Asked(d, j)' <=> Asked(d, j)
      BY <3>1 DEF Asked
    <3> QED BY <2>2, <3>2, <3>3
  <2> QED BY <2>1, <2>2
<1>7. new => station'[d][j].pending = 1 /\ station[d][j].pending = 0
  BY <1>1 DEF Post, FlowType, IsCall
<1>8. ~new => station'[d][j].pending = station[d][j].pending
  BY <1>1 DEF Post, FlowType
<1>9. /\ station[d][j].pending = 0 <=> ~Asked(d, j) /\ ~Answered(d, j) /\ ~Gone(d, j)
      /\ ~(Asked(d, j) /\ Answered(d, j)) /\ ~(Asked(d, j) /\ Gone(d, j))
      /\ ~(Answered(d, j) /\ Gone(d, j))
  BY DEF CallInv
<1> HIDE DEF joined, lost, new
<1>10. CASE new
  <2>1. ~Asked(d, j) /\ ~Answered(d, j) /\ ~Gone(d, j) /\ station'[d][j].pending # 0
    BY <1>7, <1>9, <1>10
  <2> QED BY <1>4, <1>6, <1>10, <2>1
<1>11. CASE ~new
  BY <1>4, <1>6, <1>8, <1>9, <1>11
<1> QED BY <1>10, <1>11

LEMMA PostThreads ==
  ASSUME FlowType, QueueInv, ThreadInv, NEW c \in Client, NEW m, Post(c, m)
  PROVE  ThreadInv'
<1> DEFINE w == ServerOf[c]
<1>1. /\ In(inbox'[w]) \subseteq In(inbox[w]) \cup {m}
      /\ \A e \in Endpoint \ {w} : inbox'[e] = inbox[e]
      /\ m \in Owned
  BY PostEffect
<1>2. ASSUME NEW d \in Client, d # c
      PROVE  \A x \in In(inbox'[ServerOf[d]]) : Owner(x) = d => x \in In(inbox[ServerOf[d]])
  <2>1. ServerOf[d] \in Endpoint /\ Owner(m) = c
    BY DEF Endpoint, Post
  <2>2. CASE ServerOf[d] = w
    BY <1>1, <1>2, <2>1, <2>2
  <2>3. CASE ServerOf[d] # w
    BY <1>1, <2>1, <2>3
  <2> QED BY <2>2, <2>3
<1> SUFFICES ASSUME NEW d \in Client
             PROVE  /\ ~Started(d)' => /\ \A j \in Cors : cpc'[d][j] = "spawned"
                                       /\ \A x \in In(inbox'[ServerOf[d]]) : Owner(x) # d
                    /\ \A j \in Cors : cpc'[d][j] = "spawned" => station'[d][j].pending = 0
                    /\ \A x \in In(inbox'[ServerOf[d]]) :
                         Owner(x) = d /\ x.type = "req" /\ ~IsCall(x) => tpc'[d] = "exit"
  BY DEF ThreadInv
<1>3. CASE d # c
  <2>1. tpc'[d] = tpc[d] /\ cpc'[d] = cpc[d] /\ station'[d] = station[d]
    BY <1>3 DEF Post, FlowType
  <2> QED BY <1>2, <1>3, <2>1 DEF ThreadInv, Started
<1>4. CASE d = c
  <2>1. Started(c)'
    BY DEF Post, Started
  <2>2. ASSUME NEW j \in Cors, cpc'[c][j] = "spawned" PROVE station'[c][j].pending = 0
    <3>1. cpc[c][j] = "spawned" /\ (IsCall(m) => j # m.cor)
      BY <2>2 DEF Post, IsCall
    <3>2. station'[c][j] = station[c][j]
      <4>1. m.cor \in CorId /\ j \in CorId
        BY <1>1 DEF Owned, Datagram, Cors, CorId
      <4> QED BY <3>1, <4>1 DEF Post, FlowType
    <3> QED BY <3>1, <3>2 DEF ThreadInv
  <2>3. ASSUME NEW x \in In(inbox'[w]), Owner(x) = c, x.type = "req", ~IsCall(x) PROVE tpc'[c] = "exit"
    <3>1. CASE x = m
      BY <2>3, <3>1 DEF Post
    <3>2. CASE x # m
      <4>1. x \in In(inbox[w])
        BY <1>1, <3>2
      <4>2. tpc[c] = "exit"
        BY <2>3, <4>1 DEF ThreadInv
      <4> QED BY <4>2 DEF Post, Started
    <3> QED BY <3>1, <3>2
  <2> QED BY <1>4, <2>1, <2>2, <2>3
<1> QED BY <1>3, <1>4

\* Only a Connect lets its client wait.
LEMMA PostWaits ==
  ASSUME FlowType, QueueInv, NEW c \in Client, NEW m, Post(c, m), NEW d \in Client,
         m.type # "connect" \/ d # c
  PROVE  Waits(d)' <=> Waits(d)
<1> DEFINE w == ServerOf[c]
<1>1. /\ In(inbox'[w]) = In(inbox[w]) \cup {m} \/ inbox' = inbox
      /\ \A e \in Endpoint \ {w} : inbox'[e] = inbox[e]
      /\ m.type # "connect" => m.cor \in Cors
  BY PostEffect
<1>2. Slot(m) # <<d, 0>>
  BY <1>1 DEF Slot, Post, Cors
<1>3. ServerOf[d] \in Endpoint
  BY DEF Endpoint
<1>4. <<d, 0>> \in Slots(inbox'[ServerOf[d]]) <=> <<d, 0>> \in Slots(inbox[ServerOf[d]])
  <2>1. CASE ServerOf[d] # w \/ inbox' = inbox
    BY <1>1, <1>3, <2>1
  <2>2. CASE ServerOf[d] = w /\ In(inbox'[w]) = In(inbox[w]) \cup {m}
    BY <1>2, <2>2 DEF Slots
  <2> QED BY <1>1, <2>1, <2>2
<1> QED BY <1>4 DEF Waits

\* A client that has not started has nothing in its queue.
LEMMA NotStarted ==
  ASSUME FlowType, QueueInv, CallInv, ThreadInv, NEW c \in Client, ~Started(c)
  PROVE  /\ inbox[c] = <<>> /\ \A j \in Cors : cpc[c][j] = "spawned"
         /\ \A j \in CorId : <<c, j>> \notin Slots(inbox[ServerOf[c]])
<1>1. \A j \in Cors : cpc[c][j] = "spawned" /\ station[c][j].pending = 0
  BY DEF ThreadInv
<1>2. inbox[c] \in Seq(Owned) /\ In(inbox[c]) \subseteq ToClient(c)
  BY MailIn
<1>3. ASSUME inbox[c] # <<>> PROVE FALSE
  <2>1. 1 \in 1..Len(inbox[c])
    BY <1>2, <1>3
  <2> DEFINE m == inbox[c][1]
  <2>2. m \in In(inbox[c])
    BY <2>1 DEF In
  <2> HIDE DEF m
  <2>3. m.cor \in Cors /\ m.cor \in CorId /\ Slot(m) = <<c, m.cor>>
    BY <1>2, <2>2 DEF ToClient, Slot, Cors, CorId
  <2>4. Answered(c, m.cor)
    BY <2>2, <2>3 DEF Answered
  <2> QED BY <1>1, <2>3, <2>4 DEF CallInv
<1>4. \A j \in CorId : <<c, j>> \notin Slots(inbox[ServerOf[c]])
  BY DEF ThreadInv, Slots, Slot
<1> QED BY <1>1, <1>3, <1>4

LEMMA PostConnects ==
  ASSUME FlowType, QueueInv, CallInv, ThreadInv, ConnectInv, NEW c \in Client, NEW m, Post(c, m)
  PROVE  ConnectInv'
<1> DEFINE w == ServerOf[c]
<1> SUFFICES ASSUME NEW d \in Client
             PROVE  /\ Session(d)' = d => Started(d)'
                    /\ Waits(d)' => /\ tpc'[d] = "run" /\ Session(d)' # d /\ inbox'[d] = <<>>
                                    /\ ClientUp' => \A i \in Cors : \/ cpc'[d][i] = "spawned"
                                                                    \/ station'[d][i].pending = 1
  BY DEF ConnectInv
<1>1. Session(d)' = Session(d) /\ inbox'[d] = inbox[d]
  <2>1. d # w /\ d \in Endpoint
    BY DEF Endpoint
  <2>2. \A e \in Endpoint \ {w} : inbox'[e] = inbox[e]
    BY PostEffect
  <2>3. sessions' = sessions
    BY DEF Post
  <2> QED BY <2>1, <2>2, <2>3 DEF Session
<1>2. Started(d) => Started(d)'
  BY DEF Post, Started
<1>3. Session(d)' = d => Started(d)'
  BY <1>1, <1>2 DEF ConnectInv
<1>4. CASE d # c
  <2>1. tpc'[d] = tpc[d] /\ cpc'[d] = cpc[d] /\ station'[d] = station[d]
    BY <1>4 DEF Post, FlowType
  <2>2. Waits(d)' <=> Waits(d)
    BY <1>4, PostWaits
  <2>3. ClientUp
    BY DEF Post
  <2> QED BY <1>1, <1>3, <2>1, <2>2, <2>3 DEF ConnectInv
<1>5. CASE d = c /\ m.type = "connect"
  <2>1. ~Started(c) /\ tpc'[c] = "run" /\ cpc' = cpc
    BY <1>5 DEF Post
  <2>2. inbox[c] = <<>> /\ \A j \in Cors : cpc[c][j] = "spawned"
    BY <2>1, NotStarted
  <2>3. Session(c) # c
    BY <2>1 DEF ConnectInv
  <2> QED BY <1>1, <1>3, <1>5, <2>1, <2>2, <2>3
<1>6. CASE d = c /\ m.type # "connect"
  <2>1. Waits(c)' <=> Waits(c)
    BY <1>6, PostWaits
  <2>2. SUFFICES ASSUME Waits(c)
                 PROVE  /\ tpc'[c] = "run" /\ Session(c)' # c /\ inbox'[c] = <<>>
                        /\ ClientUp' => \A i \in Cors : cpc'[c][i] = "spawned" \/ station'[c][i].pending = 1
    BY <1>3, <1>6, <2>1
  <2>3. /\ m.type = "req" /\ IsCall(m) /\ tpc' = tpc /\ cpc'[c][m.cor] = "wait"
        /\ \A j \in Cors \ {m.cor} : cpc'[c][j] = cpc[c][j]
    BY <1>6, <2>2 DEF Post
  <2>4. tpc'[c] = "run" /\ Session(c)' # c /\ inbox'[c] = <<>>
    BY <1>1, <1>6, <2>2, <2>3 DEF ConnectInv
  <2>5. ASSUME ClientUp', NEW i \in Cors
        PROVE  cpc'[c][i] = "spawned" \/ station'[c][i].pending = 1
    <3>1. m.cor \in CorId /\ i \in CorId
      BY PostEffect DEF Cors, CorId
    <3>2. CASE i = m.cor
      BY <2>3, <3>1, <3>2 DEF Post, FlowType
    <3>3. CASE i # m.cor
      <4>1. ClientUp
        BY DEF Post
      <4>2. cpc[c][i] = "spawned" \/ station[c][i].pending = 1
        BY <2>2, <4>1 DEF ConnectInv
      <4>3. station'[c][i] = station[c][i]
        BY <3>1, <3>3 DEF Post, FlowType
      <4> QED BY <2>3, <3>3, <4>2, <4>3
    <3> QED BY <3>2, <3>3
  <2> QED BY <2>4, <2>5
<1> QED BY <1>4, <1>5, <1>6

\* The receives that may come back grow while a server thread handles nothing.
LEMMA RefillGrows ==
  ASSUME FlowType, FlowType', NEW v \in Worker,
         polled'[v] = polled[v], held'[v] = held[v], held[v] <= Cardinality(Refill(v)),
         gone \subseteq gone',
         \A p \in 1..polled[v] : inbox'[v][p] = inbox[v][p],
         \A d \in Client : Started(d) => Started(d)',
         \A d \in Client : ServerOf[d] = v /\ Started(d) => (Waits(d)' <=> Waits(d))
  PROVE  held'[v] <= Cardinality(Refill(v)')
<1>1. Refill(v) \subseteq Refill(v)'
  <2> SUFFICES ASSUME NEW d \in Client, NEW j \in CorId, <<d, j>> \in Refill(v)
               PROVE  <<d, j>> \in Refill(v)'
    BY DEF Refill
  <2>1. ServerOf[d] = v /\ Started(d) /\ Started(d)' /\ (Waits(d)' <=> Waits(d))
    BY DEF Refill
  <2>2. CASE Waits(d)
    BY <2>1, <2>2 DEF Refill
  <2>3. CASE ~Waits(d)
    <3>1. \A p \in 1..polled'[v] : Slot(inbox'[v][p]) # <<d, j>>
      BY <2>3 DEF Refill
    <3> QED BY <2>1, <2>3, <3>1 DEF Refill
  <2> QED BY <2>2, <2>3
<1>2. IsFiniteSet(Client \X CorId)
  BY SlotSets, FS_Product
<1>3. Refill(v)' \subseteq Client \X CorId
  BY DEF Refill
<1>4. IsFiniteSet(Refill(v)')
  BY <1>2, <1>3, FS_Subset
<1>5. /\ Cardinality(Refill(v)) <= Cardinality(Refill(v)')
      /\ IsFiniteSet(Refill(v))
  BY <1>1, <1>4, FS_Subset
<1>6. Cardinality(Refill(v)) \in Nat /\ Cardinality(Refill(v)') \in Nat /\ held[v] \in Nat
  BY <1>4, <1>5, FS_CardinalityType DEF FlowType, Endpoint
<1> QED BY <1>5, <1>6

LEMMA PostHeld ==
  ASSUME FlowType, QueueInv, HeldInv, NEW c \in Client, NEW m, Post(c, m)
  PROVE  HeldInv'
<1>1. /\ FlowType' /\ gone \subseteq gone' /\ m.cor \in CorId
      /\ \A e \in Endpoint \ {ServerOf[c]} : inbox'[e] = inbox[e]
      /\ \A p \in 1..polled[ServerOf[c]] : inbox'[ServerOf[c]][p] = inbox[ServerOf[c]][p]
  BY PostEffect
<1>2. ASSUME NEW v \in Worker PROVE held'[v] <= Cardinality(Refill(v)')
  <2>1. polled'[v] = polled[v] /\ held'[v] = held[v] /\ held[v] <= Cardinality(Refill(v))
    BY DEF Post, HeldInv
  <2>2. \A p \in 1..polled[v] : inbox'[v][p] = inbox[v][p]
    BY <1>1 DEF Endpoint
  <2>3. \A d \in Client : Started(d) => Started(d)'
    BY DEF Post, Started
  <2>4. ASSUME NEW d \in Client, Started(d) PROVE Waits(d)' <=> Waits(d)
    <3>1. m.type # "connect" \/ d # c
      BY <2>4 DEF Post
    <3> QED BY <3>1, PostWaits
  <2> QED BY <1>1, <2>1, <2>2, <2>3, <2>4, RefillGrows
<1>3. ASSUME NEW d \in Client PROVE held'[d] <= Cardinality(Idle(d)')
  <2>1. held'[d] = held[d] /\ held[d] <= Cardinality(Idle(d))
    BY DEF Post, HeldInv
  <2>2. CASE d # c \/ ~IsCall(m)
    <3>1. station'[d] = station[d]
      BY <2>2 DEF Post, FlowType
    <3> QED BY <2>1, <3>1 DEF Idle
  <2>3. CASE d = c /\ IsCall(m)
    <3>1. polled[c] = 0
      BY <2>3 DEF Post, ToServer, IsCall
    <3>2. held[c] = 0
      BY <3>1 DEF QueueInv, Endpoint
    <3>3. IsFiniteSet(Idle(c)')
      <4>1. Idle(c)' \subseteq Cors
        BY DEF Idle
      <4> QED BY <4>1, SlotSets, FS_Subset
    <3>4. Cardinality(Idle(c)') \in Nat
      BY <3>3, FS_CardinalityType
    <3> QED BY <2>1, <2>3, <3>2, <3>4
  <2> QED BY <2>2, <2>3
<1> QED BY <1>2, <1>3 DEF HeldInv

LEMMA PostKeeps ==
  ASSUME FlowInv, NoOverflow, NEW c \in Client, NEW m, Post(c, m)
  PROVE  FlowInv' /\ NoOverflow'
<1>1. FlowType' /\ QueueInv'
  BY PostEffect DEF FlowInv
<1>2. CallInv' /\ ThreadInv' /\ ConnectInv' /\ HeldInv'
  BY PostCalls, PostThreads, PostConnects, PostHeld DEF FlowInv
<1>3. \/ overflowed' = overflowed
      \/ ~HasRoom(ServerOf[c], inbox, held) /\ overflowed' = overflowed \cup {ServerOf[c]}
  BY PostEffect DEF FlowInv
<1>4. Fits(ServerOf[c]) => HasRoom(ServerOf[c], inbox, held)
  <2>1. m.cor \in CorId
    BY PostEffect DEF FlowInv
  <2>2. Slot(m) = <<c, m.cor>>
    BY DEF Post, Slot
  <2>3. m.cor = 0 => ~Started(c)
    BY DEF Post, ToServer, Cors
  <2>4. <<c, m.cor>> \notin Slots(inbox[ServerOf[c]]) /\ <<c, m.cor>> \notin gone
    BY <2>2 DEF Post
  <2> QED BY <2>1, <2>3, <2>4, ServerRoom DEF FlowInv
<1>5. NoOverflow'
  BY <1>3, <1>4, ZenonT(40) DEF NoOverflow, Fits
<1> QED BY <1>1, <1>2, <1>5 DEF FlowInv

\* A step that moves no datagram.
LEMMA QuietKeeps ==
  ASSUME FlowInv, NoOverflow, UNCHANGED <<inbox, polled, held, sessions, station, gone, overflowed>>,
         tpc' \in [Client -> {"init", "run", "exit", "refused"}],
         cpc' \in [Client -> [Cors -> {"spawned", "wait", "done"}]],
         \A d \in Client : Started(d) \/ Started(d)' => tpc'[d] = tpc[d],
         \A d \in Client : ~Started(d) => cpc'[d] = cpc[d],
         \A d \in Client, j \in Cors : cpc'[d][j] = "spawned" => cpc[d][j] = "spawned",
         \A d \in Client : Waits(d) /\ ClientUp' => ClientUp /\ cpc'[d] = cpc[d]
  PROVE  FlowInv' /\ NoOverflow'
<1>1. FlowType' /\ QueueInv'
  BY DEF FlowInv, FlowType, QueueInv
<1>2. CallInv'
  <2>1. CallInv
    BY DEF FlowInv
  <2>2. \A d \in Client, j \in CorId :
          (Asked(d, j)' <=> Asked(d, j)) /\ (Answered(d, j)' <=> Answered(d, j)) /\ (Gone(d, j)' <=> Gone(d, j))
    BY DEF Asked, Answered, Gone
  <2> QED BY <2>1, <2>2 DEF CallInv
<1>3. \A d \in Client : (Started(d)' <=> Started(d)) /\ (Waits(d)' <=> Waits(d)) /\ Session(d)' = Session(d)
  BY DEF Started, Waits, Session
<1>4. ThreadInv'
  <2> SUFFICES ASSUME NEW d \in Client
               PROVE  /\ ~Started(d)' => /\ \A j \in Cors : cpc'[d][j] = "spawned"
                                         /\ \A x \in In(inbox'[ServerOf[d]]) : Owner(x) # d
                      /\ \A j \in Cors : cpc'[d][j] = "spawned" => station'[d][j].pending = 0
                      /\ \A x \in In(inbox'[ServerOf[d]]) :
                           Owner(x) = d /\ x.type = "req" /\ ~IsCall(x) => tpc'[d] = "exit"
    BY DEF ThreadInv
  <2> QED BY <1>3 DEF FlowInv, ThreadInv, Started
<1>5. ConnectInv'
  <2> SUFFICES ASSUME NEW d \in Client
               PROVE  /\ Session(d)' = d => Started(d)'
                      /\ Waits(d)' => /\ tpc'[d] = "run" /\ Session(d)' # d /\ inbox'[d] = <<>>
                                      /\ ClientUp' => \A i \in Cors : \/ cpc'[d][i] = "spawned"
                                                                      \/ station'[d][i].pending = 1
    BY DEF ConnectInv
  <2>1. Session(d) = d => Started(d)
    BY DEF FlowInv, ConnectInv
  <2>2. Waits(d) => /\ tpc[d] = "run" /\ Session(d) # d /\ inbox[d] = <<>>
                    /\ ClientUp => \A i \in Cors : cpc[d][i] = "spawned" \/ station[d][i].pending = 1
    BY DEF FlowInv, ConnectInv
  <2>3. tpc[d] = "run" => tpc'[d] = "run"
    BY DEF Started
  <2>4. inbox'[d] = inbox[d] /\ station'[d] = station[d]
    OBVIOUS
  <2> QED BY <1>3, <2>1, <2>2, <2>3, <2>4
<1>6. HeldInv'
  <2>1. \A d \in Client : Idle(d)' = Idle(d)
    BY DEF Idle
  <2>2. \A v \in Worker : Refill(v)' = Refill(v)
    BY <1>3 DEF Refill
  <2> QED BY <2>1, <2>2 DEF FlowInv, HeldInv
<1>7. NoOverflow'
  BY DEF NoOverflow
<1> QED BY <1>1, <1>2, <1>4, <1>5, <1>6, <1>7 DEF FlowInv

LEMMA CallFlows ==
  ASSUME FlowInv, NoOverflow, NEW c \in Client, NEW i \in Cors, Scheduled(c),
         station[c][i].pending = 0, Call(c, i, Echo, Request), tpc' = tpc,
         cpc' = [cpc EXCEPT ![c][i] = "wait"]
  PROVE  FlowInv' /\ NoOverflow'
<1> DEFINE m == Req(c, i, Echo, Request)
<1>0. /\ i \in CorId /\ Request \in Payload /\ Echo \in 0..1 /\ ServerOf[c] \in Worker
      /\ cpc \in [Client -> [Cors -> {"spawned", "wait", "done"}]]
      /\ tpc \in [Client -> {"init", "run", "exit", "refused"}] /\ polled[c] = 0 /\ tpc[c] = "run"
  <2>1. polled[c] \in Nat
    BY DEF FlowInv, FlowType, Endpoint
  <2>2. polled[c] = 0 /\ tpc[c] = "run"
    BY <2>1 DEF Scheduled, InPoll
  <2> QED BY <2>2, WordAssumption DEF FlowInv, FlowType, CorId, Cors, Request, Payload, Echo
<1>1. /\ cpc' \in [Client -> [Cors -> {"spawned", "wait", "done"}]]
      /\ cpc'[c][i] = "wait"
      /\ \A j \in Cors \ {i} : cpc'[c][j] = cpc[c][j]
      /\ \A d \in Client \ {c} : cpc'[d] = cpc[d]
  BY <1>0
<1>2. CASE i < StationSize
  <2>1. /\ m \in Owned /\ m.type = "req" /\ m.cor = i /\ m.sid = SessionId[c]
        /\ IsCall(m)
    <3>1. m \in Owned
      BY <1>0, ReqOwned
    <3> QED BY <3>1, CastsAssumption DEF Req, IsCall, Echo, Stop
  <2>2. Owner(m) = c /\ Slot(m) = <<c, i>>
    BY <2>1, OwnerOf DEF Slot
  <2>3. m \in ToServer(ServerOf[c])
    BY <2>1, <2>2 DEF ToServer
  <2>4. Slot(m) \notin Slots(inbox[ServerOf[c]]) /\ Slot(m) \notin gone
    BY <1>0, <2>2, FreeSlot DEF FlowInv
  <2>5. /\ Send(ServerOf[c], m, inbox, held, polled) /\ UNCHANGED <<polled, held, sessions, crashed>>
        /\ AddPendingReply(c, i)
    BY <1>2 DEF Call
  <2>6. station' = [station EXCEPT ![c][i] = [pending |-> 1, buf |-> <<>>]]
    BY <1>0, <2>5 DEF AddPendingReply, FlowInv, FlowType
  <2> HIDE DEF m
  <2>7. Post(c, m)
    BY <1>0, <1>1, <2>1, <2>2, <2>3, <2>4, <2>5, <2>6 DEF Post, Scheduled
  <2> QED BY <2>7, PostKeeps
<1>3. CASE ~(i < StationSize)
  <2>1. /\ UNCHANGED <<inbox, polled, held, sessions, station, gone, overflowed>>
        /\ crashed' = crashed \cup {c}
    BY <1>3 DEF Call
  <2>2. ~ClientUp'
    BY <2>1 DEF ClientUp
  <2>3. \A d \in Client : Started(d)' <=> Started(d)
    BY DEF Started
  <2>4. \A d \in Client : ~Started(d) => d # c
    BY <1>0 DEF Started
  <2>5. \A d \in Client, j \in Cors : cpc'[d][j] = "spawned" => cpc[d][j] = "spawned"
    BY <1>1
  <2> QED BY <1>0, <1>1, <2>1, <2>2, <2>3, <2>4, <2>5, QuietKeeps
<1> QED BY <1>2, <1>3

\* A coroutine that runs on after its reply: its client's Connect is past.
LEMMA ResumedIsConnected ==
  ASSUME FlowInv, NEW c \in Client, NEW i \in Cors, Scheduled(c), cpc[c][i] = "wait", CorReady(c, i)
  PROVE  ~Waits(c)
<1>1. ClientUp /\ station[c][i].pending = 0
  BY DEF Scheduled, CorReady
<1> QED BY <1>1 DEF FlowInv, ConnectInv

LEMMA StopFlows ==
  ASSUME FlowInv, NoOverflow, NEW c \in Client, NEW i \in Cors, Scheduled(c), ~Waits(c),
         station[c][i].pending = 0, Cast(c, i, Stop, <<>>), tpc' = [tpc EXCEPT ![c] = "exit"],
         cpc' = [cpc EXCEPT ![c][i] = "done"]
  PROVE  FlowInv' /\ NoOverflow'
<1> DEFINE m == Req(c, i, Stop, <<>>)
<1>0. /\ i \in CorId /\ <<>> \in Payload /\ Stop \in 0..1 /\ ServerOf[c] \in Worker
      /\ cpc \in [Client -> [Cors -> {"spawned", "wait", "done"}]]
      /\ tpc \in [Client -> {"init", "run", "exit", "refused"}] /\ tpc[c] = "run"
  BY DEF FlowInv, FlowType, CorId, Cors, Payload, Stop, Scheduled
<1>1. /\ cpc' \in [Client -> [Cors -> {"spawned", "wait", "done"}]]
      /\ \A j \in Cors : cpc'[c][j] = "spawned" => cpc[c][j] = "spawned"
      /\ \A d \in Client \ {c} : cpc'[d] = cpc[d] /\ tpc'[d] = tpc[d]
      /\ tpc' \in [Client -> {"init", "run", "exit", "refused"}] /\ tpc'[c] = "exit"
  BY <1>0
<1>2. /\ m \in Owned /\ m.type = "req" /\ m.cor = i /\ m.sid = SessionId[c] /\ ~IsCall(m)
  <2>1. m \in Owned
    BY <1>0, ReqOwned
  <2> QED BY <2>1, CastsAssumption DEF Req, IsCall, Stop
<1>3. Owner(m) = c /\ Slot(m) = <<c, i>>
  BY <1>2, OwnerOf DEF Slot
<1>4. m \in ToServer(ServerOf[c])
  BY <1>2, <1>3 DEF ToServer
<1>5. Slot(m) \notin Slots(inbox[ServerOf[c]]) /\ Slot(m) \notin gone
  BY <1>0, <1>3, FreeSlot DEF FlowInv
<1>6. Send(ServerOf[c], m, inbox, held, polled) /\ UNCHANGED <<polled, held, sessions, station, crashed>>
  BY DEF Cast
<1> HIDE DEF m
<1>7. Post(c, m)
  BY <1>0, <1>1, <1>2, <1>3, <1>4, <1>5, <1>6 DEF Post, Scheduled
<1> QED BY <1>7, PostKeeps

LEMMA StartFlows ==
  ASSUME FlowInv, NoOverflow, NEW c \in Client, ThreadStart(c)
  PROVE  FlowInv' /\ NoOverflow'
<1>0. /\ ~Started(c) /\ ServerOf[c] \in Worker /\ ClientUp /\ UNCHANGED cpc
      /\ cpc \in [Client -> [Cors -> {"spawned", "wait", "done"}]]
      /\ tpc \in [Client -> {"init", "run", "exit", "refused"}]
  BY DEF ThreadStart, Started, FlowInv, FlowType
<1>1. CASE tpc' = [tpc EXCEPT ![c] = "run"] /\ SendConnect(c)
  <2> DEFINE m == Connect(c)
  <2>1. m \in Owned /\ m.type = "connect" /\ m.cor = 0 /\ m.sid = SessionId[c] /\ ~IsCall(m)
    <3>1. m \in Owned
      BY ConnectOwned
    <3> QED BY <3>1 DEF Connect, IsCall
  <2>2. Owner(m) = c /\ Slot(m) = <<c, 0>> /\ 0 \in CorId
    BY <2>1, OwnerOf DEF Slot, CorId
  <2>3. m \in ToServer(ServerOf[c])
    BY <2>1, <2>2 DEF ToServer
  <2>4. Slot(m) \notin Slots(inbox[ServerOf[c]]) /\ Slot(m) \notin gone
    <3>1. <<c, 0>> \notin gone
      BY DEF FlowInv, FlowType, Cors
    <3> QED BY <1>0, <2>2, <3>1, NotStarted DEF FlowInv
  <2>5. Send(ServerOf[c], m, inbox, held, polled) /\ UNCHANGED <<polled, held, sessions, station, crashed>>
    BY <1>1 DEF SendConnect
  <2>6. /\ tpc' \in [Client -> {"init", "run", "exit", "refused"}] /\ tpc'[c] = "run"
        /\ \A d \in Client \ {c} : tpc'[d] = tpc[d]
    BY <1>0, <1>1
  <2> HIDE DEF m
  <2>7. Post(c, m)
    BY <1>0, <2>1, <2>2, <2>3, <2>4, <2>5, <2>6 DEF Post
  <2> QED BY <2>7, PostKeeps
<1>2. CASE tpc' = [tpc EXCEPT ![c] = "refused"] /\ UNCHANGED rpcVars
  <2>1. /\ tpc' \in [Client -> {"init", "run", "exit", "refused"}] /\ tpc'[c] = "refused"
        /\ \A d \in Client \ {c} : tpc'[d] = tpc[d]
    BY <1>0, <1>2
  <2>2. ~ClientUp'
    BY <2>1 DEF ClientUp
  <2>3. ~Started(c)'
    BY <2>1 DEF Started
  <2>4. \A d \in Client : Started(d) \/ Started(d)' => tpc'[d] = tpc[d]
    BY <1>0, <2>1, <2>3
  <2>5. UNCHANGED <<inbox, polled, held, sessions, station, gone, overflowed>>
    BY <1>2 DEF rpcVars
  <2> QED BY <1>0, <2>1, <2>2, <2>4, <2>5, QuietKeeps
<1> QED BY <1>1, <1>2 DEF ThreadStart

LEMMA CoroutineFlows ==
  ASSUME FlowInv, NoOverflow, NEW c \in Client, NEW i \in Cors, FirstCall(c, i) \/ Resume(c, i)
  PROVE  FlowInv' /\ NoOverflow'
<1>0. /\ cpc \in [Client -> [Cors -> {"spawned", "wait", "done"}]]
      /\ tpc \in [Client -> {"init", "run", "exit", "refused"}]
  BY DEF FlowInv, FlowType
<1>1. CASE FirstCall(c, i)
  <2>1. station[c][i].pending = 0
    BY <1>1 DEF FirstCall, FlowInv, ThreadInv
  <2> QED BY <1>1, <2>1, CallFlows DEF FirstCall
<1>2. CASE Resume(c, i)
  <2>1. Scheduled(c) /\ cpc[c][i] = "wait" /\ CorReady(c, i) /\ station[c][i].pending = 0
    BY <1>2 DEF Resume, CorReady
  <2>2. ~Waits(c)
    BY <2>1, ResumedIsConnected
  <2>3. CASE Call(c, i, Echo, Request) /\ UNCHANGED <<cpc, tpc>>
    <3>1. cpc' = [cpc EXCEPT ![c][i] = "wait"]
      BY <1>0, <2>1, <2>3
    <3> QED BY <2>1, <2>3, <3>1, CallFlows
  <2>4. CASE /\ cpc' = [cpc EXCEPT ![c][i] = "done"]
             /\ Cast(c, i, Stop, <<>>) /\ tpc' = [tpc EXCEPT ![c] = "exit"]
    BY <2>1, <2>2, <2>4, StopFlows
  <2>5. CASE cpc' = [cpc EXCEPT ![c][i] = "done"] /\ UNCHANGED <<rpcVars, tpc>>
    <3>1. UNCHANGED <<inbox, polled, held, sessions, station, gone, overflowed, crashed>>
      BY <2>5 DEF rpcVars
    <3>2. /\ cpc' \in [Client -> [Cors -> {"spawned", "wait", "done"}]]
          /\ \A d \in Client, j \in Cors : cpc'[d][j] = "spawned" => cpc[d][j] = "spawned"
          /\ \A d \in Client \ {c} : cpc'[d] = cpc[d]
      BY <1>0, <2>5
    <3>3. Started(c)
      BY <2>1 DEF Scheduled, Started
    <3>4. ClientUp' <=> ClientUp
      BY <2>5, <3>1 DEF ClientUp
    <3>5. \A d \in Client : ~Started(d) \/ Waits(d) => cpc'[d] = cpc[d]
      BY <2>2, <3>2, <3>3
    <3>6. \A d \in Client : tpc'[d] = tpc[d]
      BY <2>5
    <3> QED BY <1>0, <2>5, <3>1, <3>2, <3>4, <3>5, <3>6, QuietKeeps
  <2> QED BY <1>2, <2>3, <2>4, <2>5 DEF Resume
<1> QED BY <1>1, <1>2

-----------------------------------------------------------------------------
(* The receive loops. *)

LEMMA TakeEffect ==
  ASSUME FlowType, QueueInv, NEW e \in Endpoint, HasMsg(e), Take(e)
  PROVE  /\ inbox[e] \in Seq(Owned) /\ inbox[e] # <<>>
         /\ Taken(e) \in Boxes /\ Taken(e)[e] = Tail(inbox[e])
         /\ \A f \in Endpoint \ {e} : Taken(e)[f] = inbox[f] /\ polled'[f] = polled[f] /\ held'[f] = held[f]
         /\ polled' \in [Endpoint -> Nat] /\ held' \in [Endpoint -> Nat]
         /\ polled'[e] <= Len(inbox[e]) - 1 /\ (polled[e] # 0 => polled'[e] = polled[e] - 1)
         /\ polled'[e] = 0 => held'[e] = 0
         /\ held'[e] <= held[e] + 1 /\ (polled[e] = 0 => held'[e] <= 1)
<1> DEFINE q == inbox[e]
<1>1. /\ q \in Seq(Owned) /\ q # <<>> /\ inbox \in Boxes
      /\ polled \in [Endpoint -> Nat] /\ held \in [Endpoint -> Nat]
      /\ polled[e] <= Len(q) /\ (polled[e] = 0 => held[e] = 0)
  BY DEF FlowType, QueueInv, HasMsg, Boxes
<1>2. Tail(q) \in Seq(Owned) /\ Len(q) \in Nat \ {0}
  BY <1>1
<1>3. Taken(e) \in Boxes /\ Taken(e)[e] = Tail(q) /\ \A f \in Endpoint \ {e} : Taken(e)[f] = inbox[f]
  BY <1>1, <1>2 DEF Taken, Boxes
<1>4. LeftOf(e) \in Nat /\ LeftOf(e) <= Len(q) - 1 /\ (polled[e] # 0 => LeftOf(e) = polled[e] - 1)
  BY <1>1, <1>2 DEF LeftOf, InPoll
<1>5. polled' = [polled EXCEPT ![e] = LeftOf(e)]
      /\ held' = [held EXCEPT ![e] = IF LeftOf(e) = 0 THEN 0 ELSE held[e] + 1]
  BY DEF Take, PolledAfter, HeldAfter
<1>6. /\ polled' \in [Endpoint -> Nat] /\ held' \in [Endpoint -> Nat]
      /\ polled'[e] = LeftOf(e) /\ held'[e] = (IF LeftOf(e) = 0 THEN 0 ELSE held[e] + 1)
      /\ \A f \in Endpoint \ {e} : polled'[f] = polled[f] /\ held'[f] = held[f]
  BY <1>1, <1>4, <1>5
<1>7. /\ polled'[e] = 0 => held'[e] = 0
      /\ held'[e] <= held[e] + 1 /\ (polled[e] = 0 => held'[e] <= 1)
  BY <1>1, <1>4, <1>6
<1> QED BY <1>1, <1>3, <1>4, <1>6, <1>7

\* Whoever takes a datagram leaves a good queue.
LEMMA TakeQueues ==
  ASSUME FlowType, QueueInv, NEW e \in Endpoint, HasMsg(e), Take(e), inbox' = Taken(e)
  PROVE  QueueInv'
<1> SUFFICES ASSUME NEW f \in Endpoint
             PROVE  /\ In(inbox'[f]) \subseteq Mail(f) /\ Distinct(inbox'[f])
                    /\ polled'[f] <= Len(inbox'[f])
                    /\ polled'[f] = 0 => held'[f] = 0
  BY DEF QueueInv
<1>1. CASE f # e
  <2>1. inbox'[f] = inbox[f] /\ polled'[f] = polled[f] /\ held'[f] = held[f]
    BY <1>1, TakeEffect
  <2> QED BY <2>1 DEF QueueInv
<1>2. CASE f = e
  <2>1. /\ inbox[e] \in Seq(Owned) /\ inbox[e] # <<>> /\ inbox'[e] = Tail(inbox[e])
        /\ polled'[e] <= Len(inbox[e]) - 1 /\ (polled'[e] = 0 => held'[e] = 0)
    BY TakeEffect
  <2>2. /\ In(Tail(inbox[e])) \subseteq In(inbox[e]) /\ Len(Tail(inbox[e])) = Len(inbox[e]) - 1
        /\ Distinct(inbox[e]) => Distinct(Tail(inbox[e]))
    BY <2>1, TailLeaves
  <2>3. In(inbox[e]) \subseteq Mail(e) /\ Distinct(inbox[e])
    BY DEF QueueInv
  <2> QED BY <1>2, <2>1, <2>2, <2>3
<1> QED BY <1>1, <1>2

LEMMA PollFlows ==
  ASSUME FlowInv, NoOverflow, NEW c \in Client, ThreadPoll(c)
  PROVE  FlowInv' /\ NoOverflow'
<1> DEFINE q == inbox[c]
           m == Head(q)
           i == m.cor
<1>0. FlowType /\ QueueInv /\ CallInv /\ ThreadInv /\ ConnectInv /\ HeldInv /\ c \in Endpoint
  BY DEF FlowInv, Endpoint
<1>1. /\ HasMsg(c) /\ Take(c) /\ AppendReply(c, m) /\ inbox' = Taken(c)
      /\ UNCHANGED <<sessions, gone, overflowed, tpc, cpc>>
      /\ ClientUp
  BY DEF ThreadPoll, RecvReply, benchVars
<1>2. /\ q \in Seq(Owned) /\ q # <<>> /\ inbox' \in Boxes /\ inbox'[c] = Tail(q)
      /\ \A f \in Endpoint \ {c} : inbox'[f] = inbox[f] /\ polled'[f] = polled[f] /\ held'[f] = held[f]
      /\ polled' \in [Endpoint -> Nat] /\ held' \in [Endpoint -> Nat]
      /\ held'[c] <= held[c] + 1 /\ (polled[c] = 0 => held'[c] <= 1)
  BY <1>0, <1>1, TakeEffect
<1>3. /\ m \in Owned /\ m \in In(q) /\ In(q) = In(Tail(q)) \cup {m} /\ Slot(m) \notin Slots(Tail(q))
  BY <1>0, <1>2, TailLeaves DEF QueueInv
<1>4. Slot(m) = <<c, i>> /\ i \in Cors /\ i \in CorId /\ m.body \in Payload
  <2>1. m \in ToClient(c)
    BY <1>0, <1>3, MailIn
  <2> QED BY <2>1 DEF ToClient, Slot, Cors, CorId, Owned, Datagram
<1>5. Answered(c, i) /\ station[c][i].pending = 1
  <2>1. Answered(c, i)
    BY <1>3, <1>4 DEF Answered
  <2>2. station[c][i].pending # 0
    BY <1>0, <1>4, <2>1 DEF CallInv
  <2>3. station[c][i].pending \in 0..1
    BY <1>0, <1>4 DEF FlowType
  <2> QED BY <2>1, <2>2, <2>3
<1> HIDE DEF q, m, i
<1>6. /\ station' \in [Client -> [CorId -> [pending : 0..1, buf : Payload]]]
      /\ station'[c][i].pending = 0
      /\ \A j \in CorId \ {i} : station'[c][j] = station[c][j]
      /\ \A d \in Client \ {c} : station'[d] = station[d]
  <2>1. station' = [station EXCEPT ![c][i] = [pending |-> 0, buf |-> m.body]]
    BY <1>1, <1>5 DEF AppendReply, CorReady, i
  <2>2. [pending |-> 0, buf |-> m.body] \in [pending : 0..1, buf : Payload]
    BY <1>4
  <2> QED BY <1>0, <1>4, <2>1, <2>2 DEF FlowType
<1>7. FlowType'
  BY <1>0, <1>1, <1>2, <1>6 DEF FlowType
<1>8. QueueInv'
  BY <1>0, <1>1, TakeQueues
<1>9. \A d \in Client : ServerOf[d] \in Endpoint /\ inbox'[ServerOf[d]] = inbox[ServerOf[d]]
  <2>1. \A d \in Client : ServerOf[d] \in Worker /\ ServerOf[d] # c
    OBVIOUS
  <2> QED BY <1>2, <2>1 DEF Endpoint
<1>10. CallInv'
  <2> SUFFICES ASSUME NEW d \in Client, NEW j \in CorId
               PROVE  /\ station'[d][j].pending = 0 <=> ~Asked(d, j)' /\ ~Answered(d, j)' /\ ~Gone(d, j)'
                      /\ ~(Asked(d, j)' /\ Answered(d, j)') /\ ~(Asked(d, j)' /\ Gone(d, j)')
                      /\ ~(Answered(d, j)' /\ Gone(d, j)')
    BY DEF CallInv
  <2>1. (Asked(d, j)' <=> Asked(d, j)) /\ (Gone(d, j)' <=> Gone(d, j))
    BY <1>1, <1>9 DEF Asked, Gone
  <2>2. /\ station[d][j].pending = 0 <=> ~Asked(d, j) /\ ~Answered(d, j) /\ ~Gone(d, j)
        /\ ~(Asked(d, j) /\ Answered(d, j)) /\ ~(Asked(d, j) /\ Gone(d, j))
        /\ ~(Answered(d, j) /\ Gone(d, j))
    BY <1>0 DEF CallInv
  <2>3. CASE d = c /\ j = i
    <3>1. ~Answered(d, j)'
      BY <1>2, <1>3, <1>4, <2>3 DEF Answered, Slots
    <3> QED BY <1>5, <1>6, <2>1, <2>2, <2>3, <3>1
  <2>4. CASE ~(d = c /\ j = i)
    <3>1. station'[d][j] = station[d][j]
      BY <1>6, <2>4
    <3>2. Answered(d, j)' <=> Answered(d, j)
      <4>1. CASE d # c
        BY <1>2, <4>1 DEF Answered, Endpoint
      <4>2. CASE d = c
        <5>1. Slot(m) # <<d, j>>
          BY <1>4, <2>4, <4>2
        <5> QED BY <1>2, <1>3, <4>2, <5>1 DEF Answered, q
      <4> QED BY <4>1, <4>2
    <3> QED BY <2>1, <2>2, <3>1, <3>2
  <2> QED BY <2>3, <2>4
<1>11. \A d \in Client, j \in Cors : station[d][j].pending = 0 => station'[d][j].pending = 0
  <2>1. Cors \subseteq CorId
    BY SlotSets
  <2> QED BY <1>5, <1>6, <2>1
<1>12. ThreadInv'
  <2> SUFFICES ASSUME NEW d \in Client
               PROVE  /\ ~Started(d)' => /\ \A j \in Cors : cpc'[d][j] = "spawned"
                                         /\ \A x \in In(inbox'[ServerOf[d]]) : Owner(x) # d
                      /\ \A j \in Cors : cpc'[d][j] = "spawned" => station'[d][j].pending = 0
                      /\ \A x \in In(inbox'[ServerOf[d]]) :
                           Owner(x) = d /\ x.type = "req" /\ ~IsCall(x) => tpc'[d] = "exit"
    BY DEF ThreadInv
  <2> QED BY <1>0, <1>1, <1>9, <1>11 DEF ThreadInv, Started
<1>13. \A d \in Client : (Waits(d)' <=> Waits(d)) /\ Session(d)' = Session(d) /\ (Started(d)' <=> Started(d))
  BY <1>1, <1>9 DEF Waits, Session, Started
<1>14. ConnectInv'
  <2> SUFFICES ASSUME NEW d \in Client
               PROVE  /\ Session(d)' = d => Started(d)'
                      /\ Waits(d)' => /\ tpc'[d] = "run" /\ Session(d)' # d /\ inbox'[d] = <<>>
                                      /\ ClientUp' => \A j \in Cors : \/ cpc'[d][j] = "spawned"
                                                                      \/ station'[d][j].pending = 1
    BY DEF ConnectInv
  <2>1. Session(d)' = d => Started(d)'
    BY <1>0, <1>13 DEF ConnectInv
  <2>2. ASSUME Waits(d)
        PROVE  /\ tpc'[d] = "run" /\ Session(d)' # d /\ inbox'[d] = <<>>
               /\ \A j \in Cors : cpc'[d][j] = "spawned" \/ station'[d][j].pending = 1
    <3>1. /\ tpc[d] = "run" /\ Session(d) # d /\ inbox[d] = <<>>
          /\ \A j \in Cors : cpc[d][j] = "spawned" \/ station[d][j].pending = 1
      BY <1>0, <1>1, <2>2 DEF ConnectInv
    <3>2. d # c /\ d \in Endpoint
      BY <1>2, <3>1 DEF q, Endpoint
    <3> QED BY <1>1, <1>2, <1>6, <1>13, <3>1, <3>2
  <2> QED BY <1>13, <2>1, <2>2
<1>15. ASSUME NEW d \in Client PROVE held'[d] <= Cardinality(Idle(d)')
  <2>1. CASE d # c
    <3>1. held'[d] = held[d] /\ station'[d] = station[d]
      BY <1>2, <1>6, <2>1 DEF Endpoint
    <3> QED BY <1>0, <3>1 DEF HeldInv, Idle
  <2>2. CASE d = c
    <3>1. Idle(c)' = Idle(c) \cup {i} /\ i \notin Idle(c)
      <4>1. Cors \subseteq CorId
        BY SlotSets
      <4>2. \A j \in Cors : station'[c][j].pending = 0 <=> station[c][j].pending = 0 \/ j = i
        BY <1>6, <4>1
      <4> QED BY <1>4, <1>5, <4>2 DEF Idle
    <3>2. IsFiniteSet(Idle(c))
      <4>1. Idle(c) \subseteq Cors
        BY DEF Idle
      <4> QED BY <4>1, SlotSets, FS_Subset
    <3>3. Cardinality(Idle(c)') = Cardinality(Idle(c)) + 1 /\ Cardinality(Idle(c)) \in Nat
      BY <3>1, <3>2, FS_AddElement, FS_CardinalityType
    <3>4. held[c] <= Cardinality(Idle(c)) /\ held[c] \in Nat /\ held'[c] \in Nat
      BY <1>0, <1>2 DEF HeldInv, FlowType
    <3> QED BY <1>2, <2>2, <3>3, <3>4
  <2> QED BY <2>1, <2>2
<1>16. HeldInv'
  <2>1. ASSUME NEW v \in Worker PROVE held'[v] <= Cardinality(Refill(v)')
    <3>1. v # c /\ v \in Endpoint
      BY DEF Endpoint
    <3>2. polled'[v] = polled[v] /\ held'[v] = held[v] /\ inbox'[v] = inbox[v] /\ gone' = gone
      BY <1>1, <1>2, <3>1
    <3>3. Refill(v)' = Refill(v)
      BY <1>13, <3>2 DEF Refill
    <3> QED BY <1>0, <3>2, <3>3 DEF HeldInv
  <2> QED BY <1>15, <2>1 DEF HeldInv
<1>17. NoOverflow'
  BY <1>1 DEF NoOverflow
<1> QED BY <1>7, <1>8, <1>10, <1>12, <1>14, <1>16, <1>17 DEF FlowInv

\* A server thread handles datagram m: the call it makes is gone, or answered.
Serve(w, m) ==
  LET d == Owner(m) IN
  /\ m = Head(inbox[w]) /\ HasMsg(w) /\ Take(w)
  /\ inbox' \in Boxes /\ inbox'[w] = Tail(inbox[w]) /\ \A v \in Worker \ {w} : inbox'[v] = inbox[v]
  /\ UNCHANGED <<station, tpc, cpc>> /\ (ClientUp' => ClientUp)
  /\ \A c \in Client : Session(c)' = c => Session(c) = c \/ (m.type = "connect" /\ c = d)
  /\ \/ (\A c \in Client : inbox'[c] = inbox[c]) /\ gone' = gone \cup CallsOf(m)
     \/ /\ IsCall(m) /\ Session(d) = d /\ gone' = gone
        /\ \A c \in Client \ {d} : inbox'[c] = inbox[c]
        /\ \E r \in ToClient(d) : Slot(r) = Slot(m) /\ Joined(inbox[d], r, polled[d], inbox'[d])

LEMMA ServeEffect ==
  ASSUME FlowType, QueueInv, CallInv, NEW w \in Worker, NEW m, Serve(w, m)
  PROVE  /\ m \in Owned /\ m \in ToServer(w) /\ m \in In(inbox[w]) /\ Owner(m) \in Client
         /\ m.cor \in CorId /\ Slot(m) = <<Owner(m), m.cor>> /\ ServerOf[Owner(m)] = w
         /\ In(inbox[w]) = In(inbox'[w]) \cup {m} /\ Slot(m) \notin Slots(inbox'[w])
         /\ IsCall(m) => m.cor \in Cors /\ Asked(Owner(m), m.cor) /\ ~Answered(Owner(m), m.cor)
         /\ FlowType' /\ gone \subseteq gone'
         /\ \A c \in Client : Waits(c)' => Waits(c)
<1>1. /\ w \in Endpoint /\ m = Head(inbox[w]) /\ inbox[w] \in Seq(Owned) /\ inbox[w] # <<>>
      /\ inbox'[w] = Tail(inbox[w]) /\ Distinct(inbox[w]) /\ In(inbox[w]) \subseteq ToServer(w)
  BY MailIn DEF Serve, HasMsg
<1>2. /\ m \in Owned /\ m \in In(inbox[w]) /\ m \in ToServer(w)
      /\ In(inbox[w]) = In(inbox'[w]) \cup {m} /\ Slot(m) \notin Slots(inbox'[w])
  BY <1>1, TailLeaves
<1>3. /\ Owner(m) \in Client /\ ServerOf[Owner(m)] = w /\ m.cor \in CorId
      /\ Slot(m) = <<Owner(m), m.cor>>
  BY <1>2, OwnerIn DEF ToServer, Owned, Datagram, Slot
<1>4. IsCall(m) => m.cor \in Cors /\ Asked(Owner(m), m.cor) /\ ~Answered(Owner(m), m.cor)
  <2> SUFFICES ASSUME IsCall(m) PROVE m.cor \in Cors /\ Asked(Owner(m), m.cor) /\ ~Answered(Owner(m), m.cor)
    OBVIOUS
  <2>1. m.cor \in Cors
    BY <1>2 DEF ToServer, IsCall
  <2>2. Asked(Owner(m), m.cor)
    BY <1>2, <1>3 DEF Asked
  <2> QED BY <1>3, <2>1, <2>2 DEF CallInv
<1>5. CallsOf(m) \subseteq Client \X Cors
  BY <1>3, <1>4 DEF CallsOf
<1>6. gone' \subseteq Client \X Cors /\ gone \subseteq gone'
  BY <1>5 DEF Serve, FlowType
<1>7. polled' \in [Endpoint -> Nat] /\ held' \in [Endpoint -> Nat]
  BY <1>1, TakeEffect DEF Serve
<1>8. FlowType'
  BY <1>6, <1>7 DEF FlowType, Serve
<1>9. ASSUME NEW c \in Client, Waits(c)' PROVE Waits(c)
  <2>1. CASE ServerOf[c] = w
    BY <1>2, <1>9, <2>1 DEF Waits, Slots
  <2>2. CASE ServerOf[c] # w
    BY <1>9, <2>2 DEF Waits, Serve
  <2> QED BY <2>1, <2>2
<1> QED BY <1>2, <1>3, <1>4, <1>6, <1>8, <1>9

LEMMA ServeQueues ==
  ASSUME FlowType, QueueInv, CallInv, NEW w \in Worker, NEW m, Serve(w, m)
  PROVE  QueueInv'
<1> DEFINE d == Owner(m)
<1>0. /\ w \in Endpoint /\ w \notin Client /\ Take(w) /\ HasMsg(w)
      /\ \A f \in Endpoint \ {w} : polled'[f] = polled[f] /\ held'[f] = held[f]
      /\ polled'[w] <= Len(inbox[w]) - 1 /\ (polled'[w] = 0 => held'[w] = 0)
      /\ inbox[w] \in Seq(Owned) /\ inbox[w] # <<>>
  BY TakeEffect DEF Serve, Endpoint
<1> SUFFICES ASSUME NEW f \in Endpoint
             PROVE  /\ In(inbox'[f]) \subseteq Mail(f) /\ Distinct(inbox'[f])
                    /\ polled'[f] <= Len(inbox'[f])
                    /\ polled'[f] = 0 => held'[f] = 0
  BY DEF QueueInv
<1>1. CASE f = w
  <2>1. /\ inbox'[w] = Tail(inbox[w]) /\ Len(Tail(inbox[w])) = Len(inbox[w]) - 1
        /\ In(Tail(inbox[w])) \subseteq In(inbox[w])
        /\ Distinct(inbox[w]) => Distinct(Tail(inbox[w]))
    BY <1>0, TailLeaves DEF Serve
  <2>2. In(inbox[w]) \subseteq Mail(w) /\ Distinct(inbox[w])
    BY <1>0 DEF QueueInv
  <2> QED BY <1>0, <1>1, <2>1, <2>2
<1>2. CASE f # w /\ inbox'[f] = inbox[f]
  BY <1>0, <1>2 DEF QueueInv
<1>3. CASE f # w /\ inbox'[f] # inbox[f]
  <2>1. /\ f = d /\ d \in Client /\ IsCall(m)
        /\ \E r \in ToClient(d) : Slot(r) = Slot(m) /\ Joined(inbox[d], r, polled[d], inbox'[d])
    BY <1>3, ServeEffect DEF Serve, Endpoint
  <2>2. PICK r \in ToClient(d) : Slot(r) = Slot(m) /\ Joined(inbox[d], r, polled[d], inbox'[d])
    BY <2>1
  <2>3. In(inbox[d]) \subseteq ToClient(d) /\ Distinct(inbox[d]) /\ polled[d] <= Len(inbox[d])
        /\ Len(inbox[d]) \in Nat /\ polled[d] \in Nat /\ (polled[d] = 0 => held[d] = 0)
    BY <2>1, MailIn DEF QueueInv, FlowType
  <2>4. Slot(r) \notin Slots(inbox[d])
    <3>1. Slot(m) = <<d, m.cor>> /\ ~Answered(d, m.cor)
      BY <2>1, ServeEffect
    <3> QED BY <2>2, <3>1 DEF Slots, Answered
  <2>5. Len(inbox'[d]) = Len(inbox[d]) + 1 /\ In(inbox'[d]) = In(inbox[d]) \cup {r} /\ Distinct(inbox'[d])
    BY <2>2, <2>3, <2>4 DEF Joined
  <2>6. Mail(d) = ToClient(d)
    BY <2>1 DEF Mail
  <2>7. polled'[d] = polled[d] /\ held'[d] = held[d]
    BY <1>0, <1>3, <2>1
  <2> HIDE DEF d
  <2>8. In(inbox'[d]) \subseteq Mail(d) /\ polled[d] <= Len(inbox'[d])
    BY <2>3, <2>5, <2>6
  <2> QED BY <2>1, <2>3, <2>5, <2>7, <2>8
<1> QED BY <1>1, <1>2, <1>3

LEMMA ServeCalls ==
  ASSUME FlowType, QueueInv, CallInv, NEW w \in Worker, NEW m, Serve(w, m)
  PROVE  CallInv'
<1> DEFINE d == Owner(m)
<1>0. /\ d \in Client /\ Slot(m) = <<d, m.cor>> /\ ServerOf[d] = w /\ m \in In(inbox[w])
      /\ In(inbox[w]) = In(inbox'[w]) \cup {m} /\ Slot(m) \notin Slots(inbox'[w])
      /\ IsCall(m) => Asked(d, m.cor) /\ ~Answered(d, m.cor)
  BY ServeEffect
<1>a. CallsOf(m) = IF IsCall(m) THEN {<<d, m.cor>>} ELSE {}
  BY DEF CallsOf
<1> HIDE DEF d
<1> SUFFICES ASSUME NEW c \in Client, NEW j \in CorId
             PROVE  /\ station'[c][j].pending = 0 <=> ~Asked(c, j)' /\ ~Answered(c, j)' /\ ~Gone(c, j)'
                    /\ ~(Asked(c, j)' /\ Answered(c, j)') /\ ~(Asked(c, j)' /\ Gone(c, j)')
                    /\ ~(Answered(c, j)' /\ Gone(c, j)')
  BY DEF CallInv
<1> DEFINE it == IsCall(m) /\ c = d /\ j = m.cor
<1>1. /\ station[c][j].pending = 0 <=> ~Asked(c, j) /\ ~Answered(c, j) /\ ~Gone(c, j)
      /\ ~(Asked(c, j) /\ Answered(c, j)) /\ ~(Asked(c, j) /\ Gone(c, j))
      /\ ~(Answered(c, j) /\ Gone(c, j))
      /\ station'[c][j].pending = station[c][j].pending
  BY DEF CallInv, Serve
<1>2. Asked(c, j)' <=> Asked(c, j) /\ ~it
  <2>1. CASE ServerOf[c] # w
    <3>1. inbox'[ServerOf[c]] = inbox[ServerOf[c]] /\ c # d
      BY <1>0, <2>1 DEF Serve
    <3> QED BY <3>1 DEF Asked
  <2>2. CASE ServerOf[c] = w
    <3>1. ASSUME it PROVE ~Asked(c, j)'
      BY <1>0, <2>2, <3>1 DEF Asked, Slots
    <3>2. ASSUME ~it PROVE Asked(c, j)' <=> Asked(c, j)
      <4>1. ~(IsCall(m) /\ Slot(m) = <<c, j>>)
        BY <1>0, <3>2
      <4> QED BY <1>0, <2>2, <4>1 DEF Asked
    <3> QED BY <3>1, <3>2
  <2> QED BY <2>1, <2>2
<1>3. it => Asked(c, j)
  BY <1>0
<1>4. CASE (\A e \in Client : inbox'[e] = inbox[e]) /\ gone' = gone \cup CallsOf(m)
  <2>1. Answered(c, j)' <=> Answered(c, j)
    BY <1>4 DEF Answered
  <2>2. Gone(c, j)' <=> Gone(c, j) \/ it
    BY <1>4, <1>a DEF Gone
  <2> HIDE DEF it
  <2> QED BY <1>1, <1>2, <1>3, <2>1, <2>2
<1>5. CASE /\ IsCall(m) /\ gone' = gone
           /\ \A e \in Client \ {d} : inbox'[e] = inbox[e]
           /\ \E r \in ToClient(d) : Slot(r) = Slot(m) /\ Joined(inbox[d], r, polled[d], inbox'[d])
  <2>1. Gone(c, j)' <=> Gone(c, j)
    BY <1>5 DEF Gone
  <2>2. Answered(c, j)' <=> Answered(c, j) \/ it
    <3>1. CASE c # d
      BY <1>5, <3>1 DEF Answered
    <3>2. CASE c = d
      <4>1. PICK r : Slot(r) = Slot(m) /\ In(inbox'[d]) = In(inbox[d]) \cup {r}
        BY <1>5 DEF Joined
      <4>2. Slot(r) = <<c, j>> <=> it
        BY <1>0, <1>5, <3>2, <4>1
      <4> HIDE DEF it
      <4> QED BY <3>2, <4>1, <4>2 DEF Answered
    <3> QED BY <3>1, <3>2
  <2> HIDE DEF it
  <2> QED BY <1>1, <1>2, <1>3, <2>1, <2>2
<1> QED BY <1>4, <1>5 DEF Serve, d

LEMMA ServeThreads ==
  ASSUME FlowType, QueueInv, CallInv, ThreadInv, NEW w \in Worker, NEW m, Serve(w, m)
  PROVE  ThreadInv'
<1>1. \A d \in Client : In(inbox'[ServerOf[d]]) \subseteq In(inbox[ServerOf[d]])
  <2>1. In(inbox'[w]) \subseteq In(inbox[w])
    BY ServeEffect
  <2> QED BY <2>1 DEF Serve
<1> SUFFICES ASSUME NEW d \in Client
             PROVE  /\ ~Started(d)' => /\ \A j \in Cors : cpc'[d][j] = "spawned"
                                       /\ \A x \in In(inbox'[ServerOf[d]]) : Owner(x) # d
                    /\ \A j \in Cors : cpc'[d][j] = "spawned" => station'[d][j].pending = 0
                    /\ \A x \in In(inbox'[ServerOf[d]]) :
                         Owner(x) = d /\ x.type = "req" /\ ~IsCall(x) => tpc'[d] = "exit"
  BY DEF ThreadInv
<1>2. tpc' = tpc /\ cpc' = cpc /\ station' = station
  BY DEF Serve
<1> QED BY <1>1, <1>2 DEF ThreadInv, Started

LEMMA ServeConnects ==
  ASSUME FlowType, QueueInv, CallInv, ThreadInv, ConnectInv, NEW w \in Worker, NEW m, Serve(w, m)
  PROVE  ConnectInv'
<1>0. /\ m \in In(inbox[w]) /\ Slot(m) = <<Owner(m), m.cor>> /\ Owner(m) \in Client
      /\ ServerOf[Owner(m)] = w /\ Slot(m) \notin Slots(inbox'[w]) /\ m \in ToServer(w)
      /\ \A c \in Client : Waits(c)' => Waits(c)
  BY ServeEffect
<1> SUFFICES ASSUME NEW d \in Client
             PROVE  /\ Session(d)' = d => Started(d)'
                    /\ Waits(d)' => /\ tpc'[d] = "run" /\ Session(d)' # d /\ inbox'[d] = <<>>
                                    /\ ClientUp' => \A j \in Cors : \/ cpc'[d][j] = "spawned"
                                                                    \/ station'[d][j].pending = 1
  BY DEF ConnectInv
<1>1. tpc' = tpc /\ cpc' = cpc /\ station' = station /\ (Started(d)' <=> Started(d)) /\ (ClientUp' => ClientUp)
  BY DEF Serve, Started
<1>2. Session(d)' = d => Session(d) = d \/ (m.type = "connect" /\ d = Owner(m))
  BY DEF Serve
<1>3. Session(d)' = d => Started(d)
  <2>1. d = Owner(m) => Started(d)
    BY <1>0 DEF ThreadInv
  <2> QED BY <1>2, <2>1 DEF ConnectInv
<1>4. ASSUME Waits(d)'
      PROVE  Session(d)' # d /\ inbox'[d] = inbox[d] /\ Waits(d)
  <2>1. Waits(d)
    BY <1>0, <1>4
  <2>2. Session(d) # d
    BY <2>1 DEF ConnectInv
  <2>3. ~(m.type = "connect" /\ d = Owner(m))
    <3> SUFFICES ASSUME m.type = "connect", d = Owner(m) PROVE FALSE
      OBVIOUS
    <3>1. Slot(m) = <<d, 0>>
      BY <1>0 DEF ToServer
    <3> QED BY <1>0, <1>4, <3>1 DEF Waits
  <2>4. inbox'[d] = inbox[d]
    BY <2>2 DEF Serve
  <2> QED BY <1>2, <2>1, <2>2, <2>3, <2>4
<1> QED BY <1>1, <1>3, <1>4 DEF ConnectInv

LEMMA ServeHeld ==
  ASSUME FlowType, QueueInv, CallInv, ThreadInv, ConnectInv, HeldInv, NEW w \in Worker, NEW m, Serve(w, m)
  PROVE  HeldInv'
<1> DEFINE d == Owner(m)
           q == inbox[w]
<1>0. /\ d \in Client /\ Slot(m) = <<d, m.cor>> /\ m.cor \in CorId /\ ServerOf[d] = w
      /\ m \in In(q) /\ m \in ToServer(w)
      /\ Slot(m) \notin Slots(inbox'[w]) /\ FlowType' /\ gone \subseteq gone'
      /\ \A c \in Client : Waits(c)' => Waits(c)
  BY ServeEffect
<1>1. /\ w \in Endpoint /\ w \notin Client /\ q \in Seq(Owned) /\ q # <<>> /\ Distinct(q)
      /\ inbox'[w] = Tail(q) /\ m = q[1] /\ Len(q) \in Nat
      /\ \A p \in 1..(Len(q) - 1) : Tail(q)[p] = q[p + 1]
      /\ polled[w] \in Nat /\ polled[w] <= Len(q) /\ (polled[w] = 0 => held[w] = 0)
  <2>1. w \in Endpoint /\ w \notin Client /\ q \in Seq(Owned) /\ q # <<>> /\ Distinct(q)
    BY MailIn DEF Serve, HasMsg
  <2> QED BY <2>1, TailLeaves DEF Serve, FlowType, QueueInv
<1>2. /\ \A f \in Endpoint \ {w} : polled'[f] = polled[f] /\ held'[f] = held[f]
      /\ polled' \in [Endpoint -> Nat] /\ held' \in [Endpoint -> Nat]
      /\ polled'[w] <= Len(q) - 1 /\ (polled[w] # 0 => polled'[w] = polled[w] - 1)
      /\ held'[w] <= held[w] + 1 /\ (polled[w] = 0 => held'[w] <= 1)
  BY <1>1, TakeEffect DEF Serve
<1>3. \A c \in Client : Started(c)' <=> Started(c)
  BY DEF Serve, Started
<1>4. ASSUME NEW c \in Client PROVE held'[c] <= Cardinality(Idle(c)')
  <2>1. c \in Endpoint /\ c # w
    BY <1>1 DEF Endpoint
  <2>2. held'[c] = held[c] /\ station' = station
    BY <1>2, <2>1 DEF Serve
  <2> QED BY <2>2 DEF HeldInv, Idle
<1>5. ASSUME NEW v \in Worker, v # w PROVE held'[v] <= Cardinality(Refill(v)')
  <2>1. v \in Endpoint /\ inbox'[v] = inbox[v] /\ held[v] <= Cardinality(Refill(v))
    BY <1>5 DEF Serve, Endpoint, HeldInv
  <2>2. polled'[v] = polled[v] /\ held'[v] = held[v]
    BY <1>2, <1>5, <2>1
  <2>3. \A c \in Client : ServerOf[c] = v => (Waits(c)' <=> Waits(c))
    BY <2>1 DEF Waits
  <2> QED BY <1>0, <1>3, <2>1, <2>2, <2>3, RefillGrows
<1>6. Waits(d)' => Slot(m) \in gone'
  <2> SUFFICES ASSUME Waits(d)' PROVE Slot(m) \in gone'
    OBVIOUS
  <2>1. Waits(d)
    BY <1>0
  <2>2. Session(d) # d /\ tpc[d] # "exit"
    BY <1>0, <2>1 DEF ConnectInv
  <2>3. m.type # "connect"
    <3>1. m.type = "connect" => Slot(m) = <<d, 0>>
      BY <1>0 DEF ToServer
    <3> QED BY <1>0, <3>1 DEF Waits
  <2>4. m.type = "req"
    BY <1>0, <2>3 DEF ToServer, Owned, Datagram
  <2>5. IsCall(m)
    BY <1>0, <2>2, <2>4 DEF ThreadInv
  <2>6. gone' = gone \cup CallsOf(m)
    BY <2>2 DEF Serve
  <2> QED BY <1>0, <2>5, <2>6 DEF CallsOf
<1>7. Slot(m) \in Refill(w)'
  <2>1. Started(d)'
    BY <1>0, <1>3 DEF ThreadInv
  <2>2. ASSUME ~Waits(d)', NEW p \in 1..polled'[w] PROVE Slot(inbox'[w][p]) # Slot(m)
    <3>1. p \in 1..Len(inbox'[w])
      <4>1. Len(inbox'[w]) = Len(q) - 1
        BY <1>1
      <4> QED BY <1>1, <1>2, <4>1
    <3> QED BY <1>0, <3>1 DEF Slots, In
  <2> QED BY <1>0, <1>6, <2>1, <2>2 DEF Refill
<1>8. Refill(w)' \subseteq Client \X CorId /\ Refill(w) \subseteq Client \X CorId
  BY DEF Refill
<1>9. IsFiniteSet(Refill(w)') /\ IsFiniteSet(Refill(w))
  <2>1. IsFiniteSet(Client \X CorId)
    BY SlotSets, FS_Product
  <2> QED BY <1>8, <2>1, FS_Subset
<1>10. Cardinality(Refill(w)') \in Nat /\ Cardinality(Refill(w)) \in Nat
  BY <1>9, FS_CardinalityType
<1>11. CASE polled[w] = 0
  <2>1. Cardinality(Refill(w)') # 0
    BY <1>7, <1>9, FS_EmptySet
  <2> QED BY <1>1, <1>2, <1>4, <1>5, <1>10, <1>11, <2>1 DEF HeldInv
<1>12. CASE polled[w] # 0
  <2>1. Slot(m) \notin Refill(w)
    <3>1. CASE Waits(d)
      <4>1. Slot(m) \in Slots(q)
        BY <1>0 DEF Slots
      <4> QED BY <1>0, <3>1, <4>1, RefillOfWaiting
    <3>2. CASE ~Waits(d)
      <4>1. 1 \in 1..polled[w]
        BY <1>1, <1>12
      <4> QED BY <1>0, <1>1, <3>2, <4>1 DEF Refill
    <3> QED BY <3>1, <3>2
  <2>2. Refill(w) \subseteq Refill(w)'
    <3> SUFFICES ASSUME NEW c \in Client, NEW j \in CorId, <<c, j>> \in Refill(w)
                 PROVE  <<c, j>> \in Refill(w)'
      BY <1>8
    <3>1. ServerOf[c] = w /\ Started(c)'
      BY <1>3 DEF Refill
    <3>2. CASE Waits(c)'
      <4>1. <<c, j>> \in gone
        BY <1>0, <3>2 DEF Refill
      <4> QED BY <1>0, <3>1, <3>2, <4>1 DEF Refill
    <3>3. CASE ~Waits(c)'
      <4>1. ASSUME NEW p \in 1..polled'[w] PROVE Slot(inbox'[w][p]) # <<c, j>>
        <5>1. p + 1 \in 1..polled[w] /\ p \in 1..(Len(q) - 1) /\ p + 1 \in 1..Len(q)
          BY <1>1, <1>2, <1>12, SMTT(30)
        <5>2. inbox'[w][p] = q[p + 1]
          BY <1>1, <5>1
        <5>3. CASE Waits(c)
          <6>1. <<c, j>> \notin Slots(q)
            BY <3>1, <5>3, RefillOfWaiting
          <6> QED BY <5>1, <5>2, <6>1 DEF Slots, In
        <5>4. CASE ~Waits(c)
          BY <5>1, <5>2, <5>4 DEF Refill
        <5> QED BY <5>3, <5>4
      <4> QED BY <3>1, <3>3, <4>1 DEF Refill
    <3> QED BY <3>2, <3>3
  <2>3. Cardinality(Refill(w) \cup {Slot(m)}) = Cardinality(Refill(w)) + 1
    BY <1>9, <2>1, FS_AddElement
  <2>4. Cardinality(Refill(w) \cup {Slot(m)}) <= Cardinality(Refill(w)')
    <3>1. Refill(w) \cup {Slot(m)} \subseteq Refill(w)'
      BY <1>7, <2>2
    <3> QED BY <1>9, <3>1, FS_Subset
  <2>5. held[w] <= Cardinality(Refill(w)) /\ held[w] \in Nat /\ held'[w] \in Nat
    BY <1>1, <1>2 DEF HeldInv, FlowType
  <2>6. held'[w] <= Cardinality(Refill(w)')
    BY <1>2, <1>10, <2>3, <2>4, <2>5
  <2> QED BY <1>4, <1>5, <2>6 DEF HeldInv
<1> QED BY <1>11, <1>12

LEMMA ServeKeeps ==
  ASSUME FlowInv, NoOverflow, NEW w \in Worker, NEW m, Serve(w, m),
         \A e \in overflowed' \ overflowed : ~Fits(e)
  PROVE  FlowInv' /\ NoOverflow'
<1>1. FlowType'
  BY ServeEffect DEF FlowInv
<1>2. QueueInv' /\ CallInv' /\ ThreadInv' /\ ConnectInv' /\ HeldInv'
  BY ServeQueues, ServeCalls, ServeThreads, ServeConnects, ServeHeld DEF FlowInv
<1>3. NoOverflow'
  BY DEF NoOverflow, Fits
<1> QED BY <1>1, <1>2, <1>3 DEF FlowInv

\* What every handler of a server thread finds.
LEMMA AtHead ==
  ASSUME FlowInv, NEW w \in Worker, HasMsg(w), Take(w)
  PROVE  /\ Head(inbox[w]) \in ToServer(w) /\ Head(inbox[w]) \in Owned /\ Head(inbox[w]).sid \in Sid
         /\ Owner(Head(inbox[w])) \in Client /\ SessionId[Owner(Head(inbox[w]))] = Head(inbox[w]).sid
         /\ ServerOf[Owner(Head(inbox[w]))] = w
         /\ Taken(w) \in Boxes /\ Taken(w)[w] = Tail(inbox[w])
         /\ \A e \in Endpoint \ {w} : Taken(w)[e] = inbox[e]
         /\ \A v \in Worker \ {w} : Taken(w)[v] = inbox[v]
         /\ \A c \in Client : Taken(w)[c] = inbox[c] /\ polled'[c] = polled[c] /\ held'[c] = held[c]
         /\ polled' \in [Endpoint -> Nat]
<1>1. FlowType /\ QueueInv /\ w \in Endpoint /\ w \notin Client
  BY DEF FlowInv, Endpoint
<1>2. inbox[w] \in Seq(Owned) /\ inbox[w] # <<>> /\ In(inbox[w]) \subseteq ToServer(w)
  BY <1>1, MailIn DEF HasMsg
<1>3. Head(inbox[w]) \in In(inbox[w]) /\ Head(inbox[w]) \in Owned
  BY <1>2, TailLeaves
<1>4. Head(inbox[w]) \in ToServer(w)
  BY <1>2, <1>3
<1>5. /\ Taken(w) \in Boxes /\ Taken(w)[w] = Tail(inbox[w])
      /\ \A f \in Endpoint \ {w} : Taken(w)[f] = inbox[f] /\ polled'[f] = polled[f] /\ held'[f] = held[f]
      /\ polled' \in [Endpoint -> Nat]
  BY <1>1, TakeEffect
<1>6. \A c \in Client : c \in Endpoint \ {w}
  BY <1>1 DEF Endpoint
<1>7. \A v \in Worker \ {w} : v \in Endpoint \ {w}
  BY DEF Endpoint
<1>8. ServerOf[Owner(Head(inbox[w]))] = w
  BY <1>4 DEF ToServer
<1>9. Head(inbox[w]).sid \in Sid
  BY <1>3 DEF Owned, Datagram
<1> QED BY <1>3, <1>4, <1>5, <1>6, <1>7, <1>8, <1>9, OwnerIn

LEMMA ConnectServed ==
  ASSUME FlowInv, NoOverflow, WireInv, NEW w \in Worker, RecvConnect(w), UNCHANGED <<tpc, cpc>>
  PROVE  FlowInv' /\ NoOverflow'
<1> DEFINE m == Head(inbox[w])
<1>1. HasMsg(w) /\ Take(w) /\ m.type = "connect" /\ AddNewSession(w, m) /\ inbox' = Taken(w)
      /\ UNCHANGED <<station, gone, overflowed, crashed>>
  BY DEF RecvConnect
<1>2. /\ m \in ToServer(w) /\ m \in Owned /\ m.sid \in Sid /\ Owner(m) \in Client
      /\ SessionId[Owner(m)] = m.sid
      /\ Taken(w) \in Boxes /\ Taken(w)[w] = Tail(inbox[w])
      /\ \A v \in Worker \ {w} : Taken(w)[v] = inbox[v]
      /\ \A c \in Client : Taken(w)[c] = inbox[c]
  BY <1>1, AtHead
<1>3. CallsOf(m) = {}
  BY <1>1 DEF CallsOf, IsCall
<1>4. ASSUME NEW c \in Client, Session(c)' = c, c # Owner(m) PROVE Session(c) = c
  <2>1. SessionId[c] # m.sid /\ SessionId[c] \in Sid /\ ServerOf[c] \in Worker
    BY <1>2, <1>4, UniqueSessionIds DEF Sid
  <2>2. sessions'[ServerOf[c]][SessionId[c]] = sessions[ServerOf[c]][SessionId[c]]
    BY <1>1, <1>2, <2>1 DEF AddNewSession, WireInv
  <2> QED BY <1>4, <2>2 DEF Session
<1>5. ClientUp' => ClientUp
  BY <1>1 DEF ClientUp
<1> HIDE DEF m
<1>6. Serve(w, m)
  BY <1>1, <1>2, <1>3, <1>4, <1>5 DEF Serve, m
<1> QED BY <1>1, <1>6, ServeKeeps

LEMMA LookupAddsNone ==
  ASSUME WireInv, NEW w \in Worker, NEW m \in Owned, LookupSession(w, m), NEW c \in Client,
         Session(c)' = c
  PROVE  Session(c) = c
<1>1. m.sid \in Sid /\ SessionId[c] \in Sid /\ ServerOf[c] \in Worker /\ NoChannel # c
  BY ChannelAssumption DEF Owned, Datagram, Sid
<1>2. sessions \in [Worker -> [Sid -> Client \cup {NoChannel, NoSession}]]
  BY DEF WireInv
<1>3. \/ sessions'[ServerOf[c]][SessionId[c]] = sessions[ServerOf[c]][SessionId[c]]
      \/ sessions'[ServerOf[c]][SessionId[c]] = NoChannel
  BY <1>1, <1>2 DEF LookupSession
<1> QED BY <1>1, <1>3 DEF Session

LEMMA CastServed ==
  ASSUME FlowInv, NoOverflow, WireInv, NEW w \in Worker, HasMsg(w), RecvCast(w),
         ~IsCall(Head(inbox[w])), UNCHANGED <<tpc, cpc>>
  PROVE  FlowInv' /\ NoOverflow'
<1> DEFINE m == Head(inbox[w])
<1>1. Take(w) /\ LookupSession(w, m) /\ inbox' = Taken(w)
      /\ UNCHANGED <<station, gone, overflowed, crashed>>
  BY DEF RecvCast
<1>2. /\ m \in Owned /\ Taken(w) \in Boxes /\ Taken(w)[w] = Tail(inbox[w])
      /\ \A v \in Worker \ {w} : Taken(w)[v] = inbox[v]
      /\ \A c \in Client : Taken(w)[c] = inbox[c]
  BY <1>1, AtHead
<1>3. CallsOf(m) = {}
  BY DEF CallsOf
<1>4. \A c \in Client : Session(c)' = c => Session(c) = c
  BY <1>1, <1>2, LookupAddsNone
<1>5. ClientUp' => ClientUp
  BY <1>1 DEF ClientUp
<1> HIDE DEF m
<1>6. Serve(w, m)
  BY <1>1, <1>2, <1>3, <1>4, <1>5 DEF Serve, m
<1> QED BY <1>1, <1>6, ServeKeeps

LEMMA CallServed ==
  ASSUME FlowInv, NoOverflow, WireInv, NEW w \in Worker, HasMsg(w), RecvReq(w, Result),
         IsCall(Head(inbox[w])), Head(inbox[w]).type = "req", UNCHANGED <<tpc, cpc>>
  PROVE  FlowInv' /\ NoOverflow'
<1> DEFINE m == Head(inbox[w])
           d == Owner(m)
           ch == ReplyChannel(w, m)
           r == Reply(m, Result)
<1>1. Take(w) /\ LookupSession(w, m) /\ ReplyTo(w, m, Result) /\ UNCHANGED station
  BY DEF RecvReq
<1>2. /\ m \in Owned /\ m.sid \in Sid /\ d \in Client /\ SessionId[d] = m.sid /\ ServerOf[d] = w
      /\ m \in ToServer(w)
      /\ Taken(w) \in Boxes /\ Taken(w)[w] = Tail(inbox[w])
      /\ \A v \in Worker \ {w} : Taken(w)[v] = inbox[v]
      /\ \A c \in Client : Taken(w)[c] = inbox[c] /\ polled'[c] = polled[c] /\ held'[c] = held[c]
      /\ polled' \in [Endpoint -> Nat]
  BY <1>1, AtHead
<1>3. \A c \in Client : Session(c)' = c => Session(c) = c
  BY <1>1, <1>2, LookupAddsNone
<1>4. m.cor \in Cors /\ CallsOf(m) = {<<d, m.cor>>}
  BY <1>2 DEF ToServer, CallsOf
<1>5. CASE ch = NoChannel
  <2>1. crashed' = crashed \cup {w} /\ inbox' = Taken(w) /\ gone' = gone \cup CallsOf(m) /\ UNCHANGED overflowed
    BY <1>1, <1>5 DEF ReplyTo
  <2>2. ClientUp' => ClientUp
    BY <2>1 DEF ClientUp
  <2> HIDE DEF m
  <2>3. Serve(w, m)
    BY <1>1, <1>2, <1>3, <2>1, <2>2 DEF Serve, m
  <2> QED BY <2>1, <2>3, ServeKeeps
<1>6. CASE ch # NoChannel
  <2>1. Send(ch, r, Taken(w), HeldAfter(w), PolledAfter(w)) /\ UNCHANGED crashed
    BY <1>1, <1>6 DEF ReplyTo
  <2>2. ch = d /\ Session(d) = d
    <3>1. sessions[w][m.sid] \in {d, NoChannel, NoSession}
      BY <1>2 DEF WireInv, SessionIsCurrent
    <3>2. ch = sessions[w][m.sid] /\ ch = d
      BY <1>6, <3>1 DEF ReplyChannel
    <3> QED BY <1>2, <3>2 DEF Session
  <2>3. r \in Owned /\ r.type = "reply" /\ r.sid = m.sid /\ r.cor = m.cor
    <3>1. Result \in Payload
      BY WordAssumption DEF Result, Payload
    <3>2. r \in Owned
      BY <1>2, <3>1, ReplyOwned
    <3> QED BY <3>2 DEF Reply
  <2> HIDE DEF r, ch, d, m
  <2>4. Owner(r) = d /\ r \in ToClient(d) /\ Slot(r) = Slot(m)
    <3>1. Owner(r) = d
      BY <1>2, <2>3, OwnerOf
    <3> QED BY <1>4, <2>3, <3>1 DEF ToClient, Slot, d
  <2>5. CallsOf(r) = CallsOf(m)
    BY <1>4, <2>3, <2>4 DEF CallsOf, IsCall
  <2>6. d \in Endpoint /\ d # w /\ PolledAfter(w) = polled' /\ HeldAfter(w) = held'
    BY <1>1, <1>2 DEF Endpoint, Take
  <2>7. polled'[d] <= Len(Taken(w)[d])
    BY <1>2, <2>6 DEF FlowInv, QueueInv
  <2>8. /\ \/ overflowed' = overflowed
           \/ ~HasRoom(d, Taken(w), held') /\ overflowed' = overflowed \cup {d}
        /\ \/ /\ \E q2 : inbox' = [Taken(w) EXCEPT ![d] = q2] /\ Joined(Taken(w)[d], r, polled'[d], q2)
              /\ gone' = gone
           \/ inbox' = Taken(w) /\ gone' = gone \cup CallsOf(r)
    <3>1. polled' \in [Endpoint -> Nat] /\ Taken(w) \in Boxes /\ Send(d, r, Taken(w), held', polled')
      BY <1>2, <2>1, <2>2, <2>6
    <3> HIDE DEF Taken
    <3> QED BY <2>3, <2>6, <2>7, <3>1, Delivery
  <2>9. ClientUp' => ClientUp
    BY <2>1 DEF ClientUp
  <2>10. Serve(w, m)
    <3>1. CASE inbox' = Taken(w) /\ gone' = gone \cup CallsOf(r)
      BY <1>1, <1>2, <1>3, <2>5, <2>9, <3>1 DEF Serve, m
    <3>2. CASE /\ \E q2 : inbox' = [Taken(w) EXCEPT ![d] = q2] /\ Joined(Taken(w)[d], r, polled'[d], q2)
               /\ gone' = gone
      <4>1. PICK q2 : inbox' = [Taken(w) EXCEPT ![d] = q2] /\ Joined(inbox[d], r, polled[d], q2)
        BY <1>2, <3>2
      <4>2. q2 \in Seq(Owned)
        BY <4>1 DEF Joined
      <4>3. /\ inbox' \in Boxes /\ inbox'[d] = q2
            /\ \A e \in Endpoint \ {d} : inbox'[e] = Taken(w)[e]
        BY <1>2, <2>6, <4>1, <4>2 DEF Boxes
      <4>4. /\ inbox'[w] = Tail(inbox[w]) /\ \A v \in Worker \ {w} : inbox'[v] = inbox[v]
            /\ \A c \in Client \ {d} : inbox'[c] = inbox[c]
        <5>1. \A v \in Worker : v \in Endpoint \ {d}
          BY <1>2 DEF Endpoint
        <5>2. \A c \in Client \ {d} : c \in Endpoint \ {d}
          BY DEF Endpoint
        <5> QED BY <1>2, <4>3, <5>1, <5>2
      <4>5. \E x \in ToClient(d) : Slot(x) = Slot(m) /\ Joined(inbox[d], x, polled[d], inbox'[d])
        BY <2>4, <4>1, <4>3
      <4> QED BY <1>1, <1>2, <1>3, <2>2, <2>9, <3>2, <4>3, <4>4, <4>5 DEF Serve, m, d
    <3> QED BY <2>8, <3>1, <3>2
  <2>11. \A e \in overflowed' \ overflowed : ~Fits(e)
    <3>1. Asked(d, m.cor)
      BY <2>10, ServeEffect DEF FlowInv, d, m
    <3>2. Fits(d) => HasRoom(d, inbox, held)
      BY <1>2, <1>4, <3>1, ClientRoom DEF FlowInv
    <3>3. HasRoom(d, inbox, held) <=> HasRoom(d, Taken(w), held')
      BY <1>2 DEF HasRoom
    <3> QED BY <2>8, <3>2, <3>3
  <2> QED BY <2>10, <2>11, ServeKeeps
<1> QED BY <1>5, <1>6

LEMMA ServerFlows ==
  ASSUME FlowInv, NoOverflow, WireInv, NEW w \in Worker, WorkerStart(w) \/ WorkerRecv(w) \/ WorkerExit(w)
  PROVE  FlowInv' /\ NoOverflow'
<1> DEFINE m == Head(inbox[w])
<1>1. CASE WorkerStart(w) \/ WorkerExit(w)
  <2>1. UNCHANGED <<inbox, polled, held, sessions, station, gone, overflowed, crashed, tpc, cpc>>
    BY <1>1 DEF WorkerStart, WorkerExit, rpcVars
  <2>2. ClientUp' <=> ClientUp
    BY <2>1 DEF ClientUp
  <2>3. /\ tpc' \in [Client -> {"init", "run", "exit", "refused"}]
        /\ cpc' \in [Client -> [Cors -> {"spawned", "wait", "done"}]]
    BY <2>1 DEF FlowInv, FlowType
  <2> QED BY <2>1, <2>2, <2>3, QuietKeeps
<1>2. CASE WorkerRecv(w)
  <2>1. HasMsg(w) /\ UNCHANGED <<tpc, cpc>>
    BY <1>2 DEF WorkerRecv
  <2>2. CASE RecvConnect(w)
    BY <2>1, <2>2, ConnectServed
  <2>3. CASE m.type = "req" /\ m.rpc = Echo /\ RecvReq(w, Result)
    <3>1. IsCall(m)
      BY <2>3, CastsAssumption DEF IsCall, Echo, Stop
    <3> QED BY <2>1, <2>3, <3>1, CallServed
  <2>4. CASE m.type = "req" /\ m.rpc = Stop /\ RecvCast(w)
    <3>1. ~IsCall(m)
      BY <2>4, CastsAssumption DEF IsCall
    <3> QED BY <2>1, <2>4, <3>1, CastServed
  <2> QED BY <1>2, <2>2, <2>3, <2>4 DEF WorkerRecv
<1> QED BY <1>1, <1>2

LEMMA FlowInit == Init => FlowInv /\ NoOverflow
<1> SUFFICES ASSUME Init PROVE FlowInv /\ NoOverflow
  OBVIOUS
<1>1. /\ \A e \in Endpoint : inbox[e] = <<>> /\ polled[e] = 0 /\ held[e] = 0
      /\ \A w \in Worker, s \in Sid : sessions[w][s] = NoSession
      /\ \A c \in Client, i \in CorId : station[c][i].pending = 0
      /\ gone = {} /\ overflowed = {}
      /\ \A c \in Client : tpc[c] = "init" /\ \A i \in Cors : cpc[c][i] = "spawned"
  BY DEF Init, RPCInit
<1>2. FlowType
  BY DEF Init, RPCInit, FlowType, Boxes, Payload
<1>3. In(<<>>) = {} /\ Distinct(<<>>) /\ Len(<<>>) = 0
  BY DEF In, Distinct
<1>4. QueueInv
  BY <1>1, <1>3 DEF QueueInv
<1>5. \A c \in Client : ServerOf[c] \in Endpoint /\ ServerOf[c] \in Worker /\ c \in Endpoint
  BY DEF Endpoint
<1>6. \A c \in Client, i \in CorId : ~Asked(c, i) /\ ~Answered(c, i) /\ ~Gone(c, i)
  BY <1>1, <1>3, <1>5 DEF Asked, Answered, Gone
<1>7. CallInv
  BY <1>1, <1>6 DEF CallInv
<1>8. ThreadInv
  <2>1. Cors \subseteq CorId
    BY SlotSets
  <2> QED BY <1>1, <1>3, <1>5, <2>1 DEF ThreadInv
<1>9. \A c \in Client : ~Waits(c) /\ Session(c) # c
  <2> SUFFICES ASSUME NEW c \in Client PROVE ~Waits(c) /\ Session(c) # c
    OBVIOUS
  <2>1. ~Waits(c)
    BY <1>1, <1>3, <1>5 DEF Waits, Slots
  <2>2. Session(c) = NoSession /\ NoSession # c
    BY <1>1, <1>5, ChannelAssumption DEF Session, Sid
  <2> QED BY <2>1, <2>2
<1>10. ConnectInv
  BY <1>9 DEF ConnectInv
<1>11. HeldInv
  <2>1. ASSUME NEW c \in Client PROVE held[c] <= Cardinality(Idle(c))
    <3>1. Idle(c) \subseteq Cors
      BY DEF Idle
    <3>2. IsFiniteSet(Idle(c))
      BY <3>1, SlotSets, FS_Subset
    <3>3. Cardinality(Idle(c)) \in Nat
      BY <3>2, FS_CardinalityType
    <3> QED BY <1>1, <1>5, <3>3
  <2>2. ASSUME NEW w \in Worker PROVE held[w] <= Cardinality(Refill(w))
    <3>1. IsFiniteSet(Client \X CorId) /\ Refill(w) \subseteq Client \X CorId
      BY SlotSets, FS_Product DEF Refill
    <3>2. IsFiniteSet(Refill(w))
      BY <3>1, FS_Subset
    <3>3. Cardinality(Refill(w)) \in Nat
      BY <3>2, FS_CardinalityType
    <3>4. held[w] = 0
      BY <1>1 DEF Endpoint
    <3> QED BY <3>3, <3>4
  <2> QED BY <2>1, <2>2 DEF HeldInv
<1>12. NoOverflow
  BY <1>1 DEF NoOverflow
<1> QED BY <1>2, <1>4, <1>7, <1>8, <1>10, <1>11, <1>12 DEF FlowInv

LEMMA FlowStep == FlowInv /\ NoOverflow /\ WireInv /\ [Next]_vars => FlowInv' /\ NoOverflow'
<1> SUFFICES ASSUME FlowInv, NoOverflow, WireInv, [Next]_vars PROVE FlowInv' /\ NoOverflow'
  OBVIOUS
<1>1. CASE UNCHANGED vars
  <2>1. UNCHANGED <<inbox, polled, held, sessions, station, gone, overflowed, crashed, tpc, cpc>>
    BY <1>1 DEF vars, rpcVars, benchVars
  <2>2. ClientUp' <=> ClientUp
    BY <2>1 DEF ClientUp
  <2>3. /\ tpc' \in [Client -> {"init", "run", "exit", "refused"}]
        /\ cpc' \in [Client -> [Cors -> {"spawned", "wait", "done"}]]
    BY <2>1 DEF FlowInv, FlowType
  <2> QED BY <2>1, <2>2, <2>3, QuietKeeps
<1>2. CASE ServerNext
  BY <1>2, ServerFlows DEF ServerNext
<1>3. CASE ClientNext
  BY <1>3, StartFlows, PollFlows, CoroutineFlows DEF ClientNext, ThreadNext
<1> QED BY <1>1, <1>2, <1>3 DEF Next

-----------------------------------------------------------------------------
\* A call never finds two datagrams of its coroutine on the wire, nor a reply its
\* coroutine ready, whatever the network loses or reorders (mod.hh:86, op.hh:62).
THEOREM CallsAreSingle == Spec => []OneInFlight
<1>1. FlowInv => OneInFlight
  <2> SUFFICES ASSUME FlowInv, NEW c \in Client, NEW i \in CorId
               PROVE  station[c][i].pending = InFlight(c, i) + (IF <<c, i>> \in gone THEN 1 ELSE 0)
    BY DEF OneInFlight
  <2> DEFINE Positions(q) == {p \in 1..Len(q) : <<c, i>> \in CallsOf(q[p])}
  <2>0. ServerOf[c] \in Worker
    OBVIOUS
  <2>1. ASSUME NEW q \in Seq(Owned), Distinct(q)
        PROVE  Cardinality(Positions(q)) = IF \E m \in In(q) : IsCall(m) /\ Slot(m) = <<c, i>> THEN 1 ELSE 0
    <3>1. \A p \in 1..Len(q) : p \in Positions(q) <=> IsCall(q[p]) /\ Slot(q[p]) = <<c, i>>
      BY DEF CallsOf, Slot
    <3>2. CASE \E m \in In(q) : IsCall(m) /\ Slot(m) = <<c, i>>
      <4>1. PICK p \in 1..Len(q) : IsCall(q[p]) /\ Slot(q[p]) = <<c, i>>
        BY <3>2 DEF In
      <4>2. \A r \in 1..Len(q) : r \in Positions(q) <=> r = p
        BY <2>1, <3>1, <4>1 DEF Distinct
      <4>3. Positions(q) = {p}
        BY <4>2
      <4> QED BY <3>2, <4>3, FS_Singleton
    <3>3. CASE ~\E m \in In(q) : IsCall(m) /\ Slot(m) = <<c, i>>
      <4>1. \A p \in 1..Len(q) : p \notin Positions(q)
        BY <3>1, <3>3 DEF In
      <4>2. Positions(q) = {}
        BY <4>1
      <4> QED BY <3>3, <4>2, FS_EmptySet
    <3> QED BY <3>2, <3>3
  <2>2. /\ inbox[ServerOf[c]] \in Seq(Owned) /\ Distinct(inbox[ServerOf[c]])
        /\ inbox[c] \in Seq(Owned) /\ Distinct(inbox[c]) /\ In(inbox[c]) \subseteq ToClient(c)
    BY <2>0, MailIn DEF FlowInv
  <2>3. InFlight(c, i) = Cardinality(Positions(inbox[ServerOf[c]])) + Cardinality(Positions(inbox[c]))
    BY DEF InFlight, CountIn
  <2>4. Cardinality(Positions(inbox[ServerOf[c]])) = IF Asked(c, i) THEN 1 ELSE 0
    BY <2>1, <2>2 DEF Asked
  <2>5. Cardinality(Positions(inbox[c])) = IF Answered(c, i) THEN 1 ELSE 0
    <3>1. \A m \in In(inbox[c]) : IsCall(m)
      BY <2>2 DEF ToClient, IsCall
    <3> QED BY <2>1, <2>2, <3>1 DEF Answered
  <2>6. station[c][i].pending \in 0..1
    BY DEF FlowInv, FlowType
  <2>7. /\ station[c][i].pending = 0 <=> ~Asked(c, i) /\ ~Answered(c, i) /\ ~Gone(c, i)
        /\ ~(Asked(c, i) /\ Answered(c, i)) /\ ~(Asked(c, i) /\ Gone(c, i))
        /\ ~(Answered(c, i) /\ Gone(c, i))
    BY DEF FlowInv, CallInv
  <2> HIDE DEF Positions
  <2> QED BY <2>3, <2>4, <2>5, <2>6, <2>7 DEF Gone
<1> QED BY InitWire, WireStep, FlowInit, FlowStep, <1>1, PTL DEF Spec

\* An endpoint with the receives that Fits counts never drops a datagram (mod.hh:61).
THEOREM ReceivesSuffice == Spec => []NoOverflow
  BY InitWire, WireStep, FlowInit, FlowStep, PTL DEF Spec

=============================================================================
