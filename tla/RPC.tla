--------------------------------- MODULE RPC ---------------------------------
(***************************************************************************)
(* The RPC layer of src/xcomm/src/rpc over the unreliable-datagram         *)
(* transport of src/xcomm/src/transport/rdma_ud_t.hh: requests, replies    *)
(* and Connect messages, the table of sessions of a server thread, and the *)
(* reply station of a client thread.  The module defines the handlers;     *)
(* RPCBench and Service compose them with the programs that call them.     *)
(*                                                                         *)
(* One endpoint is one UD queue pair.  A datagram that arrives takes a     *)
(* posted receive; a poll returns all the datagrams that have arrived, and *)
(* their receives are posted again only after the last one is handled.     *)
(***************************************************************************)
EXTENDS Integers, Sequences, FiniteSets

CONSTANTS
  Client,       \* queue pairs of the client threads
  Worker,       \* queue pairs of the server threads, registered as "b<thread_id>"
  ServerOf,     \* the worker a client thread connects to
  SessionId,    \* the id a client thread puts on its datagrams
  Coros,        \* coroutines per client thread; their ids are 1..Coros, 0 is the main routine
  StationSize,  \* RPCCore rpc(12)
  RecvDepth,    \* receives posted at each endpoint (2048 in the code)
  Casts,        \* the rpc ids whose callback does not reply
  MaxFaults,    \* bound on the datagrams the network loses or delays
  Word          \* what fills one word of a payload

ASSUME RPCAssumption ==
  /\ IsFiniteSet(Client) /\ ServerOf \in [Client -> Worker]
  /\ Client \cap Worker = {}
  /\ Coros \in Nat \ {0} /\ StationSize \in Nat /\ RecvDepth \in [Client \cup Worker -> Nat \ {0}] /\ MaxFaults \in Nat

\* Flag client_name is documented as unique, so no two client threads share an id.
ASSUME UniqueSessionIds == \A c, d \in Client : SessionId[c] = SessionId[d] => c = d

Endpoint == Client \cup Worker
Sid == {SessionId[c] : c \in Client}
CorId == 0..Coros

NoChannel == "null"     \* an entry of incoming_sesions that holds no transport
NoSession == "absent"   \* no entry

ASSUME ChannelAssumption == {NoChannel, NoSession} \cap Client = {}

Payload == Seq(Word)

\* A datagram: the session id of its sender (the immediate data), the RPC header, the
\* payload, and in a Connect the client's queue pair.
Datagram == [type : {"req", "reply", "connect"}, sid : Sid, rpc : 0..1, cor : CorId,
             body : Payload, qp : Client \cup {NoChannel}]

\* Faulty variant: every Connect names the queue pair of the same thread.
Connect_Shared(c) ==
  [type |-> "connect", sid |-> SessionId[c], rpc |-> 0, cor |-> 0, body |-> <<>>,
   qp |-> CHOOSE d \in Client : TRUE]

Connect(c) == [type |-> "connect", sid |-> SessionId[c], rpc |-> 0, cor |-> 0, body |-> <<>>, qp |-> c]
Req(c, i, id, args) ==
  [type |-> "req", sid |-> SessionId[c], rpc |-> id, cor |-> i, body |-> args, qp |-> NoChannel]

\* The header of a reply carries the coroutine's id and nothing else of the request.
Reply(m, val) ==
  [type |-> "reply", sid |-> m.sid, rpc |-> 0, cor |-> m.cor, body |-> val, qp |-> NoChannel]

VARIABLES
  inbox,      \* inbox[e]: datagrams that arrived at e and are not handled yet
  polled,     \* polled[e]: how many of them the current poll of e has returned
  held,       \* held[e]: receives handled in this poll and not posted again
  sessions,   \* sessions[w]: incoming_sesions, session id -> the client's queue pair
  station,    \* station[c][i]: the ReplyEntry of coroutine i
  faults,     \* faults so far
  unlinked,   \* clients whose Connect was lost or overtaken
  gone,       \* calls <<c, i>> one of whose datagrams never arrived
  overflowed, \* endpoints at which a datagram found no posted receive
  crashed     \* endpoints whose thread failed an assertion or used a null channel

rpcVars == <<inbox, polled, held, sessions, station, faults, unlinked, gone, overflowed, crashed>>

RPCTypeOK ==
  /\ inbox \in [Endpoint -> Seq(Datagram)]
  /\ polled \in [Endpoint -> Nat] /\ held \in [Endpoint -> Nat]
  /\ \A e \in Endpoint : polled[e] <= Len(inbox[e])
  /\ sessions \in [Worker -> [Sid -> Client \cup {NoChannel, NoSession}]]
  /\ station \in [Client -> [CorId -> [pending : 0..1, buf : Payload]]]
  /\ faults \in 0..MaxFaults
  /\ unlinked \subseteq Client /\ gone \subseteq Client \X CorId
  /\ overflowed \subseteq Endpoint /\ crashed \subseteq Endpoint

RPCInit ==
  /\ inbox = [e \in Endpoint |-> <<>>]
  /\ polled = [e \in Endpoint |-> 0]
  /\ held = [e \in Endpoint |-> 0]
  /\ sessions = [w \in Worker |-> [s \in Sid |-> NoSession]]
  /\ station = [c \in Client |-> [i \in CorId |-> [pending |-> 0, buf |-> <<>>]]]
  /\ faults = 0
  /\ unlinked = {} /\ gone = {} /\ overflowed = {} /\ crashed = {}

-----------------------------------------------------------------------------
(* The wire. *)

\* The client a datagram belongs to, whichever way it travels.
Owner(m) == CHOOSE c \in Client : SessionId[c] = m.sid

\* A request that expects a reply, or a reply, and its call.
IsCall(m) == m.type = "reply" \/ (m.type = "req" /\ m.rpc \notin Casts)
CallsOf(m) == IF IsCall(m) THEN {<<Owner(m), m.cor>>} ELSE {}

MarkUndelivered(m) ==
  /\ unlinked' = unlinked \cup (IF m.type = "connect" THEN {Owner(m)} ELSE {})
  /\ gone' = gone \cup CallsOf(m)

HasRoom(e, box, hld) == Len(box[e]) + hld[e] < RecvDepth[e]

\* Datagram m travels to endpoint e, whose queue is box[e] when it gets there: it
\* arrives, is lost, finds no posted receive, or overtakes the datagram before it
\* (which then arrives after it, and is not yet polled).
Send(e, m, box, hld, pol) ==
  \/ /\ HasRoom(e, box, hld)
     /\ inbox' = [box EXCEPT ![e] = Append(@, m)]
     /\ UNCHANGED <<faults, unlinked, gone, overflowed>>
  \/ /\ ~HasRoom(e, box, hld)
     /\ inbox' = box
     /\ overflowed' = overflowed \cup {e}
     /\ MarkUndelivered(m)
     /\ UNCHANGED faults
  \/ /\ faults < MaxFaults
     /\ faults' = faults + 1
     /\ inbox' = box
     /\ MarkUndelivered(m)
     /\ UNCHANGED overflowed
  \/ LET n == Len(box[e]) IN
     /\ faults < MaxFaults
     /\ HasRoom(e, box, hld)
     /\ n > pol[e]
     /\ faults' = faults + 1
     /\ inbox' = [box EXCEPT ![e] = Append([@ EXCEPT ![n] = m], @[n])]
     /\ unlinked' = IF box[e][n].type = "connect" /\ box[e][n].sid = m.sid
                      THEN unlinked \cup {Owner(m)} ELSE unlinked
     /\ UNCHANGED <<gone, overflowed>>

-----------------------------------------------------------------------------
(* The client's side. *)

\* get_connect_op and execute_w_key: the datagram carries the client's queue pair.
SendConnect(c) ==
  /\ Send(ServerOf[c], Connect(c), inbox, held, polled)
  /\ UNCHANGED <<polled, held, sessions, station, crashed>>

\* ReplyStation::cor_ready
CorReady(c, i) == station[c][i].pending = 0

\* Faulty variant: the entry of the last call is used again.
AddPendingReply_Kept(c, i) == station' = station

\* ReplyStation::add_pending_reply; its answer is dropped by add_reply_entry, so
\* a coroutine that still waits keeps its old entry.
AddPendingReply(c, i) ==
  station' = [station EXCEPT ![c][i] = IF @.pending > 0 THEN @ ELSE [pending |-> 1, buf |-> <<>>]]

\* Building a request with a reply entry, and execute_w_key.
Call(c, i, id, args) ==
  /\ IF i < StationSize
       THEN /\ AddPendingReply(c, i)
            /\ Send(ServerOf[c], Req(c, i, id, args), inbox, held, polled)
            /\ UNCHANGED crashed
       ELSE /\ crashed' = crashed \cup {c}
            /\ UNCHANGED <<station, inbox, faults, unlinked, gone, overflowed>>
  /\ UNCHANGED <<polled, held, sessions>>

\* A request without a reply entry.
Cast(c, i, id, args) ==
  /\ Send(ServerOf[c], Req(c, i, id, args), inbox, held, polled)
  /\ UNCHANGED <<polled, held, sessions, station, crashed>>

-----------------------------------------------------------------------------
(* The receive loop.  Taking the first datagram of a poll is begin(), taking  *)
(* the last one is also end(), which posts the receives of the poll again.    *)

InPoll(e) == polled[e] > 0
HasMsg(e) == inbox[e] # <<>>

Taken(e) == [inbox EXCEPT ![e] = Tail(@)]

LeftOf(e) == (IF InPoll(e) THEN polled[e] ELSE Len(inbox[e])) - 1
PolledAfter(e) == [polled EXCEPT ![e] = LeftOf(e)]

\* Faulty variant: the receives are not posted again.
HeldAfter_Kept(e) == [held EXCEPT ![e] = @ + 1]

HeldAfter(e) == [held EXCEPT ![e] = IF LeftOf(e) = 0 THEN 0 ELSE @ + 1]

Take(e) == polled' = PolledAfter(e) /\ held' = HeldAfter(e)

\* Faulty variant: no session is added.
AddNewSession_Ignored(w, m) == sessions' = sessions

\* UDSessionManager::add_impl: insert does nothing when the id has an entry.
AddNewSession(w, m) ==
  sessions' = [sessions EXCEPT ![w][m.sid] = IF @ = NoSession THEN m.qp ELSE @]

\* operator[] makes an empty entry for an id it does not know.
LookupSession(w, m) ==
  sessions' = [sessions EXCEPT ![w][m.sid] = IF @ = NoSession THEN NoChannel ELSE @]

ReplyChannel(w, m) == IF sessions[w][m.sid] = NoSession THEN NoChannel ELSE sessions[w][m.sid]

RecvConnect(w) ==
  /\ HasMsg(w) /\ Head(inbox[w]).type = "connect"
  /\ Take(w)
  /\ AddNewSession(w, Head(inbox[w]))
  /\ inbox' = Taken(w)
  /\ UNCHANGED <<station, faults, unlinked, gone, overflowed, crashed>>

\* The callback answers request m with val over the channel of its session.
ReplyTo(w, m, val) ==
  LET ch == ReplyChannel(w, m) IN
  IF ch = NoChannel
    THEN /\ crashed' = crashed \cup {w}
         /\ inbox' = Taken(w)
         /\ gone' = gone \cup CallsOf(m)
         /\ UNCHANGED <<faults, unlinked, overflowed>>
    ELSE /\ Send(ch, Reply(m, val), Taken(w), HeldAfter(w), PolledAfter(w))
         /\ UNCHANGED crashed

\* A request whose callback replies.
RecvReq(w, val) ==
  /\ Take(w)
  /\ LookupSession(w, Head(inbox[w]))
  /\ ReplyTo(w, Head(inbox[w]), val)
  /\ UNCHANGED station

\* A request whose callback does not reply.
RecvCast(w) ==
  /\ Take(w)
  /\ LookupSession(w, Head(inbox[w]))
  /\ inbox' = Taken(w)
  /\ UNCHANGED <<station, faults, unlinked, gone, overflowed, crashed>>

\* A callback throws, or fails one of its assertions: the process ends.
RecvFails(w) ==
  /\ Take(w)
  /\ LookupSession(w, Head(inbox[w]))
  /\ inbox' = Taken(w)
  /\ crashed' = crashed \cup {w}
  /\ gone' = gone \cup CallsOf(Head(inbox[w]))
  /\ UNCHANGED <<station, faults, unlinked, overflowed>>

\* ReplyStation::append_reply on the reply at the head of the client's queue.
AppendReply(c, m) ==
  IF CorReady(c, m.cor)
    THEN crashed' = crashed \cup {c} /\ UNCHANGED station
    ELSE /\ station' = [station EXCEPT ![c][m.cor] = [pending |-> @.pending - 1, buf |-> m.body]]
         /\ UNCHANGED crashed

RecvReply(c) ==
  /\ HasMsg(c) /\ Head(inbox[c]).type = "reply"
  /\ Take(c)
  /\ AppendReply(c, Head(inbox[c]))
  /\ inbox' = Taken(c)
  /\ UNCHANGED <<sessions, faults, unlinked, gone, overflowed>>

-----------------------------------------------------------------------------
(* What the layer promises to the programs over it. *)

CountIn(q, Test(_)) == Cardinality({p \in 1..Len(q) : Test(q[p])})

\* Datagrams of the call of coroutine i of c: the request that waits at the server
\* and the reply that waits at the client.
InFlight(c, i) ==
  LET OfCall(m) == <<c, i>> \in CallsOf(m)
  IN CountIn(inbox[ServerOf[c]], OfCall) + CountIn(inbox[c], OfCall)

\* A pending reply is one datagram on its way, or one that is gone for good; a
\* coroutine that waits for nothing has none.  So append_reply never finds its
\* coroutine ready (mod.hh:86, mod.hh:131), a late reply is never taken for the
\* answer of the next call although a reply carries only the coroutine's id, and
\* no call has two requests on the wire (op.hh:62).
OneInFlight ==
  \A c \in Client, i \in CorId :
    station[c][i].pending = InFlight(c, i) + (IF <<c, i>> \in gone THEN 1 ELSE 0)

\* Replies leave for the queue pair of the client that sent the request.
SessionIsCurrent ==
  \A w \in Worker, c \in Client : sessions[w][SessionId[c]] \in {c, NoChannel, NoSession}

\* A callback gets a null channel only if the session's Connect was lost, or was
\* overtaken by its first request (mod.hh:76).
NullChannelNeedsFault ==
  \A w \in Worker, c \in Client : sessions[w][SessionId[c]] = NoChannel => c \in unlinked

\* The clients are closed loops, so an endpoint with enough receives never drops a
\* datagram.  A server thread needs almost two per coroutine: the receives of a poll
\* are posted again only after its last datagram, and by then every call it answered
\* may have been followed by the next one (mod.hh:61, mod.hh:97).
Fits(e) ==
  IF e \in Client
    THEN RecvDepth[e] >= Coros
    ELSE RecvDepth[e] >= (2 * Coros + 1) * Cardinality({c \in Client : ServerOf[c] = e}) - 1

NoOverflow == \A e \in overflowed : ~Fits(e)

=============================================================================
