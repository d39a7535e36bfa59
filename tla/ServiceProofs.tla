---------------------------- MODULE ServiceProofs ----------------------------
(***************************************************************************)
(* Proofs about the service (Service), for every data set, index, number   *)
(* of processes, threads and coroutines, and whatever the network loses or *)
(* delays.                                                                 *)
(*                                                                         *)
(* WireInv and LinkInv follow the sessions: what a server thread has heard *)
(* of a client begins with its Connect.  MailInv, OneEach and StationInv   *)
(* follow the calls: a call that waits has one datagram on its way at most,*)
(* which carries what the caller asked or the answer to it.  ParsedIsIndex *)
(* says that the client's parser undoes serialize_db.  DataInv is about    *)
(* the server's main thread, LocalInv about the client's threads and their *)
(* copies; IInv, their conjunction, is inductive.                          *)
(***************************************************************************)
EXTENDS Service, FiniteSetTheorems, WellFoundedInduction, TLAPS

\* A set of naturals has a least member.
LEMMA NatMin ==
  ASSUME NEW T \in SUBSET Nat, T # {}
  PROVE  \E l \in T : \A k \in T : l <= k
<1> DEFINE R == OpToRel(<, Nat)
<1>1. IsWellFoundedOn(R, Nat)
  BY NatLessThanWellFounded
<1>2. R = {ss \in Nat \X Nat : ss[1] < ss[2]}
  BY DEF OpToRel
<1> HIDE DEF R
<1>3. PICK x \in T : \A y \in T : <<y, x>> \notin R
  BY <1>1, WFMin
<1>4. \A y \in T : ~(y < x)
  BY <1>2, <1>3
<1>5. ASSUME NEW y \in T PROVE x <= y
  <2>1. x \in Nat /\ y \in Nat
    OBVIOUS
  <2> QED
    BY <2>1, <1>4
<1> QED
  BY <1>5

-----------------------------------------------------------------------------
(* Datagrams and queues. *)

\* A datagram; a Connect carries the queue pair of the client whose id it has.
Mail == [type : {"req", "reply", "connect"}, sid : Sid, rpc : 0..1, cor : CorId,
         body : Seq(Int), qp : Client \cup {NoChannel}]
Owned == {m \in Mail : m.type = "connect" => m.qp \in Client /\ SessionId[m.qp] = m.sid}

Boxes == [Endpoint -> Seq(Owned)]

In(q) == {q[j] : j \in 1..Len(q)}

\* The call a request or a reply is of; the calls in a queue, each there once.
Slot(m) == <<Owner(m), m.cor>>
Calls(q) == {Slot(m) : m \in {x \in In(q) : x.type # "connect"}}
Single(q) ==
  \A j, k \in 1..Len(q) :
    /\ q[j].type # "connect" /\ q[k].type # "connect"
    /\ Slot(q[j]) = Slot(q[k])
    => j = k

\* No datagram of session s is in q; the Connect of s leads its other datagrams.
Clean(q, s) == \A j \in 1..Len(q) : q[j].sid # s
Led(q, s) == \E n \in 1..Len(q) : /\ q[n].type = "connect" /\ q[n].sid = s
                                  /\ \A j \in 1..Len(q) : q[j].sid = s => j >= n

\* What the network makes of queue q and a datagram m sent to it.
Swapped(q, m) == Append([q EXCEPT ![Len(q)] = m], q[Len(q)])
Put(q, m) == {q, Append(q, m)} \cup (IF q # <<>> THEN {Swapped(q, m)} ELSE {})

LEMMA OwnerOf ==
  ASSUME NEW c \in Client, NEW m, m.sid = SessionId[c]
  PROVE  Owner(m) = c
BY UniqueSessionIds DEF Owner

LEMMA OwnerIn ==
  ASSUME NEW m \in Owned
  PROVE  Owner(m) \in Client /\ SessionId[Owner(m)] = m.sid
<1>1. PICK c \in Client : m.sid = SessionId[c]
  BY DEF Owned, Mail, Sid
<1> QED
  BY <1>1, OwnerOf

\* The datagrams the handlers build are owned.
LEMMA BuiltOwned ==
  ASSUME NEW c \in Client
  PROVE  /\ Connect(c) \in Owned
         /\ \A i \in CorId, id \in 0..1, args \in Seq(Int) : Req(c, i, id, args) \in Owned
         /\ \A m \in Owned, val \in Seq(Int) : Reply(m, val) \in Owned
<1>1. Connect(c) \in Owned
  BY RPCAssumption DEF Connect, Owned, Mail, Sid, CorId
<1>2. \A i \in CorId, id \in 0..1, args \in Seq(Int) : Req(c, i, id, args) \in Owned
  BY DEF Req, Owned, Mail, Sid, CorId
<1>3. \A m \in Owned, val \in Seq(Int) : Reply(m, val) \in Owned
  BY DEF Reply, Owned, Mail
<1> QED
  BY <1>1, <1>2, <1>3

\* A queue with a datagram put to its end, or before its last one.
LEMMA SwappedIs ==
  ASSUME NEW q \in Seq(Owned), q # <<>>, NEW m \in Owned
  PROVE  /\ Swapped(q, m) \in Seq(Owned)
         /\ Len(q) \in Nat \ {0} /\ Len(Swapped(q, m)) = Len(q) + 1
         /\ Swapped(q, m)[Len(q)] = m /\ Swapped(q, m)[Len(q) + 1] = q[Len(q)]
         /\ \A j \in 1..(Len(q) - 1) : Swapped(q, m)[j] = q[j]
<1> DEFINE n == Len(q)
<1>1. n \in Nat \ {0} /\ n \in 1..n /\ q[n] \in Owned
  OBVIOUS
<1>2. [q EXCEPT ![n] = m] \in Seq(Owned)
  BY <1>1
<1> QED
  BY <1>1, <1>2 DEF Swapped

\* Queue q2 has m at place n, and at place j the datagram that q has at from[j].
Places(q, m, q2, n, from) ==
  /\ \A j \in 1..Len(q2) : j = n => q2[j] = m
  /\ \A j \in 1..Len(q2) : j # n => from[j] \in 1..Len(q) /\ q2[j] = q[from[j]]
  /\ \A j, k \in 1..Len(q2) : j # n /\ k # n /\ from[j] = from[k] => j = k

LEMMA PutPlaces ==
  ASSUME NEW q \in Seq(Owned), NEW m \in Owned, NEW q2 \in Put(q, m)
  PROVE  /\ q2 \in Seq(Owned)
         /\ \E n, from : Places(q, m, q2, n, from)
<1> DEFINE N == Len(q)
           id == [j \in Nat |-> j]
<1>1. N \in Nat /\ id \in [Nat -> Nat] /\ \A j \in Nat : id[j] = j
  OBVIOUS
<1>2. CASE q2 = q
  <2>1. \A j \in 1..N : j # 0 /\ id[j] = j
    BY <1>1
  <2> HIDE DEF id
  <2>2. Places(q, m, q2, 0, id)
    BY <1>2, <2>1 DEF Places
  <2> QED
    BY <1>2, <2>2
<1>3. CASE q2 = Append(q, m)
  <2>1. q2 \in Seq(Owned) /\ Len(q2) = N + 1 /\ q2[N + 1] = m /\ \A j \in 1..N : q2[j] = q[j]
    BY <1>3
  <2>2. \A j \in 1..(N + 1) : j \in Nat /\ id[j] = j /\ (j # N + 1 => j \in 1..N)
    BY <1>1
  <2> HIDE DEF id
  <2>3. Places(q, m, q2, N + 1, id)
    BY <2>1, <2>2 DEF Places
  <2> QED
    BY <2>1, <2>3
<1>4. CASE q # <<>> /\ q2 = Swapped(q, m)
  <2> DEFINE from == [j \in Nat |-> IF j = N + 1 THEN N ELSE j]
  <2>1. /\ q2 \in Seq(Owned) /\ N \in Nat \ {0} /\ Len(q2) = N + 1
        /\ q2[N] = m /\ q2[N + 1] = q[N] /\ \A j \in 1..(N - 1) : q2[j] = q[j]
    BY <1>4, SwappedIs
  <2>2. from \in [Nat -> Nat] /\ \A j \in Nat : from[j] = IF j = N + 1 THEN N ELSE j
    BY <1>1
  <2> HIDE DEF from
  <2>3. \A j \in 1..(N + 1) :
          /\ j = N + 1 => from[j] = N
          /\ j # N /\ j # N + 1 => from[j] = j /\ j \in 1..(N - 1)
    <3> TAKE j \in 1..(N + 1)
    <3>1. j \in Nat
      BY <1>1
    <3>2. j = N + 1 => from[j] = N
      BY <2>2, <3>1
    <3>3. j # N /\ j # N + 1 => from[j] = j
      BY <2>2, <3>1
    <3> QED
      BY <2>1, <3>2, <3>3
  <2>4. \A j \in 1..Len(q2) : j = N => q2[j] = m
    BY <2>1
  <2>5. \A j \in 1..Len(q2) : j # N => from[j] \in 1..N /\ q2[j] = q[from[j]]
    BY <2>1, <2>3
  <2>6. \A j, k \in 1..Len(q2) : j # N /\ k # N /\ from[j] = from[k] => j = k
    BY <2>1, <2>3
  <2>7. Places(q, m, q2, N, from)
    BY <2>4, <2>5, <2>6 DEF Places
  <2> QED
    BY <2>1, <2>7
<1> QED
  BY <1>2, <1>3, <1>4 DEF Put

\* So a call that is not in the queue yet is put there once.
LEMMA PutKeeps ==
  ASSUME NEW q \in Seq(Owned), NEW m \in Owned, NEW q2 \in Put(q, m)
  PROVE  /\ q2 \in Seq(Owned) /\ In(q2) \subseteq In(q) \cup {m}
         /\ Calls(q2) \subseteq Calls(q) \cup (IF m.type # "connect" THEN {Slot(m)} ELSE {})
         /\ Single(q) /\ (m.type # "connect" => Slot(m) \notin Calls(q)) => Single(q2)
<1>1. q2 \in Seq(Owned)
  BY PutPlaces
<1>2. PICK n, from : Places(q, m, q2, n, from)
  BY PutPlaces
<1>3. /\ \A j \in 1..Len(q2) : j = n => q2[j] = m
      /\ \A j \in 1..Len(q2) : j # n => from[j] \in 1..Len(q) /\ q2[j] = q[from[j]]
      /\ \A j, k \in 1..Len(q2) : j # n /\ k # n /\ from[j] = from[k] => j = k
  BY <1>2 DEF Places
<1>4. In(q2) \subseteq In(q) \cup {m}
  BY <1>3 DEF In
<1>5. Calls(q2) \subseteq Calls(q) \cup (IF m.type # "connect" THEN {Slot(m)} ELSE {})
  BY <1>4 DEF Calls
<1>6. ASSUME Single(q), m.type # "connect" => Slot(m) \notin Calls(q)
      PROVE  Single(q2)
  <2> SUFFICES ASSUME NEW j \in 1..Len(q2), NEW k \in 1..Len(q2),
                      q2[j].type # "connect", q2[k].type # "connect", Slot(q2[j]) = Slot(q2[k])
               PROVE  j = k
    BY DEF Single
  <2>1. \A i \in 1..Len(q) : q[i].type # "connect" => Slot(q[i]) \in Calls(q)
    BY DEF Calls, In
  <2>s. \A i, l \in 1..Len(q) : q[i].type # "connect" /\ q[l].type # "connect" /\ Slot(q[i]) = Slot(q[l]) => i = l
    BY <1>6 DEF Single
  <2>2. CASE j # n /\ k # n
    <3>1. from[j] \in 1..Len(q) /\ from[k] \in 1..Len(q) /\ q2[j] = q[from[j]] /\ q2[k] = q[from[k]]
      BY <1>3, <2>2
    <3>2. from[j] = from[k]
      BY <2>s, <3>1
    <3> QED
      BY <1>3, <2>2, <3>2
  <2>3. CASE j = n /\ k # n
    BY <1>3, <1>6, <2>1, <2>3
  <2>4. CASE k = n /\ j # n
    BY <1>3, <1>6, <2>1, <2>4
  <2> QED
    BY <2>2, <2>3, <2>4
<1> QED
  BY <1>1, <1>4, <1>5, <1>6

\* Taking the datagram at the head of a queue.
LEMMA TailKeeps ==
  ASSUME NEW q \in Seq(Owned), q # <<>>
  PROVE  /\ Head(q) \in Owned /\ Head(q) \in In(q) /\ Head(q) = q[1] /\ 1 \in 1..Len(q)
         /\ Tail(q) \in Seq(Owned) /\ In(Tail(q)) \subseteq In(q)
         /\ Calls(Tail(q)) \subseteq Calls(q)
         /\ Single(q) => /\ Single(Tail(q))
                         /\ Head(q).type # "connect" => Slot(Head(q)) \notin Calls(Tail(q))
<1> DEFINE N == Len(q)
           t == Tail(q)
<1>1. /\ N \in Nat \ {0} /\ Head(q) \in Owned /\ Head(q) = q[1] /\ 1 \in 1..N
      /\ t \in Seq(Owned) /\ Len(t) = N - 1
      /\ \A j \in 1..(N - 1) : t[j] = q[j + 1]
  OBVIOUS
<1> HIDE DEF t
<1>2. \A j \in 1..Len(t) : j + 1 \in 1..N /\ j + 1 # 1 /\ t[j] = q[j + 1]
  BY <1>1
<1>3. Head(q) \in In(q) /\ In(t) \subseteq In(q)
  BY <1>1, <1>2 DEF In
<1>4. Calls(t) \subseteq Calls(q)
  BY <1>3 DEF Calls
<1>5. ASSUME Single(q)
      PROVE  Single(t) /\ (Head(q).type # "connect" => Slot(Head(q)) \notin Calls(t))
  <2>1. Single(t)
    <3> SUFFICES ASSUME NEW j \in 1..Len(t), NEW k \in 1..Len(t), t[j].type # "connect",
                        t[k].type # "connect", Slot(t[j]) = Slot(t[k])
                 PROVE  j = k
      BY DEF Single
    <3>1. j + 1 = k + 1
      BY <1>2, <1>5 DEF Single
    <3> QED
      BY <1>1, <3>1
  <2>2. ASSUME NEW m \in In(t), m.type # "connect", Head(q).type # "connect", Slot(Head(q)) = Slot(m)
        PROVE  FALSE
    <3>1. PICK j \in 1..Len(t) : m = t[j]
      BY DEF In
    <3>2. j + 1 \in 1..N /\ 1 \in 1..N /\ Slot(q[1]) = Slot(q[j + 1])
          /\ q[1].type # "connect" /\ q[j + 1].type # "connect"
      BY <1>1, <1>2, <2>2, <3>1
    <3>3. 1 = j + 1
      BY <1>5, <3>2 DEF Single
    <3> QED
      BY <1>2, <3>3
  <2> QED
    BY <2>1, <2>2 DEF Calls
<1> QED
  BY <1>1, <1>3, <1>4, <1>5 DEF t

-----------------------------------------------------------------------------
(* The wire and the tables of sessions. *)

USE RPCAssumption

Tables == [Worker -> [Sid -> Client \cup {NoChannel, NoSession}]]

WireInv ==
  /\ inbox \in Boxes
  /\ polled \in [Endpoint -> Nat]
  /\ sessions \in Tables
  /\ SessionIsCurrent

\* What a send has made of the queue q, and that the loss of a Connect is recorded.
Sent(q, m, q2) ==
  \/ q2 = Append(q, m)
  \/ q2 = q /\ (m.type = "connect" => Owner(m) \in unlinked')
  \/ /\ q # <<>> /\ q2 = Swapped(q, m)
     /\ q[Len(q)].type = "connect" /\ q[Len(q)].sid = m.sid => Owner(m) \in unlinked'

LEMMA SentIsPut ==
  ASSUME NEW q, NEW m, NEW q2, Sent(q, m, q2)
  PROVE  q2 \in Put(q, m)
BY DEF Sent, Put

LEMMA SendEffect ==
  ASSUME NEW e \in Endpoint, NEW m \in Owned, NEW box \in Boxes, NEW hld,
         NEW pol \in [Endpoint -> Nat], Send(e, m, box, hld, pol)
  PROVE  /\ unlinked \subseteq unlinked' /\ inbox' \in Boxes
         /\ Sent(box[e], m, inbox'[e])
         /\ \A f \in Endpoint : f # e => inbox'[f] = box[f]
<1> DEFINE q == box[e]
<1>0. q \in Seq(Owned) /\ Len(q) \in Nat /\ pol[e] \in Nat
  BY DEF Boxes
<1>1. CASE inbox' = [box EXCEPT ![e] = Append(@, m)] /\ UNCHANGED unlinked
  <2>1. Append(q, m) \in Seq(Owned)
    BY <1>0
  <2> QED
    BY <1>1, <2>1 DEF Boxes, Sent
<1>2. CASE inbox' = box /\ MarkUndelivered(m)
  BY <1>2 DEF MarkUndelivered, Sent
<1>3. CASE /\ Len(q) > pol[e]
           /\ inbox' = [box EXCEPT ![e] = Append([@ EXCEPT ![Len(q)] = m], @[Len(q)])]
           /\ unlinked' = IF q[Len(q)].type = "connect" /\ q[Len(q)].sid = m.sid
                            THEN unlinked \cup {Owner(m)} ELSE unlinked
  <2>1. q # <<>>
    BY <1>0, <1>3
  <2>2. Swapped(q, m) \in Seq(Owned)
    BY <1>0, <2>1, SwappedIs
  <2>3. inbox' = [box EXCEPT ![e] = Swapped(q, m)]
    BY <1>3 DEF Swapped
  <2>4. inbox' \in Boxes /\ inbox'[e] = Swapped(q, m) /\ \A f \in Endpoint : f # e => inbox'[f] = box[f]
    BY <2>2, <2>3 DEF Boxes
  <2> QED
    BY <1>3, <2>1, <2>4 DEF Sent
<1> QED
  BY <1>1, <1>2, <1>3 DEF Send

\* Taking the datagram at the head of a queue.
LEMMA TakeEffect ==
  ASSUME WireInv, NEW e \in Endpoint, HasMsg(e)
  PROVE  /\ inbox[e] \in Seq(Owned) /\ inbox[e] # <<>> /\ Head(inbox[e]) \in Owned
         /\ Taken(e) \in Boxes /\ Taken(e)[e] = Tail(inbox[e])
         /\ \A f \in Endpoint : f # e => Taken(e)[f] = inbox[f]
         /\ PolledAfter(e) \in [Endpoint -> Nat]
<1>1. inbox[e] \in Seq(Owned) /\ inbox[e] # <<>>
  BY DEF WireInv, Boxes, HasMsg
<1>2. Head(inbox[e]) \in Owned /\ Tail(inbox[e]) \in Seq(Owned) /\ Len(inbox[e]) \in Nat \ {0}
  BY <1>1
<1>3. LeftOf(e) \in Nat
  BY <1>2 DEF LeftOf, InPoll, WireInv
<1> QED
  BY <1>1, <1>2, <1>3 DEF Taken, PolledAfter, WireInv, Boxes

\* A Connect enters the queue pair of its owner, the lookup of an unknown id an empty
\* entry.
LEMMA SessionsKept ==
  ASSUME WireInv, NEW w \in Worker, NEW m \in Owned,
         (m.type = "connect" /\ AddNewSession(w, m)) \/ LookupSession(w, m)
  PROVE  sessions' \in Tables /\ SessionIsCurrent'
<1>1. m.sid \in Sid /\ (m.type = "connect" => m.qp \in Client /\ SessionId[m.qp] = m.sid)
  BY DEF Owned, Mail
<1>2. sessions' \in Tables
  BY <1>1 DEF AddNewSession, LookupSession, WireInv, Tables
<1>3. ASSUME NEW v \in Worker, NEW c \in Client
      PROVE  sessions'[v][SessionId[c]] \in {c, NoChannel, NoSession}
  <2>1. SessionId[c] \in Sid
    BY DEF Sid
  <2>2. sessions[v][SessionId[c]] \in {c, NoChannel, NoSession}
    BY DEF WireInv, SessionIsCurrent
  <2>3. CASE m.type = "connect" /\ AddNewSession(w, m)
    <3>1. CASE v = w /\ SessionId[c] = m.sid
      BY <1>1, <2>1, <2>2, <2>3, <3>1, UniqueSessionIds DEF AddNewSession, WireInv, Tables
    <3>2. CASE ~(v = w /\ SessionId[c] = m.sid)
      BY <2>1, <2>2, <2>3, <3>2 DEF AddNewSession, WireInv, Tables
    <3> QED
      BY <3>1, <3>2
  <2>4. CASE LookupSession(w, m)
    BY <1>1, <2>1, <2>2, <2>4 DEF LookupSession, WireInv, Tables
  <2> QED
    BY <2>3, <2>4
<1> QED
  BY <1>2, <1>3 DEF SessionIsCurrent

LEMMA SameTables ==
  ASSUME WireInv, inbox' \in Boxes, polled' \in [Endpoint -> Nat], UNCHANGED sessions
  PROVE  WireInv'
BY DEF WireInv, SessionIsCurrent

\* A client's datagram leaves for its server thread.
LEMMA ClientPosts ==
  ASSUME WireInv, NEW c \in Client, NEW m \in Owned,
         Send(ServerOf[c], m, inbox, held, polled), UNCHANGED <<polled, sessions>>
  PROVE  /\ WireInv' /\ unlinked \subseteq unlinked'
         /\ Sent(inbox[ServerOf[c]], m, inbox'[ServerOf[c]])
         /\ \A f \in Endpoint : f # ServerOf[c] => inbox'[f] = inbox[f]
<1>1. ServerOf[c] \in Endpoint
  BY DEF Endpoint
<1>2. /\ unlinked \subseteq unlinked' /\ inbox' \in Boxes
      /\ Sent(inbox[ServerOf[c]], m, inbox'[ServerOf[c]])
      /\ \A f \in Endpoint : f # ServerOf[c] => inbox'[f] = inbox[f]
  BY <1>1, SendEffect DEF WireInv
<1>3. WireInv'
  BY <1>2, SameTables DEF WireInv
<1> QED
  BY <1>2, <1>3

\* A worker takes a datagram without an answer.
LEMMA WorkerTakes ==
  ASSUME WireInv, NEW w \in Worker, HasMsg(w), Take(w), inbox' = Taken(w),
         LET m == Head(inbox[w]) IN
           (m.type = "connect" /\ AddNewSession(w, m)) \/ LookupSession(w, m)
  PROVE  WireInv'
<1>1. w \in Endpoint
  BY DEF Endpoint
<1>2. Head(inbox[w]) \in Owned /\ Taken(w) \in Boxes /\ PolledAfter(w) \in [Endpoint -> Nat]
  BY <1>1, TakeEffect
<1>3. sessions' \in Tables /\ SessionIsCurrent'
  BY <1>2, SessionsKept
<1> QED
  BY <1>2, <1>3 DEF WireInv, Take

\* A callback's reply goes to the client that asked, over the channel of the session,
\* or the worker fails for want of a channel.
Replied(w, m, val) ==
  \/ /\ sessions[w][m.sid] \in {NoChannel, NoSession} /\ crashed' = crashed \cup {w}
     /\ \A c \in Client : inbox'[c] = inbox[c]
  \/ /\ sessions[w][m.sid] = Owner(m) /\ crashed' = crashed
     /\ Sent(inbox[Owner(m)], Reply(m, val), inbox'[Owner(m)])
     /\ \A c \in Client : c # Owner(m) => inbox'[c] = inbox[c]

LEMMA WorkerReplies ==
  ASSUME WireInv, NEW w \in Worker, HasMsg(w), NEW val \in Seq(Int), RecvReq(w, val)
  PROVE  /\ WireInv' /\ unlinked \subseteq unlinked'
         /\ inbox'[w] = Tail(inbox[w])
         /\ \A v \in Worker : v # w => inbox'[v] = inbox[v]
         /\ Replied(w, Head(inbox[w]), val)
<1> DEFINE m == Head(inbox[w])
           ch == ReplyChannel(w, m)
           box == Taken(w)
           rep == Reply(m, val)
<1>0. w \in Endpoint /\ \A c \in Client : c \in Endpoint /\ c # w
  BY DEF Endpoint
<1>1. /\ m \in Owned /\ box \in Boxes /\ box[w] = Tail(inbox[w])
      /\ \A f \in Endpoint : f # w => box[f] = inbox[f]
      /\ PolledAfter(w) \in [Endpoint -> Nat]
  BY <1>0, TakeEffect
<1>2. m.sid \in Sid /\ Owner(m) \in Client /\ SessionId[Owner(m)] = m.sid
  BY <1>1, OwnerIn DEF Owned, Mail
<1>3. sessions[w][m.sid] \in {Owner(m), NoChannel, NoSession}
  BY <1>2 DEF WireInv, SessionIsCurrent
<1>4. NoChannel \notin Client /\ NoSession \notin Client /\ NoChannel # NoSession
  BY ChannelAssumption DEF NoChannel, NoSession
<1>5. Take(w) /\ LookupSession(w, m) /\ ReplyTo(w, m, val)
  BY DEF RecvReq
<1>6. sessions' \in Tables /\ SessionIsCurrent' /\ polled' \in [Endpoint -> Nat]
  BY <1>1, <1>5, SessionsKept DEF Take
<1>7. CASE ch = NoChannel
  <2>1. crashed' = crashed \cup {w} /\ inbox' = box /\ UNCHANGED unlinked
    BY <1>5, <1>7 DEF ReplyTo
  <2>2. sessions[w][m.sid] \in {NoChannel, NoSession}
    BY <1>2, <1>3, <1>4, <1>7 DEF ReplyChannel
  <2>3. \A v \in Worker : v # w => inbox'[v] = inbox[v]
    BY <1>1, <2>1 DEF Endpoint
  <2>4. \A c \in Client : inbox'[c] = inbox[c]
    BY <1>0, <1>1, <2>1
  <2>5. WireInv'
    BY <1>1, <1>6, <2>1 DEF WireInv
  <2> HIDE DEF m
  <2> QED
    BY <1>1, <2>1, <2>2, <2>3, <2>4, <2>5 DEF Replied, m
<1>8. CASE ch # NoChannel
  <2>1. ch = Owner(m) /\ sessions[w][m.sid] = Owner(m) /\ ch \in Endpoint /\ ch # w
    BY <1>0, <1>2, <1>3, <1>4, <1>8 DEF ReplyChannel
  <2>2. Send(ch, rep, box, HeldAfter(w), PolledAfter(w)) /\ UNCHANGED crashed
    BY <1>5, <1>8 DEF ReplyTo
  <2>3. rep \in Owned
    BY <1>1, <1>2, BuiltOwned
  <2> HIDE DEF rep, ch, box, m
  <2>4. /\ unlinked \subseteq unlinked' /\ inbox' \in Boxes /\ Sent(box[ch], rep, inbox'[ch])
        /\ \A f \in Endpoint : f # ch => inbox'[f] = box[f]
    BY <1>1, <2>1, <2>2, <2>3, SendEffect
  <2>5. box[ch] = inbox[ch] /\ inbox'[w] = box[w] /\ \A f \in Endpoint : f # ch /\ f # w => inbox'[f] = inbox[f]
    BY <1>0, <1>1, <2>1, <2>4
  <2>6. \A v \in Worker : v # w => v \in Endpoint /\ v # ch
    BY <1>2, <2>1 DEF Endpoint
  <2>7. WireInv'
    BY <1>6, <2>4 DEF WireInv
  <2>8. Replied(w, m, val)
    BY <1>0, <2>1, <2>2, <2>4, <2>5 DEF Replied, rep
  <2> QED
    BY <1>1, <2>4, <2>5, <2>6, <2>7, <2>8 DEF m
<1> QED
  BY <1>7, <1>8


-----------------------------------------------------------------------------
(* Sessions: at its own server thread a client is silent, linked, or its Connect is    *)
(* recorded as lost; no other server thread has heard of it.                           *)

LEMMA CleanQueues ==
  ASSUME NEW q \in Seq(Owned), NEW m \in Owned, NEW s, Clean(q, s)
  PROVE  /\ m.sid # s => Clean(Append(q, m), s)
         /\ m.sid # s /\ q # <<>> => Clean(Swapped(q, m), s)
         /\ m.sid = s /\ m.type = "connect" => Led(Append(q, m), s)
         /\ m.sid = s /\ m.type = "connect" /\ q # <<>> => Led(Swapped(q, m), s)
         /\ q # <<>> => Clean(Tail(q), s) /\ Head(q).sid # s
<1> DEFINE n == Len(q)
<1>0. n \in Nat
  OBVIOUS
<1>1. m.sid # s => Clean(Append(q, m), s)
  BY <1>0 DEF Clean
<1>2. m.sid = s /\ m.type = "connect" => Led(Append(q, m), s)
  <2> SUFFICES ASSUME m.sid = s, m.type = "connect" PROVE Led(Append(q, m), s)
    OBVIOUS
  <2>1. /\ n + 1 \in 1..Len(Append(q, m)) /\ Append(q, m)[n + 1] = m
        /\ \A j \in 1..Len(Append(q, m)) : Append(q, m)[j].sid = s => j >= n + 1
    BY <1>0 DEF Clean
  <2> QED
    BY <2>1 DEF Led
<1>3. ASSUME q # <<>>
      PROVE  /\ n \in Nat \ {0} /\ Len(Swapped(q, m)) = n + 1
             /\ Swapped(q, m)[n] = m /\ Swapped(q, m)[n + 1] = q[n]
             /\ \A j \in 1..(n - 1) : Swapped(q, m)[j] = q[j]
  BY <1>3, SwappedIs
<1>4. m.sid # s /\ q # <<>> => Clean(Swapped(q, m), s)
  BY <1>0, <1>3, SMTT(30) DEF Clean
<1>5. m.sid = s /\ m.type = "connect" /\ q # <<>> => Led(Swapped(q, m), s)
  <2> SUFFICES ASSUME m.sid = s, m.type = "connect", q # <<>> PROVE Led(Swapped(q, m), s)
    OBVIOUS
  <2>1. /\ n \in 1..Len(Swapped(q, m)) /\ Swapped(q, m)[n] = m
        /\ \A j \in 1..Len(Swapped(q, m)) : Swapped(q, m)[j].sid = s => j >= n
    BY <1>0, <1>3, SMTT(30) DEF Clean
  <2> QED
    BY <2>1 DEF Led
<1>6. q # <<>> => Clean(Tail(q), s) /\ Head(q).sid # s
  BY <1>0 DEF Clean
<1> QED
  BY <1>1, <1>2, <1>4, <1>5, <1>6

LEMMA LedQueues ==
  ASSUME NEW q \in Seq(Owned), NEW m \in Owned, NEW s, Led(q, s)
  PROVE  /\ Led(Append(q, m), s)
         /\ ~(q[Len(q)].type = "connect" /\ q[Len(q)].sid = s /\ m.sid = s) => Led(Swapped(q, m), s)
         /\ q # <<>>
         /\ Head(q).sid = s => Head(q).type = "connect"
         /\ Head(q).sid # s => Led(Tail(q), s)
<1> DEFINE n == Len(q)
<1>1. PICK p \in 1..n : /\ q[p].type = "connect" /\ q[p].sid = s
                        /\ \A j \in 1..n : q[j].sid = s => j >= p
  BY DEF Led
<1>2. n \in Nat /\ n > 0 /\ q # <<>>
  BY <1>1
<1>3. Led(Append(q, m), s)
  <2>1. /\ p \in 1..Len(Append(q, m)) /\ Append(q, m)[p] = q[p]
        /\ \A j \in 1..Len(Append(q, m)) : Append(q, m)[j].sid = s => j >= p
    BY <1>1, <1>2
  <2> QED
    BY <1>1, <2>1 DEF Led
<1>4. /\ Len(Swapped(q, m)) = n + 1
      /\ Swapped(q, m)[n] = m /\ Swapped(q, m)[n + 1] = q[n]
      /\ \A j \in 1..(n - 1) : Swapped(q, m)[j] = q[j]
  BY <1>2, SwappedIs
<1>5. ASSUME ~(q[n].type = "connect" /\ q[n].sid = s /\ m.sid = s)
      PROVE  Led(Swapped(q, m), s)
  <2>1. CASE p = n
    <3>1. /\ n + 1 \in 1..Len(Swapped(q, m)) /\ Swapped(q, m)[n + 1] = q[p]
          /\ \A j \in 1..Len(Swapped(q, m)) : Swapped(q, m)[j].sid = s => j >= n + 1
      BY <1>1, <1>2, <1>4, <1>5, <2>1
    <3> QED
      BY <1>1, <3>1 DEF Led
  <2>2. CASE p # n
    <3>1. /\ p \in 1..Len(Swapped(q, m)) /\ Swapped(q, m)[p] = q[p]
          /\ \A j \in 1..Len(Swapped(q, m)) : Swapped(q, m)[j].sid = s => j >= p
      BY <1>1, <1>2, <1>4, <2>2, SMTT(30)
    <3> QED
      BY <1>1, <3>1 DEF Led
  <2> QED
    BY <2>1, <2>2
<1>6. Head(q) = q[1]
  BY <1>2
<1>7. Head(q).sid = s => Head(q).type = "connect"
  BY <1>1, <1>2, <1>6
<1>8. ASSUME Head(q).sid # s
      PROVE  Led(Tail(q), s)
  <2>1. Len(Tail(q)) = n - 1 /\ \A j \in 1..(n - 1) : Tail(q)[j] = q[j + 1]
    BY <1>2
  <2>2. p - 1 \in 1..(n - 1)
    BY <1>1, <1>2, <1>6, <1>8
  <2>3. /\ Tail(q)[p - 1] = q[p]
        /\ \A j \in 1..Len(Tail(q)) : Tail(q)[j].sid = s => j >= p - 1
    BY <1>1, <1>2, <2>1, <2>2
  <2> QED
    BY <1>1, <2>1, <2>2, <2>3 DEF Led
<1> QED
  BY <1>2, <1>3, <1>5, <1>7, <1>8

Session(c) == sessions[ServerOf[c]][SessionId[c]]
Queue(c) == inbox[ServerOf[c]]

Silent(c) == Session(c) = NoSession /\ Clean(Queue(c), SessionId[c])
Linked(c) ==
  \/ c \in unlinked
  \/ Session(c) = c
  \/ Session(c) = NoSession /\ Led(Queue(c), SessionId[c])
Apart(c) ==
  \A v \in Worker \ {ServerOf[c]} : sessions[v][SessionId[c]] = NoSession /\ Clean(inbox[v], SessionId[c])

LinkInv == \A c \in Client : Apart(c) /\ (Silent(c) \/ Linked(c))

\* A client sends its Connect, or a request once it is linked.
LEMMA SendKeepsLinks ==
  ASSUME WireInv, LinkInv, NEW d \in Client, NEW m \in Owned, m.sid = SessionId[d],
         m.type = "connect" \/ Linked(d), UNCHANGED sessions, unlinked \subseteq unlinked',
         Sent(inbox[ServerOf[d]], m, inbox'[ServerOf[d]]),
         \A f \in Endpoint : f # ServerOf[d] => inbox'[f] = inbox[f]
  PROVE  /\ LinkInv' /\ Linked(d)'
         /\ \A c \in Client : Linked(c) => Linked(c)'
<1> DEFINE w == ServerOf[d]
           q == inbox[w]
           q2 == inbox'[w]
<1>0. w \in Worker /\ w \in Endpoint /\ q \in Seq(Owned) /\ Owner(m) = d
  BY OwnerOf DEF Endpoint, WireInv, Boxes
<1>2. \A v \in Worker \ {w} : inbox'[v] = inbox[v]
  BY DEF Endpoint
<1>3. \/ q2 = Append(q, m)
      \/ q2 = q /\ (m.type = "connect" => d \in unlinked')
      \/ /\ q # <<>> /\ q2 = Swapped(q, m)
         /\ q[Len(q)].type = "connect" /\ q[Len(q)].sid = m.sid => d \in unlinked'
  BY <1>0 DEF Sent
<1>c. ASSUME NEW s, Clean(q, s)
      PROVE  /\ m.sid # s => Clean(Append(q, m), s)
             /\ m.sid # s /\ q # <<>> => Clean(Swapped(q, m), s)
             /\ m.sid = s /\ m.type = "connect" => Led(Append(q, m), s)
             /\ m.sid = s /\ m.type = "connect" /\ q # <<>> => Led(Swapped(q, m), s)
  BY <1>0, <1>c, CleanQueues
<1>l. ASSUME NEW s, Led(q, s)
      PROVE  /\ Led(Append(q, m), s)
             /\ ~(q[Len(q)].type = "connect" /\ q[Len(q)].sid = s /\ m.sid = s) => Led(Swapped(q, m), s)
  BY <1>0, <1>l, LedQueues
<1>4. ASSUME NEW c \in Client \ {d}
      PROVE  /\ Apart(c)'
             /\ Silent(c) => Silent(c)'
             /\ Linked(c) => Linked(c)'
  <2>0. m.sid # SessionId[c] /\ ServerOf[c] \in Worker
    BY UniqueSessionIds
  <2>1. Clean(q, SessionId[c]) => Clean(q2, SessionId[c])
    BY <1>3, <1>c, <2>0
  <2>2. Led(q, SessionId[c]) => Led(q2, SessionId[c])
    BY <1>3, <1>l, <2>0
  <2>3. Apart(c)'
    BY <1>2, <2>1 DEF LinkInv, Apart
  <2>4. Silent(c) => Silent(c)'
    BY <1>2, <2>0, <2>1 DEF Silent, Session, Queue
  <2>5. Linked(c) => Linked(c)'
    BY <1>2, <2>0, <2>2 DEF Linked, Session, Queue
  <2> QED
    BY <2>3, <2>4, <2>5
<1>5. Apart(d)'
  BY <1>2 DEF LinkInv, Apart
<1>6. Linked(d)'
  <2>1. CASE d \in unlinked
    BY <2>1 DEF Linked
  <2>2. CASE Silent(d) /\ m.type = "connect"
    <3>1. Session(d)' = NoSession /\ Clean(q, SessionId[d])
      BY <2>2 DEF Silent, Session, Queue
    <3>2. d \in unlinked' \/ Led(q2, SessionId[d])
      BY <1>3, <1>c, <2>2, <3>1, ZenonT(40)
    <3> QED
      BY <3>1, <3>2 DEF Linked, Queue
  <2>3. CASE Session(d) = d
    BY <2>3 DEF Linked, Session
  <2>4. CASE Session(d) = NoSession /\ Led(q, SessionId[d])
    <3>1. d \in unlinked' \/ Led(q2, SessionId[d])
      <4>1. /\ Led(Append(q, m), SessionId[d])
            /\ ~(q[Len(q)].type = "connect" /\ q[Len(q)].sid = m.sid) => Led(Swapped(q, m), SessionId[d])
        BY <1>l, <2>4
      <4> QED
        BY <1>3, <2>4, <4>1
    <3> QED
      BY <2>4, <3>1 DEF Linked, Session, Queue
  <2> QED
    BY <2>1, <2>2, <2>3, <2>4 DEF LinkInv, Linked, Queue
<1> QED
  BY <1>4, <1>5, <1>6 DEF LinkInv

\* A step that leaves the workers' queues and tables alone.
LEMMA QuietKeepsLinks ==
  ASSUME LinkInv, \A v \in Worker : inbox'[v] = inbox[v], UNCHANGED sessions,
         unlinked \subseteq unlinked'
  PROVE  LinkInv' /\ \A c \in Client : Linked(c) => Linked(c)'
<1> SUFFICES ASSUME NEW c \in Client
             PROVE  Apart(c)' /\ (Silent(c) => Silent(c)') /\ (Linked(c) => Linked(c)')
  BY DEF LinkInv
<1>1. ServerOf[c] \in Worker
  OBVIOUS
<1>2. Apart(c)'
  BY DEF LinkInv, Apart
<1>3. Silent(c) => Silent(c)'
  BY <1>1 DEF Silent, Session, Queue
<1>4. Linked(c) => Linked(c)'
  BY <1>1 DEF Linked, Session, Queue
<1> QED
  BY <1>2, <1>3, <1>4

\* A worker takes datagram m and updates the session of m's sender.
LEMMA TakeKeepsLinks ==
  ASSUME WireInv, LinkInv, NEW w \in Worker, HasMsg(w), unlinked \subseteq unlinked',
         inbox'[w] = Tail(inbox[w]), \A v \in Worker \ {w} : inbox'[v] = inbox[v],
         LET m == Head(inbox[w]) IN
           \/ m.type = "connect" /\ AddNewSession(w, m)
           \/ m.type # "connect" /\ LookupSession(w, m)
  PROVE  LinkInv' /\ \A c \in Client : Linked(c) => Linked(c)'
<1> DEFINE m == Head(inbox[w])
           q == inbox[w]
<1>0. w \in Endpoint /\ q \in Seq(Owned) /\ q # <<>> /\ m \in Owned /\ m.sid \in Sid
  BY TakeEffect DEF Endpoint, Owned, Mail
<1> SUFFICES ASSUME NEW c \in Client
             PROVE  Apart(c)' /\ (Silent(c) => Silent(c)') /\ (Linked(c) => Linked(c)')
  BY DEF LinkInv
<1>3. ServerOf[c] \in Worker /\ SessionId[c] \in Sid /\ c # NoSession
  BY ChannelAssumption DEF Sid
<1>4. Clean(q, SessionId[c]) => Clean(Tail(q), SessionId[c]) /\ m.sid # SessionId[c]
  BY <1>0, CleanQueues
<1>5. \A v \in Worker, s \in Sid : v # w \/ s # m.sid => sessions'[v][s] = sessions[v][s]
  BY <1>0 DEF AddNewSession, LookupSession, WireInv, Tables
<1>6. Apart(c)'
  BY <1>3, <1>4, <1>5 DEF LinkInv, Apart
<1>7. CASE ServerOf[c] # w
  BY <1>3, <1>5, <1>6, <1>7 DEF Silent, Linked, Session, Queue
<1>8. CASE ServerOf[c] = w
  <2>2. Silent(c) => Silent(c)'
    BY <1>3, <1>4, <1>5, <1>8 DEF Silent, Session, Queue
  <2>1. CASE c \in unlinked
    BY <1>6, <2>1, <2>2 DEF Linked
  <2>3. CASE Session(c) = c
    <3>1. Session(c)' = c
      BY <1>0, <1>3, <1>8, <2>3 DEF AddNewSession, LookupSession, WireInv, Tables, Session
    <3> QED
      BY <1>6, <2>2, <3>1 DEF Linked
  <2>4. CASE Session(c) = NoSession /\ Led(q, SessionId[c])
    <3>1. CASE m.sid = SessionId[c]
      <4>1. m.type = "connect"
        BY <1>0, <2>4, <3>1, LedQueues
      <4>2. m.qp = c
        BY <1>0, <3>1, <4>1, UniqueSessionIds DEF Owned
      <4>3. Session(c)' = c
        BY <1>0, <1>3, <1>8, <2>4, <3>1, <4>1, <4>2 DEF AddNewSession, WireInv, Tables, Session
      <4> QED
        BY <1>6, <2>2, <4>3 DEF Linked
    <3>2. CASE m.sid # SessionId[c]
      <4>1. Led(Tail(q), SessionId[c])
        BY <1>0, <2>4, <3>2, LedQueues
      <4>2. Session(c)' = NoSession
        BY <1>3, <1>5, <1>8, <2>4, <3>2 DEF Session
      <4> QED
        BY <1>6, <1>8, <2>2, <4>1, <4>2 DEF Linked, Queue
    <3> QED
      BY <3>1, <3>2
  <2> QED
    BY <1>6, <1>8, <2>1, <2>2, <2>3, <2>4 DEF Linked, Queue
<1> QED
  BY <1>7, <1>8

\* So the channel of a request is there, unless the Connect of its client is lost.
LEMMA RequestHasChannel ==
  ASSUME WireInv, NEW w \in Worker, HasMsg(w), NEW c \in Client,
         Head(inbox[w]).type # "connect", Head(inbox[w]).sid = SessionId[c], ServerOf[c] = w, Linked(c)
  PROVE  c \in unlinked \/ sessions[w][SessionId[c]] = c
<1>1. w \in Endpoint
  BY DEF Endpoint
<1>2. inbox[w] \in Seq(Owned) /\ Head(inbox[w]) \in Owned
  BY <1>1, TakeEffect
<1> QED
  BY <1>2, LedQueues DEF Linked, Session, Queue

-----------------------------------------------------------------------------
(* The data sets. *)

LEMMA MinOfTwo ==
  ASSUME NEW a \in Int, NEW b \in Int
  PROVE  Min({a, b}) = (IF a <= b THEN a ELSE b)
<1>1. (IF a <= b THEN a ELSE b) \in {a, b} /\ \A y \in {a, b} : (IF a <= b THEN a ELSE b) <= y
  OBVIOUS
<1>2. \A x \in {a, b} : (\A y \in {a, b} : x <= y) => x = (IF a <= b THEN a ELSE b)
  OBVIOUS
<1> QED
  BY <1>1, <1>2 DEF Min

LEMMA MaxOfTwo ==
  ASSUME NEW a \in Int, NEW b \in Int
  PROVE  Max({a, b}) = (IF a >= b THEN a ELSE b)
<1>1. (IF a >= b THEN a ELSE b) \in {a, b} /\ \A y \in {a, b} : (IF a >= b THEN a ELSE b) >= y
  OBVIOUS
<1>2. \A x \in {a, b} : (\A y \in {a, b} : x >= y) => x = (IF a >= b THEN a ELSE b)
  OBVIOUS
<1> QED
  BY <1>1, <1>2 DEF Max

\* The lines that are read are lines of the file, and more are read for a larger count.
LEMMA ReadLines ==
  ASSUME NEW E, NEW file \in Seq(E), NEW n \in Nat
  PROVE  /\ Read(file, n) \subseteq 1..Len(file) /\ IsFiniteSet(Read(file, n))
         /\ \A k \in Nat : k <= n => Read(file, k) \subseteq Read(file, n)
<1>1. Len(file) \in Nat
  OBVIOUS
<1>2. \A k \in Nat : Read(file, k) = 1..(IF k <= Len(file) THEN k ELSE Len(file))
  BY <1>1, MinOfTwo DEF Read
<1>3. \A b \in Nat : IsFiniteSet(1..b)
  BY FS_Interval
<1> QED
  BY <1>1, <1>2, <1>3, SMTT(30)

LEMMA FiniteImage ==
  ASSUME NEW f, IsFiniteSet(DOMAIN f)
  PROVE  IsFiniteSet({f[x] : x \in DOMAIN f})
<1> DEFINE T == {f[x] : x \in DOMAIN f}
           g == [x \in DOMAIN f |-> f[x]]
<1>1. g \in Surjection(DOMAIN f, T)
  BY DEF Surjection
<1> HIDE DEF g, T
<1>2. IsFiniteSet(T)
  BY <1>1, FS_Surjection
<1> QED
  BY <1>2 DEF T

\* The lines of the files.
LEMMA FileLines ==
  /\ NumberFile \in Seq(Nat \cup {Junk}) /\ \A i \in 1..Len(NumberFile) : NumberFile[i] \in Nat \cup {Junk}
  /\ OrderFile \in Seq(Nat \X Nat \X Nat \X Nat)
  /\ \A i \in 1..Len(OrderFile) : \A j \in 1..4 : OrderFile[i][j] \in Nat
  /\ RatingFile \in Seq(Nat \X Nat) /\ \A i \in 1..Len(RatingFile) : \A j \in 1..2 : RatingFile[i][j] \in Nat
  /\ MapFile \in Seq(Int \X Int) /\ \A i \in 1..Len(MapFile) : \A j \in 1..2 : MapFile[i][j] \in Int
<1>1. NumberFile \in Seq(Nat \cup {Junk})
  BY DataAssumption
<1>2. OrderFile \in Seq(Nat \X Nat \X Nat \X Nat)
  BY DataAssumption
<1>3. RatingFile \in Seq(Nat \X Nat) /\ MapFile \in Seq(Int \X Int)
  BY DataAssumption
<1>4. \A i \in 1..Len(NumberFile) : NumberFile[i] \in Nat \cup {Junk}
  BY <1>1
<1>5. ASSUME NEW i \in 1..Len(OrderFile), NEW j \in 1..4 PROVE OrderFile[i][j] \in Nat
  <2>1. OrderFile[i] \in Nat \X Nat \X Nat \X Nat
    BY <1>2
  <2>2. j = 1 \/ j = 2 \/ j = 3 \/ j = 4
    OBVIOUS
  <2> QED
    BY <2>1, <2>2
<1>6. ASSUME NEW i \in 1..Len(RatingFile), NEW j \in 1..2 PROVE RatingFile[i][j] \in Nat
  <2>1. RatingFile[i] \in Nat \X Nat /\ (j = 1 \/ j = 2)
    BY <1>3
  <2> QED
    BY <2>1
<1>7. ASSUME NEW i \in 1..Len(MapFile), NEW j \in 1..2 PROVE MapFile[i][j] \in Int
  <2>1. MapFile[i] \in Int \X Int /\ (j = 1 \/ j = 2)
    BY <1>3
  <2> QED
    BY <2>1
<1> QED
  BY <1>1, <1>2, <1>3, <1>4, <1>5, <1>6, <1>7

LEMMA NatTimes ==
  ASSUME NEW a \in Nat, NEW b \in Nat
  PROVE  a * b \in Nat
OBVIOUS

LEMMA KeyTypes ==
  /\ WordMax \in Nat \ {0}
  /\ \A w, d, o, n \in Nat : TPCCKey(w, d, o, n) \in Int
  /\ \A r, p \in Nat : ARKey(p, r) \in Int
  /\ \A l \in Nat \cup {Junk} : Converted(l) \in Nat
<1>0. Half \in Nat /\ Half > 0 /\ kMaxDPerW \in Nat /\ kMaxOrderPD \in Nat
  BY DataAssumption
<1>1. WordMax \in Nat \ {0}
  <2>1. Half * Half \in Nat /\ Half * Half > 0
    BY <1>0
  <2> QED
    BY <2>1 DEF WordMax
<1>2. ASSUME NEW w \in Nat, NEW d \in Nat, NEW o \in Nat, NEW n \in Nat
      PROVE  TPCCKey(w, d, o, n) \in Int
  <2> DEFINE s == DistrictOf(w, d)
             t == s * kMaxOrderPD + o
             u == t * Half + n
  <2>1. s \in Nat
    <3>1. w * kMaxDPerW \in Nat
      BY <1>0, NatTimes
    <3> QED
      BY <3>1 DEF DistrictOf
  <2>2. t \in Nat
    <3>1. s * kMaxOrderPD \in Nat
      BY <1>0, <2>1, NatTimes
    <3> QED
      BY <3>1
  <2>3. u \in Nat
    <3> HIDE DEF t
    <3>1. t * Half \in Nat
      BY <1>0, <2>2, NatTimes
    <3> QED
      BY <3>1
  <2>4. TPCCKey(w, d, o, n) = u % WordMax
    BY DEF TPCCKey
  <2> HIDE DEF u
  <2> QED
    BY <1>1, <2>3, <2>4
<1>3. ASSUME NEW r \in Nat, NEW p \in Nat
      PROVE  ARKey(p, r) \in Int
  <2>1. r % Half \in Nat /\ p % Half \in Nat
    BY <1>0
  <2> DEFINE x == r % Half
             y == p % Half
  <2>2. ARKey(p, r) = x * Half + y
    BY DEF ARKey
  <2> HIDE DEF x, y
  <2>3. x * Half \in Nat
    BY <1>0, <2>1, NatTimes DEF x
  <2> QED
    BY <2>1, <2>2, <2>3 DEF y
<1>4. ASSUME NEW l \in Nat \cup {Junk}
      PROVE  Converted(l) \in Nat
  BY DEF Converted
<1> QED
  BY <1>1, <1>2, <1>3, <1>4

\* What is inserted is a finite set of keys with their values.
FileRow(i) == <<Converted(NumberFile[i]), Converted(NumberFile[i])>>
OrderRow(i) == TPCCRow(OrderFile[i])
RatingRow(i) == <<ARKey(RatingFile[i][2], RatingFile[i][1]), RatingFile[i][1]>>
MapRow(i) == <<MapScalar(MapFile[i][2], MapFile[i][1]), MapFile[i][2]>>

LEMMA RowTypes ==
  /\ \A i \in 1..Len(NumberFile) : FileRow(i) \in Int \X Int
  /\ \A i \in 1..Len(OrderFile) : OrderRow(i) \in Int \X Int
  /\ \A i \in 1..Len(RatingFile) : RatingRow(i) \in Int \X Int
  /\ \A i \in 1..Len(MapFile) : MapRow(i) \in Int \X Int
<1>1. ASSUME NEW i \in 1..Len(NumberFile)
      PROVE  FileRow(i) \in Int \X Int
  <2>1. Converted(NumberFile[i]) \in Nat
    BY FileLines, KeyTypes
  <2> QED
    BY <2>1 DEF FileRow
<1>2. ASSUME NEW i \in 1..Len(OrderFile)
      PROVE  OrderRow(i) \in Int \X Int
  <2>1. /\ OrderFile[i][1] \in Nat /\ OrderFile[i][2] \in Nat
        /\ OrderFile[i][3] \in Nat /\ OrderFile[i][4] \in Nat
    BY FileLines
  <2>2. TPCCKey(OrderFile[i][1], OrderFile[i][2], OrderFile[i][3], OrderFile[i][4]) \in Int
    BY <2>1, KeyTypes
  <2> QED
    BY <2>1, <2>2 DEF OrderRow, TPCCRow
<1>3. ASSUME NEW i \in 1..Len(RatingFile)
      PROVE  RatingRow(i) \in Int \X Int
  <2>1. RatingFile[i][1] \in Nat /\ RatingFile[i][2] \in Nat
    BY FileLines
  <2>2. ARKey(RatingFile[i][2], RatingFile[i][1]) \in Int
    BY <2>1, KeyTypes
  <2> QED
    BY <2>1, <2>2 DEF RatingRow
<1>4. ASSUME NEW i \in 1..Len(MapFile)
      PROVE  MapRow(i) \in Int \X Int
  <2>1. MapFile[i][1] \in Int /\ MapFile[i][2] \in Int
    BY FileLines
  <2> QED
    BY <2>1 DEF MapRow, MapScalar
<1> QED
  BY <1>1, <1>2, <1>3, <1>4

LEMMA RowsTyped ==
  ASSUME NEW data \in {"linear", "file", "log", "tpcc", "ar", "map"}, NEW n \in Nat
  PROVE  Rows(data, n) \subseteq Int \X Int /\ IsFiniteSet(Rows(data, n))
<1>0. AfterUse(n) \in Nat /\ n + 1 \in Nat
  BY MaxOfTwo DEF AfterUse
<1>1. CASE data = "linear"
  <2> DEFINE f == [k \in 0..(n - 1) |-> <<k, k>>]
  <2>1. IsFiniteSet(DOMAIN f) /\ DOMAIN f = 0..(n - 1) /\ \A k \in 0..(n - 1) : f[k] = <<k, k>>
    BY FS_Interval
  <2> HIDE DEF f
  <2>2. Rows(data, n) = {f[k] : k \in DOMAIN f}
    BY <1>1, <2>1 DEF Rows, YCSBLinear
  <2>3. ASSUME NEW k \in DOMAIN f PROVE f[k] \in Int \X Int
    <3>1. k \in 0..(n - 1) /\ f[k] = <<k, k>>
      BY <2>1
    <3> QED
      BY <3>1
  <2> QED
    BY <2>1, <2>2, <2>3, FiniteImage
<1>2. CASE data \in {"file", "log"}
  <2> DEFINE I == Read(NumberFile, n)
             f == [i \in I |-> FileRow(i)]
  <2>1. I \subseteq 1..Len(NumberFile) /\ IsFiniteSet(I)
    BY <1>0, ReadLines, FileLines
  <2>2. DOMAIN f = I /\ \A i \in I : f[i] = FileRow(i)
    OBVIOUS
  <2>3. Rows(data, n) = {FileRow(i) : i \in I}
    BY <1>2 DEF Rows, YCSBFile, LogFile, FileRow
  <2> HIDE DEF f, I
  <2>4. Rows(data, n) = {f[i] : i \in DOMAIN f}
    BY <2>2, <2>3
  <2>5. ASSUME NEW i \in DOMAIN f PROVE f[i] \in Int \X Int
    <3>1. i \in 1..Len(NumberFile) /\ f[i] = FileRow(i)
      BY <2>1, <2>2
    <3> QED
      BY <3>1, RowTypes, Zenon
  <2> QED
    BY <2>1, <2>2, <2>4, <2>5, FiniteImage
<1>3. CASE data = "tpcc"
  <2> DEFINE I == Read(OrderFile, AfterUse(n))
             f == [i \in I |-> OrderRow(i)]
  <2>1. I \subseteq 1..Len(OrderFile) /\ IsFiniteSet(I)
    BY <1>0, ReadLines, FileLines
  <2>2. DOMAIN f = I /\ \A i \in I : f[i] = OrderRow(i)
    OBVIOUS
  <2>3. Rows(data, n) = {OrderRow(i) : i \in I}
    BY <1>3 DEF Rows, TPCCFile, OrderRow
  <2> HIDE DEF f, I
  <2>4. Rows(data, n) = {f[i] : i \in DOMAIN f}
    BY <2>2, <2>3
  <2>5. ASSUME NEW i \in DOMAIN f PROVE f[i] \in Int \X Int
    <3>1. i \in 1..Len(OrderFile) /\ f[i] = OrderRow(i)
      BY <2>1, <2>2
    <3> QED
      BY <3>1, RowTypes, Zenon
  <2> QED
    BY <2>1, <2>2, <2>4, <2>5, FiniteImage
<1>4. CASE data = "ar"
  <2> DEFINE I == Read(RatingFile, AfterUse(n))
             f == [i \in I |-> RatingRow(i)]
  <2>1. I \subseteq 1..Len(RatingFile) /\ IsFiniteSet(I)
    BY <1>0, ReadLines, FileLines
  <2>2. DOMAIN f = I /\ \A i \in I : f[i] = RatingRow(i)
    OBVIOUS
  <2>3. Rows(data, n) = {RatingRow(i) : i \in I}
    BY <1>4 DEF Rows, ARFile, RatingRow
  <2> HIDE DEF f, I
  <2>4. Rows(data, n) = {f[i] : i \in DOMAIN f}
    BY <2>2, <2>3
  <2>5. ASSUME NEW i \in DOMAIN f PROVE f[i] \in Int \X Int
    <3>1. i \in 1..Len(RatingFile) /\ f[i] = RatingRow(i)
      BY <2>1, <2>2
    <3> QED
      BY <3>1, RowTypes, Zenon
  <2> QED
    BY <2>1, <2>2, <2>4, <2>5, FiniteImage
<1>5. CASE data = "map"
  <2> DEFINE I == Read(MapFile, n + 1)
             f == [i \in I |-> MapRow(i)]
  <2>1. I \subseteq 1..Len(MapFile) /\ IsFiniteSet(I)
    BY <1>0, ReadLines, FileLines
  <2>2. DOMAIN f = I /\ \A i \in I : f[i] = MapRow(i)
    OBVIOUS
  <2>3. Rows(data, n) = {MapRow(i) : i \in I}
    BY <1>5 DEF Rows, MapRows, MapRow
  <2> HIDE DEF f, I
  <2>4. Rows(data, n) = {f[i] : i \in DOMAIN f}
    BY <2>2, <2>3
  <2>5. ASSUME NEW i \in DOMAIN f PROVE f[i] \in Int \X Int
    <3>1. i \in 1..Len(MapFile) /\ f[i] = MapRow(i)
      BY <2>1, <2>2
    <3> QED
      BY <3>1, RowTypes, Zenon
  <2> QED
    BY <2>1, <2>2, <2>4, <2>5, FiniteImage
<1> QED
  BY <1>1, <1>2, <1>3, <1>4, <1>5

\* A client that asks for no more keys than were loaded asks for loaded keys.
LEMMA AskedAreLoaded ==
  ASSUME NEW data \in {"linear", "file", "log", "tpcc", "ar", "map"}, NEW n \in Nat, NEW k \in Nat
  PROVE  /\ AskedKeys(data, k) \subseteq Int
         /\ k <= n => AskedKeys(data, k) \subseteq {r[1] : r \in Rows(data, n)}
<1>0. AfterUse(n) \in Nat /\ AfterUse(k) \in Nat /\ (k <= n => AfterUse(k) <= AfterUse(n))
  BY MaxOfTwo DEF AfterUse
<1>1. CASE data = "linear"
  <2>1. AskedKeys(data, k) = 0..(k - 1)
    BY <1>1 DEF AskedKeys, UniformKeys
  <2>2. ASSUME k <= n, NEW x \in 0..(k - 1)
        PROVE  x \in {r[1] : r \in Rows(data, n)}
    <3>1. <<x, x>> \in Rows(data, n)
      BY <1>1, <2>2 DEF Rows, YCSBLinear
    <3>2. <<x, x>>[1] = x
      OBVIOUS
    <3> QED
      BY <3>1, <3>2, Zenon
  <2> QED
    BY <2>1, <2>2
<1>2. CASE data \in {"file", "log"}
  <2> DEFINE I == Read(NumberFile, n)
             J == Read(NumberFile, k)
  <2>1. J \subseteq 1..Len(NumberFile) /\ (k <= n => J \subseteq I)
    BY <1>0, ReadLines, FileLines
  <2>2. Rows(data, n) = {FileRow(i) : i \in I}
    BY <1>2 DEF Rows, YCSBFile, LogFile, FileRow
  <2>3. AskedKeys(data, k) = {FileRow(i)[1] : i \in J}
    BY <1>2 DEF AskedKeys, YCSBKeys, LogKeys, FileRow
  <2> HIDE DEF I, J
  <2>4. \A i \in J : FileRow(i)[1] \in Int
    BY <2>1, RowTypes
  <2> QED
    BY <2>1, <2>2, <2>3, <2>4
<1>3. CASE data = "tpcc"
  <2> DEFINE I == Read(OrderFile, AfterUse(n))
             J == Read(OrderFile, AfterUse(k))
  <2>1. J \subseteq 1..Len(OrderFile) /\ (k <= n => J \subseteq I)
    BY <1>0, ReadLines, FileLines
  <2>2. Rows(data, n) = {OrderRow(i) : i \in I}
    BY <1>3 DEF Rows, TPCCFile, OrderRow
  <2>3. AskedKeys(data, k) = {OrderRow(i)[1] : i \in J}
    BY <1>3 DEF AskedKeys, TPCCKeys, OrderRow
  <2> HIDE DEF I, J
  <2>4. \A i \in J : OrderRow(i)[1] \in Int
    BY <2>1, RowTypes
  <2> QED
    BY <2>1, <2>2, <2>3, <2>4
<1>4. CASE data \in {"ar", "map"}
  BY <1>4 DEF AskedKeys
<1> QED
  BY <1>1, <1>2, <1>3, <1>4

-----------------------------------------------------------------------------
(* The index. *)

\* Lesser members of a finite set, and members of a finite set in their order.
Lesser(S, l) == {j \in S : j < l}

LEMMA LesserCount ==
  ASSUME NEW S \in SUBSET Int, IsFiniteSet(S), NEW k \in S
  PROVE  /\ Cardinality(S) \in Nat \ {0} /\ Cardinality(Lesser(S, k)) \in 0..(Cardinality(S) - 1)
         /\ \A l \in S : k < l => Cardinality(Lesser(S, k)) < Cardinality(Lesser(S, l))
<1>1. \A l \in S : IsFiniteSet(Lesser(S, l)) /\ Lesser(S, l) \subseteq S
  BY FS_Subset DEF Lesser
<1>2. \A l \in S : Cardinality(Lesser(S, l)) \in Nat
  BY <1>1, FS_CardinalityType
<1>3. Cardinality(S) \in Nat
  BY FS_CardinalityType
<1>4. k \notin Lesser(S, k)
  BY DEF Lesser
<1>5. Cardinality(Lesser(S, k)) <= Cardinality(S) /\ Cardinality(Lesser(S, k)) # Cardinality(S)
  BY <1>1, <1>4, FS_Subset
<1>6. ASSUME NEW l \in S, k < l
      PROVE  Cardinality(Lesser(S, k)) < Cardinality(Lesser(S, l))
  <2>0. k \in Int /\ l \in Int /\ \A j \in S : j \in Int
    OBVIOUS
  <2>1. Lesser(S, k) \subseteq Lesser(S, l) /\ k \in Lesser(S, l)
    <3>1. \A j \in S : j < k => j < l
      BY <1>6, <2>0
    <3> QED
      BY <1>6, <3>1 DEF Lesser
  <2>2. Cardinality(Lesser(S, k)) <= Cardinality(Lesser(S, l))
        /\ Cardinality(Lesser(S, k)) # Cardinality(Lesser(S, l))
    BY <1>1, <1>4, <2>1, FS_Subset
  <2> QED
    BY <1>2, <2>2
<1> QED
  BY <1>2, <1>3, <1>5, <1>6

LEMMA InOrderCovers ==
  ASSUME NEW S \in SUBSET Int, IsFiniteSet(S)
  PROVE  /\ InOrder(S) \in Seq(S)
         /\ \A l \in S : \E i \in DOMAIN InOrder(S) : InOrder(S)[i] = l
<1> DEFINE n == Cardinality(S)
           r == [l \in S |-> Cardinality(Lesser(S, l)) + 1]
<1>1. n \in Nat
  BY FS_CardinalityType
<1>2. \A l \in S : r[l] \in 1..n
  BY <1>1, LesserCount
<1>3. ASSUME NEW k \in S, NEW l \in S, Cardinality(Lesser(S, k)) = Cardinality(Lesser(S, l))
      PROVE  k = l
  <2>1. ~(k < l) /\ ~(l < k)
    BY <1>3, LesserCount
  <2> QED
    BY <2>1
<1>4. \A k, l \in S : r[k] = r[l] => k = l
  BY <1>3, LesserCount
<1>5. r \in Injection(S, 1..n)
  BY <1>2, <1>4 DEF Injection, IsInjective
<1>6. IsFiniteSet(1..n) /\ Cardinality(1..n) = n
  BY <1>1, FS_Interval
<1>7. r \in Surjection(S, 1..n)
  BY <1>5, <1>6, FS_Injection
<1>8. \A i \in 1..n : \E l \in S : r[l] = i
  BY <1>7 DEF Surjection
<1>9. \A l \in S : r[l] = Cardinality(Lesser(S, l)) + 1 /\ Cardinality(Lesser(S, l)) \in Nat
  BY LesserCount
<1> HIDE DEF r
<1>10. DOMAIN InOrder(S) = 1..n /\ InOrder(S) = [i \in 1..n |-> InOrder(S)[i]]
       /\ \A i \in 1..n : InOrder(S)[i] = CHOOSE l \in S : Cardinality(Lesser(S, l)) = i - 1
  BY SMTT(30) DEF InOrder, Lesser
<1>11. ASSUME NEW i \in 1..n, NEW l \in S, r[l] = i
       PROVE  InOrder(S)[i] = l
  <2>1. Cardinality(Lesser(S, l)) = i - 1
    BY <1>1, <1>9, <1>11
  <2>2. \A k \in S : Cardinality(Lesser(S, k)) = i - 1 => k = l
    BY <1>3, <2>1
  <2> QED
    BY <1>10, <2>1, <2>2
<1>12. \A i \in 1..n : InOrder(S)[i] \in S
  BY <1>8, <1>11
<1>13. InOrder(S) \in Seq(S)
  <2> DEFINE g == InOrder(S)
  <2>1. g = [i \in 1..n |-> g[i]] /\ \A i \in 1..n : g[i] \in S
    BY <1>10, <1>12
  <2> HIDE DEF g
  <2>2. g \in [1..n -> S]
    BY <2>1
  <2> HIDE DEF n
  <2>3. g \in Seq(S)
    BY <1>1, <2>2
  <2> QED
    BY <2>3 DEF g
<1>14. \A l \in S : InOrder(S)[r[l]] = l
  BY <1>2, <1>11
<1> QED
  BY <1>2, <1>10, <1>13, <1>14

\* A fraction of a number of parts is one of them.
LEMMA PartOf ==
  ASSUME NEW r \in Nat, NEW n \in Nat, NEW parts \in Nat \ {0}, r < n
  PROVE  (r * parts) \div n \in 0..(parts - 1)
<1> DEFINE a == r * parts
<1>1. a \in Nat /\ r + 1 <= n /\ n > 0
  BY NatTimes
<1>2. (r + 1) * parts = a + parts
  OBVIOUS
<1>3. (n - r - 1) \in Nat /\ (n - r - 1) * parts >= 0
  <2>1. n - r - 1 \in Nat
    BY <1>1
  <2> QED
    BY <2>1, NatTimes
<1>4. n * parts = (r + 1) * parts + (n - r - 1) * parts
  BY <1>1
<1>5. n * parts \in Nat /\ (n - r - 1) * parts \in Int
  BY <1>3, NatTimes
<1>6. a < n * parts
  BY <1>1, <1>2, <1>3, <1>4, <1>5
<1> HIDE DEF a
<1>7. a \div n \in Nat /\ a = (n * (a \div n)) + (a % n) /\ a % n \in Nat
  BY <1>1
<1> DEFINE d == a \div n
<1>8. d \in Nat /\ n * d \in Nat /\ n * d <= a
  BY <1>7, NatTimes
<1> HIDE DEF d
<1>9. ASSUME d >= parts PROVE FALSE
  <2>1. d - parts \in Nat
    BY <1>8, <1>9
  <2>2. n * (d - parts) \in Nat
    BY <2>1, NatTimes
  <2>3. n * d = n * parts + n * (d - parts)
    BY <1>8
  <2> QED
    BY <1>1, <1>5, <1>6, <1>8, <2>2, <2>3
<1> QED
  BY <1>8, <1>9 DEF a, d

\* The rows of the server are loaded.
RowsInv == db \subseteq Int \X Int /\ IsFiniteSet(db)

LEMMA KeysTyped ==
  ASSUME RowsInv
  PROVE  /\ StoredKeys \subseteq Int /\ IsFiniteSet(StoredKeys)
         /\ \A k \in StoredKeys : ValueOf(k) \in Int
<1>1. StoredKeys \subseteq Int
  BY DEF RowsInv, StoredKeys
<1>2. IsFiniteSet(StoredKeys)
  <2> DEFINE f == [r \in db |-> r[1]]
  <2>1. DOMAIN f = db /\ \A r \in db : f[r] = r[1]
    OBVIOUS
  <2> HIDE DEF f
  <2>2. StoredKeys = {f[r] : r \in DOMAIN f}
    BY <2>1 DEF StoredKeys
  <2> QED
    BY <2>1, <2>2, FiniteImage DEF RowsInv
<1>3. ASSUME NEW k \in StoredKeys PROVE ValueOf(k) \in Int
  <2>1. PICK r \in db : r[1] = k
    BY DEF StoredKeys
  <2>2. (CHOOSE x \in db : x[1] = k) \in db
    BY <2>1
  <2> QED
    BY <2>2 DEF ValueOf, RowsInv
<1> QED
  BY <1>1, <1>2, <1>3

\* Every key has a leaf and a submodel.
LEMMA KeyPlaces ==
  ASSUME RowsInv, flags.nsub \in Nat \ {0}, NEW k \in StoredKeys
  PROVE  LeafOf(k) \in Nat /\ SubOf(k) \in 1..flags.nsub
<1> DEFINE n == Cardinality(StoredKeys)
<1>1. Rank(k) \in Nat /\ n \in Nat \ {0} /\ Rank(k) < n
  BY KeysTyped, LesserCount DEF Rank, Lesser
<1>2. Max({1, n}) = n
  BY <1>1, MaxOfTwo
<1> HIDE DEF n
<1>3. (Rank(k) * flags.nsub) \div n \in 0..(flags.nsub - 1)
  BY <1>1, PartOf
<1>4. SubOf(k) = (Rank(k) * flags.nsub) \div n + 1
  BY <1>2 DEF SubOf, n
<1>5. Rank(k) \div LeafKeys \in Nat
  BY <1>1, ServiceAssumption
<1> QED
  BY <1>3, <1>4, <1>5 DEF LeafOf

LEMMA TablesTyped ==
  ASSUME RowsInv, flags.nsub \in Nat \ {0}
  PROVE  /\ \A m \in 1..flags.nsub : TrainedTT(m) \in Seq(Nat)
         /\ \A k \in StoredKeys : \E j \in DOMAIN TrainedTT(SubOf(k)) : TrainedTT(SubOf(k))[j] = LeafOf(k)
<1> DEFINE S(m) == {LeafOf(k) : k \in {j \in StoredKeys : SubOf(j) = m}}
<1>1. ASSUME NEW m PROVE S(m) \subseteq Nat /\ S(m) \subseteq Int /\ IsFiniteSet(S(m))
  <2> DEFINE f == [k \in {j \in StoredKeys : SubOf(j) = m} |-> LeafOf(k)]
  <2>1. \A k \in StoredKeys : LeafOf(k) \in Nat
    BY KeyPlaces
  <2>2. IsFiniteSet({j \in StoredKeys : SubOf(j) = m})
    BY KeysTyped, FS_Subset
  <2>3. DOMAIN f = {j \in StoredKeys : SubOf(j) = m} /\ \A k \in DOMAIN f : f[k] = LeafOf(k)
    OBVIOUS
  <2> HIDE DEF f
  <2>4. S(m) = {f[k] : k \in DOMAIN f}
    BY <2>3
  <2>5. IsFiniteSet(S(m))
    BY <2>2, <2>3, <2>4, FiniteImage
  <2> QED
    BY <2>1, <2>5
<1>2. \A m : TrainedTT(m) = InOrder(S(m))
  BY DEF TrainedTT
<1>3. \A k \in StoredKeys : LeafOf(k) \in S(SubOf(k))
  OBVIOUS
<1> HIDE DEF S
<1>4. ASSUME NEW m PROVE TrainedTT(m) \in Seq(Nat)
                         /\ \A l \in S(m) : \E j \in DOMAIN TrainedTT(m) : TrainedTT(m)[j] = l
  <2>1. InOrder(S(m)) \in Seq(S(m)) /\ \A l \in S(m) : \E j \in DOMAIN InOrder(S(m)) : InOrder(S(m))[j] = l
    BY <1>1, InOrderCovers
  <2>2. InOrder(S(m)) \in Seq(Nat)
    BY <1>1, <2>1
  <2> QED
    BY <1>2, <2>1, <2>2
<1> QED
  BY <1>3, <1>4

-----------------------------------------------------------------------------
(* The image of the index. *)

\* The first M sequences of T one behind the other, as FlattenSeq builds them.
IsFlat(f, M, T) == f = [i \in 1..M |-> IF i = 1 THEN T[i] ELSE f[i - 1] \o T[i]]

\* A recursive function over an interval exists.
LEMMA FlatExists ==
  ASSUME NEW T
  PROVE  \A M \in Nat : \E f : IsFlat(f, M, T)
<1> DEFINE B == {M \in Nat : ~ \E f : IsFlat(f, M, T)}
<1>1. SUFFICES ASSUME B # {} PROVE FALSE
  OBVIOUS
<1>2. PICK M \in B : \A E \in B : M <= E
  <2>1. B \in SUBSET Nat
    OBVIOUS
  <2> HIDE DEF B
  <2> QED
    BY <1>1, <2>1, NatMin
<1>3. CASE M = 0
  <2> DEFINE f == [i \in 1..0 |-> T[1]]
  <2>1. \A i \in 1..0 : FALSE
    OBVIOUS
  <2>2. IsFlat(f, 0, T)
    BY <2>1 DEF IsFlat
  <2> QED
    BY <1>2, <1>3, <2>2
<1>4. CASE M # 0
  <2>1. M - 1 \in Nat /\ M - 1 \notin B /\ M \in Nat
    BY <1>2, <1>4, SMTT(30)
  <2>2. PICK u : IsFlat(u, M - 1, T)
    BY <2>1
  <2> DEFINE f == [i \in 1..M |-> IF i = M THEN (IF M = 1 THEN T[M] ELSE u[M - 1] \o T[M]) ELSE u[i]]
  <2>3. \A i \in 1..(M - 1) : u[i] = IF i = 1 THEN T[i] ELSE u[i - 1] \o T[i]
    BY <2>2 DEF IsFlat
  <2>4. \A i \in 1..M : f[i] = IF i = M THEN (IF M = 1 THEN T[M] ELSE u[M - 1] \o T[M]) ELSE u[i]
    OBVIOUS
  <2>5. f = [i \in 1..M |-> f[i]]
    OBVIOUS
  <2> HIDE DEF f
  <2>6. ASSUME NEW i \in 1..M PROVE f[i] = IF i = 1 THEN T[i] ELSE f[i - 1] \o T[i]
    <3>1. CASE i = M
      <4>1. CASE i = 1
        BY <2>4, <3>1, <4>1
      <4>2. CASE i # 1
        <5>1. i - 1 \in 1..M /\ i - 1 # M
          BY <2>1, <3>1, <4>2
        <5>2. f[i - 1] = u[M - 1]
          BY <2>4, <3>1, <5>1
        <5> QED
          BY <2>4, <3>1, <4>2, <5>2
      <4> QED
        BY <4>1, <4>2
    <3>2. CASE i # M
      <4>1. i \in 1..(M - 1) /\ (i # 1 => i - 1 \in 1..M /\ i - 1 # M)
        BY <2>1, <3>2
      <4> QED
        BY <2>3, <2>4, <3>2, <4>1
    <3> QED
      BY <3>1, <3>2
  <2>7. IsFlat(f, M, T)
    BY <2>5, <2>6 DEF IsFlat
  <2> QED
    BY <1>2, <2>7
<1> QED
  BY <1>3, <1>4

\* F holds the first M sequences of T; the one with number i ends at off[i].
Concat(F, T, M, off) ==
  /\ off \in [0..M -> Nat] /\ off[0] = 0
  /\ \A i \in 1..M : off[i] = off[i - 1] + Len(T[i])
  /\ F \in Seq(Int) /\ Len(F) = off[M]
  /\ \A i \in 1..M : off[i] <= Len(F) /\ \A j \in 1..Len(T[i]) : F[off[i - 1] + j] = T[i][j]

LEMMA ConcatOne ==
  ASSUME NEW T, T[1] \in Seq(Int)
  PROVE  \E off : Concat(T[1], T, 1, off)
<1> DEFINE off == [i \in 0..1 |-> IF i = 0 THEN 0 ELSE Len(T[1])]
<1>1. Len(T[1]) \in Nat
  OBVIOUS
<1>2. off \in [0..1 -> Nat] /\ off[0] = 0 /\ off[1] = Len(T[1])
  BY <1>1
<1> HIDE DEF off
<1>3. \A i \in 1..1 : i = 1 /\ i - 1 = 0
  OBVIOUS
<1>4. \A j \in 1..Len(T[1]) : 0 + j = j
  OBVIOUS
<1>5. Concat(T[1], T, 1, off)
  BY <1>1, <1>2, <1>3, <1>4 DEF Concat
<1> QED
  BY <1>5

LEMMA ConcatStep ==
  ASSUME NEW T, NEW M \in Nat \ {0}, NEW F, NEW off, Concat(F, T, M, off), T[M + 1] \in Seq(Int)
  PROVE  \E off2 : Concat(F \o T[M + 1], T, M + 1, off2)
<1> DEFINE t == T[M + 1]
           G == F \o t
           off2 == [i \in 0..(M + 1) |-> IF i = M + 1 THEN off[M] + Len(t) ELSE off[i]]
<1>1. /\ off \in [0..M -> Nat] /\ off[0] = 0
      /\ \A i \in 1..M : off[i] = off[i - 1] + Len(T[i])
      /\ F \in Seq(Int) /\ Len(F) = off[M]
      /\ \A i \in 1..M : off[i] <= Len(F)
      /\ \A i \in 1..M : \A j \in 1..Len(T[i]) : F[off[i - 1] + j] = T[i][j]
  BY DEF Concat
<1>2. t \in Seq(Int) /\ Len(t) \in Nat /\ Len(F) \in Nat
  BY <1>1
<1> HIDE DEF t
<1>3. /\ G \in Seq(Int) /\ Len(G) = Len(F) + Len(t)
      /\ \A p \in 1..Len(F) : G[p] = F[p]
      /\ \A p \in 1..Len(t) : G[Len(F) + p] = t[p]
  <2>1. F \in Seq(Int)
    BY <1>1
  <2>2. G \in Seq(Int) /\ Len(G) = Len(F) + Len(t)
    BY <1>2, <2>1
  <2>3. \A p \in 1..Len(F) : G[p] = F[p]
    BY <1>2, <2>1
  <2>4. ASSUME NEW p \in 1..Len(t) PROVE G[Len(F) + p] = t[p]
    BY <1>2, <2>1
  <2> QED
    BY <2>2, <2>3, <2>4
<1>4. off2[M + 1] = off[M] + Len(t) /\ \A i \in 0..M : off2[i] = off[i]
  <2>1. M + 1 \in 0..(M + 1) /\ \A i \in 0..M : i \in 0..(M + 1) /\ i # M + 1
    OBVIOUS
  <2> QED
    BY <2>1
<1>5. off2 \in [0..(M + 1) -> Nat]
  BY <1>1, <1>2
<1> HIDE DEF off2, G
<1>6. ASSUME NEW i \in 1..(M + 1), i # M + 1
      PROVE  /\ off2[i] = off2[i - 1] + Len(T[i]) /\ off2[i] <= Len(G)
             /\ \A j \in 1..Len(T[i]) : G[off2[i - 1] + j] = T[i][j]
  <2>1. i \in 1..M /\ i \in 0..M /\ i - 1 \in 0..M
    BY <1>6
  <2>2. off2[i] = off[i] /\ off2[i - 1] = off[i - 1] /\ off[i] = off[i - 1] + Len(T[i]) /\ off[i] <= Len(F)
        /\ off[i - 1] \in Nat /\ off[i] \in Nat
    BY <1>1, <1>4, <2>1
  <2>3. ASSUME NEW j \in 1..Len(T[i]) PROVE G[off2[i - 1] + j] = T[i][j]
    <3>0. Len(T[i]) \in Int
      BY <2>2, <2>3
    <3>1. off[i - 1] + j \in 1..Len(F)
      BY <1>2, <2>2, <2>3, SMTT(30)
    <3>2. F[off[i - 1] + j] = T[i][j]
      BY <1>1, <2>1
    <3> QED
      BY <1>3, <2>2, <3>1, <3>2, SMTT(30)
  <2> QED
    BY <1>2, <1>3, <2>2, <2>3
<1>7. /\ off2[M + 1] = off2[(M + 1) - 1] + Len(T[M + 1]) /\ off2[M + 1] = Len(G)
      /\ \A j \in 1..Len(T[M + 1]) : G[off2[(M + 1) - 1] + j] = T[M + 1][j]
  <2>1. (M + 1) - 1 = M /\ M \in 0..M /\ off2[M] = off[M]
    BY <1>4
  <2> QED
    <3>1. off2[(M + 1) - 1] = Len(F) /\ Len(F) = off[M] /\ T[M + 1] = t
      BY <1>1, <2>1 DEF t
    <3>2. off2[M + 1] = off2[(M + 1) - 1] + Len(T[M + 1]) /\ off2[M + 1] = Len(G)
      BY <1>3, <1>4, <3>1
    <3>3. ASSUME NEW j \in 1..Len(T[M + 1])
          PROVE  G[off2[(M + 1) - 1] + j] = T[M + 1][j]
      BY <1>3, <3>1
    <3> QED
      BY <3>2, <3>3
<1>8. off2[0] = 0
  BY <1>1, <1>4
<1>9. Len(G) \in Nat
  BY <1>2, <1>3
<1>10. ASSUME NEW i \in 1..(M + 1)
       PROVE  /\ off2[i] = off2[i - 1] + Len(T[i]) /\ off2[i] <= Len(G)
              /\ \A j \in 1..Len(T[i]) : G[off2[i - 1] + j] = T[i][j]
  <2>1. CASE i # M + 1
    BY <1>6, <2>1
  <2>2. CASE i = M + 1
    <3>1. off2[i] <= Len(G)
      BY <1>7, <1>9, <2>2
    <3> QED
      BY <1>7, <2>2, <3>1
  <2> QED
    BY <2>1, <2>2
<1>11. Concat(G, T, M + 1, off2)
  BY <1>3, <1>5, <1>7, <1>8, <1>10 DEF Concat
<1> QED
  BY <1>11 DEF G, t

LEMMA FlattenParts ==
  ASSUME NEW M \in Nat \ {0}, NEW T \in [1..M -> Seq(Int)]
  PROVE  \E off : Concat(FlattenSeq(T), T, M, off)
<1>1. Len(T) = M /\ M # 0
  OBVIOUS
<1>2. PICK g : IsFlat(g, M, T)
  BY FlatExists
<1> DEFINE f == CHOOSE h : IsFlat(h, M, T)
<1>3. IsFlat(f, M, T)
  BY <1>2
<1>4. FlattenSeq(T) = f[M]
  BY <1>1 DEF FlattenSeq, IsFlat
<1> HIDE DEF f
<1>5. \A i \in 1..M : f[i] = IF i = 1 THEN T[i] ELSE f[i - 1] \o T[i]
  BY <1>3 DEF IsFlat
<1> DEFINE B == {k \in Nat \ {0} : k <= M /\ ~ \E off : Concat(f[k], T, k, off)}
<1>6. ASSUME B # {} PROVE FALSE
  <2>1. B \in SUBSET Nat
    OBVIOUS
  <2>2. PICK k \in B : \A l \in B : k <= l
    <3> HIDE DEF B
    <3> QED
      BY <1>6, <2>1, NatMin
  <2>3. k \in 1..M /\ k \in Nat \ {0}
    OBVIOUS
  <2>4. CASE k = 1
    <3>1. f[k] = T[1] /\ T[1] \in Seq(Int)
      BY <1>5, <2>3, <2>4
    <3> QED
      BY <2>4, <3>1, ConcatOne
  <2>5. CASE k # 1
    <3>1. k - 1 \in 1..M /\ k - 1 \in Nat \ {0} /\ k - 1 <= M /\ ~(k <= k - 1) /\ (k - 1) + 1 = k
      BY <2>3, <2>5
    <3>2. k - 1 \notin B
      BY <2>2, <3>1
    <3>3. PICK off : Concat(f[k - 1], T, k - 1, off)
      BY <3>1, <3>2
    <3>4. T[k] \in Seq(Int) /\ f[k] = f[k - 1] \o T[k]
      BY <1>5, <2>3, <2>5
    <3>5. \E off2 : Concat(f[k - 1] \o T[k], T, k, off2)
      <4> DEFINE n == k - 1
      <4>1. n \in Nat \ {0} /\ n + 1 = k /\ T[n + 1] \in Seq(Int) /\ Concat(f[n], T, n, off)
        BY <3>1, <3>3, <3>4
      <4> HIDE DEF n
      <4>2. \E off2 : Concat(f[n] \o T[n + 1], T, n + 1, off2)
        BY <4>1, ConcatStep
      <4>3. f[n] = f[k - 1]
        BY DEF n
      <4> QED
        BY <4>1, <4>2, <4>3
    <3> QED
      BY <3>4, <3>5
  <2> QED
    BY <2>4, <2>5
<1>7. M \notin B
  BY <1>6
<1> QED
  BY <1>4, <1>7

\* The cells of a submodel and of a table.
LEMMA ModelSerialized ==
  ASSUME NEW m \in Nat
  PROVE  /\ SerializeModel(m) \in Seq(Int) /\ Len(SerializeModel(m)) = 9
         /\ \A j \in 1..9 : SerializeModel(m)[j] = 16 * m + j
         /\ FromModel(SerializeModel(m)) = m
<1> DEFINE s == SerializeModel(m)
<1>1. s = [j \in 1..9 |-> 16 * m + j]
  BY DEF SerializeModel, ModelCells
<1>2. \A j \in 1..9 : 16 * m + j \in Int
  OBVIOUS
<1>3. s \in Seq(Int) /\ Len(s) = 9 /\ \A j \in 1..9 : s[j] = 16 * m + j
  BY <1>1, <1>2
<1> HIDE DEF s
<1>4. 1 \in 1..9
  OBVIOUS
<1>5. s[1] = 16 * m + 1
  BY <1>3, <1>4
<1>6. (16 * m + 1) \div 16 = m
  OBVIOUS
<1>7. FromModel(s) = IF s = SerializeModel(m) THEN m ELSE Garbage
  BY <1>5, <1>6 DEF FromModel
<1> QED
  BY <1>3, <1>7 DEF s

LEMMA TableSerialized ==
  ASSUME NEW t \in Seq(Nat)
  PROVE  /\ SerializeTT(t) \in Seq(Int) /\ Len(SerializeTT(t)) = 1 + 2 * Len(t)
         /\ SerializeTT(t)[1] = Len(t)
         /\ \A j \in 1..Len(t) : SerializeTT(t)[2 * j] = t[j]
<1> DEFINE n == Len(t)
           e == [j \in 1..(2 * n) |-> IF j % 2 = 1 THEN t[(j + 1) \div 2] ELSE 0]
           s == <<n>> \o e
<1>1. n \in Nat /\ 2 * n \in Nat
  OBVIOUS
<1>2. ASSUME NEW j \in 1..(2 * n), j % 2 = 1 PROVE (j + 1) \div 2 \in 1..n
  BY <1>1, <1>2
<1>3. \A j \in 1..(2 * n) : e[j] \in Int
  BY <1>2
<1>4. \A j \in 1..n : e[2 * j - 1] = t[j]
  <2> TAKE j \in 1..n
  <2>1. 2 * j - 1 \in 1..(2 * n) /\ (2 * j - 1) % 2 = 1 /\ ((2 * j - 1) + 1) \div 2 = j
    BY <1>1
  <2> QED
    BY <2>1
<1>5. e \in [1..(2 * n) -> Int]
  BY <1>3
<1> HIDE DEF e
<1>6. e \in Seq(Int) /\ Len(e) = 2 * n
  <2> DEFINE k == 2 * n
  <2>1. k \in Nat /\ e \in [1..k -> Int]
    BY <1>1, <1>5
  <2> HIDE DEF k
  <2>2. e \in Seq(Int) /\ Len(e) = k
    BY <2>1
  <2> QED
    BY <2>2 DEF k
<1>7. s \in Seq(Int) /\ Len(s) = 1 + 2 * n /\ s[1] = n /\ \A p \in 1..Len(e) : s[1 + p] = e[p]
  <2> HIDE DEF n
  <2>1. <<n>> \in Seq(Int) /\ Len(<<n>>) = 1 /\ <<n>>[1] = n
    BY <1>1
  <2>2. s \in Seq(Int) /\ Len(s) = 1 + Len(e)
    BY <1>6, <2>1
  <2>3. s[1] = n
    BY <1>6, <2>1
  <2>4. ASSUME NEW p \in 1..Len(e) PROVE s[1 + p] = e[p]
    BY <1>6, <2>1
  <2> QED
    BY <1>6, <2>2, <2>3, <2>4
<1>8. SerializeTT(t) = s
  BY DEF SerializeTT, e
<1> HIDE DEF s
<1>9. ASSUME NEW j \in 1..n PROVE s[2 * j] = t[j]
  <2>1. 2 * j - 1 \in 1..Len(e) /\ 1 + (2 * j - 1) = 2 * j
    BY <1>1, <1>6
  <2>2. s[1 + (2 * j - 1)] = e[2 * j - 1]
    BY <1>7, <2>1
  <2> QED
    BY <1>4, <2>1, <2>2
<1> QED
  BY <1>7, <1>8, <1>9

\* Where the image has a submodel or the number of entries and the entries of a table.
ImageHolds(cells, N, tts, start, off) ==
  /\ cells \in Seq(Int)
  /\ \A i \in 1..N : \A j \in 1..9 : Cell(cells, (i - 1) * 9 + j) = 16 * i + j
  /\ start \in Nat /\ start = RoundUp(9 * N, 2)
  /\ off \in [0..N -> Nat] /\ off[0] = 0
  /\ \A i \in 1..N :
       /\ off[i] = off[i - 1] + 1 + 2 * Len(tts[i])
       /\ Cell(cells, start + off[i - 1] + 1) = Len(tts[i])
       /\ \A j \in 1..Len(tts[i]) : Cell(cells, start + off[i - 1] + 2 * j) = tts[i][j]

\* Submodels have the same length.
LEMMA ModelOffsets ==
  ASSUME NEW N \in Nat, NEW off, off[0] = 0, \A i \in 1..N : off[i] = off[i - 1] + 9
  PROVE  \A i \in 0..N : off[i] = 9 * i
<1> DEFINE B == {k \in Nat : k <= N /\ off[k] # 9 * k}
<1>1. ASSUME B # {} PROVE FALSE
  <2>1. B \in SUBSET Nat
    OBVIOUS
  <2>2. PICK k \in B : \A l \in B : k <= l
    <3> HIDE DEF B
    <3> QED
      BY <1>1, <2>1, NatMin
  <2>3. k # 0 /\ k \in 1..N
    OBVIOUS
  <2>4. k - 1 \in Nat /\ k - 1 <= N /\ ~(k <= k - 1)
    BY <2>3
  <2>5. off[k - 1] = 9 * (k - 1)
    BY <2>2, <2>4
  <2> QED
    BY <2>3, <2>5
<1> QED
  BY <1>1

LEMMA RoundUpEven ==
  ASSUME NEW n \in Nat
  PROVE  RoundUp(n, 2) \in Nat /\ RoundUp(n, 2) >= n /\ (n % 2 = 0 => RoundUp(n, 2) = n)
BY DEF RoundUp

\* s holds the cells of a, then as many as b has, then those of c.
ThreePartsOf(s, a, b, c) ==
  /\ s \in Seq(Int)
  /\ \A p \in 1..Len(a) : Cell(s, p) = a[p]
  /\ \A p \in 1..Len(c) : Cell(s, Len(a) + Len(b) + p) = c[p]

\* Reading a sequence that is put together of three.
LEMMA ThreeParts ==
  ASSUME NEW a \in Seq(Int), NEW b \in Seq(Int), NEW c \in Seq(Int)
  PROVE  ThreePartsOf(a \o b \o c, a, b, c)
<1> DEFINE ab == a \o b
           s == ab \o c
<1>1. ab \in Seq(Int) /\ Len(ab) = Len(a) + Len(b) /\ \A p \in 1..Len(a) : ab[p] = a[p]
  OBVIOUS
<1> HIDE DEF ab
<1>0. ab \in Seq(Int)
  BY <1>1
<1>2. s \in Seq(Int) /\ Len(s) = Len(ab) + Len(c)
  BY <1>0
<1>3. \A p \in 1..Len(ab) : s[p] = ab[p]
  BY <1>0
<1>4. ASSUME NEW p \in 1..Len(c) PROVE s[Len(ab) + p] = c[p]
  BY <1>0
<1>5. Len(a) \in Nat /\ Len(b) \in Nat /\ Len(c) \in Nat /\ DOMAIN s = 1..Len(s)
  BY <1>2
<1> HIDE DEF s
<1>6. ASSUME NEW p \in 1..Len(a) PROVE Cell(s, p) = a[p]
  <2>1. p \in 1..Len(ab) /\ p \in DOMAIN s
    BY <1>1, <1>2, <1>5
  <2> QED
    BY <1>1, <1>3, <2>1 DEF Cell
<1>7. ASSUME NEW p \in 1..Len(c) PROVE Cell(s, Len(a) + Len(b) + p) = c[p]
  <2>1. Len(ab) + p \in DOMAIN s
    BY <1>1, <1>2, <1>5
  <2>2. Cell(s, Len(ab) + p) = c[p]
    BY <1>4, <2>1 DEF Cell
  <2> QED
    BY <1>1, <2>2
<1> QED
  BY <1>2, <1>6, <1>7 DEF ThreePartsOf, s, ab

\* serialize_db puts the submodels first, and the tables at the next 8 bytes.
LEMMA ImageIs ==
  ASSUME NEW N \in Nat \ {0}, NEW tts \in [1..N -> Seq(Nat)]
  PROVE  LET img == SerializeDB([m \in 1..N |-> m], tts) IN
         \E off : ImageHolds(img.cells, N, tts, img.tt_buf, off)
<1> DEFINE models == [m \in 1..N |-> m]
           Tm == [i \in DOMAIN models |-> SerializeModel(models[i])]
           Tt == [i \in DOMAIN tts |-> SerializeTT(tts[i])]
           ms == FlattenSeq(Tm)
           start == RoundUp(Len(ms), 2)
           pad == [j \in 1..(start - Len(ms)) |-> 0]
           F == FlattenSeq(Tt)
           cells == ms \o pad \o F
<1>1. SerializeDB(models, tts) = [cells |-> cells, tt_buf |-> start]
  BY DEF SerializeDB
<1>2. \A i \in 1..N : Tm[i] = SerializeModel(i) /\ Tm[i] \in Seq(Int) /\ Len(Tm[i]) = 9
                      /\ \A j \in 1..9 : Tm[i][j] = 16 * i + j
  <2> TAKE i \in 1..N
  <2>1. Tm[i] = SerializeModel(i) /\ i \in Nat
    OBVIOUS
  <2> HIDE DEF Tm
  <2>2. /\ SerializeModel(i) \in Seq(Int) /\ Len(SerializeModel(i)) = 9
        /\ \A j \in 1..9 : SerializeModel(i)[j] = 16 * i + j
    BY <2>1, ModelSerialized
  <2> QED
    BY <2>1, <2>2
<1>3. Tm \in [1..N -> Seq(Int)]
  <2>1. Tm = [i \in 1..N |-> SerializeModel(i)]
    OBVIOUS
  <2>2. \A i \in 1..N : SerializeModel(i) \in Seq(Int)
    BY ModelSerialized
  <2> QED
    BY <2>1, <2>2
<1>4. \A i \in 1..N : Tt[i] = SerializeTT(tts[i]) /\ tts[i] \in Seq(Nat)
  OBVIOUS
<1>5. \A i \in 1..N : SerializeTT(tts[i]) \in Seq(Int)
  BY <1>4, TableSerialized
<1>6. Tt \in [1..N -> Seq(Int)]
  BY <1>5
<1> HIDE DEF models, Tm, Tt
<1>7. PICK om : Concat(ms, Tm, N, om)
  BY <1>3, FlattenParts
<1>8. PICK off : Concat(F, Tt, N, off)
  BY <1>6, FlattenParts
<1> HIDE DEF ms, F
<1>9. /\ ms \in Seq(Int) /\ Len(ms) = om[N] /\ om[0] = 0
      /\ \A i \in 1..N : om[i] = om[i - 1] + 9 /\ om[i] <= Len(ms)
      /\ \A i \in 1..N : \A j \in 1..9 : ms[om[i - 1] + j] = 16 * i + j
  <2>1. ms \in Seq(Int) /\ Len(ms) = om[N] /\ om[0] = 0
    BY <1>7 DEF Concat
  <2>2. ASSUME NEW i \in 1..N
        PROVE  /\ om[i] = om[i - 1] + 9 /\ om[i] <= Len(ms)
               /\ \A j \in 1..9 : ms[om[i - 1] + j] = 16 * i + j
    <3>1. Len(Tm[i]) = 9 /\ \A j \in 1..9 : Tm[i][j] = 16 * i + j
      BY <1>2
    <3>2. /\ om[i] = om[i - 1] + Len(Tm[i]) /\ om[i] <= Len(ms)
          /\ \A j \in 1..Len(Tm[i]) : ms[om[i - 1] + j] = Tm[i][j]
      BY <1>7 DEF Concat
    <3> QED
      BY <3>1, <3>2
  <2> QED
    BY <2>1, <2>2
<1>10. \A i \in 0..N : om[i] = 9 * i
  <2>1. N \in Nat /\ om[0] = 0 /\ \A i \in 1..N : om[i] = om[i - 1] + 9
    BY <1>9
  <2> QED
    BY <2>1, ModelOffsets
<1>11. Len(ms) = 9 * N
  BY <1>9, <1>10
<1>12. start \in Nat /\ start >= Len(ms) /\ start = RoundUp(9 * N, 2)
  BY <1>11, RoundUpEven
<1> HIDE DEF start
<1>13. pad \in Seq(Int) /\ Len(pad) = start - Len(ms)
  <2> DEFINE k == start - Len(ms)
  <2>1. k \in Nat /\ pad = [j \in 1..k |-> 0]
    BY <1>11, <1>12
  <2> HIDE DEF k, pad
  <2>2. pad \in Seq(Int) /\ Len(pad) = k
    BY <2>1
  <2> QED
    BY <2>2 DEF k
<1> HIDE DEF pad
<1>14. /\ F \in Seq(Int) /\ Len(F) = off[N] /\ off[0] = 0 /\ off \in [0..N -> Nat]
       /\ \A i \in 1..N : off[i] = off[i - 1] + Len(Tt[i]) /\ off[i] <= Len(F)
       /\ \A i \in 1..N : \A j \in 1..Len(Tt[i]) : F[off[i - 1] + j] = Tt[i][j]
  BY <1>8 DEF Concat
<1>15. /\ cells \in Seq(Int)
       /\ \A p \in 1..Len(ms) : Cell(cells, p) = ms[p]
       /\ \A p \in 1..Len(F) : Cell(cells, Len(ms) + Len(pad) + p) = F[p]
  <2>1. ms \in Seq(Int) /\ pad \in Seq(Int) /\ F \in Seq(Int)
    BY <1>9, <1>13, <1>14
  <2>2. ThreePartsOf(cells, ms, pad, F)
    BY <2>1, ThreeParts
  <2> QED
    BY <2>2 DEF ThreePartsOf
<1> HIDE DEF cells
<1>16. Len(ms) + Len(pad) = start
  BY <1>11, <1>12, <1>13
<1>17. ASSUME NEW i \in 1..N, NEW j \in 1..9
       PROVE  Cell(cells, (i - 1) * 9 + j) = 16 * i + j
  <2>1. i - 1 \in 0..N /\ i \in 0..N
    OBVIOUS
  <2>2. om[i - 1] = 9 * (i - 1) /\ om[i] = 9 * i
    BY <1>10, <2>1
  <2>3. (i - 1) * 9 + j = om[i - 1] + j /\ om[i - 1] + j \in 1..Len(ms)
    BY <1>11, <2>2
  <2> QED
    BY <1>9, <1>15, <2>3
<1>18. ASSUME NEW i \in 1..N
       PROVE  /\ off[i] = off[i - 1] + 1 + 2 * Len(tts[i])
              /\ Cell(cells, start + off[i - 1] + 1) = Len(tts[i])
              /\ \A j \in 1..Len(tts[i]) : Cell(cells, start + off[i - 1] + 2 * j) = tts[i][j]
  <2> DEFINE t == tts[i]
             n == Len(t)
  <2>1. t \in Seq(Nat) /\ n \in Nat
    OBVIOUS
  <2>2. Tt[i] = SerializeTT(t)
    BY <1>4
  <2> HIDE DEF t
  <2>3. Len(Tt[i]) = 1 + 2 * n /\ Tt[i][1] = n /\ \A j \in 1..n : Tt[i][2 * j] = t[j]
    BY <2>1, <2>2, TableSerialized
  <2>4. off[i - 1] \in Nat /\ off[i] \in Nat /\ off[i] = off[i - 1] + (1 + 2 * n) /\ off[i] <= Len(F)
    <3>1. i - 1 \in 0..N /\ i \in 0..N
      OBVIOUS
    <3> QED
      BY <1>14, <2>3, <3>1
  <2> HIDE DEF n
  <2>5. ASSUME NEW j \in 1..(1 + 2 * n) PROVE Cell(cells, start + off[i - 1] + j) = Tt[i][j]
    <3>0. Len(F) \in Nat
      BY <1>14
    <3>1. off[i - 1] + j \in 1..Len(F)
      BY <2>1, <2>4, <3>0, SMTT(30)
    <3>2. F[off[i - 1] + j] = Tt[i][j]
      BY <1>14, <2>3
    <3>3. Cell(cells, start + (off[i - 1] + j)) = F[off[i - 1] + j]
      BY <1>15, <1>16, <3>1
    <3>4. start + (off[i - 1] + j) = start + off[i - 1] + j
      BY <1>12, <2>1, <2>4, SMTT(30)
    <3> QED
      BY <3>2, <3>3, <3>4
  <2>6. 1 \in 1..(1 + 2 * n) /\ \A j \in 1..n : 2 * j \in 1..(1 + 2 * n)
    BY <2>1
  <2>7. Cell(cells, start + off[i - 1] + 1) = n
    BY <2>3, <2>5, <2>6
  <2>8. \A j \in 1..n : Cell(cells, start + off[i - 1] + 2 * j) = t[j]
    BY <2>3, <2>5, <2>6
  <2>9. off[i] = off[i - 1] + 1 + 2 * n
    BY <2>1, <2>4
  <2> QED
    BY <2>7, <2>8, <2>9 DEF n, t
<1>19. ImageHolds(cells, N, tts, start, off)
  BY <1>12, <1>14, <1>15, <1>17, <1>18 DEF ImageHolds
<1>20. SerializeDB(models, tts).cells = cells /\ SerializeDB(models, tts).tt_buf = start
  BY <1>1
<1> QED
  BY <1>19, <1>20 DEF models

\* The client finds what serialize_db wrote, if it starts at the tables.
LEMMA ModelsParsed ==
  ASSUME NEW N \in Nat \ {0}, NEW tts, NEW cells, NEW start, NEW off, ImageHolds(cells, N, tts, start, off)
  PROVE  ParseModels(cells, N) = [m \in 1..N |-> m]
<1> SUFFICES ASSUME NEW i \in 1..N
             PROVE  FromModel([j \in 1..ModelCells |-> Cell(cells, (i - 1) * ModelCells + j)]) = i
  BY DEF ParseModels
<1>1. \A j \in 1..9 : Cell(cells, (i - 1) * 9 + j) = 16 * i + j
  BY DEF ImageHolds
<1>2. [j \in 1..9 |-> Cell(cells, (i - 1) * 9 + j)] = [j \in 1..9 |-> 16 * i + j]
  BY <1>1
<1>3. [j \in 1..ModelCells |-> Cell(cells, (i - 1) * ModelCells + j)] = SerializeModel(i)
  BY <1>2 DEF SerializeModel, ModelCells
<1>4. FromModel(SerializeModel(i)) = i
  <2>1. i \in Nat
    OBVIOUS
  <2> QED
    BY <2>1, ModelSerialized
<1> QED
  BY <1>3, <1>4

\* The recursive function of the offsets, and its values.
IsOffsets(f, cells, N, from) ==
  f = [i \in 0..N |-> IF i = 0 THEN from ELSE f[i - 1] + 1 + 2 * Cell(cells, f[i - 1] + 1)]

LEMMA OffsetsParsed ==
  ASSUME NEW N \in Nat \ {0}, NEW tts \in [1..N -> Seq(Nat)], NEW cells, NEW start, NEW off,
         ImageHolds(cells, N, tts, start, off)
  PROVE  \A i \in 0..N : TTOffsets(cells, N, start)[i] = start + off[i]
<1>1. /\ start \in Nat /\ off \in [0..N -> Nat] /\ off[0] = 0
      /\ \A i \in 1..N : /\ off[i] = off[i - 1] + 1 + 2 * Len(tts[i])
                         /\ Cell(cells, start + off[i - 1] + 1) = Len(tts[i])
  BY DEF ImageHolds
<1> DEFINE g == [i \in 0..N |-> start + off[i]]
<1>2. \A i \in 0..N : g[i] = start + off[i]
  OBVIOUS
<1>3. g = [i \in 0..N |-> g[i]]
  OBVIOUS
<1> HIDE DEF g
<1>4. ASSUME NEW i \in 0..N
      PROVE  g[i] = IF i = 0 THEN start ELSE g[i - 1] + 1 + 2 * Cell(cells, g[i - 1] + 1)
  <2>1. CASE i = 0
    <3>0. 0 \in 0..N
      OBVIOUS
    <3>1. g[0] = start + 0
      BY <1>1, <1>2, <3>0
    <3> QED
      BY <1>1, <2>1, <3>1
  <2>2. CASE i # 0
    <3>1. i \in 1..N /\ i - 1 \in 0..N
      BY <2>2
    <3>2. g[i - 1] = start + off[i - 1] /\ g[i] = start + off[i] /\ off[i - 1] \in Nat
      BY <1>1, <1>2, <3>1
    <3>3. off[i] = off[i - 1] + 1 + 2 * Len(tts[i]) /\ Cell(cells, start + off[i - 1] + 1) = Len(tts[i])
      BY <1>1, <3>1
    <3>4. Len(tts[i]) \in Nat
      BY <3>1
    <3>5. Cell(cells, g[i - 1] + 1) = Len(tts[i])
      BY <3>2, <3>3
    <3>6. g[i] = g[i - 1] + 1 + 2 * Len(tts[i])
      <4> DEFINE o == off[i - 1]
                 n == Len(tts[i])
      <4>1. o \in Nat /\ n \in Nat /\ start \in Nat
        BY <1>1, <3>2, <3>4
      <4>2. g[i] = start + (o + 1 + 2 * n) /\ g[i - 1] = start + o
        BY <3>2, <3>3
      <4> HIDE DEF o, n
      <4>3. start + (o + 1 + 2 * n) = (start + o) + 1 + 2 * n
        BY <4>1
      <4> QED
        BY <4>2, <4>3 DEF n
    <3> QED
      BY <2>2, <3>5, <3>6
  <2> QED
    BY <2>1, <2>2
<1>5. IsOffsets(g, cells, N, start)
  BY <1>3, <1>4 DEF IsOffsets
<1> DEFINE f == CHOOSE h : IsOffsets(h, cells, N, start)
<1>6. IsOffsets(f, cells, N, start)
  BY <1>5
<1>7. TTOffsets(cells, N, start) = f
  BY DEF TTOffsets, IsOffsets
<1> HIDE DEF f
<1>8. \A i \in 0..N : f[i] = IF i = 0 THEN start ELSE f[i - 1] + 1 + 2 * Cell(cells, f[i - 1] + 1)
  BY <1>6 DEF IsOffsets
<1> DEFINE B == {k \in Nat : k <= N /\ f[k] # g[k]}
<1>9. ASSUME B # {} PROVE FALSE
  <2>1. B \in SUBSET Nat
    OBVIOUS
  <2>2. PICK k \in B : \A l \in B : k <= l
    <3> HIDE DEF B
    <3> QED
      BY <1>9, <2>1, NatMin
  <2>3. k \in 0..N /\ f[k] # g[k]
    OBVIOUS
  <2>4. k # 0
    BY <1>4, <1>8, <2>3
  <2>5. k - 1 \in Nat /\ k - 1 <= N /\ ~(k <= k - 1)
    BY <2>3, <2>4
  <2>6. f[k - 1] = g[k - 1]
    BY <2>2, <2>5
  <2> QED
    BY <1>4, <1>8, <2>3, <2>4, <2>6
<1> QED
  BY <1>2, <1>7, <1>9

LEMMA TablesParsed ==
  ASSUME NEW N \in Nat \ {0}, NEW tts \in [1..N -> Seq(Nat)], NEW cells, NEW start, NEW off,
         ImageHolds(cells, N, tts, start, off)
  PROVE  ParseTTs(cells, N, start) = tts
<1> DEFINE at(i) == TTOffsets(cells, N, start)[i - 1] + 1
<1>1. ASSUME NEW i \in 1..N PROVE FromTT(cells, at(i)) = tts[i]
  <2> DEFINE t == tts[i]
             a == at(i)
  <2>1. t \in Seq(Nat) /\ Len(t) \in Nat
    OBVIOUS
  <2>2. i - 1 \in 0..N
    OBVIOUS
  <2>3. a = start + off[i - 1] + 1
    BY <2>2, OffsetsParsed
  <2>4. /\ start \in Nat /\ off[i - 1] \in Nat
        /\ Cell(cells, start + off[i - 1] + 1) = Len(t)
        /\ \A j \in 1..Len(t) : Cell(cells, start + off[i - 1] + 2 * j) = t[j]
    BY <2>2 DEF ImageHolds
  <2> HIDE DEF a, t
  <2>5. Cell(cells, a) = Len(t)
    BY <2>3, <2>4
  <2>6. ASSUME NEW j \in 1..Len(t) PROVE Cell(cells, a + 2 * j - 1) = t[j]
    <3>0. j \in Int /\ start \in Int /\ off[i - 1] \in Int
      BY <2>1, <2>4
    <3>1. a + 2 * j - 1 = start + off[i - 1] + 2 * j
      BY <2>3, <3>0
    <3> QED
      BY <2>4, <3>1
  <2>7. FromTT(cells, a) = [j \in 1..Len(t) |-> t[j]]
    BY <2>5, <2>6 DEF FromTT
  <2>8. t = [j \in 1..Len(t) |-> t[j]]
    BY <2>1
  <2> QED
    BY <2>7, <2>8 DEF a, t
<1>2. ParseTTs(cells, N, start) = [i \in 1..N |-> tts[i]]
  BY <1>1 DEF ParseTTs
<1> QED
  BY <1>2

LEMMA WholeSeq ==
  ASSUME NEW s \in Seq(Int)
  PROVE  SubSeq(s, 1, Len(s)) = s
<1>1. Len(s) \in Nat
  OBVIOUS
<1>2. /\ SubSeq(s, 1, Len(s)) \in Seq(Int) /\ Len(SubSeq(s, 1, Len(s))) = Len(s)
      /\ \A i \in 1..Len(s) : SubSeq(s, 1, Len(s))[i] = s[i]
  BY <1>1
<1> QED
  BY <1>1, <1>2

-----------------------------------------------------------------------------
\* The server serves: its rows are the data set's, its index is trained and serialised.
Ready ==
  /\ db = Rows(flags.data, flags.nkeys)
  /\ xcache = Trained
  /\ image = SerializeDB(xcache.models, xcache.tts)

LEMMA FlagsTyped ==
  ASSUME flags \in Deployments
  PROVE  /\ flags.data \in {"linear", "file", "log", "tpcc", "ar", "map"}
         /\ flags.nkeys \in Nat /\ flags.cnkeys \in Nat /\ flags.nsub \in Nat \ {0}
         /\ flags.threads \subseteq Client
BY FlagsAssumption

LEMMA TrainedIs ==
  ASSUME flags \in Deployments, RowsInv
  PROVE  /\ Trained.models = [m \in 1..flags.nsub |-> m] /\ Len(Trained.models) = flags.nsub
         /\ Trained.tts \in [1..flags.nsub -> Seq(Nat)]
         /\ \A m \in 1..flags.nsub : Trained.tts[m] = TrainedTT(m)
         /\ Trained.models # <<>> /\ Trained # NoIndex
<1>1. flags.nsub \in Nat \ {0}
  BY FlagsTyped
<1>2. \A m \in 1..flags.nsub : TrainedTT(m) \in Seq(Nat)
  BY <1>1, TablesTyped
<1>3. Trained.models = [m \in 1..flags.nsub |-> m] /\ Trained.tts = [m \in 1..flags.nsub |-> TrainedTT(m)]
  BY DEF Trained
<1>4. Trained.tts \in [1..flags.nsub -> Seq(Nat)] /\ \A m \in 1..flags.nsub : Trained.tts[m] = TrainedTT(m)
  BY <1>2, <1>3
<1>5. Len([m \in 1..flags.nsub |-> m]) = flags.nsub /\ [m \in 1..flags.nsub |-> m] # <<>>
  <2> DEFINE k == flags.nsub
  <2>1. k \in Nat \ {0}
    BY <1>1
  <2> HIDE DEF k
  <2>2. Len([m \in 1..k |-> m]) = k /\ Len(<<>>) = 0
    BY <2>1
  <2> QED
    BY <2>1, <2>2 DEF k
<1>6. Trained # NoIndex
  <2>1. Trained.models # <<>> /\ NoIndex.models = <<>>
    BY <1>3, <1>5 DEF NoIndex
  <2> QED
    BY <2>1
<1> QED
  BY <1>3, <1>4, <1>5, <1>6

\* Parsing undoes serialising.
LEMMA ParsedIsIndex ==
  ASSUME flags \in Deployments, RowsInv, Ready
  PROVE  /\ MetaReply \in Seq(Int)
         /\ Parsed(MetaReply).models = xcache.models /\ xcache.models # <<>>
         /\ TablesInPlace => Parsed(MetaReply).tts = xcache.tts
<1> DEFINE N == flags.nsub
           models == [m \in 1..N |-> m]
           tts == xcache.tts
           img == SerializeDB(models, tts)
<1>1. /\ N \in Nat \ {0} /\ xcache.models = models /\ Len(xcache.models) = N /\ xcache.models # <<>>
      /\ tts \in [1..N -> Seq(Nat)] /\ image = img
  BY TrainedIs, FlagsTyped DEF Ready
<1> HIDE DEF N, models, tts, img
<1>2. PICK off : ImageHolds(image.cells, N, tts, image.tt_buf, off)
  BY <1>1, ImageIs DEF models, img
<1>3. /\ image.cells \in Seq(Int) /\ image.tt_buf \in Nat /\ image.tt_buf = RoundUp(9 * N, 2)
  BY <1>2 DEF ImageHolds
<1>4. /\ MetaReply = <<N, Len(image.cells), image.tt_buf>>
      /\ MetaReply[1] = N /\ MetaReply[2] = Len(image.cells) /\ MetaReply[3] = image.tt_buf
  BY <1>1 DEF MetaReply, DispatcherCell
<1>5. MetaReply \in Seq(Int)
  <2>1. Len(image.cells) \in Int /\ N \in Int /\ image.tt_buf \in Int
    BY <1>1, <1>3
  <2> QED
    BY <1>4, <2>1
<1>6. SubSeq(image.cells, 1, MetaReply[2]) = image.cells
  BY <1>3, <1>4, WholeSeq
<1>7. Parsed(MetaReply) = IF flags.prog = "ycsb" THEN YCSBParse(image.cells, N, image.tt_buf)
                                                 ELSE DistParse(image.cells, N, image.tt_buf)
  BY <1>4, <1>6 DEF Parsed, DispatchNum
<1>8. ParseModels(image.cells, N) = models /\ ParseTTs(image.cells, N, image.tt_buf) = tts
  BY <1>1, <1>2, ModelsParsed, TablesParsed DEF models
<1>9. Parsed(MetaReply).models = xcache.models
  BY <1>1, <1>7, <1>8 DEF YCSBParse, DistParse
<1>10. ASSUME TablesInPlace PROVE Parsed(MetaReply).tts = tts
  <2>1. CASE flags.prog # "ycsb"
    BY <1>7, <1>8, <2>1 DEF DistParse
  <2>2. CASE flags.prog = "ycsb"
    <3>1. (N * 9) % 2 = 0 /\ N * 9 = 9 * N /\ 9 * N \in Nat
      BY <1>1, <1>10, <2>2 DEF TablesInPlace, ModelCells, N
    <3>2. image.tt_buf = N * ModelCells
      BY <1>3, <3>1, RoundUpEven DEF ModelCells
    <3> QED
      BY <1>7, <1>8, <2>2, <3>2 DEF YCSBParse
  <2> QED
    BY <2>1, <2>2
<1> QED
  BY <1>1, <1>5, <1>9, <1>10 DEF tts

-----------------------------------------------------------------------------
(* Calls: a call that waits has one datagram on its way at most, which asks what the   *)
(* caller asked or has the answer; a caller that does not wait any more has it.        *)

Waits(c, i) == station[c][i].pending = 1
Asking(c, i) == IF i = 0 THEN tpc[c] = "meta" ELSE cpc[c][i] = "rpc"
Answer(c, i) == IF i = 0 THEN MetaReply ELSE <<ValueOf(ckey[c][i])>>

RequestOK(w, m) ==
  /\ m.type \in {"connect", "req"} /\ ServerOf[Owner(m)] = w
  /\ m.type = "req" =>
       /\ Waits(Owner(m), m.cor)
       /\ m.cor = 0 => m.rpc = META
       /\ m.cor # 0 => m.rpc = GET /\ m.body = <<ckey[Owner(m)][m.cor]>>
ReplyOK(c, m) ==
  /\ m.type = "reply" /\ Owner(m) = c
  /\ init /\ Waits(c, m.cor) /\ m.body = Answer(c, m.cor)
MailInv ==
  /\ \A w \in Worker : \A m \in In(inbox[w]) : RequestOK(w, m)
  /\ \A c \in Client : \A m \in In(inbox[c]) : ReplyOK(c, m)

OneEach ==
  /\ \A e \in Endpoint : Single(inbox[e])
  /\ \A c \in Client : Calls(inbox[c]) \cap Calls(inbox[ServerOf[c]]) = {}

Stations == [Client -> [CorId -> [pending : 0..1, buf : Seq(Int)]]]
SlotOK(c, i) ==
  /\ Waits(c, i) => Asking(c, i)
  /\ Asking(c, i) /\ ~Waits(c, i) => init /\ station[c][i].buf = Answer(c, i)
StationInv == station \in Stations /\ \A c \in Client, i \in CorId : SlotOK(c, i)

CallInv == MailInv /\ OneEach /\ StationInv

\* What a step does to a caller: a call that waits goes on, and no call begins.
Kept(c, i) ==
  /\ Waits(c, i) => Asking(c, i)'
  /\ Asking(c, i)' => Asking(c, i) /\ (i # 0 => ckey'[c][i] = ckey[c][i])

\* The answers of a server that serves do not change.
AnswersKept ==
  init => init' /\ MetaReply' = MetaReply /\ \A k : ValueOf(k)' = ValueOf(k)

StillWaits(c, i) == Waits(c, i)' /\ (i # 0 => ckey'[c][i] = ckey[c][i])

LEMMA AnswerStays ==
  ASSUME init, AnswersKept, NEW c, NEW i, i # 0 => ckey'[c][i] = ckey[c][i]
  PROVE  Answer(c, i)' = Answer(c, i)
<1>1. CASE i = 0
  BY <1>1 DEF Answer, AnswersKept
<1>2. CASE i # 0
  <2>1. ckey'[c][i] = ckey[c][i]
    BY <1>2
  <2>2. \A k : ValueOf(k)' = ValueOf(k)
    BY DEF AnswersKept
  <2>3. Answer(c, i) = <<ValueOf(ckey[c][i])>>
    BY <1>2 DEF Answer
  <2>4. Answer(c, i)' = <<(CHOOSE r \in db' : r[1] = ckey[c][i])[2]>>
    BY <1>2, <2>1 DEF Answer, ValueOf
  <2> QED
    BY <2>2, <2>3, <2>4 DEF ValueOf
<1> QED
  BY <1>1, <1>2

LEMMA RequestStays ==
  ASSUME NEW w, NEW m, RequestOK(w, m), m.type = "req" => StillWaits(Owner(m), m.cor)
  PROVE  RequestOK(w, m)'
BY DEF RequestOK, StillWaits

LEMMA ReplyStays ==
  ASSUME NEW c, NEW m, ReplyOK(c, m), StillWaits(c, m.cor), AnswersKept
  PROVE  ReplyOK(c, m)'
<1>1. Answer(c, m.cor)' = Answer(c, m.cor) /\ init'
  BY AnswerStays DEF ReplyOK, StillWaits, AnswersKept
<1> QED
  BY <1>1 DEF ReplyOK, StillWaits

LEMMA SlotStays ==
  ASSUME NEW c, NEW i, SlotOK(c, i), station'[c][i] = station[c][i], Kept(c, i), AnswersKept
  PROVE  SlotOK(c, i)' /\ (Waits(c, i) => StillWaits(c, i))
<1>1. Waits(c, i)' <=> Waits(c, i)
  BY DEF Waits
<1>2. Waits(c, i) => Asking(c, i)' /\ StillWaits(c, i)
  BY <1>1 DEF Kept, StillWaits
<1>3. ASSUME Asking(c, i)', ~Waits(c, i)
      PROVE  init' /\ station'[c][i].buf = Answer(c, i)'
  <2>1. Asking(c, i) /\ (i # 0 => ckey'[c][i] = ckey[c][i])
    BY <1>3 DEF Kept
  <2>2. init /\ station[c][i].buf = Answer(c, i)
    BY <1>3, <2>1 DEF SlotOK
  <2>3. Answer(c, i)' = Answer(c, i) /\ init'
    BY <2>1, <2>2, AnswerStays DEF AnswersKept
  <2> QED
    BY <2>2, <2>3
<1> QED
  BY <1>1, <1>2, <1>3 DEF SlotOK

\* Whose call a datagram is of.
LEMMA SlotIs ==
  ASSUME NEW m \in Owned
  PROVE  Owner(m) \in Client /\ m.cor \in CorId /\ Slot(m) = <<Owner(m), m.cor>>
BY OwnerIn DEF Owned, Mail, Slot

LEMMA BoxesOwned ==
  ASSUME WireInv, NEW e \in Endpoint
  PROVE  inbox[e] \in Seq(Owned) /\ In(inbox[e]) \subseteq Owned
BY DEF WireInv, Boxes, In

\* A step that posts nothing and takes nothing.
LEMMA QuietKeepsCalls ==
  ASSUME WireInv, CallInv, UNCHANGED <<inbox, station>>, AnswersKept,
         \A c \in Client, i \in CorId : Kept(c, i)
  PROVE  CallInv'
<1>1. \A c \in Client, i \in CorId : SlotOK(c, i)' /\ (Waits(c, i) => StillWaits(c, i))
  BY SlotStays DEF CallInv, StationInv
<1>2. ASSUME NEW w \in Worker, NEW m \in In(inbox[w]) PROVE RequestOK(w, m)'
  <2>1. m \in Owned /\ RequestOK(w, m)
    BY BoxesOwned DEF CallInv, MailInv, Endpoint
  <2>2. m.type = "req" => StillWaits(Owner(m), m.cor)
    BY <1>1, <2>1, SlotIs DEF RequestOK
  <2> QED
    BY <2>1, <2>2, RequestStays
<1>3. ASSUME NEW c \in Client, NEW m \in In(inbox[c]) PROVE ReplyOK(c, m)'
  <2>1. m \in Owned /\ ReplyOK(c, m)
    BY BoxesOwned DEF CallInv, MailInv, Endpoint
  <2>2. StillWaits(c, m.cor)
    BY <1>1, <2>1, SlotIs DEF ReplyOK
  <2> QED
    BY <2>1, <2>2, ReplyStays
<1>4. MailInv'
  BY <1>2, <1>3 DEF MailInv
<1>5. OneEach' /\ StationInv'
  BY <1>1 DEF CallInv, OneEach, StationInv
<1> QED
  BY <1>4, <1>5 DEF CallInv

\* A client's datagram enters the queue of its server thread.
LEMMA PostKeepsMail ==
  ASSUME WireInv, CallInv, AnswersKept, NEW d \in Client, NEW m \in Owned, Owner(m) = d,
         Sent(inbox[ServerOf[d]], m, inbox'[ServerOf[d]]),
         \A f \in Endpoint : f # ServerOf[d] => inbox'[f] = inbox[f],
         m.type \in {"connect", "req"}, RequestOK(ServerOf[d], m)',
         m.type = "req" => ~Waits(d, m.cor),
         \A c \in Client, i \in CorId : Waits(c, i) => StillWaits(c, i)
  PROVE  MailInv' /\ OneEach'
<1> DEFINE w == ServerOf[d]
           q == inbox[w]
           q2 == inbox'[w]
<1>0. w \in Worker /\ w \in Endpoint /\ \A c \in Client : c # w /\ c \in Endpoint
  BY DEF Endpoint
<1>1. q \in Seq(Owned) /\ q2 \in Put(q, m) /\ \A e \in Endpoint : In(inbox[e]) \subseteq Owned
  BY <1>0, BoxesOwned, SentIsPut
<1>2. /\ In(q2) \subseteq In(q) \cup {m}
      /\ Calls(q2) \subseteq Calls(q) \cup (IF m.type # "connect" THEN {Slot(m)} ELSE {})
      /\ Single(q) /\ (m.type # "connect" => Slot(m) \notin Calls(q)) => Single(q2)
  BY <1>1, PutKeeps
<1>3. ASSUME NEW v \in Worker, NEW x \in In(inbox[v]) PROVE RequestOK(v, x)'
  <2>1. x \in Owned /\ RequestOK(v, x)
    BY <1>1 DEF CallInv, MailInv, Endpoint
  <2>2. x.type = "req" => StillWaits(Owner(x), x.cor)
    BY <2>1, SlotIs DEF RequestOK
  <2> QED
    BY <2>1, <2>2, RequestStays
<1>4. ASSUME NEW c \in Client, NEW x \in In(inbox[c]) PROVE ReplyOK(c, x)'
  <2>1. x \in Owned /\ ReplyOK(c, x)
    BY <1>0, <1>1 DEF CallInv, MailInv
  <2>2. StillWaits(c, x.cor)
    BY <2>1, SlotIs DEF ReplyOK
  <2> QED
    BY <2>1, <2>2, ReplyStays
<1>5. ASSUME NEW v \in Worker, NEW x \in In(inbox'[v]) PROVE RequestOK(v, x)'
  <2>1. CASE v # w
    BY <1>3, <2>1 DEF Endpoint
  <2>2. CASE v = w
    BY <1>2, <1>3, <2>2
  <2> QED
    BY <2>1, <2>2
<1>6. \A c \in Client : inbox'[c] = inbox[c]
  BY <1>0
<1>7. MailInv'
  BY <1>4, <1>5, <1>6 DEF MailInv
<1>8. \A e \in Endpoint : \A s \in Calls(inbox[e]) : Waits(s[1], s[2])
  <2> SUFFICES ASSUME NEW e \in Endpoint, NEW x \in In(inbox[e]), x.type # "connect"
               PROVE  Waits(Slot(x)[1], Slot(x)[2])
    BY DEF Calls
  <2>1. x \in Owned /\ Slot(x)[1] = Owner(x) /\ Slot(x)[2] = x.cor
    BY <1>1, SlotIs DEF Slot
  <2>2. CASE e \in Worker
    BY <2>1, <2>2 DEF CallInv, MailInv, RequestOK
  <2>3. CASE e \in Client
    BY <2>1, <2>3 DEF CallInv, MailInv, ReplyOK
  <2> QED
    BY <2>2, <2>3 DEF Endpoint
<1>9. m.type # "connect" => \A e \in Endpoint : Slot(m) \notin Calls(inbox[e])
  <2>1. Slot(m)[1] = d /\ Slot(m)[2] = m.cor
    BY DEF Slot
  <2> QED
    BY <1>8, <2>1
<1>10. \A e \in Endpoint : Single(inbox'[e])
  BY <1>0, <1>2, <1>9 DEF CallInv, OneEach
<1>11. ASSUME NEW c \in Client PROVE Calls(inbox'[c]) \cap Calls(inbox'[ServerOf[c]]) = {}
  <2>1. Calls(inbox[c]) \cap Calls(inbox[ServerOf[c]]) = {} /\ inbox'[c] = inbox[c] /\ c \in Endpoint
    BY <1>0, <1>6 DEF CallInv, OneEach
  <2>2. CASE ServerOf[c] # w
    <3>1. ServerOf[c] \in Endpoint
      BY DEF Endpoint
    <3> QED
      BY <2>1, <2>2, <3>1
  <2>3. CASE ServerOf[c] = w
    BY <1>2, <1>9, <2>1, <2>3
  <2> QED
    BY <2>2, <2>3
<1> QED
  BY <1>7, <1>10, <1>11 DEF OneEach

LEMMA ConnectKeepsCalls ==
  ASSUME WireInv, CallInv, AnswersKept, NEW d \in Client, UNCHANGED station,
         Sent(inbox[ServerOf[d]], Connect(d), inbox'[ServerOf[d]]),
         \A f \in Endpoint : f # ServerOf[d] => inbox'[f] = inbox[f],
         \A c \in Client, i \in CorId : Kept(c, i)
  PROVE  CallInv'
<1>1. \A c \in Client, i \in CorId : SlotOK(c, i)' /\ (Waits(c, i) => StillWaits(c, i))
  BY SlotStays DEF CallInv, StationInv
<1>2. Connect(d) \in Owned /\ Connect(d).type = "connect" /\ Connect(d).sid = SessionId[d]
  BY BuiltOwned DEF Connect
<1>3. Owner(Connect(d)) = d
  BY <1>2, OwnerOf
<1>4. RequestOK(ServerOf[d], Connect(d))'
  BY <1>2, <1>3 DEF RequestOK
<1>5. MailInv' /\ OneEach'
  BY <1>1, <1>2, <1>3, <1>4, PostKeepsMail
<1>6. StationInv'
  BY <1>1 DEF CallInv, StationInv
<1> QED
  BY <1>5, <1>6 DEF CallInv

\* A call begins: its caller is not asking yet.
LEMMA CallKeepsCalls ==
  ASSUME WireInv, CallInv, AnswersKept, NEW d \in Client, NEW j \in CorId,
         NEW id \in 0..1, NEW args \in Seq(Int),
         AddPendingReply(d, j), ~Asking(d, j), Asking(d, j)',
         j = 0 => id = META,
         j # 0 => id = GET /\ args = <<ckey'[d][j]>>,
         Sent(inbox[ServerOf[d]], Req(d, j, id, args), inbox'[ServerOf[d]]),
         \A f \in Endpoint : f # ServerOf[d] => inbox'[f] = inbox[f],
         \A c \in Client, i \in CorId : <<c, i>> # <<d, j>> => Kept(c, i)
  PROVE  CallInv'
<1> DEFINE m == Req(d, j, id, args)
<1>0. m \in Owned /\ m.type = "req" /\ m.sid = SessionId[d] /\ m.cor = j /\ m.rpc = id /\ m.body = args
  BY BuiltOwned DEF Req
<1>1. Owner(m) = d
  BY <1>0, OwnerOf
<1> HIDE DEF m
<1>2. ~Waits(d, j) /\ station[d][j].pending \in 0..1 /\ station \in Stations
  BY DEF CallInv, StationInv, SlotOK, Stations
<1>3. station[d][j].pending = 0
  BY <1>2 DEF Waits
<1>4. /\ station' \in Stations /\ station'[d][j] = [pending |-> 1, buf |-> <<>>]
      /\ \A c \in Client, i \in CorId : <<c, i>> # <<d, j>> => station'[c][i] = station[c][i]
  BY <1>2, <1>3 DEF AddPendingReply, Stations
<1>5. Waits(d, j)' /\ SlotOK(d, j)'
  BY <1>4 DEF Waits, SlotOK
<1>6. \A c \in Client, i \in CorId :
        <<c, i>> # <<d, j>> => SlotOK(c, i)' /\ (Waits(c, i) => StillWaits(c, i))
  BY <1>4, SlotStays DEF CallInv, StationInv
<1>7. \A c \in Client, i \in CorId : Waits(c, i) => StillWaits(c, i)
  BY <1>2, <1>6
<1>8. RequestOK(ServerOf[d], m)'
  BY <1>0, <1>1, <1>5 DEF RequestOK
<1>9. MailInv' /\ OneEach'
  <2>1. Sent(inbox[ServerOf[d]], m, inbox'[ServerOf[d]])
    BY DEF m
  <2> QED
    BY <1>0, <1>1, <1>2, <1>7, <1>8, <2>1, PostKeepsMail
<1>10. StationInv'
  <2>1. \A c \in Client, i \in CorId : SlotOK(c, i)'
    BY <1>5, <1>6
  <2> QED
    BY <1>4, <2>1 DEF StationInv
<1> QED
  BY <1>9, <1>10 DEF CallInv

LEMMA SameMailStays ==
  ASSUME WireInv, CallInv, AnswersKept, \A c \in Client, i \in CorId : Waits(c, i) => StillWaits(c, i)
  PROVE  /\ \A w \in Worker : \A m \in In(inbox[w]) : RequestOK(w, m)'
         /\ \A c \in Client : \A m \in In(inbox[c]) : ReplyOK(c, m)'
<1>1. ASSUME NEW w \in Worker, NEW m \in In(inbox[w]) PROVE RequestOK(w, m)'
  <2>1. m \in Owned /\ RequestOK(w, m)
    BY BoxesOwned DEF CallInv, MailInv, Endpoint
  <2>2. m.type = "req" => StillWaits(Owner(m), m.cor)
    BY <2>1, SlotIs DEF RequestOK
  <2> QED
    BY <2>1, <2>2, RequestStays
<1>2. ASSUME NEW c \in Client, NEW m \in In(inbox[c]) PROVE ReplyOK(c, m)'
  <2>1. m \in Owned /\ ReplyOK(c, m)
    BY BoxesOwned DEF CallInv, MailInv, Endpoint
  <2>2. StillWaits(c, m.cor)
    BY <2>1, SlotIs DEF ReplyOK
  <2> QED
    BY <2>1, <2>2, ReplyStays
<1> QED
  BY <1>1, <1>2

\* A server thread takes a datagram; a request it answers leaves the reply in its place.
Answered(m) ==
  /\ m.type = "req" /\ init
  /\ Sent(inbox[Owner(m)], Reply(m, Answer(Owner(m), m.cor)), inbox'[Owner(m)])
  /\ \A c \in Client : c # Owner(m) => inbox'[c] = inbox[c]

LEMMA WorkerKeepsCalls ==
  ASSUME WireInv, CallInv, AnswersKept, NEW w \in Worker, HasMsg(w), UNCHANGED station,
         inbox'[w] = Tail(inbox[w]), \A v \in Worker : v # w => inbox'[v] = inbox[v],
         \A c \in Client, i \in CorId : Kept(c, i),
         \/ \A c \in Client : inbox'[c] = inbox[c]
         \/ Answered(Head(inbox[w])) /\ Answer(Owner(Head(inbox[w])), Head(inbox[w]).cor) \in Seq(Int)
  PROVE  CallInv'
<1> DEFINE q == inbox[w]
<1>m. PICK m : m = Head(inbox[w])
  OBVIOUS
<1> DEFINE o == Owner(m)
<1>v. PICK val : val = Answer(o, m.cor)
  OBVIOUS
<1> DEFINE rep == Reply(m, val)
<1>0. w \in Endpoint /\ \A c \in Client : c # w /\ c \in Endpoint /\ ServerOf[c] \in Endpoint
  BY DEF Endpoint
<1>1. q \in Seq(Owned) /\ q # <<>>
  BY <1>0, TakeEffect
<1>2. /\ m \in Owned /\ m \in In(q) /\ Tail(q) \in Seq(Owned) /\ In(Tail(q)) \subseteq In(q)
      /\ Calls(Tail(q)) \subseteq Calls(q)
      /\ Single(q) => /\ Single(Tail(q))
                      /\ m.type # "connect" => Slot(m) \notin Calls(Tail(q))
  BY <1>1, <1>m, TailKeeps
<1>3. o \in Client /\ m.cor \in CorId /\ Slot(m) = <<o, m.cor>> /\ SessionId[o] = m.sid
  BY <1>2, SlotIs, OwnerIn
<1>4. RequestOK(w, m)
  BY <1>2 DEF CallInv, MailInv
<1> HIDE DEF o
<1>5. \A c \in Client, i \in CorId : SlotOK(c, i)' /\ (Waits(c, i) => StillWaits(c, i))
  BY SlotStays DEF CallInv, StationInv
<1>6. StationInv'
  BY <1>5 DEF CallInv, StationInv
<1>7. /\ \A v \in Worker : \A x \in In(inbox[v]) : RequestOK(v, x)'
      /\ \A c \in Client : \A x \in In(inbox[c]) : ReplyOK(c, x)'
  BY <1>5, SameMailStays
<1>8. \A v \in Worker : \A x \in In(inbox'[v]) : RequestOK(v, x)'
  BY <1>2, <1>7
<1>9. \A v \in Worker : v \in Endpoint /\ Single(inbox'[v]) /\ Calls(inbox'[v]) \subseteq Calls(inbox[v])
  <2>1. \A v \in Worker : v \in Endpoint /\ Single(inbox[v])
    BY DEF Endpoint, CallInv, OneEach
  <2> QED
    BY <1>2, <2>1
<1>10. CASE \A c \in Client : inbox'[c] = inbox[c]
  <2>1. MailInv'
    BY <1>7, <1>8, <1>10 DEF MailInv
  <2>2. \A e \in Endpoint : Single(inbox'[e])
    BY <1>9, <1>10 DEF CallInv, OneEach, Endpoint
  <2>3. \A c \in Client : Calls(inbox'[c]) \cap Calls(inbox'[ServerOf[c]]) = {}
    BY <1>9, <1>10 DEF CallInv, OneEach
  <2> QED
    BY <1>6, <2>1, <2>2, <2>3 DEF CallInv, OneEach
<1>11. CASE Answered(m) /\ val \in Seq(Int)
  <2>1. rep \in Owned /\ rep.type = "reply" /\ rep.sid = m.sid /\ rep.cor = m.cor /\ rep.body = val
    BY <1>2, <1>3, <1>11, BuiltOwned DEF Reply
  <2>2. Owner(rep) = o /\ Slot(rep) = Slot(m)
    <3>1. Owner(rep) = o
      BY <1>3, <2>1, OwnerOf
    <3> HIDE DEF rep
    <3> QED
      BY <1>3, <2>1, <3>1 DEF Slot
  <2>3. /\ m.type = "req" /\ init /\ Sent(inbox[o], rep, inbox'[o])
        /\ \A c \in Client : c # o => inbox'[c] = inbox[c]
    BY <1>11, <1>v DEF Answered, o
  <2> HIDE DEF rep
  <2>4. ServerOf[o] = w /\ Waits(o, m.cor)
    BY <1>4, <2>3 DEF RequestOK, o
  <2>5. ReplyOK(o, rep)'
    <3>1. StillWaits(o, m.cor)
      BY <1>3, <1>5, <2>4
    <3>2. Answer(o, m.cor)' = Answer(o, m.cor) /\ init'
      BY <2>3, <3>1, AnswerStays DEF StillWaits, AnswersKept
    <3>3. Waits(o, m.cor)'
      BY <3>1 DEF StillWaits
    <3>4. rep.body = Answer(o, m.cor)
      BY <1>v, <2>1
    <3> QED
      BY <2>1, <2>2, <3>2, <3>3, <3>4 DEF ReplyOK
  <2> DEFINE b == inbox[o]
             b2 == inbox'[o]
  <2>6. b \in Seq(Owned) /\ b2 \in Put(b, rep)
    BY <1>0, <1>3, <2>1, <2>3, BoxesOwned, SentIsPut
  <2>7. Slot(m) \in Calls(q) /\ Slot(m) \notin Calls(b)
    <3>1. Slot(m) \in Calls(q)
      BY <1>2, <2>3 DEF Calls
    <3> QED
      BY <1>3, <2>4, <3>1 DEF CallInv, OneEach
  <2>8. /\ In(b2) \subseteq In(b) \cup {rep} /\ Calls(b2) \subseteq Calls(b) \cup {Slot(m)}
        /\ Single(b2)
    <3>1. Single(b)
      BY <1>0, <1>3 DEF CallInv, OneEach
    <3> HIDE DEF b, b2
    <3> QED
      BY <2>1, <2>2, <2>6, <2>7, <3>1, PutKeeps
  <2>9. MailInv'
    <3>1. \A x \in In(b2) : ReplyOK(o, x)'
      BY <1>3, <1>7, <2>5, <2>8
    <3> QED
      BY <1>7, <1>8, <2>3, <3>1 DEF MailInv
  <2>10. \A e \in Endpoint : Single(inbox'[e])
    BY <1>0, <1>9, <2>3, <2>8 DEF CallInv, OneEach, Endpoint
  <2>11. ASSUME NEW c \in Client PROVE Calls(inbox'[c]) \cap Calls(inbox'[ServerOf[c]]) = {}
    <3>1. Calls(inbox[c]) \cap Calls(inbox[ServerOf[c]]) = {} /\ Calls(inbox'[ServerOf[c]]) \subseteq Calls(inbox[ServerOf[c]])
      BY <1>9 DEF CallInv, OneEach
    <3>2. CASE c # o
      BY <2>3, <3>1, <3>2
    <3>3. CASE c = o
      <4>1. Slot(m) \notin Calls(inbox'[w])
        BY <1>0, <1>2, <2>3 DEF CallInv, OneEach
      <4> QED
        BY <2>4, <2>8, <3>1, <3>3, <4>1
    <3> QED
      BY <3>2, <3>3
  <2> QED
    BY <1>6, <2>9, <2>10, <2>11 DEF CallInv, OneEach
<1> QED
  BY <1>10, <1>11, <1>m, <1>v DEF o

\* A client takes a reply: the call is over, and its caller has the answer.
LEMMA ReplyKeepsCalls ==
  ASSUME WireInv, CallInv, NEW c \in Client, RecvReply(c),
         UNCHANGED <<init, db, xcache, image, tpc, cpc, ckey>>
  PROVE  CallInv' /\ WireInv' /\ UNCHANGED crashed
<1> DEFINE q == inbox[c]
<1>m. PICK m : m = Head(inbox[c])
  OBVIOUS
<1> DEFINE i == m.cor
<1>0. c \in Endpoint /\ HasMsg(c) /\ m.type = "reply"
  BY <1>m DEF Endpoint, RecvReply
<1>1. /\ q \in Seq(Owned) /\ q # <<>> /\ inbox' = Taken(c) /\ Taken(c) \in Boxes
      /\ inbox'[c] = Tail(q) /\ \A f \in Endpoint : f # c => inbox'[f] = inbox[f]
      /\ polled' \in [Endpoint -> Nat]
  BY <1>0, TakeEffect DEF RecvReply, Take
<1>2. /\ m \in Owned /\ m \in In(q) /\ Tail(q) \in Seq(Owned) /\ In(Tail(q)) \subseteq In(q)
      /\ Calls(Tail(q)) \subseteq Calls(q)
      /\ Single(q) => /\ Single(Tail(q))
                      /\ m.type # "connect" => Slot(m) \notin Calls(Tail(q))
  BY <1>1, <1>m, TailKeeps
<1>3. ReplyOK(c, m)
  BY <1>2 DEF CallInv, MailInv
<1>4. i \in CorId /\ Slot(m) = <<c, i>> /\ init /\ Waits(c, i) /\ m.body = Answer(c, i) /\ m.body \in Seq(Int)
  BY <1>2, <1>3, SlotIs DEF ReplyOK, Owned, Mail
<1>5. WireInv'
  BY <1>1, SameTables DEF RecvReply
<1>6. AppendReply(c, m)
  BY <1>m DEF RecvReply
<1> HIDE DEF i
<1>7. station[c][i].pending = 1 /\ station \in Stations
  BY <1>4 DEF Waits, CallInv, StationInv
<1>8. station' = [station EXCEPT ![c][i] = [pending |-> 0, buf |-> m.body]] /\ UNCHANGED crashed
  <2>1. ~CorReady(c, m.cor)
    BY <1>7 DEF CorReady, i
  <2>2. station' = [station EXCEPT ![c][i] = [pending |-> @.pending - 1, buf |-> m.body]] /\ UNCHANGED crashed
    BY <1>6, <2>1 DEF AppendReply, i
  <2> QED
    BY <1>7, <2>2
<1>9. /\ station' \in Stations /\ station'[c][i] = [pending |-> 0, buf |-> m.body]
      /\ \A d \in Client, k \in CorId : <<d, k>> # <<c, i>> => station'[d][k] = station[d][k]
  BY <1>4, <1>7, <1>8 DEF Stations
<1>10. AnswersKept /\ \A d \in Client, k \in CorId : Answer(d, k)' = Answer(d, k) /\ (Asking(d, k)' <=> Asking(d, k))
  BY DEF AnswersKept, Answer, MetaReply, DispatcherCell, ValueOf, Asking
<1>11. \A d \in Client, k \in CorId : SlotOK(d, k)
  BY DEF CallInv, StationInv
<1>12. \A d \in Client, k \in CorId : Kept(d, k)
  BY <1>10, <1>11 DEF Kept, SlotOK
<1>13. \A d \in Client, k \in CorId :
         <<d, k>> # <<c, i>> => SlotOK(d, k)' /\ (Waits(d, k) => StillWaits(d, k))
  BY <1>9, <1>10, <1>11, <1>12, SlotStays
<1>14. SlotOK(c, i)'
  <2>1. ~Waits(c, i)' /\ station'[c][i].buf = m.body
    BY <1>9 DEF Waits
  <2>2. m.body = Answer(c, i)' /\ init'
    BY <1>4, <1>10
  <2> QED
    BY <2>1, <2>2 DEF SlotOK
<1>15. StationInv'
  <2>1. \A d \in Client, k \in CorId : SlotOK(d, k)'
    BY <1>13, <1>14
  <2> QED
    BY <1>9, <2>1 DEF StationInv
<1>16. Slot(m) \notin Calls(Tail(q)) /\ Slot(m) \in Calls(q) /\ Slot(m) \notin Calls(inbox[ServerOf[c]])
  <2>1. Single(q)
    BY <1>0 DEF CallInv, OneEach
  <2>2. m.type # "connect"
    BY <1>0
  <2>3. Slot(m) \in Calls(q)
    BY <1>2, <2>2 DEF Calls
  <2> QED
    BY <1>2, <2>1, <2>2, <2>3 DEF CallInv, OneEach
<1>17. ASSUME NEW v \in Worker, NEW x \in In(inbox'[v]) PROVE RequestOK(v, x)'
  <2>1. v \in Endpoint /\ v # c /\ inbox'[v] = inbox[v]
    BY <1>1 DEF Endpoint
  <2>2. x \in Owned /\ x \in In(inbox[v]) /\ RequestOK(v, x)
    BY <2>1, BoxesOwned DEF CallInv, MailInv
  <2>3. ASSUME x.type = "req" PROVE StillWaits(Owner(x), x.cor)
    <3>1. Owner(x) \in Client /\ x.cor \in CorId /\ Slot(x) = <<Owner(x), x.cor>>
      BY <2>2, SlotIs
    <3>2. Waits(Owner(x), x.cor) /\ ServerOf[Owner(x)] = v
      BY <2>2, <2>3 DEF RequestOK
    <3>3. Slot(x) \in Calls(inbox[v])
      BY <2>2, <2>3 DEF Calls
    <3>4. <<Owner(x), x.cor>> # <<c, i>>
      BY <1>4, <1>16, <3>1, <3>2, <3>3
    <3> QED
      BY <1>13, <3>1, <3>2, <3>4
  <2> QED
    BY <2>2, <2>3, RequestStays
<1>18. ASSUME NEW d \in Client, NEW x \in In(inbox'[d]) PROVE ReplyOK(d, x)'
  <2>1. d \in Endpoint /\ x \in In(inbox[d])
    BY <1>1, <1>2 DEF Endpoint
  <2>2. x \in Owned /\ ReplyOK(d, x)
    BY <2>1, BoxesOwned DEF CallInv, MailInv
  <2>3. Owner(x) = d /\ x.cor \in CorId /\ Slot(x) = <<d, x.cor>> /\ Waits(d, x.cor)
    BY <2>2, SlotIs DEF ReplyOK
  <2>4. <<d, x.cor>> # <<c, i>>
    <3>1. CASE d # c
      BY <3>1
    <3>2. CASE d = c
      <4>1. x \in In(Tail(q)) /\ x.type # "connect"
        BY <1>1, <2>2, <3>2 DEF ReplyOK
      <4>2. Slot(x) \in Calls(Tail(q))
        BY <4>1 DEF Calls
      <4> QED
        BY <1>4, <1>16, <2>3, <4>2
    <3> QED
      BY <3>1, <3>2
  <2>5. StillWaits(d, x.cor)
    BY <1>13, <2>3, <2>4
  <2> QED
    BY <1>10, <2>2, <2>5, ReplyStays
<1>19. OneEach'
  <2>1. \A e \in Endpoint : Single(inbox'[e]) /\ Calls(inbox'[e]) \subseteq Calls(inbox[e])
    BY <1>0, <1>1, <1>2 DEF CallInv, OneEach
  <2>2. \A d \in Client : d \in Endpoint /\ ServerOf[d] \in Endpoint
    BY DEF Endpoint
  <2> QED
    BY <2>1, <2>2 DEF CallInv, OneEach
<1> QED
  BY <1>5, <1>8, <1>15, <1>17, <1>18, <1>19 DEF CallInv, MailInv

-----------------------------------------------------------------------------
(* The server's main thread: what it has done by the time it is where it is. *)

Loaded == {"train", "serialize", "init", "bar", "serve", "join", "exit"}
Served == {"bar", "serve", "join", "exit"}

DataInv ==
  /\ flags \in Deployments /\ RowsInv
  /\ init \in BOOLEAN
  /\ wpc \in [Worker -> {"off", "bar", "loop", "exit"}]
  /\ spc \in Loaded \cup {"boot", "daemon", "load", "abort"}
  /\ spc \in Loaded => db = Rows(flags.data, flags.nkeys)
  /\ spc \in Loaded \ {"train"} => xcache = Trained
  /\ spc \in Served \cup {"init"} => image = SerializeDB(xcache.models, xcache.tts)
  /\ init => spc \in Served \cup {"abort"} /\ Ready
  /\ spc \in {"boot", "daemon", "load", "train", "serialize"} => image = NoImage
  /\ spc = "abort" => flags.ncheck > flags.nsub \/ image = NoImage
  /\ \A w \in Worker : wpc[w] = "loop" => init

IndexKept == init => init' /\ db' = db /\ xcache' = xcache /\ image' = image

LEMMA KeptAnswers ==
  ASSUME IndexKept
  PROVE  AnswersKept
BY DEF IndexKept, AnswersKept, MetaReply, DispatcherCell, ValueOf

LEMMA SameTrained ==
  ASSUME flags' = flags, db' = db
  PROVE  Trained' = Trained /\ (RowsInv => RowsInv')
<1>1. StoredKeys' = StoredKeys
  BY DEF StoredKeys
<1>2. \A k : Rank(k)' = Rank(k)
  BY <1>1 DEF Rank
<1>3. \A k : LeafOf(k)' = LeafOf(k) /\ SubOf(k)' = SubOf(k)
  BY <1>1, <1>2 DEF LeafOf, SubOf
<1>4. \A m : TrainedTT(m)' = TrainedTT(m)
  BY <1>1, <1>3 DEF TrainedTT
<1> QED
  BY <1>4 DEF Trained, RowsInv

LEMMA MainKeepsData ==
  ASSUME DataInv, MainNext
  PROVE  DataInv' /\ IndexKept /\ flags' = flags
<1>1. CASE MainBoot
  <2>1. /\ spc = "boot" /\ spc' = "daemon"
        /\ UNCHANGED <<flags, init, wpc, db, xcache, image>>
    BY <1>1 DEF MainBoot
  <2>2. Trained' = Trained /\ RowsInv'
    BY <2>1, SameTrained DEF DataInv
  <2>3. Ready => Ready'
    BY <2>1, <2>2 DEF Ready
  <2> QED
    BY <2>1, <2>2, <2>3 DEF DataInv, IndexKept, Loaded, Served
<1>2. CASE MainDaemon
  <2>1. /\ spc = "daemon" /\ spc' = "load"
        /\ UNCHANGED <<flags, init, wpc, db, xcache, image>>
    BY <1>2 DEF MainDaemon
  <2>2. Trained' = Trained /\ RowsInv'
    BY <2>1, SameTrained DEF DataInv
  <2>3. Ready => Ready'
    BY <2>1, <2>2 DEF Ready
  <2> QED
    BY <2>1, <2>2, <2>3 DEF DataInv, IndexKept, Loaded, Served
<1>3. CASE MainLoad
  <2>1. spc = "load" /\ UNCHANGED <<flags, init, wpc, xcache, image>> /\ ~init /\ image = NoImage
    BY <1>3 DEF MainLoad, DataInv, Loaded, Served
  <2>2. CASE db' = Rows(flags.data, flags.nkeys) /\ spc' = "train"
    <3>1. RowsInv'
      BY <2>2, RowsTyped, FlagsTyped DEF DataInv, RowsInv
    <3> QED
      BY <2>1, <2>2, <3>1 DEF DataInv, IndexKept, Loaded, Served
  <2>3. CASE spc' = "abort" /\ db' = db
    <3>1. RowsInv'
      BY <2>1, <2>3, SameTrained DEF DataInv
    <3> QED
      BY <2>1, <2>3, <3>1 DEF DataInv, IndexKept, Loaded, Served
  <2> QED
    BY <1>3, <2>2, <2>3 DEF MainLoad
<1>4. CASE MainTrain
  <2>1. /\ spc = "train" /\ spc' = "serialize" /\ xcache' = Trained
        /\ UNCHANGED <<flags, init, wpc, db, image>> /\ ~init
    BY <1>4 DEF MainTrain, DataInv, Loaded, Served
  <2>2. Trained' = Trained /\ RowsInv'
    BY <2>1, SameTrained DEF DataInv
  <2> QED
    BY <2>1, <2>2 DEF DataInv, IndexKept, Loaded, Served
<1>5. CASE MainSerialize
  <2>1. spc = "serialize" /\ UNCHANGED <<flags, init, wpc, db, xcache>> /\ ~init /\ image = NoImage
    BY <1>5 DEF MainSerialize, DataInv, Loaded, Served
  <2>2. Trained' = Trained /\ RowsInv'
    BY <2>1, SameTrained DEF DataInv
  <2>3. \/ image' = SerializeDB(xcache.models, xcache.tts) /\ spc' = "init"
        \/ spc' = "abort" /\ image' = image
    BY <1>5 DEF MainSerialize
  <2> QED
    BY <2>1, <2>2, <2>3 DEF DataInv, IndexKept, Loaded, Served
<1>6. CASE MainInit
  <2>1. /\ spc = "init" /\ spc' = "bar" /\ init' = TRUE
        /\ UNCHANGED <<flags, wpc, db, xcache, image>>
    BY <1>6 DEF MainInit
  <2>2. Trained' = Trained /\ RowsInv'
    BY <2>1, SameTrained DEF DataInv
  <2>3. Ready'
    BY <2>1, <2>2 DEF DataInv, Ready, Loaded, Served
  <2> QED
    BY <2>1, <2>2, <2>3 DEF DataInv, IndexKept, Loaded, Served
<1>7. CASE MainCheck
  <2>1. /\ spc = "bar" /\ UNCHANGED <<flags, init, wpc, db, xcache, image>>
        /\ spc' = "serve" \/ (spc' = "abort" /\ flags.ncheck > flags.nsub)
    BY <1>7 DEF MainCheck
  <2>2. Trained' = Trained /\ RowsInv'
    BY <2>1, SameTrained DEF DataInv
  <2>3. Ready => Ready'
    BY <2>1, <2>2 DEF Ready
  <2> QED
    BY <2>1, <2>2, <2>3 DEF DataInv, IndexKept, Loaded, Served
<1>8. CASE MainStop \/ MainExit
  <2>1. /\ spc \in {"serve", "join"} /\ spc' \in {"join", "exit"}
        /\ UNCHANGED <<flags, init, wpc, db, xcache, image>>
    BY <1>8 DEF MainStop, MainExit
  <2>2. Trained' = Trained /\ RowsInv'
    BY <2>1, SameTrained DEF DataInv
  <2>3. Ready => Ready'
    BY <2>1, <2>2 DEF Ready
  <2> QED
    BY <2>1, <2>2, <2>3 DEF DataInv, IndexKept, Loaded, Served
<1> QED
  BY <1>1, <1>2, <1>3, <1>4, <1>5, <1>6, <1>7, <1>8 DEF MainNext

\* Steps that leave the server's main thread where it is.
LEMMA OthersKeepData ==
  ASSUME DataInv, UNCHANGED <<flags, spc, init, db, xcache, image>>,
         \/ wpc' = wpc
         \/ \E w \in Worker : wpc' = [wpc EXCEPT ![w] = "bar"] \/ wpc' = [wpc EXCEPT ![w] = "exit"]
                              \/ (init /\ wpc' = [wpc EXCEPT ![w] = "loop"])
  PROVE  DataInv' /\ IndexKept
<1>1. Trained' = Trained /\ RowsInv'
  BY SameTrained DEF DataInv
<1>2. Ready => Ready'
  BY <1>1 DEF Ready
<1>3. wpc' \in [Worker -> {"off", "bar", "loop", "exit"}] /\ \A w \in Worker : wpc'[w] = "loop" => init'
  BY DEF DataInv
<1> QED
  BY <1>1, <1>2, <1>3 DEF DataInv, IndexKept

-----------------------------------------------------------------------------
(* The threads of the clients and the copies of the index. *)

ThreadTypes ==
  /\ tpc \in [Client -> {"connect", "bind", "boot", "meta", "bar", "run", "exit", "failed"}]
  /\ cpc \in [Client -> [Cors -> {"loop", "pages", "value", "rpc", "done"}]]
  /\ ckey \in [Client -> [Cors -> Int]]
  /\ cache = [p \in Proc |-> cache[p]]

Joined(c) == tpc[c] \notin {"connect", "failed"} \/ \E i \in Cors : cpc[c][i] # "loop"
LinkedInv == \A c \in Client : Joined(c) => Linked(c)

\* A thread is behind the barrier of its process only after thread 0 made the copy.
CopyInv ==
  /\ \A p \in Proc : cache[p] # NoIndex =>
       /\ init /\ cache[p].models = xcache.models
       /\ TablesInPlace => cache[p].tts = xcache.tts
  /\ \A c \in Client :
       /\ tpc[c] # "connect" => c \in flags.threads
       /\ c \in Boot /\ AtBarrier(c) => cache[ProcOf[c]] # NoIndex
       /\ tpc[c] \in {"run", "exit"} => cache[ProcOf[c]] # NoIndex

AskedInv ==
  \A c \in Client, i \in Cors :
    cpc[c][i] \in {"pages", "value", "rpc"} => ckey[c][i] \in AskedKeys(flags.data, flags.cnkeys)

CrashInv ==
  /\ crashed \cap Worker # {} => unlinked # {} \/ ~KeysMatch
  /\ LookupsAreRight

NetInv == WireInv /\ LinkInv /\ CallInv
LocalInv == ThreadTypes /\ LinkedInv /\ CopyInv /\ AskedInv
IInv == NetInv /\ DataInv /\ LocalInv /\ CrashInv

LinksKept == \A c \in Client : Linked(c) => Linked(c)'

\* Steps of the server.
LEMMA ServerKeepsLocal ==
  ASSUME LocalInv, UNCHANGED <<flags, tpc, cpc, ckey, cache>>, IndexKept, LinksKept
  PROVE  LocalInv'
<1>1. ThreadTypes' /\ AskedInv'
  BY DEF LocalInv, ThreadTypes, AskedInv
<1>2. LinkedInv'
  BY DEF LocalInv, LinkedInv, Joined, LinksKept
<1>3. CopyInv'
  <2>1. TablesInPlace' <=> TablesInPlace
    BY DEF TablesInPlace
  <2>2. \A c : AtBarrier(c)' <=> AtBarrier(c)
    BY DEF AtBarrier
  <2> QED
    BY <2>1, <2>2 DEF LocalInv, CopyInv, IndexKept
<1> QED
  BY <1>1, <1>2, <1>3 DEF LocalInv

LEMMA CallersRest ==
  ASSUME CallInv, UNCHANGED <<tpc, cpc, ckey>>
  PROVE  \A c \in Client, i \in CorId : Kept(c, i)
<1>1. \A c \in Client, i \in CorId : SlotOK(c, i) /\ (Asking(c, i)' <=> Asking(c, i))
  BY DEF CallInv, StationInv, Asking
<1> QED
  BY <1>1 DEF Kept, SlotOK

\* Steps that leave the network alone.
LEMMA QuietKeepsNet ==
  ASSUME NetInv, UNCHANGED <<inbox, polled, sessions, station, unlinked>>, IndexKept,
         \A c \in Client, i \in CorId : Kept(c, i)
  PROVE  NetInv' /\ LinksKept
<1>1. WireInv'
  BY SameTables DEF NetInv, WireInv
<1>2. LinkInv' /\ LinksKept
  BY QuietKeepsLinks DEF NetInv, LinksKept
<1>3. CallInv'
  BY KeptAnswers, QuietKeepsCalls DEF NetInv
<1> QED
  BY <1>1, <1>2, <1>3 DEF NetInv

LEMMA CrashesKept ==
  ASSUME CrashInv, UNCHANGED <<flags, wrong>>, crashed' = crashed, unlinked \subseteq unlinked'
  PROVE  CrashInv'
BY DEF CrashInv, LookupsAreRight, KeysMatch, TablesInPlace

LEMMA MainKeeps ==
  ASSUME IInv, MainNext
  PROVE  IInv'
<1>1. DataInv' /\ IndexKept /\ flags' = flags
  BY MainKeepsData DEF IInv
<1>2. UNCHANGED clientVars /\ UNCHANGED rpcVars
  BY DEF MainNext, MainBoot, MainDaemon, MainLoad, MainTrain, MainSerialize, MainInit, MainCheck,
         MainStop, MainExit
<1>3. UNCHANGED <<tpc, cpc, ckey, cache, wrong>>
      /\ UNCHANGED <<inbox, polled, sessions, station, unlinked, crashed>>
  BY <1>2 DEF clientVars, rpcVars
<1>4. NetInv' /\ LinksKept
  BY <1>1, <1>3, CallersRest, QuietKeepsNet DEF IInv, NetInv
<1>5. LocalInv'
  BY <1>1, <1>3, <1>4, ServerKeepsLocal DEF IInv
<1>6. CrashInv'
  BY <1>1, <1>3, CrashesKept DEF IInv
<1> QED
  BY <1>1, <1>4, <1>5, <1>6 DEF IInv

LEMMA WorkerMoves ==
  ASSUME IInv, NEW w \in Worker, WorkerStart(w) \/ WorkerLoop(w) \/ WorkerExit(w)
  PROVE  IInv'
<1>1. /\ UNCHANGED <<flags, spc, init, running, db, xcache, image, clientVars, rpcVars>>
      /\ \/ wpc' = [wpc EXCEPT ![w] = "bar"]
         \/ wpc' = [wpc EXCEPT ![w] = "exit"]
         \/ init /\ wpc' = [wpc EXCEPT ![w] = "loop"]
  BY DEF WorkerStart, WorkerLoop, WorkerExit
<1>2. DataInv' /\ IndexKept
  BY <1>1, OthersKeepData DEF IInv
<1>3. UNCHANGED <<flags, tpc, cpc, ckey, cache, wrong>>
      /\ UNCHANGED <<inbox, polled, sessions, station, unlinked, crashed>>
  BY <1>1 DEF clientVars, rpcVars
<1>4. NetInv' /\ LinksKept
  BY <1>2, <1>3, CallersRest, QuietKeepsNet DEF IInv, NetInv
<1>5. LocalInv'
  BY <1>2, <1>3, <1>4, ServerKeepsLocal DEF IInv
<1>6. CrashInv'
  BY <1>3, CrashesKept DEF IInv
<1> QED
  BY <1>2, <1>4, <1>5, <1>6 DEF IInv

\* A thread that asks is linked.
LEMMA AskersLinked ==
  ASSUME LocalInv, CallInv, NEW c \in Client, NEW i \in CorId, Waits(c, i)
  PROVE  Linked(c) /\ (i # 0 => ckey[c][i] \in AskedKeys(flags.data, flags.cnkeys))
<1>1. Asking(c, i)
  BY DEF CallInv, StationInv, SlotOK
<1>2. CASE i = 0
  BY <1>1, <1>2 DEF Asking, LocalInv, LinkedInv, Joined
<1>3. CASE i # 0
  <2>1. i \in Cors /\ cpc[c][i] = "rpc"
    BY <1>1, <1>3 DEF Asking, CorId, Cors
  <2> QED
    BY <2>1 DEF LocalInv, LinkedInv, Joined, AskedInv
<1> QED
  BY <1>2, <1>3

\* A callback that is called while the server serves replies; it fails only when a key
\* is not stored, or when the client's Connect is lost.
LEMMA WorkerServes ==
  ASSUME IInv, NEW w \in Worker, WorkerRecv(w)
  PROVE  IInv'
<1> DEFINE q == inbox[w]
<1>m. PICK m : m = Head(inbox[w])
  OBVIOUS
<1>1. /\ HasMsg(w) /\ wpc[w] = "loop"
      /\ UNCHANGED <<flags, serverVars, clientVars>>
      /\ \/ RecvConnect(w)
         \/ m.type = "req" /\ m.rpc = META /\ OnMeta(w)
         \/ m.type = "req" /\ m.rpc = GET /\ OnGet(w)
  BY <1>m DEF WorkerRecv
<1>2. UNCHANGED <<flags, spc, init, wpc, db, xcache, image, tpc, cpc, ckey, cache, wrong>>
  BY <1>1 DEF serverVars, clientVars
<1>3. DataInv' /\ IndexKept
  BY <1>2, OthersKeepData DEF IInv
<1>4. init /\ Ready /\ flags \in Deployments /\ RowsInv
  BY <1>1 DEF IInv, DataInv
<1>5. WireInv /\ LinkInv /\ CallInv /\ AnswersKept /\ \A c \in Client, i \in CorId : Kept(c, i)
  BY <1>2, <1>3, KeptAnswers, CallersRest DEF IInv, NetInv
<1>6. w \in Endpoint /\ q \in Seq(Owned) /\ q # <<>> /\ m \in Owned /\ m \in In(q)
  BY <1>1, <1>5, <1>m, TakeEffect, TailKeeps DEF Endpoint
<1>7. RequestOK(w, m)
  BY <1>5, <1>6 DEF CallInv, MailInv
<1>8. /\ Owner(m) \in Client /\ m.cor \in CorId /\ SessionId[Owner(m)] = m.sid
      /\ ServerOf[Owner(m)] = w
  BY <1>6, <1>7, SlotIs, OwnerIn DEF RequestOK
<1>9. LinkInv' /\ LinksKept => LocalInv'
  BY <1>2, <1>3, ServerKeepsLocal DEF IInv
<1>10. CASE RecvConnect(w)
  <2>1. /\ m.type = "connect" /\ Take(w) /\ AddNewSession(w, m) /\ inbox' = Taken(w)
        /\ UNCHANGED <<station, unlinked, crashed>>
    BY <1>10, <1>m DEF RecvConnect
  <2>2. WireInv'
    BY <1>1, <1>5, <1>m, <2>1, WorkerTakes
  <2>3. inbox'[w] = Tail(inbox[w]) /\ \A f \in Endpoint : f # w => inbox'[f] = inbox[f]
    BY <1>1, <1>5, <1>6, <2>1, TakeEffect
  <2>4. (\A v \in Worker : v # w => inbox'[v] = inbox[v]) /\ \A c \in Client : inbox'[c] = inbox[c]
    BY <2>3 DEF Endpoint
  <2>5. LinkInv' /\ LinksKept
    BY <1>1, <1>5, <1>m, <2>1, <2>3, <2>4, TakeKeepsLinks DEF LinksKept
  <2>6. CallInv'
    BY <1>1, <1>5, <2>1, <2>3, <2>4, WorkerKeepsCalls
  <2>7. CrashInv'
    BY <1>2, <2>1, CrashesKept DEF IInv
  <2> QED
    BY <1>3, <1>9, <2>2, <2>5, <2>6, <2>7 DEF IInv, NetInv
<1>11. ASSUME m.type = "req", NEW val \in Seq(Int), val = Answer(Owner(m), m.cor), RecvReq(w, val)
       PROVE  IInv'
  <2>1. /\ WireInv' /\ unlinked \subseteq unlinked' /\ inbox'[w] = Tail(inbox[w])
        /\ \A v \in Worker : v # w => inbox'[v] = inbox[v]
        /\ Replied(w, m, val)
    BY <1>1, <1>5, <1>11, <1>m, WorkerReplies
  <2>2. LookupSession(w, m) /\ UNCHANGED station
    BY <1>11, <1>m DEF RecvReq
  <2>3. LinkInv' /\ LinksKept
    BY <1>1, <1>5, <1>11, <1>m, <2>1, <2>2, TakeKeepsLinks DEF LinksKept
  <2>4. \/ \A c \in Client : inbox'[c] = inbox[c]
        \/ Answered(m)
    BY <1>4, <1>11, <2>1 DEF Replied, Answered
  <2>5. CallInv'
    BY <1>1, <1>5, <1>11, <1>m, <2>1, <2>2, <2>4, WorkerKeepsCalls
  <2>6. Waits(Owner(m), m.cor)
    BY <1>7, <1>11 DEF RequestOK
  <2>7. Linked(Owner(m))
    BY <1>5, <1>8, <2>6, AskersLinked DEF IInv
  <2>8. CrashInv'
    <3>1. CASE crashed' = crashed
      BY <1>2, <2>1, <3>1, CrashesKept DEF IInv
    <3>2. CASE crashed' # crashed
      <4>1. sessions[w][m.sid] \in {NoChannel, NoSession} /\ crashed' = crashed \cup {w}
        BY <2>1, <3>2 DEF Replied
      <4>2. Owner(m) \in unlinked \/ sessions[w][m.sid] = Owner(m)
        BY <1>1, <1>5, <1>8, <1>11, <1>m, <2>7, RequestHasChannel
      <4>3. Owner(m) \in unlinked'
        BY <1>8, <2>1, <4>1, <4>2, ChannelAssumption
      <4>4. crashed' \cap Client = crashed \cap Client
        BY <4>1
      <4> QED
        BY <1>2, <4>3, <4>4 DEF IInv, CrashInv, LookupsAreRight, KeysMatch, TablesInPlace
    <3> QED
      BY <3>1, <3>2
  <2> QED
    BY <1>3, <1>9, <2>1, <2>3, <2>5, <2>8 DEF IInv, NetInv
<1>12. CASE m.type = "req" /\ m.rpc = META /\ OnMeta(w)
  <2>1. m.cor = 0
    BY <1>7, <1>12 DEF RequestOK, META, GET
  <2>2. xcache # NoIndex
    BY <1>4, TrainedIs DEF Ready
  <2>3. RecvReq(w, MetaReply) /\ MetaReply \in Seq(Int)
    BY <1>4, <1>12, <2>2, ParsedIsIndex DEF OnMeta
  <2>4. Answer(Owner(m), m.cor) = MetaReply
    BY <2>1 DEF Answer
  <2> QED
    BY <1>11, <1>12, <2>3, <2>4
<1>13. CASE m.type = "req" /\ m.rpc = GET /\ OnGet(w)
  <2> DEFINE k == m.body[1]
  <2>1. m.cor # 0 /\ k = ckey[Owner(m)][m.cor]
    BY <1>7, <1>13 DEF RequestOK, META, GET
  <2>2. \/ k \in StoredKeys /\ RecvReq(w, <<ValueOf(k)>>)
        \/ k \notin StoredKeys /\ RecvFails(w)
    BY <1>13, <1>m DEF OnGet
  <2>3. CASE k \in StoredKeys /\ RecvReq(w, <<ValueOf(k)>>)
    <3>1. <<ValueOf(k)>> \in Seq(Int)
      BY <1>4, <2>3, KeysTyped
    <3>2. Answer(Owner(m), m.cor) = <<ValueOf(k)>>
      BY <2>1 DEF Answer
    <3> QED
      BY <1>11, <1>13, <2>3, <3>1, <3>2
  <2>4. CASE k \notin StoredKeys /\ RecvFails(w)
    <3>1. /\ Take(w) /\ LookupSession(w, m) /\ inbox' = Taken(w) /\ crashed' = crashed \cup {w}
          /\ UNCHANGED <<station, unlinked>>
      BY <2>4, <1>m DEF RecvFails
    <3>2. WireInv'
      BY <1>1, <1>5, <1>m, <3>1, WorkerTakes
    <3>3. inbox'[w] = Tail(inbox[w]) /\ \A f \in Endpoint : f # w => inbox'[f] = inbox[f]
      BY <1>1, <1>5, <1>6, <3>1, TakeEffect
    <3>4. (\A v \in Worker : v # w => inbox'[v] = inbox[v]) /\ \A c \in Client : inbox'[c] = inbox[c]
      BY <3>3 DEF Endpoint
    <3>5. LinkInv' /\ LinksKept
      BY <1>1, <1>5, <1>13, <1>m, <3>1, <3>3, <3>4, TakeKeepsLinks DEF LinksKept
    <3>6. CallInv'
      BY <1>1, <1>5, <3>1, <3>3, <3>4, WorkerKeepsCalls
    <3>7. ~KeysMatch
      <4>1. Waits(Owner(m), m.cor)
        BY <1>7, <1>13 DEF RequestOK
      <4>2. k \in AskedKeys(flags.data, flags.cnkeys)
        BY <1>5, <1>8, <2>1, <4>1, AskersLinked DEF IInv
      <4>3. KeysMatch => k \in {r[1] : r \in Rows(flags.data, flags.nkeys)}
        BY <1>4, <4>2, FlagsTyped, AskedAreLoaded DEF KeysMatch
      <4> QED
        BY <1>4, <2>4, <4>3 DEF StoredKeys, Ready
    <3>8. CrashInv'
      <4>1. crashed' \cap Client = crashed \cap Client
        BY <3>1
      <4> QED
        BY <1>2, <3>7, <4>1 DEF IInv, CrashInv, LookupsAreRight, KeysMatch, TablesInPlace
    <3> QED
      BY <1>3, <1>9, <3>2, <3>5, <3>6, <3>8 DEF IInv, NetInv
  <2> QED
    BY <2>2, <2>3, <2>4
<1> QED
  BY <1>1, <1>10, <1>12, <1>13

-----------------------------------------------------------------------------
(* Steps of a client thread: where it is afterwards, and which of its calls go on. *)

\* Thread c is at t, its coroutines at f with the keys g; the others are where they were.
Moved(c, t, f, g) ==
  /\ tpc' = [tpc EXCEPT ![c] = t] /\ t \in {"connect", "bind", "boot", "meta", "bar", "run", "exit", "failed"}
  /\ cpc' = [cpc EXCEPT ![c] = f] /\ f \in [Cors -> {"loop", "pages", "value", "rpc", "done"}]
  /\ ckey' = [ckey EXCEPT ![c] = g] /\ g \in [Cors -> Int]

\* The copy of a process is what it was, or the index.
CopyStep(p, x) ==
  /\ cache' = [cache EXCEPT ![p] = x]
  /\ \/ x = cache[p]
     \/ /\ x # NoIndex /\ init /\ x.models = xcache.models
        /\ TablesInPlace => x.tts = xcache.tts

\* It looks up keys it asked for, behind the barrier with a copy.
Placed(c, t, f, g, x) ==
  /\ \A i \in Cors : f[i] \in {"pages", "value", "rpc"} => g[i] \in AskedKeys(flags.data, flags.cnkeys)
  /\ t \in {"run", "exit"} \/ (c \in Boot /\ t = "bar") => x # NoIndex

LEMMA MovedIs ==
  ASSUME ThreadTypes, NEW c \in Client, NEW t, NEW f, NEW g, Moved(c, t, f, g)
  PROVE  /\ tpc'[c] = t /\ cpc'[c] = f /\ ckey'[c] = g
         /\ \A d \in Client : d # c => tpc'[d] = tpc[d] /\ cpc'[d] = cpc[d] /\ ckey'[d] = ckey[d]
BY DEF ThreadTypes, Moved

LEMMA OthersRest ==
  ASSUME CallInv, ThreadTypes, NEW c \in Client, NEW t, NEW f, NEW g, Moved(c, t, f, g)
  PROVE  \A d \in Client, i \in CorId : d # c => Kept(d, i)
<1> SUFFICES ASSUME NEW d \in Client, NEW i \in CorId, d # c PROVE Kept(d, i)
  OBVIOUS
<1>1. tpc'[d] = tpc[d] /\ cpc'[d] = cpc[d] /\ ckey'[d] = ckey[d]
  BY MovedIs
<1>2. (Asking(d, i)' <=> Asking(d, i)) /\ ckey'[d][i] = ckey[d][i]
  BY <1>1 DEF Asking
<1>3. SlotOK(d, i)
  BY DEF CallInv, StationInv
<1> QED
  BY <1>2, <1>3 DEF Kept, SlotOK

LEMMA ClientKeepsLocal ==
  ASSUME LocalInv, NEW c \in Client, c \in flags.threads, UNCHANGED flags, IndexKept, LinksKept,
         NEW t, NEW f, NEW g, Moved(c, t, f, g), NEW x, CopyStep(ProcOf[c], x),
         t \notin {"connect", "failed"} \/ (\E i \in Cors : f[i] # "loop") => Linked(c)',
         Placed(c, t, f, g, x)
  PROVE  LocalInv'
<1> DEFINE p == ProcOf[c]
<1>0. p \in Proc /\ \A d \in Client : ProcOf[d] \in Proc
  BY ServiceAssumption
<1>1. /\ tpc'[c] = t /\ cpc'[c] = f /\ ckey'[c] = g
      /\ \A d \in Client : d # c => tpc'[d] = tpc[d] /\ cpc'[d] = cpc[d] /\ ckey'[d] = ckey[d]
  BY MovedIs DEF LocalInv
<1>2. cache = [r \in Proc |-> cache[r]]
  BY DEF LocalInv, ThreadTypes
<1>3. cache'[p] = x /\ \A r \in Proc : r # p => cache'[r] = cache[r]
  BY <1>0, <1>2 DEF CopyStep
<1>4. ThreadTypes'
  <2>1. tpc' \in [Client -> {"connect", "bind", "boot", "meta", "bar", "run", "exit", "failed"}]
    BY DEF LocalInv, ThreadTypes, Moved
  <2>2. cpc' \in [Client -> [Cors -> {"loop", "pages", "value", "rpc", "done"}]]
    BY DEF LocalInv, ThreadTypes, Moved
  <2>3. ckey' \in [Client -> [Cors -> Int]]
    BY DEF LocalInv, ThreadTypes, Moved
  <2>4. cache' = [r \in Proc |-> cache'[r]]
    BY <1>0, <1>2 DEF CopyStep
  <2> QED
    BY <2>1, <2>2, <2>3, <2>4 DEF ThreadTypes
<1>5. LinkedInv'
  <2> SUFFICES ASSUME NEW d \in Client, Joined(d)' PROVE Linked(d)'
    BY DEF LinkedInv
  <2>1. CASE d = c
    BY <1>1, <2>1 DEF Joined
  <2>2. CASE d # c
    <3>1. Joined(d)
      BY <1>1, <2>2 DEF Joined
    <3> QED
      BY <3>1 DEF LocalInv, LinkedInv, LinksKept
  <2> QED
    BY <2>1, <2>2
<1>6. AskedInv'
  BY <1>1 DEF LocalInv, AskedInv, Placed
<1>7. CopyInv'
  <2>1. TablesInPlace' <=> TablesInPlace
    BY DEF TablesInPlace
  <2>2. \A r \in Proc : cache[r] # NoIndex => init /\ cache'[r] # NoIndex
    BY <1>3 DEF LocalInv, CopyInv, CopyStep
  <2>3. ASSUME NEW r \in Proc, cache'[r] # NoIndex
        PROVE  /\ init' /\ cache'[r].models = xcache'.models
               /\ TablesInPlace => cache'[r].tts = xcache'.tts
    <3>1. /\ init /\ cache'[r].models = xcache.models
          /\ TablesInPlace => cache'[r].tts = xcache.tts
      BY <1>3, <2>3 DEF LocalInv, CopyInv, CopyStep
    <3> QED
      BY <3>1 DEF IndexKept
  <2>4. ASSUME NEW d \in Client
        PROVE  /\ tpc'[d] # "connect" => d \in flags'.threads
               /\ d \in Boot /\ AtBarrier(d)' => cache'[ProcOf[d]] # NoIndex
               /\ tpc'[d] \in {"run", "exit"} => cache'[ProcOf[d]] # NoIndex
    <3>1. CASE d = c
      BY <1>1, <1>3, <3>1 DEF AtBarrier, Placed
    <3>2. CASE d # c
      <4>1. AtBarrier(d)' <=> AtBarrier(d)
        BY <1>1, <3>2 DEF AtBarrier
      <4>2. /\ tpc[d] # "connect" => d \in flags.threads
            /\ d \in Boot /\ AtBarrier(d) => cache[ProcOf[d]] # NoIndex
            /\ tpc[d] \in {"run", "exit"} => cache[ProcOf[d]] # NoIndex
        BY DEF LocalInv, CopyInv
      <4> QED
        BY <1>0, <1>1, <2>2, <3>2, <4>1, <4>2
    <3> QED
      BY <3>1, <3>2
  <2> QED
    BY <2>1, <2>3, <2>4 DEF CopyInv
<1> QED
  BY <1>4, <1>5, <1>6, <1>7 DEF LocalInv

\* Steps of a client thread that leave the network alone.
LEMMA QuietClient ==
  ASSUME IInv, NEW c \in Client, ThreadUp(c),
         UNCHANGED <<flags, spc, init, wpc, db, xcache, image>>,
         UNCHANGED <<inbox, polled, sessions, station, unlinked>>,
         NEW t, NEW f, NEW g, Moved(c, t, f, g), NEW x, CopyStep(ProcOf[c], x),
         \A i \in CorId : Kept(c, i),
         t \notin {"connect", "failed"} \/ (\E i \in Cors : f[i] # "loop") => Linked(c),
         Placed(c, t, f, g, x)
  PROVE  NetInv' /\ DataInv' /\ LocalInv'
<1>1. DataInv' /\ IndexKept
  BY OthersKeepData DEF IInv
<1>2. \A d \in Client, i \in CorId : Kept(d, i)
  BY OthersRest DEF IInv, NetInv, LocalInv
<1>3. NetInv' /\ LinksKept
  BY <1>1, <1>2, QuietKeepsNet DEF IInv
<1>4. Linked(c) => Linked(c)'
  BY <1>3 DEF LinksKept
<1>5. c \in flags.threads
  BY DEF ThreadUp
<1>6. LocalInv
  BY DEF IInv
<1>7. t \notin {"connect", "failed"} \/ (\E i \in Cors : f[i] # "loop") => Linked(c)'
  BY <1>4
<1>8. UNCHANGED flags /\ LinksKept
  BY <1>3
<1>9. LocalInv'
  BY <1>1, <1>5, <1>6, <1>7, <1>8, ClientKeepsLocal
<1> QED
  BY <1>1, <1>3, <1>9

LEMMA SameCopy ==
  ASSUME ThreadTypes, NEW c \in Client, UNCHANGED cache
  PROVE  CopyStep(ProcOf[c], cache[ProcOf[c]])
<1>1. ProcOf[c] \in Proc /\ cache = [r \in Proc |-> cache[r]]
  BY ServiceAssumption DEF ThreadTypes
<1> QED
  BY <1>1 DEF CopyStep

-----------------------------------------------------------------------------
(* The steps of a client thread up to its barrier. *)

LEMMA QuietCrashes ==
  ASSUME CrashInv, UNCHANGED <<flags, wrong, crashed, unlinked>>
  PROVE  CrashInv'
BY CrashesKept

\* The place of a thread and what it does, spelled out.
LEMMA PlaceOf ==
  ASSUME IInv, NEW c \in Client
  PROVE  /\ ThreadTypes /\ LocalInv /\ CallInv /\ WireInv /\ LinkInv
         /\ cpc[c] \in [Cors -> {"loop", "pages", "value", "rpc", "done"}]
         /\ ckey[c] \in [Cors -> Int]
         /\ tpc[c] \in {"connect", "bind", "boot", "meta", "bar", "run", "exit", "failed"}
         /\ tpc[c] \notin {"connect", "failed"} \/ (\E i \in Cors : cpc[c][i] # "loop") => Linked(c)
         /\ \A i \in Cors : cpc[c][i] \in {"pages", "value", "rpc"}
              => ckey[c][i] \in AskedKeys(flags.data, flags.cnkeys)
         /\ cpc = [cpc EXCEPT ![c] = cpc[c]] /\ ckey = [ckey EXCEPT ![c] = ckey[c]]
         /\ tpc = [tpc EXCEPT ![c] = tpc[c]]
BY DEF IInv, NetInv, LocalInv, ThreadTypes, LinkedInv, Joined, AskedInv

\* A thread goes from a place where it does not ask to another, with its coroutines as
\* they are.
LEMMA ThreadGoes ==
  ASSUME IInv, NEW c \in Client, ThreadUp(c), NEW t,
         UNCHANGED <<flags, serverVars, cache, cpc, ckey, wrong, rpcVars>>,
         tpc' = [tpc EXCEPT ![c] = t],
         t \in {"boot", "bar", "run", "failed"}, tpc[c] # "meta",
         t # "failed" => tpc[c] \notin {"connect", "failed"},
         t = "run" \/ (c \in Boot /\ t = "bar") => cache[ProcOf[c]] # NoIndex
  PROVE  IInv'
<1> DEFINE x == cache[ProcOf[c]]
<1>1. /\ UNCHANGED <<flags, spc, init, wpc, db, xcache, image, cache, cpc, ckey, wrong>>
      /\ UNCHANGED <<inbox, polled, sessions, station, unlinked, crashed>>
  BY DEF serverVars, rpcVars
<1>2. CopyStep(ProcOf[c], x)
  BY <1>1, PlaceOf, SameCopy
<1>3. Moved(c, t, cpc[c], ckey[c])
  BY <1>1, PlaceOf DEF Moved
<1>4. \A i \in CorId : Kept(c, i)
  <2>1. tpc'[c] = t
    BY <1>3, PlaceOf, MovedIs
  <2> SUFFICES ASSUME NEW i \in CorId PROVE Kept(c, i)
    OBVIOUS
  <2>2. (Asking(c, i)' <=> Asking(c, i)) /\ ckey'[c][i] = ckey[c][i]
    BY <1>1, <2>1 DEF Asking
  <2>3. SlotOK(c, i)
    BY PlaceOf DEF CallInv, StationInv
  <2> QED
    BY <2>2, <2>3 DEF Kept, SlotOK
<1>5. t \notin {"connect", "failed"} \/ (\E i \in Cors : cpc[c][i] # "loop") => Linked(c)
  BY PlaceOf
<1>6. Placed(c, t, cpc[c], ckey[c], x)
  BY PlaceOf DEF Placed
<1> HIDE DEF x
<1>7. NetInv' /\ DataInv' /\ LocalInv'
  BY <1>1, <1>2, <1>3, <1>4, <1>5, <1>6, QuietClient
<1>8. CrashInv'
  BY <1>1, QuietCrashes DEF IInv
<1> QED
  BY <1>7, <1>8 DEF IInv

LEMMA ThreadsGo ==
  ASSUME IInv, NEW c \in Client, ThreadConnectTimeout(c) \/ ThreadBind(c) \/ ThreadRun(c)
  PROVE  IInv'
<1>1. CASE ThreadConnectTimeout(c)
  <2>1. /\ ThreadUp(c) /\ tpc[c] = "connect" /\ tpc' = [tpc EXCEPT ![c] = "failed"]
        /\ UNCHANGED <<flags, serverVars, cache, cpc, ckey, wrong, rpcVars>>
    BY <1>1 DEF ThreadConnectTimeout
  <2> QED
    BY <2>1, ThreadGoes
<1>2. CASE ThreadBind(c)
  <2>1. PICK t \in {"failed", "boot", "bar"} :
          tpc' = [tpc EXCEPT ![c] = t] /\ (t = "bar" => c \notin Boot)
    BY <1>2 DEF ThreadBind
  <2>2. /\ ThreadUp(c) /\ tpc[c] = "bind"
        /\ UNCHANGED <<flags, serverVars, cache, cpc, ckey, wrong, rpcVars>>
    BY <1>2 DEF ThreadBind
  <2> QED
    BY <2>1, <2>2, ThreadGoes
<1>3. CASE ThreadRun(c)
  <2>1. /\ ThreadUp(c) /\ tpc[c] = "bar" /\ tpc' = [tpc EXCEPT ![c] = "run"]
        /\ ClientBarrierOpen(ProcOf[c])
        /\ UNCHANGED <<flags, serverVars, cache, cpc, ckey, wrong, rpcVars>>
    BY <1>3 DEF ThreadRun
  <2>2. flags \in Deployments /\ c \in flags.threads
    BY <2>1 DEF IInv, DataInv, ThreadUp
  <2>3. PICK b \in flags.threads \cap Boot : ProcOf[b] = ProcOf[c]
    BY <2>2, FlagsAssumption
  <2>4. b \in Client /\ b \in Boot /\ AtBarrier(b)
    BY <2>1, <2>2, <2>3, FlagsTyped DEF ClientBarrierOpen, ThreadsOf
  <2>5. cache[ProcOf[c]] # NoIndex
    BY <2>3, <2>4 DEF IInv, LocalInv, CopyInv
  <2> QED
    BY <2>1, <2>5, ThreadGoes
<1> QED
  BY <1>1, <1>2, <1>3

LEMMA ThreadFetches ==
  ASSUME IInv, NEW c \in Client, ThreadFetch(c)
  PROVE  IInv'
<1>1. /\ ThreadUp(c) /\ tpc[c] = "meta" /\ CorReady(c, 0)
      /\ UNCHANGED <<flags, serverVars, cpc, ckey, wrong, rpcVars>>
      /\ \/ /\ cache' = [cache EXCEPT ![ProcOf[c]] = Parsed(station[c][0].buf)]
            /\ tpc' = [tpc EXCEPT ![c] = "bar"]
         \/ tpc' = [tpc EXCEPT ![c] = "failed"] /\ UNCHANGED cache
  BY DEF ThreadFetch
<1>2. /\ UNCHANGED <<flags, spc, init, wpc, db, xcache, image, cpc, ckey, wrong>>
      /\ UNCHANGED <<inbox, polled, sessions, station, unlinked, crashed>>
  BY <1>1 DEF serverVars, rpcVars
<1>3. 0 \in CorId /\ Asking(c, 0) /\ ~Waits(c, 0)
  BY <1>1, RPCAssumption DEF CorId, Asking, CorReady, Waits
<1>4. init /\ station[c][0].buf = MetaReply
  <2>1. SlotOK(c, 0)
    BY <1>3, PlaceOf DEF CallInv, StationInv
  <2> QED
    BY <1>3, <2>1 DEF SlotOK, Answer
<1>5. /\ Parsed(MetaReply).models = xcache.models /\ xcache.models # <<>>
      /\ TablesInPlace => Parsed(MetaReply).tts = xcache.tts
  BY <1>4, ParsedIsIndex DEF IInv, DataInv
<1>6. Parsed(MetaReply) # NoIndex
  BY <1>5 DEF NoIndex
<1>7. ASSUME NEW t \in {"bar", "failed"}, tpc' = [tpc EXCEPT ![c] = t],
             NEW x, CopyStep(ProcOf[c], x), t = "bar" => x # NoIndex
      PROVE  IInv'
  <2>1. Moved(c, t, cpc[c], ckey[c])
    BY <1>2, <1>7, PlaceOf DEF Moved
  <2>2. \A i \in CorId : Kept(c, i)
    <3> SUFFICES ASSUME NEW i \in CorId PROVE Kept(c, i)
      OBVIOUS
    <3>1. tpc'[c] = t
      BY <2>1, PlaceOf, MovedIs
    <3>2. i # 0 => (Asking(c, i)' <=> Asking(c, i)) /\ ckey'[c][i] = ckey[c][i]
      BY <1>2 DEF Asking
    <3>3. i = 0 => ~Asking(c, i)'
      BY <1>7, <3>1 DEF Asking
    <3>4. SlotOK(c, i)
      BY PlaceOf DEF CallInv, StationInv
    <3> QED
      BY <1>3, <3>2, <3>3, <3>4 DEF Kept, SlotOK
  <2>3. Linked(c)
    BY <1>1, PlaceOf
  <2>4. Placed(c, t, cpc[c], ckey[c], x)
    BY <1>7, PlaceOf DEF Placed
  <2>5. NetInv' /\ DataInv' /\ LocalInv'
    BY <1>1, <1>2, <1>7, <2>1, <2>2, <2>3, <2>4, QuietClient
  <2>6. CrashInv'
    BY <1>2, QuietCrashes DEF IInv
  <2> QED
    BY <2>5, <2>6 DEF IInv
<1>8. CASE cache' = [cache EXCEPT ![ProcOf[c]] = Parsed(station[c][0].buf)]
           /\ tpc' = [tpc EXCEPT ![c] = "bar"]
  <2>1. PICK y : y = Parsed(MetaReply)
    OBVIOUS
  <2>2. CopyStep(ProcOf[c], y) /\ y # NoIndex
    BY <1>4, <1>5, <1>6, <1>8, <2>1 DEF CopyStep
  <2> QED
    BY <1>7, <1>8, <2>2
<1>9. CASE tpc' = [tpc EXCEPT ![c] = "failed"] /\ UNCHANGED cache
  <2>1. CopyStep(ProcOf[c], cache[ProcOf[c]])
    BY <1>9, PlaceOf, SameCopy
  <2> QED
    BY <1>7, <1>9, <2>1
<1> QED
  BY <1>1, <1>8, <1>9

-----------------------------------------------------------------------------
(* The steps of a client thread that send or receive. *)

LEMMA ThreadConnects ==
  ASSUME IInv, NEW c \in Client, ThreadConnect(c)
  PROVE  IInv'
<1> DEFINE x == cache[ProcOf[c]]
<1>1. /\ ThreadUp(c) /\ tpc[c] = "connect" /\ tpc' = [tpc EXCEPT ![c] = "bind"] /\ SendConnect(c)
      /\ UNCHANGED <<flags, serverVars, cache, cpc, ckey, wrong>>
  BY DEF ThreadConnect
<1>2. UNCHANGED <<flags, spc, init, wpc, db, xcache, image, cache, cpc, ckey, wrong>>
  BY <1>1 DEF serverVars
<1>3. /\ Send(ServerOf[c], Connect(c), inbox, held, polled)
      /\ UNCHANGED <<polled, sessions>> /\ UNCHANGED station /\ crashed' = crashed
  BY <1>1 DEF SendConnect
<1>4. DataInv' /\ IndexKept
  BY <1>2, OthersKeepData DEF IInv
<1>5. Connect(c) \in Owned /\ Connect(c).type = "connect" /\ Connect(c).sid = SessionId[c]
  BY BuiltOwned DEF Connect
<1>6. /\ WireInv' /\ unlinked \subseteq unlinked'
      /\ Sent(inbox[ServerOf[c]], Connect(c), inbox'[ServerOf[c]])
      /\ \A f \in Endpoint : f # ServerOf[c] => inbox'[f] = inbox[f]
  BY <1>3, <1>5, PlaceOf, ClientPosts
<1>7. LinkInv' /\ Linked(c)' /\ LinksKept
  BY <1>3, <1>5, <1>6, PlaceOf, SendKeepsLinks DEF LinksKept
<1>8. Moved(c, "bind", cpc[c], ckey[c])
  BY <1>1, <1>2, PlaceOf DEF Moved
<1>9. \A i \in CorId : Kept(c, i)
  <2> SUFFICES ASSUME NEW i \in CorId PROVE Kept(c, i)
    OBVIOUS
  <2>1. tpc'[c] = "bind"
    BY <1>8, PlaceOf, MovedIs
  <2>2. (Asking(c, i)' <=> Asking(c, i)) /\ ckey'[c][i] = ckey[c][i]
    BY <1>1, <1>2, <2>1 DEF Asking
  <2>3. SlotOK(c, i)
    BY PlaceOf DEF CallInv, StationInv
  <2> QED
    BY <2>2, <2>3 DEF Kept, SlotOK
<1>10. \A d \in Client, i \in CorId : Kept(d, i)
  BY <1>8, <1>9, PlaceOf, OthersRest
<1>11. CallInv'
  BY <1>3, <1>4, <1>6, <1>10, PlaceOf, KeptAnswers, ConnectKeepsCalls
<1>12. CopyStep(ProcOf[c], x)
  BY <1>2, PlaceOf, SameCopy
<1>13. Placed(c, "bind", cpc[c], ckey[c], x) /\ c \in flags.threads /\ UNCHANGED flags
  BY <1>1, <1>2, PlaceOf DEF Placed, ThreadUp
<1> HIDE DEF x
<1>14. LocalInv'
  BY <1>4, <1>7, <1>8, <1>12, <1>13, PlaceOf, ClientKeepsLocal
<1>15. CrashInv'
  BY <1>2, <1>3, <1>6, CrashesKept DEF IInv
<1> QED
  BY <1>4, <1>6, <1>7, <1>11, <1>14, <1>15 DEF IInv, NetInv

\* A call: thread 0 asks for the index, a coroutine for a value.
LEMMA CallerCalls ==
  ASSUME IInv, NEW c \in Client, NEW j \in CorId, NEW id \in 0..1, NEW args \in Seq(Int),
         ThreadUp(c), Call(c, j, id, args),
         UNCHANGED <<flags, serverVars, cache, wrong>>,
         NEW t, NEW f, NEW g, Moved(c, t, f, g),
         tpc[c] \notin {"connect", "failed"},
         ~Asking(c, j), Asking(c, j)',
         j = 0 => id = META,
         j # 0 => id = GET /\ args = <<ckey'[c][j]>>,
         \A i \in CorId : i # j => Kept(c, i),
         Placed(c, t, f, g, cache[ProcOf[c]])
  PROVE  IInv'
<1> DEFINE x == cache[ProcOf[c]]
<1>1. UNCHANGED <<flags, spc, init, wpc, db, xcache, image, cache, wrong>>
  BY DEF serverVars
<1>2. j < StationSize
  BY RPCAssumption, CallsAssumption DEF CorId
<1>3. /\ AddPendingReply(c, j) /\ Send(ServerOf[c], Req(c, j, id, args), inbox, held, polled)
      /\ crashed' = crashed /\ UNCHANGED <<polled, sessions>>
  BY <1>2 DEF Call
<1>4. DataInv' /\ IndexKept
  BY <1>1, OthersKeepData DEF IInv
<1>5. PICK m : m = Req(c, j, id, args)
  OBVIOUS
<1>6. m \in Owned /\ m.sid = SessionId[c]
  BY <1>5, BuiltOwned DEF Req
<1>7. /\ WireInv' /\ unlinked \subseteq unlinked'
      /\ Sent(inbox[ServerOf[c]], m, inbox'[ServerOf[c]])
      /\ \A e \in Endpoint : e # ServerOf[c] => inbox'[e] = inbox[e]
  BY <1>3, <1>5, <1>6, PlaceOf, ClientPosts
<1>8. Linked(c)
  BY PlaceOf
<1>9. LinkInv' /\ Linked(c)' /\ LinksKept
  BY <1>3, <1>6, <1>7, <1>8, PlaceOf, SendKeepsLinks DEF LinksKept
<1>10. \A d \in Client, i \in CorId : <<d, i>> # <<c, j>> => Kept(d, i)
  <2>1. \A d \in Client, i \in CorId : d # c => Kept(d, i)
    BY PlaceOf, OthersRest
  <2> QED
    BY <2>1
<1>11. CallInv'
  <2>1. Sent(inbox[ServerOf[c]], Req(c, j, id, args), inbox'[ServerOf[c]])
    BY <1>5, <1>7
  <2>2. AnswersKept
    BY <1>4, KeptAnswers
  <2> QED
    BY <1>3, <1>7, <1>10, <2>1, <2>2, PlaceOf, CallKeepsCalls
<1>12. CopyStep(ProcOf[c], x)
  BY <1>1, PlaceOf, SameCopy
<1>13. Placed(c, t, f, g, x) /\ c \in flags.threads /\ UNCHANGED flags
  BY <1>1 DEF ThreadUp
<1> HIDE DEF x
<1>14. LocalInv'
  BY <1>4, <1>9, <1>12, <1>13, PlaceOf, ClientKeepsLocal
<1>15. CrashInv'
  BY <1>1, <1>3, <1>7, CrashesKept DEF IInv
<1> QED
  BY <1>4, <1>7, <1>9, <1>11, <1>14, <1>15 DEF IInv, NetInv

LEMMA ThreadAsks ==
  ASSUME IInv, NEW c \in Client, ThreadMeta(c)
  PROVE  IInv'
<1>1. /\ ThreadUp(c) /\ tpc[c] = "boot" /\ tpc' = [tpc EXCEPT ![c] = "meta"]
      /\ Call(c, 0, META, <<MetaArg>>)
      /\ UNCHANGED <<flags, serverVars, cache, cpc, ckey, wrong>>
  BY DEF ThreadMeta
<1>2. Moved(c, "meta", cpc[c], ckey[c])
  BY <1>1, PlaceOf DEF Moved
<1>3. tpc'[c] = "meta" /\ 0 \in CorId /\ META \in 0..1 /\ <<MetaArg>> \in Seq(Int) /\ META = 0
  BY <1>2, PlaceOf, MovedIs, RPCAssumption DEF CorId, META, MetaArg
<1>4. ~Asking(c, 0) /\ Asking(c, 0)'
  BY <1>1, <1>3 DEF Asking
<1>5. \A i \in CorId : i # 0 => Kept(c, i)
  <2> SUFFICES ASSUME NEW i \in CorId, i # 0 PROVE Kept(c, i)
    OBVIOUS
  <2>1. (Asking(c, i)' <=> Asking(c, i)) /\ ckey'[c][i] = ckey[c][i]
    BY <1>1 DEF Asking
  <2>2. SlotOK(c, i)
    BY PlaceOf DEF CallInv, StationInv
  <2> QED
    BY <2>1, <2>2 DEF Kept, SlotOK
<1>6. Placed(c, "meta", cpc[c], ckey[c], cache[ProcOf[c]])
  BY PlaceOf DEF Placed
<1>7. UNCHANGED <<flags, serverVars, cache, wrong>>
  BY <1>1
<1> QED
  BY <1>1, <1>2, <1>3, <1>4, <1>5, <1>6, <1>7, CallerCalls

LEMMA ThreadPolls ==
  ASSUME IInv, NEW c \in Client, ThreadPoll(c)
  PROVE  IInv'
<1>1. RecvReply(c) /\ UNCHANGED <<flags, serverVars, clientVars>>
  BY DEF ThreadPoll
<1>2. UNCHANGED <<flags, spc, init, wpc, db, xcache, image, tpc, cpc, ckey, cache, wrong>>
  BY <1>1 DEF serverVars, clientVars
<1>3. CallInv' /\ WireInv' /\ crashed' = crashed
  BY <1>1, <1>2, PlaceOf, ReplyKeepsCalls
<1>4. DataInv' /\ IndexKept
  BY <1>2, OthersKeepData DEF IInv
<1>5. UNCHANGED sessions /\ UNCHANGED unlinked /\ \A v \in Worker : inbox'[v] = inbox[v]
  <2>1. HasMsg(c) /\ inbox' = Taken(c) /\ UNCHANGED sessions /\ UNCHANGED unlinked
    BY <1>1 DEF RecvReply
  <2>2. c \in Endpoint /\ \A v \in Worker : v \in Endpoint /\ v # c
    BY RPCAssumption DEF Endpoint
  <2> QED
    BY <2>1, <2>2, PlaceOf, TakeEffect
<1>6. LinkInv' /\ LinksKept
  BY <1>5, PlaceOf, QuietKeepsLinks DEF LinksKept
<1>7. LocalInv'
  BY <1>2, <1>4, <1>6, ServerKeepsLocal DEF IInv
<1>8. CrashInv'
  BY <1>2, <1>3, <1>5, CrashesKept DEF IInv
<1> QED
  BY <1>3, <1>4, <1>6, <1>7, <1>8 DEF IInv, NetInv

\* Steps of a client's main thread, and steps that change nothing.
LEMMA RestKeeps ==
  ASSUME IInv, UNCHANGED <<flags, serverVars, tpc, cache, cpc, ckey, wrong, rpcVars>>
  PROVE  IInv'
<1>1. UNCHANGED <<flags, spc, init, wpc, db, xcache, image, tpc, cpc, ckey, cache, wrong>>
      /\ UNCHANGED <<inbox, polled, sessions, station, unlinked, crashed>>
  BY DEF serverVars, rpcVars
<1>2. DataInv' /\ IndexKept
  BY <1>1, OthersKeepData DEF IInv
<1>3. NetInv' /\ LinksKept
  BY <1>1, <1>2, CallersRest, QuietKeepsNet DEF IInv, NetInv
<1>4. LocalInv'
  BY <1>1, <1>2, <1>3, ServerKeepsLocal DEF IInv
<1>5. CrashInv'
  BY <1>1, QuietCrashes DEF IInv
<1> QED
  BY <1>2, <1>3, <1>4, <1>5 DEF IInv

-----------------------------------------------------------------------------
(* The steps of a coroutine. *)

\* A thread that runs has the index, but for tables that are not in place.
LEMMA Running ==
  ASSUME IInv, NEW c \in Client, tpc[c] = "run"
  PROVE  /\ Linked(c) /\ cache[ProcOf[c]] # NoIndex
         /\ init /\ Ready /\ flags \in Deployments /\ RowsInv
         /\ TablesInPlace => cache[ProcOf[c]].tts = xcache.tts
<1>1. ProcOf[c] \in Proc
  BY ServiceAssumption
<1> QED
  BY <1>1, PlaceOf DEF IInv, DataInv, LocalInv, CopyInv

\* Coroutine i of c is at s with key k.
At(c, i, s, k) ==
  /\ cpc' = [cpc EXCEPT ![c][i] = s] /\ s \in {"loop", "pages", "value", "rpc", "done"}
  /\ ckey' = [ckey EXCEPT ![c][i] = k] /\ k \in Int
  /\ s \in {"pages", "value", "rpc"} => k \in AskedKeys(flags.data, flags.cnkeys)

\* Its thread goes from run to t.
Goes(c, t) ==
  /\ tpc[c] = "run" /\ t \in {"run", "exit", "failed"}
  /\ tpc' = [tpc EXCEPT ![c] = t]

Moves(c, t) == \E f, g : Moved(c, t, f, g) /\ Placed(c, t, f, g, cache[ProcOf[c]])

LEMMA AtMoves ==
  ASSUME IInv, NEW c \in Client, NEW i \in Cors, NEW s, NEW k, At(c, i, s, k),
         NEW t, Goes(c, t)
  PROVE  /\ Moves(c, t)
         /\ cpc'[c][i] = s /\ ckey'[c][i] = k /\ tpc'[c] = t
         /\ \A j \in CorId : j # i => Kept(c, j)
<1> DEFINE f == [cpc[c] EXCEPT ![i] = s]
           g == [ckey[c] EXCEPT ![i] = k]
<1>1. /\ cpc[c] \in [Cors -> {"loop", "pages", "value", "rpc", "done"}] /\ ckey[c] \in [Cors -> Int]
      /\ \A j \in Cors : cpc[c][j] \in {"pages", "value", "rpc"}
              => ckey[c][j] \in AskedKeys(flags.data, flags.cnkeys)
  BY PlaceOf
<1>2. /\ f \in [Cors -> {"loop", "pages", "value", "rpc", "done"}] /\ g \in [Cors -> Int]
      /\ f[i] = s /\ g[i] = k /\ \A j \in Cors : j # i => f[j] = cpc[c][j] /\ g[j] = ckey[c][j]
  BY <1>1 DEF At
<1>3. cpc' = [cpc EXCEPT ![c] = f] /\ ckey' = [ckey EXCEPT ![c] = g]
  BY DEF At
<1>4. Placed(c, t, f, g, cache[ProcOf[c]])
  <2>1. \A j \in Cors : f[j] \in {"pages", "value", "rpc"} => g[j] \in AskedKeys(flags.data, flags.cnkeys)
    BY <1>1, <1>2 DEF At
  <2> QED
    BY <2>1, Running DEF Placed, Goes
<1> HIDE DEF f, g
<1>5. Moved(c, t, f, g)
  BY <1>2, <1>3 DEF Moved, Goes
<1>6. tpc'[c] = t /\ cpc'[c] = f /\ ckey'[c] = g
  BY <1>5, PlaceOf, MovedIs
<1>7. ASSUME NEW j \in CorId, j # i PROVE Kept(c, j)
  <2>1. SlotOK(c, j)
    BY PlaceOf DEF CallInv, StationInv
  <2>2. CASE j = 0
    <3>1. ~Asking(c, j) /\ ~Asking(c, j)'
      BY <1>6, <2>2 DEF Asking, Goes
    <3> QED
      BY <2>1, <3>1 DEF Kept, SlotOK
  <2>3. CASE j # 0
    <3>1. j \in Cors
      BY <2>3 DEF CorId, Cors
    <3>2. cpc'[c][j] = cpc[c][j] /\ ckey'[c][j] = ckey[c][j]
      BY <1>2, <1>6, <1>7, <3>1
    <3>3. Asking(c, j)' <=> Asking(c, j)
      BY <2>3, <3>2 DEF Asking
    <3> QED
      BY <2>1, <3>2, <3>3 DEF Kept, SlotOK
  <2> QED
    BY <2>2, <2>3
<1>8. Moves(c, t)
  BY <1>4, <1>5 DEF Moves
<1> QED
  BY <1>2, <1>6, <1>7, <1>8

\* Steps of a coroutine that leave the network alone.
LEMMA QuietCoroutine ==
  ASSUME IInv, NEW c \in Client, Scheduled(c), NEW i \in Cors,
         UNCHANGED <<flags, serverVars, cache>>,
         UNCHANGED <<inbox, polled, sessions, station, unlinked>>,
         NEW t, Goes(c, t), NEW s, NEW k, At(c, i, s, k), s # "rpc", cpc[c][i] = "rpc" => CorReady(c, i)
  PROVE  NetInv' /\ DataInv' /\ LocalInv'
<1>1. UNCHANGED <<flags, spc, init, wpc, db, xcache, image>> /\ UNCHANGED cache
  BY DEF serverVars
<1>2. tpc[c] = "run" /\ ThreadUp(c)
  BY DEF Scheduled
<1>3. /\ Moves(c, t)
      /\ cpc'[c][i] = s /\ \A j \in CorId : j # i => Kept(c, j)
  BY <1>2, AtMoves
<1>4. PICK f, g : Moved(c, t, f, g) /\ Placed(c, t, f, g, cache[ProcOf[c]])
  BY <1>3 DEF Moves
<1>5. Kept(c, i)
  <2>1. i \in CorId /\ i # 0
    BY DEF CorId, Cors
  <2>2. ~Asking(c, i)'
    BY <1>3, <2>1 DEF Asking
  <2>3. Waits(c, i) => Asking(c, i)
    BY <2>1, PlaceOf DEF CallInv, StationInv, SlotOK
  <2>4. Asking(c, i) => ~Waits(c, i)
    BY <2>1 DEF Asking, CorReady, Waits
  <2> QED
    BY <2>2, <2>3, <2>4 DEF Kept
<1>6. CopyStep(ProcOf[c], cache[ProcOf[c]])
  BY <1>1, PlaceOf, SameCopy
<1>7. Linked(c)
  BY <1>2, Running
<1>8. \A j \in CorId : Kept(c, j)
  BY <1>3, <1>5
<1> QED
  BY <1>1, <1>2, <1>4, <1>6, <1>7, <1>8, QuietClient

LEMMA SameAt ==
  ASSUME IInv, NEW c \in Client, NEW i \in Cors
  PROVE  /\ ckey = [ckey EXCEPT ![c][i] = ckey[c][i]] /\ ckey[c][i] \in Int
         /\ cpc = [cpc EXCEPT ![c][i] = cpc[c][i]]
         /\ tpc = [tpc EXCEPT ![c] = tpc[c]]
         /\ cpc[c][i] \in {"loop", "pages", "value", "rpc", "done"}
         /\ cpc[c][i] \in {"pages", "value", "rpc"}
              => ckey[c][i] \in AskedKeys(flags.data, flags.cnkeys)
BY PlaceOf DEF ThreadTypes

\* A lookup by reads: the key is on a leaf of its table.
LEMMA PagesFound ==
  ASSUME IInv, NEW c \in Client, NEW i \in Cors, tpc[c] = "run", cpc[c][i] = "pages",
         KeysMatch, TablesInPlace
  PROVE  LET k == ckey[c][i]
             tts == cache[ProcOf[c]].tts
         IN k \in StoredKeys /\ \E j \in DOMAIN tts[SubOf(k)] : tts[SubOf(k)][j] = LeafOf(k)
<1> DEFINE k == ckey[c][i]
<1>1. /\ Ready /\ flags \in Deployments /\ RowsInv
      /\ cache[ProcOf[c]].tts = xcache.tts
  BY Running
<1>2. k \in AskedKeys(flags.data, flags.cnkeys)
  BY SameAt
<1>3. k \in StoredKeys
  <2>1. k \in {r[1] : r \in Rows(flags.data, flags.nkeys)}
    BY <1>1, <1>2, FlagsTyped, AskedAreLoaded DEF KeysMatch
  <2> QED
    BY <1>1, <2>1 DEF Ready, StoredKeys
<1>4. flags.nsub \in Nat \ {0}
  BY <1>1, FlagsTyped
<1>5. SubOf(k) \in 1..flags.nsub
  BY <1>1, <1>3, <1>4, KeyPlaces
<1>6. xcache.tts[SubOf(k)] = TrainedTT(SubOf(k))
  BY <1>1, <1>5, TrainedIs DEF Ready
<1>7. \E j \in DOMAIN TrainedTT(SubOf(k)) : TrainedTT(SubOf(k))[j] = LeafOf(k)
  BY <1>1, <1>3, <1>4, TablesTyped
<1> QED
  BY <1>1, <1>3, <1>6, <1>7

LEMMA CoroutineEnds ==
  ASSUME IInv, NEW c \in Client, NEW i \in Cors, CoroutineEnd(c, i)
  PROVE  IInv'
<1>1. /\ Scheduled(c) /\ cpc[c][i] = "loop" /\ tpc[c] = "run" /\ cpc' = [cpc EXCEPT ![c][i] = "done"]
      /\ tpc' = [tpc EXCEPT ![c] = IF i = Coros THEN "exit" ELSE tpc[c]]
      /\ UNCHANGED <<flags, serverVars, cache, ckey, wrong, rpcVars>>
  BY DEF CoroutineEnd, Scheduled
<1>2. PICK t : Goes(c, t)
  BY <1>1 DEF Goes
<1>3. At(c, i, "done", ckey[c][i])
  BY <1>1, SameAt DEF At
<1>4. UNCHANGED <<flags, serverVars, cache>> /\ UNCHANGED <<flags, wrong, crashed, unlinked>>
      /\ UNCHANGED <<inbox, polled, sessions, station, unlinked>>
  BY <1>1 DEF rpcVars
<1>5. NetInv' /\ DataInv' /\ LocalInv'
  BY <1>1, <1>2, <1>3, <1>4, QuietCoroutine
<1>6. CrashInv'
  BY <1>4, QuietCrashes DEF IInv
<1> QED
  BY <1>5, <1>6 DEF IInv

LEMMA PagesReads ==
  ASSUME IInv, NEW c \in Client, NEW i \in Cors, PagesRead(c, i)
  PROVE  IInv'
<1>1. /\ Scheduled(c) /\ cpc[c][i] = "pages" /\ tpc[c] = "run"
      /\ UNCHANGED <<flags, serverVars, cache>> /\ UNCHANGED <<ckey, wrong>>
      /\ UNCHANGED <<inbox, polled, sessions, station, unlinked>>
  BY DEF PagesRead, Scheduled
<1>p. PICK s \in {"pages", "value"} : cpc' = [cpc EXCEPT ![c][i] = s]
  BY <1>1, SameAt DEF PagesRead
<1>t. PICK t \in {"run", "failed"} : tpc' = [tpc EXCEPT ![c] = t]
  BY <1>1, SameAt DEF PagesRead
<1>2. s \in {"pages", "value"} /\ cpc' = [cpc EXCEPT ![c][i] = s] /\ t \in {"run", "failed"} /\ tpc' = [tpc EXCEPT ![c] = t]
  BY <1>p, <1>t
<1>3. At(c, i, s, ckey[c][i]) /\ Goes(c, t)
  BY <1>1, <1>2, SameAt DEF At, Goes
<1>4. ckey[c][i] \in AskedKeys(flags.data, flags.cnkeys)
  BY <1>1, SameAt
<1>5. NetInv' /\ DataInv' /\ LocalInv'
  BY <1>1, <1>2, <1>3, <1>4, QuietCoroutine
<1>6. crashed' = crashed \/ (crashed' = crashed \cup {c} /\ ~(KeysMatch /\ TablesInPlace))
  BY <1>1, PagesFound DEF PagesRead
<1>7. crashed' \cap Worker = crashed \cap Worker
  BY <1>6, RPCAssumption
<1>8. UNCHANGED <<flags, wrong, unlinked>>
  BY <1>1
<1>9. CrashInv'
  BY <1>6, <1>7, <1>8 DEF IInv, CrashInv, LookupsAreRight, KeysMatch, TablesInPlace
<1> QED
  BY <1>5, <1>9 DEF IInv

LEMMA ValueReads ==
  ASSUME IInv, NEW c \in Client, NEW i \in Cors, ValueRead(c, i)
  PROVE  IInv'
<1>1. /\ Scheduled(c) /\ cpc[c][i] = "value" /\ tpc[c] = "run"
      /\ UNCHANGED <<flags, serverVars, cache, ckey, wrong, rpcVars>>
  BY DEF ValueRead, Scheduled
<1>p. PICK s \in {"loop", "value"} : cpc' = [cpc EXCEPT ![c][i] = s]
  BY <1>1, SameAt DEF ValueRead
<1>t. PICK t \in {"run", "failed"} : tpc' = [tpc EXCEPT ![c] = t]
  BY <1>1, SameAt DEF ValueRead
<1>2. s \in {"loop", "value"} /\ cpc' = [cpc EXCEPT ![c][i] = s] /\ t \in {"run", "failed"} /\ tpc' = [tpc EXCEPT ![c] = t]
  BY <1>p, <1>t
<1>3. At(c, i, s, ckey[c][i]) /\ Goes(c, t)
  BY <1>1, <1>2, SameAt DEF At, Goes
<1>4. ckey[c][i] \in AskedKeys(flags.data, flags.cnkeys)
  BY <1>1, SameAt
<1>5. UNCHANGED <<flags, serverVars, cache>> /\ UNCHANGED <<flags, wrong, crashed, unlinked>>
      /\ UNCHANGED <<inbox, polled, sessions, station, unlinked>>
  BY <1>1 DEF rpcVars
<1>6. NetInv' /\ DataInv' /\ LocalInv'
  BY <1>1, <1>2, <1>3, <1>4, <1>5, QuietCoroutine
<1>7. CrashInv'
  BY <1>5, QuietCrashes DEF IInv
<1> QED
  BY <1>6, <1>7 DEF IInv

\* The reply has the value of the key that was asked for.
LEMMA ReplyReads ==
  ASSUME IInv, NEW c \in Client, NEW i \in Cors, ReplyRead(c, i)
  PROVE  IInv'
<1>1. /\ Scheduled(c) /\ cpc[c][i] = "rpc" /\ tpc[c] = "run" /\ CorReady(c, i)
      /\ cpc' = [cpc EXCEPT ![c][i] = "loop"]
      /\ wrong' = (wrong \/ station[c][i].buf # <<ValueOf(ckey[c][i])>>)
      /\ UNCHANGED <<flags, serverVars, tpc, cache, ckey, rpcVars>>
  BY DEF ReplyRead, Scheduled
<1>2. At(c, i, "loop", ckey[c][i]) /\ Goes(c, "run")
  BY <1>1, SameAt DEF At, Goes
<1>3. UNCHANGED <<flags, serverVars, cache>> /\ UNCHANGED <<flags, crashed, unlinked>>
      /\ UNCHANGED <<inbox, polled, sessions, station, unlinked>>
  BY <1>1 DEF rpcVars
<1>4. NetInv' /\ DataInv' /\ LocalInv'
  BY <1>1, <1>2, <1>3, QuietCoroutine
<1>5. station[c][i].buf = <<ValueOf(ckey[c][i])>>
  <2>1. i \in CorId /\ i # 0
    BY DEF CorId, Cors
  <2>2. Asking(c, i) /\ ~Waits(c, i) /\ SlotOK(c, i)
    BY <1>1, <2>1, PlaceOf DEF Asking, Waits, CorReady, CallInv, StationInv
  <2> QED
    BY <2>1, <2>2 DEF SlotOK, Answer
<1>6. ~wrong => ~wrong'
  BY <1>1, <1>5
<1>7. CrashInv'
  BY <1>3, <1>6 DEF IInv, CrashInv, LookupsAreRight, KeysMatch, TablesInPlace
<1> QED
  BY <1>4, <1>7 DEF IInv

LEMMA LooksUp ==
  ASSUME IInv, NEW c \in Client, NEW i \in Cors, NEW k, LookupByRPC(c, i, k) \/ LookupByRead(c, i, k)
  PROVE  IInv'
<1>1. /\ Scheduled(c) /\ cpc[c][i] = "loop" /\ tpc[c] = "run" /\ ThreadUp(c)
      /\ k \in AskedKeys(flags.data, flags.cnkeys)
      /\ ckey' = [ckey EXCEPT ![c][i] = k]
      /\ UNCHANGED <<flags, serverVars, cache, wrong>> /\ UNCHANGED tpc
  BY DEF LookupByRPC, LookupByRead, Begins, Scheduled
<1>2. k \in Int /\ Goes(c, "run")
  <2>1. flags \in Deployments
    BY DEF IInv, DataInv
  <2> QED
    BY <1>1, <2>1, SameAt, FlagsTyped, AskedAreLoaded DEF Goes
<1>3. CASE LookupByRead(c, i, k)
  <2>1. At(c, i, "pages", k)
    BY <1>1, <1>2, <1>3 DEF At, LookupByRead
  <2>2. UNCHANGED <<flags, serverVars, cache>> /\ UNCHANGED <<flags, wrong, crashed, unlinked>>
        /\ UNCHANGED <<inbox, polled, sessions, station, unlinked>>
    BY <1>1, <1>3 DEF LookupByRead, rpcVars
  <2>3. NetInv' /\ DataInv' /\ LocalInv'
    BY <1>1, <1>2, <2>1, <2>2, QuietCoroutine
  <2>4. CrashInv'
    BY <2>2, QuietCrashes DEF IInv
  <2> QED
    BY <2>3, <2>4 DEF IInv
<1>4. CASE LookupByRPC(c, i, k)
  <2>1. Call(c, i, GET, <<k>>) /\ At(c, i, "rpc", k)
    BY <1>1, <1>2, <1>4 DEF At, LookupByRPC
  <2>2. /\ Moves(c, "run")
        /\ cpc'[c][i] = "rpc" /\ ckey'[c][i] = k /\ \A j \in CorId : j # i => Kept(c, j)
    BY <1>1, <1>2, <2>1, AtMoves
  <2>3. PICK f, g : Moved(c, "run", f, g) /\ Placed(c, "run", f, g, cache[ProcOf[c]])
    BY <2>2 DEF Moves
  <2>4. i \in CorId /\ i # 0 /\ GET \in 0..1 /\ <<k>> \in Seq(Int)
    BY <1>2 DEF CorId, Cors, GET
  <2>5. ~Asking(c, i) /\ Asking(c, i)'
    BY <1>1, <2>2, <2>4 DEF Asking
  <2>6. UNCHANGED <<flags, serverVars, cache, wrong>>
    BY <1>1
  <2>7. <<k>> = <<ckey'[c][i]>> /\ tpc[c] \notin {"connect", "failed"}
    BY <1>1, <2>2
  <2> QED
    BY <1>1, <2>1, <2>2, <2>3, <2>4, <2>5, <2>6, <2>7, CallerCalls
<1> QED
  BY <1>3, <1>4

-----------------------------------------------------------------------------
(* The inductive invariant. *)

LEMMA InitHolds ==
  ASSUME Init
  PROVE  IInv
<1>0. \A e \in Endpoint : inbox[e] = <<>>
  BY DEF Init, RPCInit
<1>1. /\ In(<<>>) = {} /\ Calls(<<>>) = {} /\ Single(<<>>) /\ \A s : Clean(<<>>, s)
  BY DEF In, Calls, Single, Clean
<1>2. \A c \in Client : ServerOf[c] \in Worker /\ c \in Endpoint /\ SessionId[c] \in Sid
  BY RPCAssumption DEF Endpoint, Sid
<1>3. \A w \in Worker : w \in Endpoint
  BY DEF Endpoint
<1>4. WireInv
  <2>1. inbox \in Boxes /\ polled \in [Endpoint -> Nat] /\ sessions \in Tables
    BY DEF Init, RPCInit, Boxes, Tables
  <2>2. SessionIsCurrent
    BY <1>2 DEF Init, RPCInit, SessionIsCurrent
  <2> QED
    BY <2>1, <2>2 DEF WireInv
<1>5. LinkInv
  <2>1. \A w \in Worker, c \in Client : sessions[w][SessionId[c]] = NoSession
    BY <1>2 DEF Init, RPCInit
  <2>2. \A w \in Worker : \A s : Clean(inbox[w], s)
    BY <1>0, <1>1, <1>3
  <2> QED
    BY <1>2, <2>1, <2>2 DEF LinkInv, Apart, Silent, Session, Queue
<1>6. CallInv
  <2>1. MailInv
    BY <1>0, <1>1, <1>2, <1>3 DEF MailInv
  <2>2. OneEach
    BY <1>0, <1>1, <1>2, <1>3 DEF OneEach
  <2>3. station \in Stations /\ \A c \in Client, i \in CorId : ~Waits(c, i)
    BY DEF Init, RPCInit, Stations, Waits
  <2>4. \A c \in Client, i \in CorId : ~Asking(c, i)
    BY DEF Init, Asking, CorId, Cors
  <2> QED
    BY <2>1, <2>2, <2>3, <2>4 DEF CallInv, StationInv, SlotOK
<1>7. DataInv
  <2>1. RowsInv
    BY FS_EmptySet DEF Init, RowsInv
  <2> QED
    BY <2>1 DEF Init, DataInv, Loaded, Served
<1>8. LocalInv
  <2>1. ThreadTypes
    BY DEF Init, ThreadTypes, NoKey
  <2>2. LinkedInv /\ AskedInv
    BY DEF Init, LinkedInv, Joined, AskedInv
  <2>3. CopyInv
    BY ServiceAssumption DEF Init, CopyInv, AtBarrier
  <2> QED
    BY <2>1, <2>2, <2>3 DEF LocalInv
<1>9. CrashInv
  BY DEF Init, RPCInit, CrashInv, LookupsAreRight
<1> QED
  BY <1>4, <1>5, <1>6, <1>7, <1>8, <1>9 DEF IInv, NetInv

LEMMA ClientSteps ==
  ASSUME IInv, NEW c \in Client, ThreadNext(c) \/ \E i \in Cors : CoroutineNext(c, i)
  PROVE  IInv'
<1>1. CASE ThreadNext(c)
  BY <1>1, ThreadConnects, ThreadsGo, ThreadAsks, ThreadPolls, ThreadFetches DEF ThreadNext
<1>2. ASSUME NEW i \in Cors, CoroutineNext(c, i)
      PROVE  IInv'
  <2>1. CASE CoroutineEnd(c, i) \/ PagesRead(c, i) \/ ValueRead(c, i) \/ ReplyRead(c, i)
    BY <2>1, CoroutineEnds, PagesReads, ValueReads, ReplyReads
  <2>2. CASE \E k \in AskedKeys(flags.data, flags.cnkeys) : LookupByRPC(c, i, k) \/ LookupByRead(c, i, k)
    BY <2>2, LooksUp
  <2> QED
    BY <1>2, <2>1, <2>2 DEF CoroutineNext
<1> QED
  BY <1>1, <1>2

LEMMA StepHolds ==
  ASSUME IInv, [Next]_vars
  PROVE  IInv'
<1>1. CASE MainNext
  BY <1>1, MainKeeps
<1>2. ASSUME NEW w \in Worker, WorkerNext(w) PROVE IInv'
  BY <1>2, WorkerMoves, WorkerServes DEF WorkerNext
<1>3. ASSUME NEW c \in Client, ThreadNext(c) \/ \E i \in Cors : CoroutineNext(c, i)
      PROVE  IInv'
  BY <1>3, ClientSteps
<1>4. ASSUME NEW p \in Proc, ClientMainNext(p) PROVE IInv'
  <2>1. UNCHANGED <<flags, serverVars, tpc, cache, cpc, ckey, wrong, rpcVars>>
    BY <1>4 DEF ClientMainNext, ClientMainReport, ClientMainStop, ClientMainExit
  <2> QED
    BY <2>1, RestKeeps
<1>5. CASE UNCHANGED vars
  <2>1. UNCHANGED <<flags, serverVars, tpc, cache, cpc, ckey, wrong, rpcVars>>
    BY <1>5 DEF vars, clientVars
  <2> QED
    BY <2>1, RestKeeps
<1> QED
  BY <1>1, <1>2, <1>3, <1>4, <1>5 DEF Next

\* Every reachable state of the service satisfies the inductive invariant:
\* the phases, the published index, the clients' copies and their lookups agree.
THEOREM Invariance == Spec => []IInv
<1>1. Init => IInv
  BY InitHolds
<1>2. IInv /\ [Next]_vars => IInv'
  BY StepHolds
<1> QED
  BY <1>1, <1>2, PTL DEF Spec

\* The copy a client thread works with is there before its first lookup, and is the
\* index of the server (CopyInv is kept by ThreadFetch and ThreadRun).
THEOREM CopyIsRight == Spec => []CopyIsIndex
<1>1. IInv => CopyIsIndex
  BY DEF IInv, LocalInv, CopyInv, CopyIsIndex
<1> QED
  BY <1>1, Invariance, PTL

\* Every lookup by rpc returns the value of its key, and no lookup of a loaded key
\* fails an assertion of its client (core_eval and eval_w_rpc in client.cc).
THEOREM LookupsSucceed == Spec => []LookupsAreRight
<1>1. IInv => LookupsAreRight
  BY DEF IInv, CrashInv
<1> QED
  BY <1>1, Invariance, PTL

\* The server's threads fail only for a lost Connect or for keys that were not
\* loaded; its main thread ends early only for the faults of its flags or its memory.
THEOREM ServerHolds == Spec => []ServerFailsOnlyByFault
<1>1. IInv => ServerFailsOnlyByFault
  BY DEF IInv, CrashInv, DataInv, ServerFailsOnlyByFault
<1> QED
  BY <1>1, Invariance, PTL

-----------------------------------------------------------------------------
(* The keys of TPC-C. *)

\* Numbers below m, behind a more significant one.
LEMMA Digits ==
  ASSUME NEW x \in Nat, NEW y \in Nat, NEW m \in Nat, NEW u \in Nat, NEW v \in Nat, u < m
  PROVE  /\ x < y => x * m + u < y * m + v
         /\ x * m + u \in Nat
<1>1. x * m \in Nat /\ y * m \in Nat
  BY NatTimes
<1>2. ASSUME x < y PROVE x * m + u < y * m + v
  <2>1. PICK k \in Nat : y = x + 1 + k
    <3>1. y - x - 1 \in Nat /\ y = x + 1 + (y - x - 1)
      BY <1>2
    <3> QED
      BY <3>1
  <2>2. y * m = x * m + m + k * m
    BY <2>1
  <2>3. k * m \in Nat
    BY NatTimes
  <2> QED
    BY <1>1, <2>2, <2>3
<1> QED
  BY <1>1, <1>2

\* What the key is made of: the district, the order and the line of it.
District(l) == DistrictOf(l[1], l[2])
Order(l) == District(l) * kMaxOrderPD + l[3]

LEMMA KeyIs ==
  ASSUME NEW l, \A j \in 1..4 : l[j] \in Nat, Fit(l)
  PROVE  /\ District(l) = l[1] * kMaxDPerW + l[2] /\ District(l) \in Nat
         /\ Order(l) \in Nat /\ Order(l) < Half /\ l[4] < Half /\ l[3] < kMaxOrderPD
         /\ TPCCRow(l)[1] = Order(l) * Half + l[4]
<1>0. /\ Half \in Nat /\ Half > 0 /\ kMaxDPerW \in Nat /\ kMaxOrderPD \in Nat
      /\ l[1] \in Nat /\ l[2] \in Nat /\ l[3] \in Nat /\ l[4] \in Nat
  BY DataAssumption
<1>1. District(l) = l[1] * kMaxDPerW + l[2] /\ District(l) \in Nat
  <2>1. l[1] * kMaxDPerW \in Nat
    BY <1>0, NatTimes
  <2> QED
    BY <1>0, <2>1 DEF District, DistrictOf
<1>2. Order(l) \in Nat /\ Order(l) < Half /\ l[4] < Half /\ l[3] < kMaxOrderPD
  <2>1. District(l) * kMaxOrderPD \in Nat
    BY <1>0, <1>1, NatTimes
  <2> QED
    BY <1>0, <2>1 DEF Order, Fit, District
<1> DEFINE t == Order(l)
           u == t * Half + l[4]
<1>3. TPCCRow(l)[1] = u % WordMax
  BY DEF TPCCRow, TPCCKey, Order, District
<1>4. u \in Nat /\ u < WordMax
  <2> HIDE DEF t
  <2>1. t \in Nat /\ t < Half
    BY <1>2 DEF t
  <2>2. u < Half * Half + 0 /\ u \in Nat
    BY <1>0, <1>2, <2>1, Digits
  <2> QED
    BY <1>0, <2>2 DEF WordMax
<1>5. u % WordMax = u
  <2> HIDE DEF u
  <2>1. WordMax \in Nat \ {0}
    BY KeyTypes
  <2> QED
    BY <1>4, <2>1
<1> QED
  BY <1>1, <1>2, <1>3, <1>5

LEMMA KeysKeepOrder ==
  ASSUME NEW a, NEW b, \A j \in 1..4 : a[j] \in Nat /\ b[j] \in Nat,
         Fit(a), Fit(b), a[2] < kMaxDPerW, b[2] < kMaxDPerW, Before(a, b)
  PROVE  TPCCRow(a)[1] < TPCCRow(b)[1]
<1>0. /\ Half \in Nat /\ kMaxDPerW \in Nat /\ kMaxOrderPD \in Nat
      /\ a[1] \in Nat /\ a[2] \in Nat /\ a[3] \in Nat /\ a[4] \in Nat
      /\ b[1] \in Nat /\ b[2] \in Nat /\ b[3] \in Nat /\ b[4] \in Nat
  BY DataAssumption
<1>1. /\ District(a) = a[1] * kMaxDPerW + a[2] /\ District(a) \in Nat
      /\ Order(a) \in Nat /\ a[4] < Half /\ a[3] < kMaxOrderPD
      /\ TPCCRow(a)[1] = Order(a) * Half + a[4]
  BY KeyIs
<1>2. /\ District(b) = b[1] * kMaxDPerW + b[2] /\ District(b) \in Nat
      /\ Order(b) \in Nat
      /\ TPCCRow(b)[1] = Order(b) * Half + b[4]
  BY KeyIs
<1>3. Order(a) = District(a) * kMaxOrderPD + a[3] /\ Order(b) = District(b) * kMaxOrderPD + b[3]
  BY DEF Order
<1>4. Order(a) < Order(b) => TPCCRow(a)[1] < TPCCRow(b)[1]
  BY <1>0, <1>1, <1>2, Digits
<1>5. District(a) < District(b) => Order(a) < Order(b)
  BY <1>0, <1>1, <1>2, <1>3, Digits
<1>6. PICK j \in 1..4 : a[j] < b[j] /\ \A i \in 1..(j - 1) : a[i] = b[i]
  BY DEF Before
<1>7. CASE j = 1
  <2>1. a[1] * kMaxDPerW + a[2] < b[1] * kMaxDPerW + b[2]
    BY <1>0, <1>6, <1>7, Digits
  <2> QED
    BY <1>1, <1>2, <1>4, <1>5, <2>1
<1>8. CASE j = 2
  <2>1. a[1] = b[1] /\ a[2] < b[2]
    BY <1>6, <1>8
  <2>2. a[1] * kMaxDPerW \in Nat
    BY <1>0, NatTimes
  <2>3. District(a) < District(b)
    BY <1>0, <1>1, <1>2, <2>1, <2>2
  <2> QED
    BY <1>4, <1>5, <2>3
<1>9. CASE j = 3
  <2>1. a[1] = b[1] /\ a[2] = b[2] /\ a[3] < b[3]
    BY <1>6, <1>9
  <2>2. District(a) = District(b)
    BY <2>1 DEF District
  <2>3. District(a) * kMaxOrderPD \in Nat
    BY <1>0, <1>1, NatTimes
  <2>4. Order(a) < Order(b)
    BY <1>0, <1>3, <2>1, <2>2, <2>3
  <2> QED
    BY <1>4, <2>4
<1>10. CASE j = 4
  <2>1. a[1] = b[1] /\ a[2] = b[2] /\ a[3] = b[3] /\ a[4] < b[4]
    BY <1>6, <1>10
  <2>2. Order(a) = Order(b)
    BY <2>1 DEF Order, District
  <2>3. Order(a) * Half \in Nat
    BY <1>0, <1>1, NatTimes
  <2> QED
    BY <1>0, <1>1, <1>2, <2>1, <2>2, <2>3
<1> QED
  BY <1>6, <1>7, <1>8, <1>9, <1>10

\* The server inserts every order it reads under a key of its own, and in the order of
\* the lines, if district and number fit half a word (TPCCKey and tpcc.hh of data_dist).
THEOREM OrdersAreApart == Spec => []OrdersStayApart
<1>1. ASSUME IInv, flags.data = "tpcc", spc \notin {"boot", "daemon", "load", "abort"}
      PROVE  \A i, j \in Read(OrderFile, AfterUse(flags.nkeys)) :
               LET a == OrderFile[i]  b == OrderFile[j] IN
               /\ TPCCRow(a) \in db
               /\ Fit(a) /\ Fit(b) /\ a[2] < kMaxDPerW /\ b[2] < kMaxDPerW /\ Before(a, b)
                    => TPCCRow(a)[1] < TPCCRow(b)[1]
  <2> DEFINE I == Read(OrderFile, AfterUse(flags.nkeys))
  <2>1. flags.nkeys \in Nat /\ AfterUse(flags.nkeys) \in Nat
    <3>1. flags.nkeys \in Nat
      BY <1>1, FlagsTyped DEF IInv, DataInv
    <3>2. AfterUse(flags.nkeys) = (IF flags.nkeys >= 1 THEN flags.nkeys ELSE 1)
      BY <3>1, MaxOfTwo DEF AfterUse
    <3> QED
      BY <3>1, <3>2
  <2>2. I \subseteq 1..Len(OrderFile)
    BY <2>1, FileLines, ReadLines
  <2>3. db = {TPCCRow(OrderFile[i]) : i \in I}
    <3>1. db = Rows(flags.data, flags.nkeys)
      BY <1>1 DEF IInv, DataInv
    <3> QED
      BY <1>1, <3>1 DEF Rows, TPCCFile
  <2> HIDE DEF I
  <2>4. ASSUME NEW i \in I, NEW j \in I,
               Fit(OrderFile[i]), Fit(OrderFile[j]), OrderFile[i][2] < kMaxDPerW,
               OrderFile[j][2] < kMaxDPerW, Before(OrderFile[i], OrderFile[j])
        PROVE  TPCCRow(OrderFile[i])[1] < TPCCRow(OrderFile[j])[1]
    <3>1. \A k \in 1..4 : OrderFile[i][k] \in Nat /\ OrderFile[j][k] \in Nat
      BY <2>2, FileLines
    <3> QED
      BY <2>4, <3>1, KeysKeepOrder
  <2> QED
    BY <2>3, <2>4 DEF I
<1>2. IInv => OrdersStayApart
  BY <1>1 DEF OrdersStayApart
<1> QED
  BY <1>2, Invariance, PTL

=============================================================================
