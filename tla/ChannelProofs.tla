--------------------------- MODULE ChannelProofs ---------------------------
(***************************************************************************)
(* A client whose connections break: no message is archived twice, no phase *)
(* reaches the game twice and a quiet client has missed none, for any number *)
(* of requests, messages of other players, phases and breaks.               *)
(***************************************************************************)
EXTENDS Channel, FiniteSetTheorems, SequenceTheorems, WellFoundedInduction, TLAPS

----------------------------------------------------------------------------
(* The types.  What the server stamped is not later than its clock.         *)

Times == 0..server.now
Orders == Requested \cup {None}
Message == [id : Requested \cup Foreign, at : Times]
Archive == [phase : 1..(MaxPhase - 1), at : Times, messages : SUBSET Message]
PhaseData == [phase : 1..MaxPhase, messages : SUBSET Message, orders : Orders]

Game ==
    [phase : 1..MaxPhase, history : SUBSET server.history, messages : SUBSET Message,
     orders : Orders]

Server ==
    [phase : 1..MaxPhase, history : SUBSET Archive, messages : SUBSET Message, orders : Orders,
     now : Nat, waits : SUBSET [id : Ids, phase : 1..MaxPhase], controlled : BOOLEAN]

Client ==
    [conn : Conns, mode : {"reading", "connecting", "dead"}, ready : BOOLEAN,
     timedOut : BOOLEAN, held : SUBSET Requested, woken : SUBSET Ids, toSend : SUBSET Ids,
     waiting : SUBSET Ids, game : Game]

GameRequest == [kind : Kinds, phase : 1..MaxPhase, re_sent : BOOLEAN]
SyncRequest == [kind : {"Synchronize"}, re_sent : BOOLEAN, timestamp : Nat]
WireRequest == [id : Ids, re_sent : BOOLEAN]

Reply ==
    [type : {"response"}, id : Requested, data : Times]
    \cup [type : {"response"}, id : Ids \ Requested, data : 1..MaxPhase]
    \cup [type : {"error"}, id : Ids]

\* A notification of a phase that was processed names one that the server has.
Notification ==
    [type : {"message"}, data : Message]
    \cup [type : {"state_history", "processed"}, data : server.history]
    \cup [type : {"phase"}, data : PhaseData]

StateOK ==
    /\ client \in Client /\ server \in Server
    /\ IsFiniteSet(server.history) /\ IsFiniteSet(server.messages)
    /\ attached \in Conns \cup {None}
    /\ closed \subseteq broken /\ unread \subseteq Conns /\ broken \subseteq Conns
    /\ queue \in Seq([to : Conns, notification : Notification])
    /\ up \in [Conns -> Seq(WireRequest)]
    /\ down \in [Conns -> Seq(Reply \cup Notification)]

AskedOK ==
    /\ DOMAIN asked \subseteq Ids
    /\ \A id \in DOMAIN asked : asked[id] \in IF id \in Requested THEN GameRequest ELSE SyncRequest
    /\ \E n \in 0..MaxRequests : DOMAIN asked \cap Requested = 1..n
    /\ Outstanding \subseteq DOMAIN asked
    /\ \A k \in Conns : \A i \in DOMAIN up[k] : up[k][i].id \in DOMAIN asked

\* A request that is outstanding waits in one place.
PlacesApart ==
    /\ \A i, j \in DOMAIN Places : i # j => Places[i] \cap Places[j] = {}
    /\ client.ready => client.held = {}

----------------------------------------------------------------------------
(* The connections.                                                         *)

\* The client reads a connection that is not broken.
Alive == client.mode = "reading" /\ client.conn \notin broken

\* Nothing happened yet on the connections after the last.
NothingAhead ==
    \A k \in Conns : k > client.conn =>
        /\ up[k] = <<>> /\ down[k] = <<>> /\ k \notin broken /\ attached # k
        /\ \A i \in DOMAIN queue : queue[i].to # k

\* The client connects, or gave up, because a connection broke.
BrokeFirst ==
    /\ client.mode \in {"connecting", "dead"} => client.conn \in broken
    /\ client.mode = "connecting" => ~client.ready

\* The token is on the connection something is sent on.
SentToAttached ==
    Alive => \/ attached = client.conn
             \/ /\ down[client.conn] = <<>>
                /\ \A i \in DOMAIN queue : queue[i].to # client.conn

\* The game requests that the server has still to read came on the connection that
\* has the token.
RequestsOfAttached ==
    \A k \in Conns : \A i \in DOMAIN up[k] : up[k][i].id \in Requested => attached = k

\* A client that is ready was answered on this connection: its Synchronize is done.
ReadyAttached ==
    Alive => /\ client.toSend \subseteq Requested
             /\ client.ready =>
                   /\ attached = client.conn /\ client.woken \subseteq Requested
                   /\ \A i \in DOMAIN up[client.conn] : up[client.conn][i].id \in Requested

\* Until then it writes Synchronize and nothing else, with a timestamp that is not
\* before a phase it knows.
SyncFirst ==
    Alive /\ ~client.ready =>
        \/ attached = client.conn /\ client.woken = {} /\ up[client.conn] = <<>>
        \/ /\ attached # client.conn
           /\ \/ client.woken = {} /\ up[client.conn] = <<>>
              \/ /\ Sync(client.conn) \in DOMAIN asked
                 /\ \A h \in client.game.history : h.at <= asked[Sync(client.conn)].timestamp
                 /\ \/ client.woken = {Sync(client.conn)} /\ up[client.conn] = <<>>
                    \/ /\ client.woken = {} /\ Len(up[client.conn]) = 1
                       /\ up[client.conn][1].id = Sync(client.conn)

ConnInv ==
    NothingAhead /\ BrokeFirst /\ SentToAttached /\ RequestsOfAttached /\ ReadyAttached /\ SyncFirst

----------------------------------------------------------------------------
(* The archives.                                                            *)

Archives == {server.messages} \cup {h.messages : h \in server.history}
ArchivedIds == {m.id : m \in UNION Archives}

ToWrite == client.held \cup client.woken \cup client.toSend

\* A game request that is to be written and not marked was never written.
UnmarkedUnwritten ==
    \A id \in ToWrite \cap Requested :
        ~asked[id].re_sent =>
            /\ id \notin ArchivedIds
            /\ \A k \in Conns : \A i \in DOMAIN up[k] : up[k][i].id # id

\* One that was written without a mark was written once, and is not archived; nor is it
\* written again on the same connection.
UnmarkedOnce ==
    \A k \in Conns : \A i \in DOMAIN up[k] :
        up[k][i].id \in Requested /\ ~up[k][i].re_sent =>
            /\ up[k][i].id \notin ArchivedIds
            /\ \A l \in Conns : \A j \in DOMAIN up[l] :
                  up[l][j].id = up[k][i].id => l = k /\ j = i
            /\ k = client.conn => up[k][i].id \notin ToWrite

\* A message is archived with the phase it was sent in; the phases of the history are
\* past, and in the order of time.
PhaseOfMessage ==
    /\ \A m \in server.messages :
          m.id \in Requested => m.id \in DOMAIN asked /\ asked[m.id].phase = server.phase
    /\ \A h \in server.history : \A m \in h.messages :
          m.id \in Requested => m.id \in DOMAIN asked /\ asked[m.id].phase = h.phase
    /\ \A h \in server.history : h.phase < server.phase
    /\ \A g, h \in server.history : g.phase = h.phase => g = h

\* Two messages of the archives never have one number, even where the archives of two
\* phases are equal.
MessagesApart ==
    /\ \A m, n \in server.messages : m.id = n.id => m = n
    /\ \A h \in server.history : \A m \in h.messages, n \in server.messages : m.id # n.id
    /\ \A h \in server.history : \A m, n \in h.messages : m.id = n.id => m = n
    /\ \A g, h \in server.history : g # h => \A m \in g.messages, n \in h.messages : m.id # n.id

ArchiveInv == UnmarkedUnwritten /\ UnmarkedOnce /\ PhaseOfMessage /\ MessagesApart

----------------------------------------------------------------------------
(* The phases that reach the client.                                        *)

IsPast(n) == n.type \in {"state_history", "processed"}

Underway == {i \in DOMAIN down[client.conn] : IsPast(down[client.conn][i])}
Queued == {i \in DOMAIN queue : queue[i].to = client.conn /\ IsPast(queue[i].notification)}

PhaseUnderway(i) == down[client.conn][i].data.phase
PhaseQueued(i) == queue[i].notification.data.phase

\* What is under way to a client brings no phase twice, and none that it has.
PhasesOnce ==
    Alive =>
        /\ \A i \in Underway : PhaseUnderway(i) \notin Past(client.game)
        /\ \A i \in Queued : PhaseQueued(i) \notin Past(client.game)
        /\ \A i, j \in Underway : i # j => PhaseUnderway(i) # PhaseUnderway(j)
        /\ \A i, j \in Queued : i # j => PhaseQueued(i) # PhaseQueued(j)
        /\ \A i \in Underway, j \in Queued : PhaseUnderway(i) # PhaseQueued(j)

TypeInv == StateOK /\ AskedOK /\ PlacesApart

IInv == TypeInv /\ ConnInv /\ ArchiveInv /\ PhasesOnce

----------------------------------------------------------------------------
(* The constants, and the greatest of some numbers.                         *)

\* Requests, messages of other players and Synchronize requests are told apart.
LEMMA Numbers ==
    /\ MaxRequests \in Nat /\ MaxPhase \in Nat \ {0} /\ MaxForeign \in Nat /\ MaxDrops \in Nat
    /\ Kinds \subseteq {"SendGameMessage", "SetOrders", "SetWaitFlag"}
    /\ Requested \subseteq Ids /\ Requested \cap Foreign = {}
    /\ Requested \subseteq Nat \ {0} /\ Foreign \subseteq Nat \ {0} /\ Conns \subseteq Nat \ {0}
    /\ None \notin Conns /\ 1 \in Conns
    /\ \A k \in Conns : Sync(k) \in Ids \ Requested
    /\ \A k, l \in Conns : Sync(k) = Sync(l) => k = l
  BY ChannelAssumption DEF Requested, Foreign, Ids, Conns, Sync, None

\* Max is one of the numbers, and no less than the others.
LEMMA MaxOfBounded ==
    ASSUME NEW b \in Nat, NEW S, S \subseteq 0..b, S # {}
    PROVE  Max(S) \in S /\ \A x \in S : Max(S) >= x
<1> DEFINE T == {b - x : x \in S}
<1>1. T \subseteq Nat /\ T # {}
  <2>1. \A x \in S : b - x \in Nat
    OBVIOUS
  <2> QED
    BY <2>1
<1>2. \E y \in T : \A z \in T : ~(<<z, y>> \in OpToRel(<, Nat))
  BY <1>1, NatLessThanWellFounded, WFMin
<1>3. PICK y \in T : \A z \in T : ~(z < y)
  BY <1>1, <1>2 DEF OpToRel
<1>4. PICK x \in S : y = b - x
  BY <1>3
<1>5. ASSUME NEW z \in S PROVE x >= z
  <2>1. b - z \in T
    OBVIOUS
  <2>2. ~(b - z < b - x)
    BY <1>3, <1>4, <2>1
  <2>3. x \in Int /\ z \in Int
    OBVIOUS
  <2> HIDE DEF T
  <2> QED
    BY <2>2, <2>3
<1> QED
  BY <1>5 DEF Max

----------------------------------------------------------------------------
(* The types grow with the clock and the history of the server.             *)

\* What has its type keeps it when the clock and the history of the server grow.
LEMMA TypesGrow ==
    ASSUME server.now \in Nat, server'.now \in Nat, server.now <= server'.now,
           server.history \subseteq server'.history
    PROVE  /\ Times \subseteq Times' /\ Message \subseteq Message' /\ Archive \subseteq Archive'
           /\ PhaseData \subseteq PhaseData' /\ Game \subseteq Game' /\ Client \subseteq Client'
           /\ Reply \subseteq Reply' /\ Notification \subseteq Notification'
<1>1. Times \subseteq Times'
  BY DEF Times
<1>2. Message \subseteq Message'
  BY <1>1 DEF Message
<1>3. Archive \subseteq Archive'
  BY <1>1, <1>2 DEF Archive
<1>4. PhaseData \subseteq PhaseData'
  BY <1>2 DEF PhaseData, Orders
<1>5. Game \subseteq Game'
  BY <1>2 DEF Game, Orders
<1>6. Client \subseteq Client'
  BY <1>5 DEF Client
<1>7. Reply \subseteq Reply'
  BY <1>1 DEF Reply
<1>8. Notification \subseteq Notification'
  BY <1>2, <1>4 DEF Notification
<1> QED
  BY <1>1, <1>2, <1>3, <1>4, <1>5, <1>6, <1>7, <1>8

\* A sequence over a set is one over a larger set.
LEMMA SeqGrows == ASSUME NEW S, NEW T, S \subseteq T, NEW s \in Seq(S) PROVE s \in Seq(T)
  OBVIOUS

\* The types of the other parts when the server grows.
LEMMA GrowKeeps ==
    ASSUME StateOK, server'.now \in Nat, server.now <= server'.now,
           server.history \subseteq server'.history
    PROVE  /\ client \in Client' /\ queue \in Seq([to : Conns, notification : Notification'])
           /\ down \in [Conns -> Seq(Reply' \cup Notification')]
<1>1. server.now \in Nat
  BY DEF StateOK, Server
<1>2. Client \subseteq Client' /\ Reply \subseteq Reply' /\ Notification \subseteq Notification'
  BY <1>1, TypesGrow
<1>3. queue \in Seq([to : Conns, notification : Notification'])
  <2>1. [to : Conns, notification : Notification] \subseteq [to : Conns, notification : Notification']
    BY <1>2
  <2> QED
    BY <2>1, SeqGrows DEF StateOK
<1>4. down \in [Conns -> Seq(Reply' \cup Notification')]
  <2>1. (Reply \cup Notification) \subseteq (Reply' \cup Notification')
    BY <1>2
  <2>2. \A k \in Conns : down[k] \in Seq(Reply' \cup Notification')
    BY <2>1, SeqGrows DEF StateOK
  <2> QED
    BY <2>2 DEF StateOK
<1> QED
  BY <1>2, <1>3, <1>4 DEF StateOK

----------------------------------------------------------------------------
(* Every step keeps the types.                                              *)

\* The parts of the client.
LEMMA ClientParts ==
    ASSUME StateOK
    PROVE  /\ client.conn \in Conns /\ client.mode \in {"reading", "connecting", "dead"}
           /\ client.ready \in BOOLEAN /\ client.timedOut \in BOOLEAN
           /\ client.held \subseteq Requested
           /\ client.woken \subseteq Ids /\ client.toSend \subseteq Ids /\ client.waiting \subseteq Ids
           /\ client.game \in Game
  BY DEF StateOK, Client

\* The types of what nobody wrote to.
LEMMA RestKept ==
    ASSUME StateOK, UNCHANGED server
    PROVE  /\ server \in Server' /\ Client' = Client /\ Game' = Game
           /\ Reply' = Reply /\ Notification' = Notification /\ Message' = Message
  BY DEF StateOK, Server, Client, Game, Reply, Notification, Message, Archive, Times, PhaseData, Orders

\* Only the client changes.
LEMMA OtherPartsKept ==
    ASSUME StateOK, UNCHANGED <<server, attached, closed, unread, broken, queue, up, down>>,
           client' \in Client'
    PROVE  StateOK'
  BY RestKept DEF StateOK

\* No request waits in two places.
LEMMA ApartMeans ==
    ASSUME PlacesApart
    PROVE  /\ client.ready => client.held = {}
           /\ client.held \cap (client.woken \cup client.toSend \cup client.waiting) = {}
           /\ client.woken \cap (client.toSend \cup client.waiting) = {}
           /\ client.toSend \cap client.waiting = {}
<1>1. DOMAIN Places = 1..4
  BY DEF Places
<1>2. /\ Places[1] = client.held /\ Places[2] = client.woken /\ Places[3] = client.toSend
      /\ Places[4] = client.waiting
  BY DEF Places
<1>3. 1..4 = {1, 2, 3, 4}
  OBVIOUS
<1> QED
  BY <1>1, <1>2, <1>3 DEF PlacesApart

\* After a step too.
LEMMA ApartNext ==
    ASSUME client'.ready => client'.held = {},
           client'.held \cap (client'.woken \cup client'.toSend \cup client'.waiting) = {},
           client'.woken \cap (client'.toSend \cup client'.waiting) = {},
           client'.toSend \cap client'.waiting = {}
    PROVE  PlacesApart'
<1>1. DOMAIN Places' = 1..4
  BY DEF Places
<1>2. /\ Places'[1] = client'.held /\ Places'[2] = client'.woken /\ Places'[3] = client'.toSend
      /\ Places'[4] = client'.waiting
  BY DEF Places
<1>3. 1..4 = {1, 2, 3, 4}
  OBVIOUS
<1> QED
  BY <1>1, <1>2, <1>3 DEF PlacesApart

\* The number of a new request is the next one.
LEMMA SendNext ==
    ASSUME AskedOK, Cardinality(DOMAIN asked \cap Requested) + 1 \in Requested
    PROVE  LET id == Cardinality(DOMAIN asked \cap Requested) + 1 IN
           /\ id \notin DOMAIN asked
           /\ \E n \in 0..MaxRequests : (DOMAIN asked \cup {id}) \cap Requested = 1..n
<1>1. PICK n \in 0..MaxRequests : DOMAIN asked \cap Requested = 1..n
  BY DEF AskedOK
<1>2. Cardinality(1..n) = n
  <2>1. n \in Int /\ n >= 0
    BY <1>1, Numbers
  <2>2. Cardinality(1..n) = IF 1 > n THEN 0 ELSE n - 1 + 1
    BY <2>1, FS_Interval
  <2> QED
    BY <2>1, <2>2
<1>3. n + 1 \in Requested /\ n + 1 \in 0..MaxRequests /\ n \in Nat
  <2>1. n + 1 \in Requested
    BY <1>1, <1>2
  <2>2. n + 1 \in 1..MaxRequests
    BY <2>1 DEF Requested
  <2> QED
    BY <1>1, <2>1, <2>2, Numbers
<1>4. (DOMAIN asked \cup {n + 1}) \cap Requested = 1..(n + 1)
  <2>1. (DOMAIN asked \cup {n + 1}) \cap Requested = 1..n \cup {n + 1}
    BY <1>1, <1>3
  <2>2. 1..n \cup {n + 1} = 1..(n + 1)
    BY <1>3
  <2> QED
    BY <2>1, <2>2
<1>5. n + 1 \notin DOMAIN asked
  BY <1>1, <1>3
<1>6. Cardinality(DOMAIN asked \cap Requested) + 1 = n + 1
  BY <1>1, <1>2
<1>7. \E m \in 0..MaxRequests : (DOMAIN asked \cup {n + 1}) \cap Requested = 1..m
  BY <1>3, <1>4
<1> QED
  BY <1>5, <1>6, <1>7

\* A request that is made gets the next number, and is held back unless the client is ready.
LEMMA SendEffect ==
    ASSUME TypeInv, NEW kind \in Kinds, Send(kind)
    PROVE  \E id \in Requested :
              /\ id \notin DOMAIN asked
              /\ \E n \in 0..MaxRequests : (DOMAIN asked \cup {id}) \cap Requested = 1..n
              /\ DOMAIN asked' = DOMAIN asked \cup {id}
              /\ \A i \in DOMAIN asked : asked'[i] = asked[i]
              /\ asked'[id] \in GameRequest /\ ~asked'[id].re_sent
              /\ client' \in Client /\ client.mode # "dead"
              /\ client'.conn = client.conn /\ client'.mode = client.mode
              /\ client'.ready = client.ready /\ client'.game = client.game
              /\ client'.toSend = client.toSend /\ client'.waiting = client.waiting
              /\ client'.woken = IF client.ready THEN client.woken \cup {id} ELSE client.woken
              /\ client'.held = IF client.ready THEN client.held ELSE client.held \cup {id}
              /\ UNCHANGED <<server, ends, queue, net>>
<1> DEFINE id == Cardinality(DOMAIN asked \cap Requested) + 1
<1>1. /\ id \in Requested /\ id \notin DOMAIN asked
      /\ \E n \in 0..MaxRequests : (DOMAIN asked \cup {id}) \cap Requested = 1..n
  BY SendNext DEF TypeInv, Send
<1>2. /\ asked' = Put(asked, id, [kind |-> kind, phase |-> client.game.phase, re_sent |-> FALSE])
      /\ client' = WriteRequest(client, id)
      /\ client.mode # "dead"
      /\ UNCHANGED <<server, ends, queue, net>>
  BY DEF Send
<1> HIDE DEF id
<1>3. client.game.phase \in 1..MaxPhase /\ client \in Client
  BY ClientParts DEF TypeInv, Game, StateOK
<1>4. /\ DOMAIN asked' = DOMAIN asked \cup {id}
      /\ \A i \in DOMAIN asked : asked'[i] = asked[i]
      /\ asked'[id] \in GameRequest /\ ~asked'[id].re_sent
  BY <1>1, <1>2, <1>3 DEF Put, GameRequest
<1>5. client' \in Client
  BY <1>1, <1>2, <1>3, Numbers DEF Client, WriteRequest
<1>6. /\ client'.conn = client.conn /\ client'.mode = client.mode
      /\ client'.ready = client.ready /\ client'.game = client.game
      /\ client'.toSend = client.toSend /\ client'.waiting = client.waiting
      /\ client'.woken = IF client.ready THEN client.woken \cup {id} ELSE client.woken
      /\ client'.held = IF client.ready THEN client.held ELSE client.held \cup {id}
  BY <1>2, <1>3 DEF Client, WriteRequest
<1> QED
  BY <1>1, <1>2, <1>4, <1>5, <1>6

\* Channel: a request is made.
LEMMA SendTypes == ASSUME TypeInv, NEW kind \in Kinds, Send(kind) PROVE TypeInv'
<1>1. PICK id \in Requested :
         /\ id \notin DOMAIN asked
         /\ \E n \in 0..MaxRequests : (DOMAIN asked \cup {id}) \cap Requested = 1..n
         /\ DOMAIN asked' = DOMAIN asked \cup {id}
         /\ \A i \in DOMAIN asked : asked'[i] = asked[i]
         /\ asked'[id] \in GameRequest
         /\ client' \in Client /\ client'.ready = client.ready
         /\ client'.toSend = client.toSend /\ client'.waiting = client.waiting
         /\ client'.woken = IF client.ready THEN client.woken \cup {id} ELSE client.woken
         /\ client'.held = IF client.ready THEN client.held ELSE client.held \cup {id}
         /\ UNCHANGED <<server, ends, queue, net>>
  BY SendEffect
<1>2. StateOK'
  BY <1>1, OtherPartsKept, RestKept DEF TypeInv, ends, net
<1>3. AskedOK'
  <2>1. DOMAIN asked' \subseteq Ids
    BY <1>1, Numbers DEF TypeInv, AskedOK
  <2>2. \A i \in DOMAIN asked' : asked'[i] \in IF i \in Requested THEN GameRequest ELSE SyncRequest
    BY <1>1 DEF TypeInv, AskedOK
  <2>3. \E n \in 0..MaxRequests : DOMAIN asked' \cap Requested = 1..n
    BY <1>1
  <2>4. Outstanding' \subseteq DOMAIN asked'
    BY <1>1 DEF TypeInv, AskedOK, Outstanding
  <2>5. \A k \in Conns : \A i \in DOMAIN up'[k] : up'[k][i].id \in DOMAIN asked'
    BY <1>1 DEF TypeInv, AskedOK, net
  <2> QED
    BY <2>1, <2>2, <2>3, <2>4, <2>5 DEF AskedOK
<1>4. PlacesApart'
  <2>1. id \notin client.held \cup client.woken \cup client.toSend \cup client.waiting
    BY <1>1 DEF TypeInv, AskedOK, Outstanding
  <2> QED
    BY <1>1, <2>1, ApartMeans, ApartNext DEF TypeInv
<1> QED
  BY <1>2, <1>3, <1>4 DEF TypeInv

\* Nothing more is asked.
LEMMA AskedKept ==
    ASSUME AskedOK, UNCHANGED asked, Outstanding' \subseteq Outstanding,
           \A k \in Conns : \A i \in DOMAIN up'[k] : up'[k][i].id \in DOMAIN asked
    PROVE  AskedOK'
  BY DEF AskedOK

\* What writing a request changes: it waits for its answer if it is written, and else it
\* may be lost, sent later, or expected to be answered all the same.
LEMMA WriteEffect ==
    ASSUME StateOK, NEW id, Write(id)
    PROVE  /\ id \in client.woken /\ client.mode # "dead" /\ UNCHANGED <<asked, server, ends, queue, down, broken>>
           /\ client'.conn = client.conn /\ client'.mode = client.mode
           /\ client'.ready = client.ready /\ client'.held = client.held
           /\ client'.game = client.game /\ client'.woken = client.woken \ {id}
           /\ \/ client'.toSend = client.toSend /\ client'.waiting = client.waiting
              \/ client'.toSend = client.toSend /\ client'.waiting = client.waiting \cup {id}
              \/ client'.toSend = client.toSend \cup {id} /\ client'.waiting = client.waiting
           /\ client' \in Client
           /\ IF Alive
              THEN /\ client'.toSend = client.toSend
                   /\ up' = [up EXCEPT ![client.conn] = Append(@, Wire(id))]
              ELSE up' = up
<1>1. client \in Client
  BY DEF StateOK
<1>2. client' \in Written(id)
  BY DEF Write
<1> DEFINE c == [client EXCEPT !.woken = @ \ {id}]
           waiting == [c EXCEPT !.waiting = @ \cup {id}]
           toSend == [c EXCEPT !.toSend = @ \cup {id}]
<1>3. id \in client.woken
  BY DEF Write
<1>4. /\ c \in Client /\ c.conn = client.conn /\ c.mode = client.mode /\ c.ready = client.ready
      /\ c.held = client.held /\ c.game = client.game /\ c.woken = client.woken \ {id}
      /\ c.toSend = client.toSend /\ c.waiting = client.waiting
  BY <1>1 DEF Client
<1>5. id \in Ids
  BY <1>1, <1>3 DEF Client
<1> HIDE DEF c
<1>6. /\ waiting \in Client /\ waiting.conn = c.conn /\ waiting.mode = c.mode
      /\ waiting.ready = c.ready /\ waiting.held = c.held /\ waiting.game = c.game
      /\ waiting.woken = c.woken /\ waiting.toSend = c.toSend
      /\ waiting.waiting = c.waiting \cup {id}
  BY <1>4, <1>5 DEF Client
<1>7. /\ toSend \in Client /\ toSend.conn = c.conn /\ toSend.mode = c.mode
      /\ toSend.ready = c.ready /\ toSend.held = c.held /\ toSend.game = c.game
      /\ toSend.woken = c.woken /\ toSend.waiting = c.waiting
      /\ toSend.toSend = c.toSend \cup {id}
  BY <1>4, <1>5 DEF Client
<1>8. Written(id) = IF client.mode = "connecting" THEN {toSend}
                    ELSE IF client.conn \in broken THEN {c, waiting, toSend} ELSE {waiting}
  BY DEF Written, c
<1> HIDE DEF waiting, toSend
<1>9. client' \in {c, waiting, toSend} /\ (Alive => client' = waiting)
  BY <1>2, <1>8 DEF Alive
<1>10. /\ client'.conn = client.conn /\ client'.mode = client.mode
       /\ client'.ready = client.ready /\ client'.held = client.held
       /\ client'.game = client.game /\ client'.woken = client.woken \ {id}
       /\ \/ client'.toSend = client.toSend /\ client'.waiting = client.waiting
          \/ client'.toSend = client.toSend /\ client'.waiting = client.waiting \cup {id}
          \/ client'.toSend = client.toSend \cup {id} /\ client'.waiting = client.waiting
       /\ client' \in Client
  BY <1>4, <1>6, <1>7, <1>9
<1>11. Alive => client'.toSend = client.toSend
  BY <1>4, <1>6, <1>9
<1>12. up' = IF Alive THEN [up EXCEPT ![client.conn] = Append(@, Wire(id))] ELSE up
  BY DEF Write, Alive
<1> QED
  BY <1>3, <1>10, <1>11, <1>12 DEF Write

\* Connection.write_request keeps the types.
LEMMA WriteTypes == ASSUME TypeInv, NEW id, Write(id) PROVE TypeInv'
<1>1. StateOK /\ AskedOK /\ PlacesApart
  BY DEF TypeInv
<1>2. UNCHANGED <<asked, server, attached, closed, unread, broken, queue, down>>
  BY <1>1, WriteEffect DEF ends
<1>3. id \in Ids /\ id \in DOMAIN asked /\ client.conn \in Conns
  BY <1>1, WriteEffect, ClientParts DEF AskedOK, Outstanding
<1>4. Wire(id) \in WireRequest
  BY <1>1, <1>3 DEF Wire, WireRequest, AskedOK, GameRequest, SyncRequest
<1>5. /\ up' \in [Conns -> Seq(WireRequest)]
      /\ \A k \in Conns : \A i \in DOMAIN up'[k] : up'[k][i].id \in DOMAIN asked
  <2>1. CASE up' = up
    BY <1>1, <2>1 DEF StateOK, AskedOK
  <2>2. CASE up' = [up EXCEPT ![client.conn] = Append(@, Wire(id))]
    <3>1. up \in [Conns -> Seq(WireRequest)]
      BY <1>1 DEF StateOK
    <3>2. /\ up'[client.conn] = Append(up[client.conn], Wire(id))
          /\ \A k \in Conns \ {client.conn} : up'[k] = up[k]
          /\ up[client.conn] \in Seq(WireRequest)
      BY <1>3, <2>2, <3>1
    <3>3. up'[client.conn] \in Seq(WireRequest)
      BY <1>4, <3>2
    <3>4. up' \in [Conns -> Seq(WireRequest)]
      BY <2>2, <3>1, <3>2, <3>3
    <3>5. \A i \in DOMAIN up'[client.conn] : up'[client.conn][i].id \in DOMAIN asked
      <4>1. \A i \in DOMAIN up'[client.conn] :
               \/ i \in DOMAIN up[client.conn] /\ up'[client.conn][i] = up[client.conn][i]
               \/ up'[client.conn][i] = Wire(id)
        BY <3>2
      <4>2. Wire(id).id = id
        BY DEF Wire
      <4> QED
        BY <1>1, <1>3, <4>1, <4>2 DEF AskedOK
    <3> QED
      BY <1>1, <3>2, <3>4, <3>5 DEF AskedOK
  <2> QED
    BY <1>1, <2>1, <2>2, WriteEffect
<1>6. StateOK'
  <2>1. client' \in Client' /\ server \in Server' /\ Reply' = Reply /\ Notification' = Notification
    BY <1>1, <1>2, WriteEffect, RestKept
  <2> QED
    BY <1>1, <1>2, <1>5, <2>1 DEF StateOK
<1>7. AskedOK'
  <2>1. Outstanding' \subseteq Outstanding
    BY <1>1, WriteEffect DEF Outstanding
  <2> QED
    BY <1>1, <1>2, <1>5, <2>1, AskedKept
<1>8. PlacesApart'
  BY <1>1, WriteEffect, ApartMeans, ApartNext
<1> QED
  BY <1>6, <1>7, <1>8 DEF TypeInv

\* The end of a connection, and the end of all attempts, keep the types; so does a timeout.
LEMMA DisconnectedTypes == ASSUME TypeInv, Disconnected \/ GiveUp \/ SyncTimeout PROVE TypeInv'
<1>1. StateOK /\ AskedOK /\ PlacesApart
  BY DEF TypeInv
<1>2. UNCHANGED <<asked, server, attached, closed, unread, broken, queue, up, down>>
  BY DEF Disconnected, GiveUp, SyncTimeout, ends, net
<1>3. /\ client'.held = client.held /\ client'.woken = client.woken
      /\ client'.toSend = client.toSend /\ client'.waiting = client.waiting
      /\ client'.ready => client.ready
      /\ client' \in Client
  BY <1>1 DEF Disconnected, GiveUp, SyncTimeout, StateOK, Client
<1>4. StateOK'
  BY <1>1, <1>2, <1>3, OtherPartsKept, RestKept
<1>5. AskedOK'
  BY <1>1, <1>2, <1>3, AskedKept DEF Outstanding, AskedOK
<1>6. PlacesApart'
  BY <1>1, <1>3, ApartMeans, ApartNext
<1> QED
  BY <1>4, <1>5, <1>6 DEF TypeInv

\* Game.get_latest_timestamp is not before anything the game has.
LEMMA LatestTimestamp ==
    ASSUME StateOK
    PROVE  /\ GetLatestTimestamp(client.game) \in Nat
           /\ \A h \in client.game.history : h.at <= GetLatestTimestamp(client.game)
<1> DEFINE S == {0} \cup {h.at : h \in client.game.history} \cup {m.at : m \in client.game.messages}
<1>1. server.now \in Nat /\ \A h \in server.history : h.at \in Times
  BY DEF StateOK, Server, Archive
<1>2. client.game.history \subseteq server.history /\ client.game.messages \subseteq Message
  BY DEF StateOK, Client, Game
<1>3. S \subseteq 0..server.now /\ S # {}
  BY <1>1, <1>2 DEF Times, Message
<1>4. Max(S) \in S /\ \A x \in S : Max(S) >= x
  BY <1>1, <1>3, MaxOfBounded
<1>5. GetLatestTimestamp(client.game) = Max(S)
  BY DEF GetLatestTimestamp
<1>6. ASSUME NEW h \in client.game.history PROVE h.at <= Max(S)
  <2>1. h.at \in S
    OBVIOUS
  <2>2. Max(S) \in Int /\ h.at \in Int
    BY <1>3, <1>4, <2>1
  <2> HIDE DEF S
  <2> QED
    BY <1>4, <2>1, <2>2
<1>7. Max(S) \in Nat
  BY <1>3, <1>4
<1> QED
  BY <1>5, <1>6, <1>7

\* The requests of a game are the others than Synchronize.
LEMMA KindsApart ==
    ASSUME AskedOK, NEW id \in DOMAIN asked
    PROVE  /\ IsSync(id) <=> id \notin Requested
           /\ Kind(id) \in {"SendGameMessage", "SetOrders", "SetWaitFlag"} <=> id \in Requested
           /\ id \in Requested => asked[id] \in GameRequest
           /\ id \notin Requested => asked[id] \in SyncRequest
  BY Numbers DEF AskedOK, IsSync, Kind, GameRequest, SyncRequest

\* What _Reconnection.reconnect changes.
LEMMA ConnectEffect ==
    ASSUME TypeInv, Connect
    PROVE  LET k == client.conn + 1 IN
           /\ k \in Conns /\ client.mode = "connecting" /\ client.woken = {}
           /\ UNCHANGED <<server, ends, queue, net>>
           /\ client'.conn = k /\ client'.mode = "reading" /\ client'.ready = client.ready
           /\ client'.held = client.held /\ client'.game = client.game
           /\ client'.woken = {Sync(k)} /\ client'.waiting = {}
           /\ client'.toSend = (client.toSend \cup client.waiting) \cap Requested
           /\ client' \in Client
           /\ DOMAIN asked' = DOMAIN asked \cup {Sync(k)}
           /\ asked'[Sync(k)] \in SyncRequest
           /\ asked'[Sync(k)].timestamp = GetLatestTimestamp(client.game)
           /\ \A id \in DOMAIN asked \ {Sync(k)} :
                 asked'[id] = IF id \in client.waiting
                              THEN [asked[id] EXCEPT !.re_sent = TRUE] ELSE asked[id]
<1> DEFINE k == client.conn + 1
           again == ToSendAgain(client)
           open == [again EXCEPT !.mode = "reading", !.conn = k, !.timedOut = FALSE]
<1>1. client \in Client /\ AskedOK
  BY DEF TypeInv, StateOK
<1>2. k \in Conns /\ client.mode = "connecting" /\ client.woken = {}
  BY DEF Connect
<1>3. \A id \in client.toSend \cup client.waiting : ~IsSync(id) <=> id \in Requested
  BY <1>1, KindsApart DEF AskedOK, Outstanding
<1>4. /\ again \in Client /\ again.toSend = (client.toSend \cup client.waiting) \cap Requested
      /\ again.waiting = {} /\ again.ready = client.ready /\ again.held = client.held
      /\ again.game = client.game /\ again.woken = client.woken
  <2>1. {id \in client.toSend \cup client.waiting : ~IsSync(id)}
           = (client.toSend \cup client.waiting) \cap Requested
    BY <1>3
  <2>2. (client.toSend \cup client.waiting) \cap Requested \subseteq Ids
    BY Numbers
  <2>3. again = [client EXCEPT !.toSend = (client.toSend \cup client.waiting) \cap Requested,
                               !.waiting = {}]
    BY <2>1 DEF ToSendAgain
  <2> QED
    BY <1>1, <2>2, <2>3 DEF Client
<1> HIDE DEF again
<1>5. /\ open \in Client /\ open.conn = k /\ open.mode = "reading" /\ open.toSend = again.toSend
      /\ open.waiting = again.waiting /\ open.ready = again.ready /\ open.held = again.held
      /\ open.game = again.game /\ open.woken = again.woken
  BY <1>2, <1>4 DEF Client
<1>6. client' = [open EXCEPT !.woken = @ \cup {Sync(k)}]
  BY DEF Connect, AskSync, again
<1> HIDE DEF open, k
<1>7. Sync(k) \in Ids
  BY <1>2, Numbers
<1>8. /\ client' \in Client /\ client'.conn = k /\ client'.mode = "reading"
      /\ client'.ready = client.ready /\ client'.held = client.held
      /\ client'.game = client.game /\ client'.woken = {Sync(k)} /\ client'.waiting = {}
      /\ client'.toSend = (client.toSend \cup client.waiting) \cap Requested
  BY <1>2, <1>4, <1>5, <1>6, <1>7 DEF Client
<1>9. asked' = Put(MarkedReSent(asked, client.waiting), Sync(k),
                   [kind |-> "Synchronize", re_sent |-> FALSE,
                    timestamp |-> GetLatestTimestamp(client.game)])
  BY DEF Connect, k
<1>10. /\ DOMAIN asked' = DOMAIN asked \cup {Sync(k)}
       /\ asked'[Sync(k)] \in SyncRequest
       /\ asked'[Sync(k)].timestamp = GetLatestTimestamp(client.game)
       /\ \A id \in DOMAIN asked \ {Sync(k)} :
             asked'[id] = IF id \in client.waiting
                          THEN [asked[id] EXCEPT !.re_sent = TRUE] ELSE asked[id]
  BY <1>9, LatestTimestamp DEF Put, MarkedReSent, SyncRequest, TypeInv
<1>11. UNCHANGED <<server, ends, queue, net>>
  BY DEF Connect
<1> QED
  BY <1>2, <1>8, <1>10, <1>11 DEF k

\* Connecting again keeps the types.
LEMMA ConnectTypes == ASSUME TypeInv, Connect PROVE TypeInv'
<1> DEFINE k == client.conn + 1
<1>1. StateOK /\ AskedOK /\ PlacesApart
  BY DEF TypeInv
<1>2. /\ k \in Conns /\ client' \in Client
      /\ client'.held = client.held /\ client'.ready = client.ready
      /\ client'.woken = {Sync(k)} /\ client'.waiting = {}
      /\ client'.toSend = (client.toSend \cup client.waiting) \cap Requested
      /\ DOMAIN asked' = DOMAIN asked \cup {Sync(k)}
      /\ asked'[Sync(k)] \in SyncRequest
      /\ \A id \in DOMAIN asked \ {Sync(k)} :
            asked'[id] = IF id \in client.waiting
                         THEN [asked[id] EXCEPT !.re_sent = TRUE] ELSE asked[id]
      /\ UNCHANGED <<server, attached, closed, unread, broken, queue, up, down>>
  BY ConnectEffect DEF ends, net
<1> HIDE DEF k
<1>3. Sync(k) \in Ids \ Requested
  BY <1>2, Numbers
<1>4. StateOK'
  BY <1>1, <1>2, OtherPartsKept, RestKept
<1>5. AskedOK'
  <2>1. DOMAIN asked' \subseteq Ids
    BY <1>1, <1>2, <1>3 DEF AskedOK
  <2>2. ASSUME NEW id \in DOMAIN asked'
        PROVE  asked'[id] \in IF id \in Requested THEN GameRequest ELSE SyncRequest
    <3>1. CASE id = Sync(k)
      BY <1>2, <1>3, <3>1
    <3>2. CASE id # Sync(k)
      <4>1. asked[id] \in IF id \in Requested THEN GameRequest ELSE SyncRequest
        BY <1>1, <1>2, <3>2 DEF AskedOK
      <4>2. [asked[id] EXCEPT !.re_sent = TRUE] \in IF id \in Requested THEN GameRequest ELSE SyncRequest
        BY <4>1 DEF GameRequest, SyncRequest
      <4> QED
        BY <1>2, <3>2, <4>1, <4>2
    <3> QED
      BY <3>1, <3>2
  <2>3. \E n \in 0..MaxRequests : DOMAIN asked' \cap Requested = 1..n
    <3>1. DOMAIN asked' \cap Requested = DOMAIN asked \cap Requested
      BY <1>2, <1>3
    <3> QED
      BY <1>1, <3>1 DEF AskedOK
  <2>4. Outstanding' \subseteq DOMAIN asked'
    BY <1>1, <1>2 DEF AskedOK, Outstanding
  <2>5. \A j \in Conns : \A i \in DOMAIN up'[j] : up'[j][i].id \in DOMAIN asked'
    BY <1>1, <1>2 DEF AskedOK
  <2> QED
    BY <2>1, <2>2, <2>3, <2>4, <2>5 DEF AskedOK
<1>6. PlacesApart'
  <2>1. client.held \subseteq Requested
    BY <1>1, ClientParts
  <2> QED
    BY <1>1, <1>2, <1>3, <2>1, ApartMeans, ApartNext
<1> QED
  BY <1>4, <1>5, <1>6 DEF TypeInv

\* A message on its way is a reply or a notification, by its type.
LEMMA MessageKinds ==
    ASSUME NEW m \in Reply \cup Notification
    PROVE  /\ m.type \in {"response", "error"} <=> m \in Reply
           /\ m.type \notin {"response", "error"} <=> m \in Notification
           /\ m \in Notification => m.type \in {"message", "state_history", "processed", "phase"}
  BY DEF Reply, Notification

\* The game after a notification.
LEMMA NotificationEffect ==
    ASSUME StateOK, NEW n \in Notification
    PROVE  /\ OnNotification(client.game, n) \in Game
           /\ OnNotification(client.game, n).history =
                 IF IsPast(n) THEN client.game.history \cup {n.data}
                 ELSE IF n.type = "phase" THEN {} ELSE client.game.history
<1>1. client.game \in Game /\ server.history \subseteq Archive
  BY DEF StateOK, Client, Server
<1>2. CASE n.type = "message"
  <2>1. n.data \in Message
    BY <1>2 DEF Notification
  <2>2. OnNotification(client.game, n) = [client.game EXCEPT !.messages = @ \cup {n.data}]
    BY <1>2 DEF OnNotification
  <2> QED
    BY <1>1, <1>2, <2>1, <2>2 DEF Game, IsPast
<1>3. CASE n.type = "state_history"
  <2>1. n.data \in server.history
    BY <1>3 DEF Notification
  <2>2. OnNotification(client.game, n) = [client.game EXCEPT !.history = @ \cup {n.data}]
    BY <1>3 DEF OnNotification, ExtendPhaseHistory
  <2> QED
    BY <1>1, <1>3, <2>1, <2>2 DEF Game, IsPast
<1>4. CASE n.type = "phase"
  <2>1. n.data \in PhaseData
    BY <1>4 DEF Notification
  <2>2. OnNotification(client.game, n)
           = [phase |-> n.data.phase, history |-> {}, messages |-> n.data.messages,
              orders |-> n.data.orders]
    BY <1>4 DEF OnNotification, SetPhaseData
  <2> QED
    BY <1>4, <2>1, <2>2 DEF Game, PhaseData, IsPast
<1>5. CASE n.type = "processed"
  <2>1. n.data \in server.history
    BY <1>5 DEF Notification
  <2>2. n.data.phase + 1 \in 1..MaxPhase
    <3>1. n.data.phase \in 1..(MaxPhase - 1)
      BY <1>1, <2>1 DEF Archive
    <3> QED
      BY <3>1, Numbers
  <2> DEFINE e == [client.game EXCEPT !.history = @ \cup {n.data}]
             g == [e EXCEPT !.phase = n.data.phase + 1, !.messages = {}, !.orders = None]
  <2>3. OnNotification(client.game, n) = g
    BY <1>5 DEF OnNotification, ExtendPhaseHistory
  <2>4. e \in Game /\ e.history = client.game.history \cup {n.data}
    BY <1>1, <2>1 DEF Game
  <2> HIDE DEF e
  <2>5. g \in Game /\ g.history = e.history
    <3>1. None \in Orders
      BY DEF Orders
    <3> QED
      BY <2>2, <2>4, <3>1 DEF Game
  <2> HIDE DEF g
  <2> QED
    BY <1>5, <2>3, <2>4, <2>5 DEF IsPast
<1> QED
  BY <1>2, <1>3, <1>4, <1>5, MessageKinds

\* The game after the answer to a request of the game.
LEMMA ResponseEffect ==
    ASSUME TypeInv, NEW r \in Reply, r.type = "response", r.id \in client.waiting, r.id \in Requested
    PROVE  /\ OnResponse(client.game, r.id, r) \in Game
           /\ OnResponse(client.game, r.id, r).history = client.game.history
<1>1. client.game \in Game /\ r.data \in Times
  BY DEF TypeInv, StateOK, Client, Reply
<1>2. [id |-> r.id, at |-> r.data] \in Message
  BY <1>1 DEF Message
<1>3. CASE asked[r.id].kind = "SendGameMessage"
  <2>1. OnResponse(client.game, r.id, r)
           = [client.game EXCEPT !.messages = @ \cup {[id |-> r.id, at |-> r.data]}]
    BY <1>3 DEF OnResponse, MessageSent
  <2> QED
    BY <1>1, <1>2, <2>1 DEF Game
<1>4. CASE asked[r.id].kind = "SetOrders"
  <2>1. OnResponse(client.game, r.id, r) = [client.game EXCEPT !.orders = r.id]
    BY <1>4 DEF OnResponse, OrdersSet
  <2>2. r.id \in Orders
    BY DEF Orders
  <2> QED
    BY <1>1, <2>1, <2>2 DEF Game
<1>5. CASE asked[r.id].kind \notin {"SendGameMessage", "SetOrders"}
  <2>1. OnResponse(client.game, r.id, r) = client.game
    BY <1>5 DEF OnResponse
  <2> QED
    BY <1>1, <2>1
<1> QED
  BY <1>3, <1>4, <1>5

\* The client after the answer to Synchronize.
LEMMA SyncDoneEffect ==
    ASSUME NEW c \in Client, NEW phase
    PROVE  /\ SyncDone(c, phase) \in Client
           /\ SyncDone(c, phase).conn = c.conn /\ SyncDone(c, phase).mode = c.mode
           /\ SyncDone(c, phase).ready = TRUE /\ SyncDone(c, phase).held = {}
           /\ SyncDone(c, phase).toSend = {} /\ SyncDone(c, phase).waiting = c.waiting
           /\ SyncDone(c, phase).game = c.game
           /\ c.woken \cup c.held \subseteq SyncDone(c, phase).woken
           /\ SyncDone(c, phase).woken \subseteq c.woken \cup c.held \cup c.toSend
<1> DEFINE kept == {id \in c.toSend : PhaseDependent(Kind(id)) => asked[id].phase = phase}
<1>1. kept \subseteq c.toSend
  OBVIOUS
<1>2. SyncDone(c, phase) = [c EXCEPT !.toSend = {}, !.held = {}, !.woken = @ \cup c.held \cup kept,
                                     !.ready = TRUE]
  BY DEF SyncDone
<1> HIDE DEF kept
<1>3. c.held \subseteq Ids /\ c.toSend \subseteq Ids
  BY Numbers DEF Client
<1> DEFINE s == [c EXCEPT !.toSend = {}, !.held = {}, !.woken = @ \cup c.held \cup kept,
                          !.ready = TRUE]
<1>4. /\ s.conn = c.conn /\ s.mode = c.mode /\ s.ready = TRUE /\ s.held = {} /\ s.toSend = {}
      /\ s.waiting = c.waiting /\ s.game = c.game /\ s.woken = c.woken \cup c.held \cup kept
  BY DEF Client
<1>5. s \in Client
  BY <1>1, <1>3 DEF Client
<1> HIDE DEF s
<1>6. SyncDone(c, phase) = s
  BY <1>2 DEF s
<1> QED
  BY <1>1, <1>4, <1>5, <1>6

\* What reading a message changes: the client forgets the request that is answered, ends its
\* reconnection, updates its game, or stops to read.
LEMMA SocketEffect ==
    ASSUME TypeInv, OnSocketMessage
    PROVE  /\ client.mode = "reading" /\ down[client.conn] # <<>>
           /\ UNCHANGED <<asked, server, ends, queue, up, broken>>
           /\ down' = [down EXCEPT ![client.conn] = Tail(@)]
           /\ client' \in Client /\ client'.conn = client.conn
           /\ client'.waiting \subseteq client.waiting
           /\ \/ /\ client'.ready = client.ready /\ client'.held = client.held
                 /\ client'.woken = client.woken /\ client'.toSend = client.toSend
              \/ /\ client'.ready /\ client'.held = {} /\ client'.toSend = {}
                 /\ client'.woken \subseteq client.woken \cup client.held \cup client.toSend
           /\ \/ client'.mode = "reading"
              \/ /\ client'.mode = "dead" /\ IsPast(Head(down[client.conn]))
                 /\ Head(down[client.conn]).data.phase \in Past(client.game)
           /\ client'.mode = "reading" =>
                 client'.game.history =
                    IF IsPast(Head(down[client.conn]))
                    THEN client.game.history \cup {Head(down[client.conn]).data}
                    ELSE IF Head(down[client.conn]).type = "phase" THEN {} ELSE client.game.history
<1> DEFINE m == Head(down[client.conn])
           c == [client EXCEPT !.waiting = @ \ {m.id}]
<1>1. client \in Client /\ AskedOK /\ StateOK
  BY DEF TypeInv, StateOK
<1>2. /\ client.mode = "reading" /\ down[client.conn] # <<>>
      /\ UNCHANGED <<asked, server, ends, queue, up, broken>>
      /\ down' = [down EXCEPT ![client.conn] = Tail(@)]
  BY DEF OnSocketMessage
<1>3. m \in Reply \cup Notification
  <2>1. down[client.conn] \in Seq(Reply \cup Notification)
    BY <1>1, ClientParts DEF StateOK
  <2> QED
    BY <1>2, <2>1
<1>4. /\ c \in Client /\ c.conn = client.conn /\ c.mode = client.mode /\ c.ready = client.ready
      /\ c.held = client.held /\ c.woken = client.woken /\ c.toSend = client.toSend
      /\ c.waiting \subseteq client.waiting /\ c.game = client.game
  BY <1>1 DEF Client
<1>5. IF m.type \in {"response", "error"} THEN OnSocketResponse(m) ELSE OnSocketNotification(m)
  BY DEF OnSocketMessage
<1> HIDE DEF m
<1>6. CASE m \in Reply
  <2>1. m.type \in {"response", "error"} /\ ~IsPast(m) /\ m.type # "phase"
    BY <1>6, MessageKinds DEF IsPast
  <2>2. client' = IF \/ m.id \notin client.waiting \/ m.type = "error"
                     \/ IsSync(m.id) /\ client.timedOut
                  THEN c
                  ELSE IF IsSync(m.id) THEN SyncDone(c, m.data)
                  ELSE [c EXCEPT !.game = OnResponse(@, m.id, m)]
    BY <1>5, <2>1 DEF OnSocketResponse
  <2> HIDE DEF c
  <2>3. CASE client' = c
    BY <1>2, <1>4, <2>1, <2>3 DEF m
  <2>4. CASE client' = SyncDone(c, m.data)
    <3>1. /\ client' \in Client /\ client'.conn = c.conn /\ client'.mode = c.mode
          /\ client'.ready = TRUE /\ client'.held = {} /\ client'.toSend = {}
          /\ client'.waiting = c.waiting /\ client'.game = c.game
          /\ client'.woken \subseteq c.woken \cup c.held \cup c.toSend
      BY <1>4, <2>4, SyncDoneEffect
    <3> QED
      BY <1>2, <1>4, <2>1, <3>1 DEF m
  <2>5. CASE m.id \in client.waiting /\ m.type = "response" /\ ~IsSync(m.id)
             /\ client' = [c EXCEPT !.game = OnResponse(@, m.id, m)]
    <3>1. m.id \in Requested
      BY <1>1, <2>5, KindsApart DEF AskedOK, Outstanding
    <3>2. /\ OnResponse(c.game, m.id, m) \in Game
          /\ OnResponse(c.game, m.id, m).history = client.game.history
      BY <1>4, <1>6, <2>5, <3>1, ResponseEffect
    <3>3. /\ client' \in Client /\ client'.conn = c.conn /\ client'.mode = c.mode
          /\ client'.ready = c.ready /\ client'.held = c.held /\ client'.woken = c.woken
          /\ client'.toSend = c.toSend /\ client'.waiting = c.waiting
          /\ client'.game = OnResponse(c.game, m.id, m)
      BY <1>4, <2>5, <3>2 DEF Client
    <3> QED
      BY <1>2, <1>4, <2>1, <3>2, <3>3 DEF m
  <2> QED
    BY <2>1, <2>2, <2>3, <2>4, <2>5
<1>7. CASE m \in Notification
  <2>1. m.type \notin {"response", "error"}
    BY <1>7, MessageKinds
  <2>2. OnSocketNotification(m)
    BY <1>5, <2>1
  <2>3. CASE IsPast(m) /\ ~Extends(client.game, m.data)
    <3>1. client' = [client EXCEPT !.mode = "dead"]
      BY <2>2, <2>3 DEF OnSocketNotification, IsPast
    <3>2. /\ client' \in Client /\ client'.conn = client.conn /\ client'.mode = "dead"
          /\ client'.ready = client.ready /\ client'.held = client.held
          /\ client'.woken = client.woken /\ client'.toSend = client.toSend
          /\ client'.waiting = client.waiting
      BY <1>1, <3>1 DEF Client
    <3> QED
      BY <1>2, <2>3, <3>2 DEF Extends, m
  <2>4. CASE ~(IsPast(m) /\ ~Extends(client.game, m.data))
    <3>1. client' = [client EXCEPT !.game = OnNotification(@, m)]
      BY <2>2, <2>4 DEF OnSocketNotification, IsPast
    <3>2. /\ OnNotification(client.game, m) \in Game
          /\ OnNotification(client.game, m).history =
                IF IsPast(m) THEN client.game.history \cup {m.data}
                ELSE IF m.type = "phase" THEN {} ELSE client.game.history
      BY <1>1, <1>7, NotificationEffect
    <3>3. /\ client' \in Client /\ client'.conn = client.conn /\ client'.mode = client.mode
          /\ client'.ready = client.ready /\ client'.held = client.held
          /\ client'.woken = client.woken /\ client'.toSend = client.toSend
          /\ client'.waiting = client.waiting
          /\ client'.game = OnNotification(client.game, m)
      BY <1>1, <3>1, <3>2 DEF Client
    <3> QED
      BY <1>2, <3>2, <3>3 DEF m
  <2> QED
    BY <2>3, <2>4
<1> QED
  BY <1>3, <1>6, <1>7

\* Reading a message keeps the types.
LEMMA SocketTypes == ASSUME TypeInv, OnSocketMessage PROVE TypeInv'
<1>1. StateOK /\ AskedOK /\ PlacesApart
  BY DEF TypeInv
<1>2. UNCHANGED <<asked, server, attached, closed, unread, broken, queue, up>>
  BY SocketEffect DEF ends
<1>3. down' \in [Conns -> Seq(Reply \cup Notification)]
  <2>1. client.conn \in Conns /\ down \in [Conns -> Seq(Reply \cup Notification)]
    BY <1>1, ClientParts DEF StateOK
  <2>2. Tail(down[client.conn]) \in Seq(Reply \cup Notification)
    BY <2>1, SocketEffect
  <2> QED
    BY <2>1, <2>2, SocketEffect
<1>4. StateOK'
  <2>1. client' \in Client' /\ server \in Server' /\ Reply' = Reply /\ Notification' = Notification
    BY <1>1, <1>2, SocketEffect, RestKept
  <2> QED
    BY <1>1, <1>2, <1>3, <2>1 DEF StateOK
<1>5. AskedOK'
  <2>1. Outstanding' \subseteq Outstanding
    BY SocketEffect DEF Outstanding
  <2> QED
    BY <1>1, <1>2, <2>1, AskedKept DEF AskedOK
<1>6. PlacesApart'
  BY <1>1, SocketEffect, ApartMeans, ApartNext
<1> QED
  BY <1>4, <1>5, <1>6 DEF TypeInv

\* The notifications of some finite data are finitely many.
LEMMA Wrapped ==
    ASSUME NEW S, IsFiniteSet(S), NEW t
    PROVE  IsFiniteSet({[type |-> t, data |-> d] : d \in S})
<1> DEFINE T == {[type |-> t, data |-> d] : d \in S}
           f == [d \in S |-> [type |-> t, data |-> d]]
<1>1. f \in Surjection(S, T)
  BY DEF Surjection
<1> HIDE DEF f, T
<1>2. IsFiniteSet(T)
  BY <1>1, FS_Surjection
<1> QED
  BY <1>2 DEF T

\* The notifications in the order of time.
LEMMA InOrder ==
    ASSUME NEW ns, IsFiniteSet(ns), NEW s \in InTime(ns)
    PROVE  /\ s \in Seq(ns)
           /\ \A i, j \in DOMAIN s : i < j => s[i].data.at < s[j].data.at
<1>1. Cardinality(ns) \in Nat
  BY FS_CardinalityType
<1> QED
  BY <1>1 DEF InTime

\* What on_synchronize notifies of: every phase that it brings is of the history, after
\* the timestamp, and brought once.
LEMMA SynchronizedEffect ==
    ASSUME StateOK, NEW ts, NEW ns \in Synchronized(ts)
    PROVE  /\ ns \in Seq(Notification)
           /\ \A i \in DOMAIN ns :
                 IsPast(ns[i]) => ns[i].data \in server.history /\ ns[i].data.at > ts
           /\ \A i, j \in DOMAIN ns :
                 i # j /\ IsPast(ns[i]) /\ IsPast(ns[j]) => ns[i].data # ns[j].data
<1> DEFINE phases == Since(server.history, ts)
           messages == {m \in Since(server.messages, ts) : m.id \in Foreign}
           current == IF phases = {} THEN <<>> ELSE <<[type |-> "phase", data |-> GetPhaseData]>>
           H == {[type |-> "state_history", data |-> d] : d \in phases}
           M == {[type |-> "message", data |-> d] : d \in messages}
<1>1. PICK h \in InTime(H), m \in InTime(M) : ns = h \o m \o current
  <2>1. Synchronized(ts) = {h \o m \o current : h \in InTime(H), m \in InTime(M)}
    BY DEF Synchronized
  <2> HIDE DEF H, M, current, phases, messages
  <2> QED
    BY <2>1
<1>2. /\ server.history \subseteq Archive /\ server.messages \subseteq Message
      /\ GetPhaseData \in PhaseData
      /\ IsFiniteSet(server.history) /\ IsFiniteSet(server.messages)
  BY DEF StateOK, Server, PhaseData, GetPhaseData
<1>3. phases \subseteq server.history /\ messages \subseteq server.messages
      /\ \A d \in phases : d.at > ts
  BY DEF Since
<1>4. IsFiniteSet(phases) /\ IsFiniteSet(messages)
  BY <1>2, <1>3, FS_Subset
<1> HIDE DEF phases, messages
<1>5. IsFiniteSet(H) /\ IsFiniteSet(M)
  BY <1>4, Wrapped
<1>6. H \subseteq Notification /\ M \subseteq Notification
  BY <1>2, <1>3 DEF Notification
<1>7. current \in Seq(Notification) /\ \A i \in DOMAIN current : current[i].type = "phase"
  <2>1. [type |-> "phase", data |-> GetPhaseData] \in Notification
    BY <1>2 DEF Notification
  <2> QED
    BY <2>1
<1>8. \A n \in H : n.data \in phases
  OBVIOUS
<1>9. \A n \in M : n.type = "message"
  OBVIOUS
<1> HIDE DEF H, M, current
<1>10. /\ h \in Seq(H) /\ m \in Seq(M)
       /\ \A i, j \in DOMAIN h : i < j => h[i].data.at < h[j].data.at
  BY <1>1, <1>5, InOrder
<1>11. h \in Seq(Notification) /\ m \in Seq(Notification)
  BY <1>6, <1>10, SeqMonotonic
<1>12. /\ ns \in Seq(Notification)
       /\ \A i \in DOMAIN ns :
             \/ i \in DOMAIN h /\ ns[i] = h[i]
             \/ \E j \in DOMAIN m : ns[i] = m[j]
             \/ \E j \in DOMAIN current : ns[i] = current[j]
  BY <1>1, <1>7, <1>11
<1>13. \A i \in DOMAIN ns :
          IsPast(ns[i]) => i \in DOMAIN h /\ ns[i] = h[i] /\ h[i] \in H
  <2>1. \A j \in DOMAIN m : m[j].type = "message"
    BY <1>9, <1>10
  <2>2. \A i \in DOMAIN h : h[i] \in H
    BY <1>10
  <2> QED
    BY <1>7, <1>12, <2>1, <2>2 DEF IsPast
<1>14. \A i \in DOMAIN ns : IsPast(ns[i]) => ns[i].data \in server.history /\ ns[i].data.at > ts
  BY <1>3, <1>8, <1>13
<1>15. ASSUME NEW i \in DOMAIN ns, NEW j \in DOMAIN ns, i # j, IsPast(ns[i]), IsPast(ns[j])
       PROVE  ns[i].data # ns[j].data
  <2>1. i \in DOMAIN h /\ j \in DOMAIN h /\ ns[i] = h[i] /\ ns[j] = h[j]
    BY <1>13, <1>15
  <2>2. i < j \/ j < i
    BY <1>10, <1>15, <2>1
  <2>3. h[i].data.at < h[j].data.at \/ h[j].data.at < h[i].data.at
    BY <1>10, <2>1, <2>2
  <2>4. ns[i].data.at \in Int
    <3>1. ns[i].data \in Archive /\ server.now \in Nat
      BY <1>2, <1>14, <1>15 DEF StateOK, Server
    <3> QED
      BY <3>1 DEF Archive, Times
  <2> QED
    BY <2>1, <2>3, <2>4
<1> QED
  BY <1>12, <1>14, <1>15

\* What is sent to a client reaches the end of what is on its way, if the connection is open.
LEMMA SentEffect ==
    ASSUME NEW M, down \in [Conns -> Seq(M)], NEW k \in Conns, NEW m \in M
    PROVE  /\ Sent(k, m) \in [Conns -> Seq(M)]
           /\ \A l \in Conns : Sent(k, m)[l] = IF l = k /\ Open(k) THEN Append(down[k], m) ELSE down[l]
<1>1. Append(down[k], m) \in Seq(M)
  OBVIOUS
<1> QED
  BY <1>1 DEF Sent

\* Notifications reach the end of the queue, for the connection that has the token.
LEMMA NotifiedEffect ==
    ASSUME NEW N, queue \in Seq([to : Conns, notification : N]), NEW ns \in Seq(N),
           attached' \in Conns \cup {None}
    PROVE  /\ Notified(ns) \in Seq([to : Conns, notification : N])
           /\ Len(Notified(ns)) >= Len(queue)
           /\ \A i \in DOMAIN queue : Notified(ns)[i] = queue[i]
           /\ \A i \in DOMAIN Notified(ns) \ DOMAIN queue :
                 /\ attached' # None /\ i - Len(queue) \in DOMAIN ns
                 /\ Notified(ns)[i] = [to |-> attached', notification |-> ns[i - Len(queue)]]
<1> DEFINE T == [to : Conns, notification : N]
           new == [i \in DOMAIN ns |-> [to |-> attached', notification |-> ns[i]]]
<1>1. CASE attached' = None \/ ~server.controlled
  <2>1. Notified(ns) = queue
    BY <1>1 DEF Notified
  <2> QED
    BY <2>1
<1>2. CASE ~(attached' = None \/ ~server.controlled)
  <2>1. Notified(ns) = queue \o new
    BY <1>2 DEF Notified
  <2>2. new \in Seq(T) /\ Len(new) = Len(ns) /\ DOMAIN new = DOMAIN ns
    <3>1. Len(ns) \in Nat /\ DOMAIN ns = 1..Len(ns) /\ \A i \in DOMAIN ns : ns[i] \in N
      OBVIOUS
    <3>2. new \in [1..Len(ns) -> T]
      BY <1>2, <3>1
    <3> QED
      BY <3>1, <3>2
  <2>3. \A i \in DOMAIN new : new[i] = [to |-> attached', notification |-> ns[i]]
    OBVIOUS
  <2> HIDE DEF new, T
  <2>4. queue \in Seq(T)
    BY DEF T
  <2>5. /\ queue \o new \in Seq(T) /\ Len(queue \o new) = Len(queue) + Len(new)
        /\ \A i \in 1..(Len(queue) + Len(new)) :
              (queue \o new)[i] = IF i <= Len(queue) THEN queue[i] ELSE new[i - Len(queue)]
    BY <2>2, <2>4, ConcatProperties
  <2>6. /\ Len(queue) \in Nat /\ DOMAIN queue = 1..Len(queue)
        /\ Len(new) \in Nat /\ DOMAIN new = 1..Len(new)
        /\ DOMAIN (queue \o new) = 1..(Len(queue) + Len(new))
    BY <2>2, <2>4, <2>5, LenProperties
  <2>7. \A i \in DOMAIN queue : (queue \o new)[i] = queue[i]
    BY <2>5, <2>6
  <2>8. ASSUME NEW i \in DOMAIN (queue \o new) \ DOMAIN queue
        PROVE  /\ i - Len(queue) \in DOMAIN new
               /\ (queue \o new)[i] = new[i - Len(queue)]
    BY <2>5, <2>6
  <2> QED
    BY <1>2, <2>1, <2>2, <2>3, <2>5, <2>6, <2>7, <2>8 DEF T
<1> QED
  BY <1>1, <1>2

\* The server reads a request and leaves the archives and the queue alone; or archives the
\* message; or notifies of what the client did not see.
KeepsArchives ==
    /\ server'.phase = server.phase /\ server'.history = server.history
    /\ server'.messages = server.messages /\ server'.now = server.now
    /\ UNCHANGED queue

ArchivesMessage(r) ==
    /\ r.id \in Requested /\ asked[r.id].phase = server.phase /\ Repeated(r) = {}
    /\ server'.phase = server.phase /\ server'.history = server.history
    /\ server'.messages = server.messages \cup {[id |-> r.id, at |-> server.now + 1]}
    /\ server'.now = server.now + 1
    /\ UNCHANGED queue

NotifiesSince(r) ==
    /\ r.id \notin Requested
    /\ UNCHANGED server
    /\ \E ns \in Synchronized(asked[r.id].timestamp) : queue' = Notified(ns)

\* request_managers.handle_request: the server after it, and its reply.
LEMMA HandleEffect ==
    ASSUME TypeInv, NEW k \in Conns, NEW r \in WireRequest, r.id \in DOMAIN asked,
           HandleRequest(k, r)
    PROVE  /\ server' \in Server'
           /\ \E m \in Reply' : down' = Sent(k, m)
           /\ KeepsArchives \/ ArchivesMessage(r) \/ NotifiesSince(r)
<1>1. /\ server \in Server /\ AskedOK /\ server.now \in Nat /\ r.id \in Ids
      /\ server.phase \in 1..MaxPhase /\ server.messages \subseteq Message
  BY DEF TypeInv, StateOK, Server, WireRequest
<1>2. UNCHANGED server => server' \in Server' /\ Reply' = Reply
  BY RestKept DEF TypeInv
<1>3. Error(r.id) \in Reply
  BY <1>1 DEF Reply, Error
<1>4. CASE UNCHANGED <<server, queue>> /\ down' = Sent(k, Error(r.id))
  BY <1>2, <1>3, <1>4 DEF KeepsArchives
<1>5. CASE Kind(r.id) = "Synchronize" /\ OnSynchronize(k, r.id)
  <2>1. r.id \notin Requested
    BY <1>1, <1>5, KindsApart DEF IsSync
  <2>2. Response(r.id, server.phase) \in Reply
    BY <1>1, <2>1 DEF Reply, Response
  <2> QED
    BY <1>2, <1>5, <2>1, <2>2 DEF OnSynchronize, NotifiesSince
<1>6. CASE Kind(r.id) = "SendGameMessage" /\ OnSendGameMessage(k, r)
  <2>1. r.id \in Requested
    BY <1>1, <1>6, KindsApart
  <2>2. CASE Repeated(r) # {} /\ UNCHANGED <<server, queue>>
             /\ \E m \in Repeated(r) : down' = Sent(k, Response(r.id, m.at))
    <3>1. PICK m \in Repeated(r) : down' = Sent(k, Response(r.id, m.at))
      BY <2>2
    <3>2. m.at \in Times
      BY <1>1 DEF Repeated, Message
    <3>3. Response(r.id, m.at) \in Reply
      BY <2>1, <3>2 DEF Reply, Response
    <3> QED
      BY <1>2, <2>2, <3>1, <3>3 DEF KeepsArchives
  <2>3. CASE /\ asked[r.id].phase = server.phase /\ Repeated(r) = {} /\ UNCHANGED queue
             /\ server' = [server EXCEPT !.now = @ + 1,
                                         !.messages = @ \cup {[id |-> r.id, at |-> server.now + 1]}]
             /\ down' = Sent(k, Response(r.id, server.now + 1))
    <3>1. /\ server'.phase = server.phase /\ server'.history = server.history
          /\ server'.messages = server.messages \cup {[id |-> r.id, at |-> server.now + 1]}
          /\ server'.now = server.now + 1
          /\ server'.orders = server.orders /\ server'.waits = server.waits
          /\ server'.controlled = server.controlled
          /\ DOMAIN server' = DOMAIN server
      BY <1>1, <2>3 DEF Server
    <3>2. Message \subseteq Message' /\ Archive \subseteq Archive' /\ server.now + 1 \in Times'
      BY <1>1, <3>1, TypesGrow DEF Times
    <3>3. [id |-> r.id, at |-> server.now + 1] \in Message'
      BY <2>1, <3>2 DEF Message
    <3>4. server' \in Server'
      <4>1. server'.messages \subseteq Message' /\ server'.history \subseteq Archive'
            /\ server'.now \in Nat
        BY <1>1, <3>1, <3>2, <3>3 DEF Server
      <4>2. server' = [server EXCEPT !.now = server'.now, !.messages = server'.messages]
        BY <1>1, <2>3, <3>1 DEF Server
      <4>3. server \in [phase : 1..MaxPhase, history : SUBSET Archive', messages : SUBSET Message,
                        orders : Orders, now : Nat, waits : SUBSET [id : Ids, phase : 1..MaxPhase],
                        controlled : BOOLEAN]
        BY <1>1, <3>2 DEF Server
      <4> QED
        BY <4>1, <4>2, <4>3 DEF Server, Orders
    <3>5. Response(r.id, server.now + 1) \in Reply'
      BY <2>1, <3>2 DEF Reply, Response
    <3> QED
      BY <2>1, <2>3, <3>1, <3>4, <3>5 DEF ArchivesMessage
  <2> QED
    BY <1>4, <1>6, <2>2, <2>3 DEF OnSendGameMessage, Refuse
<1>7. CASE Kind(r.id) = "SetOrders" /\ OnSetOrders(k, r.id)
  <2>1. r.id \in Requested
    BY <1>1, <1>7, KindsApart
  <2>2. CASE UNCHANGED queue /\ server' = [server EXCEPT !.orders = r.id]
             /\ down' = Sent(k, Response(r.id, None))
    <3>1. /\ server'.phase = server.phase /\ server'.history = server.history
          /\ server'.messages = server.messages /\ server'.now = server.now
      BY <1>1, <2>2 DEF Server
    <3>2. Message' = Message /\ Archive' = Archive /\ Reply' = Reply
      BY <3>1 DEF Message, Archive, Reply, Times
    <3>3. server' \in Server'
      BY <1>1, <2>1, <2>2, <3>2 DEF Server, Orders
    <3>4. Response(r.id, None) \in Reply
      BY <1>1, <2>1 DEF Reply, Response, None, Times
    <3> QED
      BY <2>2, <3>1, <3>2, <3>3, <3>4 DEF KeepsArchives
  <2> QED
    BY <1>4, <1>7, <2>2 DEF OnSetOrders, Refuse
<1>8. CASE Kind(r.id) = "SetWaitFlag" /\ OnSetWaitFlag(k, r.id)
  <2>1. r.id \in Requested
    BY <1>1, <1>8, KindsApart
  <2>2. UNCHANGED queue /\ down' = Sent(k, Response(r.id, None))
        /\ server' = [server EXCEPT !.waits = @ \cup {[id |-> r.id, phase |-> server.phase]}]
    BY <1>8 DEF OnSetWaitFlag
  <2>3. /\ server'.phase = server.phase /\ server'.history = server.history
        /\ server'.messages = server.messages /\ server'.now = server.now
    BY <1>1, <2>2 DEF Server
  <2>4. Message' = Message /\ Archive' = Archive /\ Reply' = Reply
    BY <2>3 DEF Message, Archive, Reply, Times
  <2>5. server' \in Server'
    <3>1. [id |-> r.id, phase |-> server.phase] \in [id : Ids, phase : 1..MaxPhase]
      BY <1>1
    <3> QED
      BY <1>1, <2>2, <2>4, <3>1 DEF Server, Orders
  <2>6. Response(r.id, None) \in Reply
    BY <1>1, <2>1 DEF Reply, Response, None, Times
  <2> QED
    BY <2>2, <2>3, <2>4, <2>5, <2>6 DEF KeepsArchives
<1>9. Kind(r.id) \in {"Synchronize", "SendGameMessage", "SetOrders", "SetWaitFlag"}
  BY <1>1, KindsApart DEF IsSync
<1>10. CASE ~server.controlled
  BY <1>4, <1>10 DEF HandleRequest, Refuse
<1>11. CASE server.controlled
  <2>1. \/ Kind(r.id) = "Synchronize" /\ OnSynchronize(k, r.id)
        \/ Kind(r.id) = "SendGameMessage" /\ OnSendGameMessage(k, r)
        \/ Kind(r.id) = "SetOrders" /\ OnSetOrders(k, r.id)
        \/ Kind(r.id) = "SetWaitFlag" /\ OnSetWaitFlag(k, r.id)
    BY <1>9, <1>11 DEF HandleRequest
  <2> QED
    BY <1>5, <1>6, <1>7, <1>8, <2>1
<1> QED
  BY <1>10, <1>11

\* What is under way to the server only gets less: of each connection, the first may go
\* and the last may be lost.
UpKept ==
    \E d \in [Conns -> {0, 1}] : \A k \in Conns : \A i \in DOMAIN up'[k] :
        i + d[k] \in DOMAIN up[k] /\ up'[k][i] = up[k][i + d[k]]

\* It stays of requests that were asked.
LEMMA UpKeptAsked ==
    ASSUME AskedOK, UpKept
    PROVE  \A k \in Conns : \A i \in DOMAIN up'[k] : up'[k][i].id \in DOMAIN asked
  BY DEF AskedOK, UpKept

\* ConnectionHandler.on_message takes the first request of the connection.
LEMMA MessageEffect ==
    ASSUME TypeInv, NEW k \in Conns, OnMessage(k)
    PROVE  /\ up[k] # <<>> /\ k \notin closed \cup unread
           /\ 1 \in DOMAIN up[k] /\ up[k][1] \in WireRequest /\ up[k][1].id \in DOMAIN asked
           /\ UNCHANGED <<client, asked, closed, broken>>
           /\ up' \in [Conns -> Seq(WireRequest)] /\ UpKept
           /\ \A l \in Conns \ {k} : up'[l] = up[l]
           /\ \A i \in DOMAIN up'[k] : i + 1 \in DOMAIN up[k] /\ up'[k][i] = up[k][i + 1]
           /\ Len(up'[k]) = Len(up[k]) - 1
           /\ \/ /\ ~MayAttach(k) /\ unread' = unread \cup {k}
                 /\ UNCHANGED <<attached, server, queue, down>>
              \/ /\ MayAttach(k) /\ attached' = k /\ UNCHANGED unread
                 /\ HandleRequest(k, up[k][1])
<1>1. up \in [Conns -> Seq(WireRequest)] /\ AskedOK
  BY DEF TypeInv, StateOK
<1>2. /\ up[k] # <<>> /\ k \notin closed \cup unread /\ up' = [up EXCEPT ![k] = Tail(@)]
      /\ UNCHANGED <<client, asked, closed, broken>>
      /\ \/ /\ ~MayAttach(k) /\ unread' = unread \cup {k}
            /\ UNCHANGED <<attached, server, queue, down>>
         \/ /\ MayAttach(k) /\ attached' = k /\ UNCHANGED unread
            /\ HandleRequest(k, Head(up[k]))
  BY DEF OnMessage
<1>3. up[k] \in Seq(WireRequest)
  BY <1>1
<1>4. 1 \in DOMAIN up[k] /\ up[k][1] \in WireRequest /\ Head(up[k]) = up[k][1]
  BY <1>2, <1>3
<1>5. up[k][1].id \in DOMAIN asked
  BY <1>1, <1>4 DEF AskedOK
<1>6. /\ Tail(up[k]) \in Seq(WireRequest) /\ Len(Tail(up[k])) = Len(up[k]) - 1
      /\ \A i \in DOMAIN Tail(up[k]) : i + 1 \in DOMAIN up[k] /\ Tail(up[k])[i] = up[k][i + 1]
  <2>1. /\ Tail(up[k]) \in Seq(WireRequest) /\ Len(Tail(up[k])) = Len(up[k]) - 1
        /\ \A i \in 1..Len(Tail(up[k])) : Tail(up[k])[i] = up[k][i + 1]
    BY <1>2, <1>3, HeadTailProperties
  <2>2. Len(up[k]) \in Nat /\ DOMAIN up[k] = 1..Len(up[k])
        /\ DOMAIN Tail(up[k]) = 1..Len(Tail(up[k]))
    BY <1>3, <2>1, LenProperties
  <2> QED
    BY <2>1, <2>2
<1>7. up'[k] = Tail(up[k]) /\ \A l \in Conns \ {k} : up'[l] = up[l]
  BY <1>1, <1>2
<1>8. up' \in [Conns -> Seq(WireRequest)]
  BY <1>1, <1>2, <1>6
<1>9. UpKept
  <2> DEFINE d == [l \in Conns |-> IF l = k THEN 1 ELSE 0]
  <2>1. d \in [Conns -> {0, 1}]
    OBVIOUS
  <2>2. ASSUME NEW l \in Conns, NEW i \in DOMAIN up'[l]
        PROVE  i + d[l] \in DOMAIN up[l] /\ up'[l][i] = up[l][i + d[l]]
    <3>1. CASE l = k
      BY <1>6, <1>7, <3>1
    <3>2. CASE l # k
      <4>1. up'[l] = up[l] /\ i \in 1..Len(up[l]) /\ Len(up[l]) \in Nat
        BY <1>1, <1>7, <3>2
      <4>2. i + 0 = i /\ d[l] = 0
        BY <3>2, <4>1
      <4> QED
        BY <4>1, <4>2
    <3> QED
      BY <3>1, <3>2
  <2> QED
    BY <2>1, <2>2 DEF UpKept
<1> QED
  BY <1>2, <1>4, <1>5, <1>6, <1>7, <1>8, <1>9

\* ConnectionHandler.on_message keeps the types.
LEMMA MessageTypes == ASSUME TypeInv, NEW k \in Conns, OnMessage(k) PROVE TypeInv'
<1>1. StateOK /\ AskedOK /\ PlacesApart /\ server \in Server
  BY DEF TypeInv, StateOK
<1>2. UNCHANGED <<client, asked, closed, broken>> /\ up' \in [Conns -> Seq(WireRequest)] /\ UpKept
  BY MessageEffect
<1>3. AskedOK'
  BY <1>1, <1>2, UpKeptAsked, AskedKept DEF Outstanding
<1>4. PlacesApart'
  BY <1>1, <1>2 DEF PlacesApart, Places
<1>5. CASE UNCHANGED <<attached, server, queue, down>> /\ unread' = unread \cup {k}
  <2>1. Client' = Client /\ server \in Server' /\ Reply' = Reply /\ Notification' = Notification
    BY <1>1, <1>5, RestKept
  <2>2. StateOK'
    BY <1>1, <1>2, <1>5, <2>1 DEF StateOK
  <2> QED
    BY <1>3, <1>4, <2>2 DEF TypeInv
<1>6. CASE /\ attached' = k /\ UNCHANGED unread
           /\ HandleRequest(k, up[k][1])
  <2>1. /\ server' \in Server'
        /\ \E m \in Reply' : down' = Sent(k, m)
        /\ KeepsArchives \/ ArchivesMessage(up[k][1]) \/ NotifiesSince(up[k][1])
    BY <1>6, MessageEffect, HandleEffect
  <2>2. server'.history = server.history /\ server'.now \in Nat /\ server.now <= server'.now
    <3>1. server.now \in Nat
      BY <1>1 DEF Server
    <3>2. CASE KeepsArchives
      BY <3>1, <3>2 DEF KeepsArchives
    <3>3. CASE ArchivesMessage(up[k][1])
      BY <3>1, <3>3 DEF ArchivesMessage
    <3>4. CASE NotifiesSince(up[k][1])
      BY <3>1, <3>4 DEF NotifiesSince
    <3> QED
      BY <2>1, <3>2, <3>3, <3>4
  <2>3. IsFiniteSet(server'.history) /\ IsFiniteSet(server'.messages)
    <3>1. IsFiniteSet(server.history) /\ IsFiniteSet(server.messages)
      BY <1>1 DEF StateOK
    <3>2. CASE server'.messages = server.messages
      BY <2>2, <3>1, <3>2
    <3>3. CASE ArchivesMessage(up[k][1])
      <4> DEFINE m == [id |-> up[k][1].id, at |-> server.now + 1]
      <4>1. server'.messages = server.messages \cup {m}
        BY <3>3 DEF ArchivesMessage
      <4> HIDE DEF m
      <4> QED
        BY <2>2, <3>1, <4>1, FS_AddElement
    <3> QED
      BY <2>1, <3>2, <3>3 DEF KeepsArchives, NotifiesSince
  <2>4. /\ client \in Client' /\ queue \in Seq([to : Conns, notification : Notification'])
        /\ down \in [Conns -> Seq(Reply' \cup Notification')]
    BY <1>1, <2>2, GrowKeeps
  <2>5. down' \in [Conns -> Seq(Reply' \cup Notification')]
    <3>1. PICK m \in Reply' : down' = Sent(k, m)
      BY <2>1
    <3>2. m \in Reply' \cup Notification'
      OBVIOUS
    <3> QED
      BY <2>4, <3>1, <3>2, SentEffect
  <2>6. queue' \in Seq([to : Conns, notification : Notification'])
    <3>1. CASE UNCHANGED queue
      BY <2>4, <3>1
    <3>2. CASE NotifiesSince(up[k][1])
      <4>1. PICK ns \in Synchronized(asked[up[k][1].id].timestamp) : queue' = Notified(ns)
        BY <3>2 DEF NotifiesSince
      <4>2. ns \in Seq(Notification) /\ Notification' = Notification
        BY <1>1, <3>2, SynchronizedEffect, RestKept DEF NotifiesSince
      <4>3. queue \in Seq([to : Conns, notification : Notification])
        BY <1>1 DEF StateOK
      <4> QED
        BY <1>6, <4>1, <4>2, <4>3, NotifiedEffect
    <3> QED
      BY <2>1, <3>1, <3>2 DEF KeepsArchives, ArchivesMessage
  <2>7. StateOK'
    BY <1>1, <1>2, <1>6, <2>1, <2>3, <2>4, <2>5, <2>6 DEF StateOK
  <2> QED
    BY <1>3, <1>4, <2>7 DEF TypeInv
<1> QED
  BY <1>5, <1>6, MessageEffect

\* Only what is under way changes, and a connection that is closed.
LEMMA NetKept ==
    ASSUME TypeInv, UNCHANGED <<client, asked, server, unread>>, UpKept,
           attached' \in Conns \cup {None}, closed' \subseteq broken', broken' \subseteq Conns,
           queue' \in Seq([to : Conns, notification : Notification]),
           up' \in [Conns -> Seq(WireRequest)],
           down' \in [Conns -> Seq(Reply \cup Notification)]
    PROVE  TypeInv'
<1>1. StateOK /\ AskedOK /\ PlacesApart
  BY DEF TypeInv
<1>2. Client' = Client /\ server \in Server' /\ Reply' = Reply /\ Notification' = Notification
  BY <1>1, RestKept
<1>3. StateOK'
  BY <1>1, <1>2 DEF StateOK
<1>4. AskedOK'
  BY <1>1, UpKeptAsked, AskedKept DEF Outstanding
<1>5. PlacesApart'
  BY <1>1 DEF PlacesApart, Places
<1> QED
  BY <1>3, <1>4, <1>5 DEF TypeInv

\* Of a connection that stays as it is, everything is kept.
LEMMA UpSame ==
    ASSUME StateOK, UNCHANGED up
    PROVE  UpKept
<1> DEFINE d == [l \in Conns |-> 0]
<1>1. d \in [Conns -> {0, 1}]
  OBVIOUS
<1>2. ASSUME NEW l \in Conns, NEW i \in DOMAIN up'[l]
      PROVE  i + d[l] \in DOMAIN up[l] /\ up'[l][i] = up[l][i + d[l]]
  <2>1. i \in DOMAIN up[l] /\ i \in 1..Len(up[l]) /\ Len(up[l]) \in Nat
    BY DEF StateOK
  <2>2. i + d[l] = i
    BY <2>1
  <2> QED
    BY <2>1, <2>2
<1> QED
  BY <1>1, <1>2 DEF UpKept

\* ConnectionHandler.on_close keeps the types.
LEMMA CloseTypes == ASSUME TypeInv, NEW k \in Conns, OnClose(k) PROVE TypeInv' /\ UpKept
<1>1. /\ up \in [Conns -> Seq(WireRequest)] /\ closed \subseteq broken /\ broken \subseteq Conns
      /\ attached \in Conns \cup {None}
      /\ queue \in Seq([to : Conns, notification : Notification])
      /\ down \in [Conns -> Seq(Reply \cup Notification)]
  BY DEF TypeInv, StateOK
<1>2. /\ k \in broken /\ closed' = closed \cup {k} /\ up' = [up EXCEPT ![k] = <<>>]
      /\ attached' = IF attached = k THEN None ELSE attached
      /\ UNCHANGED <<client, asked, server, unread, queue, down, broken>>
  BY DEF OnClose
<1>3. up' \in [Conns -> Seq(WireRequest)] /\ up'[k] = <<>> /\ \A l \in Conns \ {k} : up'[l] = up[l]
  BY <1>1, <1>2
<1>4. UpKept
  <2> DEFINE d == [l \in Conns |-> 0]
  <2>1. d \in [Conns -> {0, 1}]
    OBVIOUS
  <2>2. ASSUME NEW l \in Conns, NEW i \in DOMAIN up'[l]
        PROVE  i + d[l] \in DOMAIN up[l] /\ up'[l][i] = up[l][i + d[l]]
    <3>1. l # k /\ up'[l] = up[l]
      BY <1>3
    <3>2. i \in DOMAIN up[l] /\ i \in 1..Len(up[l]) /\ Len(up[l]) \in Nat
      BY <1>1, <3>1
    <3>3. i + d[l] = i
      BY <3>2
    <3> QED
      BY <3>1, <3>2, <3>3
  <2> QED
    BY <2>1, <2>2 DEF UpKept
<1>5. attached' \in Conns \cup {None} /\ closed' \subseteq broken' /\ broken' \subseteq Conns
  BY <1>1, <1>2
<1>6. queue' \in Seq([to : Conns, notification : Notification]) /\ down' = down
  BY <1>1, <1>2
<1> QED
  BY <1>1, <1>2, <1>3, <1>4, <1>5, <1>6, NetKept

\* What a break leaves under way.
LEMMA BreakEffect ==
    ASSUME TypeInv, Break
    PROVE  /\ Alive /\ client.conn \in Conns /\ broken' = broken \cup {client.conn}
           /\ UNCHANGED <<client, asked, server, ends, queue>>
           /\ up' \in [Conns -> Seq(WireRequest)] /\ UpKept
           /\ down' \in [Conns -> Seq(Reply \cup Notification)]
           /\ \A l \in Conns \ {client.conn} : up'[l] = up[l] /\ down'[l] = down[l]
<1> DEFINE k == client.conn
<1>1. /\ up \in [Conns -> Seq(WireRequest)] /\ k \in Conns
      /\ down \in [Conns -> Seq(Reply \cup Notification)]
  BY ClientParts DEF TypeInv, StateOK
<1>2. /\ Alive /\ broken' = broken \cup {k}
      /\ UNCHANGED <<client, asked, server, ends, queue>>
  BY DEF Break, Open, Alive
<1>3. PICK m \in 0..Len(up[k]), n \in 0..Len(down[k]) :
         /\ up' = [up EXCEPT ![k] = SubSeq(@, 1, m)]
         /\ down' = [down EXCEPT ![k] = SubSeq(@, 1, n)]
  BY DEF Break
<1> HIDE DEF k
<1>4. up[k] \in Seq(WireRequest) /\ down[k] \in Seq(Reply \cup Notification)
  BY <1>1
<1>5. /\ SubSeq(up[k], 1, m) \in Seq(WireRequest)
      /\ \A i \in DOMAIN SubSeq(up[k], 1, m) :
            i \in DOMAIN up[k] /\ SubSeq(up[k], 1, m)[i] = up[k][i] /\ i \in Nat
  BY <1>3, <1>4
<1>6. SubSeq(down[k], 1, n) \in Seq(Reply \cup Notification)
  BY <1>3, <1>4
<1>7. up'[k] = SubSeq(up[k], 1, m) /\ \A l \in Conns \ {k} : up'[l] = up[l] /\ down'[l] = down[l]
  BY <1>1, <1>3
<1>8. up' \in [Conns -> Seq(WireRequest)] /\ down' \in [Conns -> Seq(Reply \cup Notification)]
  BY <1>1, <1>3, <1>5, <1>6
<1>9. UpKept
  <2> DEFINE d == [l \in Conns |-> 0]
  <2>1. d \in [Conns -> {0, 1}]
    OBVIOUS
  <2>2. ASSUME NEW l \in Conns, NEW i \in DOMAIN up'[l]
        PROVE  i + d[l] \in DOMAIN up[l] /\ up'[l][i] = up[l][i + d[l]]
    <3>1. i \in DOMAIN up[l] /\ up'[l][i] = up[l][i] /\ i \in Nat
      <4>1. CASE l = k
        BY <1>5, <1>7, <4>1
      <4>2. CASE l # k
        BY <1>1, <1>7, <4>2
      <4> QED
        BY <4>1, <4>2
    <3>2. i + d[l] = i
      BY <3>1
    <3> QED
      BY <3>1, <3>2
  <2> QED
    BY <2>1, <2>2 DEF UpKept
<1> QED
  BY <1>1, <1>2, <1>7, <1>8, <1>9 DEF k

\* A break keeps the types.
LEMMA BreakTypes == ASSUME TypeInv, Break PROVE TypeInv'
<1>1. /\ closed \subseteq broken /\ broken \subseteq Conns /\ attached \in Conns \cup {None}
      /\ queue \in Seq([to : Conns, notification : Notification])
  BY DEF TypeInv, StateOK
<1> QED
  BY <1>1, BreakEffect, NetKept DEF ends

\* _task_send_notifications: the first of the queue is written.
LEMMA NotificationSent ==
    ASSUME TypeInv, SendNotification
    PROVE  /\ 1 \in DOMAIN queue /\ queue[1] \in [to : Conns, notification : Notification]
           /\ UNCHANGED <<client, asked, server, ends, up, broken>>
           /\ down' = Sent(queue[1].to, queue[1].notification)
           /\ queue' \in Seq([to : Conns, notification : Notification])
           /\ \A i \in DOMAIN queue' : i + 1 \in DOMAIN queue /\ queue'[i] = queue[i + 1]
<1> DEFINE T == [to : Conns, notification : Notification]
<1>1. queue \in Seq(T)
  BY DEF TypeInv, StateOK
<1>2. /\ queue # <<>> /\ down' = Sent(Head(queue).to, Head(queue).notification)
      /\ queue' = Tail(queue)
      /\ UNCHANGED <<client, asked, server, ends, up, broken>>
  BY DEF SendNotification
<1> HIDE DEF T
<1>3. 1 \in DOMAIN queue /\ queue[1] \in T /\ Head(queue) = queue[1]
  BY <1>1, <1>2
<1>4. /\ Tail(queue) \in Seq(T) /\ Len(Tail(queue)) = Len(queue) - 1
      /\ \A i \in 1..Len(Tail(queue)) : Tail(queue)[i] = queue[i + 1]
  BY <1>1, <1>2, HeadTailProperties
<1>5. /\ Len(queue) \in Nat /\ DOMAIN queue = 1..Len(queue)
      /\ DOMAIN Tail(queue) = 1..Len(Tail(queue))
  BY <1>1, <1>4, LenProperties
<1>6. \A i \in DOMAIN Tail(queue) : i + 1 \in DOMAIN queue /\ Tail(queue)[i] = queue[i + 1]
  BY <1>4, <1>5
<1> QED
  BY <1>2, <1>3, <1>4, <1>6 DEF T

\* Writing a notification keeps the types.
LEMMA NotificationTypes == ASSUME TypeInv, SendNotification PROVE TypeInv'
<1>1. /\ closed \subseteq broken /\ broken \subseteq Conns /\ attached \in Conns \cup {None}
      /\ up \in [Conns -> Seq(WireRequest)]
      /\ down \in [Conns -> Seq(Reply \cup Notification)]
  BY DEF TypeInv, StateOK
<1>2. down' \in [Conns -> Seq(Reply \cup Notification)]
  <2>1. queue[1].to \in Conns /\ queue[1].notification \in Reply \cup Notification
    BY NotificationSent
  <2>2. Sent(queue[1].to, queue[1].notification) \in [Conns -> Seq(Reply \cup Notification)]
    BY <1>1, <2>1, SentEffect
  <2> QED
    BY <2>2, NotificationSent
<1>3. UpKept
  BY NotificationSent, UpSame DEF TypeInv
<1> QED
  BY <1>1, <1>2, <1>3, NotificationSent, NetKept DEF ends

\* The server goes on by itself, and notifies of it or not.
LEMMA ServerGrows ==
    ASSUME TypeInv, UNCHANGED <<client, asked, ends, net>>,
           server' \in Server', server.now <= server'.now, server.history \subseteq server'.history,
           IsFiniteSet(server'.history), IsFiniteSet(server'.messages),
           NEW ns \in Seq(Notification'), queue' \in {queue, Notified(ns)}
    PROVE  TypeInv'
<1>1. StateOK /\ AskedOK /\ PlacesApart /\ server'.now \in Nat
  BY DEF TypeInv, Server
<1>2. UNCHANGED <<client, asked, attached, closed, unread, up, down, broken>>
  BY DEF ends, net
<1>3. /\ client \in Client' /\ queue \in Seq([to : Conns, notification : Notification'])
      /\ down \in [Conns -> Seq(Reply' \cup Notification')]
  BY <1>1, GrowKeeps
<1>4. queue' \in Seq([to : Conns, notification : Notification'])
  <2>1. attached' \in Conns \cup {None}
    BY <1>1, <1>2 DEF StateOK
  <2>2. Notified(ns) \in Seq([to : Conns, notification : Notification'])
    BY <1>3, <2>1, NotifiedEffect
  <2> QED
    BY <1>3, <2>2
<1>5. StateOK'
  BY <1>1, <1>2, <1>3, <1>4 DEF StateOK
<1>6. AskedOK'
  BY <1>1, <1>2 DEF AskedOK, Outstanding
<1>7. PlacesApart'
  BY <1>1, <1>2 DEF PlacesApart, Places
<1> QED
  BY <1>5, <1>6, <1>7 DEF TypeInv

\* A sequence of one.
LEMMA Singleton ==
    ASSUME NEW x, NEW S, x \in S
    PROVE  <<x>> \in Seq(S) /\ DOMAIN <<x>> = {1} /\ <<x>>[1] = x
  OBVIOUS

\* A message of another player gets a number that no message has.
LEMMA ForeignEffect ==
    ASSUME TypeInv, ForeignMessage
    PROVE  \E m : /\ m \in Message' /\ m.id \in Foreign /\ m.id \notin ArchivedIds
                  /\ m.at = server.now + 1
                  /\ server'.phase = server.phase /\ server'.history = server.history
                  /\ server'.messages = server.messages \cup {m} /\ server'.now = server.now + 1
                  /\ server' \in Server'
                  /\ UNCHANGED <<client, asked, ends, net>>
                  /\ queue' = Notified(<<[type |-> "message", data |-> m]>>)
<1> DEFINE ms == UNION ({server.messages} \cup {h.messages : h \in server.history})
           seen == {x.id : x \in ms}
           S == {MaxRequests} \cup (seen \cap Foreign)
           m == [id |-> Max(S) + 1, at |-> server.now + 1]
<1>1. /\ m.id \in Foreign
      /\ server' = [server EXCEPT !.now = @ + 1, !.messages = @ \cup {m}]
      /\ UNCHANGED <<client, asked, ends, net>>
      /\ queue' = Notified(<<[type |-> "message", data |-> m]>>)
  BY DEF ForeignMessage
<1>2. ArchivedIds = seen
  BY DEF ArchivedIds, Archives
<1> HIDE DEF seen, ms
<1>3. MaxRequests \in Nat /\ MaxForeign \in Nat
  BY Numbers
<1>4. S \subseteq 0..(MaxRequests + MaxForeign) /\ S # {}
  BY <1>3 DEF Foreign
<1>5. Max(S) \in S /\ \A x \in S : Max(S) >= x
  BY <1>3, <1>4, MaxOfBounded
<1>6. Max(S) \in Int
  BY <1>4, <1>5
<1>7. ASSUME m.id \in seen PROVE FALSE
  <2>1. m.id = Max(S) + 1 /\ m.id \in S
    BY <1>1, <1>7
  <2> HIDE DEF S
  <2>2. Max(S) >= Max(S) + 1
    BY <1>5, <2>1
  <2> QED
    BY <1>6, <2>2
<1>8. m.at = server.now + 1
  OBVIOUS
<1>9. m = [id |-> m.id, at |-> m.at]
  OBVIOUS
<1> HIDE DEF m, S
<1>10. server \in Server
  BY DEF TypeInv, StateOK
<1>11. /\ server'.phase = server.phase /\ server'.history = server.history
       /\ server'.messages = server.messages \cup {m} /\ server'.now = server.now + 1
       /\ server'.orders = server.orders /\ server'.waits = server.waits
       /\ server'.controlled = server.controlled
  BY <1>1, <1>10 DEF Server
<1>12. server.now \in Nat
  BY <1>10 DEF Server
<1>13. Message \subseteq Message' /\ Archive \subseteq Archive' /\ server.now + 1 \in Times'
  BY <1>11, <1>12, TypesGrow DEF Times
<1>14. m \in Message'
  BY <1>1, <1>8, <1>9, <1>13 DEF Message
<1>15. server' \in Server'
  <2>1. server'.messages \subseteq Message'
    BY <1>10, <1>11, <1>13, <1>14 DEF Server
  <2>2. server' = [server EXCEPT !.now = server'.now, !.messages = server'.messages]
    BY <1>1, <1>10, <1>11 DEF Server
  <2>3. server \in [phase : 1..MaxPhase, history : SUBSET Archive', messages : SUBSET Message,
                    orders : Orders, now : Nat, waits : SUBSET [id : Ids, phase : 1..MaxPhase],
                    controlled : BOOLEAN]
    BY <1>10, <1>13 DEF Server
  <2>4. server'.now \in Nat
    BY <1>11, <1>12
  <2> QED
    BY <2>1, <2>2, <2>3, <2>4 DEF Server, Orders
<1> QED
  BY <1>1, <1>2, <1>7, <1>8, <1>11, <1>14, <1>15

\* A message of another player keeps the types.
LEMMA ForeignTypes == ASSUME TypeInv, ForeignMessage PROVE TypeInv'
<1>1. PICK m : /\ m \in Message' /\ m.id \in Foreign /\ m.id \notin ArchivedIds
               /\ m.at = server.now + 1
               /\ server'.phase = server.phase /\ server'.history = server.history
               /\ server'.messages = server.messages \cup {m} /\ server'.now = server.now + 1
               /\ server' \in Server'
               /\ UNCHANGED <<client, asked, ends, net>>
               /\ queue' = Notified(<<[type |-> "message", data |-> m]>>)
  BY ForeignEffect
<1>2. server.now \in Nat /\ IsFiniteSet(server.history) /\ IsFiniteSet(server.messages)
  BY DEF TypeInv, StateOK, Server
<1>3. IsFiniteSet(server'.history) /\ IsFiniteSet(server'.messages)
  BY <1>1, <1>2, FS_AddElement
<1>4. [type |-> "message", data |-> m] \in Notification'
  BY <1>1 DEF Notification
<1>5. <<[type |-> "message", data |-> m]>> \in Seq(Notification')
  BY <1>4, Singleton
<1>6. server.now <= server'.now /\ server.history \subseteq server'.history
  BY <1>1, <1>2
<1> QED
  BY <1>1, <1>3, <1>5, <1>6, ServerGrows

\* The phase that is processed enters the history.
LEMMA ProcessEffect ==
    ASSUME TypeInv, Process
    PROVE  LET h == [phase |-> server.phase, at |-> server.now + 1, messages |-> server.messages] IN
           /\ server.phase < MaxPhase /\ h \in Archive'
           /\ server'.phase = server.phase + 1 /\ server'.history = server.history \cup {h}
           /\ server'.messages = {} /\ server'.now = server.now + 1
           /\ server' \in Server'
           /\ UNCHANGED <<client, asked, ends, net>>
           /\ queue' = Notified(<<[type |-> "processed", data |-> h]>>)
<1> DEFINE h == [phase |-> server.phase, at |-> server.now + 1, messages |-> server.messages]
<1>1. /\ server.phase < MaxPhase
      /\ server' = [server EXCEPT !.now = @ + 1, !.phase = @ + 1, !.history = @ \cup {h},
                                  !.messages = {}, !.orders = None]
      /\ UNCHANGED <<client, asked, ends, net>>
      /\ queue' = Notified(<<[type |-> "processed", data |-> h]>>)
  BY DEF Process
<1>2. h.phase = server.phase /\ h.at = server.now + 1 /\ h.messages = server.messages
  OBVIOUS
<1>3. h = [phase |-> h.phase, at |-> h.at, messages |-> h.messages]
  OBVIOUS
<1> HIDE DEF h
<1>4. server \in Server /\ server.now \in Nat /\ server.phase \in 1..MaxPhase
  BY DEF TypeInv, StateOK, Server
<1>5. /\ server'.phase = server.phase + 1 /\ server'.history = server.history \cup {h}
      /\ server'.messages = {} /\ server'.now = server.now + 1
      /\ server'.orders = None /\ server'.waits = server.waits
      /\ server'.controlled = server.controlled
  BY <1>1, <1>4 DEF Server
<1>6. Message \subseteq Message' /\ Archive \subseteq Archive' /\ server.now + 1 \in Times'
  <2>1. server'.now \in Nat /\ server.now <= server'.now /\ server.history \subseteq server'.history
    BY <1>4, <1>5
  <2>2. Message \subseteq Message' /\ Archive \subseteq Archive'
    BY <1>4, <2>1, TypesGrow
  <2> QED
    BY <1>4, <1>5, <2>2 DEF Times
<1>7. h \in Archive'
  <2>1. h.phase \in 1..(MaxPhase - 1)
    BY <1>1, <1>2, <1>4, Numbers
  <2>2. h.messages \subseteq Message'
    BY <1>2, <1>4, <1>6 DEF Server
  <2> QED
    BY <1>2, <1>3, <1>6, <2>1, <2>2 DEF Archive
<1>8. server' \in Server'
  <2>1. server'.history \subseteq Archive' /\ server'.phase \in 1..MaxPhase /\ server'.now \in Nat
    BY <1>1, <1>4, <1>5, <1>6, <1>7, Numbers DEF Server
  <2>2. server' = [server EXCEPT !.now = server'.now, !.phase = server'.phase,
                                 !.history = server'.history, !.messages = {}, !.orders = None]
    BY <1>1, <1>4, <1>5 DEF Server
  <2>3. server \in [phase : 1..MaxPhase, history : SUBSET Archive, messages : SUBSET Message,
                    orders : Orders, now : Nat, waits : SUBSET [id : Ids, phase : 1..MaxPhase],
                    controlled : BOOLEAN]
    BY <1>4 DEF Server
  <2> QED
    BY <2>1, <2>2, <2>3 DEF Server, Orders
<1> QED
  BY <1>1, <1>5, <1>7, <1>8 DEF h

\* Processing keeps the types.
LEMMA ProcessTypes == ASSUME TypeInv, Process PROVE TypeInv'
<1> DEFINE h == [phase |-> server.phase, at |-> server.now + 1, messages |-> server.messages]
<1>1. /\ h \in Archive'
      /\ server'.history = server.history \cup {h}
      /\ server'.messages = {} /\ server'.now = server.now + 1
      /\ server' \in Server'
      /\ UNCHANGED <<client, asked, ends, net>>
      /\ queue' = Notified(<<[type |-> "processed", data |-> h]>>)
  BY ProcessEffect
<1> HIDE DEF h
<1>2. server.now \in Nat /\ IsFiniteSet(server.history)
  BY DEF TypeInv, StateOK, Server
<1>3. IsFiniteSet(server'.history) /\ IsFiniteSet(server'.messages)
  BY <1>1, <1>2, FS_AddElement, FS_EmptySet
<1>4. [type |-> "processed", data |-> h] \in Notification'
  <2>1. h \in server'.history
    BY <1>1
  <2> QED
    BY <2>1 DEF Notification
<1>5. <<[type |-> "processed", data |-> h]>> \in Seq(Notification')
  BY <1>4, Singleton
<1>6. server.now <= server'.now /\ server.history \subseteq server'.history
  BY <1>1, <1>2
<1> QED
  BY <1>1, <1>3, <1>5, <1>6, ServerGrows

\* Taking the power away changes nothing else.
LEMMA KickEffect ==
    ASSUME TypeInv, Kick
    PROVE  /\ server'.phase = server.phase /\ server'.history = server.history
           /\ server'.messages = server.messages /\ server'.now = server.now
           /\ server' \in Server'
           /\ UNCHANGED <<client, asked, ends, queue, net>>
<1>1. server \in Server /\ server' = [server EXCEPT !.controlled = FALSE]
  BY DEF TypeInv, StateOK, Kick
<1>2. /\ server'.phase = server.phase /\ server'.history = server.history
      /\ server'.messages = server.messages /\ server'.now = server.now
  BY <1>1 DEF Server
<1>3. Archive' = Archive /\ Message' = Message
  BY <1>2 DEF Archive, Message, Times
<1>4. server' \in Server'
  BY <1>1, <1>3 DEF Server, Orders
<1> QED
  BY <1>2, <1>4 DEF Kick

\* Taking the power away keeps the types.
LEMMA KickTypes == ASSUME TypeInv, Kick PROVE TypeInv'
<1>1. server.now \in Nat /\ IsFiniteSet(server.history) /\ IsFiniteSet(server.messages)
  BY DEF TypeInv, StateOK, Server
<1>2. IsFiniteSet(server'.history) /\ IsFiniteSet(server'.messages)
  BY <1>1, KickEffect
<1>3. <<>> \in Seq(Notification')
  OBVIOUS
<1>4. server.now <= server'.now /\ server.history \subseteq server'.history
  BY <1>1, KickEffect
<1> QED
  BY <1>2, <1>3, <1>4, KickEffect, ServerGrows

\* No step of Next breaks the types.
LEMMA TypesNext == ASSUME TypeInv, [Next]_vars PROVE TypeInv'
<1>1. CASE UNCHANGED vars
  <2>1. UNCHANGED <<client, asked, attached, closed, unread, queue, up, down, broken>> /\ UNCHANGED server
    BY <1>1 DEF vars, ends, net
  <2>2. StateOK'
    BY <2>1, RestKept, OtherPartsKept DEF TypeInv, StateOK
  <2>3. AskedOK' /\ PlacesApart'
    BY <2>1 DEF TypeInv, AskedOK, Outstanding, PlacesApart, Places
  <2> QED
    BY <2>2, <2>3 DEF TypeInv
<1>2. CASE Next
  BY <1>2, SendTypes, WriteTypes, DisconnectedTypes, ConnectTypes, SocketTypes, MessageTypes,
     CloseTypes, NotificationTypes, ForeignTypes, ProcessTypes, KickTypes, BreakTypes
     DEF Next, Ours, Theirs
<1> QED
  BY <1>1, <1>2

----------------------------------------------------------------------------
(* Every step keeps what is known of the connections.                       *)

\* A request is made.
LEMMA SendConn == ASSUME TypeInv, ConnInv, NEW kind \in Kinds, Send(kind) PROVE ConnInv'
<1>1. PICK id \in Requested :
         /\ id \notin DOMAIN asked
         /\ DOMAIN asked' = DOMAIN asked \cup {id}
         /\ \A i \in DOMAIN asked : asked'[i] = asked[i]
         /\ client'.conn = client.conn /\ client'.mode = client.mode
         /\ client'.ready = client.ready /\ client'.game = client.game
         /\ client'.toSend = client.toSend
         /\ client'.woken = IF client.ready THEN client.woken \cup {id} ELSE client.woken
         /\ UNCHANGED <<attached, queue, up, down, broken>>
  BY SendEffect DEF ends, net
<1>2. NothingAhead' /\ BrokeFirst' /\ SentToAttached' /\ RequestsOfAttached'
  BY <1>1 DEF ConnInv, NothingAhead, BrokeFirst, SentToAttached, RequestsOfAttached, Alive
<1>3. ReadyAttached'
  BY <1>1 DEF ConnInv, ReadyAttached, Alive
<1>4. SyncFirst'
  BY <1>1 DEF ConnInv, SyncFirst, Alive
<1> QED
  BY <1>2, <1>3, <1>4 DEF ConnInv

\* A request is written.
LEMMA WriteConn == ASSUME TypeInv, ConnInv, NEW id, Write(id) PROVE ConnInv'
<1> DEFINE c == client.conn
<1>1. /\ id \in client.woken /\ UNCHANGED <<asked, attached, queue, down, broken>>
      /\ client'.conn = client.conn /\ client'.mode = client.mode
      /\ client'.ready = client.ready /\ client'.game = client.game
      /\ client'.woken = client.woken \ {id}
  BY WriteEffect DEF TypeInv, ends
<1>2. /\ up \in [Conns -> Seq(WireRequest)] /\ c \in Conns
      /\ \A k \in Conns : Sync(k) \notin Requested
  BY ClientParts, Numbers DEF TypeInv, StateOK
<1>3. BrokeFirst' /\ SentToAttached'
  BY <1>1 DEF ConnInv, BrokeFirst, SentToAttached, Alive
<1>4. CASE ~Alive
  <2>1. up' = up /\ ~Alive'
    BY <1>1, <1>4, WriteEffect DEF TypeInv, Alive
  <2>2. NothingAhead' /\ RequestsOfAttached'
    BY <1>1, <2>1 DEF ConnInv, NothingAhead, RequestsOfAttached
  <2> QED
    BY <1>3, <2>1, <2>2 DEF ConnInv, ReadyAttached, SyncFirst
<1>5. CASE Alive
  <2>1. client'.toSend = client.toSend /\ up' = [up EXCEPT ![c] = Append(@, Wire(id))]
    BY <1>5, WriteEffect DEF TypeInv
  <2> HIDE DEF c
  <2>2. /\ up'[c] = Append(up[c], Wire(id)) /\ \A k \in Conns \ {c} : up'[k] = up[k]
        /\ up[c] \in Seq(WireRequest)
    BY <1>2, <2>1
  <2>3. /\ \A i \in DOMAIN up'[c] :
              \/ i \in DOMAIN up[c] /\ up'[c][i] = up[c][i]
              \/ up'[c][i] = Wire(id)
        /\ up[c] = <<>> => Len(up'[c]) = 1 /\ up'[c][1] = Wire(id)
    BY <2>2
  <2>4. Wire(id).id = id
    BY DEF Wire
  <2>5. id \in Requested => client.ready /\ attached = c
    BY <1>1, <1>2, <1>5 DEF ConnInv, ReadyAttached, SyncFirst, c
  <2>6. NothingAhead'
    <3>1. \A k \in Conns : k > c => k # c
      BY <1>2, Numbers
    <3> QED
      BY <1>1, <2>2, <3>1 DEF ConnInv, NothingAhead, c
  <2>7. RequestsOfAttached'
    <3> SUFFICES ASSUME NEW k \in Conns, NEW i \in DOMAIN up'[k], up'[k][i].id \in Requested
                 PROVE  attached = k
      BY <1>1 DEF RequestsOfAttached
    <3>1. CASE k # c
      BY <2>2, <3>1 DEF ConnInv, RequestsOfAttached
    <3>2. CASE k = c
      BY <1>2, <2>3, <2>4, <2>5, <3>2 DEF ConnInv, RequestsOfAttached
    <3> QED
      BY <3>1, <3>2
  <2>8. ReadyAttached'
    <3>1. client.ready => /\ attached = c /\ client.woken \subseteq Requested
                          /\ \A i \in DOMAIN up[c] : up[c][i].id \in Requested
      BY <1>5 DEF ConnInv, ReadyAttached, c
    <3>2. client.ready => \A i \in DOMAIN up'[c] : up'[c][i].id \in Requested
      BY <1>1, <2>3, <2>4, <3>1
    <3>3. client.toSend \subseteq Requested
      BY <1>5 DEF ConnInv, ReadyAttached
    <3> QED
      BY <1>1, <2>1, <3>1, <3>2, <3>3 DEF ReadyAttached, c
  <2>9. SyncFirst'
    <3> SUFFICES ASSUME ~client.ready
                 PROVE  SyncFirst'
      BY <1>1 DEF SyncFirst
    <3>1. /\ attached # c /\ Sync(c) \in DOMAIN asked /\ client.woken = {Sync(c)} /\ up[c] = <<>>
          /\ \A h \in client.game.history : h.at <= asked[Sync(c)].timestamp
      BY <1>1, <1>5 DEF ConnInv, SyncFirst, c
    <3>2. client'.woken = {} /\ Len(up'[c]) = 1 /\ up'[c][1].id = Sync(c)
      BY <1>1, <2>3, <2>4, <3>1
    <3>3. client'.game = client.game /\ asked' = asked /\ client'.conn = c /\ attached' = attached
      BY <1>1 DEF c
    <3> QED
      BY <3>1, <3>2, <3>3 DEF SyncFirst
  <2> QED
    BY <1>3, <2>6, <2>7, <2>8, <2>9 DEF ConnInv
<1> QED
  BY <1>4, <1>5

\* The client reads the end of the connection, or gives up.
LEMMA DisconnectedConn == ASSUME TypeInv, ConnInv, Disconnected \/ GiveUp PROVE ConnInv'
<1>1. UNCHANGED <<asked, attached, queue, up, down, broken>>
  BY DEF Disconnected, GiveUp, ends, net
<1>2. /\ client'.conn = client.conn /\ client'.mode \in {"connecting", "dead"}
      /\ client'.mode = "connecting" => ~client'.ready
      /\ client.conn \in broken
  BY DEF Disconnected, GiveUp, TypeInv, StateOK, Client, ConnInv, BrokeFirst
<1> QED
  BY <1>1, <1>2 DEF ConnInv, NothingAhead, BrokeFirst, SentToAttached, RequestsOfAttached,
                    ReadyAttached, SyncFirst, Alive

\* The client connects again.
LEMMA ConnectConn == ASSUME TypeInv, ConnInv, Connect PROVE ConnInv'
<1> DEFINE k == client.conn + 1
<1>1. /\ k \in Conns /\ client.mode = "connecting"
      /\ UNCHANGED <<attached, queue, up, down, broken>>
      /\ client'.conn = k /\ client'.mode = "reading" /\ client'.ready = client.ready
      /\ client'.game = client.game
      /\ client'.woken = {Sync(k)}
      /\ client'.toSend \subseteq Requested
      /\ Sync(k) \in DOMAIN asked'
      /\ asked'[Sync(k)].timestamp = GetLatestTimestamp(client.game)
  BY ConnectEffect DEF ends, net
<1>2. client.conn \in Nat /\ k > client.conn /\ \A l \in Conns : l > k => l > client.conn
  <2>1. client.conn \in Nat /\ \A l \in Conns : l \in Nat
    BY ClientParts, Numbers DEF TypeInv
  <2> QED
    BY <2>1
<1> HIDE DEF k
<1>3. /\ ~client.ready /\ up[k] = <<>> /\ down[k] = <<>> /\ k \notin broken /\ attached # k
      /\ \A i \in DOMAIN queue : queue[i].to # k
  BY <1>1, <1>2 DEF ConnInv, BrokeFirst, NothingAhead
<1>4. \A h \in client.game.history : h.at <= GetLatestTimestamp(client.game)
  BY LatestTimestamp DEF TypeInv
<1>5. NothingAhead' /\ BrokeFirst' /\ RequestsOfAttached'
  BY <1>1, <1>2 DEF ConnInv, NothingAhead, BrokeFirst, RequestsOfAttached
<1>6. SentToAttached' /\ ReadyAttached'
  BY <1>1, <1>3 DEF SentToAttached, ReadyAttached
<1>7. SyncFirst'
  BY <1>1, <1>3, <1>4 DEF SyncFirst
<1> QED
  BY <1>5, <1>6, <1>7 DEF ConnInv

\* The client reads a message: the assertions of extend_phase_history hold.
LEMMA SocketConn == ASSUME TypeInv, ConnInv, PhasesOnce, OnSocketMessage PROVE ConnInv'
<1> DEFINE c == client.conn
<1>1. /\ client.mode = "reading" /\ down[c] # <<>>
      /\ UNCHANGED <<asked, attached, queue, up, broken>>
      /\ down' = [down EXCEPT ![c] = Tail(@)]
      /\ client'.conn = c /\ client' \in Client
      /\ \/ /\ client'.ready = client.ready /\ client'.held = client.held
            /\ client'.woken = client.woken /\ client'.toSend = client.toSend
         \/ /\ client'.ready /\ client'.held = {} /\ client'.toSend = {}
            /\ client'.woken \subseteq client.woken \cup client.held \cup client.toSend
      /\ \/ client'.mode = "reading"
         \/ /\ client'.mode = "dead" /\ IsPast(Head(down[c]))
            /\ Head(down[c]).data.phase \in Past(client.game)
  BY SocketEffect DEF ends
<1>2. /\ c \in Conns /\ client.held \subseteq Requested
      /\ down \in [Conns -> Seq(Reply \cup Notification)]
  BY ClientParts DEF TypeInv, StateOK
<1> HIDE DEF c
<1>3. 1 \in DOMAIN down[c] /\ Head(down[c]) = down[c][1] /\ \A k \in Conns \ {c} : down'[k] = down[k]
  <2>1. down[c] \in Seq(Reply \cup Notification)
    BY <1>2
  <2>2. 1 \in DOMAIN down[c] /\ Head(down[c]) = down[c][1]
    BY <1>1, <2>1
  <2> QED
    BY <1>1, <1>2, <2>2
<1>4. c \notin broken => client'.mode = "reading"
  BY <1>1, <1>3 DEF PhasesOnce, Alive, Underway, PhaseUnderway, c
<1>5. NothingAhead'
  <2>1. \A k \in Conns : k > c => k # c
    BY <1>2, Numbers
  <2> QED
    BY <1>1, <1>3, <2>1 DEF ConnInv, NothingAhead, c
<1>6. BrokeFirst' /\ RequestsOfAttached'
  BY <1>1, <1>4 DEF ConnInv, BrokeFirst, RequestsOfAttached, c
<1>7. Alive => attached = c
  BY <1>1 DEF ConnInv, SentToAttached, c
<1>8. SentToAttached'
  BY <1>1, <1>7 DEF SentToAttached, Alive, c
<1>9. Alive /\ ~client.ready => client.woken = {} /\ up[c] = <<>>
  BY <1>7 DEF ConnInv, SyncFirst, c
<1>10. Alive => client.toSend \subseteq Requested /\ client.woken \subseteq Requested
                /\ \A i \in DOMAIN up[c] : up[c][i].id \in Requested
  <2>1. DOMAIN <<>> = {}
    OBVIOUS
  <2> QED
    BY <1>9, <2>1 DEF ConnInv, ReadyAttached, c
<1>11. ReadyAttached'
  BY <1>1, <1>2, <1>7, <1>10 DEF ReadyAttached, Alive, c
<1>12. SyncFirst'
  BY <1>1, <1>7, <1>9 DEF SyncFirst, Alive, c
<1> QED
  BY <1>5, <1>6, <1>8, <1>11, <1>12 DEF ConnInv

\* What is notified goes to the connection that has the token.
LEMMA NotifiedTo ==
    ASSUME NEW N, queue \in Seq([to : Conns, notification : N]), NEW ns \in Seq(N),
           attached' \in Conns \cup {None}
    PROVE  \A i \in DOMAIN Notified(ns) :
              \/ \E j \in DOMAIN queue : Notified(ns)[i].to = queue[j].to
              \/ attached' # None /\ Notified(ns)[i].to = attached'
<1> SUFFICES ASSUME NEW i \in DOMAIN Notified(ns)
             PROVE  \/ \E j \in DOMAIN queue : Notified(ns)[i].to = queue[j].to
                    \/ attached' # None /\ Notified(ns)[i].to = attached'
  OBVIOUS
<1>1. CASE i \in DOMAIN queue
  BY <1>1, NotifiedEffect
<1>2. CASE i \notin DOMAIN queue
  <2>1. /\ attached' # None
        /\ Notified(ns)[i] = [to |-> attached', notification |-> ns[i - Len(queue)]]
    BY <1>2, NotifiedEffect
  <2> QED
    BY <2>1
<1> QED
  BY <1>1, <1>2

\* The server reads a request.
LEMMA MessageConn == ASSUME TypeInv, ConnInv, NEW k \in Conns, OnMessage(k) PROVE ConnInv'
<1> DEFINE c == client.conn
<1>1. /\ up[k] # <<>> /\ 1 \in DOMAIN up[k]
      /\ UNCHANGED <<client, asked, broken>>
      /\ \A l \in Conns \ {k} : up'[l] = up[l]
      /\ \A i \in DOMAIN up'[k] : i + 1 \in DOMAIN up[k] /\ up'[k][i] = up[k][i + 1]
      /\ Len(up'[k]) = Len(up[k]) - 1 /\ up' \in [Conns -> Seq(WireRequest)]
      /\ \/ /\ ~MayAttach(k) /\ UNCHANGED <<attached, server, queue, down>>
         \/ /\ MayAttach(k) /\ attached' = k
            /\ HandleRequest(k, up[k][1])
  BY MessageEffect
<1>2. /\ c \in Conns /\ StateOK /\ attached \in Conns \cup {None} /\ None \notin Conns
      /\ queue \in Seq([to : Conns, notification : Notification])
      /\ down \in [Conns -> Seq(Reply \cup Notification)]
  BY ClientParts, Numbers DEF TypeInv, StateOK
<1>3. Alive' = Alive /\ client'.conn = c /\ client' = client
  BY <1>1 DEF Alive
<1>4. \/ UNCHANGED <<attached, queue, down>> /\ attached \notin {None, k}
      \/ /\ attached \in {None, k} /\ attached' = k
         /\ \A l \in Conns \ {k} : down'[l] = down[l]
         /\ \A i \in DOMAIN queue' :
               (\E j \in DOMAIN queue : queue'[i].to = queue[j].to) \/ queue'[i].to = k
  <2>1. CASE ~MayAttach(k) /\ UNCHANGED <<attached, server, queue, down>>
    BY <2>1 DEF MayAttach
  <2>2. CASE MayAttach(k) /\ attached' = k /\ HandleRequest(k, up[k][1])
    <3>1. /\ \E m \in Reply' : down' = Sent(k, m)
          /\ KeepsArchives \/ ArchivesMessage(up[k][1]) \/ NotifiesSince(up[k][1])
      BY <2>2, HandleEffect, MessageEffect
    <3>2. \A l \in Conns \ {k} : down'[l] = down[l]
      BY <1>2, <3>1 DEF Sent
    <3>3. CASE UNCHANGED queue
      BY <2>2, <3>2, <3>3 DEF MayAttach
    <3>4. CASE NotifiesSince(up[k][1])
      <4>1. PICK ns \in Synchronized(asked[up[k][1].id].timestamp) : queue' = Notified(ns)
        BY <3>4 DEF NotifiesSince
      <4>2. ns \in Seq(Notification)
        BY <1>2, SynchronizedEffect
      <4>3. attached' \in Conns \cup {None}
        BY <2>2
      <4>4. \A i \in DOMAIN Notified(ns) :
               \/ \E j \in DOMAIN queue : Notified(ns)[i].to = queue[j].to
               \/ attached' # None /\ Notified(ns)[i].to = attached'
        BY <1>2, <4>2, <4>3, NotifiedTo
      <4> QED
        BY <2>2, <3>2, <4>1, <4>4 DEF MayAttach
    <3> QED
      BY <3>1, <3>3, <3>4 DEF KeepsArchives, ArchivesMessage
  <2> QED
    BY <1>1, <2>1, <2>2
<1> HIDE DEF c
<1>5. \A l \in Conns : l > c => l # k
  BY <1>1 DEF ConnInv, NothingAhead, c
<1>6. NothingAhead'
  <2> SUFFICES ASSUME NEW l \in Conns, l > c
               PROVE  /\ up'[l] = <<>> /\ down'[l] = <<>> /\ l \notin broken' /\ attached' # l
                      /\ \A i \in DOMAIN queue' : queue'[i].to # l
    BY <1>3 DEF NothingAhead
  <2>1. /\ up[l] = <<>> /\ down[l] = <<>> /\ l \notin broken /\ attached # l
        /\ \A i \in DOMAIN queue : queue[i].to # l
    BY DEF ConnInv, NothingAhead, c
  <2> QED
    BY <1>1, <1>4, <1>5, <2>1
<1>7. BrokeFirst'
  BY <1>1, <1>3 DEF ConnInv, BrokeFirst
<1>8. SentToAttached'
  <2> SUFFICES ASSUME Alive
               PROVE  \/ attached' = c
                      \/ down'[c] = <<>> /\ \A i \in DOMAIN queue' : queue'[i].to # c
    BY <1>3 DEF SentToAttached
  <2>1. \/ attached = c
        \/ down[c] = <<>> /\ \A i \in DOMAIN queue : queue[i].to # c
    BY DEF ConnInv, SentToAttached, c
  <2> QED
    BY <1>2, <1>4, <2>1
<1>9. RequestsOfAttached'
  <2> SUFFICES ASSUME NEW l \in Conns, NEW i \in DOMAIN up'[l], up'[l][i].id \in Requested
               PROVE  attached' = l
    BY DEF RequestsOfAttached
  <2>1. attached = l
    BY <1>1, SMTT(60) DEF ConnInv, RequestsOfAttached
  <2> QED
    BY <1>2, <1>4, <2>1
<1>10. ReadyAttached'
  <2> SUFFICES ASSUME Alive
               PROVE  /\ client.toSend \subseteq Requested
                      /\ client.ready =>
                            /\ attached' = c /\ client.woken \subseteq Requested
                            /\ \A i \in DOMAIN up'[c] : up'[c][i].id \in Requested
    BY <1>3 DEF ReadyAttached
  <2>1. /\ client.toSend \subseteq Requested
        /\ client.ready =>
              /\ attached = c /\ client.woken \subseteq Requested
              /\ \A i \in DOMAIN up[c] : up[c][i].id \in Requested
    BY DEF ConnInv, ReadyAttached, c
  <2>2. client.ready => \A i \in DOMAIN up'[c] : up'[c][i].id \in Requested
    BY <1>1, <1>2, <2>1
  <2> QED
    BY <1>2, <1>4, <2>1, <2>2
<1>11. SyncFirst'
  <2> SUFFICES ASSUME Alive, ~client.ready
               PROVE  SyncFirst'
    BY <1>3 DEF SyncFirst
  <2>1. CASE attached = c /\ client.woken = {} /\ up[c] = <<>>
    <3>1. k # c
      BY <1>1, <2>1
    <3>2. attached' = c /\ up'[c] = <<>>
      BY <1>1, <1>2, <1>4, <2>1, <3>1
    <3> QED
      BY <1>3, <2>1, <3>2 DEF SyncFirst
  <2>2. CASE attached # c /\ k = c
    <3>1. client.woken = {} /\ Len(up[c]) = 1
      BY <1>1, <2>2 DEF ConnInv, SyncFirst, c
    <3>2. up'[c] = <<>>
      BY <1>1, <1>2, <2>2, <3>1
    <3> QED
      BY <1>3, <3>1, <3>2 DEF SyncFirst
  <2>3. CASE attached # c /\ k # c
    <3>1. attached' # c /\ up'[c] = up[c] /\ asked' = asked
      BY <1>1, <1>2, <1>4, <2>3
    <3>2. \/ client.woken = {} /\ up[c] = <<>>
          \/ /\ Sync(c) \in DOMAIN asked
             /\ \A h \in client.game.history : h.at <= asked[Sync(c)].timestamp
             /\ \/ client.woken = {Sync(c)} /\ up[c] = <<>>
                \/ /\ client.woken = {} /\ Len(up[c]) = 1
                   /\ up[c][1].id = Sync(c)
      BY <2>3 DEF ConnInv, SyncFirst, c
    <3> QED
      BY <1>3, <3>1, <3>2 DEF SyncFirst
  <2> QED
    BY <2>1, <2>2, <2>3 DEF ConnInv, SyncFirst, c
<1> QED
  BY <1>6, <1>7, <1>8, <1>9, <1>10, <1>11 DEF ConnInv

\* The server notices that a connection is broken.
LEMMA CloseConn == ASSUME TypeInv, ConnInv, NEW k \in Conns, OnClose(k) PROVE ConnInv'
<1> DEFINE c == client.conn
<1>1. /\ k \in broken /\ UNCHANGED <<client, asked, queue, down, broken>>
      /\ attached' = IF attached = k THEN None ELSE attached
      /\ up' = [up EXCEPT ![k] = <<>>]
  BY DEF OnClose
<1>2. c \in Conns /\ None \notin Conns /\ up \in [Conns -> Seq(WireRequest)]
  BY ClientParts, Numbers DEF TypeInv, StateOK
<1>3. up'[k] = <<>> /\ \A l \in Conns \ {k} : up'[l] = up[l]
  BY <1>1, <1>2
<1>4. Alive' = Alive /\ client'.conn = c /\ client' = client
  BY <1>1 DEF Alive
<1>5. NothingAhead'
  BY <1>1, <1>2, <1>3 DEF ConnInv, NothingAhead
<1>6. BrokeFirst'
  BY <1>1 DEF ConnInv, BrokeFirst
<1>7. Alive => k # c /\ up'[c] = up[c] /\ (attached = c <=> attached' = c)
  BY <1>1, <1>2, <1>3 DEF Alive
<1>8. SentToAttached'
  BY <1>1, <1>4, <1>7 DEF ConnInv, SentToAttached
<1>9. RequestsOfAttached'
  <2>1. DOMAIN <<>> = {}
    OBVIOUS
  <2> QED
    BY <1>1, <1>3, <2>1 DEF ConnInv, RequestsOfAttached
<1>10. ReadyAttached'
  BY <1>1, <1>4, <1>7 DEF ConnInv, ReadyAttached
<1>11. SyncFirst'
  <2>1. asked' = asked
    BY <1>1
  <2> QED
    BY <1>4, <1>7, <2>1 DEF ConnInv, SyncFirst
<1> QED
  BY <1>5, <1>6, <1>8, <1>9, <1>10, <1>11 DEF ConnInv

\* A notification is written.
LEMMA NotificationConn == ASSUME TypeInv, ConnInv, SendNotification PROVE ConnInv'
<1> DEFINE c == client.conn
<1>1. /\ 1 \in DOMAIN queue /\ queue[1].to \in Conns
      /\ UNCHANGED <<client, asked, attached, up, broken>>
      /\ down' = Sent(queue[1].to, queue[1].notification)
      /\ \A i \in DOMAIN queue' : i + 1 \in DOMAIN queue /\ queue'[i] = queue[i + 1]
  BY NotificationSent DEF ends
<1>2. /\ c \in Conns /\ down \in [Conns -> Seq(Reply \cup Notification)]
  BY ClientParts DEF TypeInv, StateOK
<1>3. \A l \in Conns : l # queue[1].to => down'[l] = down[l]
  BY <1>1, <1>2 DEF Sent
<1>4. Alive' = Alive /\ client' = client
  BY <1>1 DEF Alive
<1>5. NothingAhead'
  BY <1>1, <1>3 DEF ConnInv, NothingAhead
<1>6. SentToAttached'
  BY <1>1, <1>2, <1>3, <1>4 DEF ConnInv, SentToAttached
<1>7. BrokeFirst' /\ RequestsOfAttached' /\ ReadyAttached' /\ SyncFirst'
  BY <1>1, <1>4 DEF ConnInv, BrokeFirst, RequestsOfAttached, ReadyAttached, SyncFirst
<1> QED
  BY <1>5, <1>6, <1>7 DEF ConnInv

\* The server goes on by itself.
LEMMA ServerConn ==
    ASSUME TypeInv, ConnInv, UNCHANGED <<client, asked, ends, net>>,
           server' \in Server', server.now <= server'.now, server.history \subseteq server'.history,
           NEW ns \in Seq(Notification'), queue' \in {queue, Notified(ns)}
    PROVE  ConnInv'
<1> DEFINE c == client.conn
<1>1. /\ UNCHANGED <<client, asked, attached, up, down, broken>>
      /\ attached \in Conns \cup {None} /\ server'.now \in Nat
  BY DEF ends, net, TypeInv, StateOK, Server
<1>2. queue \in Seq([to : Conns, notification : Notification'])
  BY <1>1, GrowKeeps DEF TypeInv
<1>3. \A i \in DOMAIN queue' :
         \/ \E j \in DOMAIN queue : queue'[i].to = queue[j].to
         \/ attached # None /\ queue'[i].to = attached
  <2>1. CASE queue' = queue
    BY <2>1
  <2>2. CASE queue' = Notified(ns)
    <3>1. attached' \in Conns \cup {None}
      BY <1>1
    <3>2. \A i \in DOMAIN Notified(ns) :
             \/ \E j \in DOMAIN queue : Notified(ns)[i].to = queue[j].to
             \/ attached' # None /\ Notified(ns)[i].to = attached'
      BY <1>2, <3>1, NotifiedTo
    <3> QED
      BY <1>1, <2>2, <3>2
  <2> QED
    BY <2>1, <2>2
<1>4. Alive' = Alive /\ client' = client
  BY <1>1 DEF Alive
<1>5. NothingAhead'
  BY <1>1, <1>3 DEF ConnInv, NothingAhead
<1>6. SentToAttached'
  BY <1>1, <1>3, <1>4 DEF ConnInv, SentToAttached
<1>7. BrokeFirst' /\ RequestsOfAttached' /\ ReadyAttached' /\ SyncFirst'
  BY <1>1, <1>4 DEF ConnInv, BrokeFirst, RequestsOfAttached, ReadyAttached, SyncFirst
<1> QED
  BY <1>5, <1>6, <1>7 DEF ConnInv

\* The connection breaks.
LEMMA BreakConn == ASSUME TypeInv, ConnInv, Break PROVE ConnInv'
<1> DEFINE c == client.conn
<1>1. /\ Alive /\ c \in Conns /\ broken' = broken \cup {c}
      /\ UNCHANGED <<client, asked, attached, queue>>
      /\ UpKept
      /\ \A l \in Conns \ {c} : up'[l] = up[l] /\ down'[l] = down[l]
  BY BreakEffect DEF ends
<1>2. ~Alive'
  BY <1>1 DEF Alive
<1>3. NothingAhead'
  <2>1. \A k \in Conns : k > c => k # c
    BY <1>1, Numbers
  <2> QED
    BY <1>1, <2>1 DEF ConnInv, NothingAhead
<1>4. BrokeFirst'
  BY <1>1 DEF ConnInv, BrokeFirst
<1>5. RequestsOfAttached'
  BY <1>1 DEF ConnInv, RequestsOfAttached, UpKept
<1>6. SentToAttached' /\ ReadyAttached' /\ SyncFirst'
  BY <1>2 DEF SentToAttached, ReadyAttached, SyncFirst
<1> QED
  BY <1>3, <1>4, <1>5, <1>6 DEF ConnInv

----------------------------------------------------------------------------
(* Every step keeps what is known of the archives.                          *)

\* The archives stay as they are.
LEMMA ArchivesSame ==
    ASSUME server'.messages = server.messages, server'.history = server.history,
           server'.phase = server.phase
    PROVE  /\ ArchivedIds' = ArchivedIds
           /\ MessagesApart => MessagesApart'
           /\ PhaseOfMessage /\ UNCHANGED asked => PhaseOfMessage'
  BY DEF ArchivedIds, Archives, MessagesApart, PhaseOfMessage

\* The messages archived.
LEMMA ArchivedMeans ==
    \A id : id \in ArchivedIds <=>
               \/ \E m \in server.messages : m.id = id
               \/ \E h \in server.history : \E m \in h.messages : m.id = id
<1>1. UNION Archives = server.messages \cup UNION {h.messages : h \in server.history}
  BY DEF Archives
<1> QED
  BY <1>1 DEF ArchivedIds

\* No request is written, and no message archived.
LEMMA UnmarkedKept ==
    ASSUME TypeInv, TypeInv', UnmarkedUnwritten, UnmarkedOnce, UNCHANGED asked, UpKept,
           client'.conn = client.conn, ToWrite' \subseteq ToWrite, ArchivedIds' = ArchivedIds
    PROVE  UnmarkedUnwritten' /\ UnmarkedOnce'
<1>1. PICK d \in [Conns -> {0, 1}] : \A k \in Conns : \A i \in DOMAIN up'[k] :
         i + d[k] \in DOMAIN up[k] /\ up'[k][i] = up[k][i + d[k]]
  BY DEF UpKept
<1>2. \A k \in Conns : \A i \in DOMAIN up'[k] : i \in Nat
  BY DEF TypeInv, StateOK
<1>3. UnmarkedUnwritten'
  BY <1>1 DEF UnmarkedUnwritten
<1>4. UnmarkedOnce'
  <2> SUFFICES ASSUME NEW k \in Conns, NEW i \in DOMAIN up'[k],
                      up'[k][i].id \in Requested, ~up'[k][i].re_sent
               PROVE  /\ up'[k][i].id \notin ArchivedIds'
                      /\ \A l \in Conns : \A j \in DOMAIN up'[l] :
                            up'[l][j].id = up'[k][i].id => l = k /\ j = i
                      /\ k = client'.conn => up'[k][i].id \notin ToWrite'
    BY DEF UnmarkedOnce
  <2>1. i + d[k] \in DOMAIN up[k] /\ up'[k][i] = up[k][i + d[k]]
    BY <1>1
  <2>2. /\ up'[k][i].id \notin ArchivedIds
        /\ \A l \in Conns : \A j \in DOMAIN up[l] :
              up[l][j].id = up'[k][i].id => l = k /\ j = i + d[k]
        /\ k = client.conn => up'[k][i].id \notin ToWrite
    BY <2>1 DEF UnmarkedOnce
  <2>3. ASSUME NEW l \in Conns, NEW j \in DOMAIN up'[l], up'[l][j].id = up'[k][i].id
        PROVE  l = k /\ j = i
    <3>1. j + d[l] \in DOMAIN up[l] /\ up'[l][j] = up[l][j + d[l]]
      BY <1>1
    <3>2. l = k /\ j + d[l] = i + d[k]
      BY <2>2, <2>3, <3>1
    <3>3. i \in Nat /\ j \in Nat /\ d[k] \in {0, 1}
      BY <1>2
    <3> QED
      BY <3>2, <3>3
  <2> QED
    BY <2>2, <2>3
<1> QED
  BY <1>3, <1>4

\* A request is made.
LEMMA SendArchive ==
    ASSUME TypeInv, ArchiveInv, NEW kind \in Kinds, Send(kind)
    PROVE  ArchiveInv'
<1>1. PICK id \in Requested :
         /\ id \notin DOMAIN asked
         /\ DOMAIN asked' = DOMAIN asked \cup {id}
         /\ \A i \in DOMAIN asked : asked'[i] = asked[i]
         /\ client'.conn = client.conn /\ client'.toSend = client.toSend
         /\ client'.woken = IF client.ready THEN client.woken \cup {id} ELSE client.woken
         /\ client'.held = IF client.ready THEN client.held ELSE client.held \cup {id}
         /\ UNCHANGED <<server, up>>
  BY SendEffect DEF net
<1>2. ToWrite' = ToWrite \cup {id} /\ ToWrite \subseteq DOMAIN asked
  BY <1>1 DEF ToWrite, TypeInv, AskedOK, Outstanding
<1>3. id \notin ArchivedIds
  BY <1>1, ArchivedMeans DEF ArchiveInv, PhaseOfMessage
<1>4. \A k \in Conns : \A i \in DOMAIN up[k] : up[k][i].id \in DOMAIN asked
  BY DEF TypeInv, AskedOK
<1>5. ArchivedIds' = ArchivedIds /\ MessagesApart'
  BY <1>1, ArchivesSame DEF ArchiveInv
<1>6. UnmarkedUnwritten'
  BY <1>1, <1>2, <1>3, <1>4, <1>5 DEF ArchiveInv, UnmarkedUnwritten
<1>7. UnmarkedOnce'
  BY <1>1, <1>2, <1>4, <1>5 DEF ArchiveInv, UnmarkedOnce
<1>8. PhaseOfMessage'
  BY <1>1 DEF ArchiveInv, PhaseOfMessage
<1> QED
  BY <1>5, <1>6, <1>7, <1>8 DEF ArchiveInv

\* A request is written: one that is not marked for the first time.
LEMMA WriteArchive ==
    ASSUME TypeInv, TypeInv', ConnInv, ArchiveInv, NEW id, Write(id)
    PROVE  ArchiveInv'
<1> DEFINE c == client.conn
<1>1. /\ id \in client.woken /\ UNCHANGED <<asked, server>>
      /\ client'.conn = client.conn /\ client'.held = client.held
      /\ client'.woken = client.woken \ {id}
      /\ client'.toSend \subseteq client.toSend \cup {id}
      /\ Alive => client'.toSend = client.toSend
      /\ up' = IF Alive THEN [up EXCEPT ![c] = Append(@, Wire(id))] ELSE up
  BY WriteEffect DEF TypeInv
<1>2. ArchivedIds' = ArchivedIds /\ MessagesApart' /\ PhaseOfMessage'
  BY <1>1, ArchivesSame DEF ArchiveInv
<1>3. ToWrite' \subseteq ToWrite /\ id \in ToWrite /\ (Alive => id \notin ToWrite')
  BY <1>1, ApartMeans DEF ToWrite, TypeInv
<1>4. CASE ~Alive
  <2>1. UpKept
    BY <1>1, <1>4, UpSame DEF TypeInv
  <2> QED
    BY <1>1, <1>2, <1>3, <2>1, UnmarkedKept DEF ArchiveInv
<1>5. CASE Alive
  <2>1. /\ up \in [Conns -> Seq(WireRequest)] /\ c \in Conns
        /\ \A k \in Conns : Sync(k) \notin Requested
    BY ClientParts, Numbers DEF TypeInv, StateOK
  <2>2. id \in Requested => attached = c
    BY <1>1, <1>5, <2>1 DEF ConnInv, ReadyAttached, SyncFirst
  <2> HIDE DEF c
  <2>3. /\ up'[c] = Append(up[c], Wire(id)) /\ \A k \in Conns \ {c} : up'[k] = up[k]
        /\ up[c] \in Seq(WireRequest)
    BY <1>1, <1>5, <2>1
  <2>4. \A k \in Conns : \A i \in DOMAIN up'[k] :
           \/ i \in DOMAIN up[k] /\ up'[k][i] = up[k][i]
           \/ k = c /\ i = Len(up[c]) + 1 /\ up'[k][i] = Wire(id)
    BY <2>1, <2>3
  <2>5. Wire(id).id = id /\ Wire(id).re_sent = asked[id].re_sent
    BY DEF Wire
  <2>6. UnmarkedUnwritten'
    <3> SUFFICES ASSUME NEW x \in ToWrite' \cap Requested, ~asked[x].re_sent
                 PROVE  /\ x \notin ArchivedIds
                        /\ \A k \in Conns : \A i \in DOMAIN up'[k] : up'[k][i].id # x
      BY <1>1, <1>2 DEF UnmarkedUnwritten
    <3>1. /\ x \notin ArchivedIds /\ x # id
          /\ \A k \in Conns : \A i \in DOMAIN up[k] : up[k][i].id # x
      BY <1>3, <1>5 DEF ArchiveInv, UnmarkedUnwritten
    <3> QED
      BY <2>4, <2>5, <3>1
  <2>7. ASSUME id \in Requested, ~asked[id].re_sent
        PROVE  id \notin ArchivedIds /\ \A k \in Conns : \A i \in DOMAIN up[k] : up[k][i].id # id
    BY <1>3, <2>7 DEF ArchiveInv, UnmarkedUnwritten
  <2>8. ASSUME NEW k \in Conns, NEW i \in DOMAIN up[k],
               up[k][i].id \in Requested, ~up[k][i].re_sent
        PROVE  up[k][i].id # id
    <3>1. CASE k = c
      BY <1>3, <2>8, <3>1 DEF ArchiveInv, UnmarkedOnce, c
    <3>2. CASE k # c
      <4>1. attached = k
        BY <2>8 DEF ConnInv, RequestsOfAttached
      <4> QED
        BY <2>2, <2>8, <3>2, <4>1
    <3> QED
      BY <3>1, <3>2
  <2>9. UnmarkedOnce'
    <3> SUFFICES ASSUME NEW k \in Conns, NEW i \in DOMAIN up'[k],
                        up'[k][i].id \in Requested, ~up'[k][i].re_sent
                 PROVE  /\ up'[k][i].id \notin ArchivedIds
                        /\ \A l \in Conns : \A j \in DOMAIN up'[l] :
                              up'[l][j].id = up'[k][i].id => l = k /\ j = i
                        /\ k = c => up'[k][i].id \notin ToWrite'
      BY <1>1, <1>2 DEF UnmarkedOnce, c
    <3>1. CASE i \in DOMAIN up[k] /\ up'[k][i] = up[k][i]
      <4>1. /\ up[k][i].id \notin ArchivedIds
            /\ \A l \in Conns : \A j \in DOMAIN up[l] :
                  up[l][j].id = up[k][i].id => l = k /\ j = i
            /\ k = c => up[k][i].id \notin ToWrite
        BY <3>1 DEF ArchiveInv, UnmarkedOnce, c
      <4>2. up[k][i].id # id
        BY <2>8, <3>1
      <4> QED
        BY <1>3, <2>4, <2>5, <3>1, <4>1, <4>2
    <3>2. CASE k = c /\ i = Len(up[c]) + 1 /\ up'[k][i] = Wire(id)
      <4>1. id \notin ArchivedIds /\ \A l \in Conns : \A j \in DOMAIN up[l] : up[l][j].id # id
        BY <2>5, <2>7, <3>2
      <4> QED
        BY <1>3, <1>5, <2>4, <2>5, <3>2, <4>1
    <3> QED
      BY <2>4, <3>1, <3>2
  <2> QED
    BY <1>2, <2>6, <2>9 DEF ArchiveInv
<1> QED
  BY <1>4, <1>5

\* The client stops to read, or tries no more.
LEMMA DisconnectedArchive ==
    ASSUME TypeInv, TypeInv', ArchiveInv, Disconnected \/ GiveUp
    PROVE  ArchiveInv'
<1>1. UNCHANGED <<asked, server, up>>
  BY DEF Disconnected, GiveUp, net
<1>2. client'.conn = client.conn /\ ToWrite' = ToWrite
  BY DEF Disconnected, GiveUp, TypeInv, StateOK, Client, ToWrite
<1>3. UpKept
  BY <1>1, UpSame DEF TypeInv
<1> QED
  BY <1>1, <1>2, <1>3, ArchivesSame, UnmarkedKept DEF ArchiveInv

\* The client connects again: it marks what was written.
LEMMA ConnectArchive ==
    ASSUME TypeInv, ConnInv, ArchiveInv, Connect
    PROVE  ArchiveInv'
<1> DEFINE k == client.conn + 1
<1>1. /\ k \in Conns
      /\ UNCHANGED <<server, up>>
      /\ client'.conn = k /\ client'.held = client.held /\ client'.woken = {Sync(k)}
      /\ client'.toSend = (client.toSend \cup client.waiting) \cap Requested
      /\ DOMAIN asked' = DOMAIN asked \cup {Sync(k)}
      /\ \A id \in DOMAIN asked \ {Sync(k)} :
            asked'[id] = IF id \in client.waiting
                         THEN [asked[id] EXCEPT !.re_sent = TRUE] ELSE asked[id]
  BY ConnectEffect DEF net
<1>2. k > client.conn /\ Sync(k) \notin Requested
  <2>1. client.conn \in Nat
    BY ClientParts, Numbers DEF TypeInv
  <2> QED
    BY <1>1, <2>1, Numbers
<1> HIDE DEF k
<1>3. /\ \A id \in DOMAIN asked : id \in Requested => asked[id] \in GameRequest
      /\ ToWrite \cup client.waiting \subseteq DOMAIN asked
  BY DEF TypeInv, AskedOK, Outstanding, ToWrite
<1>4. ASSUME NEW id \in DOMAIN asked, id \in Requested
      PROVE  /\ asked'[id].phase = asked[id].phase
             /\ asked'[id].re_sent = (id \in client.waiting \/ asked[id].re_sent)
  <2>1. asked[id] \in GameRequest /\ id # Sync(k)
    BY <1>2, <1>3, <1>4
  <2>2. CASE id \in client.waiting
    <3>1. asked'[id] = [asked[id] EXCEPT !.re_sent = TRUE]
      BY <1>1, <2>1, <2>2
    <3> QED
      BY <2>1, <2>2, <3>1 DEF GameRequest
  <2>3. CASE id \notin client.waiting
    <3>1. asked'[id] = asked[id]
      BY <1>1, <2>1, <2>3
    <3>2. asked[id].re_sent \in BOOLEAN
      BY <2>1 DEF GameRequest
    <3> QED
      BY <2>3, <3>1, <3>2
  <2> QED
    BY <2>2, <2>3
<1>5. ArchivedIds' = ArchivedIds /\ MessagesApart'
  BY <1>1, ArchivesSame DEF ArchiveInv
<1>6. UnmarkedUnwritten'
  <2> SUFFICES ASSUME NEW id \in ToWrite' \cap Requested, ~asked'[id].re_sent
               PROVE  /\ id \notin ArchivedIds
                      /\ \A l \in Conns : \A i \in DOMAIN up[l] : up[l][i].id # id
    BY <1>1, <1>5 DEF UnmarkedUnwritten
  <2>1. id \in ToWrite \cup client.waiting
    BY <1>1, <1>2 DEF ToWrite
  <2>2. id \notin client.waiting /\ ~asked[id].re_sent
    BY <1>3, <1>4, <2>1
  <2> QED
    BY <2>1, <2>2 DEF ArchiveInv, UnmarkedUnwritten
<1>7. UnmarkedOnce'
  <2>1. up[k] = <<>> /\ DOMAIN <<>> = {}
    BY <1>1, <1>2 DEF ConnInv, NothingAhead
  <2> QED
    BY <1>1, <1>5, <2>1 DEF ArchiveInv, UnmarkedOnce
<1>8. PhaseOfMessage'
  BY <1>1, <1>4 DEF ArchiveInv, PhaseOfMessage
<1> QED
  BY <1>5, <1>6, <1>7, <1>8 DEF ArchiveInv

\* The client reads a message.
LEMMA SocketArchive ==
    ASSUME TypeInv, TypeInv', ArchiveInv, OnSocketMessage
    PROVE  ArchiveInv'
<1>1. UNCHANGED <<asked, server, up>> /\ client'.conn = client.conn /\ ToWrite' \subseteq ToWrite
  BY SocketEffect DEF ToWrite
<1>2. UpKept
  BY <1>1, UpSame DEF TypeInv
<1> QED
  BY <1>1, <1>2, ArchivesSame, UnmarkedKept DEF ArchiveInv

\* A message whose number is new enters the current archive.
LEMMA FreshMessage ==
    ASSUME NEW m, m.id \notin ArchivedIds, MessagesApart,
           server'.messages = server.messages \cup {m}, server'.history = server.history
    PROVE  MessagesApart' /\ ArchivedIds' = ArchivedIds \cup {m.id}
<1>1. \A n \in server.messages : n.id # m.id
  BY ArchivedMeans
<1>2. \A h \in server.history : \A n \in h.messages : n.id # m.id
  BY ArchivedMeans
<1>3. MessagesApart'
  BY <1>1, <1>2 DEF MessagesApart
<1>4. UNION Archives' = (UNION Archives) \cup {m}
  BY DEF Archives
<1>5. ArchivedIds' = {n.id : n \in (UNION Archives) \cup {m}}
  BY <1>4 DEF ArchivedIds
<1> QED
  BY <1>3, <1>5 DEF ArchivedIds

\* The server reads a request: a message is archived when no copy of it was.
LEMMA MessageArchive ==
    ASSUME TypeInv, TypeInv', ConnInv, ArchiveInv, NEW k \in Conns, OnMessage(k)
    PROVE  ArchiveInv'
<1> DEFINE r == up[k][1]
<1>1. /\ 1 \in DOMAIN up[k] /\ r.id \in DOMAIN asked /\ r \in WireRequest
      /\ UNCHANGED <<client, asked>> /\ UpKept
      /\ \A l \in Conns \ {k} : up'[l] = up[l]
      /\ \A i \in DOMAIN up'[k] : i + 1 \in DOMAIN up[k] /\ up'[k][i] = up[k][i + 1]
      /\ \/ UNCHANGED server
         \/ HandleRequest(k, r)
  BY MessageEffect
<1>2. client'.conn = client.conn /\ ToWrite' = ToWrite
  BY <1>1 DEF ToWrite
<1>3. CASE /\ server'.messages = server.messages /\ server'.history = server.history
           /\ server'.phase = server.phase
  BY <1>1, <1>2, <1>3, ArchivesSame, UnmarkedKept DEF ArchiveInv
<1>4. CASE ArchivesMessage(r)
  <2> DEFINE m == [id |-> r.id, at |-> server.now + 1]
  <2>1. /\ r.id \in Requested /\ asked[r.id].phase = server.phase /\ Repeated(r) = {}
        /\ server'.phase = server.phase /\ server'.history = server.history
        /\ server'.messages = server.messages \cup {m}
    BY <1>4 DEF ArchivesMessage
  <2>2. m.id = r.id
    OBVIOUS
  <2>3. server.phase \in Nat /\ \A h \in server.history : h.phase \in Nat
    <3>1. server.phase \in 1..MaxPhase /\ server.history \subseteq Archive
      BY DEF TypeInv, StateOK, Server
    <3> QED
      BY <3>1 DEF Archive
  <2> HIDE DEF m, r
  <2>4. r.id \notin ArchivedIds
    <3>1. CASE r.re_sent
      <4>1. \A n \in server.messages : n.id # r.id
        BY <2>1, <3>1 DEF Repeated
      <4>2. ASSUME NEW h \in server.history, NEW n \in h.messages, n.id = r.id
            PROVE  FALSE
        <5>1. asked[r.id].phase = h.phase /\ h.phase < server.phase
          BY <2>1, <4>2 DEF ArchiveInv, PhaseOfMessage
        <5> QED
          BY <2>1, <2>3, <5>1
      <4> QED
        BY <4>1, <4>2, ArchivedMeans
    <3>2. CASE ~r.re_sent
      BY <1>1, <2>1, <3>2 DEF ArchiveInv, UnmarkedOnce, r
    <3> QED
      BY <3>1, <3>2
  <2>5. MessagesApart' /\ ArchivedIds' = ArchivedIds \cup {r.id}
    BY <2>1, <2>2, <2>4, FreshMessage DEF ArchiveInv
  <2>6. PhaseOfMessage'
    BY <1>1, <2>1, <2>2 DEF ArchiveInv, PhaseOfMessage
  <2>7. UnmarkedUnwritten'
    <3> SUFFICES ASSUME NEW id \in ToWrite \cap Requested, ~asked[id].re_sent
                 PROVE  /\ id \notin ArchivedIds'
                        /\ \A l \in Conns : \A i \in DOMAIN up'[l] : up'[l][i].id # id
      BY <1>1, <1>2 DEF UnmarkedUnwritten
    <3>1. /\ id \notin ArchivedIds
          /\ \A l \in Conns : \A i \in DOMAIN up[l] : up[l][i].id # id
      BY DEF ArchiveInv, UnmarkedUnwritten
    <3>2. id # r.id
      BY <1>1, <3>1 DEF r
    <3>3. \A l \in Conns : \A i \in DOMAIN up'[l] : up'[l][i].id # id
      BY <1>1, <3>1 DEF r
    <3> QED
      BY <2>5, <3>1, <3>2, <3>3
  <2>8. UnmarkedOnce'
    <3> SUFFICES ASSUME NEW l \in Conns, NEW i \in DOMAIN up'[l],
                        up'[l][i].id \in Requested, ~up'[l][i].re_sent
                 PROVE  /\ up'[l][i].id \notin ArchivedIds'
                        /\ \A x \in Conns : \A j \in DOMAIN up'[x] :
                              up'[x][j].id = up'[l][i].id => x = l /\ j = i
                        /\ l = client.conn => up'[l][i].id \notin ToWrite
      BY <1>2 DEF UnmarkedOnce
    <3>1. \A x \in Conns : \A j \in DOMAIN up'[x] : j \in Nat \ {0}
      <4>1. \A x \in Conns : up'[x] \in Seq(WireRequest)
        BY DEF TypeInv, StateOK
      <4>2. \A x \in Conns : DOMAIN up'[x] = 1..Len(up'[x]) /\ Len(up'[x]) \in Nat
        BY <4>1
      <4> QED
        BY <4>2
    <3>2. PICK e \in DOMAIN up[l] : up'[l][i] = up[l][e] /\ (l = k => e = i + 1) /\ (l # k => e = i)
      <4>1. CASE l = k
        BY <1>1, <4>1
      <4>2. CASE l # k
        BY <1>1, <4>2
      <4> QED
        BY <4>1, <4>2
    <3>3. /\ up[l][e].id \notin ArchivedIds
          /\ \A x \in Conns : \A j \in DOMAIN up[x] : up[x][j].id = up[l][e].id => x = l /\ j = e
          /\ l = client.conn => up[l][e].id \notin ToWrite
      BY <3>2 DEF ArchiveInv, UnmarkedOnce
    <3>4. up[l][e].id # r.id
      <4>1. ~(k = l /\ 1 = e)
        BY <3>1, <3>2
      <4> QED
        BY <1>1, <3>3, <4>1 DEF r
    <3>5. ASSUME NEW x \in Conns, NEW j \in DOMAIN up'[x], up'[x][j].id = up'[l][i].id
          PROVE  x = l /\ j = i
      <4>1. CASE x = k
        <5>1. j + 1 \in DOMAIN up[x] /\ up'[x][j] = up[x][j + 1]
          BY <1>1, <4>1
        <5>2. x = l /\ j + 1 = e
          BY <3>2, <3>3, <3>5, <5>1
        <5> QED
          BY <3>1, <3>2, <4>1, <5>2
      <4>2. CASE x # k
        BY <1>1, <3>2, <3>3, <3>5, <4>2
      <4> QED
        BY <4>1, <4>2
    <3> QED
      BY <2>5, <3>2, <3>3, <3>4, <3>5
  <2> QED
    BY <2>5, <2>6, <2>7, <2>8 DEF ArchiveInv
<1>5. ASSUME HandleRequest(k, r), ~ArchivesMessage(r)
      PROVE  /\ server'.messages = server.messages /\ server'.history = server.history
             /\ server'.phase = server.phase
  <2>1. KeepsArchives \/ NotifiesSince(r)
    BY <1>1, <1>5, HandleEffect
  <2> QED
    BY <2>1 DEF KeepsArchives, NotifiesSince
<1> QED
  BY <1>1, <1>3, <1>4, <1>5

\* What the network does, and what the server does without archiving.
LEMMA NetArchive ==
    ASSUME TypeInv, TypeInv', ArchiveInv, UNCHANGED <<client, asked>>, UpKept,
           server'.messages = server.messages, server'.history = server.history,
           server'.phase = server.phase
    PROVE  ArchiveInv'
<1>1. client'.conn = client.conn /\ ToWrite' = ToWrite
  BY DEF ToWrite
<1> QED
  BY <1>1, ArchivesSame, UnmarkedKept DEF ArchiveInv

\* Another player writes.
LEMMA ForeignArchive ==
    ASSUME TypeInv, ArchiveInv, ForeignMessage
    PROVE  ArchiveInv'
<1>1. PICK m : /\ m.id \in Foreign /\ m.id \notin ArchivedIds
               /\ server'.phase = server.phase /\ server'.history = server.history
               /\ server'.messages = server.messages \cup {m}
               /\ UNCHANGED <<client, asked, up>>
  BY ForeignEffect DEF net
<1>2. m.id \notin Requested /\ ToWrite' = ToWrite
  BY <1>1, Numbers DEF ToWrite
<1>3. MessagesApart' /\ ArchivedIds' = ArchivedIds \cup {m.id}
  BY <1>1, FreshMessage DEF ArchiveInv
<1>4. UnmarkedUnwritten'
  BY <1>1, <1>2, <1>3 DEF ArchiveInv, UnmarkedUnwritten
<1>5. UnmarkedOnce'
  BY <1>1, <1>2, <1>3 DEF ArchiveInv, UnmarkedOnce
<1>6. PhaseOfMessage'
  BY <1>1, <1>2 DEF ArchiveInv, PhaseOfMessage
<1> QED
  BY <1>3, <1>4, <1>5, <1>6 DEF ArchiveInv

\* The phase is processed: its messages enter the history with it.
LEMMA ProcessArchive ==
    ASSUME TypeInv, ArchiveInv, Process
    PROVE  ArchiveInv'
<1> DEFINE h == [phase |-> server.phase, at |-> server.now + 1, messages |-> server.messages]
<1>1. /\ server'.phase = server.phase + 1 /\ server'.history = server.history \cup {h}
      /\ server'.messages = {} /\ UNCHANGED <<client, asked, up>>
  BY ProcessEffect DEF net
<1>2. h.phase = server.phase /\ h.messages = server.messages
  OBVIOUS
<1> HIDE DEF h
<1>3. server.phase \in Nat /\ \A g \in server.history : g.phase \in Nat
  <2>1. server.phase \in 1..MaxPhase /\ server.history \subseteq Archive
    BY DEF TypeInv, StateOK, Server
  <2> QED
    BY <2>1 DEF Archive
<1>4. ToWrite' = ToWrite
  BY <1>1 DEF ToWrite
<1>5. ArchivedIds' = ArchivedIds
  <2>1. UNION Archives' = UNION Archives
    BY <1>1, <1>2 DEF Archives
  <2> QED
    BY <2>1 DEF ArchivedIds
<1>6. \A g \in server.history : g.phase < server.phase
  BY DEF ArchiveInv, PhaseOfMessage
<1>7. \A g \in server.history : g.phase # server.phase
  BY <1>3, <1>6
<1>8. PhaseOfMessage'
  <2>1. \A m \in h.messages : m.id \in Requested => m.id \in DOMAIN asked /\ asked[m.id].phase = h.phase
    BY <1>2 DEF ArchiveInv, PhaseOfMessage
  <2>2. \A g \in server'.history : g.phase < server.phase + 1
    BY <1>1, <1>2, <1>3, <1>6
  <2>3. \A f, g \in server'.history : f.phase = g.phase => f = g
    BY <1>1, <1>2, <1>7 DEF ArchiveInv, PhaseOfMessage
  <2>4. \A g \in server.history : \A m \in g.messages :
           m.id \in Requested => m.id \in DOMAIN asked /\ asked[m.id].phase = g.phase
    BY DEF ArchiveInv, PhaseOfMessage
  <2> QED
    BY <1>1, <2>1, <2>2, <2>3, <2>4 DEF PhaseOfMessage
<1>9. MessagesApart'
  BY <1>1, <1>2 DEF ArchiveInv, MessagesApart
<1>10. UnmarkedUnwritten'
  BY <1>1, <1>4, <1>5 DEF ArchiveInv, UnmarkedUnwritten
<1>11. UnmarkedOnce'
  BY <1>1, <1>4, <1>5 DEF ArchiveInv, UnmarkedOnce
<1> QED
  BY <1>8, <1>9, <1>10, <1>11 DEF ArchiveInv

----------------------------------------------------------------------------
(* Every step keeps the phases on their way to the client apart.            *)

\* Nothing new is under way, and the client learns of no phase.
LEMMA PhasesKept ==
    ASSUME TypeInv', PhasesOnce, NEW d \in Nat, NEW e \in Nat,
           Alive' =>
              /\ Alive /\ Past(client'.game) \subseteq Past(client.game)
              /\ \A i \in Underway' :
                    /\ i + d \in Underway
                    /\ down'[client'.conn][i].data.phase = PhaseUnderway(i + d)
              /\ \A i \in Queued' :
                    /\ i + e \in Queued
                    /\ queue'[i].notification.data.phase = PhaseQueued(i + e)
    PROVE  PhasesOnce'
<1> SUFFICES ASSUME Alive'
             PROVE  /\ \A i \in Underway' : PhaseUnderway(i)' \notin Past(client'.game)
                    /\ \A i \in Queued' : PhaseQueued(i)' \notin Past(client'.game)
                    /\ \A i, j \in Underway' : i # j => PhaseUnderway(i)' # PhaseUnderway(j)'
                    /\ \A i, j \in Queued' : i # j => PhaseQueued(i)' # PhaseQueued(j)'
                    /\ \A i \in Underway', j \in Queued' : PhaseUnderway(i)' # PhaseQueued(j)'
  BY DEF PhasesOnce, Past
<1>1. /\ \A i \in Underway' : i \in Nat
      /\ \A i \in Queued' : i \in Nat
  <2>1. client'.conn \in Conns /\ down'[client'.conn] \in Seq(Reply' \cup Notification')
    BY DEF TypeInv, StateOK, Client
  <2>2. queue' \in Seq([to : Conns, notification : Notification'])
    BY DEF TypeInv, StateOK
  <2> QED
    BY <2>1, <2>2 DEF Underway, Queued
<1>2. /\ \A i \in Underway' : PhaseUnderway(i)' = PhaseUnderway(i + d) /\ i + d \in Underway
      /\ \A i \in Queued' : PhaseQueued(i)' = PhaseQueued(i + e) /\ i + e \in Queued
  BY DEF PhaseUnderway, PhaseQueued
<1>3. /\ \A i \in Underway : PhaseUnderway(i) \notin Past(client.game)
      /\ \A i \in Queued : PhaseQueued(i) \notin Past(client.game)
      /\ \A i, j \in Underway : i # j => PhaseUnderway(i) # PhaseUnderway(j)
      /\ \A i, j \in Queued : i # j => PhaseQueued(i) # PhaseQueued(j)
      /\ \A i \in Underway, j \in Queued : PhaseUnderway(i) # PhaseQueued(j)
  BY DEF PhasesOnce
<1>4. /\ \A i, j \in Underway' : i # j => i + d # j + d
      /\ \A i, j \in Queued' : i # j => i + e # j + e
  BY <1>1
<1>5. \A i, j \in Underway' : i # j => PhaseUnderway(i)' # PhaseUnderway(j)'
  BY <1>2, <1>3, <1>4
<1>6. \A i, j \in Queued' : i # j => PhaseQueued(i)' # PhaseQueued(j)'
  BY <1>2, <1>3, <1>4
<1> QED
  BY <1>2, <1>3, <1>5, <1>6

\* Nothing changes for the client.
LEMMA PhasesSame ==
    ASSUME TypeInv, TypeInv', PhasesOnce, UNCHANGED <<broken, queue, down>>,
           client'.conn = client.conn, client'.mode = client.mode, client'.game = client.game
    PROVE  PhasesOnce'
<1>1. Underway' = Underway /\ Queued' = Queued /\ Alive' = Alive
  BY DEF Underway, Queued, Alive
<1>2. /\ \A i \in Underway : i \in Nat
      /\ \A i \in Queued : i \in Nat
  <2>1. client.conn \in Conns /\ down[client.conn] \in Seq(Reply \cup Notification)
    BY DEF TypeInv, StateOK, Client
  <2>2. queue \in Seq([to : Conns, notification : Notification])
    BY DEF TypeInv, StateOK
  <2> QED
    BY <2>1, <2>2 DEF Underway, Queued
<1>3. /\ \A i \in Underway : i + 0 = i
      /\ \A i \in Queued : i + 0 = i
  BY <1>2
<1> QED
  BY <1>1, <1>3, PhasesKept DEF PhaseUnderway, PhaseQueued

\* What is under way.
LEMMA UnderwayTypes ==
    ASSUME TypeInv
    PROVE  /\ client.conn \in Conns /\ down[client.conn] \in Seq(Reply \cup Notification)
           /\ queue \in Seq([to : Conns, notification : Notification])
           /\ \A i \in Underway : down[client.conn][i].data \in server.history /\ i \in Nat
           /\ \A i \in Queued : queue[i].notification.data \in server.history /\ i \in Nat
           /\ client.game.history \subseteq server.history
<1>1. client.conn \in Conns /\ down[client.conn] \in Seq(Reply \cup Notification)
  BY DEF TypeInv, StateOK, Client
<1>2. queue \in Seq([to : Conns, notification : Notification])
  BY DEF TypeInv, StateOK
<1>3. \A m \in Reply \cup Notification : IsPast(m) => m.data \in server.history
  BY DEF IsPast, Reply, Notification
<1>4. \A i \in Underway : down[client.conn][i].data \in server.history /\ i \in Nat
  BY <1>1, <1>3 DEF Underway
<1>5. \A i \in Queued : queue[i].notification.data \in server.history /\ i \in Nat
  <2>1. \A i \in DOMAIN queue : queue[i].notification \in Notification /\ i \in Nat
    <3> DEFINE T == [to : Conns, notification : Notification]
    <3>1. \A q \in T : q.notification \in Notification
      OBVIOUS
    <3> HIDE DEF T
    <3>2. queue \in Seq(T)
      BY <1>2 DEF T
    <3>3. \A i \in DOMAIN queue : queue[i] \in T /\ i \in Nat
      BY <3>2
    <3> QED
      BY <3>1, <3>3
  <2> QED
    BY <1>3, <2>1 DEF Queued
<1>6. client.game.history \subseteq server.history
  BY ClientParts DEF TypeInv, Game
<1> QED
  BY <1>1, <1>2, <1>4, <1>5, <1>6

\* A reply brings no phase.
LEMMA ReplyNotPast == ASSUME NEW m \in Reply PROVE ~IsPast(m) /\ m.type # "phase"
  BY DEF Reply, IsPast

\* A message that brings no phase, or is for another connection, is sent.
LEMMA SentUnderway ==
    ASSUME TypeInv, NEW k \in Conns, NEW m, down' = Sent(k, m), UNCHANGED client,
           ~IsPast(m) \/ k # client.conn
    PROVE  \A i \in Underway' :
              /\ i \in Underway /\ i + 0 \in Underway
              /\ down'[client'.conn][i].data.phase = PhaseUnderway(i + 0)
<1> DEFINE c == client.conn
<1>1. c \in Conns /\ down[c] \in Seq(Reply \cup Notification) /\ down \in [Conns -> Seq(Reply \cup Notification)]
  BY UnderwayTypes DEF TypeInv, StateOK
<1>2. \/ down'[c] = down[c]
      \/ down'[c] = Append(down[c], m) /\ ~IsPast(m)
  BY <1>1 DEF Sent
<1> HIDE DEF c
<1>3. \A i \in DOMAIN down'[c] :
         \/ i \in DOMAIN down[c] /\ down'[c][i] = down[c][i]
         \/ down'[c][i] = m /\ ~IsPast(m)
  BY <1>1, <1>2
<1>4. \A i \in DOMAIN down[c] : i + 0 = i
  BY <1>1
<1>5. \A i \in Underway' : i \in DOMAIN down'[c] /\ IsPast(down'[c][i])
  BY DEF Underway, c
<1>6. \A i \in Underway' : i \in DOMAIN down[c] /\ IsPast(down[c][i]) /\ down'[c][i] = down[c][i]
  BY <1>3, <1>5
<1> QED
  BY <1>4, <1>6 DEF Underway, PhaseUnderway, c

\* The client connects again: nothing is under way to it.
LEMMA ConnectPhases == ASSUME TypeInv, ConnInv, Connect PROVE PhasesOnce'
<1> DEFINE k == client.conn + 1
<1>1. k \in Conns /\ client'.conn = k /\ UNCHANGED <<queue, down>>
  BY ConnectEffect DEF net
<1>2. k > client.conn
  <2>1. client.conn \in Nat
    BY ClientParts, Numbers DEF TypeInv
  <2> QED
    BY <2>1
<1> HIDE DEF k
<1>3. down[k] = <<>> /\ \A i \in DOMAIN queue : queue[i].to # k
  BY <1>1, <1>2 DEF ConnInv, NothingAhead
<1>4. Underway' = {} /\ Queued' = {}
  BY <1>1, <1>3 DEF Underway, Queued
<1> QED
  BY <1>4 DEF PhasesOnce

\* The client reads a message.
LEMMA SocketPhases == ASSUME TypeInv, TypeInv', PhasesOnce, OnSocketMessage PROVE PhasesOnce'
<1> DEFINE c == client.conn
           D == down[c]
<1>1. /\ client.mode = "reading" /\ D # <<>>
      /\ UNCHANGED <<queue, broken>>
      /\ down' = [down EXCEPT ![c] = Tail(@)]
      /\ client'.conn = c
      /\ client'.mode = "reading" =>
            client'.game.history =
               IF IsPast(Head(D)) THEN client.game.history \cup {Head(D).data}
               ELSE IF Head(D).type = "phase" THEN {} ELSE client.game.history
  BY SocketEffect
<1>2. c \in Conns /\ D \in Seq(Reply \cup Notification) /\ down \in [Conns -> Seq(Reply \cup Notification)]
  BY UnderwayTypes DEF TypeInv, StateOK
<1>3. down'[c] = Tail(D)
  BY <1>1, <1>2
<1> HIDE DEF c, D
<1>4. /\ 1 \in DOMAIN D /\ Head(D) = D[1]
      /\ \A i \in DOMAIN Tail(D) : i + 1 \in DOMAIN D /\ Tail(D)[i] = D[i + 1] /\ i + 1 # 1 /\ i \in Nat
  <2>1. /\ Tail(D) \in Seq(Reply \cup Notification) /\ Len(Tail(D)) = Len(D) - 1
        /\ \A i \in 1..Len(Tail(D)) : Tail(D)[i] = D[i + 1]
    BY <1>1, <1>2, HeadTailProperties
  <2>2. /\ Len(D) \in Nat /\ DOMAIN D = 1..Len(D)
        /\ DOMAIN Tail(D) = 1..Len(Tail(D))
    BY <1>2, <2>1, LenProperties
  <2>3. 1 \in DOMAIN D /\ Head(D) = D[1]
    BY <1>1, <1>2
  <2> QED
    BY <2>1, <2>2, <2>3
<1>5. \A i \in Underway' :
         /\ i + 1 \in Underway /\ i + 1 # 1 /\ i \in Nat
         /\ down'[client'.conn][i].data.phase = PhaseUnderway(i + 1)
  <2>1. \A i \in Underway' : i \in DOMAIN Tail(D) /\ IsPast(Tail(D)[i])
    BY <1>1, <1>3 DEF Underway
  <2> QED
    BY <1>1, <1>3, <1>4, <2>1 DEF Underway, PhaseUnderway, c, D
<1>6. \A i \in Queued' :
         /\ i \in Queued /\ i + 0 \in Queued /\ i + 0 = i
         /\ queue'[i].notification.data.phase = PhaseQueued(i)
  <2>1. Queued' = Queued
    BY <1>1 DEF Queued, c
  <2>2. \A i \in Queued : i + 0 = i
    BY UnderwayTypes
  <2> QED
    BY <1>1, <2>1, <2>2 DEF PhaseQueued
<1>7. Alive' => Alive /\ client'.mode = "reading"
  BY <1>1 DEF Alive, c
<1>8. CASE ~IsPast(D[1])
  <2>1. Alive' => Past(client'.game) \subseteq Past(client.game)
    BY <1>1, <1>4, <1>7, <1>8 DEF Past
  <2> QED
    BY <1>5, <1>6, <1>7, <2>1, PhasesKept
<1>9. CASE IsPast(D[1])
  <2> SUFFICES ASSUME Alive'
               PROVE  PhasesOnce'
    BY DEF PhasesOnce
  <2>1. 1 \in Underway
    BY <1>4, <1>9 DEF Underway, D, c
  <2>2. Past(client'.game) = Past(client.game) \cup {PhaseUnderway(1)}
    BY <1>1, <1>4, <1>7, <1>9 DEF Past, PhaseUnderway, D, c
  <2>3. /\ \A i \in Underway : PhaseUnderway(i) \notin Past(client.game)
        /\ \A i \in Queued : PhaseQueued(i) \notin Past(client.game)
        /\ \A i, j \in Underway : i # j => PhaseUnderway(i) # PhaseUnderway(j)
        /\ \A i, j \in Queued : i # j => PhaseQueued(i) # PhaseQueued(j)
        /\ \A i \in Underway, j \in Queued : PhaseUnderway(i) # PhaseQueued(j)
    BY <1>7 DEF PhasesOnce
  <2>4. /\ \A i \in Underway' : PhaseUnderway(i)' = PhaseUnderway(i + 1)
        /\ \A i \in Queued' : PhaseQueued(i)' = PhaseQueued(i)
    BY <1>5, <1>6 DEF PhaseUnderway, PhaseQueued
  <2>5. \A i, j \in Underway' : i # j => i + 1 # j + 1
    BY <1>5
  <2> QED
    BY <1>5, <1>6, <2>1, <2>2, <2>3, <2>4, <2>5 DEF PhasesOnce, Past
<1> QED
  BY <1>4, <1>8, <1>9

\* What stays in the queue.
LEMMA QueueSame ==
    ASSUME TypeInv, UNCHANGED <<queue, client>>
    PROVE  \A i \in Queued' :
              /\ i \in Queued /\ i + 0 \in Queued
              /\ queue'[i].notification.data.phase = PhaseQueued(i + 0)
<1>1. Queued' = Queued
  BY DEF Queued
<1>2. \A i \in Queued : i + 0 = i
  BY UnderwayTypes
<1> QED
  BY <1>1, <1>2 DEF PhaseQueued

\* Notifications are queued that bring no phase, or are for another connection.
LEMMA NotifiedQueued ==
    ASSUME TypeInv, UNCHANGED client, NEW N, queue \in Seq([to : Conns, notification : N]),
           NEW ns \in Seq(N), attached' \in Conns \cup {None}, queue' = Notified(ns),
           attached' # client.conn \/ \A i \in DOMAIN ns : ~IsPast(ns[i])
    PROVE  \A i \in Queued' :
              /\ i \in Queued /\ i + 0 \in Queued
              /\ queue'[i].notification.data.phase = PhaseQueued(i + 0)
<1> SUFFICES ASSUME NEW i \in Queued'
             PROVE  /\ i \in Queued /\ i + 0 \in Queued
                    /\ queue'[i].notification.data.phase = PhaseQueued(i + 0)
  OBVIOUS
<1>1. i \in DOMAIN queue' /\ queue'[i].to = client.conn /\ IsPast(queue'[i].notification)
  BY DEF Queued
<1>2. i \in DOMAIN queue
  <2> SUFFICES ASSUME i \notin DOMAIN queue
               PROVE  FALSE
    OBVIOUS
  <2>1. /\ i - Len(queue) \in DOMAIN ns
        /\ queue'[i] = [to |-> attached', notification |-> ns[i - Len(queue)]]
    BY <1>1, NotifiedEffect
  <2>2. queue'[i].to = attached' /\ queue'[i].notification = ns[i - Len(queue)]
    BY <2>1
  <2> QED
    BY <1>1, <2>1, <2>2
<1>3. queue'[i] = queue[i]
  BY <1>2, NotifiedEffect
<1>4. i \in Queued
  BY <1>1, <1>2, <1>3 DEF Queued
<1>5. i + 0 = i
  BY <1>4, UnderwayTypes
<1> QED
  BY <1>3, <1>4, <1>5 DEF PhaseQueued

\* The server reads a request: only the synchronization of the last connection brings
\* phases, when nothing else is under way on it.
LEMMA MessagePhases ==
    ASSUME TypeInv, TypeInv', ConnInv, PhaseOfMessage, PhasesOnce, NEW k \in Conns, OnMessage(k)
    PROVE  PhasesOnce'
<1> DEFINE c == client.conn
           r == up[k][1]
<1>1. /\ up[k] # <<>> /\ 1 \in DOMAIN up[k]
      /\ UNCHANGED <<client, asked, broken>>
      /\ \/ UNCHANGED <<attached, server, queue, down>>
         \/ /\ MayAttach(k) /\ attached' = k
            /\ HandleRequest(k, r)
  BY MessageEffect
<1>2. Alive' = Alive /\ Past(client'.game) = Past(client.game)
  BY <1>1 DEF Alive, Past
<1>3. CASE UNCHANGED <<attached, server, queue, down>>
  BY <1>1, <1>3, PhasesSame
<1>4. CASE MayAttach(k) /\ attached' = k /\ HandleRequest(k, r)
  <2>1. /\ \E m \in Reply' : down' = Sent(k, m)
        /\ KeepsArchives \/ ArchivesMessage(r) \/ NotifiesSince(r)
    BY <1>4, MessageEffect, HandleEffect
  <2>2. PICK m \in Reply' : down' = Sent(k, m)
    BY <2>1
  <2>3. ~IsPast(m)
    BY DEF Reply, IsPast
  <2>4. \A i \in Underway' :
           /\ i \in Underway /\ i + 0 \in Underway
           /\ down'[client'.conn][i].data.phase = PhaseUnderway(i + 0)
    BY <1>1, <2>2, <2>3, SentUnderway
  <2>5. CASE UNCHANGED queue
    <3>1. \A i \in Queued' :
             /\ i + 0 \in Queued
             /\ queue'[i].notification.data.phase = PhaseQueued(i + 0)
      BY <1>1, <2>5, QueueSame
    <3> QED
      BY <1>2, <2>4, <3>1, PhasesKept
  <2>6. CASE NotifiesSince(r)
    <3> DEFINE ts == asked[r.id].timestamp
    <3>1. PICK ns \in Synchronized(ts) : queue' = Notified(ns)
      BY <2>6 DEF NotifiesSince
    <3>2. r.id \notin Requested /\ server' = server
      BY <2>6 DEF NotifiesSince
    <3>3. StateOK /\ queue \in Seq([to : Conns, notification : Notification])
      BY DEF TypeInv, StateOK
    <3> HIDE DEF ts
    <3>4. /\ ns \in Seq(Notification)
          /\ \A i \in DOMAIN ns : IsPast(ns[i]) => ns[i].data \in server.history /\ ns[i].data.at > ts
          /\ \A i, j \in DOMAIN ns :
                i # j /\ IsPast(ns[i]) /\ IsPast(ns[j]) => ns[i].data # ns[j].data
      BY <3>3, SynchronizedEffect
    <3>5. attached' \in Conns \cup {None}
      BY <1>4
    <3>6. CASE k # c
      <4>1. \A i \in Queued' :
               /\ i + 0 \in Queued
               /\ queue'[i].notification.data.phase = PhaseQueued(i + 0)
        BY <1>1, <1>4, <3>1, <3>3, <3>4, <3>5, <3>6, NotifiedQueued
      <4> QED
        BY <1>2, <2>4, <4>1, PhasesKept
    <3>7. CASE k = c
      <4> SUFFICES ASSUME Alive
                   PROVE  PhasesOnce'
        BY <1>2 DEF PhasesOnce
      <4>1. attached # c /\ r.id = Sync(c) /\ \A h \in client.game.history : h.at <= ts
        <5>1. ~client.ready
          BY <1>1, <3>2, <3>7 DEF ConnInv, ReadyAttached
        <5>2. /\ attached # c /\ up[c] # <<>> /\ up[c][1].id = Sync(c)
              /\ \A h \in client.game.history : h.at <= asked[Sync(c)].timestamp
          BY <1>1, <3>7, <5>1 DEF ConnInv, SyncFirst
        <5> QED
          BY <3>7, <5>2 DEF ts
      <4>2. down[c] = <<>> /\ \A i \in DOMAIN queue : queue[i].to # c
        BY <4>1 DEF ConnInv, SentToAttached
      <4>3. Underway' = {}
        <5>1. Underway = {}
          BY <4>2 DEF Underway
        <5> QED
          BY <2>4, <5>1
      <4>4. ASSUME NEW i \in Queued'
            PROVE  /\ i - Len(queue) \in DOMAIN ns /\ IsPast(ns[i - Len(queue)])
                   /\ PhaseQueued(i)' = ns[i - Len(queue)].data.phase
                   /\ i \in Int
        <5>1. i \in DOMAIN queue' /\ queue'[i].to = c /\ IsPast(queue'[i].notification)
          BY <1>1 DEF Queued
        <5>2. i \notin DOMAIN queue
          BY <3>1, <3>3, <3>4, <3>5, <4>2, <5>1, NotifiedEffect
        <5>3. /\ i - Len(queue) \in DOMAIN ns
              /\ queue'[i] = [to |-> attached', notification |-> ns[i - Len(queue)]]
          BY <3>1, <3>3, <3>4, <3>5, <5>1, <5>2, NotifiedEffect
        <5>4. queue'[i].notification = ns[i - Len(queue)]
          BY <5>3
        <5>5. i \in Int
          BY <3>1, <3>3, <3>4, <3>5, <5>1, NotifiedEffect
        <5> QED
          BY <5>1, <5>3, <5>4, <5>5 DEF PhaseQueued
      <4>5. \A g, h \in server.history : g.phase = h.phase => g = h
        BY DEF PhaseOfMessage
      <4>6. /\ client.game.history \subseteq server.history
            /\ \A h \in server.history : h.at \in Int
        <5>1. server.history \subseteq Archive /\ server.now \in Nat
          BY DEF TypeInv, StateOK, Server
        <5> QED
          BY <5>1, UnderwayTypes DEF Archive, Times
      <4>7. ts \in Int
        <5>1. Sync(c) \in DOMAIN asked /\ Sync(c) \notin Requested /\ AskedOK
          BY <1>1, <3>7, <4>1, MessageEffect, Numbers, UnderwayTypes DEF TypeInv
        <5>2. asked[Sync(c)] \in SyncRequest
          BY <5>1, KindsApart
        <5> QED
          BY <4>1, <5>2 DEF ts, SyncRequest
      <4>8. ASSUME NEW i \in Queued'
            PROVE  PhaseQueued(i)' \notin Past(client'.game)
        <5> DEFINE g == ns[i - Len(queue)].data
        <5>1. g \in server.history /\ g.at > ts /\ PhaseQueued(i)' = g.phase
          BY <3>4, <4>4
        <5> HIDE DEF g
        <5>2. ASSUME NEW h \in client.game.history, h.phase = g.phase
              PROVE  FALSE
          <6>1. h = g
            BY <4>5, <4>6, <5>1, <5>2
          <6>2. h.at <= ts /\ h.at \in Int
            BY <4>1, <4>6
          <6> QED
            BY <4>7, <5>1, <6>1, <6>2
        <5> QED
          BY <1>2, <5>1, <5>2 DEF Past
      <4>9. ASSUME NEW i \in Queued', NEW j \in Queued', i # j
            PROVE  PhaseQueued(i)' # PhaseQueued(j)'
        <5> DEFINE x == i - Len(queue)
                   y == j - Len(queue)
        <5>1. Len(queue) \in Nat
          BY <3>3
        <5>2. x # y
          BY <4>4, <4>9, <5>1
        <5> HIDE DEF x, y
        <5>3. /\ x \in DOMAIN ns /\ IsPast(ns[x]) /\ PhaseQueued(i)' = ns[x].data.phase
              /\ y \in DOMAIN ns /\ IsPast(ns[y]) /\ PhaseQueued(j)' = ns[y].data.phase
          BY <4>4 DEF x, y
        <5>4. ns[x].data # ns[y].data /\ ns[x].data \in server.history /\ ns[y].data \in server.history
          BY <3>4, <5>2, <5>3
        <5> QED
          BY <4>5, <5>3, <5>4
      <4> QED
        BY <4>3, <4>8, <4>9 DEF PhasesOnce, Past
    <3> QED
      BY <3>6, <3>7
  <2> QED
    BY <2>1, <2>5, <2>6 DEF KeepsArchives, ArchivesMessage
<1> QED
  BY <1>1, <1>3, <1>4

\* A notification is written: a phase that was queued is under way.
LEMMA NotificationPhases == ASSUME TypeInv, TypeInv', PhasesOnce, SendNotification PROVE PhasesOnce'
<1> DEFINE c == client.conn
           k == queue[1].to
           m == queue[1].notification
<1>1. /\ 1 \in DOMAIN queue /\ k \in Conns /\ m \in Notification
      /\ UNCHANGED <<client, broken>>
      /\ down' = Sent(k, m)
      /\ \A i \in DOMAIN queue' : i + 1 \in DOMAIN queue /\ queue'[i] = queue[i + 1]
  BY NotificationSent
<1>2. Alive' = Alive /\ Past(client'.game) = Past(client.game) /\ client'.conn = c
  BY <1>1 DEF Alive, Past
<1>3. \A i \in Queued' :
         /\ i + 1 \in Queued /\ i \in Nat \ {0}
         /\ queue'[i].notification.data.phase = PhaseQueued(i + 1)
         /\ PhaseQueued(i)' = PhaseQueued(i + 1)
  <2>1. queue' \in Seq([to : Conns, notification : Notification'])
    BY DEF TypeInv, StateOK
  <2>2. \A i \in DOMAIN queue' : i \in Nat \ {0}
    <3>1. DOMAIN queue' = 1..Len(queue') /\ Len(queue') \in Nat
      BY <2>1, LenProperties
    <3> QED
      BY <3>1
  <2> QED
    BY <1>1, <2>2 DEF Queued, PhaseQueued
<1> HIDE DEF k, m
<1>4. CASE ~IsPast(m) \/ k # c
  <2>1. \A i \in Underway' :
           /\ i \in Underway /\ i + 0 \in Underway
           /\ down'[client'.conn][i].data.phase = PhaseUnderway(i + 0)
    BY <1>1, <1>4, SentUnderway
  <2> QED
    BY <1>2, <1>3, <2>1, PhasesKept
<1>5. CASE IsPast(m) /\ k = c
  <2> SUFFICES ASSUME Alive
               PROVE  PhasesOnce'
    BY <1>2 DEF PhasesOnce
  <2>1. 1 \in Queued /\ PhaseQueued(1) = m.data.phase
    BY <1>1, <1>5 DEF Queued, PhaseQueued, k, m
  <2>2. down[c] \in Seq(Reply \cup Notification)
    BY UnderwayTypes
  <2>3. down'[c] = Append(down[c], m)
    <3>1. c \in Conns /\ down \in [Conns -> Seq(Reply \cup Notification)] /\ Open(c)
      BY UnderwayTypes DEF TypeInv, StateOK, Alive, Open
    <3> QED
      BY <1>1, <1>5, <3>1 DEF Sent
  <2> HIDE DEF c
  <2>4. \A i \in DOMAIN down'[c] :
           \/ i \in DOMAIN down[c] /\ down'[c][i] = down[c][i]
           \/ i = Len(down[c]) + 1 /\ down'[c][i] = m
    BY <2>2, <2>3
  <2>5. \A i \in Underway' :
           \/ i \in Underway /\ PhaseUnderway(i)' = PhaseUnderway(i)
           \/ i = Len(down[c]) + 1 /\ PhaseUnderway(i)' = PhaseQueued(1)
    <3>1. \A i \in Underway' : i \in DOMAIN down'[c] /\ IsPast(down'[c][i])
                               /\ PhaseUnderway(i)' = down'[c][i].data.phase
      BY <1>2 DEF Underway, PhaseUnderway
    <3> QED
      BY <2>1, <2>4, <3>1 DEF Underway, PhaseUnderway, c
  <2>6. /\ \A i \in Underway : PhaseUnderway(i) \notin Past(client.game)
        /\ \A i \in Queued : PhaseQueued(i) \notin Past(client.game)
        /\ \A i, j \in Underway : i # j => PhaseUnderway(i) # PhaseUnderway(j)
        /\ \A i, j \in Queued : i # j => PhaseQueued(i) # PhaseQueued(j)
        /\ \A i \in Underway, j \in Queued : PhaseUnderway(i) # PhaseQueued(j)
    BY DEF PhasesOnce
  <2>7. \A i \in Queued' : i + 1 # 1
    BY <1>3
  <2>8. \A i, j \in Queued' : i # j => i + 1 # j + 1
    BY <1>3
  <2>9. /\ \A i \in Underway' : PhaseUnderway(i)' \notin Past(client'.game)
        /\ \A i, j \in Underway' : i # j => PhaseUnderway(i)' # PhaseUnderway(j)'
    BY <1>2, <2>1, <2>5, <2>6
  <2>10. /\ \A i \in Queued' : PhaseQueued(i)' \notin Past(client'.game)
         /\ \A i, j \in Queued' : i # j => PhaseQueued(i)' # PhaseQueued(j)'
    BY <1>2, <1>3, <2>6, <2>8
  <2>11. \A i \in Underway', j \in Queued' : PhaseUnderway(i)' # PhaseQueued(j)'
    BY <1>3, <2>1, <2>5, <2>6, <2>7
  <2> QED
    BY <2>9, <2>10, <2>11 DEF PhasesOnce, Past
<1> QED
  BY <1>4, <1>5

\* Another player writes.
LEMMA ForeignPhases == ASSUME TypeInv, TypeInv', PhasesOnce, ForeignMessage PROVE PhasesOnce'
<1>1. PICK m : /\ m \in Message'
               /\ server'.history = server.history /\ server'.now = server.now + 1
               /\ UNCHANGED <<client, attached, down, broken>>
               /\ queue' = Notified(<<[type |-> "message", data |-> m]>>)
  BY ForeignEffect DEF ends, net
<1> DEFINE n == [type |-> "message", data |-> m]
<1>2. n \in Notification' /\ ~IsPast(n)
  BY <1>1 DEF Notification, IsPast
<1> HIDE DEF n
<1>3. <<n>> \in Seq(Notification') /\ \A i \in DOMAIN <<n>> : ~IsPast(<<n>>[i])
  BY <1>2, Singleton
<1>4. queue \in Seq([to : Conns, notification : Notification']) /\ attached' \in Conns \cup {None}
  <2>1. server.now \in Nat
    BY DEF TypeInv, StateOK, Server
  <2>2. server'.now \in Nat /\ server.now <= server'.now
    BY <1>1, <2>1
  <2> QED
    BY <1>1, <2>2, GrowKeeps DEF TypeInv, StateOK
<1>5. queue' = Notified(<<n>>)
  BY <1>1 DEF n
<1>6. \A i \in Queued' :
         /\ i \in Queued /\ i + 0 \in Queued
         /\ queue'[i].notification.data.phase = PhaseQueued(i + 0)
  BY <1>1, <1>3, <1>4, <1>5, NotifiedQueued
<1>7. \A i \in Underway' :
         /\ i + 0 \in Underway
         /\ down'[client'.conn][i].data.phase = PhaseUnderway(i + 0)
  <2>1. Underway' = Underway
    BY <1>1 DEF Underway
  <2>2. \A i \in Underway : i + 0 = i
    BY UnderwayTypes
  <2> QED
    BY <1>1, <2>1, <2>2 DEF PhaseUnderway
<1>8. Alive' = Alive /\ Past(client'.game) = Past(client.game)
  BY <1>1 DEF Alive, Past
<1> QED
  BY <1>6, <1>7, <1>8, PhasesKept

\* The phase is processed: it is after all that is under way.
LEMMA ProcessPhases ==
    ASSUME TypeInv, TypeInv', PhaseOfMessage, PhasesOnce, Process
    PROVE  PhasesOnce'
<1> DEFINE h == [phase |-> server.phase, at |-> server.now + 1, messages |-> server.messages]
           n == [type |-> "processed", data |-> h]
<1>1. /\ h \in server'.history
      /\ server'.history = server.history \cup {h} /\ server'.now = server.now + 1
      /\ UNCHANGED <<client, attached, down, broken>>
      /\ queue' = Notified(<<n>>)
  BY ProcessEffect DEF ends, net
<1>2. h.phase = server.phase
  OBVIOUS
<1> HIDE DEF h
<1>3. n \in Notification' /\ n.data.phase = server.phase
  BY <1>1, <1>2 DEF Notification
<1> HIDE DEF n
<1>4. <<n>> \in Seq(Notification') /\ DOMAIN <<n>> = {1} /\ <<n>>[1] = n
  BY <1>3, Singleton
<1>5. queue \in Seq([to : Conns, notification : Notification']) /\ attached' \in Conns \cup {None}
  <2>1. server.now \in Nat
    BY DEF TypeInv, StateOK, Server
  <2>2. server'.now \in Nat /\ server.now <= server'.now /\ server.history \subseteq server'.history
    BY <1>1, <2>1
  <2> QED
    BY <1>1, <2>2, GrowKeeps DEF TypeInv, StateOK
<1>6. \A i \in Queued' :
         \/ i \in Queued /\ PhaseQueued(i)' = PhaseQueued(i)
         \/ i = Len(queue) + 1 /\ PhaseQueued(i)' = server.phase
  <2> SUFFICES ASSUME NEW i \in Queued'
               PROVE  \/ i \in Queued /\ PhaseQueued(i)' = PhaseQueued(i)
                      \/ i = Len(queue) + 1 /\ PhaseQueued(i)' = server.phase
    OBVIOUS
  <2>1. /\ i \in DOMAIN queue' /\ queue'[i].to = client.conn /\ IsPast(queue'[i].notification)
        /\ PhaseQueued(i)' = queue'[i].notification.data.phase
    BY <1>1 DEF Queued, PhaseQueued
  <2>2. CASE i \in DOMAIN queue
    <3>1. queue'[i] = queue[i]
      BY <1>1, <1>4, <1>5, <2>2, NotifiedEffect
    <3> QED
      BY <2>1, <2>2, <3>1 DEF Queued, PhaseQueued
  <2>3. CASE i \notin DOMAIN queue
    <3>1. /\ i - Len(queue) \in DOMAIN <<n>>
          /\ queue'[i] = [to |-> attached', notification |-> <<n>>[i - Len(queue)]]
      BY <1>1, <1>4, <1>5, <2>1, <2>3, NotifiedEffect, ZenonT(60)
    <3>2. i - Len(queue) = 1
      BY <1>4, <3>1
    <3>3. queue'[i].notification = n
      BY <1>4, <3>1, <3>2
    <3>4. i \in Int /\ Len(queue) \in Int
      <4>1. Notified(<<n>>) \in Seq([to : Conns, notification : Notification'])
        BY <1>4, <1>5, NotifiedEffect
      <4> QED
        BY <1>1, <1>5, <2>1, <4>1
    <3>5. i = Len(queue) + 1
      BY <3>2, <3>4
    <3> QED
      BY <1>3, <2>1, <3>3, <3>5
  <2> QED
    BY <2>2, <2>3
<1>7. Underway' = Underway /\ \A i \in Underway : PhaseUnderway(i)' = PhaseUnderway(i)
  BY <1>1 DEF Underway, PhaseUnderway
<1>8. Alive' = Alive /\ Past(client'.game) = Past(client.game)
  BY <1>1 DEF Alive, Past
<1>9. \A g \in server.history : g.phase # server.phase
  <2>1. server.phase \in Nat /\ \A g \in server.history : g.phase \in Nat
    <3>1. server.phase \in 1..MaxPhase /\ server.history \subseteq Archive
      BY DEF TypeInv, StateOK, Server
    <3> QED
      BY <3>1 DEF Archive
  <2> QED
    BY <2>1 DEF PhaseOfMessage
<1>10. /\ \A i \in Underway : PhaseUnderway(i) # server.phase
       /\ \A i \in Queued : PhaseQueued(i) # server.phase
       /\ server.phase \notin Past(client.game)
  BY <1>9, UnderwayTypes DEF PhaseUnderway, PhaseQueued, Past
<1> SUFFICES ASSUME Alive
             PROVE  PhasesOnce'
  BY <1>8 DEF PhasesOnce
<1>11. /\ \A i \in Underway : PhaseUnderway(i) \notin Past(client.game)
       /\ \A i \in Queued : PhaseQueued(i) \notin Past(client.game)
       /\ \A i, j \in Underway : i # j => PhaseUnderway(i) # PhaseUnderway(j)
       /\ \A i, j \in Queued : i # j => PhaseQueued(i) # PhaseQueued(j)
       /\ \A i \in Underway, j \in Queued : PhaseUnderway(i) # PhaseQueued(j)
  BY DEF PhasesOnce
<1>12. /\ \A i \in Underway' : PhaseUnderway(i)' \notin Past(client'.game)
       /\ \A i, j \in Underway' : i # j => PhaseUnderway(i)' # PhaseUnderway(j)'
  BY <1>7, <1>8, <1>11
<1>13. /\ \A i \in Queued' : PhaseQueued(i)' \notin Past(client'.game)
       /\ \A i, j \in Queued' : i # j => PhaseQueued(i)' # PhaseQueued(j)'
  BY <1>6, <1>8, <1>10, <1>11
<1>14. \A i \in Underway', j \in Queued' : PhaseUnderway(i)' # PhaseQueued(j)'
  BY <1>6, <1>7, <1>10, <1>11
<1> QED
  BY <1>12, <1>13, <1>14 DEF PhasesOnce, Past

----------------------------------------------------------------------------
(* The theorems.                                                            *)

\* What the server does by itself keeps what is known of the connections.
LEMMA OwnStepsConn ==
    ASSUME TypeInv, ConnInv, ForeignMessage \/ Process \/ Kick
    PROVE  ConnInv'
<1>1. server.now \in Nat
  BY DEF TypeInv, StateOK, Server
<1>2. CASE ForeignMessage
  <2>1. PICK m : /\ m \in Message'
                 /\ server'.history = server.history /\ server'.now = server.now + 1
                 /\ server' \in Server'
                 /\ UNCHANGED <<client, asked, ends, net>>
                 /\ queue' = Notified(<<[type |-> "message", data |-> m]>>)
    BY <1>2, ForeignEffect
  <2>2. [type |-> "message", data |-> m] \in Notification'
    BY <2>1 DEF Notification
  <2>3. <<[type |-> "message", data |-> m]>> \in Seq(Notification')
    BY <2>2, Singleton
  <2>4. server.now <= server'.now /\ server.history \subseteq server'.history
    BY <1>1, <2>1
  <2> QED
    BY <2>1, <2>3, <2>4, ServerConn
<1>3. CASE Process
  <2> DEFINE h == [phase |-> server.phase, at |-> server.now + 1, messages |-> server.messages]
             n == [type |-> "processed", data |-> h]
  <2>1. /\ server'.history = server.history \cup {h} /\ server'.now = server.now + 1
        /\ server' \in Server'
        /\ UNCHANGED <<client, asked, ends, net>>
        /\ queue' = Notified(<<n>>)
    BY <1>3, ProcessEffect
  <2> HIDE DEF h
  <2>2. n \in Notification'
    <3>1. h \in server'.history
      BY <2>1
    <3> QED
      BY <3>1 DEF Notification
  <2> HIDE DEF n
  <2>3. <<n>> \in Seq(Notification')
    BY <2>2, Singleton
  <2>4. server.now <= server'.now /\ server.history \subseteq server'.history
    BY <1>1, <2>1
  <2> QED
    BY <2>1, <2>3, <2>4, ServerConn
<1>4. CASE Kick
  <2>1. <<>> \in Seq(Notification')
    OBVIOUS
  <2>2. server.now <= server'.now /\ server.history \subseteq server'.history
    BY <1>1, <1>4, KickEffect
  <2> QED
    BY <1>4, <2>1, <2>2, KickEffect, ServerConn
<1> QED
  BY <1>2, <1>3, <1>4

\* The invariant holds when the client has connected for the first time.
LEMMA InvInit == Init => IInv
<1> SUFFICES ASSUME Init PROVE IInv
  OBVIOUS
<1>1. /\ client = [conn |-> 1, mode |-> "reading", ready |-> TRUE, timedOut |-> FALSE,
                   held |-> {}, woken |-> {}, toSend |-> {}, waiting |-> {}, game |-> Fresh]
      /\ asked = Empty
      /\ server = [phase |-> 1, history |-> {}, messages |-> {}, orders |-> None,
                   now |-> 0, waits |-> {}, controlled |-> TRUE]
      /\ attached = 1 /\ closed = {} /\ unread = {} /\ queue = <<>> /\ broken = {}
      /\ up = [k \in Conns |-> <<>>] /\ down = [k \in Conns |-> <<>>]
  BY DEF Init
<1>2. DOMAIN asked = {}
  BY <1>1 DEF Empty
<1>3. /\ \A k \in Conns : up[k] = <<>> /\ down[k] = <<>>
      /\ DOMAIN queue = {} /\ DOMAIN <<>> = {}
  BY <1>1
<1>4. 1 \in Conns /\ 1 \in 1..MaxPhase /\ None \in Orders /\ 0 \in Nat
  BY Numbers DEF Orders
<1>5. StateOK
  <2>1. Fresh \in Game
    BY <1>1, <1>4 DEF Fresh, Game
  <2>2. client \in Client
    BY <1>1, <1>4, <2>1 DEF Client
  <2>3. server \in Server
    BY <1>1, <1>4 DEF Server
  <2>4. IsFiniteSet(server.history) /\ IsFiniteSet(server.messages)
    BY <1>1, FS_EmptySet
  <2>5. /\ queue \in Seq([to : Conns, notification : Notification])
        /\ up \in [Conns -> Seq(WireRequest)]
        /\ down \in [Conns -> Seq(Reply \cup Notification)]
    BY <1>1
  <2> QED
    BY <1>1, <1>4, <2>2, <2>3, <2>4, <2>5 DEF StateOK
<1>6. AskedOK
  <2>1. 0 \in 0..MaxRequests /\ 1..0 = {}
    BY Numbers
  <2>2. \E n \in 0..MaxRequests : DOMAIN asked \cap Requested = 1..n
    BY <1>2, <2>1
  <2>3. Outstanding \subseteq DOMAIN asked
    BY <1>1 DEF Outstanding
  <2> QED
    BY <1>2, <1>3, <2>2, <2>3 DEF AskedOK
<1>7. PlacesApart
  <2>1. client.held = {} /\ client.woken = {} /\ client.toSend = {} /\ client.waiting = {}
    BY <1>1
  <2>2. Places = <<{}, {}, {}, {}>>
    BY <2>1 DEF Places
  <2> QED
    BY <2>1, <2>2 DEF PlacesApart
<1>8. ConnInv
  <2>1. /\ client.conn = 1 /\ client.mode = "reading" /\ client.ready
        /\ client.toSend = {} /\ client.woken = {}
    BY <1>1
  <2>2. \A k \in Conns : k > 1 => k # 1
    BY Numbers
  <2>3. NothingAhead /\ BrokeFirst /\ SentToAttached
    BY <1>1, <1>3, <1>4, <2>1, <2>2 DEF NothingAhead, BrokeFirst, SentToAttached
  <2>4. RequestsOfAttached /\ ReadyAttached /\ SyncFirst
    BY <1>1, <1>3, <1>4, <2>1 DEF RequestsOfAttached, ReadyAttached, SyncFirst
  <2> QED
    BY <2>3, <2>4 DEF ConnInv
<1>9. ArchiveInv
  <2>1. ToWrite = {} /\ server.history = {} /\ server.messages = {}
    BY <1>1 DEF ToWrite
  <2> QED
    BY <1>3, <2>1 DEF ArchiveInv, UnmarkedUnwritten, UnmarkedOnce, PhaseOfMessage, MessagesApart
<1>10. PhasesOnce
  <2>1. Underway = {} /\ Queued = {}
    <3>1. client.conn = 1
      BY <1>1
    <3> QED
      BY <1>3, <1>4, <3>1 DEF Underway, Queued
  <2> QED
    BY <2>1 DEF PhasesOnce
<1> QED
  BY <1>5, <1>6, <1>7, <1>8, <1>9, <1>10 DEF IInv, TypeInv

\* The Synchronize times out: only the client gets to know.
LEMMA TimeoutInv == ASSUME IInv, TypeInv', SyncTimeout PROVE IInv'
<1>1. TypeInv /\ ConnInv /\ ArchiveInv /\ PhasesOnce /\ client \in Client
  BY DEF IInv, TypeInv, StateOK
<1>2. UNCHANGED <<asked, server, attached, queue, up, down, broken>>
  BY DEF SyncTimeout, ends, net
<1>3. /\ client'.conn = client.conn /\ client'.mode = client.mode /\ client'.ready = client.ready
      /\ client'.game = client.game /\ client'.held = client.held /\ client'.woken = client.woken
      /\ client'.toSend = client.toSend
  BY <1>1 DEF SyncTimeout, Client
<1>4. ConnInv'
  BY <1>1, <1>2, <1>3 DEF ConnInv, NothingAhead, BrokeFirst, SentToAttached, RequestsOfAttached,
                          ReadyAttached, SyncFirst, Alive
<1>5. ArchiveInv'
  <2>1. ToWrite' = ToWrite
    BY <1>3 DEF ToWrite
  <2>2. UpKept
    BY <1>1, <1>2, UpSame DEF TypeInv
  <2> QED
    BY <1>1, <1>2, <1>3, <2>1, <2>2, ArchivesSame, UnmarkedKept DEF ArchiveInv
<1>6. PhasesOnce'
  BY <1>1, <1>2, <1>3, PhasesSame
<1> QED
  BY <1>1, <1>4, <1>5, <1>6 DEF IInv

\* Every step keeps it.
LEMMA InvNext == IInv /\ [Next]_vars => IInv'
<1> SUFFICES ASSUME TypeInv, ConnInv, ArchiveInv, PhasesOnce, [Next]_vars
             PROVE  IInv'
  BY DEF IInv
<1>1. TypeInv'
  BY TypesNext
<1>2. PhaseOfMessage
  BY DEF ArchiveInv
<1>3. CASE UNCHANGED vars
  <2>1. /\ UNCHANGED <<client, asked, attached, queue, up, down, broken>>
        /\ UNCHANGED server
    BY <1>3 DEF vars, ends, net
  <2>2. ConnInv'
    BY <2>1 DEF ConnInv, NothingAhead, BrokeFirst, SentToAttached, RequestsOfAttached,
                ReadyAttached, SyncFirst, Alive
  <2>3. UpKept
    BY <2>1, UpSame DEF TypeInv
  <2>4. ArchiveInv'
    BY <1>1, <2>1, <2>3, NetArchive
  <2>5. PhasesOnce'
    BY <1>1, <2>1, PhasesSame
  <2> QED
    BY <1>1, <2>2, <2>4, <2>5 DEF IInv
<1>4. ASSUME NEW kind \in Kinds, Send(kind) PROVE IInv'
  <2>1. /\ UNCHANGED <<broken, queue, down>> /\ client'.conn = client.conn
        /\ client'.mode = client.mode /\ client'.game = client.game
    BY <1>4, SendEffect DEF net
  <2>2. PhasesOnce'
    BY <1>1, <2>1, PhasesSame
  <2> QED
    BY <1>1, <1>4, <2>2, SendConn, SendArchive DEF IInv
<1>5. ASSUME NEW id \in Ids, Write(id) PROVE IInv'
  <2>1. /\ UNCHANGED <<broken, queue, down>> /\ client'.conn = client.conn
        /\ client'.mode = client.mode /\ client'.game = client.game
    BY <1>5, WriteEffect DEF TypeInv
  <2>2. PhasesOnce'
    BY <1>1, <2>1, PhasesSame
  <2> QED
    BY <1>1, <1>5, <2>2, WriteConn, WriteArchive DEF IInv
<1>6. CASE Disconnected \/ GiveUp
  <2>1. client'.mode \in {"connecting", "dead"}
    BY <1>6 DEF Disconnected, GiveUp, TypeInv, StateOK, Client
  <2>2. PhasesOnce'
    BY <2>1 DEF PhasesOnce, Alive
  <2> QED
    BY <1>1, <1>6, <2>2, DisconnectedConn, DisconnectedArchive DEF IInv
<1>7. CASE Connect
  BY <1>1, <1>7, ConnectConn, ConnectArchive, ConnectPhases DEF IInv
<1>8. CASE OnSocketMessage
  BY <1>1, <1>8, SocketConn, SocketArchive, SocketPhases DEF IInv
<1>9. ASSUME NEW k \in Conns, OnMessage(k) PROVE IInv'
  BY <1>1, <1>2, <1>9, MessageConn, MessageArchive, MessagePhases DEF IInv
<1>10. ASSUME NEW k \in Conns, OnClose(k) PROVE IInv'
  <2>1. UNCHANGED <<client, asked, server, queue, down, broken>> /\ UpKept
    BY <1>10, CloseTypes DEF OnClose
  <2>2. ArchiveInv'
    BY <1>1, <2>1, NetArchive
  <2>3. PhasesOnce'
    BY <1>1, <2>1, PhasesSame
  <2> QED
    BY <1>1, <1>10, <2>2, <2>3, CloseConn DEF IInv
<1>11. CASE SendNotification
  <2>1. UNCHANGED <<client, asked, server>> /\ UpKept
    BY <1>11, NotificationSent, UpSame DEF TypeInv
  <2>2. ArchiveInv'
    BY <1>1, <2>1, NetArchive
  <2> QED
    BY <1>1, <1>11, <2>2, NotificationConn, NotificationPhases DEF IInv
<1>12. CASE ForeignMessage
  BY <1>1, <1>12, OwnStepsConn, ForeignArchive, ForeignPhases DEF IInv
<1>13. CASE Process
  BY <1>1, <1>2, <1>13, OwnStepsConn, ProcessArchive, ProcessPhases DEF IInv
<1>14. CASE Kick
  <2>1. /\ UNCHANGED <<client, asked, queue, up, down, broken>>
        /\ server'.messages = server.messages /\ server'.history = server.history
        /\ server'.phase = server.phase
    BY <1>14, KickEffect DEF net
  <2>2. UpKept
    BY <2>1, UpSame DEF TypeInv
  <2>3. ArchiveInv'
    BY <1>1, <2>1, <2>2, NetArchive
  <2>4. PhasesOnce'
    BY <1>1, <2>1, PhasesSame
  <2> QED
    BY <1>1, <1>14, <2>3, <2>4, OwnStepsConn DEF IInv
<1>15. CASE Break
  <2>1. /\ UNCHANGED <<client, asked, server>> /\ UpKept /\ broken' = broken \cup {client.conn}
    BY <1>15, BreakEffect
  <2>2. ArchiveInv'
    BY <1>1, <2>1, NetArchive
  <2>3. PhasesOnce'
    BY <2>1 DEF PhasesOnce, Alive
  <2> QED
    BY <1>1, <1>15, <2>2, <2>3, BreakConn DEF IInv
<1>16. CASE SyncTimeout
  BY <1>1, <1>16, TimeoutInv DEF IInv
<1> QED
  BY <1>3, <1>4, <1>5, <1>6, <1>7, <1>8, <1>9, <1>10, <1>11, <1>12, <1>13, <1>14, <1>15, <1>16
     DEF Next, Ours, Theirs

\* Channel: the invariant of a client and the server over connections that break.
THEOREM Invariant == Spec => []IInv
<1>1. IInv /\ [Next]_vars => IInv'
  BY InvNext
<1> QED
  BY <1>1, InvInit, PTL DEF Spec

\* Channel.TypeOK: the state has its type, for any number of requests, phases, messages
\* and breaks; an outstanding request waits in one place.
THEOREM TypeCorrect == Spec => []TypeOK
<1>1. IInv => TypeOK
  <2> SUFFICES ASSUME IInv PROVE TypeOK
    OBVIOUS
  <2>1. StateOK /\ AskedOK /\ PlacesApart
    BY DEF IInv, TypeInv
  <2>2. client.game.phase \in 1..MaxPhase /\ server.phase \in 1..MaxPhase
    BY <2>1, ClientParts DEF StateOK, Server, Game
  <2>3. /\ client.conn \in Conns /\ client.mode \in {"reading", "connecting", "dead"}
        /\ client.ready \in BOOLEAN /\ client.timedOut \in BOOLEAN
    BY <2>1, ClientParts
  <2> QED
    BY <2>1, <2>2, <2>3 DEF TypeOK, StateOK, AskedOK, PlacesApart
<1> QED
  BY <1>1, Invariant, PTL

\* Channel.ArchivedOnce: no message is archived twice, however often the connection
\* breaks and the client sends its requests again.
THEOREM ArchivedOnlyOnce == Spec => []ArchivedOnce
<1>1. IInv => ArchivedOnce
  <2> SUFFICES ASSUME MessagesApart PROVE ArchivedOnce
    BY DEF IInv, ArchiveInv
  <2>1. ASSUME NEW a \in Archives, NEW b \in Archives, a # b, NEW m \in a, NEW n \in b
        PROVE  m.id # n.id
    <3>1. \/ a = server.messages
          \/ \E h \in server.history : a = h.messages
      BY DEF Archives
    <3>2. \/ b = server.messages
          \/ \E h \in server.history : b = h.messages
      BY DEF Archives
    <3> QED
      BY <2>1, <3>1, <3>2 DEF MessagesApart
  <2>2. ASSUME NEW a \in Archives, NEW m \in a, NEW n \in a, m.id = n.id
        PROVE  m = n
    BY <2>2 DEF Archives, MessagesApart
  <2> QED
    BY <2>1, <2>2 DEF ArchivedOnce, Archives
<1> QED
  BY <1>1, Invariant, PTL

\* Channel.ReadsOn: the assertions of extend_phase_history never end the client's
\* reading: it stops only after its connection broke.
THEOREM ReadingGoesOn == Spec => []ReadsOn
<1>1. IInv => ReadsOn
  BY DEF IInv, ConnInv, BrokeFirst, ReadsOn
<1> QED
  BY <1>1, Invariant, PTL

----------------------------------------------------------------------------
(***************************************************************************)
(* What the client will know of the phases: the line of what is on its way  *)
(* to the client, on its connection and, behind it, in the queue.           *)
(***************************************************************************)

\* The phase a game is in after a notification that names one; state_history alone
\* leaves the game's phase as it is.
Level(n) == IF n.type = "phase" THEN n.data.phase ELSE n.data.phase + 1
Leveled(n) == IsPast(n) \/ n.type = "phase"

\* A game knows a phase: it is past it, or has it in its history.
Known(g, h) == h.phase < g.phase \/ h.phase \in Past(g)

\* The times that a game gets from a message of the line, and those it has.
Stamps(n) ==
    IF IsPast(n) \/ n.type = "message" THEN {n.data.at}
    ELSE IF n.type = "phase" THEN {m.at : m \in n.data.messages}
    ELSE IF n.type = "response" /\ n.id \in Requested THEN {n.data}
    ELSE {}

GameTimes(g) == {h.at : h \in g.history} \cup {m.at : m \in g.messages}

\* Game g knows phase h when it has read L up to i.
Comes(L, g, h, i) ==
    Known(g, h) \/ \E j \in DOMAIN L : j <= i /\ IsPast(L[j]) /\ L[j].data.phase = h.phase

\* The line never brings the game back, nor beyond phase top.
Rising(L, top) ==
    /\ \A i \in DOMAIN L : Leveled(L[i]) => Level(L[i]) \in Nat /\ Level(L[i]) <= top
    /\ \A i, j \in DOMAIN L :
          i < j /\ Leveled(L[i]) /\ Leveled(L[j]) => Level(L[i]) <= Level(L[j])

NotBehind(L, g) ==
    \A i \in DOMAIN L : Leveled(L[i]) =>
        /\ L[i].type # "state_history" => g.phase <= Level(L[i])
        /\ \A p \in Past(g) : p < Level(L[i])

\* When the game gets a time, it knows the phases that were processed until then.
Covered(L, g, H) ==
    \A i \in DOMAIN L : \A t \in Stamps(L[i]) : \A h \in H : h.at <= t => Comes(L, g, h, i)

LineOK(L, g, H, top) == Rising(L, top) /\ NotBehind(L, g) /\ Covered(L, g, H)

\* The game will know every phase when it has read the whole line.
AllCome(L, g, H) ==
    \A h \in H : Known(g, h) \/ \E j \in DOMAIN L : IsPast(L[j]) /\ L[j].data.phase = h.phase

\* A message that tells the game nothing new of the phases.
Plain(n, g, H) ==
    /\ ~Leveled(n)
    /\ \A t \in Stamps(n) : \A h \in H : h.at <= t => Known(g, h)

\* Message x of line K is message f[x] of line L, and all that brings a phase until then is kept.
Keeps(L, K, f, x) ==
    /\ f[x] \in DOMAIN L /\ K[x] = L[f[x]]
    /\ \A j \in 1..f[x] : IsPast(L[j]) => \E y \in 1..x : K[y] = L[j]

\* A line that keeps of another, in its order, all that brings a phase, is as good.
LEMMA Embedded ==
    ASSUME NEW n \in Nat, NEW m \in Nat, NEW L, NEW K, DOMAIN L = 1..n, DOMAIN K = 1..m,
           NEW g, NEW H, NEW top, NEW f \in [1..m -> 0..n],
           \A x, y \in 1..m : x < y => f[x] <= f[y],
           \A x \in 1..m : Plain(K[x], g, H) \/ Keeps(L, K, f, x),
           LineOK(L, g, H, top)
    PROVE  LineOK(K, g, H, top)
<1>1. ASSUME NEW x \in 1..m, Leveled(K[x])
      PROVE  /\ f[x] \in DOMAIN L /\ K[x] = L[f[x]] /\ Leveled(L[f[x]])
             /\ f[x] \in Int
  BY <1>1 DEF Plain, Keeps
<1>2. ASSUME NEW x \in 1..m, Leveled(K[x])
      PROVE  Level(K[x]) \in Nat /\ Level(K[x]) <= top
  <2>1. Level(L[f[x]]) \in Nat /\ Level(L[f[x]]) <= top
    BY <1>1, <1>2 DEF LineOK, Rising
  <2> QED
    BY <1>1, <1>2, <2>1
<1>3. ASSUME NEW x \in 1..m, NEW y \in 1..m, x < y, Leveled(K[x]), Leveled(K[y])
      PROVE  Level(K[x]) <= Level(K[y])
  <2>1. /\ f[x] \in DOMAIN L /\ K[x] = L[f[x]] /\ f[y] \in DOMAIN L /\ K[y] = L[f[y]]
        /\ Leveled(L[f[x]]) /\ Leveled(L[f[y]])
    BY <1>1, <1>3
  <2>2. f[x] <= f[y] /\ f[x] \in Int /\ f[y] \in Int
    BY <1>3
  <2>3. CASE f[x] = f[y]
    <3>1. Level(K[x]) \in Nat /\ K[x] = K[y]
      BY <1>2, <1>3, <2>1, <2>3
    <3>2. Level(K[x]) = Level(K[y])
      BY <3>1
    <3> QED
      BY <3>1, <3>2
  <2>4. CASE f[x] < f[y]
    <3>1. Level(L[f[x]]) <= Level(L[f[y]])
      BY <2>1, <2>4 DEF LineOK, Rising
    <3> QED
      BY <2>1, <3>1
  <2> QED
    BY <2>2, <2>3, <2>4
<1>4. Rising(K, top)
  BY <1>2, <1>3 DEF Rising
<1>5. NotBehind(K, g)
  <2> SUFFICES ASSUME NEW x \in 1..m, Leveled(K[x])
               PROVE  /\ K[x].type # "state_history" => g.phase <= Level(K[x])
                      /\ \A p \in Past(g) : p < Level(K[x])
    BY DEF NotBehind
  <2>1. /\ L[f[x]].type # "state_history" => g.phase <= Level(L[f[x]])
        /\ \A p \in Past(g) : p < Level(L[f[x]])
    BY <1>1 DEF LineOK, NotBehind
  <2>2. K[x] = L[f[x]]
    BY <1>1
  <2> QED
    BY <2>1, <2>2
<1>6. Covered(K, g, H)
  <2> SUFFICES ASSUME NEW x \in 1..m, NEW t \in Stamps(K[x]), NEW h \in H, h.at <= t
               PROVE  Comes(K, g, h, x)
    BY DEF Covered
  <2>1. CASE Plain(K[x], g, H)
    BY <2>1 DEF Plain, Comes
  <2>2. CASE Keeps(L, K, f, x)
    <3>1. f[x] \in 1..n /\ K[x] = L[f[x]]
      BY <2>2 DEF Keeps
    <3>2. Comes(L, g, h, f[x])
      BY <3>1 DEF LineOK, Covered
    <3>3. CASE Known(g, h)
      BY <3>3 DEF Comes
    <3>4. CASE \E j \in DOMAIN L : j <= f[x] /\ IsPast(L[j]) /\ L[j].data.phase = h.phase
      <4>1. PICK j \in 1..n : j <= f[x] /\ IsPast(L[j]) /\ L[j].data.phase = h.phase
        BY <3>4
      <4>2. j \in 1..f[x]
        BY <3>1, <4>1
      <4>3. PICK y \in 1..x : K[y] = L[j]
        BY <2>2, <4>1, <4>2 DEF Keeps
      <4>4. y \in DOMAIN K /\ y <= x
        OBVIOUS
      <4> QED
        BY <4>1, <4>3, <4>4 DEF Comes
    <3> QED
      BY <3>2, <3>3, <3>4 DEF Comes
  <2> QED
    BY <2>1, <2>2
<1> QED
  BY <1>4, <1>5, <1>6 DEF LineOK

\* K is L with e plain messages more, behind the first p.
Between(L, K, n, e, p, g, H) ==
    /\ DOMAIN L = 1..n /\ DOMAIN K = 1..(n + e)
    /\ \A x \in 1..p : K[x] = L[x]
    /\ \A x \in (p + 1)..(p + e) : Plain(K[x], g, H)
    /\ \A x \in (p + 1)..n : K[x + e] = L[x]

\* Some plain messages come between.
LEMMA Inserted ==
    ASSUME NEW n \in Nat, NEW e \in Nat, NEW L, NEW K, DOMAIN L = 1..n, DOMAIN K = 1..(n + e),
           NEW p \in 0..n, NEW g, NEW H, NEW top,
           \A x \in 1..p : K[x] = L[x],
           \A x \in (p + 1)..(p + e) : Plain(K[x], g, H),
           \A x \in (p + 1)..n : K[x + e] = L[x],
           LineOK(L, g, H, top)
    PROVE  LineOK(K, g, H, top)
<1> DEFINE m == n + e
           f == [x \in 1..m |-> IF x <= p THEN x ELSE IF x <= p + e THEN p ELSE x - e]
<1>1. m \in Nat /\ f \in [1..m -> 0..n]
  OBVIOUS
<1>2. \A x, y \in 1..m : x < y => f[x] <= f[y]
  OBVIOUS
<1>3. ASSUME NEW x \in 1..m
      PROVE  Plain(K[x], g, H) \/ Keeps(L, K, f, x)
  <2>1. CASE x <= p
    <3>1. x \in 1..p /\ f[x] = x
      BY <2>1
    <3>2. \A j \in 1..x : j \in 1..p
      BY <2>1
    <3>3. \A j \in 1..x : \E y \in 1..x : K[y] = L[j]
      BY <3>2
    <3> QED
      BY <3>1, <3>3 DEF Keeps
  <2>2. CASE p < x /\ x <= p + e
    <3>1. x \in (p + 1)..(p + e)
      BY <2>2
    <3> QED
      BY <3>1
  <2>3. CASE p + e < x
    <3>1. f[x] = x - e /\ x - e \in (p + 1)..n /\ (x - e) + e = x
      BY <2>3
    <3>2. K[x] = L[x - e]
      BY <3>1
    <3>3. ASSUME NEW j \in 1..(x - e) PROVE \E y \in 1..x : K[y] = L[j]
      <4>1. CASE j <= p
        <5>1. j \in 1..p /\ j \in 1..x
          BY <2>3, <4>1
        <5> QED
          BY <5>1
      <4>2. CASE p < j
        <5>1. j \in (p + 1)..n /\ j + e \in 1..x
          BY <2>3, <4>2
        <5>2. K[j + e] = L[j]
          BY <5>1
        <5> QED
          BY <5>1, <5>2
      <4> QED
        BY <4>1, <4>2
    <3> QED
      BY <3>1, <3>2, <3>3 DEF Keeps
  <2> QED
    BY <2>1, <2>2, <2>3
<1> HIDE DEF f
<1> QED
  BY <1>1, <1>2, <1>3, Embedded

\* They come first.
LEMMA InsertedFirst ==
    ASSUME NEW n \in Nat, NEW e \in Nat, NEW L, NEW K, DOMAIN L = 1..n, DOMAIN K = 1..(n + e),
           NEW g, NEW H, NEW top, \A x \in 1..e : Plain(K[x], g, H),
           \A x \in 1..n : K[x + e] = L[x],
           LineOK(L, g, H, top)
    PROVE  LineOK(K, g, H, top)
<1> DEFINE p == 0
<1>1. p \in 0..n /\ p + e = e /\ p + 1 = 1 /\ \A x \in 1..p : K[x] = L[x]
  OBVIOUS
<1> HIDE DEF p
<1>2. \A x \in (p + 1)..(p + e) : Plain(K[x], g, H)
  BY <1>1
<1>3. \A x \in (p + 1)..n : K[x + e] = L[x]
  BY <1>1
<1> QED
  BY <1>1, <1>2, <1>3, Inserted, ZenonT(60)

\* One comes between.
LEMMA InsertedOne ==
    ASSUME NEW n \in Nat, NEW L, NEW K, NEW p \in 0..n, NEW g, NEW H, NEW top,
           Between(L, K, n, 1, p, g, H),
           LineOK(L, g, H, top)
    PROVE  LineOK(K, g, H, top)
<1> DEFINE e == 1
<1>1. Between(L, K, n, e, p, g, H) /\ e \in Nat
  OBVIOUS
<1> HIDE DEF e
<1>2. /\ DOMAIN L = 1..n /\ DOMAIN K = 1..(n + e)
      /\ \A x \in 1..p : K[x] = L[x]
      /\ \A x \in (p + 1)..(p + e) : Plain(K[x], g, H)
      /\ \A x \in (p + 1)..n : K[x + e] = L[x]
  BY <1>1 DEF Between
<1> QED
  BY <1>1, <1>2, Inserted

\* A message that brings no phase is left out.
LEMMA Dropped ==
    ASSUME NEW n \in Nat, NEW L, NEW K, DOMAIN L = 1..(n + 1), DOMAIN K = 1..n,
           NEW p \in 1..(n + 1), NEW g, NEW H, NEW top,
           \A x \in 1..(p - 1) : K[x] = L[x],
           \A x \in p..n : K[x] = L[x + 1],
           ~IsPast(L[p]),
           LineOK(L, g, H, top)
    PROVE  LineOK(K, g, H, top)
<1> DEFINE f == [x \in 1..n |-> IF x < p THEN x ELSE x + 1]
<1>1. f \in [1..n -> 0..(n + 1)] /\ n + 1 \in Nat
  OBVIOUS
<1>2. \A x, y \in 1..n : x < y => f[x] <= f[y]
  OBVIOUS
<1>3. ASSUME NEW x \in 1..n
      PROVE  Keeps(L, K, f, x)
  <2>1. CASE x < p
    <3>1. x \in 1..(p - 1) /\ f[x] = x /\ x # 0
      BY <2>1
    <3>2. \A j \in 1..x : j \in 1..(p - 1)
      BY <2>1
    <3>3. \A j \in 1..x : \E y \in 1..x : K[y] = L[j]
      BY <3>2
    <3> QED
      BY <3>1, <3>3 DEF Keeps
  <2>2. CASE p <= x
    <3>1. f[x] = x + 1 /\ x \in p..n /\ x + 1 # 0
      BY <2>2
    <3>2. K[x] = L[x + 1]
      BY <3>1
    <3>3. ASSUME NEW j \in 1..(x + 1), IsPast(L[j]) PROVE \E y \in 1..x : K[y] = L[j]
      <4>1. CASE j < p
        <5>1. j \in 1..(p - 1) /\ j \in 1..x
          BY <2>2, <4>1
        <5> QED
          BY <5>1
      <4>2. CASE p < j
        <5>1. j - 1 \in p..n /\ j - 1 \in 1..x /\ (j - 1) + 1 = j
          BY <2>2, <4>2
        <5>2. K[j - 1] = L[j]
          BY <5>1
        <5> QED
          BY <5>1, <5>2
      <4> QED
        BY <3>3, <4>1, <4>2
    <3> QED
      BY <3>1, <3>2, <3>3 DEF Keeps
  <2> QED
    BY <2>1, <2>2
<1> HIDE DEF f
<1> QED
  BY <1>1, <1>2, <1>3, Embedded

\* The end is lost.
LEMMA CutOff ==
    ASSUME NEW n \in Nat, NEW m \in 0..n, NEW L, NEW K, DOMAIN L = 1..n, DOMAIN K = 1..m,
           NEW g, NEW H, NEW top, \A x \in 1..m : K[x] = L[x], LineOK(L, g, H, top)
    PROVE  LineOK(K, g, H, top)
<1> DEFINE f == [x \in 1..m |-> x]
<1>1. f \in [1..m -> 0..n]
  OBVIOUS
<1>2. \A x, y \in 1..m : x < y => f[x] <= f[y]
  OBVIOUS
<1>3. ASSUME NEW x \in 1..m
      PROVE  Keeps(L, K, f, x)
  <2>1. \A j \in 1..x : j \in 1..m
    OBVIOUS
  <2>2. \A j \in 1..x : \E y \in 1..x : K[y] = L[j]
    BY <2>1
  <2> QED
    BY <2>2 DEF Keeps
<1> HIDE DEF f
<1> QED
  BY <1>1, <1>2, <1>3, Embedded

\* A line that keeps what brings a phase brings as much.
LEMMA StillComes ==
    ASSUME NEW n \in Nat, NEW m \in Nat, NEW L, NEW K, DOMAIN L = 1..n, DOMAIN K = 1..m,
           NEW g, NEW H,
           \A j \in 1..n : IsPast(L[j]) => \E y \in 1..m : K[y] = L[j],
           AllCome(L, g, H)
    PROVE  AllCome(K, g, H)
<1> SUFFICES ASSUME NEW h \in H, ~Known(g, h) PROVE \E y \in DOMAIN K : IsPast(K[y]) /\ K[y].data.phase = h.phase
  BY DEF AllCome
<1>1. PICK j \in 1..n : IsPast(L[j]) /\ L[j].data.phase = h.phase
  BY DEF AllCome
<1>2. PICK y \in 1..m : K[y] = L[j]
  BY <1>1
<1> QED
  BY <1>1, <1>2

\* Game e is game g after message n: it gets no time but that of n, no phase but the one of n,
\* and loses none but to a message that names a later one.
Reads(g, e, n) ==
    /\ \A p \in Past(e) : p \in Past(g) \/ (IsPast(n) /\ p = n.data.phase)
    /\ IsPast(n) => n.data.phase \in Past(e)
    /\ e.phase = g.phase \/ (Leveled(n) /\ n.type # "state_history" /\ e.phase = Level(n))
    /\ \A p \in Past(g) : p \in Past(e) \/ (n.type = "phase" /\ e.phase = Level(n))
    /\ GameTimes(e) \subseteq GameTimes(g) \cup Stamps(n)

\* A game that reads the line still knows what it knew.
LEMMA ReadsKnown ==
    ASSUME NEW L, 1 \in DOMAIN L, NEW g, NEW e, NotBehind(L, g), Reads(g, e, L[1]),
           Leveled(L[1]) => Level(L[1]) \in Nat, g.phase \in Nat,
           NEW h, h.phase \in Nat, Known(g, h)
    PROVE  Known(e, h)
<1>1. CASE h.phase < g.phase
  <2>1. e.phase = g.phase \/ (Level(L[1]) \in Nat /\ g.phase <= Level(L[1]) /\ e.phase = Level(L[1]))
    BY DEF NotBehind, Reads
  <2>2. h.phase < e.phase
    BY <1>1, <2>1
  <2> QED
    BY <2>2 DEF Known
<1>2. CASE h.phase \in Past(g)
  <2>1. h.phase \in Past(e) \/ (L[1].type = "phase" /\ e.phase = Level(L[1]))
    BY <1>2 DEF Reads
  <2>2. L[1].type = "phase" => h.phase < Level(L[1])
    BY <1>2 DEF NotBehind, Leveled
  <2> QED
    BY <2>1, <2>2 DEF Known
<1> QED
  BY <1>1, <1>2 DEF Known

\* The first message of the line is read.
LEMMA ReadLine ==
    ASSUME NEW n \in Nat, NEW L, NEW K, DOMAIN L = 1..(n + 1), DOMAIN K = 1..n,
           \A x \in 1..n : K[x] = L[x + 1], NEW g, NEW e, NEW H, NEW top,
           Reads(g, e, L[1]), g.phase \in Nat, \A h \in H : h.phase \in Nat,
           \A i \in DOMAIN L : IsPast(L[i]) => L[i].data.phase \in Nat,
           LineOK(L, g, H, top)
    PROVE  LineOK(K, e, H, top)
<1>1. 1 \in DOMAIN L /\ \A x \in 1..n : x + 1 \in DOMAIN L /\ 1 < x + 1
  OBVIOUS
<1>2. Rising(L, top) /\ NotBehind(L, g) /\ Covered(L, g, H)
  BY DEF LineOK
<1>3. \A i \in DOMAIN L : Leveled(L[i]) => Level(L[i]) \in Nat
  BY <1>2 DEF Rising
<1>4. ASSUME NEW h \in H, Known(g, h) PROVE Known(e, h)
  BY <1>1, <1>2, <1>3, <1>4, ReadsKnown
<1>5. Rising(K, top)
  <2>1. \A x \in DOMAIN K : Leveled(K[x]) => Level(K[x]) \in Nat /\ Level(K[x]) <= top
    BY <1>1, <1>2 DEF Rising
  <2>2. ASSUME NEW x \in 1..n, NEW y \in 1..n, x < y, Leveled(K[x]), Leveled(K[y])
        PROVE  Level(K[x]) <= Level(K[y])
    <3>1. x + 1 \in DOMAIN L /\ y + 1 \in DOMAIN L /\ x + 1 < y + 1
      BY <1>1, <2>2
    <3>2. K[x] = L[x + 1] /\ K[y] = L[y + 1]
      OBVIOUS
    <3>3. Leveled(L[x + 1]) /\ Leveled(L[y + 1])
      BY <2>2, <3>2
    <3>4. Level(L[x + 1]) <= Level(L[y + 1])
      BY <1>2, <3>1, <3>3 DEF Rising
    <3> QED
      BY <3>2, <3>4
  <2> QED
    BY <2>1, <2>2 DEF Rising
<1>6. NotBehind(K, e)
  <2> SUFFICES ASSUME NEW x \in 1..n, Leveled(K[x])
               PROVE  /\ K[x].type # "state_history" => e.phase <= Level(K[x])
                      /\ \A p \in Past(e) : p < Level(K[x])
    BY DEF NotBehind
  <2> DEFINE m == K[x]
  <2>1. m = L[x + 1] /\ x + 1 \in DOMAIN L
    BY <1>1
  <2>2. /\ m.type # "state_history" => g.phase <= Level(m)
        /\ \A p \in Past(g) : p < Level(m)
    BY <1>2, <2>1 DEF NotBehind
  <2>3. Level(m) \in Nat
    BY <1>3, <2>1
  <2>4. Leveled(L[1]) => Level(L[1]) \in Nat /\ Level(L[1]) <= Level(m)
    BY <1>1, <1>2, <1>3, <2>1 DEF Rising
  <2>5. m.type # "state_history" => e.phase <= Level(m)
    BY <2>2, <2>4 DEF Reads
  <2>6. ASSUME NEW p \in Past(e) PROVE p < Level(m)
    <3>1. p \in Past(g) \/ (IsPast(L[1]) /\ p = L[1].data.phase)
      BY DEF Reads
    <3>2. CASE IsPast(L[1]) /\ p = L[1].data.phase
      <4>1. Level(L[1]) = p + 1 /\ p \in Nat /\ Leveled(L[1])
        BY <1>1, <3>2 DEF Level, Leveled, IsPast
      <4> QED
        BY <2>3, <2>4, <4>1
    <3> QED
      BY <2>2, <3>1, <3>2
  <2> QED
    BY <2>5, <2>6
<1>7. Covered(K, e, H)
  <2> SUFFICES ASSUME NEW x \in 1..n, NEW t \in Stamps(K[x]), NEW h \in H, h.at <= t
               PROVE  Comes(K, e, h, x)
    BY DEF Covered
  <2>1. Comes(L, g, h, x + 1)
    BY <1>1, <1>2 DEF Covered
  <2>2. CASE Known(g, h)
    BY <1>4, <2>2 DEF Comes
  <2>3. CASE \E j \in DOMAIN L : j <= x + 1 /\ IsPast(L[j]) /\ L[j].data.phase = h.phase
    <3>1. PICK j \in 1..(n + 1) : j <= x + 1 /\ IsPast(L[j]) /\ L[j].data.phase = h.phase
      BY <2>3
    <3>2. CASE j = 1
      BY <3>1, <3>2 DEF Comes, Known, Reads
    <3>3. CASE j # 1
      <4>1. j - 1 \in 1..n /\ j - 1 <= x /\ (j - 1) + 1 = j
        BY <3>1, <3>3
      <4>2. K[j - 1] = L[j]
        BY <4>1
      <4> QED
        BY <3>1, <4>1, <4>2 DEF Comes
    <3> QED
      BY <3>2, <3>3
  <2> QED
    BY <2>1, <2>2, <2>3 DEF Comes
<1> QED
  BY <1>5, <1>6, <1>7 DEF LineOK

\* What was to come of the phases is known now, or still to come.
LEMMA ReadCome ==
    ASSUME NEW n \in Nat, NEW L, NEW K, DOMAIN L = 1..(n + 1), DOMAIN K = 1..n,
           \A x \in 1..n : K[x] = L[x + 1], NEW g, NEW e, NEW H,
           Reads(g, e, L[1]), \A h \in H : Known(g, h) => Known(e, h), AllCome(L, g, H)
    PROVE  AllCome(K, e, H)
<1> SUFFICES ASSUME NEW h \in H, ~Known(e, h)
             PROVE  \E j \in DOMAIN K : IsPast(K[j]) /\ K[j].data.phase = h.phase
  BY DEF AllCome
<1>1. PICK j \in 1..(n + 1) : IsPast(L[j]) /\ L[j].data.phase = h.phase
  BY DEF AllCome
<1>2. j # 1
  BY <1>1 DEF Known, Reads
<1>3. j - 1 \in 1..n /\ (j - 1) + 1 = j
  BY <1>2
<1>4. K[j - 1] = L[j]
  BY <1>3
<1> QED
  BY <1>1, <1>3, <1>4

\* The times the game gets come with the phases.
LEMMA ReadTimes ==
    ASSUME NEW L, 1 \in DOMAIN L, DOMAIN L \subseteq Nat \ {0}, NEW g, NEW e, NEW H, Covered(L, g, H), Reads(g, e, L[1]),
           \A h \in H : Known(g, h) => Known(e, h),
           \A h \in H : \A t \in GameTimes(g) : h.at <= t => Known(g, h)
    PROVE  \A h \in H : \A t \in GameTimes(e) : h.at <= t => Known(e, h)
<1> SUFFICES ASSUME NEW h \in H, NEW t \in GameTimes(e), h.at <= t PROVE Known(e, h)
  OBVIOUS
<1>1. t \in GameTimes(g) \/ t \in Stamps(L[1])
  BY DEF Reads
<1>2. CASE t \in Stamps(L[1])
  <2>1. Known(g, h) \/ \E j \in DOMAIN L : j <= 1 /\ IsPast(L[j]) /\ L[j].data.phase = h.phase
    BY <1>2 DEF Covered, Comes
  <2>2. \A j \in DOMAIN L : j <= 1 => j = 1
    OBVIOUS
  <2> QED
    BY <2>1, <2>2 DEF Known, Reads
<1> QED
  BY <1>1, <1>2

\* A phase is processed, after all the times of the line.
LEMMA GrownLine ==
    ASSUME NEW L, NEW g, NEW H, NEW top \in Nat, NEW h, h.at \in Nat, LineOK(L, g, H, top),
           \A i \in DOMAIN L : \A t \in Stamps(L[i]) : t \in Nat /\ t < h.at
    PROVE  LineOK(L, g, H \cup {h}, top + 1)
<1>1. Rising(L, top + 1)
  BY DEF LineOK, Rising
<1>2. Covered(L, g, H \cup {h})
  BY DEF LineOK, Covered
<1> QED
  BY <1>1, <1>2 DEF LineOK

\* A message of the current phase comes last, and all phases before it.
LEMMA Appended ==
    ASSUME NEW n \in Nat, NEW L, NEW K, DOMAIN L = 1..n, DOMAIN K = 1..(n + 1),
           \A x \in 1..n : K[x] = L[x], NEW g, NEW H, NEW top \in Nat, LineOK(L, g, H, top),
           Leveled(K[n + 1]) => Level(K[n + 1]) = top,
           g.phase <= top, \A p \in Past(g) : p < top, AllCome(K, g, H)
    PROVE  LineOK(K, g, H, top)
<1>1. \A x \in DOMAIN K : x \in 1..n \/ x = n + 1
  OBVIOUS
<1>2. \A x \in 1..n : x \in DOMAIN L /\ x \in DOMAIN K /\ x < n + 1
  OBVIOUS
<1>3. Rising(K, top)
  <2>1. \A x \in DOMAIN K : Leveled(K[x]) => Level(K[x]) \in Nat /\ Level(K[x]) <= top
    BY <1>1, <1>2 DEF LineOK, Rising
  <2>2. ASSUME NEW x \in DOMAIN K, NEW y \in DOMAIN K, x < y, Leveled(K[x]), Leveled(K[y])
        PROVE  Level(K[x]) <= Level(K[y])
    <3>1. x \in 1..n
      BY <2>2
    <3>2. CASE y \in 1..n
      <4>1. K[x] = L[x] /\ K[y] = L[y] /\ x \in DOMAIN L /\ y \in DOMAIN L
        BY <3>1, <3>2
      <4>2. Leveled(L[x]) /\ Leveled(L[y])
        BY <2>2, <4>1
      <4>3. Level(L[x]) <= Level(L[y])
        BY <2>2, <4>1, <4>2 DEF LineOK, Rising
      <4> QED
        BY <4>1, <4>3
    <3>3. CASE y = n + 1
      BY <2>1, <2>2, <3>3
    <3> QED
      BY <1>1, <3>2, <3>3
  <2> QED
    BY <2>1, <2>2 DEF Rising
<1>4. NotBehind(K, g)
  <2>1. ASSUME NEW x \in 1..n, Leveled(K[x])
        PROVE  /\ K[x].type # "state_history" => g.phase <= Level(K[x])
               /\ \A p \in Past(g) : p < Level(K[x])
    <3>1. /\ L[x].type # "state_history" => g.phase <= Level(L[x])
          /\ \A p \in Past(g) : p < Level(L[x])
      BY <2>1 DEF LineOK, NotBehind
    <3> QED
      BY <3>1
  <2> QED
    BY <1>1, <2>1 DEF NotBehind
<1>5. Covered(K, g, H)
  <2> SUFFICES ASSUME NEW x \in DOMAIN K, NEW t \in Stamps(K[x]), NEW h \in H, h.at <= t
               PROVE  Comes(K, g, h, x)
    BY DEF Covered
  <2>1. CASE x \in 1..n
    <3>1. Comes(L, g, h, x)
      BY <2>1 DEF LineOK, Covered
    <3> QED
      BY <1>2, <3>1 DEF Comes
  <2>2. CASE x = n + 1
    <3>1. \A j \in DOMAIN K : j <= x
      BY <2>2
    <3> QED
      BY <3>1 DEF AllCome, Comes
  <2> QED
    BY <1>1, <2>1, <2>2
<1> QED
  BY <1>3, <1>4, <1>5 DEF LineOK

\* The n notifications K bring all phases of H after ts, in the order of time, then
\* messages, and the current phase, which is top.
Brings(K, n, ts, H, top, a) ==
    /\ \A i \in 1..a : K[i].type = "state_history" /\ K[i].data \in H /\ K[i].data.at > ts
    /\ \A i, j \in 1..a : i < j => K[i].data.at < K[j].data.at
    /\ \A h \in H : h.at > ts => \E j \in 1..a : K[j].data = h
    /\ \A i \in (a + 1)..n : \/ K[i].type = "message"
                             \/ K[i].type = "phase" /\ K[i].data.phase = top

\* What on_synchronize brings is enough for a game that has the phases until the timestamp.
LEMMA CaughtUp ==
    ASSUME NEW n \in Nat, NEW K, DOMAIN K = 1..n, NEW a \in 0..n, NEW g, NEW H, NEW top \in Nat,
           NEW ts \in Nat, Brings(K, n, ts, H, top, a),
           \A h \in H : h.at \in Nat /\ h.phase \in Nat /\ h.phase < top,
           \A h, k \in H : h.at < k.at => h.phase < k.phase,
           \A h \in H : h.at <= ts => Known(g, h),
           g.history \subseteq H, \A h \in g.history : h.at <= ts, g.phase <= top
    PROVE  LineOK(K, g, H, top) /\ AllCome(K, g, H)
<1> USE DEF Brings
<1>1. ASSUME NEW i \in 1..a
      PROVE  /\ K[i].data \in H /\ K[i].type = "state_history" /\ i \in DOMAIN K
             /\ IsPast(K[i]) /\ Level(K[i]) = K[i].data.phase + 1 /\ Stamps(K[i]) = {K[i].data.at}
             /\ K[i].data.phase \in Nat /\ K[i].data.phase < top /\ K[i].data.at \in Nat
  BY DEF IsPast, Level, Stamps
<1>2. ASSUME NEW i \in DOMAIN K, Leveled(K[i]), i \notin 1..a
      PROVE  K[i].type = "phase" /\ Level(K[i]) = top
  <2>1. i \in (a + 1)..n
    BY <1>2
  <2> QED
    BY <1>2, <2>1 DEF Level, Leveled, IsPast
<1>3. \A i \in DOMAIN K : Leveled(K[i]) => Level(K[i]) \in Nat /\ Level(K[i]) <= top
  BY <1>1, <1>2
<1>4. Rising(K, top)
  <2> SUFFICES ASSUME NEW i \in DOMAIN K, NEW j \in DOMAIN K, i < j, Leveled(K[i]), Leveled(K[j])
               PROVE  Level(K[i]) <= Level(K[j])
    BY <1>3 DEF Rising
  <2>1. CASE j \in 1..a
    <3>1. i \in 1..a
      BY <2>1
    <3>2. K[i].data.phase < K[j].data.phase
      BY <1>1, <2>1, <3>1
    <3> QED
      BY <1>1, <2>1, <3>1, <3>2
  <2>2. CASE j \notin 1..a
    <3>1. Level(K[j]) = top
      BY <1>2, <2>2
    <3>2. Level(K[i]) <= top
      BY <1>3
    <3> QED
      BY <3>1, <3>2
  <2> QED
    BY <2>1, <2>2
<1>5. NotBehind(K, g)
  <2> SUFFICES ASSUME NEW i \in DOMAIN K, Leveled(K[i])
               PROVE  /\ K[i].type # "state_history" => g.phase <= Level(K[i])
                      /\ \A h \in g.history : h.phase < Level(K[i])
    BY DEF NotBehind, Past
  <2>1. CASE i \in 1..a
    <3>1. ASSUME NEW h \in g.history PROVE h.phase < Level(K[i])
      <4>1. h \in H /\ h.at <= ts /\ K[i].data.at > ts
        BY <2>1
      <4>2. h.at < K[i].data.at
        BY <1>1, <2>1, <4>1
      <4>3. h.phase < K[i].data.phase /\ h.phase \in Nat
        BY <1>1, <2>1, <4>1, <4>2
      <4> QED
        BY <1>1, <2>1, <4>3
    <3> QED
      BY <1>1, <2>1, <3>1
  <2>2. CASE i \notin 1..a
    BY <1>2, <2>2
  <2> QED
    BY <2>1, <2>2
<1>6. ASSUME NEW h \in H, ~Known(g, h)
      PROVE  h.at > ts /\ \E j \in 1..a : j \in DOMAIN K /\ K[j].data = h /\ IsPast(K[j])
  <2>1. h.at > ts
    BY <1>6
  <2> QED
    BY <1>1, <2>1
<1>7. AllCome(K, g, H)
  BY <1>6 DEF AllCome
<1>8. Covered(K, g, H)
  <2> SUFFICES ASSUME NEW i \in DOMAIN K, NEW t \in Stamps(K[i]), NEW h \in H, h.at <= t,
                      ~Known(g, h)
               PROVE  \E j \in DOMAIN K : j <= i /\ IsPast(K[j]) /\ K[j].data.phase = h.phase
    BY DEF Covered, Comes
  <2>1. PICK j \in 1..a : j \in DOMAIN K /\ K[j].data = h /\ IsPast(K[j])
    BY <1>6
  <2>2. j <= i
    <3>1. CASE i \in 1..a
      <4>1. t = K[i].data.at
        <5>1. Stamps(K[i]) = {K[i].data.at}
          BY <1>1, <3>1
        <5> QED
          BY <5>1
      <4>2. ~(i < j)
        BY <1>1, <2>1, <3>1, <4>1
      <4> QED
        BY <3>1, <4>2
    <3>2. CASE i \notin 1..a
      BY <3>2
    <3> QED
      BY <3>1, <3>2
  <2> QED
    BY <2>1, <2>2
<1> QED
  BY <1>4, <1>5, <1>7, <1>8 DEF LineOK

----------------------------------------------------------------------------
(* The line of what is on its way to the client, and the invariant.         *)

\* What is in the queue for another connection is nothing to the client.
Nothing == [type |-> "none"]

Arriving == Len(down[client.conn])
LineLength == Arriving + IF client.conn \in broken THEN 0 ELSE Len(queue)

Line ==
    [i \in 1..LineLength |->
        IF i <= Arriving THEN down[client.conn][i]
        ELSE IF queue[i - Arriving].to = client.conn THEN queue[i - Arriving].notification
        ELSE Nothing]

\* The history of the server has every phase before its own, in the order of time.
HistoryFull ==
    /\ \A p \in 1..(server.phase - 1) : \E h \in server.history : h.phase = p
    /\ \A g, h \in server.history : g.at < h.at => g.phase < h.phase
    /\ \A h \in server.history : h.at > 0

\* The client is not ahead of the server, nor a request of the client.
AskedBefore ==
    /\ client.game.phase <= server.phase
    /\ \A id \in DOMAIN asked : IF id \in Requested THEN asked[id].phase <= client.game.phase
                                ELSE asked[id].timestamp <= server.now

LineInv == client.mode = "reading" => LineOK(Line, client.game, server.history, server.phase)

\* What the client does not know is on its way to the connection that has the token.
ComingInv ==
    Alive /\ attached = client.conn /\ server.controlled
        => AllCome(Line, client.game, server.history)

\* The client knows the phases that were processed until its latest timestamp: so
\* Synchronize asks for all the others.
TimesKnown ==
    \A h \in server.history : \A t \in GameTimes(client.game) : h.at <= t => Known(client.game, h)

SyncKnown ==
    Alive /\ attached # client.conn /\ Sync(client.conn) \in DOMAIN asked =>
        \A h \in server.history :
            h.at <= asked[Sync(client.conn)].timestamp => Known(client.game, h)

KnownInv ==
    HistoryFull /\ AskedBefore /\ LineInv /\ ComingInv /\ TimesKnown /\ SyncKnown

\* The line is a sequence of replies and notifications.
LEMMA LineTypes ==
    ASSUME TypeInv
    PROVE  /\ Arriving \in Nat /\ LineLength \in Nat /\ Arriving <= LineLength
           /\ Len(queue) \in Nat /\ DOMAIN queue = 1..Len(queue)
           /\ DOMAIN down[client.conn] = 1..Arriving
           /\ DOMAIN Line = 1..LineLength
           /\ \A i \in DOMAIN Line : Line[i] \in Reply \cup Notification \cup {Nothing}
<1> DEFINE T == [to : Conns, notification : Notification]
<1>1. /\ down[client.conn] \in Seq(Reply \cup Notification)
      /\ queue \in Seq(T)
  BY UnderwayTypes
<1>2. \A q \in T : q.notification \in Notification
  OBVIOUS
<1> HIDE DEF T
<1>3. /\ Arriving \in Nat /\ DOMAIN down[client.conn] = 1..Arriving
      /\ Len(queue) \in Nat /\ DOMAIN queue = 1..Len(queue)
      /\ \A i \in 1..Arriving : down[client.conn][i] \in Reply \cup Notification
      /\ \A i \in 1..Len(queue) : queue[i] \in T
  BY <1>1 DEF Arriving
<1>4. LineLength \in Nat /\ Arriving <= LineLength /\ DOMAIN Line = 1..LineLength
  BY <1>3 DEF LineLength, Line
<1>5. ASSUME NEW i \in 1..LineLength
      PROVE  Line[i] \in Reply \cup Notification \cup {Nothing}
  <2>1. CASE i <= Arriving
    <3>1. Line[i] = down[client.conn][i] /\ i \in 1..Arriving
      BY <1>3, <1>5, <2>1 DEF Line
    <3> QED
      BY <1>3, <3>1
  <2>2. CASE ~(i <= Arriving)
    <3>1. i - Arriving \in 1..Len(queue)
      BY <1>3, <1>5, <2>2 DEF LineLength
    <3>2. Line[i] \in {queue[i - Arriving].notification, Nothing}
      BY <2>2 DEF Line
    <3>3. queue[i - Arriving].notification \in Notification
      BY <1>2, <1>3, <3>1
    <3> QED
      BY <3>2, <3>3
  <2> QED
    BY <2>1, <2>2
<1> QED
  BY <1>3, <1>4, <1>5

\* What the messages of the line bring.
LEMMA ItemTypes ==
    ASSUME TypeInv, NEW m \in Reply \cup Notification \cup {Nothing}
    PROVE  /\ IsPast(m) => m \in Notification /\ m.data \in server.history /\ m.data.phase \in Nat
           /\ Stamps(m) \subseteq Nat /\ \A t \in Stamps(m) : t <= server.now
<1>1. server.now \in Nat /\ server.history \subseteq Archive
  BY DEF TypeInv, StateOK, Server
<1>2. \A h \in Archive : h.phase \in Nat /\ h.at \in Times
  BY DEF Archive
<1>3. \A x \in Message : x.at \in Times
  BY DEF Message
<1>4. CASE m \in Reply
  <2>1. ~IsPast(m) /\ m.type \in {"response", "error"}
    BY <1>4 DEF Reply, IsPast
  <2>2. Stamps(m) = IF m.type = "response" /\ m.id \in Requested THEN {m.data} ELSE {}
    BY <2>1 DEF Stamps
  <2>3. m.type = "response" /\ m.id \in Requested => m.data \in Times
    BY <1>4 DEF Reply
  <2>4. Stamps(m) \subseteq Times
    BY <2>2, <2>3
  <2> QED
    BY <1>1, <2>1, <2>4 DEF Times
<1>5. CASE m \in Notification
  <2>1. IsPast(m) => m.data \in server.history
    BY <1>5 DEF Notification, IsPast
  <2>2. m.type = "message" => m.data \in Message
    BY <1>5 DEF Notification
  <2>3. m.type = "phase" => m.data.messages \subseteq Message
    BY <1>5 DEF Notification, PhaseData
  <2>4. m.type # "response"
    BY <1>5, MessageKinds
  <2>5. Stamps(m) \subseteq Times
    <3>1. CASE IsPast(m)
      BY <1>1, <1>2, <2>1, <3>1 DEF Stamps
    <3>2. CASE m.type = "message"
      BY <1>3, <2>2, <3>2 DEF Stamps
    <3>3. CASE ~IsPast(m) /\ m.type = "phase"
      <4>1. Stamps(m) = {x.at : x \in m.data.messages}
        BY <3>3 DEF Stamps
      <4> QED
        BY <1>3, <2>3, <3>3, <4>1
    <3>4. CASE ~IsPast(m) /\ m.type \notin {"message", "phase"}
      BY <2>4, <3>4 DEF Stamps
    <3> QED
      BY <3>1, <3>2, <3>3, <3>4
  <2> QED
    BY <1>1, <1>2, <1>5, <2>1, <2>5 DEF Times
<1>6. CASE m = Nothing
  <2>1. m.type = "none"
    BY <1>6 DEF Nothing
  <2> QED
    BY <2>1 DEF IsPast, Stamps
<1> QED
  BY <1>4, <1>5, <1>6

\* Nothing is plain.
LEMMA NothingPlain == ASSUME NEW g, NEW H PROVE Plain(Nothing, g, H) /\ ~IsPast(Nothing)
  BY DEF Plain, Nothing, Leveled, IsPast, Stamps

\* The history of the server, and the game of the client.
LEMMA GameTypes ==
    ASSUME TypeInv
    PROVE  /\ \A h \in server.history : h.phase \in Nat \ {0} /\ h.at \in Nat /\ h.at <= server.now
           /\ client.game.history \subseteq server.history /\ client.game.phase \in Nat
           /\ server.phase \in Nat /\ server.now \in Nat
           /\ \A t \in GameTimes(client.game) : t \in Nat /\ t <= server.now
<1>1. /\ server.now \in Nat /\ server.history \subseteq Archive /\ server.phase \in Nat
      /\ client.game \in Game
  BY ClientParts DEF TypeInv, StateOK, Server
<1>2. \A h \in server.history : h.phase \in Nat \ {0} /\ h.at \in Times
  BY <1>1 DEF Archive
<1>3. /\ client.game.history \subseteq server.history /\ client.game.phase \in Nat
      /\ client.game.messages \subseteq Message
  BY <1>1 DEF Game
<1>4. \A x \in client.game.messages : x.at \in Times
  BY <1>3 DEF Message
<1>5. \A t \in GameTimes(client.game) : t \in Times
  BY <1>2, <1>3, <1>4 DEF GameTimes
<1> QED
  BY <1>1, <1>2, <1>3, <1>5 DEF Times

----------------------------------------------------------------------------
(* The client reads.                                                        *)

\* The answer to a request of the game.
LEMMA ResponseReads ==
    ASSUME TypeInv, NEW r, r.type = "response", r.id \in Requested
    PROVE  Reads(client.game, OnResponse(client.game, r.id, r), r)
<1> DEFINE g == client.game
           e == OnResponse(g, r.id, r)
           m == [id |-> r.id, at |-> r.data]
<1>1. g \in Game
  BY ClientParts DEF TypeInv
<1>2. ~IsPast(r) /\ r.type # "phase" /\ Stamps(r) = {r.data} /\ m.at = r.data
  BY DEF IsPast, Stamps
<1> HIDE DEF m
<1>3. /\ e.history = g.history /\ e.phase = g.phase
      /\ e.messages \subseteq g.messages \cup {m}
  <2>1. e = [g EXCEPT !.messages = @ \cup {m}] \/ e = [g EXCEPT !.orders = r.id] \/ e = g
    BY DEF OnResponse, MessageSent, OrdersSet, m
  <2> HIDE DEF e, g
  <2> QED
    BY <1>1, <2>1 DEF Game
<1> HIDE DEF e, g
<1>4. Past(e) = Past(g)
  BY <1>3 DEF Past
<1>5. GameTimes(e) \subseteq GameTimes(g) \cup Stamps(r)
  BY <1>2, <1>3 DEF GameTimes
<1>6. Reads(g, e, r)
  BY <1>2, <1>3, <1>4, <1>5 DEF Reads
<1> QED
  BY <1>6 DEF e, g

\* A notification.
LEMMA NotificationReads ==
    ASSUME TypeInv, NEW n \in Notification
    PROVE  Reads(client.game, OnNotification(client.game, n), n)
<1> DEFINE g == client.game
           e == OnNotification(g, n)
<1>1. g \in Game
  BY ClientParts DEF TypeInv
<1>2. n.type \in {"message", "state_history", "processed", "phase"}
  BY MessageKinds
<1>3. CASE n.type = "message"
  <2>1. e = [g EXCEPT !.messages = @ \cup {n.data}]
    BY <1>3 DEF OnNotification
  <2> HIDE DEF e, g
  <2>2. e.history = g.history /\ e.phase = g.phase /\ e.messages = g.messages \cup {n.data}
    BY <1>1, <2>1 DEF Game
  <2>3. ~IsPast(n) /\ Stamps(n) = {n.data.at}
    BY <1>3 DEF IsPast, Stamps
  <2>4. Past(e) = Past(g) /\ GameTimes(e) \subseteq GameTimes(g) \cup Stamps(n)
    BY <2>2, <2>3 DEF Past, GameTimes
  <2> QED
    BY <1>3, <2>2, <2>3, <2>4 DEF Reads, g, e
<1>4. CASE n.type = "state_history"
  <2>1. e = [g EXCEPT !.history = @ \cup {n.data}]
    BY <1>4 DEF OnNotification, ExtendPhaseHistory
  <2> HIDE DEF e, g
  <2>2. e.history = g.history \cup {n.data} /\ e.phase = g.phase /\ e.messages = g.messages
    BY <1>1, <2>1 DEF Game
  <2>3. IsPast(n) /\ Stamps(n) = {n.data.at}
    BY <1>4 DEF IsPast, Stamps
  <2>4. /\ Past(e) = Past(g) \cup {n.data.phase}
        /\ GameTimes(e) \subseteq GameTimes(g) \cup Stamps(n)
    BY <2>2, <2>3 DEF Past, GameTimes
  <2> QED
    BY <1>4, <2>2, <2>3, <2>4 DEF Reads, g, e
<1>5. CASE n.type = "phase"
  <2>1. e = [phase |-> n.data.phase, history |-> {}, messages |-> n.data.messages,
             orders |-> n.data.orders]
    BY <1>5 DEF OnNotification, SetPhaseData
  <2> HIDE DEF e, g
  <2>2. e.history = {} /\ e.phase = n.data.phase /\ e.messages = n.data.messages
    BY <2>1
  <2>3. ~IsPast(n) /\ Leveled(n) /\ Level(n) = n.data.phase
        /\ Stamps(n) = {m.at : m \in n.data.messages}
    BY <1>5 DEF IsPast, Leveled, Level, Stamps
  <2>4. Past(e) = {} /\ GameTimes(e) \subseteq GameTimes(g) \cup Stamps(n)
    BY <2>2, <2>3 DEF Past, GameTimes
  <2> QED
    BY <1>5, <2>2, <2>3, <2>4 DEF Reads, g, e
<1>6. CASE n.type = "processed"
  <2> DEFINE x == [g EXCEPT !.history = @ \cup {n.data}]
  <2>1. e = [x EXCEPT !.phase = n.data.phase + 1, !.messages = {}, !.orders = None]
    BY <1>6 DEF OnNotification, ExtendPhaseHistory
  <2> HIDE DEF e, g
  <2>2. /\ x.history = g.history \cup {n.data}
        /\ x \in [phase : 1..MaxPhase, history : SUBSET (server.history \cup {n.data}),
                  messages : SUBSET Message, orders : Orders]
    BY <1>1 DEF Game
  <2> HIDE DEF x
  <2>3. e.history = x.history /\ e.phase = n.data.phase + 1 /\ e.messages = {}
    BY <2>1, <2>2
  <2>4. IsPast(n) /\ Leveled(n) /\ Level(n) = n.data.phase + 1 /\ Stamps(n) = {n.data.at}
    BY <1>6 DEF IsPast, Leveled, Level, Stamps
  <2>5. /\ Past(e) = Past(g) \cup {n.data.phase}
        /\ GameTimes(e) \subseteq GameTimes(g) \cup Stamps(n)
    BY <2>2, <2>3, <2>4 DEF Past, GameTimes
  <2> QED
    BY <1>6, <2>3, <2>4, <2>5 DEF Reads, g, e
<1> QED
  BY <1>2, <1>3, <1>4, <1>5, <1>6

\* A game that reads a message of no phase and no time stays as it is.
LEMMA SameReads ==
    ASSUME NEW g, NEW n, ~IsPast(n)
    PROVE  Reads(g, g, n)
  BY DEF Reads

\* OnSocketMessage is the reading of the first message of the line.
LEMMA SocketReads ==
    ASSUME TypeInv, OnSocketMessage, client'.mode = "reading"
    PROVE  Reads(client.game, client'.game, Head(down[client.conn]))
<1> DEFINE m == Head(down[client.conn])
           c == [client EXCEPT !.waiting = @ \ {m.id}]
<1>1. client \in Client /\ AskedOK /\ StateOK
  BY DEF TypeInv, StateOK
<1>2. m \in Reply \cup Notification
  <2>1. down[client.conn] \in Seq(Reply \cup Notification) /\ down[client.conn] # <<>>
    BY UnderwayTypes, SocketEffect
  <2> QED
    BY <2>1
<1>3. c \in Client /\ c.game = client.game
  BY <1>1 DEF Client
<1>4. IF m.type \in {"response", "error"} THEN OnSocketResponse(m) ELSE OnSocketNotification(m)
  BY DEF OnSocketMessage
<1> HIDE DEF m
<1>5. CASE m \in Reply
  <2>1. m.type \in {"response", "error"} /\ ~IsPast(m)
    BY <1>5, MessageKinds DEF IsPast
  <2>2. client' = IF \/ m.id \notin client.waiting \/ m.type = "error"
                     \/ IsSync(m.id) /\ client.timedOut
                  THEN c
                  ELSE IF IsSync(m.id) THEN SyncDone(c, m.data)
                  ELSE [c EXCEPT !.game = OnResponse(@, m.id, m)]
    BY <1>4, <2>1 DEF OnSocketResponse
  <2> HIDE DEF c
  <2>3. CASE client' = c \/ client' = SyncDone(c, m.data)
    <3>1. client'.game = c.game
      <4>1. SyncDone(c, m.data).game = c.game
        BY <1>3, SyncDoneEffect
      <4> QED
        BY <2>3, <4>1
    <3>2. client'.game = client.game
      BY <1>3, <3>1
    <3> QED
      BY <2>1, <3>2, SameReads DEF m
  <2>4. CASE m.id \in client.waiting /\ m.type = "response" /\ ~IsSync(m.id)
             /\ client' = [c EXCEPT !.game = OnResponse(@, m.id, m)]
    <3>1. m.id \in Requested
      BY <1>1, <2>4, KindsApart DEF AskedOK, Outstanding
    <3>2. client'.game = OnResponse(client.game, m.id, m)
      BY <1>3, <2>4 DEF Client
    <3> QED
      BY <2>4, <3>1, <3>2, ResponseReads DEF m
  <2> QED
    BY <2>1, <2>2, <2>3, <2>4
<1>6. CASE m \in Notification
  <2>1. OnSocketNotification(m)
    BY <1>4, <1>6, MessageKinds
  <2>2. client' # [client EXCEPT !.mode = "dead"]
    BY <1>1 DEF Client
  <2>3. client' = [client EXCEPT !.game = OnNotification(@, m)]
    BY <2>1, <2>2 DEF OnSocketNotification
  <2>4. client'.game = OnNotification(client.game, m)
    BY <1>1, <2>3 DEF Client
  <2> QED
    BY <1>6, <2>4, NotificationReads DEF m
<1> QED
  BY <1>2, <1>5, <1>6

\* Reading moves the line by one.
LEMMA LineRead ==
    ASSUME TypeInv, TypeInv', OnSocketMessage
    PROVE  /\ LineLength' + 1 = LineLength /\ LineLength' \in Nat
           /\ Line[1] = Head(down[client.conn])
           /\ \A i \in 1..LineLength' : Line'[i] = Line[i + 1]
<1> DEFINE d == down[client.conn]
           M == Reply \cup Notification
           a == Arriving
<1>1. /\ d \in Seq(M) /\ d # <<>> /\ client'.conn = client.conn /\ client.conn \in Conns
      /\ down'[client.conn] = Tail(d) /\ UNCHANGED <<queue, broken>>
  BY UnderwayTypes, SocketEffect DEF TypeInv, StateOK
<1>2. a = Len(d) /\ Arriving' = Len(Tail(d))
  BY <1>1 DEF Arriving
<1> HIDE DEF d, M, a
<1>3. /\ Len(Tail(d)) = Len(d) - 1 /\ Len(d) \in Nat \ {0} /\ Head(d) = d[1]
      /\ \A i \in 1..(Len(d) - 1) : Tail(d)[i] = d[i + 1]
  BY <1>1
<1>4. Arriving' = a - 1 /\ a \in Nat \ {0} /\ Arriving = a
  BY <1>2, <1>3 DEF a
<1>5. LineLength \in Nat /\ a <= LineLength /\ DOMAIN Line = 1..LineLength /\ Len(queue) \in Nat
  BY <1>4, LineTypes
<1>6. LineLength' = LineLength - 1 /\ LineLength' \in Nat /\ DOMAIN Line' = 1..LineLength'
  BY <1>1, <1>4, <1>5 DEF LineLength, Line
<1>7. Line[1] = Head(d)
  <2>1. 1 \in 1..LineLength /\ 1 <= Arriving
    BY <1>4, <1>5
  <2> QED
    BY <1>3, <2>1 DEF Line, d
<1>8. ASSUME NEW i \in 1..LineLength' PROVE Line'[i] = Line[i + 1]
  <2>1. i + 1 \in 1..LineLength /\ i \in Nat
    BY <1>5, <1>6
  <2>2. CASE i <= a - 1
    <3>1. Line'[i] = Tail(d)[i]
      BY <1>1, <1>4, <2>2 DEF Line
    <3>2. Line[i + 1] = d[i + 1]
      <4>1. i + 1 <= Arriving
        BY <1>4, <2>1, <2>2
      <4> QED
        BY <2>1, <4>1 DEF Line, d
    <3>3. i \in 1..(Len(d) - 1)
      BY <1>2, <2>1, <2>2, <1>8
    <3> QED
      BY <1>3, <3>1, <3>2, <3>3
  <2>3. CASE ~(i <= a - 1)
    <3>1. ~(i <= Arriving') /\ ~(i + 1 <= Arriving) /\ (i + 1) - Arriving = i - Arriving'
      BY <1>4, <2>1, <2>3
    <3>2. Line'[i] = IF queue[i - Arriving'].to = client.conn
                     THEN queue[i - Arriving'].notification ELSE Nothing
      BY <1>1, <3>1 DEF Line, Nothing
    <3>3. Line[i + 1] = IF queue[(i + 1) - Arriving].to = client.conn
                        THEN queue[(i + 1) - Arriving].notification ELSE Nothing
      BY <2>1, <3>1 DEF Line
    <3> QED
      BY <3>1, <3>2, <3>3
  <2> QED
    BY <2>2, <2>3
<1> QED
  BY <1>4, <1>5, <1>6, <1>7, <1>8 DEF d

\* The client reads a message: what it knows grows with the line.
LEMMA SocketKnown ==
    ASSUME TypeInv, TypeInv', ConnInv, KnownInv, OnSocketMessage
    PROVE  KnownInv'
<1>1. /\ client.mode = "reading" /\ client'.conn = client.conn
      /\ UNCHANGED <<asked, server, attached, queue, broken>>
      /\ client'.mode = "reading" \/ client'.mode = "dead"
      /\ down[client.conn] # <<>>
  BY SocketEffect DEF ends
<1>2. HistoryFull'
  BY <1>1 DEF KnownInv, HistoryFull
<1>3. CASE client'.mode = "dead"
  <2>1. client'.game = client.game
    <3>1. client \in Client /\ client.mode # "dead"
      BY <1>1 DEF TypeInv, StateOK
    <3> DEFINE m == Head(down[client.conn])
               c == [client EXCEPT !.waiting = @ \ {m.id}]
    <3>2. c \in Client /\ c.mode = client.mode
      BY <3>1 DEF Client
    <3>3. IF m.type \in {"response", "error"} THEN OnSocketResponse(m) ELSE OnSocketNotification(m)
      BY DEF OnSocketMessage
    <3>4. CASE OnSocketResponse(m)
      <4>1. client' = IF \/ m.id \notin client.waiting \/ m.type = "error"
                         \/ IsSync(m.id) /\ client.timedOut
                      THEN c
                      ELSE IF IsSync(m.id) THEN SyncDone(c, m.data)
                      ELSE [c EXCEPT !.game = OnResponse(@, m.id, m)]
        BY <3>4 DEF OnSocketResponse
      <4> HIDE DEF c, m
      <4>2. SyncDone(c, m.data).mode = c.mode
        BY <3>2, SyncDoneEffect
      <4>3. [c EXCEPT !.game = OnResponse(@, m.id, m)].mode = c.mode
        BY <3>2 DEF Client
      <4> QED
        BY <1>3, <3>1, <3>2, <4>1, <4>2, <4>3
    <3>5. CASE OnSocketNotification(m)
      <4>1. client' = [client EXCEPT !.mode = "dead"]
            \/ client' = [client EXCEPT !.game = OnNotification(@, m)]
        BY <3>5 DEF OnSocketNotification
      <4> HIDE DEF m
      <4> QED
        BY <1>3, <3>1, <4>1 DEF Client
    <3> QED
      BY <3>3, <3>4, <3>5
  <2>2. AskedBefore' /\ TimesKnown'
    BY <1>1, <2>1 DEF KnownInv, AskedBefore, TimesKnown
  <2> QED
    BY <1>2, <1>3, <2>2 DEF KnownInv, LineInv, ComingInv, SyncKnown, Alive
<1>4. CASE client'.mode = "reading"
  <2> DEFINE g == client.game
             e == client'.game
             H == server.history
  <2>1. /\ LineLength' + 1 = LineLength /\ LineLength' \in Nat
        /\ \A i \in 1..LineLength' : Line'[i] = Line[i + 1]
        /\ DOMAIN Line = 1..(LineLength' + 1) /\ DOMAIN Line' = 1..LineLength'
    <3>1. DOMAIN Line' = 1..LineLength'
      BY DEF Line
    <3>2. DOMAIN Line = 1..LineLength
      BY LineTypes
    <3> QED
      BY <3>1, <3>2, LineRead
  <2>2. Reads(g, e, Line[1])
    BY <1>4, SocketReads, LineRead
  <2>3. LineOK(Line, g, H, server.phase)
    BY <1>1 DEF KnownInv, LineInv
  <2>4. /\ g.phase \in Nat /\ e.phase \in Nat /\ server.phase \in Nat
        /\ \A h \in H : h.phase \in Nat
    <3>1. client' \in Client
      BY SocketEffect
    <3>2. e.phase \in Nat
      BY <3>1 DEF Client, Game
    <3> QED
      BY <3>2, GameTypes
  <2>5. \A i \in DOMAIN Line : IsPast(Line[i]) => Line[i].data.phase \in Nat
    BY LineTypes, ItemTypes
  <2>6. 1 \in DOMAIN Line /\ DOMAIN Line \subseteq Nat \ {0}
    <3> DEFINE n == LineLength'
    <3>1. n \in Nat /\ DOMAIN Line = 1..(n + 1)
      BY <2>1
    <3> HIDE DEF n
    <3> QED
      BY <3>1
  <2>7. Rising(Line, server.phase) /\ NotBehind(Line, g) /\ Covered(Line, g, H)
    BY <2>3 DEF LineOK
  <2>8. Leveled(Line[1]) => /\ Level(Line[1]) \in Nat /\ Level(Line[1]) <= server.phase
                            /\ Line[1].type # "state_history" => g.phase <= Level(Line[1])
    BY <2>6, <2>7 DEF Rising, NotBehind
  <2>9. g.phase <= e.phase /\ e.phase <= server.phase
    <3>1. g.phase <= server.phase
      BY DEF KnownInv, AskedBefore
    <3> QED
      BY <2>2, <2>4, <2>8, <3>1 DEF Reads
  <2> HIDE DEF g, e, H
  <2>10. \A h \in H : Known(g, h) => Known(e, h)
    BY <2>2, <2>4, <2>6, <2>7, <2>8, ReadsKnown
  <2>11. AskedBefore'
    <3>1. client'.game.phase <= server'.phase
      BY <1>1, <2>9 DEF e
    <3>2. ASSUME NEW id \in DOMAIN asked, id \in Requested PROVE asked[id].phase <= e.phase
      <4>1. asked[id].phase <= g.phase /\ asked[id].phase \in Int
        BY <3>2, KindsApart DEF KnownInv, AskedBefore, g, TypeInv, GameRequest
      <4> QED
        BY <2>4, <2>9, <4>1
    <3> QED
      BY <1>1, <3>1, <3>2 DEF KnownInv, AskedBefore, e
  <2>12. LineOK(Line', e, H, server.phase)
    BY <2>1, <2>2, <2>3, <2>4, <2>5, ReadLine
  <2>13. AllCome(Line, g, H) => AllCome(Line', e, H)
    BY <2>1, <2>2, <2>10, ReadCome
  <2>14. TimesKnown'
    <3>1. \A h \in H : \A t \in GameTimes(g) : h.at <= t => Known(g, h)
      BY DEF KnownInv, TimesKnown, g, H
    <3>2. \A h \in H : \A t \in GameTimes(e) : h.at <= t => Known(e, h)
      BY <2>2, <2>6, <2>7, <2>10, <3>1, ReadTimes
    <3> QED
      BY <1>1, <3>2 DEF TimesKnown, e, H
  <2>15. LineInv' /\ ComingInv'
    <3>1. Alive' => Alive
      BY <1>1 DEF Alive
    <3>2. ComingInv'
      BY <1>1, <2>13, <3>1 DEF KnownInv, ComingInv, g, e, H
    <3> QED
      BY <1>1, <2>12, <3>2 DEF LineInv, e, H
  <2>16. SyncKnown'
    <3>1. Alive /\ attached # client.conn => FALSE
      BY <1>1 DEF ConnInv, SentToAttached
    <3> QED
      BY <1>1, <3>1 DEF SyncKnown, Alive
  <2> QED
    BY <1>2, <2>11, <2>14, <2>15, <2>16 DEF KnownInv
<1> QED
  BY <1>1, <1>3, <1>4

----------------------------------------------------------------------------
(* The steps that bring no phase.                                           *)

\* The line is of the connection, the queue and what is broken.
LEMMA LineSame ==
    ASSUME UNCHANGED <<down, queue, broken>>, client'.conn = client.conn
    PROVE  Line' = Line
  BY DEF Line, LineLength, Arriving, Nothing

\* The history of the server stays, and the game of the client.
LEMMA KnownStays ==
    ASSUME KnownInv, client'.conn = client.conn, client'.game = client.game,
           server'.history = server.history, server'.phase = server.phase,
           Alive' => Alive, AskedBefore',
           client'.mode = "reading" => LineOK(Line', client.game, server.history, server.phase),
           Alive' /\ attached' = client.conn /\ server'.controlled
              => AllCome(Line', client.game, server.history),
           Alive' /\ attached' # client.conn => attached # client.conn,
           Sync(client.conn) \in DOMAIN asked' =>
              /\ Sync(client.conn) \in DOMAIN asked
              /\ asked'[Sync(client.conn)] = asked[Sync(client.conn)]
    PROVE  KnownInv'
<1>1. HistoryFull'
  BY DEF KnownInv, HistoryFull
<1>2. LineInv'
  BY DEF LineInv
<1>3. ComingInv'
  BY DEF ComingInv
<1>4. TimesKnown'
  BY DEF KnownInv, TimesKnown
<1>5. SyncKnown'
  <2> DEFINE k == client.conn
             s == Sync(k)
  <2> SUFFICES ASSUME Alive', attached' # k, s \in DOMAIN asked',
                      NEW h \in server.history, h.at <= asked'[s].timestamp
               PROVE  Known(client.game, h)
    BY DEF SyncKnown
  <2>1. Alive /\ attached # k /\ s \in DOMAIN asked /\ h.at <= asked[s].timestamp
    OBVIOUS
  <2> QED
    BY <2>1 DEF KnownInv, SyncKnown
<1> QED
  BY <1>1, <1>2, <1>3, <1>4, <1>5 DEF KnownInv

\* Neither the line changes nor the server, and the token does not come to the client's connection.
LEMMA LineStays ==
    ASSUME KnownInv, UNCHANGED <<down, queue, broken>>, client'.conn = client.conn,
           client'.game = client.game, client'.mode = "reading" => client.mode = "reading",
           server'.history = server.history, server'.phase = server.phase, AskedBefore',
           server'.controlled => server.controlled,
           Alive' => (attached' = client.conn <=> attached = client.conn),
           Sync(client.conn) \in DOMAIN asked' =>
              /\ Sync(client.conn) \in DOMAIN asked
              /\ asked'[Sync(client.conn)] = asked[Sync(client.conn)]
    PROVE  KnownInv'
<1>1. Line' = Line
  BY LineSame
<1>2. Alive' => Alive
  BY DEF Alive
<1>3. client'.mode = "reading" => LineOK(Line', client.game, server.history, server.phase)
  BY <1>1 DEF KnownInv, LineInv
<1>4. Alive' /\ attached' = client.conn /\ server'.controlled
         => AllCome(Line', client.game, server.history)
  BY <1>1, <1>2 DEF KnownInv, ComingInv
<1> QED
  BY <1>2, <1>3, <1>4, KnownStays

\* Nothing more is asked, and the games stay in their phases.
LEMMA AskedStays ==
    ASSUME KnownInv, TypeInv, UNCHANGED asked, client'.game = client.game,
           server'.phase = server.phase, server'.now \in Nat, server.now <= server'.now
    PROVE  AskedBefore'
<1>1. server.now \in Nat
  BY GameTypes
<1>2. \A id \in DOMAIN asked : id \notin Requested => asked[id].timestamp \in Nat
  BY KindsApart DEF TypeInv, SyncRequest
<1>3. \A id \in DOMAIN asked : id \notin Requested => asked[id].timestamp <= server'.now
  BY <1>1, <1>2 DEF KnownInv, AskedBefore
<1> QED
  BY <1>3 DEF KnownInv, AskedBefore

\* The player makes a request, for the phase of the client's game.
LEMMA SendKnown == ASSUME TypeInv, KnownInv, NEW kind \in Kinds, Send(kind) PROVE KnownInv'
<1> DEFINE id == Cardinality(DOMAIN asked \cap Requested) + 1
<1>1. /\ id \in Requested
      /\ asked' = Put(asked, id, [kind |-> kind, phase |-> client.game.phase, re_sent |-> FALSE])
  BY DEF Send
<1> HIDE DEF id
<1>2. /\ client'.conn = client.conn /\ client'.game = client.game /\ client'.mode = client.mode
      /\ UNCHANGED <<server, attached, queue, down, broken>>
  BY SendEffect DEF ends, net
<1>3. /\ DOMAIN asked' = DOMAIN asked \cup {id}
      /\ asked'[id].phase = client.game.phase
      /\ \A i \in DOMAIN asked' \ {id} : i \in DOMAIN asked /\ asked'[i] = asked[i]
  BY <1>1 DEF Put
<1>4. AskedBefore'
  <2>1. client.game.phase <= client.game.phase
    BY GameTypes
  <2> QED
    BY <1>1, <1>2, <1>3, <2>1 DEF KnownInv, AskedBefore
<1>5. Sync(client.conn) \notin Requested
  BY ClientParts, Numbers DEF TypeInv
<1>6. Sync(client.conn) \in DOMAIN asked' =>
         /\ Sync(client.conn) \in DOMAIN asked
         /\ asked'[Sync(client.conn)] = asked[Sync(client.conn)]
  BY <1>1, <1>3, <1>5
<1> QED
  BY <1>2, <1>4, <1>6, LineStays

\* A request is written, or timed out; the client notices that the connection is broken, or
\* gives up.
LEMMA OwnKnown ==
    ASSUME TypeInv, KnownInv, NEW id, Write(id) \/ Disconnected \/ GiveUp \/ SyncTimeout
    PROVE  KnownInv'
<1>1. /\ client'.conn = client.conn /\ client'.game = client.game
      /\ client'.mode = "reading" => client.mode = "reading"
      /\ UNCHANGED <<asked, server, attached, queue, down, broken>>
  <2>1. CASE Write(id)
    BY <2>1, WriteEffect DEF ends, TypeInv
  <2>2. CASE Disconnected \/ GiveUp \/ SyncTimeout
    <3>1. client \in Client
      BY DEF TypeInv, StateOK
    <3> QED
      BY <2>2, <3>1 DEF Disconnected, GiveUp, SyncTimeout, Client, ends, net
  <2> QED
    BY <2>1, <2>2
<1>2. AskedBefore'
  BY <1>1 DEF KnownInv, AskedBefore
<1> QED
  BY <1>1, <1>2, LineStays

\* The server notices that a connection is broken.
LEMMA CloseKnown == ASSUME TypeInv, KnownInv, NEW k \in Conns, OnClose(k) PROVE KnownInv'
<1>1. /\ k \in broken /\ UNCHANGED <<client, asked, server, queue, down, broken>>
      /\ attached' = IF attached = k THEN None ELSE attached
  BY DEF OnClose
<1>2. AskedBefore'
  BY <1>1 DEF KnownInv, AskedBefore
<1>3. Alive' => k # client.conn
  BY <1>1 DEF Alive
<1>4. client.conn # None
  BY ClientParts, Numbers DEF TypeInv
<1>5. Alive' => (attached' = client.conn <=> attached = client.conn)
  BY <1>1, <1>3, <1>4
<1> QED
  BY <1>1, <1>2, <1>5, LineStays

\* The power is taken away.
LEMMA KickKnown == ASSUME TypeInv, KnownInv, Kick PROVE KnownInv'
<1>1. /\ server'.phase = server.phase /\ server'.history = server.history
      /\ server'.now = server.now /\ server.controlled
      /\ UNCHANGED <<client, asked, attached, queue, down, broken>>
  BY KickEffect DEF ends, net, Kick
<1>2. AskedBefore'
  BY <1>1 DEF KnownInv, AskedBefore
<1> QED
  BY <1>1, <1>2, LineStays

\* The connection breaks, and the end of the line is lost.
LEMMA BreakKnown == ASSUME TypeInv, KnownInv, Break PROVE KnownInv'
<1> DEFINE k == client.conn
           d == down[k]
           M == Reply \cup Notification
<1>1. /\ Alive /\ k \in Conns /\ broken' = broken \cup {k}
      /\ UNCHANGED <<client, asked, server, attached, queue>>
  BY BreakEffect DEF ends
<1>2. PICK n \in 0..Len(d) : down' = [down EXCEPT ![k] = SubSeq(@, 1, n)]
  BY DEF Break
<1>3. down \in [Conns -> Seq(M)] /\ d \in Seq(M)
  BY <1>1 DEF TypeInv, StateOK
<1>4. down'[k] = SubSeq(d, 1, n)
  BY <1>1, <1>2, <1>3
<1> HIDE DEF d, M
<1>5. /\ Len(SubSeq(d, 1, n)) = n /\ n \in Nat /\ n <= Len(d)
      /\ \A i \in 1..n : SubSeq(d, 1, n)[i] = d[i]
  BY <1>2, <1>3
<1>6. Arriving' = n /\ Arriving = Len(d)
  BY <1>1, <1>4, <1>5 DEF Arriving, d
<1>7. LineLength' = n /\ DOMAIN Line' = 1..n
  BY <1>1, <1>5, <1>6 DEF LineLength, Line
<1>8. LineLength \in Nat /\ n \in 0..LineLength /\ DOMAIN Line = 1..LineLength
  BY <1>5, <1>6, LineTypes
<1>9. ASSUME NEW i \in 1..n PROVE Line'[i] = Line[i]
  <2>1. i <= Arriving' /\ i <= Arriving /\ i \in 1..LineLength
    BY <1>5, <1>6, <1>8
  <2>2. Line'[i] = SubSeq(d, 1, n)[i]
    BY <1>1, <1>4, <1>7, <2>1 DEF Line
  <2>3. Line[i] = d[i]
    BY <2>1 DEF Line, d
  <2> QED
    BY <1>5, <2>2, <2>3
<1>10. LineOK(Line, client.game, server.history, server.phase)
  BY <1>1 DEF KnownInv, LineInv, Alive
<1>11. LineOK(Line', client.game, server.history, server.phase)
  BY <1>7, <1>8, <1>9, <1>10, CutOff
<1>12. AskedBefore'
  BY <1>1 DEF KnownInv, AskedBefore
<1>13. ~Alive'
  BY <1>1 DEF Alive
<1> QED
  BY <1>1, <1>11, <1>12, <1>13, KnownStays

\* The client connects again, and asks for what came after its latest timestamp.
LEMMA ConnectKnown == ASSUME TypeInv, ConnInv, KnownInv, Connect PROVE KnownInv'
<1> DEFINE k == client.conn + 1
           ts == GetLatestTimestamp(client.game)
<1>1. /\ k \in Conns /\ client'.conn = k /\ client'.game = client.game /\ client'.mode = "reading"
      /\ UNCHANGED <<server, attached, queue, down, broken>>
      /\ DOMAIN asked' = DOMAIN asked \cup {Sync(k)} /\ asked'[Sync(k)].timestamp = ts
      /\ \A id \in DOMAIN asked \ {Sync(k)} :
            asked'[id] = IF id \in client.waiting
                         THEN [asked[id] EXCEPT !.re_sent = TRUE] ELSE asked[id]
  BY ConnectEffect DEF ends, net
<1>2. k > client.conn
  <2>1. client.conn \in Nat
    BY ClientParts, Numbers DEF TypeInv
  <2> QED
    BY <2>1
<1>3. ts \in Nat /\ ts <= server.now /\ (ts = 0 \/ ts \in GameTimes(client.game))
  <2> DEFINE S == {0} \cup {h.at : h \in client.game.history}
                      \cup {m.at : m \in client.game.messages}
  <2>1. S = {0} \cup GameTimes(client.game)
    BY DEF GameTimes
  <2>2. ts = Max(S)
    BY DEF GetLatestTimestamp
  <2> HIDE DEF S, ts
  <2>3. S \subseteq 0..server.now /\ S # {} /\ server.now \in Nat
    BY <2>1, GameTypes
  <2>4. Max(S) \in S
    BY <2>3, MaxOfBounded
  <2> QED
    BY <2>1, <2>2, <2>3, <2>4
<1> HIDE DEF k, ts
<1>4. down[k] = <<>> /\ k \notin broken /\ attached # k /\ \A i \in DOMAIN queue : queue[i].to # k
  BY <1>1, <1>2 DEF ConnInv, NothingAhead
<1>5. Arriving' = 0 /\ LineLength' = Len(queue) /\ Len(queue) \in Nat
      /\ DOMAIN queue = 1..Len(queue) /\ DOMAIN Line' = 1..Len(queue)
  <2>1. Len(<<>>) = 0
    OBVIOUS
  <2>2. Arriving' = 0 /\ Len(queue) \in Nat /\ DOMAIN queue = 1..Len(queue)
    BY <1>1, <1>4, <2>1, LineTypes DEF Arriving
  <2>3. LineLength' = Len(queue)
    BY <1>1, <1>4, <2>2 DEF LineLength
  <2> QED
    BY <2>2, <2>3 DEF Line
<1>6. ASSUME NEW i \in 1..Len(queue) PROVE Line'[i] = Nothing
  <2>1. ~(i <= Arriving') /\ i - Arriving' = i
    BY <1>5
  <2>2. queue[i].to # k
    BY <1>4, <1>5
  <2> QED
    BY <1>1, <1>5, <2>1, <2>2 DEF Line, Nothing
<1>7. LineInv'
  <2>1. \A i \in DOMAIN Line' : ~Leveled(Line'[i]) /\ Stamps(Line'[i]) = {}
    BY <1>5, <1>6 DEF Nothing, Leveled, IsPast, Stamps
  <2> QED
    BY <2>1 DEF LineInv, LineOK, Rising, NotBehind, Covered
<1>8. HistoryFull' /\ TimesKnown'
  BY <1>1 DEF KnownInv, HistoryFull, TimesKnown
<1>9. ComingInv'
  BY <1>1, <1>4 DEF ComingInv
<1>10. SyncKnown'
  <2> SUFFICES ASSUME NEW h \in server.history, h.at <= ts PROVE Known(client.game, h)
    BY <1>1 DEF SyncKnown
  <2>1. h.at > 0 /\ h.at \in Nat
    BY GameTypes DEF KnownInv, HistoryFull
  <2>2. ts \in GameTimes(client.game)
    BY <1>3, <2>1
  <2> QED
    BY <2>2 DEF KnownInv, TimesKnown
<1>11. AskedBefore'
  <2>1. Sync(k) \notin Requested
    BY <1>1, Numbers
  <2>2. ASSUME NEW id \in DOMAIN asked \ {Sync(k)}
        PROVE  IF id \in Requested THEN asked'[id].phase = asked[id].phase
               ELSE asked'[id].timestamp = asked[id].timestamp
    <3>1. IF id \in Requested THEN asked[id] \in GameRequest ELSE asked[id] \in SyncRequest
      BY KindsApart DEF TypeInv
    <3>2. asked'[id] = [asked[id] EXCEPT !.re_sent = TRUE] \/ asked'[id] = asked[id]
      BY <1>1
    <3> QED
      BY <3>1, <3>2 DEF GameRequest, SyncRequest
  <2> QED
    BY <1>1, <1>3, <2>1, <2>2 DEF KnownInv, AskedBefore
<1> QED
  BY <1>7, <1>8, <1>9, <1>10, <1>11 DEF KnownInv

\* What was queued for the client's connection is written to it: the line stays as it is.  What
\* was queued for another goes.
LEMMA NotificationKnown == ASSUME TypeInv, KnownInv, SendNotification PROVE KnownInv'
<1> DEFINE k == client.conn
           a == Arriving
           q == Len(queue)
           T == [to : Conns, notification : Notification]
           m == queue[1].notification
<1>1. /\ queue[1] \in T /\ down' = Sent(queue[1].to, m)
      /\ UNCHANGED <<client, asked, server, attached, broken>>
  BY NotificationSent DEF ends
<1>2. /\ q \in Nat \ {0} /\ Len(queue') = q - 1
      /\ \A i \in 1..(q - 1) : queue'[i] = queue[i + 1]
  <2>1. queue \in Seq(T) /\ queue # <<>> /\ queue' = Tail(queue)
    BY UnderwayTypes DEF SendNotification
  <2> HIDE DEF T
  <2> QED
    BY <2>1
<1>3. /\ k \in Conns /\ down \in [Conns -> Seq(Reply \cup Notification)]
      /\ down[k] \in Seq(Reply \cup Notification) /\ queue[1].to \in Conns
      /\ m \in Reply \cup Notification
  BY <1>1, UnderwayTypes DEF TypeInv, StateOK
<1>4. /\ a \in Nat /\ LineLength \in Nat /\ DOMAIN Line = 1..LineLength /\ a = Len(down[k])
      /\ LineLength = a + IF k \in broken THEN 0 ELSE q
  BY LineTypes DEF LineLength, Arriving
<1>5. down'[k] = IF queue[1].to = k /\ k \notin broken THEN Append(down[k], m) ELSE down[k]
  <2>1. Sent(queue[1].to, m)[k]
           = IF k = queue[1].to /\ Open(queue[1].to) THEN Append(down[queue[1].to], m) ELSE down[k]
    BY <1>3, SentEffect
  <2> QED
    BY <1>1, <2>1 DEF Open
<1>6. AskedBefore'
  BY <1>1 DEF KnownInv, AskedBefore
<1>7. LineLength' = Arriving' + (IF k \in broken THEN 0 ELSE q - 1) /\ DOMAIN Line' = 1..LineLength'
  BY <1>1, <1>2 DEF LineLength, Line
<1>8. client.mode = "reading" => LineOK(Line, client.game, server.history, server.phase)
  BY DEF KnownInv, LineInv
<1>9. Alive /\ attached = k /\ server.controlled => AllCome(Line, client.game, server.history)
  BY DEF KnownInv, ComingInv
<1>10. Alive' <=> Alive
  BY <1>1 DEF Alive
<1>11. CASE k \in broken \/ queue[1].to = k
  <2>1. LineLength' = LineLength
    <3>1. CASE k \in broken
      <4>1. Arriving' = a
        BY <1>1, <1>5, <3>1 DEF Arriving
      <4> QED
        BY <1>4, <1>7, <3>1, <4>1
    <3>2. CASE k \notin broken
      <4>1. Arriving' = a + 1
        BY <1>1, <1>3, <1>4, <1>5, <1>11, <3>2 DEF Arriving
      <4> QED
        BY <1>2, <1>4, <1>7, <3>2, <4>1
    <3> QED
      BY <3>1, <3>2
  <2>2. ASSUME NEW i \in 1..LineLength PROVE Line'[i] = Line[i]
    <3>1. CASE k \in broken
      <4>1. down'[k] = down[k] /\ Arriving' = a /\ i <= a
        BY <1>1, <1>4, <1>5, <3>1 DEF Arriving
      <4> QED
        BY <1>1, <2>1, <4>1 DEF Line
    <3>2. CASE k \notin broken
      <4>1. /\ Arriving' = a + 1 /\ down'[k] = Append(down[k], m)
            /\ \A j \in 1..a : down'[k][j] = down[k][j]
            /\ down'[k][a + 1] = m
        BY <1>1, <1>3, <1>4, <1>5, <1>11, <3>2 DEF Arriving
      <4>2. CASE i <= a
        <5>1. i <= Arriving' /\ i \in 1..a
          BY <1>4, <4>1, <4>2
        <5> QED
          BY <1>1, <2>1, <4>1, <4>2, <5>1 DEF Line
      <4>3. CASE i = a + 1
        <5>1. Line'[i] = m
          BY <1>1, <1>4, <2>1, <4>1, <4>3 DEF Line
        <5>2. ~(i <= a) /\ i - a = 1
          BY <1>4, <4>3
        <5>3. Line[i] = m
          BY <1>11, <3>2, <5>2 DEF Line
        <5> QED
          BY <5>1, <5>3, SMTT(60)
      <4>4. CASE i > a + 1
        <5>1. /\ ~(i <= a) /\ ~(i <= Arriving') /\ i - Arriving' = (i - a) - 1
              /\ (i - a) - 1 \in 1..(q - 1) /\ ((i - a) - 1) + 1 = i - a
          BY <1>2, <1>4, <3>2, <4>1, <4>4
        <5>2. queue'[i - Arriving'] = queue[i - a]
          BY <1>2, <5>1
        <5> QED
          BY <1>1, <2>1, <5>1, <5>2 DEF Line, Nothing
      <4> QED
        BY <1>4, <4>2, <4>3, <4>4
    <3> QED
      BY <3>1, <3>2
  <2>3. Line' = Line
    <3>1. DOMAIN Line' = 1..LineLength /\ DOMAIN Line = 1..LineLength
      BY <1>4, <1>7, <2>1
    <3>2. Line = [i \in 1..LineLength |-> Line[i]] /\ Line' = [i \in 1..LineLength |-> Line'[i]]
      BY <2>1 DEF Line
    <3> QED
      BY <2>2, <3>2
  <2>4. client'.mode = "reading" => LineOK(Line', client.game, server.history, server.phase)
    BY <1>1, <1>8, <2>3
  <2>5. Alive' /\ attached' = k /\ server'.controlled
           => AllCome(Line', client.game, server.history)
    BY <1>1, <1>9, <1>10, <2>3
  <2> QED
    BY <1>1, <1>6, <1>10, <2>4, <2>5, KnownStays
<1>12. CASE k \notin broken /\ queue[1].to # k
  <2> DEFINE n == a + (q - 1)
  <2>1. /\ down'[k] = down[k] /\ Arriving' = a /\ LineLength' = n /\ LineLength = n + 1 /\ n \in Nat
        /\ a + 1 \in 1..(n + 1)
    <3>1. down'[k] = down[k] /\ Arriving' = a
      BY <1>1, <1>5, <1>12 DEF Arriving
    <3> QED
      BY <1>2, <1>4, <1>7, <1>12, <3>1
  <2>0. a \in Nat /\ q \in Nat \ {0} /\ n = a + (q - 1)
    BY <1>2, <1>4
  <2> HIDE DEF n, a, q
  <2>2. ASSUME NEW i \in 1..((a + 1) - 1) PROVE Line'[i] = Line[i]
    <3>1. i <= a /\ i \in 1..n /\ i \in 1..(n + 1)
      BY <2>0
    <3>2. Line'[i] = IF i <= Arriving' THEN down'[client'.conn][i]
                     ELSE IF queue'[i - Arriving'].to = client'.conn
                     THEN queue'[i - Arriving'].notification ELSE Nothing'
      BY <2>1, <3>1 DEF Line
    <3>3. Line[i] = down[k][i]
      BY <2>1, <3>1 DEF Line, a
    <3> QED
      BY <1>1, <2>1, <3>1, <3>2, <3>3
  <2>3. ASSUME NEW i \in (a + 1)..n PROVE Line'[i] = Line[i + 1]
    <3>1. /\ ~(i <= a) /\ ~(i + 1 <= a) /\ i - a \in 1..(q - 1) /\ (i + 1) - a = (i - a) + 1
          /\ i \in 1..n /\ i + 1 \in 1..(n + 1)
      BY <2>0
    <3>2. queue'[i - a] = queue[(i + 1) - a]
      BY <1>2, <3>1 DEF q
    <3>3. Line'[i] = IF queue'[i - a].to = k THEN queue'[i - a].notification ELSE Nothing
      BY <1>1, <2>1, <3>1 DEF Line, Nothing
    <3>4. Line[i + 1] = IF queue[(i + 1) - a].to = k THEN queue[(i + 1) - a].notification
                        ELSE Nothing
      BY <2>1, <3>1 DEF Line, a
    <3> QED
      BY <3>2, <3>3, <3>4
  <2>4. Line[a + 1] = Nothing
    <3>1. ~(a + 1 <= a) /\ (a + 1) - a = 1 /\ a + 1 \in 1..(n + 1)
      BY <2>0
    <3> QED
      BY <1>12, <2>1, <3>1 DEF Line, a
  <2>5. DOMAIN Line = 1..(n + 1) /\ DOMAIN Line' = 1..n /\ ~IsPast(Line[a + 1])
    BY <1>4, <1>7, <2>1, <2>4, NothingPlain DEF a, q
  <2>6. ASSUME client'.mode = "reading"
        PROVE  LineOK(Line', client.game, server.history, server.phase)
    BY <1>1, <1>8, <2>1, <2>2, <2>3, <2>5, <2>6, Dropped DEF a
  <2>7. ASSUME NEW j \in 1..(n + 1), IsPast(Line[j]) PROVE \E y \in 1..n : Line'[y] = Line[j]
    <3>1. CASE j < a + 1
      <4>1. j \in 1..n /\ j \in 1..((a + 1) - 1)
        BY <2>0, <2>1, <3>1
      <4> QED
        BY <2>2, <4>1
    <3>2. CASE j > a + 1
      <4>1. j - 1 \in 1..n /\ j - 1 \in (a + 1)..n /\ (j - 1) + 1 = j
        BY <2>0, <2>1, <3>2
      <4>2. Line'[j - 1] = Line[j]
        BY <2>3, <4>1
      <4> QED
        BY <4>1, <4>2
    <3>3. j # a + 1
      BY <2>5, <2>7
    <3> QED
      BY <2>0, <2>1, <3>1, <3>2, <3>3
  <2>8. ASSUME Alive', attached' = k, server'.controlled
        PROVE  AllCome(Line', client.game, server.history)
    <3>1. AllCome(Line, client.game, server.history) /\ n + 1 \in Nat
      BY <1>1, <1>9, <1>10, <2>1, <2>8
    <3> QED
      BY <2>1, <2>5, <2>7, <3>1, StillComes
  <2> QED
    BY <1>1, <1>6, <1>10, <2>6, <2>8, KnownStays
<1> QED
  BY <1>11, <1>12

\* What is notified reaches the end of the queue.
LEMMA NotifiedIs ==
    ASSUME NEW N, queue \in Seq([to : Conns, notification : N]), NEW ns \in Seq(N),
           attached' \in Conns, server.controlled
    PROVE  /\ Len(Notified(ns)) = Len(queue) + Len(ns)
           /\ \A i \in 1..Len(queue) : Notified(ns)[i] = queue[i]
           /\ \A i \in 1..Len(ns) :
                 Notified(ns)[Len(queue) + i] = [to |-> attached', notification |-> ns[i]]
<1> DEFINE T == [to : Conns, notification : N]
           new == [i \in DOMAIN ns |-> [to |-> attached', notification |-> ns[i]]]
<1>1. Notified(ns) = queue \o new
  BY Numbers DEF Notified
<1>2. Len(ns) \in Nat /\ DOMAIN ns = 1..Len(ns) /\ \A i \in DOMAIN ns : ns[i] \in N
  OBVIOUS
<1>3. new \in Seq(T) /\ Len(new) = Len(ns)
  <2>1. new \in [1..Len(ns) -> T]
    BY <1>2
  <2> QED
    BY <1>2, <2>1
<1>4. \A i \in 1..Len(ns) : new[i] = [to |-> attached', notification |-> ns[i]]
  BY <1>2
<1> HIDE DEF T, new
<1>5. queue \in Seq(T) /\ Len(queue) \in Nat
  BY DEF T
<1>6. /\ Len(queue \o new) = Len(queue) + Len(new)
      /\ \A i \in 1..(Len(queue) + Len(new)) :
            (queue \o new)[i] = IF i <= Len(queue) THEN queue[i] ELSE new[i - Len(queue)]
  BY <1>3, <1>5, ConcatProperties
<1>7. ASSUME NEW i \in 1..Len(ns)
      PROVE  (queue \o new)[Len(queue) + i] = new[i]
  <2>1. /\ Len(queue) + i \in 1..(Len(queue) + Len(new)) /\ ~(Len(queue) + i <= Len(queue))
        /\ (Len(queue) + i) - Len(queue) = i
    BY <1>2, <1>3, <1>5
  <2> QED
    BY <1>6, <2>1
<1>8. ASSUME NEW i \in 1..Len(queue) PROVE (queue \o new)[i] = queue[i]
  <2>1. i \in 1..(Len(queue) + Len(new)) /\ i <= Len(queue)
    BY <1>2, <1>3, <1>5
  <2> QED
    BY <1>6, <2>1
<1> QED
  BY <1>1, <1>3, <1>4, <1>6, <1>7, <1>8

\* The queue grows, and with it the line.
LEMMA LineGrows ==
    ASSUME TypeInv, client'.conn = client.conn, broken' = broken,
           down'[client.conn] = down[client.conn],
           NEW e \in Nat, Len(queue') = Len(queue) + e,
           \A i \in 1..Len(queue) : queue'[i] = queue[i]
    PROVE  LET x == IF client.conn \in broken THEN 0 ELSE e IN
           /\ x \in Nat /\ LineLength' = LineLength + x /\ DOMAIN Line' = 1..(LineLength + x)
           /\ \A i \in 1..LineLength : Line'[i] = Line[i]
           /\ \A i \in 1..x :
                 Line'[LineLength + i] = IF queue'[Len(queue) + i].to = client.conn
                                         THEN queue'[Len(queue) + i].notification ELSE Nothing
<1> DEFINE k == client.conn
           a == Arriving
           q == Len(queue)
           x == IF k \in broken THEN 0 ELSE e
<1>1. /\ a \in Nat /\ q \in Nat /\ LineLength \in Nat
      /\ LineLength = a + IF k \in broken THEN 0 ELSE q
  BY LineTypes DEF LineLength
<1>2. Arriving' = a
  BY DEF Arriving
<1>3. x \in Nat /\ LineLength' = LineLength + x
  BY <1>1, <1>2 DEF LineLength
<1>4. DOMAIN Line' = 1..(LineLength + x)
  BY <1>3 DEF Line
<1>5. ASSUME NEW i \in 1..LineLength PROVE Line'[i] = Line[i]
  <2>1. i \in 1..LineLength'
    BY <1>1, <1>3
  <2>2. CASE i <= a
    BY <1>2, <2>1, <2>2 DEF Line
  <2>3. CASE ~(i <= a)
    <3>1. i - a \in 1..q
      BY <1>1, <2>3
    <3>2. queue'[i - a] = queue[i - a]
      BY <3>1
    <3> QED
      BY <1>2, <2>1, <2>3, <3>2 DEF Line, Nothing
  <2> QED
    BY <2>2, <2>3
<1>6. ASSUME NEW i \in 1..x
      PROVE  Line'[LineLength + i] = IF queue'[q + i].to = k THEN queue'[q + i].notification
                                     ELSE Nothing
  <2>1. k \notin broken
    BY <1>6
  <2>2. /\ LineLength + i \in 1..LineLength' /\ ~(LineLength + i <= a)
        /\ (LineLength + i) - a = q + i
    BY <1>1, <1>3, <2>1
  <2> QED
    BY <1>2, <2>2 DEF Line, Nothing
<1> QED
  BY <1>3, <1>4, <1>5, <1>6

----------------------------------------------------------------------------
(* The server goes on.                                                      *)

\* What is queued brings nothing to the client's connection.
Passes ==
    \E e \in Nat :
        /\ Len(queue') = Len(queue) + e
        /\ \A i \in 1..Len(queue) : queue'[i] = queue[i]
        /\ \A i \in 1..e : client.conn \in broken \/ queue'[Len(queue) + i].to # client.conn

\* One notification comes to the end of the line.
Arrives(n) ==
    /\ Alive /\ attached = client.conn /\ server.controlled
    /\ LineLength' = LineLength + 1
    /\ DOMAIN Line' = 1..(LineLength + 1)
    /\ \A i \in 1..LineLength : Line'[i] = Line[i]
    /\ Line'[LineLength + 1] = n

\* The line is as good as before.
LEMMA PassedBy ==
    ASSUME TypeInv, client'.conn = client.conn, broken' = broken,
           down'[client.conn] = down[client.conn], Passes, NEW g, NEW H, NEW top
    PROVE  /\ LineOK(Line, g, H, top) => LineOK(Line', g, H, top)
           /\ AllCome(Line, g, H) => AllCome(Line', g, H)
<1>1. PICK e \in Nat :
         /\ Len(queue') = Len(queue) + e
         /\ \A i \in 1..Len(queue) : queue'[i] = queue[i]
         /\ \A i \in 1..e : client.conn \in broken \/ queue'[Len(queue) + i].to # client.conn
  BY DEF Passes
<1> DEFINE x == IF client.conn \in broken THEN 0 ELSE e
           n == LineLength
<1>2. /\ x \in Nat /\ DOMAIN Line' = 1..(n + x)
      /\ \A i \in 1..n : Line'[i] = Line[i]
      /\ \A i \in 1..x : Line'[n + i] = IF queue'[Len(queue) + i].to = client.conn
                                        THEN queue'[Len(queue) + i].notification ELSE Nothing
  BY <1>1, LineGrows
<1>3. n \in Nat /\ DOMAIN Line = 1..n
  BY LineTypes
<1>4. ASSUME NEW i \in 1..x PROVE Line'[n + i] = Nothing
  <2>1. client.conn \notin broken /\ i \in 1..e
    BY <1>4
  <2> QED
    BY <1>1, <1>2, <2>1
<1> HIDE DEF x, n
<1>5. ASSUME NEW i \in (n + 1)..(n + x) PROVE Plain(Line'[i], g, H)
  <2>1. i - n \in 1..x /\ n + (i - n) = i
    BY <1>2, <1>3
  <2>2. Line'[i] = Nothing
    BY <1>4, <2>1
  <2> QED
    BY <2>2, NothingPlain
<1>6. \A i \in (n + 1)..n : Line'[i + x] = Line[i]
  BY <1>3
<1>7. n \in 0..n /\ n + x \in Nat
  BY <1>2, <1>3
<1>8. ASSUME LineOK(Line, g, H, top) PROVE LineOK(Line', g, H, top)
  BY <1>2, <1>3, <1>5, <1>6, <1>7, <1>8, Inserted, ZenonT(60)
<1>9. ASSUME AllCome(Line, g, H) PROVE AllCome(Line', g, H)
  <2>1. \A j \in 1..n : j \in 1..(n + x)
    BY <1>2, <1>3
  <2>2. \A j \in 1..n : IsPast(Line[j]) => \E y \in 1..(n + x) : Line'[y] = Line[j]
    BY <1>2, <2>1
  <2> QED
    BY <1>2, <1>3, <1>7, <1>9, <2>2, StillComes
<1> QED
  BY <1>8, <1>9

\* A notification of all players comes to the client's connection if that has the token.
LEMMA NotifiedLine ==
    ASSUME TypeInv, ConnInv, UNCHANGED <<client, attached, broken, down>>,
           NEW N, NEW n \in N, queue \in Seq([to : Conns, notification : N]),
           queue' = Notified(<<n>>)
    PROVE  \/ Passes /\ ~(Alive /\ attached = client.conn /\ server.controlled)
           \/ Arrives(n)
<1>1. <<n>> \in Seq(N) /\ Len(<<n>>) = 1 /\ <<n>>[1] = n
  OBVIOUS
<1>2. Len(queue) \in Nat /\ attached \in Conns \cup {None} /\ client.conn # None
  BY LineTypes, ClientParts, Numbers DEF TypeInv, StateOK
<1>3. CASE attached = None \/ ~server.controlled
  <2>1. queue' = queue
    BY <1>3 DEF Notified
  <2>2. Len(queue') = Len(queue) + 0
    BY <1>2, <2>1
  <2>3. Passes
    <3>1. \A i \in 1..0 : client.conn \in broken \/ queue'[Len(queue) + i].to # client.conn
      OBVIOUS
    <3> QED
      BY <2>1, <2>2, <3>1 DEF Passes
  <2> QED
    BY <1>2, <1>3, <2>3
<1>4. CASE attached # None /\ server.controlled
  <2>1. attached' \in Conns
    BY <1>2, <1>4
  <2>2. /\ Len(queue') = Len(queue) + 1
        /\ \A i \in 1..Len(queue) : queue'[i] = queue[i]
        /\ queue'[Len(queue) + 1] = [to |-> attached', notification |-> n]
    <3>1. /\ Len(Notified(<<n>>)) = Len(queue) + Len(<<n>>)
          /\ \A i \in 1..Len(queue) : Notified(<<n>>)[i] = queue[i]
          /\ \A i \in 1..Len(<<n>>) :
                Notified(<<n>>)[Len(queue) + i] = [to |-> attached', notification |-> <<n>>[i]]
      BY <1>1, <1>4, <2>1, NotifiedIs
    <3>2. 1 \in 1..Len(<<n>>)
      BY <1>1
    <3> QED
      BY <1>1, <3>1, <3>2
  <2>3. CASE client.conn \in broken \/ attached # client.conn
    <3>1. \A i \in 1..1 : client.conn \in broken \/ queue'[Len(queue) + i].to # client.conn
      BY <2>2, <2>3
    <3>2. Passes
      BY <2>2, <3>1 DEF Passes
    <3> QED
      BY <2>3, <3>2 DEF Alive
  <2>4. CASE client.conn \notin broken /\ attached = client.conn
    <3>1. Alive
      BY <2>4, ClientParts DEF ConnInv, BrokeFirst, Alive, TypeInv
    <3>2. /\ LineLength' = LineLength + 1 /\ DOMAIN Line' = 1..(LineLength + 1)
          /\ \A i \in 1..LineLength : Line'[i] = Line[i]
          /\ \A i \in 1..1 :
                Line'[LineLength + i] = IF queue'[Len(queue) + i].to = client.conn
                                        THEN queue'[Len(queue) + i].notification ELSE Nothing
      BY <2>2, <2>4, LineGrows
    <3>3. Line'[LineLength + 1] = n
      BY <2>2, <2>4, <3>2
    <3> QED
      BY <1>4, <2>4, <3>1, <3>2, <3>3 DEF Arrives
  <2> QED
    BY <2>3, <2>4
<1> QED
  BY <1>3, <1>4

\* The line with one more message: it is as good, if the message is of the current phase.
LEMMA ArrivedLine ==
    ASSUME TypeInv, NEW n, Arrives(n), NEW g, NEW H, NEW top \in Nat,
           LineOK(Line, g, H, top), Leveled(n) => Level(n) = top,
           g.phase <= top, \A p \in Past(g) : p < top,
           \A h \in H : \/ Known(g, h)
                        \/ \E j \in DOMAIN Line : IsPast(Line[j]) /\ Line[j].data.phase = h.phase
                        \/ IsPast(n) /\ n.data.phase = h.phase
    PROVE  LineOK(Line', g, H, top) /\ AllCome(Line', g, H)
<1> DEFINE m == LineLength
<1>1. m \in Nat /\ DOMAIN Line = 1..m
  BY LineTypes
<1>2. /\ DOMAIN Line' = 1..(m + 1) /\ \A i \in 1..m : Line'[i] = Line[i]
      /\ Line'[m + 1] = n
  BY DEF Arrives
<1> HIDE DEF m
<1>3. m + 1 \in DOMAIN Line' /\ \A i \in 1..m : i \in DOMAIN Line'
  BY <1>1, <1>2
<1>4. AllCome(Line', g, H)
  <2> SUFFICES ASSUME NEW h \in H, ~Known(g, h)
               PROVE  \E j \in DOMAIN Line' : IsPast(Line'[j]) /\ Line'[j].data.phase = h.phase
    BY DEF AllCome
  <2>1. CASE \E j \in DOMAIN Line : IsPast(Line[j]) /\ Line[j].data.phase = h.phase
    <3>1. PICK j \in 1..m : IsPast(Line[j]) /\ Line[j].data.phase = h.phase
      BY <1>1, <2>1
    <3>2. Line'[j] = Line[j] /\ j \in DOMAIN Line'
      BY <1>2, <1>3
    <3> QED
      BY <3>1, <3>2
  <2>2. CASE IsPast(n) /\ n.data.phase = h.phase
    BY <1>2, <1>3, <2>2
  <2> QED
    BY <2>1, <2>2
<1>5. LineOK(Line', g, H, top)
  BY <1>1, <1>2, <1>4, Appended
<1> QED
  BY <1>4, <1>5

\* A message of another player reaches the client behind all phases.
LEMMA ForeignKnown == ASSUME TypeInv, ConnInv, ArchiveInv, KnownInv, ForeignMessage PROVE KnownInv'
<1>1. PICK m : /\ m \in Message' /\ m.at = server.now + 1
               /\ server'.phase = server.phase /\ server'.history = server.history
               /\ server'.now = server.now + 1
               /\ UNCHANGED <<client, asked, ends, net>>
               /\ queue' = Notified(<<[type |-> "message", data |-> m]>>)
  BY ForeignEffect
<1> DEFINE n == [type |-> "message", data |-> m]
           g == client.game
           H == server.history
<1>2. UNCHANGED <<client, asked, attached, down, broken>> /\ server'.controlled = server.controlled
  <2>1. server \in Server
    BY DEF TypeInv, StateOK
  <2> QED
    BY <1>1, <2>1 DEF ends, net, ForeignMessage, Server
<1>3. n \in Notification' /\ ~Leveled(n)
  BY <1>1 DEF Notification, Leveled, IsPast
<1>4. server.now \in Nat /\ server.phase \in Nat
  BY GameTypes
<1>5. queue \in Seq([to : Conns, notification : Notification'])
  <2>1. server'.now \in Nat /\ server.now <= server'.now /\ server.history \subseteq server'.history
    BY <1>1, <1>4
  <2> QED
    BY <2>1, GrowKeeps DEF TypeInv
<1> HIDE DEF n
<1>6. \/ Passes /\ ~(Alive /\ attached = client.conn /\ server.controlled)
      \/ Arrives(n)
  <2>1. queue' = Notified(<<n>>)
    BY <1>1 DEF n
  <2> QED
    BY <1>2, <1>3, <1>5, <2>1, NotifiedLine
<1>7. AskedBefore'
  <2>1. server'.now \in Nat /\ server.now <= server'.now
    BY <1>1, <1>4
  <2> QED
    BY <1>1, <1>2, <2>1, AskedStays
<1>8. Alive' <=> Alive
  BY <1>2 DEF Alive
<1>9. CASE Passes /\ ~(Alive /\ attached = client.conn /\ server.controlled)
  <2>1. client'.mode = "reading" => LineOK(Line', g, H, server.phase)
    BY <1>2, <1>9, PassedBy DEF KnownInv, LineInv
  <2> QED
    BY <1>1, <1>2, <1>7, <1>8, <1>9, <2>1, KnownStays
<1>10. CASE Arrives(n)
  <2>1. LineOK(Line, g, H, server.phase) /\ AllCome(Line, g, H)
    BY <1>10 DEF Arrives, Alive, KnownInv, LineInv, ComingInv
  <2>2. g.phase <= server.phase /\ \A p \in Past(g) : p < server.phase
    BY GameTypes DEF KnownInv, AskedBefore, ArchiveInv, PhaseOfMessage, Past
  <2>3. LineOK(Line', g, H, server.phase) /\ AllCome(Line', g, H)
    <3>1. \A h \in H : \/ Known(g, h)
                       \/ \E j \in DOMAIN Line : IsPast(Line[j]) /\ Line[j].data.phase = h.phase
                       \/ IsPast(n) /\ n.data.phase = h.phase
      BY <2>1 DEF AllCome
    <3> HIDE DEF g, H
    <3> QED
      BY <1>3, <1>4, <1>10, <2>1, <2>2, <3>1, ArrivedLine
  <2> QED
    BY <1>1, <1>2, <1>7, <1>8, <2>3, KnownStays
<1> QED
  BY <1>6, <1>9, <1>10

\* A phase is processed: the client gets it, or will ask for it.
LEMMA ProcessKnown == ASSUME TypeInv, ConnInv, ArchiveInv, KnownInv, Process PROVE KnownInv'
<1> DEFINE h == [phase |-> server.phase, at |-> server.now + 1, messages |-> server.messages]
           n == [type |-> "processed", data |-> h]
           g == client.game
           H == server.history
           top == server.phase
<1>1. /\ h \in Archive' /\ server'.phase = top + 1 /\ server'.history = H \cup {h}
      /\ server'.now = server.now + 1
      /\ UNCHANGED <<client, asked, ends, net>>
      /\ queue' = Notified(<<n>>)
  BY ProcessEffect
<1>2. UNCHANGED <<client, asked, attached, down, broken>> /\ server'.controlled = server.controlled
  <2>1. server \in Server
    BY DEF TypeInv, StateOK
  <2> QED
    BY <1>1, <2>1 DEF ends, net, Process, Server
<1>3. /\ IsPast(n) /\ Leveled(n) /\ Level(n) = top + 1 /\ n.data = h
      /\ n \in Notification' /\ h.phase = top /\ h.at = server.now + 1
  BY <1>1 DEF Notification, IsPast, Leveled, Level
<1>4. /\ server.now \in Nat /\ top \in Nat /\ top + 1 \in Nat
      /\ \A x \in H : x.phase \in Nat \ {0} /\ x.at \in Nat /\ x.at <= server.now
      /\ \A t \in GameTimes(g) : t \in Nat /\ t <= server.now
      /\ g.phase \in Nat /\ g.history \subseteq H
  BY GameTypes
<1>5. queue \in Seq([to : Conns, notification : Notification'])
  <2>1. server'.now \in Nat /\ server.now <= server'.now /\ server.history \subseteq server'.history
    BY <1>1, <1>4
  <2> QED
    BY <2>1, GrowKeeps DEF TypeInv
<1>6. /\ \A x \in H : x.phase < top
      /\ g.phase <= top /\ HistoryFull
  BY DEF ArchiveInv, PhaseOfMessage, KnownInv, AskedBefore
<1> HIDE DEF n, h
<1>7. \/ Passes /\ ~(Alive /\ attached = client.conn /\ server.controlled)
      \/ Arrives(n)
  BY <1>1, <1>2, <1>3, <1>5, NotifiedLine
<1>8. HistoryFull'
  <2>1. ASSUME NEW p \in 1..top PROVE \E x \in H \cup {h} : x.phase = p
    <3>1. CASE p \in 1..(top - 1)
      BY <1>6, <3>1 DEF HistoryFull
    <3>2. CASE p = top
      BY <1>3, <3>2
    <3> QED
      BY <1>4, <3>1, <3>2
  <2>2. ASSUME NEW x \in H \cup {h}, NEW y \in H \cup {h}, x.at < y.at PROVE x.phase < y.phase
    <3>1. x.at <= server.now /\ x.at \in Nat => x \in H
      BY <1>3, <1>4
    <3>2. x \in H
      <4>1. CASE x = h
        <5>1. y.at <= server.now + 1 /\ y.at \in Nat
          BY <1>3, <1>4
        <5> QED
          BY <1>3, <1>4, <2>2, <4>1, <5>1
      <4> QED
        BY <4>1
    <3>3. CASE y \in H
      BY <1>6, <2>2, <3>2, <3>3 DEF HistoryFull
    <3>4. CASE y = h
      BY <1>3, <1>6, <3>2, <3>4
    <3> QED
      BY <3>3, <3>4
  <2>3. \A x \in H \cup {h} : x.at > 0
    BY <1>3, <1>4, <1>6 DEF HistoryFull
  <2>4. server'.phase - 1 = top
    BY <1>1, <1>4
  <2> HIDE DEF H, top
  <2> QED
    BY <1>1, <2>1, <2>2, <2>3, <2>4 DEF HistoryFull, H
<1>9. AskedBefore'
  <2>1. ASSUME NEW id \in DOMAIN asked, id \notin Requested
        PROVE  asked[id].timestamp <= server.now + 1
    <3>1. asked[id].timestamp <= server.now /\ asked[id].timestamp \in Nat
      BY <2>1, KindsApart DEF TypeInv, SyncRequest, KnownInv, AskedBefore
    <3> QED
      BY <1>4, <3>1
  <2>2. g.phase <= top + 1
    BY <1>4, <1>6
  <2> QED
    BY <1>1, <1>2, <2>1, <2>2 DEF KnownInv, AskedBefore
<1>10. TimesKnown'
  <2>1. ASSUME NEW x \in H \cup {h}, NEW t \in GameTimes(g), x.at <= t PROVE Known(g, x)
    <3>1. x # h
      BY <1>3, <1>4, <2>1
    <3> QED
      BY <2>1, <3>1 DEF KnownInv, TimesKnown
  <2> QED
    BY <1>1, <1>2, <2>1 DEF TimesKnown
<1>11. SyncKnown'
  <2> DEFINE s == Sync(client.conn)
  <2> SUFFICES ASSUME Alive', attached' # client.conn, s \in DOMAIN asked,
                      NEW x \in H \cup {h}, x.at <= asked[s].timestamp
               PROVE  Known(g, x)
    BY <1>1, <1>2 DEF SyncKnown
  <2>1. s \notin Requested
    BY ClientParts, Numbers DEF TypeInv
  <2>2. asked[s].timestamp <= server.now /\ asked[s].timestamp \in Nat
    BY <2>1, KindsApart DEF TypeInv, SyncRequest, KnownInv, AskedBefore
  <2>3. x # h
    BY <1>3, <1>4, <2>2
  <2>4. Alive /\ attached # client.conn
    BY <1>2 DEF Alive
  <2> QED
    BY <2>3, <2>4 DEF KnownInv, SyncKnown
<1>12. LineOK(Line, g, H, top) => LineOK(Line, g, H \cup {h}, top + 1)
  <2>1. \A i \in DOMAIN Line : \A t \in Stamps(Line[i]) : t \in Nat /\ t < h.at
    <3>1. \A i \in DOMAIN Line : \A t \in Stamps(Line[i]) : t \in Nat /\ t <= server.now
      BY LineTypes, ItemTypes
    <3> QED
      BY <1>3, <1>4, <3>1
  <2>2. h.at \in Nat
    BY <1>3, <1>4
  <2> HIDE DEF g, H, top
  <2> QED
    BY <1>4, <2>1, <2>2, GrownLine
<1>13. LineInv' /\ ComingInv'
  <2>1. CASE Passes /\ ~(Alive /\ attached = client.conn /\ server.controlled)
    <3>1. client.mode = "reading" => LineOK(Line', g, H \cup {h}, top + 1)
      BY <1>2, <1>12, <2>1, PassedBy DEF KnownInv, LineInv
    <3> QED
      BY <1>1, <1>2, <2>1, <3>1 DEF LineInv, ComingInv, Alive
  <2>2. CASE Arrives(n)
    <3>1. LineOK(Line, g, H, top) /\ AllCome(Line, g, H)
      BY <2>2 DEF Arrives, Alive, KnownInv, LineInv, ComingInv
    <3>2. g.phase <= top + 1 /\ \A p \in Past(g) : p < top + 1
      <4>1. \A x \in g.history : x.phase < top /\ x.phase \in Nat
        BY <1>4, <1>6
      <4> QED
        BY <1>4, <1>6, <4>1 DEF Past
    <3>3. \A x \in H \cup {h} :
             \/ Known(g, x)
             \/ \E j \in DOMAIN Line : IsPast(Line[j]) /\ Line[j].data.phase = x.phase
             \/ IsPast(n) /\ n.data.phase = x.phase
      BY <1>3, <3>1 DEF AllCome
    <3>4. LineOK(Line', g, H \cup {h}, top + 1) /\ AllCome(Line', g, H \cup {h})
      <4> HIDE DEF g, H, top
      <4> QED
        BY <1>3, <1>4, <1>12, <2>2, <3>1, <3>2, <3>3, ArrivedLine
    <3> QED
      BY <1>1, <1>2, <3>4 DEF LineInv, ComingInv
  <2> QED
    BY <1>7, <2>1, <2>2
<1> QED
  BY <1>8, <1>9, <1>10, <1>11, <1>13 DEF KnownInv

----------------------------------------------------------------------------
(* The server answers.                                                      *)

\* The notifications in the order of time are all of them.
LEMMA InTimeAll ==
    ASSUME NEW ns, IsFiniteSet(ns), \A x \in ns : x.data.at \in Nat, NEW s \in InTime(ns)
    PROVE  \A x \in ns : \E i \in DOMAIN s : s[i] = x
<1> DEFINE c == Cardinality(ns)
<1>1. c \in Nat
  BY FS_CardinalityType
<1>2. s \in [1..c -> ns] /\ \A i, j \in DOMAIN s : i < j => s[i].data.at < s[j].data.at
  BY DEF InTime
<1>3. Cardinality(1..c) = c
  <2>1. Cardinality(1..c) = IF 1 > c THEN 0 ELSE c - 1 + 1
    BY <1>1, FS_Interval
  <2> QED
    BY <1>1, <2>1
<1> HIDE DEF c
<1>4. ASSUME NEW i \in 1..c, NEW j \in 1..c, s[i] = s[j] PROVE i = j
  <2>1. s[i] \in ns
    BY <1>2
  <2>2. s[i].data.at \in Nat
    BY <2>1
  <2>3. ~(i < j) /\ ~(j < i)
    BY <1>2, <1>4, <2>2
  <2> QED
    BY <2>3
<1>5. s \in Injection(1..c, ns)
  BY <1>2, <1>4 DEF Injection, IsInjective
<1>6. s \in Surjection(1..c, ns)
  BY <1>3, <1>5, FS_Injection DEF c
<1> QED
  BY <1>2, <1>6 DEF Surjection

\* on_synchronize brings all phases after the timestamp, in the order of time, then messages,
\* and the current phase.
LEMMA SynchronizedShape ==
    ASSUME TypeInv, NEW ts, NEW ns \in Synchronized(ts)
    PROVE  /\ ns \in Seq(Notification)
           /\ \E a \in 0..Len(ns) : Brings(ns, Len(ns), ts, server.history, server.phase, a)
<1> DEFINE phases == Since(server.history, ts)
           messages == {m \in Since(server.messages, ts) : m.id \in Foreign}
           current == IF phases = {} THEN <<>> ELSE <<[type |-> "phase", data |-> GetPhaseData]>>
           H == {[type |-> "state_history", data |-> d] : d \in phases}
           M == {[type |-> "message", data |-> d] : d \in messages}
<1>1. PICK h \in InTime(H), m \in InTime(M) : ns = h \o m \o current
  <2>1. Synchronized(ts) = {h \o m \o current : h \in InTime(H), m \in InTime(M)}
    BY DEF Synchronized
  <2> HIDE DEF H, M, current, phases, messages
  <2> QED
    BY <2>1
<1>2. IsFiniteSet(server.history) /\ IsFiniteSet(server.messages)
  BY DEF TypeInv, StateOK
<1>3. phases \subseteq server.history /\ messages \subseteq server.messages
      /\ (\A d \in phases : d.at > ts) /\ \A d \in server.history : d.at > ts => d \in phases
  BY DEF Since
<1>4. IsFiniteSet(phases) /\ IsFiniteSet(messages)
  BY <1>2, <1>3, FS_Subset
<1> HIDE DEF phases, messages
<1>5. IsFiniteSet(H) /\ IsFiniteSet(M)
  BY <1>4, Wrapped
<1>6. \A n \in H : n.data \in phases /\ n.type = "state_history"
  OBVIOUS
<1>7. ASSUME NEW d \in phases PROVE \E n \in H : n.data = d
  <2>1. [type |-> "state_history", data |-> d] \in H
    OBVIOUS
  <2>2. [type |-> "state_history", data |-> d].data = d
    OBVIOUS
  <2> HIDE DEF H
  <2> QED
    BY <2>1, <2>2
<1>8. \A n \in H : n.data.at \in Nat
  BY <1>3, <1>6, GameTypes
<1> DEFINE C == {[type |-> "phase", data |-> GetPhaseData]}
<1>9. \A n \in M : n.type = "message"
  BY DEF M
<1>10. \A n \in C : n.type = "phase" /\ n.data.phase = server.phase
  <2>1. GetPhaseData.phase = server.phase
    BY DEF GetPhaseData
  <2>2. [type |-> "phase", data |-> GetPhaseData].data = GetPhaseData
    OBVIOUS
  <2> QED
    BY <2>1, <2>2
<1>11. current \in Seq(C)
  <2> DEFINE n == [type |-> "phase", data |-> GetPhaseData]
  <2>1. n \in C
    OBVIOUS
  <2>2. current \in {<<>>, <<n>>}
    OBVIOUS
  <2> HIDE DEF n, C, current
  <2>3. <<n>> \in Seq(C) /\ <<>> \in Seq(C)
    BY <2>1
  <2> QED
    BY <2>2, <2>3
<1> HIDE DEF H, M, C, current
<1>12. /\ h \in Seq(H) /\ m \in Seq(M)
       /\ \A i, j \in DOMAIN h : i < j => h[i].data.at < h[j].data.at
  BY <1>1, <1>5, InOrder
<1>13. \A x \in H : \E i \in DOMAIN h : h[i] = x
  BY <1>1, <1>5, <1>8, InTimeAll
<1> DEFINE a == Len(h)
<1>14. /\ a \in Nat /\ DOMAIN h = 1..a /\ a <= Len(ns) /\ Len(ns) \in Nat
       /\ \A i \in 1..a : ns[i] = h[i] /\ h[i] \in H
       /\ \A i \in (a + 1)..Len(ns) : ns[i] \in M \cup C
  <2>1. h \in Seq(H \cup M \cup C) /\ m \in Seq(M \cup C) /\ current \in Seq(M \cup C)
    BY <1>11, <1>12, SeqMonotonic
  <2> DEFINE r == m \o current
             R == M \cup C
  <2>2. r \in Seq(R)
    BY <2>1
  <2>3. ns = h \o r
    BY <1>1, <2>1
  <2> HIDE DEF r, R
  <2>4. /\ Len(ns) = Len(h) + Len(r)
        /\ \A i \in 1..(Len(h) + Len(r)) : ns[i] = IF i <= Len(h) THEN h[i] ELSE r[i - Len(h)]
    BY <1>12, <2>2, <2>3, ConcatProperties
  <2>5. /\ a \in Nat /\ DOMAIN h = 1..a /\ Len(r) \in Nat /\ \A i \in 1..Len(r) : r[i] \in R
        /\ \A i \in 1..a : h[i] \in H
    BY <1>12, <2>2
  <2>6. \A i \in 1..a : ns[i] = h[i]
    BY <2>4, <2>5
  <2>7. ASSUME NEW i \in (a + 1)..Len(ns) PROVE ns[i] \in R
    <3>1. i - a \in 1..Len(r) /\ ns[i] = r[i - a]
      BY <2>4, <2>5
    <3> QED
      BY <2>5, <3>1
  <2> QED
    BY <2>4, <2>5, <2>6, <2>7 DEF R
<1> HIDE DEF a
<1>15. \A i \in 1..a : /\ ns[i].type = "state_history"
                       /\ ns[i].data \in server.history /\ ns[i].data.at > ts
  BY <1>3, <1>6, <1>14
<1>16. \A i, j \in 1..a : i < j => ns[i].data.at < ns[j].data.at
  BY <1>12, <1>14
<1>17. ASSUME NEW d \in server.history, d.at > ts PROVE \E j \in 1..a : ns[j].data = d
  <2>1. PICK n \in H : n.data = d
    BY <1>3, <1>7, <1>17
  <2>2. PICK j \in DOMAIN h : h[j] = n
    BY <1>13
  <2>3. j \in 1..a /\ ns[j] = h[j]
    BY <1>14
  <2> QED
    BY <2>1, <2>2, <2>3
<1>18. \A i \in (a + 1)..Len(ns) : \/ ns[i].type = "message"
                                   \/ ns[i].type = "phase" /\ ns[i].data.phase = server.phase
  BY <1>9, <1>10, <1>14
<1>19. a \in 0..Len(ns)
  BY <1>14
<1>20. ns \in Seq(Notification)
  BY SynchronizedEffect DEF TypeInv
<1>21. Brings(ns, Len(ns), ts, server.history, server.phase, a)
  BY <1>15, <1>16, <1>17, <1>18 DEF Brings
<1> QED
  BY <1>19, <1>20, <1>21

\* The reply to a request: the time it names, if any, is of the phase that the request was sent in.
LEMMA HandleReplies ==
    ASSUME TypeInv, NEW k \in Conns, NEW r \in WireRequest, r.id \in DOMAIN asked,
           HandleRequest(k, r)
    PROVE  \E m : /\ down' = Sent(k, m) /\ m.type \in {"response", "error"} /\ m.id = r.id
                  /\ \A t \in Stamps(m) : t = 0 \/ asked[r.id].phase = server.phase
                  /\ ~server.controlled => UNCHANGED <<server, queue>>
                  /\ r.id \notin Requested /\ server.controlled => NotifiesSince(r)
                  /\ server'.controlled = server.controlled
<1>1. AskedOK /\ server \in Server
  BY DEF TypeInv, StateOK
<1>2. \A data : /\ Response(r.id, data).type = "response" /\ Response(r.id, data).id = r.id
                /\ r.id \in Requested => Stamps(Response(r.id, data)) = {data}
                /\ r.id \notin Requested => Stamps(Response(r.id, data)) = {}
  BY DEF Response, Stamps, IsPast
<1>3. Error(r.id).type = "error" /\ Error(r.id).id = r.id /\ Stamps(Error(r.id)) = {}
  BY DEF Error, Stamps, IsPast
<1>4. CASE ~server.controlled
  BY <1>3, <1>4 DEF HandleRequest, Refuse, NotifiesSince
<1>5. CASE server.controlled /\ Kind(r.id) = "Synchronize"
  <2>1. r.id \notin Requested /\ OnSynchronize(k, r.id)
    BY <1>1, <1>5, KindsApart DEF IsSync, HandleRequest
  <2> QED
    BY <1>2, <1>5, <2>1 DEF OnSynchronize, NotifiesSince
<1>6. CASE server.controlled /\ Kind(r.id) = "SendGameMessage"
  <2>1. r.id \in Requested /\ OnSendGameMessage(k, r)
    BY <1>1, <1>6, KindsApart DEF HandleRequest
  <2>2. CASE UNCHANGED server /\ down' = Sent(k, Error(r.id))
    BY <1>3, <1>6, <2>1, <2>2
  <2>3. CASE /\ asked[r.id].phase = server.phase /\ server'.controlled = server.controlled
             /\ \E data : down' = Sent(k, Response(r.id, data))
    BY <1>2, <1>6, <2>1, <2>3
  <2>4. [server EXCEPT !.now = @ + 1,
                       !.messages = @ \cup {[id |-> r.id, at |-> server.now + 1]}].controlled
           = server.controlled
    BY <1>1 DEF Server
  <2>5. \/ UNCHANGED server /\ down' = Sent(k, Error(r.id))
        \/ /\ asked[r.id].phase = server.phase /\ server'.controlled = server.controlled
           /\ \E data : down' = Sent(k, Response(r.id, data))
    BY <2>1, <2>4 DEF OnSendGameMessage, Refuse
  <2> QED
    BY <2>2, <2>3, <2>5
<1>7. CASE server.controlled /\ Kind(r.id) \in {"SetOrders", "SetWaitFlag"}
  <2>1. r.id \in Requested /\ (OnSetOrders(k, r.id) \/ OnSetWaitFlag(k, r.id))
    BY <1>1, <1>7, KindsApart DEF HandleRequest
  <2>2. /\ [server EXCEPT !.orders = r.id].controlled = server.controlled
        /\ [server EXCEPT !.waits = @ \cup {[id |-> r.id, phase |-> server.phase]}].controlled
              = server.controlled
    BY <1>1 DEF Server
  <2>3. \/ UNCHANGED server /\ down' = Sent(k, Error(r.id))
        \/ server'.controlled = server.controlled /\ down' = Sent(k, Response(r.id, None))
    BY <2>1, <2>2 DEF OnSetOrders, OnSetWaitFlag, Refuse
  <2>4. Stamps(Response(r.id, None)) = {None}
    BY <1>2, <2>1
  <2>5. CASE UNCHANGED server /\ down' = Sent(k, Error(r.id))
    BY <1>3, <1>7, <2>1, <2>5
  <2>6. CASE server'.controlled = server.controlled /\ down' = Sent(k, Response(r.id, None))
    <3>1. \A t \in Stamps(Response(r.id, None)) : t = 0
      BY <2>4 DEF None
    <3> QED
      BY <1>2, <1>7, <2>1, <2>6, <3>1
  <2> QED
    BY <2>3, <2>5, <2>6
<1>8. Kind(r.id) \in {"Synchronize", "SendGameMessage", "SetOrders", "SetWaitFlag"}
  BY <1>1, KindsApart DEF IsSync
<1> QED
  BY <1>4, <1>5, <1>6, <1>7, <1>8

\* The reply comes behind what is on its way, before what is in the queue.
LEMMA LineAnswered ==
    ASSUME TypeInv, UNCHANGED <<client, broken, queue>>, client.conn \notin broken,
           NEW m, down' = Sent(client.conn, m),
           NEW g, NEW H, NEW top, Plain(m, g, H)
    PROVE  /\ LineOK(Line, g, H, top) => LineOK(Line', g, H, top)
           /\ AllCome(Line, g, H) => AllCome(Line', g, H)
<1> DEFINE k == client.conn
           a == Arriving
           n == LineLength
           q == Len(queue)
           d == down[k]
<1>1. /\ k \in Conns /\ d \in Seq(Reply \cup Notification) /\ down \in [Conns -> Seq(Reply \cup Notification)]
  BY UnderwayTypes DEF TypeInv, StateOK
<1>2. down'[k] = Append(d, m)
  BY <1>1 DEF Sent, Open
<1>3. /\ a \in Nat /\ q \in Nat /\ n = a + q /\ DOMAIN Line = 1..n /\ a = Len(d)
  BY LineTypes DEF LineLength, Arriving
<1>4. /\ Len(Append(d, m)) = a + 1 /\ \A i \in 1..a : Append(d, m)[i] = d[i]
      /\ Append(d, m)[a + 1] = m
  <2> DEFINE M == Reply \cup Notification \cup {m}
  <2>1. d \in Seq(M) /\ m \in M
    BY <1>1
  <2> HIDE DEF M, d, a
  <2> QED
    BY <1>3, <2>1
<1>5. Arriving' = a + 1
  BY <1>2, <1>4 DEF Arriving
<1>6. LineLength' = n + 1 /\ DOMAIN Line' = 1..(n + 1)
  <2>1. LineLength' = n + 1
    BY <1>3, <1>5 DEF LineLength
  <2> QED
    BY <2>1 DEF Line
<1> HIDE DEF a, n, q, d
<1>7. ASSUME NEW i \in 1..a PROVE Line'[i] = Line[i]
  <2>1. i \in 1..n /\ i \in 1..(n + 1) /\ i <= a /\ i <= a + 1
    BY <1>3
  <2>2. Line'[i] = Append(d, m)[i]
    BY <1>2, <1>5, <1>6, <2>1 DEF Line, k
  <2>3. Line[i] = d[i]
    BY <2>1 DEF Line, a, n, d
  <2> QED
    BY <1>4, <2>2, <2>3
<1>8. Line'[a + 1] = m
  <2>1. a + 1 \in 1..(n + 1) /\ a + 1 <= a + 1
    BY <1>3
  <2>2. Line'[a + 1] = Append(d, m)[a + 1]
    BY <1>2, <1>5, <1>6, <2>1 DEF Line, k
  <2> QED
    BY <1>4, <2>2
<1>9. ASSUME NEW i \in (a + 1)..n PROVE Line'[i + 1] = Line[i]
  <2>1. /\ i \in 1..n /\ i + 1 \in 1..(n + 1) /\ ~(i <= a) /\ ~(i + 1 <= a + 1)
        /\ (i + 1) - (a + 1) = i - a
    BY <1>3
  <2>2. Line'[i + 1] = IF queue[i - a].to = k THEN queue[i - a].notification ELSE Nothing
    BY <1>5, <1>6, <2>1 DEF Line, Nothing, k
  <2>3. Line[i] = IF queue[i - a].to = k THEN queue[i - a].notification ELSE Nothing
    BY <2>1 DEF Line, a, n, k
  <2> QED
    BY <2>2, <2>3
<1>10. Plain(Line'[a + 1], g, H)
  BY <1>8
<1>11. n \in Nat /\ n + 1 \in Nat /\ a \in 0..n /\ DOMAIN Line = 1..n
  BY <1>3
<1>12. ASSUME LineOK(Line, g, H, top) PROVE LineOK(Line', g, H, top)
  <2>1. \A x \in (a + 1)..(a + 1) : Plain(Line'[x], g, H)
    BY <1>10, <1>11
  <2>2. Between(Line, Line', n, 1, a, g, H)
    BY <1>6, <1>7, <1>9, <1>11, <2>1 DEF Between
  <2> QED
    BY <2>2, <1>11, <1>12, InsertedOne
<1>13. ASSUME AllCome(Line, g, H) PROVE AllCome(Line', g, H)
  <2>1. ASSUME NEW j \in 1..n PROVE \E y \in 1..(n + 1) : Line'[y] = Line[j]
    <3>1. CASE j <= a
      <4>1. j \in 1..a /\ j \in 1..(n + 1)
        BY <1>3, <3>1
      <4> QED
        BY <1>7, <4>1
    <3>2. CASE j > a
      <4>1. j \in (a + 1)..n /\ j + 1 \in 1..(n + 1)
        BY <1>3, <3>2
      <4> QED
        BY <1>9, <4>1
    <3> QED
      BY <1>3, <3>1, <3>2
  <2> QED
    BY <1>3, <1>6, <1>11, <1>13, <2>1, StillComes
<1> QED
  BY <1>12, <1>13

\* A request is read on a connection that is not the client's: the queue gets nothing for it.
LEMMA OtherPasses ==
    ASSUME TypeInv, TypeInv', NEW k \in Conns, k # client.conn, NEW r \in WireRequest, attached' = k,
           KeepsArchives \/ ArchivesMessage(r) \/ NotifiesSince(r)
    PROVE  Passes
<1>1. Len(queue) \in Nat
  BY LineTypes
<1>2. CASE UNCHANGED queue
  <2>1. Len(queue') = Len(queue) + 0 /\ \A i \in 1..Len(queue) : queue'[i] = queue[i]
    BY <1>1, <1>2
  <2>2. \A i \in 1..0 : client.conn \in broken \/ queue'[Len(queue) + i].to # client.conn
    OBVIOUS
  <2> QED
    BY <2>1, <2>2 DEF Passes
<1>3. CASE NotifiesSince(r)
  <2>1. PICK ns \in Synchronized(asked[r.id].timestamp) : queue' = Notified(ns)
    BY <1>3 DEF NotifiesSince
  <2>2. ns \in Seq(Notification)
    BY <2>1, SynchronizedEffect DEF TypeInv
  <2>3. queue \in Seq([to : Conns, notification : Notification])
    BY UnderwayTypes
  <2>4. /\ queue' \in Seq([to : Conns, notification : Notification])
        /\ Len(queue') >= Len(queue)
        /\ \A i \in DOMAIN queue : queue'[i] = queue[i]
        /\ \A i \in DOMAIN queue' \ DOMAIN queue :
              queue'[i] = [to |-> attached', notification |-> ns[i - Len(queue)]]
    BY <2>1, <2>2, <2>3, NotifiedEffect
  <2>5. /\ Len(queue') \in Nat /\ DOMAIN queue' = 1..Len(queue') /\ DOMAIN queue = 1..Len(queue)
    BY <2>3, <2>4
  <2> DEFINE e == Len(queue') - Len(queue)
  <2>6. e \in Nat /\ Len(queue') = Len(queue) + e
    BY <1>1, <2>4, <2>5
  <2>7. ASSUME NEW i \in 1..e PROVE queue'[Len(queue) + i].to # client.conn
    <3>1. Len(queue) + i \in DOMAIN queue' \ DOMAIN queue
      BY <1>1, <2>5, <2>6
    <3> QED
      BY <2>4, <3>1
  <2> HIDE DEF e
  <2> QED
    BY <2>4, <2>5, <2>6, <2>7 DEF Passes
<1> QED
  BY <1>2, <1>3 DEF KeepsArchives, ArchivesMessage

\* The answer to Synchronize, and behind it what the client did not see.
LEMMA SyncLine ==
    ASSUME TypeInv, Alive, UNCHANGED <<client, broken>>, down[client.conn] = <<>>,
           \A i \in DOMAIN queue : queue[i].to # client.conn,
           attached' = client.conn, server.controlled,
           NEW m, down' = Sent(client.conn, m), NEW ns \in Seq(Notification), queue' = Notified(ns),
           NEW g, NEW H, NEW top, Plain(m, g, H), LineOK(ns, g, H, top), AllCome(ns, g, H)
    PROVE  LineOK(Line', g, H, top) /\ AllCome(Line', g, H)
<1> DEFINE k == client.conn
           q == Len(queue)
           n == Len(ns)
           e == 1 + q
<1>1. /\ k \in Conns /\ k \notin broken /\ down \in [Conns -> Seq(Reply \cup Notification)]
      /\ queue \in Seq([to : Conns, notification : Notification])
  BY UnderwayTypes DEF TypeInv, StateOK, Alive
<1>2. down'[k] = <<m>>
  BY <1>1 DEF Sent, Open
<1>3. Arriving' = 1
  BY <1>2 DEF Arriving
<1>4. /\ Len(queue') = q + n
      /\ \A i \in 1..q : queue'[i] = queue[i]
      /\ \A i \in 1..n : queue'[q + i] = [to |-> k, notification |-> ns[i]]
  BY <1>1, NotifiedIs, SMTT(60)
<1>5. q \in Nat /\ DOMAIN queue = 1..q /\ n \in Nat /\ DOMAIN ns = 1..n
  BY LineTypes
<1> HIDE DEF q, n
<1>6. LineLength' = n + e /\ DOMAIN Line' = 1..(n + e) /\ e \in Nat
  <2>1. LineLength' = n + e
    BY <1>1, <1>3, <1>4, <1>5 DEF LineLength
  <2> QED
    BY <1>5, <2>1 DEF Line
<1>7. ASSUME NEW i \in 1..e PROVE Plain(Line'[i], g, H)
  <2>1. i \in 1..(n + e)
    BY <1>5
  <2>2. CASE i = 1
    <3>1. Line'[i] = m
      BY <1>2, <1>3, <1>6, <2>1, <2>2 DEF Line
    <3> QED
      BY <3>1
  <2>3. CASE i # 1
    <3>1. ~(i <= 1) /\ i - 1 \in 1..q
      BY <1>5, <2>3
    <3>2. queue'[i - 1].to # k
      BY <1>4, <1>5, <3>1
    <3>3. Line'[i] = Nothing
      BY <1>3, <1>6, <2>1, <3>1, <3>2 DEF Line, Nothing
    <3> QED
      BY <3>3, NothingPlain
  <2> QED
    BY <2>2, <2>3
<1>8. ASSUME NEW i \in 1..n PROVE Line'[i + e] = ns[i]
  <2>1. i + e \in 1..(n + e) /\ ~(i + e <= 1) /\ (i + e) - 1 = q + i
    BY <1>5
  <2>2. queue'[q + i] = [to |-> k, notification |-> ns[i]]
    BY <1>4
  <2>3. queue'[q + i].to = k /\ queue'[q + i].notification = ns[i]
    BY <2>2
  <2> HIDE DEF k
  <2> QED
    BY <2>3, <1>3, <1>6, <2>1 DEF Line, k
<1> HIDE DEF e
<1>9. LineOK(Line', g, H, top)
  BY <1>5, <1>6, <1>7, <1>8, InsertedFirst
<1>10. AllCome(Line', g, H)
  <2>1. ASSUME NEW j \in 1..n PROVE \E y \in 1..(n + e) : Line'[y] = ns[j]
    <3>1. j + e \in 1..(n + e)
      BY <1>5, <1>6
    <3> QED
      BY <1>8, <3>1
  <2>2. n + e \in Nat
    BY <1>5, <1>6
  <2> QED
    BY <1>5, <1>6, <2>1, <2>2, StillComes, ZenonT(60)
<1> QED
  BY <1>9, <1>10

\* The server reads a request: the client gets to know what it asked for.
LEMMA MessageKnown ==
    ASSUME TypeInv, TypeInv', ConnInv, ArchiveInv, KnownInv, NEW k \in Conns, OnMessage(k)
    PROVE  KnownInv'
<1> DEFINE c == client.conn
           r == up[k][1]
           g == client.game
           H == server.history
           top == server.phase
<1>1. /\ up[k] # <<>> /\ 1 \in DOMAIN up[k] /\ r \in WireRequest /\ r.id \in DOMAIN asked
      /\ UNCHANGED <<client, asked, closed, broken>>
      /\ \/ UNCHANGED <<attached, server, queue, down>>
         \/ MayAttach(k) /\ attached' = k /\ HandleRequest(k, r)
  BY MessageEffect
<1>2. c \in Conns /\ c # None /\ (Alive' <=> Alive)
  BY <1>1, ClientParts, Numbers DEF TypeInv, Alive
<1>3. CASE UNCHANGED <<attached, server, queue, down>>
  <2>1. AskedBefore'
    BY <1>1, <1>3 DEF KnownInv, AskedBefore
  <2> QED
    BY <1>1, <1>3, <2>1, LineStays
<1>4. CASE MayAttach(k) /\ attached' = k /\ HandleRequest(k, r)
  <2>1. KeepsArchives \/ ArchivesMessage(r) \/ NotifiesSince(r)
    BY <1>1, <1>4, HandleEffect
  <2>2. PICK m : /\ down' = Sent(k, m) /\ m.type \in {"response", "error"} /\ m.id = r.id
                 /\ \A t \in Stamps(m) : t = 0 \/ asked[r.id].phase = top
                 /\ ~server.controlled => UNCHANGED <<server, queue>>
                 /\ r.id \notin Requested /\ server.controlled => NotifiesSince(r)
                 /\ server'.controlled = server.controlled
    BY <1>1, <1>4, HandleReplies
  <2>3. server'.history = H /\ server'.phase = top
        /\ (server'.now = server.now \/ server'.now = server.now + 1)
    BY <2>1 DEF KeepsArchives, ArchivesMessage, NotifiesSince
  <2>4. AskedBefore'
    <3>1. server'.now \in Nat /\ server.now <= server'.now
      BY <2>3, GameTypes
    <3> QED
      BY <1>1, <2>3, <3>1, AskedStays
  <2>5. Plain(m, g, H)
    <3>1. ~Leveled(m)
      BY <2>2 DEF Leveled, IsPast
    <3>2. ASSUME NEW t \in Stamps(m), NEW h \in H, h.at <= t PROVE Known(g, h)
      <4>1. h.at > 0 /\ h.at \in Nat /\ h.phase \in Nat
        BY GameTypes DEF KnownInv, HistoryFull
      <4>2. t # 0
        BY <3>2, <4>1
      <4>3. asked[r.id].phase = top
        BY <2>2, <4>2
      <4>4. r.id \in Requested
        <5>1. m.type = "response" /\ m.id \in Requested
          BY <2>2, <3>2 DEF Stamps, IsPast
        <5> QED
          BY <2>2, <5>1
      <4>5. top <= g.phase
        BY <1>1, <4>3, <4>4 DEF KnownInv, AskedBefore
      <4>6. h.phase < top /\ top \in Nat /\ g.phase \in Nat
        BY GameTypes DEF ArchiveInv, PhaseOfMessage
      <4>7. h.phase < g.phase
        BY <4>1, <4>5, <4>6
      <4> QED
        BY <4>7 DEF Known
    <3> QED
      BY <3>1, <3>2 DEF Plain
  <2>6. client.mode = "reading" => LineOK(Line, g, H, top)
    BY DEF KnownInv, LineInv
  <2>7. Sync(c) \in DOMAIN asked' => Sync(c) \in DOMAIN asked /\ asked'[Sync(c)] = asked[Sync(c)]
    BY <1>1
  <2>8. CASE k # c
    <3>1. down'[c] = down[c]
      BY <1>2, <2>2, <2>8 DEF Sent, TypeInv, StateOK
    <3>2. Passes
      BY <1>1, <1>4, <2>1, <2>8, OtherPasses
    <3>3. client'.mode = "reading" => LineOK(Line', g, H, top)
      BY <1>1, <2>6, <3>1, <3>2, PassedBy
    <3>4. attached' # c /\ attached # c
      BY <1>2, <1>4, <2>8 DEF MayAttach
    <3> QED
      BY <1>1, <1>2, <2>3, <2>4, <2>7, <3>3, <3>4, KnownStays
  <2>9. CASE k = c /\ c \in broken
    <3>1. down'[c] = down[c]
      BY <1>2, <2>2, <2>9 DEF Sent, Open, TypeInv, StateOK
    <3>2. Line' = Line
      BY <1>1, <2>9, <3>1 DEF Line, LineLength, Arriving, Nothing
    <3>3. ~Alive'
      BY <1>1, <2>9 DEF Alive
    <3> QED
      BY <1>1, <2>3, <2>4, <2>6, <2>7, <3>2, <3>3, KnownStays
  <2>10. CASE k = c /\ c \notin broken
    <3>1. Alive
      BY <2>10, ClientParts DEF ConnInv, BrokeFirst, Alive, TypeInv
    <3>2. LineOK(Line, g, H, top)
      BY <2>6, <3>1 DEF Alive
    <3>3. attached' = c
      BY <1>4, <2>10
    <3>4. CASE UNCHANGED queue /\ (server.controlled => attached = c)
      <4>1. /\ LineOK(Line, g, H, top) => LineOK(Line', g, H, top)
            /\ AllCome(Line, g, H) => AllCome(Line', g, H)
        <5>1. down' = Sent(client.conn, m) /\ client.conn \notin broken
          BY <2>2, <2>10
        <5>2. UNCHANGED <<client, broken, queue>>
          BY <1>1, <3>4
        <5>3. Plain(m, g, H)
          BY <2>5
        <5> HIDE DEF c, r, g, H, top
        <5> QED
          BY <5>1, <5>2, <5>3, LineAnswered
      <4>2. Alive /\ server.controlled => AllCome(Line, g, H)
        BY <3>4 DEF KnownInv, ComingInv
      <4> QED
        BY <1>1, <1>2, <2>2, <2>3, <2>4, <2>7, <3>1, <3>2, <3>3, <4>1, <4>2, KnownStays
    <3>5. CASE r.id \in Requested
      <4>1. UNCHANGED queue
        BY <2>1, <3>5 DEF KeepsArchives, ArchivesMessage, NotifiesSince
      <4>2. attached = c
        BY <1>1, <1>2, <2>10, <3>5 DEF ConnInv, RequestsOfAttached
      <4> QED
        BY <3>4, <4>1, <4>2
    <3>6. CASE ~server.controlled
      BY <2>2, <3>4, <3>6
    <3>7. CASE r.id \notin Requested /\ server.controlled
      <4> DEFINE ts == asked[r.id].timestamp
      <4>1. NotifiesSince(r)
        BY <2>2, <3>7
      <4>2. PICK ns \in Synchronized(ts) : queue' = Notified(ns)
        BY <4>1 DEF NotifiesSince
      <4>3. ~client.ready
        BY <1>1, <2>10, <3>1, <3>7 DEF ConnInv, ReadyAttached
      <4>4. /\ attached # c /\ Sync(c) \in DOMAIN asked /\ r.id = Sync(c)
            /\ \A h \in g.history : h.at <= asked[Sync(c)].timestamp
        BY <1>1, <2>10, <3>1, <4>3 DEF ConnInv, SyncFirst
      <4>5. down[c] = <<>> /\ \A i \in DOMAIN queue : queue[i].to # c
        BY <3>1, <4>4 DEF ConnInv, SentToAttached
      <4>6. \A h \in H : h.at <= ts => Known(g, h)
        BY <3>1, <4>4 DEF KnownInv, SyncKnown
      <4>7. ts \in Nat /\ top \in Nat /\ g.history \subseteq H /\ g.phase <= top
        BY <1>1, <3>7, KindsApart, GameTypes DEF TypeInv, SyncRequest, KnownInv, AskedBefore
      <4>8. ns \in Seq(Notification)
        BY <4>2, SynchronizedEffect DEF TypeInv
      <4>9. LineOK(ns, g, H, top) /\ AllCome(ns, g, H)
        <5>1. PICK a \in 0..Len(ns) : Brings(ns, Len(ns), ts, H, top, a)
          BY <4>2, SynchronizedShape
        <5>2. Len(ns) \in Nat /\ DOMAIN ns = 1..Len(ns)
          BY <4>8
        <5>3. \A h \in H : h.at \in Nat /\ h.phase \in Nat /\ h.phase < top
          BY GameTypes DEF ArchiveInv, PhaseOfMessage
        <5>4. \A h, x \in H : h.at < x.at => h.phase < x.phase
          BY DEF KnownInv, HistoryFull
        <5>5. \A h \in g.history : h.at <= ts
          BY <4>4
        <5> HIDE DEF g, H, top, ts
        <5> QED
          BY <4>6, <4>7, <5>1, <5>2, <5>3, <5>4, <5>5, CaughtUp
      <4>10. LineOK(Line', g, H, top) /\ AllCome(Line', g, H)
        <5>1. down' = Sent(client.conn, m) /\ attached' = client.conn
          BY <2>2, <2>10, <3>3
        <5>2. down[client.conn] = <<>> /\ \A i \in DOMAIN queue : queue[i].to # client.conn
          BY <4>5
        <5>3. UNCHANGED <<client, broken>> /\ server.controlled
          BY <1>1, <3>7
        <5>4. queue' = Notified(ns)
          BY <4>2
        <5> HIDE DEF c, g, H, top, ts
        <5> QED
          BY <2>5, <3>1, <4>8, <4>9, <5>1, <5>2, <5>3, <5>4, SyncLine
      <4> QED
        BY <1>1, <1>2, <2>3, <2>4, <2>7, <3>1, <3>3, <4>10, KnownStays
    <3> QED
      BY <3>5, <3>6, <3>7
  <2> QED
    BY <2>8, <2>9, <2>10
<1> QED
  BY <1>1, <1>3, <1>4

\* It is so in the beginning.
LEMMA KnownInit == Init => KnownInv
<1> SUFFICES ASSUME Init PROVE KnownInv
  OBVIOUS
<1>1. /\ client.game.history = {} /\ client.game.messages = {} /\ client.game.phase = 1
      /\ client.conn = 1 /\ server.history = {} /\ server.phase = 1
      /\ queue = <<>> /\ broken = {} /\ asked = Empty /\ 1 \in Conns
      /\ down = [k \in Conns |-> <<>>]
  BY Numbers DEF Init, Fresh
<1>2. Arriving = 0 /\ LineLength = 0 /\ DOMAIN Line = {}
  <2>1. down[1] = <<>> /\ Len(<<>>) = 0
    BY <1>1
  <2>2. Arriving = 0
    BY <1>1, <2>1 DEF Arriving
  <2>3. LineLength = 0
    BY <1>1, <2>1, <2>2 DEF LineLength
  <2> QED
    BY <2>2, <2>3 DEF Line
<1>3. HistoryFull
  BY <1>1 DEF HistoryFull
<1>4. DOMAIN asked = {}
  BY <1>1 DEF Empty
<1>5. AskedBefore
  BY <1>1, <1>4 DEF AskedBefore
<1>6. LineInv
  BY <1>2 DEF LineInv, LineOK, Rising, NotBehind, Covered
<1>7. ComingInv /\ TimesKnown /\ SyncKnown
  BY <1>1 DEF ComingInv, AllCome, TimesKnown, SyncKnown
<1> QED
  BY <1>3, <1>5, <1>6, <1>7 DEF KnownInv

\* Every step keeps it.
LEMMA KnownNext == ASSUME IInv, IInv', KnownInv, [Next]_vars PROVE KnownInv'
<1>1. TypeInv /\ TypeInv' /\ ConnInv /\ ArchiveInv
  BY DEF IInv
<1>2. CASE UNCHANGED vars
  <2>1. UNCHANGED <<client, asked, server, attached, queue, down, broken>>
    BY <1>2 DEF vars, ends, net
  <2>2. AskedBefore'
    BY <2>1 DEF KnownInv, AskedBefore
  <2> QED
    BY <2>1, <2>2, LineStays
<1>3. ASSUME NEW kind \in Kinds, Send(kind) PROVE KnownInv'
  BY <1>1, <1>3, SendKnown
<1>4. ASSUME NEW id, Write(id) \/ Disconnected \/ GiveUp \/ SyncTimeout PROVE KnownInv'
  BY <1>1, <1>4, OwnKnown
<1>5. CASE Connect
  BY <1>1, <1>5, ConnectKnown
<1>6. CASE OnSocketMessage
  BY <1>1, <1>6, SocketKnown
<1>7. ASSUME NEW k \in Conns, OnMessage(k) PROVE KnownInv'
  BY <1>1, <1>7, MessageKnown
<1>8. ASSUME NEW k \in Conns, OnClose(k) PROVE KnownInv'
  BY <1>1, <1>8, CloseKnown
<1>9. CASE SendNotification
  BY <1>1, <1>9, NotificationKnown
<1>10. CASE ForeignMessage
  BY <1>1, <1>10, ForeignKnown
<1>11. CASE Process
  BY <1>1, <1>11, ProcessKnown
<1>12. CASE Kick
  BY <1>1, <1>12, KickKnown
<1>13. CASE Break
  BY <1>1, <1>13, BreakKnown
<1> QED
  BY <1>2, <1>3, <1>4, <1>5, <1>6, <1>7, <1>8, <1>9, <1>10, <1>11, <1>12, <1>13 DEF Next, Ours, Theirs

\* A client that is quiet has read the whole line, on the connection that has the token: it knows
\* the last phase that was processed.
LEMMA QuietKnows == ASSUME IInv, KnownInv PROVE KnowsPhases
<1> SUFFICES ASSUME Quiet PROVE client.game.phase = server.phase \/ server.phase - 1 \in Past(client.game)
  BY DEF KnowsPhases
<1>1. Alive /\ client.ready /\ server.controlled /\ queue = <<>> /\ down[client.conn] = <<>>
  BY DEF Quiet, Alive
<1>2. attached = client.conn
  BY <1>1 DEF IInv, ConnInv, ReadyAttached
<1>3. AllCome(Line, client.game, server.history)
  BY <1>1, <1>2 DEF KnownInv, ComingInv
<1>4. DOMAIN Line = {}
  <2>1. Len(<<>>) = 0
    OBVIOUS
  <2>2. Arriving = 0 /\ LineLength = 0
    BY <1>1, <2>1 DEF Arriving, LineLength, Alive
  <2> QED
    BY <2>2 DEF Line
<1>5. \A h \in server.history : Known(client.game, h)
  BY <1>3, <1>4 DEF AllCome
<1>6. /\ client.game.phase \in Nat /\ server.phase \in Nat /\ client.game.phase <= server.phase
      /\ client.game.phase >= 1
  <2>1. client.game.phase \in 1..MaxPhase
    BY ClientParts DEF IInv, TypeInv, Game
  <2> QED
    BY <2>1, GameTypes DEF IInv, KnownInv, AskedBefore
<1>7. CASE client.game.phase # server.phase
  <2>1. server.phase - 1 \in 1..(server.phase - 1)
    BY <1>6, <1>7
  <2>2. PICK h \in server.history : h.phase = server.phase - 1
    BY <2>1 DEF KnownInv, HistoryFull
  <2>3. Known(client.game, h)
    BY <1>5
  <2>4. ~(h.phase < client.game.phase)
    BY <1>6, <1>7, <2>2
  <2> QED
    BY <2>2, <2>3, <2>4 DEF Known
<1> QED
  BY <1>7

\* KnowsPhases: a client that nothing is on its way to, and that knows of no trouble, is in the
\* phase of the server or has the phase before in its history (Connection and _Reconnection of
\* client/connection.py, on_synchronize of request_managers.py and the notifications of notifier.py
\* leave no phase out, whichever connections break and wherever).
THEOREM KnowsEveryPhase == Spec => []KnowsPhases
<1>1. Spec => []IInv
  BY Invariant
<1>2. IInv /\ KnownInv => KnowsPhases
  BY QuietKnows
<1>3. IInv /\ IInv' /\ KnownInv /\ [Next]_vars => KnownInv'
  BY KnownNext
<1> QED
  BY <1>1, <1>2, <1>3, KnownInit, PTL DEF Spec
=============================================================================
