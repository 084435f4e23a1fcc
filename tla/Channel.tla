------------------------------ MODULE Channel ------------------------------
(***************************************************************************)
(* One player's client and the server, over connections that break: the     *)
(* requests a client sends, holds back, re-sends or gives up, the work of    *)
(* reconnection, the server's answers, and the notifications it queues       *)
(* (diplomacy/client/connection.py, the handlers of response_managers.py     *)
(* and notification_managers.py, server/connection_handler.py, notifier.py   *)
(* and on_synchronize of request_managers.py).                               *)
(*                                                                          *)
(* The client plays one power of one game through one channel.  The other    *)
(* players write to it and have phases processed at any time.  Both ends     *)
(* run on an event loop: a handler that does not suspend is one step.  The   *)
(* board is left out; a phase is a number, and time passes only when         *)
(* something is stamped.                                                     *)
(***************************************************************************)
EXTENDS Integers, Sequences, FiniteSets, SequencesExt, FiniteSetsExt, Requests, Dicts

CONSTANTS
    Kinds,           \* the game requests the client makes
    MaxRequests,     \* bound of this model: requests made
    MaxPhase,        \* bound of this model: phases of the game
    MaxForeign,      \* bound of this model: messages of other players
    MaxDrops         \* bound of this model: connections that break

ASSUME ChannelAssumption ==
    /\ Kinds \subseteq {"SendGameMessage", "SetOrders", "SetWaitFlag"}
    /\ {MaxRequests, MaxPhase, MaxForeign, MaxDrops} \subseteq Nat /\ MaxPhase > 0

Requested == 1..MaxRequests
Conns == 1..(MaxDrops + 1)
Sync(k) == MaxRequests + k           \* the Synchronize request of connection k
Ids == 1..(MaxRequests + MaxDrops + 1)
Foreign == MaxRequests + 1..MaxRequests + MaxForeign
None == 0

VARIABLES
    client,     \* Connection, and the NetworkGame
    asked,      \* request -> its fields
    server,     \* the ServerGame
    attached,   \* Users.token_to_connection_handler of the client's token, or None
    closed,     \* the connections whose on_close the server has run
    unread,     \* the connections on which an exception ended the server's reading
    queue,      \* Server.notifications
    up, down,   \* connection -> messages on their way to the server, to the client
    broken      \* the connections that are broken

net == <<up, down, broken>>
ends == <<attached, closed, unread>>
vars == <<client, asked, server, ends, queue, net>>

----------------------------------------------------------------------------
(* Both games.                                                              *)

Past(g) == {h.phase : h \in g.history}

\* Mutant: the phases that were processed are not looked at.
LatestMessage(g) == Max({0} \cup {m.at : m \in g.messages})

\* Game.get_latest_timestamp; the game was created at 0.
GetLatestTimestamp(g) == Max({0} \cup {h.at : h \in g.history} \cup {m.at : m \in g.messages})

Fresh == [phase |-> 1, history |-> {}, messages |-> {}, orders |-> None]

\* Game.set_phase_data of one phase, which clears the history.
SetPhaseData(g, d) ==
    [phase |-> d.phase, history |-> {}, messages |-> d.messages, orders |-> d.orders]

\* Game.extend_phase_history asserts that the phase is not there yet.
Extends(g, h) == h.phase \notin Past(g)
ExtendPhaseHistory(g, h) == [g EXCEPT !.history = @ \cup {h}]

\* NetworkGame after notification n, or the response to a request.
OnNotification(g, n) ==
    CASE n.type = "message" -> [g EXCEPT !.messages = @ \cup {n.data}]
      [] n.type = "state_history" -> ExtendPhaseHistory(g, n.data)
      [] n.type = "phase" -> SetPhaseData(g, n.data)
      [] n.type = "processed" ->
            [ExtendPhaseHistory(g, n.data) EXCEPT
                !.phase = n.data.phase + 1, !.messages = {}, !.orders = None]

\* The client's game follows its own requests only when they are answered.
MessageSent(g, id, r) == [g EXCEPT !.messages = @ \cup {[id |-> id, at |-> r.data]}]
OrdersSet(g, id) == [g EXCEPT !.orders = id]

OnResponse(g, id, r) ==
    CASE asked[id].kind = "SendGameMessage" -> MessageSent(g, id, r)
      [] asked[id].kind = "SetOrders" -> OrdersSet(g, id)
      [] OTHER -> g

----------------------------------------------------------------------------
(* The client.                                                              *)

Kind(id) == asked[id].kind
IsSync(id) == Kind(id) = "Synchronize"
Outstanding == client.held \cup client.woken \cup client.toSend \cup client.waiting

\* Connection.write_request: a request waits for the reconnection to be done.
WriteRequest(c, id) ==
    IF c.ready THEN [c EXCEPT !.woken = @ \cup {id}] ELSE [c EXCEPT !.held = @ \cup {id}]

\* The player makes a request, for the phase the client believes in (_req_fn).  The
\* future it is given fails after REQUEST_TIMEOUT_SECONDS; only the player hears of
\* that: the request is still written, or waited for, and an answer still counts.
Send(kind) ==
    LET id == Cardinality(DOMAIN asked \cap Requested) + 1 IN
    /\ id \in Requested
    /\ client.mode # "dead"
    /\ asked' = Put(asked, id, [kind |-> kind, phase |-> client.game.phase, re_sent |-> FALSE])
    /\ client' = WriteRequest(client, id)
    /\ UNCHANGED <<server, ends, queue, net>>

\* The client after it tried to write a request: it registered it to send, if the
\* write raised, or to be answered.  A write that fails later registers nothing.
Written(id) ==
    LET c == [client EXCEPT !.woken = @ \ {id}]
        waiting == [c EXCEPT !.waiting = @ \cup {id}]
        toSend == [c EXCEPT !.toSend = @ \cup {id}]
    IN IF client.mode = "connecting" THEN {toSend}
       ELSE IF client.conn \in broken THEN {c, waiting, toSend}
       ELSE {waiting}

\* A request as it is written: it may be marked later.  The rest of it does not change.
Wire(id) == [id |-> id, re_sent |-> asked[id].re_sent]

\* on_connected, _MessageWrittenCallback: the callback of a request that need not
\* wait any more.
Write(id) ==
    /\ id \in client.woken /\ client.mode # "dead"
    /\ client' \in Written(id)
    /\ up' = IF client.mode = "reading" /\ client.conn \notin broken
             THEN [up EXCEPT ![client.conn] = Append(@, Wire(id))] ELSE up
    /\ UNCHANGED <<asked, server, ends, queue, down, broken>>

\* _handle_socket_messages reads the end of the connection; _reconnect.
Disconnected ==
    /\ client.mode = "reading" /\ client.conn \in broken /\ down[client.conn] = <<>>
    /\ client' = [client EXCEPT !.mode = "connecting", !.ready = FALSE]
    /\ UNCHANGED <<asked, server, ends, queue, net>>

\* _connect gives up after NB_CONNECTION_ATTEMPTS and ends the reading.
GiveUp ==
    /\ client.mode = "connecting"
    /\ client' = [client EXCEPT !.mode = "dead"]
    /\ UNCHANGED <<asked, server, ends, queue, net>>

\* Mutant: nobody marks the requests that are sent again.
MarkedReSentNever(a, ids) == a

MarkedReSent(a, ids) ==
    [id \in DOMAIN a |-> IF id \in ids THEN [a[id] EXCEPT !.re_sent = TRUE] ELSE a[id]]

\* Mutant: the requests that wait for an answer go on waiting too.
ToSendAgainTwice(c) == [c EXCEPT !.toSend = {id \in @ \cup c.waiting : ~IsSync(id)}]

\* All requests without an answer are to be sent again, but those to synchronize.
ToSendAgain(c) == [c EXCEPT !.toSend = {id \in @ \cup c.waiting : ~IsSync(id)}, !.waiting = {}]

\* Mutant: Synchronize too waits for the reconnection to be done.
AskSyncWaits(c, id) == WriteRequest(c, id)

\* A Synchronize request only waits for the connection.
AskSync(c, id) == [c EXCEPT !.woken = @ \cup {id}]

\* _connect succeeds; _Reconnection.reconnect.  The callbacks that need not wait
\* have run by then: a connection takes longer than a turn of the event loop.
Connect ==
    LET k == client.conn + 1 IN
    /\ client.mode = "connecting" /\ client.woken = {} /\ k \in Conns
    /\ asked' = Put(MarkedReSent(asked, client.waiting), Sync(k),
                    [kind |-> "Synchronize", re_sent |-> FALSE,
                     timestamp |-> GetLatestTimestamp(client.game)])
    /\ client' = AskSync([ToSendAgain(client) EXCEPT !.mode = "reading", !.conn = k,
                                                     !.timedOut = FALSE], Sync(k))
    /\ UNCHANGED <<server, ends, queue, net>>

\* _Reconnection.sync_done, for the phase the server named: the requests of
\* another phase are given up, the others sent.
SyncDone(c, phase) ==
    LET kept == {id \in c.toSend : PhaseDependent(Kind(id)) => asked[id].phase = phase} IN
    [c EXCEPT !.toSend = {}, !.held = {}, !.woken = @ \cup c.held \cup kept, !.ready = TRUE]

\* The future of the Synchronize fails after REQUEST_TIMEOUT_SECONDS: on_sync logs
\* the exception, and is not called again.  Nobody asks for another Synchronize
\* while the connection holds.  The time is not modelled: it may be over at any moment.
SyncTimeout ==
    /\ client.mode = "reading" /\ Sync(client.conn) \in Outstanding /\ ~client.timedOut
    /\ client' = [client EXCEPT !.timedOut = TRUE]
    /\ UNCHANGED <<asked, server, ends, queue, net>>

\* _on_socket_message, of a response.  One nobody waits for is forgotten.  An
\* error only reaches the caller, and so does the answer to a Synchronize that
\* timed out.
OnSocketResponse(r) ==
    LET c == [client EXCEPT !.waiting = @ \ {r.id}] IN
    client' = IF \/ r.id \notin client.waiting \/ r.type = "error"
                 \/ IsSync(r.id) /\ client.timedOut
              THEN c
              ELSE IF IsSync(r.id) THEN SyncDone(c, r.data)
              ELSE [c EXCEPT !.game = OnResponse(@, r.id, r)]

\* _on_socket_message, of a notification.  A failed assertion ends the reading.
OnSocketNotification(n) ==
    IF n.type \in {"state_history", "processed"} /\ ~Extends(client.game, n.data)
    THEN client' = [client EXCEPT !.mode = "dead"]
    ELSE client' = [client EXCEPT !.game = OnNotification(@, n)]

OnSocketMessage ==
    LET k == client.conn IN
    /\ client.mode = "reading" /\ down[k] # <<>>
    /\ down' = [down EXCEPT ![k] = Tail(@)]
    /\ IF Head(down[k]).type \in {"response", "error"}
       THEN OnSocketResponse(Head(down[k])) ELSE OnSocketNotification(Head(down[k]))
    /\ UNCHANGED <<asked, server, ends, queue, up, broken>>

----------------------------------------------------------------------------
(* The server.                                                              *)

Open(k) == k = client.conn /\ k \notin broken

\* What is written to an open connection arrives, unless the connection breaks.
Sent(k, m) == IF Open(k) THEN [down EXCEPT ![k] = Append(@, m)] ELSE down

\* Game.get_phase_data
GetPhaseData == [phase |-> server.phase, messages |-> server.messages, orders |-> server.orders]

Response(id, data) == [type |-> "response", id |-> id, data |-> data]
Error(id) == [type |-> "error", id |-> id]

\* Notifier: the notifications for the tokens of the power are queued for the
\* connection the token has then.
Notified(ns) ==
    IF attached' = None \/ ~server.controlled THEN queue
    ELSE queue \o [i \in DOMAIN ns |-> [to |-> attached', notification |-> ns[i]]]

\* Mutant: one too late.
SinceNext(xs, ts) == {x \in xs : x.at > ts + 1}

\* What is stamped after a timestamp.
Since(xs, ts) == {x \in xs : x.at > ts}

\* The notifications in the order of time: there is one, as no two have one time.
InTime(ns) ==
    {s \in [1..Cardinality(ns) -> ns] : \A i, j \in DOMAIN s : i < j => s[i].data.at < s[j].data.at}

\* on_synchronize: what the client did not see since the timestamp, in the order
\* of time.  The current phase is sent only when a phase before it is.
Synchronized(ts) ==
    LET phases == Since(server.history, ts)
        messages == {m \in Since(server.messages, ts) : m.id \in Foreign}
        current == IF phases = {} THEN <<>> ELSE <<[type |-> "phase", data |-> GetPhaseData]>>
    IN {h \o m \o current :
            h \in InTime({[type |-> "state_history", data |-> d] : d \in phases}),
            m \in InTime({[type |-> "message", data |-> d] : d \in messages})}

Refuse(k, id) == down' = Sent(k, Error(id)) /\ UNCHANGED server

OnSynchronize(k, id) ==
    /\ \E ns \in Synchronized(asked[id].timestamp) : queue' = Notified(ns)
    /\ down' = Sent(k, Response(id, server.phase))
    /\ UNCHANGED server

\* The archived message a request that is sent again repeats.
Repeated(r) == {m \in server.messages : r.re_sent /\ m.id = r.id}

\* on_send_game_message.  The sender is not notified.
OnSendGameMessage(k, r) ==
    /\ UNCHANGED queue
    /\ IF asked[r.id].phase # server.phase
       THEN Refuse(k, r.id)
       ELSE IF Repeated(r) # {}
       THEN /\ \E m \in Repeated(r) : down' = Sent(k, Response(r.id, m.at))
            /\ UNCHANGED server
       ELSE /\ server' = [server EXCEPT !.now = @ + 1,
                                        !.messages = @ \cup {[id |-> r.id, at |-> server.now + 1]}]
            /\ down' = Sent(k, Response(r.id, server.now + 1))

\* on_set_orders
OnSetOrders(k, id) ==
    /\ UNCHANGED queue
    /\ IF asked[id].phase # server.phase
       THEN Refuse(k, id)
       ELSE /\ server' = [server EXCEPT !.orders = id]
            /\ down' = Sent(k, Response(id, None))

\* on_set_wait_flag does not ask for the phase of the request.
OnSetWaitFlag(k, id) ==
    /\ server' = [server EXCEPT !.waits = @ \cup {[id |-> id, phase |-> server.phase]}]
    /\ down' = Sent(k, Response(id, None))
    /\ UNCHANGED queue

\* request_managers.handle_request; verify_request and on_synchronize refuse who does
\* not control the power any more.
HandleRequest(k, r) ==
    IF ~server.controlled THEN Refuse(k, r.id) /\ UNCHANGED queue
    ELSE CASE Kind(r.id) = "Synchronize" -> OnSynchronize(k, r.id)
           [] Kind(r.id) = "SendGameMessage" -> OnSendGameMessage(k, r)
           [] Kind(r.id) = "SetOrders" -> OnSetOrders(k, r.id)
           [] Kind(r.id) = "SetWaitFlag" -> OnSetWaitFlag(k, r.id)

\* attach_connection_handler asserts that no other connection has the token.
MayAttach(k) == attached \in {None, k}

\* ConnectionHandler.on_message.  The exception of a failed assertion leaves
\* the request without an answer, and nothing more is read.
OnMessage(k) ==
    /\ up[k] # <<>> /\ k \notin closed \cup unread
    /\ up' = [up EXCEPT ![k] = Tail(@)]
    /\ IF MayAttach(k)
       THEN /\ attached' = k
            /\ HandleRequest(k, Head(up[k]))
            /\ UNCHANGED unread
       ELSE /\ unread' = unread \cup {k}
            /\ UNCHANGED <<attached, server, queue, down>>
    /\ UNCHANGED <<client, asked, closed, broken>>

\* ConnectionHandler.on_close, when the server notices.
OnClose(k) ==
    /\ k \in broken \ closed
    /\ closed' = closed \cup {k}
    /\ attached' = IF attached = k THEN None ELSE attached
    /\ up' = [up EXCEPT ![k] = <<>>]
    /\ UNCHANGED <<client, asked, server, unread, queue, down, broken>>

\* _task_send_notifications writes the first of the queue.
SendNotification ==
    /\ queue # <<>>
    /\ down' = Sent(Head(queue).to, Head(queue).notification)
    /\ queue' = Tail(queue)
    /\ UNCHANGED <<client, asked, server, ends, up, broken>>

\* Another player writes to this one.
ForeignMessage ==
    LET seen == {m.id : m \in UNION ({server.messages} \cup {h.messages : h \in server.history})}
        m == [id |-> Max({MaxRequests} \cup (seen \cap Foreign)) + 1, at |-> server.now + 1]
    IN
    /\ m.id \in Foreign
    /\ server' = [server EXCEPT !.now = @ + 1, !.messages = @ \cup {m}]
    /\ UNCHANGED <<client, asked, ends, net>>
    /\ queue' = Notified(<<[type |-> "message", data |-> m]>>)

\* The phase is processed; notify_game_processed.
Process ==
    LET h == [phase |-> server.phase, at |-> server.now + 1, messages |-> server.messages] IN
    /\ server.phase < MaxPhase
    /\ server' = [server EXCEPT !.now = @ + 1, !.phase = @ + 1, !.history = @ \cup {h},
                                !.messages = {}, !.orders = None]
    /\ UNCHANGED <<client, asked, ends, net>>
    /\ queue' = Notified(<<[type |-> "processed", data |-> h]>>)

\* on_set_dummy_powers of a master: the power loses its tokens before the players
\* are notified, so its player is not.
Kick ==
    /\ server.controlled
    /\ server' = [server EXCEPT !.controlled = FALSE]
    /\ UNCHANGED <<client, asked, ends, queue, net>>

\* The connection breaks, with what was on its way behind some point.
Break ==
    LET k == client.conn IN
    /\ Open(k) /\ client.mode = "reading" /\ k <= MaxDrops
    /\ broken' = broken \cup {k}
    /\ \E i \in 0..Len(up[k]), j \in 0..Len(down[k]) :
          /\ up' = [up EXCEPT ![k] = SubSeq(@, 1, i)]
          /\ down' = [down EXCEPT ![k] = SubSeq(@, 1, j)]
    /\ UNCHANGED <<client, asked, server, ends, queue>>

Init ==
    /\ client = [conn |-> 1, mode |-> "reading", ready |-> TRUE, timedOut |-> FALSE,
                 held |-> {}, woken |-> {}, toSend |-> {}, waiting |-> {}, game |-> Fresh]
    /\ asked = Empty
    /\ server = [phase |-> 1, history |-> {}, messages |-> {}, orders |-> None,
                 now |-> 0, waits |-> {}, controlled |-> TRUE]
    /\ attached = 1 /\ closed = {} /\ unread = {}
    /\ queue = <<>>
    /\ up = [k \in Conns |-> <<>>] /\ down = [k \in Conns |-> <<>>] /\ broken = {}

Ours == \/ \E id \in Ids : Write(id)
        \/ Disconnected \/ Connect \/ OnSocketMessage
Theirs == \/ \E k \in Conns : OnMessage(k) \/ OnClose(k)
          \/ SendNotification
Next == \/ \E kind \in Kinds : Send(kind)
        \/ Ours \/ Theirs \/ GiveUp \/ SyncTimeout
        \/ ForeignMessage \/ Process \/ Kick \/ Break

Spec == Init /\ [][Next]_vars /\ WF_vars(Ours) /\ WF_vars(Theirs)

----------------------------------------------------------------------------
(* Properties.                                                              *)

Places == <<client.held, client.woken, client.toSend, client.waiting>>

\* The state has its type; a request that is outstanding waits in one place; and
\* nothing is held back once the reconnection is done.
TypeOK ==
    /\ client.conn \in Conns /\ client.mode \in {"reading", "connecting", "dead"}
    /\ {client.ready, client.timedOut} \subseteq BOOLEAN /\ (client.ready => client.held = {})
    /\ DOMAIN asked \subseteq Ids /\ Outstanding \subseteq DOMAIN asked
    /\ \A i, j \in DOMAIN Places : i # j => Places[i] \cap Places[j] = {}
    /\ client.game.phase \in 1..MaxPhase /\ server.phase \in 1..MaxPhase
    /\ attached \in {None} \cup Conns /\ closed \cup unread \cup broken \subseteq Conns

\* A message is archived once, however often its request was sent: the mark re_sent,
\* the messages kept per phase and the rule that one connection has the token
\* work together.
ArchivedOnce ==
    LET archives == {server.messages} \cup {h.messages : h \in server.history} IN
    /\ \A a, b \in archives : a # b => {m.id : m \in a} \cap {m.id : m \in b} = {}
    /\ \A a \in archives : \A m, n \in a : m.id = n.id => m = n

\* No phase reaches a game twice, by a notification of before and by one of the
\* synchronization: the assertions of extend_phase_history do not end the reading.
ReadsOn == client.mode = "dead" => client.conn \in broken

\* Nothing is on its way, and the client knows of no trouble.
Quiet ==
    /\ client.mode = "reading" /\ client.ready /\ client.conn \notin broken
    /\ server.controlled
    /\ Outstanding = {} /\ queue = <<>> /\ down[client.conn] = <<>>

\* A quiet client knows every phase that was processed: it is in the current phase,
\* or it has the phase before in its history.  (A connection that breaks between the
\* last state_history and the phase leaves it there.)
KnowsPhases ==
    Quiet => client.game.phase = server.phase \/ server.phase - 1 \in Past(client.game)

\* A client that connects again gets ready again, unless the connection breaks, the
\* server stops to read it (it still had the token on the last connection), the power
\* was taken away, or the answer to its Synchronize takes longer than the client
\* waits: then it holds its requests back until the connection breaks again.
Reconnects ==
    client.mode = "connecting" ~>
        \/ client.ready \/ client.mode = "dead" \/ ~server.controlled
        \/ client.mode = "reading" /\ (client.conn \in broken \cup unread \/ client.timedOut)
=============================================================================
