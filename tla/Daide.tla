------------------------------- MODULE Daide -------------------------------
(***************************************************************************)
(* The DAIDE server of one game: its connections, the names and accounts     *)
(* they get, what each request of a client does to the game and what is       *)
(* answered (diplomacy/daide/connection_handler.py, request_managers.py,      *)
(* messages.py, responses.py and server.py, with the port of                  *)
(* diplomacy/server/server.py).                                              *)
(*                                                                          *)
(* A handler runs to its end before another starts.  An exception that no     *)
(* handler catches ends the coroutine that reads a connection: the client is  *)
(* neither answered nor closed, the session is dead.  Messages between        *)
(* players, wait flags (a phase may end at any time), what answers say of     *)
(* the board and the syntax of requests are left out.                        *)
(***************************************************************************)
EXTENDS Integers, Sequences, FiniteSets, SequencesExt

CONSTANTS
    Conns,       \* connections, in the order they are opened or any other
    Clients,     \* client names of NME
    Strangers,   \* accounts of the website, with passwords of their own
    GamePowers,
    Units,       \* the units, or the sites, of any power in any phase
    Texts,       \* what a unit may be told to do
    Types,       \* types of phases: M, and R and A, which are one to this module
    Faults,      \* codes of the errors of an order
    MaxOrders,   \* bound of this model: orders of one SUB
    Required,    \* Game.get_expected_controls_count
    None

ASSUME DaideAssumption ==
    /\ Strangers \subseteq Nat \X Clients
    /\ Types \subseteq {"M", "R", "A"} /\ "M" \in Types
    /\ MaxOrders \in Nat /\ Required \in Nat
    /\ None \notin Nat \cup (Nat \X Clients)

VARIABLES
    conns,       \* connection -> its state, name variant and user (by its token)
    registered,  \* daide.Server._registered_connections
    pool, used,  \* ConnectionHandler._NAME_VARIANTS_POOL, _USED_NAME_VARIANTS
    attached,    \* the connections that Users knows
    listening,   \* the game has a DAIDE server
    game,        \* its status, type of phase and errors
    power,       \* power -> its controller, tokens, vote and what it ordered
    answer       \* the answer to the last request, and to whom

sessions == <<conns, registered, pool, used, attached, listening>>
daideVars == <<sessions, game, power, answer>>

\* An order, what it tells the unit, and the error the game finds in it.
Order == [unit : Units, text : Texts, error : Faults \cup {None}]

\* One and the same order has one error.
Submissions ==
    {orders \in UNION {[1..n -> Order] : n \in 1..MaxOrders} :
        \A i, j \in DOMAIN orders :
            orders[i].unit = orders[j].unit /\ orders[i].text = orders[j].text
                => orders[i].error = orders[j].error}

Reading(k) == conns[k].state = "reading"
Named(k) == conns[k].user # None

----------------------------------------------------------------------------
(* Answers.                                                                 *)

Answer(k, names) == answer' = [to |-> k, says |-> names, thanks |-> << >>]
Silence == answer' = [to |-> None, says |-> << >>, thanks |-> << >>]

\* Mutant: handle_stream unregisters a connection whose session died.
DiesUnregistered(k) ==
    /\ Silence
    /\ conns' = [conns EXCEPT ![k].state = "dead"]
    /\ registered' = registered \ {k}
    /\ UNCHANGED <<pool, used, attached, listening>>

\* The coroutine of handle_stream ends with an exception: what is below its loop
\* does not run.
Dies(k) ==
    /\ Silence
    /\ conns' = [conns EXCEPT ![k].state = "dead"]
    /\ UNCHANGED <<registered, pool, used, attached, listening>>

Answers(k, names) == Answer(k, names) /\ UNCHANGED <<sessions, game, power>>
Fails(k) == Dies(k) /\ UNCHANGED <<game, power>>

----------------------------------------------------------------------------
(* Connections.                                                             *)

\* Server.handle_stream
Connect(k) ==
    /\ listening /\ conns[k].state = "new"
    /\ conns' = [conns EXCEPT ![k].state = "reading"]
    /\ registered' = registered \cup {k}
    /\ Silence
    /\ UNCHANGED <<pool, used, attached, listening, game, power>>

\* The client closes the connection, or sends a final message.  The loop of
\* handle_stream ends, unless it had ended with an exception.
Close(k) ==
    /\ conns[k].state \in {"reading", "dead"}
    /\ conns' = [conns EXCEPT ![k].state = "closing"]
    /\ registered' = IF Reading(k) THEN registered \ {k} ELSE registered
    /\ Silence
    /\ UNCHANGED <<pool, used, attached, listening, game, power>>

\* Mutant: the number of names in use, whatever was released.
CountedVariant(k) == IF conns[k].variant # None THEN conns[k].variant ELSE Len(used)

\* ConnectionHandler.get_name_variant
NameVariant(k) ==
    IF conns[k].variant # None THEN conns[k].variant
    ELSE IF pool # << >> THEN Head(pool) ELSE Len(used)

\* ConnectionHandler.on_connection_close.  A connection without a name raises at
\* list.remove: Users is not told, which knows nothing of it.
OnConnectionClose(k) ==
    /\ conns[k].state = "closing"
    /\ IF conns[k].variant = None
       THEN /\ conns' = [conns EXCEPT ![k].state = "closed"]
            /\ UNCHANGED <<pool, used, attached>>
       ELSE /\ conns' = [conns EXCEPT ![k].state = "closed", ![k].variant = None]
            /\ pool' = Append(pool, conns[k].variant)
            /\ used' = RemoveFirst(used, conns[k].variant)
            /\ attached' = attached \ {k}
    /\ Silence
    /\ UNCHANGED <<registered, listening, game, power>>

\* daide.Server.stop: OFF is sent to every registered connection, and it is closed.
StopPort ==
    /\ listening' = FALSE
    /\ conns' = [k \in Conns |-> IF k \in registered /\ conns[k].state \in {"reading", "dead"}
                                 THEN [conns[k] EXCEPT !.state = "closing"] ELSE conns[k]]
    /\ registered' = {k \in registered : conns[k].state = "dead"}
    /\ UNCHANGED <<pool, used, attached>>

\* InitialMessage.build: another version, byte order or magic number is an error; of
\* another length, it leaves the reading out of step: what is read next has no type.
OnInitialMessage(k) == Answers(k, <<"RM">>) \/ Answers(k, <<"ERROR">>) \/ Fails(k)

\* RepresentationMessage.build: only a server sends it.
OnRepresentationMessage(k) == Answers(k, <<"ERROR">>)

\* DiplomacyMessage.build, of one that is empty or of odd length, whose bytes are read
\* twice: out of step too.  RequestBuilder.from_bytes raises on an unknown request.
OnBadRequest(k) == Answers(k, <<"ERROR">>) \/ Fails(k)

\* ErrorMessage.build, of a known error, of another length, or of an unknown error.
OnErrorMessage(k) == Answers(k, << >>) \/ Answers(k, <<"ERROR">>) \/ Fails(k)

\* DaideMessage.from_stream, of messages that are no request.  An unknown type raises.
OnMessage(k) ==
    /\ Reading(k)
    /\ \/ OnInitialMessage(k) \/ OnRepresentationMessage(k)
       \/ OnBadRequest(k) \/ OnErrorMessage(k)
       \/ Fails(k)

----------------------------------------------------------------------------
(* The powers.                                                              *)

\* utils.get_user_connection
PowersOf(k) == {p \in GamePowers : Named(k) /\ power[p].controller = conns[k].user}
Uncontrolled == {p \in GamePowers : power[p].controller = None}

\* ServerGame.control, and what Power.set_controlled leaves of the last controller.
Control(p, user, k) ==
    [power EXCEPT ![p].controller = user, ![p].tokens = {k}, ![p].vote = FALSE]

\* on_join_game, of a power that nobody controls, without observers and passwords.
\* The game starts when it has its players.
JoinGame(k, p) ==
    LET players == Cardinality(GamePowers \ Uncontrolled) + 1 IN
    /\ power' = Control(p, conns[k].user, k)
    /\ game' = IF game.status = "forming" /\ players = Required
               THEN [game EXCEPT !.status = "active"] ELSE game

\* Game.has_draw_vote, Game.draw.  The port stays open.
Vote(p, yes) ==
    LET voted == [power EXCEPT ![p].vote = yes] IN
    IF \A q \in GamePowers : voted[q].vote
    THEN /\ game' = [game EXCEPT !.status = "completed"]
         /\ power' = [q \in GamePowers |-> [voted[q] EXCEPT !.vote = FALSE, !.ordered = {}]]
    ELSE game' = game /\ power' = voted

\* What an order leaves of itself: an item of Power.orders, or an entry of Power.adjust,
\* where one that is refused stays as VOID.
Standing(o, void) == [unit |-> o.unit, text |-> o.text, void |-> void]

Entry(o) ==
    IF o.error = None THEN {Standing(o, FALSE)}
    ELSE IF game.type = "M" THEN {} ELSE {Standing(o, TRUE)}

Repeats(orders, i) ==
    /\ game.type # "M" /\ orders[i].error = None
    /\ \E j \in 1..(i - 1) : orders[j].error = None /\ orders[j].unit = orders[i].unit

\* Mutant: an order does not replace an earlier one.
ReplacedByEarlier(orders, i) ==
    /\ game.type = "M"
    /\ \E j \in DOMAIN orders :
          j < i /\ orders[j].error = None /\ orders[j].unit = orders[i].unit

\* Power.orders has one item for a unit, which a later order without an error replaces.
Replaced(orders, i) ==
    /\ game.type = "M"
    /\ \E j \in DOMAIN orders :
          j > i /\ orders[j].error = None /\ orders[j].unit = orders[i].unit

\* on_set_orders: earlier orders are cleared.  Of two orders of a unit the last counts
\* in a movement phase, the first in the others.
Ordered(orders) ==
    UNION {IF Repeats(orders, i) THEN {Standing(orders[i], TRUE)} ELSE Entry(orders[i]) :
              i \in {j \in DOMAIN orders : ~Replaced(orders, j)}}
ErrorsOf(orders) ==
    ({orders[i].error : i \in DOMAIN orders} \ {None})
        \cup {"twice" : i \in {j \in DOMAIN orders : Repeats(orders, j)}}

----------------------------------------------------------------------------
(* Requests.                                                                *)

\* on_name_request.  The power is only asked for later: a client without a power has
\* an account.
OnName(k, client) ==
    LET v == NameVariant(k)
        name == <<v, client>>
        refused == ~Named(k) /\ name \in Strangers
    IN
    /\ pool' = IF conns[k].variant = None /\ pool # << >> THEN Tail(pool) ELSE pool
    /\ used' = IF conns[k].variant = None THEN Append(used, v) ELSE used
    /\ conns' = [conns EXCEPT ![k].variant = v,
                              ![k].user = IF Named(k) \/ refused THEN @ ELSE name]
    /\ attached' = IF refused THEN attached ELSE attached \cup {k}
    /\ Answer(k, IF refused \/ Uncontrolled = {} THEN <<"REJ">> ELSE <<"YES", "MAP">>)
    /\ UNCHANGED <<registered, listening, game, power>>

\* on_hello_request
OnHello(k) == Answers(k, IF PowersOf(k) = {} THEN <<"REJ">> ELSE <<"HLO">>)

\* on_map_request, on_map_definition_request, on_supply_centre_ownership_request and
\* on_current_position_request
OnBoardRequest(k) ==
    Answers(k, <<"MAP">>) \/ Answers(k, <<"MDF">>) \/ Answers(k, <<"SCO">>) \/ Answers(k, <<"NOW">>)

\* on_observer_request, on_time_to_deadline_request, on_admin_message_request
OnRefused(k) == Answers(k, <<"REJ">>)

\* on_missing_orders_request
OnMissingOrders(k) == Answers(k, IF PowersOf(k) = {} THEN <<"REJ">> ELSE <<"MIS">>)

\* on_reject_request, of the map, which leaves the client as it is, or of another thing.
OnReject(k) == Answers(k, <<"OFF">>) \/ Answers(k, << >>)

\* on_parenthesis_error_request, on_syntax_error_request
OnSyntaxError(k) == Answers(k, << >>)

\* on_history_request, of a phase without results, or of one with them.
OnHistory(k) ==
    \/ Answers(k, <<"REJ">>)
    \/ IF PowersOf(k) = {} THEN Fails(k) ELSE Answers(k, <<"ORD", "SCO", "NOW">>)

\* on_i_am_request: Users has no values.
OnIAm(k) == Fails(k)

\* The request on_submit_orders_request makes in the end, of all orders.
Submitted(orders) == Ordered(orders)

\* on_submit_orders_request gives the orders one by one, to find what to answer: the
\* errors are those since the start, of any order; what is new is compared with the
\* start in a retreat or adjustment phase, and with nothing in a movement phase.
NewErrors(p, orders, i) ==
    LET before == IF game.type = "M" THEN {} ELSE power[p].ordered
        errors == (ErrorsOf(SubSeq(orders, 1, i)) \ {"twice"}) \ game.errors
    IN IF errors = {} /\ Entry(orders[i]) \subseteq before THEN {"not allowed"} ELSE errors

\* ThanksResponse
Note(errors) == IF errors = {} THEN "MBV" ELSE "NYU"

Thanks(p, orders) ==
    [i \in DOMAIN orders |-> [order |-> orders[i], note |-> Note(NewErrors(p, orders, i))]]

\* on_submit_orders_request, of orders of the current phase that begin with one for
\* a unit of this client's power.
OnSubmit(k, orders) ==
    \E p \in PowersOf(k) :
        /\ power' = [power EXCEPT ![p].ordered = Submitted(orders)]
        /\ game' = [game EXCEPT !.errors = @ \cup ErrorsOf(orders)]
        /\ answer' = [to |-> k, says |-> <<"THX", "MIS">>, thanks |-> Thanks(p, orders)]
        /\ UNCHANGED sessions

\* on_submit_orders_request, of another phase, of no order or without a power, of
\* orders that begin with one for a unit of another power.
OnSubmitRefused(k) ==
    \/ Answers(k, <<"REJ">>)
    \/ Fails(k)

\* on_go_flag_request, which ends the wait of the power.  Here and below: without a
\* power the internal request cannot be made.
OnGoFlag(k) == IF PowersOf(k) = {} THEN Fails(k) ELSE Answers(k, <<"YES">>)

\* on_send_message_request
OnSendMessage(k) == IF PowersOf(k) = {} THEN Fails(k) ELSE Answers(k, <<"YES">>)

\* on_draw_request
OnDraw(k) ==
    IF PowersOf(k) = {} THEN Fails(k)
    ELSE \E p \in PowersOf(k) : Vote(p, TRUE) /\ Answer(k, <<"YES">>) /\ UNCHANGED sessions

\* on_not_request: of a deadline or of single orders; of all orders; of GOF; of DRW.
OnNot(k) ==
    \/ Answers(k, <<"REJ">>)
    \/ IF PowersOf(k) = {} THEN Fails(k)
       ELSE \E p \in PowersOf(k) :
              /\ \/ power' = [power EXCEPT ![p].ordered = {}] /\ UNCHANGED game
                 \/ UNCHANGED <<power, game>>
                 \/ Vote(p, FALSE)
              /\ Answer(k, <<"YES">>) /\ UNCHANGED sessions

\* Mutant: whoever accepts the map joins.
MayJoin(k) == TRUE

\* on_accept_request joins only a client that has no power.
Powerless(k) == PowersOf(k) = {}

\* on_accept_request, of the map.  The power is the one the client's name begins
\* with, the first, or a random one.  A successful client is not answered.
OnAcceptMap(k) ==
    IF ~Powerless(k) THEN Answers(k, << >>)
    ELSE IF Uncontrolled = {} THEN Answers(k, <<"OFF">>)
    ELSE IF ~Named(k) THEN Fails(k)
    ELSE IF Cardinality(GamePowers \ Uncontrolled) >= Required THEN Answers(k, <<"REJ">>)
    ELSE \E p \in Uncontrolled :
            JoinGame(k, p) /\ Answer(k, << >>) /\ UNCHANGED sessions

\* request_managers.handle_request refuses all requests of a game that ended.
DaideRequest(k) ==
    /\ Reading(k)
    /\ IF game.status \in {"completed", "canceled"} THEN Answers(k, <<"REJ">>)
       ELSE \/ \E client \in Clients : OnName(k, client)
            \/ OnHello(k) \/ OnIAm(k) \/ OnBoardRequest(k) \/ OnRefused(k)
            \/ OnMissingOrders(k) \/ OnReject(k) \/ OnSyntaxError(k)
            \/ OnHistory(k)
            \/ \E orders \in Submissions : OnSubmit(k, orders)
            \/ OnSubmitRefused(k)
            \/ OnGoFlag(k) \/ OnSendMessage(k) \/ OnDraw(k) \/ OnNot(k) \/ OnAcceptMap(k)

----------------------------------------------------------------------------
(* The server of the game.                                                  *)

\* Server._process_game: the DAIDE server stops with the game.
Process(done) ==
    /\ game.status = "active"
    /\ \E type \in Types :
          game' = [status |-> IF done THEN "completed" ELSE "active",
                   type |-> type, errors |-> {}]
    /\ power' = [p \in GamePowers |-> [power[p] EXCEPT !.ordered = {}, !.vote = FALSE]]
    /\ Silence
    /\ IF done /\ listening THEN StopPort ELSE UNCHANGED sessions

\* A master makes a power a dummy: on_set_dummy_powers, stop_game_if_needed.
Kick(p) ==
    /\ game.status \in {"forming", "active"} /\ power[p].controller # None
    /\ power' = [power EXCEPT ![p].controller = None, ![p].tokens = {}, ![p].vote = FALSE]
    /\ game' = [game EXCEPT !.status = "forming"]
    /\ Silence /\ UNCHANGED sessions

\* on_set_game_status of a game that is kept, or Server.delete_game.
Cancel(delete) ==
    /\ game.status \in {"forming", "active"}
    /\ game' = [game EXCEPT !.status = "canceled"]
    /\ Silence /\ UNCHANGED power
    /\ IF delete /\ listening THEN StopPort ELSE UNCHANGED sessions

DaideInit ==
    /\ conns = [k \in Conns |-> [state |-> "new", variant |-> None, user |-> None]]
    /\ registered = {} /\ pool = << >> /\ used = << >> /\ attached = {} /\ listening = TRUE
    /\ game = [status |-> "forming", type |-> "M", errors |-> {}]
    /\ power = [p \in GamePowers |-> [controller |-> None, tokens |-> {}, vote |-> FALSE,
                                 ordered |-> {}]]
    /\ answer = [to |-> None, says |-> << >>, thanks |-> << >>]

DaideNext ==
    \/ \E k \in Conns : \/ Connect(k) \/ OnMessage(k) \/ DaideRequest(k)
                         \/ Close(k) \/ OnConnectionClose(k)
    \/ \E done \in BOOLEAN : Process(done)
    \/ \E p \in GamePowers : Kick(p)
    \/ \E delete \in BOOLEAN : Cancel(delete)

DaideSpec == DaideInit /\ [][DaideNext]_daideVars

----------------------------------------------------------------------------
(* Properties.                                                              *)

Variants == {conns[k].variant : k \in Conns} \ {None}

\* The state has its type, and the name variants are shared out: every number up to
\* some n is either in the pool or in use, once, by one connection.
DaideTypeOK ==
    /\ \A k \in Conns : conns[k].state \in {"new", "reading", "dead", "closing", "closed"}
    /\ registered \cup attached \subseteq Conns
    /\ game.status \in {"forming", "active", "completed", "canceled"}
    /\ \A p \in GamePowers : power[p].controller = None <=> power[p].tokens = {}
    /\ Range(used) = Variants
    /\ Range(pool) \cup Range(used) = 0..(Len(pool) + Len(used) - 1)

\* Two clients that are connected never have one account, as a name variant is given
\* again only when its connection is closed; and an account plays one power, whatever
\* order its requests come in and whoever was kicked in between: get_user_connection
\* takes the first.
OwnAccount ==
    /\ \A j, k \in Conns :
          /\ j # k /\ Named(j) /\ Named(k)
          /\ {conns[j].state, conns[k].state} \cap {"closed"} = {}
          => conns[j].user # conns[k].user
    /\ \A p, q \in GamePowers : p # q /\ power[p].controller # None =>
          power[p].controller # power[q].controller

\* When the DAIDE server of a game stops, nobody is left on a connection that is
\* neither closed nor read, the sessions that died of an exception included.
StopClosesAll ==
    ~listening => \A k \in Conns : conns[k].state \notin {"reading", "dead"}

\* The orders of power p for the unit of an order.
StandFor(p, o) == {e \in power[p].ordered : e.unit = o.unit}

\* In a movement phase an order that is thanked with MBV stands, and nothing else does for
\* its unit, unless a later order of the same SUB took its place: though the orders are
\* given one by one first, each of which clears the others, and then all again.
ThankedMoveStands ==
    LET thanks == answer.thanks IN
    game.type = "M" =>
        \A i \in DOMAIN thanks : thanks[i].note = "MBV" =>
            \E p \in PowersOf(answer.to) : \E j \in DOMAIN thanks :
                /\ j >= i /\ thanks[j].order.unit = thanks[i].order.unit
                /\ StandFor(p, thanks[i].order) = {Standing(thanks[j].order, FALSE)}
=============================================================================
