------------------------------- MODULE Views -------------------------------
(***************************************************************************)
(* What the clients of one game see: the server's game, the copies of it     *)
(* that the clients hold (NetworkGame), and the notifications by which they   *)
(* follow it (diplomacy/server/notifier.py, request_managers.py and           *)
(* server_game.py; diplomacy/client/channel.py, network_game.py,             *)
(* game_instances_set.py, response_managers.py, notification_managers.py;     *)
(* the methods of engine/game.py that both ends call).                       *)
(*                                                                          *)
(* A copy has a role: a power, or observer, or omniscient.  A token may hold *)
(* several copies.  A request, its handler and the handler of its answer are  *)
(* one step, in which the answer overtakes what waits in the queue of the     *)
(* server (Server.notifications); notifications reach a client in order.      *)
(* The clients of the tokens that are not Watched are not modelled; they ask  *)
(* as the others do.  The board is whether a power has units and centers; the *)
(* game's status, the wait flags and order_is_set stay on the server.         *)
(***************************************************************************)
EXTENDS Integers, Sequences, FiniteSets, SequencesExt, Requests, Dicts

CONSTANTS
    Powers, Units,   \* each power has these units to give orders to
    Users, Tokens,
    Owner,           \* token -> user (Users.token_to_username)
    Watched,         \* the tokens whose clients are modelled
    Masters,         \* the administrators and the moderators of the game
    Seatings,        \* for each start, role -> the tokens that have it
    Required,        \* n_controls: the players the game needs
    Statuses,        \* those a master gives the game
    Fates,           \* what a phase may leave a power: of {"units", "centers"}
    MaxPhase,        \* bound of this model: phases
    MaxRequests      \* bound of this model: requests that change something, copies dropped

Special == {"observer", "omniscient"}
Roles == Powers \cup Special
Nobody == "nobody"
Completed == MaxPhase + 1

ASSUME ViewsAssumption ==
    /\ Owner \in [Tokens -> Users] /\ Watched \subseteq Tokens /\ Masters \subseteq Users
    /\ Seatings \subseteq [Roles -> SUBSET Tokens] /\ Nobody \notin Users
    /\ IsFiniteSet(Powers) /\ Powers \cap Special = {} /\ Fates \subseteq SUBSET {"units", "centers"}
    /\ Statuses \subseteq {"forming", "active", "paused", "completed", "canceled"}
    /\ \A s \in Seatings, p \in Powers : \A t, x \in s[p] : Owner[t] = Owner[x]
    /\ \A s \in Seatings : s["observer"] \cap s["omniscient"] = {}
    /\ MaxPhase \in Nat \ {0} /\ MaxRequests \in Nat

VARIABLES
    game,         \* the ServerGame as its clients may see it: phase, history, powers
    status,       \* its status; "deleted" when the server has it no more
    tokens,       \* role -> the tokens the server notifies
    omniscients,  \* ServerGame.omniscient_usernames
    online,       \* the tokens the server knows
    client,       \* watched token -> Channel and GameInstancesSet
    inbox,        \* watched token -> notifications on their way
    asked,        \* the number of requests made
    apart         \* history: the copies of which the server lost sight

server == <<game, status, tokens, omniscients, online>>
vars == <<server, client, inbox, asked, apart>>

----------------------------------------------------------------------------
(* Game: what both ends do with one.                                        *)

Each(g, ps, F(_)) ==
    [g EXCEPT !.power = [p \in Powers |-> IF p \in ps THEN F(@[p]) ELSE @[p]]]

ClearOrders(g, ps) == Each(g, ps, LAMBDA x : [x EXCEPT !.orders = {}])
ClearUnits(g, ps) == Each(g, ps, LAMBDA x : [x EXCEPT !.board = @ \ {"units"}])
ClearCenters(g, ps) == Each(g, ps, LAMBDA x : [x EXCEPT !.board = @ \ {"centers"}])
ClearVote(g) == Each(g, Powers, LAMBDA x : [x EXCEPT !.vote = "neutral"])
SetVote(g, p, v) == Each(g, {p}, LAMBDA x : [x EXCEPT !.vote = v])

\* Game.set_orders: the orders are added to those the power has.
SetOrders(g, p, os) ==
    Each(g, {p}, LAMBDA x : [x EXCEPT !.orders = IF "units" \in x.board THEN @ \cup os ELSE @])

Eliminated(x) == x.board = {}
Controller(g, p) == g.power[p].controller.user
ControlledBy(g, u) == {p \in Powers : Controller(g, p) = u}
Controllers(g) == [p \in Powers |-> g.power[p].controller]

\* Power.set_controlled; the time of the change is that of the change before, plus one.
SetControlled(g, ps, u) ==
    Each(g, ps, LAMBDA x :
        IF x.controller.user = u THEN x
        ELSE [x EXCEPT !.controller = [user |-> u, since |-> @.since + 1],
                       !.vote = IF u = Nobody THEN "neutral" ELSE @])

\* Game.update_powers_controllers: the controllers are filed under their time.
UpdatePowersControllers(g, cs) ==
    [g EXCEPT !.power = [p \in Powers |->
        IF cs[p].since > @[p].controller.since THEN [@[p] EXCEPT !.controller = cs[p]] ELSE @[p]]]

\* Game.set_phase_data of two phases, not clearing the history: the first is filed,
\* the second taken over.
SetPhaseData(g, d) ==
    LET cleared == ClearOrders(ClearVote(g), Powers) IN
    [cleared EXCEPT !.past = @ \cup {d.previous}, !.phase = d.phase,
                    !.power = [p \in Powers |-> [@[p] EXCEPT !.board = d.board[p]]]]

\* What it raises: the phase is filed already, or the game of a player is given
\* orders of another power, even no orders (Game.extend_phase_history, set_orders).
PhaseDataRaises(g, role, d) == d.previous \in g.past \/ (role \in Powers /\ d.ordered \ {role} # {})

----------------------------------------------------------------------------
(* ServerGame: what a role may see.                                         *)

\* get_related_power_names
Related(g, p) == IF Controller(g, p) = Nobody THEN {p} ELSE ControlledBy(g, Controller(g, p))

\* Mutant: the player is sent everybody's orders.
AsPowerGameOpen(g, p) ==
    Each(g, Powers \ Related(g, p), LAMBDA x : [x EXCEPT !.vote = "neutral"])

AsPowerGame(g, p) ==
    Each(g, Powers \ Related(g, p), LAMBDA x : [x EXCEPT !.vote = "neutral", !.orders = {}])

AsObserverGame(g) == ClearVote(g)

\* cast
Cast(g, role) == CASE role = "observer" -> AsObserverGame(g)
                   [] role = "omniscient" -> g
                   [] OTHER -> AsPowerGame(g, role)

\* The data of the phase before and of the current one, when the game was processed.
\* The current one names orders, none, of the powers that have no more to give.
PhaseData(g, before, drawn) ==
    [previous |-> before, phase |-> g.phase, board |-> [p \in Powers |-> g.power[p].board],
     ordered |-> IF drawn THEN {} ELSE {p \in Powers : Eliminated(g.power[p])}]

\* filter_phase_data
FilterPhaseData(g, d, role) ==
    IF role \in Special THEN d ELSE [d EXCEPT !.ordered = @ \cap Related(g, role)]

----------------------------------------------------------------------------
(* Notifier.                                                                *)

ReceptionAddresses(seats) == {a \in Roles \X Tokens : a[2] \in seats[a[1]]}

\* _notify: N(role) is queued for the addresses, for those whose client is there.
Notified(box, addresses, N(_)) ==
    [t \in Watched |->
        IF t \in online /\ client[t].reading
        THEN box[t] \o SetToSeq({N(r) : r \in {a[1] : a \in {b \in addresses : b[2] = t}}})
        ELSE box[t]]

\* notify_game_powers_controllers
ControllersNotified(box, addresses, g) ==
    Notified(box, addresses,
             LAMBDA r : [type |-> "PowersControllers", role |-> r, powers |-> Controllers(g)])

\* notify_game_processed
ProcessedNotified(box, seats, g, d) ==
    Notified(box, ReceptionAddresses(seats),
             LAMBDA r : [type |-> "GameProcessed", role |-> r, data |-> FilterPhaseData(g, d, r)])

\* notify_power_orders_update: to the power and to who watches; the others learn only
\* that there are orders (PowerOrdersFlag), which is left out.
OrdersNotified(box, addresses, p, os) ==
    Notified(box, {a \in addresses : a[1] \in Special \cup {p}},
             LAMBDA r : [type |-> "PowerOrdersUpdate", role |-> r, power |-> p, orders |-> os])

\* notify_game_vote_updated; the count that observers get is left out.
VoteNotified(box, seats, g) ==
    Notified(box, {a \in ReceptionAddresses(seats) : a[1] # "observer"},
             LAMBDA r : [type |-> "VoteUpdated", role |-> r,
                         vote |-> [p \in Powers \cap (IF r \in Powers THEN {r} ELSE Powers) |->
                                        g.power[p].vote]])

----------------------------------------------------------------------------
(* The clients.                                                             *)

Registered == {a \in Roles \X Watched : a[1] \in DOMAIN client[a[2]].games}

\* GameInstancesSet.add raises when the role is taken.  The record of the special
\* role outlives the copy.
Adds(c, role) == role \notin DOMAIN c.games /\ (role \in Special => c.special = Nobody)
Add(c, role, g) == [c EXCEPT !.games = Put(@, role, g),
                             !.special = IF role \in Special THEN role ELSE @]
RemoveGame(c, role) == [c EXCEPT !.games = Drop(@, role)]

\* RequestFutureContext.delete_game: all copies of the game go.
DeleteInstances(c) == [c EXCEPT !.games = Empty, !.special = Nobody]

\* Mutant: the copies outlive the channel.
RemoveChannelOnly(c) == [c EXCEPT !.open = FALSE]

\* remove_channel, on_account_deleted
RemoveChannel(c) == [DeleteInstances(c) EXCEPT !.open = FALSE]

\* The copy that asked follows its own request when it is answered.
Answered(t, role, F(_)) ==
    IF t \in Watched /\ role \in DOMAIN client[t].games
    THEN [client EXCEPT ![t].games[role] = F(@)] ELSE client

Closed(t) == IF t \in Watched THEN [client EXCEPT ![t] = RemoveChannel(@)] ELSE client
Left(t) == IF t \in Watched THEN [client EXCEPT ![t] = DeleteInstances(@)] ELSE client

\* new_game.  When the set of instances refuses the copy, the caller gets the exception.
NewGame(t, role, g) ==
    IF t \in Watched /\ Adds(client[t], role)
    THEN [client EXCEPT ![t] = Add(@, role, Cast(g, role))] ELSE client

\* Channel._local_join_game: a copy that is there is returned, and nothing asked.
LocalJoinGame(t, role) ==
    t \in Watched /\ (IF role \in Special THEN client[t].special \in DOMAIN client[t].games
                      ELSE role \in DOMAIN client[t].games)

\* Mutant: a notification of orders adds to them.
OnPowerOrdersUpdateAdds(g, p, os) == SetOrders(g, p, os)

\* on_power_orders_update
OnPowerOrdersUpdate(g, p, os) == SetOrders(ClearOrders(g, {p}), p, os)

\* on_power_vote_updated, on_vote_updated
OnVoteUpdated(g, votes) ==
    [g EXCEPT !.power = [p \in Powers |->
        IF p \in DOMAIN votes THEN [@[p] EXCEPT !.vote = votes[p]] ELSE @[p]]]

\* The handlers that update the copy.
OnGameNotification(g, n) ==
    CASE n.type = "PowersControllers" -> UpdatePowersControllers(g, n.powers)
      [] n.type = "GameProcessed" -> SetPhaseData(g, n.data)
      [] n.type = "PowerOrdersUpdate" -> OnPowerOrdersUpdate(g, n.power, n.orders)
      [] n.type = "ClearedOrders" -> ClearOrders(g, n.powers)
      [] n.type = "ClearedUnits" -> ClearUnits(g, n.powers)
      [] n.type = "ClearedCenters" -> ClearCenters(g, n.powers)
      [] n.type = "VoteUpdated" -> OnVoteUpdated(g, n.vote)

\* A copy of a player goes: the game was deleted, or the power has another controller.
Dismisses(g, n) ==
    \/ n.type = "GameDeleted"
    \/ /\ n.type = "PowersControllers" /\ n.role \in Powers
       /\ n.powers[n.role].user # Controller(g, n.role)

\* An exception of a handler ends the reading of the connection.  A new omniscient game
\* is always refused: the special role of the set is not forgotten (on_omniscient_updated).
Raises(g, n) ==
    \/ n.type = "OmniscientUpdated"
    \/ n.type = "GameProcessed" /\ PhaseDataRaises(g, n.role, n.data)

\* handle_notification: one for a copy that is not registered is forgotten.
HandleNotification(c, n) ==
    IF n.type = "AccountDeleted" THEN RemoveChannel(c)
    ELSE IF n.role \notin DOMAIN c.games THEN c
    ELSE IF Raises(c.games[n.role], n) THEN [DeleteInstances(c) EXCEPT !.reading = FALSE]
    ELSE IF Dismisses(c.games[n.role], n) THEN RemoveGame(c, n.role)
    ELSE [c EXCEPT !.games[n.role] = OnGameNotification(@, n)]

\* Its handler ran: what is under way to a client that reads no more is of no interest.
Deliver(t) ==
    /\ inbox[t] # <<>>
    /\ client' = [client EXCEPT ![t] = HandleNotification(@, Head(inbox[t]))]
    /\ inbox' = [inbox EXCEPT ![t] = IF client'[t].reading THEN Tail(@) ELSE <<>>]
    /\ UNCHANGED <<server, asked>>

\* The program drops its copy: the set of instances holds weak references.
Forget(t, role) ==
    /\ asked < MaxRequests /\ asked' = asked + 1
    /\ role \in DOMAIN client[t].games
    /\ client' = [client EXCEPT ![t] = RemoveGame(@, role)]
    /\ UNCHANGED <<server, inbox>>

----------------------------------------------------------------------------
(* The requests.                                                            *)

IsMaster(t) == t \in online /\ Owner[t] \in Masters
Finished == status \in {"completed", "canceled"}
Playing == status # "deleted"

\* A request is made on an open channel whose connection is read.
Asks(t) ==
    /\ asked < MaxRequests
    /\ asked' = asked + 1
    /\ t \in online
    /\ t \in Watched => client[t].open /\ client[t].reading

\* Of a copy, which the clients that are not modelled have if they have the role.
AsksAs(t, role) ==
    /\ Asks(t)
    /\ IF t \in Watched THEN role \in DOMAIN client[t].games ELSE t \in tokens[role]

\* The powers a request is about: those it names, or the role's own, or all.
Meant(role, named) == IF named # {} THEN named ELSE IF role \in Powers THEN {role} ELSE Powers

\* verify_request: of a special role the token is looked at, of a power the user.
Verified(t, role, k, named) ==
    /\ Playing
    /\ RoleMayAsk(k, role, IsMaster(t))
    /\ IF role \in Special THEN t \in tokens[role]
       ELSE Meant(role, named) \subseteq ControlledBy(game, Owner[t])

Names == {{}} \cup {{p} : p \in Powers}

\* on_clear_orders, on_set_orders: the phase in which the client made the request.
InPhase(t, role) == t \in Watched => client[t].games[role].phase = game.phase

\* What the copy that asked clears: without a name, everything.
ClearedByName(named) == IF named = {} THEN Powers ELSE named

\* notify_cleared_orders, notify_cleared_units, notify_cleared_centers
ClearedNotified(box, addresses, type, ps) ==
    Notified(box, addresses, LAMBDA r : [type |-> type, role |-> r, powers |-> ps])

\* on_clear_orders, on_clear_units, on_clear_centers, at both ends.
Cleared(t, role, k, named, type, F(_, _)) ==
    /\ AsksAs(t, role) /\ Verified(t, role, k, named) /\ ~Finished
    /\ game' = F(game, Meant(role, named))
    /\ client' = Answered(t, role, LAMBDA g : F(g, ClearedByName(named)))
    /\ inbox' = ClearedNotified(inbox, ReceptionAddresses(tokens) \ {<<role, t>>}, type,
                                Meant(role, named))
    /\ UNCHANGED <<status, tokens, omniscients, online>>

ClearOrdersRequest(t, role, named) ==
    Cleared(t, role, "ClearOrders", named, "ClearedOrders", ClearOrders) /\ InPhase(t, role)
ClearUnitsRequest(t, role, named) ==
    Cleared(t, role, "ClearUnits", named, "ClearedUnits", ClearUnits)
ClearCentersRequest(t, role, named) ==
    Cleared(t, role, "ClearCenters", named, "ClearedCenters", ClearCenters)

\* on_set_orders.  The copy of a player adds the orders to its own power, whatever
\* power was named.
SetOrdersRequest(t, role, named, os) ==
    /\ AsksAs(t, role) /\ Verified(t, role, "SetOrders", named) /\ ~Finished
    /\ role \in Special => named # {}
    /\ InPhase(t, role)
    /\ \E p \in Meant(role, named) :
          /\ game' = SetOrders(ClearOrders(game, {p}), p, os)
          /\ client' = Answered(t, role, LAMBDA g :
                                    SetOrders(g, IF role \in Powers THEN role ELSE p, os))
          /\ inbox' = OrdersNotified(inbox, ReceptionAddresses(tokens) \ {<<role, t>>}, p, os)
    /\ UNCHANGED <<status, tokens, omniscients, online>>

HasDrawVote(g) == \A p \in Powers : ~Eliminated(g.power[p]) => g.power[p].vote = "yes"

\* Game.draw
Drawn(g) ==
    [ClearVote(ClearOrders(g, Powers)) EXCEPT !.past = @ \cup {g.phase}, !.phase = Completed]

\* on_vote
VoteRequest(t, role, v) ==
    LET voted == SetVote(game, role, v)
        box == VoteNotified(inbox, tokens, voted)
    IN
    /\ AsksAs(t, role) /\ Verified(t, role, "Vote", {}) /\ ~Finished
    /\ ~Eliminated(game.power[role])
    /\ client' = Answered(t, role, LAMBDA g : SetVote(g, role, v))
    /\ IF HasDrawVote(voted)
       THEN /\ game' = Drawn(voted) /\ status' = "completed"
            /\ inbox' = ProcessedNotified(box, tokens, game', PhaseData(game', game.phase, TRUE))
       ELSE game' = voted /\ inbox' = box /\ UNCHANGED status
    /\ UNCHANGED <<tokens, omniscients, online>>

NumberControlled(g) == Cardinality({p \in Powers : Controller(g, p) # Nobody})

\* start_game; stop_game_if_needed
StartedIfPossible(g, s) ==
    IF s = "forming" /\ NumberControlled(g) = Required THEN "active" ELSE s
StoppedIfNeeded(g, s) ==
    IF /\ s = "active" /\ NumberControlled(g) < Required
       /\ \E p \in Powers : ~Eliminated(g.power[p]) /\ Controller(g, p) = Nobody
    THEN "forming" ELSE s

AddToken(role, t) == tokens' = [tokens EXCEPT ![role] = @ \cup {t}]
AtTable(t) == \E p \in Powers : t \in tokens[p]

\* on_join_game, as a player.  With the power in hand, the token is added.
JoinGameAsPlayer(t, p) ==
    LET u == Owner[t] IN
    /\ Asks(t) /\ Playing /\ ~LocalJoinGame(t, p)
    /\ ~Finished /\ ~Eliminated(game.power[p])
    /\ \/ /\ Controller(game, p) = u
          /\ AddToken(p, t)
          /\ client' = NewGame(t, p, game)
          /\ UNCHANGED <<game, status, inbox>>
       \/ /\ \A r \in Special : t \notin tokens[r]
          /\ NumberControlled(game) = Required => IsMaster(t)
          /\ Controller(game, p) = Nobody
          /\ AddToken(p, t)
          /\ game' = SetControlled(game, {p}, u)
          /\ client' = NewGame(t, p, game')
          /\ inbox' = ControllersNotified(inbox, ReceptionAddresses(tokens') \ {<<p, t>>}, game')
          /\ status' = StartedIfPossible(game', status)
    /\ UNCHANGED <<omniscients, online>>

\* on_join_game, to watch.
JoinGameToWatch(t) ==
    LET role == IF IsMaster(t) \/ Owner[t] \in omniscients THEN "omniscient" ELSE "observer" IN
    /\ Asks(t) /\ Playing /\ ~LocalJoinGame(t, "observer")
    /\ ~AtTable(t) /\ \A r \in Special : t \notin tokens[r]
    /\ AddToken(role, t)
    /\ client' = NewGame(t, role, game)
    /\ UNCHANGED <<game, status, omniscients, online, inbox>>

\* on_join_powers, for powers some of which nobody has.
JoinPowers(t, ps) ==
    LET free == {p \in ps : Controller(game, p) = Nobody} IN
    /\ Asks(t) /\ Playing /\ ~Finished
    /\ \A r \in Special : t \notin tokens[r]
    /\ free # {} /\ ps \subseteq free \cup ControlledBy(game, Owner[t])
    /\ NumberControlled(game) = Required => IsMaster(t)
    /\ game' = SetControlled(game, free, Owner[t])
    /\ tokens' = [r \in Roles |-> IF r \in free THEN tokens[r] \cup {t} ELSE tokens[r]]
    /\ inbox' = ControllersNotified(inbox, ReceptionAddresses(tokens'), game')
    /\ status' = StartedIfPossible(game', status)
    /\ UNCHANGED <<omniscients, online, client>>

WithoutTokens(ps) == [r \in Roles |-> IF r \in ps THEN {} ELSE tokens[r]]

\* on_leave_game: the power loses its controller and all its tokens.
LeaveGame(t, role) ==
    /\ AsksAs(t, role) /\ Verified(t, role, "LeaveGame", {})
    /\ client' = Left(t)
    /\ IF role \in Powers
       THEN /\ game' = SetControlled(game, {role}, Nobody)
            /\ tokens' = WithoutTokens({role})
            /\ inbox' = ControllersNotified(inbox, ReceptionAddresses(tokens'), game')
            /\ status' = StoppedIfNeeded(game', status)
       ELSE /\ tokens' = [tokens EXCEPT ![role] = @ \ {t}]
            /\ UNCHANGED <<game, status, inbox>>
    /\ UNCHANGED <<omniscients, online>>

\* on_set_dummy_powers.  The tokens are gone when the players are notified.
SetDummyPowers(t, ps) ==
    /\ AsksAs(t, "omniscient") /\ Verified(t, "omniscient", "SetDummyPowers", {}) /\ ~Finished
    /\ \E p \in ps : Controller(game, p) # Nobody
    /\ game' = SetControlled(game, ps, Nobody)
    /\ tokens' = [r \in Roles |-> IF r \in ps /\ Controller(game, r) # Nobody THEN {} ELSE tokens[r]]
    /\ status' = StoppedIfNeeded(game', status)
    /\ inbox' = ControllersNotified(inbox, ReceptionAddresses(tokens'), game')
    /\ UNCHANGED <<omniscients, online, client>>

\* on_set_game_status
SetGameStatus(t, s) ==
    /\ AsksAs(t, "omniscient") /\ Verified(t, "omniscient", "SetGameStatus", {})
    /\ s # status /\ ~Finished
    /\ status' = s
    /\ IF s = "completed"
       THEN /\ game' = Drawn(game)
            /\ inbox' = ProcessedNotified(inbox, tokens, game', PhaseData(game', game.phase, TRUE))
       ELSE UNCHANGED <<game, inbox>>
    /\ UNCHANGED <<tokens, omniscients, online, client>>

\* on_process_game makes the game active and due.
ProcessGame(t) ==
    /\ AsksAs(t, "omniscient") /\ Verified(t, "omniscient", "ProcessGame", {}) /\ ~Finished
    /\ status = "forming"
    /\ status' = "active"
    /\ UNCHANGED <<game, tokens, omniscients, online, client, inbox>>

\* on_delete_game
DeleteGame(t) ==
    /\ AsksAs(t, "omniscient") /\ Verified(t, "omniscient", "DeleteGame", {})
    /\ status' = "deleted"
    /\ inbox' = Notified(inbox, {a \in ReceptionAddresses(tokens) : a[2] # t},
                         LAMBDA r : [type |-> "GameDeleted", role |-> r])
    /\ client' = Left(t)
    /\ UNCHANGED <<game, tokens, omniscients, online>>

\* on_set_grade of a user of the game; transfer_special_tokens to the other special role.
SetGrade(t, u) ==
    LET old == IF u \in omniscients THEN "omniscient" ELSE "observer"
        moved == {x \in tokens[old] \cap online : Owner[x] = u}
    IN
    /\ Asks(t) /\ Playing /\ IsMaster(t)
    /\ omniscients' = IF u \in omniscients THEN omniscients \ {u} ELSE omniscients \cup {u}
    /\ IF u \in Masters THEN UNCHANGED <<tokens, inbox>>
       ELSE /\ tokens' = [r \in Roles |-> CASE r = old -> tokens[r] \ moved
                                            [] r \in Special \ {old} -> tokens[r] \cup moved
                                            [] OTHER -> tokens[r]]
            /\ inbox' = Notified(inbox, {old} \X moved,
                                 LAMBDA r : [type |-> "OmniscientUpdated", role |-> r])
    /\ UNCHANGED <<game, status, online, client>>

TokensOf(u) == {x \in online : Owner[x] = u}

\* ServerGame.filter_usernames
AccountRemoved(g, u) == SetControlled(g, ControlledBy(g, u), Nobody)

\* on_delete_account: the user's own, with all its tokens.
DeleteAccount(t) ==
    LET u == Owner[t]
        notice == Notified(inbox, {"account"} \X (TokensOf(u) \ {t}),
                           LAMBDA r : [type |-> "AccountDeleted"])
    IN
    /\ Asks(t)
    /\ client' = Closed(t)
    /\ online' = online \ TokensOf(u)
    /\ omniscients' = omniscients \ {u}
    /\ IF Playing
       THEN /\ game' = AccountRemoved(game, u)
            /\ tokens' = [r \in Roles |-> tokens[r] \ TokensOf(u)]
            /\ IF ControlledBy(game, u) = {} THEN inbox' = notice /\ UNCHANGED status
               ELSE /\ inbox' = ControllersNotified(notice, ReceptionAddresses(tokens'), game')
                    /\ status' = StoppedIfNeeded(game', status)
       ELSE inbox' = notice /\ UNCHANGED <<game, status, tokens>>

\* on_logout, Server.remove_token
Logout(t) ==
    /\ Asks(t)
    /\ client' = Closed(t)
    /\ online' = online \ {t}
    /\ IF Playing
       THEN /\ tokens' = [r \in Roles |-> tokens[r] \ {t}]
            /\ status' = StoppedIfNeeded(game, status)
       ELSE UNCHANGED <<tokens, status>>
    /\ UNCHANGED <<game, omniscients, inbox>>

----------------------------------------------------------------------------

\* Game.process: the orders and votes of the phase are cleared.
Processed(g, phase, boards) ==
    [ClearVote(ClearOrders(g, Powers)) EXCEPT
        !.past = @ \cup {g.phase}, !.phase = phase,
        !.power = [p \in Powers |-> [@[p] EXCEPT !.board = boards[p]]]]

\* Server._process_game, when the scheduler says so.
Process ==
    /\ status = "active" /\ game.phase <= MaxPhase
    /\ \E phase \in {game.phase + 1, Completed}, p \in Powers :
         \E b \in (IF Eliminated(game.power[p]) THEN {{}} ELSE Fates) :
            game' = Processed(game, phase, [q \in Powers |-> IF q = p THEN b ELSE game.power[q].board])
    /\ status' = IF game'.phase = Completed THEN "completed" ELSE StoppedIfNeeded(game', status)
    /\ inbox' = ProcessedNotified(inbox, tokens, game', PhaseData(game', game.phase, FALSE))
    /\ UNCHANGED <<tokens, omniscients, online, client, asked>>

----------------------------------------------------------------------------

Start(seats) ==
    [phase |-> 1, past |-> {},
     power |-> [p \in Powers |->
        [controller |-> [user |-> IF seats[p] = {} THEN Nobody ELSE Owner[CHOOSE t \in seats[p] : TRUE],
                         since |-> 0],
         board |-> {"units", "centers"}, orders |-> {}, vote |-> "neutral"]]]

\* The tokens of a seating have joined.
Init ==
    /\ tokens \in Seatings
    /\ game = Start(tokens)
    /\ status = StartedIfPossible(game, "forming")
    /\ omniscients = {} /\ online = Tokens
    /\ client = [t \in Watched |->
          LET mine == {r \in Roles : t \in tokens[r]} IN
          [open |-> TRUE, reading |-> TRUE, games |-> [r \in mine |-> Cast(game, r)],
           special |-> IF mine \cap Special = {} THEN Nobody ELSE CHOOSE r \in mine \cap Special : TRUE]]
    /\ inbox = [t \in Watched |-> <<>>]
    /\ asked = 0 /\ apart = {}

PlayerRequest(t, role) ==
    \/ \E named \in Names : \/ ClearOrdersRequest(t, role, named)
                            \/ ClearUnitsRequest(t, role, named)
                            \/ ClearCentersRequest(t, role, named)
                            \/ \E os \in SUBSET Units : SetOrdersRequest(t, role, named, os)
    \/ role \in Powers /\ \E v \in {"yes", "neutral"} : VoteRequest(t, role, v)
    \/ LeaveGame(t, role)

MasterRequest(t) ==
    \/ \E ps \in SUBSET Powers : SetDummyPowers(t, ps)
    \/ \E s \in Statuses : SetGameStatus(t, s)
    \/ ProcessGame(t) \/ DeleteGame(t)
    \/ \E u \in Users : SetGrade(t, u)

AccountRequest(t) ==
    \/ \E p \in Powers : JoinGameAsPlayer(t, p)
    \/ JoinGameToWatch(t)
    \/ \E ps \in SUBSET Powers : JoinPowers(t, ps)
    \/ DeleteAccount(t) \/ Logout(t)

Step == \/ \E t \in Tokens : \/ \E role \in Roles : PlayerRequest(t, role)
                             \/ MasterRequest(t) \/ AccountRequest(t)
        \/ \E t \in Watched : Deliver(t) \/ \E role \in Roles : Forget(t, role)
        \/ Process

\* A copy is apart when the server no more notifies it, or has notifications under way
\* that are older than it; it is so until it is replaced.
NowApart ==
    {a \in Registered' :
        \/ a[2] \notin tokens'[a[1]]
        \/ IF a \in Registered THEN a \in apart
           ELSE \E i \in DOMAIN inbox[a[2]] :
                    "role" \in DOMAIN inbox[a[2]][i] /\ inbox[a[2]][i].role = a[1]}

Next == Step /\ apart' = NowApart

Spec == Init /\ [][Next]_vars

----------------------------------------------------------------------------
(* Properties.                                                              *)

\* The copies that follow the game and have nothing under way.
UpToDate == {a \in Registered \ apart : client[a[2]].reading /\ inbox[a[2]] = <<>>}

\* The state has its type.  A watched token holds one special copy at most, the one
\* its set of instances has on record.
TypeOK ==
    /\ game.phase \in 1..Completed /\ game.past \subseteq 1..MaxPhase
    /\ status \in {"forming", "active", "paused", "completed", "canceled", "deleted"}
    /\ tokens \in [Roles -> SUBSET Tokens] /\ online \subseteq Tokens
    /\ Playing => \A r \in Roles : tokens[r] \subseteq online
    /\ \A t \in Watched :
          /\ client[t].special \in Special \cup {Nobody}
          /\ DOMAIN client[t].games \cap Special \subseteq {client[t].special}
          /\ DOMAIN client[t].games # {} => client[t].open /\ client[t].reading
          /\ inbox[t] # <<>> => client[t].reading
    /\ asked \in 0..MaxRequests

\* A copy that follows the game and has nothing under way agrees with the server on the
\* phases, on who controls which power and on the vote of its own power; one that watches
\* agrees on all boards and all orders; and a deleted game has no copy.  (The answer to
\* its own request may overtake notifications, and adds orders where the server replaces
\* them, so a player's own board may differ.)
CopiesAgree ==
    \A a \in UpToDate :
        LET role == a[1]
            g == client[a[2]].games[role]
        IN /\ Playing
           /\ g.phase = game.phase /\ g.past = game.past
           /\ Controllers(g) = Controllers(game)
           /\ role \in Powers => g.power[role].vote = game.power[role].vote
           /\ role \in Special => \A p \in Powers : /\ g.power[p].board = game.power[p].board
                                                    /\ g.power[p].orders = game.power[p].orders

\* The orders of another power reach the copy of a player only if the user controls both.
OrdersStaySecret ==
    [][\A a \in Registered' : \A p \in Powers :
          /\ a[1] \in Powers
          /\ client'[a[2]].games[a[1]].power[p].orders
                \ (IF a \in Registered THEN client[a[2]].games[a[1]].power[p].orders ELSE {}) # {}
          => p \in Related(game', a[1])]_vars

=============================================================================
