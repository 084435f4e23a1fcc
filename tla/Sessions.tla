------------------------------ MODULE Sessions ------------------------------
(***************************************************************************)
(* Accounts, tokens and connections on the server, and the tokens that a    *)
(* loaded game holds: who signs in, joins, leaves, is promoted, logs out,   *)
(* loses the connection, lets a token expire or deletes an account, in any  *)
(* order and from any connection (diplomacy/server/users.py, the handlers   *)
(* of request_managers.py and their helpers, connection_handler.py).        *)
(*                                                                          *)
(* A message is handled in one step: no handler suspends.  The game is      *)
(* played, has the rules POWER_CHOICE and, perhaps,                         *)
(* MULTIPLE_POWERS_PER_PLAYER, and a place for a player as long as a power  *)
(* is a dummy.  Passwords, observers' rules and the board are left out: a   *)
(* request they refuse changes nothing.                                     *)
(***************************************************************************)
EXTENDS FiniteSets, Users

CONSTANTS
    Accounts,        \* the names an account may have
    Admin, Bot,      \* the two accounts every server has
    Dummy,           \* the controller of a power nobody controls
    Tokens,          \* the tokens the server generates
    Graded,          \* bound of this model: the names whose grades are changed
    Connections,     \* the open connections: a closed one is replaced by another
    Powers,          \* the powers of the game
    MultiplePowers   \* has the game the rule MULTIPLE_POWERS_PER_PLAYER?

ASSUME SessionsAssumption ==
    /\ IsFiniteSet(Tokens) /\ IsFiniteSet(Powers)
    /\ Admin # Bot /\ {Admin, Bot} \subseteq Accounts /\ Dummy \notin Accounts
    /\ Graded \subseteq Accounts
    /\ MultiplePowers \in BOOLEAN

VARIABLES
    registry,      \* Server.users
    issued,        \* the tokens generated so far: none is generated twice
    controller,    \* power -> last value of Power.controller
    tokens,        \* power -> Power.tokens
    observer,      \* the tokens of ServerGame.observer
    omniscient,    \* the tokens of ServerGame.omniscient
    moderators,    \* ServerGame.moderator_usernames
    omniscients,   \* ServerGame.omniscient_usernames
    clash          \* history: did a transfer of special tokens raise?

players == <<controller, tokens>>
specials == <<observer, omniscient>>
grades == <<moderators, omniscients>>
vars == <<registry, issued, players, specials, grades, clash>>

----------------------------------------------------------------------------
(* Questions.                                                               *)

Owner(t) == registry.token_to_username[t]

IsPlayer(t) == \E p \in Powers : t \in tokens[p]

IsSpecial(t) == t \in observer \cup omniscient

\* Server.user_is_master and user_is_omniscient, for administrators a, moderators
\* m and explicit omniscients o.
UserIsMaster(u) == u \in registry.administrators \cup moderators
UserIsOmniscient(u, a, m, o) == u \in a \cup m \cup o
IsOmniscientNow(u) == UserIsOmniscient(u, registry.administrators, moderators, omniscients)

\* ConnectionHandler.on_message and Server.assert_token: the request of token t on
\* connection c is handled; an expired token is not, unless attaching renews it.
Authenticated(c, t) ==
    /\ HasToken(registry, t)
    /\ IsConnected(registry, t) =>
          registry.token_to_connection_handler[t] = c /\ t \notin registry.expired

\* The registry as the handler of an authenticated request finds it.
Attached(c, t) == RelaunchToken(AttachConnectionHandler(registry, t, c), t)

\* A request by which neither accounts nor tokens change hands.
Request(c, t) ==
    /\ Authenticated(c, t)
    /\ registry' = Attached(c, t)
    /\ UNCHANGED issued

----------------------------------------------------------------------------
(* What becomes of the game when tokens, accounts or rights are withdrawn.   *)

\* Mutant: only the tokens of players are removed.
FilterPlayerTokens(keep) ==
    /\ tokens' = [p \in Powers |-> tokens[p] \cap keep]
    /\ UNCHANGED specials

\* ServerGame.filter_tokens and remove_token: only the tokens of keep remain.
FilterTokens(keep) ==
    /\ tokens' = [p \in Powers |-> tokens[p] \cap keep]
    /\ observer' = observer \cap keep
    /\ omniscient' = omniscient \cap keep

\* Power.set_controlled(None) on each power of ps, whose tokens were ts: tokens of
\* the bot stay with a power that was a dummy.
SetUncontrolled(ps, ts) ==
    LET freed == {p \in ps : controller[p] # Dummy} IN
    /\ controller' = [p \in Powers |-> IF p \in freed THEN Dummy ELSE controller[p]]
    /\ tokens' = [p \in Powers |-> IF p \in freed THEN {} ELSE ts[p]]

\* transfer_special_tokens for the tokens ts of a user, out of one special role
\* and into the other: a token that also plays loses its role and raises, and
\* what comes after it in the iteration stays.
Transferred(ts) ==
    LET dual == {t \in ts : IsPlayer(t)} IN
    IF dual = {} THEN {[moved |-> ts, lost |-> {}]}
    ELSE {[moved |-> ms, lost |-> {d}] : ms \in SUBSET (ts \ dual), d \in dual}

\* Mutant: only promotions are carried over to the tokens of the user.
TransferPromotes(u, promote) ==
    LET from == IF promote THEN observer ELSE {}
    IN \E result \in Transferred(TokensOf(registry, u) \cap from) :
          /\ clash' = (clash \/ result.lost # {})
          /\ observer' = observer \ (result.moved \cup result.lost)
          /\ omniscient' = omniscient \cup result.moved

\* The tokens of u become omniscient (promote) or mere observers.
Transfer(u, promote) ==
    LET from == IF promote THEN observer ELSE omniscient
    IN \E result \in Transferred(TokensOf(registry, u) \cap from) :
          LET left == from \ (result.moved \cup result.lost) IN
          /\ clash' = (clash \/ result.lost # {})
          /\ observer'   = IF promote THEN left ELSE observer \cup result.moved
          /\ omniscient' = IF promote THEN omniscient \cup result.moved ELSE left

\* Server.remove_token, in registry r.
RemoveToken(r, t) ==
    /\ registry' = DisconnectToken(r, t)
    /\ FilterTokens(Tokens \ {t})
    /\ UNCHANGED <<issued, controller, grades, clash>>

----------------------------------------------------------------------------
(* Connections, sign in and sign out.                                       *)

\* ConnectionHandler.on_close
OnClose(c) ==
    /\ c \in DOMAIN registry.connection_handler_to_tokens
    /\ registry' = RemoveConnection(registry, c)
    /\ UNCHANGED <<issued, players, specials, grades, clash>>

\* on_sign_in, with the right password for an account that exists.
SignIn(c, u, t) ==
    /\ t \notin issued
    /\ issued' = issued \cup {t}
    /\ registry' = ConnectUser(AddUser(registry, u), u, c, t)
    /\ UNCHANGED <<players, specials, grades, clash>>

\* A day passes without a request of token t.
Expire(t) ==
    /\ HasToken(registry, t)
    /\ registry' = [registry EXCEPT !.expired = @ \cup {t}]
    /\ UNCHANGED <<issued, players, specials, grades, clash>>

\* Any request of an expired token that is still connected.
RefuseExpired(c, t) ==
    /\ IsConnected(registry, t)
    /\ registry.token_to_connection_handler[t] = c
    /\ t \in registry.expired
    /\ RemoveToken(registry, t)

Logout(c, t) == Authenticated(c, t) /\ RemoveToken(Attached(c, t), t)

\* on_unknown_token: a client tells that it does not know the token of a
\* notification.  The age of the token is not asked.
UnknownToken(c, t) ==
    /\ HasToken(registry, t)
    /\ IsConnected(registry, t) => registry.token_to_connection_handler[t] = c
    /\ RemoveToken(AttachConnectionHandler(registry, t, c), t)

\* on_delete_account, of the own account or by an administrator.  remove_user
\* raises for an account that has no token: the game is left as it is.
DeleteAccount(c, t, u) ==
    /\ Authenticated(c, t)
    /\ u = Owner(t) \/ Owner(t) \in registry.administrators
    /\ u \in registry.users
    /\ registry' = RemoveUser(Attached(c, t), u)
    /\ UNCHANGED <<issued, clash>>
    /\ IF RemoveUserRaises(registry, u)
       THEN UNCHANGED <<players, specials, grades>>
       ELSE LET keep == DOMAIN registry'.token_to_username
                kept == [p \in Powers |-> tokens[p] \cap keep] IN
            /\ observer' = observer \cap keep
            /\ omniscient' = omniscient \cap keep
            /\ moderators' = moderators \cap registry'.users
            /\ omniscients' = omniscients \cap registry'.users
            /\ SetUncontrolled({p \in Powers : controller[p] \notin registry'.users}, kept)

----------------------------------------------------------------------------
(* Joining and leaving the game.                                            *)

\* on_join_game without a power: the role is what the user has the right to.
JoinAsObserver(c, t) ==
    /\ Request(c, t)
    /\ ~IsPlayer(t) /\ ~IsSpecial(t)
    /\ IF IsOmniscientNow(Owner(t))
       THEN omniscient' = omniscient \cup {t} /\ UNCHANGED observer
       ELSE observer' = observer \cup {t} /\ UNCHANGED omniscient
    /\ UNCHANGED <<players, grades, clash>>

\* on_join_game with a power: the bot adds a token to a dummy power, a user adds
\* one to a power already controlled, whatever its role, or takes a dummy power.
JoinAsPower(c, t, p) ==
    LET u == Owner(t) IN
    /\ Request(c, t)
    /\ \/ u = Bot /\ controller[p] = Dummy /\ UNCHANGED controller
       \/ controller[p] = u /\ UNCHANGED controller
       \/ /\ u # Bot /\ controller[p] = Dummy /\ ~IsSpecial(t)
          /\ MultiplePowers \/ \A q \in Powers : controller[q] # u
          /\ controller' = [controller EXCEPT ![p] = u]
    /\ tokens' = [tokens EXCEPT ![p] = @ \cup {t}]
    /\ UNCHANGED <<specials, grades, clash>>

\* on_join_powers: the token is added to the powers it takes, not to those the
\* user controlled before.
JoinPowers(c, t, ps) ==
    LET u == Owner(t)
        required == {p \in ps : controller[p] = Dummy} IN
    /\ Request(c, t)
    /\ \/ u = Bot /\ required = ps /\ UNCHANGED controller
       \/ /\ u # Bot /\ ~IsSpecial(t)
          /\ \A p \in ps \ required : controller[p] = u
          /\ UserIsMaster(u) \/ MultiplePowers \/ required \in {{}, ps}
          /\ controller' =
                [p \in Powers |-> IF p \in required THEN u ELSE controller[p]]
    /\ tokens' = [p \in Powers |-> tokens[p] \cup IF p \in required THEN {t} ELSE {}]
    /\ UNCHANGED <<specials, grades, clash>>

\* on_leave_game as a player: any token of the controller will do.
LeavePower(c, t, p) ==
    /\ Request(c, t)
    /\ controller[p] = Owner(t)
    /\ SetUncontrolled({p}, tokens)
    /\ UNCHANGED <<specials, grades, clash>>

\* on_leave_game as an observer.
LeaveObservation(c, t) ==
    /\ Request(c, t)
    /\ IsSpecial(t)
    /\ observer' = observer \ {t}
    /\ omniscient' = omniscient \ {t}
    /\ UNCHANGED <<players, grades, clash>>

\* on_set_dummy_powers, by a game master.
SetDummyPowers(c, t, ps) ==
    /\ Request(c, t)
    /\ t \in omniscient /\ UserIsMaster(Owner(t))
    /\ SetUncontrolled(ps, tokens)
    /\ UNCHANGED <<specials, grades, clash>>

----------------------------------------------------------------------------
(* Grades, on_set_grade.                                                    *)

\* The grade of an administrator.  Rights that the user has by the game remain.
SetAdmin(c, t, u, promote) ==
    /\ Authenticated(c, t)
    /\ Owner(t) \in registry.administrators
    /\ promote = (u \notin registry.administrators)
    /\ promote => u \in registry.users
    /\ registry' = [Attached(c, t) EXCEPT
                       !.administrators = IF promote THEN @ \cup {u} ELSE @ \ {u}]
    /\ IF u \in moderators \cup omniscients
       THEN UNCHANGED <<specials, clash>>
       ELSE Transfer(u, promote)
    /\ UNCHANGED <<issued, players, grades>>

\* The grades of the game; the names need not be those of accounts.
SetGameGrade(c, t, u, promote) ==
    /\ Request(c, t)
    /\ UserIsMaster(Owner(t))
    /\ \/ /\ promote = (u \notin moderators)
          /\ moderators' = IF promote THEN moderators \cup {u} ELSE moderators \ {u}
          /\ UNCHANGED omniscients
       \/ /\ promote = (u \notin omniscients)
          /\ omniscients' = IF promote THEN omniscients \cup {u} ELSE omniscients \ {u}
          /\ UNCHANGED moderators
    /\ LET after == UserIsOmniscient(u, registry.administrators, moderators', omniscients') IN
       IF IsOmniscientNow(u) = after THEN UNCHANGED <<specials, clash>>
                                     ELSE Transfer(u, after)
    /\ UNCHANGED players

----------------------------------------------------------------------------

\* The server has been restarted, and has loaded a game without players.
Init ==
    /\ registry = NewUsers({Admin, Bot}, Admin)
    /\ issued = {}
    /\ controller = [p \in Powers |-> Dummy] /\ tokens = [p \in Powers |-> {}]
    /\ observer = {} /\ omniscient = {}
    /\ moderators = {} /\ omniscients = {}
    /\ clash = FALSE

Session ==
    \/ \E c \in Connections :
          \/ OnClose(c)
          \/ \E u \in Accounts, t \in Tokens : SignIn(c, u, t)
          \/ \E t \in Tokens : RefuseExpired(c, t) \/ Logout(c, t) \/ UnknownToken(c, t)
    \/ \E t \in Tokens : Expire(t)

Game ==
    \E c \in Connections, t \in Tokens :
        \/ JoinAsObserver(c, t)
        \/ \E p \in Powers : JoinAsPower(c, t, p) \/ LeavePower(c, t, p)
        \/ \E ps \in SUBSET Powers \ {{}} : JoinPowers(c, t, ps) \/ SetDummyPowers(c, t, ps)
        \/ LeaveObservation(c, t)

Grade ==
    \E c \in Connections, t \in Tokens :
        \/ \E u \in Accounts : DeleteAccount(c, t, u)
        \/ \E u \in Graded, promote \in BOOLEAN :
              SetAdmin(c, t, u, promote) \/ SetGameGrade(c, t, u, promote)

Next == Session \/ Game \/ Grade

Spec == Init /\ [][Next]_vars

----------------------------------------------------------------------------
(* Properties.                                                              *)

\* The type invariant, with the four dictionaries of the registry, which agree in both
\* directions through every sign in, close, reconnection, expiry, logout and deletion:
\* each `remove` and `pop` of Users finds what it removes.
TypeOK ==
    /\ registry.users \subseteq Accounts /\ registry.administrators \subseteq Accounts
    /\ IsDict(registry.token_to_username, issued, Accounts)
    /\ IsDict(registry.username_to_tokens, Accounts, SUBSET issued)
    /\ IsDict(registry.token_to_connection_handler, issued, Connections)
    /\ IsDict(registry.connection_handler_to_tokens, Connections, SUBSET issued)
    /\ TwoWays(registry.token_to_username, registry.username_to_tokens)
    /\ TwoWays(registry.token_to_connection_handler, registry.connection_handler_to_tokens)
    /\ DOMAIN registry.token_to_connection_handler \subseteq DOMAIN registry.token_to_username
    /\ registry.expired \subseteq issued
    /\ issued \subseteq Tokens
    /\ controller \in [Powers -> Accounts \cup {Dummy}]
    /\ tokens \in [Powers -> SUBSET Tokens]
    /\ observer \subseteq Tokens /\ omniscient \subseteq Tokens
    /\ moderators \subseteq Accounts /\ omniscients \subseteq Accounts
    /\ clash \in BOOLEAN

\* The game holds no token the server has forgotten, in any role: notifications and
\* requests look up the account of each of them.  And a token of a power is one of its
\* controller, or of the bot: whoever loses a power loses its notifications, on all the
\* connections.
GameTokensKnown ==
    /\ \A t \in Tokens : IsPlayer(t) \/ IsSpecial(t) => HasToken(registry, t)
    /\ \A p \in Powers : \A t \in tokens[p] : Owner(t) \in {controller[p], Bot}

\* The role of a token is what its account has the right to, through promotions
\* and demotions by administrators and masters that overlap; unless a transfer
\* raised half way, for a token that plays and watches at once.
RoleMatchesRights ==
    ~clash => /\ \A t \in omniscient : IsOmniscientNow(Owner(t))
              /\ \A t \in observer : ~IsOmniscientNow(Owner(t))

=============================================================================
