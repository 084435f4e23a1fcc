------------------------------- MODULE Users -------------------------------
(***************************************************************************)
(* The registry of accounts, tokens and connections, class Users of         *)
(* diplomacy/server/users.py: a record of its fields, and one operator per  *)
(* method that changes them.  A token belongs to one account and has at     *)
(* most one connection; each of these two relations is kept in two          *)
(* dictionaries, one for each direction, which hold no empty set.           *)
(***************************************************************************)
EXTENDS Dicts

\* The registry of a server that starts without data, with its two accounts.
NewUsers(accounts, admin) ==
    [users |-> accounts,
     administrators |-> {admin},
     expired |-> {},           \* the tokens older than TOKEN_LIFETIME_SECONDS
     token_to_username |-> Empty,
     username_to_tokens |-> Empty,
     token_to_connection_handler |-> Empty,
     connection_handler_to_tokens |-> Empty]

\* A dictionary of sets, after x was added to the set of k.
Including(dict, k, x) ==
    Put(dict, k, {x} \cup IF k \in DOMAIN dict THEN dict[k] ELSE {})

\* A dictionary of sets, after x was removed from the set of k; the key of a set
\* that becomes empty is removed.
Excluding(dict, k, x) ==
    IF dict[k] = {x} THEN Drop(dict, k) ELSE Put(dict, k, dict[k] \ {x})

HasToken(r, t) == t \in DOMAIN r.token_to_username

IsConnected(r, t) == t \in DOMAIN r.token_to_connection_handler

TokensOf(r, u) ==
    IF u \in DOMAIN r.username_to_tokens THEN r.username_to_tokens[u] ELSE {}

AddUser(r, u) == [r EXCEPT !.users = @ \cup {u}]

\* attach_connection_handler, of a token that is not connected elsewhere.  It
\* dates the token anew.
AttachConnectionHandler(r, t, c) ==
    IF ~HasToken(r, t) \/ IsConnected(r, t) THEN r
    ELSE [r EXCEPT !.token_to_connection_handler = Put(@, t, c),
                   !.connection_handler_to_tokens = Including(@, c, t),
                   !.expired = @ \ {t}]

\* connect_user, with a new token.
ConnectUser(r, u, c, t) ==
    [r EXCEPT !.token_to_username = Put(@, t, u),
              !.username_to_tokens = Including(@, u, t),
              !.token_to_connection_handler = Put(@, t, c),
              !.connection_handler_to_tokens = Including(@, c, t)]

RelaunchToken(r, t) == [r EXCEPT !.expired = @ \ {t}]

\* The connections without the token t.
Disconnected(r, t) ==
    IF IsConnected(r, t)
    THEN Excluding(r.connection_handler_to_tokens, r.token_to_connection_handler[t], t)
    ELSE r.connection_handler_to_tokens

DisconnectToken(r, t) ==
    [r EXCEPT !.expired = @ \ {t},
              !.token_to_username = Drop(@, t),
              !.username_to_tokens = Excluding(@, r.token_to_username[t], t),
              !.token_to_connection_handler = Drop(@, t),
              !.connection_handler_to_tokens = Disconnected(r, t)]

\* Mutant: the tokens of a closed connection stay attached to it.
RemoveConnectionKeepsAttached(r, c) ==
    [r EXCEPT !.connection_handler_to_tokens = Drop(@, c)]

\* remove_connection as it is called: the tokens are kept.
RemoveConnection(r, c) ==
    IF c \notin DOMAIN r.connection_handler_to_tokens THEN r
    ELSE [r EXCEPT !.token_to_connection_handler =
                       [t \in DOMAIN @ \ r.connection_handler_to_tokens[c] |-> @[t]],
                   !.connection_handler_to_tokens = Drop(@, c)]

\* remove_user.  It raises KeyError for an account without tokens, whose name
\* has left users and administrators by then.
RemoveUser(r, u) ==
    LET gone == TokensOf(r, u)
        kept == [c \in DOMAIN r.connection_handler_to_tokens |->
                    r.connection_handler_to_tokens[c] \ gone]
    IN [users |-> r.users \ {u},
        administrators |-> r.administrators \ {u},
        expired |-> r.expired \ gone,
        token_to_username |->
            [t \in DOMAIN r.token_to_username \ gone |-> r.token_to_username[t]],
        username_to_tokens |-> Drop(r.username_to_tokens, u),
        token_to_connection_handler |->
            [t \in DOMAIN r.token_to_connection_handler \ gone |->
                r.token_to_connection_handler[t]],
        connection_handler_to_tokens |->
            [c \in {d \in DOMAIN kept : kept[d] # {}} |-> kept[c]]]

RemoveUserRaises(r, u) == u \notin DOMAIN r.username_to_tokens

\* The dictionaries of both directions say the same, and hold no empty set.
TwoWays(dict, sets) ==
    /\ \A k \in DOMAIN sets : sets[k] = {x \in DOMAIN dict : dict[x] = k} /\ sets[k] # {}
    /\ \A x \in DOMAIN dict : dict[x] \in DOMAIN sets
=============================================================================
