---------------------------- MODULE ServerProofs ----------------------------
(***************************************************************************)
(* The safety of what the server keeps: accounts, tokens and connections,   *)
(* for any accounts, tokens, connections and powers, and with or without    *)
(* the rule MULTIPLE_POWERS_PER_PLAYER (Sessions); its documents on disk,   *)
(* when a save is interrupted by a crash or by SIGINT, for any number of    *)
(* changes and of interruptions (Persistence); and the sessions of the      *)
(* DAIDE server of a game, for any connections, clients, powers and orders  *)
(* (Daide).                                                                 *)
(***************************************************************************)
EXTENDS Sessions, Persistence, Daide, SequenceTheorems, WellFoundedInduction, TLAPS

----------------------------------------------------------------------------
(* Dictionaries.                                                            *)

\* The empty dictionary is a dictionary of any type.
LEMMA EmptyIsDict ==
    ASSUME NEW K, NEW V
    PROVE  IsDict(Empty, K, V) /\ DOMAIN Empty = {}
  BY DEF IsDict, Empty

\* Put keeps a dictionary well typed.
LEMMA PutIsDict ==
    ASSUME NEW K, NEW V, NEW d, IsDict(d, K, V), NEW k \in K, NEW v \in V
    PROVE  IsDict(Put(d, k, v), K, V)
  BY DEF IsDict, Put

\* Drop keeps a dictionary well typed.
LEMMA DropIsDict ==
    ASSUME NEW K, NEW V, NEW d, IsDict(d, K, V), NEW k
    PROVE  IsDict(Drop(d, k), K, V)
  BY DEF IsDict, Drop

\* Drop of an absent key changes nothing.
LEMMA DropAbsent ==
    ASSUME NEW K, NEW V, NEW d, IsDict(d, K, V), NEW k, k \notin DOMAIN d
    PROVE  Drop(d, k) = d
  BY DEF IsDict, Drop

----------------------------------------------------------------------------
(* Two dictionaries for one relation, as Users keeps them.                  *)

\* Putting x under k in both directions, for an x that was not there.
LEMMA IncludingTwoWays ==
    ASSUME NEW dict, NEW sets, NEW x, NEW k, TwoWays(dict, sets), x \notin DOMAIN dict
    PROVE  TwoWays(Put(dict, x, k), Including(sets, k, x))
  BY DEF TwoWays, Put, Including

\* Taking x out of both.
LEMMA ExcludingTwoWays ==
    ASSUME NEW dict, NEW sets, NEW x \in DOMAIN dict, TwoWays(dict, sets)
    PROVE  TwoWays(Drop(dict, x), Excluding(sets, dict[x], x))
  BY DEF TwoWays, Put, Drop, Excluding

\* Taking a key with its whole set out of both.
LEMMA DroppedTwoWays ==
    ASSUME NEW dict, NEW sets, NEW k, TwoWays(dict, sets)
    PROVE  /\ k \in DOMAIN sets =>
                TwoWays([x \in DOMAIN dict \ sets[k] |-> dict[x]], Drop(sets, k))
           /\ k \notin DOMAIN sets => Drop(sets, k) = [j \in DOMAIN sets |-> sets[j]]
  BY DEF TwoWays, Drop

\* Taking a set of x out of both.
LEMMA WithoutTwoWays ==
    ASSUME NEW dict, NEW sets, NEW gone, TwoWays(dict, sets),
           NEW d, DOMAIN d = DOMAIN dict \ gone, \A x \in DOMAIN d : d[x] = dict[x],
           NEW s, \A k : k \in DOMAIN s <=> k \in DOMAIN sets /\ sets[k] \ gone # {},
           \A k \in DOMAIN s : s[k] = sets[k] \ gone
    PROVE  TwoWays(d, s)
  BY DEF TwoWays

\* Their types.
LEMMA IncludingIsDict ==
    ASSUME NEW K, NEW V, NEW sets, IsDict(sets, K, SUBSET V), NEW k \in K, NEW x \in V
    PROVE  IsDict(Including(sets, k, x), K, SUBSET V)
  BY DEF IsDict, Including, Put

\* A dictionary of sets remains one when a member leaves the set of a key.
LEMMA ExcludingIsDict ==
    ASSUME NEW K, NEW V, NEW sets, IsDict(sets, K, SUBSET V), NEW k \in DOMAIN sets, NEW x
    PROVE  IsDict(Excluding(sets, k, x), K, SUBSET V)
  BY DEF IsDict, Excluding, Put, Drop
----------------------------------------------------------------------------
(* The registry: what holds of it between any two calls of its methods.      *)

\* All dictionaries with keys in K and values in V.
Dictionaries(K, V) == UNION {[D -> V] : D \in SUBSET K}

Registries ==
    [users : SUBSET Accounts,
     administrators : SUBSET Accounts,
     expired : SUBSET Tokens,
     token_to_username : Dictionaries(Tokens, Accounts),
     username_to_tokens : Dictionaries(Accounts, SUBSET Tokens),
     token_to_connection_handler : Dictionaries(Tokens, Connections),
     connection_handler_to_tokens : Dictionaries(Connections, SUBSET Tokens)]

\* The set of dictionaries, and the predicate, are the same.
LEMMA IsDictionary ==
    ASSUME NEW K, NEW V, NEW d
    PROVE  d \in Dictionaries(K, V) <=> IsDict(d, K, V)
  BY DEF Dictionaries, IsDict

\* The registry r knows no other tokens than those of known, and agrees with itself:
\* the two directions of each relation, the connections and the tokens, and the tokens
\* and the accounts.
Consistent(r, known) ==
    /\ r \in Registries
    /\ DOMAIN r.token_to_username \subseteq known
    /\ r.expired \subseteq known
    /\ TwoWays(r.token_to_username, r.username_to_tokens)
    /\ TwoWays(r.token_to_connection_handler, r.connection_handler_to_tokens)
    /\ DOMAIN r.token_to_connection_handler \subseteq DOMAIN r.token_to_username
    /\ \A t \in DOMAIN r.token_to_username : r.token_to_username[t] \in r.users

\* The accounts of r and their tokens are those of q.
SameAccounts(r, q) ==
    /\ r.users = q.users /\ r.administrators = q.administrators
    /\ r.token_to_username = q.token_to_username

\* relaunch_token changes only what is expired.
LEMMA RelaunchConsistent ==
    ASSUME NEW r, NEW known, Consistent(r, known), NEW t
    PROVE  Consistent(RelaunchToken(r, t), known) /\ SameAccounts(RelaunchToken(r, t), r)
  BY DEF Consistent, RelaunchToken, SameAccounts, Registries

\* attach_connection_handler keeps tokens and connections in agreement.
LEMMA AttachConsistent ==
    ASSUME NEW r, NEW known, Consistent(r, known), NEW t \in Tokens, NEW c \in Connections
    PROVE  /\ Consistent(AttachConnectionHandler(r, t, c), known)
           /\ SameAccounts(AttachConnectionHandler(r, t, c), r)
<1> DEFINE a == AttachConnectionHandler(r, t, c)
<1>1. CASE ~HasToken(r, t) \/ IsConnected(r, t)
  BY <1>1 DEF AttachConnectionHandler, SameAccounts
<1>2. CASE HasToken(r, t) /\ ~IsConnected(r, t)
  <2>1. /\ IsDict(Put(r.token_to_connection_handler, t, c), Tokens, Connections)
        /\ IsDict(Including(r.connection_handler_to_tokens, c, t), Connections, SUBSET Tokens)
    BY PutIsDict, IncludingIsDict, IsDictionary DEF Consistent, Registries
  <2>2. a = [r EXCEPT !.token_to_connection_handler = Put(@, t, c),
                      !.connection_handler_to_tokens = Including(@, c, t),
                      !.expired = @ \ {t}]
    BY <1>2 DEF AttachConnectionHandler
  <2>3. a \in Registries
    BY <2>1, <2>2, IsDictionary DEF Consistent, Registries
  <2>4. TwoWays(Put(r.token_to_connection_handler, t, c),
                Including(r.connection_handler_to_tokens, c, t))
    BY <1>2, IncludingTwoWays DEF Consistent, IsConnected
  <2>5. DOMAIN Put(r.token_to_connection_handler, t, c) \subseteq DOMAIN r.token_to_username
    BY <1>2 DEF Consistent, HasToken, Put
  <2> QED
    BY <2>2, <2>3, <2>4, <2>5 DEF Consistent, SameAccounts, Registries
<1> QED
  BY <1>1, <1>2

\* Every handler but that of a sign in starts with the registry Attached gives it.
LEMMA AttachedConsistent ==
    ASSUME NEW known, Consistent(registry, known), NEW t \in Tokens, NEW c \in Connections
    PROVE  Consistent(Attached(c, t), known) /\ SameAccounts(Attached(c, t), registry)
  BY AttachConsistent, RelaunchConsistent DEF Attached, SameAccounts

\* connect_user with a new token keeps the registry consistent.
LEMMA ConnectUserConsistent ==
    ASSUME NEW r, NEW known, Consistent(r, known),
           NEW u \in r.users, NEW c \in Connections, NEW t \in Tokens, t \notin known
    PROVE  /\ Consistent(ConnectUser(r, u, c, t), known \cup {t})
           /\ ConnectUser(r, u, c, t).users = r.users
           /\ ConnectUser(r, u, c, t).administrators = r.administrators
           /\ ConnectUser(r, u, c, t).token_to_username = Put(r.token_to_username, t, u)
<1> DEFINE a == ConnectUser(r, u, c, t)
<1>1. u \in Accounts
  BY DEF Consistent, Registries
<1>2. /\ IsDict(Put(r.token_to_username, t, u), Tokens, Accounts)
      /\ IsDict(Including(r.username_to_tokens, u, t), Accounts, SUBSET Tokens)
      /\ IsDict(Put(r.token_to_connection_handler, t, c), Tokens, Connections)
      /\ IsDict(Including(r.connection_handler_to_tokens, c, t), Connections, SUBSET Tokens)
  BY <1>1, PutIsDict, IncludingIsDict, IsDictionary DEF Consistent, Registries
<1>3. a \in Registries
  BY <1>2, IsDictionary DEF Consistent, Registries, ConnectUser
<1>4. /\ TwoWays(Put(r.token_to_username, t, u), Including(r.username_to_tokens, u, t))
      /\ TwoWays(Put(r.token_to_connection_handler, t, c),
                 Including(r.connection_handler_to_tokens, c, t))
  BY IncludingTwoWays DEF Consistent
<1>5. /\ a.users = r.users /\ a.administrators = r.administrators /\ a.expired = r.expired
      /\ a.token_to_username = Put(r.token_to_username, t, u)
      /\ a.username_to_tokens = Including(r.username_to_tokens, u, t)
      /\ a.token_to_connection_handler = Put(r.token_to_connection_handler, t, c)
      /\ a.connection_handler_to_tokens = Including(r.connection_handler_to_tokens, c, t)
  BY DEF ConnectUser, Consistent, Registries
<1>6. /\ DOMAIN Put(r.token_to_username, t, u) \subseteq known \cup {t}
      /\ DOMAIN Put(r.token_to_connection_handler, t, c)
            \subseteq DOMAIN Put(r.token_to_username, t, u)
      /\ \A s \in DOMAIN Put(r.token_to_username, t, u) :
            Put(r.token_to_username, t, u)[s] \in r.users
  BY DEF Consistent, Put
<1> QED
  BY <1>3, <1>4, <1>5, <1>6 DEF Consistent

\* disconnect_token takes a token out of all four dictionaries, and of no other.
LEMMA DisconnectConsistent ==
    ASSUME NEW r, NEW known, Consistent(r, known), NEW t, HasToken(r, t)
    PROVE  /\ Consistent(DisconnectToken(r, t), known)
           /\ DisconnectToken(r, t).users = r.users
           /\ DisconnectToken(r, t).administrators = r.administrators
           /\ DisconnectToken(r, t).token_to_username = Drop(r.token_to_username, t)
<1> DEFINE a == DisconnectToken(r, t)
           u == r.token_to_username[t]
           cs == Disconnected(r, t)
<1>1. u \in DOMAIN r.username_to_tokens
  BY DEF Consistent, TwoWays, HasToken
<1>2. /\ IsDict(Drop(r.token_to_username, t), Tokens, Accounts)
      /\ IsDict(Excluding(r.username_to_tokens, u, t), Accounts, SUBSET Tokens)
      /\ IsDict(Drop(r.token_to_connection_handler, t), Tokens, Connections)
  BY <1>1, DropIsDict, ExcludingIsDict, IsDictionary DEF Consistent, Registries
<1>3. TwoWays(Drop(r.token_to_username, t), Excluding(r.username_to_tokens, u, t))
  BY ExcludingTwoWays DEF Consistent, HasToken
<1>4. /\ IsDict(cs, Connections, SUBSET Tokens)
      /\ TwoWays(Drop(r.token_to_connection_handler, t), cs)
  <2>1. CASE IsConnected(r, t)
    <3> DEFINE c == r.token_to_connection_handler[t]
    <3>1. c \in DOMAIN r.connection_handler_to_tokens
      BY <2>1 DEF Consistent, TwoWays, IsConnected
    <3>2. cs = Excluding(r.connection_handler_to_tokens, c, t)
      BY <2>1 DEF Disconnected
    <3> QED
      BY <2>1, <3>1, <3>2, ExcludingIsDict, ExcludingTwoWays, IsDictionary
      DEF Consistent, Registries, IsConnected
  <2>2. CASE ~IsConnected(r, t)
    <3>1. cs = r.connection_handler_to_tokens
      BY <2>2 DEF Disconnected
    <3>2. IsDict(r.token_to_connection_handler, Tokens, Connections)
      BY IsDictionary DEF Consistent, Registries
    <3>3. Drop(r.token_to_connection_handler, t) = r.token_to_connection_handler
      BY <2>2, <3>2, DropAbsent DEF IsConnected
    <3> QED
      BY <3>1, <3>3, IsDictionary DEF Consistent, Registries
  <2> QED
    BY <2>1, <2>2
<1>5. /\ a.users = r.users /\ a.administrators = r.administrators
      /\ a.expired = r.expired \ {t}
      /\ a.token_to_username = Drop(r.token_to_username, t)
      /\ a.username_to_tokens = Excluding(r.username_to_tokens, u, t)
      /\ a.token_to_connection_handler = Drop(r.token_to_connection_handler, t)
      /\ a.connection_handler_to_tokens = cs
  BY DEF DisconnectToken, Consistent, Registries
<1>6. a \in Registries
  BY <1>2, <1>4, IsDictionary DEF Consistent, Registries, DisconnectToken
<1>7. /\ DOMAIN Drop(r.token_to_username, t) \subseteq known
      /\ DOMAIN Drop(r.token_to_connection_handler, t)
            \subseteq DOMAIN Drop(r.token_to_username, t)
      /\ \A s \in DOMAIN Drop(r.token_to_username, t) :
            Drop(r.token_to_username, t)[s] \in r.users
  BY DEF Consistent, Drop
<1> QED
  BY <1>3, <1>4, <1>5, <1>6, <1>7 DEF Consistent

\* remove_connection detaches the tokens of the connection; their users stay connected.
LEMMA RemoveConnectionConsistent ==
    ASSUME NEW r, NEW known, Consistent(r, known), NEW c
    PROVE  Consistent(RemoveConnection(r, c), known) /\ SameAccounts(RemoveConnection(r, c), r)
<1> DEFINE a == RemoveConnection(r, c)
           th == [t \in DOMAIN r.token_to_connection_handler \ r.connection_handler_to_tokens[c] |->
                    r.token_to_connection_handler[t]]
           ht == Drop(r.connection_handler_to_tokens, c)
<1>1. CASE c \notin DOMAIN r.connection_handler_to_tokens
  BY <1>1 DEF RemoveConnection, SameAccounts
<1>2. CASE c \in DOMAIN r.connection_handler_to_tokens
  <2>1. a = [r EXCEPT !.token_to_connection_handler = th, !.connection_handler_to_tokens = ht]
    BY <1>2 DEF RemoveConnection, Consistent, Registries
  <2>2. IsDict(ht, Connections, SUBSET Tokens)
    BY DropIsDict, IsDictionary DEF Consistent, Registries
  <2>3. IsDict(th, Tokens, Connections)
    <3>1. IsDict(r.token_to_connection_handler, Tokens, Connections)
      BY IsDictionary DEF Consistent, Registries
    <3> QED
      BY <3>1 DEF IsDict
  <2>4. TwoWays(th, ht)
    BY <1>2, DroppedTwoWays DEF Consistent
  <2>5. DOMAIN th \subseteq DOMAIN r.token_to_username
    BY DEF Consistent
  <2> HIDE DEF th, ht
  <2>6. a \in Registries
    BY <2>1, <2>2, <2>3, IsDictionary DEF Consistent, Registries
  <2> QED
    BY <2>1, <2>4, <2>5, <2>6 DEF Consistent, SameAccounts, Registries
<1> QED
  BY <1>1, <1>2

\* The account is gone, with its tokens.
LEMMA RemoveUserConsistent ==
    ASSUME NEW r, NEW known, Consistent(r, known), NEW u
    PROVE  LET a == RemoveUser(r, u) IN
           /\ Consistent(a, known)
           /\ a.users = r.users \ {u} /\ a.administrators = r.administrators \ {u}
           /\ DOMAIN a.token_to_username =
                {t \in DOMAIN r.token_to_username : r.token_to_username[t] # u}
           /\ \A t \in DOMAIN a.token_to_username :
                a.token_to_username[t] = r.token_to_username[t]
<1> DEFINE a == RemoveUser(r, u)
           gone == TokensOf(r, u)
           kept == [c \in DOMAIN r.connection_handler_to_tokens |->
                      r.connection_handler_to_tokens[c] \ gone]
           tu == [t \in DOMAIN r.token_to_username \ gone |-> r.token_to_username[t]]
           ut == Drop(r.username_to_tokens, u)
           th == [t \in DOMAIN r.token_to_connection_handler \ gone |->
                    r.token_to_connection_handler[t]]
           ht == [c \in {d \in DOMAIN kept : kept[d] # {}} |-> kept[c]]
<1>1. a = [users |-> r.users \ {u}, administrators |-> r.administrators \ {u},
           expired |-> r.expired \ gone, token_to_username |-> tu, username_to_tokens |-> ut,
           token_to_connection_handler |-> th, connection_handler_to_tokens |-> ht]
  BY DEF RemoveUser
<1>2. /\ IsDict(r.token_to_username, Tokens, Accounts)
      /\ IsDict(r.username_to_tokens, Accounts, SUBSET Tokens)
      /\ IsDict(r.token_to_connection_handler, Tokens, Connections)
      /\ IsDict(r.connection_handler_to_tokens, Connections, SUBSET Tokens)
  BY IsDictionary DEF Consistent, Registries
<1>3. gone = {t \in DOMAIN r.token_to_username : r.token_to_username[t] = u}
  BY DEF TokensOf, Consistent, TwoWays
<1>4. TwoWays(tu, ut)
  <2>1. CASE u \in DOMAIN r.username_to_tokens
    BY <2>1, DroppedTwoWays DEF TokensOf, Consistent
  <2>2. CASE u \notin DOMAIN r.username_to_tokens
    <3>1. ut = r.username_to_tokens
      BY <1>2, <2>2, DropAbsent
    <3>2. tu = r.token_to_username
      BY <1>2, <2>2 DEF TokensOf, IsDict
    <3> QED
      BY <3>1, <3>2 DEF Consistent
  <2> QED
    BY <2>1, <2>2
<1>5. TwoWays(th, ht)
  <2>1. /\ \A c : c \in DOMAIN ht <=> /\ c \in DOMAIN r.connection_handler_to_tokens
                                       /\ r.connection_handler_to_tokens[c] \ gone # {}
        /\ \A c \in DOMAIN ht : ht[c] = r.connection_handler_to_tokens[c] \ gone
    OBVIOUS
  <2>2. TwoWays(r.token_to_connection_handler, r.connection_handler_to_tokens)
    BY DEF Consistent
  <2>3. /\ DOMAIN th = DOMAIN r.token_to_connection_handler \ gone
        /\ \A t \in DOMAIN th : th[t] = r.token_to_connection_handler[t]
    OBVIOUS
  <2> HIDE DEF gone, ht, th
  <2> QED
    BY <2>1, <2>2, <2>3, WithoutTwoWays
<1>6. /\ IsDict(tu, Tokens, Accounts) /\ IsDict(th, Tokens, Connections)
      /\ IsDict(ht, Connections, SUBSET Tokens)
  BY <1>2 DEF IsDict
<1>7. IsDict(ut, Accounts, SUBSET Tokens)
  BY <1>2, DropIsDict
<1>8. /\ DOMAIN tu = {t \in DOMAIN r.token_to_username : r.token_to_username[t] # u}
      /\ \A t \in DOMAIN tu : tu[t] = r.token_to_username[t] /\ tu[t] \in r.users \ {u}
      /\ DOMAIN tu \subseteq known
      /\ DOMAIN th \subseteq DOMAIN tu
  BY <1>3 DEF Consistent
<1> HIDE DEF gone, tu, ut, th, ht
<1>9. a \in Registries
  <2>1. /\ tu \in Dictionaries(Tokens, Accounts) /\ th \in Dictionaries(Tokens, Connections)
        /\ ht \in Dictionaries(Connections, SUBSET Tokens)
        /\ ut \in Dictionaries(Accounts, SUBSET Tokens)
    BY <1>6, <1>7, IsDictionary
  <2>2. /\ r.users \subseteq Accounts /\ r.administrators \subseteq Accounts
        /\ r.expired \subseteq Tokens
    BY DEF Consistent, Registries
  <2> QED
    BY <1>1, <2>1, <2>2 DEF Registries
<1>10. r.expired \subseteq known
  BY DEF Consistent
<1> HIDE DEF a
<1>11. /\ a.users = r.users \ {u} /\ a.administrators = r.administrators \ {u}
       /\ a.expired = r.expired \ gone
       /\ a.token_to_username = tu /\ a.username_to_tokens = ut
       /\ a.token_to_connection_handler = th /\ a.connection_handler_to_tokens = ht
  BY <1>1
<1>12. Consistent(a, known)
  BY <1>4, <1>5, <1>8, <1>9, <1>10, <1>11 DEF Consistent
<1> QED
  BY <1>8, <1>11, <1>12 DEF a
----------------------------------------------------------------------------
(* The inductive invariant.  That a token of the game is known rests on the   *)
(* agreement of the dictionaries: remove_user finds the tokens of an account   *)
(* in username_to_tokens, the game is asked about token_to_username.           *)

RolesOK ==
    /\ controller \in [Powers -> Accounts \cup {Dummy}]
    /\ tokens \in [Powers -> SUBSET Tokens]
    /\ observer \subseteq Tokens /\ omniscient \subseteq Tokens
    /\ moderators \subseteq Accounts /\ omniscients \subseteq Accounts
    /\ clash \in BOOLEAN

IInv ==
    /\ Consistent(registry, issued)
    /\ issued \subseteq Tokens
    /\ RolesOK
    /\ GameTokensKnown

\* A consistent registry is well typed.
LEMMA IInvTypeOK == IInv => TypeOK
<1> SUFFICES ASSUME IInv PROVE TypeOK
  OBVIOUS
<1>1. /\ IsDict(registry.token_to_username, Tokens, Accounts)
      /\ IsDict(registry.username_to_tokens, Accounts, SUBSET Tokens)
      /\ IsDict(registry.token_to_connection_handler, Tokens, Connections)
      /\ IsDict(registry.connection_handler_to_tokens, Connections, SUBSET Tokens)
      /\ registry.users \subseteq Accounts /\ registry.administrators \subseteq Accounts
  BY IsDictionary DEF IInv, Consistent, Registries
<1>2. /\ IsDict(registry.token_to_username, issued, Accounts)
      /\ IsDict(registry.token_to_connection_handler, issued, Connections)
  BY <1>1 DEF IInv, Consistent, IsDict
<1>3. /\ IsDict(registry.username_to_tokens, Accounts, SUBSET issued)
      /\ IsDict(registry.connection_handler_to_tokens, Connections, SUBSET issued)
  BY <1>1 DEF IInv, Consistent, IsDict, TwoWays
<1> QED
  BY <1>1, <1>2, <1>3 DEF IInv, Consistent, TypeOK, RolesOK

\* A new server has an administrator and its bot, and no token.
LEMMA InvInit == Init => IInv
<1> SUFFICES ASSUME Init PROVE IInv
  OBVIOUS
<1> USE SessionsAssumption
<1>1. registry = [users |-> {Admin, Bot}, administrators |-> {Admin}, expired |-> {},
                  token_to_username |-> Empty, username_to_tokens |-> Empty,
                  token_to_connection_handler |-> Empty, connection_handler_to_tokens |-> Empty]
  BY DEF Init, NewUsers
<1>2. /\ Empty \in Dictionaries(Tokens, Accounts) /\ Empty \in Dictionaries(Tokens, Connections)
      /\ Empty \in Dictionaries(Accounts, SUBSET Tokens)
      /\ Empty \in Dictionaries(Connections, SUBSET Tokens)
      /\ DOMAIN Empty = {}
  BY EmptyIsDict, IsDictionary
<1>3. registry \in Registries
  BY <1>1, <1>2 DEF Registries
<1>4. Consistent(registry, issued)
  BY <1>1, <1>2, <1>3 DEF Consistent, TwoWays
<1>5. RolesOK /\ issued \subseteq Tokens /\ GameTokensKnown
  BY DEF Init, RolesOK, GameTokensKnown, IsPlayer, IsSpecial
<1> QED
  BY <1>4, <1>5 DEF IInv

\* What a request does to the registry.
LEMMA RequestKeeps ==
    ASSUME IInv, NEW c \in Connections, NEW t \in Tokens, Request(c, t)
    PROVE  /\ Consistent(registry', issued') /\ SameAccounts(registry', registry)
           /\ HasToken(registry, t) /\ issued' = issued /\ Owner(t) \in Accounts
           /\ Owner(t) \in registry.users
  BY AttachedConsistent DEF IInv, Request, Authenticated, Consistent, Registries, HasToken, Owner

\* A withdrawn token leaves the registry and the game.
LEMMA RemoveTokenKeeps ==
    ASSUME IInv, NEW r, Consistent(r, issued), SameAccounts(r, registry),
           NEW t \in Tokens, HasToken(r, t), RemoveToken(r, t)
    PROVE  IInv'
<1>1. Consistent(registry', issued')
  BY DisconnectConsistent DEF RemoveToken
<1>2. registry'.token_to_username = Drop(registry.token_to_username, t)
  BY DisconnectConsistent DEF RemoveToken, SameAccounts
<1>3. RolesOK'
  BY DEF RemoveToken, FilterTokens, IInv, RolesOK, grades
<1>4. GameTokensKnown'
  BY <1>2 DEF RemoveToken, FilterTokens, IInv, GameTokensKnown, RolesOK,
              IsPlayer, IsSpecial, HasToken, Owner, Drop
<1> QED
  BY <1>1, <1>3, <1>4 DEF IInv, RemoveToken

\* No token of the game is lost by a step that leaves accounts and tokens alone.
LEMMA SameAccountsKnown ==
    ASSUME IInv, SameAccounts(registry', registry),
           \A t \in Tokens : (IsPlayer(t) \/ IsSpecial(t))' => HasToken(registry, t),
           \A p \in Powers : \A t \in tokens'[p] : Owner(t) \in {controller'[p], Bot}
    PROVE  GameTokensKnown'
  BY DEF GameTokensKnown, SameAccounts, HasToken, Owner
\* Whoever joins or leaves, the tokens of a power are of its controller or the bot.
LEMMA SetUncontrolledKeeps ==
    ASSUME NEW ps, NEW ts \in [Powers -> SUBSET Tokens], RolesOK, SetUncontrolled(ps, ts)
    PROVE  /\ controller' \in [Powers -> Accounts \cup {Dummy}]
           /\ tokens' \in [Powers -> SUBSET Tokens]
           /\ \A p \in Powers : tokens'[p] # {} => tokens'[p] = ts[p] /\ controller'[p] = controller[p]
           /\ \A p \in ps \cap Powers : controller'[p] = Dummy
  BY DEF RolesOK, SetUncontrolled

\* A transfer moves tokens between the special roles, and adds none.
LEMMA TransferKeeps ==
    ASSUME NEW u, NEW promote \in BOOLEAN, Transfer(u, promote), RolesOK
    PROVE  /\ observer' \cup omniscient' \subseteq observer \cup omniscient
           /\ clash' \in BOOLEAN
<1>1. PICK result \in Transferred(TokensOf(registry, u)
                           \cap IF promote THEN observer ELSE omniscient) :
         LET left == (IF promote THEN observer ELSE omniscient) \ (result.moved \cup result.lost) IN
          /\ clash' = (clash \/ result.lost # {})
          /\ observer'   = IF promote THEN left ELSE observer \cup result.moved
          /\ omniscient' = IF promote THEN omniscient \cup result.moved ELSE left
  BY DEF Transfer
<1>2. result.moved \subseteq IF promote THEN observer ELSE omniscient
  BY DEF Transferred
<1> QED
  BY <1>1, <1>2 DEF RolesOK

\* Sessions: connections and tokens come and go.
LEMMA SessionKeeps == IInv /\ Session => IInv'
<1> SUFFICES ASSUME IInv, Session PROVE IInv'
  OBVIOUS
<1> USE DEF players, specials, grades
<1>1. ASSUME NEW c \in Connections, OnClose(c) PROVE IInv'
  <2>1. Consistent(registry', issued') /\ SameAccounts(registry', registry)
    BY <1>1, RemoveConnectionConsistent DEF OnClose, IInv
  <2>2. GameTokensKnown'
    BY <1>1, <2>1, SameAccountsKnown DEF OnClose, IInv, GameTokensKnown, IsPlayer, IsSpecial
  <2> QED
    BY <1>1, <2>1, <2>2 DEF OnClose, IInv, RolesOK
<1>2. ASSUME NEW c \in Connections, NEW u \in Accounts, NEW t \in Tokens, SignIn(c, u, t)
      PROVE  IInv'
  <2> DEFINE r == AddUser(registry, u)
  <2>1. r \in Registries /\ u \in r.users
    BY DEF AddUser, IInv, Consistent, Registries
  <2>2. /\ r.token_to_username = registry.token_to_username
        /\ r.username_to_tokens = registry.username_to_tokens
        /\ r.token_to_connection_handler = registry.token_to_connection_handler
        /\ r.connection_handler_to_tokens = registry.connection_handler_to_tokens
        /\ r.expired = registry.expired /\ registry.users \subseteq r.users
    BY DEF AddUser, IInv, Consistent, Registries
  <2>3. Consistent(r, issued)
    BY <2>1, <2>2 DEF IInv, Consistent
  <2> HIDE DEF r
  <2>4. registry' = ConnectUser(r, u, c, t) /\ t \notin issued /\ issued' = issued \cup {t}
    BY <1>2 DEF SignIn, r
  <2>5. /\ Consistent(registry', issued')
        /\ registry'.token_to_username = Put(registry.token_to_username, t, u)
    BY <2>1, <2>2, <2>3, <2>4, ConnectUserConsistent
  <2>6. t \notin DOMAIN registry.token_to_username
    BY <2>4 DEF IInv, Consistent
  <2>7. GameTokensKnown'
    BY <1>2, <2>5, <2>6 DEF SignIn, IInv, GameTokensKnown, IsPlayer, IsSpecial, HasToken, Owner,
                            Put, RolesOK
  <2> QED
    BY <1>2, <2>4, <2>5, <2>7 DEF SignIn, IInv, RolesOK
<1>3. ASSUME NEW c \in Connections, NEW t \in Tokens, RefuseExpired(c, t) PROVE IInv'
  <2>1. HasToken(registry, t)
    BY <1>3 DEF RefuseExpired, IsConnected, HasToken, IInv, Consistent
  <2> QED
    BY <1>3, <2>1, RemoveTokenKeeps DEF RefuseExpired, IInv, SameAccounts
<1>4. ASSUME NEW c \in Connections, NEW t \in Tokens, Logout(c, t) PROVE IInv'
  <2>1. Consistent(Attached(c, t), issued) /\ SameAccounts(Attached(c, t), registry)
    BY AttachedConsistent DEF IInv
  <2>2. HasToken(Attached(c, t), t)
    BY <1>4, <2>1 DEF Logout, Authenticated, HasToken, SameAccounts
  <2> QED
    BY <1>4, <2>1, <2>2, RemoveTokenKeeps DEF Logout
<1>5. ASSUME NEW c \in Connections, NEW t \in Tokens, UnknownToken(c, t) PROVE IInv'
  <2> DEFINE r == AttachConnectionHandler(registry, t, c)
  <2>1. Consistent(r, issued) /\ SameAccounts(r, registry)
    BY AttachConsistent DEF IInv
  <2>2. HasToken(r, t)
    BY <1>5, <2>1 DEF UnknownToken, HasToken, SameAccounts
  <2> QED
    BY <1>5, <2>1, <2>2, RemoveTokenKeeps DEF UnknownToken
<1>6. ASSUME NEW t \in Tokens, Expire(t) PROVE IInv'
  <2>1. Consistent(registry', issued') /\ SameAccounts(registry', registry)
    BY <1>6 DEF Expire, IInv, Consistent, Registries, SameAccounts, HasToken
  <2>2. GameTokensKnown'
    BY <1>6, <2>1, SameAccountsKnown DEF Expire, IInv, GameTokensKnown, IsPlayer, IsSpecial
  <2> QED
    BY <1>6, <2>1, <2>2 DEF Expire, IInv, RolesOK
<1> QED
  BY <1>1, <1>2, <1>3, <1>4, <1>5, <1>6 DEF Session

\* The game: whoever joins has just shown a token that the server knows.
LEMMA GameKeeps == IInv /\ Game => IInv'
<1> SUFFICES ASSUME IInv, NEW c \in Connections, NEW t \in Tokens,
                    \/ JoinAsObserver(c, t)
                    \/ \E p \in Powers : JoinAsPower(c, t, p) \/ LeavePower(c, t, p)
                    \/ \E ps \in SUBSET Powers \ {{}} : JoinPowers(c, t, ps) \/ SetDummyPowers(c, t, ps)
                    \/ LeaveObservation(c, t)
             PROVE  IInv'
  BY DEF Game
<1> USE SessionsAssumption DEF players, specials, grades
<1>0. Request(c, t)
  BY DEF JoinAsObserver, JoinAsPower, LeavePower, JoinPowers, SetDummyPowers, LeaveObservation
<1>1. /\ Consistent(registry', issued') /\ SameAccounts(registry', registry)
      /\ HasToken(registry, t) /\ issued' = issued /\ Owner(t) \in Accounts
  BY <1>0, RequestKeeps
<1> SUFFICES RolesOK' /\ GameTokensKnown'
  BY <1>1 DEF IInv
<1>2. RolesOK /\ GameTokensKnown
  BY DEF IInv
<1>3. CASE JoinAsObserver(c, t)
  <2>1. RolesOK'
    BY <1>2, <1>3 DEF JoinAsObserver, RolesOK
  <2>2. GameTokensKnown'
    BY <1>1, <1>2, <1>3, SameAccountsKnown DEF JoinAsObserver, GameTokensKnown, IsPlayer, IsSpecial
  <2> QED
    BY <2>1, <2>2
<1>4. ASSUME NEW p \in Powers, JoinAsPower(c, t, p) PROVE RolesOK' /\ GameTokensKnown'
  <2>1. RolesOK'
    BY <1>1, <1>2, <1>4 DEF JoinAsPower, RolesOK
  <2>2. /\ tokens' = [tokens EXCEPT ![p] = @ \cup {t}] /\ UNCHANGED <<observer, omniscient>>
        /\ \/ UNCHANGED controller /\ Owner(t) \in {controller[p], Bot}
           \/ /\ controller[p] = Dummy
              /\ controller' = [controller EXCEPT ![p] = Owner(t)]
    BY <1>4 DEF JoinAsPower
  <2>3. \A q \in Powers : \A s \in tokens'[q] : Owner(s) \in {controller'[q], Bot}
    <3>1. \A s \in tokens[p] : controller[p] = Dummy => Owner(s) = Bot
      BY <1>2 DEF GameTokensKnown, Owner, HasToken, RolesOK, IsPlayer, IInv, Consistent, Registries,
                  Dictionaries
    <3> QED
      BY <1>2, <2>2, <3>1 DEF GameTokensKnown, RolesOK
  <2>4. \A s \in Tokens : (IsPlayer(s) \/ IsSpecial(s))' => HasToken(registry, s)
    BY <1>1, <1>2, <2>2 DEF GameTokensKnown, IsPlayer, IsSpecial, RolesOK
  <2> QED
    BY <1>1, <2>1, <2>3, <2>4, SameAccountsKnown
<1>5. ASSUME NEW p \in Powers, LeavePower(c, t, p) PROVE RolesOK' /\ GameTokensKnown'
  <2>1. SetUncontrolled({p}, tokens) /\ UNCHANGED <<observer, omniscient, grades, clash>>
    BY <1>5 DEF LeavePower
  <2>2. RolesOK'
    BY <1>2, <2>1, SetUncontrolledKeeps DEF RolesOK
  <2> QED
    BY <1>1, <1>2, <2>1, <2>2, SetUncontrolledKeeps, SameAccountsKnown
    DEF GameTokensKnown, IsPlayer, IsSpecial, RolesOK
<1>6. ASSUME NEW ps \in SUBSET Powers, JoinPowers(c, t, ps) PROVE RolesOK' /\ GameTokensKnown'
  <2> DEFINE required == {p \in ps : controller[p] = Dummy}
  <2>1. /\ UNCHANGED <<observer, omniscient, moderators, omniscients, clash>>
        /\ tokens' = [p \in Powers |-> tokens[p] \cup IF p \in required THEN {t} ELSE {}]
        /\ \/ UNCHANGED controller /\ Owner(t) = Bot
           \/ controller' = [p \in Powers |-> IF p \in required THEN Owner(t) ELSE controller[p]]
    BY <1>6 DEF JoinPowers
  <2>2. RolesOK'
    BY <1>1, <1>2, <2>1 DEF RolesOK
  <2>3. \A q \in Powers : \A s \in tokens[q] : controller[q] = Dummy => Owner(s) = Bot
    BY <1>2 DEF GameTokensKnown, Owner, HasToken, RolesOK, IsPlayer, IInv, Consistent, Registries,
                Dictionaries
  <2>4. \A q \in Powers : \A s \in tokens'[q] : Owner(s) \in {controller'[q], Bot}
    BY <1>2, <2>1, <2>3 DEF GameTokensKnown, RolesOK
  <2>5. \A s \in Tokens : (IsPlayer(s) \/ IsSpecial(s))' => HasToken(registry, s)
    BY <1>1, <1>2, <2>1 DEF GameTokensKnown, IsPlayer, IsSpecial, RolesOK
  <2> QED
    BY <1>1, <2>2, <2>4, <2>5, SameAccountsKnown
<1>7. ASSUME NEW ps \in SUBSET Powers, SetDummyPowers(c, t, ps) PROVE RolesOK' /\ GameTokensKnown'
  <2>1. SetUncontrolled(ps, tokens) /\ UNCHANGED <<observer, omniscient, grades, clash>>
    BY <1>7 DEF SetDummyPowers
  <2>2. RolesOK'
    BY <1>2, <2>1, SetUncontrolledKeeps DEF RolesOK
  <2> QED
    BY <1>1, <1>2, <2>1, <2>2, SetUncontrolledKeeps, SameAccountsKnown
    DEF GameTokensKnown, IsPlayer, IsSpecial, RolesOK
<1>8. CASE LeaveObservation(c, t)
  <2>1. RolesOK'
    BY <1>2, <1>8 DEF LeaveObservation, RolesOK
  <2> QED
    BY <1>1, <1>2, <1>8, <2>1, SameAccountsKnown
    DEF LeaveObservation, GameTokensKnown, IsPlayer, IsSpecial
<1> QED
  BY <1>3, <1>4, <1>5, <1>6, <1>7, <1>8
\* Grades: a deleted account takes its tokens and its powers with it; promotions only
\* move tokens between the special roles.
LEMMA DeleteKeeps ==
    ASSUME IInv, NEW c \in Connections, NEW t \in Tokens, NEW u \in Accounts, DeleteAccount(c, t, u)
    PROVE  IInv'
<1> DEFINE r == Attached(c, t)
           keep == DOMAIN registry'.token_to_username
           kept == [p \in Powers |-> tokens[p] \cap keep]
<1> USE SessionsAssumption DEF players, specials, grades
<1>0. RolesOK /\ GameTokensKnown
  BY DEF IInv
<1>1. Consistent(r, issued) /\ SameAccounts(r, registry)
  BY AttachedConsistent DEF IInv
<1>2. registry' = RemoveUser(r, u) /\ issued' = issued /\ clash' = clash
  BY DEF DeleteAccount
<1>3. /\ Consistent(registry', issued')
      /\ registry'.users = registry.users \ {u}
      /\ keep = {s \in DOMAIN registry.token_to_username : registry.token_to_username[s] # u}
      /\ \A s \in keep : registry'.token_to_username[s] = registry.token_to_username[s]
  BY <1>1, <1>2, RemoveUserConsistent DEF SameAccounts
<1> HIDE DEF keep
<1>4. CASE RemoveUserRaises(registry, u)
  <2>1. UNCHANGED <<controller, tokens, observer, omniscient, moderators, omniscients>>
    BY <1>4 DEF DeleteAccount
  <2>2. keep = DOMAIN registry.token_to_username
    BY <1>3, <1>4 DEF RemoveUserRaises, IInv, Consistent, TwoWays
  <2>3. GameTokensKnown'
    BY <1>0, <1>3, <2>1, <2>2 DEF GameTokensKnown, IsPlayer, IsSpecial, HasToken, Owner, RolesOK, keep
  <2> QED
    BY <1>0, <1>2, <1>3, <2>1, <2>3 DEF IInv, RolesOK
<1>5. CASE ~RemoveUserRaises(registry, u)
  <2> DEFINE ps == {p \in Powers : controller[p] \notin registry'.users}
  <2>1. /\ observer' = observer \cap keep /\ omniscient' = omniscient \cap keep
        /\ moderators' = moderators \cap registry'.users
        /\ omniscients' = omniscients \cap registry'.users
        /\ SetUncontrolled(ps, kept)
    BY <1>5 DEF DeleteAccount, keep
  <2>2. kept \in [Powers -> SUBSET Tokens]
    BY <1>0 DEF RolesOK
  <2> HIDE DEF kept
  <2>3. /\ controller' \in [Powers -> Accounts \cup {Dummy}]
        /\ tokens' \in [Powers -> SUBSET Tokens]
        /\ \A p \in Powers : tokens'[p] # {} => tokens'[p] = kept[p] /\ controller'[p] = controller[p]
    BY <1>0, <2>1, <2>2, SetUncontrolledKeeps
  <2>4. RolesOK'
    BY <1>0, <1>2, <2>1, <2>3 DEF RolesOK
  <2>5. \A p \in Powers : kept[p] = tokens[p] \cap keep
    BY DEF kept
  <2>6. GameTokensKnown'
    BY <1>0, <1>3, <2>1, <2>3, <2>5
    DEF GameTokensKnown, IsPlayer, IsSpecial, HasToken, Owner, RolesOK, keep
  <2> QED
    BY <1>2, <1>3, <2>4, <2>6 DEF IInv
<1> QED
  BY <1>4, <1>5

\* Accounts deleted, and rights given and taken.
LEMMA GradeKeeps == IInv /\ Grade => IInv'
<1> SUFFICES ASSUME IInv, NEW c \in Connections, NEW t \in Tokens,
                    \/ \E u \in Accounts : DeleteAccount(c, t, u)
                    \/ \E u \in Graded, promote \in BOOLEAN :
                          SetAdmin(c, t, u, promote) \/ SetGameGrade(c, t, u, promote)
             PROVE  IInv'
  BY DEF Grade
<1> USE SessionsAssumption DEF players, specials, grades
<1>0. RolesOK /\ GameTokensKnown
  BY DEF IInv
<1>1. ASSUME NEW u \in Accounts, DeleteAccount(c, t, u) PROVE IInv'
  BY <1>1, DeleteKeeps
<1>2. ASSUME NEW u \in Graded, NEW promote \in BOOLEAN, SetAdmin(c, t, u, promote) PROVE IInv'
  <2> DEFINE r == Attached(c, t)
  <2>1. Consistent(r, issued) /\ SameAccounts(r, registry)
    BY AttachedConsistent DEF IInv
  <2>2. /\ registry' = [r EXCEPT !.administrators = IF promote THEN @ \cup {u} ELSE @ \ {u}]
        /\ issued' = issued /\ UNCHANGED <<players, grades>>
        /\ UNCHANGED <<specials, clash>> \/ Transfer(u, promote)
    BY <1>2 DEF SetAdmin
  <2>3. Consistent(registry', issued') /\ registry'.token_to_username = registry.token_to_username
    BY <2>1, <2>2 DEF Consistent, Registries, SameAccounts
  <2>4. observer' \cup omniscient' \subseteq observer \cup omniscient /\ clash' \in BOOLEAN
    BY <1>0, <2>2, TransferKeeps DEF RolesOK
  <2>5. RolesOK'
    BY <1>0, <2>2, <2>4 DEF RolesOK
  <2>6. GameTokensKnown'
    BY <1>0, <2>2, <2>3, <2>4 DEF GameTokensKnown, IsPlayer, IsSpecial, HasToken, Owner
  <2> QED
    BY <2>2, <2>3, <2>5, <2>6 DEF IInv
<1>3. ASSUME NEW u \in Graded, NEW promote \in BOOLEAN, SetGameGrade(c, t, u, promote) PROVE IInv'
  <2>1. /\ Consistent(registry', issued') /\ SameAccounts(registry', registry)
        /\ issued' = issued
    BY <1>3, RequestKeeps DEF SetGameGrade
  <2>2. /\ UNCHANGED players /\ moderators' \subseteq Accounts /\ omniscients' \subseteq Accounts
    BY <1>0, <1>3 DEF SetGameGrade, RolesOK
  <2> DEFINE after == UserIsOmniscient(u, registry.administrators, moderators', omniscients')
  <2>3. after \in BOOLEAN /\ (UNCHANGED <<specials, clash>> \/ Transfer(u, after))
    <3>1. after \in BOOLEAN
      BY DEF UserIsOmniscient
    <3> QED
      BY <1>3, <3>1 DEF SetGameGrade
  <2> HIDE DEF after
  <2>4. observer' \cup omniscient' \subseteq observer \cup omniscient /\ clash' \in BOOLEAN
    BY <1>0, <2>3, TransferKeeps DEF RolesOK
  <2>5. RolesOK'
    BY <1>0, <2>2, <2>4 DEF RolesOK
  <2>6. GameTokensKnown'
    BY <1>0, <2>1, <2>2, <2>4 DEF GameTokensKnown, IsPlayer, IsSpecial, HasToken, Owner, SameAccounts
  <2> QED
    BY <2>1, <2>5, <2>6 DEF IInv
<1> QED
  BY <1>1, <1>2, <1>3

\* Every request and every event of a connection preserves the invariant.
LEMMA InvStep == IInv /\ [Next]_vars => IInv'
<1>1. IInv /\ UNCHANGED vars => IInv'
  BY DEF vars, players, specials, grades, IInv, RolesOK, GameTokensKnown, IsPlayer, IsSpecial,
         HasToken, Owner
<1> QED
  BY <1>1, SessionKeeps, GameKeeps, GradeKeeps DEF Next

\* The registry is consistent in every reachable state.
THEOREM Invariant == Spec => []IInv
  BY InvInit, InvStep, PTL DEF Spec

\* The state keeps its type, and the dictionaries of the registry agree (TypeOK).
THEOREM TypeCorrect == Spec => []TypeOK
  BY Invariant, IInvTypeOK, PTL

\* The game holds no token that the server has forgotten, and a power none of another
\* account than its controller's or the bot's (GameTokensKnown).
THEOREM TokensKnown == Spec => []GameTokensKnown
  BY Invariant, PTL DEF IInv
----------------------------------------------------------------------------
(* The role of a token and the rights of its account.                        *)

Omniscients == registry.administrators \cup moderators \cup omniscients

\* RoleMatchesRights, in terms of the sets it is about.
LEMMA RoleMatchesRightsMeans ==
    /\ RoleMatchesRights <=>
         (~clash => /\ \A t \in omniscient : registry.token_to_username[t] \in Omniscients
                   /\ \A t \in observer : registry.token_to_username[t] \notin Omniscients)
    /\ \A u : IsOmniscientNow(u) <=> u \in Omniscients
  BY DEF RoleMatchesRights, IsOmniscientNow, UserIsOmniscient, Owner, Omniscients

\* The tokens of a user, from the other of the two dictionaries.
LEMMA TokensOfOwner ==
    ASSUME IInv, NEW u
    PROVE  TokensOf(registry, u) =
              {t \in DOMAIN registry.token_to_username : registry.token_to_username[t] = u}
  BY DEF IInv, Consistent, TwoWays, TokensOf

\* A transfer that does not raise moves all the tokens of the user.
LEMMA TransferMoves ==
    ASSUME IInv, NEW u, NEW promote \in BOOLEAN, Transfer(u, promote), ~clash'
    PROVE  LET of(t) == registry.token_to_username[t] IN
           /\ ~clash
           /\ promote => /\ \A t \in omniscient' : t \in omniscient \/ of(t) = u
                         /\ \A t \in observer' : t \in observer /\ of(t) # u
           /\ ~promote => /\ \A t \in omniscient' : t \in omniscient /\ of(t) # u
                          /\ \A t \in observer' : t \in observer \/ of(t) = u
<1> DEFINE from == IF promote THEN observer ELSE omniscient
           ts == TokensOf(registry, u) \cap from
<1>1. PICK result \in Transferred(ts) :
         LET left == from \ (result.moved \cup result.lost) IN
          /\ clash' = (clash \/ result.lost # {})
          /\ observer'   = IF promote THEN left ELSE observer \cup result.moved
          /\ omniscient' = IF promote THEN omniscient \cup result.moved ELSE left
  BY DEF Transfer
<1>2. result.lost = {} /\ ~clash
  BY <1>1 DEF IInv, RolesOK
<1>3. result.moved = ts
  BY <1>2 DEF Transferred
<1>4. \A t \in observer \cup omniscient : t \in DOMAIN registry.token_to_username
  BY DEF IInv, GameTokensKnown, RolesOK, IsSpecial, HasToken
<1>5. \A t \in from : t \in ts <=> registry.token_to_username[t] = u
  BY <1>4, TokensOfOwner
<1> HIDE DEF ts
<1>6. \A t \in ts : t \in from /\ registry.token_to_username[t] = u
  BY <1>5, TokensOfOwner DEF ts
<1> QED
  BY <1>1, <1>2, <1>3, <1>5, <1>6

\* No step changes a role or a right without the other.
LEMMA RightsStep == IInv /\ RoleMatchesRights /\ [Next]_vars => RoleMatchesRights'
<1> SUFFICES ASSUME IInv, RoleMatchesRights, [Next]_vars, ~clash'
             PROVE  /\ \A s \in omniscient' : registry'.token_to_username[s] \in Omniscients'
                    /\ \A s \in observer' : registry'.token_to_username[s] \notin Omniscients'
  BY DEF RoleMatchesRights, IsOmniscientNow, UserIsOmniscient, Owner, Omniscients
<1> DEFINE Matches == /\ \A s \in omniscient' : registry'.token_to_username[s] \in Omniscients'
                      /\ \A s \in observer' : registry'.token_to_username[s] \notin Omniscients'
<1> USE DEF players, specials, grades
\* The hypothesis, before the step.
<1>0. ASSUME ~clash
      PROVE  /\ \A s \in omniscient : registry.token_to_username[s] \in Omniscients
             /\ \A s \in observer : registry.token_to_username[s] \notin Omniscients
  BY <1>0, RoleMatchesRightsMeans
<1>k. \A s \in observer \cup omniscient : s \in DOMAIN registry.token_to_username
  BY DEF IInv, GameTokensKnown, RolesOK, IsSpecial, HasToken
\* A step that keeps owners and rights, and adds nobody to a role.
<1>a. ASSUME ~clash, observer' \subseteq observer, omniscient' \subseteq omniscient, UNCHANGED grades,
             registry'.administrators = registry.administrators,
             \A s \in observer' \cup omniscient' :
                registry'.token_to_username[s] = registry.token_to_username[s]
      PROVE  Matches
  BY <1>0, <1>a DEF Omniscients
\* A token that is withdrawn.
<1>b. ASSUME NEW r, Consistent(r, issued), SameAccounts(r, registry),
             NEW t \in Tokens, HasToken(r, t), RemoveToken(r, t)
      PROVE  Matches
  <2>1. /\ registry'.token_to_username = Drop(registry.token_to_username, t)
        /\ registry'.administrators = registry.administrators
    BY <1>b, DisconnectConsistent DEF RemoveToken, SameAccounts
  <2>2. /\ observer' = observer \ {t} /\ omniscient' = omniscient \ {t}
        /\ UNCHANGED grades /\ clash' = clash
    BY <1>b DEF RemoveToken, FilterTokens, IInv, RolesOK
  <2> QED
    BY <1>a, <1>k, <2>1, <2>2 DEF Drop
\* A request without a transfer.
<1>c. ASSUME NEW c \in Connections, NEW t \in Tokens, Request(c, t), UNCHANGED <<grades, clash>>,
             observer' \subseteq observer, omniscient' \subseteq omniscient
      PROVE  Matches
  <2>1. SameAccounts(registry', registry)
    BY <1>c, RequestKeeps
  <2> QED
    BY <1>a, <1>c, <2>1 DEF SameAccounts
<1>1. CASE Session
  <2>1. ASSUME NEW c \in Connections, OnClose(c) PROVE Matches
    <3>1. SameAccounts(registry', registry)
      BY <2>1, RemoveConnectionConsistent DEF OnClose, IInv
    <3> QED
      BY <1>a, <2>1, <3>1 DEF OnClose, SameAccounts
  <2>2. ASSUME NEW c \in Connections, NEW u \in Accounts, NEW t \in Tokens, SignIn(c, u, t)
        PROVE  Matches
    <3>1. /\ registry'.token_to_username = Put(registry.token_to_username, t, u)
          /\ registry'.administrators = registry.administrators
      BY <2>2 DEF SignIn, ConnectUser, AddUser, IInv, Consistent, Registries
    <3>2. t \notin DOMAIN registry.token_to_username
      BY <2>2 DEF SignIn, IInv, Consistent
    <3> QED
      BY <1>a, <1>k, <2>2, <3>1, <3>2 DEF SignIn, Put
  <2>3. ASSUME NEW c \in Connections, NEW t \in Tokens, RefuseExpired(c, t) PROVE Matches
    <3>1. HasToken(registry, t)
      BY <2>3 DEF RefuseExpired, IsConnected, HasToken, IInv, Consistent
    <3> QED
      BY <1>b, <2>3, <3>1 DEF RefuseExpired, IInv, SameAccounts
  <2>4. ASSUME NEW c \in Connections, NEW t \in Tokens, Logout(c, t) PROVE Matches
    <3>1. Consistent(Attached(c, t), issued) /\ SameAccounts(Attached(c, t), registry)
      BY AttachedConsistent DEF IInv
    <3>2. HasToken(Attached(c, t), t)
      BY <2>4, <3>1 DEF Logout, Authenticated, HasToken, SameAccounts
    <3> QED
      BY <1>b, <2>4, <3>1, <3>2 DEF Logout
  <2>5. ASSUME NEW c \in Connections, NEW t \in Tokens, UnknownToken(c, t) PROVE Matches
    <3> DEFINE r == AttachConnectionHandler(registry, t, c)
    <3>1. Consistent(r, issued) /\ SameAccounts(r, registry)
      BY AttachConsistent DEF IInv
    <3>2. HasToken(r, t)
      BY <2>5, <3>1 DEF UnknownToken, HasToken, SameAccounts
    <3> QED
      BY <1>b, <2>5, <3>1, <3>2 DEF UnknownToken
  <2>6. ASSUME NEW t \in Tokens, Expire(t) PROVE Matches
    BY <1>a, <2>6 DEF Expire, IInv, Consistent, Registries
  <2> QED
    BY <1>1, <2>1, <2>2, <2>3, <2>4, <2>5, <2>6 DEF Session
<1>2. CASE Game
  <2> SUFFICES ASSUME NEW c \in Connections, NEW t \in Tokens,
                      \/ JoinAsObserver(c, t)
                      \/ \E p \in Powers : JoinAsPower(c, t, p) \/ LeavePower(c, t, p)
                      \/ \E ps \in SUBSET Powers \ {{}} :
                            JoinPowers(c, t, ps) \/ SetDummyPowers(c, t, ps)
                      \/ LeaveObservation(c, t)
               PROVE  Matches
    BY <1>2 DEF Game
  <2>1. CASE JoinAsObserver(c, t)
    <3>1. SameAccounts(registry', registry)
      BY <2>1, RequestKeeps DEF JoinAsObserver
    <3>2. Omniscients' = Omniscients /\ ~clash
      BY <2>1, <3>1 DEF JoinAsObserver, Omniscients, SameAccounts
    <3>3. IF registry.token_to_username[t] \in Omniscients
          THEN omniscient' = omniscient \cup {t} /\ observer' = observer
          ELSE observer' = observer \cup {t} /\ omniscient' = omniscient
      BY <2>1, RoleMatchesRightsMeans DEF JoinAsObserver, Owner
    <3> QED
      BY <1>0, <3>1, <3>2, <3>3 DEF SameAccounts
  <2>2. CASE ~JoinAsObserver(c, t)
    BY <1>c, <2>2 DEF JoinAsPower, LeavePower, JoinPowers, SetDummyPowers, LeaveObservation
  <2> QED
    BY <2>1, <2>2
<1>3. ASSUME NEW c \in Connections, NEW t \in Tokens, NEW u \in Accounts, DeleteAccount(c, t, u)
      PROVE  Matches
  <2> DEFINE keep == DOMAIN registry'.token_to_username
  <2>1. /\ registry' = RemoveUser(Attached(c, t), u) /\ clash' = clash
        /\ Consistent(Attached(c, t), issued) /\ SameAccounts(Attached(c, t), registry)
    BY <1>3, AttachedConsistent DEF DeleteAccount, IInv
  <2>2. /\ registry'.users = registry.users \ {u}
        /\ registry'.administrators = registry.administrators \ {u}
        /\ keep = {s \in DOMAIN registry.token_to_username : registry.token_to_username[s] # u}
        /\ \A s \in keep : registry'.token_to_username[s] = registry.token_to_username[s]
    BY <2>1, RemoveUserConsistent DEF SameAccounts
  <2>3. \A s \in keep : /\ registry'.token_to_username[s] # u
                        /\ registry'.token_to_username[s] \in registry.users
    BY <2>2 DEF IInv, Consistent
  <2> HIDE DEF keep
  <2>4. /\ observer' \subseteq observer \cap keep /\ omniscient' \subseteq omniscient \cap keep
        /\ moderators \cap registry'.users \subseteq moderators' /\ moderators' \subseteq moderators
        /\ omniscients \cap registry'.users \subseteq omniscients' /\ omniscients' \subseteq omniscients
    <3>1. CASE RemoveUserRaises(registry, u)
      <4>1. keep = DOMAIN registry.token_to_username
        BY <2>2, <3>1 DEF RemoveUserRaises, IInv, Consistent, TwoWays
      <4> QED
        BY <1>k, <1>3, <3>1, <4>1 DEF DeleteAccount
    <3>2. CASE ~RemoveUserRaises(registry, u)
      BY <1>3, <3>2 DEF DeleteAccount, keep
    <3> QED
      BY <3>1, <3>2
  <2>5. \A o \in registry.users \ {u} : o \in Omniscients' <=> o \in Omniscients
    BY <2>2, <2>4 DEF Omniscients
  <2> QED
    BY <1>0, <2>1, <2>2, <2>3, <2>4, <2>5
<1>4. ASSUME NEW c \in Connections, NEW t \in Tokens, NEW u \in Graded, NEW promote \in BOOLEAN,
             SetAdmin(c, t, u, promote)
      PROVE  Matches
  <2> DEFINE r == Attached(c, t)
  <2>1. Consistent(r, issued) /\ SameAccounts(r, registry)
    BY AttachedConsistent DEF IInv
  <2>2. /\ registry' = [r EXCEPT !.administrators = IF promote THEN @ \cup {u} ELSE @ \ {u}]
        /\ UNCHANGED grades
        /\ IF u \in moderators \cup omniscients THEN UNCHANGED <<specials, clash>>
                                               ELSE Transfer(u, promote)
    BY <1>4 DEF SetAdmin
  <2>3. /\ registry'.token_to_username = registry.token_to_username
        /\ registry'.administrators = IF promote THEN registry.administrators \cup {u}
                                                 ELSE registry.administrators \ {u}
    BY <2>1, <2>2 DEF Consistent, Registries, SameAccounts
  <2>4. /\ \A o : o # u => (o \in Omniscients' <=> o \in Omniscients)
        /\ u \in moderators \cup omniscients => u \in Omniscients /\ u \in Omniscients'
        /\ u \notin moderators \cup omniscients => (u \in Omniscients' <=> promote)
    BY <2>2, <2>3 DEF Omniscients
  <2>5. CASE u \in moderators \cup omniscients
    BY <1>0, <2>2, <2>3, <2>4, <2>5
  <2>6. CASE u \notin moderators \cup omniscients
    BY <1>0, <2>2, <2>3, <2>4, <2>6, TransferMoves
  <2> QED
    BY <2>5, <2>6
<1>5. ASSUME NEW c \in Connections, NEW t \in Tokens, NEW u \in Graded, NEW promote \in BOOLEAN,
             SetGameGrade(c, t, u, promote)
      PROVE  Matches
  <2>1. SameAccounts(registry', registry)
    BY <1>5, RequestKeeps DEF SetGameGrade
  <2> DEFINE after == UserIsOmniscient(u, registry.administrators, moderators', omniscients')
  <2>2. \A o : o # u => (o \in Omniscients' <=> o \in Omniscients)
    BY <1>5, <2>1 DEF SetGameGrade, Omniscients, SameAccounts
  <2>3. /\ after \in BOOLEAN /\ (after <=> u \in Omniscients')
        /\ IsOmniscientNow(u) <=> u \in Omniscients
        /\ IsOmniscientNow(u) \in BOOLEAN
    BY <2>1 DEF IsOmniscientNow, UserIsOmniscient, Omniscients, SameAccounts
  <2>4. IF IsOmniscientNow(u) = after THEN UNCHANGED <<specials, clash>> ELSE Transfer(u, after)
    BY <1>5 DEF SetGameGrade
  <2> HIDE DEF after
  <2>5. CASE IsOmniscientNow(u) = after
    BY <1>0, <2>1, <2>2, <2>3, <2>4, <2>5 DEF SameAccounts
  <2>6. CASE IsOmniscientNow(u) # after
    BY <1>0, <2>1, <2>2, <2>3, <2>4, <2>6, TransferMoves DEF SameAccounts
  <2> QED
    BY <2>5, <2>6
<1>6. CASE UNCHANGED vars
  BY <1>0, <1>6 DEF vars, Omniscients
<1> QED
  BY <1>1, <1>2, <1>3, <1>4, <1>5, <1>6 DEF Next, Grade

\* Through all promotions and demotions that overlap, the role of a token is what its
\* account has the right to (RoleMatchesRights).
THEOREM RolesMatch == Spec => []RoleMatchesRights
<1>1. Init => RoleMatchesRights
  BY DEF Init, RoleMatchesRights
<1> QED
  BY <1>1, Invariant, RightsStep, PTL DEF Spec

----------------------------------------------------------------------------
(* The documents on disk.                                                    *)

Version == Nat
Contents == Version \cup {Absent, Torn}
OptionalVersion == Version \cup {Absent}

CallOfSave ==
    [next : {"rename", "open", "close"}, version : Version,
     open : {"none", "file", "backup"}, handler : BOOLEAN]

\* The type of the state; a process that has ended saves nothing.
DiskTypeOK ==
    /\ file \in Contents /\ backup \in Contents
    /\ memory \in OptionalVersion /\ pending \in OptionalVersion
    /\ durable \in OptionalVersion
    /\ saves \in Seq(CallOfSave)
    /\ run \in {"up", "starting", "stopped", "down"}
    /\ run \in {"stopped", "down"} => saves = << >>
    /\ overlapped \in BOOLEAN

\* The handler of SIGINT saves what is in memory, and no request is handled while
\* it does.
HandlersSaveMemory ==
    \A i \in 1..Len(saves) : saves[i].handler => saves[i].version = memory

\* A save that interrupts no other never renames a torn file over the backup, and
\* opens the file only when it has been renamed.
FileOfSave ==
    /\ run = "up" /\ saves = << >> => file # Torn
    /\ Len(saves) = 1 => /\ saves[1].next = "rename" => file # Torn
                         /\ saves[1].next = "open" => file = Absent

\* The last version saved, or a later one, is in the file or, if the file cannot be
\* read, in the backup.
Kept ==
    IF Readable(file) THEN file >= durable ELSE durable = Absent \/ backup >= durable

\* It is so unless a save was interrupted, and the process killed then.
SavedIsKept == ~overlapped /\ Len(saves) <= 1 => Kept

DiskInv == DiskTypeOK /\ HandlersSaveMemory /\ FileOfSave /\ SavedIsKept /\ GracefulStop

\* A process saves nothing, or makes one call of save_json_on_disk.
LEMMA FewCalls ==
    /\ << >> \in Seq(CallOfSave) /\ Len(<< >>) = 0
    /\ \A c \in CallOfSave : <<c>> \in Seq(CallOfSave) /\ Len(<<c>>) = 1 /\ <<c>>[1] = c
  OBVIOUS

\* A server without data, and a new game.
LEMMA DiskInvInit == DiskInit => DiskInv
<1> SUFFICES ASSUME DiskInit PROVE DiskInv
  OBVIOUS
<1> USE DEF Absent, Torn
<1> DEFINE first == Call(0, FALSE)
<1>1. first \in CallOfSave /\ ~first.handler /\ first.next = "rename"
  BY DEF Call, CallOfSave, Version
<1>2. CASE RebuiltIfMissing
  <2>1. saves = <<first>> /\ run = "starting" /\ pending = Absent
    BY <1>2 DEF DiskInit
  <2>2. saves \in Seq(CallOfSave) /\ Len(saves) = 1 /\ saves[1] = first
    BY <1>1, <2>1, FewCalls
  <2> HIDE DEF first
  <2>3. DiskTypeOK
    BY <1>1, <2>1, <2>2 DEF DiskInit, DiskTypeOK, Contents, OptionalVersion, Version
  <2>4. HandlersSaveMemory /\ FileOfSave
    BY <1>1, <2>1, <2>2 DEF DiskInit, HandlersSaveMemory, FileOfSave
  <2>5. SavedIsKept /\ GracefulStop
    BY <1>1, <2>1, <2>2 DEF DiskInit, SavedIsKept, Kept, GracefulStop, Readable
  <2> QED
    BY <2>3, <2>4, <2>5 DEF DiskInv
<1>3. CASE ~RebuiltIfMissing
  <2>1. saves = << >> /\ run = "up" /\ pending = 0
    BY <1>3 DEF DiskInit
  <2>2. DiskTypeOK
    BY <2>1, FewCalls DEF DiskInit, DiskTypeOK, Contents, OptionalVersion, Version
  <2>3. HandlersSaveMemory /\ FileOfSave
    BY <2>1, FewCalls DEF DiskInit, HandlersSaveMemory, FileOfSave
  <2>4. SavedIsKept /\ GracefulStop
    BY <2>1, FewCalls DEF DiskInit, SavedIsKept, Kept, GracefulStop, Readable
  <2> QED
    BY <2>2, <2>3, <2>4 DEF DiskInv
<1> QED
  BY <1>2, <1>3

\* A call appended is typed, and the current one.
LEMMA AppendCall ==
    ASSUME saves \in Seq(CallOfSave), NEW c \in CallOfSave
    PROVE  /\ Append(saves, c) \in Seq(CallOfSave)
           /\ Len(Append(saves, c)) = Len(saves) + 1
           /\ \A i \in 1..Len(saves) : Append(saves, c)[i] = saves[i]
           /\ Append(saves, c)[Len(saves) + 1] = c
  OBVIOUS

\* A call that goes on to its next operation.
LEMMA CallGoesOn ==
    ASSUME NEW c \in CallOfSave, NEW n \in {"rename", "open", "close"}, NEW d,
           d = [c EXCEPT !.next = n]
    PROVE  d \in CallOfSave /\ d.version = c.version /\ d.handler = c.handler /\ d.next = n
  BY DEF CallOfSave

\* A call whose file was renamed.
LEMMA CallMoved ==
    ASSUME NEW c \in CallOfSave, NEW o \in {"none", "file", "backup"}, NEW d,
           d = [c EXCEPT !.open = o]
    PROVE  d \in CallOfSave /\ d.version = c.version /\ d.handler = c.handler
  BY DEF CallOfSave

\* The current call, when there is one.
LEMMA CurrentIsCall ==
    ASSUME saves \in Seq(CallOfSave), saves # << >>
    PROVE  Len(saves) \in Nat \ {0} /\ Current \in CallOfSave
  BY DEF Current

\* Requests, the periodic backup and the arrival of SIGINT.
LEMMA ServeStep == DiskInv /\ Serve => DiskInv'
<1> SUFFICES ASSUME DiskInv, Serve PROVE DiskInv'
  OBVIOUS
<1> USE DEF DiskInv, DiskTypeOK, Contents, OptionalVersion, Version, Absent, Torn
<1>1. CASE Change
  BY <1>1 DEF Change, disk, HandlersSaveMemory, FileOfSave, SavedIsKept, Kept, GracefulStop, Readable
<1>2. CASE BackupNow
  <2>1. Call(pending, FALSE) \in CallOfSave
    BY <1>2 DEF BackupNow, Call, CallOfSave
  <2>2. saves' \in Seq(CallOfSave) /\ Len(saves') = 1 /\ saves'[1] = Call(pending, FALSE)
    BY <1>2, <2>1, FewCalls DEF BackupNow
  <2> QED
    BY <1>2, <2>2 DEF BackupNow, disk, HandlersSaveMemory, FileOfSave, SavedIsKept, Kept,
                      GracefulStop, Readable, Call
<1>3. CASE Handler
  <2>1. Call(memory, TRUE) \in CallOfSave
    BY <1>3 DEF Handler, Call, CallOfSave
  <2>2. /\ saves' \in Seq(CallOfSave)
        /\ Len(saves') = Len(saves) + 1
        /\ \A i \in 1..Len(saves) : saves'[i] = saves[i]
        /\ saves'[Len(saves) + 1] = Call(memory, TRUE)
    BY <1>3, <2>1, AppendCall DEF Handler
  <2>3. Len(saves') = 1 => saves = << >> /\ saves'[1].next = "rename"
    BY <2>2 DEF Call
  <2>4. HandlersSaveMemory'
    BY <1>3, <2>2 DEF Handler, HandlersSaveMemory, Call
  <2>5. DiskTypeOK'
    BY <1>3, <2>2 DEF Handler, disk
  <2>6. FileOfSave' /\ SavedIsKept' /\ GracefulStop'
    <3>1. Len(saves) \in Nat /\ (saves = << >> => Len(saves) = 0)
      BY FewCalls
    <3>2. FileOfSave' /\ GracefulStop'
      <4>1. run = "up" /\ run' = "up" /\ file' = file /\ saves' # << >>
        <5>1. run = "up" /\ run' = "up" /\ file' = file
          BY <1>3 DEF Handler, disk
        <5>2. Len(saves') # 0
          BY <2>2, <3>1
        <5> QED
          BY <5>1, <5>2, FewCalls
      <4> QED
        BY <2>3, <4>1 DEF FileOfSave, GracefulStop
    <3>3. SavedIsKept'
      BY <1>3, <2>2, <3>1 DEF Handler, disk, SavedIsKept, Kept, Readable
    <3> QED
      BY <3>2, <3>3
  <2> QED
    BY <2>4, <2>5, <2>6
<1> QED
  BY <1>1, <1>2, <1>3 DEF Serve

\* The operations of save_json_on_disk.
LEMMA SaveStep == DiskInv /\ Save => DiskInv'
<1> SUFFICES ASSUME DiskInv, Save PROVE DiskInv'
  OBVIOUS
<1> USE DEF DiskInv, DiskTypeOK, Contents, OptionalVersion, Version, Absent, Torn
<1>0. saves # << >> /\ Len(saves) \in Nat \ {0} /\ Current \in CallOfSave
  BY CurrentIsCall DEF Save, Rename, OpenFile, CloseFile
<1>1. CASE Rename
  <2>1. ASSUME NEW f \in {"none", "file", "backup"}
        PROVE  Renamed(f) \in {"none", "file", "backup"}
    BY DEF Renamed
  <2>2. /\ saves' \in Seq(CallOfSave)
        /\ Len(saves') = Len(saves)
        /\ \A i \in 1..Len(saves) : /\ saves'[i].version = saves[i].version
                                    /\ saves'[i].handler = saves[i].handler
        /\ saves'[Len(saves)].next = "open"
    <3>0. \A i \in 1..Len(saves) : saves[i] \in CallOfSave
      OBVIOUS
    <3>1. CASE file = Absent
      <4> DEFINE c == [Current EXCEPT !.next = "open"]
      <4>1. Continue(c)
        BY <1>1, <3>1 DEF Rename
      <4>2. c \in CallOfSave /\ c.version = Current.version /\ c.handler = Current.handler
            /\ c.next = "open"
        BY <1>0, CallGoesOn
      <4> HIDE DEF c
      <4> QED
        BY <1>0, <4>1, <4>2 DEF Continue, Current
    <3>2. CASE file # Absent
      <4> DEFINE new == [i \in DOMAIN saves |->
                          IF i = Len(saves) THEN [Current EXCEPT !.next = "open"]
                          ELSE [saves[i] EXCEPT !.open = Renamed(@)]]
      <4>1. \A i \in 1..Len(saves) : /\ new[i] \in CallOfSave
                                     /\ new[i].version = saves[i].version
                                     /\ new[i].handler = saves[i].handler
        <5>1. SUFFICES ASSUME NEW i \in 1..Len(saves)
                       PROVE  /\ new[i] \in CallOfSave
                              /\ new[i].version = saves[i].version
                              /\ new[i].handler = saves[i].handler
          OBVIOUS
        <5>2. CASE i = Len(saves)
          <6>1. new[i] = [saves[i] EXCEPT !.next = "open"]
            BY <5>2 DEF Current
          <6>2. saves[i] \in CallOfSave
            BY <3>0
          <6> HIDE DEF new
          <6> QED
            BY <6>1, <6>2, CallGoesOn
        <5>3. CASE i # Len(saves)
          <6>1. new[i] = [saves[i] EXCEPT !.open = Renamed(saves[i].open)]
            <7>1. saves[i] = [saves[i] EXCEPT !.open = saves[i].open]
              BY <3>0 DEF CallOfSave
            <7> QED
              BY <3>0, <5>3 DEF CallOfSave
          <6>2. Renamed(saves[i].open) \in {"none", "file", "backup"}
            BY <2>1, <3>0 DEF CallOfSave
          <6>3. saves[i] \in CallOfSave
            BY <3>0
          <6> HIDE DEF new
          <6> QED
            BY <6>1, <6>2, <6>3, CallMoved
        <5> QED
          BY <5>2, <5>3
      <4>2. new \in Seq(CallOfSave) /\ Len(new) = Len(saves) /\ new[Len(saves)].next = "open"
        <5>1. new[Len(saves)] = [Current EXCEPT !.next = "open"]
          BY <1>0
        <5>2. new[Len(saves)].next = "open"
          BY <1>0, <5>1 DEF CallOfSave
        <5> HIDE DEF new
        <5>3. DOMAIN new = 1..Len(saves) /\ new = [i \in 1..Len(saves) |-> new[i]]
          BY DEF new
        <5> QED
          BY <1>0, <4>1, <5>2, <5>3
      <4>3. saves' = new
        BY <1>1, <3>2 DEF Rename
      <4> HIDE DEF new
      <4> QED
        BY <4>1, <4>2, <4>3
    <3> QED
      BY <3>1, <3>2
  <2>3. HandlersSaveMemory'
    BY <1>1, <2>2 DEF Rename, HandlersSaveMemory
  <2>4. FileOfSave'
    BY <1>0, <1>1, <2>2 DEF Rename, FileOfSave, disk
  <2>5. SavedIsKept'
    BY <1>0, <1>1, <2>2 DEF Rename, SavedIsKept, Kept, FileOfSave, Current, Readable, disk
  <2> QED
    BY <1>0, <1>1, <2>2, <2>3, <2>4, <2>5 DEF Rename, GracefulStop, disk
<1>2. CASE OpenFile
  <2>1. [Current EXCEPT !.next = "close", !.open = "file"] \in CallOfSave
    BY <1>0 DEF CallOfSave
  <2>2. /\ saves' \in Seq(CallOfSave)
        /\ Len(saves') = Len(saves)
        /\ \A i \in 1..Len(saves) : /\ saves'[i].version = saves[i].version
                                    /\ saves'[i].handler = saves[i].handler
        /\ saves'[Len(saves)].next = "close"
    BY <1>0, <1>2, <2>1 DEF OpenFile, Continue, Current, CallOfSave
  <2>3. HandlersSaveMemory'
    BY <1>2, <2>2 DEF OpenFile, HandlersSaveMemory
  <2>4. SavedIsKept'
    BY <1>0, <1>2, <2>2 DEF OpenFile, SavedIsKept, Kept, FileOfSave, Current, Readable
  <2> QED
    BY <1>0, <1>2, <2>2, <2>3, <2>4 DEF OpenFile, FileOfSave, GracefulStop
<1>3. CASE CloseFile
  <2>1. Current.version \in Nat /\ (Current.handler => Current.version = memory)
    BY <1>0 DEF CallOfSave, HandlersSaveMemory, Current
  <2>2. backup' \in Contents
    <3>1. \A i \in DOMAIN saves : saves[i].version \in Nat
      <4>1. \A i \in DOMAIN saves : saves[i] \in CallOfSave
        OBVIOUS
      <4> QED
        BY <4>1 DEF CallOfSave
    <3> QED
      BY <1>3, <3>1 DEF CloseFile
  <2> QED
    BY <1>3, <2>1, <2>2 DEF CloseFile, HandlersSaveMemory, FileOfSave, SavedIsKept, Kept,
                            GracefulStop, Readable
<1> QED
  BY <1>1, <1>2, <1>3 DEF Save

\* The end of the process, and the start of the next one.
LEMMA RestartStep == DiskInv /\ (Crash \/ Load) => DiskInv'
<1> SUFFICES ASSUME DiskInv, Crash \/ Load PROVE DiskInv'
  OBVIOUS
<1> USE DEF DiskInv, DiskTypeOK, Contents, OptionalVersion, Version, Absent, Torn
<1>1. CASE Crash
  <2>1. DiskTypeOK' /\ HandlersSaveMemory' /\ FileOfSave' /\ GracefulStop'
    BY <1>1, FewCalls DEF Crash, disk, HandlersSaveMemory, FileOfSave, GracefulStop
  <2>2. ASSUME ~overlapped' PROVE ~overlapped /\ Len(saves) <= 1
    <3>1. Len(saves) \in Nat
      OBVIOUS
    <3>2. ~overlapped /\ ~(Len(saves) > 1)
      BY <1>1, <2>2, Zenon DEF Crash
    <3> QED
      BY <3>1, <3>2
  <2>3. SavedIsKept'
    BY <1>1, <2>2 DEF Crash, disk, SavedIsKept, Kept, Readable
  <2> QED
    BY <2>1, <2>3
<1>2. CASE LoadMissing
  <2>1. Call(0, FALSE) \in CallOfSave
    BY DEF Call, CallOfSave
  <2>2. saves = << >>
    BY <1>2 DEF LoadMissing
  <2>3. CASE RebuiltIfMissing
    <3>1. saves' \in Seq(CallOfSave) /\ Len(saves') = 1 /\ saves'[1] = Call(0, FALSE)
      BY <1>2, <2>1, <2>3, FewCalls DEF LoadMissing
    <3>2. DiskTypeOK'
      BY <1>2, <2>3, <3>1 DEF LoadMissing, disk
    <3>3. HandlersSaveMemory' /\ FileOfSave' /\ GracefulStop'
      BY <1>2, <2>3, <3>1 DEF LoadMissing, disk, HandlersSaveMemory, FileOfSave, GracefulStop, Call
    <3>4. SavedIsKept'
      BY <1>2, <2>2, <2>3, <3>1, FewCalls DEF LoadMissing, disk, SavedIsKept, Kept, Readable
    <3> QED
      BY <3>2, <3>3, <3>4
  <2>4. CASE ~RebuiltIfMissing
    BY <1>2, <2>2, <2>4, FewCalls DEF LoadMissing, Loaded, disk, HandlersSaveMemory, FileOfSave,
                                      SavedIsKept, Kept, GracefulStop, Readable
  <2> QED
    BY <2>3, <2>4
<1>3. CASE LoadFile
  BY <1>3 DEF LoadFile, Loaded, disk, HandlersSaveMemory, FileOfSave, SavedIsKept, Kept,
              GracefulStop, Readable
<1>4. CASE LoadBackup
  BY <1>4 DEF LoadBackup, Loaded, HandlersSaveMemory, FileOfSave, SavedIsKept, Kept,
              GracefulStop, Readable
<1>5. CASE LoadNothing
  BY <1>5 DEF LoadNothing, Loaded, HandlersSaveMemory, FileOfSave, SavedIsKept, Kept,
              GracefulStop, Readable
<1> QED
  BY <1>1, <1>2, <1>3, <1>4, <1>5 DEF Load

\* No step loses what was saved.
LEMMA DiskInvStep == DiskInv /\ [DiskNext]_diskVars => DiskInv'
<1>1. DiskInv /\ UNCHANGED diskVars => DiskInv'
  BY DEF diskVars, disk, DiskInv, DiskTypeOK, HandlersSaveMemory, FileOfSave, SavedIsKept, Kept, GracefulStop
<1> QED
  BY <1>1, ServeStep, SaveStep, RestartStep DEF DiskNext

\* The invariant of the saves.
THEOREM DiskInvariant == DiskSpec => []DiskInv
  BY DiskInvInit, DiskInvStep, PTL DEF DiskSpec

\* SIGINT, wherever it finds the server, leaves the last version in the file
\* (GracefulStop).
THEOREM StopsGracefully == DiskSpec => []GracefulStop
  BY DiskInvariant, PTL DEF DiskInv

\* At every step of a save that interrupts no other, the last version saved can be
\* read, in the file or in its backup (save_json_on_disk).
THEOREM OneCopyKept == DiskSpec => []SavedIsKept
  BY DiskInvariant, PTL DEF DiskInv

\* A process that starts again loads the last version saved, or a later one.
LEMMA RestartLoads ==
    DiskInv /\ [DiskNext]_diskVars =>
        ((run \in {"stopped", "down"}) /\ run' = "up" /\ file # Absent /\ ~overlapped
         => memory' >= durable)
<1> SUFFICES ASSUME DiskInv, [DiskNext]_diskVars, run \in {"stopped", "down"}, run' = "up",
                    file # Absent, ~overlapped
             PROVE  memory' >= durable
  OBVIOUS
<1>1. saves = << >> /\ Kept /\ DiskTypeOK
  BY DEF DiskInv, DiskTypeOK, SavedIsKept
<1>2. LoadFile \/ LoadBackup \/ LoadNothing
  BY <1>1 DEF DiskNext, diskVars, Serve, Change, BackupNow, Handler, Save, Rename, OpenFile, CloseFile,
              Crash, Load, LoadMissing
<1> QED
  BY <1>1, <1>2 DEF LoadFile, LoadBackup, LoadNothing, Loaded, Kept, Readable, DiskTypeOK, Contents,
                    OptionalVersion, Version, Absent, Torn

\* A restart that finds the file goes on from the last version saved, or a later
\* one, unless the process was killed while one save interrupted another
\* (load_json_from_disk).
THEOREM RestartsSafely == DiskSpec => RestartsFromLastSave
  BY DiskInvariant, RestartLoads, PTL DEF DiskSpec, RestartsFromLastSave

----------------------------------------------------------------------------
(* Lists without duplicates, as the pool of name variants and the used ones. *)

\* list.pop(0)
LEMMA PopFirst ==
    ASSUME NEW s \in Seq(Nat), s # << >>, IsInjective(s)
    PROVE  /\ Tail(s) \in Seq(Nat) /\ Len(Tail(s)) = Len(s) - 1 /\ Len(s) \in Nat \ {0}
           /\ IsInjective(Tail(s)) /\ Range(Tail(s)) = Range(s) \ {Head(s)}
           /\ Head(s) \in Range(s) /\ Head(s) \in Nat
<1>1. /\ Tail(s) \in Seq(Nat) /\ Len(Tail(s)) = Len(s) - 1 /\ Len(s) \in Nat \ {0}
      /\ Head(s) = s[1] /\ \A i \in 1..Len(s) - 1 : Tail(s)[i] = s[i + 1]
      /\ DOMAIN s = 1..Len(s) /\ DOMAIN Tail(s) = 1..(Len(s) - 1)
  OBVIOUS
<1>2. IsInjective(Tail(s))
  BY <1>1 DEF IsInjective
<1>3. Range(Tail(s)) \subseteq Range(s) \ {Head(s)}
  BY <1>1 DEF IsInjective, Range
<1>4. ASSUME NEW x \in Range(s) \ {Head(s)} PROVE x \in Range(Tail(s))
  <2>1. PICK i \in DOMAIN s : s[i] = x
    BY DEF Range
  <2>2. i # 1 /\ i - 1 \in 1..(Len(s) - 1) /\ Tail(s)[i - 1] = x
    BY <1>1, <2>1
  <2> QED
    BY <1>1, <2>2 DEF Range
<1>5. Head(s) \in Range(s) /\ Head(s) \in Nat
  BY <1>1 DEF Range
<1> QED
  BY <1>1, <1>2, <1>3, <1>4, <1>5

\* list.append, of what is not in the list.
LEMMA AppendNew ==
    ASSUME NEW s \in Seq(Nat), IsInjective(s), NEW x \in Nat, x \notin Range(s)
    PROVE  /\ Append(s, x) \in Seq(Nat) /\ Len(Append(s, x)) = Len(s) + 1
           /\ IsInjective(Append(s, x)) /\ Range(Append(s, x)) = Range(s) \cup {x}
<1> DEFINE a == Append(s, x)
<1>1. /\ a \in Seq(Nat) /\ Len(a) = Len(s) + 1 /\ Len(s) \in Nat
      /\ \A i \in 1..Len(s) : a[i] = s[i]
      /\ a[Len(s) + 1] = x
      /\ DOMAIN s = 1..Len(s) /\ DOMAIN a = 1..(Len(s) + 1)
  OBVIOUS
<1> HIDE DEF a
<1>2. IsInjective(a)
  <2>1. \A i \in 1..Len(s) : a[i] # x
    BY <1>1 DEF Range
  <2> QED
    BY <1>1, <2>1 DEF IsInjective
<1>3. \A y : y \in Range(a) <=> y \in Range(s) \cup {x}
  BY <1>1 DEF Range
<1> QED
  BY <1>1, <1>2, <1>3 DEF a

\* list.remove, of what is in the list.
LEMMA RemoveOnly ==
    ASSUME NEW s \in Seq(Nat), IsInjective(s), NEW x \in Range(s)
    PROVE  /\ RemoveFirst(s, x) \in Seq(Nat) /\ Len(RemoveFirst(s, x)) = Len(s) - 1
           /\ IsInjective(RemoveFirst(s, x)) /\ Range(RemoveFirst(s, x)) = Range(s) \ {x}
<1>1. PICK n \in 1..Len(s) : s[n] = x
  BY DEF Range
<1>2. {i \in 1..Len(s) : s[i] = x} = {n}
  BY <1>1 DEF IsInjective
<1>3. SelectInSeq(s, LAMBDA v : v = x) = n
  BY <1>2 DEF SelectInSeq, Min
<1>4. RemoveFirst(s, x) = RemoveAt(s, n)
  BY <1>1, <1>3 DEF RemoveFirst
<1> DEFINE r == RemoveAt(s, n)
<1>5. /\ r \in Seq(Nat) /\ Len(r) = Len(s) - 1 /\ DOMAIN r = 1..(Len(s) - 1)
      /\ Len(s) \in Nat \ {0} /\ DOMAIN s = 1..Len(s)
      /\ \A i \in 1..(n - 1) : r[i] = s[i]
      /\ \A i \in n..(Len(s) - 1) : r[i] = s[i + 1]
  <2> DEFINE before == SubSeq(s, 1, n - 1)
             after == SubSeq(s, n + 1, Len(s))
  <2>1. Len(s) \in Nat \ {0} /\ DOMAIN s = 1..Len(s) /\ \A i \in 1..Len(s) : s[i] \in Nat
    OBVIOUS
  <2>2. n \in Int /\ 1 <= n /\ n <= Len(s)
    BY <2>1
  <2>3. /\ before \in Seq(Nat) /\ Len(before) = n - 1
        /\ \A i \in 1..(n - 1) : before[i] = s[i]
    BY <2>1, <2>2, SubSeqProperties
  <2>4. /\ after \in Seq(Nat) /\ Len(after) = Len(s) - n
        /\ \A i \in 1..(Len(s) - n) : after[i] = s[i + n]
    <3>1. /\ after \in Seq(Nat)
          /\ Len(after) = IF n + 1 <= Len(s) THEN Len(s) - (n + 1) + 1 ELSE 0
          /\ \A i \in 1..(Len(s) - (n + 1) + 1) : after[i] = s[(n + 1) + i - 1]
      BY <2>1, <2>2, SubSeqProperties
    <3> HIDE DEF after
    <3>2. ASSUME NEW i \in 1..(Len(s) - n) PROVE after[i] = s[i + n]
      <4>1. i \in 1..(Len(s) - (n + 1) + 1) /\ (n + 1) + i - 1 = i + n
        BY <2>1, <2>2
      <4>2. after[i] = s[(n + 1) + i - 1]
        BY <3>1, <4>1
      <4> QED
        BY <4>1, <4>2
    <3>3. Len(after) = Len(s) - n
      <4>1. CASE n + 1 <= Len(s)
        BY <2>1, <2>2, <3>1, <4>1
      <4>2. CASE ~(n + 1 <= Len(s))
        <5>1. n = Len(s)
          <6>1. \A a, b \in Int : a <= b /\ ~(a + 1 <= b) => a = b
            OBVIOUS
          <6>2. Len(s) \in Int
            BY <2>1
          <6> QED
            BY <2>2, <4>2, <6>1, <6>2
        <5> QED
          BY <2>1, <3>1, <4>2, <5>1
      <4> QED
        BY <4>1, <4>2
    <3> QED
      BY <3>1, <3>2, <3>3
  <2>5. r = before \o after
    BY DEF RemoveAt
  <2> HIDE DEF before, after, r
  <2>6. /\ r \in Seq(Nat) /\ Len(r) = Len(before) + Len(after)
        /\ \A i \in 1..(Len(before) + Len(after)) :
              r[i] = IF i <= Len(before) THEN before[i] ELSE after[i - Len(before)]
    BY <2>3, <2>4, <2>5, ConcatProperties
  <2>7. Len(r) = Len(s) - 1 /\ DOMAIN r = 1..(Len(s) - 1)
    <3>1. Len(before) + Len(after) = Len(s) - 1
      BY <2>1, <2>2, <2>3, <2>4
    <3> QED
      BY <2>6, <3>1
  <2>8. ASSUME NEW i \in 1..(n - 1) PROVE r[i] = s[i]
    <3>1. i \in 1..(Len(before) + Len(after)) /\ i <= Len(before)
      BY <2>1, <2>2, <2>3, <2>4
    <3>2. r[i] = before[i]
      BY <2>6, <3>1
    <3> QED
      BY <2>3, <3>2
  <2>9. ASSUME NEW i \in n..(Len(s) - 1) PROVE r[i] = s[i + 1]
    <3>1. i \in 1..(Len(before) + Len(after)) /\ ~(i <= Len(before))
      BY <2>1, <2>2, <2>3, <2>4
    <3>2. r[i] = after[i - (n - 1)] /\ i - (n - 1) \in 1..(Len(s) - n) /\ i - (n - 1) + n = i + 1
      BY <2>1, <2>2, <2>3, <2>4, <2>6, <3>1
    <3> QED
      BY <2>4, <3>2
  <2> QED
    BY <2>1, <2>6, <2>7, <2>8, <2>9
<1> HIDE DEF r
<1>6. ASSUME NEW i \in 1..(Len(s) - 1)
      PROVE  \E k \in 1..Len(s) : /\ k # n /\ r[i] = s[k]
                                  /\ (i < n /\ k = i) \/ (i >= n /\ k = i + 1)
  <2>1. CASE i < n
    BY <1>5, <2>1
  <2>2. CASE i >= n
    <3>1. i + 1 \in 1..Len(s) /\ i + 1 # n /\ i \in n..(Len(s) - 1)
      BY <1>5, <2>2
    <3> QED
      BY <1>5, <2>2, <3>1
  <2> QED
    BY <2>1, <2>2
<1>7. IsInjective(r) /\ Range(r) \subseteq Range(s) \ {x}
  <2>1. ASSUME NEW i \in 1..(Len(s) - 1), NEW j \in 1..(Len(s) - 1), r[i] = r[j] PROVE i = j
    <3>1. PICK k \in 1..Len(s) : /\ k # n /\ r[i] = s[k]
                                 /\ (i < n /\ k = i) \/ (i >= n /\ k = i + 1)
      BY <1>6
    <3>2. PICK l \in 1..Len(s) : /\ l # n /\ r[j] = s[l]
                                 /\ (j < n /\ l = j) \/ (j >= n /\ l = j + 1)
      BY <1>6
    <3>3. k = l
      BY <1>5, <2>1, <3>1, <3>2 DEF IsInjective
    <3> QED
      BY <3>1, <3>2, <3>3
  <2>2. ASSUME NEW i \in 1..(Len(s) - 1) PROVE r[i] \in Range(s) \ {x}
    <3>1. PICK k \in 1..Len(s) : k # n /\ r[i] = s[k]
      BY <1>6
    <3> QED
      BY <1>1, <1>5, <3>1 DEF IsInjective, Range
  <2> QED
    <3>1. IsInjective(r)
      BY <1>5, <2>1 DEF IsInjective
    <3>2. Range(r) \subseteq Range(s) \ {x}
      <4>1. \A y \in Range(r) : \E i \in 1..(Len(s) - 1) : y = r[i]
        BY <1>5 DEF Range
      <4> QED
        BY <2>2, <4>1
    <3> QED
      BY <3>1, <3>2
<1>8. ASSUME NEW y \in Range(s) \ {x} PROVE y \in Range(r)
  <2>1. PICK i \in 1..Len(s) : s[i] = y
    BY <1>5 DEF Range
  <2>2. i # n /\ n \in 1..Len(s)
    BY <1>1, <2>1
  <2>3. CASE i < n
    <3>1. i \in 1..(Len(s) - 1) /\ i \in 1..(n - 1)
      BY <1>5, <2>2, <2>3
    <3>2. r[i] = y
      BY <1>5, <2>1, <3>1
    <3> QED
      BY <1>5, <3>1, <3>2 DEF Range
  <2>4. CASE i > n
    <3>1. i - 1 \in 1..(Len(s) - 1) /\ i - 1 \in n..(Len(s) - 1) /\ i - 1 + 1 = i
      BY <1>5, <2>2, <2>4
    <3>2. r[i - 1] = y
      BY <1>5, <2>1, <3>1
    <3> QED
      BY <1>5, <3>1, <3>2 DEF Range
  <2> QED
    BY <2>2, <2>3, <2>4
<1> QED
  BY <1>4, <1>5, <1>6, <1>7, <1>8 DEF r

----------------------------------------------------------------------------
(* The inductive invariant, of the sessions and of the powers.              *)

Account == Nat \X Clients

DaideSession ==
    [state : {"new", "reading", "dead", "closing", "closed"}, variant : Nat \cup {None},
     user : Account \cup {None}]

SessionsOK ==
    /\ conns \in [Conns -> DaideSession]
    /\ registered \subseteq Conns /\ attached \subseteq Conns /\ listening \in BOOLEAN
    /\ pool \in Seq(Nat) /\ used \in Seq(Nat)

\* Each number up to some n is once in the pool or in use, by one connection.
VariantsShared ==
    /\ IsInjective(pool) /\ IsInjective(used)
    /\ Range(pool) \cap Range(used) = {}
    /\ Range(used) = Variants
    /\ Range(pool) \cup Range(used) = 0..(Len(pool) + Len(used) - 1)
    /\ \A j, k \in Conns : j # k /\ conns[j].variant # None => conns[j].variant # conns[k].variant

\* The account of a connection that is not closed begins with its name variant.
AccountOfVariant ==
    \A k \in Conns : Named(k) /\ conns[k].state # "closed" =>
        conns[k].variant # None /\ conns[k].user[1] = conns[k].variant

\* A session that is read, or died of an exception, is registered.
OpenRegistered == \A k \in Conns : conns[k].state \in {"reading", "dead"} => k \in registered

SessionInv ==
    SessionsOK /\ VariantsShared /\ AccountOfVariant /\ OpenRegistered /\ StopClosesAll

GameState ==
    [status : {"forming", "active", "completed", "canceled"}, type : Types,
     errors : SUBSET (Faults \cup {"twice"})]

OrderKept == [unit : Units, text : Texts, void : BOOLEAN]

PowerState ==
    [controller : Account \cup {None}, tokens : SUBSET Conns, vote : BOOLEAN,
     ordered : SUBSET OrderKept]

\* A power is played with a token, and by an account that plays no other.
PowerInv ==
    /\ game \in GameState
    /\ power \in [GamePowers -> PowerState]
    /\ \A p \in GamePowers : power[p].controller = None <=> power[p].tokens = {}
    /\ \A p, q \in GamePowers :
          p # q /\ power[p].controller # None => power[p].controller # power[q].controller

DaideInv == SessionInv /\ PowerInv /\ ThankedMoveStands

----------------------------------------------------------------------------
(* The sessions.                                                            *)

\* A connection that is opened, read no more or closed by somebody keeps its name.
LEMMA StatesKeepNames ==
    ASSUME SessionInv, conns' \in [Conns -> DaideSession], UNCHANGED <<pool, used>>,
           \A j \in Conns : /\ conns'[j].variant = conns[j].variant
                            /\ conns'[j].user = conns[j].user
                            /\ conns'[j].state = "closed" <=> conns[j].state = "closed"
    PROVE  VariantsShared' /\ AccountOfVariant'
<1>1. Variants' = Variants
  BY DEF Variants
<1> QED
  BY <1>1 DEF SessionInv, VariantsShared, AccountOfVariant, Named

\* Records of connections in which a field is changed.
LEMMA StateChanged ==
    ASSUME conns \in [Conns -> DaideSession], NEW k \in Conns,
           NEW st \in {"reading", "dead", "closing", "closed"},
           conns' = [conns EXCEPT ![k].state = st]
    PROVE  /\ conns' \in [Conns -> DaideSession]
           /\ conns'[k].state = st
           /\ \A j \in Conns : /\ conns'[j].variant = conns[j].variant
                               /\ conns'[j].user = conns[j].user
                               /\ j # k => conns'[j] = conns[j]
  BY DEF DaideSession

\* Server.handle_stream
LEMMA ConnectKeeps == ASSUME SessionInv, NEW k \in Conns, Connect(k) PROVE SessionInv'
<1>1. conns' = [conns EXCEPT ![k].state = "reading"] /\ conns[k].state = "new" /\ listening
      /\ registered' = registered \cup {k} /\ UNCHANGED <<pool, used, attached, listening>>
  BY DEF Connect
<1>2. conns \in [Conns -> DaideSession]
  BY DEF SessionInv, SessionsOK
<1>3. /\ conns' \in [Conns -> DaideSession]
      /\ \A j \in Conns : /\ conns'[j].variant = conns[j].variant
                          /\ conns'[j].user = conns[j].user
                          /\ j # k => conns'[j] = conns[j]
      /\ conns'[k].state = "reading"
  BY <1>1, <1>2, StateChanged
<1>4. VariantsShared' /\ AccountOfVariant'
  BY <1>1, <1>3, StatesKeepNames
<1> QED
  BY <1>1, <1>3, <1>4 DEF SessionInv, SessionsOK, OpenRegistered, StopClosesAll

\* An exception ends a session that was read, which stays registered.
LEMMA DiesKeeps == ASSUME SessionInv, NEW k \in Conns, Reading(k), Dies(k) PROVE SessionInv'
<1>1. conns' = [conns EXCEPT ![k].state = "dead"] /\ conns[k].state = "reading"
      /\ UNCHANGED <<registered, pool, used, attached, listening>>
  BY DEF Dies, Reading
<1>2. conns \in [Conns -> DaideSession]
  BY DEF SessionInv, SessionsOK
<1>3. /\ conns' \in [Conns -> DaideSession]
      /\ \A j \in Conns : /\ conns'[j].variant = conns[j].variant
                          /\ conns'[j].user = conns[j].user
                          /\ j # k => conns'[j] = conns[j]
      /\ conns'[k].state = "dead"
  BY <1>1, <1>2, StateChanged
<1>4. VariantsShared' /\ AccountOfVariant'
  BY <1>1, <1>3, StatesKeepNames
<1> QED
  BY <1>1, <1>3, <1>4 DEF SessionInv, SessionsOK, OpenRegistered, StopClosesAll

\* The client ends the connection.
LEMMA CloseKeeps == ASSUME SessionInv, NEW k \in Conns, Close(k) PROVE SessionInv'
<1>1. conns' = [conns EXCEPT ![k].state = "closing"] /\ conns[k].state # "closed"
      /\ registered' \in {registered, registered \ {k}} /\ UNCHANGED <<pool, used, attached, listening>>
  BY DEF Close
<1>2. conns \in [Conns -> DaideSession]
  BY DEF SessionInv, SessionsOK
<1>3. /\ conns' \in [Conns -> DaideSession]
      /\ \A j \in Conns : /\ conns'[j].variant = conns[j].variant
                          /\ conns'[j].user = conns[j].user
                          /\ j # k => conns'[j] = conns[j]
      /\ conns'[k].state = "closing"
  BY <1>1, <1>2, StateChanged
<1>4. VariantsShared' /\ AccountOfVariant'
  BY <1>1, <1>3, StatesKeepNames
<1> QED
  BY <1>1, <1>3, <1>4 DEF SessionInv, SessionsOK, OpenRegistered, StopClosesAll

\* The port of the game is closed: all sessions that are open are registered.
LEMMA StopPortKeeps == ASSUME SessionInv, StopPort PROVE SessionInv'
<1>1. /\ conns' \in [Conns -> DaideSession]
      /\ \A j \in Conns : /\ conns'[j].variant = conns[j].variant
                          /\ conns'[j].user = conns[j].user
                          /\ conns'[j].state = "closed" <=> conns[j].state = "closed"
                          /\ conns'[j].state \notin {"reading", "dead"}
  <2>1. conns \in [Conns -> DaideSession]
    BY DEF SessionInv, SessionsOK
  <2>2. ASSUME NEW j \in Conns
        PROVE  conns'[j] = IF conns[j].state \in {"reading", "dead"}
                           THEN [conns[j] EXCEPT !.state = "closing"] ELSE conns[j]
    BY <2>2 DEF StopPort, SessionInv, OpenRegistered
  <2>3. DOMAIN conns' = Conns /\ conns' = [j \in Conns |-> conns'[j]]
    BY DEF StopPort
  <2>4. ASSUME NEW j \in Conns
        PROVE /\ conns'[j] \in DaideSession
              /\ conns'[j].variant = conns[j].variant
              /\ conns'[j].user = conns[j].user
              /\ conns'[j].state = "closed" <=> conns[j].state = "closed"
              /\ conns'[j].state \notin {"reading", "dead"}
    BY <2>1, <2>2 DEF DaideSession
  <2> QED
    BY <2>3, <2>4
<1>2. UNCHANGED <<pool, used, attached>> /\ registered' \subseteq registered /\ listening' = FALSE
  BY DEF StopPort
<1> QED
  BY <1>1, <1>2, StatesKeepNames DEF SessionInv, SessionsOK, OpenRegistered, StopClosesAll

\* A connection that is closed gives its name variant back, for the next one.
LEMMA ConnectionCloseKeeps ==
    ASSUME SessionInv, NEW k \in Conns, OnConnectionClose(k) PROVE SessionInv'
<1>0. conns \in [Conns -> DaideSession] /\ conns[k].state = "closing"
      /\ UNCHANGED <<registered, listening>>
  BY DEF SessionInv, SessionsOK, OnConnectionClose
<1>1. CASE conns[k].variant = None
  <2>1. conns' = [conns EXCEPT ![k].state = "closed"] /\ UNCHANGED <<pool, used, attached>>
    BY <1>1 DEF OnConnectionClose
  <2>2. /\ conns' \in [Conns -> DaideSession]
        /\ conns'[k].state = "closed"
        /\ \A j \in Conns : /\ conns'[j].variant = conns[j].variant
                            /\ conns'[j].user = conns[j].user
                            /\ j # k => conns'[j] = conns[j]
    BY <1>0, <2>1, StateChanged
  <2>3. Variants' = Variants
    BY <2>2 DEF Variants
  <2>4. VariantsShared' /\ AccountOfVariant'
    BY <2>1, <2>2, <2>3 DEF SessionInv, VariantsShared, AccountOfVariant, Named
  <2> QED
    BY <1>0, <2>1, <2>2, <2>4 DEF SessionInv, SessionsOK, OpenRegistered, StopClosesAll
<1>2. CASE conns[k].variant # None
  <2> DEFINE v == conns[k].variant
  <2>1. /\ conns' = [conns EXCEPT ![k].state = "closed", ![k].variant = None]
        /\ pool' = Append(pool, v) /\ used' = RemoveFirst(used, v) /\ attached' = attached \ {k}
    BY <1>2 DEF OnConnectionClose
  <2>2. /\ conns' \in [Conns -> DaideSession]
        /\ conns'[k].state = "closed" /\ conns'[k].variant = None
        /\ \A j \in Conns \ {k} : conns'[j] = conns[j]
    BY <1>0, <2>1 DEF DaideSession
  <2>3. v \in Nat /\ v \in Variants
    BY <1>0, <1>2 DEF DaideSession, Variants
  <2>4. /\ pool \in Seq(Nat) /\ used \in Seq(Nat) /\ IsInjective(pool) /\ IsInjective(used)
        /\ v \in Range(used) /\ v \notin Range(pool)
    BY <2>3 DEF SessionInv, SessionsOK, VariantsShared
  <2>5. /\ pool' \in Seq(Nat) /\ Len(pool') = Len(pool) + 1 /\ IsInjective(pool')
        /\ Range(pool') = Range(pool) \cup {v}
    BY <2>1, <2>3, <2>4, AppendNew
  <2>6. /\ used' \in Seq(Nat) /\ Len(used') = Len(used) - 1 /\ IsInjective(used')
        /\ Range(used') = Range(used) \ {v}
    BY <2>1, <2>4, RemoveOnly
  <2>7. Variants' = Variants \ {v}
    <3>1. \A j \in Conns : j # k => conns[j].variant # v
      BY <1>2 DEF SessionInv, VariantsShared
    <3> QED
      BY <2>2, <3>1 DEF Variants
  <2>8. VariantsShared'
    <3>1. Len(pool') + Len(used') - 1 = Len(pool) + Len(used) - 1
      BY <2>4, <2>5, <2>6
    <3>2. \A i, j \in Conns : i # j /\ conns'[i].variant # None => conns'[i].variant # conns'[j].variant
      BY <2>2 DEF SessionInv, VariantsShared
    <3>3. /\ Range(pool') \cap Range(used') = {} /\ Range(used') = Variants'
          /\ Range(pool') \cup Range(used') = 0..(Len(pool) + Len(used) - 1)
      BY <2>4, <2>5, <2>6, <2>7 DEF SessionInv, VariantsShared
    <3> QED
      BY <2>5, <2>6, <3>1, <3>2, <3>3 DEF VariantsShared
  <2>9. AccountOfVariant'
    BY <2>2 DEF SessionInv, AccountOfVariant, Named
  <2> QED
    BY <1>0, <2>1, <2>2, <2>5, <2>6, <2>8, <2>9
    DEF SessionInv, SessionsOK, OpenRegistered, StopClosesAll
<1> QED
  BY <1>1, <1>2

\* A client that says its name gets a variant that no other connection has.
LEMMA NameKeeps ==
    ASSUME SessionInv, NEW k \in Conns, Reading(k), NEW client \in Clients, OnName(k, client)
    PROVE  SessionInv'
<1> DEFINE v == NameVariant(k)
           w == conns'[k].user
           new == conns[k].variant = None
<1>0. /\ conns \in [Conns -> DaideSession] /\ pool \in Seq(Nat) /\ used \in Seq(Nat)
      /\ IsInjective(pool) /\ IsInjective(used) /\ conns[k].state = "reading"
      /\ UNCHANGED <<registered, listening>> /\ None \notin Nat \cup Account
  BY DaideAssumption DEF SessionInv, SessionsOK, VariantsShared, OnName, Reading, DaideAssumption, Account
<1>1. /\ v \in Nat
      /\ v = conns[k].variant \/ (new /\ v \notin Range(used))
      /\ pool' \in Seq(Nat) /\ used' \in Seq(Nat) /\ IsInjective(pool') /\ IsInjective(used')
      /\ Range(pool') \cap Range(used') = {}
      /\ Range(used') = Range(used) \cup {v}
      /\ Range(pool') \cup Range(used') = 0..(Len(pool') + Len(used') - 1)
  <2>1. CASE ~new
    <3>1. v = conns[k].variant /\ UNCHANGED <<pool, used>>
      BY <2>1 DEF NameVariant, OnName
    <3>2. v \in Nat /\ v \in Variants
      BY <1>0, <2>1, <3>1 DEF DaideSession, Variants
    <3>3. Range(used) = Range(used) \cup {v}
      BY <3>2 DEF SessionInv, VariantsShared
    <3> HIDE DEF v
    <3> QED
      BY <1>0, <3>1, <3>2, <3>3 DEF SessionInv, VariantsShared
  <2>2. CASE new /\ pool # << >>
    <3>1. v = Head(pool) /\ pool' = Tail(pool) /\ used' = Append(used, v)
      BY <2>2 DEF NameVariant, OnName
    <3>2. /\ pool' \in Seq(Nat) /\ Len(pool') = Len(pool) - 1 /\ Len(pool) \in Nat \ {0}
          /\ IsInjective(pool') /\ Range(pool') = Range(pool) \ {v}
          /\ v \in Range(pool) /\ v \in Nat
      BY <1>0, <2>2, <3>1, PopFirst
    <3>3. v \notin Range(used)
      BY <3>2 DEF SessionInv, VariantsShared
    <3>4. /\ used' \in Seq(Nat) /\ Len(used') = Len(used) + 1 /\ Len(used) \in Nat
          /\ IsInjective(used') /\ Range(used') = Range(used) \cup {v}
      BY <1>0, <3>1, <3>2, <3>3, AppendNew
    <3>5. Len(pool') + Len(used') - 1 = Len(pool) + Len(used) - 1
      BY <3>2, <3>4
    <3> HIDE DEF v
    <3> QED
      BY <2>2, <3>2, <3>3, <3>4, <3>5 DEF SessionInv, VariantsShared
  <2>3. CASE new /\ pool = << >>
    <3>1. v = Len(used) /\ pool' = pool /\ used' = Append(used, v)
      BY <2>3 DEF NameVariant, OnName
    <3>2. Len(pool) = 0 /\ Range(pool) = {} /\ Len(used) \in Nat
      BY <1>0, <2>3 DEF Range
    <3>3. Range(used) = 0..(Len(used) - 1)
      BY <3>2 DEF SessionInv, VariantsShared
    <3>4. v \notin Range(used) /\ v \in Nat
      BY <3>1, <3>2, <3>3
    <3>5. /\ used' \in Seq(Nat) /\ Len(used') = Len(used) + 1
          /\ IsInjective(used') /\ Range(used') = Range(used) \cup {v}
      BY <1>0, <3>1, <3>4, AppendNew
    <3>6. Range(used) \cup {v} = 0..(Len(pool') + Len(used') - 1)
      BY <3>1, <3>2, <3>3, <3>5
    <3> HIDE DEF v
    <3> QED
      BY <1>0, <2>3, <3>1, <3>2, <3>4, <3>5, <3>6
  <2> QED
    BY <2>1, <2>2, <2>3
<1>2. /\ conns' \in [Conns -> DaideSession]
      /\ conns'[k].state = "reading" /\ conns'[k].variant = v
      /\ w = conns[k].user \/ (conns[k].user = None /\ w = <<v, client>>)
      /\ \A j \in Conns \ {k} : conns'[j] = conns[j]
  <2> DEFINE u == IF Named(k) \/ (~Named(k) /\ <<v, client>> \in Strangers)
                  THEN conns[k].user ELSE <<v, client>>
  <2>1. conns' = [conns EXCEPT ![k].variant = v, ![k].user = u]
    BY DEF OnName
  <2>2. u \in Account \cup {None} /\ (u = conns[k].user \/ (conns[k].user = None /\ u = <<v, client>>))
    <3>1. v \in Nat /\ conns[k].user \in Account \cup {None}
      BY <1>0, <1>1 DEF DaideSession
    <3> HIDE DEF v
    <3>2. <<v, client>> \in Account
      BY <3>1 DEF Account
    <3> QED
      BY <3>1, <3>2 DEF Named
  <2> HIDE DEF v, u
  <2>3. conns[k] \in DaideSession /\ v \in Nat
    BY <1>0, <1>1
  <2>4. [conns[k] EXCEPT !.variant = v, !.user = u] \in DaideSession
    BY <2>2, <2>3 DEF DaideSession
  <2>5. conns' \in [Conns -> DaideSession] /\ \A j \in Conns \ {k} : conns'[j] = conns[j]
    BY <1>0, <2>1, <2>4
  <2>6. conns'[k] = [conns[k] EXCEPT !.variant = v, !.user = u]
    BY <1>0, <2>1
  <2>7. conns'[k].state = "reading" /\ conns'[k].variant = v /\ conns'[k].user = u
    BY <1>0, <1>1, <2>3, <2>6 DEF DaideSession
  <2> QED
    BY <2>2, <2>5, <2>7
<1> HIDE DEF v, w
<1>3. \A j \in Conns \ {k} : conns[j].variant # v
  BY <1>0, <1>1 DEF SessionInv, VariantsShared, Variants, DaideSession
<1>4. Variants' = Variants \cup {v}
  <2>1. ASSUME NEW x PROVE x \in Variants' <=> x \in Variants \cup {v}
    BY <1>0, <1>1, <1>2 DEF Variants
  <2> QED
    BY <2>1
<1>5. VariantsShared'
  <2>1. \A i, j \in Conns : i # j /\ conns'[i].variant # None => conns'[i].variant # conns'[j].variant
    BY <1>2, <1>3 DEF SessionInv, VariantsShared
  <2>2. Range(used') = Variants'
    BY <1>1, <1>4 DEF SessionInv, VariantsShared
  <2> QED
    BY <1>1, <2>1, <2>2 DEF VariantsShared
<1>6. AccountOfVariant'
  <2>1. ASSUME conns'[k].user # None PROVE v # None /\ conns'[k].user[1] = v
    <3>1. v # None
      BY <1>0, <1>1
    <3>2. CASE conns[k].user # None
      <4>1. conns[k].variant # None /\ conns[k].user[1] = conns[k].variant
        BY <1>0, <3>2 DEF SessionInv, AccountOfVariant, Named
      <4> QED
        BY <1>1, <1>2, <3>1, <3>2, <4>1 DEF w
    <3>3. CASE conns[k].user = None
      BY <1>2, <2>1, <3>1, <3>3 DEF w
    <3> QED
      BY <3>2, <3>3
  <2> QED
    BY <1>2, <2>1 DEF SessionInv, AccountOfVariant, Named
<1>7. attached' \subseteq Conns
  BY DEF OnName, SessionInv, SessionsOK
<1> QED
  BY <1>0, <1>1, <1>2, <1>5, <1>6, <1>7 DEF SessionInv, SessionsOK, OpenRegistered, StopClosesAll

\* Every step keeps the sessions.
LEMMA SessionStep == SessionInv /\ [DaideNext]_daideVars => SessionInv'
<1> SUFFICES ASSUME SessionInv, [DaideNext]_daideVars PROVE SessionInv'
  OBVIOUS
<1>1. UNCHANGED sessions => SessionInv'
  <2>1. UNCHANGED sessions => Variants' = Variants
    BY DEF sessions, Variants
  <2> QED
    BY <2>1 DEF sessions, SessionInv, SessionsOK, VariantsShared, AccountOfVariant, OpenRegistered,
                StopClosesAll, Named
<1>2. ASSUME NEW k \in Conns, OnMessage(k) PROVE SessionInv'
  <2>1. Reading(k) /\ (UNCHANGED sessions \/ Dies(k))
    BY <1>2 DEF OnMessage, OnInitialMessage, OnRepresentationMessage, OnBadRequest, OnErrorMessage,
                Answers, Fails
  <2> QED
    BY <1>1, <2>1, DiesKeeps
<1>3. ASSUME NEW k \in Conns, DaideRequest(k) PROVE SessionInv'
  <2>1. Reading(k)
    BY <1>3 DEF DaideRequest
  <2>2. UNCHANGED sessions \/ Dies(k) \/ \E client \in Clients : OnName(k, client)
    BY <1>3
    DEF DaideRequest, OnHello, OnIAm, OnBoardRequest, OnRefused, OnMissingOrders, OnReject, OnSyntaxError,
        OnHistory, OnSubmit, OnSubmitRefused, OnGoFlag, OnSendMessage, OnDraw, OnNot, OnAcceptMap,
        Answers, Fails
  <2> QED
    BY <1>1, <2>1, <2>2, DiesKeeps, NameKeeps
<1>4. ASSUME NEW k \in Conns, Connect(k) \/ Close(k) \/ OnConnectionClose(k) PROVE SessionInv'
  BY <1>4, ConnectKeeps, CloseKeeps, ConnectionCloseKeeps
<1>5. ASSUME NEW x, Process(x) \/ Kick(x) \/ Cancel(x) PROVE SessionInv'
  BY <1>1, <1>5, StopPortKeeps DEF Process, Kick, Cancel
<1>6. CASE UNCHANGED daideVars
  BY <1>1, <1>6 DEF daideVars
<1> QED
  BY <1>2, <1>3, <1>4, <1>5, <1>6 DEF DaideNext

----------------------------------------------------------------------------
(* The powers.                                                              *)

\* What an order leaves of itself is an order.
LEMMA OrderedIsOrders ==
    ASSUME NEW orders \in Submissions
    PROVE  /\ Ordered(orders) \subseteq OrderKept
           /\ ErrorsOf(orders) \subseteq Faults \cup {"twice"}
<1>1. PICK n \in 1..MaxOrders : orders \in [1..n -> Order]
  BY DEF Submissions
<1>2. \A i \in DOMAIN orders : /\ orders[i].unit \in Units /\ orders[i].text \in Texts
                              /\ orders[i].error \in Faults \cup {None}
  BY <1>1 DEF Order
<1>3. ASSUME NEW i \in DOMAIN orders, NEW void \in BOOLEAN
      PROVE  Standing(orders[i], void) \in OrderKept
  BY <1>2, <1>3 DEF Standing, OrderKept
<1>4. Ordered(orders) \subseteq OrderKept
  <2>1. ASSUME NEW e \in Ordered(orders) PROVE e \in OrderKept
    <3>1. PICK i \in DOMAIN orders :
             e \in IF Repeats(orders, i) THEN {Standing(orders[i], TRUE)} ELSE Entry(orders[i])
      BY <2>1 DEF Ordered
    <3> QED
      BY <1>3, <3>1 DEF Entry
  <2> QED
    BY <2>1
<1>5. ErrorsOf(orders) \subseteq Faults \cup {"twice"}
  BY <1>2 DEF ErrorsOf
<1> QED
  BY <1>4, <1>5

\* Power.set_controlled: a power is given to another player, or to none.
LEMMA PowerGiven ==
    ASSUME power \in [GamePowers -> PowerState], NEW p \in GamePowers,
           NEW u \in Account \cup {None}, NEW t \in SUBSET Conns,
           power' = [power EXCEPT ![p].controller = u, ![p].tokens = t, ![p].vote = FALSE]
    PROVE  /\ power' \in [GamePowers -> PowerState]
           /\ power'[p].controller = u /\ power'[p].tokens = t
           /\ \A q \in GamePowers \ {p} : power'[q] = power[q]
<1>1. power[p] \in PowerState /\ DOMAIN power = GamePowers
  OBVIOUS
<1>2. power'[p] = [power[p] EXCEPT !.controller = u, !.tokens = t, !.vote = FALSE]
  BY <1>1
<1>3. DOMAIN power' = GamePowers /\ power' = [q \in DOMAIN power' |-> power'[q]]
  BY <1>1
<1>4. \A q \in GamePowers \ {p} : power'[q] = power[q]
  BY <1>1
<1>5. power'[p] \in PowerState /\ power'[p].controller = u /\ power'[p].tokens = t
  BY <1>1, <1>2 DEF PowerState
<1>6. \A q \in GamePowers : power'[q] \in PowerState
  BY <1>4, <1>5
<1> QED
  BY <1>3, <1>4, <1>5, <1>6

\* Game.clear_orders, Game.clear_vote: a power forgets what it ordered and voted.
LEMMA PowerCleared ==
    ASSUME NEW f \in [GamePowers -> PowerState],
           power' = [q \in GamePowers |-> [f[q] EXCEPT !.vote = FALSE, !.ordered = {}]]
    PROVE  /\ power' \in [GamePowers -> PowerState]
           /\ \A q \in GamePowers : /\ power'[q].controller = f[q].controller
                                 /\ power'[q].tokens = f[q].tokens
<1>1. ASSUME NEW r \in PowerState
      PROVE  /\ [r EXCEPT !.vote = FALSE, !.ordered = {}] \in PowerState
             /\ [r EXCEPT !.vote = FALSE, !.ordered = {}].controller = r.controller
             /\ [r EXCEPT !.vote = FALSE, !.ordered = {}].tokens = r.tokens
  BY DEF PowerState
<1>2. \A q \in GamePowers : f[q] \in PowerState
  OBVIOUS
<1> QED
  BY <1>1, <1>2

\* Game.set_orders: a power orders something else.
LEMMA OrdersSet ==
    ASSUME power \in [GamePowers -> PowerState], NEW p \in GamePowers,
           NEW o \in SUBSET OrderKept,
           power' = [power EXCEPT ![p].ordered = o]
    PROVE  /\ power' \in [GamePowers -> PowerState]
           /\ \A q \in GamePowers : /\ power'[q].controller = power[q].controller
                                 /\ power'[q].tokens = power[q].tokens
  BY DEF PowerState

\* A change of what the powers ordered and voted keeps who plays them.
LEMMA PlayersKept ==
    ASSUME PowerInv,
           game' \in GameState,
           power' \in [GamePowers -> PowerState],
           \A p \in GamePowers : /\ power'[p].controller = power[p].controller
                             /\ power'[p].tokens = power[p].tokens
    PROVE  PowerInv'
  BY DEF PowerInv

\* on_vote: the powers keep their players.
LEMMA VoteKeeps ==
    ASSUME PowerInv, NEW p \in GamePowers, NEW yes \in BOOLEAN, Vote(p, yes) PROVE PowerInv'
<1> DEFINE voted == [power EXCEPT ![p].vote = yes]
<1> USE DEF PowerInv
<1>1. /\ voted \in [GamePowers -> PowerState]
      /\ \A q \in GamePowers : /\ voted[q].controller = power[q].controller
                           /\ voted[q].tokens = power[q].tokens
  BY DEF PowerState
<1>2. CASE \A q \in GamePowers : voted[q].vote
  <2>1. /\ game' = [game EXCEPT !.status = "completed"]
        /\ power' = [q \in GamePowers |-> [voted[q] EXCEPT !.vote = FALSE, !.ordered = {}]]
    BY <1>2 DEF Vote
  <2> HIDE DEF voted
  <2>2. game' \in GameState
    BY <2>1 DEF GameState
  <2>3. /\ power' \in [GamePowers -> PowerState]
        /\ \A q \in GamePowers : /\ power'[q].controller = voted[q].controller
                              /\ power'[q].tokens = voted[q].tokens
    BY <1>1, <2>1, PowerCleared
  <2> QED
    BY <1>1, <2>2, <2>3, PlayersKept
<1>3. CASE ~(\A q \in GamePowers : voted[q].vote)
  <2>1. game' = game /\ power' = voted
    BY <1>3 DEF Vote
  <2> HIDE DEF voted
  <2> QED
    BY <1>1, <2>1, PlayersKept
<1> QED
  BY <1>2, <1>3

\* Only a client that plays nothing takes a power.
LEMMA JoinKeeps ==
    ASSUME SessionInv, PowerInv, NEW k \in Conns, Powerless(k), Named(k), NEW p \in GamePowers,
           JoinGame(k, p)
    PROVE  PowerInv'
<1> DEFINE u == conns[k].user
<1> USE DEF PowerInv
<1>1. u \in Account /\ u # None
  BY DEF SessionInv, SessionsOK, DaideSession, Named
<1>2. /\ power' = [power EXCEPT ![p].controller = u, ![p].tokens = {k}, ![p].vote = FALSE]
      /\ game' = game \/ game' = [game EXCEPT !.status = "active"]
  BY DEF JoinGame, Control
<1>3. \A q \in GamePowers : power[q].controller # u
  BY DEF Powerless, PowersOf
<1> HIDE DEF u
<1>4. /\ power' \in [GamePowers -> PowerState]
      /\ power'[p].controller = u /\ power'[p].tokens = {k}
      /\ \A q \in GamePowers \ {p} : power'[q] = power[q]
  <2>1. {k} \in SUBSET Conns
    OBVIOUS
  <2> QED
    BY <1>1, <1>2, <2>1, PowerGiven
<1>5. game' \in GameState
  BY <1>2 DEF GameState
<1>6. \A q \in GamePowers : power'[q].controller = None <=> power'[q].tokens = {}
  BY <1>1, <1>4
<1>7. \A a, b \in GamePowers : a # b /\ power'[a].controller # None =>
          power'[a].controller # power'[b].controller
  BY <1>1, <1>3, <1>4
<1> QED
  BY <1>4, <1>5, <1>6, <1>7

\* Every step keeps the players of the powers.
LEMMA PowerStep == SessionInv /\ PowerInv /\ [DaideNext]_daideVars => PowerInv'
<1> SUFFICES ASSUME SessionInv, PowerInv, [DaideNext]_daideVars PROVE PowerInv'
  OBVIOUS
<1>1. UNCHANGED <<game, power>> => PowerInv'
  BY DEF PowerInv
<1>2. ASSUME NEW k \in Conns, DaideRequest(k) PROVE PowerInv'
  <2>1. PowersOf(k) \subseteq GamePowers /\ Uncontrolled \subseteq GamePowers
    BY DEF PowersOf, Uncontrolled
  <2>2. ASSUME NEW orders \in Submissions, OnSubmit(k, orders) PROVE PowerInv'
    <3>1. PICK p \in GamePowers : /\ power' = [power EXCEPT ![p].ordered = Ordered(orders)]
                              /\ game' = [game EXCEPT !.errors = @ \cup ErrorsOf(orders)]
      BY <2>1, <2>2 DEF OnSubmit, Submitted
    <3>2. game' \in GameState
      BY <3>1, OrderedIsOrders DEF PowerInv, GameState
    <3> QED
      BY <3>1, <3>2, OrderedIsOrders, OrdersSet, PlayersKept DEF PowerInv
  <2>3. ASSUME OnDraw(k) PROVE PowerInv'
    BY <1>1, <2>1, <2>3, VoteKeeps DEF OnDraw, Fails
  <2>4. ASSUME OnNot(k) PROVE PowerInv'
    <3>1. ASSUME NEW p \in GamePowers, power' = [power EXCEPT ![p].ordered = {}], UNCHANGED game
          PROVE  PowerInv'
      <4>1. {} \in SUBSET OrderKept
        OBVIOUS
      <4> QED
        BY <3>1, <4>1, OrdersSet, PlayersKept DEF PowerInv
    <3> QED
      BY <1>1, <2>1, <2>4, <3>1, VoteKeeps DEF OnNot, Answers, Fails
  <2>5. ASSUME OnAcceptMap(k) PROVE PowerInv'
    BY <1>1, <2>1, <2>5, JoinKeeps DEF OnAcceptMap, Answers, Fails
  <2>6. \/ UNCHANGED <<game, power>> \/ OnDraw(k) \/ OnNot(k) \/ OnAcceptMap(k)
        \/ \E orders \in Submissions : OnSubmit(k, orders)
    BY <1>2
    DEF DaideRequest, OnName, OnHello, OnIAm, OnBoardRequest, OnRefused, OnMissingOrders, OnReject,
        OnSyntaxError, OnHistory, OnSubmitRefused, OnGoFlag, OnSendMessage, Answers, Fails
  <2> QED
    BY <1>1, <2>2, <2>3, <2>4, <2>5, <2>6
<1>3. ASSUME NEW k \in Conns, Connect(k) \/ OnMessage(k) \/ Close(k) \/ OnConnectionClose(k)
      PROVE  PowerInv'
  BY <1>1, <1>3
  DEF Connect, OnMessage, OnInitialMessage, OnRepresentationMessage, OnBadRequest, OnErrorMessage,
      Answers, Fails, Close, OnConnectionClose
<1>4. ASSUME NEW done \in BOOLEAN, Process(done) PROVE PowerInv'
  <2>1. /\ \E type \in Types : game' = [status |-> IF done THEN "completed" ELSE "active",
                                        type |-> type, errors |-> {}]
        /\ power' = [p \in GamePowers |-> [power[p] EXCEPT !.ordered = {}, !.vote = FALSE]]
    BY <1>4 DEF Process
  <2>2. game' \in GameState
    <3>1. PICK type \in Types : game' = [status |-> IF done THEN "completed" ELSE "active",
                                        type |-> type, errors |-> {}]
      BY <2>1
    <3>2. (IF done THEN "completed" ELSE "active")
             \in {"forming", "active", "completed", "canceled"}
      OBVIOUS
    <3> HIDE <2>1
    <3> QED
      BY <3>1, <3>2 DEF GameState
  <2>3. /\ power' \in [GamePowers -> PowerState]
        /\ \A p \in GamePowers : /\ power'[p].controller = power[p].controller
                              /\ power'[p].tokens = power[p].tokens
    BY <2>1, PowerCleared DEF PowerInv
  <2> QED
    BY <2>2, <2>3, PlayersKept
<1>5. ASSUME NEW p \in GamePowers, Kick(p) PROVE PowerInv'
  <2>1. /\ power' = [power EXCEPT ![p].controller = None, ![p].tokens = {}, ![p].vote = FALSE]
        /\ game' = [game EXCEPT !.status = "forming"]
    BY <1>5 DEF Kick
  <2>2. /\ power' \in [GamePowers -> PowerState]
        /\ power'[p].controller = None /\ power'[p].tokens = {}
        /\ \A q \in GamePowers \ {p} : power'[q] = power[q]
    BY <2>1, PowerGiven DEF PowerInv
  <2>3. game' \in GameState
    BY <2>1 DEF PowerInv, GameState
  <2>4. \A q \in GamePowers : power'[q].controller = None <=> power'[q].tokens = {}
    BY <2>2 DEF PowerInv
  <2>5. \A a, b \in GamePowers : a # b /\ power'[a].controller # None =>
            power'[a].controller # power'[b].controller
    BY <2>2 DEF PowerInv
  <2> QED
    BY <2>2, <2>3, <2>4, <2>5 DEF PowerInv
<1>6. ASSUME NEW delete, Cancel(delete) PROVE PowerInv'
  BY <1>6, PlayersKept DEF Cancel, PowerInv, GameState
<1>7. CASE UNCHANGED daideVars
  BY <1>1, <1>7 DEF daideVars
<1> QED
  BY <1>2, <1>3, <1>4, <1>5, <1>6, <1>7 DEF DaideNext

----------------------------------------------------------------------------
(* The answers.                                                             *)

\* Of the numbers up to n that are in S, one is the last.
LEMMA LastOf ==
    ASSUME NEW n \in Nat, NEW S, S \subseteq 1..n, S # {}
    PROVE  \E j \in S : \A x \in S : ~(x > j)
<1> DEFINE T == {n - x : x \in S}
<1>1. T \subseteq Nat /\ T # {}
  <2>1. \A x \in S : n - x \in Nat
    OBVIOUS
  <2> QED
    BY <2>1
<1>2. \E y \in T : \A z \in T : ~(<<z, y>> \in OpToRel(<, Nat))
  BY <1>1, NatLessThanWellFounded, WFMin
<1>3. PICK y \in T : \A z \in T : ~(z < y)
  BY <1>1, <1>2 DEF OpToRel
<1>4. PICK j \in S : y = n - j
  BY <1>3
<1>5. ASSUME NEW x \in S PROVE ~(x > j)
  <2>1. n - x \in T
    OBVIOUS
  <2>2. ~(n - x < n - j)
    BY <1>3, <1>4, <2>1
  <2>3. x \in Int /\ j \in Int
    OBVIOUS
  <2> HIDE DEF T
  <2> QED
    BY <2>2, <2>3
<1> QED
  BY <1>5

\* Game._update_orders in a movement phase: of the orders of a unit that have no error the
\* last is what is left, and nothing else for that unit.
LEMMA LastStands ==
    ASSUME NEW orders \in Submissions, game.type = "M",
           NEW i \in DOMAIN orders, orders[i].error = None
    PROVE  \E j \in DOMAIN orders :
              /\ j >= i /\ orders[j].unit = orders[i].unit
              /\ {e \in Ordered(orders) : e.unit = orders[i].unit} = {Standing(orders[j], FALSE)}
<1> DEFINE S == {j \in DOMAIN orders : orders[j].error = None /\ orders[j].unit = orders[i].unit}
<1>1. PICK n \in 1..MaxOrders : orders \in [1..n -> Order]
  BY DEF Submissions
<1>2. n \in Nat /\ DOMAIN orders = 1..n /\ S \subseteq 1..n /\ i \in S
  BY <1>1, DaideAssumption
<1>3. PICK j \in S : \A x \in S : ~(x > j)
  <2> HIDE DEF S
  <2> QED
    BY <1>2, LastOf
<1>4. j \in 1..n /\ i \in 1..n /\ j >= i
  BY <1>2, <1>3
<1>5. ~Replaced(orders, j) /\ \A l \in DOMAIN orders : ~Repeats(orders, l)
  BY <1>3 DEF Replaced, Repeats
<1>6. Standing(orders[j], FALSE) \in Ordered(orders)
  <2>1. Entry(orders[j]) = {Standing(orders[j], FALSE)}
    BY <1>3 DEF Entry
  <2> QED
    BY <1>3, <1>5, <2>1 DEF Ordered
<1>7. Standing(orders[j], FALSE).unit = orders[i].unit
  BY <1>3 DEF Standing
<1>8. ASSUME NEW e \in Ordered(orders), e.unit = orders[i].unit
      PROVE  e = Standing(orders[j], FALSE)
  <2>1. PICK l \in DOMAIN orders : ~Replaced(orders, l) /\ e \in Entry(orders[l])
    BY <1>5, <1>8 DEF Ordered
  <2>2. orders[l].error = None /\ e = Standing(orders[l], FALSE)
    BY <2>1 DEF Entry
  <2>3. l \in S
    BY <1>8, <2>1, <2>2 DEF Standing
  <2>4. ~(j > l)
    BY <1>3, <2>1, <2>3 DEF Replaced
  <2>5. ~(l > j) /\ l \in 1..n
    BY <1>2, <1>3, <2>3
  <2>6. l = j
    <3> HIDE DEF S
    <3> QED
      BY <1>4, <2>4, <2>5
  <2> QED
    BY <2>2, <2>6
<1>9. {e \in Ordered(orders) : e.unit = orders[i].unit} = {Standing(orders[j], FALSE)}
  BY <1>6, <1>7, <1>8
<1> QED
  BY <1>3, <1>4, <1>9

\* on_submit_orders_request, in a movement phase: an order noted MBV has no error, so the
\* last request, of all the orders, keeps it or a later one for its unit.
LEMMA SubmittedStands ==
    ASSUME PowerInv, NEW k \in Conns, NEW orders \in Submissions, OnSubmit(k, orders),
           game.type = "M"
    PROVE  ThankedMoveStands'
<1>1. PICK p \in PowersOf(k) :
         /\ power' = [power EXCEPT ![p].ordered = Ordered(orders)]
         /\ answer' = [to |-> k, says |-> <<"THX", "MIS">>, thanks |-> Thanks(p, orders)]
         /\ UNCHANGED conns
  BY DEF OnSubmit, Submitted, sessions
<1>2. p \in GamePowers /\ power \in [GamePowers -> PowerState] /\ Named(k)
      /\ power[p].controller = conns[k].user
  BY <1>1 DEF PowersOf, PowerInv
<1>3. power'[p].ordered = Ordered(orders) /\ power'[p].controller = power[p].controller
  BY <1>1, <1>2 DEF PowerState
<1>4. p \in PowersOf(k)'
  BY <1>1, <1>2, <1>3 DEF PowersOf, Named
<1>5. answer'.to = k /\ answer'.thanks = Thanks(p, orders)
  BY <1>1
<1>6. /\ DOMAIN Thanks(p, orders) = DOMAIN orders
      /\ \A i \in DOMAIN orders : /\ Thanks(p, orders)[i].order = orders[i]
                                  /\ Thanks(p, orders)[i].note = Note(NewErrors(p, orders, i))
  BY DEF Thanks
<1>7. ASSUME NEW i \in DOMAIN answer'.thanks, answer'.thanks[i].note = "MBV"
      PROVE  \E q \in PowersOf(answer.to)' : \E j \in DOMAIN answer'.thanks :
                /\ j >= i /\ answer'.thanks[j].order.unit = answer'.thanks[i].order.unit
                /\ StandFor(q, answer.thanks[i].order)' = {Standing(answer'.thanks[j].order, FALSE)}
  <2>1. i \in DOMAIN orders /\ answer'.thanks[i].order = orders[i]
        /\ Note(NewErrors(p, orders, i)) = "MBV"
    BY <1>5, <1>6, <1>7
  <2>2. orders[i].error = None
    <3>1. NewErrors(p, orders, i) = {}
      BY <2>1 DEF Note
    <3>2. ~(Entry(orders[i]) \subseteq {})
      BY <3>1 DEF NewErrors
    <3> QED
      BY <3>2 DEF Entry
  <2>3. PICK j \in DOMAIN orders :
           /\ j >= i /\ orders[j].unit = orders[i].unit
           /\ {e \in Ordered(orders) : e.unit = orders[i].unit} = {Standing(orders[j], FALSE)}
    BY <2>1, <2>2, LastStands
  <2>4. StandFor(p, answer.thanks[i].order)' = {Standing(orders[j], FALSE)}
    BY <1>3, <2>1, <2>3 DEF StandFor
  <2>5. j \in DOMAIN answer'.thanks /\ answer'.thanks[j].order = orders[j]
    BY <1>5, <1>6
  <2>6. p \in PowersOf(answer.to)'
    BY <1>4, <1>5 DEF PowersOf, Named
  <2> QED
    BY <2>1, <2>3, <2>4, <2>5, <2>6
<1> QED
  BY <1>7 DEF ThankedMoveStands, Standing

\* No other step thanks for an order.
LEMMA NoThanks ==
    ASSUME DaideNext, ~\E k \in Conns : \E orders \in Submissions : OnSubmit(k, orders)
    PROVE  answer'.thanks = << >>
<1>1. ASSUME Silence PROVE answer'.thanks = << >>
  BY <1>1 DEF Silence
<1>2. ASSUME NEW k, NEW names, Answer(k, names) PROVE answer'.thanks = << >>
  BY <1>2 DEF Answer
<1>3. ASSUME NEW k \in Conns, DaideRequest(k) PROVE answer'.thanks = << >>
  <2>1. Silence \/ \E names : Answer(k, names)
    BY <1>3
    DEF DaideRequest, OnName, OnHello, OnIAm, OnBoardRequest, OnRefused, OnMissingOrders, OnReject,
        OnSyntaxError, OnHistory, OnSubmitRefused, OnGoFlag, OnSendMessage, OnDraw, OnNot,
        OnAcceptMap, Answers, Fails, Dies
  <2> QED
    BY <1>1, <1>2, <2>1
<1>4. ASSUME NEW k \in Conns, OnMessage(k) PROVE answer'.thanks = << >>
  <2>1. Silence \/ \E names : Answer(k, names)
    BY <1>4
    DEF OnMessage, OnInitialMessage, OnRepresentationMessage, OnBadRequest, OnErrorMessage,
        Answers, Fails, Dies
  <2> QED
    BY <1>1, <1>2, <2>1
<1>5. ASSUME NEW k \in Conns, Connect(k) \/ Close(k) \/ OnConnectionClose(k)
      PROVE  answer'.thanks = << >>
  BY <1>1, <1>5 DEF Connect, Close, OnConnectionClose
<1>6. ASSUME NEW x, Process(x) \/ Kick(x) \/ Cancel(x) PROVE answer'.thanks = << >>
  BY <1>1, <1>6 DEF Process, Kick, Cancel
<1> QED
  BY <1>3, <1>4, <1>5, <1>6 DEF DaideNext

\* Every step keeps what is said of the order that was thanked last.
LEMMA ThanksStep == PowerInv /\ ThankedMoveStands /\ [DaideNext]_daideVars => ThankedMoveStands'
<1> SUFFICES ASSUME PowerInv, ThankedMoveStands, [DaideNext]_daideVars PROVE ThankedMoveStands'
  OBVIOUS
<1>1. ASSUME NEW k \in Conns, NEW orders \in Submissions, OnSubmit(k, orders)
      PROVE  ThankedMoveStands'
  <2>1. CASE game.type = "M"
    BY <1>1, <2>1, SubmittedStands
  <2>2. CASE game.type # "M"
    <3>1. game'.type = game.type
      BY <1>1 DEF OnSubmit, PowerInv, GameState
    <3> QED
      BY <2>2, <3>1 DEF ThankedMoveStands
  <2> QED
    BY <2>1, <2>2
<1>2. CASE DaideNext /\ ~\E k \in Conns : \E orders \in Submissions : OnSubmit(k, orders)
  BY <1>2, NoThanks DEF ThankedMoveStands
<1>3. CASE UNCHANGED daideVars
  <2>1. answer' = answer /\ power' = power /\ game' = game /\ conns' = conns
    BY <1>3 DEF daideVars, sessions
  <2>2. ASSUME game'.type = "M", NEW i \in DOMAIN answer'.thanks, answer'.thanks[i].note = "MBV"
        PROVE  \E q \in PowersOf(answer.to)' : \E j \in DOMAIN answer'.thanks :
                  /\ j >= i /\ answer'.thanks[j].order.unit = answer'.thanks[i].order.unit
                  /\ StandFor(q, answer.thanks[i].order)'
                        = {Standing(answer'.thanks[j].order, FALSE)}
    <3>1. PICK p \in PowersOf(answer.to), j \in DOMAIN answer.thanks :
             /\ j >= i /\ answer.thanks[j].order.unit = answer.thanks[i].order.unit
             /\ StandFor(p, answer.thanks[i].order) = {Standing(answer.thanks[j].order, FALSE)}
      BY <2>1, <2>2 DEF ThankedMoveStands
    <3>2. p \in PowersOf(answer.to)'
      BY <2>1, <3>1 DEF PowersOf, Named
    <3>3. StandFor(p, answer.thanks[i].order)' = StandFor(p, answer.thanks[i].order)
      BY <2>1 DEF StandFor
    <3> QED
      BY <2>1, <3>1, <3>2, <3>3
  <2> QED
    BY <2>2 DEF ThankedMoveStands, Standing
<1> QED
  BY <1>1, <1>2, <1>3

----------------------------------------------------------------------------
(* The theorems.                                                            *)

\* The invariant holds when the server of the game starts.
LEMMA DaideInvInit == DaideInit => DaideInv
<1> SUFFICES ASSUME DaideInit PROVE DaideInv
  OBVIOUS
<1>1. \A k \in Conns : conns[k] = [state |-> "new", variant |-> None, user |-> None]
  BY DEF DaideInit
<1>2. pool = << >> /\ used = << >> /\ Variants = {}
  BY <1>1 DEF DaideInit, Variants
<1>3. /\ Len(pool) = 0 /\ Len(used) = 0 /\ Range(pool) = {} /\ Range(used) = {}
      /\ pool \in Seq(Nat) /\ used \in Seq(Nat)
  BY <1>2 DEF Range
<1>4. 0..(Len(pool) + Len(used) - 1) = {}
  BY <1>3
<1>5. VariantsShared
  BY <1>1, <1>2, <1>3, <1>4 DEF VariantsShared, IsInjective
<1>6. SessionsOK
  BY <1>3 DEF DaideInit, SessionsOK, DaideSession
<1>7. AccountOfVariant /\ OpenRegistered /\ StopClosesAll
  BY <1>1 DEF DaideInit, AccountOfVariant, OpenRegistered, StopClosesAll, Named
<1>8. PowerInv
  BY DaideAssumption DEF DaideInit, PowerInv, GameState, PowerState
<1>9. ThankedMoveStands
  BY DEF DaideInit, ThankedMoveStands
<1> QED
  BY <1>5, <1>6, <1>7, <1>8, <1>9 DEF DaideInv, SessionInv

\* The inductive invariant: the sessions and their name variants, the powers and their
\* players, and the orders that were thanked.
THEOREM DaideInvariant == DaideSpec => []DaideInv
<1>1. DaideInv /\ [DaideNext]_daideVars => DaideInv'
  BY SessionStep, PowerStep, ThanksStep DEF DaideInv
<1> QED
  BY DaideInvInit, <1>1, PTL DEF DaideSpec

\* The state has its type, and every name variant up to some number is either in the
\* pool of ConnectionHandler or in use, once, by one connection.
THEOREM DaideTypeCorrect == DaideSpec => []DaideTypeOK
<1>1. DaideInv => DaideTypeOK
  BY DEF DaideInv, SessionInv, PowerInv, SessionsOK, DaideSession, VariantsShared, GameState, DaideTypeOK
<1> QED
  BY DaideInvariant, <1>1, PTL

\* Two connected clients of a DAIDE server never have one account, and an account never
\* plays two powers.
THEOREM AccountsAreOwn == DaideSpec => []OwnAccount
<1>1. ASSUME DaideInv PROVE OwnAccount
  <2>1. ASSUME NEW j \in Conns, NEW k \in Conns, j # k, Named(j), Named(k),
               {conns[j].state, conns[k].state} \cap {"closed"} = {}
        PROVE  conns[j].user # conns[k].user
    <3>1. conns[j].state # "closed" /\ conns[k].state # "closed"
      BY <2>1
    <3>2. conns[j].variant # None /\ conns[j].user[1] = conns[j].variant
          /\ conns[k].user[1] = conns[k].variant
      BY <1>1, <2>1, <3>1 DEF DaideInv, SessionInv, AccountOfVariant
    <3>3. conns[j].variant # conns[k].variant
      BY <1>1, <2>1, <3>2 DEF DaideInv, SessionInv, VariantsShared
    <3> QED
      BY <3>2, <3>3
  <2>2. \A p, q \in GamePowers : p # q /\ power[p].controller # None =>
           power[p].controller # power[q].controller
    BY <1>1 DEF DaideInv, PowerInv
  <2> QED
    BY <2>1, <2>2 DEF OwnAccount
<1> QED
  BY DaideInvariant, <1>1, PTL

\* daide.Server.stop leaves no session open, those that died of an exception included.
THEOREM StopsClosingAll == DaideSpec => []StopClosesAll
<1>1. DaideInv => StopClosesAll
  BY DEF DaideInv, SessionInv
<1> QED
  BY DaideInvariant, <1>1, PTL

\* ThankedMoveStands: when a SUB of a movement phase is answered, an order noted MBV is what its
\* unit is told, or a later order of the same SUB and the same unit is, and nothing else
\* (on_submit_orders_request of daide/request_managers.py over Game._update_orders), for any
\* orders, errors and number of them.
THEOREM ThanksHold == DaideSpec => []ThankedMoveStands
<1>1. DaideInv => ThankedMoveStands
  BY DEF DaideInv
<1> QED
  BY DaideInvariant, <1>1, PTL

=============================================================================
