---------------------------- MODULE ViewsProofs ----------------------------
(***************************************************************************)
(* The copies of a game follow the server's, for any number of powers,      *)
(* tokens, copies, phases and requests; and no player is sent the orders of *)
(* others.                                                                  *)
(***************************************************************************)
EXTENDS Views, FiniteSetTheorems, SequenceTheorems, TLAPS

----------------------------------------------------------------------------
(* The types.                                                               *)

Controllership == [user : Users \cup {Nobody}, since : Nat]
Boards == SUBSET {"units", "centers"}
OrderSets == SUBSET Units
Ballots == {"yes", "neutral"}
Power ==
    [controller : Controllership, board : Boards, orders : OrderSets, vote : Ballots]
Game == [phase : 1..Completed, past : SUBSET (1..MaxPhase), power : [Powers -> Power]]
Copies == UNION {[rs -> Game] : rs \in SUBSET Roles}
Client == [open : BOOLEAN, reading : BOOLEAN, games : Copies, special : Special \cup {Nobody}]
Phases ==
    [previous : 1..MaxPhase, phase : 1..Completed, board : [Powers -> Boards],
     ordered : SUBSET Powers]

Notification ==
    [type : {"AccountDeleted"}]
    \cup [type : {"GameDeleted", "OmniscientUpdated"}, role : Roles]
    \cup [type : {"PowersControllers"}, role : Roles, powers : [Powers -> Controllership]]
    \cup [type : {"GameProcessed"}, role : Roles, data : Phases]
    \cup [type : {"PowerOrdersUpdate"}, role : Roles, power : Powers, orders : OrderSets]
    \cup [type : {"ClearedOrders", "ClearedUnits", "ClearedCenters"}, role : Roles,
          powers : SUBSET Powers]
    \cup [type : {"VoteUpdated"}, role : Roles,
          vote : UNION {[ps -> Ballots] : ps \in SUBSET Powers}]

----------------------------------------------------------------------------
(* What is under way.                                                       *)

\* Notification n is for the copy of that role.
For(n, r) == n.type # "AccountDeleted" /\ n.role = r

\* A player is told its own vote, and of its own orders only.
Own(n) ==
    /\ n.type = "VoteUpdated" /\ n.role \in Powers => DOMAIN n.vote = {n.role}
    /\ n.type = "PowerOrdersUpdate" /\ n.role \in Powers => n.power = n.role

\* What is under way to the watched clients.
Box(b) ==
    /\ b \in [Watched -> Seq(Notification)]
    /\ \A t \in Watched : \A i \in 1..Len(b[t]) : Own(b[t][i])

\* A client has at most one special copy, that on record, and copies only while its channel
\* is open and read.
Clients(cl) ==
    /\ cl \in [Watched -> Client]
    /\ \A t \in Watched : /\ DOMAIN cl[t].games \cap Special \subseteq {cl[t].special}
                          /\ DOMAIN cl[t].games # {} => cl[t].open /\ cl[t].reading

TypeInv ==
    /\ game \in Game
    /\ status \in {"forming", "active", "paused", "completed", "canceled", "deleted"}
    /\ tokens \in [Roles -> SUBSET Tokens] /\ online \subseteq Tokens
    /\ omniscients \subseteq Users
    /\ Clients(client) /\ Box(inbox)
    /\ asked \in 0..MaxRequests /\ apart \subseteq Roles \X Watched

\* A game that is completed is finished.
GameOver == Playing /\ game.phase = Completed => Finished

\* Who has a token of a power controls it.
Seated == \A p \in Powers : \A t \in tokens[p] : Controller(game, p) = Owner[t]

\* The copies that follow the game, and the game of one.
Following == Registered \ apart
Copy(a) == client[a[2]].games[a[1]]

\* The players of a game are known, and nothing is under way to who does not read.
StateInv ==
    /\ Playing => \A r \in Roles : tokens[r] \subseteq online
    /\ \A t \in Watched : inbox[t] # <<>> => client[t].reading

\* What a copy of role r has of the game as the server has it, when all is delivered: the
\* phases, the controllers and, to who watches, the boards and the orders.
Watches(r) == IF r \in Special THEN Powers ELSE {}

View(g, r) ==
    [phase |-> g.phase, past |-> g.past, controllers |-> Controllers(g),
     table |-> [p \in Watches(r) |-> [board |-> g.power[p].board, orders |-> g.power[p].orders]]]

\* What becomes of the board and the orders of power p when notification n is handled.
Cell(x, n, p) ==
    CASE n.type = "PowerOrdersUpdate" /\ p = n.power ->
            [board |-> x.board, orders |-> IF "units" \in x.board THEN n.orders ELSE {}]
      [] n.type = "ClearedOrders" /\ p \in n.powers -> [board |-> x.board, orders |-> {}]
      [] n.type = "ClearedUnits" /\ p \in n.powers -> [board |-> x.board \ {"units"}, orders |-> x.orders]
      [] n.type = "ClearedCenters" /\ p \in n.powers ->
            [board |-> x.board \ {"centers"}, orders |-> x.orders]
      [] OTHER -> x

\* What becomes of a View when notification n is handled.
After(v, n) ==
    CASE n.type = "PowersControllers" ->
            [phase |-> v.phase, past |-> v.past,
             controllers |-> [p \in Powers |-> IF n.powers[p].since > v.controllers[p].since
                                               THEN n.powers[p] ELSE v.controllers[p]],
             table |-> v.table]
      [] n.type = "GameProcessed" ->
            [phase |-> n.data.phase, past |-> v.past \cup {n.data.previous},
             controllers |-> v.controllers,
             table |-> [p \in DOMAIN v.table |-> [board |-> n.data.board[p], orders |-> {}]]]
      [] OTHER -> [phase |-> v.phase, past |-> v.past, controllers |-> v.controllers,
                   table |-> [p \in DOMAIN v.table |-> Cell(v.table[p], n, p)]]

\* The notifications of box for role r take what a copy has from first to last.
Course(f, box, r, first, last) ==
    /\ DOMAIN f = 0..Len(box) /\ f[0] = first /\ f[Len(box)] = last
    /\ \A i \in 1..Len(box) : f[i] = IF For(box[i], r) THEN After(f[i - 1], box[i]) ELSE f[i - 1]

Comes(box, r, first, last) == \E f : Course(f, box, r, first, last)

\* The vote of a power at its copy is v or will be, by the last notification that sets it.
Votes(n, r) == For(n, r) /\ n.type \in {"GameProcessed", "VoteUpdated"}
VoteOf(n, r) == IF n.type = "VoteUpdated" THEN n.vote[r] ELSE "neutral"

VoteComes(box, r, first, last) ==
    \/ first = last /\ \A i \in 1..Len(box) : ~Votes(box[i], r)
    \/ \E i \in 1..Len(box) : /\ Votes(box[i], r) /\ VoteOf(box[i], r) = last
                              /\ \A j \in 1..Len(box) : j > i => ~Votes(box[j], r)

\* The copy is told that the game is deleted.
DeletionComes(box, r) == \E i \in 1..Len(box) : For(box[i], r) /\ box[i].type = "GameDeleted"

\* What holds of a copy c of role r that follows game g in status s, with box under way
\* to its client.
Follows(c, g, s, box, r) ==
    /\ Comes(box, r, View(c, r), View(g, r))
    /\ r \in Powers => VoteComes(box, r, c.power[r].vote, g.power[r].vote)
    /\ s # "deleted" \/ DeletionComes(box, r)

\* Every copy that follows the game is one the server notifies, and will agree.
FollowInv ==
    \A a \in Following : /\ a[2] \in tokens[a[1]]
                         /\ Follows(Copy(a), game, status, inbox[a[2]], a[1])

----------------------------------------------------------------------------
(* Notifications are queued behind those that wait.                         *)

\* SetToSeq lists a finite set, each element once.
LEMMA Listed ==
    ASSUME NEW S, IsFiniteSet(S)
    PROVE  /\ SetToSeq(S) \in Seq(S)
           /\ \A x \in S : \E i \in 1..Len(SetToSeq(S)) : SetToSeq(S)[i] = x
           /\ \A i, j \in 1..Len(SetToSeq(S)) : SetToSeq(S)[i] = SetToSeq(S)[j] => i = j
<1> DEFINE c == Cardinality(S)
           s == SetToSeq(S)
<1>1. c \in Nat
  BY FS_CardinalityType
<1>2. \E f \in [1..c -> S] : IsInjective(f)
  <2>1. PICK n \in Nat : ExistsBijection(1..n, S)
    BY FS_NatBijection
  <2>2. n = c
    BY <2>1, FS_CountingElements
  <2>3. PICK f : f \in Bijection(1..c, S)
    BY <2>1, <2>2 DEF ExistsBijection
  <2>4. f \in [1..c -> S] /\ IsInjective(f)
    BY <2>3 DEF Bijection, Injection
  <2> QED
    BY <2>4
<1>3. s \in [1..c -> S] /\ IsInjective(s)
  BY <1>2 DEF SetToSeq
<1>4. s \in Injection(1..c, S)
  BY <1>3 DEF Injection
<1>5. Cardinality(1..c) = c
  <2>1. Cardinality(1..c) = IF 1 > c THEN 0 ELSE c - 1 + 1
    BY <1>1, FS_Interval
  <2> QED
    BY <1>1, <2>1
<1> HIDE DEF c, s
<1>6. s \in Surjection(1..c, S)
  BY <1>4, <1>5, FS_Injection DEF c
<1>7. Len(s) = c /\ s \in Seq(S) /\ DOMAIN s = 1..c
  BY <1>1, <1>3
<1>8. \A x \in S : \E i \in 1..Len(s) : s[i] = x
  BY <1>6, <1>7 DEF Surjection
<1>9. \A i, j \in 1..Len(s) : s[i] = s[j] => i = j
  BY <1>3, <1>7 DEF IsInjective
<1> QED
  BY <1>7, <1>8, <1>9 DEF s

\* A sequence of elements of a set is one of elements of a larger set.
LEMMA SeqOfMore == ASSUME NEW S, NEW T, S \subseteq T, NEW s \in Seq(S) PROVE s \in Seq(T)
  OBVIOUS

\* There are finitely many roles.
LEMMA RolesFinite == IsFiniteSet(Roles)
<1>1. IsFiniteSet(Special)
  <2>1. IsFiniteSet({"observer"}) /\ IsFiniteSet({"omniscient"})
    BY FS_Singleton
  <2>2. Special = {"observer"} \cup {"omniscient"}
    BY DEF Special
  <2> QED
    BY <2>1, <2>2, FS_Union
<1> QED
  BY <1>1, FS_Union, ViewsAssumption DEF Roles

\* What is queued, with box before it and next behind it: f[r] for the addresses of A.
Behind(box, next, t) == (Len(box[t]) + 1)..Len(next[t])

Queued(box, next, A, f) ==
    \A t \in Watched :
        /\ Len(box[t]) <= Len(next[t]) /\ \A i \in 1..Len(box[t]) : next[t][i] = box[t][i]
        /\ next[t] # box[t] => client[t].reading
        /\ \A i \in Behind(box, next, t) : \E r \in Roles : <<r, t>> \in A /\ next[t][i] = f[r]
        /\ \A i, j \in Behind(box, next, t) : next[t][i] = next[t][j] => i = j
        /\ \A r \in Roles : <<r, t>> \in A /\ t \in online /\ client[t].reading
              => \E i \in Behind(box, next, t) : next[t][i] = f[r]

\* Notified, with the notifications of all roles as a function.
Sending(box, A, f) ==
    [t \in Watched |->
        IF t \in online /\ client[t].reading
        THEN box[t] \o SetToSeq({f[r] : r \in {a[1] : a \in {b \in A : b[2] = t}}})
        ELSE box[t]]

\* A sequence with another behind it.
LEMMA Joined ==
    ASSUME NEW S, NEW u \in Seq(S), NEW v \in Seq(S)
    PROVE  /\ u \o v \in Seq(S) /\ Len(u \o v) = Len(u) + Len(v)
           /\ Len(u) \in Nat /\ Len(v) \in Nat
           /\ \A i \in 1..Len(u) : (u \o v)[i] = u[i]
           /\ \A i \in 1..Len(v) : (u \o v)[Len(u) + i] = v[i]
<1>1. Len(u) \in Nat /\ Len(v) \in Nat /\ Len(u \o v) = Len(u) + Len(v) /\ u \o v \in Seq(S)
  OBVIOUS
<1>2. \A i \in 1..Len(u) : (u \o v)[i] = u[i]
  BY <1>1
<1>3. ASSUME NEW i \in 1..Len(v) PROVE (u \o v)[Len(u) + i] = v[i]
  <2>1. Len(u) + i \in 1..(Len(u) + Len(v)) /\ ~(Len(u) + i <= Len(u)) /\ (Len(u) + i) - Len(u) = i
    BY <1>1
  <2> QED
    BY <2>1
<1> QED
  BY <1>1, <1>2, <1>3

\* What is sent is queued behind what waits, once for each role that is addressed.
LEMMA SendingQueues ==
    ASSUME NEW box \in [Watched -> Seq(Notification)], NEW A, A \subseteq Roles \X Tokens,
           NEW f, \A r \in Roles : (\E t \in Tokens : <<r, t>> \in A) => f[r] \in Notification
    PROVE  /\ Sending(box, A, f) \in [Watched -> Seq(Notification)]
           /\ Queued(box, Sending(box, A, f), A, f)
<1> DEFINE next == Sending(box, A, f)
           Rs(t) == {r \in Roles : <<r, t>> \in A}
           N(t) == {f[r] : r \in Rs(t)}
<1>1. ASSUME NEW t \in Watched
      PROVE  /\ IsFiniteSet(N(t)) /\ N(t) \subseteq Notification
             /\ {f[r] : r \in {a[1] : a \in {b \in A : b[2] = t}}} = N(t)
  <2>1. IsFiniteSet(Rs(t))
    BY RolesFinite, FS_Subset
  <2>2. IsFiniteSet(N(t))
    <3>1. DEFINE h == [r \in Rs(t) |-> f[r]]
    <3>2. h \in Surjection(Rs(t), N(t))
      BY DEF Surjection
    <3> HIDE DEF h
    <3> QED
      BY <2>1, <3>2, FS_Surjection
  <2>3. t \in Tokens
    BY ViewsAssumption
  <2>4. N(t) \subseteq Notification
    BY <2>3
  <2>5. {a[1] : a \in {b \in A : b[2] = t}} = Rs(t)
    <3>1. ASSUME NEW a \in A, a[2] = t PROVE a[1] \in Rs(t)
      <4>1. a[1] \in Roles /\ a = <<a[1], t>>
        BY <3>1
      <4> QED
        BY <4>1
    <3>2. ASSUME NEW r \in Rs(t) PROVE \E a \in A : a[2] = t /\ a[1] = r
      <4>1. <<r, t>> \in A /\ <<r, t>>[2] = t /\ <<r, t>>[1] = r
        OBVIOUS
      <4> QED
        BY <4>1
    <3> HIDE DEF Rs
    <3> QED
      BY <3>1, <3>2
  <2> QED
    BY <2>2, <2>4, <2>5
<1>2. ASSUME NEW t \in Watched
      PROVE  next[t] = IF t \in online /\ client[t].reading THEN box[t] \o SetToSeq(N(t)) ELSE box[t]
  BY <1>1 DEF Sending
<1>3. ASSUME NEW t \in Watched
      PROVE  /\ next[t] \in Seq(Notification)
             /\ Len(box[t]) <= Len(next[t]) /\ \A i \in 1..Len(box[t]) : next[t][i] = box[t][i]
             /\ next[t] # box[t] => client[t].reading
             /\ \A i \in Behind(box, next, t) : \E r \in Roles : <<r, t>> \in A /\ next[t][i] = f[r]
             /\ \A i, j \in Behind(box, next, t) : next[t][i] = next[t][j] => i = j
             /\ \A r \in Roles : <<r, t>> \in A /\ t \in online /\ client[t].reading
                   => \E i \in Behind(box, next, t) : next[t][i] = f[r]
  <2> DEFINE u == box[t]
             v == SetToSeq(N(t))
  <2>1. u \in Seq(Notification) /\ Len(u) \in Nat
    OBVIOUS
  <2>2. CASE t \in online /\ client[t].reading
    <3>1. /\ v \in Seq(N(t))
          /\ \A x \in N(t) : \E i \in 1..Len(v) : v[i] = x
          /\ \A i, j \in 1..Len(v) : v[i] = v[j] => i = j
      <4>1. IsFiniteSet(N(t))
        BY <1>1
      <4> HIDE DEF N
      <4> QED
        BY <4>1, Listed
    <3>2. next[t] = u \o v
      BY <1>2, <2>2
    <3>3. ASSUME NEW i \in 1..Len(v) PROVE \E r \in Roles : <<r, t>> \in A /\ v[i] = f[r]
      <4>1. v[i] \in N(t)
        <5> HIDE DEF N, v
        <5> QED
          BY <3>1
      <4> HIDE DEF v
      <4> QED
        BY <4>1
    <3>4. \A r \in Roles : <<r, t>> \in A => \E i \in 1..Len(v) : v[i] = f[r]
      <4> HIDE DEF v
      <4> QED
        BY <3>1
    <3> HIDE DEF N, Rs, u, v, next
    <3>5. v \in Seq(Notification)
      BY <1>1, <3>1, SeqOfMore
    <3>6. /\ Len(next[t]) = Len(u) + Len(v) /\ Len(v) \in Nat /\ next[t] \in Seq(Notification)
          /\ \A i \in 1..Len(u) : next[t][i] = u[i]
          /\ \A i \in 1..Len(v) : next[t][Len(u) + i] = v[i]
      BY <2>1, <3>2, <3>5, Joined
    <3>7. ASSUME NEW i \in (Len(u) + 1)..Len(next[t])
          PROVE  i - Len(u) \in 1..Len(v) /\ next[t][i] = v[i - Len(u)]
      <4>1. i - Len(u) \in 1..Len(v) /\ Len(u) + (i - Len(u)) = i
        BY <2>1, <3>6
      <4> QED
        BY <3>6, <4>1
    <3>8. \A i \in (Len(u) + 1)..Len(next[t]) :
             \E r \in Roles : <<r, t>> \in A /\ next[t][i] = f[r]
      BY <3>3, <3>7
    <3>9. ASSUME NEW i \in (Len(u) + 1)..Len(next[t]), NEW j \in (Len(u) + 1)..Len(next[t]),
                 next[t][i] = next[t][j]
          PROVE  i = j
      <4>1. i - Len(u) = j - Len(u)
        <5>1. v[i - Len(u)] = v[j - Len(u)] /\ i - Len(u) \in 1..Len(v) /\ j - Len(u) \in 1..Len(v)
          BY <3>7, <3>9
        <5> QED
          BY <3>1, <5>1
      <4> QED
        BY <2>1, <4>1
    <3>10. ASSUME NEW r \in Roles, <<r, t>> \in A
          PROVE  \E i \in (Len(u) + 1)..Len(next[t]) : next[t][i] = f[r]
      <4>1. PICK i \in 1..Len(v) : v[i] = f[r]
        BY <3>4, <3>10
      <4>2. Len(u) + i \in (Len(u) + 1)..Len(next[t]) /\ next[t][Len(u) + i] = f[r]
        BY <2>1, <3>6, <4>1
      <4> QED
        BY <4>2
    <3>11. Len(u) <= Len(next[t])
      BY <2>1, <3>6
    <3> QED
      BY <2>2, <3>6, <3>8, <3>9, <3>10, <3>11 DEF u, Behind
  <2>3. CASE ~(t \in online /\ client[t].reading)
    <3>1. next[t] = u
      BY <1>2, <2>3
    <3> HIDE DEF next
    <3>2. Behind(box, next, t) = {}
      BY <2>1, <3>1 DEF Behind
    <3> QED
      BY <2>1, <2>3, <3>1, <3>2
  <2> QED
    BY <2>2, <2>3
<1> HIDE DEF N, Rs
<1>4. next \in [Watched -> Seq(Notification)]
  <2>1. next = [t \in Watched |-> next[t]]
    BY DEF Sending
  <2> HIDE DEF next
  <2> QED
    BY <1>3, <2>1
<1> HIDE DEF next
<1>5. Queued(box, next, A, f)
  BY <1>3 DEF Queued
<1> QED
  BY <1>4, <1>5 DEF next

----------------------------------------------------------------------------
(* What the methods of Game do.                                             *)

\* The phases of the model, and the last, which is that of a completed game.
LEMMA Numbers ==
    /\ MaxPhase \in Nat /\ MaxPhase >= 1 /\ Completed \in Nat /\ Completed = MaxPhase + 1
    /\ 1..MaxPhase \subseteq 1..Completed /\ Completed \notin 1..MaxPhase
  BY ViewsAssumption DEF Completed

\* A power of which one thing changes.
LEMMA PowerWith ==
    ASSUME NEW x \in Power
    PROVE  /\ \A v \in OrderSets :
                 /\ [x EXCEPT !.orders = v] \in Power
                 /\ [x EXCEPT !.orders = v].orders = v /\ [x EXCEPT !.orders = v].board = x.board
                 /\ [x EXCEPT !.orders = v].vote = x.vote
                 /\ [x EXCEPT !.orders = v].controller = x.controller
           /\ \A v \in Boards :
                 /\ [x EXCEPT !.board = v] \in Power
                 /\ [x EXCEPT !.board = v].orders = x.orders /\ [x EXCEPT !.board = v].board = v
                 /\ [x EXCEPT !.board = v].vote = x.vote
                 /\ [x EXCEPT !.board = v].controller = x.controller
           /\ \A v \in Ballots :
                 /\ [x EXCEPT !.vote = v] \in Power
                 /\ [x EXCEPT !.vote = v].orders = x.orders /\ [x EXCEPT !.vote = v].board = x.board
                 /\ [x EXCEPT !.vote = v].vote = v
                 /\ [x EXCEPT !.vote = v].controller = x.controller
           /\ \A v \in Controllership :
                 /\ [x EXCEPT !.controller = v] \in Power
                 /\ [x EXCEPT !.controller = v].orders = x.orders
                 /\ [x EXCEPT !.controller = v].board = x.board
                 /\ [x EXCEPT !.controller = v].vote = x.vote
                 /\ [x EXCEPT !.controller = v].controller = v
<1>1. /\ x.controller \in Controllership /\ x.board \in Boards /\ x.orders \in OrderSets
      /\ x.vote \in Ballots
  BY DEF Power
<1>2. x = [controller |-> x.controller, board |-> x.board, orders |-> x.orders, vote |-> x.vote]
  BY DEF Power
<1>3. ASSUME NEW v \in OrderSets
      PROVE  [x EXCEPT !.orders = v]
                = [controller |-> x.controller, board |-> x.board, orders |-> v, vote |-> x.vote]
  BY <1>2
<1>4. ASSUME NEW v \in Boards
      PROVE  [x EXCEPT !.board = v]
                = [controller |-> x.controller, board |-> v, orders |-> x.orders, vote |-> x.vote]
  BY <1>2
<1>5. ASSUME NEW v \in Ballots
      PROVE  [x EXCEPT !.vote = v]
                = [controller |-> x.controller, board |-> x.board, orders |-> x.orders, vote |-> v]
  BY <1>2
<1>6. ASSUME NEW v \in Controllership
      PROVE  [x EXCEPT !.controller = v]
                = [controller |-> v, board |-> x.board, orders |-> x.orders, vote |-> x.vote]
  BY <1>2
<1>7. \A c \in Controllership, b \in Boards, o \in OrderSets, v \in Ballots :
         [controller |-> c, board |-> b, orders |-> o, vote |-> v] \in Power
  BY DEF Power
<1>8. ASSUME NEW v \in OrderSets
      PROVE  /\ [x EXCEPT !.orders = v] \in Power
             /\ [x EXCEPT !.orders = v].controller = x.controller
             /\ [x EXCEPT !.orders = v].board = x.board
             /\ [x EXCEPT !.orders = v].orders = v
             /\ [x EXCEPT !.orders = v].vote = x.vote
  <2> DEFINE y == [controller |-> x.controller, board |-> x.board, orders |-> v, vote |-> x.vote]
  <2>1. y \in Power
    BY <1>1, <1>7
  <2>2. y.controller = x.controller /\ y.board = x.board /\ y.orders = v /\ y.vote = x.vote
    OBVIOUS
  <2>3. [x EXCEPT !.orders = v] = y
    BY <1>3
  <2> HIDE DEF y
  <2> QED
    BY <2>1, <2>2, <2>3
<1>9. ASSUME NEW v \in Boards
      PROVE  /\ [x EXCEPT !.board = v] \in Power
             /\ [x EXCEPT !.board = v].controller = x.controller
             /\ [x EXCEPT !.board = v].board = v
             /\ [x EXCEPT !.board = v].orders = x.orders
             /\ [x EXCEPT !.board = v].vote = x.vote
  <2> DEFINE y == [controller |-> x.controller, board |-> v, orders |-> x.orders, vote |-> x.vote]
  <2>1. y \in Power
    BY <1>1, <1>7
  <2>2. y.controller = x.controller /\ y.board = v /\ y.orders = x.orders /\ y.vote = x.vote
    OBVIOUS
  <2>3. [x EXCEPT !.board = v] = y
    BY <1>4
  <2> HIDE DEF y
  <2> QED
    BY <2>1, <2>2, <2>3
<1>10. ASSUME NEW v \in Ballots
      PROVE  /\ [x EXCEPT !.vote = v] \in Power
             /\ [x EXCEPT !.vote = v].controller = x.controller
             /\ [x EXCEPT !.vote = v].board = x.board
             /\ [x EXCEPT !.vote = v].orders = x.orders
             /\ [x EXCEPT !.vote = v].vote = v
  <2> DEFINE y == [controller |-> x.controller, board |-> x.board, orders |-> x.orders, vote |-> v]
  <2>1. y \in Power
    BY <1>1, <1>7
  <2>2. y.controller = x.controller /\ y.board = x.board /\ y.orders = x.orders /\ y.vote = v
    OBVIOUS
  <2>3. [x EXCEPT !.vote = v] = y
    BY <1>5
  <2> HIDE DEF y
  <2> QED
    BY <2>1, <2>2, <2>3
<1>11. ASSUME NEW v \in Controllership
      PROVE  /\ [x EXCEPT !.controller = v] \in Power
             /\ [x EXCEPT !.controller = v].controller = v
             /\ [x EXCEPT !.controller = v].board = x.board
             /\ [x EXCEPT !.controller = v].orders = x.orders
             /\ [x EXCEPT !.controller = v].vote = x.vote
  <2> DEFINE y == [controller |-> v, board |-> x.board, orders |-> x.orders, vote |-> x.vote]
  <2>1. y \in Power
    BY <1>1, <1>7
  <2>2. y.controller = v /\ y.board = x.board /\ y.orders = x.orders /\ y.vote = x.vote
    OBVIOUS
  <2>3. [x EXCEPT !.controller = v] = y
    BY <1>6
  <2> HIDE DEF y
  <2> QED
    BY <2>1, <2>2, <2>3
<1> QED
  BY <1>8, <1>9, <1>10, <1>11

\* A game with other powers.
LEMMA GameWith ==
    ASSUME NEW g \in Game, NEW h \in [Powers -> Power]
    PROVE  /\ [g EXCEPT !.power = h] \in Game /\ [g EXCEPT !.power = h].power = h
           /\ [g EXCEPT !.power = h].phase = g.phase /\ [g EXCEPT !.power = h].past = g.past
  BY DEF Game

\* The parts of a game have their types.
LEMMA GameParts ==
    ASSUME NEW g \in Game
    PROVE  /\ g.phase \in 1..Completed /\ g.past \subseteq 1..MaxPhase
           /\ g.power \in [Powers -> Power]
           /\ \A p \in Powers : /\ g.power[p] \in Power /\ g.power[p].controller \in Controllership
                                /\ g.power[p].board \in Boards /\ g.power[p].orders \in OrderSets
                                /\ g.power[p].vote \in Ballots
<1>1. g.phase \in 1..Completed /\ g.past \subseteq 1..MaxPhase /\ g.power \in [Powers -> Power]
  BY DEF Game
<1> QED
  BY <1>1 DEF Power

\* Game.clear_orders
LEMMA ClearOrdersIs ==
    ASSUME NEW g \in Game, NEW ps
    PROVE  LET h == ClearOrders(g, ps) IN
           /\ h \in Game /\ h.phase = g.phase /\ h.past = g.past
           /\ \A p \in Powers :
                 /\ h.power[p].controller = g.power[p].controller
                 /\ h.power[p].board = g.power[p].board
                 /\ h.power[p].orders = IF p \in ps THEN {} ELSE g.power[p].orders
                 /\ h.power[p].vote = g.power[p].vote
<1> DEFINE F == [p \in Powers |-> IF p \in ps THEN [g.power[p] EXCEPT !.orders = {}] ELSE g.power[p]]
           h == ClearOrders(g, ps)
<1>1. h = [g EXCEPT !.power = F]
  BY DEF ClearOrders, Each
<1>2. g.power \in [Powers -> Power] /\ \A p \in Powers : g.power[p] \in Power
  BY GameParts
<1>3. ASSUME NEW p \in Powers
      PROVE  /\ F[p] \in Power
             /\ F[p].controller = g.power[p].controller
             /\ F[p].board = g.power[p].board
             /\ F[p].orders = IF p \in ps THEN {} ELSE g.power[p].orders
             /\ F[p].vote = g.power[p].vote
  <2> DEFINE x == g.power[p]
             v == {}
             y == [x EXCEPT !.orders = v]
  <2>1. F[p] = IF p \in ps THEN y ELSE g.power[p]
    OBVIOUS
  <2>2. x \in Power
    BY <1>2
  <2>3. v \in OrderSets
    BY <1>2 DEF OrderSets
  <2> HIDE DEF F, v
  <2>4. y \in Power /\ y.controller = x.controller /\ y.board = x.board
         /\ y.orders = v /\ y.vote = x.vote
    BY <2>2, <2>3, PowerWith
  <2> HIDE DEF y
  <2> QED
    BY <2>1, <2>2, <2>4 DEF v
<1>4. F \in [Powers -> Power]
  <2>1. F = [p \in Powers |-> F[p]]
    OBVIOUS
  <2> HIDE DEF F
  <2> QED
    BY <1>3, <2>1
<1> HIDE DEF F, h
<1>5. h \in Game /\ h.power = F /\ h.phase = g.phase /\ h.past = g.past
  BY <1>1, <1>4, GameWith
<1> QED
  BY <1>3, <1>5 DEF h

\* Game.clear_units
LessUnits(g, ps, p) ==
    IF p \in ps THEN g.power[p].board \ {"units"} ELSE g.power[p].board

\* Game.clear_units.
LEMMA ClearUnitsIs ==
    ASSUME NEW g \in Game, NEW ps
    PROVE  LET h == ClearUnits(g, ps) IN
           /\ h \in Game /\ h.phase = g.phase /\ h.past = g.past
           /\ \A p \in Powers :
                 /\ h.power[p].controller = g.power[p].controller
                 /\ h.power[p].board = LessUnits(g, ps, p)
                 /\ h.power[p].orders = g.power[p].orders
                 /\ h.power[p].vote = g.power[p].vote
<1> DEFINE F == [p \in Powers |-> IF p \in ps THEN [g.power[p] EXCEPT !.board = g.power[p].board \ {"units"}]
                                  ELSE g.power[p]]
           h == ClearUnits(g, ps)
<1>1. h = [g EXCEPT !.power = F]
  BY DEF ClearUnits, Each
<1>2. g.power \in [Powers -> Power] /\ \A p \in Powers : g.power[p] \in Power
  BY GameParts
<1>3. ASSUME NEW p \in Powers
      PROVE  /\ F[p] \in Power
             /\ F[p].controller = g.power[p].controller
             /\ F[p].board = IF p \in ps THEN g.power[p].board \ {"units"} ELSE g.power[p].board
             /\ F[p].orders = g.power[p].orders
             /\ F[p].vote = g.power[p].vote
  <2> DEFINE x == g.power[p]
             v == g.power[p].board \ {"units"}
             y == [x EXCEPT !.board = v]
  <2>1. F[p] = IF p \in ps THEN y ELSE g.power[p]
    OBVIOUS
  <2>2. x \in Power
    BY <1>2
  <2>3. v \in Boards
    BY <1>2, GameParts DEF Boards
  <2> HIDE DEF F, v
  <2>4. y \in Power /\ y.controller = x.controller /\ y.board = v
         /\ y.orders = x.orders /\ y.vote = x.vote
    BY <2>2, <2>3, PowerWith
  <2> HIDE DEF y
  <2> QED
    BY <2>1, <2>2, <2>4 DEF v
<1>4. F \in [Powers -> Power]
  <2>1. F = [p \in Powers |-> F[p]]
    OBVIOUS
  <2> HIDE DEF F
  <2> QED
    BY <1>3, <2>1
<1> HIDE DEF F, h
<1>5. h \in Game /\ h.power = F /\ h.phase = g.phase /\ h.past = g.past
  BY <1>1, <1>4, GameWith
<1> QED
  BY <1>3, <1>5 DEF h, LessUnits

\* Game.clear_centers
LessCenters(g, ps, p) ==
    IF p \in ps THEN g.power[p].board \ {"centers"} ELSE g.power[p].board

\* Game.clear_centers.
LEMMA ClearCentersIs ==
    ASSUME NEW g \in Game, NEW ps
    PROVE  LET h == ClearCenters(g, ps) IN
           /\ h \in Game /\ h.phase = g.phase /\ h.past = g.past
           /\ \A p \in Powers :
                 /\ h.power[p].controller = g.power[p].controller
                 /\ h.power[p].board = LessCenters(g, ps, p)
                 /\ h.power[p].orders = g.power[p].orders
                 /\ h.power[p].vote = g.power[p].vote
<1> DEFINE F == [p \in Powers |-> IF p \in ps
                                  THEN [g.power[p] EXCEPT !.board = g.power[p].board \ {"centers"}]
                                  ELSE g.power[p]]
           h == ClearCenters(g, ps)
<1>1. h = [g EXCEPT !.power = F]
  BY DEF ClearCenters, Each
<1>2. g.power \in [Powers -> Power] /\ \A p \in Powers : g.power[p] \in Power
  BY GameParts
<1>3. ASSUME NEW p \in Powers
      PROVE  /\ F[p] \in Power
             /\ F[p].controller = g.power[p].controller
             /\ F[p].board = IF p \in ps THEN g.power[p].board \ {"centers"} ELSE g.power[p].board
             /\ F[p].orders = g.power[p].orders
             /\ F[p].vote = g.power[p].vote
  <2> DEFINE x == g.power[p]
             v == g.power[p].board \ {"centers"}
             y == [x EXCEPT !.board = v]
  <2>1. F[p] = IF p \in ps THEN y ELSE g.power[p]
    OBVIOUS
  <2>2. x \in Power
    BY <1>2
  <2>3. v \in Boards
    BY <1>2, GameParts DEF Boards
  <2> HIDE DEF F, v
  <2>4. y \in Power /\ y.controller = x.controller /\ y.board = v
         /\ y.orders = x.orders /\ y.vote = x.vote
    BY <2>2, <2>3, PowerWith
  <2> HIDE DEF y
  <2> QED
    BY <2>1, <2>2, <2>4 DEF v
<1>4. F \in [Powers -> Power]
  <2>1. F = [p \in Powers |-> F[p]]
    OBVIOUS
  <2> HIDE DEF F
  <2> QED
    BY <1>3, <2>1
<1> HIDE DEF F, h
<1>5. h \in Game /\ h.power = F /\ h.phase = g.phase /\ h.past = g.past
  BY <1>1, <1>4, GameWith
<1> QED
  BY <1>3, <1>5 DEF h, LessCenters

\* Game.clear_vote
LEMMA ClearVoteIs ==
    ASSUME NEW g \in Game
    PROVE  LET h == ClearVote(g) IN
           /\ h \in Game /\ h.phase = g.phase /\ h.past = g.past
           /\ \A p \in Powers :
                 /\ h.power[p].controller = g.power[p].controller
                 /\ h.power[p].board = g.power[p].board
                 /\ h.power[p].orders = g.power[p].orders
                 /\ h.power[p].vote = "neutral"
<1> DEFINE F == [p \in Powers |-> IF p \in Powers THEN [g.power[p] EXCEPT !.vote = "neutral"] ELSE g.power[p]]
           h == ClearVote(g)
<1>1. h = [g EXCEPT !.power = F]
  BY DEF ClearVote, Each
<1>2. g.power \in [Powers -> Power] /\ \A p \in Powers : g.power[p] \in Power
  BY GameParts
<1>3. ASSUME NEW p \in Powers
      PROVE  /\ F[p] \in Power
             /\ F[p].controller = g.power[p].controller
             /\ F[p].board = g.power[p].board
             /\ F[p].orders = g.power[p].orders
             /\ F[p].vote = "neutral"
  <2> DEFINE x == g.power[p]
             v == "neutral"
             y == [x EXCEPT !.vote = v]
  <2>1. F[p] = IF p \in Powers THEN y ELSE g.power[p]
    OBVIOUS
  <2>2. x \in Power
    BY <1>2
  <2>3. v \in Ballots
    BY <1>2 DEF Ballots
  <2> HIDE DEF F, v
  <2>4. y \in Power /\ y.controller = x.controller /\ y.board = x.board
         /\ y.orders = x.orders /\ y.vote = v
    BY <2>2, <2>3, PowerWith
  <2> HIDE DEF y
  <2> QED
    BY <2>1, <2>2, <2>4 DEF v
<1>4. F \in [Powers -> Power]
  <2>1. F = [p \in Powers |-> F[p]]
    OBVIOUS
  <2> HIDE DEF F
  <2> QED
    BY <1>3, <2>1
<1> HIDE DEF F, h
<1>5. h \in Game /\ h.power = F /\ h.phase = g.phase /\ h.past = g.past
  BY <1>1, <1>4, GameWith
<1> QED
  BY <1>3, <1>5 DEF h

\* A power votes.
LEMMA SetVoteIs ==
    ASSUME NEW g \in Game, NEW q, NEW w \in Ballots
    PROVE  LET h == SetVote(g, q, w) IN
           /\ h \in Game /\ h.phase = g.phase /\ h.past = g.past
           /\ \A p \in Powers :
                 /\ h.power[p].controller = g.power[p].controller
                 /\ h.power[p].board = g.power[p].board
                 /\ h.power[p].orders = g.power[p].orders
                 /\ h.power[p].vote = IF p = q THEN w ELSE g.power[p].vote
<1> DEFINE F == [p \in Powers |-> IF p \in {q} THEN [g.power[p] EXCEPT !.vote = w] ELSE g.power[p]]
           h == SetVote(g, q, w)
<1>1. h = [g EXCEPT !.power = F]
  BY DEF SetVote, Each
<1>2. g.power \in [Powers -> Power] /\ \A p \in Powers : g.power[p] \in Power
  BY GameParts
<1>3. ASSUME NEW p \in Powers
      PROVE  /\ F[p] \in Power
             /\ F[p].controller = g.power[p].controller
             /\ F[p].board = g.power[p].board
             /\ F[p].orders = g.power[p].orders
             /\ F[p].vote = IF p = q THEN w ELSE g.power[p].vote
  <2> DEFINE x == g.power[p]
             v == w
             y == [x EXCEPT !.vote = v]
  <2>1. F[p] = IF p \in {q} THEN y ELSE g.power[p]
    OBVIOUS
  <2>2. x \in Power
    BY <1>2
  <2>3. v \in Ballots
    BY <1>2
  <2> HIDE DEF F, v
  <2>4. y \in Power /\ y.controller = x.controller /\ y.board = x.board
         /\ y.orders = x.orders /\ y.vote = v
    BY <2>2, <2>3, PowerWith
  <2> HIDE DEF y
  <2> QED
    BY <2>1, <2>2, <2>4 DEF v
<1>4. F \in [Powers -> Power]
  <2>1. F = [p \in Powers |-> F[p]]
    OBVIOUS
  <2> HIDE DEF F
  <2> QED
    BY <1>3, <2>1
<1> HIDE DEF F, h
<1>5. h \in Game /\ h.power = F /\ h.phase = g.phase /\ h.past = g.past
  BY <1>1, <1>4, GameWith
<1> QED
  BY <1>3, <1>5 DEF h

\* Game.set_orders
LEMMA SetOrdersIs ==
    ASSUME NEW g \in Game, NEW q, NEW os \in OrderSets
    PROVE  LET h == SetOrders(g, q, os) IN
           /\ h \in Game /\ h.phase = g.phase /\ h.past = g.past
           /\ \A p \in Powers :
                 /\ h.power[p].controller = g.power[p].controller
                 /\ h.power[p].board = g.power[p].board
                 /\ h.power[p].orders = IF p = q /\ "units" \in g.power[p].board
                                        THEN g.power[p].orders \cup os
                                        ELSE g.power[p].orders
                 /\ h.power[p].vote = g.power[p].vote
<1> DEFINE F == [p \in Powers |-> IF p \in {q} THEN [g.power[p] EXCEPT !.orders =
                                                   IF "units" \in g.power[p].board
                                                   THEN g.power[p].orders \cup os
                                                   ELSE g.power[p].orders]
                           ELSE g.power[p]]
           h == SetOrders(g, q, os)
<1>1. h = [g EXCEPT !.power = F]
  BY DEF SetOrders, Each
<1>2. g.power \in [Powers -> Power] /\ \A p \in Powers : g.power[p] \in Power
  BY GameParts
<1>3. ASSUME NEW p \in Powers
      PROVE  /\ F[p] \in Power
             /\ F[p].controller = g.power[p].controller
             /\ F[p].board = g.power[p].board
             /\ F[p].orders = IF p = q /\ "units" \in g.power[p].board THEN g.power[p].orders \cup os
                              ELSE g.power[p].orders
             /\ F[p].vote = g.power[p].vote
  <2> DEFINE x == g.power[p]
             v == IF "units" \in g.power[p].board THEN g.power[p].orders \cup os
                   ELSE g.power[p].orders
             y == [x EXCEPT !.orders = v]
  <2>1. F[p] = IF p \in {q} THEN y
                           ELSE g.power[p]
    OBVIOUS
  <2>2. x \in Power
    BY <1>2
  <2>3. v \in OrderSets
    BY <1>2, GameParts DEF OrderSets
  <2> HIDE DEF F, v
  <2>4. y \in Power /\ y.controller = x.controller /\ y.board = x.board
         /\ y.orders = v /\ y.vote = x.vote
    BY <2>2, <2>3, PowerWith
  <2> HIDE DEF y
  <2> QED
    BY <2>1, <2>2, <2>4 DEF v
<1>4. F \in [Powers -> Power]
  <2>1. F = [p \in Powers |-> F[p]]
    OBVIOUS
  <2> HIDE DEF F
  <2> QED
    BY <1>3, <2>1
<1> HIDE DEF F, h
<1>5. h \in Game /\ h.power = F /\ h.phase = g.phase /\ h.past = g.past
  BY <1>1, <1>4, GameWith
<1> QED
  BY <1>3, <1>5 DEF h

\* Power.set_controlled
LEMMA SetControlledIs ==
    ASSUME NEW g \in Game, NEW ps, NEW u \in Users \cup {Nobody}
    PROVE  LET h == SetControlled(g, ps, u) IN
           /\ h \in Game /\ h.phase = g.phase /\ h.past = g.past
           /\ \A p \in Powers :
                 /\ h.power[p].controller = IF p \in ps /\ g.power[p].controller.user # u
                                           THEN [user |-> u, since |-> g.power[p].controller.since + 1] ELSE g.power[p].controller
                 /\ h.power[p].board = g.power[p].board
                 /\ h.power[p].orders = g.power[p].orders
                 /\ h.power[p].vote = IF p \in ps /\ g.power[p].controller.user # u /\ u = Nobody
                                     THEN "neutral" ELSE g.power[p].vote
<1> DEFINE F == [p \in Powers |-> IF p \in ps /\ g.power[p].controller.user # u
                                  THEN [g.power[p] EXCEPT
                                           !.controller = [user |-> u, since |-> g.power[p].controller.since + 1],
                                           !.vote = IF u = Nobody THEN "neutral" ELSE g.power[p].vote]
                           ELSE g.power[p]]
           h == SetControlled(g, ps, u)
<1>1. h = [g EXCEPT !.power = F]
  BY DEF SetControlled, Each
<1>2. g.power \in [Powers -> Power] /\ \A p \in Powers : g.power[p] \in Power
  BY GameParts
<1>3. ASSUME NEW p \in Powers
      PROVE  /\ F[p] \in Power
             /\ F[p].controller = IF p \in ps /\ g.power[p].controller.user # u
                                       THEN [user |-> u, since |-> g.power[p].controller.since + 1] ELSE g.power[p].controller
             /\ F[p].board = g.power[p].board
             /\ F[p].orders = g.power[p].orders
             /\ F[p].vote = IF p \in ps /\ g.power[p].controller.user # u /\ u = Nobody
                                 THEN "neutral" ELSE g.power[p].vote
  <2> DEFINE x == g.power[p]
             v == [user |-> u, since |-> g.power[p].controller.since + 1]
             w == IF u = Nobody THEN "neutral" ELSE g.power[p].vote
             y == [x EXCEPT !.controller = v, !.vote = w]
  <2>1. F[p] = IF p \in ps /\ g.power[p].controller.user # u THEN y ELSE x
    OBVIOUS
  <2>2. x \in Power
    BY <1>2
  <2>3. v \in Controllership /\ w \in Ballots
    BY <1>2, GameParts DEF Controllership, Ballots
  <2> HIDE DEF F, v, w
  <2> DEFINE z == [x EXCEPT !.controller = v]
  <2>4. z \in Power /\ z.controller = v /\ z.board = x.board
        /\ z.orders = x.orders /\ z.vote = x.vote
    BY <2>2, <2>3, PowerWith
  <2>5. y = [z EXCEPT !.vote = w]
    BY <2>2 DEF Power
  <2> HIDE DEF z, y
  <2>6. y \in Power /\ y.controller = z.controller /\ y.board = z.board
        /\ y.orders = z.orders /\ y.vote = w
    BY <2>3, <2>4, <2>5, PowerWith
  <2> QED
    BY <2>1, <2>2, <2>4, <2>6 DEF v, w
<1>4. F \in [Powers -> Power]
  <2>1. F = [p \in Powers |-> F[p]]
    OBVIOUS
  <2> HIDE DEF F
  <2> QED
    BY <1>3, <2>1
<1> HIDE DEF F, h
<1>5. h \in Game /\ h.power = F /\ h.phase = g.phase /\ h.past = g.past
  BY <1>1, <1>4, GameWith
<1> QED
  BY <1>3, <1>5 DEF h

\* Game.update_powers_controllers
LEMMA UpdatePowersControllersIs ==
    ASSUME NEW g \in Game, NEW cs \in [Powers -> Controllership]
    PROVE  LET h == UpdatePowersControllers(g, cs) IN
           /\ h \in Game /\ h.phase = g.phase /\ h.past = g.past
           /\ \A p \in Powers :
                 /\ h.power[p].controller = IF cs[p].since > g.power[p].controller.since
                                           THEN cs[p] ELSE g.power[p].controller
                 /\ h.power[p].board = g.power[p].board
                 /\ h.power[p].orders = g.power[p].orders
                 /\ h.power[p].vote = g.power[p].vote
<1> DEFINE F == [p \in Powers |-> IF cs[p].since > g.power[p].controller.since
                                  THEN [g.power[p] EXCEPT !.controller = cs[p]]
                           ELSE g.power[p]]
           h == UpdatePowersControllers(g, cs)
<1>1. h = [g EXCEPT !.power = F]
  BY DEF UpdatePowersControllers
<1>2. g.power \in [Powers -> Power] /\ \A p \in Powers : g.power[p] \in Power
  BY GameParts
<1>3. ASSUME NEW p \in Powers
      PROVE  /\ F[p] \in Power
             /\ F[p].controller = IF cs[p].since > g.power[p].controller.since
                                       THEN cs[p] ELSE g.power[p].controller
             /\ F[p].board = g.power[p].board
             /\ F[p].orders = g.power[p].orders
             /\ F[p].vote = g.power[p].vote
  <2> DEFINE x == g.power[p]
             v == cs[p]
             y == [x EXCEPT !.controller = v]
  <2>1. F[p] = IF cs[p].since > g.power[p].controller.since THEN y ELSE x
    OBVIOUS
  <2>2. x \in Power
    BY <1>2
  <2>3. v \in Controllership
    BY <1>2, GameParts
  <2> HIDE DEF F, v
  <2>4. y \in Power /\ y.controller = v /\ y.board = x.board
        /\ y.orders = x.orders /\ y.vote = x.vote
    BY <2>2, <2>3, PowerWith
  <2> HIDE DEF y
  <2> QED
    BY <2>1, <2>2, <2>4 DEF v
<1>4. F \in [Powers -> Power]
  <2>1. F = [p \in Powers |-> F[p]]
    OBVIOUS
  <2> HIDE DEF F
  <2> QED
    BY <1>3, <2>1
<1> HIDE DEF F, h
<1>5. h \in Game /\ h.power = F /\ h.phase = g.phase /\ h.past = g.past
  BY <1>1, <1>4, GameWith
<1> QED
  BY <1>3, <1>5 DEF h

\* on_vote_updated
LEMMA OnVoteUpdatedIs ==
    ASSUME NEW g \in Game, NEW votes, \A p \in DOMAIN votes : votes[p] \in Ballots
    PROVE  LET h == OnVoteUpdated(g, votes) IN
           /\ h \in Game /\ h.phase = g.phase /\ h.past = g.past
           /\ \A p \in Powers :
                 /\ h.power[p].controller = g.power[p].controller
                 /\ h.power[p].board = g.power[p].board
                 /\ h.power[p].orders = g.power[p].orders
                 /\ h.power[p].vote = IF p \in DOMAIN votes THEN votes[p] ELSE g.power[p].vote
<1> DEFINE F == [p \in Powers |-> IF p \in DOMAIN votes THEN [g.power[p] EXCEPT !.vote = votes[p]]
                           ELSE g.power[p]]
           h == OnVoteUpdated(g, votes)
<1>1. h = [g EXCEPT !.power = F]
  BY DEF OnVoteUpdated
<1>2. g.power \in [Powers -> Power] /\ \A p \in Powers : g.power[p] \in Power
  BY GameParts
<1>3. ASSUME NEW p \in Powers
      PROVE  /\ F[p] \in Power
             /\ F[p].controller = g.power[p].controller
             /\ F[p].board = g.power[p].board
             /\ F[p].orders = g.power[p].orders
             /\ F[p].vote = IF p \in DOMAIN votes THEN votes[p] ELSE g.power[p].vote
  <2> DEFINE x == g.power[p]
             v == IF p \in DOMAIN votes THEN votes[p] ELSE g.power[p].vote
             y == [x EXCEPT !.vote = v]
  <2>1. F[p] = IF p \in DOMAIN votes THEN y ELSE x
    OBVIOUS
  <2>2. x \in Power
    BY <1>2
  <2>3. v \in Ballots
    BY <1>2, GameParts
  <2> HIDE DEF F, v
  <2>4. y \in Power /\ y.controller = x.controller /\ y.board = x.board
        /\ y.orders = x.orders /\ y.vote = v
    BY <2>2, <2>3, PowerWith
  <2> HIDE DEF y
  <2> QED
    BY <2>1, <2>2, <2>4 DEF v
<1>4. F \in [Powers -> Power]
  <2>1. F = [p \in Powers |-> F[p]]
    OBVIOUS
  <2> HIDE DEF F
  <2> QED
    BY <1>3, <2>1
<1> HIDE DEF F, h
<1>5. h \in Game /\ h.power = F /\ h.phase = g.phase /\ h.past = g.past
  BY <1>1, <1>4, GameWith
<1> QED
  BY <1>3, <1>5 DEF h

\* get_power_game: what a player sees.
LEMMA AsPowerGameIs ==
    ASSUME NEW g \in Game, NEW q \in Powers
    PROVE  LET h == AsPowerGame(g, q) IN
           /\ h \in Game /\ h.phase = g.phase /\ h.past = g.past
           /\ \A p \in Powers :
                 /\ h.power[p].controller = g.power[p].controller
                 /\ h.power[p].board = g.power[p].board
                 /\ h.power[p].orders = IF p \in Related(g, q) THEN g.power[p].orders ELSE {}
                 /\ h.power[p].vote = IF p \in Related(g, q) THEN g.power[p].vote ELSE "neutral"
<1> DEFINE F == [p \in Powers |-> IF p \in Powers \ Related(g, q)
                                  THEN [g.power[p] EXCEPT !.vote = "neutral", !.orders = {}]
                           ELSE g.power[p]]
           h == AsPowerGame(g, q)
<1>1. h = [g EXCEPT !.power = F]
  BY DEF AsPowerGame, Each
<1>2. g.power \in [Powers -> Power] /\ \A p \in Powers : g.power[p] \in Power
  BY GameParts
<1>3. ASSUME NEW p \in Powers
      PROVE  /\ F[p] \in Power
             /\ F[p].controller = g.power[p].controller
             /\ F[p].board = g.power[p].board
             /\ F[p].orders = IF p \in Related(g, q) THEN g.power[p].orders ELSE {}
             /\ F[p].vote = IF p \in Related(g, q) THEN g.power[p].vote ELSE "neutral"
  <2> DEFINE x == g.power[p]
             v == "neutral"
             w == {}
             y == [x EXCEPT !.vote = v, !.orders = w]
  <2>1. F[p] = IF p \in Powers \ Related(g, q) THEN y ELSE x
    OBVIOUS
  <2>2. x \in Power
    BY <1>2
  <2>3. v \in Ballots /\ w \in OrderSets
    BY <1>2, GameParts DEF OrderSets, Ballots
  <2> HIDE DEF F, v, w
  <2> DEFINE z == [x EXCEPT !.vote = v]
  <2>4. z \in Power /\ z.controller = x.controller /\ z.board = x.board
        /\ z.orders = x.orders /\ z.vote = v
    BY <2>2, <2>3, PowerWith
  <2>5. y = [z EXCEPT !.orders = w]
    BY <2>2 DEF Power
  <2> HIDE DEF z, y
  <2>6. y \in Power /\ y.controller = z.controller /\ y.board = z.board
        /\ y.orders = w /\ y.vote = z.vote
    BY <2>3, <2>4, <2>5, PowerWith
  <2> QED
    BY <2>1, <2>2, <2>4, <2>6 DEF v, w
<1>4. F \in [Powers -> Power]
  <2>1. F = [p \in Powers |-> F[p]]
    OBVIOUS
  <2> HIDE DEF F
  <2> QED
    BY <1>3, <2>1
<1> HIDE DEF F, h
<1>5. h \in Game /\ h.power = F /\ h.phase = g.phase /\ h.past = g.past
  BY <1>1, <1>4, GameWith
<1> QED
  BY <1>3, <1>5 DEF h

\* The boards of a game without orders and votes.
LEMMA CellsOf ==
    ASSUME NEW g \in Game, NEW bs \in [Powers -> Boards]
    PROVE  LET h == [p \in Powers |-> [g.power[p] EXCEPT !.board = bs[p]]] IN
           /\ h \in [Powers -> Power]
           /\ \A p \in Powers : /\ h[p].controller = g.power[p].controller /\ h[p].board = bs[p]
                                /\ h[p].orders = g.power[p].orders /\ h[p].vote = g.power[p].vote
<1> DEFINE h == [p \in Powers |-> [g.power[p] EXCEPT !.board = bs[p]]]
<1>1. ASSUME NEW p \in Powers
      PROVE  /\ h[p] \in Power /\ h[p].controller = g.power[p].controller /\ h[p].board = bs[p]
             /\ h[p].orders = g.power[p].orders /\ h[p].vote = g.power[p].vote
  <2> DEFINE x == g.power[p]
             v == bs[p]
  <2>1. h[p] = [x EXCEPT !.board = v]
    OBVIOUS
  <2>2. x \in Power /\ v \in Boards
    BY GameParts
  <2> HIDE DEF h, v
  <2> QED
    BY <2>1, <2>2, PowerWith DEF v
<1>2. h = [p \in Powers |-> h[p]]
  OBVIOUS
<1> HIDE DEF h
<1>3. h \in [Powers -> Power]
  BY <1>1, <1>2
<1> QED
  BY <1>1, <1>3 DEF h

\* Both ends forget the orders and the votes when a phase ends.
LEMMA ClearedIs ==
    ASSUME NEW g \in Game
    PROVE  /\ LET h == ClearVote(ClearOrders(g, Powers)) IN
              /\ h \in Game /\ h.phase = g.phase /\ h.past = g.past
              /\ \A p \in Powers : /\ h.power[p].controller = g.power[p].controller
                                   /\ h.power[p].board = g.power[p].board
                                   /\ h.power[p].orders = {} /\ h.power[p].vote = "neutral"
           /\ LET h == ClearOrders(ClearVote(g), Powers) IN
              /\ h \in Game /\ h.phase = g.phase /\ h.past = g.past
              /\ \A p \in Powers : /\ h.power[p].controller = g.power[p].controller
                                   /\ h.power[p].board = g.power[p].board
                                   /\ h.power[p].orders = {} /\ h.power[p].vote = "neutral"
<1> DEFINE a == ClearOrders(g, Powers)
           b == ClearVote(a)
           c == ClearVote(g)
           d == ClearOrders(c, Powers)
<1>1. /\ a \in Game /\ a.phase = g.phase /\ a.past = g.past
      /\ \A p \in Powers : /\ a.power[p].controller = g.power[p].controller
                           /\ a.power[p].board = g.power[p].board /\ a.power[p].orders = {}
  BY ClearOrdersIs
<1>2. /\ c \in Game /\ c.phase = g.phase /\ c.past = g.past
      /\ \A p \in Powers : /\ c.power[p].controller = g.power[p].controller
                           /\ c.power[p].board = g.power[p].board /\ c.power[p].vote = "neutral"
  BY ClearVoteIs
<1> HIDE DEF a, c
<1>3. /\ b \in Game /\ b.phase = a.phase /\ b.past = a.past
      /\ \A p \in Powers : /\ b.power[p].controller = a.power[p].controller
                           /\ b.power[p].board = a.power[p].board
                           /\ b.power[p].orders = a.power[p].orders /\ b.power[p].vote = "neutral"
  BY <1>1, ClearVoteIs
<1>4. /\ d \in Game /\ d.phase = c.phase /\ d.past = c.past
      /\ \A p \in Powers : /\ d.power[p].controller = c.power[p].controller
                           /\ d.power[p].board = c.power[p].board
                           /\ d.power[p].orders = {} /\ d.power[p].vote = c.power[p].vote
  BY <1>2, ClearOrdersIs
<1> HIDE DEF b, d
<1>5. /\ b \in Game /\ b.phase = g.phase /\ b.past = g.past
      /\ \A p \in Powers : /\ b.power[p].controller = g.power[p].controller
                           /\ b.power[p].board = g.power[p].board
                           /\ b.power[p].orders = {} /\ b.power[p].vote = "neutral"
  BY <1>1, <1>3
<1>6. /\ d \in Game /\ d.phase = g.phase /\ d.past = g.past
      /\ \A p \in Powers : /\ d.power[p].controller = g.power[p].controller
                           /\ d.power[p].board = g.power[p].board
                           /\ d.power[p].orders = {} /\ d.power[p].vote = "neutral"
  BY <1>2, <1>4
<1> QED
  BY <1>5, <1>6 DEF a, b, c, d

\* Game.set_phase_data
LEMMA SetPhaseDataIs ==
    ASSUME NEW g \in Game, NEW d \in Phases
    PROVE  LET h == SetPhaseData(g, d) IN
           /\ h \in Game /\ h.phase = d.phase /\ h.past = g.past \cup {d.previous}
           /\ \A p \in Powers : /\ h.power[p].controller = g.power[p].controller
                                /\ h.power[p].board = d.board[p]
                                /\ h.power[p].orders = {} /\ h.power[p].vote = "neutral"
<1> DEFINE c == ClearOrders(ClearVote(g), Powers)
           F == [p \in Powers |-> [c.power[p] EXCEPT !.board = d.board[p]]]
           h == SetPhaseData(g, d)
<1>1. h = [c EXCEPT !.past = c.past \cup {d.previous}, !.phase = d.phase, !.power = F]
  BY DEF SetPhaseData
<1>2. /\ c \in Game /\ c.past = g.past
      /\ \A p \in Powers : /\ c.power[p].controller = g.power[p].controller
                           /\ c.power[p].orders = {} /\ c.power[p].vote = "neutral"
  BY ClearedIs
<1>3. d.previous \in 1..MaxPhase /\ d.phase \in 1..Completed /\ d.board \in [Powers -> Boards]
  BY DEF Phases
<1> HIDE DEF c
<1>4. /\ F \in [Powers -> Power]
      /\ \A p \in Powers : /\ F[p].controller = c.power[p].controller /\ F[p].board = d.board[p]
                           /\ F[p].orders = c.power[p].orders /\ F[p].vote = c.power[p].vote
  BY <1>2, <1>3, CellsOf
<1> HIDE DEF F, h
<1>5. c.past \cup {d.previous} \in SUBSET (1..MaxPhase)
  BY <1>2, <1>3, GameParts
<1>6. h \in Game /\ h.past = c.past \cup {d.previous} /\ h.phase = d.phase /\ h.power = F
  BY <1>1, <1>2, <1>3, <1>4, <1>5 DEF Game
<1> QED
  BY <1>2, <1>4, <1>6 DEF h

\* Game.process
LEMMA ProcessedIs ==
    ASSUME NEW g \in Game, g.phase \in 1..MaxPhase, NEW ph \in 1..Completed,
           NEW bs \in [Powers -> Boards]
    PROVE  LET h == Processed(g, ph, bs) IN
           /\ h \in Game /\ h.phase = ph /\ h.past = g.past \cup {g.phase}
           /\ \A p \in Powers : /\ h.power[p].controller = g.power[p].controller
                                /\ h.power[p].board = bs[p]
                                /\ h.power[p].orders = {} /\ h.power[p].vote = "neutral"
<1> DEFINE c == ClearVote(ClearOrders(g, Powers))
           F == [p \in Powers |-> [c.power[p] EXCEPT !.board = bs[p]]]
           h == Processed(g, ph, bs)
<1>1. h = [c EXCEPT !.past = c.past \cup {g.phase}, !.phase = ph, !.power = F]
  BY DEF Processed
<1>2. /\ c \in Game /\ c.past = g.past
      /\ \A p \in Powers : /\ c.power[p].controller = g.power[p].controller
                           /\ c.power[p].orders = {} /\ c.power[p].vote = "neutral"
  BY ClearedIs
<1> HIDE DEF c
<1>3. /\ F \in [Powers -> Power]
      /\ \A p \in Powers : /\ F[p].controller = c.power[p].controller /\ F[p].board = bs[p]
                           /\ F[p].orders = c.power[p].orders /\ F[p].vote = c.power[p].vote
  BY <1>2, CellsOf
<1> HIDE DEF F, h
<1>4. c.past \cup {g.phase} \in SUBSET (1..MaxPhase)
  BY <1>2, GameParts
<1>5. h \in Game /\ h.past = c.past \cup {g.phase} /\ h.phase = ph /\ h.power = F
  BY <1>1, <1>2, <1>3, <1>4 DEF Game
<1> QED
  BY <1>2, <1>3, <1>5 DEF h

\* Game.draw
LEMMA DrawnIs ==
    ASSUME NEW g \in Game, g.phase \in 1..MaxPhase
    PROVE  LET h == Drawn(g) IN
           /\ h \in Game /\ h.phase = Completed /\ h.past = g.past \cup {g.phase}
           /\ \A p \in Powers : /\ h.power[p].controller = g.power[p].controller
                                /\ h.power[p].board = g.power[p].board
                                /\ h.power[p].orders = {} /\ h.power[p].vote = "neutral"
<1> DEFINE c == ClearVote(ClearOrders(g, Powers))
           h == Drawn(g)
<1>1. h = [c EXCEPT !.past = c.past \cup {g.phase}, !.phase = Completed]
  BY DEF Drawn
<1>2. /\ c \in Game /\ c.past = g.past
      /\ \A p \in Powers : /\ c.power[p].controller = g.power[p].controller
                           /\ c.power[p].board = g.power[p].board
                           /\ c.power[p].orders = {} /\ c.power[p].vote = "neutral"
  BY ClearedIs
<1> HIDE DEF c, h
<1>3. c.past \cup {g.phase} \in SUBSET (1..MaxPhase) /\ Completed \in 1..Completed
  BY <1>2, GameParts, Numbers
<1>4. h \in Game /\ h.past = c.past \cup {g.phase} /\ h.phase = Completed /\ h.power = c.power
  BY <1>1, <1>2, <1>3 DEF Game
<1> QED
  BY <1>2, <1>4 DEF h

\* A new copy agrees with the game on all that its role may see.
LEMMA CastIs ==
    ASSUME NEW g \in Game, NEW r \in Roles
    PROVE  LET h == Cast(g, r) IN
           /\ h \in Game /\ h.phase = g.phase /\ h.past = g.past
           /\ \A p \in Powers : h.power[p].controller = g.power[p].controller
           /\ r \in Powers => h.power[r].vote = g.power[r].vote
           /\ r \in Powers => \A p \in Powers : p \notin Related(g, r) => h.power[p].orders = {}
           /\ r \in Special => \A p \in Powers : /\ h.power[p].board = g.power[p].board
                                                 /\ h.power[p].orders = g.power[p].orders
<1>1. r \in Powers \/ r = "observer" \/ r = "omniscient"
  BY DEF Roles, Special
<1>2. CASE r = "observer"
  <2>1. r \notin Powers /\ Cast(g, r) = ClearVote(g)
    BY <1>2, ViewsAssumption DEF Cast, AsObserverGame, Special
  <2> QED
    BY <2>1, ClearVoteIs
<1>3. CASE r = "omniscient"
  <2>1. r \notin Powers /\ Cast(g, r) = g
    BY <1>3, ViewsAssumption DEF Cast, Special
  <2> QED
    BY <2>1
<1>4. CASE r \in Powers
  <2>1. r \notin Special /\ r # "observer" /\ r # "omniscient"
    BY <1>4, ViewsAssumption DEF Special
  <2>2. Cast(g, r) = AsPowerGame(g, r)
    BY <2>1 DEF Cast
  <2>3. r \in Related(g, r)
    BY <1>4 DEF Related, ControlledBy
  <2> DEFINE h == AsPowerGame(g, r)
  <2>4. /\ h \in Game /\ h.phase = g.phase /\ h.past = g.past
        /\ \A p \in Powers : /\ h.power[p].controller = g.power[p].controller
                             /\ h.power[p].orders = IF p \in Related(g, r) THEN g.power[p].orders ELSE {}
                             /\ h.power[p].vote = IF p \in Related(g, r) THEN g.power[p].vote ELSE "neutral"
    BY <1>4, AsPowerGameIs
  <2> HIDE DEF h
  <2>5. h.power[r].vote = g.power[r].vote
    BY <1>4, <2>3, <2>4
  <2> QED
    BY <2>1, <2>2, <2>4, <2>5 DEF h
<1> QED
  BY <1>1, <1>2, <1>3, <1>4

----------------------------------------------------------------------------
(* What becomes of a copy.                                                  *)

\* The parts of a notification have their types.
LEMMA NoticeParts ==
    ASSUME NEW n \in Notification
    PROVE  /\ n.type # "AccountDeleted" => n.role \in Roles
           /\ n.type = "PowersControllers" => n.powers \in [Powers -> Controllership]
           /\ n.type = "GameProcessed" => n.data \in Phases
           /\ n.type = "PowerOrdersUpdate" => n.power \in Powers /\ n.orders \in OrderSets
           /\ n.type \in {"ClearedOrders", "ClearedUnits", "ClearedCenters"} => n.powers \subseteq Powers
           /\ n.type = "VoteUpdated" => DOMAIN n.vote \subseteq Powers
                                        /\ \A p \in DOMAIN n.vote : n.vote[p] \in Ballots
           /\ n.type \in {"AccountDeleted", "GameDeleted", "OmniscientUpdated", "PowersControllers",
                          "GameProcessed", "PowerOrdersUpdate", "ClearedOrders", "ClearedUnits",
                          "ClearedCenters", "VoteUpdated"}
<1>1. CASE n \in [type : {"AccountDeleted"}]
  BY <1>1
<1>2. CASE n \in [type : {"GameDeleted", "OmniscientUpdated"}, role : Roles]
  BY <1>2
<1>3. CASE n \in [type : {"PowersControllers"}, role : Roles, powers : [Powers -> Controllership]]
  BY <1>3
<1>4. CASE n \in [type : {"GameProcessed"}, role : Roles, data : Phases]
  BY <1>4
<1>5. CASE n \in [type : {"PowerOrdersUpdate"}, role : Roles, power : Powers, orders : OrderSets]
  BY <1>5
<1>6. CASE n \in [type : {"ClearedOrders", "ClearedUnits", "ClearedCenters"}, role : Roles,
                  powers : SUBSET Powers]
  BY <1>6
<1>7. CASE n \in [type : {"VoteUpdated"}, role : Roles,
                  vote : UNION {[ps -> Ballots] : ps \in SUBSET Powers}]
  <2>1. PICK ps \in SUBSET Powers : n.vote \in [ps -> Ballots]
    BY <1>7
  <2>2. DOMAIN n.vote = ps /\ \A p \in ps : n.vote[p] \in Ballots
    BY <2>1
  <2> QED
    BY <1>7, <2>2
<1> QED
  BY <1>1, <1>2, <1>3, <1>4, <1>5, <1>6, <1>7 DEF Notification

\* A view is known by its parts.
LEMMA ViewEquals ==
    ASSUME NEW g, NEW r, NEW phase, NEW past, NEW cs, NEW tb,
           g.phase = phase, g.past = past,
           cs = [p \in Powers |-> g.power[p].controller],
           tb = [p \in Watches(r) |-> [board |-> g.power[p].board, orders |-> g.power[p].orders]]
    PROVE  View(g, r) = [phase |-> phase, past |-> past, controllers |-> cs, table |-> tb]
  BY DEF View, Controllers

\* The parts of what a copy has of the game.
LEMMA ViewParts ==
    ASSUME NEW g, NEW r
    PROVE  LET v == View(g, r) IN
           /\ v.phase = g.phase /\ v.past = g.past
           /\ v.controllers = [p \in Powers |-> g.power[p].controller]
           /\ v.table = [p \in Watches(r) |-> [board |-> g.power[p].board, orders |-> g.power[p].orders]]
  BY DEF View, Controllers

\* A role watches powers only.
LEMMA WatchesPowers == ASSUME NEW r PROVE Watches(r) \subseteq Powers
  BY DEF Watches

\* Controllers are told.
LEMMA AfterControllers ==
    ASSUME NEW g \in Game, NEW r, NEW h \in Game, NEW n, n.type = "PowersControllers",
           h.phase = g.phase, h.past = g.past,
           \A p \in Powers :
              /\ h.power[p].board = g.power[p].board /\ h.power[p].orders = g.power[p].orders
              /\ h.power[p].controller = IF n.powers[p].since > g.power[p].controller.since
                                         THEN n.powers[p] ELSE g.power[p].controller
    PROVE  View(h, r) = After(View(g, r), n)
<1> DEFINE v == View(g, r)
           cs == [p \in Powers |-> IF n.powers[p].since > v.controllers[p].since
                                   THEN n.powers[p] ELSE v.controllers[p]]
<1>1. /\ v.phase = g.phase /\ v.past = g.past
      /\ v.controllers = [p \in Powers |-> g.power[p].controller]
      /\ v.table = [p \in Watches(r) |-> [board |-> g.power[p].board, orders |-> g.power[p].orders]]
  BY ViewParts
<1>2. After(v, n) = [phase |-> v.phase, past |-> v.past, controllers |-> cs, table |-> v.table]
  BY DEF After
<1> HIDE DEF v
<1>3. cs = [p \in Powers |-> h.power[p].controller]
  BY <1>1
<1>4. v.table = [p \in Watches(r) |-> [board |-> h.power[p].board, orders |-> h.power[p].orders]]
  BY <1>1, WatchesPowers
<1> HIDE DEF cs
<1>5. View(h, r) = [phase |-> v.phase, past |-> v.past, controllers |-> cs, table |-> v.table]
  BY <1>1, <1>3, <1>4, ViewEquals
<1> QED
  BY <1>2, <1>5 DEF v

\* The game is processed.
LEMMA AfterProcessed ==
    ASSUME NEW g \in Game, NEW r, NEW h \in Game, NEW n, n.type = "GameProcessed",
           h.phase = n.data.phase, h.past = g.past \cup {n.data.previous},
           \A p \in Powers :
              /\ h.power[p].board = n.data.board[p] /\ h.power[p].orders = {}
              /\ h.power[p].controller = g.power[p].controller
    PROVE  View(h, r) = After(View(g, r), n)
<1> DEFINE v == View(g, r)
           tb == [p \in DOMAIN v.table |-> [board |-> n.data.board[p], orders |-> {}]]
<1>1. /\ v.phase = g.phase /\ v.past = g.past
      /\ v.controllers = [p \in Powers |-> g.power[p].controller]
      /\ v.table = [p \in Watches(r) |-> [board |-> g.power[p].board, orders |-> g.power[p].orders]]
  BY ViewParts
<1>2. After(v, n) = [phase |-> n.data.phase, past |-> v.past \cup {n.data.previous},
                     controllers |-> v.controllers, table |-> tb]
  BY DEF After
<1> HIDE DEF v
<1>3. v.controllers = [p \in Powers |-> h.power[p].controller]
  BY <1>1
<1>4. tb = [p \in Watches(r) |-> [board |-> h.power[p].board, orders |-> h.power[p].orders]]
  BY <1>1, WatchesPowers
<1> DEFINE past == v.past \cup {n.data.previous}
<1>5. h.past = past
  BY <1>1
<1> HIDE DEF tb, past
<1>6. View(h, r) = [phase |-> n.data.phase, past |-> past, controllers |-> v.controllers, table |-> tb]
  BY <1>3, <1>4, <1>5, ViewEquals
<1> QED
  BY <1>2, <1>6 DEF v, past

\* What is at the table changes, or nothing of a view.
Laid(g, h, n) ==
    \A p \in Powers : [board |-> h.power[p].board, orders |-> h.power[p].orders]
                        = Cell([board |-> g.power[p].board, orders |-> g.power[p].orders], n, p)

\* A notification about the table, handled: the cells change as it says.
LEMMA AfterTable ==
    ASSUME NEW g \in Game, NEW r, NEW h \in Game, NEW n,
           n.type \notin {"PowersControllers", "GameProcessed"},
           h.phase = g.phase, h.past = g.past,
           \A p \in Powers : h.power[p].controller = g.power[p].controller, Laid(g, h, n)
    PROVE  View(h, r) = After(View(g, r), n)
<1> DEFINE v == View(g, r)
           tb == [p \in DOMAIN v.table |-> Cell(v.table[p], n, p)]
<1>1. /\ v.phase = g.phase /\ v.past = g.past
      /\ v.controllers = [p \in Powers |-> g.power[p].controller]
      /\ v.table = [p \in Watches(r) |-> [board |-> g.power[p].board, orders |-> g.power[p].orders]]
  BY ViewParts
<1>2. After(v, n) = [phase |-> v.phase, past |-> v.past, controllers |-> v.controllers, table |-> tb]
  BY DEF After
<1> HIDE DEF v
<1>3. v.controllers = [p \in Powers |-> h.power[p].controller]
  BY <1>1
<1>4. tb = [p \in Watches(r) |-> [board |-> h.power[p].board, orders |-> h.power[p].orders]]
  BY <1>1, WatchesPowers DEF Laid
<1> HIDE DEF tb
<1>5. View(h, r) = [phase |-> v.phase, past |-> v.past, controllers |-> v.controllers, table |-> tb]
  BY <1>1, <1>3, <1>4, ViewEquals
<1> QED
  BY <1>2, <1>5 DEF v

\* Nothing of a view changes.
LEMMA SameView ==
    ASSUME NEW g \in Game, NEW r, NEW h \in Game, h.phase = g.phase, h.past = g.past,
           \A p \in Powers : h.power[p].controller = g.power[p].controller,
           \A p \in Watches(r) : h.power[p].board = g.power[p].board /\ h.power[p].orders = g.power[p].orders
    PROVE  View(h, r) = View(g, r)
<1>1. [p \in Powers |-> g.power[p].controller] = [p \in Powers |-> h.power[p].controller]
  OBVIOUS
<1>2. [p \in Watches(r) |-> [board |-> g.power[p].board, orders |-> g.power[p].orders]]
        = [p \in Watches(r) |-> [board |-> h.power[p].board, orders |-> h.power[p].orders]]
  OBVIOUS
<1> QED
  BY <1>1, <1>2 DEF View, Controllers

\* What the handlers do to the copy of role n.role.
Updates == {"PowersControllers", "GameProcessed", "PowerOrdersUpdate", "ClearedOrders",
            "ClearedUnits", "ClearedCenters", "VoteUpdated"}

\* A notification handled by a game changes what a copy has of it as After says.
LEMMA HandledIs ==
    ASSUME NEW g \in Game, NEW n \in Notification, n.type \in Updates, NEW r
    PROVE  LET h == OnGameNotification(g, n) IN
           /\ h \in Game /\ View(h, r) = After(View(g, r), n)
           /\ \A p \in Powers :
                 h.power[p].vote = CASE n.type = "GameProcessed" -> "neutral"
                                     [] n.type = "VoteUpdated" /\ p \in DOMAIN n.vote -> n.vote[p]
                                     [] OTHER -> g.power[p].vote
<1> DEFINE h == OnGameNotification(g, n)
           cell(p) == [board |-> g.power[p].board, orders |-> g.power[p].orders]
<1>1. CASE n.type = "PowersControllers"
  <2>1. h = UpdatePowersControllers(g, n.powers) /\ n.powers \in [Powers -> Controllership]
    BY <1>1, NoticeParts DEF OnGameNotification
  <2> HIDE DEF h
  <2>2. /\ h \in Game /\ h.phase = g.phase /\ h.past = g.past
        /\ \A p \in Powers : /\ h.power[p].controller = IF n.powers[p].since > g.power[p].controller.since
                                                        THEN n.powers[p] ELSE g.power[p].controller
                             /\ h.power[p].board = g.power[p].board
                             /\ h.power[p].orders = g.power[p].orders
                             /\ h.power[p].vote = g.power[p].vote
    BY <2>1, UpdatePowersControllersIs
  <2>3. View(h, r) = After(View(g, r), n)
    BY <1>1, <2>2, AfterControllers
  <2> QED
    BY <1>1, <2>2, <2>3 DEF h
<1>2. CASE n.type = "GameProcessed"
  <2>1. h = SetPhaseData(g, n.data) /\ n.data \in Phases
    BY <1>2, NoticeParts DEF OnGameNotification
  <2> HIDE DEF h
  <2>2. /\ h \in Game /\ h.phase = n.data.phase /\ h.past = g.past \cup {n.data.previous}
        /\ \A p \in Powers : /\ h.power[p].controller = g.power[p].controller
                             /\ h.power[p].board = n.data.board[p]
                             /\ h.power[p].orders = {} /\ h.power[p].vote = "neutral"
    BY <2>1, SetPhaseDataIs
  <2>3. View(h, r) = After(View(g, r), n)
    BY <1>2, <2>2, AfterProcessed
  <2>4. h \in Game /\ \A p \in Powers : h.power[p].vote = "neutral"
    BY <2>2
  <2> QED
    BY <1>2, <2>3, <2>4 DEF h
<1>3. ASSUME n.type \notin {"PowersControllers", "GameProcessed"}, h \in Game,
             h.phase = g.phase, h.past = g.past,
             \A p \in Powers :
                /\ h.power[p].controller = g.power[p].controller
                /\ [board |-> h.power[p].board, orders |-> h.power[p].orders] = Cell(cell(p), n, p)
      PROVE  View(h, r) = After(View(g, r), n)
  <2> HIDE DEF h
  <2>1. Laid(g, h, n)
    BY <1>3 DEF Laid
  <2>2. \A p \in Powers : h.power[p].controller = g.power[p].controller
    BY <1>3
  <2>3. h \in Game /\ h.phase = g.phase /\ h.past = g.past
    BY <1>3
  <2>4. n.type \notin {"PowersControllers", "GameProcessed"}
    BY <1>3
  <2> QED
    BY <2>1, <2>2, <2>3, <2>4, AfterTable
<1>4. CASE n.type = "PowerOrdersUpdate"
  <2> DEFINE c == ClearOrders(g, {n.power})
  <2>1. h = SetOrders(c, n.power, n.orders) /\ n.power \in Powers /\ n.orders \in OrderSets
    BY <1>4, NoticeParts DEF OnGameNotification, OnPowerOrdersUpdate
  <2>2. /\ c \in Game /\ c.phase = g.phase /\ c.past = g.past
        /\ \A p \in Powers : /\ c.power[p].controller = g.power[p].controller
                             /\ c.power[p].board = g.power[p].board
                             /\ c.power[p].orders = IF p \in {n.power} THEN {} ELSE g.power[p].orders
                             /\ c.power[p].vote = g.power[p].vote
    BY ClearOrdersIs
  <2> HIDE DEF c, h
  <2>3. /\ h \in Game /\ h.phase = c.phase /\ h.past = c.past
        /\ \A p \in Powers : /\ h.power[p].controller = c.power[p].controller
                             /\ h.power[p].board = c.power[p].board
                             /\ h.power[p].orders = IF p = n.power /\ "units" \in c.power[p].board
                                                    THEN c.power[p].orders \cup n.orders
                                                    ELSE c.power[p].orders
                             /\ h.power[p].vote = c.power[p].vote
    BY <2>1, <2>2, SetOrdersIs, SMTT(30)
  <2>4. ASSUME NEW p \in Powers
        PROVE  [board |-> h.power[p].board, orders |-> h.power[p].orders] = Cell(cell(p), n, p)
    <3>1. CASE p = n.power
      <4>1. Cell(cell(p), n, p) = [board |-> g.power[p].board,
                                   orders |-> IF "units" \in g.power[p].board THEN n.orders ELSE {}]
        BY <1>4, <3>1 DEF Cell
      <4>2. h.power[p].orders = IF "units" \in g.power[p].board THEN n.orders ELSE {}
        BY <2>2, <2>3, <3>1
      <4>3. h.power[p].board = g.power[p].board
        BY <2>2, <2>3
      <4> HIDE DEF cell
      <4> QED
        BY <4>1, <4>2, <4>3
    <3>2. CASE p # n.power
      <4>1. Cell(cell(p), n, p) = cell(p)
        BY <1>4, <3>2 DEF Cell
      <4> QED
        BY <2>2, <2>3, <3>2, <4>1
    <3> QED
      BY <3>1, <3>2
  <2> HIDE DEF cell
  <2>5. h \in Game /\ View(h, r) = After(View(g, r), n)
    BY <1>3, <1>4, <2>2, <2>3, <2>4
  <2> QED
    BY <1>4, <2>2, <2>3, <2>5 DEF h
<1>5. CASE n.type = "ClearedOrders"
  <2>1. h = ClearOrders(g, n.powers)
    BY <1>5 DEF OnGameNotification
  <2> HIDE DEF h
  <2>2. /\ h \in Game /\ h.phase = g.phase /\ h.past = g.past
        /\ \A p \in Powers : /\ h.power[p].controller = g.power[p].controller
                             /\ h.power[p].board = g.power[p].board
                             /\ h.power[p].orders = IF p \in n.powers THEN {} ELSE g.power[p].orders
                             /\ h.power[p].vote = g.power[p].vote
    BY <2>1, ClearOrdersIs
  <2>3. ASSUME NEW p \in Powers
        PROVE  [board |-> h.power[p].board, orders |-> h.power[p].orders] = Cell(cell(p), n, p)
    BY <1>5, <2>2 DEF Cell
  <2> HIDE DEF cell
  <2>4. h \in Game /\ View(h, r) = After(View(g, r), n)
    BY <1>3, <1>5, <2>2, <2>3
  <2> QED
    BY <1>5, <2>2, <2>4 DEF h
<1>6. CASE n.type = "ClearedUnits"
  <2>1. h = ClearUnits(g, n.powers)
    BY <1>6 DEF OnGameNotification
  <2> HIDE DEF h
  <2>2. /\ h \in Game /\ h.phase = g.phase /\ h.past = g.past
        /\ \A p \in Powers : /\ h.power[p].controller = g.power[p].controller
                             /\ h.power[p].board = LessUnits(g, n.powers, p)
                             /\ h.power[p].orders = g.power[p].orders
                             /\ h.power[p].vote = g.power[p].vote
    BY <2>1, ClearUnitsIs
  <2>3. ASSUME NEW p \in Powers
        PROVE  [board |-> h.power[p].board, orders |-> h.power[p].orders] = Cell(cell(p), n, p)
    BY <1>6, <2>2 DEF Cell, LessUnits
  <2> HIDE DEF cell
  <2>4. h \in Game /\ View(h, r) = After(View(g, r), n)
    BY <1>3, <1>6, <2>2, <2>3
  <2> QED
    BY <1>6, <2>2, <2>4 DEF h
<1>7. CASE n.type = "ClearedCenters"
  <2>1. h = ClearCenters(g, n.powers)
    BY <1>7 DEF OnGameNotification
  <2> HIDE DEF h
  <2>2. /\ h \in Game /\ h.phase = g.phase /\ h.past = g.past
        /\ \A p \in Powers : /\ h.power[p].controller = g.power[p].controller
                             /\ h.power[p].board = LessCenters(g, n.powers, p)
                             /\ h.power[p].orders = g.power[p].orders
                             /\ h.power[p].vote = g.power[p].vote
    BY <2>1, ClearCentersIs
  <2>3. ASSUME NEW p \in Powers
        PROVE  [board |-> h.power[p].board, orders |-> h.power[p].orders] = Cell(cell(p), n, p)
    BY <1>7, <2>2 DEF Cell, LessCenters
  <2> HIDE DEF cell
  <2>4. h \in Game /\ View(h, r) = After(View(g, r), n)
    BY <1>3, <1>7, <2>2, <2>3
  <2> QED
    BY <1>7, <2>2, <2>4 DEF h
<1>8. CASE n.type = "VoteUpdated"
  <2>1. h = OnVoteUpdated(g, n.vote) /\ \A p \in DOMAIN n.vote : n.vote[p] \in Ballots
    BY <1>8, NoticeParts DEF OnGameNotification
  <2> HIDE DEF h
  <2>2. /\ h \in Game /\ h.phase = g.phase /\ h.past = g.past
        /\ \A p \in Powers : /\ h.power[p].controller = g.power[p].controller
                             /\ h.power[p].board = g.power[p].board
                             /\ h.power[p].orders = g.power[p].orders
                             /\ h.power[p].vote = IF p \in DOMAIN n.vote THEN n.vote[p]
                                                  ELSE g.power[p].vote
    BY <2>1, OnVoteUpdatedIs
  <2>3. ASSUME NEW p \in Powers
        PROVE  [board |-> h.power[p].board, orders |-> h.power[p].orders] = Cell(cell(p), n, p)
    BY <1>8, <2>2 DEF Cell
  <2> HIDE DEF cell
  <2>4. h \in Game /\ View(h, r) = After(View(g, r), n)
    BY <1>3, <1>8, <2>2, <2>3
  <2> QED
    BY <1>8, <2>2, <2>4 DEF h
<1> HIDE DEF h
<1> QED
  BY <1>1, <1>2, <1>4, <1>5, <1>6, <1>7, <1>8 DEF h, Updates

----------------------------------------------------------------------------
(* What comes, when more is queued or the first is handled.                 *)

Grown(box, next) == Len(box) <= Len(next) /\ \A i \in 1..Len(box) : next[i] = box[i]
NoneFor(box, next, r) ==
    Grown(box, next) /\ \A i \in (Len(box) + 1)..Len(next) : ~For(next[i], r)
OneFor(box, next, r, n) ==
    /\ Grown(box, next) /\ For(n, r)
    /\ \E k \in (Len(box) + 1)..Len(next) :
          /\ next[k] = n
          /\ \A j \in (Len(box) + 1)..Len(next) : For(next[j], r) => j = k

\* All is delivered, or nothing is under way for the role.
LEMMA NothingComes ==
    ASSUME NEW box \in Seq(Notification), NEW r, NEW v, \A i \in 1..Len(box) : ~For(box[i], r)
    PROVE  Comes(box, r, v, v)
<1> DEFINE f == [i \in 0..Len(box) |-> v]
<1>1. Len(box) \in Nat
  OBVIOUS
<1>2. DOMAIN f = 0..Len(box) /\ f[0] = v /\ f[Len(box)] = v
  BY <1>1
<1>3. ASSUME NEW i \in 1..Len(box) PROVE f[i] = f[i - 1] /\ ~For(box[i], r)
  <2>1. i \in 0..Len(box) /\ i - 1 \in 0..Len(box)
    BY <1>1
  <2> QED
    BY <2>1
<1> HIDE DEF f
<1>4. Course(f, box, r, v, v)
  BY <1>2, <1>3 DEF Course
<1> QED
  BY <1>4 DEF Comes

\* With nothing under way, a copy has what the server has.
LEMMA AllCame ==
    ASSUME NEW r, NEW v, NEW w, Comes(<<>>, r, v, w)
    PROVE  v = w
<1>1. PICK f : Course(f, <<>>, r, v, w)
  BY DEF Comes
<1>2. f[0] = v /\ f[Len(<<>>)] = w /\ Len(<<>>) = 0
  BY <1>1 DEF Course
<1> QED
  BY <1>2

\* A notification is queued for the copy: the last of what comes.
LEMMA OneMoreComes ==
    ASSUME NEW box \in Seq(Notification), NEW next \in Seq(Notification), NEW r, NEW n,
           NEW first, NEW last, OneFor(box, next, r, n), Comes(box, r, first, last)
    PROVE  Comes(next, r, first, After(last, n))
<1>1. PICK f : Course(f, box, r, first, last)
  BY DEF Comes
<1>2. PICK k \in (Len(box) + 1)..Len(next) :
          next[k] = n /\ \A j \in (Len(box) + 1)..Len(next) : For(next[j], r) => j = k
  BY DEF OneFor
<1>3. Len(box) <= Len(next) /\ \A i \in 1..Len(box) : next[i] = box[i]
  BY DEF OneFor, Grown
<1>4. Len(box) \in Nat /\ Len(next) \in Nat /\ k \in Nat
  BY <1>2
<1> DEFINE b == Len(box)
           h == [i \in 0..Len(next) |-> IF i <= b THEN f[i] ELSE IF i < k THEN last ELSE After(last, n)]
<1>5. /\ \A i \in 0..b : h[i] = f[i]
      /\ \A i \in (b + 1)..Len(next) : h[i] = IF i < k THEN last ELSE After(last, n)
      /\ DOMAIN h = 0..Len(next)
  BY <1>3, <1>4
<1> HIDE DEF h
<1>6. f[0] = first /\ f[b] = last /\ \A i \in 1..b : f[i] = IF For(box[i], r) THEN After(f[i - 1], box[i])
                                                            ELSE f[i - 1]
  BY <1>1 DEF Course
<1>7. h[0] = first
  BY <1>4, <1>5, <1>6
<1>8. h[Len(next)] = After(last, n)
  <2>1. Len(next) \in (b + 1)..Len(next) /\ ~(Len(next) < k)
    BY <1>2, <1>4
  <2> QED
    BY <1>5, <2>1
<1>9. ASSUME NEW i \in 1..Len(next)
      PROVE  h[i] = IF For(next[i], r) THEN After(h[i - 1], next[i]) ELSE h[i - 1]
  <2>1. CASE i <= b
    <3>1. i \in 1..b /\ i \in 0..b /\ i - 1 \in 0..b
      BY <1>4, <2>1
    <3> QED
      BY <1>3, <1>5, <1>6, <3>1
  <2>2. CASE i > b
    <3>1. i \in (b + 1)..Len(next)
      BY <1>4, <2>2
    <3>2. h[i] = IF i < k THEN last ELSE After(last, n)
      BY <1>5, <3>1
    <3>3. h[i - 1] = IF i - 1 < k THEN last ELSE After(last, n)
      <4>1. CASE i - 1 = b
        <5>1. b \in 0..b /\ i - 1 < k
          BY <1>2, <1>4, <4>1
        <5> QED
          BY <1>5, <1>6, <4>1, <5>1
      <4>2. CASE i - 1 # b
        <5>1. i - 1 \in (b + 1)..Len(next)
          BY <1>4, <3>1, <4>2
        <5> QED
          BY <1>5, <5>1
      <4> QED
        BY <4>1, <4>2
    <3>4. CASE i = k
      <4>1. For(next[i], r) /\ next[i] = n
        BY <1>2, <3>4 DEF OneFor
      <4>2. h[i] = After(last, n) /\ h[i - 1] = last
        BY <1>4, <3>2, <3>3, <3>4
      <4> QED
        BY <4>1, <4>2
    <3>5. CASE i # k
      <4>1. ~For(next[i], r)
        BY <1>2, <3>1, <3>5
      <4>2. h[i] = h[i - 1]
        BY <1>4, <3>2, <3>3, <3>5
      <4> QED
        BY <4>1, <4>2
    <3> QED
      BY <3>4, <3>5
  <2> QED
    BY <1>4, <2>1, <2>2
<1>10. Course(h, next, r, first, After(last, n))
  BY <1>5, <1>7, <1>8, <1>9 DEF Course
<1> QED
  BY <1>10 DEF Comes

\* Nothing is queued for the copy: the same comes.
LEMMA NoMoreComes ==
    ASSUME NEW box \in Seq(Notification), NEW next \in Seq(Notification), NEW r,
           NEW first, NEW last, NoneFor(box, next, r), Comes(box, r, first, last)
    PROVE  Comes(next, r, first, last)
<1>1. PICK f : Course(f, box, r, first, last)
  BY DEF Comes
<1>3. /\ Len(box) <= Len(next) /\ \A i \in 1..Len(box) : next[i] = box[i]
      /\ \A i \in (Len(box) + 1)..Len(next) : ~For(next[i], r)
  BY DEF NoneFor, Grown
<1>4. Len(box) \in Nat /\ Len(next) \in Nat
  OBVIOUS
<1> DEFINE b == Len(box)
           h == [i \in 0..Len(next) |-> IF i <= b THEN f[i] ELSE last]
<1>5. /\ \A i \in 0..b : h[i] = f[i]
      /\ \A i \in (b + 1)..Len(next) : h[i] = last
      /\ DOMAIN h = 0..Len(next)
  BY <1>3, <1>4
<1> HIDE DEF h
<1>6. f[0] = first /\ f[b] = last /\ \A i \in 1..b : f[i] = IF For(box[i], r) THEN After(f[i - 1], box[i])
                                                            ELSE f[i - 1]
  BY <1>1 DEF Course
<1>7. h[0] = first
  BY <1>4, <1>5, <1>6
<1>8. h[Len(next)] = last
  <2>1. b \in 0..b /\ (Len(next) = b \/ Len(next) \in (b + 1)..Len(next))
    BY <1>3, <1>4
  <2> QED
    BY <1>5, <1>6, <2>1
<1>9. ASSUME NEW i \in 1..Len(next)
      PROVE  h[i] = IF For(next[i], r) THEN After(h[i - 1], next[i]) ELSE h[i - 1]
  <2>1. CASE i <= b
    <3>1. i \in 1..b /\ i \in 0..b /\ i - 1 \in 0..b
      BY <1>4, <2>1
    <3> QED
      BY <1>3, <1>5, <1>6, <3>1
  <2>2. CASE i > b
    <3>1. i \in (b + 1)..Len(next) /\ b \in 0..b
      BY <1>4, <2>2
    <3>2. h[i] = last
      BY <1>5, <3>1
    <3>3. h[i - 1] = last
      <4>1. CASE i - 1 = b
        BY <1>5, <1>6, <3>1, <4>1
      <4>2. CASE i - 1 # b
        <5>1. i - 1 \in (b + 1)..Len(next)
          BY <1>4, <3>1, <4>2
        <5> QED
          BY <1>5, <5>1
      <4> QED
        BY <4>1, <4>2
    <3> QED
      BY <1>3, <3>1, <3>2, <3>3
  <2> QED
    BY <1>4, <2>1, <2>2
<1>10. Course(h, next, r, first, last)
  BY <1>5, <1>7, <1>8, <1>9 DEF Course
<1> QED
  BY <1>10 DEF Comes

\* The first of a sequence and the others.
LEMMA HeadTail ==
    ASSUME NEW S, NEW box \in Seq(S), box # <<>>
    PROVE  /\ Head(box) = box[1] /\ Head(box) \in S /\ Tail(box) \in Seq(S)
           /\ Len(box) \in Nat /\ Len(box) >= 1 /\ Len(Tail(box)) = Len(box) - 1
           /\ \A i \in 1..Len(Tail(box)) : Tail(box)[i] = box[i + 1] /\ i + 1 \in 1..Len(box)
  OBVIOUS

\* The first of the queue is taken.
LEMMA HeadCame ==
    ASSUME NEW box \in Seq(Notification), box # <<>>, NEW r, NEW first, NEW last,
           Comes(box, r, first, last)
    PROVE  Comes(Tail(box), r, IF For(Head(box), r) THEN After(first, Head(box)) ELSE first, last)
<1> DEFINE tail == Tail(box)
           second == IF For(Head(box), r) THEN After(first, Head(box)) ELSE first
<1>1. PICK f : Course(f, box, r, first, last)
  BY DEF Comes
<1>2. /\ Head(box) = box[1] /\ tail \in Seq(Notification)
      /\ Len(box) \in Nat /\ Len(box) >= 1 /\ Len(tail) = Len(box) - 1
      /\ \A i \in 1..Len(tail) : tail[i] = box[i + 1] /\ i + 1 \in 1..Len(box)
  BY HeadTail
<1> DEFINE h == [i \in 0..Len(tail) |-> f[i + 1]]
<1>3. DOMAIN h = 0..Len(tail) /\ \A i \in 0..Len(tail) : h[i] = f[i + 1]
  OBVIOUS
<1> HIDE DEF h, tail
<1>4. f[0] = first /\ f[Len(box)] = last /\ \A i \in 1..Len(box) : f[i] = IF For(box[i], r)
                                                                          THEN After(f[i - 1], box[i])
                                                                          ELSE f[i - 1]
  BY <1>1 DEF Course
<1>5. h[0] = second
  <2>1. 1 \in 1..Len(box) /\ 0 \in 0..Len(tail)
    BY <1>2
  <2>2. f[1] = IF For(box[1], r) THEN After(f[1 - 1], box[1]) ELSE f[1 - 1]
    BY <1>4, <2>1
  <2>3. h[0] = f[0 + 1]
    BY <1>3, <2>1
  <2> QED
    BY <1>2, <1>4, <2>2, <2>3
<1>6. h[Len(tail)] = last
  <2>1. Len(tail) \in 0..Len(tail) /\ Len(tail) + 1 = Len(box)
    BY <1>2
  <2> QED
    BY <1>3, <1>4, <2>1
<1>7. ASSUME NEW i \in 1..Len(tail)
      PROVE  h[i] = IF For(tail[i], r) THEN After(h[i - 1], tail[i]) ELSE h[i - 1]
  <2>1. i \in 0..Len(tail) /\ i - 1 \in 0..Len(tail) /\ (i - 1) + 1 = i /\ (i + 1) - 1 = i
    BY <1>2
  <2>2. i + 1 \in 1..Len(box) /\ tail[i] = box[i + 1]
    BY <1>2
  <2>3. f[i + 1] = IF For(box[i + 1], r) THEN After(f[(i + 1) - 1], box[i + 1]) ELSE f[(i + 1) - 1]
    BY <1>4, <2>2
  <2>4. h[i] = f[i + 1] /\ h[i - 1] = f[(i - 1) + 1]
    BY <1>3, <2>1
  <2> QED
    BY <2>1, <2>2, <2>3, <2>4
<1>8. Course(h, tail, r, second, last)
  BY <1>3, <1>5, <1>6, <1>7 DEF Course
<1> QED
  BY <1>8 DEF Comes, tail

\* The last vote that is told is the vote.
LEMMA VoteTold ==
    ASSUME NEW box \in Seq(Notification), NEW next \in Seq(Notification), NEW r, NEW n,
           NEW first, NEW last, OneFor(box, next, r, n), Votes(n, r), VoteOf(n, r) = last
    PROVE  VoteComes(next, r, first, last)
<1>1. PICK k \in (Len(box) + 1)..Len(next) :
          next[k] = n /\ \A j \in (Len(box) + 1)..Len(next) : For(next[j], r) => j = k
  BY DEF OneFor
<1>2. k \in 1..Len(next) /\ Len(box) \in Nat /\ Len(next) \in Nat
  BY <1>1
<1>3. ASSUME NEW j \in 1..Len(next), j > k PROVE ~Votes(next[j], r)
  <2>1. j \in (Len(box) + 1)..Len(next) /\ j # k
    BY <1>2, <1>3
  <2> QED
    BY <1>1, <2>1 DEF Votes
<1> QED
  BY <1>1, <1>2, <1>3 DEF VoteComes

\* Nothing that is told is about the vote.
LEMMA VoteStays ==
    ASSUME NEW box \in Seq(Notification), NEW next \in Seq(Notification), NEW r,
           NEW first, NEW last, VoteComes(box, r, first, last), Grown(box, next),
           \A i \in (Len(box) + 1)..Len(next) : ~Votes(next[i], r)
    PROVE  VoteComes(next, r, first, last)
<1>1. Len(box) \in Nat /\ Len(next) \in Nat /\ Len(box) <= Len(next)
      /\ \A i \in 1..Len(box) : next[i] = box[i]
  BY DEF Grown
<1>2. CASE first = last /\ \A i \in 1..Len(box) : ~Votes(box[i], r)
  <2>1. ASSUME NEW i \in 1..Len(next) PROVE ~Votes(next[i], r)
    <3>1. i \in 1..Len(box) \/ i \in (Len(box) + 1)..Len(next)
      BY <1>1
    <3> QED
      BY <1>1, <1>2, <3>1
  <2> QED
    BY <1>2, <2>1 DEF VoteComes
<1>3. CASE \E i \in 1..Len(box) : /\ Votes(box[i], r) /\ VoteOf(box[i], r) = last
                                  /\ \A j \in 1..Len(box) : j > i => ~Votes(box[j], r)
  <2>1. PICK i \in 1..Len(box) : /\ Votes(box[i], r) /\ VoteOf(box[i], r) = last
                                 /\ \A j \in 1..Len(box) : j > i => ~Votes(box[j], r)
    BY <1>3
  <2>2. i \in 1..Len(next) /\ next[i] = box[i]
    BY <1>1
  <2>3. ASSUME NEW j \in 1..Len(next), j > i PROVE ~Votes(next[j], r)
    <3>1. j \in 1..Len(box) \/ j \in (Len(box) + 1)..Len(next)
      BY <1>1
    <3> QED
      BY <1>1, <2>1, <2>3, <3>1
  <2> QED
    BY <2>1, <2>2, <2>3 DEF VoteComes
<1> QED
  BY <1>2, <1>3 DEF VoteComes

\* The first of the queue is taken: the vote is told or to come.
LEMMA VoteCame ==
    ASSUME NEW box \in Seq(Notification), box # <<>>, NEW r, NEW first, NEW last,
           VoteComes(box, r, first, last)
    PROVE  VoteComes(Tail(box), r, IF Votes(Head(box), r) THEN VoteOf(Head(box), r) ELSE first, last)
<1> DEFINE tail == Tail(box)
           second == IF Votes(Head(box), r) THEN VoteOf(Head(box), r) ELSE first
<1>1. /\ Head(box) = box[1] /\ tail \in Seq(Notification)
      /\ Len(box) \in Nat /\ Len(box) >= 1 /\ Len(tail) = Len(box) - 1
      /\ \A i \in 1..Len(tail) : tail[i] = box[i + 1] /\ i + 1 \in 1..Len(box)
  BY HeadTail
<1> HIDE DEF tail
<1>2. CASE first = last /\ \A i \in 1..Len(box) : ~Votes(box[i], r)
  <2>1. 1 \in 1..Len(box)
    BY <1>1
  <2>2. second = last
    BY <1>1, <1>2, <2>1
  <2>3. \A i \in 1..Len(tail) : ~Votes(tail[i], r)
    BY <1>1, <1>2
  <2> HIDE DEF second
  <2> QED
    BY <2>2, <2>3 DEF VoteComes, second, tail
<1>3. CASE \E i \in 1..Len(box) : /\ Votes(box[i], r) /\ VoteOf(box[i], r) = last
                                  /\ \A j \in 1..Len(box) : j > i => ~Votes(box[j], r)
  <2>1. PICK i \in 1..Len(box) : /\ Votes(box[i], r) /\ VoteOf(box[i], r) = last
                                 /\ \A j \in 1..Len(box) : j > i => ~Votes(box[j], r)
    BY <1>3
  <2>2. CASE i = 1
    <3>1. second = last
      BY <1>1, <2>1, <2>2
    <3>2. ASSUME NEW j \in 1..Len(tail) PROVE ~Votes(tail[j], r)
      <4>1. j + 1 \in 1..Len(box) /\ j + 1 > i /\ tail[j] = box[j + 1]
        BY <1>1, <2>2
      <4> QED
        BY <2>1, <4>1
    <3> HIDE DEF second
    <3> QED
      BY <3>1, <3>2 DEF VoteComes, second, tail
  <2>3. CASE i # 1
    <3>1. i - 1 \in 1..Len(tail) /\ (i - 1) + 1 = i
      BY <1>1, <2>3
    <3>2. tail[i - 1] = box[i]
      <4>1. tail[i - 1] = box[(i - 1) + 1]
        BY <1>1, <3>1
      <4> QED
        BY <3>1, <4>1
    <3>3. ASSUME NEW j \in 1..Len(tail), j > i - 1 PROVE ~Votes(tail[j], r)
      <4>1. j + 1 \in 1..Len(box) /\ j + 1 > i /\ tail[j] = box[j + 1]
        BY <1>1, <3>3
      <4> QED
        BY <2>1, <4>1
    <3> HIDE DEF second
    <3> QED
      BY <2>1, <3>1, <3>2, <3>3 DEF VoteComes, second, tail
  <2> QED
    BY <2>2, <2>3
<1> QED
  BY <1>2, <1>3 DEF VoteComes

\* With nothing under way, the vote of a copy is the server's.
LEMMA VoteIsThere ==
    ASSUME NEW r, NEW first, NEW last, VoteComes(<<>>, r, first, last)
    PROVE  first = last
<1>1. 1..Len(<<>>) = {}
  OBVIOUS
<1> QED
  BY <1>1 DEF VoteComes

\* With nothing under way for a copy, its vote is the one to be.
LEMMA NoVoteComes ==
    ASSUME NEW box \in Seq(Notification), NEW r, NEW v, \A i \in 1..Len(box) : ~For(box[i], r)
    PROVE  VoteComes(box, r, v, v)
  BY DEF VoteComes, Votes

\* The deletion that comes still does when more is queued.
LEMMA DeletionStillComes ==
    ASSUME NEW box \in Seq(Notification), NEW next \in Seq(Notification), NEW r,
           Grown(box, next), DeletionComes(box, r)
    PROVE  DeletionComes(next, r)
<1>1. PICK i \in 1..Len(box) : For(box[i], r) /\ box[i].type = "GameDeleted"
  BY DEF DeletionComes
<1>2. i \in 1..Len(next) /\ next[i] = box[i]
  <2>1. Len(box) \in Nat /\ Len(next) \in Nat
    OBVIOUS
  <2> QED
    BY <2>1 DEF Grown
<1> QED
  BY <1>1, <1>2 DEF DeletionComes

\* The deletion of the game is queued.
LEMMA DeletionTold ==
    ASSUME NEW box \in Seq(Notification), NEW next \in Seq(Notification), NEW r, NEW n,
           OneFor(box, next, r, n), n.type = "GameDeleted"
    PROVE  DeletionComes(next, r)
<1>1. PICK k \in (Len(box) + 1)..Len(next) : next[k] = n
  BY DEF OneFor
<1>2. k \in 1..Len(next) /\ For(n, r)
  <2>1. Len(box) \in Nat /\ Len(next) \in Nat
    OBVIOUS
  <2> QED
    BY <2>1 DEF OneFor
<1> QED
  BY <1>1, <1>2 DEF DeletionComes

\* The first of the queue is taken, and is not the deletion.
LEMMA DeletionCame ==
    ASSUME NEW box \in Seq(Notification), box # <<>>, NEW r, DeletionComes(box, r),
           ~(For(Head(box), r) /\ Head(box).type = "GameDeleted")
    PROVE  DeletionComes(Tail(box), r)
<1>1. /\ Head(box) = box[1] /\ Tail(box) \in Seq(Notification)
      /\ Len(box) \in Nat /\ Len(box) >= 1 /\ Len(Tail(box)) = Len(box) - 1
      /\ \A i \in 1..Len(Tail(box)) : Tail(box)[i] = box[i + 1]
  BY HeadTail
<1>2. PICK i \in 1..Len(box) : For(box[i], r) /\ box[i].type = "GameDeleted"
  BY DEF DeletionComes
<1>3. i # 1
  BY <1>1, <1>2
<1>4. i - 1 \in 1..Len(Tail(box)) /\ (i - 1) + 1 = i
  BY <1>1, <1>3
<1>5. Tail(box)[i - 1] = box[(i - 1) + 1]
  BY <1>1, <1>4
<1> QED
  BY <1>2, <1>4, <1>5 DEF DeletionComes

----------------------------------------------------------------------------
(* A copy follows the game.                                                 *)

\* The copy is told nothing, and nothing changes of what it has.
LEMMA QuietFollows ==
    ASSUME NEW box \in Seq(Notification), NEW next \in Seq(Notification), NEW r,
           NEW c, NEW g, NEW s, NEW d, NEW h, NEW u, Follows(c, g, s, box, r),
           NoneFor(box, next, r), View(d, r) = View(c, r), View(h, r) = View(g, r),
           r \in Powers => /\ d.power[r].vote = c.power[r].vote
                           /\ h.power[r].vote = g.power[r].vote,
           u = "deleted" => s = "deleted"
    PROVE  Follows(d, h, u, next, r)
<1>1. Comes(next, r, View(d, r), View(h, r))
  BY NoMoreComes DEF Follows
<1>2. ASSUME r \in Powers PROVE VoteComes(next, r, d.power[r].vote, h.power[r].vote)
  <2>1. VoteComes(box, r, d.power[r].vote, h.power[r].vote)
    BY <1>2 DEF Follows
  <2>2. Grown(box, next) /\ \A i \in (Len(box) + 1)..Len(next) : ~Votes(next[i], r)
    BY DEF NoneFor, Votes
  <2> QED
    BY <2>1, <2>2, VoteStays
<1>3. u # "deleted" \/ DeletionComes(next, r)
  BY DeletionStillComes DEF Follows, NoneFor
<1> QED
  BY <1>1, <1>2, <1>3 DEF Follows

\* The copy is told of what changes.
LEMMA ToldFollows ==
    ASSUME NEW box \in Seq(Notification), NEW next \in Seq(Notification), NEW r, NEW n,
           NEW c, NEW g, NEW s, NEW d, NEW h, NEW u, Follows(c, g, s, box, r),
           OneFor(box, next, r, n), View(d, r) = View(c, r), View(h, r) = After(View(g, r), n),
           r \in Powers => IF Votes(n, r) THEN h.power[r].vote = VoteOf(n, r)
                           ELSE /\ d.power[r].vote = c.power[r].vote
                                /\ h.power[r].vote = g.power[r].vote,
           u = "deleted" => s = "deleted" \/ n.type = "GameDeleted"
    PROVE  Follows(d, h, u, next, r)
<1>1. Comes(next, r, View(d, r), View(h, r))
  BY OneMoreComes DEF Follows
<1>2. ASSUME r \in Powers PROVE VoteComes(next, r, d.power[r].vote, h.power[r].vote)
  <2>1. CASE Votes(n, r)
    BY <1>2, <2>1, VoteTold
  <2>2. CASE ~Votes(n, r)
    <3>1. VoteComes(box, r, d.power[r].vote, h.power[r].vote)
      BY <1>2, <2>2 DEF Follows
    <3>2. Grown(box, next) /\ \A i \in (Len(box) + 1)..Len(next) : ~Votes(next[i], r)
      <4>1. PICK k \in (Len(box) + 1)..Len(next) :
                next[k] = n /\ \A j \in (Len(box) + 1)..Len(next) : For(next[j], r) => j = k
        BY DEF OneFor
      <4> QED
        BY <2>2, <4>1 DEF OneFor, Votes
    <3> QED
      BY <3>1, <3>2, VoteStays
  <2> QED
    BY <2>1, <2>2
<1>3. u # "deleted" \/ DeletionComes(next, r)
  <2>1. CASE s = "deleted"
    BY <2>1, DeletionStillComes DEF Follows, OneFor
  <2>2. CASE n.type = "GameDeleted"
    BY <2>2, DeletionTold
  <2> QED
    BY <2>1, <2>2
<1> QED
  BY <1>1, <1>2, <1>3 DEF Follows

\* A new copy.
LEMMA NewFollows ==
    ASSUME NEW box \in Seq(Notification), NEW r \in Roles, NEW h \in Game, NEW u, u # "deleted",
           \A i \in 1..Len(box) : ~For(box[i], r)
    PROVE  Follows(Cast(h, r), h, u, box, r)
<1> DEFINE d == Cast(h, r)
<1>1. /\ d \in Game /\ d.phase = h.phase /\ d.past = h.past
      /\ \A p \in Powers : d.power[p].controller = h.power[p].controller
      /\ r \in Powers => d.power[r].vote = h.power[r].vote
      /\ r \in Special => \A p \in Powers : /\ d.power[p].board = h.power[p].board
                                            /\ d.power[p].orders = h.power[p].orders
  BY CastIs
<1> HIDE DEF d
<1>2. View(d, r) = View(h, r)
  <2>1. \A p \in Watches(r) : d.power[p].board = h.power[p].board /\ d.power[p].orders = h.power[p].orders
    BY <1>1 DEF Watches
  <2> QED
    BY <1>1, <2>1, SameView
<1>3. Comes(box, r, View(d, r), View(h, r))
  BY <1>2, NothingComes
<1>4. r \in Powers => VoteComes(box, r, d.power[r].vote, h.power[r].vote)
  BY <1>1, NoVoteComes
<1> QED
  BY <1>3, <1>4 DEF Follows, d

\* The copy handles what it is told.
LEMMA HandledFollows ==
    ASSUME NEW box \in Seq(Notification), box # <<>>, NEW r \in Roles, NEW c \in Game, NEW g, NEW s,
           Follows(c, g, s, box, r), For(Head(box), r), Head(box).type \in Updates, Own(Head(box))
    PROVE  Follows(OnGameNotification(c, Head(box)), g, s, Tail(box), r)
<1> DEFINE n == Head(box)
           h == OnGameNotification(c, n)
<1>1. n \in Notification
  BY HeadTail
<1> HIDE DEF n
<1>2. /\ h \in Game /\ View(h, r) = After(View(c, r), n)
      /\ \A p \in Powers :
            h.power[p].vote = CASE n.type = "GameProcessed" -> "neutral"
                                [] n.type = "VoteUpdated" /\ p \in DOMAIN n.vote -> n.vote[p]
                                [] OTHER -> c.power[p].vote
  BY <1>1, HandledIs DEF n
<1> HIDE DEF h
<1>3. Comes(Tail(box), r, View(h, r), View(g, r))
  <2>1. Comes(box, r, View(c, r), View(g, r))
    BY DEF Follows
  <2>2. Comes(Tail(box), r, IF For(n, r) THEN After(View(c, r), n) ELSE View(c, r), View(g, r))
    BY <2>1, HeadCame DEF n
  <2> QED
    BY <1>2, <2>2 DEF n
<1>4. ASSUME r \in Powers PROVE VoteComes(Tail(box), r, h.power[r].vote, g.power[r].vote)
  <2>1. VoteComes(box, r, c.power[r].vote, g.power[r].vote)
    BY <1>4 DEF Follows
  <2>2. VoteComes(Tail(box), r, IF Votes(n, r) THEN VoteOf(n, r) ELSE c.power[r].vote, g.power[r].vote)
    BY <2>1, VoteCame DEF n
  <2>3. For(n, r) /\ n.type # "AccountDeleted" /\ n.role = r
    BY DEF n, For
  <2>4. n.type = "VoteUpdated" => DOMAIN n.vote = {r}
    BY <1>4, <2>3 DEF Own, n
  <2>5. h.power[r].vote = IF Votes(n, r) THEN VoteOf(n, r) ELSE c.power[r].vote
    BY <1>2, <1>4, <2>3, <2>4 DEF Votes, VoteOf
  <2> QED
    BY <2>2, <2>5
<1>5. s # "deleted" \/ DeletionComes(Tail(box), r)
  <2>1. n.type # "GameDeleted"
    BY DEF n, Updates
  <2> QED
    BY <2>1, DeletionCame DEF Follows, n
<1> QED
  BY <1>3, <1>4, <1>5 DEF Follows, h, n

\* What is for another copy passes.
LEMMA PassedFollows ==
    ASSUME NEW box \in Seq(Notification), box # <<>>, NEW r, NEW c, NEW g, NEW s,
           Follows(c, g, s, box, r), ~For(Head(box), r)
    PROVE  Follows(c, g, s, Tail(box), r)
<1>1. Comes(Tail(box), r, View(c, r), View(g, r))
  <2>1. Comes(box, r, View(c, r), View(g, r))
    BY DEF Follows
  <2>2. Comes(Tail(box), r, IF For(Head(box), r) THEN After(View(c, r), Head(box))
                            ELSE View(c, r), View(g, r))
    BY <2>1, HeadCame
  <2> QED
    BY <2>2
<1>2. ASSUME r \in Powers PROVE VoteComes(Tail(box), r, c.power[r].vote, g.power[r].vote)
  <2>1. VoteComes(box, r, c.power[r].vote, g.power[r].vote)
    BY <1>2 DEF Follows
  <2>2. VoteComes(Tail(box), r, IF Votes(Head(box), r) THEN VoteOf(Head(box), r) ELSE c.power[r].vote,
                  g.power[r].vote)
    BY <2>1, VoteCame
  <2>3. ~Votes(Head(box), r)
    BY DEF Votes
  <2> QED
    BY <2>2, <2>3
<1>3. s # "deleted" \/ DeletionComes(Tail(box), r)
  BY DeletionCame DEF Follows
<1> QED
  BY <1>1, <1>2, <1>3 DEF Follows

----------------------------------------------------------------------------
(* What is sent, and whom it reaches.                                       *)

\* From box to next, notification f[r] came to each copy of role r in A, if its client
\* reads, and nothing to the others.
Reached(box, next, A, f) ==
    \A t \in Watched :
        /\ Grown(box[t], next[t]) /\ (next[t] # box[t] => client[t].reading)
        /\ \A r \in Roles :
              IF <<r, t>> \in A /\ t \in online /\ client[t].reading
              THEN OneFor(box[t], next[t], r, f[r])
              ELSE NoneFor(box[t], next[t], r)

\* What is sent reaches the copies it is addressed to, and no other.
LEMMA SendingReaches ==
    ASSUME NEW box, Box(box), NEW A, A \subseteq Roles \X Tokens, NEW f,
           \A r \in Roles : (\E t \in Tokens : <<r, t>> \in A)
                                => f[r] \in Notification /\ Own(f[r]) /\ For(f[r], r)
    PROVE  Box(Sending(box, A, f)) /\ Reached(box, Sending(box, A, f), A, f)
<1> DEFINE next == Sending(box, A, f)
<1>1. box \in [Watched -> Seq(Notification)] /\ \A t \in Watched : \A i \in 1..Len(box[t]) : Own(box[t][i])
  BY DEF Box
<1>2. next \in [Watched -> Seq(Notification)] /\ Queued(box, next, A, f)
  BY <1>1, SendingQueues
<1>3. ASSUME NEW t \in Watched, ~(t \in online /\ client[t].reading) PROVE next[t] = box[t]
  BY <1>3 DEF Sending
<1> HIDE DEF next
<1>4. ASSUME NEW t \in Watched
      PROVE  /\ Grown(box[t], next[t]) /\ (next[t] # box[t] => client[t].reading)
             /\ \A i \in 1..Len(next[t]) : Own(next[t][i])
             /\ \A r \in Roles :
                   IF <<r, t>> \in A /\ t \in online /\ client[t].reading
                   THEN OneFor(box[t], next[t], r, f[r])
                   ELSE NoneFor(box[t], next[t], r)
  <2>1. /\ Len(box[t]) <= Len(next[t]) /\ \A i \in 1..Len(box[t]) : next[t][i] = box[t][i]
        /\ next[t] # box[t] => client[t].reading
        /\ \A i \in (Len(box[t]) + 1)..Len(next[t]) : \E r \in Roles : <<r, t>> \in A /\ next[t][i] = f[r]
        /\ \A i, j \in (Len(box[t]) + 1)..Len(next[t]) : next[t][i] = next[t][j] => i = j
        /\ \A r \in Roles : <<r, t>> \in A /\ t \in online /\ client[t].reading
              => \E i \in (Len(box[t]) + 1)..Len(next[t]) : next[t][i] = f[r]
    BY <1>2 DEF Queued, Behind
  <2>2. Len(box[t]) \in Nat /\ Len(next[t]) \in Nat /\ t \in Tokens
    <3>1. box[t] \in Seq(Notification) /\ next[t] \in Seq(Notification)
      BY <1>1, <1>2
    <3> QED
      BY <3>1, ViewsAssumption
  <2>3. Grown(box[t], next[t])
    BY <2>1 DEF Grown
  <2>4. ASSUME NEW i \in 1..Len(next[t]) PROVE Own(next[t][i])
    <3>1. CASE i \in 1..Len(box[t])
      BY <1>1, <2>1, <3>1
    <3>2. CASE i \notin 1..Len(box[t])
      <4>1. i \in (Len(box[t]) + 1)..Len(next[t])
        BY <2>2, <3>2
      <4>2. PICK r \in Roles : <<r, t>> \in A /\ next[t][i] = f[r]
        BY <2>1, <4>1
      <4> QED
        BY <2>2, <4>2
    <3> QED
      BY <3>1, <3>2
  <2>5. ASSUME NEW r \in Roles, <<r, t>> \in A, t \in online, client[t].reading
        PROVE  OneFor(box[t], next[t], r, f[r])
    <3>1. PICK k \in (Len(box[t]) + 1)..Len(next[t]) : next[t][k] = f[r]
      BY <2>1, <2>5
    <3>2. For(f[r], r)
      BY <2>2, <2>5
    <3>3. ASSUME NEW j \in (Len(box[t]) + 1)..Len(next[t]), For(next[t][j], r) PROVE j = k
      <4>1. PICK q \in Roles : <<q, t>> \in A /\ next[t][j] = f[q]
        BY <2>1
      <4>2. For(f[q], q)
        BY <2>2, <4>1
      <4>3. q = r
        BY <3>3, <4>1, <4>2 DEF For
      <4> QED
        BY <2>1, <3>1, <4>1, <4>3
    <3> QED
      BY <2>3, <3>1, <3>2, <3>3 DEF OneFor
  <2>6. ASSUME NEW r \in Roles, ~(<<r, t>> \in A /\ t \in online /\ client[t].reading)
        PROVE  NoneFor(box[t], next[t], r)
    <3>1. ASSUME NEW j \in (Len(box[t]) + 1)..Len(next[t]), For(next[t][j], r) PROVE FALSE
      <4>1. PICK q \in Roles : <<q, t>> \in A /\ next[t][j] = f[q]
        BY <2>1
      <4>2. For(f[q], q)
        BY <2>2, <4>1
      <4>3. q = r
        BY <3>1, <4>1, <4>2 DEF For
      <4>4. ~(t \in online /\ client[t].reading)
        BY <2>6, <4>1, <4>3
      <4>5. next[t] = box[t]
        BY <1>3, <4>4
      <4> QED
        BY <2>2, <3>1, <4>5
    <3> QED
      BY <2>3, <3>1 DEF NoneFor
  <2> QED
    BY <2>1, <2>3, <2>4, <2>5, <2>6
<1>5. Box(next)
  BY <1>2, <1>4 DEF Box
<1>6. Reached(box, next, A, f)
  BY <1>4 DEF Reached
<1> QED
  BY <1>5, <1>6 DEF next

\* The roles of addresses are roles.
LEMMA Addressed ==
    ASSUME NEW A, A \subseteq Roles \X Tokens, NEW t
    PROVE  {a[1] : a \in {b \in A : b[2] = t}} \subseteq Roles
<1>1. ASSUME NEW a \in A PROVE a[1] \in Roles
  BY <1>1
<1> QED
  BY <1>1

ControllersNotice(g) ==
    [r \in Roles |-> [type |-> "PowersControllers", role |-> r, powers |-> Controllers(g)]]

\* notify_game_powers_controllers reaches the copies at the addresses.
LEMMA ControllersSent ==
    ASSUME NEW box, Box(box), NEW A, A \subseteq Roles \X Tokens, NEW g \in Game
    PROVE  LET next == ControllersNotified(box, A, g) IN
           Box(next) /\ Reached(box, next, A, ControllersNotice(g))
<1> DEFINE f == ControllersNotice(g)
           next == ControllersNotified(box, A, g)
           N(r) == [type |-> "PowersControllers", role |-> r, powers |-> Controllers(g)]
<1>1. next = Sending(box, A, f)
  <2>1. ASSUME NEW t \in Watched
        PROVE  {N(r) : r \in {a[1] : a \in {b \in A : b[2] = t}}}
                 = {f[r] : r \in {a[1] : a \in {b \in A : b[2] = t}}}
    <3> DEFINE R == {a[1] : a \in {b \in A : b[2] = t}}
    <3>1. R \subseteq Roles
      BY Addressed
    <3>2. \A r \in Roles : f[r] = N(r)
      BY DEF ControllersNotice
    <3> HIDE DEF R, N, f
    <3>3. {N(r) : r \in R} = {f[r] : r \in R}
      BY <3>1, <3>2
    <3> QED
      BY <3>3 DEF R
  <2> HIDE DEF f
  <2> QED
    BY <2>1 DEF ControllersNotified, Notified, Sending
<1>2. ASSUME NEW r \in Roles PROVE f[r] \in Notification /\ Own(f[r]) /\ For(f[r], r)
  <2>1. f[r] = N(r)
    BY DEF ControllersNotice
  <2>2. Controllers(g) \in [Powers -> Controllership]
    BY GameParts DEF Controllers
  <2>3. N(r) \in Notification
    BY <2>2 DEF Notification
  <2>4. Own(N(r)) /\ For(N(r), r)
    BY DEF Own, For
  <2> QED
    BY <2>1, <2>3, <2>4
<1> HIDE DEF f, next, N
<1> QED
  BY <1>1, <1>2, SendingReaches DEF f, next

\* filter_phase_data keeps the phases and the boards.
LEMMA FilterKeeps ==
    ASSUME NEW g, NEW d \in Phases, NEW r
    PROVE  LET e == FilterPhaseData(g, d, r) IN
           e \in Phases /\ e.previous = d.previous /\ e.phase = d.phase /\ e.board = d.board
  BY DEF FilterPhaseData, Phases

ProcessedNotice(g, d) ==
    [r \in Roles |-> [type |-> "GameProcessed", role |-> r, data |-> FilterPhaseData(g, d, r)]]

\* notify_game_processed reaches the copies of all tokens of the game.
LEMMA ProcessedSent ==
    ASSUME NEW box, Box(box), NEW seats, NEW g, NEW d \in Phases
    PROVE  LET next == ProcessedNotified(box, seats, g, d) IN
           Box(next) /\ Reached(box, next, ReceptionAddresses(seats), ProcessedNotice(g, d))
<1> DEFINE f == ProcessedNotice(g, d)
           next == ProcessedNotified(box, seats, g, d)
           N(r) == [type |-> "GameProcessed", role |-> r, data |-> FilterPhaseData(g, d, r)]
           A == ReceptionAddresses(seats)
<1>1. A \subseteq Roles \X Tokens
  BY DEF ReceptionAddresses
<1>2. next = Sending(box, A, f)
  <2>1. ASSUME NEW t \in Watched
        PROVE  {N(r) : r \in {a[1] : a \in {b \in A : b[2] = t}}}
                 = {f[r] : r \in {a[1] : a \in {b \in A : b[2] = t}}}
    <3> DEFINE R == {a[1] : a \in {b \in A : b[2] = t}}
    <3> HIDE DEF A
    <3>1. R \subseteq Roles
      BY <1>1, Addressed
    <3>2. \A r \in Roles : f[r] = N(r)
      BY DEF ProcessedNotice
    <3> HIDE DEF R, N, f
    <3>3. {N(r) : r \in R} = {f[r] : r \in R}
      BY <3>1, <3>2
    <3> QED
      BY <3>3 DEF R
  <2> HIDE DEF f
  <2> QED
    BY <2>1 DEF ProcessedNotified, Notified, Sending
<1>3. ASSUME NEW r \in Roles, \E t \in Tokens : <<r, t>> \in A
      PROVE  f[r] \in Notification /\ Own(f[r]) /\ For(f[r], r)
  <2>1. f[r] = N(r)
    BY DEF ProcessedNotice
  <2>2. FilterPhaseData(g, d, r) \in Phases
    BY FilterKeeps
  <2>3. N(r) \in Notification
    BY <2>2 DEF Notification
  <2>4. Own(N(r)) /\ For(N(r), r)
    BY DEF Own, For
  <2> QED
    BY <2>1, <2>3, <2>4
<1> HIDE DEF f, next, N, A
<1>4. Box(Sending(box, A, f)) /\ Reached(box, Sending(box, A, f), A, f)
  BY <1>1, <1>3, SendingReaches
<1> QED
  BY <1>2, <1>4 DEF f, next, A

OrdersNotice(p, os) ==
    [r \in Roles |-> [type |-> "PowerOrdersUpdate", role |-> r, power |-> p, orders |-> os]]

\* notify_power_orders_update reaches the power and who watches.
LEMMA OrdersSent ==
    ASSUME NEW box, Box(box), NEW as, as \subseteq Roles \X Tokens, NEW p \in Powers, NEW os \in OrderSets
    PROVE  LET next == OrdersNotified(box, as, p, os) IN
           Box(next) /\ Reached(box, next, {a \in as : a[1] \in Special \cup {p}}, OrdersNotice(p, os))
<1> DEFINE f == OrdersNotice(p, os)
           next == OrdersNotified(box, as, p, os)
           N(r) == [type |-> "PowerOrdersUpdate", role |-> r, power |-> p, orders |-> os]
           A == {a \in as : a[1] \in Special \cup {p}}
<1>1. A \subseteq Roles \X Tokens
  OBVIOUS
<1>2. next = Sending(box, A, f)
  <2>1. ASSUME NEW t \in Watched
        PROVE  {N(r) : r \in {a[1] : a \in {b \in A : b[2] = t}}}
                 = {f[r] : r \in {a[1] : a \in {b \in A : b[2] = t}}}
    <3> DEFINE R == {a[1] : a \in {b \in A : b[2] = t}}
    <3> HIDE DEF A
    <3>1. R \subseteq Roles
      BY <1>1, Addressed
    <3>2. \A r \in Roles : f[r] = N(r)
      BY DEF OrdersNotice
    <3> HIDE DEF R, N, f
    <3>3. {N(r) : r \in R} = {f[r] : r \in R}
      BY <3>1, <3>2
    <3> QED
      BY <3>3 DEF R
  <2> HIDE DEF f
  <2> QED
    BY <2>1 DEF OrdersNotified, Notified, Sending
<1>3. ASSUME NEW r \in Roles, \E t \in Tokens : <<r, t>> \in A
      PROVE  f[r] \in Notification /\ Own(f[r]) /\ For(f[r], r)
  <2>1. f[r] = N(r)
    BY DEF OrdersNotice
  <2>2. r \in Powers => r = p
    <3>1. PICK t \in Tokens : <<r, t>> \in A
      BY <1>3
    <3>2. r \in Special \cup {p}
      BY <3>1
    <3> QED
      BY <3>2, ViewsAssumption
  <2>3. N(r) \in Notification
    BY DEF Notification
  <2>4. Own(N(r)) /\ For(N(r), r)
    BY <2>2 DEF Own, For
  <2> QED
    BY <2>1, <2>3, <2>4
<1> HIDE DEF f, next, N, A
<1>4. Box(Sending(box, A, f)) /\ Reached(box, Sending(box, A, f), A, f)
  BY <1>1, <1>3, SendingReaches
<1> QED
  BY <1>2, <1>4 DEF f, next, A

ClearedNotice(type, ps) ==
    [r \in Roles |-> [type |-> type, role |-> r, powers |-> ps]]

\* notify_cleared_orders, units and centers reach the copies at the addresses.
LEMMA ClearedSent ==
    ASSUME NEW box, Box(box), NEW as, as \subseteq Roles \X Tokens, NEW ps \in SUBSET Powers,
           NEW type \in {"ClearedOrders", "ClearedUnits", "ClearedCenters"}
    PROVE  LET next == ClearedNotified(box, as, type, ps) IN
           Box(next) /\ Reached(box, next, as, ClearedNotice(type, ps))
<1> DEFINE f == ClearedNotice(type, ps)
           next == ClearedNotified(box, as, type, ps)
           N(r) == [type |-> type, role |-> r, powers |-> ps]
           A == as
<1>1. A \subseteq Roles \X Tokens
  OBVIOUS
<1>2. next = Sending(box, A, f)
  <2>1. ASSUME NEW t \in Watched
        PROVE  {N(r) : r \in {a[1] : a \in {b \in A : b[2] = t}}}
                 = {f[r] : r \in {a[1] : a \in {b \in A : b[2] = t}}}
    <3> DEFINE R == {a[1] : a \in {b \in A : b[2] = t}}
    <3> HIDE DEF A
    <3>1. R \subseteq Roles
      BY <1>1, Addressed
    <3>2. \A r \in Roles : f[r] = N(r)
      BY DEF ClearedNotice
    <3> HIDE DEF R, N, f
    <3>3. {N(r) : r \in R} = {f[r] : r \in R}
      BY <3>1, <3>2
    <3> QED
      BY <3>3 DEF R
  <2> HIDE DEF f
  <2> QED
    BY <2>1 DEF ClearedNotified, Notified, Sending
<1>3. ASSUME NEW r \in Roles, \E t \in Tokens : <<r, t>> \in A
      PROVE  f[r] \in Notification /\ Own(f[r]) /\ For(f[r], r)
  <2>1. f[r] = N(r)
    BY DEF ClearedNotice

  <2>3. N(r) \in Notification
    BY DEF Notification
  <2>4. Own(N(r)) /\ For(N(r), r)
    BY DEF Own, For
  <2> QED
    BY <2>1, <2>3, <2>4
<1> HIDE DEF f, next, N, A
<1>4. Box(Sending(box, A, f)) /\ Reached(box, Sending(box, A, f), A, f)
  BY <1>1, <1>3, SendingReaches
<1> QED
  BY <1>2, <1>4 DEF f, next, A

VoteNotice(g) ==
    [r \in Roles |-> [type |-> "VoteUpdated", role |-> r,
         vote |-> [p \in Powers \cap (IF r \in Powers THEN {r} ELSE Powers) |-> g.power[p].vote]]]

\* notify_game_vote_updated reaches the powers and the omniscient.
LEMMA VoteSent ==
    ASSUME NEW box, Box(box), NEW seats, NEW g \in Game
    PROVE  LET next == VoteNotified(box, seats, g) IN
           Box(next) /\ Reached(box, next, {a \in ReceptionAddresses(seats) : a[1] # "observer"}, VoteNotice(g))
<1> DEFINE f == VoteNotice(g)
           next == VoteNotified(box, seats, g)
           N(r) == [type |-> "VoteUpdated", role |-> r,
         vote |-> [p \in Powers \cap (IF r \in Powers THEN {r} ELSE Powers) |-> g.power[p].vote]]
           A == {a \in ReceptionAddresses(seats) : a[1] # "observer"}
<1>1. A \subseteq Roles \X Tokens
  BY DEF ReceptionAddresses
<1>2. next = Sending(box, A, f)
  <2>1. ASSUME NEW t \in Watched
        PROVE  {N(r) : r \in {a[1] : a \in {b \in A : b[2] = t}}}
                 = {f[r] : r \in {a[1] : a \in {b \in A : b[2] = t}}}
    <3> DEFINE R == {a[1] : a \in {b \in A : b[2] = t}}
    <3> HIDE DEF A
    <3>1. R \subseteq Roles
      BY <1>1, Addressed
    <3>2. \A r \in Roles : f[r] = N(r)
      BY DEF VoteNotice
    <3> HIDE DEF R, N, f
    <3>3. {N(r) : r \in R} = {f[r] : r \in R}
      BY <3>1, <3>2
    <3> QED
      BY <3>3 DEF R
  <2> HIDE DEF f
  <2> QED
    BY <2>1 DEF VoteNotified, Notified, Sending
<1>3. ASSUME NEW r \in Roles, \E t \in Tokens : <<r, t>> \in A
      PROVE  f[r] \in Notification /\ Own(f[r]) /\ For(f[r], r)
  <2>1. f[r] = N(r)
    BY DEF VoteNotice
  <2> DEFINE ps == Powers \cap (IF r \in Powers THEN {r} ELSE Powers)
             v == [p \in ps |-> g.power[p].vote]
  <2>2. v \in UNION {[qs -> Ballots] : qs \in SUBSET Powers}
    <3>1. ps \in SUBSET Powers
      OBVIOUS
    <3>2. v \in [ps -> Ballots]
      BY GameParts
    <3> HIDE DEF ps, v
    <3> QED
      BY <3>1, <3>2

  <2>3. N(r) \in Notification
    BY <2>2 DEF Notification
  <2>4. Own(N(r)) /\ For(N(r), r)
    BY DEF Own, For
  <2> QED
    BY <2>1, <2>3, <2>4
<1> HIDE DEF f, next, N, A
<1>4. Box(Sending(box, A, f)) /\ Reached(box, Sending(box, A, f), A, f)
  BY <1>1, <1>3, SendingReaches
<1> QED
  BY <1>2, <1>4 DEF f, next, A

Notice(type) ==
    [r \in Roles |-> [type |-> type, role |-> r]]

\* A notification without data reaches the copies at the addresses.
LEMMA NoticeSent ==
    ASSUME NEW box, Box(box), NEW as, as \subseteq Roles \X Tokens,
           NEW type \in {"GameDeleted", "OmniscientUpdated"}
    PROVE  LET next == Notified(box, as, LAMBDA r : [type |-> type, role |-> r]) IN
           Box(next) /\ Reached(box, next, as, Notice(type))
<1> DEFINE f == Notice(type)
           next == Notified(box, as, LAMBDA r : [type |-> type, role |-> r])
           N(r) == [type |-> type, role |-> r]
           A == as
<1>1. A \subseteq Roles \X Tokens
  OBVIOUS
<1>2. next = Sending(box, A, f)
  <2>1. ASSUME NEW t \in Watched
        PROVE  {N(r) : r \in {a[1] : a \in {b \in A : b[2] = t}}}
                 = {f[r] : r \in {a[1] : a \in {b \in A : b[2] = t}}}
    <3> DEFINE R == {a[1] : a \in {b \in A : b[2] = t}}
    <3> HIDE DEF A
    <3>1. R \subseteq Roles
      BY <1>1, Addressed
    <3>2. \A r \in Roles : f[r] = N(r)
      BY DEF Notice
    <3> HIDE DEF R, N, f
    <3>3. {N(r) : r \in R} = {f[r] : r \in R}
      BY <3>1, <3>2
    <3> QED
      BY <3>3 DEF R
  <2> HIDE DEF f
  <2> QED
    BY <2>1 DEF Notified, Sending
<1>3. ASSUME NEW r \in Roles, \E t \in Tokens : <<r, t>> \in A
      PROVE  f[r] \in Notification /\ Own(f[r]) /\ For(f[r], r)
  <2>1. f[r] = N(r)
    BY DEF Notice

  <2>3. N(r) \in Notification
    BY DEF Notification
  <2>4. Own(N(r)) /\ For(N(r), r)
    BY DEF Own, For
  <2> QED
    BY <2>1, <2>3, <2>4
<1> HIDE DEF f, next, N, A
<1>4. Box(Sending(box, A, f)) /\ Reached(box, Sending(box, A, f), A, f)
  BY <1>1, <1>3, SendingReaches
<1> QED
  BY <1>2, <1>4 DEF f, next, A

\* A notification that an account is deleted is for no copy.
LEMMA AccountSent ==
    ASSUME NEW box, Box(box), NEW S, S \subseteq Tokens
    PROVE  LET next == Notified(box, {"account"} \X S, LAMBDA r : [type |-> "AccountDeleted"]) IN
           /\ Box(next)
           /\ \A t \in Watched : /\ next[t] # box[t] => client[t].reading
                                 /\ t \notin S => next[t] = box[t]
                                 /\ \A r : NoneFor(box[t], next[t], r)
<1> DEFINE next == Notified(box, {"account"} \X S, LAMBDA r : [type |-> "AccountDeleted"])
           n == [type |-> "AccountDeleted"]
           M(t) == {n : r \in {a[1] : a \in {b \in {"account"} \X S : b[2] = t}}}
<1>1. next = [t \in Watched |-> IF t \in online /\ client[t].reading THEN box[t] \o SetToSeq(M(t))
                                ELSE box[t]]
  BY DEF Notified
<1>2. n \in Notification /\ Own(n)
  BY DEF Notification, Own
<1>3. ASSUME NEW t PROVE M(t) \subseteq {n} /\ (t \notin S => M(t) = {})
  OBVIOUS
<1> HIDE DEF n, M, next
<1>4. ASSUME NEW t \in Watched
      PROVE  /\ SetToSeq(M(t)) \in Seq({n}) /\ SetToSeq(M(t)) \in Seq(Notification)
             /\ t \notin S => SetToSeq(M(t)) = <<>>
  <2>1. IsFiniteSet(M(t))
    BY <1>3, FS_Singleton, FS_Subset
  <2>2. SetToSeq(M(t)) \in Seq(M(t))
    BY <2>1, Listed
  <2>3. SetToSeq(M(t)) \in Seq({n})
    BY <1>3, <2>2, SeqOfMore
  <2>4. {n} \subseteq Notification
    BY <1>2
  <2>5. SetToSeq(M(t)) \in Seq(Notification)
    BY <2>3, <2>4, SeqOfMore
  <2>6. ASSUME t \notin S PROVE SetToSeq(M(t)) = <<>>
    <3>1. SetToSeq(M(t)) \in Seq({})
      BY <1>3, <2>2, <2>6
    <3> HIDE DEF M
    <3> QED
      BY <3>1
  <2> QED
    BY <2>3, <2>5, <2>6
<1>5. box \in [Watched -> Seq(Notification)] /\ \A t \in Watched : \A i \in 1..Len(box[t]) : Own(box[t][i])
  BY DEF Box
<1>6. ASSUME NEW t \in Watched
      PROVE  /\ next[t] \in Seq(Notification) /\ \A i \in 1..Len(next[t]) : Own(next[t][i])
             /\ next[t] # box[t] => client[t].reading
             /\ t \notin S => next[t] = box[t]
             /\ \A r : NoneFor(box[t], next[t], r)
  <2> DEFINE u == box[t]
             v == SetToSeq(M(t))
  <2>1. u \in Seq(Notification) /\ \A i \in 1..Len(u) : Own(u[i])
    BY <1>5
  <2>2. v \in Seq({n}) /\ v \in Seq(Notification) /\ (t \notin S => v = <<>>)
    BY <1>4
  <2>3. next[t] = IF t \in online /\ client[t].reading THEN u \o v ELSE u
    BY <1>1
  <2> HIDE DEF u, v
  <2>4. CASE t \in online /\ client[t].reading
    <3>1. /\ u \o v \in Seq(Notification) /\ Len(u \o v) = Len(u) + Len(v)
          /\ Len(u) \in Nat /\ Len(v) \in Nat
          /\ \A i \in 1..Len(u) : (u \o v)[i] = u[i]
          /\ \A i \in 1..Len(v) : (u \o v)[Len(u) + i] = v[i]
      BY <2>1, <2>2, Joined
    <3>2. ASSUME NEW i \in 1..Len(u \o v) PROVE Own((u \o v)[i])
      <4>1. CASE i <= Len(u)
        BY <2>1, <3>1, <4>1
      <4>2. CASE i > Len(u)
        <5>1. i - Len(u) \in 1..Len(v) /\ Len(u) + (i - Len(u)) = i
          BY <3>1, <4>2
        <5>2. (u \o v)[i] = v[i - Len(u)]
          BY <3>1, <5>1
        <5>3. v[i - Len(u)] = n
          BY <2>2, <5>1
        <5> QED
          BY <1>2, <5>2, <5>3
      <4> QED
        BY <3>1, <4>1, <4>2
    <3>3. t \notin S => u \o v = u
      BY <2>1, <2>2
    <3>4. ASSUME NEW r PROVE NoneFor(u, u \o v, r)
      <4>1. ASSUME NEW i \in (Len(u) + 1)..Len(u \o v) PROVE ~For((u \o v)[i], r)
        <5>1. i - Len(u) \in 1..Len(v) /\ Len(u) + (i - Len(u)) = i
          BY <3>1, <4>1
        <5>2. (u \o v)[i] = v[i - Len(u)]
          BY <3>1, <5>1
        <5>3. v[i - Len(u)] = n
          BY <2>2, <5>1
        <5> QED
          BY <5>2, <5>3 DEF For, n
      <4>2. Grown(u, u \o v)
        BY <3>1 DEF Grown
      <4> QED
        BY <4>1, <4>2 DEF NoneFor
    <3> QED
      BY <2>3, <2>4, <3>1, <3>2, <3>3, <3>4 DEF u
  <2>5. CASE ~(t \in online /\ client[t].reading)
    <3>1. \A r : NoneFor(u, u, r)
      <4>1. Len(u) \in Nat
        BY <2>1
      <4> QED
        BY <4>1 DEF NoneFor, Grown
    <3> QED
      BY <2>1, <2>3, <2>5, <3>1 DEF u
  <2> QED
    BY <2>4, <2>5
<1>7. next \in [Watched -> Seq(Notification)]
  <2>1. next = [t \in Watched |-> next[t]]
    BY DEF next, Notified
  <2> QED
    BY <1>6, <2>1
<1>8. Box(next)
  BY <1>6, <1>7 DEF Box
<1> QED
  BY <1>6, <1>8 DEF next

----------------------------------------------------------------------------
(* What becomes of the clients.                                             *)

\* The copies that clients cl have, and one of them.
Held(cl) == {a \in Roles \X Watched : a[1] \in DOMAIN cl[a[2]].games}
At(cl, a) == cl[a[2]].games[a[1]]

\* The copies of next are those of the clients, as they are.
Keep(next) ==
    /\ Clients(next) /\ \A t \in Watched : next[t].reading = client[t].reading
    /\ \A a \in Held(next) : a \in Registered /\ At(next, a) = Copy(a)

\* Some copies: a game for each of some roles.
LEMMA CopiesAre ==
    ASSUME NEW h
    PROVE  h \in Copies <=> /\ DOMAIN h \subseteq Roles /\ h = [r \in DOMAIN h |-> h[r]]
                            /\ \A r \in DOMAIN h : h[r] \in Game
<1>1. ASSUME h \in Copies
      PROVE  /\ DOMAIN h \subseteq Roles /\ h = [r \in DOMAIN h |-> h[r]]
             /\ \A r \in DOMAIN h : h[r] \in Game
  <2>1. PICK rs \in SUBSET Roles : h \in [rs -> Game]
    BY <1>1 DEF Copies
  <2> QED
    BY <2>1
<1>2. ASSUME DOMAIN h \subseteq Roles, h = [r \in DOMAIN h |-> h[r]],
             \A r \in DOMAIN h : h[r] \in Game
      PROVE  h \in Copies
  <2>1. h \in [DOMAIN h -> Game] /\ DOMAIN h \in SUBSET Roles
    BY <1>2
  <2> QED
    BY <2>1 DEF Copies
<1> QED
  BY <1>1, <1>2

\* The parts of a client have their types.
LEMMA ClientParts ==
    ASSUME NEW c \in Client
    PROVE  /\ c.open \in BOOLEAN /\ c.reading \in BOOLEAN /\ c.games \in Copies
           /\ c.special \in Special \cup {Nobody}
           /\ DOMAIN c.games \subseteq Roles /\ \A r \in DOMAIN c.games : c.games[r] \in Game
<1>1. /\ c.open \in BOOLEAN /\ c.reading \in BOOLEAN /\ c.games \in Copies
      /\ c.special \in Special \cup {Nobody}
  BY DEF Client
<1> QED
  BY <1>1, CopiesAre

\* A client of which one thing changes.
LEMMA ClientWith ==
    ASSUME NEW c \in Client
    PROVE  /\ \A v \in Copies :
                 /\ [c EXCEPT !.games = v] \in Client /\ [c EXCEPT !.games = v].games = v
                 /\ [c EXCEPT !.games = v].open = c.open
                 /\ [c EXCEPT !.games = v].reading = c.reading
                 /\ [c EXCEPT !.games = v].special = c.special
           /\ \A v \in Special \cup {Nobody} :
                 /\ [c EXCEPT !.special = v] \in Client /\ [c EXCEPT !.special = v].special = v
                 /\ [c EXCEPT !.special = v].open = c.open
                 /\ [c EXCEPT !.special = v].reading = c.reading
                 /\ [c EXCEPT !.special = v].games = c.games
           /\ \A v \in BOOLEAN :
                 /\ [c EXCEPT !.open = v] \in Client /\ [c EXCEPT !.open = v].open = v
                 /\ [c EXCEPT !.open = v].games = c.games
                 /\ [c EXCEPT !.open = v].reading = c.reading
                 /\ [c EXCEPT !.open = v].special = c.special
           /\ \A v \in BOOLEAN :
                 /\ [c EXCEPT !.reading = v] \in Client /\ [c EXCEPT !.reading = v].reading = v
                 /\ [c EXCEPT !.reading = v].open = c.open
                 /\ [c EXCEPT !.reading = v].games = c.games
                 /\ [c EXCEPT !.reading = v].special = c.special
<1>1. /\ c.open \in BOOLEAN /\ c.reading \in BOOLEAN /\ c.games \in Copies
      /\ c.special \in Special \cup {Nobody}
  BY DEF Client
<1>2. c = [open |-> c.open, reading |-> c.reading, games |-> c.games, special |-> c.special]
  BY DEF Client
<1> HIDE DEF Copies
<1>3. ASSUME NEW v \in Copies
      PROVE  [c EXCEPT !.games = v]
               = [open |-> c.open, reading |-> c.reading, games |-> v, special |-> c.special]
  BY <1>2
<1>4. ASSUME NEW v \in Special \cup {Nobody}
      PROVE  [c EXCEPT !.special = v]
               = [open |-> c.open, reading |-> c.reading, games |-> c.games, special |-> v]
  BY <1>2
<1>5. ASSUME NEW v \in BOOLEAN
      PROVE  [c EXCEPT !.open = v]
               = [open |-> v, reading |-> c.reading, games |-> c.games, special |-> c.special]
  BY <1>2
<1>6. ASSUME NEW v \in BOOLEAN
      PROVE  [c EXCEPT !.reading = v]
               = [open |-> c.open, reading |-> v, games |-> c.games, special |-> c.special]
  BY <1>2
<1>7. ASSUME NEW o \in BOOLEAN, NEW r \in BOOLEAN, NEW g \in Copies, NEW s \in Special \cup {Nobody}
      PROVE  [open |-> o, reading |-> r, games |-> g, special |-> s] \in Client
  BY DEF Client
<1>8. ASSUME NEW v \in Copies
      PROVE  /\ [c EXCEPT !.games = v] \in Client /\ [c EXCEPT !.games = v].games = v
             /\ [c EXCEPT !.games = v].open = c.open
             /\ [c EXCEPT !.games = v].reading = c.reading
             /\ [c EXCEPT !.games = v].special = c.special
  <2> DEFINE b == [open |-> c.open, reading |-> c.reading, games |-> v, special |-> c.special]
  <2>1. b \in Client
    BY <1>1, <1>7
  <2>2. /\ b.open = c.open /\ b.reading = c.reading /\ b.games = v /\ b.special = c.special
    OBVIOUS
  <2>3. [c EXCEPT !.games = v] = b
    BY <1>3
  <2> HIDE DEF b
  <2> QED
    BY <2>1, <2>2, <2>3
<1>9. ASSUME NEW v \in Special \cup {Nobody}
      PROVE  /\ [c EXCEPT !.special = v] \in Client /\ [c EXCEPT !.special = v].special = v
             /\ [c EXCEPT !.special = v].open = c.open
             /\ [c EXCEPT !.special = v].reading = c.reading
             /\ [c EXCEPT !.special = v].games = c.games
  <2> DEFINE b == [open |-> c.open, reading |-> c.reading, games |-> c.games, special |-> v]
  <2>1. b \in Client
    BY <1>1, <1>7
  <2>2. /\ b.open = c.open /\ b.reading = c.reading /\ b.games = c.games /\ b.special = v
    OBVIOUS
  <2>3. [c EXCEPT !.special = v] = b
    BY <1>4
  <2> HIDE DEF b
  <2> QED
    BY <2>1, <2>2, <2>3
<1>10. ASSUME NEW v \in BOOLEAN
      PROVE  /\ [c EXCEPT !.open = v] \in Client /\ [c EXCEPT !.open = v].open = v
             /\ [c EXCEPT !.open = v].games = c.games
             /\ [c EXCEPT !.open = v].reading = c.reading
             /\ [c EXCEPT !.open = v].special = c.special
  <2> DEFINE b == [open |-> v, reading |-> c.reading, games |-> c.games, special |-> c.special]
  <2>1. b \in Client
    BY <1>1, <1>7
  <2>2. /\ b.open = v /\ b.reading = c.reading /\ b.games = c.games /\ b.special = c.special
    OBVIOUS
  <2>3. [c EXCEPT !.open = v] = b
    BY <1>5
  <2> HIDE DEF b
  <2> QED
    BY <2>1, <2>2, <2>3
<1>11. ASSUME NEW v \in BOOLEAN
      PROVE  /\ [c EXCEPT !.reading = v] \in Client /\ [c EXCEPT !.reading = v].reading = v
             /\ [c EXCEPT !.reading = v].open = c.open
             /\ [c EXCEPT !.reading = v].games = c.games
             /\ [c EXCEPT !.reading = v].special = c.special
  <2> DEFINE b == [open |-> c.open, reading |-> v, games |-> c.games, special |-> c.special]
  <2>1. b \in Client
    BY <1>1, <1>7
  <2>2. /\ b.open = c.open /\ b.reading = v /\ b.games = c.games /\ b.special = c.special
    OBVIOUS
  <2>3. [c EXCEPT !.reading = v] = b
    BY <1>6
  <2> HIDE DEF b
  <2> QED
    BY <2>1, <2>2, <2>3
<1> QED
  BY <1>8, <1>9, <1>10, <1>11

\* RequestFutureContext.delete_game
LEMMA DeleteInstancesIs ==
    ASSUME NEW c \in Client
    PROVE  LET d == DeleteInstances(c) IN
           /\ d \in Client /\ DOMAIN d.games = {} /\ d.open = c.open /\ d.reading = c.reading
<1> DEFINE b == [c EXCEPT !.games = Empty]
           d == DeleteInstances(c)
<1>1. Empty \in Copies /\ DOMAIN Empty = {}
  <2>1. DOMAIN Empty = {} /\ Empty = [r \in DOMAIN Empty |-> Empty[r]]
    BY DEF Empty
  <2> HIDE DEF Empty
  <2> QED
    BY <2>1, CopiesAre
<1> HIDE DEF Empty, Copies
<1>2. b \in Client /\ b.games = Empty /\ b.open = c.open /\ b.reading = c.reading
  BY <1>1, ClientWith
<1>3. d = [b EXCEPT !.special = Nobody]
  BY DEF DeleteInstances, Client
<1> HIDE DEF b, d
<1>4. d \in Client /\ d.games = b.games /\ d.open = b.open /\ d.reading = b.reading
  BY <1>2, <1>3, ClientWith
<1> QED
  BY <1>1, <1>2, <1>4 DEF d

\* A client whose channel is removed has no copies.
LEMMA RemoveChannelIs ==
    ASSUME NEW c \in Client
    PROVE  LET d == RemoveChannel(c) IN
           d \in Client /\ DOMAIN d.games = {} /\ d.reading = c.reading
<1> DEFINE b == DeleteInstances(c)
<1>1. b \in Client /\ DOMAIN b.games = {} /\ b.reading = c.reading
  BY DeleteInstancesIs
<1>2. RemoveChannel(c) = [b EXCEPT !.open = FALSE]
  BY DEF RemoveChannel
<1> DEFINE d == RemoveChannel(c)
<1> HIDE DEF b, d, Copies
<1>3. d \in Client /\ d.games = b.games /\ d.reading = b.reading
  <2>1. FALSE \in BOOLEAN
    OBVIOUS
  <2>2. /\ [b EXCEPT !.open = FALSE] \in Client /\ [b EXCEPT !.open = FALSE].games = b.games
        /\ [b EXCEPT !.open = FALSE].reading = b.reading
    BY <1>1, <2>1, ClientWith, Zenon
  <2> QED
    BY <1>2, <2>2, Zenon DEF d
<1> QED
  BY <1>1, <1>3 DEF d

\* A client that loses one copy.
LEMMA RemoveGameIs ==
    ASSUME NEW c \in Client, NEW r
    PROVE  LET d == RemoveGame(c, r) IN
           /\ d \in Client /\ DOMAIN d.games = DOMAIN c.games \ {r}
           /\ \A q \in DOMAIN d.games : d.games[q] = c.games[q]
           /\ d.open = c.open /\ d.reading = c.reading /\ d.special = c.special
<1> DEFINE h == Drop(c.games, r)
<1>1. DOMAIN c.games \subseteq Roles /\ \A q \in DOMAIN c.games : c.games[q] \in Game
  BY ClientParts
<1>2. h = [q \in DOMAIN c.games \ {r} |-> c.games[q]]
  BY DEF Drop
<1>3. /\ DOMAIN h = DOMAIN c.games \ {r} /\ \A q \in DOMAIN h : h[q] = c.games[q]
      /\ h = [q \in DOMAIN h |-> h[q]]
  BY <1>2
<1> HIDE DEF h
<1>4. h \in Copies
  BY <1>1, <1>3, CopiesAre
<1>5. RemoveGame(c, r) = [c EXCEPT !.games = h]
  BY DEF RemoveGame, h
<1> HIDE DEF Copies
<1>6. LET d == RemoveGame(c, r) IN
      d \in Client /\ d.games = h /\ d.open = c.open /\ d.reading = c.reading /\ d.special = c.special
  BY <1>4, <1>5, ClientWith
<1> QED
  BY <1>3, <1>6

\* A copy is replaced.
LEMMA ReplacedIs ==
    ASSUME NEW c \in Client, NEW r \in DOMAIN c.games, NEW g \in Game
    PROVE  LET d == [c EXCEPT !.games[r] = g] IN
           /\ d \in Client /\ DOMAIN d.games = DOMAIN c.games
           /\ \A q \in DOMAIN d.games : d.games[q] = IF q = r THEN g ELSE c.games[q]
           /\ d.open = c.open /\ d.reading = c.reading /\ d.special = c.special
<1> DEFINE h == [c.games EXCEPT ![r] = g]
           d == [c EXCEPT !.games[r] = g]
<1>1. DOMAIN c.games \subseteq Roles /\ \A q \in DOMAIN c.games : c.games[q] \in Game
  BY ClientParts
<1>2. h = [q \in DOMAIN c.games |-> IF q = r THEN g ELSE c.games[q]]
  <2>1. c.games \in Copies
    BY ClientParts
  <2>2. c.games = [q \in DOMAIN c.games |-> c.games[q]]
    BY <2>1, CopiesAre
  <2> QED
    BY <2>2
<1>3. /\ DOMAIN h = DOMAIN c.games /\ \A q \in DOMAIN h : h[q] = IF q = r THEN g ELSE c.games[q]
      /\ h = [q \in DOMAIN h |-> h[q]]
  BY <1>2
<1>4. d = [c EXCEPT !.games = h]
  OBVIOUS
<1> HIDE DEF h
<1>5. h \in Copies
  BY <1>1, <1>3, CopiesAre
<1> HIDE DEF Copies, d
<1>6. d \in Client /\ d.games = h /\ d.open = c.open /\ d.reading = c.reading /\ d.special = c.special
  BY <1>4, <1>5, ClientWith
<1> QED
  BY <1>3, <1>6 DEF d

\* GameInstancesSet.add
LEMMA AddIs ==
    ASSUME NEW c \in Client, NEW r \in Roles, NEW g \in Game
    PROVE  LET d == Add(c, r, g) IN
           /\ d \in Client /\ DOMAIN d.games = DOMAIN c.games \cup {r}
           /\ \A q \in DOMAIN d.games : d.games[q] = IF q = r THEN g ELSE c.games[q]
           /\ d.open = c.open /\ d.reading = c.reading
           /\ d.special = IF r \in Special THEN r ELSE c.special
<1> DEFINE h == Put(c.games, r, g)
           s == IF r \in Special THEN r ELSE c.special
           b == [c EXCEPT !.games = h]
           d == Add(c, r, g)
<1>1. /\ DOMAIN c.games \subseteq Roles /\ \A q \in DOMAIN c.games : c.games[q] \in Game
      /\ c.special \in Special \cup {Nobody}
  BY ClientParts
<1>2. h = [q \in DOMAIN c.games \cup {r} |-> IF q = r THEN g ELSE c.games[q]]
  BY DEF Put
<1>3. /\ DOMAIN h = DOMAIN c.games \cup {r}
      /\ \A q \in DOMAIN h : h[q] = IF q = r THEN g ELSE c.games[q]
      /\ h = [q \in DOMAIN h |-> h[q]]
  BY <1>2
<1>4. d = [b EXCEPT !.special = s]
  BY DEF Add, Client
<1> HIDE DEF h
<1>5. h \in Copies
  BY <1>1, <1>3, CopiesAre
<1> HIDE DEF Copies
<1>6. b \in Client /\ b.games = h /\ b.open = c.open /\ b.reading = c.reading
  BY <1>5, ClientWith
<1>7. s \in Special \cup {Nobody}
  BY <1>1
<1> HIDE DEF b, d, s
<1>8. d \in Client /\ d.games = b.games /\ d.open = b.open /\ d.reading = b.reading /\ d.special = s
  BY <1>4, <1>6, <1>7, ClientWith
<1> QED
  BY <1>3, <1>6, <1>8 DEF d, s

\* One client changes.
Changed(next, t, d) ==
    /\ Clients(next)
    /\ \A x \in Watched : next[x] = IF x = t THEN d ELSE client[x]
    /\ \A a \in Held(next) : /\ a[1] \in Roles /\ a[2] \in Watched
                             /\ a[2] = t => a[1] \in DOMAIN d.games /\ At(next, a) = d.games[a[1]]
                             /\ a[2] # t => a \in Registered /\ At(next, a) = Copy(a)

\* One client changes.
LEMMA ClientChanges ==
    ASSUME Clients(client), NEW t \in Watched, NEW d \in Client,
           DOMAIN d.games \cap Special \subseteq {d.special},
           DOMAIN d.games # {} => d.open /\ d.reading
    PROVE  Changed([client EXCEPT ![t] = d], t, d)
<1> DEFINE next == [client EXCEPT ![t] = d]
<1>1. /\ client \in [Watched -> Client]
      /\ \A x \in Watched : /\ DOMAIN client[x].games \cap Special \subseteq {client[x].special}
                            /\ DOMAIN client[x].games # {} => client[x].open /\ client[x].reading
  BY DEF Clients
<1>2. next \in [Watched -> Client] /\ \A x \in Watched : next[x] = IF x = t THEN d ELSE client[x]
  BY <1>1
<1> HIDE DEF next
<1>3. Clients(next)
  BY <1>1, <1>2 DEF Clients
<1>4. ASSUME NEW a \in Held(next)
      PROVE  /\ a[1] \in Roles /\ a[2] \in Watched
             /\ a[2] = t => a[1] \in DOMAIN d.games /\ At(next, a) = d.games[a[1]]
             /\ a[2] # t => a \in Registered /\ At(next, a) = Copy(a)
  <2>1. a \in Roles \X Watched /\ a[1] \in DOMAIN next[a[2]].games
    BY DEF Held
  <2>2. a[1] \in Roles /\ a[2] \in Watched
    BY <2>1
  <2>3. next[a[2]] = IF a[2] = t THEN d ELSE client[a[2]]
    BY <1>2, <2>2
  <2> QED
    BY <2>1, <2>2, <2>3 DEF Registered, At, Copy
<1> QED
  BY <1>2, <1>3, <1>4 DEF next, Changed

\* Clients that do not change keep their copies.
LEMMA SameClients == ASSUME Clients(client) PROVE Keep(client)
  BY DEF Keep, Held, At, Copy, Registered

\* The client that leaves the game loses its copies, the others keep theirs.
LEMMA LeftIs ==
    ASSUME Clients(client), NEW t
    PROVE  Keep(Left(t)) /\ \A a \in Held(Left(t)) : a[2] # t
<1> DEFINE next == Left(t)
           d == DeleteInstances(client[t])
<1>1. CASE t \in Watched
  <2>1. client[t] \in Client
    BY <1>1 DEF Clients
  <2>2. d \in Client /\ DOMAIN d.games = {} /\ d.open = client[t].open /\ d.reading = client[t].reading
    BY <2>1, DeleteInstancesIs
  <2>3. next = [client EXCEPT ![t] = d]
    BY <1>1 DEF Left
  <2> HIDE DEF d, next
  <2>4. Changed(next, t, d)
    BY <1>1, <2>2, <2>3, ClientChanges
  <2>5. \A a \in Held(next) : a[2] # t
    BY <2>2, <2>4 DEF Changed
  <2>6. \A x \in Watched : next[x].reading = client[x].reading
    BY <2>2, <2>4 DEF Changed
  <2> QED
    BY <2>4, <2>5, <2>6 DEF Changed, Keep, next
<1>2. CASE t \notin Watched
  <2>1. next = client
    BY <1>2 DEF Left
  <2>2. \A a \in Held(client) : a[2] # t
    <3>1. ASSUME NEW a \in Held(client) PROVE a[2] \in Watched
      BY DEF Held
    <3> QED
      BY <1>2, <3>1
  <2> QED
    BY <2>1, <2>2, SameClients
<1> QED
  BY <1>1, <1>2

\* The client whose channel is closed loses its copies, the others keep theirs.
LEMMA ClosedIs ==
    ASSUME Clients(client), NEW t
    PROVE  Keep(Closed(t)) /\ \A a \in Held(Closed(t)) : a[2] # t
<1> DEFINE next == Closed(t)
           d == RemoveChannel(client[t])
<1>1. CASE t \in Watched
  <2>1. client[t] \in Client
    BY <1>1 DEF Clients
  <2>2. d \in Client /\ DOMAIN d.games = {} /\ d.reading = client[t].reading
    BY <2>1, RemoveChannelIs
  <2>3. next = [client EXCEPT ![t] = d]
    BY <1>1 DEF Closed
  <2> HIDE DEF d, next
  <2>4. Changed(next, t, d)
    BY <1>1, <2>2, <2>3, ClientChanges
  <2>5. \A a \in Held(next) : a[2] # t
    BY <2>2, <2>4 DEF Changed
  <2>6. \A x \in Watched : next[x].reading = client[x].reading
    BY <2>2, <2>4 DEF Changed
  <2> QED
    BY <2>4, <2>5, <2>6 DEF Changed, Keep, next
<1>2. CASE t \notin Watched
  <2>1. next = client
    BY <1>2 DEF Closed
  <2>2. \A a \in Held(client) : a[2] # t
    <3>1. ASSUME NEW a \in Held(client) PROVE a[2] \in Watched
      BY DEF Held
    <3> QED
      BY <1>2, <3>1
  <2> QED
    BY <2>1, <2>2, SameClients
<1> QED
  BY <1>1, <1>2

\* A client drops one copy.
LEMMA RemovedIs ==
    ASSUME Clients(client), NEW t \in Watched, NEW r
    PROVE  Keep([client EXCEPT ![t] = RemoveGame(@, r)])
<1> DEFINE d == RemoveGame(client[t], r)
           next == [client EXCEPT ![t] = d]
<1>1. /\ client[t] \in Client /\ DOMAIN client[t].games \cap Special \subseteq {client[t].special}
      /\ DOMAIN client[t].games # {} => client[t].open /\ client[t].reading
  BY DEF Clients
<1>2. /\ d \in Client /\ DOMAIN d.games = DOMAIN client[t].games \ {r}
      /\ \A q \in DOMAIN d.games : d.games[q] = client[t].games[q]
      /\ d.open = client[t].open /\ d.reading = client[t].reading /\ d.special = client[t].special
  BY <1>1, RemoveGameIs
<1> HIDE DEF d
<1>3. DOMAIN d.games \cap Special \subseteq {d.special} /\ (DOMAIN d.games # {} => d.open /\ d.reading)
  BY <1>1, <1>2
<1> HIDE DEF next
<1>4. Changed(next, t, d)
  BY <1>2, <1>3, ClientChanges DEF next
<1>5. ASSUME NEW a \in Held(next), a[2] = t PROVE a \in Registered /\ At(next, a) = Copy(a)
  <2>1. a \in Roles \X Watched
    BY DEF Held
  <2> QED
    BY <1>2, <1>4, <1>5, <2>1 DEF Changed, Registered, Copy
<1>6. \A x \in Watched : next[x].reading = client[x].reading
  BY <1>2, <1>4 DEF Changed
<1> QED
  BY <1>4, <1>5, <1>6 DEF Changed, Keep, next, d

\* A copy changes.
Replaced(next, t, r, g) ==
    /\ Clients(next) /\ \A x \in Watched : next[x].reading = client[x].reading
    /\ \A a \in Held(next) : /\ a \in Registered /\ a[1] \in Roles /\ a[2] \in Watched
                             /\ At(next, a) = IF a[1] = r /\ a[2] = t THEN g ELSE Copy(a)

\* One copy changes.
LEMMA CopyChanges ==
    ASSUME Clients(client), NEW t \in Watched, NEW r \in DOMAIN client[t].games, NEW g \in Game
    PROVE  Replaced([client EXCEPT ![t].games[r] = g], t, r, g)
<1> DEFINE d == [client[t] EXCEPT !.games[r] = g]
           next == [client EXCEPT ![t].games[r] = g]
<1>1. /\ client[t] \in Client /\ DOMAIN client[t].games \cap Special \subseteq {client[t].special}
      /\ DOMAIN client[t].games # {} => client[t].open /\ client[t].reading
  BY DEF Clients
<1>2. /\ d \in Client /\ DOMAIN d.games = DOMAIN client[t].games
      /\ \A q \in DOMAIN d.games : d.games[q] = IF q = r THEN g ELSE client[t].games[q]
      /\ d.open = client[t].open /\ d.reading = client[t].reading /\ d.special = client[t].special
  BY <1>1, ReplacedIs
<1>3. next = [client EXCEPT ![t] = d]
  OBVIOUS
<1> HIDE DEF d
<1>4. DOMAIN d.games \cap Special \subseteq {d.special} /\ (DOMAIN d.games # {} => d.open /\ d.reading)
  BY <1>1, <1>2
<1> HIDE DEF next
<1>5. Changed(next, t, d)
  BY <1>2, <1>3, <1>4, ClientChanges
<1>6. ASSUME NEW a \in Held(next), a[2] = t
      PROVE  a \in Registered /\ At(next, a) = IF a[1] = r THEN g ELSE Copy(a)
  <2>1. a \in Roles \X Watched
    BY DEF Held
  <2> QED
    BY <1>2, <1>5, <1>6, <2>1 DEF Changed, Registered, Copy
<1>7. \A x \in Watched : next[x].reading = client[x].reading
  BY <1>2, <1>5 DEF Changed
<1> QED
  BY <1>5, <1>6, <1>7 DEF Changed, Replaced, next

\* A client is given a copy of game g, or not.
Given(next, t, r, g) ==
    /\ Clients(next) /\ \A x \in Watched : next[x].reading = client[x].reading
    /\ \A a \in Held(next) : /\ a \in Registered => At(next, a) = Copy(a)
                             /\ a \notin Registered => /\ a[1] = r /\ a[2] = t
                                                       /\ At(next, a) = Cast(g, r)

\* A client is given a copy, or refuses it.
LEMMA NewGameIs ==
    ASSUME Clients(client), NEW t, NEW r \in Roles, NEW g \in Game,
           t \in Watched => client[t].open /\ client[t].reading
    PROVE  Given(NewGame(t, r, g), t, r, g)
<1> DEFINE next == NewGame(t, r, g)
<1>1. CASE t \in Watched /\ Adds(client[t], r)
  <2> DEFINE d == Add(client[t], r, Cast(g, r))
  <2>1. /\ client[t] \in Client /\ DOMAIN client[t].games \cap Special \subseteq {client[t].special}
        /\ DOMAIN client[t].games \subseteq Roles
    BY <1>1, ClientParts DEF Clients
  <2>2. Cast(g, r) \in Game
    BY CastIs
  <2>3. /\ d \in Client /\ DOMAIN d.games = DOMAIN client[t].games \cup {r}
        /\ \A q \in DOMAIN d.games : d.games[q] = IF q = r THEN Cast(g, r) ELSE client[t].games[q]
        /\ d.open = client[t].open /\ d.reading = client[t].reading
        /\ d.special = IF r \in Special THEN r ELSE client[t].special
    BY <2>1, <2>2, AddIs
  <2>4. next = [client EXCEPT ![t] = d]
    BY <1>1 DEF NewGame
  <2> HIDE DEF d, next
  <2>5. r \notin DOMAIN client[t].games /\ (r \in Special => client[t].special = Nobody)
    BY <1>1 DEF Adds
  <2>6. DOMAIN d.games \cap Special \subseteq {d.special}
    <3>1. CASE r \in Special
      <4>1. r \in Special => DOMAIN client[t].games \cap Special \subseteq {Nobody}
        BY <2>1, <2>5
      <4>2. Nobody \notin Special
        BY DEF Nobody, Special
      <4> QED
        BY <2>3, <3>1, <4>1, <4>2
    <3>2. CASE r \notin Special
      BY <2>1, <2>3, <3>2
    <3> QED
      BY <3>1, <3>2
  <2>7. d.open /\ d.reading
    BY <1>1, <2>3
  <2>8. Changed(next, t, d)
    BY <1>1, <2>3, <2>4, <2>6, <2>7, ClientChanges
  <2>9. ASSUME NEW a \in Held(next)
        PROVE  /\ a \in Registered => At(next, a) = Copy(a)
               /\ a \notin Registered => /\ a[1] = r /\ a[2] = t
                                         /\ At(next, a) = Cast(g, r)
    <3>1. a \in Roles \X Watched
      BY DEF Held
    <3> QED
      BY <2>3, <2>5, <2>8, <3>1 DEF Changed, Registered, Copy
  <2>10. \A x \in Watched : next[x].reading = client[x].reading
    BY <2>3, <2>8 DEF Changed
  <2> QED
    BY <2>8, <2>9, <2>10 DEF Changed, Given, next
<1>2. CASE ~(t \in Watched /\ Adds(client[t], r))
  <2>1. next = client
    BY <1>2 DEF NewGame
  <2> HIDE DEF next
  <2>2. Keep(client)
    BY SameClients
  <2> QED
    BY <2>1, <2>2 DEF Keep, Given, next
<1> QED
  BY <1>1, <1>2

----------------------------------------------------------------------------
(* The steps.                                                               *)

\* The state is well formed.
Sound == TypeInv /\ GameOver /\ Seated /\ StateInv

\* What a step must make true of all but apart, and of a copy a that will follow the game.
SoundNext ==
    /\ game' \in Game
    /\ status' \in {"forming", "active", "paused", "completed", "canceled", "deleted"}
    /\ tokens' \in [Roles -> SUBSET Tokens] /\ online' \subseteq Tokens /\ omniscients' \subseteq Users
    /\ Clients(client') /\ Box(inbox') /\ asked' \in 0..MaxRequests
    /\ GameOver' /\ Seated' /\ StateInv'

\* Copy a follows the game after the step: it did before, or is new with nothing under way.
Stays(a) ==
    /\ a \in Held(client') /\ a[1] \in Roles /\ a[2] \in Watched /\ a[2] \in tokens'[a[1]]
    /\ a \in Registered => a \in Following
    /\ a \notin Registered => \A i \in 1..Len(inbox[a[2]]) : ~For(inbox[a[2]][i], a[1])

FollowsNext(a) == Follows(At(client', a), game', status', inbox'[a[2]], a[1])

\* No client that is watched is a master's. A master may order for all: the copy that asks
\* adds the orders to those it had, which the server replaces, and the answer overtakes the
\* notifications that wait in the queue of the server.
PlayersWatched == \A t \in Watched : Owner[t] \notin Masters

\* A copy that follows the game after a step followed it before, or is new and has
\* nothing older than itself under way.
LEMMA WhoStays ==
    ASSUME Sound, apart' = NowApart, NEW a, a \in Following'
    PROVE  Stays(a) /\ At(client', a) = Copy(a)'
<1>1. a \in Registered' /\ a \notin apart'
  BY DEF Following
<1>2. a \in Held(client') /\ At(client', a) = Copy(a)'
  BY <1>1 DEF Registered, Held, At, Copy
<1>3. a[1] \in Roles /\ a[2] \in Watched
  BY <1>2 DEF Held
<1>4. a[2] \in tokens'[a[1]]
  BY <1>1 DEF NowApart
<1>5. ~(IF a \in Registered THEN a \in apart
        ELSE \E i \in DOMAIN inbox[a[2]] :
                 "role" \in DOMAIN inbox[a[2]][i] /\ inbox[a[2]][i].role = a[1])
  BY <1>1 DEF NowApart
<1>6. a \in Registered => a \in Following
  BY <1>5 DEF Following
<1>7. ASSUME a \notin Registered, NEW i \in 1..Len(inbox[a[2]]), For(inbox[a[2]][i], a[1]) PROVE FALSE
  <2> DEFINE n == inbox[a[2]][i]
  <2>1. inbox[a[2]] \in Seq(Notification)
    BY <1>3 DEF Sound, TypeInv, Box
  <2>2. i \in DOMAIN inbox[a[2]] /\ n \in Notification
    BY <2>1
  <2>3. n.type # "AccountDeleted" => "role" \in DOMAIN n
    BY <2>2 DEF Notification
  <2> QED
    BY <1>5, <1>7, <2>2, <2>3 DEF For
<1> QED
  BY <1>2, <1>3, <1>4, <1>6, <1>7 DEF Stays

\* What is known of a copy that follows the game.
LEMMA Follower ==
    ASSUME Sound, FollowInv, NEW a \in Following
    PROVE  /\ a[1] \in Roles /\ a[2] \in Watched /\ a[2] \in Tokens /\ a[2] \in tokens[a[1]]
           /\ a = <<a[1], a[2]>>
           /\ Follows(Copy(a), game, status, inbox[a[2]], a[1])
           /\ client[a[2]].reading /\ inbox[a[2]] \in Seq(Notification)
           /\ Copy(a) \in Game /\ (Playing => a[2] \in online)
<1>1. a \in Roles \X Watched /\ a[1] \in DOMAIN client[a[2]].games
  BY DEF Following, Registered
<1>2. a[1] \in Roles /\ a[2] \in Watched /\ a = <<a[1], a[2]>>
  BY <1>1
<1>3. a[2] \in tokens[a[1]] /\ Follows(Copy(a), game, status, inbox[a[2]], a[1])
  BY DEF FollowInv
<1>4. client[a[2]] \in Client /\ client[a[2]].reading
  BY <1>1, <1>2 DEF Sound, TypeInv, Clients
<1>5. Copy(a) \in Game
  BY <1>1, <1>4, ClientParts DEF Copy
<1>6. inbox[a[2]] \in Seq(Notification)
  BY <1>2 DEF Sound, TypeInv, Box
<1>7. Playing => a[2] \in online
  BY <1>2, <1>3 DEF Sound, StateInv
<1> QED
  BY <1>2, <1>3, <1>4, <1>5, <1>6, <1>7, ViewsAssumption

\* Who asks is of the masters, or asks for a power.
LEMMA WhoMayAsk ==
    ASSUME NEW t, NEW role \in Roles, NEW k \in BoardRequests \cup {"SetOrders"}, NEW named,
           Verified(t, role, k, named)
    PROVE  role \in Powers \/ IsMaster(t)
<1>1. RoleMayAsk(k, role, IsMaster(t))
  BY DEF Verified
<1>2. k \in NoObserverRole /\ k \notin NeedNoMaster
  BY DEF BoardRequests, NoObserverRole, NeedNoMaster
<1>3. role # "observer"
  BY <1>1, <1>2 DEF RoleMayAsk
<1>4. role = "omniscient" => IsMaster(t)
  BY <1>1, <1>2 DEF RoleMayAsk
<1> QED
  BY <1>3, <1>4 DEF Roles, Special

\* A request of the table is about powers.
LEMMA MeantPowers ==
    ASSUME NEW role \in Roles, NEW named \in Names
    PROVE  Meant(role, named) \in SUBSET Powers
  BY DEF Meant, Names

\* The requests are bounded.
LEMMA AskedBound == ASSUME Sound, NEW t, Asks(t) PROVE asked' \in 0..MaxRequests
  BY ViewsAssumption DEF Sound, TypeInv, Asks

----------------------------------------------------------------------------
(* The requests that change the table.                                      *)

\* Games that differ in boards and orders only.
Same(h, g) ==
    /\ h \in Game /\ h.phase = g.phase /\ h.past = g.past
    /\ \A p \in Powers : h.power[p].controller = g.power[p].controller /\ h.power[p].vote = g.power[p].vote

\* The copy of role r at t may change so, no other changes.
Answer(t, r) ==
    /\ Clients(client') /\ \A x \in Watched : client'[x].reading = client[x].reading
    /\ \A a \in Held(client') : /\ a \in Registered /\ Same(At(client', a), Copy(a))
                                /\ ~(a[1] = r /\ a[2] = t) => At(client', a) = Copy(a)

\* A game agrees with itself.
LEMMA SameGame == ASSUME NEW g \in Game PROVE Same(g, g)
  BY DEF Same

\* An answer changes a copy, if the copy is there.
LEMMA AnswerIs ==
    ASSUME Sound, NEW t, NEW r, NEW g,
           t \in Watched /\ r \in DOMAIN client[t].games => Same(g, client[t].games[r]),
           client' = IF t \in Watched /\ r \in DOMAIN client[t].games
                     THEN [client EXCEPT ![t].games[r] = g] ELSE client
    PROVE  Answer(t, r)
<1>1. Clients(client)
  BY DEF Sound, TypeInv
<1>2. ASSUME NEW a \in Registered PROVE Copy(a) \in Game /\ a[1] \in Roles /\ a[2] \in Watched
  <2>1. a[1] \in Roles /\ a[2] \in Watched /\ a[1] \in DOMAIN client[a[2]].games
    BY DEF Registered
  <2>2. client[a[2]] \in Client
    BY <1>1, <2>1 DEF Clients
  <2> QED
    BY <2>1, <2>2, ClientParts DEF Copy
<1>3. CASE t \in Watched /\ r \in DOMAIN client[t].games
  <2>1. g \in Game
    BY <1>3 DEF Same
  <2>2. client' = [client EXCEPT ![t].games[r] = g]
    BY <1>3
  <2> DEFINE next == [client EXCEPT ![t].games[r] = g]
  <2>3. /\ Clients(next) /\ \A x \in Watched : next[x].reading = client[x].reading
        /\ \A a \in Held(next) : /\ a \in Registered /\ a[1] \in Roles /\ a[2] \in Watched
                                 /\ At(next, a) = IF a[1] = r /\ a[2] = t THEN g ELSE Copy(a)
    <3>1. Replaced(next, t, r, g)
      BY <1>1, <1>3, <2>1, CopyChanges
    <3> QED
      BY <3>1 DEF Replaced
  <2>4. client' = next
    BY <2>2
  <2> HIDE DEF next
  <2>5. ASSUME NEW a \in Held(next) PROVE Same(At(next, a), Copy(a))
    <3>1. CASE a[1] = r /\ a[2] = t
      <4>1. At(next, a) = g /\ Copy(a) = client[t].games[r]
        BY <2>3, <3>1 DEF Copy
      <4> QED
        BY <1>3, <4>1
    <3>2. CASE ~(a[1] = r /\ a[2] = t)
      <4>1. At(next, a) = Copy(a) /\ a \in Registered
        BY <2>3, <3>2
      <4> QED
        BY <1>2, <4>1, SameGame
    <3> QED
      BY <3>1, <3>2
  <2> QED
    BY <2>3, <2>4, <2>5 DEF Answer
<1>4. CASE ~(t \in Watched /\ r \in DOMAIN client[t].games)
  <2>1. client' = client
    BY <1>4
  <2>2. Keep(client)
    BY <1>1, SameClients
  <2>3. \A a \in Held(client) : a \in Registered /\ Same(At(client, a), Copy(a)) /\ At(client, a) = Copy(a)
    BY <1>2, <2>2, SameGame DEF Keep
  <2> QED
    BY <2>1, <2>2, <2>3 DEF Answer, Keep
<1> QED
  BY <1>3, <1>4

\* The answer to a copy of a player changes nothing of what the player has of the game.
LEMMA SameFollows ==
    ASSUME NEW r \in Powers, NEW d, NEW c \in Game, Same(d, c)
    PROVE  View(d, r) = View(c, r) /\ d.power[r].vote = c.power[r].vote
<1>1. Watches(r) = {}
  BY ViewsAssumption DEF Watches
<1> QED
  BY <1>1, SameView DEF Same

\* Of tokens and controllers nothing changes.
LEMMA SameSeats ==
    ASSUME Sound, Same(game', game), status' = status \/ status' \in {"completed", "canceled"},
           UNCHANGED <<tokens, omniscients, online>>
    PROVE  /\ GameOver' /\ Seated'
           /\ Playing' /\ Playing => \A r \in Roles : tokens'[r] \subseteq online'
<1>1. GameOver'
  BY DEF Sound, GameOver, Same, Playing, Finished
<1>2. Seated'
  BY DEF Sound, Seated, Same, Controller
<1>3. Playing' /\ Playing => \A r \in Roles : tokens'[r] \subseteq online'
  BY DEF Sound, StateInv
<1> QED
  BY <1>1, <1>2, <1>3

\* What is sent is for who reads.
LEMMA ReadersReached ==
    ASSUME Sound, NEW A, NEW f, Reached(inbox, inbox', A, f),
           \A x \in Watched : client'[x].reading = client[x].reading
    PROVE  \A t \in Watched : inbox'[t] # <<>> => client'[t].reading
<1>1. ASSUME NEW t \in Watched, inbox'[t] # <<>> PROVE client'[t].reading
  <2>1. inbox'[t] # inbox[t] => client[t].reading
    BY DEF Reached
  <2>2. inbox[t] # <<>> => client[t].reading
    BY DEF Sound, StateInv
  <2> QED
    BY <1>1, <2>1, <2>2
<1> QED
  BY <1>1

\* The step of a request that changes boards and orders: f is sent to A.
LEMMA TableStep ==
    ASSUME Sound, NEW t \in Tokens, NEW role \in Roles, NEW A, NEW f, Asks(t), Playing,
           Same(game', game), Answer(t, role), Box(inbox'), Reached(inbox, inbox', A, f),
           UNCHANGED <<status, tokens, omniscients, online>>,
           \A r \in Roles, x \in Tokens : <<r, x>> \in A =>
              /\ f[r] \in Notification /\ game' = OnGameNotification(game, f[r])
              /\ f[r].type \in {"PowerOrdersUpdate", "ClearedOrders", "ClearedUnits", "ClearedCenters"},
           \A r \in Special, x \in Tokens : x \in tokens[r] /\ ~(r = role /\ x = t) => <<r, x>> \in A
    PROVE  /\ SoundNext
           /\ FollowInv /\ (role \in Powers \/ t \notin Watched)
                 => \A a : Stays(a) => FollowsNext(a)
<1>1. SoundNext
  <2>1. \A x \in Watched : client'[x].reading = client[x].reading
    BY DEF Answer
  <2>2. StateInv'
    BY <2>1, SameSeats, ReadersReached DEF StateInv
  <2>3. asked' \in 0..MaxRequests
    BY AskedBound
  <2>4. game' \in Game /\ Clients(client')
    BY DEF Same, Answer
  <2> QED
    BY <2>2, <2>3, <2>4, SameSeats DEF SoundNext, Sound, TypeInv
<1>2. ASSUME FollowInv, role \in Powers \/ t \notin Watched, NEW a, Stays(a)
      PROVE  FollowsNext(a)
  <2> DEFINE r == a[1]
             x == a[2]
             c == Copy(a)
             d == At(client', a)
  <2>1. a \in Held(client') /\ a \in Registered /\ a \in Following
    BY <1>2 DEF Stays, Answer
  <2>2. /\ r \in Roles /\ x \in Watched /\ x \in Tokens /\ x \in tokens[r]
        /\ Follows(c, game, status, inbox[x], r)
        /\ client[x].reading /\ inbox[x] \in Seq(Notification) /\ c \in Game /\ x \in online
    BY <1>2, <2>1, Follower
  <2>3. inbox'[x] \in Seq(Notification)
    BY <2>2 DEF Box
  <2>4. Same(d, c) /\ (~(r = role /\ x = t) => d = c)
    BY <2>1 DEF Answer
  <2>5. View(d, r) = View(c, r) /\ (r \in Powers => d.power[r].vote = c.power[r].vote)
    <3>1. CASE r \in Powers
      BY <2>2, <2>4, <3>1, SameFollows
    <3>2. CASE r \notin Powers
      BY <1>2, <2>2, <2>4, <3>2
    <3> QED
      BY <3>1, <3>2
  <2>6. IF <<r, x>> \in A THEN OneFor(inbox[x], inbox'[x], r, f[r]) ELSE NoneFor(inbox[x], inbox'[x], r)
    BY <2>2 DEF Reached
  <2>7. game \in Game /\ (r \in Powers => game'.power[r].vote = game.power[r].vote)
    BY DEF Sound, TypeInv, Same
  <2>8. status' = "deleted" => status = "deleted"
    OBVIOUS
  <2> HIDE DEF r, x, c, d
  <2>9. CASE <<r, x>> \in A
    <3>1. /\ f[r] \in Notification /\ game' = OnGameNotification(game, f[r])
          /\ f[r].type \in {"PowerOrdersUpdate", "ClearedOrders", "ClearedUnits", "ClearedCenters"}
      BY <2>2, <2>9
    <3>2. View(game', r) = After(View(game, r), f[r])
      BY <2>7, <3>1, HandledIs DEF Updates
    <3>3. ~Votes(f[r], r)
      BY <3>1 DEF Votes
    <3>4. Follows(d, game', status', inbox'[x], r)
      BY <2>2, <2>3, <2>5, <2>6, <2>7, <2>8, <2>9, <3>2, <3>3, ToldFollows
    <3> QED
      BY <3>4 DEF FollowsNext, r, x, d
  <2>10. CASE <<r, x>> \notin A
    <3>1. r \in Powers
      <4>1. ASSUME r \in Special PROVE FALSE
        <5>1. ~(r = role /\ x = t)
          BY <1>2, <2>2, <4>1, ViewsAssumption
        <5> QED
          BY <2>2, <2>10, <4>1, <5>1
      <4> QED
        BY <2>2, <4>1 DEF Roles
    <3>2. View(game', r) = View(game, r)
      BY <2>7, <3>1, SameFollows
    <3>3. NoneFor(inbox[x], inbox'[x], r)
      BY <2>6, <2>10
    <3>4. Follows(d, game', status', inbox'[x], r)
      BY <2>2, <2>3, <2>5, <2>7, <2>8, <3>2, <3>3, QuietFollows
    <3> QED
      BY <3>4 DEF FollowsNext, r, x, d
  <2> QED
    BY <2>9, <2>10
<1> QED
  BY <1>1, <1>2

\* on_clear_orders: the copies go on to follow.
LEMMA ClearOrdersStep ==
    ASSUME Sound, NEW t \in Tokens, NEW role \in Roles, NEW named \in Names,
           ClearOrdersRequest(t, role, named)
    PROVE  /\ SoundNext
           /\ FollowInv /\ PlayersWatched => \A a : Stays(a) => FollowsNext(a)
<1> DEFINE ps == Meant(role, named)
           A == ReceptionAddresses(tokens) \ {<<role, t>>}
           f == ClearedNotice("ClearedOrders", ps)
           g == ClearOrders(client[t].games[role], ClearedByName(named))
<1>1. /\ AsksAs(t, role) /\ Verified(t, role, "ClearOrders", named)
      /\ game' = ClearOrders(game, ps)
      /\ client' = IF t \in Watched /\ role \in DOMAIN client[t].games
                   THEN [client EXCEPT ![t].games[role] = g] ELSE client
      /\ inbox' = ClearedNotified(inbox, A, "ClearedOrders", ps)
      /\ UNCHANGED <<status, tokens, omniscients, online>>
  BY DEF ClearOrdersRequest, Cleared, Answered
<1>2. Asks(t) /\ Playing
  BY <1>1 DEF AsksAs, Verified
<1>3. game \in Game /\ Box(inbox) /\ Clients(client) /\ tokens \in [Roles -> SUBSET Tokens]
  BY DEF Sound, TypeInv
<1>4. ps \in SUBSET Powers
  BY MeantPowers
<1>5. A \subseteq Roles \X Tokens
  BY DEF ReceptionAddresses
<1> HIDE DEF ps, A, g
<1>6. Same(game', game)
  BY <1>1, <1>3, ClearOrdersIs DEF Same
<1>7. ASSUME t \in Watched /\ role \in DOMAIN client[t].games PROVE Same(g, client[t].games[role])
  <2> DEFINE c == client[t].games[role]
  <2>1. c \in Game
    BY <1>3, <1>7, ClientParts DEF Clients
  <2>2. g = ClearOrders(c, ClearedByName(named))
    BY DEF g
  <2> HIDE DEF c
  <2>3. Same(g, c)
    BY <2>1, <2>2, ClearOrdersIs DEF Same
  <2> QED
    BY <2>3 DEF c
<1>8. Answer(t, role)
  BY <1>1, <1>7, AnswerIs
<1>9. Box(inbox') /\ Reached(inbox, inbox', A, f)
  BY <1>1, <1>3, <1>4, <1>5, ClearedSent
<1>10. ASSUME NEW r \in Roles
       PROVE  /\ f[r] \in Notification /\ game' = OnGameNotification(game, f[r])
              /\ f[r].type \in {"PowerOrdersUpdate", "ClearedOrders", "ClearedUnits", "ClearedCenters"}
  <2>1. f[r] = [type |-> "ClearedOrders", role |-> r, powers |-> ps]
    BY DEF ClearedNotice
  <2>2. f[r] \in Notification
    BY <1>4, <2>1 DEF Notification
  <2>3. f[r].type = "ClearedOrders" /\ f[r].powers = ps
    BY <2>1
  <2>4. OnGameNotification(game, f[r]) = ClearOrders(game, ps)
    BY <2>3 DEF OnGameNotification
  <2> QED
    BY <1>1, <2>2, <2>3, <2>4
<1>11. ASSUME NEW r \in Special, NEW x \in Tokens, x \in tokens[r] /\ ~(r = role /\ x = t)
       PROVE  <<r, x>> \in A
  <2>1. <<r, x>> \in Roles \X Tokens
    BY DEF Roles
  <2>2. <<r, x>> # <<role, t>>
    BY <1>11
  <2> QED
    BY <1>11, <2>1, <2>2 DEF A, ReceptionAddresses
<1>12. PlayersWatched => role \in Powers \/ t \notin Watched
  <2>1. role \in Powers \/ IsMaster(t)
    BY <1>1, WhoMayAsk DEF BoardRequests
  <2> QED
    BY <2>1 DEF PlayersWatched, IsMaster
<1> HIDE DEF f
<1>13. /\ SoundNext
       /\ FollowInv /\ (role \in Powers \/ t \notin Watched) => \A a : Stays(a) => FollowsNext(a)
  BY <1>1, <1>2, <1>6, <1>8, <1>9, <1>10, <1>11, TableStep
<1> QED
  BY <1>12, <1>13

\* on_clear_units: the copies go on to follow.
LEMMA ClearUnitsStep ==
    ASSUME Sound, NEW t \in Tokens, NEW role \in Roles, NEW named \in Names,
           ClearUnitsRequest(t, role, named)
    PROVE  /\ SoundNext
           /\ FollowInv /\ PlayersWatched => \A a : Stays(a) => FollowsNext(a)
<1> DEFINE ps == Meant(role, named)
           A == ReceptionAddresses(tokens) \ {<<role, t>>}
           f == ClearedNotice("ClearedUnits", ps)
           g == ClearUnits(client[t].games[role], ClearedByName(named))
<1>1. /\ AsksAs(t, role) /\ Verified(t, role, "ClearUnits", named)
      /\ game' = ClearUnits(game, ps)
      /\ client' = IF t \in Watched /\ role \in DOMAIN client[t].games
                   THEN [client EXCEPT ![t].games[role] = g] ELSE client
      /\ inbox' = ClearedNotified(inbox, A, "ClearedUnits", ps)
      /\ UNCHANGED <<status, tokens, omniscients, online>>
  BY DEF ClearUnitsRequest, Cleared, Answered
<1>2. Asks(t) /\ Playing
  BY <1>1 DEF AsksAs, Verified
<1>3. game \in Game /\ Box(inbox) /\ Clients(client) /\ tokens \in [Roles -> SUBSET Tokens]
  BY DEF Sound, TypeInv
<1>4. ps \in SUBSET Powers
  BY MeantPowers
<1>5. A \subseteq Roles \X Tokens
  BY DEF ReceptionAddresses
<1> HIDE DEF ps, A, g
<1>6. Same(game', game)
  BY <1>1, <1>3, ClearUnitsIs DEF Same
<1>7. ASSUME t \in Watched /\ role \in DOMAIN client[t].games PROVE Same(g, client[t].games[role])
  <2> DEFINE c == client[t].games[role]
  <2>1. c \in Game
    BY <1>3, <1>7, ClientParts DEF Clients
  <2>2. g = ClearUnits(c, ClearedByName(named))
    BY DEF g
  <2> HIDE DEF c
  <2>3. Same(g, c)
    BY <2>1, <2>2, ClearUnitsIs DEF Same
  <2> QED
    BY <2>3 DEF c
<1>8. Answer(t, role)
  BY <1>1, <1>7, AnswerIs
<1>9. Box(inbox') /\ Reached(inbox, inbox', A, f)
  BY <1>1, <1>3, <1>4, <1>5, ClearedSent
<1>10. ASSUME NEW r \in Roles
       PROVE  /\ f[r] \in Notification /\ game' = OnGameNotification(game, f[r])
              /\ f[r].type \in {"PowerOrdersUpdate", "ClearedOrders", "ClearedUnits", "ClearedCenters"}
  <2>1. f[r] = [type |-> "ClearedUnits", role |-> r, powers |-> ps]
    BY DEF ClearedNotice
  <2>2. f[r] \in Notification
    BY <1>4, <2>1 DEF Notification
  <2>3. f[r].type = "ClearedUnits" /\ f[r].powers = ps
    BY <2>1
  <2>4. OnGameNotification(game, f[r]) = ClearUnits(game, ps)
    BY <2>3 DEF OnGameNotification
  <2> QED
    BY <1>1, <2>2, <2>3, <2>4
<1>11. ASSUME NEW r \in Special, NEW x \in Tokens, x \in tokens[r] /\ ~(r = role /\ x = t)
       PROVE  <<r, x>> \in A
  <2>1. <<r, x>> \in Roles \X Tokens
    BY DEF Roles
  <2>2. <<r, x>> # <<role, t>>
    BY <1>11
  <2> QED
    BY <1>11, <2>1, <2>2 DEF A, ReceptionAddresses
<1>12. PlayersWatched => role \in Powers \/ t \notin Watched
  <2>1. role \in Powers \/ IsMaster(t)
    BY <1>1, WhoMayAsk DEF BoardRequests
  <2> QED
    BY <2>1 DEF PlayersWatched, IsMaster
<1> HIDE DEF f
<1>13. /\ SoundNext
       /\ FollowInv /\ (role \in Powers \/ t \notin Watched) => \A a : Stays(a) => FollowsNext(a)
  BY <1>1, <1>2, <1>6, <1>8, <1>9, <1>10, <1>11, TableStep
<1> QED
  BY <1>12, <1>13

\* on_clear_centers: the copies go on to follow.
LEMMA ClearCentersStep ==
    ASSUME Sound, NEW t \in Tokens, NEW role \in Roles, NEW named \in Names,
           ClearCentersRequest(t, role, named)
    PROVE  /\ SoundNext
           /\ FollowInv /\ PlayersWatched => \A a : Stays(a) => FollowsNext(a)
<1> DEFINE ps == Meant(role, named)
           A == ReceptionAddresses(tokens) \ {<<role, t>>}
           f == ClearedNotice("ClearedCenters", ps)
           g == ClearCenters(client[t].games[role], ClearedByName(named))
<1>1. /\ AsksAs(t, role) /\ Verified(t, role, "ClearCenters", named)
      /\ game' = ClearCenters(game, ps)
      /\ client' = IF t \in Watched /\ role \in DOMAIN client[t].games
                   THEN [client EXCEPT ![t].games[role] = g] ELSE client
      /\ inbox' = ClearedNotified(inbox, A, "ClearedCenters", ps)
      /\ UNCHANGED <<status, tokens, omniscients, online>>
  BY DEF ClearCentersRequest, Cleared, Answered
<1>2. Asks(t) /\ Playing
  BY <1>1 DEF AsksAs, Verified
<1>3. game \in Game /\ Box(inbox) /\ Clients(client) /\ tokens \in [Roles -> SUBSET Tokens]
  BY DEF Sound, TypeInv
<1>4. ps \in SUBSET Powers
  BY MeantPowers
<1>5. A \subseteq Roles \X Tokens
  BY DEF ReceptionAddresses
<1> HIDE DEF ps, A, g
<1>6. Same(game', game)
  BY <1>1, <1>3, ClearCentersIs DEF Same
<1>7. ASSUME t \in Watched /\ role \in DOMAIN client[t].games PROVE Same(g, client[t].games[role])
  <2> DEFINE c == client[t].games[role]
  <2>1. c \in Game
    BY <1>3, <1>7, ClientParts DEF Clients
  <2>2. g = ClearCenters(c, ClearedByName(named))
    BY DEF g
  <2> HIDE DEF c
  <2>3. Same(g, c)
    BY <2>1, <2>2, ClearCentersIs DEF Same
  <2> QED
    BY <2>3 DEF c
<1>8. Answer(t, role)
  BY <1>1, <1>7, AnswerIs
<1>9. Box(inbox') /\ Reached(inbox, inbox', A, f)
  BY <1>1, <1>3, <1>4, <1>5, ClearedSent
<1>10. ASSUME NEW r \in Roles
       PROVE  /\ f[r] \in Notification /\ game' = OnGameNotification(game, f[r])
              /\ f[r].type \in {"PowerOrdersUpdate", "ClearedOrders", "ClearedUnits", "ClearedCenters"}
  <2>1. f[r] = [type |-> "ClearedCenters", role |-> r, powers |-> ps]
    BY DEF ClearedNotice
  <2>2. f[r] \in Notification
    BY <1>4, <2>1 DEF Notification
  <2>3. f[r].type = "ClearedCenters" /\ f[r].powers = ps
    BY <2>1
  <2>4. OnGameNotification(game, f[r]) = ClearCenters(game, ps)
    BY <2>3 DEF OnGameNotification
  <2> QED
    BY <1>1, <2>2, <2>3, <2>4
<1>11. ASSUME NEW r \in Special, NEW x \in Tokens, x \in tokens[r] /\ ~(r = role /\ x = t)
       PROVE  <<r, x>> \in A
  <2>1. <<r, x>> \in Roles \X Tokens
    BY DEF Roles
  <2>2. <<r, x>> # <<role, t>>
    BY <1>11
  <2> QED
    BY <1>11, <2>1, <2>2 DEF A, ReceptionAddresses
<1>12. PlayersWatched => role \in Powers \/ t \notin Watched
  <2>1. role \in Powers \/ IsMaster(t)
    BY <1>1, WhoMayAsk DEF BoardRequests
  <2> QED
    BY <2>1 DEF PlayersWatched, IsMaster
<1> HIDE DEF f
<1>13. /\ SoundNext
       /\ FollowInv /\ (role \in Powers \/ t \notin Watched) => \A a : Stays(a) => FollowsNext(a)
  BY <1>1, <1>2, <1>6, <1>8, <1>9, <1>10, <1>11, TableStep
<1> QED
  BY <1>12, <1>13

\* set_orders changes nothing but orders.
LEMMA SetOrdersSame ==
    ASSUME NEW g \in Game, NEW q, NEW os \in OrderSets
    PROVE  Same(SetOrders(g, q, os), g)
<1> DEFINE h == SetOrders(g, q, os)
<1>1. /\ h \in Game /\ h.phase = g.phase /\ h.past = g.past
      /\ \A p \in Powers : /\ h.power[p].controller = g.power[p].controller
                           /\ h.power[p].vote = g.power[p].vote
  BY SetOrdersIs, ZenonT(60)
<1> HIDE DEF h
<1> QED
  BY <1>1 DEF Same, h

\* on_set_orders: the copies go on to follow.
LEMMA SetOrdersStep ==
    ASSUME Sound, NEW t \in Tokens, NEW role \in Roles, NEW named \in Names, NEW os \in SUBSET Units,
           SetOrdersRequest(t, role, named, os)
    PROVE  /\ SoundNext
           /\ FollowInv /\ PlayersWatched => \A a : Stays(a) => FollowsNext(a)
<1>1. PICK p \in Meant(role, named) :
          /\ game' = SetOrders(ClearOrders(game, {p}), p, os)
          /\ client' = Answered(t, role, LAMBDA g :
                                    SetOrders(g, IF role \in Powers THEN role ELSE p, os))
          /\ inbox' = OrdersNotified(inbox, ReceptionAddresses(tokens) \ {<<role, t>>}, p, os)
  BY DEF SetOrdersRequest
<1> DEFINE as == ReceptionAddresses(tokens) \ {<<role, t>>}
           A == {a \in as : a[1] \in Special \cup {p}}
           f == OrdersNotice(p, os)
           q == IF role \in Powers THEN role ELSE p
           g == SetOrders(client[t].games[role], q, os)
           h == ClearOrders(game, {p})
<1>2. /\ AsksAs(t, role) /\ Verified(t, role, "SetOrders", named)
      /\ UNCHANGED <<status, tokens, omniscients, online>>
  BY DEF SetOrdersRequest
<1>3. client' = IF t \in Watched /\ role \in DOMAIN client[t].games
                THEN [client EXCEPT ![t].games[role] = g] ELSE client
  BY <1>1 DEF Answered
<1>4. inbox' = OrdersNotified(inbox, as, p, os) /\ game' = SetOrders(h, p, os)
  BY <1>1
<1>5. Asks(t) /\ Playing
  BY <1>2 DEF AsksAs, Verified
<1>6. game \in Game /\ Box(inbox) /\ Clients(client) /\ tokens \in [Roles -> SUBSET Tokens]
  BY DEF Sound, TypeInv
<1>7. p \in Powers /\ os \in OrderSets
  BY MeantPowers DEF OrderSets
<1>8. as \subseteq Roles \X Tokens
  BY DEF ReceptionAddresses
<1>9. OnPowerOrdersUpdate(game, p, os) = SetOrders(h, p, os)
  BY DEF OnPowerOrdersUpdate
<1> HIDE DEF as, g, h, q
<1>10. Same(game', game)
  <2>1. Same(h, game)
    BY <1>6, ClearOrdersIs DEF Same, h
  <2>2. Same(game', h)
    <3>1. h \in Game
      BY <2>1 DEF Same
    <3> QED
      BY <1>4, <1>7, <3>1, SetOrdersSame
  <2> QED
    BY <2>1, <2>2 DEF Same
<1>11. ASSUME t \in Watched /\ role \in DOMAIN client[t].games PROVE Same(g, client[t].games[role])
  <2> DEFINE c == client[t].games[role]
  <2>1. c \in Game
    BY <1>6, <1>11, ClientParts DEF Clients
  <2>2. g = SetOrders(c, q, os)
    BY DEF g
  <2> HIDE DEF c
  <2>3. Same(g, c)
    BY <1>7, <2>1, <2>2, SetOrdersSame
  <2> QED
    BY <2>3 DEF c
<1>12. Answer(t, role)
  BY <1>3, <1>11, AnswerIs
<1>13. Box(inbox') /\ Reached(inbox, inbox', A, f)
  BY <1>4, <1>6, <1>7, <1>8, OrdersSent
<1>14. ASSUME NEW r \in Roles
       PROVE  /\ f[r] \in Notification /\ game' = OnGameNotification(game, f[r])
              /\ f[r].type \in {"PowerOrdersUpdate", "ClearedOrders", "ClearedUnits", "ClearedCenters"}
  <2>1. f[r] = [type |-> "PowerOrdersUpdate", role |-> r, power |-> p, orders |-> os]
    BY DEF OrdersNotice
  <2>2. f[r] \in Notification
    BY <1>7, <2>1 DEF Notification
  <2>3. f[r].type = "PowerOrdersUpdate" /\ f[r].power = p /\ f[r].orders = os
    BY <2>1
  <2>4. OnGameNotification(game, f[r]) = OnPowerOrdersUpdate(game, p, os)
    BY <2>3 DEF OnGameNotification
  <2> QED
    BY <1>4, <1>9, <2>2, <2>3, <2>4
<1>15. ASSUME NEW r \in Special, NEW x \in Tokens, x \in tokens[r] /\ ~(r = role /\ x = t)
       PROVE  <<r, x>> \in A
  <2>1. <<r, x>> \in Roles \X Tokens
    BY DEF Roles
  <2>2. <<r, x>> # <<role, t>>
    BY <1>15
  <2> QED
    BY <1>15, <2>1, <2>2 DEF as, ReceptionAddresses
<1>16. PlayersWatched => role \in Powers \/ t \notin Watched
  <2>1. role \in Powers \/ IsMaster(t)
    BY <1>2, WhoMayAsk
  <2> QED
    BY <2>1 DEF PlayersWatched, IsMaster
<1> HIDE DEF f, A
<1>17. /\ SoundNext
       /\ FollowInv /\ (role \in Powers \/ t \notin Watched) => \A a : Stays(a) => FollowsNext(a)
  BY <1>2, <1>5, <1>10, <1>12, <1>13, <1>14, <1>15, TableStep
<1> QED
  BY <1>16, <1>17

----------------------------------------------------------------------------
(* The steps that tell nothing, and those that tell of controllers.         *)

\* A queue to which nothing is added.
LEMMA GrownItself == ASSUME NEW box \in Seq(Notification), NEW r PROVE NoneFor(box, box, r)
<1>1. Len(box) \in Nat
  OBVIOUS
<1> QED
  BY <1>1 DEF NoneFor, Grown

\* A copy that is told nothing, of a game that does not change, follows it still.
LEMMA QuietCopy ==
    ASSUME Sound, FollowInv, NEW a \in Following, At(client', a) = Copy(a), Box(inbox'),
           NoneFor(inbox[a[2]], inbox'[a[2]], a[1]), game' = game,
           status' = "deleted" => status = "deleted"
    PROVE  FollowsNext(a)
<1> DEFINE r == a[1]
           x == a[2]
           d == At(client', a)
           c == Copy(a)
<1>1. /\ x \in Watched /\ Follows(c, game, status, inbox[x], r) /\ inbox[x] \in Seq(Notification)
  BY Follower
<1>2. inbox'[x] \in Seq(Notification)
  BY <1>1 DEF Box
<1>3. d = c /\ NoneFor(inbox[x], inbox'[x], r)
  OBVIOUS
<1> HIDE DEF r, x, d, c
<1>4. Follows(d, game', status', inbox'[x], r)
  BY <1>1, <1>2, <1>3, QuietFollows
<1> QED
  BY <1>4 DEF FollowsNext, r, x, d

\* A new copy follows the game from which it was cast.
LEMMA NewCopy ==
    ASSUME Sound, NEW a, Stays(a), a \notin Registered, At(client', a) = Cast(game', a[1]),
           game' \in Game, status' # "deleted", Box(inbox'), NoneFor(inbox[a[2]], inbox'[a[2]], a[1])
    PROVE  FollowsNext(a)
<1> DEFINE r == a[1]
           x == a[2]
<1>1. r \in Roles /\ x \in Watched /\ \A i \in 1..Len(inbox[x]) : ~For(inbox[x][i], r)
  BY DEF Stays
<1>2. inbox[x] \in Seq(Notification) /\ inbox'[x] \in Seq(Notification)
  BY <1>1 DEF Box, Sound, TypeInv
<1>3. Len(inbox[x]) \in Nat /\ Len(inbox'[x]) \in Nat
  BY <1>2
<1>4. /\ \A i \in 1..Len(inbox[x]) : inbox'[x][i] = inbox[x][i]
      /\ \A i \in (Len(inbox[x]) + 1)..Len(inbox'[x]) : ~For(inbox'[x][i], r)
  BY DEF NoneFor, Grown
<1>5. ASSUME NEW i \in 1..Len(inbox'[x]) PROVE ~For(inbox'[x][i], r)
  <2>1. i \in 1..Len(inbox[x]) \/ i \in (Len(inbox[x]) + 1)..Len(inbox'[x])
    BY <1>3
  <2> QED
    BY <1>1, <1>4, <2>1
<1> HIDE DEF r, x
<1>6. Follows(Cast(game', r), game', status', inbox'[x], r)
  BY <1>1, <1>2, <1>5, NewFollows
<1>7. At(client', a) = Cast(game', r)
  BY DEF r
<1> QED
  BY <1>6, <1>7 DEF FollowsNext, r, x

\* A copy that is told the new controllers follows the game, for none changes without a
\* later time.
LEMMA ControllersCopy ==
    ASSUME Sound, FollowInv, NEW a \in Following, At(client', a) = Copy(a),
           NEW ps, NEW u \in Users \cup {Nobody}, game' = SetControlled(game, ps, u), game' \in Game,
           NEW box, Box(box), box[a[2]] = inbox[a[2]], NEW A, A \subseteq Roles \X Tokens,
           inbox' = ControllersNotified(box, A, game'), <<a[1], a[2]>> \in A,
           a[1] \in Powers => Controller(game', a[1]) # Nobody,
           Playing, status' # "deleted"
    PROVE  FollowsNext(a)
<1> DEFINE r == a[1]
           x == a[2]
           d == At(client', a)
           c == Copy(a)
           n == ControllersNotice(game')[r]
<1>1. /\ r \in Roles /\ x \in Watched /\ Follows(c, game, status, inbox[x], r)
      /\ inbox[x] \in Seq(Notification) /\ client[x].reading /\ x \in online
  BY Follower
<1>2. Box(inbox') /\ Reached(box, inbox', A, ControllersNotice(game'))
  BY ControllersSent
<1>3. inbox'[x] \in Seq(Notification)
  BY <1>1, <1>2 DEF Box
<1>4. OneFor(inbox[x], inbox'[x], r, n)
  <2>1. <<r, x>> \in A /\ box[x] = inbox[x]
    OBVIOUS
  <2> HIDE DEF r, x, n
  <2>2. OneFor(box[x], inbox'[x], r, ControllersNotice(game')[r])
    BY <1>1, <1>2, <2>1 DEF Reached
  <2> QED
    BY <2>1, <2>2 DEF n
<1>5. game \in Game
  BY DEF Sound, TypeInv
<1> DEFINE h == game'
<1>6. /\ h \in Game /\ h.phase = game.phase /\ h.past = game.past
      /\ \A p \in Powers :
            /\ h.power[p].controller = IF p \in ps /\ game.power[p].controller.user # u
                                      THEN [user |-> u, since |-> game.power[p].controller.since + 1]
                                      ELSE game.power[p].controller
            /\ h.power[p].board = game.power[p].board
            /\ h.power[p].orders = game.power[p].orders
            /\ h.power[p].vote = IF p \in ps /\ game.power[p].controller.user # u /\ u = Nobody
                                THEN "neutral" ELSE game.power[p].vote
  BY <1>5, SetControlledIs
<1>7. n = [type |-> "PowersControllers", role |-> r, powers |-> Controllers(h)]
  BY <1>1 DEF ControllersNotice
<1>8. d = c
  OBVIOUS
<1>9. r \in Powers => h.power[r].controller.user # Nobody
  BY DEF Controller
<1>10. status # "deleted" /\ status' # "deleted"
  BY DEF Playing
<1> HIDE DEF r, x, d, c, n, h
<1>11. n.type = "PowersControllers" /\ \A p \in Powers : n.powers[p] = h.power[p].controller
  BY <1>7 DEF Controllers
<1>12. View(h, r) = After(View(game, r), n)
  <2>1. ASSUME NEW p \in Powers
        PROVE  h.power[p].controller = IF n.powers[p].since > game.power[p].controller.since
                                       THEN n.powers[p] ELSE game.power[p].controller
    <3>1. game.power[p].controller.since \in Nat
      BY <1>5, GameParts DEF Controllership
    <3>2. h.power[p].controller = IF p \in ps /\ game.power[p].controller.user # u
                                  THEN [user |-> u, since |-> game.power[p].controller.since + 1]
                                  ELSE game.power[p].controller
      BY <1>6
    <3>3. n.powers[p] = h.power[p].controller
      BY <1>11
    <3>4. CASE p \in ps /\ game.power[p].controller.user # u
      <4>1. h.power[p].controller.since = game.power[p].controller.since + 1
        BY <3>2, <3>4
      <4> QED
        BY <3>1, <3>3, <4>1
    <3>5. CASE ~(p \in ps /\ game.power[p].controller.user # u)
      BY <3>2, <3>3, <3>5
    <3> QED
      BY <3>4, <3>5
  <2>2. \A p \in Powers : h.power[p].board = game.power[p].board /\ h.power[p].orders = game.power[p].orders
    BY <1>6
  <2>3. h \in Game /\ h.phase = game.phase /\ h.past = game.past
    BY <1>6
  <2> QED
    BY <1>5, <1>11, <2>1, <2>2, <2>3, AfterControllers
<1>13. ~Votes(n, r)
  BY <1>11 DEF Votes
<1>14. ASSUME r \in Powers PROVE h.power[r].vote = game.power[r].vote
  <2>1. /\ h.power[r].controller = IF r \in ps /\ game.power[r].controller.user # u
                                   THEN [user |-> u, since |-> game.power[r].controller.since + 1]
                                   ELSE game.power[r].controller
        /\ h.power[r].vote = IF r \in ps /\ game.power[r].controller.user # u /\ u = Nobody
                             THEN "neutral" ELSE game.power[r].vote
    BY <1>6, <1>14
  <2>2. h.power[r].controller.user # Nobody
    BY <1>9, <1>14
  <2>3. r \in ps /\ game.power[r].controller.user # u => h.power[r].controller.user = u
    BY <2>1
  <2> QED
    BY <2>1, <2>2, <2>3
<1>15. Follows(d, h, status', inbox'[x], r)
  BY <1>1, <1>3, <1>4, <1>8, <1>10, <1>12, <1>13, <1>14, ToldFollows
<1> QED
  BY <1>15 DEF FollowsNext, r, x, d, h

\* Who controls the powers after set_controlled.
LEMMA Controlled ==
    ASSUME NEW g \in Game, NEW ps, NEW u \in Users \cup {Nobody}
    PROVE  LET h == SetControlled(g, ps, u) IN
           /\ h \in Game /\ h.phase = g.phase
           /\ \A p \in Powers : Controller(h, p) = IF p \in ps THEN u ELSE Controller(g, p)
<1> DEFINE h == SetControlled(g, ps, u)
<1>1. /\ h \in Game /\ h.phase = g.phase
      /\ \A p \in Powers :
            h.power[p].controller = IF p \in ps /\ g.power[p].controller.user # u
                                   THEN [user |-> u, since |-> g.power[p].controller.since + 1]
                                   ELSE g.power[p].controller
  BY SetControlledIs
<1> HIDE DEF h
<1>2. ASSUME NEW p \in Powers PROVE Controller(h, p) = IF p \in ps THEN u ELSE Controller(g, p)
  <2>1. h.power[p].controller = IF p \in ps /\ g.power[p].controller.user # u
                                THEN [user |-> u, since |-> g.power[p].controller.since + 1]
                                ELSE g.power[p].controller
    BY <1>1
  <2>2. CASE p \in ps /\ g.power[p].controller.user # u
    BY <2>1, <2>2 DEF Controller
  <2>3. CASE ~(p \in ps /\ g.power[p].controller.user # u)
    BY <2>1, <2>3 DEF Controller
  <2> QED
    BY <2>2, <2>3
<1> QED
  BY <1>1, <1>2 DEF h

\* The users of tokens are users, and nobody is none.
LEMMA Owned == ASSUME NEW t \in Tokens PROVE Owner[t] \in Users /\ Owner[t] # Nobody
  BY ViewsAssumption

\* start_game and stop_game_if_needed.
LEMMA StatusMoves ==
    ASSUME NEW g, NEW s
    PROVE  /\ StartedIfPossible(g, s) = s \/ (s = "forming" /\ StartedIfPossible(g, s) = "active")
           /\ StoppedIfNeeded(g, s) = s \/ (s = "active" /\ StoppedIfNeeded(g, s) = "forming")
  BY DEF StartedIfPossible, StoppedIfNeeded

\* A game that goes on or not is over when it was.
LEMMA StillOver ==
    ASSUME Sound, NEW g, game'.phase = game.phase,
           \/ status' = status \/ status' = StoppedIfNeeded(g, status)
           \/ status' = StartedIfPossible(g, status)
    PROVE  /\ GameOver' /\ (status' = "deleted" <=> status = "deleted")
           /\ status' \in {"forming", "active", "paused", "completed", "canceled", "deleted"}
<1>1. \/ status' = status \/ (status = "active" /\ status' = "forming")
      \/ (status = "forming" /\ status' = "active")
  BY StatusMoves
<1>2. status \in {"forming", "active", "paused", "completed", "canceled", "deleted"}
  BY DEF Sound, TypeInv
<1>3. GameOver
  BY DEF Sound
<1> QED
  BY <1>1, <1>2, <1>3 DEF GameOver, Playing, Finished

\* The same for a copy whose token stays: its power is controlled by its user.
LEMMA ControllersFollow ==
    ASSUME Sound, FollowInv, NEW a, Stays(a), a \in Registered, At(client', a) = Copy(a),
           NEW ps, NEW u \in Users \cup {Nobody}, game' = SetControlled(game, ps, u), Seated',
           NEW box, Box(box), box[a[2]] = inbox[a[2]], NEW A, A \subseteq Roles \X Tokens,
           inbox' = ControllersNotified(box, A, game'), <<a[1], a[2]>> \in A,
           Playing, status' # "deleted"
    PROVE  FollowsNext(a)
<1>1. a \in Following /\ a[2] \in tokens'[a[1]] /\ a[2] \in Watched
  BY DEF Stays
<1>2. a[1] \in Powers => Controller(game', a[1]) # Nobody
  <2>1. a[2] \in Tokens
    BY <1>1, ViewsAssumption
  <2>2. a[1] \in Powers => Controller(game', a[1]) = Owner[a[2]]
    BY <1>1 DEF Seated
  <2> QED
    BY <2>1, <2>2, Owned
<1>3. game' \in Game
  BY Controlled DEF Sound, TypeInv
<1> QED
  BY <1>1, <1>2, <1>3, ControllersCopy

\* The addresses are the tokens of the game with their roles.
LEMMA ReceptionIs ==
    ASSUME NEW seats
    PROVE  /\ ReceptionAddresses(seats) \subseteq Roles \X Tokens
           /\ \A r \in Roles, t \in Tokens : t \in seats[r] => <<r, t>> \in ReceptionAddresses(seats)
<1>1. ASSUME NEW r \in Roles, NEW t \in Tokens, t \in seats[r] PROVE <<r, t>> \in ReceptionAddresses(seats)
  <2>1. <<r, t>> \in Roles \X Tokens /\ <<r, t>>[1] = r /\ <<r, t>>[2] = t
    OBVIOUS
  <2> QED
    BY <1>1, <2>1 DEF ReceptionAddresses
<1> QED
  BY <1>1 DEF ReceptionAddresses

\* on_join_game, as a player: all follow, and the new copy too.
LEMMA JoinGameAsPlayerStep ==
    ASSUME Sound, NEW t \in Tokens, NEW p \in Powers, JoinGameAsPlayer(t, p)
    PROVE  SoundNext /\ (FollowInv => \A a : Stays(a) => FollowsNext(a))
<1> DEFINE u == Owner[t]
           A == ReceptionAddresses(tokens') \ {<<p, t>>}
<1>1. /\ game \in Game /\ tokens \in [Roles -> SUBSET Tokens] /\ online \subseteq Tokens
      /\ omniscients \subseteq Users /\ Clients(client) /\ Box(inbox)
      /\ status \in {"forming", "active", "paused", "completed", "canceled", "deleted"}
      /\ Seated /\ StateInv /\ GameOver
  BY DEF Sound, TypeInv
<1>2. /\ Asks(t) /\ Playing /\ t \in online /\ (t \in Watched => client[t].open /\ client[t].reading)
      /\ UNCHANGED <<omniscients, online>>
  BY DEF JoinGameAsPlayer, Asks
<1>3. tokens' = [tokens EXCEPT ![p] = @ \cup {t}]
  BY DEF JoinGameAsPlayer, AddToken
<1>4. p \in Roles /\ u \in Users \cup {Nobody} /\ u # Nobody
  BY Owned DEF Roles
<1>5. /\ tokens' \in [Roles -> SUBSET Tokens]
      /\ \A r \in Roles : tokens'[r] = IF r = p THEN tokens[r] \cup {t} ELSE tokens[r]
  BY <1>1, <1>3, <1>4
<1>6. \A r \in Roles : tokens'[r] \subseteq online'
  <2>1. \A r \in Roles : tokens[r] \subseteq online
    BY <1>1, <1>2 DEF StateInv
  <2> QED
    BY <1>2, <1>5, <2>1
<1>7. asked' \in 0..MaxRequests
  BY <1>2, AskedBound
<1> HIDE DEF u
<1>8. CASE Controller(game, p) = u /\ client' = NewGame(t, p, game) /\ UNCHANGED <<game, status, inbox>>
  <2>1. /\ Clients(client') /\ \A x \in Watched : client'[x].reading = client[x].reading
        /\ \A a \in Held(client') : /\ a \in Registered => At(client', a) = Copy(a)
                                    /\ a \notin Registered => /\ a[1] = p /\ a[2] = t
                                                              /\ At(client', a) = Cast(game, p)
    <3>1. Given(client', t, p, game)
      BY <1>1, <1>2, <1>4, <1>8, NewGameIs
    <3> QED
      BY <3>1 DEF Given
  <2>2. Seated'
    <3>1. ASSUME NEW q \in Powers, NEW x \in tokens'[q] PROVE Controller(game', q) = Owner[x]
      <4>1. Controller(game', q) = Controller(game, q) /\ q \in Roles
        BY <1>8 DEF Roles
      <4>2. x \in tokens[q] \/ (q = p /\ x = t)
        BY <1>5, <4>1
      <4> QED
        BY <1>1, <1>8, <4>1, <4>2 DEF Seated, u
    <3> QED
      BY <3>1 DEF Seated
  <2>3. StateInv'
    BY <1>1, <1>6, <1>8, <2>1 DEF StateInv
  <2>4. GameOver'
    BY <1>1, <1>8 DEF GameOver, Playing, Finished
  <2>5. SoundNext
    BY <1>1, <1>2, <1>5, <1>7, <1>8, <2>1, <2>2, <2>3, <2>4 DEF SoundNext
  <2>6. ASSUME FollowInv, NEW a, Stays(a) PROVE FollowsNext(a)
    <3>1. a \in Held(client') /\ a[2] \in Watched /\ (a \in Registered => a \in Following)
      BY <2>6 DEF Stays
    <3>2. NoneFor(inbox[a[2]], inbox'[a[2]], a[1])
      <4>1. inbox[a[2]] \in Seq(Notification)
        BY <1>1, <3>1 DEF Box
      <4> QED
        BY <1>8, <4>1, GrownItself
    <3>3. Box(inbox') /\ status' # "deleted" /\ game' = game
      BY <1>1, <1>2, <1>8 DEF Playing
    <3>4. CASE a \in Registered
      BY <2>1, <2>6, <3>1, <3>2, <3>3, <3>4, QuietCopy
    <3>5. CASE a \notin Registered
      <4>1. At(client', a) = Cast(game', a[1])
        BY <2>1, <3>1, <3>3, <3>5
      <4> QED
        BY <1>1, <2>6, <3>2, <3>3, <3>5, <4>1, NewCopy
    <3> QED
      BY <3>4, <3>5
  <2> QED
    BY <2>5, <2>6
<1>9. CASE /\ Controller(game, p) = Nobody /\ game' = SetControlled(game, {p}, u)
           /\ client' = NewGame(t, p, game') /\ inbox' = ControllersNotified(inbox, A, game')
           /\ status' = StartedIfPossible(game', status)
  <2>1. /\ game' \in Game /\ game'.phase = game.phase
        /\ \A q \in Powers : Controller(game', q) = IF q \in {p} THEN u ELSE Controller(game, q)
    BY <1>1, <1>4, <1>9, Controlled
  <2>2. /\ Clients(client') /\ \A x \in Watched : client'[x].reading = client[x].reading
        /\ \A a \in Held(client') : /\ a \in Registered => At(client', a) = Copy(a)
                                    /\ a \notin Registered => /\ a[1] = p /\ a[2] = t
                                                              /\ At(client', a) = Cast(game', p)
    <3>1. Given(client', t, p, game')
      BY <1>1, <1>2, <1>4, <1>9, <2>1, NewGameIs
    <3> QED
      BY <3>1 DEF Given
  <2>3. tokens[p] = {}
    <3>1. ASSUME NEW x \in tokens[p] PROVE FALSE
      <4>1. x \in Tokens /\ Controller(game, p) = Owner[x]
        BY <1>1, <1>4 DEF Seated
      <4> QED
        BY <1>9, <4>1, Owned
    <3> QED
      BY <3>1
  <2>4. Seated'
    <3>1. ASSUME NEW q \in Powers, NEW x \in tokens'[q] PROVE Controller(game', q) = Owner[x]
      <4>1. q \in Roles
        BY DEF Roles
      <4>2. CASE q = p
        <5>1. x = t
          BY <1>5, <2>3, <4>1, <4>2
        <5> QED
          BY <2>1, <4>2, <5>1 DEF u
      <4>3. CASE q # p
        BY <1>1, <1>5, <2>1, <4>1, <4>3 DEF Seated
      <4> QED
        BY <4>2, <4>3
    <3> QED
      BY <3>1 DEF Seated
  <2>5. A \subseteq Roles \X Tokens
    BY ReceptionIs
  <2>6. Box(inbox') /\ Reached(inbox, inbox', A, ControllersNotice(game'))
    <3> HIDE DEF A
    <3> QED
      BY <1>1, <1>9, <2>1, <2>5, ControllersSent
  <2>7. StateInv'
    <3>1. \A x \in Watched : inbox'[x] # <<>> => client'[x].reading
      <4> HIDE DEF A
      <4> QED
        BY <2>2, <2>6, ReadersReached
    <3> QED
      BY <1>6, <3>1 DEF StateInv
  <2>8. GameOver' /\ status' # "deleted"
        /\ status' \in {"forming", "active", "paused", "completed", "canceled", "deleted"}
    BY <1>2, <1>9, <2>1, StillOver DEF Playing
  <2>9. SoundNext
    BY <1>1, <1>2, <1>5, <1>7, <2>1, <2>2, <2>4, <2>6, <2>7, <2>8 DEF SoundNext
  <2>10. ASSUME FollowInv, NEW a, Stays(a) PROVE FollowsNext(a)
    <3>1. /\ a \in Held(client') /\ a[1] \in Roles /\ a[2] \in Watched /\ a[2] \in tokens'[a[1]]
          /\ a \in Registered => a \in Following
      BY <2>10 DEF Stays
    <3>2. CASE a \in Registered
      <4>1. a[2] \in tokens[a[1]]
        BY <2>10, <3>1, <3>2 DEF FollowInv
      <4>2. a[2] \in Tokens /\ <<a[1], a[2]>> # <<p, t>>
        BY <2>3, <3>1, <4>1, ViewsAssumption
      <4>3. <<a[1], a[2]>> \in A
        BY <3>1, <4>2, ReceptionIs
      <4>4. At(client', a) = Copy(a)
        BY <2>2, <3>1, <3>2
      <4>5. inbox[a[2]] = inbox[a[2]] /\ inbox' = ControllersNotified(inbox, A, game')
        BY <1>9
      <4> HIDE DEF A
      <4> QED
        BY <1>1, <1>2, <1>4, <1>9, <2>4, <2>5, <2>8, <2>10, <3>2, <4>3, <4>4, <4>5, ControllersFollow
    <3>3. CASE a \notin Registered
      <4>1. a[1] = p /\ a[2] = t /\ At(client', a) = Cast(game', a[1])
        BY <2>2, <3>1, <3>3
      <4>2. NoneFor(inbox[t], inbox'[t], p)
        <5>1. <<p, t>> \notin A
          OBVIOUS
        <5> HIDE DEF A
        <5> QED
          BY <1>4, <2>6, <3>1, <4>1, <5>1 DEF Reached
      <4> QED
        BY <2>1, <2>6, <2>8, <2>10, <3>3, <4>1, <4>2, NewCopy
    <3> QED
      BY <3>2, <3>3
  <2> QED
    BY <2>9, <2>10
<1> QED
  BY <1>8, <1>9 DEF JoinGameAsPlayer, u

\* A step that tells nothing and changes no game, and may take copies away.
LEMMA QuietFollow ==
    ASSUME Sound, FollowInv, NEW a, Stays(a), Keep(client'), game' = game, inbox' = inbox,
           status' = "deleted" => status = "deleted"
    PROVE  FollowsNext(a)
<1>1. a \in Registered /\ At(client', a) = Copy(a) /\ a[2] \in Watched
  BY DEF Stays, Keep
<1>2. a \in Following /\ Box(inbox')
  BY <1>1 DEF Stays, Sound, TypeInv
<1>3. NoneFor(inbox[a[2]], inbox'[a[2]], a[1])
  <2>1. inbox[a[2]] \in Seq(Notification)
    BY <1>1 DEF Sound, TypeInv, Box
  <2> QED
    BY <2>1, GrownItself
<1> QED
  BY <1>1, <1>2, <1>3, QuietCopy

\* With fewer tokens, who has one of a power still controls it.
LEMMA FewerSeated ==
    ASSUME Sound, \A p \in Powers : tokens'[p] \subseteq tokens[p], game' = game
    PROVE  Seated'
  BY DEF Sound, Seated, Controller

\* on_join_game, to watch.
LEMMA JoinGameToWatchStep ==
    ASSUME Sound, NEW t \in Tokens, JoinGameToWatch(t)
    PROVE  SoundNext /\ (FollowInv => \A a : Stays(a) => FollowsNext(a))
<1>1. /\ game \in Game /\ tokens \in [Roles -> SUBSET Tokens] /\ online \subseteq Tokens
      /\ omniscients \subseteq Users /\ Clients(client) /\ Box(inbox)
      /\ status \in {"forming", "active", "paused", "completed", "canceled", "deleted"}
      /\ Seated /\ StateInv /\ GameOver
  BY DEF Sound, TypeInv
<1>2. PICK role \in Special : tokens' = [tokens EXCEPT ![role] = @ \cup {t}] /\ client' = NewGame(t, role, game)
  BY DEF JoinGameToWatch, AddToken, Special
<1>3. /\ Asks(t) /\ Playing /\ t \in online /\ (t \in Watched => client[t].open /\ client[t].reading)
      /\ UNCHANGED <<game, status, omniscients, online, inbox>>
  BY DEF JoinGameToWatch, Asks
<1>4. /\ tokens' \in [Roles -> SUBSET Tokens] /\ role \in Roles
      /\ \A r \in Roles : tokens'[r] = IF r = role THEN tokens[r] \cup {t} ELSE tokens[r]
  BY <1>1, <1>2 DEF Roles
<1>5. Seated'
  <2>1. \A p \in Powers : tokens'[p] = tokens[p]
    <3>1. \A p \in Powers : p \in Roles /\ p # role
      BY ViewsAssumption DEF Roles
    <3> QED
      BY <1>4, <3>1
  <2> QED
    BY <1>3, <2>1, FewerSeated
<1>6. Given(client', t, role, game)
  BY <1>1, <1>2, <1>3, <1>4, NewGameIs
<1>7. StateInv'
  <2>1. \A r \in Roles : tokens'[r] \subseteq online'
    BY <1>1, <1>3, <1>4 DEF StateInv
  <2> QED
    BY <1>1, <1>3, <1>6, <2>1 DEF StateInv, Given
<1>8. GameOver'
  BY <1>1, <1>3 DEF GameOver, Playing, Finished
<1>9. SoundNext
  BY <1>1, <1>3, <1>4, <1>5, <1>6, <1>7, <1>8, AskedBound DEF SoundNext, Given
<1>10. ASSUME FollowInv, NEW a, Stays(a) PROVE FollowsNext(a)
  <2>1. a \in Held(client') /\ a[2] \in Watched /\ (a \in Registered => a \in Following)
    BY <1>10 DEF Stays
  <2>2. NoneFor(inbox[a[2]], inbox'[a[2]], a[1])
    <3>1. inbox[a[2]] \in Seq(Notification)
      BY <1>1, <2>1 DEF Box
    <3> QED
      BY <1>3, <3>1, GrownItself
  <2>3. Box(inbox') /\ status' # "deleted" /\ game' = game
    BY <1>1, <1>3 DEF Playing
  <2>4. CASE a \in Registered
    <3>1. At(client', a) = Copy(a)
      BY <1>6, <2>1, <2>4 DEF Given
    <3> QED
      BY <1>10, <2>1, <2>2, <2>3, <2>4, <3>1, QuietCopy
  <2>5. CASE a \notin Registered
    <3>1. At(client', a) = Cast(game', a[1])
      BY <1>6, <2>1, <2>3, <2>5 DEF Given
    <3> QED
      BY <1>1, <1>10, <2>2, <2>3, <2>5, <3>1, NewCopy
  <2> QED
    BY <2>4, <2>5
<1> QED
  BY <1>9, <1>10

\* on_process_game.
LEMMA ProcessGameStep ==
    ASSUME Sound, NEW t \in Tokens, ProcessGame(t)
    PROVE  SoundNext /\ (FollowInv => \A a : Stays(a) => FollowsNext(a))
<1>1. /\ Asks(t) /\ ~Finished /\ Playing /\ status = "forming" /\ status' = "active"
      /\ UNCHANGED <<game, tokens, omniscients, online, client, inbox>>
  BY DEF ProcessGame, AsksAs, Verified
<1>2. Keep(client')
  <2>1. Keep(client)
    BY SameClients DEF Sound, TypeInv
  <2> QED
    BY <1>1, <2>1 DEF Keep
<1>3. GameOver' /\ Seated' /\ StateInv'
  BY <1>1 DEF Sound, GameOver, Seated, StateInv, Playing, Finished, Controller
<1>4. SoundNext
  BY <1>1, <1>3, AskedBound DEF SoundNext, Sound, TypeInv
<1> QED
  BY <1>1, <1>2, <1>4, QuietFollow

\* on_logout.
LEMMA LogoutStep ==
    ASSUME Sound, NEW t \in Tokens, Logout(t)
    PROVE  SoundNext /\ (FollowInv => \A a : Stays(a) => FollowsNext(a))
<1>1. /\ Asks(t) /\ client' = Closed(t) /\ online' = online \ {t}
      /\ UNCHANGED <<game, omniscients, inbox>>
      /\ IF Playing
         THEN /\ tokens' = [r \in Roles |-> tokens[r] \ {t}]
              /\ status' = StoppedIfNeeded(game, status)
         ELSE UNCHANGED <<tokens, status>>
  BY DEF Logout
<1>2. /\ game \in Game /\ tokens \in [Roles -> SUBSET Tokens] /\ online \subseteq Tokens
      /\ omniscients \subseteq Users /\ Clients(client) /\ Box(inbox) /\ StateInv
  BY DEF Sound, TypeInv
<1>3. Keep(client')
  BY <1>1, <1>2, ClosedIs
<1>4. /\ GameOver' /\ (status' = "deleted" <=> status = "deleted")
      /\ status' \in {"forming", "active", "paused", "completed", "canceled", "deleted"}
  BY <1>1, <1>2, StillOver
<1>5. tokens' \in [Roles -> SUBSET Tokens] /\ \A r \in Roles : tokens'[r] \subseteq tokens[r]
  BY <1>1, <1>2
<1>6. Seated'
  BY <1>1, <1>5, FewerSeated DEF Roles
<1>7. StateInv'
  <2>1. Playing' => \A r \in Roles : tokens'[r] \subseteq online'
    BY <1>1, <1>2, <1>4 DEF StateInv, Playing
  <2> QED
    BY <1>1, <1>2, <1>3, <2>1 DEF StateInv, Keep
<1>8. SoundNext
  BY <1>1, <1>2, <1>3, <1>4, <1>5, <1>6, <1>7, AskedBound DEF SoundNext, Keep
<1> QED
  BY <1>1, <1>3, <1>4, <1>8, QuietFollow

\* A client drops a copy.
LEMMA ForgetStep ==
    ASSUME Sound, NEW t \in Watched, NEW role \in Roles, Forget(t, role)
    PROVE  SoundNext /\ (FollowInv => \A a : Stays(a) => FollowsNext(a))
<1>1. /\ asked' = asked + 1 /\ asked < MaxRequests
      /\ client' = [client EXCEPT ![t] = RemoveGame(@, role)]
      /\ UNCHANGED <<game, status, tokens, omniscients, online, inbox>>
  BY DEF Forget, server
<1>2. Keep(client')
  BY <1>1, RemovedIs DEF Sound, TypeInv
<1>3. GameOver' /\ Seated' /\ StateInv'
  BY <1>1, <1>2 DEF Sound, GameOver, Seated, StateInv, Playing, Finished, Controller, Keep
<1>4. asked' \in 0..MaxRequests
  BY <1>1, ViewsAssumption DEF Sound, TypeInv
<1>5. SoundNext
  BY <1>1, <1>2, <1>3, <1>4 DEF SoundNext, Sound, TypeInv, Keep
<1> QED
  BY <1>1, <1>2, <1>5, QuietFollow

\* A step that changes who controls the powers, and tells all who have a token; before
\* that, what is queued may be told to who has none any more.
LEMMA ControllersStep ==
    ASSUME Sound, Playing, NEW ps, NEW u \in Users \cup {Nobody}, game' = SetControlled(game, ps, u),
           tokens' \in [Roles -> SUBSET Tokens], \A r \in Roles : tokens'[r] \subseteq online',
           online' \subseteq Tokens, omniscients' \subseteq Users, asked' \in 0..MaxRequests,
           Keep(client'), Seated',
           \/ status' = StoppedIfNeeded(game', status) \/ status' = StartedIfPossible(game', status),
           NEW box, Box(box), \A t \in Watched : box[t] # inbox[t] => client[t].reading,
           \A a : Stays(a) => box[a[2]] = inbox[a[2]],
           inbox' = ControllersNotified(box, ReceptionAddresses(tokens'), game')
    PROVE  SoundNext /\ (FollowInv => \A a : Stays(a) => FollowsNext(a))
<1> DEFINE A == ReceptionAddresses(tokens')
<1>1. game \in Game /\ StateInv
  BY DEF Sound, TypeInv
<1>2. game' \in Game /\ game'.phase = game.phase
  BY <1>1, Controlled
<1>3. /\ GameOver' /\ status' # "deleted"
      /\ status' \in {"forming", "active", "paused", "completed", "canceled", "deleted"}
  BY <1>2, StillOver DEF Playing
<1>4. A \subseteq Roles \X Tokens /\ inbox' = ControllersNotified(box, A, game')
  BY ReceptionIs
<1>5. \A a \in Roles \X Watched : a[2] \in tokens'[a[1]] => <<a[1], a[2]>> \in A
  BY ReceptionIs, ViewsAssumption
<1> HIDE DEF A
<1>6. Box(inbox') /\ Reached(box, inbox', A, ControllersNotice(game'))
  BY <1>2, <1>4, ControllersSent
<1>7. StateInv'
  <2>1. ASSUME NEW t \in Watched, inbox'[t] # <<>> PROVE client'[t].reading
    <3>1. client'[t].reading = client[t].reading
      BY DEF Keep
    <3>2. inbox'[t] # box[t] => client[t].reading
      BY <1>6 DEF Reached
    <3>3. inbox[t] # <<>> => client[t].reading
      BY <1>1 DEF StateInv
    <3> QED
      BY <2>1, <3>1, <3>2, <3>3
  <2> QED
    BY <2>1 DEF StateInv
<1>8. SoundNext
  BY <1>2, <1>3, <1>6, <1>7 DEF SoundNext, Keep
<1>9. ASSUME FollowInv, NEW a, Stays(a) PROVE FollowsNext(a)
  <2>1. /\ a \in Registered /\ At(client', a) = Copy(a) /\ box[a[2]] = inbox[a[2]]
        /\ a \in Roles \X Watched /\ a[2] \in tokens'[a[1]]
    BY <1>9 DEF Stays, Keep, Held
  <2>2. <<a[1], a[2]>> \in A
    BY <1>5, <2>1
  <2> QED
    BY <1>3, <1>4, <1>9, <2>1, <2>2, ControllersFollow
<1> QED
  BY <1>8, <1>9

\* Powers are taken from their users, and their tokens with them.
LEMMA Unseated ==
    ASSUME Sound, NEW ps, game' = SetControlled(game, ps, Nobody),
           \A p \in Powers : tokens'[p] \subseteq tokens[p] /\ (p \in ps => tokens'[p] = {})
    PROVE  Seated'
<1>1. ASSUME NEW p \in Powers, NEW t \in tokens'[p] PROVE Controller(game', p) = Owner[t]
  <2>1. Controller(game', p) = IF p \in ps THEN Nobody ELSE Controller(game, p)
    BY Controlled DEF Sound, TypeInv
  <2>2. p \notin ps /\ t \in tokens[p]
    BY <1>1
  <2> QED
    BY <2>1, <2>2 DEF Sound, Seated
<1> QED
  BY <1>1 DEF Seated

\* A power that nobody controls has no tokens.
LEMMA NobodysTokens ==
    ASSUME Sound, NEW p \in Powers, Controller(game, p) = Nobody
    PROVE  tokens[p] = {}
<1>1. ASSUME NEW x \in tokens[p] PROVE FALSE
  <2>1. x \in Tokens /\ Controller(game, p) = Owner[x]
    BY DEF Sound, Seated, TypeInv, Roles
  <2> QED
    BY <2>1, Owned
<1> QED
  BY <1>1

\* No box changes.
LEMMA SameBox ==
    ASSUME Sound
    PROVE  /\ Box(inbox) /\ \A t \in Watched : inbox[t] # inbox[t] => client[t].reading
           /\ \A a : Stays(a) => inbox[a[2]] = inbox[a[2]]
  BY DEF Sound, TypeInv

\* on_join_powers.
LEMMA JoinPowersStep ==
    ASSUME Sound, NEW t \in Tokens, NEW ps \in SUBSET Powers, JoinPowers(t, ps)
    PROVE  SoundNext /\ (FollowInv => \A a : Stays(a) => FollowsNext(a))
<1> DEFINE free == {p \in ps : Controller(game, p) = Nobody}
           u == Owner[t]
<1>1. /\ Asks(t) /\ Playing /\ t \in online /\ game' = SetControlled(game, free, u)
      /\ tokens' = [r \in Roles |-> IF r \in free THEN tokens[r] \cup {t} ELSE tokens[r]]
      /\ inbox' = ControllersNotified(inbox, ReceptionAddresses(tokens'), game')
      /\ status' = StartedIfPossible(game', status)
      /\ UNCHANGED <<omniscients, online, client>>
  BY DEF JoinPowers, Asks
<1>2. /\ game \in Game /\ tokens \in [Roles -> SUBSET Tokens] /\ online \subseteq Tokens
      /\ omniscients \subseteq Users /\ Clients(client) /\ StateInv /\ Seated
  BY DEF Sound, TypeInv
<1>3. u \in Users \cup {Nobody}
  BY Owned
<1>4. \A p \in free : p \in Powers /\ tokens[p] = {}
  BY NobodysTokens
<1> HIDE DEF free
<1>5. tokens' \in [Roles -> SUBSET Tokens] /\ \A r \in Roles : tokens'[r] \subseteq online'
  <2>1. \A r \in Roles : tokens[r] \subseteq online
    BY <1>1, <1>2 DEF StateInv
  <2> QED
    BY <1>1, <1>2, <2>1
<1>6. Seated'
  <2>1. ASSUME NEW p \in Powers, NEW x \in tokens'[p] PROVE Controller(game', p) = Owner[x]
    <3>1. Controller(game', p) = IF p \in free THEN u ELSE Controller(game, p)
      BY <1>1, <1>2, <1>3, Controlled
    <3>2. p \in Roles
      BY DEF Roles
    <3>3. CASE p \in free
      <4>1. x = t
        BY <1>1, <1>4, <3>2, <3>3
      <4> QED
        BY <3>1, <3>3, <4>1
    <3>4. CASE p \notin free
      <4>1. x \in tokens[p]
        BY <1>1, <3>2, <3>4
      <4> QED
        BY <1>2, <3>1, <3>4, <4>1 DEF Seated
    <3> QED
      BY <3>3, <3>4
  <2> QED
    BY <2>1 DEF Seated
<1>7. Keep(client')
  <2>1. Keep(client)
    BY <1>2, SameClients
  <2> QED
    BY <1>1, <2>1 DEF Keep
<1>8. asked' \in 0..MaxRequests
  BY <1>1, AskedBound
<1>9. online' \subseteq Tokens /\ omniscients' \subseteq Users
  BY <1>1, <1>2
<1>10. /\ Box(inbox) /\ \A x \in Watched : inbox[x] # inbox[x] => client[x].reading
       /\ \A a : Stays(a) => inbox[a[2]] = inbox[a[2]]
  BY SameBox
<1> HIDE DEF u
<1>11. /\ game' = SetControlled(game, free, u) /\ Playing
       /\ inbox' = ControllersNotified(inbox, ReceptionAddresses(tokens'), game')
       /\ status' = StoppedIfNeeded(game', status) \/ status' = StartedIfPossible(game', status)
  BY <1>1
<1> QED
  BY <1>3, <1>5, <1>6, <1>7, <1>8, <1>9, <1>10, <1>11, ControllersStep

\* on_set_dummy_powers.
LEMMA SetDummyPowersStep ==
    ASSUME Sound, NEW t \in Tokens, NEW ps \in SUBSET Powers, SetDummyPowers(t, ps)
    PROVE  SoundNext /\ (FollowInv => \A a : Stays(a) => FollowsNext(a))
<1>1. /\ Asks(t) /\ Playing /\ game' = SetControlled(game, ps, Nobody)
      /\ tokens' = [r \in Roles |-> IF r \in ps /\ Controller(game, r) # Nobody THEN {} ELSE tokens[r]]
      /\ inbox' = ControllersNotified(inbox, ReceptionAddresses(tokens'), game')
      /\ status' = StoppedIfNeeded(game', status)
      /\ UNCHANGED <<omniscients, online, client>>
  BY DEF SetDummyPowers, AsksAs, Verified
<1>2. /\ game \in Game /\ tokens \in [Roles -> SUBSET Tokens] /\ online \subseteq Tokens
      /\ omniscients \subseteq Users /\ Clients(client) /\ StateInv
  BY DEF Sound, TypeInv
<1>3. tokens' \in [Roles -> SUBSET Tokens] /\ \A r \in Roles : tokens'[r] \subseteq tokens[r]
  BY <1>1, <1>2
<1>4. \A r \in Roles : tokens'[r] \subseteq online'
  BY <1>1, <1>2, <1>3 DEF StateInv
<1>5. Seated'
  <2>1. ASSUME NEW p \in Powers, p \in ps PROVE tokens'[p] = {}
    <3>1. p \in Roles
      BY DEF Roles
    <3> QED
      BY <1>1, <2>1, <3>1, NobodysTokens
  <2>2. \A p \in Powers : tokens'[p] \subseteq tokens[p]
    BY <1>3 DEF Roles
  <2> QED
    BY <1>1, <2>1, <2>2, Unseated
<1>6. Keep(client')
  <2>1. Keep(client)
    BY <1>2, SameClients
  <2> QED
    BY <1>1, <2>1 DEF Keep
<1>7. asked' \in 0..MaxRequests /\ online' \subseteq Tokens /\ omniscients' \subseteq Users
  BY <1>1, <1>2, AskedBound
<1>8. /\ Box(inbox) /\ \A x \in Watched : inbox[x] # inbox[x] => client[x].reading
      /\ \A a : Stays(a) => inbox[a[2]] = inbox[a[2]]
  BY SameBox
<1>9. Nobody \in Users \cup {Nobody}
  OBVIOUS
<1>10. /\ game' = SetControlled(game, ps, Nobody) /\ Playing
       /\ inbox' = ControllersNotified(inbox, ReceptionAddresses(tokens'), game')
       /\ status' = StoppedIfNeeded(game', status) \/ status' = StartedIfPossible(game', status)
  BY <1>1
<1> QED
  BY <1>3, <1>4, <1>5, <1>6, <1>7, <1>8, <1>9, <1>10, ControllersStep

\* on_leave_game.
LEMMA LeaveGameStep ==
    ASSUME Sound, NEW t \in Tokens, NEW role \in Roles, LeaveGame(t, role)
    PROVE  SoundNext /\ (FollowInv => \A a : Stays(a) => FollowsNext(a))
<1>1. /\ Asks(t) /\ Playing /\ client' = Left(t) /\ UNCHANGED <<omniscients, online>>
      /\ IF role \in Powers
         THEN /\ game' = SetControlled(game, {role}, Nobody)
              /\ tokens' = WithoutTokens({role})
              /\ inbox' = ControllersNotified(inbox, ReceptionAddresses(tokens'), game')
              /\ status' = StoppedIfNeeded(game', status)
         ELSE /\ tokens' = [tokens EXCEPT ![role] = @ \ {t}]
              /\ UNCHANGED <<game, status, inbox>>
  BY DEF LeaveGame, AsksAs, Verified
<1>2. /\ game \in Game /\ tokens \in [Roles -> SUBSET Tokens] /\ online \subseteq Tokens
      /\ omniscients \subseteq Users /\ Clients(client) /\ StateInv
  BY DEF Sound, TypeInv
<1>3. Keep(client')
  BY <1>1, <1>2, LeftIs
<1>4. asked' \in 0..MaxRequests /\ online' \subseteq Tokens /\ omniscients' \subseteq Users
  BY <1>1, <1>2, AskedBound
<1>5. tokens' \in [Roles -> SUBSET Tokens] /\ \A r \in Roles : tokens'[r] \subseteq tokens[r]
  <2>1. CASE role \in Powers
    BY <1>1, <1>2, <2>1 DEF WithoutTokens
  <2>2. CASE role \notin Powers
    BY <1>1, <1>2, <2>2
  <2> QED
    BY <2>1, <2>2
<1>6. \A r \in Roles : tokens'[r] \subseteq online'
  BY <1>1, <1>2, <1>5 DEF StateInv
<1>7. CASE role \in Powers
  <2>1. Seated'
    <3>1. \A p \in Powers : tokens'[p] \subseteq tokens[p] /\ (p \in {role} => tokens'[p] = {})
      BY <1>1, <1>5, <1>7 DEF WithoutTokens, Roles
    <3> QED
      BY <1>1, <1>7, <3>1, Unseated
  <2>2. /\ Box(inbox) /\ \A x \in Watched : inbox[x] # inbox[x] => client[x].reading
        /\ \A a : Stays(a) => inbox[a[2]] = inbox[a[2]]
    BY SameBox
  <2>3. Nobody \in Users \cup {Nobody}
    OBVIOUS
  <2>4. /\ game' = SetControlled(game, {role}, Nobody) /\ Playing
        /\ inbox' = ControllersNotified(inbox, ReceptionAddresses(tokens'), game')
        /\ status' = StoppedIfNeeded(game', status) \/ status' = StartedIfPossible(game', status)
    BY <1>1, <1>7
  <2> QED
    BY <1>3, <1>4, <1>5, <1>6, <2>1, <2>2, <2>3, <2>4, ControllersStep
<1>8. CASE role \notin Powers
  <2>1. UNCHANGED <<game, status, inbox>>
    BY <1>1, <1>8
  <2>2. Seated'
    BY <1>5, <2>1, FewerSeated DEF Roles
  <2>3. GameOver'
    BY <2>1 DEF Sound, GameOver, Playing, Finished
  <2>4. StateInv'
    BY <1>2, <1>3, <1>6, <2>1 DEF StateInv, Keep
  <2>5. SoundNext
    BY <1>2, <1>3, <1>4, <1>5, <2>1, <2>2, <2>3, <2>4 DEF SoundNext, Keep, Sound, TypeInv
  <2> QED
    BY <1>3, <2>1, <2>5, QuietFollow
<1> QED
  BY <1>7, <1>8

\* on_delete_account.
LEMMA DeleteAccountStep ==
    ASSUME Sound, NEW t \in Tokens, DeleteAccount(t)
    PROVE  SoundNext /\ (FollowInv => \A a : Stays(a) => FollowsNext(a))
<1> DEFINE u == Owner[t]
           S == TokensOf(u) \ {t}
           notice == Notified(inbox, {"account"} \X S, LAMBDA r : [type |-> "AccountDeleted"])
           ps == ControlledBy(game, u)
<1>1. /\ Asks(t) /\ client' = Closed(t) /\ online' = online \ TokensOf(u)
      /\ omniscients' = omniscients \ {u}
      /\ IF Playing
         THEN /\ game' = SetControlled(game, ps, Nobody)
              /\ tokens' = [r \in Roles |-> tokens[r] \ TokensOf(u)]
              /\ IF ps = {} THEN inbox' = notice /\ UNCHANGED status
                 ELSE /\ inbox' = ControllersNotified(notice, ReceptionAddresses(tokens'), game')
                      /\ status' = StoppedIfNeeded(game', status)
         ELSE inbox' = notice /\ UNCHANGED <<game, status, tokens>>
  BY DEF DeleteAccount, AccountRemoved
<1>2. /\ game \in Game /\ tokens \in [Roles -> SUBSET Tokens] /\ online \subseteq Tokens
      /\ omniscients \subseteq Users /\ Clients(client) /\ Box(inbox) /\ StateInv /\ Seated
      /\ status \in {"forming", "active", "paused", "completed", "canceled", "deleted"}
  BY DEF Sound, TypeInv
<1>3. Keep(client')
  BY <1>1, <1>2, ClosedIs
<1>4. asked' \in 0..MaxRequests /\ online' \subseteq Tokens /\ omniscients' \subseteq Users
  BY <1>1, <1>2, AskedBound
<1>5. tokens' \in [Roles -> SUBSET Tokens] /\ \A r \in Roles : tokens'[r] \subseteq tokens[r]
  BY <1>1, <1>2
<1>6. /\ Box(notice)
      /\ \A x \in Watched : /\ notice[x] # inbox[x] => client[x].reading
                            /\ x \notin S => notice[x] = inbox[x]
                            /\ \A r : NoneFor(inbox[x], notice[x], r)
  <2>1. S \subseteq Tokens
    BY <1>2 DEF TokensOf
  <2> HIDE DEF S
  <2> QED
    BY <1>2, <2>1, AccountSent
<1>7. S \subseteq TokensOf(u)
  OBVIOUS
<1> HIDE DEF S, notice
<1>8. Playing => \A r \in Roles : tokens'[r] \subseteq online'
  <2>1. Playing => \A r \in Roles : tokens[r] \subseteq online
    BY <1>2 DEF StateInv
  <2> QED
    BY <1>1, <1>2, <2>1
<1>9. ASSUME Playing PROVE Seated'
  <2>1. game' = SetControlled(game, ps, Nobody) /\ tokens' = [r \in Roles |-> tokens[r] \ TokensOf(u)]
    BY <1>1, <1>9
  <2>2. ASSUME NEW p \in Powers, p \in ps PROVE tokens'[p] = {}
    <3>1. ASSUME NEW x \in tokens[p] PROVE x \in TokensOf(u)
      <4>1. x \in online
        BY <1>2, <1>9, <3>1 DEF StateInv, Roles
      <4>2. Owner[x] = u
        BY <1>2, <2>2, <3>1 DEF Seated, ControlledBy
      <4> QED
        BY <4>1, <4>2 DEF TokensOf
    <3>2. tokens'[p] = tokens[p] \ TokensOf(u)
      BY <2>1 DEF Roles
    <3> QED
      BY <3>1, <3>2
  <2>3. \A p \in Powers : tokens'[p] \subseteq tokens[p]
    BY <1>5 DEF Roles
  <2> HIDE DEF ps
  <2> QED
    BY <2>1, <2>2, <2>3, Unseated
<1>10. CASE Playing /\ ps # {}
  <2>1. \A a : Stays(a) => notice[a[2]] = inbox[a[2]]
    <3>1. ASSUME NEW a, Stays(a) PROVE notice[a[2]] = inbox[a[2]]
      <4>1. a[1] \in Roles /\ a[2] \in Watched /\ a[2] \in tokens'[a[1]]
        BY <3>1 DEF Stays
      <4>2. a[2] \notin TokensOf(u)
        BY <1>1, <1>10, <4>1
      <4> QED
        BY <1>6, <1>7, <4>1, <4>2
    <3> QED
      BY <3>1
  <2>2. /\ game' = SetControlled(game, ps, Nobody) /\ Playing
        /\ inbox' = ControllersNotified(notice, ReceptionAddresses(tokens'), game')
        /\ status' = StoppedIfNeeded(game', status) \/ status' = StartedIfPossible(game', status)
    BY <1>1, <1>10
  <2>3. Nobody \in Users \cup {Nobody} /\ Seated' /\ \A r \in Roles : tokens'[r] \subseteq online'
    BY <1>8, <1>9, <1>10
  <2>4. \A x \in Watched : notice[x] # inbox[x] => client[x].reading
    BY <1>6
  <2> HIDE DEF ps, u
  <2> QED
    BY <1>3, <1>4, <1>5, <1>6, <2>1, <2>2, <2>3, <2>4, ControllersStep
<1>11. CASE ~(Playing /\ ps # {})
  <2>1. inbox' = notice /\ status' = status
    BY <1>1, <1>11
  <2>2. game' = game
    <3>1. CASE Playing
      <4>1. game' = SetControlled(game, {}, Nobody)
        BY <1>1, <1>11, <3>1
      <4>2. game' = [game EXCEPT !.power = [p \in Powers |-> game.power[p]]]
        BY <4>1 DEF SetControlled, Each
      <4>3. game.power = [p \in Powers |-> game.power[p]]
        BY <1>2 DEF Game
      <4> QED
        BY <1>2, <4>2, <4>3 DEF Game
    <3>2. CASE ~Playing
      BY <1>1, <3>2
    <3> QED
      BY <3>1, <3>2
  <2>3. Seated'
    BY <1>5, <2>2, FewerSeated DEF Roles
  <2>4. GameOver'
    BY <2>1, <2>2 DEF Sound, GameOver, Playing, Finished
  <2>5. StateInv'
    <3>1. \A x \in Watched : inbox'[x] # <<>> => client'[x].reading
      BY <1>2, <1>3, <1>6, <2>1 DEF StateInv, Keep
    <3> QED
      BY <1>8, <2>1, <3>1 DEF StateInv, Playing
  <2>6. SoundNext
    BY <1>2, <1>3, <1>4, <1>5, <1>6, <2>1, <2>2, <2>3, <2>4, <2>5 DEF SoundNext, Keep
  <2>7. ASSUME FollowInv, NEW a, Stays(a) PROVE FollowsNext(a)
    <3>1. a \in Registered /\ At(client', a) = Copy(a) /\ a[2] \in Watched /\ a \in Following
      BY <1>3, <2>7 DEF Stays, Keep
    <3>2. Box(inbox') /\ NoneFor(inbox[a[2]], inbox'[a[2]], a[1])
      BY <1>6, <2>1, <3>1
    <3> QED
      BY <2>1, <2>2, <2>7, <3>1, <3>2, QuietCopy
  <2> QED
    BY <2>6, <2>7
<1> QED
  BY <1>10, <1>11

\* on_set_grade: the tokens that move have lost their role when they are told.
LEMMA SetGradeStep ==
    ASSUME Sound, NEW t \in Tokens, NEW u \in Users, SetGrade(t, u)
    PROVE  SoundNext /\ (FollowInv => \A a : Stays(a) => FollowsNext(a))
<1> DEFINE old == IF u \in omniscients THEN "omniscient" ELSE "observer"
           moved == {x \in tokens[old] \cap online : Owner[x] = u}
<1>1. /\ Asks(t) /\ Playing
      /\ omniscients' = IF u \in omniscients THEN omniscients \ {u} ELSE omniscients \cup {u}
      /\ UNCHANGED <<game, status, online, client>>
      /\ \/ UNCHANGED <<tokens, inbox>>
         \/ /\ tokens' = [r \in Roles |-> CASE r = old -> tokens[r] \ moved
                                            [] r \in Special \ {old} -> tokens[r] \cup moved
                                            [] OTHER -> tokens[r]]
            /\ inbox' = Notified(inbox, {old} \X moved,
                                 LAMBDA r : [type |-> "OmniscientUpdated", role |-> r])
  BY DEF SetGrade
<1>2. /\ game \in Game /\ tokens \in [Roles -> SUBSET Tokens] /\ online \subseteq Tokens
      /\ omniscients \subseteq Users /\ Clients(client) /\ Box(inbox) /\ StateInv /\ Seated /\ GameOver
      /\ status \in {"forming", "active", "paused", "completed", "canceled", "deleted"}
  BY DEF Sound, TypeInv
<1>3. old \in Special /\ old \in Roles /\ moved \subseteq Tokens /\ moved \subseteq online
  BY <1>2 DEF Special, Roles
<1> HIDE DEF old, moved
<1>4. Keep(client')
  <2>1. Keep(client)
    BY <1>2, SameClients
  <2> QED
    BY <1>1, <2>1 DEF Keep
<1>5. asked' \in 0..MaxRequests /\ online' \subseteq Tokens /\ omniscients' \subseteq Users
  BY <1>1, <1>2, AskedBound
<1>6. GameOver'
  BY <1>1, <1>2 DEF GameOver, Playing, Finished
<1>7. CASE UNCHANGED <<tokens, inbox>>
  <2>1. Seated' /\ StateInv'
    BY <1>1, <1>2, <1>7 DEF Seated, StateInv, Controller, Playing
  <2>2. SoundNext
    BY <1>1, <1>2, <1>4, <1>5, <1>6, <1>7, <2>1 DEF SoundNext, Keep
  <2> QED
    BY <1>1, <1>4, <1>7, <2>2, QuietFollow
<1>8. CASE /\ tokens' = [r \in Roles |-> CASE r = old -> tokens[r] \ moved
                                            [] r \in Special \ {old} -> tokens[r] \cup moved
                                            [] OTHER -> tokens[r]]
           /\ inbox' = Notified(inbox, {old} \X moved,
                                LAMBDA r : [type |-> "OmniscientUpdated", role |-> r])
  <2>1. \A r \in Roles : /\ r = old => tokens'[r] = tokens[r] \ moved
                         /\ tokens'[r] \subseteq tokens[r] \cup moved
                         /\ r \in Powers => tokens'[r] = tokens[r]
    <3>1. ASSUME NEW r \in Roles
          PROVE  /\ r = old => tokens'[r] = tokens[r] \ moved
                 /\ tokens'[r] \subseteq tokens[r] \cup moved
                 /\ r \in Powers => tokens'[r] = tokens[r]
      <4>1. tokens'[r] = CASE r = old -> tokens[r] \ moved
                           [] r \in Special \ {old} -> tokens[r] \cup moved
                           [] OTHER -> tokens[r]
        BY <1>8
      <4>2. r \in Powers => r \notin Special
        BY ViewsAssumption
      <4>3. CASE r = old
        BY <1>3, <4>1, <4>2, <4>3
      <4>4. CASE r # old /\ r \in Special
        BY <4>1, <4>2, <4>4
      <4>5. CASE r # old /\ r \notin Special
        BY <4>1, <4>5
      <4> QED
        BY <4>3, <4>4, <4>5
    <3> QED
      BY <3>1
  <2>2. tokens' \in [Roles -> SUBSET Tokens]
    <3>1. tokens' = [r \in Roles |-> tokens'[r]]
      BY <1>8
    <3>2. \A r \in Roles : tokens'[r] \subseteq Tokens
      BY <1>2, <1>3, <2>1
    <3> QED
      BY <3>1, <3>2
  <2>3. \A r \in Roles : tokens'[r] \subseteq online'
    <3>1. \A r \in Roles : tokens[r] \subseteq online
      BY <1>1, <1>2 DEF StateInv
    <3> QED
      BY <1>1, <1>3, <2>1, <3>1
  <2>4. Seated'
    <3>1. \A p \in Powers : tokens'[p] = tokens[p]
      BY <2>1 DEF Roles
    <3> QED
      BY <1>1, <3>1, FewerSeated
  <2> DEFINE A == {old} \X moved
  <2>5. A \subseteq Roles \X Tokens /\ \A r, x : <<r, x>> \in A => r = old /\ x \in moved
    BY <1>3
  <2>6. inbox' = Notified(inbox, A, LAMBDA r : [type |-> "OmniscientUpdated", role |-> r])
    BY <1>8
  <2> HIDE DEF A
  <2>7. Box(inbox') /\ Reached(inbox, inbox', A, Notice("OmniscientUpdated"))
    BY <1>2, <2>5, <2>6, NoticeSent
  <2>8. \A x \in Watched : inbox'[x] # <<>> => client'[x].reading
    BY <1>4, <2>7, ReadersReached DEF Keep
  <2>9. StateInv'
    BY <2>3, <2>8 DEF StateInv
  <2>10. SoundNext
    BY <1>1, <1>2, <1>4, <1>5, <1>6, <2>2, <2>4, <2>7, <2>9 DEF SoundNext, Keep
  <2>11. ASSUME FollowInv, NEW a, Stays(a) PROVE FollowsNext(a)
    <3>1. /\ a \in Registered /\ At(client', a) = Copy(a) /\ a[2] \in Watched /\ a \in Following
          /\ a[1] \in Roles /\ a[2] \in tokens'[a[1]]
      BY <1>4, <2>11 DEF Stays, Keep
    <3>2. <<a[1], a[2]>> \notin A
      BY <2>1, <2>5, <3>1
    <3>3. NoneFor(inbox[a[2]], inbox'[a[2]], a[1])
      BY <2>7, <3>1, <3>2 DEF Reached
    <3> QED
      BY <1>1, <2>7, <2>11, <3>1, <3>3, QuietCopy
  <2> QED
    BY <2>10, <2>11
<1> QED
  BY <1>1, <1>7, <1>8

\* on_delete_game: the others are told, and who deletes the game drops its copies.
LEMMA DeleteGameStep ==
    ASSUME Sound, NEW t \in Tokens, DeleteGame(t)
    PROVE  SoundNext /\ (FollowInv => \A a : Stays(a) => FollowsNext(a))
<1> DEFINE A == {a \in ReceptionAddresses(tokens) : a[2] # t}
           f == Notice("GameDeleted")
<1>1. /\ Asks(t) /\ Playing /\ status' = "deleted" /\ client' = Left(t)
      /\ inbox' = Notified(inbox, A, LAMBDA r : [type |-> "GameDeleted", role |-> r])
      /\ UNCHANGED <<game, tokens, omniscients, online>>
  BY DEF DeleteGame, AsksAs, Verified
<1>2. /\ game \in Game /\ tokens \in [Roles -> SUBSET Tokens] /\ online \subseteq Tokens
      /\ omniscients \subseteq Users /\ Clients(client) /\ Box(inbox) /\ StateInv /\ Seated
  BY DEF Sound, TypeInv
<1>3. A \subseteq Roles \X Tokens
  BY ReceptionIs
<1>4. \A r \in Roles, x \in Tokens : x \in tokens[r] /\ x # t => <<r, x>> \in A
  BY ReceptionIs
<1> HIDE DEF A
<1>5. Keep(client') /\ \A a \in Held(client') : a[2] # t
  BY <1>1, <1>2, LeftIs
<1>6. Box(inbox') /\ Reached(inbox, inbox', A, f)
  BY <1>1, <1>2, <1>3, NoticeSent
<1>7. GameOver' /\ Seated'
  BY <1>1, <1>2 DEF GameOver, Playing, Seated, Controller
<1>8. StateInv'
  <2>1. \A x \in Watched : inbox'[x] # <<>> => client'[x].reading
    BY <1>5, <1>6, ReadersReached DEF Keep
  <2> QED
    BY <1>1, <2>1 DEF StateInv, Playing
<1>9. SoundNext
  BY <1>1, <1>2, <1>5, <1>6, <1>7, <1>8, AskedBound DEF SoundNext, Keep
<1>10. ASSUME FollowInv, NEW a, Stays(a) PROVE FollowsNext(a)
  <2> DEFINE r == a[1]
             x == a[2]
             c == Copy(a)
             d == At(client', a)
             n == f[r]
  <2>1. a \in Registered /\ d = c /\ x # t /\ a \in Following
    BY <1>5, <1>10 DEF Stays, Keep
  <2>2. /\ r \in Roles /\ x \in Watched /\ x \in Tokens /\ x \in tokens[r] /\ x \in online
        /\ Follows(c, game, status, inbox[x], r) /\ client[x].reading
        /\ inbox[x] \in Seq(Notification)
    BY <1>1, <1>10, <2>1, Follower
  <2>3. inbox'[x] \in Seq(Notification)
    BY <1>6, <2>2 DEF Box
  <2>4. n = [type |-> "GameDeleted", role |-> r]
    BY <2>2 DEF Notice
  <2> HIDE DEF r, x, c, d, f
  <2>5. OneFor(inbox[x], inbox'[x], r, n)
    BY <1>4, <1>6, <2>1, <2>2 DEF Reached
  <2> HIDE DEF n
  <2>6. n.type = "GameDeleted"
    BY <2>4
  <2>7. View(game, r) = After(View(game, r), n)
    <3>1. Laid(game, game, n)
      BY <2>6 DEF Laid, Cell
    <3> QED
      BY <1>2, <2>6, <3>1, AfterTable
  <2>8. ~Votes(n, r)
    BY <2>6 DEF Votes
  <2>9. Follows(d, game', status', inbox'[x], r)
    BY <1>1, <2>1, <2>2, <2>3, <2>5, <2>6, <2>7, <2>8, ToldFollows
  <2> QED
    BY <2>9 DEF FollowsNext, r, x, d
<1> QED
  BY <1>9, <1>10

----------------------------------------------------------------------------
(* The steps that tell of a new phase, and of a vote.                       *)

\* A copy that is told of a new phase follows the game.
LEMMA PhaseFollows ==
    ASSUME NEW box \in Seq(Notification), NEW next \in Seq(Notification), NEW r \in Roles,
           NEW c, NEW g \in Game, NEW s, NEW h \in Game, NEW d \in Phases, NEW u, u # "deleted",
           Follows(c, g, s, box, r), OneFor(box, next, r, ProcessedNotice(h, d)[r]),
           h.phase = d.phase, h.past = g.past \cup {d.previous},
           \A p \in Powers : /\ h.power[p].controller = g.power[p].controller
                             /\ h.power[p].board = d.board[p] /\ h.power[p].orders = {}
                             /\ h.power[p].vote = "neutral"
    PROVE  Follows(c, h, u, next, r)
<1> DEFINE n == ProcessedNotice(h, d)[r]
           e == FilterPhaseData(h, d, r)
<1>1. n = [type |-> "GameProcessed", role |-> r, data |-> e]
  BY DEF ProcessedNotice
<1>2. e \in Phases /\ e.previous = d.previous /\ e.phase = d.phase /\ e.board = d.board
  BY FilterKeeps
<1>3. OneFor(box, next, r, n)
  OBVIOUS
<1> HIDE DEF n, e
<1>4. n.type = "GameProcessed" /\ n.data = e /\ n.role = r
  BY <1>1
<1>5. View(h, r) = After(View(g, r), n)
  <2>1. h.phase = n.data.phase /\ h.past = g.past \cup {n.data.previous}
    BY <1>2, <1>4
  <2>2. \A p \in Powers : /\ h.power[p].board = n.data.board[p] /\ h.power[p].orders = {}
                          /\ h.power[p].controller = g.power[p].controller
    BY <1>2, <1>4
  <2> QED
    BY <1>4, <2>1, <2>2, AfterProcessed
<1>6. Votes(n, r) /\ VoteOf(n, r) = "neutral"
  BY <1>4 DEF Votes, VoteOf, For
<1>7. r \in Powers => h.power[r].vote = VoteOf(n, r)
  BY <1>6
<1> QED
  BY <1>3, <1>5, <1>6, <1>7, ToldFollows

\* Game g, of which the copies are told by box, goes on to another phase.
LEMMA PhaseStep ==
    ASSUME Sound, Playing, NEW g \in Game, NEW d \in Phases, NEW box, Box(box),
           \A x \in Watched : box[x] # inbox[x] => client[x].reading,
           \A p \in Powers : g.power[p].controller = game.power[p].controller,
           game' \in Game, game'.phase = d.phase, game'.past = g.past \cup {d.previous},
           \A p \in Powers : /\ game'.power[p].controller = g.power[p].controller
                             /\ game'.power[p].board = d.board[p] /\ game'.power[p].orders = {}
                             /\ game'.power[p].vote = "neutral",
           inbox' = ProcessedNotified(box, tokens, game', d),
           Clients(client'), \A x \in Watched : client'[x].reading = client[x].reading,
           UNCHANGED <<tokens, omniscients, online>>, asked' \in 0..MaxRequests,
           status' \in {"forming", "active", "paused", "completed", "canceled"},
           game'.phase = Completed => status' = "completed",
           FollowInv => \A a : Stays(a) => /\ a \in Following
                                           /\ Follows(At(client', a), g, status, box[a[2]], a[1])
    PROVE  SoundNext /\ (FollowInv => \A a : Stays(a) => FollowsNext(a))
<1> DEFINE A == ReceptionAddresses(tokens)
<1>1. /\ tokens \in [Roles -> SUBSET Tokens] /\ online \subseteq Tokens
      /\ omniscients \subseteq Users /\ StateInv /\ Seated
  BY DEF Sound, TypeInv
<1>2. Box(inbox') /\ Reached(box, inbox', A, ProcessedNotice(game', d))
  BY ProcessedSent
<1>3. \A r \in Roles, x \in Tokens : x \in tokens[r] => <<r, x>> \in A
  BY ReceptionIs
<1> HIDE DEF A
<1>4. GameOver'
  BY DEF GameOver, Finished
<1>5. Seated'
  <2>1. \A p \in Powers : game'.power[p].controller = game.power[p].controller
    OBVIOUS
  <2> QED
    BY <1>1, <2>1 DEF Seated, Controller
<1>6. StateInv'
  <2>1. ASSUME NEW x \in Watched, inbox'[x] # <<>> PROVE client'[x].reading
    <3>1. inbox'[x] # box[x] => client[x].reading
      BY <1>2 DEF Reached
    <3>2. inbox[x] # <<>> => client[x].reading
      BY <1>1 DEF StateInv
    <3> QED
      BY <2>1, <3>1, <3>2
  <2> QED
    BY <1>1, <2>1 DEF StateInv
<1>7. SoundNext
  BY <1>1, <1>2, <1>4, <1>5, <1>6 DEF SoundNext
<1>8. ASSUME FollowInv, NEW a, Stays(a) PROVE FollowsNext(a)
  <2> DEFINE r == a[1]
             x == a[2]
             c == At(client', a)
  <2>1. a \in Following /\ Follows(c, g, status, box[x], r)
    BY <1>8
  <2>2. /\ r \in Roles /\ x \in Watched /\ x \in Tokens /\ x \in tokens[r] /\ x \in online
        /\ client[x].reading
    BY <1>8, <2>1, Follower
  <2>3. box[x] \in Seq(Notification) /\ inbox'[x] \in Seq(Notification)
    BY <1>2, <2>2 DEF Box
  <2> HIDE DEF r, x, c
  <2>4. OneFor(box[x], inbox'[x], r, ProcessedNotice(game', d)[r])
    BY <1>2, <1>3, <2>2 DEF Reached
  <2>5. status' # "deleted"
    OBVIOUS
  <2>6. Follows(c, game', status', inbox'[x], r)
    BY <2>1, <2>2, <2>3, <2>4, <2>5, PhaseFollows
  <2> QED
    BY <2>6 DEF FollowsNext, r, x, c
<1> QED
  BY <1>7, <1>8

\* The data of two phases.
LEMMA PhaseDataIs ==
    ASSUME NEW g \in Game, NEW before \in 1..MaxPhase, NEW drawn \in BOOLEAN
    PROVE  /\ PhaseData(g, before, drawn) \in Phases
           /\ PhaseData(g, before, drawn).previous = before
           /\ PhaseData(g, before, drawn).phase = g.phase
           /\ \A p \in Powers : PhaseData(g, before, drawn).board[p] = g.power[p].board
<1>1. /\ g.phase \in 1..Completed
      /\ \A p \in Powers : g.power[p].board \in Boards
  BY GameParts
<1>2. [p \in Powers |-> g.power[p].board] \in [Powers -> Boards]
  BY <1>1
<1>3. (IF drawn THEN {} ELSE {p \in Powers : Eliminated(g.power[p])}) \in SUBSET Powers
  OBVIOUS
<1> QED
  BY <1>1, <1>2, <1>3 DEF PhaseData, Phases

\* A game that is not over is in a phase that is not the last.
LEMMA InPlay ==
    ASSUME Sound, Playing, ~Finished
    PROVE  game.phase \in 1..MaxPhase
<1>1. game.phase \in 1..Completed /\ game.phase # Completed
  BY GameParts DEF Sound, TypeInv, GameOver
<1> QED
  BY <1>1, Numbers

\* A copy that stays, with nothing new under way.
LEMMA CopiesFollow ==
    ASSUME Sound, FollowInv, Keep(client'), NEW a, Stays(a)
    PROVE  a \in Following /\ Follows(At(client', a), game, status, inbox[a[2]], a[1])
<1>1. a \in Following /\ At(client', a) = Copy(a)
  BY DEF Keep, Stays
<1> QED
  BY <1>1, Follower

\* on_set_game_status, which may draw the game.
LEMMA SetGameStatusStep ==
    ASSUME Sound, NEW t \in Tokens, NEW s \in Statuses, SetGameStatus(t, s)
    PROVE  SoundNext /\ (FollowInv => \A a : Stays(a) => FollowsNext(a))
<1>1. /\ Asks(t) /\ Playing /\ ~Finished /\ status' = s
      /\ IF s = "completed"
         THEN /\ game' = Drawn(game)
              /\ inbox' = ProcessedNotified(inbox, tokens, game', PhaseData(game', game.phase, TRUE))
         ELSE UNCHANGED <<game, inbox>>
      /\ UNCHANGED <<tokens, omniscients, online, client>>
  BY DEF SetGameStatus, AsksAs, Verified
<1>2. /\ game \in Game /\ tokens \in [Roles -> SUBSET Tokens] /\ online \subseteq Tokens
      /\ omniscients \subseteq Users /\ Clients(client) /\ Box(inbox) /\ StateInv /\ Seated
  BY DEF Sound, TypeInv
<1>3. s \in {"forming", "active", "paused", "completed", "canceled"}
  BY ViewsAssumption
<1>4. Keep(client') /\ Clients(client') /\ \A x \in Watched : client'[x].reading = client[x].reading
  <2>1. Keep(client)
    BY <1>2, SameClients
  <2> QED
    BY <1>1, <2>1 DEF Keep
<1>5. asked' \in 0..MaxRequests
  BY <1>1, AskedBound
<1>6. game.phase \in 1..MaxPhase
  BY <1>1, InPlay
<1>7. CASE s = "completed"
  <2> DEFINE d == PhaseData(game', game.phase, TRUE)
  <2>1. /\ game' \in Game /\ game'.phase = Completed /\ game'.past = game.past \cup {game.phase}
        /\ \A p \in Powers : /\ game'.power[p].controller = game.power[p].controller
                             /\ game'.power[p].board = game.power[p].board
                             /\ game'.power[p].orders = {} /\ game'.power[p].vote = "neutral"
    BY <1>1, <1>2, <1>6, <1>7, DrawnIs
  <2>2. /\ d \in Phases /\ d.previous = game.phase /\ d.phase = game'.phase
        /\ \A p \in Powers : d.board[p] = game'.power[p].board
    <3>1. game' \in Game /\ TRUE \in BOOLEAN
      BY <2>1
    <3> QED
      BY <1>6, <3>1, PhaseDataIs, Zenon
  <2>3. inbox' = ProcessedNotified(inbox, tokens, game', d)
    BY <1>1, <1>7
  <2> HIDE DEF d
  <2>4. /\ game'.phase = d.phase /\ game'.past = game.past \cup {d.previous}
        /\ \A p \in Powers : /\ game'.power[p].controller = game.power[p].controller
                             /\ game'.power[p].board = d.board[p] /\ game'.power[p].orders = {}
                             /\ game'.power[p].vote = "neutral"
    BY <2>1, <2>2
  <2>5. /\ \A x \in Watched : inbox[x] # inbox[x] => client[x].reading
        /\ \A p \in Powers : game.power[p].controller = game.power[p].controller
        /\ game'.phase = Completed => status' = "completed"
    BY <1>1, <1>7
  <2>6. FollowInv => \A a : Stays(a) => /\ a \in Following
                                        /\ Follows(At(client', a), game, status, inbox[a[2]], a[1])
    BY <1>4, CopiesFollow
  <2> QED
    BY <1>1, <1>2, <1>3, <1>4, <1>5, <2>1, <2>2, <2>3, <2>4, <2>5, <2>6, PhaseStep
<1>8. CASE s # "completed"
  <2>1. UNCHANGED <<game, inbox>>
    BY <1>1, <1>8
  <2>2. GameOver'
    BY <1>6, <2>1, Numbers DEF GameOver
  <2>3. Seated' /\ StateInv'
    BY <1>1, <1>2, <2>1 DEF Seated, StateInv, Controller, Playing
  <2>4. SoundNext
    BY <1>1, <1>2, <1>3, <1>4, <1>5, <2>1, <2>2, <2>3 DEF SoundNext
  <2>5. status' # "deleted"
    BY <1>1, <1>3
  <2> QED
    BY <1>4, <2>1, <2>4, <2>5, QuietFollow
<1> QED
  BY <1>7, <1>8

\* Server._process_game.
LEMMA ProcessStep ==
    ASSUME Sound, Process
    PROVE  SoundNext /\ (FollowInv => \A a : Stays(a) => FollowsNext(a))
<1>1. /\ game \in Game /\ tokens \in [Roles -> SUBSET Tokens] /\ online \subseteq Tokens
      /\ omniscients \subseteq Users /\ Clients(client) /\ Box(inbox) /\ StateInv /\ Seated
      /\ asked \in 0..MaxRequests
  BY DEF Sound, TypeInv
<1>2. PICK ph \in {game.phase + 1, Completed}, p \in Powers :
         \E b \in (IF Eliminated(game.power[p]) THEN {{}} ELSE Fates) :
            game' = Processed(game, ph, [q \in Powers |-> IF q = p THEN b ELSE game.power[q].board])
  BY DEF Process
<1>3. PICK b \in (IF Eliminated(game.power[p]) THEN {{}} ELSE Fates) :
         game' = Processed(game, ph, [q \in Powers |-> IF q = p THEN b ELSE game.power[q].board])
  BY <1>2
<1> DEFINE bs == [q \in Powers |-> IF q = p THEN b ELSE game.power[q].board]
           d == PhaseData(game', game.phase, FALSE)
<1>4. /\ status = "active" /\ game.phase <= MaxPhase
      /\ status' = IF game'.phase = Completed THEN "completed" ELSE StoppedIfNeeded(game', status)
      /\ inbox' = ProcessedNotified(inbox, tokens, game', d)
      /\ UNCHANGED <<tokens, omniscients, online, client, asked>>
  BY DEF Process
<1>5. game.phase \in 1..MaxPhase /\ ph \in 1..Completed
  BY <1>1, <1>4, GameParts, Numbers
<1>6. bs \in [Powers -> Boards]
  <2>1. b \in Boards
    BY ViewsAssumption DEF Boards
  <2>2. \A q \in Powers : game.power[q].board \in Boards
    BY <1>1, GameParts
  <2> QED
    BY <2>1, <2>2
<1>7. game' = Processed(game, ph, bs)
  BY <1>3
<1> HIDE DEF bs
<1>8. /\ game' \in Game /\ game'.phase = ph /\ game'.past = game.past \cup {game.phase}
      /\ \A q \in Powers : /\ game'.power[q].controller = game.power[q].controller
                           /\ game'.power[q].board = bs[q]
                           /\ game'.power[q].orders = {} /\ game'.power[q].vote = "neutral"
  BY <1>1, <1>5, <1>6, <1>7, ProcessedIs
<1>9. /\ d \in Phases /\ d.previous = game.phase /\ d.phase = game'.phase
      /\ \A q \in Powers : d.board[q] = game'.power[q].board
  <2>1. game' \in Game /\ FALSE \in BOOLEAN
    BY <1>8
  <2> QED
    BY <1>5, <2>1, PhaseDataIs, Zenon
<1> HIDE DEF d
<1>10. /\ game'.phase = d.phase /\ game'.past = game.past \cup {d.previous}
       /\ \A q \in Powers : /\ game'.power[q].controller = game.power[q].controller
                            /\ game'.power[q].board = d.board[q] /\ game'.power[q].orders = {}
                            /\ game'.power[q].vote = "neutral"
  BY <1>8, <1>9
<1>11. Keep(client') /\ Clients(client') /\ \A x \in Watched : client'[x].reading = client[x].reading
  <2>1. Keep(client)
    BY <1>1, SameClients
  <2> QED
    BY <1>4, <2>1 DEF Keep
<1>12. /\ \A x \in Watched : inbox[x] # inbox[x] => client[x].reading
       /\ \A q \in Powers : game.power[q].controller = game.power[q].controller
       /\ game'.phase = Completed => status' = "completed"
       /\ Playing
  BY <1>4 DEF Playing
<1>13. status' \in {"forming", "active", "paused", "completed", "canceled"}
  BY <1>4, StatusMoves
<1>14. FollowInv => \A a : Stays(a) => /\ a \in Following
                                       /\ Follows(At(client', a), game, status, inbox[a[2]], a[1])
  BY <1>11, CopiesFollow
<1>15. asked' \in 0..MaxRequests /\ UNCHANGED <<tokens, omniscients, online>>
  BY <1>1, <1>4
<1>16. inbox' = ProcessedNotified(inbox, tokens, game', d)
  BY <1>4
<1> QED
  BY <1>1, <1>8, <1>9, <1>10, <1>11, <1>12, <1>13, <1>14, <1>15, <1>16, PhaseStep

\* A vote reaches the copies of the power, and of those who watch everything.
LEMMA VoteFollows ==
    ASSUME Sound, FollowInv, Playing, NEW t \in Tokens, NEW role \in Powers, NEW v \in Ballots,
           NEW voted, voted = SetVote(game, role, v), NEW box, Box(box),
           Reached(inbox, box, {a \in ReceptionAddresses(tokens) : a[1] # "observer"}, VoteNotice(voted)),
           NEW a \in Following, NEW d \in Game, Copy(a) \in Game,
           d = IF a[1] = role /\ a[2] = t THEN SetVote(Copy(a), role, v) ELSE Copy(a)
    PROVE  Follows(d, voted, status, box[a[2]], a[1])
<1> DEFINE r == a[1]
           x == a[2]
           c == Copy(a)
           A == {b \in ReceptionAddresses(tokens) : b[1] # "observer"}
           n == VoteNotice(voted)[r]
<1>1. /\ r \in Roles /\ x \in Watched /\ x \in Tokens /\ x \in tokens[r] /\ x \in online
      /\ Follows(c, game, status, inbox[x], r) /\ client[x].reading
      /\ inbox[x] \in Seq(Notification)
  BY Follower
<1>2. box[x] \in Seq(Notification)
  BY <1>1 DEF Box
<1>3. game \in Game
  BY DEF Sound, TypeInv
<1>4. /\ voted \in Game /\ voted.phase = game.phase /\ voted.past = game.past
      /\ \A p \in Powers : /\ voted.power[p].controller = game.power[p].controller
                           /\ voted.power[p].board = game.power[p].board
                           /\ voted.power[p].orders = game.power[p].orders
                           /\ voted.power[p].vote = IF p = role THEN v ELSE game.power[p].vote
  BY <1>3, SetVoteIs
<1>5. View(d, r) = View(c, r)
  <2>1. CASE a[1] = role /\ a[2] = t
    <3>1. d = SetVote(c, role, v) /\ c \in Game
      BY <2>1
    <3> HIDE DEF c, r
    <3>2. /\ d.phase = c.phase /\ d.past = c.past
          /\ \A p \in Powers : /\ d.power[p].controller = c.power[p].controller
                               /\ d.power[p].board = c.power[p].board
                               /\ d.power[p].orders = c.power[p].orders
      BY <3>1, SetVoteIs
    <3>3. \A p \in Watches(r) : d.power[p].board = c.power[p].board /\ d.power[p].orders = c.power[p].orders
      BY <3>2, WatchesPowers
    <3>4. \A p \in Powers : d.power[p].controller = c.power[p].controller
      BY <3>2
    <3> QED
      BY <3>1, <3>2, <3>3, <3>4, SameView
  <2>2. CASE ~(a[1] = role /\ a[2] = t)
    <3>1. d = c
      BY <2>2
    <3> QED
      BY <3>1
  <2> QED
    BY <2>1, <2>2
<1>6. CASE r # "observer"
  <2>1. <<r, x>> \in A
    <3>1. <<r, x>> \in ReceptionAddresses(tokens) /\ <<r, x>>[1] = r
      BY <1>1, ReceptionIs
    <3> QED
      BY <1>6, <3>1
  <2>2. n = [type |-> "VoteUpdated", role |-> r,
             vote |-> [p \in Powers \cap (IF r \in Powers THEN {r} ELSE Powers) |-> voted.power[p].vote]]
    BY <1>1 DEF VoteNotice
  <2>3. Reached(inbox, box, A, VoteNotice(voted))
    OBVIOUS
  <2> HIDE DEF A, r, x, c
  <2>4. OneFor(inbox[x], box[x], r, n)
    BY <1>1, <2>1, <2>3 DEF Reached
  <2> HIDE DEF n
  <2>5. n.type = "VoteUpdated" /\ n.role = r /\ (r \in Powers => n.vote[r] = voted.power[r].vote)
    BY <2>2
  <2>6. r \in Powers => Votes(n, r) /\ VoteOf(n, r) = voted.power[r].vote
    BY <2>5 DEF Votes, VoteOf, For
  <2>7. View(voted, r) = After(View(game, r), n)
    <3>1. Laid(game, voted, n)
      <4>1. ASSUME NEW p \in Powers
            PROVE  [board |-> voted.power[p].board, orders |-> voted.power[p].orders]
                     = Cell([board |-> game.power[p].board, orders |-> game.power[p].orders], n, p)
        BY <1>4, <2>5 DEF Cell
      <4> QED
        BY <4>1 DEF Laid
    <3>2. \A p \in Powers : voted.power[p].controller = game.power[p].controller
      BY <1>4
    <3>3. n.type \notin {"PowersControllers", "GameProcessed"}
      BY <2>5
    <3> QED
      BY <1>3, <1>4, <3>1, <3>2, <3>3, AfterTable
  <2>8. Follows(d, voted, status, box[x], r)
    BY <1>1, <1>2, <1>5, <2>4, <2>6, <2>7, ToldFollows
  <2> QED
    BY <2>8 DEF r, x
<1>7. CASE r = "observer"
  <2>1. r \notin Powers /\ r # role /\ <<r, x>> \notin A
    BY <1>7, ViewsAssumption DEF Special
  <2>2. Reached(inbox, box, A, VoteNotice(voted)) /\ d = c
    BY <2>1
  <2> HIDE DEF A, r, x, c
  <2>3. NoneFor(inbox[x], box[x], r)
    BY <1>1, <2>1, <2>2 DEF Reached
  <2>4. View(voted, r) = View(game, r)
    <3>1. \A p \in Powers : voted.power[p].controller = game.power[p].controller
      BY <1>4
    <3>2. \A p \in Watches(r) : /\ voted.power[p].board = game.power[p].board
                                /\ voted.power[p].orders = game.power[p].orders
      BY <1>4, WatchesPowers
    <3> QED
      BY <1>3, <1>4, <3>1, <3>2, SameView
  <2>5. Follows(d, voted, status, box[x], r)
    BY <1>1, <1>2, <1>5, <2>1, <2>3, <2>4, QuietFollows
  <2> QED
    BY <2>5 DEF r, x
<1> QED
  BY <1>6, <1>7

\* on_vote: the vote is told, and the new phase after it when the game is drawn.
LEMMA VoteStep ==
    ASSUME Sound, NEW t \in Tokens, NEW role \in Powers, NEW v \in {"yes", "neutral"},
           VoteRequest(t, role, v)
    PROVE  SoundNext /\ (FollowInv => \A a : Stays(a) => FollowsNext(a))
<1> DEFINE voted == SetVote(game, role, v)
           box == VoteNotified(inbox, tokens, voted)
           g == SetVote(client[t].games[role], role, v)
<1>1. /\ Asks(t) /\ Playing /\ ~Finished
      /\ client' = Answered(t, role, LAMBDA x : SetVote(x, role, v))
      /\ IF HasDrawVote(voted)
         THEN /\ game' = Drawn(voted) /\ status' = "completed"
              /\ inbox' = ProcessedNotified(box, tokens, game', PhaseData(game', game.phase, TRUE))
         ELSE game' = voted /\ inbox' = box /\ UNCHANGED status
      /\ UNCHANGED <<tokens, omniscients, online>>
  BY DEF VoteRequest, AsksAs, Verified
<1>2. /\ game \in Game /\ tokens \in [Roles -> SUBSET Tokens] /\ online \subseteq Tokens
      /\ omniscients \subseteq Users /\ Clients(client) /\ Box(inbox) /\ StateInv /\ Seated
      /\ status \in {"forming", "active", "paused", "completed", "canceled", "deleted"}
  BY DEF Sound, TypeInv
<1>3. v \in Ballots /\ role \in Roles
  BY DEF Ballots, Roles
<1>4. client' = IF t \in Watched /\ role \in DOMAIN client[t].games
                THEN [client EXCEPT ![t].games[role] = g] ELSE client
  BY <1>1 DEF Answered
<1>5. /\ voted \in Game /\ voted.phase = game.phase /\ voted.past = game.past
      /\ \A p \in Powers : voted.power[p].controller = game.power[p].controller
      /\ \A p \in Powers : voted.power[p].board = game.power[p].board
  BY <1>2, <1>3, SetVoteIs
<1>6. Box(box) /\ Reached(inbox, box, {a \in ReceptionAddresses(tokens) : a[1] # "observer"}, VoteNotice(voted))
  <2> HIDE DEF voted
  <2> QED
    BY <1>2, <1>5, VoteSent
<1>7. voted = SetVote(game, role, v)
  OBVIOUS
<1>8. /\ Clients(client') /\ \A x \in Watched : client'[x].reading = client[x].reading
      /\ \A a \in Held(client') :
            /\ a \in Registered /\ At(client', a) \in Game /\ Copy(a) \in Game
            /\ At(client', a) = IF a[1] = role /\ a[2] = t THEN SetVote(Copy(a), role, v) ELSE Copy(a)
  <2>0. \A a \in Registered : Copy(a) \in Game
    BY <1>2, ClientParts DEF Registered, Copy, Clients
  <2>1. CASE t \in Watched /\ role \in DOMAIN client[t].games
    <3>1. client[t].games[role] \in Game
      BY <1>2, <2>1, ClientParts DEF Clients
    <3>2. g \in Game
      BY <1>3, <3>1, SetVoteIs
    <3>3. g = SetVote(client[t].games[role], role, v)
      OBVIOUS
    <3> HIDE DEF g, voted, box
    <3>4. Replaced(client', t, role, g)
      BY <1>2, <1>4, <2>1, <3>2, CopyChanges
    <3>5. ASSUME NEW a \in Held(client')
          PROVE  /\ a \in Registered /\ At(client', a) \in Game /\ Copy(a) \in Game
                 /\ At(client', a) = IF a[1] = role /\ a[2] = t THEN SetVote(Copy(a), role, v) ELSE Copy(a)
      <4>1. a \in Registered /\ At(client', a) = IF a[1] = role /\ a[2] = t THEN g ELSE Copy(a)
        BY <3>4 DEF Replaced
      <4>2. Copy(a) \in Game
        BY <2>0, <4>1
      <4>3. CASE a[1] = role /\ a[2] = t
        <5>1. g = SetVote(Copy(a), role, v)
          BY <3>3, <4>3 DEF Copy
        <5> QED
          BY <3>2, <4>1, <4>2, <4>3, <5>1
      <4>4. CASE ~(a[1] = role /\ a[2] = t)
        BY <4>1, <4>2, <4>4
      <4> QED
        BY <4>3, <4>4
    <3> QED
      BY <3>4, <3>5 DEF Replaced
  <2>2. CASE ~(t \in Watched /\ role \in DOMAIN client[t].games)
    <3>1. client' = client
      BY <1>4, <2>2
    <3>2. Keep(client)
      BY <1>2, SameClients
    <3>3. \A a \in Held(client) : ~(a[1] = role /\ a[2] = t)
      BY <2>2 DEF Held
    <3> HIDE DEF g, voted, box
    <3> QED
      BY <2>0, <3>1, <3>2, <3>3 DEF Keep
  <2> QED
    BY <2>1, <2>2
<1> HIDE DEF voted, box, g
<1>9. FollowInv => \A a : Stays(a) => /\ a \in Following
                                      /\ Follows(At(client', a), voted, status, box[a[2]], a[1])
  <2>1. ASSUME FollowInv, NEW a, Stays(a)
        PROVE  a \in Following /\ Follows(At(client', a), voted, status, box[a[2]], a[1])
    <3>1. a \in Held(client') /\ a \in Following
      BY <1>8, <2>1 DEF Stays
    <3> DEFINE d == At(client', a)
    <3>2. /\ d \in Game /\ Copy(a) \in Game
          /\ d = IF a[1] = role /\ a[2] = t THEN SetVote(Copy(a), role, v) ELSE Copy(a)
      BY <1>8, <3>1
    <3> HIDE DEF d
    <3>3. Follows(d, voted, status, box[a[2]], a[1])
      BY <1>1, <1>3, <1>6, <1>7, <2>1, <3>1, <3>2, VoteFollows
    <3> QED
      BY <3>1, <3>3 DEF d
  <2> QED
    BY <2>1
<1>10. asked' \in 0..MaxRequests
  BY <1>1, AskedBound
<1>11. game.phase \in 1..MaxPhase
  BY <1>1, InPlay
<1>12. \A x \in Watched : box[x] # inbox[x] => client[x].reading
  BY <1>6 DEF Reached
<1>13. CASE HasDrawVote(voted)
  <2> DEFINE d == PhaseData(game', game.phase, TRUE)
  <2>1. /\ game' \in Game /\ game'.phase = Completed /\ game'.past = voted.past \cup {voted.phase}
        /\ \A p \in Powers : /\ game'.power[p].controller = voted.power[p].controller
                             /\ game'.power[p].board = voted.power[p].board
                             /\ game'.power[p].orders = {} /\ game'.power[p].vote = "neutral"
    <3>1. voted.phase \in 1..MaxPhase /\ game' = Drawn(voted)
      BY <1>1, <1>5, <1>11, <1>13
    <3> QED
      BY <1>5, <3>1, DrawnIs
  <2>2. /\ d \in Phases /\ d.previous = game.phase /\ d.phase = game'.phase
        /\ \A p \in Powers : d.board[p] = game'.power[p].board
    <3>1. game' \in Game /\ TRUE \in BOOLEAN
      BY <2>1
    <3> QED
      BY <1>11, <3>1, PhaseDataIs, Zenon
  <2>3. inbox' = ProcessedNotified(box, tokens, game', d)
    BY <1>1, <1>13
  <2> HIDE DEF d
  <2>4. /\ game'.phase = d.phase /\ game'.past = voted.past \cup {d.previous}
        /\ \A p \in Powers : /\ game'.power[p].controller = voted.power[p].controller
                             /\ game'.power[p].board = d.board[p] /\ game'.power[p].orders = {}
                             /\ game'.power[p].vote = "neutral"
    BY <1>5, <2>1, <2>2
  <2>5. status' = "completed" /\ UNCHANGED <<tokens, omniscients, online>>
    BY <1>1, <1>13
  <2>6. status' \in {"forming", "active", "paused", "completed", "canceled"}
    BY <2>5
  <2>7. Clients(client') /\ \A x \in Watched : client'[x].reading = client[x].reading
    BY <1>8
  <2>8. \A p \in Powers : voted.power[p].controller = game.power[p].controller
    BY <1>5
  <2>9. Box(box)
    BY <1>6
  <2> QED
    BY <1>1, <1>5, <1>9, <1>10, <1>12, <2>1, <2>2, <2>3, <2>4, <2>5, <2>6, <2>7, <2>8, <2>9, PhaseStep
<1>14. CASE ~HasDrawVote(voted)
  <2>1. game' = voted /\ inbox' = box /\ status' = status /\ UNCHANGED <<tokens, omniscients, online>>
    BY <1>1, <1>14
  <2>2. GameOver'
    BY <1>5, <1>11, <2>1, Numbers DEF GameOver
  <2>3. Seated'
    BY <1>2, <1>5, <2>1 DEF Seated, Controller
  <2>4. StateInv'
    <3>1. \A x \in Watched : inbox'[x] # <<>> => client'[x].reading
      BY <1>2, <1>8, <1>12, <2>1 DEF StateInv
    <3> QED
      BY <1>2, <2>1, <3>1 DEF StateInv, Playing
  <2>5. SoundNext
    BY <1>2, <1>5, <1>6, <1>8, <1>10, <2>1, <2>2, <2>3, <2>4 DEF SoundNext
  <2>6. FollowInv => \A a : Stays(a) => FollowsNext(a)
    BY <1>9, <2>1 DEF FollowsNext
  <2> QED
    BY <2>5, <2>6
<1> QED
  BY <1>13, <1>14

----------------------------------------------------------------------------
(* A notification is delivered.                                             *)

\* Client d is c after it handled n: its copies are those of c that stay, as n leaves them.
Handles(c, n, d) ==
    /\ d \in Client
    /\ DOMAIN d.games \cap Special \subseteq {d.special}
    /\ DOMAIN d.games # {} => d.open /\ d.reading
    /\ \A q \in DOMAIN d.games :
          /\ q \in DOMAIN c.games /\ (For(n, q) => n.type \in Updates)
          /\ d.games[q] = IF For(n, q) THEN OnGameNotification(c.games[q], n) ELSE c.games[q]

\* handle_notification, whatever the notification is.
LEMMA HandleNotificationIs ==
    ASSUME NEW c \in Client, NEW n \in Notification,
           DOMAIN c.games \cap Special \subseteq {c.special},
           DOMAIN c.games # {} => c.open /\ c.reading
    PROVE  Handles(c, n, HandleNotification(c, n))
<1> DEFINE d == HandleNotification(c, n)
           role == n.role
<1>1. CASE n.type = "AccountDeleted"
  <2>1. d = RemoveChannel(c)
    BY <1>1 DEF HandleNotification
  <2>2. d \in Client /\ DOMAIN d.games = {}
    BY <2>1, RemoveChannelIs
  <2> HIDE DEF d
  <2>3. Handles(c, n, d)
    BY <2>2 DEF Handles
  <2> QED
    BY <2>3 DEF d
<1>2. CASE n.type # "AccountDeleted" /\ role \notin DOMAIN c.games
  <2>1. d = c
    BY <1>2 DEF HandleNotification
  <2>2. \A q \in DOMAIN c.games : ~For(n, q)
    BY <1>2 DEF For
  <2> HIDE DEF d
  <2>3. Handles(c, n, d)
    BY <2>1, <2>2 DEF Handles
  <2> QED
    BY <2>3 DEF d
<1>3. CASE n.type # "AccountDeleted" /\ role \in DOMAIN c.games
  <2> DEFINE g == c.games[role]
             h == OnGameNotification(g, n)
  <2>1. g \in Game
    BY <1>3, ClientParts
  <2>2. CASE Raises(g, n)
    <3>1. d = [DeleteInstances(c) EXCEPT !.reading = FALSE]
      BY <1>3, <2>2 DEF HandleNotification
    <3> DEFINE e == DeleteInstances(c)
    <3>2. e \in Client /\ DOMAIN e.games = {} /\ d = [e EXCEPT !.reading = FALSE] /\ FALSE \in BOOLEAN
      BY <3>1, DeleteInstancesIs
    <3> HIDE DEF e, d
    <3>3. d \in Client /\ d.games = e.games
      BY <3>2, ClientWith, Zenon
    <3>4. Handles(c, n, d)
      BY <3>2, <3>3 DEF Handles
    <3> QED
      BY <3>4 DEF d
  <2>3. CASE ~Raises(g, n) /\ Dismisses(g, n)
    <3>1. d = RemoveGame(c, role)
      BY <1>3, <2>3 DEF HandleNotification
    <3>2. /\ d \in Client /\ DOMAIN d.games = DOMAIN c.games \ {role}
          /\ \A q \in DOMAIN d.games : d.games[q] = c.games[q]
          /\ d.open = c.open /\ d.reading = c.reading /\ d.special = c.special
      BY <3>1, RemoveGameIs
    <3>3. \A q : q # role => ~For(n, q)
      BY DEF For
    <3> HIDE DEF d, role
    <3>4. Handles(c, n, d)
      BY <3>2, <3>3 DEF Handles
    <3> QED
      BY <3>4 DEF d
  <2>4. CASE ~Raises(g, n) /\ ~Dismisses(g, n)
    <3>1. n.type \in Updates
      BY <1>3, <2>4, NoticeParts DEF Raises, Dismisses, Updates
    <3>2. h \in Game
      BY <2>1, <3>1, HandledIs
    <3>3. d = [c EXCEPT !.games[role] = h]
      BY <1>3, <2>4 DEF HandleNotification
    <3>4. For(n, role) /\ \A q : q # role => ~For(n, q)
      BY <1>3 DEF For
    <3>5. h = OnGameNotification(c.games[role], n)
      OBVIOUS
    <3> HIDE DEF d, h, role
    <3>6. /\ d \in Client /\ DOMAIN d.games = DOMAIN c.games
          /\ \A q \in DOMAIN d.games : d.games[q] = IF q = role THEN h ELSE c.games[q]
          /\ d.open = c.open /\ d.reading = c.reading /\ d.special = c.special
      BY <1>3, <3>2, <3>3, ReplacedIs
    <3>7. ASSUME NEW q \in DOMAIN d.games
          PROVE  /\ q \in DOMAIN c.games /\ (For(n, q) => n.type \in Updates)
                 /\ d.games[q] = IF For(n, q) THEN OnGameNotification(c.games[q], n) ELSE c.games[q]
      <4>1. CASE q = role
        BY <3>1, <3>4, <3>5, <3>6, <4>1
      <4>2. CASE q # role
        BY <3>4, <3>6, <4>2
      <4> QED
        BY <4>1, <4>2
    <3>8. Handles(c, n, d)
      BY <3>6, <3>7 DEF Handles
    <3> QED
      BY <3>8 DEF d
  <2> QED
    BY <2>2, <2>3, <2>4
<1> QED
  BY <1>1, <1>2, <1>3

\* A notification is delivered: what it tells the copy came, the rest still comes.
LEMMA DeliverStep ==
    ASSUME Sound, NEW t \in Watched, Deliver(t)
    PROVE  SoundNext /\ (FollowInv => \A a : Stays(a) => FollowsNext(a))
<1> DEFINE c == client[t]
           n == Head(inbox[t])
           d == HandleNotification(c, n)
<1>1. /\ game \in Game /\ tokens \in [Roles -> SUBSET Tokens] /\ online \subseteq Tokens
      /\ omniscients \subseteq Users /\ Clients(client) /\ Box(inbox) /\ StateInv /\ Seated /\ GameOver
      /\ status \in {"forming", "active", "paused", "completed", "canceled", "deleted"}
      /\ asked \in 0..MaxRequests
  BY DEF Sound, TypeInv
<1>2. /\ inbox[t] # <<>> /\ client' = [client EXCEPT ![t] = d]
      /\ inbox' = [inbox EXCEPT ![t] = IF client'[t].reading THEN Tail(@) ELSE <<>>]
      /\ UNCHANGED <<game, status, tokens, omniscients, online, asked>>
  BY DEF Deliver, server
<1>3. /\ inbox[t] \in Seq(Notification) /\ \A i \in 1..Len(inbox[t]) : Own(inbox[t][i])
      /\ inbox \in [Watched -> Seq(Notification)]
  BY <1>1 DEF Box
<1>4. /\ n = inbox[t][1] /\ n \in Notification /\ Tail(inbox[t]) \in Seq(Notification)
      /\ Len(inbox[t]) \in Nat /\ Len(inbox[t]) >= 1
      /\ \A i \in 1..Len(Tail(inbox[t])) : Tail(inbox[t])[i] = inbox[t][i + 1] /\ i + 1 \in 1..Len(inbox[t])
  BY <1>2, <1>3, HeadTail
<1>5. Own(n)
  <2>1. 1 \in 1..Len(inbox[t])
    BY <1>4
  <2> QED
    BY <1>3, <1>4, <2>1
<1>6. /\ c \in Client /\ DOMAIN c.games \cap Special \subseteq {c.special}
      /\ DOMAIN c.games # {} => c.open /\ c.reading
  BY <1>1 DEF Clients
<1>7. Handles(c, n, d)
  <2> HIDE DEF n, c
  <2> QED
    BY <1>4, <1>6, HandleNotificationIs
<1> HIDE DEF d
<1>8. /\ d \in Client /\ DOMAIN d.games \cap Special \subseteq {d.special}
      /\ DOMAIN d.games # {} => d.open /\ d.reading
      /\ \A q \in DOMAIN d.games :
            /\ q \in DOMAIN c.games /\ (For(n, q) => n.type \in Updates)
            /\ d.games[q] = IF For(n, q) THEN OnGameNotification(c.games[q], n) ELSE c.games[q]
  BY <1>7 DEF Handles
<1> HIDE DEF n
<1>9. Changed(client', t, d)
  BY <1>1, <1>2, <1>8, ClientChanges
<1>10. /\ Clients(client') /\ \A x \in Watched : client'[x] = IF x = t THEN d ELSE client[x]
       /\ \A a \in Held(client') : /\ a[1] \in Roles /\ a[2] \in Watched
                                   /\ a[2] = t => a[1] \in DOMAIN d.games /\ At(client', a) = d.games[a[1]]
                                   /\ a[2] # t => a \in Registered /\ At(client', a) = Copy(a)
  BY <1>9 DEF Changed
<1>11. \A x \in Watched : inbox'[x] = IF x = t THEN IF d.reading THEN Tail(inbox[t]) ELSE <<>> ELSE inbox[x]
  BY <1>2, <1>3, <1>10
<1>12. Box(inbox')
  <2>1. ASSUME NEW x \in Watched
        PROVE  inbox'[x] \in Seq(Notification) /\ \A i \in 1..Len(inbox'[x]) : Own(inbox'[x][i])
    <3>1. CASE x # t
      <4>1. inbox'[x] = inbox[x]
        BY <1>11, <3>1
      <4> QED
        BY <1>1, <4>1 DEF Box
    <3>2. CASE x = t /\ d.reading
      <4>1. inbox'[x] = Tail(inbox[t])
        BY <1>11, <3>2
      <4> QED
        BY <1>3, <1>4, <4>1
    <3>3. CASE x = t /\ ~d.reading
      <4>1. inbox'[x] = <<>>
        BY <1>11, <3>3
      <4> QED
        BY <4>1
    <3> QED
      BY <3>1, <3>2, <3>3
  <2>2. inbox' = [x \in Watched |-> inbox'[x]]
    BY <1>2, <1>3
  <2>3. inbox' \in [Watched -> Seq(Notification)]
    BY <2>1, <2>2
  <2> QED
    BY <2>1, <2>3 DEF Box
<1>13. GameOver' /\ Seated'
  BY <1>1, <1>2 DEF GameOver, Seated, Controller, Playing, Finished
<1>14. StateInv'
  <2>1. ASSUME NEW x \in Watched, inbox'[x] # <<>> PROVE client'[x].reading
    <3>1. CASE x = t
      BY <1>10, <1>11, <2>1, <3>1
    <3>2. CASE x # t
      BY <1>1, <1>10, <1>11, <2>1, <3>2 DEF StateInv
    <3> QED
      BY <3>1, <3>2
  <2> QED
    BY <1>1, <1>2, <2>1 DEF StateInv, Playing
<1>15. SoundNext
  BY <1>1, <1>2, <1>10, <1>12, <1>13, <1>14 DEF SoundNext
<1>16. ASSUME FollowInv, NEW a, Stays(a) PROVE FollowsNext(a)
  <2>1. a \in Held(client') /\ a[1] \in Roles /\ a[2] \in Watched /\ (a \in Registered => a \in Following)
    BY <1>16 DEF Stays
  <2>2. CASE a[2] # t
    <3>1. a \in Following /\ At(client', a) = Copy(a)
      BY <1>10, <2>1, <2>2
    <3>2. inbox'[a[2]] = inbox[a[2]] /\ inbox[a[2]] \in Seq(Notification)
      BY <1>1, <1>11, <2>1, <2>2 DEF Box
    <3>3. NoneFor(inbox[a[2]], inbox'[a[2]], a[1])
      BY <3>2, GrownItself
    <3> QED
      BY <1>2, <1>12, <1>16, <3>1, <3>3, QuietCopy
  <2>3. CASE a[2] = t
    <3> DEFINE r == a[1]
               g == c.games[r]
    <3>1. r \in DOMAIN d.games /\ At(client', a) = d.games[r]
      BY <1>10, <2>1, <2>3
    <3>2. /\ r \in DOMAIN c.games /\ (For(n, r) => n.type \in Updates) /\ d.reading
          /\ d.games[r] = IF For(n, r) THEN OnGameNotification(g, n) ELSE g
      BY <1>8, <3>1
    <3>3. a \in Registered
      <4>1. a \in Roles \X Watched
        BY <2>1 DEF Held
      <4> QED
        BY <2>3, <3>2, <4>1 DEF Registered
    <3>4. Copy(a) = g
      BY <2>3 DEF Copy
    <3>5. Follows(g, game, status, inbox[t], r) /\ g \in Game
      BY <1>16, <2>1, <2>3, <3>3, <3>4, Follower
    <3>6. inbox'[t] = Tail(inbox[t])
      BY <1>11, <3>2
    <3>7. n = Head(inbox[t]) /\ r \in Roles
      BY <2>1 DEF n
    <3> HIDE DEF g, c, r
    <3>8. Follows(d.games[r], game, status, Tail(inbox[t]), r)
      <4>1. CASE For(n, r)
        <5>1. Follows(OnGameNotification(g, n), game, status, Tail(inbox[t]), r)
          BY <1>2, <1>3, <1>5, <3>2, <3>5, <3>7, <4>1, HandledFollows
        <5> QED
          BY <3>2, <4>1, <5>1
      <4>2. CASE ~For(n, r)
        <5>1. Follows(g, game, status, Tail(inbox[t]), r)
          BY <1>2, <1>3, <3>5, <3>7, <4>2, PassedFollows
        <5> QED
          BY <3>2, <4>2, <5>1
      <4> QED
        BY <4>1, <4>2
    <3>9. /\ At(client', a) = d.games[r] /\ inbox'[a[2]] = Tail(inbox[t]) /\ r = a[1]
          /\ game' = game /\ status' = status
      BY <1>2, <2>3, <3>1, <3>6 DEF r
    <3> QED
      BY <3>8, <3>9 DEF FollowsNext
  <2> QED
    BY <2>2, <2>3
<1> QED
  BY <1>15, <1>16

----------------------------------------------------------------------------
(* The start, and any step.                                                 *)

\* The start of a game is a game, and who has a token of a power controls it.
LEMMA StartIs ==
    ASSUME NEW seats \in Seatings
    PROVE  /\ seats \in [Roles -> SUBSET Tokens] /\ Start(seats) \in Game /\ Start(seats).phase = 1
           /\ \A p \in Powers : \A t \in seats[p] : Controller(Start(seats), p) = Owner[t]
<1> DEFINE who(p) == CHOOSE t \in seats[p] : TRUE
           cell(p) == [controller |-> [user |-> IF seats[p] = {} THEN Nobody ELSE Owner[who(p)],
                                       since |-> 0],
                       board |-> {"units", "centers"}, orders |-> {}, vote |-> "neutral"]
           g == Start(seats)
<1>1. seats \in [Roles -> SUBSET Tokens] /\ \A p \in Powers : \A t, x \in seats[p] : Owner[t] = Owner[x]
  BY ViewsAssumption
<1>2. ASSUME NEW p \in Powers, seats[p] # {} PROVE who(p) \in seats[p]
  BY <1>2
<1>3. g = [phase |-> 1, past |-> {}, power |-> [p \in Powers |-> cell(p)]]
  BY DEF Start
<1> HIDE DEF who, g
<1>4. ASSUME NEW p \in Powers PROVE cell(p) \in Power /\ \A t \in seats[p] : cell(p).controller.user = Owner[t]
  <2>1. p \in Roles
    BY DEF Roles
  <2>2. (IF seats[p] = {} THEN Nobody ELSE Owner[who(p)]) \in Users \cup {Nobody}
    <3>1. seats[p] # {} => who(p) \in Tokens
      BY <1>1, <1>2, <2>1
    <3> QED
      BY <3>1, Owned
  <2>3. cell(p).controller \in Controllership
    BY <2>2 DEF Controllership
  <2>4. cell(p) \in Power
    BY <2>3 DEF Power, Boards, OrderSets, Ballots
  <2>5. ASSUME NEW t \in seats[p] PROVE cell(p).controller.user = Owner[t]
    <3>1. who(p) \in seats[p]
      BY <1>2, <2>5
    <3>2. Owner[who(p)] = Owner[t]
      BY <1>1, <3>1
    <3> QED
      BY <2>5, <3>2
  <2> QED
    BY <2>4, <2>5
<1> HIDE DEF cell
<1>5. g \in Game
  BY <1>3, <1>4, Numbers DEF Game
<1>6. g.phase = 1 /\ \A p \in Powers : g.power[p] = cell(p)
  BY <1>3
<1>7. \A p \in Powers : \A t \in seats[p] : Controller(g, p) = Owner[t]
  BY <1>4, <1>6 DEF Controller
<1> QED
  BY <1>1, <1>5, <1>6, <1>7 DEF g

\* The first copies are cast from the game.
LEMMA InitIs == Init => Sound /\ FollowInv
<1> SUFFICES ASSUME Init PROVE Sound /\ FollowInv
  OBVIOUS
<1> DEFINE mine(t) == {r \in Roles : t \in tokens[r]}
           sp(t) == IF mine(t) \cap Special = {} THEN Nobody ELSE CHOOSE r \in mine(t) \cap Special : TRUE
           gs(t) == [r \in mine(t) |-> Cast(game, r)]
<1>1. /\ tokens \in Seatings /\ game = Start(tokens) /\ status = StartedIfPossible(game, "forming")
      /\ omniscients = {} /\ online = Tokens /\ asked = 0 /\ apart = {}
      /\ inbox = [t \in Watched |-> <<>>]
      /\ client = [t \in Watched |-> [open |-> TRUE, reading |-> TRUE, games |-> gs(t), special |-> sp(t)]]
  BY DEF Init
<1>2. /\ tokens \in [Roles -> SUBSET Tokens] /\ game \in Game /\ game.phase = 1
      /\ \A p \in Powers : \A t \in tokens[p] : Controller(game, p) = Owner[t]
  BY <1>1, StartIs
<1>3. status \in {"forming", "active"}
  BY <1>1, StatusMoves
<1>4. ASSUME NEW t \in Watched
      PROVE  /\ sp(t) \in Special \cup {Nobody} /\ mine(t) \cap Special \subseteq {sp(t)}
             /\ gs(t) \in Copies /\ DOMAIN gs(t) = mine(t)
             /\ \A r \in mine(t) : gs(t)[r] = Cast(game, r)
  <2>1. mine(t) \cap Special = {} \/ sp(t) \in mine(t) \cap Special
    OBVIOUS
  <2>2. \A q, r \in mine(t) \cap Special : q = r
    <3>1. tokens["observer"] \cap tokens["omniscient"] = {}
      BY <1>1, ViewsAssumption
    <3> QED
      BY <3>1 DEF Special
  <2>3. mine(t) \subseteq Roles /\ \A r \in mine(t) : Cast(game, r) \in Game
    BY <1>2, CastIs
  <2> HIDE DEF mine, sp
  <2>4. gs(t) \in [mine(t) -> Game]
    BY <2>3
  <2>5. gs(t) \in Copies
    BY <2>3, <2>4 DEF Copies
  <2>6. sp(t) \in Special \cup {Nobody} /\ mine(t) \cap Special \subseteq {sp(t)}
    BY <2>1, <2>2 DEF sp
  <2>7. DOMAIN gs(t) = mine(t)
    OBVIOUS
  <2>8. \A r \in mine(t) : gs(t)[r] = Cast(game, r)
    OBVIOUS
  <2> HIDE DEF gs
  <2> QED
    BY <2>5, <2>6, <2>7, <2>8
<1> HIDE DEF sp, gs, mine
<1>5. ASSUME NEW t \in Watched
      PROVE  /\ client[t] \in Client /\ client[t].games = gs(t) /\ client[t].special = sp(t)
             /\ client[t].open /\ client[t].reading
  <2>1. client[t] = [open |-> TRUE, reading |-> TRUE, games |-> gs(t), special |-> sp(t)]
    BY <1>1
  <2>2. gs(t) \in Copies /\ sp(t) \in Special \cup {Nobody}
    BY <1>4
  <2> QED
    BY <2>1, <2>2 DEF Client
<1>6. Clients(client)
  <2>1. client = [t \in Watched |-> client[t]]
    BY <1>1
  <2>2. client \in [Watched -> Client]
    BY <1>5, <2>1
  <2> QED
    BY <1>4, <1>5, <2>2 DEF Clients
<1>7. Box(inbox) /\ \A t \in Watched : inbox[t] = <<>> /\ <<>> \in Seq(Notification)
  BY <1>1 DEF Box
<1>8. TypeInv
  BY <1>1, <1>2, <1>3, <1>6, <1>7, ViewsAssumption DEF TypeInv
<1>9. GameOver /\ Seated
  BY <1>2, Numbers DEF GameOver, Seated
<1>10. StateInv
  BY <1>1, <1>2, <1>7 DEF StateInv
<1>11. ASSUME NEW a \in Following
       PROVE  a[2] \in tokens[a[1]] /\ Follows(Copy(a), game, status, inbox[a[2]], a[1])
  <2> DEFINE r == a[1]
             t == a[2]
  <2>1. r \in Roles /\ t \in Watched /\ r \in DOMAIN client[t].games
    BY DEF Following, Registered
  <2>2. r \in mine(t) /\ client[t].games[r] = Cast(game, r)
    BY <1>4, <1>5, <2>1
  <2>3. t \in tokens[r]
    BY <2>2 DEF mine
  <2>4. inbox[t] \in Seq(Notification) /\ \A i \in 1..Len(inbox[t]) : ~For(inbox[t][i], r)
    <3>1. inbox[t] = <<>> /\ <<>> \in Seq(Notification)
      BY <1>7, <2>1
    <3>2. \A i \in 1..0 : ~For(inbox[t][i], r)
      OBVIOUS
    <3> QED
      BY <3>1, <3>2
  <2>5. status # "deleted"
    BY <1>3
  <2> HIDE DEF r, t
  <2>6. Follows(Cast(game, r), game, status, inbox[t], r)
    BY <1>2, <2>1, <2>4, <2>5, NewFollows
  <2> QED
    BY <2>2, <2>3, <2>6 DEF r, t, Copy
<1>12. FollowInv
  BY <1>11 DEF FollowInv
<1> QED
  BY <1>8, <1>9, <1>10, <1>12 DEF Sound

\* Any step.
LEMMA StepIs ==
    ASSUME Sound, Step
    PROVE  /\ SoundNext
           /\ FollowInv /\ PlayersWatched => \A a : Stays(a) => FollowsNext(a)
<1> DEFINE Goal == /\ SoundNext
                   /\ FollowInv /\ PlayersWatched => \A a : Stays(a) => FollowsNext(a)
<1>1. ASSUME NEW t \in Tokens, NEW role \in Roles, PlayerRequest(t, role) PROVE Goal
  <2>1. CASE \E named \in Names : ClearOrdersRequest(t, role, named)
    BY <2>1, ClearOrdersStep
  <2>2. CASE \E named \in Names : ClearUnitsRequest(t, role, named)
    BY <2>2, ClearUnitsStep
  <2>3. CASE \E named \in Names : ClearCentersRequest(t, role, named)
    BY <2>3, ClearCentersStep
  <2>4. CASE \E named \in Names : \E os \in SUBSET Units : SetOrdersRequest(t, role, named, os)
    BY <2>4, SetOrdersStep
  <2>5. CASE role \in Powers /\ \E v \in {"yes", "neutral"} : VoteRequest(t, role, v)
    BY <2>5, VoteStep
  <2>6. CASE LeaveGame(t, role)
    BY <2>6, LeaveGameStep
  <2> QED
    BY <1>1, <2>1, <2>2, <2>3, <2>4, <2>5, <2>6 DEF PlayerRequest
<1>2. ASSUME NEW t \in Tokens, MasterRequest(t) PROVE Goal
  <2>1. CASE \E ps \in SUBSET Powers : SetDummyPowers(t, ps)
    BY <2>1, SetDummyPowersStep
  <2>2. CASE \E s \in Statuses : SetGameStatus(t, s)
    BY <2>2, SetGameStatusStep
  <2>3. CASE ProcessGame(t)
    BY <2>3, ProcessGameStep
  <2>4. CASE DeleteGame(t)
    BY <2>4, DeleteGameStep
  <2>5. CASE \E u \in Users : SetGrade(t, u)
    BY <2>5, SetGradeStep
  <2> QED
    BY <1>2, <2>1, <2>2, <2>3, <2>4, <2>5 DEF MasterRequest
<1>3. ASSUME NEW t \in Tokens, AccountRequest(t) PROVE Goal
  <2>1. CASE \E p \in Powers : JoinGameAsPlayer(t, p)
    BY <2>1, JoinGameAsPlayerStep
  <2>2. CASE JoinGameToWatch(t)
    BY <2>2, JoinGameToWatchStep
  <2>3. CASE \E ps \in SUBSET Powers : JoinPowers(t, ps)
    BY <2>3, JoinPowersStep
  <2>4. CASE DeleteAccount(t)
    BY <2>4, DeleteAccountStep
  <2>5. CASE Logout(t)
    BY <2>5, LogoutStep
  <2> QED
    BY <1>3, <2>1, <2>2, <2>3, <2>4, <2>5 DEF AccountRequest
<1>4. ASSUME NEW t \in Watched, Deliver(t) PROVE Goal
  BY <1>4, DeliverStep
<1>5. ASSUME NEW t \in Watched, NEW role \in Roles, Forget(t, role) PROVE Goal
  BY <1>5, ForgetStep
<1>6. ASSUME Process PROVE Goal
  BY <1>6, ProcessStep
<1> HIDE DEF Goal
<1>7. Goal
  BY <1>1, <1>2, <1>3, <1>4, <1>5, <1>6 DEF Step
<1> QED
  BY <1>7 DEF Goal

\* Sound is inductive.
LEMMA SoundStays == Sound /\ [Next]_vars => Sound'
<1> SUFFICES ASSUME Sound, [Next]_vars PROVE Sound'
  OBVIOUS
<1>1. CASE Next
  <2>1. SoundNext /\ apart' = NowApart
    BY <1>1, StepIs DEF Next
  <2>2. NowApart \subseteq Roles \X Watched
    BY DEF NowApart, Registered
  <2>3. TypeInv'
    BY <2>1, <2>2 DEF SoundNext, TypeInv, Box, Clients
  <2> QED
    BY <2>1, <2>3 DEF SoundNext, Sound
<1>2. CASE UNCHANGED vars
  BY <1>2 DEF Sound, TypeInv, GameOver, Seated, StateInv, Playing, Finished, Controller, Box,
              Clients, vars, server
<1> QED
  BY <1>1, <1>2

\* With Sound, so is FollowInv.
LEMMA FollowStays ==
    ASSUME PlayersWatched
    PROVE  Sound /\ FollowInv /\ [Next]_vars => FollowInv'
<1> SUFFICES ASSUME Sound, FollowInv, [Next]_vars PROVE FollowInv'
  OBVIOUS
<1>1. CASE Next
  <2>1. apart' = NowApart /\ \A a : Stays(a) => FollowsNext(a)
    BY <1>1, StepIs DEF Next
  <2>2. ASSUME NEW a \in Following'
        PROVE  a[2] \in tokens'[a[1]] /\ Follows(Copy(a)', game', status', inbox'[a[2]], a[1])
    <3>1. Stays(a) /\ At(client', a) = Copy(a)'
      BY <2>1, <2>2, WhoStays
    <3>2. FollowsNext(a)
      BY <2>1, <3>1
    <3> QED
      BY <3>1, <3>2 DEF FollowsNext, Stays
  <2> QED
    BY <2>2 DEF FollowInv
<1>2. CASE UNCHANGED vars
  <2>1. Following' = Following /\ \A a : Copy(a)' = Copy(a)
    BY <1>2 DEF Following, Registered, Copy, vars
  <2>2. UNCHANGED <<game, status, tokens, inbox>>
    BY <1>2 DEF vars, server
  <2> QED
    BY <2>1, <2>2 DEF FollowInv
<1> QED
  BY <1>1, <1>2

\* Sound gives the type invariant of the runs.
LEMMA SoundType == Sound => TypeOK
<1> SUFFICES ASSUME Sound PROVE TypeOK
  OBVIOUS
<1>1. TypeInv /\ StateInv
  BY DEF Sound
<1>2. game.phase \in 1..Completed /\ game.past \subseteq 1..MaxPhase
  BY <1>1, GameParts DEF TypeInv
<1>3. ASSUME NEW t \in Watched
      PROVE  /\ client[t].special \in Special \cup {Nobody}
             /\ DOMAIN client[t].games \cap Special \subseteq {client[t].special}
             /\ DOMAIN client[t].games # {} => client[t].open /\ client[t].reading
             /\ inbox[t] # <<>> => client[t].reading
  <2>1. client[t] \in Client
    BY <1>1 DEF TypeInv, Clients
  <2> QED
    BY <1>1, <2>1, ClientParts DEF TypeInv, StateInv, Clients
<1> QED
  BY <1>1, <1>2, <1>3 DEF TypeInv, StateInv, TypeOK

\* The state of the game, of its copies and of what is under way has its type; the server
\* notifies only tokens it knows while the game is there; and a client has one special copy
\* at most, the one that its set of instances has on record (GameInstancesSet.add).
THEOREM ViewsTypes == Spec => []TypeOK
<1>1. Init => Sound
  BY InitIs
<1>2. Sound /\ [Next]_vars => Sound'
  BY SoundStays
<1> QED
  BY <1>1, <1>2, SoundType, PTL DEF Spec

\* A copy that follows the game and has nothing under way has what the server has.
LEMMA FollowersAgree ==
    ASSUME Sound, FollowInv
    PROVE  CopiesAgree
<1>1. ASSUME NEW a \in UpToDate
      PROVE  LET role == a[1]
                 g == client[a[2]].games[role]
             IN /\ Playing
                /\ g.phase = game.phase /\ g.past = game.past
                /\ Controllers(g) = Controllers(game)
                /\ role \in Powers => g.power[role].vote = game.power[role].vote
                /\ role \in Special => \A p \in Powers : /\ g.power[p].board = game.power[p].board
                                                         /\ g.power[p].orders = game.power[p].orders
  <2> DEFINE r == a[1]
             g == client[a[2]].games[r]
  <2>1. a \in Following /\ inbox[a[2]] = <<>> /\ g = Copy(a)
    BY DEF UpToDate, Following, Copy
  <2>2. Follows(g, game, status, <<>>, r)
    BY <2>1 DEF FollowInv
  <2> HIDE DEF g, r
  <2>3. Playing
    <3>1. ~DeletionComes(<<>>, r)
      BY DEF DeletionComes
    <3> QED
      BY <2>2, <3>1 DEF Follows, Playing
  <2>4. View(g, r) = View(game, r)
    BY <2>2, AllCame DEF Follows
  <2>5. g.phase = game.phase /\ g.past = game.past /\ Controllers(g) = Controllers(game)
    BY <2>4 DEF View
  <2>6. r \in Powers => g.power[r].vote = game.power[r].vote
    BY <2>2, VoteIsThere DEF Follows
  <2>7. ASSUME r \in Special, NEW p \in Powers
        PROVE  g.power[p].board = game.power[p].board /\ g.power[p].orders = game.power[p].orders
    <3>1. /\ View(g, r).table = [q \in Watches(r) |-> [board |-> g.power[q].board,
                                                       orders |-> g.power[q].orders]]
          /\ View(game, r).table = [q \in Watches(r) |-> [board |-> game.power[q].board,
                                                          orders |-> game.power[q].orders]]
      BY ViewParts
    <3>2. p \in Watches(r)
      BY <2>7 DEF Watches
    <3>3. [board |-> g.power[p].board, orders |-> g.power[p].orders]
            = [board |-> game.power[p].board, orders |-> game.power[p].orders]
      BY <2>4, <3>1, <3>2
    <3> QED
      BY <3>3
  <2>8. /\ r \in Special => \A p \in Powers : /\ g.power[p].board = game.power[p].board
                                              /\ g.power[p].orders = game.power[p].orders
    BY <2>7
  <2> QED
    BY <2>3, <2>5, <2>6, <2>8 DEF g, r
<1> QED
  BY <1>1 DEF CopiesAgree

\* When the tokens whose clients are followed are those of players, a copy of which the
\* server has not lost sight, with nothing under way to it, agrees with the server's game:
\* on the phases, the controllers and its own vote, on the whole table when it watches, and
\* that the game is not deleted.
THEOREM CopiesFollowTheGame ==
    ASSUME PlayersWatched
    PROVE  Spec => []CopiesAgree
<1> DEFINE Inv == Sound /\ FollowInv
<1>1. Init => Inv
  BY InitIs
<1>2. Inv /\ [Next]_vars => Inv'
  BY SoundStays, FollowStays
<1>3. Inv => CopiesAgree
  BY FollowersAgree
<1> QED
  BY <1>1, <1>2, <1>3, PTL DEF Spec

----------------------------------------------------------------------------
(* The orders of others.                                                    *)

\* Copy h of role r has the orders of g, or fewer, but for its own.
Discreet(g, h, r) == \A p \in Powers : h.power[p].orders \subseteq g.power[p].orders \/ p = r

\* The players' copies are new ones, or discreet about those that were there.
DiscreetNext ==
    /\ game' \in Game
    /\ \A a \in Held(client') :
          a[1] \in Powers => IF a \in Registered THEN Discreet(Copy(a), At(client', a), a[1])
                             ELSE At(client', a) = Cast(game', a[1])

\* What OrdersStaySecret says of a step.
Secret ==
    \A a \in Registered' : \A p \in Powers :
        /\ a[1] \in Powers
        /\ client'[a[2]].games[a[1]].power[p].orders
              \ (IF a \in Registered THEN client[a[2]].games[a[1]].power[p].orders ELSE {}) # {}
        => p \in Related(game', a[1])

\* A power is related to itself.
LEMMA OwnRelated == ASSUME NEW g, NEW p \in Powers PROVE p \in Related(g, p)
  BY DEF Related, ControlledBy

\* Copies that are discreet, and new ones that are cast, keep the orders of others
\* secret.
LEMMA DiscreetSecret == ASSUME DiscreetNext PROVE Secret
<1>1. ASSUME NEW a \in Registered', NEW p \in Powers, a[1] \in Powers,
             client'[a[2]].games[a[1]].power[p].orders
                \ (IF a \in Registered THEN client[a[2]].games[a[1]].power[p].orders ELSE {}) # {}
      PROVE  p \in Related(game', a[1])
  <2>1. a \in Held(client')
    BY DEF Registered, Held
  <2>2. CASE a \in Registered
    <3>1. Discreet(Copy(a), At(client', a), a[1])
      BY <1>1, <2>1, <2>2 DEF DiscreetNext
    <3>2. p = a[1]
      BY <1>1, <2>2, <3>1 DEF Discreet, Copy, At
    <3> QED
      BY <3>2, OwnRelated
  <2>3. CASE a \notin Registered
    <3>1. At(client', a) = Cast(game', a[1]) /\ game' \in Game /\ a[1] \in Roles
      BY <1>1, <2>1, <2>3 DEF DiscreetNext, Roles
    <3>2. Cast(game', a[1]).power[p].orders # {}
      BY <1>1, <2>3, <3>1 DEF At
    <3>3. \A q \in Powers : q \notin Related(game', a[1]) => Cast(game', a[1]).power[q].orders = {}
      BY <1>1, <3>1, CastIs
    <3> QED
      BY <3>2, <3>3
  <2> QED
    BY <2>2, <2>3
<1> QED
  BY <1>1 DEF Secret

\* Copies that do not change.
LEMMA KeepDiscreet == ASSUME Keep(client'), game' \in Game PROVE DiscreetNext
  BY DEF Keep, DiscreetNext, Discreet

\* The copy that asked changes, to one that is discreet about it.
LEMMA AnswerDiscreet ==
    ASSUME Sound, NEW t, NEW r, NEW g, game' \in Game,
           t \in Watched /\ r \in DOMAIN client[t].games =>
              g \in Game /\ (r \in Powers => Discreet(client[t].games[r], g, r)),
           client' = IF t \in Watched /\ r \in DOMAIN client[t].games
                     THEN [client EXCEPT ![t].games[r] = g] ELSE client
    PROVE  DiscreetNext
<1>1. Clients(client)
  BY DEF Sound, TypeInv
<1>2. CASE t \in Watched /\ r \in DOMAIN client[t].games
  <2>1. Replaced(client', t, r, g)
    BY <1>1, <1>2, CopyChanges
  <2>2. ASSUME NEW a \in Held(client'), a[1] \in Powers
        PROVE  a \in Registered /\ Discreet(Copy(a), At(client', a), a[1])
    <3>1. a \in Registered /\ At(client', a) = IF a[1] = r /\ a[2] = t THEN g ELSE Copy(a)
      BY <2>1 DEF Replaced
    <3>2. CASE a[1] = r /\ a[2] = t
      <4>1. Copy(a) = client[t].games[r] /\ Discreet(client[t].games[r], g, r)
        BY <1>2, <2>2, <3>2 DEF Copy
      <4> QED
        BY <3>1, <3>2, <4>1
    <3>3. CASE ~(a[1] = r /\ a[2] = t)
      BY <3>1, <3>3 DEF Discreet
    <3> QED
      BY <3>1, <3>2, <3>3
  <2> QED
    BY <2>2 DEF DiscreetNext
<1>3. CASE ~(t \in Watched /\ r \in DOMAIN client[t].games)
  <2>1. client' = client /\ Keep(client)
    BY <1>1, <1>3, SameClients
  <2> QED
    BY <2>1, KeepDiscreet
<1> QED
  BY <1>2, <1>3

\* The requests of a copy.
LEMMA PlayerDiscreet ==
    ASSUME Sound, game' \in Game, NEW t \in Tokens, NEW role \in Roles, PlayerRequest(t, role)
    PROVE  DiscreetNext
<1> DEFINE Asked == t \in Watched /\ role \in DOMAIN client[t].games
           c == client[t].games[role]
<1>1. Clients(client) /\ (Asked => c \in Game)
  <2>1. Clients(client)
    BY DEF Sound, TypeInv
  <2> QED
    BY <2>1, ClientParts DEF Clients
<1>2. ASSUME NEW named \in Names, ClearOrdersRequest(t, role, named) PROVE DiscreetNext
  <2> DEFINE g == ClearOrders(c, ClearedByName(named))
  <2>1. client' = IF Asked THEN [client EXCEPT ![t].games[role] = g] ELSE client
    BY <1>2 DEF ClearOrdersRequest, Cleared, Answered
  <2>2. Asked => g \in Game /\ Discreet(c, g, role)
    BY <1>1, ClearOrdersIs DEF Discreet
  <2> HIDE DEF g
  <2> QED
    BY <2>1, <2>2, AnswerDiscreet
<1>3. ASSUME NEW named \in Names, ClearUnitsRequest(t, role, named) PROVE DiscreetNext
  <2> DEFINE g == ClearUnits(c, ClearedByName(named))
  <2>1. client' = IF Asked THEN [client EXCEPT ![t].games[role] = g] ELSE client
    BY <1>3 DEF ClearUnitsRequest, Cleared, Answered
  <2>2. Asked => g \in Game /\ Discreet(c, g, role)
    BY <1>1, ClearUnitsIs DEF Discreet
  <2> HIDE DEF g
  <2> QED
    BY <2>1, <2>2, AnswerDiscreet
<1>4. ASSUME NEW named \in Names, ClearCentersRequest(t, role, named) PROVE DiscreetNext
  <2> DEFINE g == ClearCenters(c, ClearedByName(named))
  <2>1. client' = IF Asked THEN [client EXCEPT ![t].games[role] = g] ELSE client
    BY <1>4 DEF ClearCentersRequest, Cleared, Answered
  <2>2. Asked => g \in Game /\ Discreet(c, g, role)
    BY <1>1, ClearCentersIs DEF Discreet
  <2> HIDE DEF g
  <2> QED
    BY <2>1, <2>2, AnswerDiscreet
<1>5. ASSUME NEW named \in Names, NEW os \in SUBSET Units, SetOrdersRequest(t, role, named, os)
      PROVE  DiscreetNext
  <2>1. PICK p \in Meant(role, named) :
           client' = Answered(t, role, LAMBDA g : SetOrders(g, IF role \in Powers THEN role ELSE p, os))
    BY <1>5 DEF SetOrdersRequest
  <2> DEFINE q == IF role \in Powers THEN role ELSE p
             g == SetOrders(c, q, os)
  <2>2. client' = IF Asked THEN [client EXCEPT ![t].games[role] = g] ELSE client
    BY <2>1 DEF Answered
  <2>3. os \in OrderSets /\ (role \in Powers => q = role)
    BY DEF OrderSets
  <2>4. ASSUME Asked PROVE g \in Game /\ (role \in Powers => Discreet(c, g, role))
    <3>1. /\ g \in Game
          /\ \A s \in Powers : g.power[s].orders = IF s = q /\ "units" \in c.power[s].board
                                                   THEN c.power[s].orders \cup os ELSE c.power[s].orders
      <4>1. c \in Game /\ os \in OrderSets
        BY <1>1, <2>3, <2>4
      <4>2. g = SetOrders(c, q, os)
        OBVIOUS
      <4> HIDE DEF q, c, g
      <4> QED
        BY <4>1, <4>2, SetOrdersIs
    <3> HIDE DEF g, q, c
    <3> QED
      BY <2>3, <3>1 DEF Discreet
  <2> HIDE DEF g
  <2> QED
    BY <2>2, <2>4, AnswerDiscreet
<1>6. ASSUME role \in Powers, NEW v \in {"yes", "neutral"}, VoteRequest(t, role, v) PROVE DiscreetNext
  <2> DEFINE g == SetVote(c, role, v)
  <2>1. client' = Answered(t, role, LAMBDA x : SetVote(x, role, v))
    BY <1>6 DEF VoteRequest
  <2>2. client' = IF Asked THEN [client EXCEPT ![t].games[role] = g] ELSE client
    BY <2>1 DEF Answered
  <2>3. v \in Ballots
    BY DEF Ballots
  <2>4. Asked => g \in Game /\ Discreet(c, g, role)
    BY <1>1, <2>3, SetVoteIs DEF Discreet
  <2> HIDE DEF g
  <2> QED
    BY <2>2, <2>4, AnswerDiscreet
<1>7. ASSUME LeaveGame(t, role) PROVE DiscreetNext
  <2>1. client' = Left(t)
    BY <1>7 DEF LeaveGame
  <2> QED
    BY <1>1, <2>1, LeftIs, KeepDiscreet
<1> QED
  BY <1>2, <1>3, <1>4, <1>5, <1>6, <1>7 DEF PlayerRequest

\* Steps after which no copy is changed.
LEMMA KeptDiscreet ==
    ASSUME Sound, game' \in Game, NEW t, client' \in {client, Left(t), Closed(t)}
    PROVE  DiscreetNext
<1>1. Clients(client)
  BY DEF Sound, TypeInv
<1>2. Keep(client')
  BY <1>1, SameClients, LeftIs, ClosedIs
<1> QED
  BY <1>2, KeepDiscreet

\* A copy that is asked for.
LEMMA GivenDiscreet ==
    ASSUME NEW t, NEW r, game' \in Game, Given(client', t, r, game')
    PROVE  DiscreetNext
  BY DEF Given, DiscreetNext, Discreet

\* The requests of masters and of accounts.
LEMMA MasterDiscreet ==
    ASSUME Sound, game' \in Game, NEW t \in Tokens, MasterRequest(t) \/ AccountRequest(t)
    PROVE  DiscreetNext
<1>1. \/ client' \in {client, Left(t), Closed(t)}
      \/ \E p \in Powers : JoinGameAsPlayer(t, p)
      \/ JoinGameToWatch(t)
  BY DEF MasterRequest, AccountRequest, SetDummyPowers, SetGameStatus, ProcessGame, DeleteGame,
         SetGrade, JoinPowers, DeleteAccount, Logout
<1>2. Clients(client) /\ game \in Game
  BY DEF Sound, TypeInv
<1>3. ASSUME NEW p \in Powers, JoinGameAsPlayer(t, p) PROVE DiscreetNext
  <2>1. client' = NewGame(t, p, game') /\ p \in Roles /\ (t \in Watched => client[t].open /\ client[t].reading)
    BY <1>3 DEF JoinGameAsPlayer, Asks, Roles
  <2> QED
    BY <1>2, <2>1, NewGameIs, GivenDiscreet
<1>4. ASSUME JoinGameToWatch(t) PROVE DiscreetNext
  <2>1. PICK role \in Special : client' = NewGame(t, role, game)
    BY <1>4 DEF JoinGameToWatch, Special
  <2>2. game' = game /\ (t \in Watched => client[t].open /\ client[t].reading) /\ role \in Roles
    BY <1>4 DEF JoinGameToWatch, Asks, Roles
  <2> QED
    BY <1>2, <2>1, <2>2, NewGameIs, GivenDiscreet
<1> QED
  BY <1>1, <1>3, <1>4, KeptDiscreet

\* A player's copy takes over orders from notifications about its own power.
LEMMA HandledDiscreet ==
    ASSUME NEW g \in Game, NEW n \in Notification, n.type \in Updates, Own(n), NEW r \in Powers, For(n, r)
    PROVE  Discreet(g, OnGameNotification(g, n), r)
<1> DEFINE h == OnGameNotification(g, n)
<1>0. n.role = r
  BY DEF For
<1>1. CASE n.type = "PowersControllers"
  <2>1. h = UpdatePowersControllers(g, n.powers) /\ n.powers \in [Powers -> Controllership]
    BY <1>1, NoticeParts DEF OnGameNotification
  <2> QED
    BY <2>1, UpdatePowersControllersIs DEF Discreet
<1>2. CASE n.type = "GameProcessed"
  <2>1. h = SetPhaseData(g, n.data) /\ n.data \in Phases
    BY <1>2, NoticeParts DEF OnGameNotification
  <2> QED
    BY <2>1, SetPhaseDataIs DEF Discreet
<1>3. CASE n.type = "PowerOrdersUpdate"
  <2> DEFINE k == ClearOrders(g, {r})
  <2>1. h = SetOrders(k, r, n.orders) /\ n.orders \in OrderSets
    BY <1>0, <1>3, NoticeParts DEF OnGameNotification, OnPowerOrdersUpdate, Own
  <2>2. k \in Game /\ \A p \in Powers : k.power[p].orders = IF p \in {r} THEN {} ELSE g.power[p].orders
    BY ClearOrdersIs
  <2> HIDE DEF k, h
  <2>3. \A p \in Powers : p # r => h.power[p].orders = k.power[p].orders
    <3>1. \A p \in Powers : h.power[p].orders = IF p = r /\ "units" \in k.power[p].board
                                                 THEN k.power[p].orders \cup n.orders
                                                 ELSE k.power[p].orders
      <4> DEFINE os == n.orders
      <4>1. k \in Game /\ os \in OrderSets /\ h = SetOrders(k, r, os)
        BY <2>1, <2>2
      <4> HIDE DEF os
      <4>2. \A p \in Powers : h.power[p].orders = IF p = r /\ "units" \in k.power[p].board
                                                   THEN k.power[p].orders \cup os
                                                   ELSE k.power[p].orders
        BY <4>1, SetOrdersIs, ZenonT(60)
      <4> QED
        BY <4>2 DEF os
    <3> QED
      BY <3>1
  <2>4. Discreet(g, h, r)
    BY <2>2, <2>3 DEF Discreet
  <2> QED
    BY <2>4 DEF h
<1>4. CASE n.type = "ClearedOrders"
  <2>1. h = ClearOrders(g, n.powers)
    BY <1>4 DEF OnGameNotification
  <2> QED
    BY <2>1, ClearOrdersIs DEF Discreet
<1>5. CASE n.type = "ClearedUnits"
  <2>1. h = ClearUnits(g, n.powers)
    BY <1>5 DEF OnGameNotification
  <2> QED
    BY <2>1, ClearUnitsIs DEF Discreet
<1>6. CASE n.type = "ClearedCenters"
  <2>1. h = ClearCenters(g, n.powers)
    BY <1>6 DEF OnGameNotification
  <2> QED
    BY <2>1, ClearCentersIs DEF Discreet
<1>7. CASE n.type = "VoteUpdated"
  <2>1. h = OnVoteUpdated(g, n.vote) /\ \A p \in DOMAIN n.vote : n.vote[p] \in Ballots
    BY <1>7, NoticeParts DEF OnGameNotification
  <2> QED
    BY <2>1, OnVoteUpdatedIs DEF Discreet
<1> QED
  BY <1>1, <1>2, <1>3, <1>4, <1>5, <1>6, <1>7 DEF Updates

\* A notification is delivered.
LEMMA DeliverDiscreet ==
    ASSUME Sound, game' \in Game, NEW t \in Watched, Deliver(t)
    PROVE  DiscreetNext
<1> DEFINE c == client[t]
           n == Head(inbox[t])
           d == HandleNotification(c, n)
<1>1. Clients(client) /\ Box(inbox) /\ inbox[t] # <<>> /\ client' = [client EXCEPT ![t] = d]
  BY DEF Sound, TypeInv, Deliver
<1>2. inbox[t] \in Seq(Notification) /\ \A i \in 1..Len(inbox[t]) : Own(inbox[t][i])
  BY <1>1 DEF Box
<1>3. n = inbox[t][1] /\ n \in Notification /\ Len(inbox[t]) \in Nat /\ Len(inbox[t]) >= 1
  BY <1>1, <1>2, HeadTail
<1>4. Own(n)
  <2>1. 1 \in 1..Len(inbox[t])
    BY <1>3
  <2> QED
    BY <1>2, <1>3, <2>1
<1>5. /\ c \in Client /\ DOMAIN c.games \cap Special \subseteq {c.special}
      /\ DOMAIN c.games # {} => c.open /\ c.reading
      /\ \A q \in DOMAIN c.games : c.games[q] \in Game
  <2>1. c \in Client
    BY <1>1 DEF Clients
  <2> QED
    BY <1>1, <2>1, ClientParts DEF Clients
<1>6. Handles(c, n, d)
  <2> HIDE DEF n, c
  <2> QED
    BY <1>3, <1>5, HandleNotificationIs
<1> HIDE DEF d, n
<1>7. /\ d \in Client /\ DOMAIN d.games \cap Special \subseteq {d.special}
      /\ DOMAIN d.games # {} => d.open /\ d.reading
      /\ \A q \in DOMAIN d.games :
            /\ q \in DOMAIN c.games /\ (For(n, q) => n.type \in Updates)
            /\ d.games[q] = IF For(n, q) THEN OnGameNotification(c.games[q], n) ELSE c.games[q]
  BY <1>6 DEF Handles
<1>8. Changed(client', t, d)
  BY <1>1, <1>7, ClientChanges
<1>9. ASSUME NEW a \in Held(client'), a[1] \in Powers
      PROVE  a \in Registered /\ Discreet(Copy(a), At(client', a), a[1])
  <2> DEFINE r == a[1]
             g == c.games[r]
  <2>1. CASE a[2] # t
    <3>1. a \in Registered /\ At(client', a) = Copy(a)
      BY <1>8, <2>1 DEF Changed
    <3> QED
      BY <3>1 DEF Discreet
  <2>2. CASE a[2] = t
    <3>1. r \in DOMAIN d.games /\ At(client', a) = d.games[r]
      BY <1>8, <2>2 DEF Changed
    <3>2. /\ r \in DOMAIN c.games /\ (For(n, r) => n.type \in Updates) /\ g \in Game
          /\ d.games[r] = IF For(n, r) THEN OnGameNotification(g, n) ELSE g
      BY <1>5, <1>7, <3>1
    <3>3. a \in Registered
      <4>1. a \in Roles \X Watched
        BY DEF Held
      <4> QED
        BY <2>2, <3>2, <4>1 DEF Registered
    <3>4. Copy(a) = g /\ r \in Powers
      BY <1>9, <2>2 DEF Copy
    <3> HIDE DEF g, r, c
    <3>5. Discreet(g, d.games[r], r)
      <4>1. CASE For(n, r)
        BY <1>3, <1>4, <3>2, <3>4, <4>1, HandledDiscreet
      <4>2. CASE ~For(n, r)
        BY <3>2, <4>2 DEF Discreet
      <4> QED
        BY <4>1, <4>2
    <3> QED
      BY <3>1, <3>3, <3>4, <3>5 DEF r
  <2> QED
    BY <2>1, <2>2
<1> QED
  BY <1>9 DEF DiscreetNext

\* No step gives a player's copy the orders of others.
LEMMA StepSecret == Sound /\ [Next]_vars => [Secret]_vars
<1> SUFFICES ASSUME Sound, Next PROVE Secret
  OBVIOUS
<1>1. Step
  BY DEF Next
<1>2. game' \in Game
  BY <1>1, StepIs DEF SoundNext
<1>3. CASE \E t \in Tokens : \/ \E role \in Roles : PlayerRequest(t, role)
                             \/ MasterRequest(t) \/ AccountRequest(t)
  BY <1>2, <1>3, PlayerDiscreet, MasterDiscreet, DiscreetSecret
<1>4. CASE \E t \in Watched : Deliver(t)
  BY <1>2, <1>4, DeliverDiscreet, DiscreetSecret
<1>5. ASSUME NEW t \in Watched, NEW role \in Roles, Forget(t, role) PROVE Secret
  <2>1. Keep(client')
    BY <1>5, RemovedIs DEF Forget, Sound, TypeInv
  <2> QED
    BY <1>2, <2>1, KeepDiscreet, DiscreetSecret
<1>6. CASE Process
  <2>1. client' = client
    BY <1>6 DEF Process
  <2> QED
    BY <1>2, <2>1, KeptDiscreet, DiscreetSecret
<1> QED
  BY <1>1, <1>3, <1>4, <1>5, <1>6 DEF Step

\* A player's copy takes over the orders of another power only when the user controls both:
\* the server filters a copy that is asked for (ServerGame.as_power_game) and tells a player
\* of its own orders only (Notifier.notify_power_orders_update).
THEOREM SecretsAreKept == Spec => OrdersStaySecret
<1>1. Init => Sound
  BY InitIs
<1>2. Sound /\ [Next]_vars => Sound'
  BY SoundStays
<1>3. Spec => [][Secret]_vars
  BY <1>1, <1>2, StepSecret, PTL DEF Spec
<1> QED
  BY <1>3 DEF OrdersStaySecret, Secret
============================================================================
