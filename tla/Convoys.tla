------------------------------ MODULE Convoys ------------------------------
(***************************************************************************)
(* The map of a movement phase and what the fleets on it can carry           *)
(* (engine/map.py, utils/convoy_paths.py, the CONVOYS and the order           *)
(* validation methods of engine/game.py): the paths of convoys, the orders    *)
(* that are valid, the orders a player is offered, and the disruptions of     *)
(* convoys.  A unit is known by its place, of which it also has its kind.     *)
(* Places have one coast, and no impassable place is on the map.              *)
(***************************************************************************)
EXTENDS Rules, SequencesExt

CONSTANTS
    Places,
    Adjacent,    \* the pairs of neighbours
    Water,       \* Map.area_type: these places are WATER,
    Coasts,      \* these COAST, and the others LAND
    Fleets       \* the units at these places are fleets, the others armies

ASSUME ConvoysAssumption ==
    /\ IsFiniteSet(Places)
    /\ Adjacent \subseteq Places \X Places
    /\ \A p, q \in Places :
          <<p, q>> \in Adjacent => p # q /\ <<q, p>> \in Adjacent
    /\ Water \cup Coasts \cup Fleets \subseteq Places
    /\ Water \cap Coasts = {} /\ Water \subseteq Fleets /\ Fleets \subseteq Water \cup Coasts

Neighbours(p) == {q \in Places : <<p, q>> \in Adjacent}

\* Map.abuts: where a fleet or an army at p may go, and give support.
ReachOf(isFleet, p) ==
    IF isFleet THEN Neighbours(p) \cap (Water \cup Coasts) ELSE Neighbours(p) \ Water
Reach(u) == ReachOf(u \in Fleets, u)

----------------------------------------------------------------------------
(* Paths.                                                                   *)

\* Fleets in F carry an army from a to b: whatever part of F is closed under
\* neighbourhood and has the neighbours of a has one of b.
Links(F, a, b) ==
    \A part \in SUBSET F :
        /\ F \cap Neighbours(a) \subseteq part
        /\ \A f \in part : F \cap Neighbours(f) \subseteq part
        => part \cap Neighbours(b) # {}

\* Map.convoy_paths: two coasts with waters that link them, and of which no part does.
Routes ==
    UNION {{<<c[1], c[2], F>> :
               F \in {G \in SUBSET Water :
                         /\ c[1] # c[2] /\ Links(G, c[1], c[2])
                         /\ \A part \in SUBSET G : Links(part, c[1], c[2]) => part = G}} :
           c \in Coasts \X Coasts}

\* convoy_paths_dest: those that are full of fleets.
Possible(a, b) == {r[3] : r \in {x \in Routes : x[1] = a /\ x[2] = b /\ x[3] \subseteq Units}}

\* _has_convoy_path, _get_convoy_destinations
HasConvoyPath(a, b) == Possible(a, b) # {}
ConvoyedBy(f, a, b) == \E F \in Possible(a, b) : f \in F
ConvoyDestinations(a) == {b \in Coasts : HasConvoyPath(a, b)}
ConvoyDestinationsWithout(f, a) == {b \in Coasts : \E F \in Possible(a, b) : f \notin F}

----------------------------------------------------------------------------
(* Orders.                                                                  *)

Hold(u) == [type |-> "H", of |-> u, to |-> u, via |-> FALSE]
Move(u, q) == [type |-> "-", of |-> u, to |-> q, via |-> FALSE]
MoveVia(u, q) == [type |-> "-", of |-> u, to |-> q, via |-> TRUE]
Support(u, q) == [type |-> "S", of |-> u, to |-> q, via |-> FALSE]
Convoy(a, b) == [type |-> "C", of |-> a, to |-> b, via |-> FALSE]

Armies == Units \ Fleets

\* _valid_order, by the type of order.  A support to hold is of a unit where it is.
ValidMoves(u) ==
    {Move(u, q) : q \in Reach(u)}
    \cup (IF u \in Armies
          THEN UNION {{Move(u, q), MoveVia(u, q)} : q \in ConvoyDestinations(u)} ELSE {})

ValidSupports(u) ==
    {Support(x[1], x[2]) :
        x \in {y \in (Units \ {u}) \X Reach(u) :
                   \/ y[1] = y[2] \/ y[2] \in Reach(y[1])
                   \/ y[1] \in Armies /\ HasConvoyPath(y[1], y[2])}}

ValidConvoys(u) ==
    {Convoy(x[1], x[2]) :
        x \in {y \in (Armies \cap Coasts) \X Coasts : u \in Water /\ ConvoyedBy(u, y[1], y[2])}}

ValidOrders(u) == {Hold(u)} \cup ValidMoves(u) \cup ValidSupports(u) \cup ValidConvoys(u)

\* Mutant: a fleet is offered every convoy to where it could carry another army.
OfferedConvoysAnywhere(u) ==
    {Convoy(a, b) : a \in {x \in Armies \cap Coasts : \E b \in Coasts : ConvoyedBy(u, x, b)},
                    b \in {x \in Coasts : \E a \in Coasts : ConvoyedBy(u, a, x)}}

\* The army is one that some path with this fleet leads to.
OfferedConvoys(u) ==
    UNION {{Convoy(a, b) : b \in {x \in ConvoyDestinations(a) : ConvoyedBy(u, a, x)}} :
               a \in {x \in Armies : \E b \in Coasts : ConvoyedBy(u, b, x)}}

\* get_all_possible_orders, of a movement phase.
PossibleOrders(u) ==
    {Hold(u)} \cup {Move(u, q) : q \in Reach(u)}
    \cup {Support(q, q) : q \in Reach(u) \cap Units}
    \cup {Support(x[1], x[2]) :
             x \in {y \in (Units \ {u}) \X Reach(u) :
                        \/ y[2] \in Reach(y[1])
                        \/ y[1] \in Armies /\ y[2] \in ConvoyDestinationsWithout(u, y[1])}}
    \cup (IF u \in Armies THEN {MoveVia(u, q) : q \in ConvoyDestinations(u)} ELSE {})
    \cup (IF u \in Water THEN OfferedConvoys(u) ELSE {})

----------------------------------------------------------------------------
(* The convoys that the orders allow.                                       *)

MovingArmies == {u \in Armies : command[u].type = "-"}

\* _get_convoying_units_for_path
Convoying(u) == {c \in Units : command[c] = Convoy(u, command[u].to)}

\* _get_convoy_paths.  Without VIA, an army that may go by land is convoyed only if
\* a fleet of its power means to.
ConvoyPaths(u) ==
    LET p == command[u].to
        intended == \/ command[u].via \/ p \notin Reach(u)
                    \/ \E c \in Convoying(u) : owner[c] = owner[u] /\ ConvoyedBy(c, u, p)
    IN IF intended THEN {F \in Possible(u, p) : F \subseteq Convoying(u)} ELSE {}

\* The paths of a set in the orders the code may try them: the shorter ones first.
Sorted(paths) ==
    {s \in SetToSeqs(paths) :
        \A i, j \in DOMAIN s : i < j => Cardinality(s[i]) <= Cardinality(s[j])}

----------------------------------------------------------------------------
(* Disruptions.                                                             *)

\* The units that _detect_paradox visits: from a place along supports and convoys.
Chain(p) ==
    LET ends(S) == {command[q].to : q \in {r \in S : command[r].type \in {"S", "C"}}}
        visited[n \in 0..Cardinality(Units)] ==
            IF n = 0 THEN Units \cap {p}
            ELSE LET seen == visited[n - 1] IN seen \cup (Units \cap ends(seen))
    IN visited[Cardinality(Units)]

\* The chain supports the fleet c; it supports an attack on c.
SupportsConvoy(u, c) == \E s \in Chain(command[u].to) : command[s] = Support(c, c)
SupportsAttack(u, c) ==
    \E s \in Chain(command[u].to) :
        command[s].type = "S" /\ command[s].to = c /\ command[s].of # c

\* The unit where u goes attacks c, or supports something there.
Attacks(u, c) ==
    LET p == command[u].to IN
    p \in Units /\ command[p].type \in {"-", "S"} /\ command[p].to = c /\ ~command[p].via

\* _check_disruptions: the fleet c, part of the convoy of u, is dislodged by the
\* strongest at its place, or may be.
IsDisrupted(u, c, strongest) ==
    /\ \E v \in strongest : owner[v] # owner[c]
    /\ \/ SupportsConvoy(u, c)
       \/ c \notin strongest /\ (Cardinality(strongest) >= 2 => Attacks(u, c))

\* Mutant: the path is removed from a copy.
WithoutPlaceOfCopy(paths, c) == paths

\* `for path in paths: if place in path: paths.remove(path)`: the path after one that
\* is removed is passed over.
WithoutPlace(paths, c) ==
    LET removed[i \in 0..Len(paths)] == i > 0 /\ c \in paths[i] /\ ~removed[i - 1]
    IN [i \in 1..Cardinality({j \in DOMAIN paths : ~removed[j]}) |->
           paths[CHOOSE j \in DOMAIN paths :
                    ~removed[j] /\ Cardinality({k \in 1..j : ~removed[k]}) = i]]

\* The paths left after each visit to a fleet: one that is disrupted takes paths away.
PathsLeft(paths, fleets, disrupted) ==
    LET left[n \in 0..Len(fleets)] ==
            IF n = 0 THEN paths
            ELSE IF fleets[n] \in disrupted THEN WithoutPlace(left[n - 1], fleets[n])
            ELSE left[n - 1]
    IN left
=============================================================================
