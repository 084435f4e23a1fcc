------------------------- MODULE AdjudicationProofs -------------------------
(***************************************************************************)
(* The resolution of a movement phase, for any map, position, orders and    *)
(* powers: its types; that the orders offered are the valid ones; that the  *)
(* convoys are decided when units bounce; and that at the end no two units  *)
(* share a place and the dislodged may retreat to those that are free.      *)
(*                                                                          *)
(* The convoys: an army that step 4 marked is visited in step 5, and is     *)
(* without convoy or freed then.  The strengths: only an army without       *)
(* convoy has support taken away twice, and it is left none; so no other    *)
(* fights with less than its own strength.  The places: from step 9 on each *)
(* unit that still moves is alone the strongest where it goes.  Step 10     *)
(* only takes strengths out of the fights, never that of a unit that moves; *)
(* a unit that bounced moves after all only where it is alone the strongest *)
(* now; and every place that is not free by the rules keeps a fight.        *)
(***************************************************************************)
EXTENDS Adjudication, FiniteSetTheorems, WellFoundedInduction, SequenceTheorems, TLAPS

Steps == {"orders", "convoy", "count", "cut", "strengths", "maybe", "convoycut", "definite",
          "cancel", "again", "laststrengths", "swap", "outgun", "self", "dislodgecut",
          "dislodge", "unbounce", "done"}

\* Steps 6 to 10, and what follows: units bounce.  Step 10: units dislodge others.
Bouncing == next \in {"swap", "outgun", "self", "dislodgecut", "dislodge", "unbounce", "done"}
Dislodging == next \in {"dislodge", "unbounce", "done"}

\* Orders are given before the first step, to every unit, and none is to stay by moving.
\* Convoyed armies cut supports, and are visited, only in the steps of the convoys.
OrdersInv ==
    /\ next \in Steps
    /\ next = "orders" => /\ left # {} /\ DOMAIN command = Units \ left
                          /\ DOMAIN combat = {} /\ \A u \in Units : no_help[u] = {}
    /\ next # "orders" => DOMAIN command = Units
    /\ next \in {"orders", "convoy"} => cutters = {}
    /\ next \in {"cancel", "again"} => left \subseteq DOMAIN may_convoy
    /\ \A u \in DOMAIN command : command[u].type = "-" => command[u].to # u

\* Only supporters are among those who do not help to dislodge.
HelpInv == \A u \in Units : \A s \in no_help[u] : command[s].type = "S"

\* Only a unit that moves bounces, which keeps no other mark but that it is dislodged; and
\* the units marked as dislodged are those of Game.dislodged.
MarksInv ==
    \A u \in Units :
        /\ "bounce" \in result[u] =>
              Bouncing /\ command[u].type = "-" /\ result[u] \subseteq {"bounce", "dislodged"}
        /\ "dislodged" \in result[u] => Dislodging
        /\ "dislodged" \in result[u] <=> u \in DOMAIN dislodged

\* A unit fights for its place or for the one it goes to.
CombatInv == \A e \in DOMAIN combat : e[2] \in {e[1], command[e[1]].to}

\* From step 9 on a unit that moves is the only strongest where it goes.
AloneInv ==
    next = "dislodgecut" \/ Dislodging =>
        \A u \in Units : Moving(u) => Strongest(command[u].to) = {<<u, command[u].to>>}

\* The attacker of a dislodged unit moves to its place.
AttackersInv ==
    \A u \in DOMAIN dislodged : Moving(dislodged[u]) /\ command[dislodged[u]].to = u

\* In step 10, a unit that was visited and moves has dislodged who stayed where it goes.
VisitedInv ==
    Dislodging =>
        \A u \in Units \ left :
            Moving(u) /\ command[u].to \in Units /\ ~Moving(command[u].to)
                => command[u].to \in DOMAIN dislodged

\* What is unbounced is the place a unit left; at the end every unit was visited.
SiteInv ==
    /\ next = "unbounce" => Moving(site)
    /\ next = "done" => left = {}

\* The inductive invariant, next to TypeInv.
IInv == /\ OrdersInv /\ HelpInv /\ MarksInv /\ CombatInv /\ AloneInv
        /\ AttackersInv /\ VisitedInv /\ SiteInv

\* The types of the variables; TypeOK says more of the strengths.
TypeInv ==
    /\ owner \in Situations
    /\ IsDict(command, Units, [type : {"H", "-", "S", "C"}, of : Units, to : Places, via : BOOLEAN])
    /\ result \in [Units -> SUBSET {"void", "cut", "bounce", "dislodged",
                                    "no convoy", "maybe", "disrupted"}]
    /\ supports \in [Units -> Int]
    /\ no_help \in [Units -> SUBSET Units]
    /\ IsDict(combat, Units \X Places, Int)
    /\ DOMAIN convoy_paths = DOMAIN may_convoy /\ DOMAIN may_convoy \subseteq Units
    /\ cutters \subseteq DOMAIN may_convoy
    /\ \A u \in DOMAIN may_convoy : Range(may_convoy[u]) \subseteq Units \cap Water
    /\ IsDict(dislodged, Units, Units)
    /\ IsDict(retreats, Units, SUBSET Places)
    /\ left \subseteq Units /\ site \in Units

----------------------------------------------------------------------------
(* The map.                                                                 *)

Orders == [type : {"H", "-", "S", "C"}, of : Units, to : Places, via : BOOLEAN]

\* The units of a position.
LEMMA PositionFacts ==
    ASSUME owner \in Situations
    PROVE  /\ Units \subseteq Places /\ IsFiniteSet(Units) /\ Units # {}
           /\ \A u \in Units : owner[u] \in Powers
<1>1. IsDict(owner, Places, Powers) /\ DOMAIN owner # {}
  BY AdjudicationAssumption
<1>2. IsFiniteSet(Units)
  BY <1>1, ConvoysAssumption, FS_Subset DEF IsDict, Units
<1> QED
  BY <1>1, <1>2 DEF IsDict, Units

\* Nobody reaches its own place, by land, by sea or by convoy.
LEMMA ReachFacts ==
    /\ \A u : Reach(u) \subseteq Places \ {u}
    /\ \A u : ConvoyDestinations(u) \subseteq Places \ {u}
    /\ \A u, p, F : F \in Possible(u, p) =>
          u \in Coasts /\ p \in Coasts \ {u} /\ F \subseteq Water \cap Units
<1>1. \A u : Reach(u) \subseteq Places \ {u}
  BY ConvoysAssumption DEF Reach, ReachOf, Neighbours
<1>2. \A r \in Routes : /\ r = <<r[1], r[2], r[3]>> /\ r[1] \in Coasts /\ r[2] \in Coasts
                        /\ r[1] # r[2] /\ r[3] \subseteq Water
  BY DEF Routes
<1>3. ASSUME NEW u, NEW p, NEW F \in Possible(u, p)
      PROVE  u \in Coasts /\ p \in Coasts \ {u} /\ F \subseteq Water \cap Units
  BY <1>2 DEF Possible
<1>4. \A u : ConvoyDestinations(u) \subseteq Places \ {u}
  BY <1>3, ConvoysAssumption DEF ConvoyDestinations, HasConvoyPath
<1> QED
  BY <1>1, <1>3, <1>4

\* Orders are orders, and no unit moves to where it is.
LEMMA ValidOrdersFacts ==
    ASSUME owner \in Situations, NEW u \in Units, NEW o \in ValidOrders(u)
    PROVE  o \in Orders /\ (o.type = "-" => o.to # u)
<1> USE PositionFacts, ReachFacts
<1>1. CASE o = Hold(u)
  BY <1>1 DEF Hold, Orders
<1>2. CASE o \in ValidMoves(u)
  <2>1. PICK q \in Places \ {u} : o \in {Move(u, q), MoveVia(u, q)}
    BY <1>2 DEF ValidMoves
  <2>2. Move(u, q) \in Orders /\ Move(u, q).to # u
    BY DEF Move, Orders
  <2>3. MoveVia(u, q) \in Orders /\ MoveVia(u, q).to # u
    BY DEF MoveVia, Orders
  <2> QED
    BY <2>1, <2>2, <2>3
<1>3. CASE o \in ValidSupports(u)
  <2>1. PICK x \in Units \X Places : o = Support(x[1], x[2])
    BY <1>3 DEF ValidSupports
  <2> QED
    BY <2>1 DEF Support, Orders
<1>4. CASE o \in ValidConvoys(u)
  <2>1. PICK x \in Units \X Places : o = Convoy(x[1], x[2])
    BY <1>4, ConvoysAssumption DEF ValidConvoys, Armies
  <2> QED
    BY <2>1 DEF Convoy, Orders
<1> QED
  BY <1>1, <1>2, <1>3, <1>4 DEF ValidOrders

----------------------------------------------------------------------------
(* The offers.                                                              *)

\* Fleets that carry an army from a to b carry one from b to a: of the fleets that a
\* closed set leaves out none has a neighbour in it.
LEMMA LinksBack ==
    ASSUME NEW F \in SUBSET Places, NEW a \in Places, NEW b \in Places, Links(F, a, b)
    PROVE  Links(F, b, a)
<1> SUFFICES ASSUME NEW part \in SUBSET F,
                    F \cap Neighbours(b) \subseteq part,
                    \A f \in part : F \cap Neighbours(f) \subseteq part,
                    part \cap Neighbours(a) = {}
             PROVE  FALSE
  BY DEF Links
<1> DEFINE rest == F \ part
<1>1. \A p, q \in Places : p \in Neighbours(q) <=> q \in Neighbours(p)
  BY ConvoysAssumption DEF Neighbours
<1>2. F \cap Neighbours(a) \subseteq rest
  OBVIOUS
<1>3. \A f \in rest : F \cap Neighbours(f) \subseteq rest
  BY <1>1
<1>4. rest \cap Neighbours(b) # {}
  BY <1>2, <1>3 DEF Links
<1> QED
  BY <1>4

\* So each route leads back.
LEMMA RouteBack ==
    ASSUME NEW a, NEW b, NEW F \in Possible(a, b)
    PROVE  F \in Possible(b, a)
<1>1. <<a, b, F>> \in Routes /\ F \subseteq Units
  BY DEF Possible, Routes
<1>2. /\ a \in Coasts /\ b \in Coasts /\ a # b /\ F \in SUBSET Water /\ Links(F, a, b)
      /\ \A part \in SUBSET F : Links(part, a, b) => part = F
  BY <1>1 DEF Routes
<1>3. a \in Places /\ b \in Places /\ F \in SUBSET Places
  BY <1>2, ConvoysAssumption
<1>4. Links(F, b, a)
  BY <1>2, <1>3, LinksBack
<1>5. ASSUME NEW part \in SUBSET F, Links(part, b, a) PROVE part = F
  <2>1. Links(part, a, b)
    BY <1>3, <1>5, LinksBack
  <2> QED
    BY <1>2, <2>1
<1>6. F \in {G \in SUBSET Water :
               /\ b # a /\ Links(G, b, a)
               /\ \A part \in SUBSET G : Links(part, b, a) => part = G}
  BY <1>2, <1>4, <1>5
<1>7. <<b, a, F>> \in Routes
  <2> DEFINE c == <<b, a>>
  <2>1. c \in Coasts \X Coasts /\ c[1] = b /\ c[2] = a
    BY <1>2
  <2> QED
    BY <1>6, <2>1 DEF Routes
<1> QED
  BY <1>1, <1>7 DEF Possible

\* The convoys a fleet is offered are those that are valid.
LEMMA OfferedConvoysValid ==
    ASSUME NEW u \in Water
    PROVE  OfferedConvoys(u) = ValidConvoys(u)
<1>1. ASSUME NEW o \in OfferedConvoys(u) PROVE o \in ValidConvoys(u)
  <2>1. PICK a \in Armies, b \in Coasts : ConvoyedBy(u, a, b) /\ o = Convoy(a, b)
    BY <1>1 DEF OfferedConvoys, ConvoyDestinations
  <2>2. a \in Coasts /\ b \in Coasts
    BY <2>1, ReachFacts DEF ConvoyedBy
  <2>3. <<a, b>> \in (Armies \cap Coasts) \X Coasts /\ <<a, b>>[1] = a /\ <<a, b>>[2] = b
    BY <2>1, <2>2
  <2> QED
    BY <2>1, <2>3 DEF ValidConvoys
<1>2. ASSUME NEW o \in ValidConvoys(u) PROVE o \in OfferedConvoys(u)
  <2>1. PICK a \in Armies, b \in Coasts : ConvoyedBy(u, a, b) /\ o = Convoy(a, b)
    BY <1>2 DEF ValidConvoys
  <2>2. PICK F \in Possible(a, b) : u \in F
    BY <2>1 DEF ConvoyedBy
  <2>3. b \in ConvoyDestinations(a)
    BY <2>1, <2>2 DEF ConvoyDestinations, HasConvoyPath
  <2>4. ConvoyedBy(u, b, a)
    BY <2>2, RouteBack DEF ConvoyedBy
  <2> QED
    BY <2>1, <2>3, <2>4 DEF OfferedConvoys
<1> QED
  BY <1>1, <1>2

\* The supports a unit is offered are the valid ones but those of armies that only it
\* could carry.
LEMMA OfferedSupports ==
    ASSUME owner \in Situations, NEW u \in Units, NEW o
    PROVE  (o \in {Support(q, q) : q \in Reach(u) \cap Units}
            \/ o \in {Support(x[1], x[2]) :
                  x \in {y \in (Units \ {u}) \X Reach(u) :
                             \/ y[2] \in Reach(y[1])
                             \/ y[1] \in Armies /\ y[2] \in ConvoyDestinationsWithout(u, y[1])}})
           <=> (o \in ValidSupports(u) /\
                ~(/\ o.of # o.to /\ o.to \notin Reach(o.of)
                  /\ \A F \in Possible(o.of, o.to) : u \in F))
<1> DEFINE pairs == (Units \ {u}) \X Reach(u)
<1>1. \A v, q : Support(v, q).of = v /\ Support(v, q).to = q
  BY DEF Support
<1>2. \A v, q : v \in Units \ {u} /\ q \in Reach(u) =>
          <<v, q>> \in pairs /\ <<v, q>>[1] = v /\ <<v, q>>[2] = q
  OBVIOUS
<1>3. ASSUME NEW q \in Reach(u) \cap Units, o = Support(q, q)
      PROVE  o \in ValidSupports(u) /\ o.of = o.to
  <2>1. q \in Units \ {u}
    BY ReachFacts
  <2>2. \E x \in pairs : x[1] = x[2] /\ o = Support(x[1], x[2])
    BY <1>2, <1>3, <2>1
  <2>3. o \in ValidSupports(u)
    BY <2>2 DEF ValidSupports
  <2> QED
    BY <1>1, <1>3, <2>3
<1>4. ASSUME NEW x \in pairs, o = Support(x[1], x[2]),
             \/ x[2] \in Reach(x[1])
             \/ x[1] \in Armies /\ x[2] \in ConvoyDestinationsWithout(u, x[1])
      PROVE  /\ o \in ValidSupports(u)
             /\ o.to \in Reach(o.of) \/ \E F \in Possible(o.of, o.to) : u \notin F
  <2>1. x[2] \in Reach(x[1]) \/ (/\ x[1] \in Armies /\ HasConvoyPath(x[1], x[2])
                                 /\ \E F \in Possible(x[1], x[2]) : u \notin F)
    BY <1>4 DEF ConvoyDestinationsWithout, HasConvoyPath
  <2> QED
    BY <1>1, <1>4, <2>1 DEF ValidSupports
<1>5. ASSUME o \in ValidSupports(u)
      PROVE  \E x \in pairs :
                /\ o = Support(x[1], x[2]) /\ o.of = x[1] /\ o.to = x[2]
                /\ \/ x[1] = x[2] \/ x[2] \in Reach(x[1])
                   \/ x[1] \in Armies /\ HasConvoyPath(x[1], x[2])
  BY <1>1, <1>5 DEF ValidSupports
<1>6. ASSUME o \in ValidSupports(u), o.of = o.to
      PROVE  o \in {Support(q, q) : q \in Reach(u) \cap Units}
  BY <1>5, <1>6
<1>7. ASSUME o \in ValidSupports(u), o.of # o.to,
             o.to \in Reach(o.of) \/ \E F \in Possible(o.of, o.to) : u \notin F
      PROVE  \E x \in pairs :
                /\ o = Support(x[1], x[2])
                /\ \/ x[2] \in Reach(x[1])
                   \/ x[1] \in Armies /\ x[2] \in ConvoyDestinationsWithout(u, x[1])
  <2>1. PICK x \in pairs :
                /\ o = Support(x[1], x[2]) /\ o.of = x[1] /\ o.to = x[2]
                /\ \/ x[1] = x[2] \/ x[2] \in Reach(x[1])
                   \/ x[1] \in Armies /\ HasConvoyPath(x[1], x[2])
    BY <1>5, <1>7
  <2>2. CASE x[2] \in Reach(x[1])
    BY <2>1, <2>2
  <2>3. CASE x[2] \notin Reach(x[1])
    <3>1. PICK F \in Possible(x[1], x[2]) : u \notin F
      BY <1>7, <2>1, <2>3
    <3>2. x[2] \in ConvoyDestinationsWithout(u, x[1])
      BY <3>1, ReachFacts DEF ConvoyDestinationsWithout
    <3> QED
      BY <1>7, <2>1, <2>3, <3>2
  <2> QED
    BY <2>2, <2>3
<1> QED
  BY <1>3, <1>4, <1>6, <1>7

\* What a unit is offered, of the orders of each type.
LEMMA OfferedIsValid ==
    ASSUME owner \in Situations, NEW u \in Units
    PROVE  PossibleOrders(u) = ValidOrders(u)
              \ {o \in ValidOrders(u) :
                    \/ o.type = "-" /\ ~o.via /\ o.to \notin Reach(u)
                    \/ /\ o.type = "S" /\ o.of # o.to /\ o.to \notin Reach(o.of)
                       /\ \A F \in Possible(o.of, o.to) : u \in F}
<1> DEFINE far(o) == o.type = "-" /\ ~o.via /\ o.to \notin Reach(u)
           alone(o) == /\ o.type = "S" /\ o.of # o.to /\ o.to \notin Reach(o.of)
                       /\ \A F \in Possible(o.of, o.to) : u \in F
           moves == {Move(u, q) : q \in Reach(u)}
                        \cup IF u \in Armies THEN {MoveVia(u, q) : q \in ConvoyDestinations(u)}
                                             ELSE {}
           convoys == IF u \in Water THEN OfferedConvoys(u) ELSE {}
           supports1 == {Support(q, q) : q \in Reach(u) \cap Units}
           supports2 == {Support(x[1], x[2]) :
                           x \in {y \in (Units \ {u}) \X Reach(u) :
                             \/ y[2] \in Reach(y[1])
                             \/ y[1] \in Armies /\ y[2] \in ConvoyDestinationsWithout(u, y[1])}}
<1>1. PossibleOrders(u) = {Hold(u)} \cup moves \cup supports1 \cup supports2 \cup convoys
  BY DEF PossibleOrders
<1>2. Hold(u).type = "H"
  BY DEF Hold
<1>3. \A o : o \in moves <=> o \in ValidMoves(u) /\ ~far(o)
  <2>1. \A q : /\ Move(u, q).type = "-" /\ Move(u, q).to = q /\ Move(u, q).via = FALSE
              /\ MoveVia(u, q).type = "-" /\ MoveVia(u, q).to = q /\ MoveVia(u, q).via = TRUE
    BY DEF Move, MoveVia
  <2>2. \A o : o \in ValidMoves(u) <=>
             \/ \E q \in Reach(u) : o = Move(u, q)
             \/ u \in Armies /\ \E q \in ConvoyDestinations(u) : o \in {Move(u, q), MoveVia(u, q)}
    BY DEF ValidMoves
  <2>3. \A o : o \in moves <=>
             \/ \E q \in Reach(u) : o = Move(u, q)
             \/ u \in Armies /\ \E q \in ConvoyDestinations(u) : o = MoveVia(u, q)
    OBVIOUS
  <2> QED
    BY <2>1, <2>2, <2>3
<1>4. \A o \in ValidMoves(u) : o.type = "-"
  BY DEF ValidMoves, Move, MoveVia
<1>5. \A o : o \in supports1 \cup supports2 <=> o \in ValidSupports(u) /\ ~alone(o)
  <2>1. \A o \in ValidSupports(u) : o.type = "S"
    BY DEF ValidSupports, Support
  <2> QED
    BY <2>1, OfferedSupports
<1>6. \A o \in ValidSupports(u) : o.type = "S"
  BY DEF ValidSupports, Support
<1>7. convoys = ValidConvoys(u)
  BY OfferedConvoysValid DEF ValidConvoys
<1>8. \A o \in ValidConvoys(u) : o.type = "C"
  BY DEF ValidConvoys, Convoy
<1>9. \A o : o \in ValidOrders(u) <=>
           o = Hold(u) \/ o \in ValidMoves(u) \/ o \in ValidSupports(u) \/ o \in ValidConvoys(u)
  BY DEF ValidOrders
<1> HIDE DEF moves, convoys, supports1, supports2
<1>10. ASSUME NEW o
       PROVE  o \in PossibleOrders(u) <=> o \in ValidOrders(u) /\ ~far(o) /\ ~alone(o)
  <2> HIDE DEF far, alone
  <2>1. far(o) => o.type = "-"
    BY DEF far
  <2>2. alone(o) => o.type = "S"
    BY DEF alone
  <2> QED
    BY <1>1, <1>2, <1>3, <1>4, <1>5, <1>6, <1>7, <1>8, <1>9, <2>1, <2>2
<1> QED
  BY <1>10

----------------------------------------------------------------------------
(* Type correctness.                                                        *)

\* The marks a unit may have.
Results == SUBSET {"void", "cut", "bounce", "dislodged", "no convoy", "maybe", "disrupted"}

\* Marks are results.
LEMMA MarkType ==
    ASSUME TypeInv, NEW units, NEW mark \in {"void", "cut", "bounce", "dislodged", "no convoy",
                                           "maybe", "disrupted"}
    PROVE  Mark(units, mark) \in [Units -> Results]
  BY DEF Mark, TypeInv, Results

\* Some of the units are finitely many.
LEMMA UnitsFinite ==
    ASSUME owner \in Situations, NEW S \in SUBSET Units
    PROVE  IsFiniteSet(S) /\ Cardinality(S) \in Nat
  BY PositionFacts, FS_Subset, FS_CardinalityType

\* The cuts of any attackers.
LEMMA CutByType ==
    ASSUME TypeInv, NEW attackers, NEW freed, CutBy(attackers, freed)
    PROVE  /\ result' \in [Units -> Results]
           /\ supports' \in [Units -> Int]
           /\ no_help' \in [Units -> SUBSET Units]
<1> DEFINE cut == {s \in Units : \E u \in attackers : Cuts(u, s)}
<1>1. Mark(cut, "cut") \in [Units -> Results]
  BY MarkType
<1>2. \A u \in Units : Cardinality({s \in cut : command[s].of = u}) \in Nat
  BY UnitsFinite DEF TypeInv
<1> HIDE DEF cut
<1>3. /\ result' = [u \in Units |-> IF u \in freed THEN {} ELSE Mark(cut, "cut")[u]]
      /\ supports' = [u \in Units |->
            supports[u] - Cardinality({s \in cut : command[s].of = u})]
      /\ no_help' = [u \in Units |-> no_help[u] \ cut]
  BY DEF CutBy, cut
<1>4. result' \in [Units -> Results]
  BY <1>1, <1>3 DEF Results
<1>5. supports' \in [Units -> Int]
  <2> DEFINE lost(u) == Cardinality({s \in cut : command[s].of = u})
  <2>1. \A u \in Units : supports[u] \in Int /\ lost(u) \in Nat
    BY <1>2 DEF TypeInv
  <2>2. supports' = [u \in Units |-> supports[u] - lost(u)]
    BY <1>3
  <2> HIDE DEF lost
  <2> QED
    BY <2>1, <2>2
<1>6. no_help' \in [Units -> SUBSET Units]
  BY <1>3 DEF TypeInv
<1> QED
  BY <1>4, <1>5, <1>6

\* The strengths after some units bounced.
LEMMA BouncedType ==
    ASSUME TypeInv, NEW units \in SUBSET Units
    PROVE  IsDict(Bounced(units), Units \X Places, Int)
<1> DEFINE D == DOMAIN combat \cup {<<u, u>> : u \in units}
<1>1. D \subseteq Units \X Places
  <2>1. DOMAIN combat \subseteq Units \X Places
    BY DEF IsDict, TypeInv
  <2>2. units \subseteq Places
    BY PositionFacts DEF TypeInv
  <2> QED
    BY <2>1, <2>2
<1>2. \A e \in DOMAIN combat : combat[e] \in Int
  BY DEF IsDict, TypeInv
<1>3. Bounced(units) = [e \in D |-> IF e \in DOMAIN combat THEN combat[e] ELSE 1]
  BY DEF Bounced
<1> HIDE DEF D
<1> QED
  BY <1>1, <1>2, <1>3 DEF IsDict

\* The visits of _check_disruptions.
LEMMA CheckDisruptionsType ==
    ASSUME TypeInv, NEW mark \in {"maybe", "no convoy"}, NEW fleetMark \in {{}, {"disrupted"}},
           CheckDisruptions(mark, fleetMark)
    PROVE  /\ result' \in [Units -> Results]
           /\ DOMAIN convoy_paths' = DOMAIN may_convoy
  BY DEF CheckDisruptions, TypeInv, Results

\* Before the orders are given.
LEMMA TypeInit == Init => TypeInv
<1> SUFFICES ASSUME Init PROVE TypeInv
  OBVIOUS
<1>1. site \in Units
  BY PositionFacts DEF Init
<1> QED
  BY <1>1 DEF Init, TypeInv, IsDict, Empty, Range

\* An order of a unit, and where it goes.
LEMMA CommandFacts ==
    ASSUME TypeInv, OrdersInv, next # "orders"
    PROVE  /\ command \in [Units -> Orders]
           /\ \A u \in Units : command[u].to \in Places /\ command[u].of \in Units
  BY DEF TypeInv, OrdersInv, IsDict, Orders

\* An order is valid.
LEMMA TypeGiveOrder == TypeInv /\ OrdersInv /\ GiveOrder => TypeInv'
<1> SUFFICES ASSUME TypeInv, OrdersInv, GiveOrder PROVE TypeInv'
  OBVIOUS
<1>1. PICK u \in left : \E order \in ValidOrders(u) : command' = Put(command, u, order)
  BY DEF GiveOrder, OrdersInv
<1>2. PICK order \in ValidOrders(u) : command' = Put(command, u, order)
  BY <1>1
<1>3. u \in Units /\ order \in Orders
  BY ValidOrdersFacts DEF TypeInv
<1>4. owner' = owner /\ Units' = Units
  BY DEF GiveOrder, Units
<1>5. IsDict(command', Units', Orders)
  BY <1>2, <1>3, <1>4 DEF IsDict, Put, TypeInv, Orders
<1>6. left' \subseteq left
  BY DEF GiveOrder
<1> QED
  BY <1>4, <1>5, <1>6 DEF GiveOrder, TypeInv, Orders, strengths

\* Step 1: orders lose their VIA, and paths are of fleets.
LEMMA TypeMatchConvoys == TypeInv /\ OrdersInv /\ MatchConvoys => TypeInv'
<1> SUFFICES ASSUME TypeInv, OrdersInv, MatchConvoys PROVE TypeInv'
  OBVIOUS
<1> DEFINE carried == {u \in MovingArmies : ConvoyPaths(u) # {}}
           alone == MovingArmies \ carried
           void == {c \in Units : /\ command[c].type = "C"
                                  /\ LET u == command[c].of IN u \in carried => c \notin Carriers(u)}
           useless == {c \in void : c \in Convoying(command[c].of)
                                       /\ command[c].of \in MovingArmies}
           stuck == {a \in alone : command[a].to \notin Reach(a)} \cup useless
<1>1. owner' = owner /\ Units' = Units
  BY DEF MatchConvoys, Units
<1>2. command' \in [Units -> Orders]
  <2>1. command \in [Units -> Orders] /\ \A u \in Units : command[u].to \in Places
    BY CommandFacts DEF MatchConvoys
  <2>2. \A u \in Units : Move(u, command[u].to) \in Orders
    BY <2>1 DEF Move, Orders
  <2>3. command' = [u \in Units |-> IF u \in alone THEN Move(u, command[u].to) ELSE command[u]]
    BY DEF MatchConvoys
  <2> HIDE DEF alone
  <2> QED
    BY <2>1, <2>2, <2>3
<1>3. result' \in [Units -> Results]
  <2>1. result' = [u \in Units |->
                 Mark(stuck, "no convoy")[u] \cup IF u \in void THEN {"void"} ELSE {}]
    BY DEF MatchConvoys
  <2>2. Mark(stuck, "no convoy") \in [Units -> Results]
    BY MarkType
  <2> HIDE DEF stuck, void
  <2> QED
    BY <2>1, <2>2 DEF Results
<1>4. DOMAIN convoy_paths' = carried /\ DOMAIN may_convoy' = carried
  BY DEF MatchConvoys
<1>5. ASSUME NEW u \in carried PROVE Range(may_convoy'[u]) \subseteq Units \cap Water
  <2>1. may_convoy'[u] \in SetToSeqs(Carriers(u))
    BY <1>5 DEF MatchConvoys
  <2>2. Range(may_convoy'[u]) \subseteq Carriers(u)
    BY <2>1 DEF SetToSeqs, Range
  <2>3. Carriers(u) \subseteq Units \cap Water
    BY ReachFacts DEF Carriers, ConvoyPaths
  <2> QED
    BY <2>2, <2>3
<1>6. cutters' \subseteq carried
  <2>1. cutters = {}
    BY DEF MatchConvoys, OrdersInv
  <2> QED
    BY <2>1 DEF MatchConvoys
<1>7. carried \subseteq Units
  BY DEF MovingArmies, Armies
<1> HIDE DEF carried
<1> QED
  BY <1>1, <1>2, <1>3, <1>4, <1>5, <1>6, <1>7
  DEF MatchConvoys, TypeInv, Orders, Results, strengths, IsDict

\* Step 2: supports are counted.
LEMMA TypeCountSupports == TypeInv /\ CountSupports => TypeInv'
<1> SUFFICES ASSUME TypeInv, CountSupports PROVE TypeInv'
  OBVIOUS
<1> DEFINE void == {s \in Units :
                /\ command[s].type = "S"
                /\ \/ ~Supports(s, command[s].of)
                   \/ command[s].of \in MovingArmies /\ "no convoy" \in result[command[s].of]}
           helpers(u) == {s \in Units \ void : Supports(s, u)}
           given(u) == Cardinality(helpers(u))
<1>1. owner' = owner /\ Units' = Units
  BY DEF CountSupports, orders, Units
<1>2. supports' = [u \in Units |-> given(u)] /\ result' = Mark(void, "void")
  BY DEF CountSupports
<1>3. \A u \in Units : given(u) \in Nat
  BY UnitsFinite DEF TypeInv
<1>4. no_help' \in [Units -> SUBSET Units]
  BY DEF CountSupports
<1>5. Mark(void, "void") \in [Units -> Results]
  BY MarkType
<1> HIDE DEF void, given
<1>6. supports' \in [Units -> Int]
  BY <1>2, <1>3
<1> QED
  BY <1>1, <1>2, <1>4, <1>5, <1>6 DEF CountSupports, TypeInv, Results, orders

\* Steps 3 and 4: supports are cut.
LEMMA TypeCuts == TypeInv /\ (CutSupports \/ CutByConvoyed) => TypeInv'
<1> SUFFICES ASSUME TypeInv, CutSupports \/ CutByConvoyed PROVE TypeInv'
  OBVIOUS
<1>1. owner' = owner /\ Units' = Units
  BY DEF CutSupports, CutByConvoyed, orders, Units
<1>2. /\ result' \in [Units -> Results]
      /\ supports' \in [Units -> Int]
      /\ no_help' \in [Units -> SUBSET Units]
  BY CutByType DEF CutSupports, CutByConvoyed
<1>3. CASE CutSupports
  BY <1>1, <1>2, <1>3 DEF CutSupports, TypeInv, Results, orders
<1>4. CASE CutByConvoyed
  BY <1>1, <1>2, <1>4 DEF CutByConvoyed, TypeInv, Results
<1> QED
  BY <1>3, <1>4

\* The strengths, found again after supports were cut by convoyed armies.
LEMMA TypeStrengths == TypeInv /\ OrdersInv /\ Strengths => TypeInv'
<1> SUFFICES ASSUME TypeInv, OrdersInv, Strengths PROVE TypeInv'
  OBVIOUS
<1> DEFINE D == {<<u, command[u].to>> : u \in {v \in Units : Moving(v)}}
                    \cup {<<u, u>> : u \in {v \in Units : ~Moving(v)}}
<1>1. owner' = owner /\ Units' = Units
  BY DEF Strengths, orders, Units
<1>2. \A u \in Units : command[u].to \in Places /\ u \in Places
  BY CommandFacts, PositionFacts DEF Strengths, TypeInv
<1>3. D \subseteq Units \X Places /\ \A e \in D : e[1] \in Units
  BY <1>2
<1>4. combat' = [e \in D |-> 1 + supports[e[1]]]
  BY DEF Strengths
<1> HIDE DEF D
<1>5. \A e \in D : 1 + supports[e[1]] \in Int
  <2>1. \A u \in Units : supports[u] \in Int
    BY DEF TypeInv
  <2> QED
    BY <1>3, <2>1
<1>6. IsDict(combat', Units \X Places, Int)
  BY <1>3, <1>4, <1>5 DEF IsDict
<1> QED
  BY <1>1, <1>6 DEF Strengths, TypeInv, orders

\* Steps 4 and 5: convoys may be disrupted, and are.
LEMMA TypeDisrupt == TypeInv /\ (DisruptMaybe \/ DisruptDefinite) => TypeInv'
<1> SUFFICES ASSUME TypeInv, DisruptMaybe \/ DisruptDefinite PROVE TypeInv'
  OBVIOUS
<1>1. owner' = owner /\ Units' = Units
  BY DEF DisruptMaybe, DisruptDefinite, Units
<1>2. result' \in [Units -> Results] /\ DOMAIN convoy_paths' = DOMAIN may_convoy
  BY CheckDisruptionsType DEF DisruptMaybe, DisruptDefinite
<1>3. CASE DisruptMaybe
  BY <1>1, <1>2, <1>3 DEF DisruptMaybe, TypeInv, Results, strengths
<1>4. CASE DisruptDefinite
  <2>1. DOMAIN may_convoy \subseteq Units
    BY DEF TypeInv
  <2> QED
    BY <1>1, <1>2, <1>4, <2>1 DEF DisruptDefinite, TypeInv, Results, strengths
<1> QED
  BY <1>3, <1>4

\* Step 5: armies are stranded, or freed.
LEMMA TypeCancelConvoys == TypeInv /\ OrdersInv /\ CancelConvoys => TypeInv'
<1> SUFFICES ASSUME TypeInv, OrdersInv, CancelConvoys PROVE TypeInv'
  OBVIOUS
<1>1. owner' = owner /\ Units' = Units
  BY DEF CancelConvoys, Units
<1>2. SUFFICES /\ result' \in [Units -> Results] /\ supports' \in [Units -> Int]
               /\ no_help' \in [Units -> SUBSET Units]
               /\ cutters' \subseteq DOMAIN may_convoy /\ left' \subseteq left
  BY <1>1 DEF CancelConvoys, TypeInv, Results
<1>3. CASE UNCHANGED <<result, supports, no_help, cutters>> /\ left' \subseteq left
  BY <1>3 DEF TypeInv, Results
<1>4. ASSUME NEW u \in left, left' = left \ {u}, Strand(u)
      PROVE  <1>2!1
  <2> DEFINE helpers == {s \in Units : /\ command[s].type \in {"S", "C"} /\ command[s].of = u
                                      /\ result[s] = {}}
  <2>1. result' \in [Units -> Results]
    BY <1>4, MarkType DEF Strand
  <2>2. supports' \in [Units -> Int]
    <3>1. supports' = [v \in Units |-> IF v = u THEN 0 ELSE supports[v]]
      BY <1>4 DEF Strand, TypeInv
    <3>2. \A v \in Units : supports[v] \in Int
      BY DEF TypeInv
    <3> QED
      BY <3>1, <3>2
  <2>3. no_help' \in [Units -> SUBSET Units]
    <3>1. no_help' = [no_help EXCEPT ![u] = {}] /\ no_help \in [Units -> SUBSET Units]
      BY <1>4 DEF Strand, TypeInv
    <3> QED
      BY <3>1
  <2> QED
    BY <1>4, <2>1, <2>2, <2>3 DEF Strand, TypeInv
<1>5. ASSUME NEW u \in left, left' = left \ {u}, Free(u)
      PROVE  <1>2!1
  <2>1. u \in DOMAIN may_convoy
    BY DEF CancelConvoys, OrdersInv
  <2> QED
    BY <1>5, <2>1, CutByType DEF Free, TypeInv
<1>6. CASE left = {} /\ UNCHANGED <<result, supports, no_help, cutters, left>>
  BY <1>3, <1>6
<1>7. CASE \E u \in left :
             /\ left' = left \ {u}
             /\ Strand(u) \/ Free(u) \/ UNCHANGED <<result, supports, no_help, cutters, next>>
  BY <1>3, <1>4, <1>5, <1>7
<1> QED
  BY <1>6, <1>7 DEF CancelConvoys

\* Step 6: units that would change places.
LEMMA TypeBounceSwappers == TypeInv /\ BounceSwappers => TypeInv'
<1> SUFFICES ASSUME TypeInv, BounceSwappers PROVE TypeInv'
  OBVIOUS
<1> DEFINE swappers == {u \in Units : \E v \in Units : HeadToHead(u, v)}
           losers == {u \in swappers : LosesSwap(u, command[u].to)}
           void == UNION {no_help[u] : u \in swappers}
<1>1. owner' = owner /\ Units' = Units
  BY DEF BounceSwappers, orders, Units
<1>2. /\ result' = [u \in Units |-> Mark(losers, "bounce")[u] \cup IF u \in void THEN {"void"} ELSE {}]
      /\ combat' = Bounced(losers)
  BY DEF BounceSwappers
<1>3. losers \subseteq Units
  OBVIOUS
<1> HIDE DEF losers, void
<1>4. result' \in [Units -> Results]
  BY <1>2, MarkType DEF Results
<1>5. IsDict(combat', Units \X Places, Int)
  BY <1>2, <1>3, BouncedType
<1> QED
  BY <1>1, <1>4, <1>5 DEF BounceSwappers, TypeInv, Results, orders

\* Step 7: units that are not alone the strongest.
LEMMA TypeBounceOutgunned == TypeInv /\ BounceOutgunned => TypeInv'
<1> SUFFICES ASSUME TypeInv, BounceOutgunned PROVE TypeInv'
  OBVIOUS
<1> DEFINE losers == {u \in Units : Outgunned(u)}
<1>1. owner' = owner /\ Units' = Units
  BY DEF BounceOutgunned, orders, Units
<1>2. result' = Mark(losers, "bounce") /\ combat' = Bounced(losers)
  BY DEF BounceOutgunned
<1>3. result' \in [Units -> Results]
  BY <1>2, MarkType
<1>4. IsDict(combat', Units \X Places, Int)
  BY <1>2, BouncedType
<1>5. left' \subseteq Units
  BY DEF BounceOutgunned, TypeInv
<1> QED
  BY <1>1, <1>3, <1>4, <1>5 DEF BounceOutgunned, TypeInv, Results, orders

\* Step 8: units that would dislodge one of their power.
LEMMA TypeBounceSelfDislodger == TypeInv /\ BounceSelfDislodger => TypeInv'
<1> SUFFICES ASSUME TypeInv, BounceSelfDislodger PROVE TypeInv'
  OBVIOUS
<1>1. owner' = owner /\ Units' = Units
  BY DEF BounceSelfDislodger, orders, Units
<1>2. SUFFICES /\ result' \in [Units -> Results] /\ IsDict(combat', Units \X Places, Int)
               /\ left' \subseteq left
  BY <1>1 DEF BounceSelfDislodger, TypeInv, Results, orders
<1>3. CASE UNCHANGED <<result, combat>> /\ left' \subseteq left
  BY <1>3 DEF TypeInv, Results
<1>4. ASSUME NEW u \in left, left' = left \ {u}, combat' = Bounced({u}),
             result' = [v \in Units |->
                            Mark({u}, "bounce")[v] \cup IF v \in no_help[u] THEN {"void"} ELSE {}]
      PROVE  <1>2!1
  <2>1. {u} \subseteq Units
    BY DEF TypeInv
  <2>2. Mark({u}, "bounce") \in [Units -> Results]
    BY MarkType
  <2>3. result' \in [Units -> Results]
    BY <1>4, <2>2 DEF Results
  <2> QED
    BY <1>4, <2>1, <2>3, BouncedType
<1> QED
  BY <1>3, <1>4 DEF BounceSelfDislodger

\* Step 9: supports are cut by units that dislodge.
LEMMA TypeCutByDislodging == TypeInv /\ CutByDislodging => TypeInv'
<1> SUFFICES ASSUME TypeInv, CutByDislodging PROVE TypeInv'
  OBVIOUS
<1> DEFINE victims == {s \in Units : /\ command[s].type = "S" /\ result[s] = {}
                                    /\ \E u \in Units :
                                          /\ Moving(u) /\ command[u].to = s
                                          /\ command[u].via => command[s].to = u}
           lost(e) == {s \in victims : <<command[s].of, command[s].to>> = e}
           number(e) == Cardinality(lost(e))
<1>1. owner' = owner /\ Units' = Units
  BY DEF CutByDislodging, orders, Units
<1>2. /\ result' = Mark(victims, "cut")
      /\ combat' = [e \in DOMAIN combat |-> combat[e] - number(e)]
      /\ no_help' = [u \in Units |-> no_help[u] \ victims]
  BY DEF CutByDislodging
<1>3. \A e : number(e) \in Nat
  BY UnitsFinite DEF TypeInv
<1>4. left' \subseteq Units
  BY DEF CutByDislodging, TypeInv, MayMove
<1> HIDE DEF victims, number
<1>5. result' \in [Units -> Results]
  BY <1>2, MarkType
<1>6. IsDict(combat', Units \X Places, Int)
  <2>1. \A e \in DOMAIN combat : combat[e] \in Int
    BY DEF TypeInv, IsDict
  <2>2. DOMAIN combat \subseteq Units \X Places
    BY DEF TypeInv, IsDict
  <2> QED
    BY <1>2, <1>3, <2>1, <2>2 DEF IsDict
<1>7. no_help' \in [Units -> SUBSET Units]
  BY <1>2 DEF TypeInv
<1> QED
  BY <1>1, <1>4, <1>5, <1>6, <1>7 DEF CutByDislodging, TypeInv, Results, orders

\* A dictionary without a key.
LEMMA DropType ==
    ASSUME NEW K, NEW V, NEW d, IsDict(d, K, V), NEW k
    PROVE  IsDict(Drop(d, k), K, V)
  BY DEF IsDict, Drop

\* A dictionary with one more.
LEMMA PutType ==
    ASSUME NEW K, NEW V, NEW d, IsDict(d, K, V), NEW k \in K, NEW w \in V
    PROVE  IsDict(Put(d, k, w), K, V)
  BY DEF IsDict, Put

\* Step 10: a unit that moves is visited.
LEMMA TypeDislodge == TypeInv /\ Dislodge => TypeInv'
<1> SUFFICES ASSUME TypeInv, Dislodge PROVE TypeInv'
  OBVIOUS
<1>1. PICK u \in left :
        /\ left' = left \ {u}
        /\ UNCHANGED <<orders, supports, no_help, retreats>>
        /\ \/ UNCHANGED <<result, combat, dislodged, site>>
           \/ /\ command[u].to \in Units
              /\ result' = [v \in Units |->
                     (Mark({command[u].to}, "dislodged")[v]
                          \ IF v = command[u].to THEN {"disrupted"} ELSE {})
                         \cup IF v \in no_help[u] THEN {"void"} ELSE {}]
              /\ dislodged' = Put(dislodged, command[u].to, u)
              /\ combat' = WithoutLoser(u, command[u].to)
              /\ Vacate(u, combat')
           \/ UNCHANGED <<result, combat, dislodged>> /\ Vacate(u, combat)
  BY DEF Dislodge
<1>2. owner' = owner /\ Units' = Units /\ u \in Units
  BY <1>1 DEF orders, Units, TypeInv
<1>3. site' \in Units
  BY <1>1, <1>2 DEF Vacate, TypeInv
<1>4. SUFFICES /\ result' \in [Units -> Results] /\ IsDict(combat', Units \X Places, Int)
               /\ IsDict(dislodged', Units, Units)
  BY <1>1, <1>2, <1>3 DEF TypeInv, Results, orders
<1>5. CASE UNCHANGED <<result, combat, dislodged>>
  BY <1>5 DEF TypeInv, Results
<1>6. CASE /\ command[u].to \in Units
           /\ result' = [v \in Units |->
                     (Mark({command[u].to}, "dislodged")[v]
                          \ IF v = command[u].to THEN {"disrupted"} ELSE {})
                         \cup IF v \in no_help[u] THEN {"void"} ELSE {}]
           /\ dislodged' = Put(dislodged, command[u].to, u)
           /\ combat' = WithoutLoser(u, command[u].to)
  <2>1. Mark({command[u].to}, "dislodged") \in [Units -> Results]
    BY MarkType
  <2>2. result' \in [Units -> Results]
    BY <1>6, <2>1 DEF Results
  <2>3. IsDict(dislodged', Units, Units)
    BY <1>2, <1>6, PutType DEF TypeInv
  <2>4. IsDict(combat', Units \X Places, Int)
    BY <1>6, DropType DEF WithoutLoser, TypeInv
  <2> QED
    BY <2>2, <2>3, <2>4
<1> QED
  BY <1>1, <1>5, <1>6

\* _unbounce, of the units that bounced off a place.
LEMMA TypeUnbounce == TypeInv /\ Unbounce => TypeInv'
<1> SUFFICES ASSUME TypeInv, Unbounce PROVE TypeInv'
  OBVIOUS
<1>1. owner' = owner /\ Units' = Units
  BY DEF Unbounce, orders, Units
<1>2. SUFFICES /\ result' \in [Units -> Results] /\ IsDict(combat', Units \X Places, Int)
               /\ IsDict(dislodged', Units, Units) /\ site' \in Units
  BY <1>1 DEF Unbounce, TypeInv, Results, orders
<1>3. CASE UNCHANGED <<result, combat, dislodged, site>>
  BY <1>3 DEF TypeInv, Results
<1>4. CASE \E e \in Strongest(site) : Strongest(site) = {e} /\ "bounce" \in result[e[1]]
  <2>1. PICK e \in Strongest(site) :
          \/ /\ result' = [result EXCEPT ![e[1]] = @ \ {"bounce", "dislodged"}]
             /\ dislodged' = Drop(dislodged, e[1])
             /\ UNCHANGED <<combat, site>>
          \/ /\ result' = [result EXCEPT ![e[1]] = @ \ {"bounce"}]
             /\ combat' = Drop(combat, <<e[1], e[1]>>)
             /\ Vacate(e[1], combat')
             /\ UNCHANGED dislodged
    BY <1>4 DEF Unbounce
  <2>2. e[1] \in Units
    BY DEF Strongest, EntriesAt, TypeInv, IsDict
  <2>3. \A u \in Units : result[u] \in Results
    BY DEF TypeInv, Results
  <2>4. result' \in [Units -> Results]
    <3>1. \E marks \in {{"bounce"}, {"bounce", "dislodged"}} :
             result' = [result EXCEPT ![e[1]] = @ \ marks]
      BY <2>1
    <3>2. PICK marks : result' = [result EXCEPT ![e[1]] = @ \ marks]
      BY <3>1
    <3>3. result' = [u \in Units |-> IF u = e[1] THEN result[u] \ marks ELSE result[u]]
      BY <3>2 DEF TypeInv
    <3> QED
      BY <2>3, <3>3 DEF Results
  <2>5. IsDict(combat', Units \X Places, Int) /\ IsDict(dislodged', Units, Units)
    <3>1. IsDict(combat, Units \X Places, Int) /\ IsDict(dislodged, Units, Units)
      BY DEF TypeInv
    <3>2. /\ IsDict(Drop(combat, <<e[1], e[1]>>), Units \X Places, Int)
          /\ IsDict(Drop(dislodged, e[1]), Units, Units)
      BY <3>1, DropType
    <3> QED
      BY <2>1, <3>1, <3>2
  <2>6. site' \in Units
    BY <2>1, <2>2 DEF Vacate, TypeInv
  <2> QED
    BY <2>4, <2>5, <2>6
<1> QED
  BY <1>3, <1>4 DEF Unbounce

\* The retreats of _move_results.
LEMMA TypeRetreat == TypeInv /\ Retreat => TypeInv'
<1> SUFFICES ASSUME TypeInv, Retreat PROVE TypeInv'
  OBVIOUS
<1>1. owner' = owner /\ Units' = Units
  BY DEF Retreat, orders, Units
<1>2. \A u : RetreatsOf(u) \subseteq Places
  BY ReachFacts DEF RetreatsOf
<1>3. DOMAIN dislodged \subseteq Units
  BY DEF TypeInv, IsDict
<1>4. IsDict(retreats', Units, SUBSET Places)
  BY <1>2, <1>3 DEF Retreat, IsDict
<1> QED
  BY <1>1, <1>4 DEF Retreat, TypeInv, orders, strengths

\* Every step keeps the types.
LEMMA TypeStep == TypeInv /\ OrdersInv /\ [Next]_vars => TypeInv'
<1> SUFFICES ASSUME TypeInv, OrdersInv, [Next]_vars PROVE TypeInv'
  OBVIOUS
<1>1. CASE UNCHANGED vars
  BY <1>1 DEF vars, orders, strengths, control, TypeInv, Units
<1> QED
  BY <1>1, TypeGiveOrder, TypeMatchConvoys, TypeCountSupports, TypeCuts, TypeStrengths,
     TypeDisrupt, TypeCancelConvoys, TypeBounceSwappers, TypeBounceOutgunned,
     TypeBounceSelfDislodger, TypeCutByDislodging, TypeDislodge, TypeUnbounce, TypeRetreat
  DEF Next

----------------------------------------------------------------------------
(* The orders and the marks.                                                *)

\* Every step keeps what is known of the orders and of the order of the steps.
LEMMA OrdersStep == TypeInv /\ OrdersInv /\ [Next]_vars => OrdersInv'
<1> SUFFICES ASSUME TypeInv, OrdersInv, [Next]_vars PROVE OrdersInv'
  OBVIOUS
<1>1. CASE UNCHANGED vars
  BY <1>1 DEF vars, orders, strengths, control, OrdersInv, Units
<1>2. CASE GiveOrder
  <2>1. PICK u \in left : /\ left' = left \ {u}
                          /\ \E order \in ValidOrders(u) : command' = Put(command, u, order)
    BY <1>2 DEF GiveOrder, OrdersInv
  <2>2. PICK order \in ValidOrders(u) : command' = Put(command, u, order)
    BY <2>1
  <2>3. u \in Units /\ (order.type = "-" => order.to # u)
    BY ValidOrdersFacts DEF TypeInv
  <2>4. DOMAIN command = Units \ left /\ left \subseteq Units
    BY <1>2 DEF GiveOrder, OrdersInv, TypeInv
  <2>5. DOMAIN command' = Units \ left'
    BY <2>1, <2>2, <2>3, <2>4 DEF Put
  <2>6. \A v \in DOMAIN command' : command'[v].type = "-" => command'[v].to # v
    BY <2>2, <2>3 DEF Put, OrdersInv
  <2>7. /\ Units' = Units /\ combat' = combat /\ no_help' = no_help /\ cutters' = cutters
        /\ next' = IF left' = {} THEN "convoy" ELSE "orders"
    BY <1>2 DEF GiveOrder, strengths, Units
  <2> QED
    BY <1>2, <2>1, <2>5, <2>6, <2>7 DEF GiveOrder, OrdersInv, Steps
<1>3. CASE MatchConvoys
  <2>1. /\ next' = "count" /\ Units' = Units
        /\ command' = [u \in Units |-> IF u \in MovingArmies \ {v \in MovingArmies : ConvoyPaths(v) # {}}
                                       THEN Move(u, command[u].to) ELSE command[u]]
    BY <1>3 DEF MatchConvoys, Units
  <2>2. \A u \in MovingArmies : u \in Units /\ command[u].type = "-"
    BY DEF MovingArmies, Armies
  <2>3. \A u : Move(u, command[u].to).to = command[u].to
    BY DEF Move
  <2>4. DOMAIN command = Units
    BY <1>3 DEF MatchConvoys, OrdersInv
  <2>5. \A u \in Units : command'[u].type = "-" => command'[u].to # u
    BY <2>1, <2>2, <2>3, <2>4 DEF OrdersInv
  <2> QED
    BY <2>1, <2>5 DEF OrdersInv, Steps
<1>4. CASE next # "orders" /\ command' = command /\ owner' = owner
           /\ next' \in Steps \ {"orders", "convoy", "cancel", "again"}
  BY <1>4 DEF OrdersInv, Units
<1>5. CASE DisruptDefinite
  BY <1>5 DEF DisruptDefinite, OrdersInv, Steps, Units
<1>6. CASE CancelConvoys
  <2>1. next \in {"cancel", "again"} /\ left \subseteq DOMAIN may_convoy
    BY <1>6 DEF CancelConvoys, OrdersInv
  <2>2. next' \in {"cancel", "again"} => left' \subseteq left
    BY <1>6 DEF CancelConvoys
  <2>3. next' \in {"cancel", "again", "strengths", "laststrengths"}
    BY <1>6, <2>1 DEF CancelConvoys, Strand, Free
  <2>4. command' = command /\ may_convoy' = may_convoy /\ Units' = Units
    BY <1>6 DEF CancelConvoys, Units
  <2> QED
    BY <2>1, <2>2, <2>3, <2>4 DEF OrdersInv, Steps
<1>7. CASE CountSupports \/ CutSupports \/ Strengths \/ DisruptMaybe \/ CutByConvoyed
  BY <1>4, <1>7
  DEF CountSupports, CutSupports, Strengths, DisruptMaybe, CutByConvoyed, orders, Steps
<1>8. CASE BounceSwappers \/ BounceOutgunned \/ BounceSelfDislodger
  BY <1>4, <1>8 DEF BounceSwappers, BounceOutgunned, BounceSelfDislodger, orders, Steps
<1>9. CASE CutByDislodging \/ Dislodge
  BY <1>4, <1>9 DEF CutByDislodging, Dislodge, Vacate, orders, Steps
<1>10. CASE Unbounce \/ Retreat
  BY <1>4, <1>10 DEF Unbounce, Retreat, Vacate, orders, Steps
<1> QED
  BY <1>1, <1>2, <1>3, <1>5, <1>6, <1>7, <1>8, <1>9, <1>10 DEF Next

\* No unit changes its owner.
LEMMA OwnerStays == [Next]_vars => owner' = owner /\ Units' = Units
<1>1. [Next]_vars => owner' = owner
  BY DEF Next, vars, orders, GiveOrder, MatchConvoys, CountSupports, CutSupports, Strengths,
     DisruptMaybe, CutByConvoyed, DisruptDefinite, CancelConvoys, BounceSwappers,
     BounceOutgunned, BounceSelfDislodger, CutByDislodging, Dislodge, Unbounce, Retreat
<1> QED
  BY <1>1 DEF Units

\* The orders once they are given: MatchConvoys changes no type and no destination.
LEMMA CommandStays ==
    ASSUME TypeInv, OrdersInv, [Next]_vars, next # "orders"
    PROVE  /\ owner' = owner /\ Units' = Units
           /\ \A u \in Units : command'[u].type = command[u].type /\ command'[u].to = command[u].to
<1>1. CASE UNCHANGED <<owner, command>>
  BY <1>1 DEF Units
<1>2. CASE MatchConvoys
  <2>1. /\ owner' = owner
        /\ command' = [u \in Units |-> IF u \in MovingArmies \ {v \in MovingArmies : ConvoyPaths(v) # {}}
                                       THEN Move(u, command[u].to) ELSE command[u]]
    BY <1>2 DEF MatchConvoys
  <2>2. \A u \in MovingArmies : u \in Units /\ command[u].type = "-"
    BY DEF MovingArmies, Armies
  <2>3. \A u : Move(u, command[u].to).to = command[u].to /\ Move(u, command[u].to).type = "-"
    BY DEF Move
  <2> QED
    BY <2>1, <2>2, <2>3 DEF Units
<1>3. [Next]_vars /\ next # "orders" => MatchConvoys \/ UNCHANGED <<owner, command>>
  BY DEF Next, vars, orders, strengths, control, GiveOrder, CountSupports, CutSupports, Strengths,
     DisruptMaybe, CutByConvoyed, DisruptDefinite, CancelConvoys, BounceSwappers,
     BounceOutgunned, BounceSelfDislodger, CutByDislodging, Dislodge, Unbounce, Retreat
<1> QED
  BY <1>1, <1>2, <1>3

\* Only supporters are counted among those who do not help to dislodge.
LEMMA HelpStep == TypeInv /\ OrdersInv /\ HelpInv /\ [Next]_vars => HelpInv'
<1> SUFFICES ASSUME TypeInv, OrdersInv, HelpInv, [Next]_vars PROVE HelpInv'
  OBVIOUS
<1>1. CASE GiveOrder
  BY <1>1 DEF GiveOrder, OrdersInv, HelpInv, strengths, Units
<1>2. CASE CountSupports
  <2>1. \A u \in Units : \A s \in no_help'[u] : command[s].type = "S"
    BY <1>2 DEF CountSupports, Supports
  <2> QED
    BY <1>2, <2>1 DEF CountSupports, HelpInv, orders, Units
<1>3. CASE /\ ~GiveOrder
           /\ \A u \in Units : no_help'[u] \subseteq no_help[u]
  <2>1. next # "orders" \/ UNCHANGED <<command, owner>>
    BY <1>3 DEF Next, vars, orders, strengths, control, GiveOrder, CountSupports, CutSupports,
       Strengths, MatchConvoys,
       DisruptMaybe, CutByConvoyed, DisruptDefinite, CancelConvoys, BounceSwappers,
       BounceOutgunned, BounceSelfDislodger, CutByDislodging, Dislodge, Unbounce, Retreat
  <2>2. \A u \in Units : no_help[u] \subseteq Units
    BY DEF TypeInv
  <2>3. /\ Units' = Units
        /\ \A u \in Units : command'[u].type = command[u].type
    BY <2>1, CommandStays DEF Units
  <2> QED
    BY <1>3, <2>2, <2>3 DEF HelpInv
<1>4. CASE CutSupports \/ CutByConvoyed
  BY <1>3, <1>4 DEF CutSupports, CutByConvoyed, CutBy, GiveOrder
<1>5. CASE CancelConvoys
  <2>1. next # "orders"
    BY <1>5 DEF CancelConvoys
  <2>2. \/ no_help' = no_help \/ \E u : no_help' = [no_help EXCEPT ![u] = {}]
        \/ \E cut : no_help' = [u \in Units |-> no_help[u] \ cut]
    BY <1>5 DEF CancelConvoys, Strand, Free, CutBy
  <2>3. \A u \in Units : no_help'[u] \subseteq no_help[u]
    BY <2>2 DEF TypeInv
  <2> QED
    BY <1>3, <2>1, <2>3 DEF GiveOrder
<1>6. CASE CutByDislodging
  BY <1>3, <1>6 DEF CutByDislodging, GiveOrder
<1>7. CASE ~GiveOrder /\ no_help' = no_help
  BY <1>3, <1>7
<1> QED
  BY <1>1, <1>2, <1>4, <1>5, <1>6, <1>7
  DEF Next, vars, strengths, MatchConvoys, Strengths, DisruptMaybe, DisruptDefinite, BounceSwappers,
      BounceOutgunned, BounceSelfDislodger, Dislodge, Unbounce, Retreat, GiveOrder

\* What the marking of units does to each of them.
LEMMA MarkValue ==
    ASSUME NEW units, NEW mark, NEW u \in Units
    PROVE  Mark(units, mark)[u] = result[u] \cup IF u \in units THEN {mark} ELSE {}
  BY DEF Mark

\* Cuts and disruptions leave no unit bounced or dislodged that was not.
LEMMA EarlyMarks ==
    ASSUME TypeInv, [Next]_vars, ~Bouncing, NEW u \in Units, NEW mark \in {"bounce", "dislodged"},
           mark \in result'[u]
    PROVE  mark \in result[u]
<1>1. CASE UNCHANGED result
  BY <1>1
<1>2. ASSUME NEW attackers, NEW freed, CutBy(attackers, freed) PROVE mark \in result[u]
  <2> DEFINE cut == {s \in Units : \E v \in attackers : Cuts(v, s)}
  <2>1. result' = [v \in Units |-> IF v \in freed THEN {} ELSE Mark(cut, "cut")[v]]
    BY <1>2 DEF CutBy
  <2> HIDE DEF cut
  <2> QED
    BY <2>1, MarkValue
<1>3. ASSUME NEW m, NEW fm, CheckDisruptions(m, fm), m \in {"maybe", "no convoy"},
             fm \in {{}, {"disrupted"}}
      PROVE  mark \in result[u]
  BY <1>3 DEF CheckDisruptions
<1>4. CASE MatchConvoys
  <2> DEFINE carried == {v \in MovingArmies : ConvoyPaths(v) # {}}
             alone == MovingArmies \ carried
             void == {c \in Units : /\ command[c].type = "C"
                                    /\ LET v == command[c].of IN v \in carried => c \notin Carriers(v)}
             useless == {c \in void : c \in Convoying(command[c].of)
                                         /\ command[c].of \in MovingArmies}
             stuck == {a \in alone : command[a].to \notin Reach(a)} \cup useless
  <2>1. result' = [v \in Units |->
                 Mark(stuck, "no convoy")[v] \cup IF v \in void THEN {"void"} ELSE {}]
    BY <1>4 DEF MatchConvoys
  <2> HIDE DEF stuck, void
  <2>2. Mark(stuck, "no convoy")[u] = result[u] \cup IF u \in stuck THEN {"no convoy"} ELSE {}
    BY DEF Mark
  <2> QED
    BY <2>1, <2>2
<1>5. CASE CountSupports
  <2>1. \E void : result' = Mark(void, "void")
    BY <1>5 DEF CountSupports
  <2> QED
    BY <2>1, MarkValue
<1>6. CASE CancelConvoys
  <2>1. ASSUME NEW v, Strand(v) PROVE mark \in result[u]
    <3> DEFINE helpers == {s \in Units : /\ command[s].type \in {"S", "C"} /\ command[s].of = v
                                        /\ result[s] = {}}
    <3>1. result' = Mark(helpers, "no convoy")
      BY <2>1 DEF Strand
    <3> HIDE DEF helpers
    <3>2. Mark(helpers, "no convoy")[u]
             = result[u] \cup IF u \in helpers THEN {"no convoy"} ELSE {}
      BY DEF Mark
    <3> QED
      BY <3>1, <3>2
  <2> QED
    BY <1>1, <1>2, <1>6, <2>1 DEF CancelConvoys, Free
<1> QED
  BY <1>1, <1>2, <1>3, <1>4, <1>5, <1>6
  DEF Next, vars, Bouncing, GiveOrder, CutSupports, Strengths, DisruptMaybe, CutByConvoyed,
      DisruptDefinite, BounceSwappers, BounceOutgunned, BounceSelfDislodger, CutByDislodging,
      Dislodge, Unbounce, Retreat, Done

\* Nobody is dislodged by the steps before step 10.
LEMMA EarlyDislodged ==
    ASSUME [Next]_vars, ~Dislodging
    PROVE  dislodged' = dislodged
  BY DEF Next, vars, Dislodging, GiveOrder, MatchConvoys, CountSupports, CutSupports, Strengths,
     DisruptMaybe, CutByConvoyed, DisruptDefinite, CancelConvoys, BounceSwappers, BounceOutgunned,
     BounceSelfDislodger, CutByDislodging, Dislodge, Unbounce, Retreat, Done

\* What the steps from the sixth on do to the marks of a unit: it is a mover that
\* bounces, or a supporter whose support is of no use or cut, or one that is dislodged, or
\* one that is free to go after all.
Bounces(u) == ~Dislodging /\ Moving(u) /\ result'[u] = {"bounce"}

HelpsNot(u) ==
    /\ command[u].type = "S" /\ next # "unbounce"
    /\ \E mark \in {"void", "cut"} : result'[u] = result[u] \cup {mark}
    /\ u \in DOMAIN dislodged' <=> u \in DOMAIN dislodged

IsDislodged(u) ==
    /\ next = "dislodge" /\ ~Moving(u)
    /\ u \in DOMAIN dislodged' /\ "dislodged" \in result'[u]
    /\ result'[u] \subseteq result[u] \cup {"dislodged"}
                             \cup IF command[u].type = "S" THEN {"void"} ELSE {}
    /\ result[u] \ {"disrupted"} \subseteq result'[u]

IsFreed(u) ==
    /\ next = "unbounce" /\ "bounce" \in result[u]
    /\ u \notin DOMAIN dislodged'
    /\ result'[u] = result[u] \ IF u \in DOMAIN dislodged THEN {"bounce", "dislodged"} ELSE {"bounce"}

Rests(u) == result'[u] = result[u] /\ (u \in DOMAIN dislodged' <=> u \in DOMAIN dislodged)

\* From step 6 on, and in step 10, a unit gets one of these marks or keeps its own.
LEMMA LateMarks ==
    ASSUME TypeInv, HelpInv, [Next]_vars, Bouncing, NEW u \in Units
    PROVE  Rests(u) \/ Bounces(u) \/ HelpsNot(u) \/ IsDislodged(u) \/ IsFreed(u)
<1>1. CASE UNCHANGED <<result, dislodged>>
  BY <1>1 DEF Rests
<1>2. CASE BounceSwappers
  <2> DEFINE swappers == {v \in Units : \E w \in Units : HeadToHead(v, w)}
             losers == {v \in swappers : LosesSwap(v, command[v].to)}
             void == UNION {no_help[v] : v \in swappers}
  <2>1. /\ result' = [v \in Units |-> Mark(losers, "bounce")[v]
                                         \cup IF v \in void THEN {"void"} ELSE {}]
        /\ dislodged' = dislodged /\ next = "swap"
    BY <1>2 DEF BounceSwappers
  <2>2. u \in losers => Moving(u)
    BY DEF HeadToHead
  <2>3. u \in void => command[u].type = "S"
    BY DEF HelpInv
  <2> HIDE DEF losers, void
  <2>4. Mark(losers, "bounce")[u] = result[u] \cup IF u \in losers THEN {"bounce"} ELSE {}
    BY MarkValue
  <2> QED
    BY <2>1, <2>2, <2>3, <2>4 DEF Rests, Bounces, HelpsNot, Moving, Dislodging
<1>3. CASE BounceOutgunned
  <2> DEFINE losers == {v \in Units : Outgunned(v)}
  <2>1. result' = Mark(losers, "bounce") /\ dislodged' = dislodged /\ next = "outgun"
    BY <1>3 DEF BounceOutgunned
  <2>2. u \in losers => Moving(u)
    BY DEF Outgunned
  <2> HIDE DEF losers
  <2>3. Mark(losers, "bounce")[u] = result[u] \cup IF u \in losers THEN {"bounce"} ELSE {}
    BY MarkValue
  <2> QED
    BY <2>1, <2>2, <2>3 DEF Rests, Bounces, Moving, Dislodging
<1>4. CASE BounceSelfDislodger
  <2>1. SUFFICES ASSUME NEW w \in left, SelfDislodges(w),
                        result' = [v \in Units |-> Mark({w}, "bounce")[v] \cup
                                                       IF v \in no_help[w] THEN {"void"} ELSE {}]
                 PROVE  Rests(u) \/ Bounces(u) \/ HelpsNot(u)
    BY <1>1, <1>4 DEF BounceSelfDislodger
  <2>2. dislodged' = dislodged /\ next = "self"
    BY <1>4 DEF BounceSelfDislodger
  <2>3. u \in {w} => Moving(u)
    BY <2>1 DEF SelfDislodges
  <2>4. u \in no_help[w] => command[u].type = "S"
    BY DEF HelpInv, TypeInv
  <2>5. Mark({w}, "bounce")[u] = result[u] \cup IF u \in {w} THEN {"bounce"} ELSE {}
    BY MarkValue
  <2> QED
    BY <2>1, <2>2, <2>3, <2>4, <2>5 DEF Rests, Bounces, HelpsNot, Moving, Dislodging
<1>5. CASE CutByDislodging
  <2> DEFINE victims == {s \in Units : /\ command[s].type = "S" /\ result[s] = {}
                                      /\ \E v \in Units :
                                            /\ Moving(v) /\ command[v].to = s
                                            /\ command[v].via => command[s].to = v}
  <2>1. result' = Mark(victims, "cut") /\ dislodged' = dislodged /\ next = "dislodgecut"
    BY <1>5 DEF CutByDislodging
  <2>2. u \in victims => command[u].type = "S"
    OBVIOUS
  <2> HIDE DEF victims
  <2>3. Mark(victims, "cut")[u] = result[u] \cup IF u \in victims THEN {"cut"} ELSE {}
    BY MarkValue
  <2> QED
    BY <2>1, <2>2, <2>3 DEF Rests, HelpsNot
<1>6. CASE Dislodge
  <2>1. SUFFICES ASSUME NEW w \in left, command[w].to \in Units, ~Moving(command[w].to),
                        result' = [v \in Units |->
                             (Mark({command[w].to}, "dislodged")[v]
                                    \ IF v = command[w].to THEN {"disrupted"} ELSE {})
                                 \cup IF v \in no_help[w] THEN {"void"} ELSE {}],
                        dislodged' = Put(dislodged, command[w].to, w)
                 PROVE  Rests(u) \/ HelpsNot(u) \/ IsDislodged(u)
    BY <1>1, <1>6 DEF Dislodge
  <2>2. next = "dislodge"
    BY <1>6 DEF Dislodge
  <2>3. u \in no_help[w] => command[u].type = "S"
    BY DEF HelpInv, TypeInv
  <2> DEFINE p == command[w].to
  <2> HIDE DEF p
  <2>4. Mark({p}, "dislodged")[u] = result[u] \cup IF u \in {p} THEN {"dislodged"} ELSE {}
    BY MarkValue
  <2>5. u \in DOMAIN dislodged' <=> u \in DOMAIN dislodged \/ u = p
    BY <2>1 DEF Put, p
  <2>6. result'[u] = (Mark({p}, "dislodged")[u] \ IF u = p THEN {"disrupted"} ELSE {})
                         \cup IF u \in no_help[w] THEN {"void"} ELSE {}
    BY <2>1 DEF p
  <2>7. u = p => ~Moving(u)
    BY <2>1 DEF p
  <2> QED
    BY <2>2, <2>3, <2>4, <2>5, <2>6, <2>7 DEF Rests, HelpsNot, IsDislodged
<1>7. CASE Unbounce
  <2>1. CASE \E e \in Strongest(site) : Strongest(site) = {e} /\ "bounce" \in result[e[1]]
    <3>1. PICK e \in Strongest(site) :
          /\ "bounce" \in result[e[1]]
          /\ \/ /\ e[1] \in DOMAIN dislodged
                /\ result' = [result EXCEPT ![e[1]] = @ \ {"bounce", "dislodged"}]
                /\ dislodged' = Drop(dislodged, e[1])
             \/ /\ e[1] \notin DOMAIN dislodged
                /\ result' = [result EXCEPT ![e[1]] = @ \ {"bounce"}]
                /\ UNCHANGED dislodged
      BY <1>7, <2>1 DEF Unbounce
    <3>2. DOMAIN result = Units
      BY DEF TypeInv
    <3> QED
      BY <1>7, <3>1, <3>2 DEF Unbounce, Drop, Rests, IsFreed
  <2> QED
    BY <1>1, <1>7, <2>1 DEF Unbounce
<1> QED
  BY <1>1, <1>2, <1>3, <1>4, <1>5, <1>6, <1>7
  DEF Next, vars, Bouncing, GiveOrder, MatchConvoys, CountSupports, CutSupports, Strengths,
      DisruptMaybe, CutByConvoyed, DisruptDefinite, CancelConvoys, Retreat

\* The steps come in this order.
LEMMA Order ==
    ASSUME [Next]_vars
    PROVE  (Bouncing => Bouncing') /\ (Dislodging => Dislodging')
<1>1. CASE UNCHANGED next
  BY <1>1 DEF Bouncing, Dislodging
<1>2. CASE ~Bouncing
  BY <1>2 DEF Bouncing, Dislodging
<1>3. CASE BounceSwappers \/ BounceOutgunned \/ BounceSelfDislodger \/ CutByDislodging
  BY <1>3 DEF BounceSwappers, BounceOutgunned, BounceSelfDislodger, CutByDislodging,
              Bouncing, Dislodging
<1>4. CASE Dislodge \/ Unbounce \/ Retreat
  BY <1>4 DEF Dislodge, Unbounce, Retreat, Vacate, Bouncing, Dislodging
<1> QED
  BY <1>1, <1>2, <1>3, <1>4
  DEF Next, vars, control, Bouncing, GiveOrder, MatchConvoys, CountSupports, CutSupports, Strengths,
      DisruptMaybe, CutByConvoyed, DisruptDefinite, CancelConvoys

\* Every step keeps what is known of the marks.
LEMMA MarksStep == TypeInv /\ OrdersInv /\ HelpInv /\ MarksInv /\ [Next]_vars => MarksInv'
<1> SUFFICES ASSUME TypeInv, OrdersInv, HelpInv, MarksInv, [Next]_vars PROVE MarksInv'
  OBVIOUS
<1>1. Units' = Units /\ (Bouncing => Bouncing') /\ (Dislodging => Dislodging')
  BY Order, OwnerStays
<1>2. CASE ~Bouncing
  <2>1. \A u \in Units : "bounce" \notin result'[u] /\ "dislodged" \notin result'[u]
    BY <1>2, EarlyMarks DEF MarksInv, Dislodging, Bouncing
  <2>2. dislodged' = dislodged
    BY <1>2, EarlyDislodged DEF Bouncing, Dislodging
  <2>3. \A u \in Units : u \notin DOMAIN dislodged
    BY <1>2 DEF MarksInv, Bouncing, Dislodging
  <2> QED
    BY <1>1, <2>1, <2>2, <2>3 DEF MarksInv
<1>3. CASE Bouncing
  <2>1. \A u \in Units : command'[u].type = command[u].type
    BY <1>3, CommandStays DEF Bouncing
  <2>2. ~Dislodging => dislodged' = dislodged
    BY EarlyDislodged
  <2>3. next \in {"dislodge", "unbounce"} => Dislodging
    BY DEF Dislodging
  <2>4. ASSUME NEW u \in Units
        PROVE  /\ "bounce" \in result'[u] =>
                    command[u].type = "-" /\ result'[u] \subseteq {"bounce", "dislodged"}
               /\ "dislodged" \in result'[u] => Dislodging
               /\ "dislodged" \in result'[u] <=> u \in DOMAIN dislodged'
    <3>1. /\ "bounce" \in result[u] =>
                command[u].type = "-" /\ result[u] \subseteq {"bounce", "dislodged"}
          /\ "dislodged" \in result[u] => Dislodging
          /\ "dislodged" \in result[u] <=> u \in DOMAIN dislodged
      BY DEF MarksInv
    <3>2. CASE Rests(u)
      BY <3>1, <3>2 DEF Rests
    <3>3. CASE Bounces(u)
      BY <2>2, <3>1, <3>3 DEF Bounces, Moving
    <3>4. CASE HelpsNot(u)
      BY <3>1, <3>4 DEF HelpsNot
    <3>5. CASE IsDislodged(u)
      BY <2>3, <3>1, <3>5 DEF IsDislodged
    <3>6. CASE IsFreed(u)
      BY <2>3, <3>1, <3>6 DEF IsFreed
    <3> QED
      BY <1>3, <3>2, <3>3, <3>4, <3>5, <3>6, LateMarks
  <2> QED
    BY <1>1, <1>3, <2>1, <2>4 DEF MarksInv
<1> QED
  BY <1>2, <1>3

----------------------------------------------------------------------------
(* The fights for the places.                                               *)

\* Every step keeps the fights to the two places of a unit.
LEMMA CombatStep == TypeInv /\ OrdersInv /\ CombatInv /\ [Next]_vars => CombatInv'
<1> SUFFICES ASSUME TypeInv, OrdersInv, CombatInv, [Next]_vars PROVE CombatInv'
  OBVIOUS
<1>1. CASE next = "orders"
  <2>1. combat' = combat
    BY <1>1 DEF Next, vars, strengths, GiveOrder, MatchConvoys, CountSupports, CutSupports,
       Strengths, DisruptMaybe, CutByConvoyed, DisruptDefinite, CancelConvoys, BounceSwappers,
       BounceOutgunned, BounceSelfDislodger, CutByDislodging, Dislodge, Unbounce, Retreat
  <2> QED
    BY <1>1, <2>1 DEF CombatInv, OrdersInv
<1>2. CASE next # "orders"
  <2>1. \A e \in DOMAIN combat : e[1] \in Units
    BY DEF TypeInv, IsDict
  <2>2. \A u \in Units : command'[u].to = command[u].to
    BY <1>2, CommandStays
  <2>3. SUFFICES \A e \in DOMAIN combat' :
                    e \in DOMAIN combat \/ (e[1] \in Units /\ e[2] \in {e[1], command[e[1]].to})
    BY <2>1, <2>2 DEF CombatInv
  <2>4. CASE DOMAIN combat' \subseteq DOMAIN combat
    BY <2>4
  <2>5. ASSUME NEW units \in SUBSET Units, combat' = Bounced(units)
        PROVE  <2>3!1
    BY <2>5 DEF Bounced
  <2>6. CASE Strengths
    BY <2>6 DEF Strengths
  <2>7. CASE BounceSwappers
    <3>1. {u \in {v \in Units : \E w \in Units : HeadToHead(v, w)} : LosesSwap(u, command[u].to)}
             \in SUBSET Units
      OBVIOUS
    <3> QED
      BY <2>5, <2>7, <3>1 DEF BounceSwappers
  <2>8. CASE BounceOutgunned
    BY <2>5, <2>8 DEF BounceOutgunned
  <2>9. CASE BounceSelfDislodger
    <3>1. left \subseteq Units
      BY DEF TypeInv
    <3>2. combat' = combat \/ \E u \in left : combat' = Bounced({u})
      BY <2>9 DEF BounceSelfDislodger
    <3> QED
      BY <2>4, <2>5, <3>1, <3>2
  <2>10. CASE CutByDislodging
    BY <2>4, <2>10 DEF CutByDislodging
  <2>11. CASE Dislodge
    BY <2>4, <2>11 DEF Dislodge, WithoutLoser, Drop
  <2>12. CASE Unbounce
    BY <2>4, <2>12 DEF Unbounce, Drop
  <2>13. CASE UNCHANGED combat
    BY <2>4, <2>13
  <2> QED
    BY <1>2, <2>6, <2>7, <2>8, <2>9, <2>10, <2>11, <2>12, <2>13
    DEF Next, vars, strengths, GiveOrder, MatchConvoys, CountSupports, CutSupports,
       DisruptMaybe, CutByConvoyed, DisruptDefinite, CancelConvoys, Retreat
<1> QED
  BY <1>1, <1>2

\* The strongest are the same while no strength changes.
LEMMA StrongestStays ==
    ASSUME combat' = combat, NEW p
    PROVE  Strongest(p)' = Strongest(p)
  BY DEF Strongest, EntriesAt

\* Without an entry that is not the only strongest, that is still the only strongest.
LEMMA DropAlone ==
    ASSUME IsDict(combat, Units \X Places, Int), NEW d, combat' = Drop(combat, d),
           NEW p, NEW x, x # d, Strongest(p) = {x}
    PROVE  Strongest(p)' = {x}
<1>1. \A e \in DOMAIN combat : combat[e] \in Int
  BY DEF IsDict
<1>2. DOMAIN combat' = DOMAIN combat \ {d} /\ \A e \in DOMAIN combat' : combat'[e] = combat[e]
  BY DEF Drop
<1>3. EntriesAt(p)' = EntriesAt(p) \ {d}
  BY <1>2 DEF EntriesAt
<1>4. x \in EntriesAt(p) /\ \A f \in EntriesAt(p) : combat[x] >= combat[f]
  BY DEF Strongest
<1>5. EntriesAt(p) \subseteq DOMAIN combat
  BY DEF EntriesAt
<1>6. x \in Strongest(p)'
  BY <1>2, <1>3, <1>4, <1>5 DEF Strongest
<1>7. ASSUME NEW y \in Strongest(p)' PROVE y = x
  <2>1. y \in EntriesAt(p) /\ combat[y] >= combat[x]
    BY <1>2, <1>3, <1>4, <1>5, <1>7 DEF Strongest
  <2>2. \A f \in EntriesAt(p) : combat[y] >= combat[f]
    BY <1>1, <1>4, <1>5, <2>1
  <2>3. y \in Strongest(p)
    BY <2>1, <2>2 DEF Strongest
  <2> QED
    BY <2>3
<1> QED
  BY <1>6, <1>7

\* One visit of step 10.
Visit(u) ==
    /\ left' = left \ {u}
    /\ \/ UNCHANGED <<combat, dislodged>> /\ ~Moving(u)
       \/ /\ UNCHANGED <<combat, dislodged>> /\ Moving(u)
          /\ command[u].to \in Units => Moving(command[u].to)
       \/ /\ Moving(u) /\ command[u].to \in Units /\ ~Moving(command[u].to)
          /\ dislodged' = Put(dislodged, command[u].to, u)
          /\ combat' = WithoutLoser(u, command[u].to)
    /\ next' = "unbounce" => Moving(u) /\ site' = u

\* A step of Dislodge is such a visit.
LEMMA DislodgeVisits ==
    ASSUME TypeInv, HelpInv, MarksInv, Dislodge
    PROVE  /\ command' = command
           /\ \A v \in Units : Moving(v)' <=> Moving(v)
           /\ \E u \in left : Visit(u)
<1>1. command' = command /\ next = "dislodge"
  BY DEF Dislodge, orders
<1>2. \A v \in Units : Rests(v) \/ Bounces(v) \/ HelpsNot(v) \/ IsDislodged(v) \/ IsFreed(v)
  BY <1>1, LateMarks DEF Bouncing, Next
<1>3. ASSUME NEW v \in Units PROVE Moving(v)' <=> Moving(v)
  BY <1>1, <1>2 DEF Rests, Bounces, HelpsNot, IsDislodged, IsFreed, Dislodging, Moving
<1>4. \E u \in left : Visit(u)
  BY DEF Dislodge, Visit, Vacate
<1> QED
  BY <1>1, <1>3, <1>4

\* What _unbounce does for a unit.
Frees(u) ==
    /\ ~Moving(u) /\ Moving(site) /\ Moving(u)'
    /\ command[u].to = site /\ Strongest(site) = {<<u, site>>}
    /\ DOMAIN dislodged' = DOMAIN dislodged \ {u}
    /\ \A v \in DOMAIN dislodged' : dislodged'[v] = dislodged[v]
    /\ combat' = IF u \in DOMAIN dislodged THEN combat ELSE Drop(combat, <<u, u>>)
    /\ \A v \in Units \ {u} : result'[v] = result[v]
    /\ next' = "unbounce" => site' = u

\* A step of Unbounce is that.
LEMMA UnbounceFrees ==
    ASSUME TypeInv, OrdersInv, MarksInv, CombatInv, SiteInv, Unbounce
    PROVE  /\ command' = command /\ left' = left
           /\ (UNCHANGED <<result, combat, dislodged>> /\ next' = "dislodge")
              \/ \E u \in Units : Frees(u)
<1>1. command' = command /\ left' = left /\ next = "unbounce" /\ Moving(site)
  BY DEF Unbounce, orders, SiteInv
<1>2. ASSUME NEW e \in Strongest(site), Strongest(site) = {e}, "bounce" \in result[e[1]],
             \/ /\ e[1] \in DOMAIN dislodged
                /\ result' = [result EXCEPT ![e[1]] = @ \ {"bounce", "dislodged"}]
                /\ dislodged' = Drop(dislodged, e[1])
                /\ combat' = combat /\ next' = "dislodge"
             \/ /\ e[1] \notin DOMAIN dislodged
                /\ result' = [result EXCEPT ![e[1]] = @ \ {"bounce"}]
                /\ combat' = Drop(combat, <<e[1], e[1]>>)
                /\ Vacate(e[1], combat')
                /\ UNCHANGED dislodged
      PROVE  \E u \in Units : Frees(u)
  <2> DEFINE u == e[1]
  <2>1. e \in DOMAIN combat /\ e[2] = site /\ u \in Units /\ e = <<e[1], e[2]>>
    <3>1. e \in DOMAIN combat /\ e[2] = site
      BY DEF Strongest, EntriesAt
    <3>2. e \in Units \X Places
      BY <3>1 DEF TypeInv, IsDict
    <3> QED
      BY <3>1, <3>2
  <2>2. ~Moving(u) /\ u # site
    BY <1>1, <1>2 DEF Moving
  <2>3. command[u].to = site
    BY <2>1, <2>2 DEF CombatInv
  <2>4. Strongest(site) = {<<u, site>>}
    BY <1>2, <2>1
  <2>5. /\ command[u].type = "-" /\ result[u] \subseteq {"bounce", "dislodged"}
        /\ "dislodged" \in result[u] <=> u \in DOMAIN dislodged
    BY <1>2, <2>1 DEF MarksInv
  <2>6. DOMAIN result = Units
    BY DEF TypeInv
  <2>7. result'[u] = {}
    BY <1>2, <2>1, <2>5, <2>6
  <2>8. \A v \in Units \ {u} : result'[v] = result[v]
    BY <1>2, <2>6
  <2>9. /\ DOMAIN dislodged' = DOMAIN dislodged \ {u}
        /\ \A v \in DOMAIN dislodged' : dislodged'[v] = dislodged[v]
    BY <1>2 DEF Drop
  <2>10. next' = "unbounce" => site' = u
    BY <1>2 DEF Vacate
  <2> QED
    <3>1. Moving(u)'
      BY <1>1, <2>5, <2>7 DEF Moving
    <3>2. Frees(u)
      BY <1>1, <1>2, <2>2, <2>3, <2>4, <2>8, <2>9, <2>10, <3>1 DEF Frees
    <3> QED
      BY <2>1, <3>2
<1> QED
  BY <1>1, <1>2 DEF Unbounce

\* Who is moved by step 10 stays so.
LEMMA MovesStay ==
    ASSUME TypeInv, OrdersInv, HelpInv, MarksInv, CombatInv, SiteInv, [Next]_vars, Dislodging,
           NEW u \in Units, Moving(u)
    PROVE  Moving(u)'
<1>1. command'[u].type = command[u].type
  BY CommandStays DEF Dislodging
<1>2. Rests(u) \/ Bounces(u) \/ HelpsNot(u) \/ IsDislodged(u) \/ IsFreed(u)
  BY LateMarks DEF Dislodging, Bouncing
<1> QED
  BY <1>1, <1>2 DEF Rests, Bounces, HelpsNot, IsDislodged, IsFreed, Dislodging, Moving

\* Step 10 is reached with nothing changed.
LEMMA ReachesDislodging ==
    ASSUME TypeInv, [Next]_vars, ~Dislodging, Dislodging'
    PROVE  next = "dislodgecut" /\ UNCHANGED <<command, result, combat, dislodged>> /\ left' = MayMove
<1>1. CutByDislodging /\ next = "dislodgecut"
  BY DEF Next, vars, control, Dislodging, GiveOrder, MatchConvoys, CountSupports, CutSupports,
     Strengths, DisruptMaybe, CutByConvoyed, DisruptDefinite, CancelConvoys, Strand, Free,
     BounceSwappers, BounceOutgunned, BounceSelfDislodger, CutByDislodging, Dislodge, Unbounce,
     Retreat
<1> DEFINE victims == {s \in Units : /\ command[s].type = "S" /\ result[s] = {}
                                    /\ \E u \in Units :
                                          /\ Moving(u) /\ command[u].to = s
                                          /\ command[u].via => command[s].to = u}
           lost(e) == {s \in victims : <<command[s].of, command[s].to>> = e}
<1>2. /\ victims = {} /\ left' = MayMove /\ dislodged' = dislodged /\ command' = command
      /\ result' = Mark(victims, "cut")
      /\ combat' = [e \in DOMAIN combat |-> combat[e] - Cardinality(lost(e))]
  BY <1>1 DEF CutByDislodging, Dislodging, orders
<1>3. \A e : Cardinality(lost(e)) = 0
  BY <1>2, FS_EmptySet
<1> HIDE DEF lost, victims
<1>4. combat' = combat
  <2>1. \A e \in DOMAIN combat : combat[e] \in Int
    BY DEF TypeInv, IsDict
  <2>2. combat = [e \in DOMAIN combat |-> combat[e]]
    BY DEF TypeInv, IsDict
  <2>3. combat' = [e \in DOMAIN combat |-> combat[e] - 0]
    BY <1>2, <1>3
  <2> QED
    BY <2>1, <2>2, <2>3
<1>5. result' = result
  BY <1>2 DEF Mark, TypeInv
<1> QED
  BY <1>1, <1>2, <1>4, <1>5

\* Step 9 is reached when no unit is outgunned.
LEMMA ReachesDislodgeCut ==
    ASSUME TypeInv, [Next]_vars, next' = "dislodgecut", next # "dislodgecut"
    PROVE  /\ UNCHANGED <<command, result, combat, dislodged>>
           /\ \A u \in Units : ~Outgunned(u)
<1>1. BounceOutgunned
  BY DEF Next, vars, control, GiveOrder, MatchConvoys, CountSupports, CutSupports,
     Strengths, DisruptMaybe, CutByConvoyed, DisruptDefinite, CancelConvoys, Strand, Free,
     BounceSwappers, BounceOutgunned, BounceSelfDislodger, CutByDislodging, Dislodge, Unbounce,
     Vacate, Retreat
<1> DEFINE losers == {u \in Units : Outgunned(u)}
<1>2. losers = {} /\ result' = Mark(losers, "bounce") /\ combat' = Bounced(losers)
      /\ dislodged' = dislodged /\ command' = command
  BY <1>1 DEF BounceOutgunned, orders
<1>3. result' = result
  BY <1>2 DEF Mark, TypeInv
<1>4. combat' = combat
  <2>1. combat = [e \in DOMAIN combat |-> combat[e]]
    BY DEF TypeInv, IsDict
  <2> DEFINE D == DOMAIN combat \cup {<<u, u>> : u \in losers}
  <2>2. combat' = [e \in D |-> IF e \in DOMAIN combat THEN combat[e] ELSE 1]
    BY <1>2 DEF Bounced
  <2>3. D = DOMAIN combat
    BY <1>2
  <2> HIDE DEF D
  <2> QED
    BY <2>1, <2>2, <2>3
<1> QED
  BY <1>2, <1>3, <1>4

\* The movers win where they go, each alone.
LEMMA AloneStep ==
    ASSUME TypeInv, OrdersInv, HelpInv, MarksInv, CombatInv, SiteInv, AloneInv, [Next]_vars
    PROVE  AloneInv'
<1>1. Units' = Units
  BY OwnerStays
<1>2. CASE ~Dislodging /\ ~Dislodging'
  <2>1. CASE next = "dislodgecut"
    <3>1. next' = "dislodgecut" => UNCHANGED vars
      BY <1>2, <2>1 DEF Next, GiveOrder, MatchConvoys, CountSupports, CutSupports,
         Strengths, DisruptMaybe, CutByConvoyed, DisruptDefinite, CancelConvoys,
         BounceSwappers, BounceOutgunned, BounceSelfDislodger, CutByDislodging, Dislodge, Unbounce,
         Retreat
    <3>2. UNCHANGED vars => AloneInv'
      BY <1>1 DEF AloneInv, vars, orders, strengths, control, Moving, Strongest, EntriesAt, Dislodging
    <3> QED
      BY <1>2, <3>1, <3>2 DEF AloneInv
  <2>2. CASE next # "dislodgecut" /\ next' = "dislodgecut"
    <3>1. UNCHANGED <<command, result, combat>> /\ \A u \in Units : ~Outgunned(u)
      BY <2>2, ReachesDislodgeCut
    <3> QED
      BY <1>1, <3>1 DEF AloneInv, Outgunned, Moving, Strongest, EntriesAt
  <2> QED
    BY <1>2, <2>1, <2>2 DEF AloneInv
<1>3. CASE ~Dislodging /\ Dislodging'
  <2>1. next = "dislodgecut" /\ UNCHANGED <<command, result, combat>>
    BY <1>3, ReachesDislodging
  <2> QED
    BY <1>1, <2>1 DEF AloneInv, Moving, Strongest, EntriesAt
<1>4. CASE Dislodging
  <2>1. IsDict(combat, Units \X Places, Int)
    BY DEF TypeInv
  <2>2. SUFFICES ASSUME NEW u \in Units, Moving(u)', NEW p, p = command[u].to
                 PROVE  Strongest(p)' = {<<u, p>>}
    <3>1. \A u \in Units : command'[u].to = command[u].to
      BY <1>4, CommandStays DEF Dislodging
    <3> QED
      BY <1>1, <3>1 DEF AloneInv, Strongest, EntriesAt
  <2>3. Moving(u) => Strongest(p) = {<<u, p>>}
    BY <1>4, <2>2 DEF AloneInv
  <2>4. CASE UNCHANGED <<command, result, combat>>
    <3>1. Moving(u)
      BY <2>2, <2>4 DEF Moving
    <3> QED
      BY <2>3, <2>4, <3>1, StrongestStays
  <2>5. CASE Dislodge
    <3>1. Moving(u)
      BY <2>2, <2>5, DislodgeVisits
    <3>2. PICK w \in left : Visit(w)
      BY <2>5, DislodgeVisits
    <3>3. CASE combat' = combat
      BY <2>3, <3>1, <3>3, StrongestStays
    <3>4. CASE ~Moving(command[w].to) /\ combat' = Drop(combat, <<command[w].to, w>>)
      <4>1. <<u, p>> # <<command[w].to, w>>
        BY <3>1, <3>4
      <4> QED
        BY <2>1, <2>3, <3>1, <3>4, <4>1, DropAlone
    <3> QED
      BY <3>2, <3>3, <3>4 DEF Visit, WithoutLoser
  <2>6. CASE Unbounce
    <3>1. CASE \E w \in Units : Frees(w)
      <4>1. PICK w \in Units : Frees(w)
        BY <3>1
      <4>2. Strongest(p) = {<<u, p>>}
        <5>1. CASE u = w
          BY <2>2, <4>1, <5>1 DEF Frees
        <5>2. CASE u # w
          <6>1. command' = command /\ result'[u] = result[u]
            BY <2>6, <4>1, <5>2, UnbounceFrees DEF Frees
          <6> QED
            BY <2>2, <2>3, <6>1 DEF Moving
        <5> QED
          BY <5>1, <5>2
      <4>3. <<u, p>> # <<w, w>>
        <5>1. command[w].to # w
          BY <4>1 DEF Frees
        <5> QED
          BY <2>2, <5>1
      <4>4. CASE combat' = combat
        BY <4>2, <4>4, StrongestStays
      <4>5. CASE combat' = Drop(combat, <<w, w>>)
        BY <2>1, <4>2, <4>3, <4>5, DropAlone
      <4> QED
        BY <4>1, <4>4, <4>5 DEF Frees
    <3> QED
      BY <2>4, <2>6, <3>1, UnbounceFrees
  <2>7. CASE Retreat
    BY <2>4, <2>7 DEF Retreat, orders, strengths
  <2> QED
    BY <1>4, <2>4, <2>5, <2>6, <2>7
    DEF Next, vars, orders, strengths, Dislodging, GiveOrder, MatchConvoys, CountSupports, CutSupports,
       Strengths, DisruptMaybe, CutByConvoyed, DisruptDefinite, CancelConvoys,
       BounceSwappers, BounceOutgunned, BounceSelfDislodger, CutByDislodging
<1> QED
  BY <1>2, <1>3, <1>4

\* Each unit that is dislodged has an attacker that moves to its place.
LEMMA AttackersStep ==
    ASSUME TypeInv, OrdersInv, HelpInv, MarksInv, CombatInv, SiteInv, AttackersInv, [Next]_vars
    PROVE  AttackersInv'
<1>1. CASE ~Dislodging
  <2>1. \A u \in Units : u \notin DOMAIN dislodged
    BY <1>1 DEF MarksInv
  <2>2. DOMAIN dislodged \subseteq Units
    BY DEF TypeInv, IsDict
  <2> QED
    BY <1>1, <2>1, <2>2, EarlyDislodged DEF AttackersInv
<1>2. CASE Dislodging
  <2>1. \A u \in Units : command'[u].to = command[u].to
    BY <1>2, CommandStays DEF Dislodging
  <2>2. \A u \in DOMAIN dislodged : dislodged[u] \in Units
    BY DEF TypeInv, IsDict
  <2>3. \A u \in Units : Moving(u) => Moving(u)'
    BY <1>2, MovesStay
  <2>4. SUFFICES ASSUME NEW u \in DOMAIN dislodged',
                        NEW v, v = dislodged'[u],
                        ~(u \in DOMAIN dislodged /\ v = dislodged[u])
                 PROVE  v \in Units /\ Moving(v) /\ command[v].to = u
    <3>1. \A v : Moving(v)' <=> command'[v].type = "-" /\ result'[v] = {}
      BY DEF Moving
    <3> QED
      BY <2>1, <2>2, <2>3, <3>1 DEF AttackersInv, Moving
  <2>5. CASE Dislodge
    <3>1. PICK w \in left : Visit(w)
      BY <2>5, DislodgeVisits
    <3>2. u = command[w].to /\ v = w /\ Moving(w)
      BY <2>4, <3>1 DEF Visit, Put
    <3>3. w \in Units
      BY DEF TypeInv
    <3> QED
      BY <3>2, <3>3
  <2>6. CASE Unbounce
    BY <2>4, <2>6, UnbounceFrees DEF Frees
  <2>7. CASE UNCHANGED dislodged
    BY <2>4, <2>7
  <2> QED
    BY <1>2, <2>5, <2>6, <2>7
    DEF Next, vars, Dislodging, GiveOrder, MatchConvoys, CountSupports, CutSupports,
       Strengths, DisruptMaybe, CutByConvoyed, DisruptDefinite, CancelConvoys, Retreat,
       BounceSwappers, BounceOutgunned, BounceSelfDislodger, CutByDislodging
<1> QED
  BY <1>1, <1>2

\* The movers that were visited have dislodged who stood in their way.
LEMMA VisitedStep ==
    ASSUME TypeInv, OrdersInv, HelpInv, MarksInv, CombatInv, SiteInv, AloneInv, VisitedInv,
           [Next]_vars
    PROVE  VisitedInv'
<1> SUFFICES ASSUME Dislodging',
                    NEW u \in Units, u \notin left', Moving(u)',
                    NEW p \in Units, p = command'[u].to, ~Moving(p)'
             PROVE  p \in DOMAIN dislodged'
  BY OwnerStays DEF VisitedInv
<1>1. CASE ~Dislodging
  <2>1. UNCHANGED <<command, result>> /\ left' = MayMove
    BY <1>1, ReachesDislodging
  <2>2. Moving(u)
    BY <2>1 DEF Moving
  <2> QED
    BY <2>1, <2>2 DEF MayMove, Moving
<1>2. CASE Dislodging
  <2>1. p = command[u].to
    BY <1>2, CommandStays DEF Dislodging
  <2>2. ~Moving(p)
    BY <1>2, MovesStay
  <2>3. Moving(u) /\ u \notin left => p \in DOMAIN dislodged
    BY <1>2, <2>1, <2>2 DEF VisitedInv
  <2>4. CASE UNCHANGED <<command, result, dislodged, left>>
    BY <2>3, <2>4 DEF Moving
  <2>5. CASE Dislodge
    <3>1. PICK w \in left : Visit(w)
      BY <2>5, DislodgeVisits
    <3>2. Moving(u)
      BY <2>5, DislodgeVisits
    <3>3. CASE u = w
      BY <2>1, <2>2, <3>1, <3>2, <3>3 DEF Visit, Put
    <3>4. CASE u # w
      BY <2>3, <3>1, <3>2, <3>4 DEF Visit, Put
    <3> QED
      BY <3>3, <3>4
  <2>6. CASE Unbounce
    <3>1. left' = left /\ command' = command
      BY <2>6, UnbounceFrees
    <3>2. CASE \E w \in Units : Frees(w)
      <4>1. PICK w \in Units : Frees(w)
        BY <3>2
      <4>2. u # w
        BY <2>1, <2>2, <4>1 DEF Frees
      <4>3. p # w
        BY <4>1 DEF Frees
      <4>4. Moving(u)
        BY <3>1, <4>1, <4>2 DEF Frees, Moving
      <4> QED
        BY <2>3, <3>1, <4>1, <4>3, <4>4 DEF Frees
    <3> QED
      BY <2>4, <2>6, <3>1, <3>2, UnbounceFrees
  <2>7. CASE Retreat
    BY <2>4, <2>7 DEF Retreat, orders
  <2> QED
    BY <1>2, <2>4, <2>5, <2>6, <2>7
    DEF Next, vars, orders, control, Dislodging, GiveOrder, MatchConvoys, CountSupports, CutSupports,
       Strengths, DisruptMaybe, CutByConvoyed, DisruptDefinite, CancelConvoys,
       BounceSwappers, BounceOutgunned, BounceSelfDislodger, CutByDislodging
<1> QED
  BY <1>1, <1>2

\* The place to unbounce is one that was left.
LEMMA SiteStep ==
    ASSUME TypeInv, OrdersInv, HelpInv, MarksInv, CombatInv, SiteInv, [Next]_vars
    PROVE  SiteInv'
<1>1. CASE UNCHANGED vars
  BY <1>1 DEF SiteInv, vars, orders, control, Moving
<1>2. CASE Dislodge
  <2>1. PICK w \in left : Visit(w)
    BY <1>2, DislodgeVisits
  <2>2. w \in Units
    BY DEF TypeInv
  <2>3. Moving(w) => Moving(w)'
    BY <1>2, <2>2, DislodgeVisits
  <2>4. next' # "done"
    BY <1>2 DEF Dislodge, Vacate
  <2> QED
    BY <2>1, <2>3, <2>4 DEF Visit, SiteInv, Moving
<1>3. CASE Unbounce
  <2>1. next' # "done"
    BY <1>3 DEF Unbounce, Vacate
  <2>2. next' = "unbounce" => \E w \in Units : Moving(w)' /\ site' = w
    BY <1>3, UnbounceFrees DEF Frees
  <2> QED
    BY <2>1, <2>2 DEF SiteInv, Moving
<1>4. CASE Retreat
  BY <1>4 DEF Retreat, SiteInv
<1>5. next' \in {"unbounce", "done"} => UNCHANGED vars \/ Dislodge \/ Unbounce \/ Retreat
  BY DEF Next, GiveOrder, MatchConvoys, CountSupports, CutSupports, Strand, Free,
       Strengths, DisruptMaybe, CutByConvoyed, DisruptDefinite, CancelConvoys,
       BounceSwappers, BounceOutgunned, BounceSelfDislodger, CutByDislodging
<1> QED
  BY <1>1, <1>2, <1>3, <1>4, <1>5 DEF SiteInv

----------------------------------------------------------------------------
(* The disruptions.                                                         *)

\* Every set of numbers that is not empty has a least one.
LEMMA LeastNumber ==
    ASSUME NEW T \in SUBSET Nat, T # {}
    PROVE  \E n \in T : \A m \in T : n <= m
<1>1. PICK n \in T : \A m \in T : ~(<<m, n>> \in OpToRel(<, Nat))
  BY NatLessThanWellFounded, WFMin
<1>2. \A m \in T : ~(m < n)
  BY <1>1 DEF OpToRel
<1>3. ASSUME NEW m \in T PROVE n <= m
  <2>1. n \in Nat /\ m \in Nat
    OBVIOUS
  <2> QED
    BY <1>2, <2>1
<1> QED
  BY <1>3

\* The paths left before and after each visit.
LEMMA PathsLeftValue ==
    ASSUME NEW fleets, Len(fleets) \in Nat, NEW paths, NEW disrupted
    PROVE  PathsLeft(paths, fleets, disrupted)
             = [n \in 0..Len(fleets) |->
                  IF n = 0 THEN paths
                  ELSE IF fleets[n] \in disrupted
                  THEN WithoutPlace(PathsLeft(paths, fleets, disrupted)[n - 1], fleets[n])
                  ELSE PathsLeft(paths, fleets, disrupted)[n - 1]]
<1> DEFINE Next1(list, n) ==
             IF n = 0 THEN paths
             ELSE IF fleets[n] \in disrupted THEN WithoutPlace(list[n - 1], fleets[n])
             ELSE list[n - 1]
           Upto(m) == \E list : list = [n \in 0..m |-> Next1(list, n)]
           bad == {m \in Nat : ~Upto(m)}
<1>1. Upto(0)
  <2>1. [n \in 0..0 |-> paths] = [n \in 0..0 |-> Next1([k \in 0..0 |-> paths], n)]
    OBVIOUS
  <2> QED
    BY <2>1
<1>2. ASSUME NEW m \in Nat, Upto(m) PROVE Upto(m + 1)
  <2>1. PICK list : list = [n \in 0..m |-> Next1(list, n)]
    BY <1>2
  <2> DEFINE longer == [n \in 0..(m + 1) |-> IF n = m + 1 THEN Next1(list, n) ELSE list[n]]
  <2>2. ASSUME NEW n \in 0..(m + 1) PROVE longer[n] = Next1(longer, n)
    <3>1. CASE n = 0
      BY <2>1, <3>1
    <3>2. CASE n # 0
      <4>1. n - 1 \in 0..m /\ n - 1 \in 0..(m + 1) /\ n - 1 # m + 1
        BY <3>2
      <4>2. longer[n - 1] = list[n - 1]
        BY <4>1
      <4>3. longer[n] = Next1(list, n)
        <5>1. CASE n = m + 1
          BY <5>1
        <5>2. CASE n # m + 1
          <6>1. n \in 0..m
            BY <5>2
          <6>2. longer[n] = list[n]
            BY <5>2
          <6> HIDE DEF Next1, longer
          <6> QED
            BY <2>1, <6>1, <6>2
        <5> QED
          BY <5>1, <5>2
      <4> QED
        BY <3>2, <4>2, <4>3
    <3> QED
      BY <3>1, <3>2
  <2>3. DOMAIN longer = 0..(m + 1) /\ longer = [n \in 0..(m + 1) |-> longer[n]]
    OBVIOUS
  <2> HIDE DEF longer, Next1
  <2>4. longer = [n \in 0..(m + 1) |-> Next1(longer, n)]
    BY <2>2, <2>3
  <2> QED
    BY <2>4
<1> HIDE DEF Upto
<1>3. bad = {}
  <2> SUFFICES ASSUME bad # {} PROVE FALSE
    OBVIOUS
  <2>1. PICK m \in bad : \A k \in bad : m <= k
    BY LeastNumber
  <2>2. m # 0 /\ m \in Nat
    BY <1>1, <2>1
  <2>3. m - 1 \in Nat /\ m - 1 \notin bad
    BY <2>1, <2>2
  <2>4. Upto(m - 1) /\ m - 1 + 1 = m
    BY <2>2, <2>3
  <2> QED
    BY <1>2, <2>1, <2>3, <2>4
<1>4. PICK list : list = [n \in 0..Len(fleets) |-> Next1(list, n)]
  <2>1. Upto(Len(fleets))
    BY <1>3
  <2> QED
    BY <2>1 DEF Upto
<1> QED
  BY <1>4 DEF PathsLeft

\* Where no path is left, none is later.
LEMMA NoneLeft ==
    ASSUME NEW fleets, Len(fleets) \in Nat, NEW paths, NEW disrupted,
           NEW k \in 0..Len(fleets), PathsLeft(paths, fleets, disrupted)[k] = <<>>
    PROVE  \A n \in k..Len(fleets) : PathsLeft(paths, fleets, disrupted)[n] = <<>>
<1> DEFINE list == PathsLeft(paths, fleets, disrupted)
           bad == {n \in k..Len(fleets) : list[n] # <<>>}
<1>1. \A c : WithoutPlace(<<>>, c) = <<>>
  <2>1. ASSUME NEW c, NEW removed
        PROVE  {j \in DOMAIN <<>> : ~removed[j]} = {}
    OBVIOUS
  <2> QED
    BY <2>1, FS_EmptySet DEF WithoutPlace
<1> SUFFICES ASSUME bad # {} PROVE FALSE
  OBVIOUS
<1>0. bad \in SUBSET Nat /\ bad # {}
  OBVIOUS
<1>2. PICK n \in bad : \A m \in bad : n <= m
  <2> HIDE DEF bad
  <2> QED
    BY <1>0, LeastNumber
<1>3. n # k /\ n \in 1..Len(fleets) /\ n - 1 \in k..Len(fleets) /\ n - 1 \notin bad
  BY <1>2
<1>4. list[n - 1] = <<>>
  BY <1>3
<1> HIDE DEF bad
<1>5. list[n] = IF fleets[n] \in disrupted THEN WithoutPlace(list[n - 1], fleets[n]) ELSE list[n - 1]
  BY <1>3, PathsLeftValue
<1> QED
  BY <1>1, <1>2, <1>4, <1>5 DEF bad

----------------------------------------------------------------------------
(* The convoys are settled.                                                 *)

\* Marks come with the steps; the armies with convoys move, by fleets that convoy.
FleetsInv ==
    /\ next \in {"orders", "convoy"} => DOMAIN may_convoy = {} /\ \A u \in Units : result[u] = {}
    /\ \A u \in DOMAIN may_convoy :
          /\ command[u].type = "-"
          /\ Len(may_convoy[u]) \in Nat /\ DOMAIN may_convoy[u] = 1..Len(may_convoy[u])
          /\ \A c \in Range(may_convoy[u]) : command[c].type = "C"

\* The marks of a unit before the bounces, by its order.
KindsInv ==
    ~Bouncing => \A u \in Units :
        /\ u \in DOMAIN may_convoy => result[u] \in {{}, {"maybe"}, {"no convoy"}}
        /\ u \notin DOMAIN may_convoy => "maybe" \notin result[u]
        /\ next \notin {"orders", "convoy"} =>
              /\ command[u].type = "-" /\ u \notin DOMAIN may_convoy => result[u] \subseteq {"no convoy"}
              /\ command[u].type = "S" => result[u] \subseteq {"void", "cut", "no convoy"}

\* Step 4 for the first time: until then no army is stranded.
First == next \in {"count", "cut", "strengths", "maybe", "convoycut"} /\ cutters = {}

\* Step 5 will strand the army, as step 4 marked it for what has not changed since.
StaysFor(u) == next \in {"convoycut", "definite"} /\ MustStay(u)

\* After it each army that was not marked has cut.
RoundsInv ==
    /\ next \in {"count", "cut"} => cutters = {}
    /\ next = "again" => cutters # {}
    /\ First => \A u \in Units : "no convoy" \in result[u] =>
                    command[u].type # "S" /\ u \notin DOMAIN may_convoy
    /\ next \in {"strengths", "maybe", "convoycut", "definite", "cancel", "again"} /\ ~First =>
          \A u \in DOMAIN may_convoy : result[u] = {} => u \in cutters

\* An army marked in step 4 is stranded or freed in step 5.
UndecidedInv ==
    \A u \in Units : "maybe" \in result[u] =>
        /\ next \in {"strengths", "maybe", "convoycut", "definite", "cancel", "again"}
        /\ u \in cutters => StaysFor(u)
        /\ next \in {"cancel", "again"} => u \in left

\* Supports are of no use only to an army that is stranded.
StrandedInv ==
    ~Bouncing /\ next \notin {"orders", "convoy"} =>
        \A s, a \in Units :
            command[s].type = "S" /\ command[s].of = a /\ "no convoy" \in result[s] =>
                a \in DOMAIN may_convoy /\ ("no convoy" \in result[a] \/ StaysFor(a))

\* An army that _check_disruptions marks would be marked once more.
LEMMA MarkedAgain ==
    ASSUME FleetsInv, NEW u \in DOMAIN may_convoy, MustStay(u),
           CheckDisruptions("maybe", {}), UNCHANGED <<owner, command, may_convoy, combat>>
    PROVE  MustStay(u)'
<1> DEFINE m == Len(may_convoy[u])
<1>1. PICK n \in DOMAIN may_convoy[u] :
          /\ may_convoy[u][n] \in Disrupted(u) /\ PathsAfter(u)[n] = <<>>
          /\ \/ command[u].to \notin Reach(u) \/ command[u].via
             \/ SupportsAttack(u, may_convoy[u][n])
  BY DEF MustStay
<1>2. m \in Nat /\ DOMAIN may_convoy[u] = 1..m
  BY DEF FleetsInv
<1>3. PathsAfter(u)[m] = <<>>
  <2>1. n \in 0..m /\ m \in n..m
    BY <1>1, <1>2
  <2> QED
    BY <1>1, <1>2, <2>1, NoneLeft DEF PathsAfter
<1>4. convoy_paths'[u] = <<>>
  BY <1>3 DEF CheckDisruptions
<1>5. \A c, S : IsDisrupted(u, c, S)' = IsDisrupted(u, c, S)
  <2>1. \A p : Chain(p)' = Chain(p)
    BY DEF Chain, Units
  <2> QED
    BY <2>1 DEF IsDisrupted, SupportsConvoy, Attacks, Units
<1>6. \A c : Strongest(c)' = Strongest(c)
  BY DEF Strongest, EntriesAt
<1>7. Disrupted(u)' = Disrupted(u)
  BY <1>5, <1>6 DEF Disrupted
<1>8. \A c : SupportsAttack(u, c)' = SupportsAttack(u, c)
  <2>1. \A p : Chain(p)' = Chain(p)
    BY DEF Chain, Units
  <2> QED
    BY <2>1 DEF SupportsAttack
<1>9. Reach(u)' = Reach(u)
  BY DEF Reach
<1>10. PathsAfter(u)'[n] = <<>>
  <2>1. PathsAfter(u)' = PathsLeft(<<>>, may_convoy[u], Disrupted(u))
    BY <1>4, <1>7 DEF PathsAfter
  <2>2. 0 \in 0..m /\ n \in 0..m
    BY <1>1, <1>2
  <2>3. PathsLeft(<<>>, may_convoy[u], Disrupted(u))[0] = <<>>
    BY <1>2, <2>2, PathsLeftValue
  <2> QED
    BY <1>2, <2>1, <2>2, <2>3, NoneLeft
<1> QED
  BY <1>1, <1>7, <1>8, <1>9, <1>10 DEF MustStay

\* The armies with convoys are the same after step 1.
LEMMA CarriedStay ==
    ASSUME [Next]_vars, next # "convoy"
    PROVE  may_convoy' = may_convoy
  BY DEF Next, vars, orders, GiveOrder, MatchConvoys, CountSupports, CutSupports, Strengths,
     DisruptMaybe, CutByConvoyed, DisruptDefinite, CancelConvoys, BounceSwappers,
     BounceOutgunned, BounceSelfDislodger, CutByDislodging, Dislodge, Unbounce, Retreat

\* The first steps come once.
LEMMA FirstSteps ==
    ASSUME [Next]_vars
    PROVE  /\ next' = "orders" => next = "orders"
           /\ next' = "convoy" => next \in {"orders", "convoy"}
           /\ next' \in {"orders", "convoy"} => UNCHANGED <<may_convoy, result>>
<1>1. CASE next' \in {"orders", "convoy"}
  BY <1>1 DEF Next, vars, control, orders, GiveOrder, MatchConvoys, CountSupports, CutSupports, Strengths,
     DisruptMaybe, CutByConvoyed, DisruptDefinite, CancelConvoys, Strand, Free, BounceSwappers,
     BounceOutgunned, BounceSelfDislodger, CutByDislodging, Dislodge, Unbounce, Vacate, Retreat
<1> QED
  BY <1>1

\* Step 1 finds fleets that convoy, for armies that move.
LEMMA MatchedFleets ==
    ASSUME TypeInv, MatchConvoys, NEW u \in DOMAIN may_convoy'
    PROVE  /\ u \in MovingArmies /\ ConvoyPaths(u) # {}
           /\ Len(may_convoy'[u]) \in Nat /\ DOMAIN may_convoy'[u] = 1..Len(may_convoy'[u])
           /\ \A c \in Range(may_convoy'[u]) : c \in Convoying(u)
<1>1. u \in MovingArmies /\ ConvoyPaths(u) # {} /\ may_convoy'[u] \in SetToSeqs(Carriers(u))
  BY DEF MatchConvoys
<1>2. Carriers(u) \subseteq Convoying(u)
  BY DEF Carriers, ConvoyPaths
<1>3. Cardinality(Carriers(u)) \in Nat
  BY <1>2, UnitsFinite DEF Convoying, TypeInv
<1>4. may_convoy'[u] \in [1..Cardinality(Carriers(u)) -> Carriers(u)]
  BY <1>1 DEF SetToSeqs
<1>5. may_convoy'[u] \in Seq(Carriers(u))
  BY <1>3, <1>4, SeqDef
<1>6. Range(may_convoy'[u]) \subseteq Carriers(u)
  BY <1>4 DEF Range
<1> QED
  BY <1>1, <1>2, <1>5, <1>6, LenProperties

\* Every step keeps what is known of the armies with convoys.
LEMMA FleetsStep == TypeInv /\ OrdersInv /\ FleetsInv /\ [Next]_vars => FleetsInv'
<1> SUFFICES ASSUME TypeInv, OrdersInv, FleetsInv, [Next]_vars PROVE FleetsInv'
  OBVIOUS
<1>1. Units' = Units
  BY OwnerStays
<1>2. CASE MatchConvoys
  <2>1. next = "convoy" /\ next' = "count"
    BY <1>2 DEF MatchConvoys
  <2>2. \A u \in Units : command'[u].type = command[u].type
    BY <2>1, CommandStays
  <2>3. \A u \in MovingArmies : u \in Units /\ command[u].type = "-"
    BY DEF MovingArmies, Armies
  <2>4. \A u : \A c \in Convoying(u) : c \in Units /\ command[c].type = "C"
    BY DEF Convoying, Convoy
  <2> QED
    BY <1>2, <2>1, <2>2, <2>3, <2>4, MatchedFleets DEF FleetsInv
<1>3. CASE ~MatchConvoys /\ next = "convoy"
  <2>1. UNCHANGED vars
    BY <1>3 DEF Next, Done, GiveOrder, MatchConvoys, CountSupports, CutSupports, Strengths,
     DisruptMaybe, CutByConvoyed, DisruptDefinite, CancelConvoys, BounceSwappers,
     BounceOutgunned, BounceSelfDislodger, CutByDislodging, Dislodge, Unbounce, Retreat
  <2> QED
    BY <1>1, <2>1 DEF vars, orders, control, FleetsInv
<1>4. CASE next # "convoy"
  <2>1. may_convoy' = may_convoy
    BY <1>4, CarriedStay
  <2>2. next' \in {"orders", "convoy"} => next = "orders" /\ result' = result
    BY <1>4, FirstSteps
  <2>3. \A u \in DOMAIN may_convoy : next # "orders" /\ u \in Units /\ Range(may_convoy[u]) \subseteq Units
    BY DEF FleetsInv, TypeInv
  <2>4. next # "orders" => \A u \in Units : command'[u].type = command[u].type
    BY CommandStays
  <2> QED
    BY <1>1, <2>1, <2>2, <2>3, <2>4 DEF FleetsInv
<1> QED
  BY <1>2, <1>3, <1>4

----------------------------------------------------------------------------
(* What the steps of the convoys do to the marks and supports.              *)

CutOf(attackers) == {s \in Units : \E u \in attackers : Cuts(u, s)}

\* The cuts of any attackers.
LEMMA CutByFacts ==
    ASSUME NEW attackers, NEW freed, CutBy(attackers, freed)
    PROVE  /\ \A u \in Units : result'[u] = IF u \in freed THEN {}
                                 ELSE result[u] \cup IF u \in CutOf(attackers) THEN {"cut"} ELSE {}
           /\ \A u \in Units : supports'[u]
                  = supports[u] - Cardinality({s \in CutOf(attackers) : command[s].of = u})
           /\ \A s \in CutOf(attackers) :
                  s \in Units /\ command[s].type = "S" /\ result[s] \cap {"cut", "void"} = {}
           /\ attackers = {} => CutOf(attackers) = {}
<1>1. \A s \in CutOf(attackers) :
          s \in Units /\ command[s].type = "S" /\ result[s] \cap {"cut", "void"} = {}
  BY DEF CutOf, Cuts
<1>2. /\ result' = [u \in Units |-> IF u \in freed THEN {} ELSE Mark(CutOf(attackers), "cut")[u]]
      /\ supports' = [u \in Units |->
            supports[u] - Cardinality({s \in CutOf(attackers) : command[s].of = u})]
  BY DEF CutBy, CutOf
<1>3. attackers = {} => CutOf(attackers) = {}
  BY DEF CutOf
<1>4. \A u \in Units : Mark(CutOf(attackers), "cut")[u]
          = result[u] \cup IF u \in CutOf(attackers) THEN {"cut"} ELSE {}
  BY MarkValue
<1>5. \A u \in Units : result'[u] = IF u \in freed THEN {}
          ELSE result[u] \cup IF u \in CutOf(attackers) THEN {"cut"} ELSE {}
  BY <1>2, <1>4
<1>6. \A u \in Units : supports'[u]
          = supports[u] - Cardinality({s \in CutOf(attackers) : command[s].of = u})
  BY <1>2
<1> QED
  BY <1>1, <1>3, <1>5, <1>6

\* Convoys are disrupted.
LEMMA CheckFacts ==
    ASSUME TypeInv, FleetsInv, NEW mark, NEW fleetMark, CheckDisruptions(mark, fleetMark)
    PROVE  /\ \A u \in DOMAIN may_convoy : result'[u] = IF MustStay(u) THEN {mark} ELSE result[u]
           /\ \A u \in Units \ DOMAIN may_convoy :
                  command[u].type \in {"-", "S"} => result'[u] = result[u]
           /\ \A u \in Units \ DOMAIN may_convoy :
                  result'[u] = result[u] \/ result'[u] = fleetMark
<1>1. \A u \in DOMAIN may_convoy : \A v \in Disrupted(u) : command[v].type = "C"
  BY DEF FleetsInv, Disrupted
<1>2. DOMAIN may_convoy \subseteq Units /\ \A u \in DOMAIN may_convoy : command[u].type = "-"
  BY DEF TypeInv, FleetsInv
<1> QED
  BY <1>1, <1>2 DEF CheckDisruptions

\* An army is stranded.
HelpersOf(u) ==
    {s \in Units : /\ command[s].type \in {"S", "C"} /\ command[s].of = u /\ result[s] = {}}

\* What the stranding of u does to the marks and the supports.
LEMMA StrandFacts ==
    ASSUME TypeInv, NEW u \in Units, Strand(u)
    PROVE  /\ \A s \in Units : result'[s] = result[s] \cup IF s \in HelpersOf(u) THEN {"no convoy"} ELSE {}
           /\ supports'[u] = 0 /\ \A v \in Units \ {u} : supports'[v] = supports[v]
<1>1. result' = Mark(HelpersOf(u), "no convoy")
  BY DEF Strand, HelpersOf
<1>2. \A s \in Units : result'[s] = result[s] \cup IF s \in HelpersOf(u) THEN {"no convoy"} ELSE {}
  <2>1. \A s \in Units : Mark(HelpersOf(u), "no convoy")[s]
            = result[s] \cup IF s \in HelpersOf(u) THEN {"no convoy"} ELSE {}
    BY DEF Mark
  <2> QED
    BY <1>1, <2>1
<1>3. supports' = [supports EXCEPT ![u] = 0] /\ supports \in [Units -> Int]
  BY DEF Strand, TypeInv
<1>4. supports'[u] = 0 /\ \A v \in Units \ {u} : supports'[v] = supports[v]
  BY <1>3
<1> QED
  BY <1>2, <1>4

\* The steps before the bounces.
LEMMA EarlySteps ==
    ASSUME [Next]_vars, ~Bouncing
    PROVE  \/ UNCHANGED vars \/ GiveOrder \/ MatchConvoys \/ CountSupports \/ CutSupports \/ Strengths
           \/ DisruptMaybe \/ CutByConvoyed \/ DisruptDefinite \/ CancelConvoys
  BY DEF Next, Bouncing, BounceSwappers, BounceOutgunned, BounceSelfDislodger, CutByDislodging,
     Dislodge, Unbounce, Retreat

\* The orders and the armies with convoys in these steps.
LEMMA Settled ==
    ASSUME TypeInv, OrdersInv, [Next]_vars, next \notin {"orders", "convoy"}
    PROVE  /\ Units' = Units /\ UNCHANGED <<owner, command, may_convoy>>
           /\ next' \notin {"orders", "convoy"}
<1>1. UNCHANGED <<owner, command>>
  BY DEF Next, vars, orders, strengths, control, GiveOrder, MatchConvoys, CountSupports, CutSupports,
     Strengths, DisruptMaybe, CutByConvoyed, DisruptDefinite, CancelConvoys, BounceSwappers,
     BounceOutgunned, BounceSelfDislodger, CutByDislodging, Dislodge, Unbounce, Retreat
<1> QED
  BY <1>1, CarriedStay, FirstSteps DEF Units

\* What these steps do to the marks of a unit, by its order.
KindStep(u) ==
    /\ u \in DOMAIN may_convoy => result'[u] \in {result[u], {}, {"maybe"}, {"no convoy"}}
    /\ u \notin DOMAIN may_convoy => ("maybe" \in result'[u] => "maybe" \in result[u])
    /\ command[u].type = "-" /\ u \notin DOMAIN may_convoy => result'[u] = result[u]
    /\ command[u].type = "S" =>
          result[u] \subseteq result'[u] /\ result'[u] \subseteq result[u] \cup {"void", "cut", "no convoy"}

\* Each of these steps does no more than that to a unit.
LEMMA KindSteps ==
    ASSUME TypeInv, OrdersInv, FleetsInv, [Next]_vars, ~Bouncing, next \notin {"orders", "convoy"},
           NEW u \in Units
    PROVE  KindStep(u)
<1>1. CASE UNCHANGED result
  BY <1>1 DEF KindStep
<1>2. u \in DOMAIN may_convoy => command[u].type = "-"
  BY DEF FleetsInv
<1>3. ASSUME NEW attackers, NEW freed \in SUBSET DOMAIN may_convoy, CutBy(attackers, freed)
      PROVE  KindStep(u)
  <2>1. result'[u] = IF u \in freed THEN {}
                     ELSE result[u] \cup IF u \in CutOf(attackers) THEN {"cut"} ELSE {}
    BY <1>3, CutByFacts
  <2>2. u \in CutOf(attackers) => command[u].type = "S"
    BY <1>3, CutByFacts
  <2>3. CASE u \in freed
    BY <1>2, <2>1, <2>3 DEF KindStep
  <2>4. CASE u \notin freed /\ u \in CutOf(attackers)
    <3>1. result'[u] = result[u] \cup {"cut"} /\ u \notin DOMAIN may_convoy
      BY <1>2, <2>1, <2>2, <2>4
    <3> QED
      BY <2>2, <2>4, <3>1 DEF KindStep
  <2>5. CASE u \notin freed /\ u \notin CutOf(attackers)
    <3>1. result'[u] = result[u]
      BY <2>1, <2>5
    <3> QED
      BY <3>1 DEF KindStep
  <2> QED
    BY <2>3, <2>4, <2>5
<1>4. CASE CountSupports
  <2> DEFINE void == {s \in Units :
                /\ command[s].type = "S"
                /\ \/ ~Supports(s, command[s].of)
                   \/ command[s].of \in MovingArmies /\ "no convoy" \in result[command[s].of]}
  <2>1. result' = Mark(void, "void")
    BY <1>4 DEF CountSupports
  <2>2. u \in void => command[u].type = "S"
    OBVIOUS
  <2> HIDE DEF void
  <2>3. result'[u] = result[u] \cup IF u \in void THEN {"void"} ELSE {}
    BY <2>1, MarkValue
  <2> QED
    BY <1>2, <2>2, <2>3 DEF KindStep
<1>5. CASE CutSupports \/ CutByConvoyed
  BY <1>3, <1>5 DEF CutSupports, CutByConvoyed
<1>9. ASSUME NEW mark \in {"maybe", "no convoy"}, NEW fleetMark \in {{}, {"disrupted"}},
             CheckDisruptions(mark, fleetMark)
      PROVE  KindStep(u)
  <2>1. CASE u \in DOMAIN may_convoy
    <3>1. result'[u] \in {result[u], {mark}}
      BY <1>9, <2>1, CheckFacts
    <3>2. result'[u] \in {result[u], {}, {"maybe"}, {"no convoy"}}
      BY <1>9, <3>1
    <3> QED
      BY <1>2, <2>1, <3>2 DEF KindStep
  <2>2. CASE u \notin DOMAIN may_convoy
    <3>1. /\ command[u].type \in {"-", "S"} => result'[u] = result[u]
          /\ result'[u] = result[u] \/ result'[u] = fleetMark
      BY <1>9, <2>2, CheckFacts
    <3>2. "maybe" \notin fleetMark
      <4>1. CASE fleetMark = {}
        BY <4>1
      <4>2. CASE fleetMark = {"disrupted"}
        BY <4>2
      <4> QED
        BY <4>1, <4>2
    <3> QED
      BY <2>2, <3>1, <3>2 DEF KindStep
  <2> QED
    BY <2>1, <2>2
<1>6. CASE DisruptMaybe
  <2>1. CheckDisruptions("maybe", {})
    BY <1>6 DEF DisruptMaybe
  <2> QED
    BY <1>9, <2>1
<1>7. CASE DisruptDefinite
  <2>1. CheckDisruptions("no convoy", {"disrupted"})
    BY <1>7 DEF DisruptDefinite
  <2> QED
    BY <1>9, <2>1
<1>8. CASE CancelConvoys
  <2>1. left \subseteq DOMAIN may_convoy /\ DOMAIN may_convoy \subseteq Units
    BY <1>8 DEF CancelConvoys, OrdersInv, TypeInv
  <2>2. ASSUME NEW v \in left, Strand(v) PROVE KindStep(u)
    <3>1. result'[u] = result[u] \cup IF u \in HelpersOf(v) THEN {"no convoy"} ELSE {}
      BY <2>1, <2>2, StrandFacts
    <3> QED
      BY <1>2, <3>1 DEF HelpersOf, KindStep
  <2>3. ASSUME NEW v \in left, Free(v) PROVE KindStep(u)
    BY <1>3, <2>1, <2>3 DEF Free
  <2> QED
    BY <1>1, <1>8, <2>2, <2>3 DEF CancelConvoys
<1> QED
  BY <1>1, <1>4, <1>5, <1>6, <1>7, <1>8, EarlySteps DEF vars, GiveOrder, MatchConvoys, Strengths

\* Step 1 marks armies that cannot go, and convoys.
LEMMA MatchedMarks ==
    ASSUME FleetsInv, MatchConvoys, NEW u \in Units
    PROVE  /\ result'[u] \subseteq {"no convoy", "void"}
           /\ command[u].type = "S" \/ u \in DOMAIN may_convoy' => result'[u] = {}
           /\ command[u].type = "-" => result'[u] \subseteq {"no convoy"}
<1> DEFINE carried == {v \in MovingArmies : ConvoyPaths(v) # {}}
           alone == MovingArmies \ carried
           void == {c \in Units : /\ command[c].type = "C"
                                  /\ LET v == command[c].of IN v \in carried => c \notin Carriers(v)}
           useless == {c \in void : c \in Convoying(command[c].of)
                                       /\ command[c].of \in MovingArmies}
           stuck == {a \in alone : command[a].to \notin Reach(a)} \cup useless
<1>1. /\ result' = [v \in Units |-> Mark(stuck, "no convoy")[v] \cup IF v \in void THEN {"void"} ELSE {}]
      /\ DOMAIN may_convoy' = carried /\ next = "convoy"
  BY DEF MatchConvoys
<1>2. result[u] = {}
  BY <1>1 DEF FleetsInv
<1>3. /\ u \in void => command[u].type = "C"
      /\ u \in stuck => command[u].type = "C" \/ (command[u].type = "-" /\ u \notin carried)
      /\ u \in carried => command[u].type = "-"
  BY DEF MovingArmies
<1> HIDE DEF stuck, void, carried
<1>4. Mark(stuck, "no convoy")[u] = result[u] \cup IF u \in stuck THEN {"no convoy"} ELSE {}
  BY DEF Mark
<1> QED
  BY <1>1, <1>2, <1>3, <1>4

\* Before step 2.
LEMMA Unsettled ==
    ASSUME [Next]_vars, next \in {"orders", "convoy"}
    PROVE  \/ MatchConvoys /\ next' = "count"
           \/ /\ next' \in {"orders", "convoy"}
              /\ UNCHANGED <<may_convoy, result, cutters, supports, combat, convoy_paths>>
  BY DEF Next, vars, strengths, orders, control, GiveOrder, MatchConvoys, CountSupports, CutSupports,
     Strengths, DisruptMaybe, CutByConvoyed, DisruptDefinite, CancelConvoys, BounceSwappers,
     BounceOutgunned, BounceSelfDislodger, CutByDislodging, Dislodge, Unbounce, Retreat, Done

\* Every step keeps what is known of the marks by the orders.
LEMMA KindsStep ==
    ASSUME TypeInv, OrdersInv, FleetsInv, KindsInv, [Next]_vars
    PROVE  KindsInv'
<1> SUFFICES ASSUME ~Bouncing' PROVE KindsInv'
  BY DEF KindsInv
<1>1. ~Bouncing
  BY Order
<1>2. CASE next \in {"orders", "convoy"}
  <2>1. CASE MatchConvoys
    <3>1. \A u \in Units : command'[u].type = command[u].type
      <4>1. next # "orders"
        BY <2>1 DEF MatchConvoys
      <4> QED
        BY <4>1, CommandStays
    <3>2. Units' = Units
      BY OwnerStays
    <3>3. ASSUME NEW u \in Units
          PROVE  /\ result'[u] \subseteq {"no convoy", "void"}
                 /\ command[u].type = "S" \/ u \in DOMAIN may_convoy' => result'[u] = {}
                 /\ command[u].type = "-" => result'[u] \subseteq {"no convoy"}
      BY <2>1, MatchedMarks
    <3>4. ASSUME NEW u \in Units
          PROVE  /\ u \in DOMAIN may_convoy' => result'[u] = {}
                 /\ "maybe" \notin result'[u]
                 /\ command'[u].type = "-" => result'[u] \subseteq {"no convoy"}
                 /\ command'[u].type = "S" => result'[u] \subseteq {"void", "cut", "no convoy"}
      BY <3>1, <3>3
    <3> QED
      BY <3>2, <3>4 DEF KindsInv
  <2>2. CASE next' \in {"orders", "convoy"} /\ UNCHANGED <<may_convoy, result>>
    <3>1. Units' = Units
      BY OwnerStays
    <3> QED
      BY <1>1, <2>2, <3>1 DEF KindsInv
  <2> QED
    BY <1>2, <2>1, <2>2, Unsettled
<1>3. CASE next \notin {"orders", "convoy"}
  <2>1. Units' = Units /\ UNCHANGED <<command, may_convoy>>
    BY <1>3, Settled
  <2>2. \A u \in Units : KindStep(u)
    BY <1>1, <1>3, KindSteps
  <2> QED
    BY <1>1, <1>3, <2>1, <2>2 DEF KindsInv, KindStep
<1> QED
  BY <1>2, <1>3

\* Whether an army has to stay depends on this.
LEMMA StaysSame ==
    ASSUME UNCHANGED <<owner, command, may_convoy, convoy_paths, combat>>, NEW u
    PROVE  MustStay(u)' <=> MustStay(u)
<1>1. \A p : Chain(p)' = Chain(p)
  BY DEF Chain, Units
<1>2. \A c, S : IsDisrupted(u, c, S)' = IsDisrupted(u, c, S)
  BY <1>1 DEF IsDisrupted, SupportsConvoy, Attacks, Units
<1>3. \A c : Strongest(c)' = Strongest(c)
  BY DEF Strongest, EntriesAt
<1>4. Disrupted(u)' = Disrupted(u)
  BY <1>2, <1>3 DEF Disrupted
<1>5. \A c : SupportsAttack(u, c)' = SupportsAttack(u, c)
  BY <1>1 DEF SupportsAttack
<1>6. Reach(u)' = Reach(u)
  BY DEF Reach
<1>7. PathsAfter(u)' = PathsAfter(u)
  BY <1>4 DEF PathsAfter
<1> QED
  BY <1>4, <1>5, <1>6, <1>7 DEF MustStay

\* The steps of the convoys, with what each does to the armies that have one.
CarriedStep ==
    LET W == DOMAIN may_convoy IN
    \/ /\ next \in {"count", "cut"} /\ next' \in {"cut", "strengths"}
       /\ UNCHANGED cutters
       /\ \A u \in W : result'[u] = result[u]
       /\ \A s \in Units : "no convoy" \in result'[s] => "no convoy" \in result[s]
    \/ /\ next = "strengths" /\ next' \in {"maybe", "swap"} /\ (W # {} => next' = "maybe")
       /\ UNCHANGED <<cutters, result>>
    \/ /\ next = "laststrengths" /\ next' = "swap"
       /\ UNCHANGED <<cutters, result>>
    \/ /\ next = "maybe" /\ next' = "convoycut"
       /\ UNCHANGED cutters
       /\ \A u \in W : /\ result'[u] = IF MustStay(u) THEN {"maybe"} ELSE result[u]
                       /\ MustStay(u) => MustStay(u)'
       /\ \A s \in Units \ W : "no convoy" \in result'[s] => "no convoy" \in result[s]
    \/ /\ next = "convoycut" /\ \A u \in W : result'[u] = result[u] /\ (MustStay(u)' <=> MustStay(u))
       /\ \A s \in Units : "no convoy" \in result'[s] => "no convoy" \in result[s]
       /\ LET fresh == {u \in W : result[u] = {} /\ u \notin cutters}
          IN cutters' = cutters \cup fresh /\ next' = IF fresh # {} THEN "strengths" ELSE "definite"
    \/ /\ next = "definite" /\ next' = "cancel" /\ left' = W
       /\ UNCHANGED cutters
       /\ \A u \in W : result'[u] = IF MustStay(u) THEN {"no convoy"} ELSE result[u]
       /\ \A s \in Units \ W : command[s].type = "S" /\ "no convoy" \in result'[s] => "no convoy" \in result[s]
    \/ /\ next \in {"cancel", "again"}
       /\ \/ /\ left = {} /\ next' = IF next = "again" THEN "strengths" ELSE "laststrengths"
             /\ UNCHANGED <<cutters, result>>
          \/ \E u \in left :
             /\ left' = left \ {u}
             /\ \A v \in W \ {u} : result'[v] = result[v]
             /\ \/ /\ "no convoy" \in result[u] /\ result'[u] = result[u]
                   /\ \A s \in Units : "no convoy" \in result'[s] =>
                         "no convoy" \in result[s] \/ (s \in Units \ W /\ command[s].of = u)
                   /\ UNCHANGED <<cutters, next>>
                \/ /\ result'[u] = {} /\ cutters' = cutters \cup {u} /\ next' = "again"
                   /\ "maybe" \in result[u] /\ "no convoy" \notin result[u]
                   /\ \A s \in Units : "no convoy" \in result'[s] => "no convoy" \in result[s]
                \/ /\ UNCHANGED <<result, cutters, next>>
                   /\ "no convoy" \notin result[u] /\ ("maybe" \in result[u] => u \in cutters)

\* Each of the steps before the bounces is such a step.
LEMMA CarriedSteps ==
    ASSUME TypeInv, OrdersInv, FleetsInv, KindsInv, [Next]_vars, ~Bouncing,
           next \notin {"orders", "convoy"}
    PROVE  CarriedStep \/ UNCHANGED vars
<1> DEFINE W == DOMAIN may_convoy
<1>1. W \subseteq Units /\ \A u \in W : command[u].type = "-"
  BY DEF TypeInv, FleetsInv
<1>2. ASSUME NEW attackers, NEW freed, CutBy(attackers, freed)
      PROVE  /\ \A u \in W : result'[u] = IF u \in freed THEN {} ELSE result[u]
             /\ \A s \in Units : "no convoy" \in result'[s] => "no convoy" \in result[s]
  <2>1. \A u \in Units : result'[u] = IF u \in freed THEN {}
                            ELSE result[u] \cup IF u \in CutOf(attackers) THEN {"cut"} ELSE {}
    BY <1>2, CutByFacts
  <2>2. \A s \in CutOf(attackers) : command[s].type = "S"
    BY <1>2, CutByFacts
  <2>3. ASSUME NEW s \in Units PROVE "no convoy" \in result'[s] => "no convoy" \in result[s]
    <3>1. result'[s] \subseteq result[s] \cup {"cut"}
      BY <2>1
    <3> QED
      BY <3>1
  <2> QED
    BY <1>1, <2>1, <2>2, <2>3
<1>3. CASE CountSupports
  <2> DEFINE void == {s \in Units :
                /\ command[s].type = "S"
                /\ \/ ~Supports(s, command[s].of)
                   \/ command[s].of \in MovingArmies /\ "no convoy" \in result[command[s].of]}
  <2>1. result' = Mark(void, "void") /\ next = "count" /\ next' = "cut" /\ cutters' = cutters
    BY <1>3 DEF CountSupports, orders
  <2>2. \A u \in void : command[u].type = "S"
    OBVIOUS
  <2> HIDE DEF void
  <2>3. \A u \in Units : result'[u] = result[u] \cup IF u \in void THEN {"void"} ELSE {}
    BY <2>1, MarkValue
  <2>4. \A u \in W : result'[u] = result[u]
    BY <1>1, <2>2, <2>3
  <2>5. ASSUME NEW s \in Units PROVE "no convoy" \in result'[s] => "no convoy" \in result[s]
    <3>1. result'[s] \subseteq result[s] \cup {"void"}
      BY <2>3
    <3> QED
      BY <3>1
  <2> QED
    BY <2>1, <2>4, <2>5 DEF CarriedStep
<1>4. CASE CutSupports
  <2>1. /\ CutBy({u \in Units : Moving(u) /\ ~MovesViaConvoy(u)}, {}) /\ cutters' = cutters
        /\ next = "cut" /\ next' = "strengths"
    BY <1>4 DEF CutSupports, orders
  <2>2. /\ \A u \in W : result'[u] = IF u \in {} THEN {} ELSE result[u]
        /\ \A s \in Units : "no convoy" \in result'[s] => "no convoy" \in result[s]
    BY <1>2, <2>1
  <2>3. \A u \in W : result'[u] = result[u]
    BY <2>2
  <2> QED
    BY <2>1, <2>2, <2>3 DEF CarriedStep
<1>5. CASE Strengths
  <2>1. /\ next \in {"strengths", "laststrengths"} /\ UNCHANGED <<cutters, result>>
        /\ next' = IF next = "strengths" /\ W # {} THEN "maybe" ELSE "swap"
    BY <1>5 DEF Strengths, orders
  <2> QED
    BY <2>1 DEF CarriedStep
<1>6. CASE DisruptMaybe
  <2>1. /\ CheckDisruptions("maybe", {}) /\ UNCHANGED <<owner, command, may_convoy, combat, cutters>>
        /\ next = "maybe" /\ next' = "convoycut"
    BY <1>6 DEF DisruptMaybe, strengths
  <2>2. \A u \in W : result'[u] = IF MustStay(u) THEN {"maybe"} ELSE result[u]
    BY <2>1, CheckFacts
  <2>3. \A u \in W : MustStay(u) => MustStay(u)'
    BY <2>1, MarkedAgain
  <2>4. \A s \in Units \ W : "no convoy" \in result'[s] => "no convoy" \in result[s]
    <3>1. \A s \in Units \ W : result'[s] = result[s] \/ result'[s] = {}
      BY <2>1, CheckFacts
    <3> QED
      BY <3>1
  <2> QED
    BY <2>1, <2>2, <2>3, <2>4 DEF CarriedStep
<1>7. CASE CutByConvoyed
  <2> DEFINE fresh == {u \in W : result[u] = {} /\ u \notin cutters}
  <2>1. /\ CutBy(fresh, {}) /\ cutters' = cutters \cup fresh
        /\ UNCHANGED <<owner, command, may_convoy, convoy_paths, combat>>
        /\ next = "convoycut" /\ next' = IF fresh # {} THEN "strengths" ELSE "definite"
    BY <1>7 DEF CutByConvoyed
  <2>2. /\ \A u \in W : result'[u] = IF u \in {} THEN {} ELSE result[u]
        /\ \A s \in Units : "no convoy" \in result'[s] => "no convoy" \in result[s]
    BY <1>2, <2>1
  <2>3. \A u \in W : result'[u] = result[u]
    BY <2>2
  <2>4. \A u \in W : MustStay(u)' <=> MustStay(u)
    BY <2>1, StaysSame
  <2> QED
    BY <2>1, <2>2, <2>3, <2>4 DEF CarriedStep
<1>8. CASE DisruptDefinite
  <2>1. /\ CheckDisruptions("no convoy", {"disrupted"}) /\ cutters' = cutters /\ left' = W
        /\ next = "definite" /\ next' = "cancel"
    BY <1>8 DEF DisruptDefinite
  <2>2. \A u \in W : result'[u] = IF MustStay(u) THEN {"no convoy"} ELSE result[u]
    BY <2>1, CheckFacts
  <2>3. \A s \in Units \ W : command[s].type = "S" => result'[s] = result[s]
    BY <2>1, CheckFacts
  <2> QED
    BY <2>1, <2>2, <2>3 DEF CarriedStep
<1>9. CASE CancelConvoys
  <2>0. next \in {"cancel", "again"} /\ left \subseteq W
    BY <1>9 DEF CancelConvoys, OrdersInv
  <2>1. CASE /\ left = {} /\ next' = IF next = "again" THEN "strengths" ELSE "laststrengths"
             /\ UNCHANGED <<result, cutters>>
    BY <2>0, <2>1 DEF CarriedStep
  <2>2. ASSUME NEW u \in left, left' = left \ {u}, "no convoy" \in result[u], Strand(u)
        PROVE  CarriedStep
    <3>1. /\ \A s \in Units : result'[s] = result[s] \cup IF s \in HelpersOf(u) THEN {"no convoy"} ELSE {}
          /\ UNCHANGED <<cutters, next>>
      BY <1>1, <2>0, <2>2, StrandFacts DEF Strand
    <3>2. \A s \in HelpersOf(u) : s \in Units \ W /\ command[s].of = u
      BY <1>1 DEF HelpersOf
    <3>3. \A s \in Units : "no convoy" \in result'[s] =>
              "no convoy" \in result[s] \/ (s \in Units \ W /\ command[s].of = u)
      BY <3>1, <3>2
    <3>4. \A v \in W : result'[v] = result[v]
      BY <1>1, <3>1, <3>2
    <3> QED
      BY <2>0, <2>2, <3>1, <3>3, <3>4 DEF CarriedStep
  <2>3. ASSUME NEW u \in left, left' = left \ {u}, "maybe" \in result[u], "no convoy" \notin result[u],
               Free(u)
        PROVE  CarriedStep
    <3>1. /\ CutBy({u}, {u}) /\ cutters' = cutters \cup {u} /\ next' = "again"
      BY <2>3 DEF Free
    <3>2. /\ \A v \in W : result'[v] = IF v \in {u} THEN {} ELSE result[v]
          /\ \A s \in Units : "no convoy" \in result'[s] => "no convoy" \in result[s]
      BY <1>2, <3>1
    <3>3. u \in W
      BY <2>0
    <3> QED
      BY <2>0, <2>3, <3>1, <3>2, <3>3 DEF CarriedStep
  <2>4. ASSUME NEW u \in left, left' = left \ {u}, "no convoy" \notin result[u],
               "maybe" \in result[u] => u \in cutters, UNCHANGED <<result, cutters, next>>
        PROVE  CarriedStep
    BY <2>0, <2>4 DEF CarriedStep
  <2> QED
    BY <1>9, <2>1, <2>2, <2>3, <2>4 DEF CancelConvoys
<1>10. CASE GiveOrder \/ MatchConvoys
  BY <1>10 DEF GiveOrder, MatchConvoys
<1> QED
  BY <1>3, <1>4, <1>5, <1>6, <1>7, <1>8, <1>9, <1>10, EarlySteps

\* No army is stranded before step 4 is done, and each that was not marked has cut then.
LEMMA RoundsStep ==
    ASSUME TypeInv, OrdersInv, FleetsInv, KindsInv, RoundsInv, [Next]_vars
    PROVE  RoundsInv'
<1>1. CASE Bouncing
  <2>1. Bouncing'
    BY <1>1, Order
  <2> QED
    BY <2>1 DEF RoundsInv, Bouncing, First
<1>2. CASE next \in {"orders", "convoy"}
  <2>1. CASE next' \in {"orders", "convoy"}
    BY <2>1 DEF RoundsInv, First
  <2>2. CASE MatchConvoys /\ next' = "count"
    <3>1. \A u \in Units : command'[u].type = command[u].type
      <4>1. next # "orders"
        BY <2>2 DEF MatchConvoys
      <4> QED
        BY <4>1, CommandStays
    <3>2. cutters' = {} /\ Units' = Units
      BY <1>2, <2>2, OwnerStays DEF MatchConvoys, OrdersInv
    <3>3. \A u \in Units : command[u].type = "S" \/ u \in DOMAIN may_convoy' => result'[u] = {}
      BY <2>2, MatchedMarks
    <3> QED
      BY <2>2, <3>1, <3>2, <3>3 DEF RoundsInv
  <2> QED
    BY <1>2, <2>1, <2>2, Unsettled
<1>3. CASE ~Bouncing /\ next \notin {"orders", "convoy"}
  <2>1. Units' = Units /\ UNCHANGED <<command, may_convoy>>
    BY <1>3, Settled
  <2>2. CASE UNCHANGED vars
    BY <2>1, <2>2 DEF RoundsInv, First, vars, control, orders
  <2>3. CASE CarriedStep
    <3> USE DEF CarriedStep
    <3>1. next' \in {"count", "cut"} => cutters' = {}
      BY <2>3 DEF RoundsInv
    <3>2. next' = "again" => cutters' # {}
      BY <2>3 DEF RoundsInv
    <3>3. ASSUME First', NEW u \in Units, "no convoy" \in result'[u]
          PROVE  command[u].type # "S" /\ u \notin DOMAIN may_convoy
      <4>0. next' \in {"count", "cut", "strengths", "maybe", "convoycut"} /\ cutters' = {}
        BY <3>3 DEF First
      <4>1. CASE next \in {"count", "cut", "strengths"}
        <5>1. /\ cutters' = cutters
              /\ "no convoy" \in result'[u] => "no convoy" \in result[u]
          BY <2>3, <4>1
        <5>2. First
          BY <4>0, <4>1, <5>1 DEF First
        <5> QED
          BY <3>3, <5>1, <5>2 DEF RoundsInv
      <4>2. CASE next = "maybe"
        <5>1. First
          BY <2>3, <4>0, <4>2 DEF First
        <5>2. ASSUME u \notin DOMAIN may_convoy PROVE "no convoy" \in result[u]
          <6>1. \A s \in Units \ DOMAIN may_convoy : "no convoy" \in result'[s] => "no convoy" \in result[s]
            BY <2>3, <4>2
          <6> QED
            BY <3>3, <5>2, <6>1
        <5>3. u \in DOMAIN may_convoy => result'[u] = {"maybe"} \/ result'[u] = result[u]
          BY <2>3, <4>2
        <5>4. ASSUME result'[u] = {"maybe"} PROVE FALSE
          <6>1. "no convoy" \in {"maybe"}
            BY <3>3, <5>4
          <6> QED
            BY <6>1
        <5>5. "no convoy" \in result[u]
          BY <3>3, <5>2, <5>3, <5>4
        <5> QED
          BY <5>1, <5>5 DEF RoundsInv
      <4>3. next # "convoycut"
        <5> DEFINE fresh == {v \in DOMAIN may_convoy : result[v] = {} /\ v \notin cutters}
        <5>1. ASSUME next = "convoycut" PROVE FALSE
          <6>1. cutters' = cutters \cup fresh /\ next' = IF fresh # {} THEN "strengths" ELSE "definite"
            BY <2>3, <5>1
          <6> QED
            BY <4>0, <6>1
        <5> QED
          BY <5>1
      <4>4. next \notin {"cancel", "again"}
        BY <2>3, <4>0 DEF RoundsInv
      <4> QED
        BY <2>3, <4>0, <4>1, <4>2, <4>3, <4>4
    <3>4. ASSUME next' \in {"strengths", "maybe", "convoycut", "definite", "cancel", "again"}, ~First',
                 NEW u \in DOMAIN may_convoy, result'[u] = {}
          PROVE  u \in cutters'
      <4>1. ~First /\ next \in {"strengths", "maybe", "convoycut", "definite", "cancel", "again"}
               /\ result[u] = {} => u \in cutters
        BY DEF RoundsInv
      <4>2. CASE next = "convoycut"
        BY <2>3, <3>4, <4>2
      <4>3. CASE next \in {"cancel", "again"}
        <5>1. ~First
          BY <4>3 DEF First
        <5> QED
          BY <2>3, <3>4, <4>1, <4>3, <5>1
      <4>4. CASE next \in {"strengths", "maybe", "definite"}
        <5>1. cutters' = cutters
          BY <2>3, <4>4
        <5>2. ~First
          BY <2>3, <3>4, <4>4, <5>1 DEF First
        <5>3. result[u] = {}
          BY <2>3, <3>4, <4>4
        <5> QED
          BY <4>1, <4>4, <5>1, <5>2, <5>3
      <4>5. CASE next \in {"count", "cut", "laststrengths"}
        BY <2>3, <3>4, <4>5 DEF First, RoundsInv
      <4> QED
        BY <2>3, <4>2, <4>3, <4>4, <4>5
    <3> QED
      BY <2>1, <3>1, <3>2, <3>3, <3>4 DEF RoundsInv
  <2> QED
    BY <1>3, <2>2, <2>3, CarriedSteps
<1> QED
  BY <1>1, <1>2, <1>3

\* The mark of an army that may be stranded has an end in step 5.
LEMMA UndecidedStep ==
    ASSUME TypeInv, OrdersInv, HelpInv, FleetsInv, KindsInv, RoundsInv, UndecidedInv, [Next]_vars
    PROVE  UndecidedInv'
<1>1. CASE Bouncing
  <2>1. SUFFICES ASSUME NEW u \in Units, "maybe" \in result'[u] PROVE FALSE
    BY OwnerStays DEF UndecidedInv
  <2>2. "maybe" \notin result[u]
    BY <1>1 DEF UndecidedInv, Bouncing
  <2> QED
    BY <1>1, <2>1, <2>2, LateMarks DEF Rests, Bounces, HelpsNot, IsDislodged, IsFreed
<1>2. CASE next \in {"orders", "convoy"}
  <2>1. SUFFICES ASSUME NEW u \in Units, "maybe" \in result'[u] PROVE FALSE
    BY OwnerStays DEF UndecidedInv
  <2>2. "maybe" \notin result[u]
    BY <1>2 DEF FleetsInv
  <2> QED
    BY <1>2, <2>1, <2>2, Unsettled, MatchedMarks
<1>3. CASE ~Bouncing /\ next \notin {"orders", "convoy"}
  <2>1. Units' = Units /\ UNCHANGED <<command, owner, may_convoy>> /\ next' \notin {"orders", "convoy"}
    BY <1>3, Settled
  <2>2. CASE UNCHANGED vars
    <3>1. \A u : MustStay(u)' <=> MustStay(u)
      BY <2>2, StaysSame DEF vars, orders, strengths
    <3> QED
      BY <2>1, <2>2, <3>1 DEF UndecidedInv, StaysFor, vars, control, orders
  <2>3. CASE CarriedStep
    <3>1. SUFFICES ASSUME NEW u \in Units, "maybe" \in result'[u]
                   PROVE  /\ next' \in {"strengths", "maybe", "convoycut", "definite", "cancel", "again"}
                          /\ u \in cutters' => StaysFor(u)'
                          /\ next' \in {"cancel", "again"} => u \in left'
      BY <2>1 DEF UndecidedInv
    <3>2. u \in DOMAIN may_convoy
      <4>1. "maybe" \in result[u] => u \in DOMAIN may_convoy
        BY <1>3 DEF KindsInv
      <4>2. KindStep(u)
        BY <1>3, KindSteps
      <4> QED
        BY <3>1, <4>1, <4>2 DEF KindStep
    <3>3. result[u] \in {{}, {"maybe"}, {"no convoy"}}
      BY <1>3, <3>2 DEF KindsInv
    <3>4. "maybe" \in result[u] =>
            /\ next \in {"strengths", "maybe", "convoycut", "definite", "cancel", "again"}
            /\ u \in cutters => StaysFor(u)
            /\ next \in {"cancel", "again"} => u \in left
      BY DEF UndecidedInv
    <3>5. CASE next \in {"count", "cut", "laststrengths"}
      BY <2>3, <3>1, <3>2, <3>4, <3>5 DEF CarriedStep
    <3>6. CASE next = "strengths"
      <4>1. u \notin cutters
        BY <2>3, <3>1, <3>4, <3>6 DEF CarriedStep, StaysFor
      <4> QED
        BY <2>3, <3>2, <3>6, <4>1 DEF CarriedStep
    <3>7. CASE next = "maybe"
      <4>1. next' = "convoycut" /\ cutters' = cutters
        BY <2>3, <3>7 DEF CarriedStep
      <4>2. CASE MustStay(u)
        <5>1. MustStay(u)'
          BY <2>3, <3>2, <3>7, <4>2 DEF CarriedStep
        <5> QED
          BY <4>1, <5>1 DEF StaysFor
      <4>3. CASE ~MustStay(u)
        <5>1. "maybe" \in result[u]
          BY <2>3, <3>1, <3>2, <3>7, <4>3 DEF CarriedStep
        <5> QED
          BY <3>4, <3>7, <4>1, <5>1 DEF StaysFor
      <4> QED
        BY <4>2, <4>3
    <3>8. CASE next = "convoycut"
      <4> DEFINE fresh == {v \in DOMAIN may_convoy : result[v] = {} /\ v \notin cutters}
      <4>1. /\ result'[u] = result[u] /\ (MustStay(u)' <=> MustStay(u))
            /\ cutters' = cutters \cup fresh
            /\ next' = IF fresh # {} THEN "strengths" ELSE "definite"
        BY <2>3, <3>2, <3>8 DEF CarriedStep
      <4>2. CASE fresh = {}
        BY <3>1, <3>4, <3>8, <4>1, <4>2 DEF StaysFor
      <4>3. CASE fresh # {}
        <5>1. First
          BY <3>8, <4>3 DEF RoundsInv
        <5>2. u \notin fresh
          BY <3>1, <4>1
        <5> QED
          BY <4>1, <4>3, <5>1, <5>2 DEF First
      <4> QED
        BY <4>2, <4>3
    <3>9. CASE next = "definite"
      <4>1. ~MustStay(u) /\ "maybe" \in result[u]
        BY <2>3, <3>1, <3>2, <3>9 DEF CarriedStep
      <4>2. u \notin cutters
        BY <3>4, <4>1 DEF StaysFor
      <4> QED
        BY <2>3, <3>2, <3>9, <4>2 DEF CarriedStep
    <3>10. CASE next \in {"cancel", "again"}
      <4>1. "maybe" \in result[u] => u \in left /\ u \notin cutters
        BY <3>4, <3>10 DEF StaysFor
      <4>2. CASE left = {}
        BY <2>3, <3>1, <3>10, <4>1, <4>2 DEF CarriedStep
      <4>3. CASE left # {}
        <5>1. PICK v \in left :
             /\ left' = left \ {v}
             /\ \A x \in DOMAIN may_convoy \ {v} : result'[x] = result[x]
             /\ \/ /\ "no convoy" \in result[v] /\ result'[v] = result[v]
                   /\ UNCHANGED <<cutters, next>>
                \/ /\ result'[v] = {} /\ cutters' = cutters \cup {v} /\ next' = "again"
                \/ /\ UNCHANGED <<result, cutters, next>>
                   /\ "maybe" \in result[v] => v \in cutters
          BY <2>3, <3>10, <4>3 DEF CarriedStep
        <5>2. CASE u = v
          <6>1. result'[u] = result[u]
            BY <3>1, <5>1, <5>2
          <6>2. result[u] = {"maybe"}
            BY <3>1, <3>3, <6>1
          <6>3. "no convoy" \notin result[u]
            BY <6>2
          <6>4. result'[u] # {}
            BY <3>1
          <6> QED
            BY <3>1, <4>1, <5>1, <5>2, <6>1, <6>3, <6>4
        <5>3. CASE u # v
          <6>1. "maybe" \in result[u] /\ u \in left' /\ u \notin cutters'
            BY <3>1, <3>2, <4>1, <5>1, <5>3
          <6>2. next' \in {"cancel", "again"}
            BY <3>10, <5>1
          <6> QED
            BY <6>1, <6>2
        <5> QED
          BY <5>2, <5>3
      <4> QED
        BY <4>2, <4>3
    <3> QED
      BY <2>3, <3>5, <3>6, <3>7, <3>8, <3>9, <3>10 DEF CarriedStep
  <2> QED
    BY <1>3, <2>2, <2>3, CarriedSteps
<1> QED
  BY <1>1, <1>2, <1>3

\* A support is of no use only while its army is stranded, or will be.
LEMMA StrandedStep ==
    ASSUME TypeInv, OrdersInv, FleetsInv, KindsInv, RoundsInv, StrandedInv, [Next]_vars
    PROVE  StrandedInv'
<1> SUFFICES ASSUME ~Bouncing', next' \notin {"orders", "convoy"},
                    NEW s \in Units, NEW a \in Units, command'[s].type = "S", command'[s].of = a,
                    "no convoy" \in result'[s]
             PROVE  a \in DOMAIN may_convoy' /\ ("no convoy" \in result'[a] \/ StaysFor(a)')
  BY OwnerStays DEF StrandedInv
<1>1. ~Bouncing
  BY Order
<1>2. CASE next \in {"orders", "convoy"}
  <2>1. MatchConvoys
    BY <1>2, Unsettled
  <2>2. next # "orders"
    BY <2>1 DEF MatchConvoys
  <2>3. command[s].type = "S"
    BY <2>2, CommandStays
  <2>4. result'[s] = {}
    BY <2>1, <2>3, MatchedMarks
  <2> QED
    BY <2>4
<1>3. CASE next \notin {"orders", "convoy"}
  <2>1. UNCHANGED <<command, owner, may_convoy>>
    BY <1>3, Settled
  <2> DEFINE old == "no convoy" \in result[s]
  <2>2. s \notin DOMAIN may_convoy
    BY <2>1 DEF FleetsInv
  <2>3. old => a \in DOMAIN may_convoy /\ ("no convoy" \in result[a] \/ StaysFor(a))
    BY <1>1, <1>3, <2>1 DEF StrandedInv
  <2>4. old => ~First
    BY <2>1 DEF RoundsInv
  <2>5. SUFFICES a \in DOMAIN may_convoy /\ ("no convoy" \in result'[a] \/ StaysFor(a)')
    BY <2>1
  <2>6. CASE UNCHANGED vars
    <3>1. MustStay(a)' <=> MustStay(a)
      BY <2>6, StaysSame DEF vars, orders, strengths
    <3> QED
      BY <2>3, <2>6, <3>1 DEF StaysFor, vars, control
  <2>7. CASE CarriedStep
    <3>1. CASE next \in {"count", "cut"}
      <4>1. First
        BY <3>1 DEF First, RoundsInv
      <4> QED
        BY <2>4, <2>7, <3>1, <4>1 DEF CarriedStep
    <3>2. CASE next \in {"strengths", "laststrengths"}
      <4>1. result' = result
        BY <2>7, <3>2 DEF CarriedStep
      <4> QED
        BY <2>3, <3>2, <4>1 DEF StaysFor
    <3>3. CASE next = "maybe"
      <4>1. old /\ next' = "convoycut"
        BY <2>2, <2>7, <3>3 DEF CarriedStep
      <4>2. a \in DOMAIN may_convoy /\ "no convoy" \in result[a]
        BY <2>3, <3>3, <4>1 DEF StaysFor
      <4>3. result'[a] = IF MustStay(a) THEN {"maybe"} ELSE result[a]
        BY <2>7, <3>3, <4>2 DEF CarriedStep
      <4>4. MustStay(a) => MustStay(a)'
        BY <2>7, <3>3, <4>2 DEF CarriedStep
      <4> QED
        BY <4>1, <4>2, <4>3, <4>4 DEF StaysFor
    <3>4. CASE next = "convoycut"
      <4> DEFINE fresh == {v \in DOMAIN may_convoy : result[v] = {} /\ v \notin cutters}
      <4>1. old /\ next' = IF fresh # {} THEN "strengths" ELSE "definite"
        BY <2>7, <3>4 DEF CarriedStep
      <4>2. fresh = {}
        BY <2>4, <3>4, <4>1 DEF RoundsInv
      <4>3. next' = "definite" /\ a \in DOMAIN may_convoy
        BY <2>3, <4>1, <4>2
      <4>4. result'[a] = result[a] /\ (MustStay(a)' <=> MustStay(a))
        BY <2>7, <3>4, <4>3 DEF CarriedStep
      <4> QED
        BY <2>3, <4>1, <4>3, <4>4 DEF StaysFor
    <3>5. CASE next = "definite"
      <4>1. old
        BY <2>1, <2>2, <2>7, <3>5 DEF CarriedStep
      <4>2. a \in DOMAIN may_convoy
        BY <2>3, <4>1
      <4>3. result'[a] = IF MustStay(a) THEN {"no convoy"} ELSE result[a]
        BY <2>7, <3>5, <4>2 DEF CarriedStep
      <4> QED
        BY <2>3, <4>1, <4>2, <4>3 DEF StaysFor
    <3>6. CASE next \in {"cancel", "again"}
      <4>1. old => a \in DOMAIN may_convoy /\ "no convoy" \in result[a]
        BY <2>3, <3>6 DEF StaysFor
      <4>2. CASE UNCHANGED result
        BY <4>1, <4>2
      <4>3. CASE ~UNCHANGED result
        <5>1. PICK u \in left :
             /\ \A x \in DOMAIN may_convoy \ {u} : result'[x] = result[x]
             /\ \/ /\ "no convoy" \in result[u] /\ result'[u] = result[u]
                   /\ old \/ a = u
                \/ "no convoy" \notin result[u] /\ old
          BY <2>1, <2>7, <3>6, <4>3 DEF CarriedStep
        <5>2. u \in DOMAIN may_convoy
          BY <3>6 DEF OrdersInv
        <5>3. CASE a = u
          BY <4>1, <5>1, <5>2, <5>3
        <5>4. CASE a # u
          <6>1. old
            BY <5>1, <5>4
          <6> QED
            BY <4>1, <5>1, <5>4, <6>1
        <5> QED
          BY <5>3, <5>4
      <4> QED
        BY <4>2, <4>3
    <3> QED
      BY <2>7, <3>1, <3>2, <3>3, <3>4, <3>5, <3>6 DEF CarriedStep
  <2> QED
    BY <1>1, <1>3, <2>6, <2>7, CarriedSteps
<1> QED
  BY <1>2, <1>3

----------------------------------------------------------------------------
(* The strengths.                                                           *)

\* The units that support u without result.
Uncut(u) == {s \in Units : command[s].type = "S" /\ command[s].of = u /\ result[s] = {}}

\* Step 5 has still to take away the supports of u.
Undone(u) ==
    /\ u \in DOMAIN may_convoy /\ ~First
    /\ next \in {"strengths", "maybe", "convoycut", "definite", "cancel", "again"}
    /\ next = "cancel" => u \in left
    /\ "no convoy" \in result[u] \/ StaysFor(u)

\* No support is taken away twice.
Counted(u) == supports[u] >= Cardinality(Uncut(u))

SupportsInv ==
    /\ next \in {"orders", "convoy", "count"} => \A u \in Units : supports[u] = 0
    /\ next \notin {"orders", "convoy", "count"} /\ ~Bouncing =>
          \A u \in Units : Undone(u) \/ Counted(u)
    /\ Bouncing => \A u \in Units : supports[u] >= 0

\* A unit's supports are as many or fewer.
LEMMA CountedStays ==
    ASSUME owner \in Situations, Units' = Units, NEW u \in Units, supports[u] \in Int,
           NEW lost \in SUBSET Units,
           Counted(u), lost \subseteq Uncut(u), Uncut(u)' \subseteq Uncut(u) \ lost,
           supports'[u] = supports[u] - Cardinality(lost)
    PROVE  Counted(u)'
<1>1. Uncut(u) \in SUBSET Units
  BY DEF Uncut
<1>2. IsFiniteSet(Uncut(u)) /\ Cardinality(Uncut(u)) \in Nat /\ Cardinality(lost) \in Nat
  BY <1>1, UnitsFinite
<1>3. Cardinality(Uncut(u) \ lost) = Cardinality(Uncut(u)) - Cardinality(Uncut(u) \cap lost)
  BY <1>2, FS_Difference
<1>4. Uncut(u) \cap lost = lost
  OBVIOUS
<1>5. IsFiniteSet(Uncut(u) \ lost) /\ Cardinality(Uncut(u) \ lost) \in Nat
  BY <1>1, UnitsFinite
<1>6. Cardinality(Uncut(u)') <= Cardinality(Uncut(u) \ lost) /\ Cardinality(Uncut(u)') \in Nat
  BY <1>5, FS_Subset, FS_CardinalityType
<1> QED
  BY <1>2, <1>3, <1>4, <1>6 DEF Counted

\* What is undone stays so until the army is visited in step 5.
LEMMA UndoneStays ==
    ASSUME TypeInv, OrdersInv, FleetsInv, KindsInv, RoundsInv, [Next]_vars, ~Bouncing, NEW u, Undone(u)
    PROVE  \/ Undone(u)'
           \/ /\ next = "cancel" /\ left' = left \ {u} /\ "no convoy" \in result[u]
<1>1. next \notin {"orders", "convoy"} /\ u \in DOMAIN may_convoy
  BY DEF Undone
<1>2. UNCHANGED <<command, owner, may_convoy>>
  BY <1>1, Settled
<1>3. CASE UNCHANGED vars
  <2>1. MustStay(u)' <=> MustStay(u)
    BY <1>3, StaysSame DEF vars, orders, strengths
  <2> QED
    BY <1>3, <2>1 DEF Undone, StaysFor, First, vars, orders, control
<1>4. CASE CarriedStep
  <2>1. CASE next = "strengths"
    <3>1. next' = "maybe" /\ UNCHANGED <<cutters, result>>
      BY <1>1, <1>4, <2>1 DEF CarriedStep
    <3> QED
      BY <1>2, <2>1, <3>1 DEF Undone, StaysFor, First
  <2>2. CASE next = "maybe"
    <3>1. next' = "convoycut" /\ UNCHANGED cutters
      BY <1>4, <2>2 DEF CarriedStep
    <3>2. /\ result'[u] = IF MustStay(u) THEN {"maybe"} ELSE result[u]
          /\ MustStay(u) => MustStay(u)'
      BY <1>1, <1>4, <2>2 DEF CarriedStep
    <3> QED
      BY <1>2, <2>2, <3>1, <3>2 DEF Undone, StaysFor, First
  <2>3. CASE next = "convoycut"
    <3> DEFINE fresh == {v \in DOMAIN may_convoy : result[v] = {} /\ v \notin cutters}
    <3>1. next' = IF fresh # {} THEN "strengths" ELSE "definite"
      BY <1>4, <2>3 DEF CarriedStep
    <3>2. fresh = {}
      BY <2>3 DEF RoundsInv, Undone
    <3>3. result'[u] = result[u] /\ (MustStay(u)' <=> MustStay(u))
      BY <1>1, <1>4, <2>3 DEF CarriedStep
    <3> QED
      BY <1>2, <2>3, <3>1, <3>2, <3>3 DEF Undone, StaysFor, First
  <2>4. CASE next = "definite"
    <3>1. next' = "cancel" /\ left' = DOMAIN may_convoy /\ UNCHANGED cutters
      BY <1>4, <2>4 DEF CarriedStep
    <3>2. result'[u] = IF MustStay(u) THEN {"no convoy"} ELSE result[u]
      BY <1>1, <1>4, <2>4 DEF CarriedStep
    <3> QED
      BY <1>1, <1>2, <2>4, <3>1, <3>2 DEF Undone, StaysFor, First
  <2>5. CASE next \in {"cancel", "again"}
    <3>0. "no convoy" \in result[u] /\ (next = "cancel" => u \in left)
      BY <2>5 DEF Undone, StaysFor
    <3>1. CASE left = {} /\ next' = (IF next = "again" THEN "strengths" ELSE "laststrengths")
               /\ UNCHANGED <<cutters, result>>
      <4>1. next' = "strengths" /\ cutters' # {}
        BY <2>5, <3>0, <3>1 DEF RoundsInv
      <4> QED
        BY <1>1, <1>2, <3>0, <3>1, <4>1 DEF Undone, First
    <3>2. CASE \E v \in left :
             /\ left' = left \ {v}
             /\ \A x \in DOMAIN may_convoy \ {v} : result'[x] = result[x]
             /\ \/ /\ "no convoy" \in result[v] /\ result'[v] = result[v]
                   /\ UNCHANGED <<cutters, next>>
                \/ next' = "again" /\ "no convoy" \notin result[v]
                \/ UNCHANGED <<result, cutters, next>> /\ "no convoy" \notin result[v]
      <4>1. PICK v \in left : <3>2!1!(v)
        BY <3>2
      <4>2. "no convoy" \in result'[u] /\ next' \in {"cancel", "again"}
        BY <1>1, <2>5, <3>0, <4>1
      <4>3. CASE next' = "again"
        BY <1>1, <1>2, <4>2, <4>3 DEF Undone, First
      <4>4. CASE next' = "cancel" /\ u # v
        <5>1. next = "cancel"
          BY <2>5, <4>1, <4>4
        <5> QED
          BY <1>1, <1>2, <3>0, <4>1, <4>2, <4>4, <5>1 DEF Undone, First
      <4>5. CASE next' = "cancel" /\ u = v
        BY <2>5, <3>0, <4>1, <4>5
      <4> QED
        BY <4>2, <4>3, <4>4, <4>5
    <3> QED
      BY <1>4, <2>5, <3>1, <3>2 DEF CarriedStep
  <2> QED
    BY <2>1, <2>2, <2>3, <2>4, <2>5 DEF Undone
<1> QED
  BY <1>1, <1>3, <1>4, CarriedSteps

\* Supports that are cut are taken away, as long as they are not of a stranded army.
LEMMA CutCounted ==
    ASSUME TypeInv, OrdersInv, FleetsInv, KindsInv, StrandedInv, [Next]_vars, ~Bouncing,
           next \notin {"orders", "convoy"},
           NEW attackers, NEW freed \in SUBSET DOMAIN may_convoy, CutBy(attackers, freed),
           NEW u \in Units, Counted(u),
           \A s \in CutOf(attackers) : command[s].of = u => "no convoy" \notin result[s]
    PROVE  Counted(u)'
<1> DEFINE lost == {s \in CutOf(attackers) : command[s].of = u}
<1>1. Units' = Units /\ UNCHANGED command
  BY Settled
<1>2. supports'[u] = supports[u] - Cardinality(lost)
  <2>1. \A v \in Units : supports'[v] = supports[v] - Cardinality({s \in CutOf(attackers) : command[s].of = v})
    BY CutByFacts
  <2> QED
    BY <2>1
<1>3. ASSUME NEW s \in CutOf(attackers)
      PROVE  /\ s \in Units /\ command[s].type = "S" /\ result[s] \cap {"cut", "void"} = {}
             /\ s \notin freed /\ "cut" \in result'[s]
  <2>1. s \in Units /\ command[s].type = "S" /\ result[s] \cap {"cut", "void"} = {}
    BY CutByFacts
  <2>2. s \notin freed
    BY <2>1 DEF FleetsInv
  <2>3. result'[s] = result[s] \cup {"cut"}
    BY <2>1, <2>2, CutByFacts
  <2> QED
    BY <2>1, <2>2, <2>3
<1>4. ASSUME NEW s \in lost PROVE result[s] = {}
  <2>1. s \in CutOf(attackers) /\ command[s].of = u /\ "no convoy" \notin result[s]
    OBVIOUS
  <2>2. result[s] \subseteq {"void", "cut", "no convoy"}
    BY <1>3, <2>1 DEF KindsInv
  <2> QED
    BY <1>3, <2>1, <2>2
<1>5. lost \subseteq Uncut(u)
  BY <1>3, <1>4 DEF Uncut
<1>6. Uncut(u)' \subseteq Uncut(u) \ lost
  <2>1. ASSUME NEW s \in Uncut(u)' PROVE s \in Uncut(u) /\ s \notin lost
    <3>1. s \in Units /\ command[s].type = "S" /\ command[s].of = u /\ result'[s] = {}
      BY <1>1, <2>1 DEF Uncut
    <3>2. result[s] \subseteq result'[s]
      BY <3>1, KindSteps DEF KindStep
    <3>3. s \notin CutOf(attackers)
      BY <1>3, <3>1
    <3> QED
      BY <3>1, <3>2, <3>3 DEF Uncut
  <2> QED
    BY <2>1
<1>7. supports[u] \in Int /\ owner \in Situations /\ lost \in SUBSET Units
  BY <1>3 DEF TypeInv
<1> HIDE DEF lost
<1> QED
  BY <1>1, <1>2, <1>5, <1>6, <1>7, CountedStays

\* Steps that take no support away.
LEMMA KeptCounted ==
    ASSUME TypeInv, OrdersInv, FleetsInv, [Next]_vars, ~Bouncing, next \notin {"orders", "convoy"},
           NEW u \in Units, Counted(u), supports'[u] = supports[u]
    PROVE  Counted(u)'
<1>1. Units' = Units /\ UNCHANGED command
  BY Settled
<1>2. Uncut(u)' \subseteq Uncut(u)
  <2>1. ASSUME NEW s \in Uncut(u)' PROVE s \in Uncut(u)
    <3>1. s \in Units /\ command[s].type = "S" /\ command[s].of = u /\ result'[s] = {}
      BY <1>1, <2>1 DEF Uncut
    <3>2. result[s] \subseteq result'[s]
      BY <3>1, KindSteps DEF KindStep
    <3> QED
      BY <3>1, <3>2 DEF Uncut
  <2> QED
    BY <2>1
<1>3. Uncut(u) \in SUBSET Units /\ supports[u] \in Int /\ owner \in Situations
  BY DEF Uncut, TypeInv
<1>4. IsFiniteSet(Uncut(u)) /\ Cardinality(Uncut(u)) \in Nat
  BY <1>3, UnitsFinite
<1>5. Cardinality(Uncut(u)') <= Cardinality(Uncut(u)) /\ Cardinality(Uncut(u)') \in Nat
  BY <1>2, <1>4, FS_Subset, FS_CardinalityType
<1> QED
  BY <1>3, <1>4, <1>5 DEF Counted

\* Every step keeps the count of the supports.
LEMMA SupportsStep ==
    ASSUME TypeInv, OrdersInv, FleetsInv, KindsInv, RoundsInv, StrandedInv, SupportsInv, [Next]_vars
    PROVE  SupportsInv'
<1>0. Units' = Units
  BY OwnerStays
<1>1. CASE Bouncing
  <2>1. supports' = supports /\ Bouncing'
    <3>1. Bouncing'
      BY <1>1, Order
    <3>2. supports' = supports
      BY <1>1 DEF Bouncing, Next, vars, strengths, GiveOrder, MatchConvoys, CountSupports, CutSupports,
         Strengths, DisruptMaybe, CutByConvoyed, DisruptDefinite, CancelConvoys, BounceSwappers,
         BounceOutgunned, BounceSelfDislodger, CutByDislodging, Dislodge, Unbounce, Retreat
    <3> QED
      BY <3>1, <3>2
  <2> QED
    BY <1>0, <1>1, <2>1 DEF SupportsInv, Bouncing
<1>2. CASE next \in {"orders", "convoy"}
  <2>1. supports' = supports /\ next' \in {"orders", "convoy", "count"} /\ ~Bouncing'
    <3>1. MatchConvoys => supports' = supports
      BY DEF MatchConvoys, strengths
    <3> QED
      BY <1>2, <3>1, Unsettled DEF Bouncing
  <2> QED
    BY <1>0, <1>2, <2>1 DEF SupportsInv
<1>3. CASE ~Bouncing /\ next \notin {"orders", "convoy"}
  <2>1. UNCHANGED <<command, owner, may_convoy>> /\ next' \notin {"orders", "convoy"}
    BY <1>3, Settled
  <2>2. CASE UNCHANGED vars
    <3>1. next = "count" \/ next # "count"
      OBVIOUS
    <3>2. CASE next = "count"
      BY <1>0, <2>2, <3>2 DEF SupportsInv, Bouncing, vars, strengths, control
    <3>3. CASE next # "count"
      <4>1. supports' = supports /\ next' = next
        BY <2>2 DEF vars, strengths, control
      <4>2. \A u \in Units : Undone(u) => Undone(u)' \/ Counted(u)'
        <5>1. \A u : MustStay(u)' <=> MustStay(u)
          BY <2>2, StaysSame DEF vars, orders, strengths
        <5> QED
          BY <2>2, <5>1 DEF Undone, StaysFor, First, vars, orders, control
      <4>3. \A u \in Units : Counted(u) => Counted(u)'
        BY <1>3, <4>1, KeptCounted
      <4> QED
        BY <1>0, <1>3, <3>3, <4>1, <4>2, <4>3 DEF SupportsInv, Bouncing
    <3> QED
      BY <3>2, <3>3
  <2>3. CASE CountSupports
    <3> DEFINE void == {s \in Units :
                /\ command[s].type = "S"
                /\ \/ ~Supports(s, command[s].of)
                   \/ command[s].of \in MovingArmies /\ "no convoy" \in result[command[s].of]}
               helpers(u) == {s \in Units \ void : Supports(s, u)}
    <3>1. supports' = [u \in Units |-> Cardinality(helpers(u))] /\ result' = Mark(void, "void")
          /\ next' = "cut"
      BY <2>3 DEF CountSupports
    <3>2. ASSUME NEW u \in Units PROVE Counted(u)'
      <4>1. Uncut(u)' \subseteq helpers(u)
        <5>1. ASSUME NEW s \in Uncut(u)' PROVE s \in helpers(u)
          <6>1. s \in Units /\ command[s].type = "S" /\ command[s].of = u /\ result'[s] = {}
            BY <1>0, <2>1, <5>1 DEF Uncut
          <6>2. s \notin void
            <7> HIDE DEF void
            <7>1. result'[s] = result[s] \cup IF s \in void THEN {"void"} ELSE {}
              BY <3>1, <6>1, MarkValue
            <7> QED
              BY <6>1, <7>1
          <6> QED
            BY <6>1, <6>2
        <5> QED
          BY <5>1
      <4>2. IsFiniteSet(helpers(u)) /\ Cardinality(helpers(u)) \in Nat
        <5>1. helpers(u) \in SUBSET Units
          OBVIOUS
        <5> QED
          BY <5>1, UnitsFinite DEF TypeInv
      <4>3. supports'[u] = Cardinality(helpers(u))
        BY <3>1
      <4> HIDE DEF helpers
      <4>4. Cardinality(Uncut(u)') <= Cardinality(helpers(u)) /\ Cardinality(Uncut(u)') \in Nat
        BY <4>1, <4>2, FS_Subset, FS_CardinalityType
      <4> QED
        BY <4>2, <4>3, <4>4 DEF Counted
    <3> QED
      BY <1>0, <3>1, <3>2 DEF SupportsInv, Bouncing
  <2>4. next # "count" \/ CountSupports \/ UNCHANGED vars
    BY DEF Next, GiveOrder, MatchConvoys, CutSupports, Strengths,
       DisruptMaybe, CutByConvoyed, DisruptDefinite, CancelConvoys, BounceSwappers,
       BounceOutgunned, BounceSelfDislodger, CutByDislodging, Dislodge, Unbounce, Retreat, Done
  <2>5. CASE Strengths /\ next' = "swap"
    <3>1. \A u \in Units : Counted(u)
      <4>1. \A u \in Units : ~Undone(u)
        BY <2>5 DEF Strengths, Undone
      <4> QED
        BY <1>3, <2>5, <4>1 DEF SupportsInv, Strengths
    <3>2. ASSUME NEW u \in Units PROVE supports[u] >= 0
      <4>1. supports[u] >= Cardinality(Uncut(u)) /\ Cardinality(Uncut(u)) \in Nat /\ supports[u] \in Int
        <5>1. Uncut(u) \in SUBSET Units
          BY DEF Uncut
        <5> QED
          BY <3>1, <5>1, UnitsFinite DEF Counted, TypeInv
      <4> QED
        BY <4>1
    <3> QED
      BY <1>0, <2>5, <3>2 DEF SupportsInv, Strengths, Bouncing
  <2>6. CASE next # "count" /\ ~(Strengths /\ next' = "swap") /\ ~UNCHANGED vars
    <3>1. next' # "count" /\ ~Bouncing'
      BY <1>3, <2>6, EarlySteps DEF GiveOrder, MatchConvoys, CountSupports, CutSupports,
         Strengths, DisruptMaybe, CutByConvoyed, DisruptDefinite, CancelConvoys, Strand, Free, Bouncing
    <3>2. SUFFICES ASSUME NEW u \in Units PROVE Undone(u)' \/ Counted(u)'
      BY <1>0, <2>1, <3>1 DEF SupportsInv
    <3>3. Undone(u) \/ Counted(u)
      BY <1>3, <2>6 DEF SupportsInv
    <3>4. CASE supports'[u] = supports[u] /\ Counted(u)
      BY <1>3, <3>4, KeptCounted
    <3>5. CASE CancelConvoys /\ \E v \in left : left' = left \ {v} /\ "no convoy" \in result[v] /\ Strand(v)
      <4>1. PICK v \in left : left' = left \ {v} /\ "no convoy" \in result[v] /\ Strand(v)
        BY <3>5
      <4>2. left \subseteq Units
        BY DEF TypeInv
      <4>3. CASE u = v
        <5>1. Uncut(u)' = {}
          <6>1. ASSUME NEW s \in Uncut(u)' PROVE FALSE
            <7>1. s \in Units /\ command[s].type = "S" /\ command[s].of = u /\ result'[s] = {}
              BY <1>0, <2>1, <6>1 DEF Uncut
            <7>2. result'[s] = result[s] \cup IF s \in HelpersOf(u) THEN {"no convoy"} ELSE {}
              BY <4>1, <4>3, <7>1, StrandFacts
            <7>3. s \notin HelpersOf(u) /\ result[s] = {}
              BY <7>1, <7>2
            <7> QED
              BY <7>1, <7>3 DEF HelpersOf
          <6> QED
            BY <6>1
        <5>2. supports'[u] = 0
          BY <4>1, <4>3, StrandFacts
        <5> QED
          BY <5>1, <5>2, FS_EmptySet DEF Counted
      <4>4. CASE u # v
        <5>1. supports'[u] = supports[u]
          BY <4>1, <4>2, <4>4, StrandFacts
        <5>2. Undone(u) => Undone(u)'
          <6>1. next = "cancel" /\ Undone(u) => u \in left
            BY DEF Undone
          <6>2. next = "cancel" /\ Undone(u) => left' # left \ {u}
            BY <4>1, <4>4, <6>1
          <6> QED
            BY <1>3, <6>2, UndoneStays
        <5> QED
          BY <3>3, <3>4, <5>1, <5>2
      <4> QED
        BY <4>3, <4>4
    <3>6. CASE Undone(u) /\ ~<3>5!1
      <4>1. CASE next = "cancel" /\ left' = left \ {u} /\ "no convoy" \in result[u]
        <5>1. u \in left
          BY <3>6, <4>1 DEF Undone
        <5>2. CancelConvoys
          BY <1>3, <2>6, <4>1, EarlySteps DEF GiveOrder, MatchConvoys, CountSupports, CutSupports,
             Strengths, DisruptMaybe, CutByConvoyed, DisruptDefinite
        <5>3. PICK v \in left : left' = left \ {v} /\ ("no convoy" \in result[v] => Strand(v))
          BY <5>1, <5>2 DEF CancelConvoys
        <5>4. v = u
          BY <4>1, <5>1, <5>3
        <5> QED
          BY <3>6, <4>1, <5>2, <5>3, <5>4
      <4> QED
        BY <1>3, <3>6, <4>1, UndoneStays
    <3>7. CASE Counted(u) /\ ~Undone(u) /\ ~<3>5!1
      <4>1. CASE CutSupports \/ CutByConvoyed
        <5>1. PICK attackers : CutBy(attackers, {}) /\ (CutByConvoyed /\ ~First => attackers = {})
          <6>1. CASE CutSupports
            <7>1. ~CutByConvoyed
              BY <6>1 DEF CutSupports, CutByConvoyed
            <7> QED
              BY <6>1, <7>1 DEF CutSupports
          <6>2. CASE CutByConvoyed
            <7> DEFINE fresh == {v \in DOMAIN may_convoy : result[v] = {} /\ v \notin cutters}
            <7>1. CutBy(fresh, {}) /\ next = "convoycut"
              BY <6>2 DEF CutByConvoyed
            <7>2. ~First => fresh = {}
              BY <7>1 DEF RoundsInv
            <7> QED
              BY <7>1, <7>2
          <6> QED
            BY <4>1, <6>1, <6>2
        <5>2. ASSUME NEW s \in CutOf(attackers) PROVE "no convoy" \notin result[s]
          <6>1. s \in Units /\ command[s].type = "S" /\ attackers # {}
            BY <5>1, CutByFacts
          <6>2. First
            <7>1. CutSupports => First
              BY DEF CutSupports, First, RoundsInv
            <7> QED
              BY <4>1, <5>1, <6>1, <7>1
          <6> QED
            BY <6>1, <6>2 DEF RoundsInv
        <5>3. {} \in SUBSET DOMAIN may_convoy
          OBVIOUS
        <5> QED
          BY <1>3, <3>7, <5>1, <5>2, <5>3, CutCounted
      <4>2. ASSUME NEW v \in left, "no convoy" \notin result[v], Free(v), CancelConvoys
            PROVE  Undone(u)' \/ Counted(u)'
        <5>1. CutBy({v}, {v}) /\ next' = "again" /\ cutters' = cutters \cup {v} /\ next \in {"cancel", "again"}
          BY <4>2 DEF Free, CancelConvoys
        <5>2. {v} \in SUBSET DOMAIN may_convoy
          BY <5>1 DEF OrdersInv
        <5>3. CASE \A s \in CutOf({v}) : command[s].of = u => "no convoy" \notin result[s]
          BY <1>3, <3>7, <5>1, <5>2, <5>3, CutCounted
        <5>4. CASE \E s \in CutOf({v}) : command[s].of = u /\ "no convoy" \in result[s]
          <6>1. PICK s \in CutOf({v}) : command[s].of = u /\ "no convoy" \in result[s]
            BY <5>4
          <6>2. s \in Units /\ command[s].type = "S"
            BY <5>1, CutByFacts
          <6>3. u \in DOMAIN may_convoy /\ "no convoy" \in result[u]
            BY <1>3, <5>1, <6>1, <6>2 DEF StrandedInv, StaysFor
          <6>4. u # v
            BY <4>2, <6>3
          <6>5. "no convoy" \in result'[u]
            <7>1. result'[u] = IF u \in {v} THEN {}
                                 ELSE result[u] \cup IF u \in CutOf({v}) THEN {"cut"} ELSE {}
              BY <5>1, CutByFacts
            <7> QED
              BY <6>3, <6>4, <7>1
          <6> QED
            BY <2>1, <5>1, <6>3, <6>5 DEF Undone, First
        <5> QED
          BY <5>3, <5>4
      <4>3. CASE UNCHANGED supports
        BY <3>4, <3>7, <4>3
      <4>4. CASE CancelConvoys
        BY <3>7, <4>2, <4>3, <4>4 DEF CancelConvoys
      <4> QED
        BY <1>3, <2>6, <4>1, <4>3, <4>4, EarlySteps
        DEF vars, strengths, GiveOrder, MatchConvoys, CountSupports, Strengths, DisruptMaybe, DisruptDefinite
    <3> QED
      BY <3>3, <3>5, <3>6, <3>7
  <2> QED
    BY <1>3, <2>2, <2>3, <2>4, <2>5, <2>6
<1> QED
  BY <1>1, <1>2, <1>3

\* The supports that are not cut do what the orders say.
SupportersInv ==
    next \notin {"orders", "convoy", "count"} =>
        \A s \in Units : command[s].type = "S" /\ result[s] = {} => Supports(s, command[s].of)

\* A unit that still supports a move, or another unit, is not void or cut later.
LEMMA StillSupports ==
    ASSUME TypeInv, OrdersInv, FleetsInv, HelpInv, MarksInv, [Next]_vars,
           next \notin {"orders", "convoy"},
           NEW s \in Units, command[s].type = "S", result'[s] = {}
    PROVE  result[s] = {}
<1>1. CASE ~Bouncing
  BY <1>1, KindSteps DEF KindStep
<1>2. CASE Bouncing
  <2>1. Rests(s) \/ Bounces(s) \/ HelpsNot(s) \/ IsDislodged(s) \/ IsFreed(s)
    BY <1>2, LateMarks
  <2> QED
    BY <2>1 DEF Rests, Bounces, HelpsNot, IsDislodged, IsFreed, MarksInv, Moving
<1> QED
  BY <1>1, <1>2

\* Every step keeps that the supports left do what the orders say.
LEMMA SupportersStep ==
    ASSUME TypeInv, OrdersInv, FleetsInv, HelpInv, MarksInv, SupportersInv, [Next]_vars
    PROVE  SupportersInv'
<1> SUFFICES ASSUME next' \notin {"orders", "convoy", "count"},
                    NEW s \in Units, command'[s].type = "S", result'[s] = {},
                    NEW u, u = command'[s].of
             PROVE  Supports(s, u)'
  BY OwnerStays DEF SupportersInv, Supports
<1>1. next \notin {"orders", "convoy"}
  BY Unsettled
<1>2. command' = command
  BY <1>1, Settled
<1>3. result[s] = {}
  BY <1>1, <1>2, StillSupports
<1>4. SUFFICES Supports(s, u)
  BY <1>2 DEF Supports
<1>5. CASE next = "count"
  <2>1. CountSupports
    BY <1>5 DEF Next, vars, control, GiveOrder, MatchConvoys, CutSupports, Strengths,
       DisruptMaybe, CutByConvoyed, DisruptDefinite, CancelConvoys, BounceSwappers,
       BounceOutgunned, BounceSelfDislodger, CutByDislodging, Dislodge, Unbounce, Retreat, Done
  <2> DEFINE void == {t \in Units :
                /\ command[t].type = "S"
                /\ \/ ~Supports(t, command[t].of)
                   \/ command[t].of \in MovingArmies /\ "no convoy" \in result[command[t].of]}
  <2>2. result' = Mark(void, "void")
    BY <2>1 DEF CountSupports
  <2>3. s \notin void
    <3> HIDE DEF void
    <3>1. Mark(void, "void")[s] = result[s] \cup IF s \in void THEN {"void"} ELSE {}
      BY MarkValue
    <3> QED
      BY <2>2, <3>1
  <2> QED
    BY <1>2, <2>3
<1>6. CASE next # "count"
  BY <1>1, <1>2, <1>3, <1>6 DEF SupportersInv
<1> QED
  BY <1>5, <1>6

\* The units whose support counts in a fight.
Helping(e) == {s \in Units : command[s].type = "S" /\ <<command[s].of, command[s].to>> = e
                             /\ result[s] = {}}

\* Nobody fights before step 3; from step 6 on, with at least the supports that are left.
StrengthsInv ==
    /\ next \in {"orders", "convoy", "count", "cut"} => DOMAIN combat = {}
    /\ Bouncing => \A e \in DOMAIN combat : combat[e] >= 1 + Cardinality(Helping(e))

\* Nobody starts to support in the steps that bounce.
LEMMA HelpingStays ==
    ASSUME TypeInv, OrdersInv, FleetsInv, HelpInv, MarksInv, [Next]_vars, Bouncing, NEW e
    PROVE  /\ Helping(e)' \subseteq Helping(e)
           /\ IsFiniteSet(Helping(e)) /\ Cardinality(Helping(e)) \in Nat
           /\ Cardinality(Helping(e)') \in Nat /\ Cardinality(Helping(e)') <= Cardinality(Helping(e))
<1>1. Units' = Units /\ command' = command /\ next \notin {"orders", "convoy"}
  BY Settled DEF Bouncing
<1>2. Helping(e)' \subseteq Helping(e)
  <2>1. ASSUME NEW s \in Helping(e)' PROVE s \in Helping(e)
    BY <1>1, <2>1, StillSupports DEF Helping
  <2> QED
    BY <2>1
<1>3. IsFiniteSet(Helping(e)) /\ Cardinality(Helping(e)) \in Nat
  <2>1. Helping(e) \in SUBSET Units
    BY DEF Helping
  <2> QED
    BY <2>1, UnitsFinite DEF TypeInv
<1> QED
  BY <1>2, <1>3, FS_Subset, FS_CardinalityType

\* Every step keeps the strengths above those of the supports left.
LEMMA StrengthsStep ==
    ASSUME TypeInv, OrdersInv, FleetsInv, KindsInv, RoundsInv, StrandedInv, SupportsInv,
           HelpInv, MarksInv, SupportersInv, StrengthsInv, [Next]_vars
    PROVE  StrengthsInv'
<1>1. ASSUME next' \in {"orders", "convoy", "count", "cut"} PROVE DOMAIN combat' = {}
  <2>1. next \in {"orders", "convoy", "count", "cut"} /\ combat' = combat
    BY <1>1 DEF Next, vars, control, strengths, GiveOrder, MatchConvoys, CountSupports, CutSupports,
       Strengths, DisruptMaybe, CutByConvoyed, DisruptDefinite, CancelConvoys, Strand, Free,
       BounceSwappers, BounceOutgunned, BounceSelfDislodger, CutByDislodging, Dislodge, Unbounce,
       Vacate, Retreat, Done
  <2> QED
    BY <2>1 DEF StrengthsInv
<1>2. ASSUME Bouncing' PROVE \A e \in DOMAIN combat' : combat'[e] >= 1 + Cardinality(Helping(e)')
  <2>1. CASE ~Bouncing
    <3>1. Strengths /\ next' = "swap"
      BY <1>2, <2>1, EarlySteps DEF vars, control, Bouncing, GiveOrder, MatchConvoys, CountSupports,
         CutSupports, Strengths, DisruptMaybe, CutByConvoyed, DisruptDefinite, CancelConvoys,
         Strand, Free
    <3>2. next \in {"strengths", "laststrengths"} /\ result' = result
      BY <3>1 DEF Strengths
    <3>3. Units' = Units /\ command' = command
      BY <3>2, Settled
    <3>4. \A u \in Units : Counted(u)
      <4>1. \A u \in Units : ~Undone(u)
        BY <3>1 DEF Strengths, Undone
      <4> QED
        BY <2>1, <3>2, <4>1 DEF SupportsInv
    <3>5. ASSUME NEW e \in DOMAIN combat' PROVE combat'[e] >= 1 + Cardinality(Helping(e)')
      <4>1. e[1] \in Units /\ combat'[e] = 1 + supports[e[1]]
        BY <3>1, <3>5 DEF Strengths
      <4>2. Helping(e)' \subseteq Uncut(e[1])
        BY <3>2, <3>3 DEF Helping, Uncut
      <4>3. IsFiniteSet(Uncut(e[1])) /\ Cardinality(Uncut(e[1])) \in Nat /\ supports[e[1]] \in Int
        <5>1. Uncut(e[1]) \in SUBSET Units
          BY DEF Uncut
        <5> QED
          BY <4>1, <5>1, UnitsFinite DEF TypeInv
      <4>4. Cardinality(Helping(e)') <= Cardinality(Uncut(e[1])) /\ Cardinality(Helping(e)') \in Nat
        BY <4>2, <4>3, FS_Subset, FS_CardinalityType
      <4>5. supports[e[1]] >= Cardinality(Uncut(e[1]))
        BY <3>4, <4>1 DEF Counted
      <4> QED
        BY <4>1, <4>3, <4>4, <4>5
    <3> QED
      BY <3>5
  <2>2. CASE Bouncing
    <3>1. \A e \in DOMAIN combat : combat[e] >= 1 + Cardinality(Helping(e)) /\ combat[e] \in Int
      BY <2>2 DEF StrengthsInv, TypeInv, IsDict
    <3>2. \A e : /\ Cardinality(Helping(e)) \in Nat /\ Cardinality(Helping(e)') \in Nat
                 /\ Cardinality(Helping(e)') <= Cardinality(Helping(e))
      BY <2>2, HelpingStays
    <3>3. ASSUME NEW e \in DOMAIN combat, combat'[e] = combat[e]
          PROVE  combat'[e] >= 1 + Cardinality(Helping(e)')
      BY <3>1, <3>2, <3>3
    <3>4. ASSUME DOMAIN combat' \subseteq DOMAIN combat, \A e \in DOMAIN combat' : combat'[e] = combat[e]
          PROVE  \A e \in DOMAIN combat' : combat'[e] >= 1 + Cardinality(Helping(e)')
      BY <3>3, <3>4
    <3>5. ASSUME NEW units, combat' = Bounced(units), \A u \in units : u \in Units /\ Moving(u)
          PROVE  \A e \in DOMAIN combat' : combat'[e] >= 1 + Cardinality(Helping(e)')
      <4>1. \A e \in DOMAIN combat' : \/ e \in DOMAIN combat /\ combat'[e] = combat[e]
                                      \/ combat'[e] = 1 /\ \E u \in units : e = <<u, u>>
        BY <3>5 DEF Bounced
      <4>2. ASSUME NEW u \in units PROVE Helping(<<u, u>>) = {}
        <5>1. ASSUME NEW s \in Helping(<<u, u>>) PROVE FALSE
          <6>1. s \in Units /\ command[s].type = "S" /\ command[s].of = u /\ command[s].to = u
                /\ result[s] = {}
            BY DEF Helping
          <6>2. Supports(s, u)
            BY <2>2, <6>1 DEF SupportersInv, Bouncing
          <6> QED
            BY <3>5, <6>1, <6>2 DEF Supports, Moving
        <5> QED
          BY <5>1
      <4>3. \A u \in units : Cardinality(Helping(<<u, u>>)) = 0
        BY <4>2, FS_EmptySet
      <4>4. ASSUME NEW u \in units PROVE Cardinality(Helping(<<u, u>>)') <= 0
        BY <3>2, <4>3
      <4>5. ASSUME NEW e \in DOMAIN combat' PROVE combat'[e] >= 1 + Cardinality(Helping(e)')
        <5>1. CASE e \in DOMAIN combat /\ combat'[e] = combat[e]
          BY <3>3, <5>1
        <5>2. CASE combat'[e] = 1 /\ \E u \in units : e = <<u, u>>
          <6>1. Cardinality(Helping(e)) = 0
            BY <4>3, <5>2
          <6> QED
            BY <3>2, <5>2, <6>1
        <5> QED
          BY <4>1, <5>1, <5>2
      <4> QED
        BY <4>5
    <3>6. CASE BounceSwappers
      <4> DEFINE losers == {u \in {v \in Units : \E w \in Units : HeadToHead(v, w)} :
                               LosesSwap(u, command[u].to)}
      <4>1. combat' = Bounced(losers)
        BY <3>6 DEF BounceSwappers
      <4>2. \A u \in losers : u \in Units /\ Moving(u)
        BY DEF HeadToHead
      <4> QED
        BY <3>5, <4>1, <4>2
    <3>7. CASE BounceOutgunned
      BY <3>5, <3>7 DEF BounceOutgunned, Outgunned
    <3>8. CASE BounceSelfDislodger
      <4>1. combat' = combat \/ \E u \in left : SelfDislodges(u) /\ combat' = Bounced({u})
        BY <3>8 DEF BounceSelfDislodger
      <4>2. left \subseteq Units
        BY DEF TypeInv
      <4>3. ASSUME NEW u \in left, SelfDislodges(u), combat' = Bounced({u})
            PROVE  \A e \in DOMAIN combat' : combat'[e] >= 1 + Cardinality(Helping(e)')
        <5>1. \A v \in {u} : v \in Units /\ Moving(v)
          BY <4>2, <4>3 DEF SelfDislodges
        <5> QED
          BY <3>5, <4>3, <5>1
      <4> QED
        BY <3>4, <4>1, <4>3
    <3>9. CASE CutByDislodging
      <4> DEFINE victims == {s \in Units : /\ command[s].type = "S" /\ result[s] = {}
                                    /\ \E u \in Units :
                                          /\ Moving(u) /\ command[u].to = s
                                          /\ command[u].via => command[s].to = u}
                 lost(e) == {s \in victims : <<command[s].of, command[s].to>> = e}
      <4>1. /\ result' = Mark(victims, "cut") /\ command' = command
            /\ combat' = [e \in DOMAIN combat |-> combat[e] - Cardinality(lost(e))]
        BY <3>9 DEF CutByDislodging, orders
      <4>2. ASSUME NEW e \in DOMAIN combat' PROVE combat'[e] >= 1 + Cardinality(Helping(e)')
        <5>1. lost(e) \subseteq Helping(e)
          BY DEF Helping
        <5>2. lost(e) \cap Helping(e)' = {}
          <6>1. ASSUME NEW s \in lost(e) PROVE result'[s] # {}
            <7>1. s \in Units /\ s \in victims
              OBVIOUS
            <7> HIDE DEF victims
            <7>2. result'[s] = result[s] \cup IF s \in victims THEN {"cut"} ELSE {}
              BY <4>1, <7>1, MarkValue
            <7> QED
              BY <7>1, <7>2
          <6> HIDE DEF lost
          <6> QED
            BY <6>1 DEF Helping
        <5>3. e \in DOMAIN combat /\ combat'[e] = combat[e] - Cardinality(lost(e))
          BY <4>1, <4>2
        <5> HIDE DEF lost
        <5>4. Helping(e)' \subseteq Helping(e) \ lost(e) /\ IsFiniteSet(Helping(e))
          BY <2>2, <5>2, HelpingStays
        <5>5. Cardinality(Helping(e) \ lost(e)) = Cardinality(Helping(e)) - Cardinality(lost(e))
          <6>1. Helping(e) \cap lost(e) = lost(e)
            BY <5>1
          <6> QED
            BY <5>4, <6>1, FS_Difference
        <5>6. Cardinality(Helping(e)') <= Cardinality(Helping(e) \ lost(e))
          <6>1. IsFiniteSet(Helping(e) \ lost(e))
            BY <5>4, FS_Difference
          <6> QED
            BY <5>4, <6>1, FS_Subset
        <5>7. Cardinality(lost(e)) \in Nat
          BY <5>1, <5>4, FS_Subset, FS_CardinalityType
        <5> QED
          BY <3>1, <3>2, <5>3, <5>5, <5>6, <5>7
      <4> QED
        BY <4>2
    <3>10. CASE Dislodge
      <4>1. DOMAIN combat' \subseteq DOMAIN combat /\ \A e \in DOMAIN combat' : combat'[e] = combat[e]
        BY <3>10 DEF Dislodge, WithoutLoser, Drop
      <4> QED
        BY <3>4, <4>1
    <3>11. CASE Unbounce
      <4>1. DOMAIN combat' \subseteq DOMAIN combat /\ \A e \in DOMAIN combat' : combat'[e] = combat[e]
        BY <3>11 DEF Unbounce, Drop
      <4> QED
        BY <3>4, <4>1
    <3>12. CASE combat' = combat
      BY <3>4, <3>12
    <3> QED
      BY <2>2, <3>6, <3>7, <3>8, <3>9, <3>10, <3>11, <3>12
      DEF Next, vars, strengths, Bouncing, GiveOrder, MatchConvoys, CountSupports, CutSupports,
         Strengths, DisruptMaybe, CutByConvoyed, DisruptDefinite, CancelConvoys, Retreat
  <2> QED
    BY <2>1, <2>2
<1>3. \A e : Helping(e)' = Helping(e)'
  OBVIOUS
<1> QED
  BY <1>1, <1>2 DEF StrengthsInv, Helping

----------------------------------------------------------------------------
(* The entries that fights leave.                                           *)

\* Steps 6 to 9: some units bounce, and fight where they are, too.
OnlyBounce(units) ==
    /\ ~Dislodging
    /\ DOMAIN combat' = DOMAIN combat \cup {<<u, u>> : u \in units}
    /\ \A u \in Units : Moving(u)' <=> Moving(u) /\ u \notin units

\* A step that leaves the marks and the fights alone.
Still == UNCHANGED <<result, combat, dislodged>> /\ (UNCHANGED left \/ ~Dislodging)

\* Each step from the sixth on is one of these.
LEMMA CombatSteps ==
    ASSUME TypeInv, OrdersInv, HelpInv, MarksInv, CombatInv, SiteInv, [Next]_vars, Bouncing
    PROVE  /\ UNCHANGED <<owner, command, convoy_paths>> /\ Units' = Units
           /\ \/ Still
              \/ \E units \in SUBSET Units : OnlyBounce(units)
              \/ Dislodge /\ \E u \in left : Visit(u)
              \/ Unbounce /\ left' = left /\ \E u \in Units : Frees(u)
<1>1. UNCHANGED <<owner, command, convoy_paths>> /\ Units' = Units
  BY Settled DEF Bouncing, Next, vars, orders, GiveOrder, MatchConvoys, CountSupports, CutSupports,
     Strengths, DisruptMaybe, CutByConvoyed, DisruptDefinite, CancelConvoys, BounceSwappers,
     BounceOutgunned, BounceSelfDislodger, CutByDislodging, Dislodge, Unbounce, Retreat
<1>2. ASSUME NEW units \in SUBSET Units, NEW void, \A s \in void : command[s].type = "S",
             ~Dislodging, combat' = Bounced(units),
             result' = [u \in Units |-> Mark(units, "bounce")[u]
                                           \cup IF u \in void THEN {"void"} ELSE {}]
      PROVE  OnlyBounce(units)
  <2>1. ASSUME NEW u \in Units PROVE Moving(u)' <=> Moving(u) /\ u \notin units
    <3>1. Mark(units, "bounce")[u] = result[u] \cup IF u \in units THEN {"bounce"} ELSE {}
      BY MarkValue
    <3>2. result'[u] = Mark(units, "bounce")[u] \cup IF u \in void THEN {"void"} ELSE {}
      BY <1>2
    <3>3. command[u].type = "-" => (result'[u] = {} <=> result[u] = {} /\ u \notin units)
      BY <1>2, <3>1, <3>2
    <3> QED
      BY <1>1, <3>3 DEF Moving
  <2>2. DOMAIN combat' = DOMAIN combat \cup {<<u, u>> : u \in units}
    BY <1>2 DEF Bounced
  <2> QED
    BY <1>2, <2>1, <2>2 DEF OnlyBounce
<1>3. CASE BounceSwappers
  <2> DEFINE swappers == {v \in Units : \E w \in Units : HeadToHead(v, w)}
             losers == {v \in swappers : LosesSwap(v, command[v].to)}
             void == UNION {no_help[v] : v \in swappers}
  <2>1. /\ result' = [v \in Units |-> Mark(losers, "bounce")[v]
                                         \cup IF v \in void THEN {"void"} ELSE {}]
        /\ combat' = Bounced(losers) /\ next = "swap"
    BY <1>3 DEF BounceSwappers
  <2>2. losers \in SUBSET Units /\ \A s \in void : command[s].type = "S"
    BY DEF HelpInv
  <2> HIDE DEF losers, void
  <2>3. OnlyBounce(losers)
    BY <1>2, <2>1, <2>2 DEF Dislodging
  <2> QED
    BY <1>1, <2>2, <2>3
<1>4. CASE BounceOutgunned
  <2> DEFINE losers == {v \in Units : Outgunned(v)}
  <2>1. result' = Mark(losers, "bounce") /\ combat' = Bounced(losers) /\ next = "outgun"
    BY <1>4 DEF BounceOutgunned
  <2>2. losers \in SUBSET Units
    OBVIOUS
  <2> HIDE DEF losers
  <2> DEFINE void == {}
  <2>3. result' = [v \in Units |-> Mark(losers, "bounce")[v] \cup IF v \in void THEN {"void"} ELSE {}]
    BY <2>1 DEF Mark
  <2>5. \A s \in void : command[s].type = "S"
    OBVIOUS
  <2> HIDE DEF void
  <2>4. OnlyBounce(losers)
    BY <1>2, <2>1, <2>2, <2>3, <2>5 DEF Dislodging
  <2> QED
    BY <1>1, <2>2, <2>4
<1>5. CASE BounceSelfDislodger
  <2>1. CASE UNCHANGED <<result, combat>>
    BY <1>1, <1>5, <2>1 DEF BounceSelfDislodger, Still, Dislodging
  <2>2. ASSUME NEW w \in left,
               result' = [v \in Units |-> Mark({w}, "bounce")[v] \cup
                                              IF v \in no_help[w] THEN {"void"} ELSE {}],
               combat' = Bounced({w})
        PROVE  \E units \in SUBSET Units : OnlyBounce(units)
    <3>1. {w} \in SUBSET Units /\ next = "self"
      BY <1>5 DEF TypeInv, BounceSelfDislodger
    <3>2. \A s \in no_help[w] : command[s].type = "S"
      BY <3>1 DEF HelpInv
    <3>3. OnlyBounce({w})
      BY <1>2, <2>2, <3>1, <3>2 DEF Dislodging
    <3> QED
      BY <3>1, <3>3
  <2> QED
    BY <1>1, <1>5, <2>1, <2>2 DEF BounceSelfDislodger
<1>6. CASE CutByDislodging
  <2> DEFINE victims == {s \in Units : /\ command[s].type = "S" /\ result[s] = {}
                                      /\ \E v \in Units :
                                            /\ Moving(v) /\ command[v].to = s
                                            /\ command[v].via => command[s].to = v}
  <2>1. result' = Mark(victims, "cut") /\ DOMAIN combat' = DOMAIN combat /\ next = "dislodgecut"
    BY <1>6 DEF CutByDislodging
  <2>2. \A u \in victims : command[u].type = "S"
    OBVIOUS
  <2> HIDE DEF victims
  <2>3. ASSUME NEW u \in Units PROVE Moving(u)' <=> Moving(u)
    <3>1. Mark(victims, "cut")[u] = result[u] \cup IF u \in victims THEN {"cut"} ELSE {}
      BY MarkValue
    <3> QED
      BY <1>1, <2>1, <2>2, <3>1 DEF Moving
  <2>4. {<<u, u>> : u \in {}} = {}
    OBVIOUS
  <2>5. OnlyBounce({})
    BY <2>1, <2>3, <2>4 DEF OnlyBounce, Dislodging
  <2> QED
    BY <1>1, <2>5
<1>7. CASE Dislodge
  BY <1>1, <1>7, DislodgeVisits
<1>8. CASE Unbounce
  BY <1>1, <1>8, UnbounceFrees DEF Still
<1>9. CASE Retreat \/ UNCHANGED vars
  BY <1>1, <1>9 DEF Retreat, Still, vars, strengths, orders, control
<1> QED
  BY <1>3, <1>4, <1>5, <1>6, <1>7, <1>8, <1>9
  DEF Next, Bouncing, GiveOrder, MatchConvoys, CountSupports, CutSupports,
     Strengths, DisruptMaybe, CutByConvoyed, DisruptDefinite, CancelConvoys

\* Nobody is found without a convoy any more.
LEMMA StrandedStay ==
    ASSUME TypeInv, HelpInv, MarksInv, [Next]_vars, Bouncing, NEW u \in Units
    PROVE  /\ "no convoy" \in result'[u] <=> "no convoy" \in result[u]
           /\ command[u].type = "-" => result'[u] \subseteq result[u] \cup {"bounce", "dislodged"}
<1>1. Rests(u) \/ Bounces(u) \/ HelpsNot(u) \/ IsDislodged(u) \/ IsFreed(u)
  BY LateMarks
<1>2. CASE Bounces(u)
  BY <1>2 DEF Bounces, Moving
<1>3. CASE HelpsNot(u)
  BY <1>3 DEF HelpsNot
<1>4. CASE IsDislodged(u)
  <2>1. /\ result'[u] \subseteq result[u] \cup {"dislodged", "void"}
        /\ command[u].type = "-" => result'[u] \subseteq result[u] \cup {"dislodged"}
        /\ result[u] \ {"disrupted"} \subseteq result'[u]
    BY <1>4 DEF IsDislodged
  <2> QED
    BY <2>1
<1>5. CASE IsFreed(u)
  BY <1>5 DEF IsFreed
<1> QED
  BY <1>1, <1>2, <1>3, <1>4, <1>5 DEF Rests

\* u goes to v and v to u, and neither is convoyed.
Meets(u, v) == /\ command[u].type = "-" /\ command[u].to = v /\ command[v].to = u
               /\ ~MovesViaConvoy(u) /\ ~MovesViaConvoy(v)

\* A unit that bounced fights where it goes, unless a unit that moved has beaten it.
Beaten(u) == Dislodging /\ \E w \in Units : Moving(w) /\ Meets(u, w)

\* Where a unit fights.
Entry(u) ==
    /\ command[u].type = "-" =>
          "no convoy" \in result[u] \/ result[u] \subseteq {"bounce", "dislodged"}
    /\ command[u].type = "-" /\ "no convoy" \notin result[u] =>
          <<u, command[u].to>> \in DOMAIN combat \/ Beaten(u)
    /\ ~Moving(u) => <<u, u>> \in DOMAIN combat
    /\ <<u, u>> \in DOMAIN combat /\ Moving(u) =>
          Dislodging /\ \E w \in Units : Moving(w) /\ command[w].to = u
    /\ \A p : <<u, p>> \in DOMAIN combat /\ p # u =>
          command[u].type = "-" /\ p = command[u].to /\ "no convoy" \notin result[u]

EntriesInv == Bouncing => \A u \in Units : Entry(u)

\* Step 10 takes away the fight of a unit that is beaten.
BeatenInv ==
    Dislodging =>
        \A u \in Units \ left : Moving(u) =>
            \A v \in Units : ~Moving(v) /\ Meets(v, u) => <<v, u>> \notin DOMAIN combat

\* Who is beaten stays so.
LEMMA BeatenStays ==
    ASSUME TypeInv, OrdersInv, HelpInv, MarksInv, CombatInv, SiteInv, [Next]_vars, Bouncing,
           NEW u, Beaten(u)
    PROVE  Beaten(u)'
<1>1. UNCHANGED <<owner, command, convoy_paths>> /\ Units' = Units
  BY CombatSteps
<1>2. PICK w \in Units : Moving(w) /\ Meets(u, w)
  BY DEF Beaten
<1>3. Dislodging' /\ Moving(w)'
  BY <1>2, Order, MovesStay DEF Beaten
<1>4. Meets(u, w)'
  BY <1>1, <1>2 DEF Meets, MovesViaConvoy
<1> QED
  BY <1>1, <1>3, <1>4 DEF Beaten

\* Every step keeps what is known of the fights of each unit.
LEMMA EntriesStep ==
    ASSUME TypeInv, OrdersInv, FleetsInv, KindsInv, RoundsInv, UndecidedInv,
           HelpInv, MarksInv, CombatInv, SiteInv, AttackersInv,
           EntriesInv, [Next]_vars
    PROVE  EntriesInv'
<1>1. CASE ~Bouncing
  <2> SUFFICES ASSUME Bouncing' PROVE EntriesInv'
    BY DEF EntriesInv
  <2>1. Strengths /\ next' = "swap"
    BY <1>1, EarlySteps DEF vars, control, Bouncing, GiveOrder, MatchConvoys, CountSupports,
       CutSupports, Strengths, DisruptMaybe, CutByConvoyed, DisruptDefinite, CancelConvoys,
       Strand, Free
  <2>2. next \in {"strengths", "laststrengths"} /\ UNCHANGED <<owner, command, result>> /\ Units' = Units
    BY <2>1 DEF Strengths, orders, Units
  <2>3. DOMAIN combat' = {<<u, command[u].to>> : u \in {v \in Units : Moving(v)}}
                        \cup {<<u, u>> : u \in {v \in Units : ~Moving(v)}}
    BY <2>1 DEF Strengths
  <2>4. ASSUME NEW u \in Units, command[u].type = "-" PROVE result[u] \in {{}, {"no convoy"}}
    <3>1. "maybe" \notin result[u]
      <4>1. UndecidedInv'
        BY UndecidedStep
      <4> QED
        BY <2>1, <2>2, <4>1 DEF UndecidedInv
    <3> QED
      BY <1>1, <2>2, <2>4, <3>1 DEF KindsInv
  <2>5. ASSUME NEW u \in Units
        PROVE  /\ command[u].type = "-" =>
                     "no convoy" \in result[u] \/ result[u] \subseteq {"bounce", "dislodged"}
               /\ command[u].type = "-" /\ "no convoy" \notin result[u] =>
                     <<u, command[u].to>> \in DOMAIN combat'
               /\ ~Moving(u) => <<u, u>> \in DOMAIN combat'
               /\ ~(<<u, u>> \in DOMAIN combat' /\ Moving(u))
               /\ \A p : <<u, p>> \in DOMAIN combat' /\ p # u =>
                     command[u].type = "-" /\ p = command[u].to /\ "no convoy" \notin result[u]
    <3>1. command[u].type = "-" => command[u].to # u
      BY <2>2 DEF OrdersInv
    <3> QED
      BY <2>3, <2>4, <3>1 DEF Moving
  <2>6. ASSUME NEW u \in Units PROVE Entry(u)'
    BY <2>2, <2>5 DEF Entry, Moving
  <2> QED
    BY <2>2, <2>6 DEF EntriesInv
<1>2. CASE Bouncing
  <2>1. UNCHANGED <<owner, command, convoy_paths>> /\ Units' = Units
    BY <1>2, CombatSteps
  <2>2. Bouncing' /\ (Dislodging => Dislodging')
    BY <1>2, Order
  <2> SUFFICES ASSUME NEW u \in Units PROVE Entry(u)'
    BY <2>1, <2>2 DEF EntriesInv
  <2> SUFFICES
              /\ command[u].type = "-" =>
                    "no convoy" \in result'[u] \/ result'[u] \subseteq {"bounce", "dislodged"}
              /\ command[u].type = "-" /\ "no convoy" \notin result'[u] =>
                    <<u, command[u].to>> \in DOMAIN combat' \/ Beaten(u)'
              /\ ~Moving(u)' => <<u, u>> \in DOMAIN combat'
              /\ <<u, u>> \in DOMAIN combat' /\ Moving(u)' =>
                    Dislodging' /\ \E w \in Units : Moving(w)' /\ command[w].to = u
              /\ \A p : <<u, p>> \in DOMAIN combat' /\ p # u =>
                    command[u].type = "-" /\ p = command[u].to /\ "no convoy" \notin result'[u]
    BY <2>1 DEF Entry
  <2>3. /\ "no convoy" \in result'[u] <=> "no convoy" \in result[u]
        /\ command[u].type = "-" => result'[u] \subseteq result[u] \cup {"bounce", "dislodged"}
    BY <1>2, StrandedStay
  <2>4. command[u].type = "-" => command[u].to # u
    BY <1>2 DEF OrdersInv, Bouncing
  <2>5. /\ command[u].type = "-" =>
                "no convoy" \in result[u] \/ result[u] \subseteq {"bounce", "dislodged"}
        /\ command[u].type = "-" /\ "no convoy" \notin result[u] =>
                <<u, command[u].to>> \in DOMAIN combat \/ Beaten(u)
        /\ ~Moving(u) => <<u, u>> \in DOMAIN combat
        /\ <<u, u>> \in DOMAIN combat /\ Moving(u) =>
                Dislodging /\ \E w \in Units : Moving(w) /\ command[w].to = u
        /\ \A p : <<u, p>> \in DOMAIN combat /\ p # u =>
                command[u].type = "-" /\ p = command[u].to /\ "no convoy" \notin result[u]
    BY <1>2 DEF EntriesInv, Entry
  <2>6. command[u].type = "-" =>
            "no convoy" \in result'[u] \/ result'[u] \subseteq {"bounce", "dislodged"}
    BY <2>3, <2>5
  <2>7. Beaten(u) => Beaten(u)'
    BY <1>2, BeatenStays
  <2>8. ASSUME Dislodging, NEW w \in Units, Moving(w) PROVE Moving(w)'
    BY <2>8, MovesStay
  <2>9. CASE Still
    <3>1. Moving(u)' <=> Moving(u)
      BY <2>1, <2>9 DEF Still, Moving
    <3> QED
      BY <2>2, <2>5, <2>6, <2>7, <2>8, <2>9, <3>1 DEF Still
  <2>10. ASSUME NEW units \in SUBSET Units, OnlyBounce(units)
        PROVE  /\ DOMAIN combat \subseteq DOMAIN combat'
               /\ ~Moving(u)' => <<u, u>> \in DOMAIN combat'
               /\ <<u, u>> \in DOMAIN combat' /\ Moving(u)' => FALSE
               /\ \A p : <<u, p>> \in DOMAIN combat' /\ p # u => <<u, p>> \in DOMAIN combat
    BY <2>5, <2>10 DEF OnlyBounce
  <2>11. CASE Dislodge /\ \E w \in left : Visit(w)
    <3>1. PICK w \in left : Visit(w)
      BY <2>11
    <3>2. Moving(u)' <=> Moving(u)
      BY <2>11, DislodgeVisits
    <3>3. w \in Units /\ Dislodging
      BY <2>11 DEF TypeInv, Dislodge, Dislodging
    <3>4. CASE combat' = combat
      BY <2>2, <2>3, <2>5, <2>6, <2>7, <2>8, <3>2, <3>4
    <3>5. ASSUME NEW p, p = command[w].to, p \in Units, Moving(w), ~Moving(p), Meets(p, w),
                 combat' = Drop(combat, <<p, w>>)
          PROVE  /\ command[u].type = "-" /\ "no convoy" \notin result'[u] =>
                       <<u, command[u].to>> \in DOMAIN combat' \/ Beaten(u)'
                 /\ ~Moving(u)' => <<u, u>> \in DOMAIN combat'
                 /\ <<u, u>> \in DOMAIN combat' => <<u, u>> \in DOMAIN combat
                 /\ \A q : <<u, q>> \in DOMAIN combat' => <<u, q>> \in DOMAIN combat
      <4>1. DOMAIN combat' = DOMAIN combat \ {<<p, w>>}
        BY <3>5 DEF Drop
      <4>2. p # w
        BY <3>5
      <4>3. Beaten(p)
        BY <3>3, <3>5 DEF Beaten
      <4>5. u = p => Beaten(u)
        BY <4>3
      <4> QED
        BY <2>3, <2>5, <2>7, <3>2, <4>1, <4>2, <4>5
    <3>6. combat' = combat \/
          \E p : /\ p = command[w].to /\ p \in Units /\ Moving(w) /\ ~Moving(p) /\ Meets(p, w)
                 /\ combat' = Drop(combat, <<p, w>>)
      BY <3>1 DEF Visit, WithoutLoser, Meets, Moving
    <3> QED
      BY <2>2, <2>3, <2>5, <2>6, <2>8, <3>2, <3>3, <3>4, <3>5, <3>6
  <2>12. CASE Unbounce /\ \E w \in Units : Frees(w)
    <3>1. PICK w \in Units : Frees(w)
      BY <2>12
    <3>2. Dislodging
      BY <2>12 DEF Unbounce, Dislodging
    <3>3. u # w => (Moving(u)' <=> Moving(u))
      BY <2>1, <3>1 DEF Frees, Moving
    <3>4. CASE w \in DOMAIN dislodged
      <4>1. combat' = combat
        BY <3>1, <3>4 DEF Frees
      <4>2. dislodged[w] \in Units /\ Moving(dislodged[w]) /\ command[dislodged[w]].to = w
        BY <3>4 DEF AttackersInv, TypeInv, IsDict
      <4>4. <<u, u>> \in DOMAIN combat' /\ Moving(u)' =>
                    \E v \in Units : Moving(v)' /\ command[v].to = u
        <5>1. CASE u = w
          <6>1. \E v \in Units : v = dislodged[w] /\ Moving(v)
            BY <4>2
          <6>2. PICK v \in Units : v = dislodged[w] /\ Moving(v)
            BY <6>1
          <6>3. Moving(v)'
            BY <2>8, <3>2, <6>2
          <6> QED
            BY <4>2, <5>1, <6>2, <6>3
        <5>2. CASE u # w
          BY <2>5, <2>8, <3>2, <3>3, <4>1, <5>2
        <5> QED
          BY <5>1, <5>2
      <4>5. ~Moving(u)' => ~Moving(u)
        BY <3>1, <3>3 DEF Frees
      <4> QED
        BY <2>2, <2>3, <2>5, <2>6, <2>7, <3>2, <4>1, <4>4, <4>5
    <3>5. CASE w \notin DOMAIN dislodged
      <4>1. DOMAIN combat' = DOMAIN combat \ {<<w, w>>}
        BY <3>1, <3>5 DEF Frees, Drop
      <4>2. Moving(w)'
        BY <3>1 DEF Frees
      <4>3. ~Moving(u)' => ~Moving(u) /\ u # w
        BY <3>1, <3>3 DEF Frees
      <4>4. <<u, u>> \in DOMAIN combat' => u # w
        BY <4>1
      <4>5. command[u].type = "-" => <<u, command[u].to>> # <<w, w>>
        BY <2>4
      <4> QED
        BY <2>2, <2>3, <2>5, <2>6, <2>7, <2>8, <3>2, <3>3, <4>1, <4>3, <4>4, <4>5
    <3> QED
      BY <3>4, <3>5
  <2>13. CASE \E units \in SUBSET Units : OnlyBounce(units)
    BY <2>3, <2>5, <2>6, <2>7, <2>10, <2>13
  <2> QED
    BY <1>2, <2>9, <2>11, <2>12, <2>13, CombatSteps
<1> QED
  BY <1>1, <1>2

\* A fight that was taken away does not come back in step 10.
LEMMA BeatenStep ==
    ASSUME TypeInv, OrdersInv, HelpInv, MarksInv, CombatInv, SiteInv, BeatenInv, [Next]_vars
    PROVE  BeatenInv'
<1> SUFFICES ASSUME Dislodging',
                    NEW u \in Units, u \notin left', Moving(u)',
                    NEW v \in Units, ~Moving(v)', Meets(v, u)'
             PROVE  <<v, u>> \notin DOMAIN combat'
  BY OwnerStays DEF BeatenInv
<1>1. CASE ~Dislodging
  <2>1. UNCHANGED <<command, result>> /\ left' = MayMove
    BY <1>1, ReachesDislodging
  <2>2. Moving(u)
    BY <2>1 DEF Moving
  <2> QED
    BY <2>1, <2>2 DEF MayMove, Moving
<1>2. CASE Dislodging
  <2>1. UNCHANGED <<owner, command, convoy_paths>> /\ Bouncing
    BY <1>2, CombatSteps DEF Dislodging, Bouncing
  <2>2. Meets(v, u)
    BY <2>1 DEF Meets, MovesViaConvoy
  <2>3. ~Moving(v)
    BY <1>2, MovesStay
  <2>4. Moving(u) /\ u \notin left => <<v, u>> \notin DOMAIN combat
    BY <1>2, <2>2, <2>3 DEF BeatenInv
  <2>5. CASE Still
    BY <1>2, <2>1, <2>4, <2>5 DEF Still, Moving
  <2>6. CASE Dislodge /\ \E w \in left : Visit(w)
    <3>1. PICK w \in left : Visit(w)
      BY <2>6
    <3>2. Moving(u)
      BY <2>6, DislodgeVisits
    <3>3. CASE u = w
      <4>1. v = command[u].to
        BY <2>2 DEF Meets
      <4>2. combat' = WithoutLoser(u, v)
        BY <2>3, <3>1, <3>2, <3>3, <4>1 DEF Visit
      <4> QED
        BY <2>2, <4>2 DEF WithoutLoser, Meets, Drop
    <3>4. CASE u # w
      BY <2>4, <3>1, <3>2, <3>4 DEF Visit, WithoutLoser, Drop
    <3> QED
      BY <3>3, <3>4
  <2>7. CASE Unbounce /\ left' = left /\ \E w \in Units : Frees(w)
    <3>1. PICK w \in Units : Frees(w)
      BY <2>7
    <3>2. u # w
      BY <2>2, <2>3, <3>1 DEF Frees, Meets
    <3>3. Moving(u)
      BY <2>1, <3>1, <3>2 DEF Frees, Moving
    <3> QED
      BY <2>4, <2>7, <3>1, <3>3 DEF Frees, Drop
  <2> QED
    BY <1>2, <2>1, <2>5, <2>6, <2>7, CombatSteps DEF OnlyBounce
<1> QED
  BY <1>1, <1>2

\* At the end the retreats are those of the dislodged units.
RetreatsInv ==
    Done => retreats = [u \in {v \in DOMAIN dislodged : RetreatsOf(v) # {}} |-> RetreatsOf(u)]

\* The last step finds the retreats, and nothing changes after it.
LEMMA RetreatsStep ==
    ASSUME RetreatsInv, [Next]_vars
    PROVE  RetreatsInv'
<1> SUFFICES ASSUME Done' PROVE RetreatsInv'
  BY DEF RetreatsInv
<1>1. (Done /\ UNCHANGED vars) \/ Retreat
  BY DEF Done, Next, vars, control, GiveOrder, MatchConvoys, CountSupports, CutSupports, Strengths,
     DisruptMaybe, CutByConvoyed, DisruptDefinite, CancelConvoys, Strand, Free, BounceSwappers,
     BounceOutgunned, BounceSelfDislodger, CutByDislodging, Dislodge, Unbounce, Vacate, Retreat
<1>2. UNCHANGED <<owner, command, convoy_paths, combat, dislodged>>
  BY <1>1 DEF vars, orders, strengths, Retreat
<1>3. \A u : RetreatsOf(u)' = RetreatsOf(u)
  BY <1>2 DEF RetreatsOf, EntriesAt, MovesViaConvoy, Reach
<1>4. CASE Retreat
  BY <1>2, <1>3, <1>4 DEF Retreat, RetreatsInv
<1>5. CASE Done /\ UNCHANGED vars
  BY <1>2, <1>3, <1>5 DEF vars, RetreatsInv
<1> QED
  BY <1>1, <1>4, <1>5

----------------------------------------------------------------------------
(* What the end tells of the places.                                        *)

\* At the end nobody fights for the places that are free by the rules.
LEMMA FreePlaces ==
    ASSUME TypeInv, OrdersInv, MarksInv, CombatInv, AloneInv, SiteInv, EntriesInv, BeatenInv, Done,
           NEW p
    PROVE  EntriesAt(p) = {} <=> Rule(Effective)!FreeIf(Moved, p)
<1> DEFINE effective == Effective
           movers == {u \in Units : command[u].type = "-" /\ "no convoy" \notin result[u]}
<1>1. next = "done" /\ Dislodging /\ Bouncing /\ left = {}
  BY DEF Done, Dislodging, Bouncing, SiteInv
<1>2. /\ \A u \in movers : effective[u].type = "-" /\ effective[u].to = command[u].to
                           /\ effective[u].via = MovesViaConvoy(u)
      /\ \A u \in Units \ movers : effective[u].type # "-"
  <2>1. DOMAIN command = Units /\ \A u \in Units : command[u] \in Orders
    BY <1>1 DEF OrdersInv, TypeInv, IsDict, Orders
  <2>2. ASSUME NEW u \in movers
        PROVE  effective[u] = [command[u] EXCEPT !.via = MovesViaConvoy(u)]
    BY DEF Effective
  <2>3. ASSUME NEW u \in movers
        PROVE  effective[u].type = "-" /\ effective[u].to = command[u].to
               /\ effective[u].via = MovesViaConvoy(u)
    <3>1. command[u] \in Orders /\ command[u].type = "-"
      BY <2>1
    <3> HIDE DEF effective
    <3> QED
      BY <2>2, <3>1 DEF Orders
  <2>4. ASSUME NEW u \in Units \ movers PROVE effective[u].type # "-"
    <3>1. effective[u] = Hold(u) \/
            (effective[u] = [command[u] EXCEPT !.via = MovesViaConvoy(u)] /\ command[u].type # "-")
      BY DEF Effective
    <3>2. command[u] \in Orders
      BY <2>1
    <3> HIDE DEF effective
    <3>3. CASE effective[u] = Hold(u)
      <4>1. Hold(u).type = "H"
        BY DEF Hold
      <4>2. effective[u].type = "H"
        BY <3>3, <4>1
      <4> QED
        BY <4>2
    <3>4. CASE effective[u] = [command[u] EXCEPT !.via = MovesViaConvoy(u)] /\ command[u].type # "-"
      <4>1. effective[u].type = command[u].type
        BY <3>2, <3>4 DEF Orders
      <4> QED
        BY <3>4, <4>1
    <3> QED
      BY <3>1, <3>3, <3>4
  <2> QED
    BY <2>3, <2>4
<1>3. Moved = {u \in Units : Moving(u)} /\ Moved \subseteq movers
  BY DEF Moved, Moving
<1> HIDE DEF effective
<1>4. Rule(effective)!Movers = movers
  BY <1>2 DEF Rule!Movers, Rule!Units, Units
<1>5. \A v \in movers : \A w \in Moved : Rule(effective)!Opposes(v, w) <=> Meets(v, w)
  <2>1. ASSUME NEW v \in movers, NEW w \in Moved
        PROVE  Rule(effective)!Opposes(v, w) <=> Meets(v, w)
    <3>1. w \in movers /\ command[v].type = "-"
      BY <1>3
    <3>2. Rule(effective)!Opposes(v, w) <=>
            /\ ~effective[v].via /\ ~effective[w].via
            /\ effective[v].to = w /\ effective[w].to = v
      BY <1>4, <3>1 DEF Rule!Opposes
    <3> QED
      BY <1>2, <3>1, <3>2 DEF Meets
  <2> QED
    BY <2>1
<1>6. Rule(effective)!FreeIf(Moved, p) <=>
          /\ p \in Units => p \in Moved
          /\ \A v \in Moved : command[v].to # p
          /\ \A v \in movers \ Moved : command[v].to = p => \E w \in Moved : Meets(v, w)
  <2>1. Rule(effective)!Units = Units
    BY DEF Rule!Units, Units
  <2>2. Rule(effective)!FreeIf(Moved, p) <=>
          /\ p \in Units => p \in Moved
          /\ \A v \in Moved : effective[v].to # p
          /\ \A v \in movers \ Moved :
                effective[v].to = p => \E w \in Moved : Rule(effective)!Opposes(v, w)
    BY <1>4, <2>1 DEF Rule!FreeIf
  <2> QED
    BY <1>2, <1>3, <1>5, <2>2
<1>7. \A u \in Units : Entry(u)
  BY <1>1 DEF EntriesInv
<1>8. ASSUME EntriesAt(p) = {}
      PROVE  /\ p \in Units => p \in Moved
             /\ \A v \in Moved : command[v].to # p
             /\ \A v \in movers \ Moved : command[v].to = p => \E w \in Moved : Meets(v, w)
  <2>1. \A v : <<v, p>> \notin DOMAIN combat
    BY <1>8 DEF EntriesAt
  <2>2. p \in Units => p \in Moved
    BY <1>3, <1>7, <2>1 DEF Entry
  <2>3. ASSUME NEW v \in Moved, command[v].to = p PROVE FALSE
    <3>1. Strongest(p) = {<<v, p>>}
      BY <1>1, <1>3, <2>3 DEF AloneInv
    <3> QED
      BY <1>8, <3>1 DEF Strongest
  <2>4. ASSUME NEW v \in movers \ Moved, command[v].to = p PROVE \E w \in Moved : Meets(v, w)
    BY <1>3, <1>7, <2>1, <2>4 DEF Entry, Beaten
  <2> QED
    BY <2>2, <2>3, <2>4
<1>9. ASSUME p \in Units => p \in Moved, \A v \in Moved : command[v].to # p,
             \A v \in movers \ Moved : command[v].to = p => \E w \in Moved : Meets(v, w),
             NEW e \in EntriesAt(p)
      PROVE  FALSE
  <2>1. PICK v \in Units : e = <<v, p>> /\ <<v, p>> \in DOMAIN combat
    <3>1. e \in DOMAIN combat /\ e[2] = p
      BY DEF EntriesAt
    <3>2. e \in Units \X Places
      BY <3>1 DEF TypeInv, IsDict
    <3> QED
      BY <3>1, <3>2
  <2>2. CASE v = p
    <3>1. <<v, v>> \in DOMAIN combat /\ Moving(v)
      BY <1>3, <1>9, <2>1, <2>2
    <3>2. \E w \in Units : Moving(w) /\ command[w].to = v
      BY <1>7, <3>1 DEF Entry
    <3> QED
      BY <1>3, <1>9, <2>2, <3>2
  <2>3. CASE v # p
    <3>1. v \in movers /\ command[v].to = p
      BY <1>7, <2>1, <2>3 DEF Entry
    <3>2. v \notin Moved
      BY <1>9, <3>1
    <3>3. PICK w \in Moved : Meets(v, w)
      BY <1>9, <3>1, <3>2
    <3>4. w = p /\ w \in Units /\ Moving(w) /\ ~Moving(v)
      BY <1>3, <3>1, <3>2, <3>3 DEF Meets
    <3>5. <<v, w>> \notin DOMAIN combat
      BY <1>1, <3>3, <3>4 DEF BeatenInv
    <3> QED
      BY <2>1, <3>4, <3>5
  <2> QED
    BY <2>2, <2>3
<1>10. Rule(effective)!FreeIf(Moved, p) <=> EntriesAt(p) = {}
  BY <1>6, <1>8, <1>9
<1> QED
  BY <1>10 DEF effective

----------------------------------------------------------------------------
(* The theorems.                                                            *)

\* Before the orders are given.
LEMMA InvInit == Init => IInv
<1> SUFFICES ASSUME Init PROVE IInv
  OBVIOUS
<1>1. OrdersInv
  BY PositionFacts DEF Init, OrdersInv, Steps, Empty
<1>2. HelpInv /\ MarksInv /\ CombatInv
  BY DEF Init, HelpInv, MarksInv, CombatInv, Empty
<1>3. AloneInv /\ AttackersInv /\ VisitedInv /\ SiteInv
  BY DEF Init, AloneInv, AttackersInv, VisitedInv, SiteInv, Empty, Dislodging
<1> QED
  BY <1>1, <1>2, <1>3 DEF IInv

\* The parts together are inductive.
LEMMA InvStep == TypeInv /\ IInv /\ [Next]_vars => IInv'
  BY OrdersStep, HelpStep, MarksStep, CombatStep, AloneStep, AttackersStep, VisitedStep, SiteStep
  DEF IInv

\* What more is known of the convoys, the strengths and the places.
MoreInv ==
    /\ FleetsInv /\ KindsInv /\ RoundsInv /\ UndecidedInv /\ StrandedInv
    /\ SupportsInv /\ SupportersInv /\ StrengthsInv
    /\ EntriesInv /\ BeatenInv /\ RetreatsInv

\* Before the orders are given there are no marks, supports or fights.
LEMMA MoreInit == Init => MoreInv
<1> SUFFICES ASSUME Init PROVE MoreInv
  OBVIOUS
<1>1. /\ next = "orders" /\ DOMAIN may_convoy = {} /\ DOMAIN combat = {} /\ cutters = {}
      /\ \A u \in Units : result[u] = {} /\ supports[u] = 0
  BY DEF Init, Empty
<1>2. ~Bouncing /\ ~Dislodging /\ ~First /\ ~Done
  BY <1>1 DEF Bouncing, Dislodging, First, Done
<1>3. FleetsInv /\ KindsInv /\ RoundsInv /\ UndecidedInv /\ StrandedInv
  BY <1>1, <1>2 DEF FleetsInv, KindsInv, RoundsInv, UndecidedInv, StrandedInv
<1>4. SupportsInv /\ SupportersInv /\ StrengthsInv
  BY <1>1, <1>2 DEF SupportsInv, SupportersInv, StrengthsInv
<1>5. EntriesInv /\ BeatenInv /\ RetreatsInv
  BY <1>2 DEF EntriesInv, BeatenInv, RetreatsInv
<1> QED
  BY <1>3, <1>4, <1>5 DEF MoreInv

\* It is inductive, next to the rest.
LEMMA MoreStep == TypeInv /\ IInv /\ MoreInv /\ [Next]_vars => MoreInv'
<1> SUFFICES ASSUME TypeInv, IInv, MoreInv, [Next]_vars PROVE MoreInv'
  OBVIOUS
<1> USE DEF IInv, MoreInv
<1>1. FleetsInv' /\ KindsInv' /\ RoundsInv' /\ UndecidedInv' /\ StrandedInv'
  BY FleetsStep, KindsStep, RoundsStep, UndecidedStep, StrandedStep
<1>2. SupportsInv' /\ SupportersInv' /\ StrengthsInv'
  BY SupportsStep, SupportersStep, StrengthsStep
<1>3. EntriesInv' /\ BeatenInv' /\ RetreatsInv'
  BY EntriesStep, BeatenStep, RetreatsStep
<1> QED
  BY <1>1, <1>2, <1>3

\* The inductive invariant holds in every state.
LEMMA Invariant == Spec => [](TypeInv /\ IInv /\ MoreInv)
<1>1. Init => TypeInv /\ IInv /\ MoreInv
  BY TypeInit, InvInit, MoreInit
<1>2. TypeInv /\ IInv /\ MoreInv /\ [Next]_vars => (TypeInv /\ IInv /\ MoreInv)'
  BY TypeStep, InvStep, MoreStep DEF IInv
<1> QED
  BY <1>1, <1>2, PTL DEF Spec

\* Every variable of the resolution has its type, for any map, position and orders: at
\* the latest when units bounce, no support was taken away twice, and every unit fights
\* with a strength of one or more.
THEOREM AdjudicationTypes == Spec => []TypeOK
<1>1. ASSUME TypeInv, IInv, MoreInv PROVE TypeOK
  <2> USE <1>1 DEF IInv, MoreInv
  <2>1. next \in Steps
    BY DEF OrdersInv
  <2>2. ~Settling => Bouncing \/ next \in {"orders", "convoy", "count", "cut"}
    BY <2>1 DEF Steps, Settling, Bouncing
  <2>3. ASSUME ~Settling, NEW u \in Units PROVE supports[u] \in Nat
    <3>1. supports[u] \in Int
      BY DEF TypeInv
    <3>2. CASE Bouncing \/ next \in {"orders", "convoy", "count"}
      BY <3>1, <3>2 DEF SupportsInv
    <3>3. CASE next = "cut"
      <4>1. Counted(u)
        BY <3>3 DEF SupportsInv, Undone, Bouncing
      <4>2. Cardinality(Uncut(u)) \in Nat
        <5>1. Uncut(u) \in SUBSET Units
          BY DEF Uncut
        <5> QED
          BY <5>1, UnitsFinite DEF TypeInv
      <4> QED
        BY <3>1, <4>1, <4>2 DEF Counted
    <3> QED
      BY <2>2, <2>3, <3>2, <3>3
  <2>4. ASSUME ~Settling, NEW e \in DOMAIN combat PROVE combat[e] \in Nat \ {0}
    <3>1. Bouncing
      BY <2>2, <2>4 DEF StrengthsInv
    <3>2. combat[e] >= 1 + Cardinality(Helping(e)) /\ combat[e] \in Int
      BY <2>4, <3>1 DEF StrengthsInv, TypeInv, IsDict
    <3>3. Cardinality(Helping(e)) \in Nat
      <4>1. Helping(e) \in SUBSET Units
        BY DEF Helping
      <4> QED
        BY <4>1, UnitsFinite DEF TypeInv
    <3> QED
      BY <3>2, <3>3
  <2>5. supports \in [Units -> IF Settling THEN Int ELSE Nat]
    BY <2>3 DEF TypeInv
  <2>6. IsDict(combat, Units \X Places, IF Settling THEN Int ELSE Nat \ {0})
    BY <2>4 DEF TypeInv, IsDict
  <2> QED
    BY <2>5, <2>6 DEF TypeOK, TypeInv
<1> QED
  BY <1>1, Invariant, PTL

\* What get_all_possible_orders offers is what _valid_order accepts, but for the moves by
\* convoy that do not say so and the supports of an army that only the supporter could
\* carry: on any map and in any position.
THEOREM OffersAgree == Spec => []OffersAreValid
<1>1. TypeInv => OffersAreValid
  BY OfferedIsValid DEF TypeInv, OffersAreValid
<1> QED
  BY <1>1, Invariant, PTL

\* No army that step 4 marked is left undecided when units bounce: steps 4 and 5, for all
\* their passes, find each without convoy or free it.
THEOREM ArmiesDecided == Spec => [](Bouncing => \A u \in Units : "maybe" \notin result[u])
<1>1. MoreInv => (Bouncing => \A u \in Units : "maybe" \notin result[u])
  BY DEF MoreInv, UndecidedInv, Bouncing
<1> QED
  BY <1>1, Invariant, PTL

\* At the end no two units share a place: those that moved went to different places, and
\* all and only those whose place one of them took are dislodged, in whatever order
\* step 10 visits and unbounces the units.  And a dislodged unit may retreat to the
\* places that are free by the rules, and to no others: those that Game.combat has no
\* entry of, whatever entries steps 6 to 10 added and took away.
THEOREM NoPlaceShared == Spec => []DislodgedRightly
<1>1. TypeInv /\ IInv /\ MoreInv => DislodgedRightly
  <2> SUFFICES ASSUME TypeInv, IInv, MoreInv, Done PROVE DislodgedRightly
    BY DEF DislodgedRightly
  <2>1. Dislodging /\ left = {}
    BY DEF Done, Dislodging, IInv, SiteInv
  <2>2. \A u, v \in Moved : command[u].to = command[v].to => u = v
    <3> SUFFICES ASSUME NEW u \in Moved, NEW v \in Moved, command[u].to = command[v].to
                 PROVE  u = v
      OBVIOUS
    <3>1. PICK p : p = command[u].to /\ p = command[v].to
      OBVIOUS
    <3>2. Strongest(p) = {<<u, p>>} /\ Strongest(p) = {<<v, p>>}
      BY <2>1, <3>1 DEF IInv, AloneInv, Moved
    <3>3. <<u, p>> \in {<<v, p>>}
      BY <3>2
    <3>4. <<u, p>> = <<v, p>>
      BY <3>3
    <3> QED
      BY <3>4
  <2>3. ASSUME NEW u \in DOMAIN dislodged
        PROVE  /\ u \in Units /\ "dislodged" \in result[u] /\ ~Moving(u)
               /\ dislodged[u] \in Moved /\ command[dislodged[u]].to = u
    BY DEF IInv, MarksInv, AttackersInv, Moved, Moving, TypeInv, IsDict
  <2>4. ASSUME NEW u \in DislodgedIf(Moved) PROVE u \in DOMAIN dislodged
    BY <2>1 DEF DislodgedIf, Moved, IInv, VisitedInv
  <2>5. \A u \in DOMAIN dislodged : u \in DislodgedIf(Moved)
    BY <2>3 DEF DislodgedIf, Moved
  <2>6. ASSUME NEW u \in DOMAIN dislodged, ~MovesViaConvoy(dislodged[u])
        PROVE  (IF u \in DOMAIN retreats THEN retreats[u] ELSE {})
                   = {p \in Reach(u) : p # dislodged[u] /\ Rule(Effective)!FreeIf(Moved, p)}
    <3>1. (IF u \in DOMAIN retreats THEN retreats[u] ELSE {}) = RetreatsOf(u)
      BY DEF MoreInv, RetreatsInv
    <3>2. RetreatsOf(u) = {p \in Reach(u) : EntriesAt(p) = {} /\ p # dislodged[u]}
      BY <2>6 DEF RetreatsOf
    <3>3. \A p : EntriesAt(p) = {} <=> Rule(Effective)!FreeIf(Moved, p)
      BY FreePlaces DEF IInv, MoreInv
    <3> QED
      BY <3>1, <3>2, <3>3
  <2> QED
    BY <2>2, <2>3, <2>4, <2>5, <2>6 DEF DislodgedRightly
<1> QED
  BY <1>1, Invariant, PTL

=============================================================================
