---------------------------- MODULE TurnsProofs ----------------------------
(***************************************************************************)
(* The safety of a game from phase to phase, for any map, powers, rules of  *)
(* the game, situations to start from and bounds, as long as nobody builds  *)
(* on two coasts of a home at once.                                         *)
(***************************************************************************)
EXTENDS Turns, FiniteSetTheorems, SequenceTheorems, WellFoundedInduction, TLAPS

\* Where a power may build.
Sites(p) == IF BuildAny THEN Centers ELSE Homes[p]

\* Does no home have two coasts?
OneCoast ==
    \A p \in Powers : \A l, m \in Locs : Base[l] \in Sites(p) /\ Base[m] = Base[l] => l = m

\* Has no power orders of two calls to build on two coasts of a home?
OneCoastEach ==
    \A p \in Powers : \A i, j \in DOMAIN adjust[p] :
        (/\ adjust[p][i].to = "B" /\ adjust[p][j].to = "B"
         /\ At(adjust[p][i].unit) = At(adjust[p][j].unit))
            => adjust[p][i].unit.loc = adjust[p][j].unit.loc

\* The code keeps both of such orders, and carries both out: what is proved holds on the maps
\* where they cannot be given, and on the others as long as nobody gives them.
CoastsClear == OneCoast \/ OneCoastEach

----------------------------------------------------------------------------
(* The inductive invariant.                                                 *)

IsPlayed(ph) ==
    /\ ph.year \in Nat
    /\ \E i \in 1..5 : ph = [season |-> Flow[i].season, year |-> ph.year, type |-> Flow[i].type]

PhaseOK == phase = COMPLETED \/ IsPlayed(phase)

\* A board: units stand apart, a dislodged one retreats where it could move to, a centre
\* has one owner, and the hash is that of the board.
UnitsOK(u) ==
    /\ u \in [Powers -> SUBSET Units]
    /\ \A p, o \in Powers : \A x \in u[p], y \in u[o] : At(x) = At(y) => p = o /\ x = y

RetreatsOK(r) ==
    /\ DOMAIN r = Powers
    /\ \A p \in Powers :
          /\ IsDict(r[p], Units, SUBSET Locs)
          /\ \A x \in DOMAIN r[p] : r[p][x] \subseteq Reach[x]

CentersOK(c) ==
    /\ c \in [Powers -> SUBSET Centers]
    /\ \A p, o \in Powers : p # o => c[p] \cap c[o] = {}

BoardOK(b) ==
    /\ UnitsOK(b.units) /\ RetreatsOK(b.retreats) /\ CentersOK(b.centers)
    /\ b.hash = HashOf(b.units, b.retreats, b.centers)

NobodyRetreats(r) == \A p \in Powers : r[p] = Empty

CommandOK(x, o) ==
    /\ o.type \in {"H", "-", "S"} /\ o.of \in Units /\ o.to \in Locs
    /\ o.type = "H" => o.of = x
    /\ o.type = "-" => o.of = x /\ o.to \in Reach[x]

OrdersOK ==
    /\ DOMAIN orders = Powers /\ orders = [p \in Powers |-> orders[p]]
    /\ \A p \in Powers :
          /\ IsDict(orders[p], Units, [type : {"H", "-", "S"}, of : Units, to : Locs])
          /\ \A x \in DOMAIN orders[p] : CommandOK(x, orders[p][x])
    /\ phase.type # "M" => \A p \in Powers : orders[p] = Empty

AdjustOK ==
    /\ adjust \in [Powers -> Seq(Orders)]
    /\ \A p \in Powers : Len(adjust[p]) <= MaxAdjust
    /\ phase.type \notin {"R", "A"} => \A p \in Powers : adjust[p] = <<>>

\* Who is to retreat may stand at the destination, and nobody does.
RetreatsFree ==
    phase.type = "R" =>
        \A p \in Powers : \A i \in DOMAIN adjust[p] :
            LET o == adjust[p][i] IN
            o.to # "D" =>
                /\ o.to \in Locs /\ [o.unit EXCEPT !.loc = o.to] \in Units
                /\ Base[o.to] \notin Occupied(units)

\* A power builds in a free place that is nobody else's, and not twice.
BuildsFree ==
    phase.type = "A" =>
        \A p \in Powers : \A i \in DOMAIN adjust[p] :
            LET o == adjust[p][i] IN
            /\ o.to \in {"B", "D"}
            /\ o.to = "B" =>
                  /\ At(o.unit) \in Sites(p) /\ At(o.unit) \notin Occupied(units)
                  /\ \A q \in Powers \ {p} : At(o.unit) \notin centers[q]

BuildsApart ==
    phase.type = "A" =>
        \A p, q \in Powers : \A i \in DOMAIN adjust[p], j \in DOMAIN adjust[q] :
            (/\ adjust[p][i].to = "B" /\ adjust[q][j].to = "B"
             /\ At(adjust[p][i].unit) = At(adjust[q][j].unit)) => p = q /\ i = j

\* A power that has units disbands its own.
DisbandsOwn ==
    phase.type = "A" =>
        \A p \in Powers :
            \/ units[p] = {}
            \/ \A i \in DOMAIN adjust[p] : adjust[p][i].to = "D" => adjust[p][i].unit \in units[p]

IInv ==
    /\ PhaseOK /\ BoardOK(Board) /\ OrdersOK /\ AdjustOK
    /\ phase.type = "M" => NobodyRetreats(retreats)
    /\ RetreatsFree /\ BuildsFree /\ BuildsApart /\ DisbandsOwn

\* An invariant of its own: past phases come before the present one.
HistoriesOK ==
    /\ PhaseOK
    /\ state_history = result_history /\ state_history \subseteq stance_history
    /\ \A old \in state_history : IsPlayed(old) /\ ComparePhases(old, phase) = -1

\* What is proved of the rules, for the commands of a movement phase.
RP == INSTANCE RulesProofs WITH owner <- Owner, command <- Command

\* The outcome of a movement phase, by the theorems of RulesProofs.
LEMMA OutcomeIs ==
    ASSUME RP!Orderly
    PROVE  LET m == R(Owner, Command)!Outcome IN
            /\ m \subseteq RP!Movers
            /\ RP!Solution(m)
  <1>1. R(Owner, Command)!Units = RP!Units
    BY DEF R!Units, RP!Units
  <1>2. R(Owner, Command)!Movers = RP!Movers
    BY <1>1 DEF R!Movers, RP!Movers
  <1>3. \A s, u : R(Owner, Command)!Supports(s, u) <=> RP!Supports(s, u)
    BY DEF R!Supports, RP!Supports
  <1>4. \A m : R(Owner, Command)!DislodgedIf(m) = RP!DislodgedIf(m)
    BY <1>1 DEF R!DislodgedIf, RP!DislodgedIf
  <1>5. \A v, s : R(Owner, Command)!SparedBy(v, s) <=> RP!SparedBy(v, s)
    BY <1>1 DEF R!SparedBy, RP!SparedBy
  <1>6. \A m, u : R(Owner, Command)!SupportersIf(m, u) = RP!SupportersIf(m, u)
    BY <1>1, <1>2, <1>3, <1>4, <1>5 DEF R!SupportersIf, RP!SupportersIf
  <1>7. \A m, u : R(Owner, Command)!StrengthIf(m, u) = RP!StrengthIf(m, u)
    <2>1. \A S : R(Owner, Command)!Cardinality(S) = RP!Cardinality(S)
      BY DEF R!Cardinality, RP!Cardinality
    <2> QED BY <1>6, <2>1 DEF R!StrengthIf, RP!StrengthIf
  <1>8. \A u, v : R(Owner, Command)!Opposes(u, v) <=> RP!Opposes(u, v)
    BY <1>2 DEF R!Opposes, RP!Opposes
  <1>9. \A m, u : R(Owner, Command)!AttackIf(m, u) = RP!AttackIf(m, u)
    <2>1. \A S : R(Owner, Command)!Cardinality(S) = RP!Cardinality(S)
      BY DEF R!Cardinality, RP!Cardinality
    <2> QED BY <1>1, <1>6, <1>7, <1>8, <2>1 DEF R!AttackIf, RP!AttackIf
  <1>10. \A m, u : R(Owner, Command)!HoldIf(m, u) = RP!HoldIf(m, u)
    BY <1>1, <1>2, <1>7, <1>8 DEF R!HoldIf, RP!HoldIf
  <1>11. \A m, u : R(Owner, Command)!PreventIf(m, u) = RP!PreventIf(m, u)
    BY <1>7, <1>8 DEF R!PreventIf, RP!PreventIf
  <1>12. \A m : R(Owner, Command)!Solution(m) <=> RP!Solution(m)
    BY <1>2, <1>9, <1>10, <1>11 DEF R!Solution, RP!Solution
  <1>13. \E m \in SUBSET RP!Movers :
            /\ RP!Solution(m)
            /\ \A other \in SUBSET RP!Movers : RP!Solution(other) => other \subseteq m
    BY RP!LargestSolution
  <1>14. \E m \in SUBSET R(Owner, Command)!Movers :
            /\ R(Owner, Command)!Solution(m)
            /\ \A other \in SUBSET R(Owner, Command)!Movers :
                    R(Owner, Command)!Solution(other) => other \subseteq m
    BY <1>2, <1>12, <1>13
  <1> QED BY <1>2, <1>12, <1>14 DEF R!Outcome
----------------------------------------------------------------------------
(* The hash.                                                                *)

\* The tokens of a kind are those of each power.
LEMMA InTokens ==
    ASSUME NEW kind, NEW of, NEW t
    PROVE  t \in AllTokens(kind, of) <=>
              \E p \in Powers : \E x \in of[p] : t = <<kind, p, x>>
  BY DEF AllTokens, Tokens

\* The same for the parts of a hash.
Hash(u, d, c) == AllTokens("unit", u) \cup AllTokens("dislodged", d) \cup AllTokens("center", c)

\* The hash of a board is made of its three parts.
LEMMA HashOfParts ==
    ASSUME NEW u, NEW r, NEW c
    PROVE  HashOf(u, r, c) = Hash(u, Dislodged(r), c)
  BY DEF HashOf, Hash

\* A hash is settled by who has what.
LEMMA HashExtensional ==
    ASSUME NEW u, NEW d, NEW c, NEW u2, NEW d2, NEW c2,
           \A p \in Powers : u[p] = u2[p] /\ d[p] = d2[p] /\ c[p] = c2[p]
    PROVE  Hash(u, d, c) = Hash(u2, d2, c2)
  <1>1. AllTokens("unit", u) = AllTokens("unit", u2)
    BY DEF AllTokens
  <1>2. AllTokens("dislodged", d) = AllTokens("dislodged", d2)
    BY DEF AllTokens
  <1>3. AllTokens("center", c) = AllTokens("center", c2)
    BY DEF AllTokens
  <1> QED BY <1>1, <1>2, <1>3 DEF Hash

\* Toggling what changed in each part toggles the tokens that changed.
LEMMA ToggleTokens ==
    ASSUME NEW kind, NEW old, NEW change, NEW new,
           \A p \in Powers : new[p] = Toggle(old[p], change[p])
    PROVE  Toggle(AllTokens(kind, old), AllTokens(kind, change)) = AllTokens(kind, new)
  <1> SUFFICES ASSUME NEW t
               PROVE  t \in Toggle(AllTokens(kind, old), AllTokens(kind, change))
                        <=> t \in AllTokens(kind, new)
    OBVIOUS
  <1>1. CASE \E p \in Powers : \E x : t = <<kind, p, x>>
    <2>0. PICK p \in Powers : \E x : t = <<kind, p, x>>
      BY <1>1
    <2>1. PICK x : t = <<kind, p, x>>
      BY <2>0
    <2>2. \A of : t \in AllTokens(kind, of) <=> x \in of[p]
      BY <2>1, InTokens
    <2> QED BY <2>2 DEF Toggle
  <1>2. CASE ~\E p \in Powers : \E x : t = <<kind, p, x>>
    BY <1>2, InTokens DEF Toggle
  <1> QED BY <1>1, <1>2

\* Changes that are entered by exclusive or.
LEMMA HashToggle ==
    ASSUME NEW u, NEW d, NEW c, NEW u2, NEW d2, NEW c2, NEW u3, NEW d3, NEW c3,
           \A p \in Powers : /\ u3[p] = Toggle(u[p], u2[p])
                             /\ d3[p] = Toggle(d[p], d2[p])
                             /\ c3[p] = Toggle(c[p], c2[p])
    PROVE  Toggle(Hash(u, d, c), Hash(u2, d2, c2)) = Hash(u3, d3, c3)
  <1>1. /\ Toggle(AllTokens("unit", u), AllTokens("unit", u2)) = AllTokens("unit", u3)
        /\ Toggle(AllTokens("dislodged", d), AllTokens("dislodged", d2)) = AllTokens("dislodged", d3)
        /\ Toggle(AllTokens("center", c), AllTokens("center", c2)) = AllTokens("center", c3)
    BY ToggleTokens
  <1>2. \A a, b : /\ AllTokens("unit", a) \cap AllTokens("dislodged", b) = {}
                  /\ AllTokens("unit", a) \cap AllTokens("center", b) = {}
                  /\ AllTokens("dislodged", a) \cap AllTokens("center", b) = {}
    <2> TAKE a, b
    <2>1. \A t : /\ t \in AllTokens("unit", a) => t[1] = "unit"
                 /\ t \in AllTokens("dislodged", a) => t[1] = "dislodged"
                 /\ t \in AllTokens("dislodged", b) => t[1] = "dislodged"
                 /\ t \in AllTokens("center", b) => t[1] = "center"
      BY InTokens
    <2> QED BY <2>1
  <1> QED BY <1>1, <1>2 DEF Hash, Toggle

Nothing == [p \in Powers |-> {}]

\* Of nothing there are no tokens.
LEMMA NoTokens ==
    ASSUME NEW kind
    PROVE  AllTokens(kind, Nothing) = {}
  BY DEF AllTokens, Tokens, Nothing

----------------------------------------------------------------------------
(* A movement phase.                                                        *)

\* The order of a unit, or to hold.
Ordered(p, x) ==
    IF x \in DOMAIN orders[p] THEN orders[p][x] ELSE [type |-> "H", of |-> x, to |-> x.loc]

\* A unit stands at a location, and thereby at a place.
LEMMA UnitTypes ==
    ASSUME NEW x \in Units
    PROVE  x.loc \in Locs /\ At(x) \in Locs /\ At(x) \in Places /\ x = [type |-> x.type, loc |-> x.loc]
  BY TurnsAssumption DEF At, Places

\* What a unit does is an order it may be given.
LEMMA OrderedOK ==
    ASSUME OrdersOK, NEW p \in Powers, NEW x \in Units
    PROVE  CommandOK(x, Ordered(p, x))
  <1>1. CASE x \in DOMAIN orders[p]
    BY <1>1 DEF OrdersOK, Ordered
  <1>2. CASE x \notin DOMAIN orders[p]
    BY <1>2, UnitTypes DEF Ordered, CommandOK
  <1> QED BY <1>1, <1>2

\* Since units stand apart, a place settles whose unit is there and what it does.
LEMMA CommandAtIs ==
    ASSUME UnitsOK(units), NEW p \in Powers, NEW x \in units[p]
    PROVE  At(x) \in Occupied(units) /\ CommandAt(At(x)) = Ordered(p, x)
  <1>1. At(x) \in Occupied(units)
    BY DEF Occupied
  <1> DEFINE P == CHOOSE o \in Powers : \E y \in units[o] : At(y) = At(x)
             X == CHOOSE y \in units[P] : At(y) = At(x)
  <1>2. P \in Powers /\ \E y \in units[P] : At(y) = At(x)
    OBVIOUS
  <1>3. P = p
    BY <1>2 DEF UnitsOK
  <1>4. X \in units[p] /\ At(X) = At(x)
    BY <1>3
  <1>5. X = x
    BY <1>4 DEF UnitsOK
  <1>6. CommandAt(At(x)) = IF X \in DOMAIN orders[P] THEN orders[P][X]
                           ELSE [type |-> "H", of |-> X, to |-> X.loc]
    BY DEF CommandAt
  <1> HIDE DEF P, X
  <1> QED BY <1>1, <1>3, <1>5, <1>6 DEF Ordered

\* A place is occupied when some unit stands there.
LEMMA OccupiedIs ==
    ASSUME NEW q
    PROVE  q \in Occupied(units) <=> \E p \in Powers : \E x \in units[p] : At(x) = q
  BY DEF Occupied

\* The places are finitely many.
LEMMA PlacesFinite == IsFiniteSet(Places)
  <1> DEFINE f == [l \in Locs |-> Base[l]]
  <1>1. f \in Surjection(Locs, Places)
    BY DEF Surjection, Places
  <1> QED BY <1>1, FS_Surjection, TurnsAssumption

\* So are the occupied ones.
LEMMA OccupiedFinite ==
    ASSUME UnitsOK(units)
    PROVE  IsFiniteSet(Occupied(units))
  <1>1. Occupied(units) \subseteq Places
    BY UnitTypes DEF Occupied, UnitsOK
  <1> QED BY <1>1, PlacesFinite, FS_Subset

Moved == R(Owner, Command)!Outcome
Lost == R(Owner, Command)!DislodgedIf(Moved)

\* The command that the adjudicator sees at an occupied place.
LEMMA CommandIs ==
    ASSUME NEW q \in Occupied(units)
    PROVE  /\ DOMAIN Owner = Occupied(units)
           /\ Command[q].type = CommandAt(q).type
           /\ Command[q].type = "-" => Command[q].to = Base[CommandAt(q).to]
           /\ Command[q].via = FALSE
  BY DEF Command, Owner

\* Only units that were to move do, and no two to one place.
LEMMA MovedIs ==
    ASSUME UnitsOK(units)
    PROVE  /\ Moved \subseteq Occupied(units)
           /\ \A q \in Moved : CommandAt(q).type = "-"
           /\ \A q, v \in Moved : Base[CommandAt(q).to] = Base[CommandAt(v).to] => q = v
           /\ Lost = {q \in Occupied(units) \ Moved :
                        \E v \in Moved : Base[CommandAt(v).to] = q}
  <1>1. DOMAIN Owner = Occupied(units)
    BY DEF Owner
  <1>2. RP!Orderly
    <2>1. RP!IsFiniteSet(DOMAIN Owner)
      BY <1>1, OccupiedFinite DEF RP!IsFiniteSet, IsFiniteSet
    <2> QED BY <1>1, <2>1, CommandIs DEF RP!Orderly, RP!Units
  <1>3. Moved \subseteq RP!Movers /\ RP!Solution(Moved)
    BY <1>2, OutcomeIs DEF Moved
  <1>4. Moved \subseteq Occupied(units) /\ \A q \in Moved : Command[q].type = "-"
    BY <1>1, <1>3 DEF RP!Movers, RP!Units
  <1>5. \A q, v \in Moved : Command[q].to = Command[v].to => q = v
    BY <1>2, <1>3, RP!DestinationsDiffer
  <1>6. \A q \in Moved : CommandAt(q).type = "-" /\ Command[q].to = Base[CommandAt(q).to]
    BY <1>4, CommandIs
  <1>7. Lost = {q \in Occupied(units) \ Moved : \E v \in Moved : Command[v].to = q}
    BY <1>1 DEF Lost, R!DislodgedIf, R!Units
  <1> QED BY <1>4, <1>5, <1>6, <1>7

Left == [p \in Powers |-> {x \in units[p] : At(x) \in Moved}]
Gone == [p \in Powers |-> {x \in units[p] : At(x) \in Lost}]
Arrived == [p \in Powers |-> {[x EXCEPT !.loc = CommandAt(At(x)).to] : x \in Left[p]}]

\* The parts of the board after a movement phase.
LEMMA MoveResultsIs ==
    \E open :
        LET retreating == [p \in Powers |-> {x \in Gone[p] : open[x] # {}}] IN
        /\ \A x \in Units : open[x] \subseteq Reach[x]
        /\ MoveResults =
            [units |-> [p \in Powers |-> (units[p] \ (Left[p] \cup Gone[p])) \cup Arrived[p]],
             retreats |-> [p \in Powers |-> [x \in retreating[p] |-> open[x]]],
             centers |-> centers,
             hash |-> Toggle(Toggle(hash, AllTokens("unit", Left) \cup AllTokens("unit", Gone)
                                            \cup AllTokens("dislodged", retreating)),
                             AllTokens("unit", Arrived))]
  <1> DEFINE attacker(q) == CHOOSE v \in Moved : Command[v].to = q
             allowed(x) == {l \in Reach[x] : /\ Base[l] # attacker(At(x))
                                             /\ R(Owner, Command)!FreeIf(Moved, Base[l])}
             all == Units \cup UNION {units[p] : p \in Powers}
             open == [x \in all |-> allowed(x)]
             retreating == [p \in Powers |-> {x \in Gone[p] : open[x] # {}}]
             retreating0 == [p \in Powers |-> {x \in Gone[p] : allowed(x) # {}}]
  <1>1. \A p \in Powers : \A x \in Gone[p] : open[x] = allowed(x)
    BY DEF Gone
  <1>2. retreating = retreating0
    BY <1>1
  <1>3. [p \in Powers |-> [x \in retreating[p] |-> open[x]]]
            = [p \in Powers |-> [x \in retreating0[p] |-> allowed(x)]]
    <2>1. ASSUME NEW p \in Powers
          PROVE  [x \in retreating[p] |-> open[x]] = [x \in retreating0[p] |-> allowed(x)]
      <3>1. retreating[p] \subseteq Gone[p]
        OBVIOUS
      <3> HIDE DEF open, allowed, retreating, retreating0
      <3> QED BY <1>1, <1>2, <3>1
    <2> HIDE DEF open, allowed, retreating, retreating0
    <2> QED BY <2>1
  <1>4. MoveResults =
            [units |-> [p \in Powers |-> (units[p] \ (Left[p] \cup Gone[p])) \cup Arrived[p]],
             retreats |-> [p \in Powers |-> [x \in retreating0[p] |-> allowed(x)]],
             centers |-> centers,
             hash |-> Toggle(Toggle(hash, AllTokens("unit", Left) \cup AllTokens("unit", Gone)
                                            \cup AllTokens("dislodged", retreating0)),
                             AllTokens("unit", Arrived))]
    BY DEF MoveResults, Left, Gone, Arrived, Moved, Lost
  <1>5. \A x \in Units : open[x] \subseteq Reach[x]
    OBVIOUS
  <1>6. MoveResults =
            [units |-> [p \in Powers |-> (units[p] \ (Left[p] \cup Gone[p])) \cup Arrived[p]],
             retreats |-> [p \in Powers |-> [x \in retreating[p] |-> open[x]]],
             centers |-> centers,
             hash |-> Toggle(Toggle(hash, AllTokens("unit", Left) \cup AllTokens("unit", Gone)
                                            \cup AllTokens("dislodged", retreating)),
                             AllTokens("unit", Arrived))]
    <2> HIDE DEF open, allowed, retreating, retreating0
    <2> QED BY <1>2, <1>3, <1>4
  <1> HIDE DEF open, allowed
  <1> QED BY <1>5, <1>6

\* A unit that arrives has left its place, and stands where it was to go.
LEMMA ArrivedIs ==
    ASSUME UnitsOK(units), OrdersOK, NEW p \in Powers
    PROVE  /\ Left[p] \subseteq units[p] /\ Gone[p] \subseteq units[p]
           /\ \A y \in Arrived[p] :
                /\ y \in Units
                /\ \E x \in Left[p] : /\ At(x) \in Moved /\ x \in units[p]
                                      /\ At(y) = Base[CommandAt(At(x)).to]
                                      /\ y = [x EXCEPT !.loc = CommandAt(At(x)).to]
  <1>1. Left[p] \subseteq units[p] /\ Gone[p] \subseteq units[p]
    BY DEF Left, Gone
  <1>2. ASSUME NEW y \in Arrived[p]
        PROVE  /\ y \in Units
               /\ \E x \in Left[p] : /\ At(x) \in Moved /\ x \in units[p]
                                     /\ At(y) = Base[CommandAt(At(x)).to]
                                     /\ y = [x EXCEPT !.loc = CommandAt(At(x)).to]
    <2>1. PICK x \in Left[p] : y = [x EXCEPT !.loc = CommandAt(At(x)).to]
      BY DEF Arrived
    <2>2. x \in units[p] /\ At(x) \in Moved /\ x \in Units
      BY DEF Left, UnitsOK
    <2>3. CommandAt(At(x)) = Ordered(p, x) /\ CommandAt(At(x)).type = "-"
      BY <2>2, CommandAtIs, MovedIs
    <2>4. CommandAt(At(x)).to \in Reach[x]
      BY <2>2, <2>3, OrderedOK DEF CommandOK
    <2>5. y \in Units
      BY <2>1, <2>2, <2>4, TurnsAssumption
    <2>6. y.loc = CommandAt(At(x)).to
      <3>1. x = [type |-> x.type, loc |-> x.loc]
        BY <2>2, UnitTypes
      <3> QED BY <2>1, <3>1
    <2> QED BY <2>1, <2>2, <2>5, <2>6 DEF At
  <1> QED BY <1>1, <1>2

\* Whoever stays is not where another arrives.
LEMMA StaysApart ==
    ASSUME UnitsOK(units), OrdersOK, NEW p \in Powers, NEW o \in Powers,
           NEW y \in Arrived[p], NEW z \in units[o] \ (Left[o] \cup Gone[o])
    PROVE  At(y) # At(z)
  <1>1. PICK x \in Left[p] : At(x) \in Moved /\ At(y) = Base[CommandAt(At(x)).to]
    BY ArrivedIs
  <1>2. At(z) \in Occupied(units) \ Moved /\ At(z) \notin Lost
    BY OccupiedIs DEF Left, Gone
  <1> QED BY <1>1, <1>2, MovedIs

\* Two units do not arrive at one place.
LEMMA ArriveApart ==
    ASSUME UnitsOK(units), OrdersOK, NEW p \in Powers, NEW o \in Powers,
           NEW y \in Arrived[p], NEW z \in Arrived[o], At(y) = At(z)
    PROVE  p = o /\ y = z
  <1>1. PICK x \in Left[p] : /\ At(x) \in Moved /\ x \in units[p]
                             /\ At(y) = Base[CommandAt(At(x)).to]
                             /\ y = [x EXCEPT !.loc = CommandAt(At(x)).to]
    BY ArrivedIs
  <1>2. PICK w \in Left[o] : /\ At(w) \in Moved /\ w \in units[o]
                             /\ At(z) = Base[CommandAt(At(w)).to]
                             /\ z = [w EXCEPT !.loc = CommandAt(At(w)).to]
    BY ArrivedIs
  <1>3. At(x) = At(w)
    BY <1>1, <1>2, MovedIs
  <1>4. p = o /\ x = w
    BY <1>1, <1>2, <1>3 DEF UnitsOK
  <1> QED BY <1>1, <1>2, <1>4

\* Units that move leave a board behind them on which they stand apart again.
LEMMA MoveResultsOK ==
    ASSUME BoardOK(Board), OrdersOK, NobodyRetreats(retreats)
    PROVE  BoardOK(MoveResults)
  <1> DEFINE new == [p \in Powers |-> (units[p] \ (Left[p] \cup Gone[p])) \cup Arrived[p]]
  <1>1. UnitsOK(units) /\ CentersOK(centers) /\ hash = HashOf(units, retreats, centers)
    BY DEF BoardOK, Board
  <1>2. UnitsOK(new)
    <2>1. ASSUME NEW p \in Powers PROVE new[p] \subseteq Units
      BY <1>1, ArrivedIs DEF UnitsOK
    <2>2. ASSUME NEW p \in Powers, NEW o \in Powers, NEW x \in new[p], NEW y \in new[o], At(x) = At(y)
          PROVE  p = o /\ x = y
      <3>1. CASE x \in Arrived[p] /\ y \in Arrived[o]
        BY <1>1, <2>2, <3>1, ArriveApart
      <3>2. CASE x \in Arrived[p] /\ y \notin Arrived[o]
        BY <1>1, <2>2, <3>2, StaysApart
      <3>3. CASE x \notin Arrived[p] /\ y \in Arrived[o]
        BY <1>1, <2>2, <3>3, StaysApart
      <3>4. CASE x \notin Arrived[p] /\ y \notin Arrived[o]
        BY <1>1, <2>2, <3>4 DEF UnitsOK
      <3> QED BY <3>1, <3>2, <3>3, <3>4
    <2>3. new \in [Powers -> SUBSET Units]
      BY <2>1
    <2> HIDE DEF new
    <2> QED BY <2>2, <2>3 DEF UnitsOK
  <1>3. PICK open :
        LET retreating == [p \in Powers |-> {x \in Gone[p] : open[x] # {}}] IN
        /\ \A x \in Units : open[x] \subseteq Reach[x]
        /\ MoveResults =
            [units |-> new,
             retreats |-> [p \in Powers |-> [x \in retreating[p] |-> open[x]]],
             centers |-> centers,
             hash |-> Toggle(Toggle(hash, AllTokens("unit", Left) \cup AllTokens("unit", Gone)
                                            \cup AllTokens("dislodged", retreating)),
                             AllTokens("unit", Arrived))]
    BY MoveResultsIs
  <1> DEFINE retreating == [p \in Powers |-> {x \in Gone[p] : open[x] # {}}]
             back == [p \in Powers |-> [x \in retreating[p] |-> open[x]]]
             leaving == [p \in Powers |-> Left[p] \cup Gone[p]]
             staying == [p \in Powers |-> units[p] \ leaving[p]]
  <1>4. ASSUME NEW p \in Powers
        PROVE  /\ retreating[p] \subseteq Units /\ DOMAIN back[p] = retreating[p]
               /\ \A x \in retreating[p] : back[p][x] = open[x] /\ open[x] \subseteq Reach[x]
    BY <1>1, <1>3, ArrivedIs DEF UnitsOK
  <1>5. RetreatsOK(back)
    <2>1. ASSUME NEW p \in Powers
          PROVE  /\ IsDict(back[p], Units, SUBSET Locs)
                 /\ \A x \in DOMAIN back[p] : back[p][x] \subseteq Reach[x]
      BY <1>4, TurnsAssumption DEF IsDict
    <2> HIDE DEF back
    <2>2. DOMAIN back = Powers
      BY DEF back
    <2> QED BY <2>1, <2>2 DEF RetreatsOK
  <1>6. hash = Hash(units, Nothing, centers)
    <2>1. \A p \in Powers : Dislodged(retreats)[p] = Nothing[p]
      BY DEF Dislodged, Nothing, NobodyRetreats, Empty
    <2> QED BY <1>1, <2>1, HashOfParts, HashExtensional
  <1>7. Toggle(hash, AllTokens("unit", Left) \cup AllTokens("unit", Gone)
                        \cup AllTokens("dislodged", retreating))
            = Hash(staying, retreating, centers)
    <2>1. AllTokens("unit", Left) \cup AllTokens("unit", Gone) = AllTokens("unit", leaving)
      BY DEF AllTokens, Tokens
    <2>2. AllTokens("unit", Left) \cup AllTokens("unit", Gone)
                \cup AllTokens("dislodged", retreating) = Hash(leaving, retreating, Nothing)
      BY <2>1, NoTokens DEF Hash
    <2>3. ASSUME NEW p \in Powers
          PROVE  /\ staying[p] = Toggle(units[p], leaving[p])
                 /\ retreating[p] = Toggle(Nothing[p], retreating[p])
                 /\ centers[p] = Toggle(centers[p], Nothing[p])
      <3>1. leaving[p] \subseteq units[p]
        BY <1>1, ArrivedIs
      <3> QED BY <3>1 DEF Toggle, Nothing
    <2> HIDE DEF staying, leaving, retreating
    <2>4. Toggle(Hash(units, Nothing, centers), Hash(leaving, retreating, Nothing))
            = Hash(staying, retreating, centers)
      BY <2>3, HashToggle
    <2> QED BY <1>6, <2>2, <2>4
  <1>8. Toggle(Hash(staying, retreating, centers), AllTokens("unit", Arrived))
            = Hash(new, retreating, centers)
    <2>1. AllTokens("unit", Arrived) = Hash(Arrived, Nothing, Nothing)
      BY NoTokens DEF Hash
    <2>2. ASSUME NEW p \in Powers
          PROVE  /\ new[p] = Toggle(staying[p], Arrived[p])
                 /\ retreating[p] = Toggle(retreating[p], Nothing[p])
                 /\ centers[p] = Toggle(centers[p], Nothing[p])
      <3>1. staying[p] \cap Arrived[p] = {}
        BY <1>1, StaysApart
      <3>2. new[p] = staying[p] \cup Arrived[p]
        OBVIOUS
      <3> QED BY <3>1, <3>2 DEF Toggle, Nothing
    <2> HIDE DEF staying, new, retreating
    <2> QED BY <2>1, <2>2, HashToggle
  <1>9. HashOf(new, back, centers) = Hash(new, retreating, centers)
    <2>1. \A p \in Powers : Dislodged(back)[p] = retreating[p]
      BY <1>4 DEF Dislodged
    <2> HIDE DEF new, back, retreating
    <2> QED BY <2>1, HashOfParts, HashExtensional
  <1> HIDE DEF new, staying, leaving
  <1>10. /\ MoveResults.units = new /\ MoveResults.retreats = back
         /\ MoveResults.centers = centers /\ MoveResults.hash = Hash(new, retreating, centers)
    BY <1>3, <1>7, <1>8
  <1> HIDE DEF retreating, back
  <1> QED BY <1>1, <1>2, <1>5, <1>9, <1>10 DEF BoardOK

----------------------------------------------------------------------------
(* A retreat phase.                                                         *)

Retired ==
    [p \in Powers |->
        {[r.unit EXCEPT !.loc = r.to] :
            r \in {t \in {adjust[p][i] : i \in {k \in DOMAIN adjust[p] : adjust[p][k].to # "D"}} :
                        Base[t.to] \notin RetreatConflicts}}]

\* A unit that retreats goes to a free place that no other retreats to.
LEMMA RetiredIs ==
    ASSUME AdjustOK, RetreatsFree, phase.type = "R", NEW p \in Powers, NEW y \in Retired[p]
    PROVE  \E i \in DOMAIN adjust[p] :
              /\ adjust[p][i].to # "D" /\ y = [adjust[p][i].unit EXCEPT !.loc = adjust[p][i].to]
              /\ y \in Units /\ At(y) = Base[adjust[p][i].to]
              /\ At(y) \in Places \ Occupied(units) /\ At(y) \notin RetreatConflicts
  <1>1. PICK i \in DOMAIN adjust[p] :
            /\ adjust[p][i].to # "D" /\ y = [adjust[p][i].unit EXCEPT !.loc = adjust[p][i].to]
            /\ Base[adjust[p][i].to] \notin RetreatConflicts
    BY DEF Retired
  <1>2. /\ adjust[p][i].to \in Locs /\ y \in Units
        /\ Base[adjust[p][i].to] \notin Occupied(units)
    BY <1>1 DEF RetreatsFree
  <1>3. adjust[p][i].unit \in Units
    <2>1. adjust[p] \in Seq(Orders)
      BY DEF AdjustOK
    <2>2. adjust[p][i] \in Orders
      BY <2>1, ElementOfSeq
    <2> QED BY <2>2 DEF Orders
  <1>4. y.loc = adjust[p][i].to
    <2>1. adjust[p][i].unit = [type |-> adjust[p][i].unit.type, loc |-> adjust[p][i].unit.loc]
      BY <1>3, UnitTypes
    <2> QED BY <1>1, <2>1
  <1> QED BY <1>1, <1>2, <1>4 DEF At, Places

\* Two retreats to one place are a conflict.
LEMMA ConflictIs ==
    ASSUME AdjustOK, NEW p \in Powers, NEW o \in Powers,
           NEW i \in DOMAIN adjust[p], NEW j \in DOMAIN adjust[o],
           adjust[p][i].to # "D", adjust[o][j].to # "D",
           Base[adjust[p][i].to] = Base[adjust[o][j].to], Base[adjust[p][i].to] \in Places,
           p # o \/ i # j
    PROVE  Base[adjust[p][i].to] \in RetreatConflicts
  <1> DEFINE requests == {r \in Powers \X (1..MaxAdjust) :
                            r[2] \in DOMAIN adjust[r[1]] /\ adjust[r[1]][r[2]].to # "D"}
             r == <<p, i>>
             t == <<o, j>>
  <1>1. i \in 1..MaxAdjust /\ j \in 1..MaxAdjust
    <2>1. /\ adjust[p] \in Seq(Orders) /\ adjust[o] \in Seq(Orders)
          /\ Len(adjust[p]) <= MaxAdjust /\ Len(adjust[o]) <= MaxAdjust
      BY DEF AdjustOK
    <2>2. /\ DOMAIN adjust[p] = 1..Len(adjust[p]) /\ DOMAIN adjust[o] = 1..Len(adjust[o])
          /\ Len(adjust[p]) \in Nat /\ Len(adjust[o]) \in Nat
      BY <2>1, LenProperties
    <2> QED BY <2>1, <2>2, TurnsAssumption
  <1>2. r \in requests /\ t \in requests /\ r # t
    BY <1>1
  <1>3. r[1] = p /\ r[2] = i /\ t[1] = o /\ t[2] = j
    OBVIOUS
  <1> HIDE DEF r, t
  <1>4. /\ Base[adjust[p][i].to] = Base[adjust[r[1]][r[2]].to]
        /\ Base[adjust[p][i].to] = Base[adjust[t[1]][t[2]].to]
    BY <1>3
  <1> QED BY <1>2, <1>4 DEF RetreatConflicts

\* A retreat phase leaves a board in order, and no retreats.
LEMMA RetreatResultsOK ==
    ASSUME BoardOK(Board), AdjustOK, RetreatsFree, phase.type = "R"
    PROVE  BoardOK(RetreatResults) /\ NobodyRetreats(RetreatResults.retreats)
  <1> DEFINE new == [p \in Powers |-> units[p] \cup Retired[p]]
  <1>1. /\ UnitsOK(units) /\ RetreatsOK(retreats) /\ CentersOK(centers)
        /\ hash = HashOf(units, retreats, centers)
    BY DEF BoardOK, Board
  <1>2. RetreatResults =
            [units |-> new, retreats |-> NoRetreats, centers |-> centers,
             hash |-> Toggle(hash, AllTokens("unit", Retired)
                                    \cup AllTokens("dislodged", Dislodged(retreats)))]
    BY DEF RetreatResults, Retired
  <1>3. \A p, o \in Powers : \A x \in units[o], y \in Retired[p] : At(x) # At(y)
    BY RetiredIs, OccupiedIs
  <1>4. ASSUME NEW p \in Powers, NEW o \in Powers, NEW x \in Retired[p], NEW y \in Retired[o],
               At(x) = At(y)
        PROVE  p = o /\ x = y
    <2>1. PICK i \in DOMAIN adjust[p] :
              /\ adjust[p][i].to # "D" /\ x = [adjust[p][i].unit EXCEPT !.loc = adjust[p][i].to]
              /\ At(x) = Base[adjust[p][i].to] /\ At(x) \in Places /\ At(x) \notin RetreatConflicts
      BY RetiredIs
    <2>2. PICK j \in DOMAIN adjust[o] :
              /\ adjust[o][j].to # "D" /\ y = [adjust[o][j].unit EXCEPT !.loc = adjust[o][j].to]
              /\ At(y) = Base[adjust[o][j].to]
      BY RetiredIs
    <2>3. p = o /\ i = j
      BY <1>4, <2>1, <2>2, ConflictIs
    <2> QED BY <2>1, <2>2, <2>3
  <1>5. UnitsOK(new)
    <2>1. \A p \in Powers : new[p] \subseteq Units
      BY <1>1, RetiredIs DEF UnitsOK
    <2>2. new \in [Powers -> SUBSET Units]
      BY <2>1
    <2>3. \A p \in Powers : \A x \in new[p] : x \in units[p] \/ x \in Retired[p]
      OBVIOUS
    <2> HIDE DEF new
    <2> QED BY <1>1, <1>3, <1>4, <2>2, <2>3 DEF UnitsOK
  <1>6. RetreatsOK(NoRetreats) /\ NobodyRetreats(NoRetreats)
    BY DEF RetreatsOK, NobodyRetreats, NoRetreats, IsDict, Empty
  <1>7. Toggle(hash, AllTokens("unit", Retired) \cup AllTokens("dislodged", Dislodged(retreats)))
            = HashOf(new, NoRetreats, centers)
    <2>1. AllTokens("unit", Retired) \cup AllTokens("dislodged", Dislodged(retreats))
            = Hash(Retired, Dislodged(retreats), Nothing)
      BY NoTokens DEF Hash
    <2>2. ASSUME NEW p \in Powers
          PROVE  /\ new[p] = Toggle(units[p], Retired[p])
                 /\ Dislodged(NoRetreats)[p] = Toggle(Dislodged(retreats)[p], Dislodged(retreats)[p])
                 /\ centers[p] = Toggle(centers[p], Nothing[p])
      <3>1. units[p] \cap Retired[p] = {}
        BY <1>3
      <3>2. new[p] = units[p] \cup Retired[p]
        OBVIOUS
      <3>3. Dislodged(NoRetreats)[p] = {}
        BY DEF Dislodged, NoRetreats, Empty
      <3> QED BY <3>1, <3>2, <3>3 DEF Toggle, Nothing
    <2> HIDE DEF new
    <2>3. Toggle(Hash(units, Dislodged(retreats), centers), Hash(Retired, Dislodged(retreats), Nothing))
            = Hash(new, Dislodged(NoRetreats), centers)
      BY <2>2, HashToggle
    <2> QED BY <1>1, <2>1, <2>3, HashOfParts
  <1> HIDE DEF new
  <1> QED BY <1>1, <1>2, <1>5, <1>6, <1>7 DEF BoardOK

----------------------------------------------------------------------------
(* Counting.                                                                *)

\* Every set of numbers has a least one.
LEMMA LeastOf ==
    ASSUME NEW S, S \subseteq Nat, S # {}
    PROVE  \E y \in S : \A z \in S : y <= z
  <1>1. \E y \in S : \A z \in S : ~(<<z, y>> \in OpToRel(<, Nat))
    BY NatLessThanWellFounded, WFMin
  <1>2. PICK y \in S : \A z \in S : ~(z < y)
    BY <1>1 DEF OpToRel
  <1>3. \A z \in S : y <= z
    BY <1>2
  <1> QED BY <1>3

\* The place of a number in the order of a set of numbers.
Place(chosen, i) == Cardinality({k \in chosen : k <= i})

\* The places of the numbers of a finite set run through 1..n in their order.
LEMMA PlacesInOrder ==
    ASSUME NEW chosen, IsFiniteSet(chosen), chosen \subseteq Nat
    PROVE  /\ Cardinality(chosen) \in Nat
           /\ \A i \in chosen : Place(chosen, i) \in 1..Cardinality(chosen)
           /\ \A i, j \in chosen : i < j => Place(chosen, i) < Place(chosen, j)
           /\ \A n \in 1..Cardinality(chosen) : \E i \in chosen : Place(chosen, i) = n
  <1> DEFINE upTo(i) == {k \in chosen : k <= i}
  <1>1. Cardinality(chosen) \in Nat
    BY FS_CardinalityType
  <1>2. \A i : IsFiniteSet(upTo(i)) /\ Cardinality(upTo(i)) \in Nat
               /\ Cardinality(upTo(i)) <= Cardinality(chosen)
    <2> TAKE i
    <2>1. upTo(i) \subseteq chosen
      OBVIOUS
    <2> HIDE DEF upTo
    <2> QED BY <2>1, FS_Subset, FS_CardinalityType
  <1>3. \A i, j \in chosen : i < j => Cardinality(upTo(i)) < Cardinality(upTo(j))
    <2> SUFFICES ASSUME NEW i \in chosen, NEW j \in chosen, i < j
                 PROVE  Cardinality(upTo(i)) < Cardinality(upTo(j))
      OBVIOUS
    <2>1. upTo(i) \subseteq upTo(j) /\ j \in upTo(j) /\ j \notin upTo(i)
      <3>1. i \in Nat /\ j \in Nat
        OBVIOUS
      <3>2. \A k \in chosen : k <= i => k <= j
        BY <3>1
      <3>3. ~(j <= i) /\ j <= j
        BY <3>1
      <3> QED BY <3>2, <3>3
    <2> HIDE DEF upTo
    <2>2. upTo(i) # upTo(j)
      BY <2>1
    <2>3. Cardinality(upTo(i)) <= Cardinality(upTo(j))
      BY <1>2, <2>1, FS_Subset
    <2>4. Cardinality(upTo(i)) # Cardinality(upTo(j))
      BY <1>2, <2>1, <2>2, FS_Subset
    <2> QED BY <1>2, <2>3, <2>4
  <1>4. \A i \in chosen : Cardinality(upTo(i)) >= 1
    <2> TAKE i \in chosen
    <2>1. i \in upTo(i)
      OBVIOUS
    <2> HIDE DEF upTo
    <2> QED BY <1>2, <2>1, FS_EmptySet
  <1>5. \A i \in chosen : Cardinality(upTo(i)) \in 1..Cardinality(chosen)
    BY <1>1, <1>2, <1>4
  <1> HIDE DEF upTo
  <1> DEFINE f == [i \in chosen |-> Cardinality(upTo(i))]
  <1>6. f \in Injection(chosen, 1..Cardinality(chosen))
    <2>1. f \in [chosen -> 1..Cardinality(chosen)]
      BY <1>5
    <2>2. ASSUME NEW i \in chosen, NEW j \in chosen, f[i] = f[j]
          PROVE  i = j
      <3>1. i < j \/ j < i \/ i = j
        OBVIOUS
      <3> QED BY <2>2, <3>1, <1>3, <1>2
    <2> QED BY <2>1, <2>2 DEF Injection, IsInjective
  <1>7. IsFiniteSet(1..Cardinality(chosen)) /\ Cardinality(1..Cardinality(chosen)) = Cardinality(chosen)
    BY <1>1, FS_Interval
  <1>8. f \in Surjection(chosen, 1..Cardinality(chosen))
    <2> HIDE DEF f
    <2> QED BY <1>6, <1>7, FS_Injection
  <1>9. \A n \in 1..Cardinality(chosen) : \E i \in chosen : Cardinality(upTo(i)) = n
    <2>1. \A n \in 1..Cardinality(chosen) : \E i \in chosen : f[i] = n
      <3> HIDE DEF f
      <3> QED BY <1>8 DEF Surjection
    <2> QED BY <2>1
  <1> QED BY <1>1, <1>3, <1>5, <1>9 DEF Place, upTo

\* What is kept of a call: some of its orders, each once.
LEMMA KeptIs ==
    ASSUME NEW S, NEW call \in Seq(S), NEW chosen, chosen \subseteq DOMAIN call
    PROVE  /\ Kept(call, chosen) \in Seq(S)
           /\ \E f \in [DOMAIN Kept(call, chosen) -> chosen] :
                /\ \A n \in DOMAIN Kept(call, chosen) : Kept(call, chosen)[n] = call[f[n]]
                /\ \A m, n \in DOMAIN Kept(call, chosen) : f[m] = f[n] => m = n
  <1>1. DOMAIN call = 1..Len(call) /\ Len(call) \in Nat
    BY LenProperties
  <1>2. IsFiniteSet(chosen) /\ chosen \subseteq Nat
    <2>1. IsFiniteSet(1..Len(call))
      BY <1>1, FS_Interval
    <2> QED BY <1>1, <2>1, FS_Subset
  <1> DEFINE N == Cardinality(chosen)
             f == [n \in 1..N |-> CHOOSE i \in chosen : Place(chosen, i) = n]
  <1>3. N \in Nat /\ \A n \in 1..N : f[n] \in chosen /\ Place(chosen, f[n]) = n
    BY <1>2, PlacesInOrder
  <1>4. Kept(call, chosen) = [n \in 1..N |-> call[f[n]]]
    BY DEF Kept, Place
  <1> HIDE DEF f, N
  <1>5. f \in [1..N -> chosen]
    BY <1>3 DEF f
  <1>6. \A i \in DOMAIN call : call[i] \in S
    BY ElementOfSeq, <1>1
  <1>7. Kept(call, chosen) \in [1..N -> S]
    BY <1>4, <1>5, <1>6
  <1>8. Kept(call, chosen) \in Seq(S)
    BY <1>3, <1>7, SeqDef
  <1>9. DOMAIN Kept(call, chosen) = 1..N
    BY <1>4
  <1>10. \A n \in 1..N : Kept(call, chosen)[n] = call[f[n]]
    BY <1>4
  <1>11. \A m, n \in 1..N : f[m] = f[n] => m = n
    BY <1>3
  <1> QED BY <1>5, <1>8, <1>9, <1>10, <1>11

----------------------------------------------------------------------------
(* An adjustment phase.                                                     *)

\* The units that may stand on the map are finitely many.
LEMMA UnitsFinite == IsFiniteSet(Units)
  <1> DEFINE T == {"A", "F"} \X Locs
             all == [type : {"A", "F"}, loc : Locs]
             f == [t \in T |-> [type |-> t[1], loc |-> t[2]]]
  <1>1. IsFiniteSet({"A", "F"})
    <2>1. {"A", "F"} = {"A"} \cup {"F"}
      OBVIOUS
    <2>2. IsFiniteSet({"A"})
      BY FS_Singleton
    <2> QED BY <2>1, <2>2, FS_AddElement
  <1>2. IsFiniteSet(T)
    BY <1>1, FS_Product, TurnsAssumption
  <1>3. f \in Surjection(T, all)
    <2>1. \A t \in T : f[t] \in all
      OBVIOUS
    <2>2. \A x \in all : <<x.type, x.loc>> \in T /\ f[<<x.type, x.loc>>] = x
      OBVIOUS
    <2>3. f \in [T -> all]
      BY <2>1
    <2> HIDE DEF f, T, all
    <2> QED BY <2>2, <2>3 DEF Surjection
  <1>4. IsFiniteSet(all)
    <2> HIDE DEF f, T, all
    <2> QED BY <1>2, <1>3, FS_Surjection
  <1>5. Units \subseteq all
    BY TurnsAssumption
  <1> HIDE DEF all
  <1> QED BY <1>4, <1>5, FS_Subset

\* Units and centres can be counted.
LEMMA SurplusType ==
    ASSUME NEW u \in [Powers -> SUBSET Units], NEW c \in [Powers -> SUBSET Centers], NEW p \in Powers
    PROVE  /\ IsFiniteSet(u[p]) /\ Cardinality(u[p]) \in Nat
           /\ IsFiniteSet(c[p]) /\ Cardinality(c[p]) \in Nat
           /\ Surplus(p, u, c) \in Int
  <1>1. IsFiniteSet(u[p])
    BY UnitsFinite, FS_Subset
  <1>2. IsFiniteSet(c[p])
    <2>1. c[p] \subseteq Places
      BY TurnsAssumption
    <2> QED BY <2>1, PlacesFinite, FS_Subset
  <1>3. Cardinality(u[p]) \in Nat /\ Cardinality(c[p]) \in Nat
    BY <1>1, <1>2, FS_CardinalityType
  <1> QED BY <1>1, <1>2, <1>3 DEF Surplus

\* FirstOf gives units of the power's orders, and no more than it is asked for.
LEMMA FirstOfIs ==
    ASSUME AdjustOK, NEW p \in Powers, NEW to, NEW n \in Int
    PROVE  /\ \A x \in FirstOf(p, to, n) :
                \E i \in DOMAIN adjust[p] : adjust[p][i].to = to /\ x = adjust[p][i].unit
           /\ IsFiniteSet(FirstOf(p, to, n)) /\ Cardinality(FirstOf(p, to, n)) \in Nat
           /\ n \in Nat => Cardinality(FirstOf(p, to, n)) <= n
  <1> DEFINE all == {i \in DOMAIN adjust[p] : adjust[p][i].to = to}
             some == {j \in all : Place(all, j) <= n}
             f == [j \in some |-> adjust[p][j].unit]
             g == [j \in some |-> Place(all, j)]
  <1>1. FirstOf(p, to, n) = {adjust[p][i].unit : i \in some}
    BY DEF FirstOf, Place
  <1>2. IsFiniteSet(all) /\ all \subseteq Nat
    <2>1. DOMAIN adjust[p] = 1..Len(adjust[p]) /\ Len(adjust[p]) \in Nat
      BY LenProperties DEF AdjustOK
    <2>2. IsFiniteSet(1..Len(adjust[p]))
      BY <2>1, FS_Interval
    <2> QED BY <2>1, <2>2, FS_Subset
  <1>3. IsFiniteSet(some)
    BY <1>2, FS_Subset
  <1>4. \A x \in FirstOf(p, to, n) :
            \E i \in DOMAIN adjust[p] : adjust[p][i].to = to /\ x = adjust[p][i].unit
    BY <1>1
  <1>5. f \in Surjection(some, FirstOf(p, to, n))
    <2> HIDE DEF some
    <2>1. f \in [some -> FirstOf(p, to, n)]
      BY <1>1
    <2>2. \A x \in FirstOf(p, to, n) : \E j \in some : f[j] = x
      BY <1>1
    <2> QED BY <2>1, <2>2 DEF Surjection
  <1>6. /\ IsFiniteSet(FirstOf(p, to, n)) /\ Cardinality(FirstOf(p, to, n)) \in Nat
        /\ Cardinality(FirstOf(p, to, n)) <= Cardinality(some) /\ Cardinality(some) \in Nat
    <2> HIDE DEF f, some
    <2> QED BY <1>3, <1>5, FS_Surjection, FS_CardinalityType
  <1>7. ASSUME n \in Nat PROVE Cardinality(some) <= n
    <2>1. \A j \in some : j \in all /\ j \in Nat /\ Place(all, j) \in 1..Cardinality(all) /\ Place(all, j) <= n
      BY <1>2, PlacesInOrder
    <2>2. \A i, j \in some : i < j => Place(all, i) < Place(all, j)
      BY <1>2, PlacesInOrder
    <2>3. Cardinality(all) \in Nat
      BY <1>2, FS_CardinalityType
    <2> HIDE DEF some, all
    <2>4. \A j \in some : Place(all, j) \in 1..n
      BY <1>7, <2>1, <2>3
    <2>5. \A i, j \in some : Place(all, i) = Place(all, j) => i = j
      <3> TAKE i, j \in some
      <3>1. i < j \/ j < i \/ i = j
        BY <2>1
      <3>2. Place(all, i) \in Int /\ Place(all, j) \in Int
        BY <2>4
      <3> QED BY <2>2, <3>1, <3>2
    <2>6. g \in Injection(some, 1..n)
      <3>1. g \in [some -> 1..n]
        BY <2>4
      <3> QED BY <2>5, <3>1 DEF Injection, IsInjective
    <2>7. IsFiniteSet(1..n) /\ Cardinality(1..n) = n
      BY <1>7, FS_Interval
    <2> HIDE DEF g
    <2> QED BY <2>6, <2>7, FS_Injection
  <1> QED BY <1>4, <1>6, <1>7

\* There are no first n orders when n is negative.
LEMMA NoneFirst ==
    ASSUME AdjustOK, NEW p \in Powers, NEW to, NEW n \in Int, n < 0
    PROVE  FirstOf(p, to, n) = {}
  <1> DEFINE all == {i \in DOMAIN adjust[p] : adjust[p][i].to = to}
  <1>1. IsFiniteSet(all) /\ all \subseteq Nat
    <2>1. DOMAIN adjust[p] = 1..Len(adjust[p]) /\ Len(adjust[p]) \in Nat
      BY LenProperties DEF AdjustOK
    <2>2. IsFiniteSet(1..Len(adjust[p]))
      BY <2>1, FS_Interval
    <2> QED BY <2>1, <2>2, FS_Subset
  <1>2. \A j \in all : Place(all, j) \in 1..Cardinality(all) /\ Cardinality(all) \in Nat
    BY <1>1, PlacesInOrder
  <1>3. FirstOf(p, to, n) = {adjust[p][i].unit : i \in {j \in all : Place(all, j) <= n}}
    BY DEF FirstOf, Place
  <1> HIDE DEF all
  <1>4. \A j \in all : ~(Place(all, j) <= n)
    BY <1>2
  <1> QED BY <1>3, <1>4

\* The distance from home is bounded.
LEMMA DistanceType ==
    ASSUME NEW x, NEW homes
    PROVE  Distance(x, homes) \in 0..(Cardinality(Locs) + 99999)
  <1>1. Cardinality(Locs) \in Nat
    BY FS_CardinalityType, TurnsAssumption
  <1> DEFINE ball[n \in 0..Cardinality(Locs)] ==
                IF n = 0 THEN {x.loc}
                ELSE UNION {{l} \cup WalkFrom(x.type, l) : l \in ball[n - 1]}
             near == {n \in 0..Cardinality(Locs) : \E l \in ball[n] : Base[l] \in homes}
  <1>2. Distance(x, homes) = IF near = {} THEN 99999 ELSE CHOOSE n \in near : \A m \in near : n <= m
    BY DEF Distance
  <1>3. near \subseteq 0..Cardinality(Locs) /\ near \subseteq Nat
    <2> HIDE DEF ball
    <2> QED BY <1>1
  <1> HIDE DEF near
  <1>4. CASE near = {}
    BY <1>1, <1>2, <1>4
  <1>5. CASE near # {}
    <2>1. \E n \in near : \A m \in near : n <= m
      BY <1>3, <1>5, LeastOf
    <2>2. Distance(x, homes) \in near
      BY <1>2, <1>5, <2>1
    <2>3. Distance(x, homes) \in 0..Cardinality(Locs)
      BY <1>3, <2>2
    <2> QED BY <1>1, <2>3
  <1> QED BY <1>4, <1>5

\* Of some units one goes first: none is farther from home, and if it is an army, no
\* fleet is as far.
LEMMA FirstGoner ==
    ASSUME NEW from, from # {}, NEW b \in Nat, NEW far, \A x \in from : far[x] \in 0..b
    PROVE  \E x \in from : \A y \in from :
              ~(far[y] > far[x] \/ (far[y] = far[x] /\ y.type = "F" /\ x.type = "A"))
  <1> DEFINE T == {b - far[x] : x \in from}
  <1>1. T \subseteq Nat /\ T # {}
    <2>1. \A x \in from : b - far[x] \in Nat
      OBVIOUS
    <2> QED BY <2>1
  <1>2. PICK y \in T : \A z \in T : y <= z
    BY <1>1, LeastOf
  <1>3. PICK x0 \in from : y = b - far[x0]
    BY <1>2
  <1>4. \A x \in from : far[x] <= far[x0]
    <2> TAKE x \in from
    <2>1. b - far[x] \in T
      OBVIOUS
    <2>2. b - far[x0] <= b - far[x]
      BY <1>2, <1>3, <2>1
    <2> QED BY <2>2
  <1> HIDE DEF T
  <1>5. CASE \E x \in from : far[x] = far[x0] /\ x.type = "F"
    <2>1. PICK x \in from : far[x] = far[x0] /\ x.type = "F"
      BY <1>5
    <2>2. \A z \in from : ~(far[z] > far[x])
      BY <1>4, <2>1
    <2> QED BY <2>1, <2>2
  <1>6. CASE ~\E x \in from : far[x] = far[x0] /\ x.type = "F"
    <2>1. \A z \in from : ~(far[z] > far[x0])
      BY <1>4
    <2> QED BY <1>6, <2>1
  <1> QED BY <1>5, <1>6

\* Civil disorder removes as many units as it has to, if there are so many.
LEMMA GonersAre ==
    ASSUME NEW p, NEW from, IsFiniteSet(from), NEW n \in Nat
    PROVE  /\ Goners(p, from, n) \subseteq from
           /\ Cardinality(Goners(p, from, n)) = Smaller(n, Cardinality(from))
  <1> DEFINE far == [x \in from |-> Distance(x, Homes[p])]
             before(x, y) == \/ far[x] > far[y]
                             \/ far[x] = far[y] /\ x.type = "F" /\ y.type = "A"
             Able(m, gone) == /\ Cardinality(gone) = m
                              /\ \A x \in gone : \A y \in from \ gone : ~before(y, x)
             N == Cardinality(from)
             bad == {m \in 0..N : ~\E gone \in SUBSET from : Able(m, gone)}
  <1>1. N \in Nat
    BY FS_CardinalityType
  <1>2. \A x \in from : far[x] \in 0..(Cardinality(Locs) + 99999)
    BY DistanceType
  <1>3. Cardinality(Locs) + 99999 \in Nat
    BY FS_CardinalityType, TurnsAssumption
  <1>4. ASSUME NEW rest \in SUBSET from, rest # {}
        PROVE  \E x \in rest : \A y \in rest : ~before(y, x)
    <2> DEFINE B == Cardinality(Locs) + 99999
    <2>1. B \in Nat /\ \A x \in rest : far[x] \in 0..B
      BY <1>2, <1>3
    <2> HIDE DEF far, B
    <2>2. \E x \in rest : \A y \in rest :
             ~(far[y] > far[x] \/ (far[y] = far[x] /\ y.type = "F" /\ x.type = "A"))
      BY <1>4, <2>1, FirstGoner
    <2> QED BY <2>2
  <1> HIDE DEF before
  <1>5. bad = {}
    <2> SUFFICES ASSUME bad # {} PROVE FALSE
      OBVIOUS
    <2>1. PICK m \in bad : \A k \in bad : m <= k
      <3>1. bad \subseteq Nat
        BY <1>1
      <3> HIDE DEF bad
      <3> QED BY <3>1, LeastOf
    <2>2. m \in 0..N /\ m \in Nat
      BY <1>1
    <2>3. m # 0
      <3>1. Cardinality({}) = 0
        BY FS_EmptySet
      <3>2. Able(0, {}) /\ {} \in SUBSET from
        BY <3>1
      <3> QED BY <3>2
    <2>4. m - 1 \in 0..N /\ ~(m <= m - 1)
      BY <1>1, <2>2, <2>3
    <2>5. m - 1 \notin bad
      BY <2>1, <2>4
    <2>6. PICK gone \in SUBSET from : Able(m - 1, gone)
      BY <2>4, <2>5
    <2>7. IsFiniteSet(gone) /\ Cardinality(gone) = m - 1
      BY <2>6, FS_Subset
    <2>8. from \ gone # {}
      <3> SUFFICES ASSUME from \ gone = {} PROVE FALSE
        OBVIOUS
      <3>1. gone = from
        OBVIOUS
      <3> QED BY <1>1, <2>2, <2>7, <3>1
    <2>9. PICK x \in from \ gone : \A y \in from \ gone : ~before(y, x)
      BY <1>4, <2>8
    <2>10. Cardinality(gone \cup {x}) = m
      <3>1. Cardinality(gone \cup {x}) = Cardinality(gone) + 1
        BY <2>7, <2>9, FS_AddElement
      <3> QED BY <2>2, <2>7, <3>1
    <2>11. Able(m, gone \cup {x})
      BY <2>6, <2>9, <2>10
    <2> QED BY <2>1, <2>11
  <1>6. Smaller(n, N) \in 0..N
    BY <1>1 DEF Smaller
  <1>7. \E gone \in SUBSET from : Able(Smaller(n, N), gone)
    BY <1>5, <1>6
  <1>8. Goners(p, from, n) = CHOOSE gone \in SUBSET from : Able(Smaller(n, N), gone)
    BY DEF Goners, before
  <1>9. Goners(p, from, n) \in SUBSET from /\ Able(Smaller(n, N), Goners(p, from, n))
    <2> HIDE DEF N, Able
    <2> QED BY <1>7, <1>8
  <1> QED BY <1>9

Built == [p \in Powers |-> FirstOf(p, "B", Cardinality(centers[p]) - Cardinality(units[p]))]

Disbanded(p) == FirstOf(p, "D", Surplus(p, units, centers))

Removed ==
    [p \in Powers |->
        IF Surplus(p, units, centers) <= 0 THEN {}
        ELSE (Disbanded(p) \cap units[p]) \cup
             Goners(p, units[p] \ Disbanded(p),
                    Surplus(p, units, centers) - Cardinality(Disbanded(p)))]

\* A unit is built where its power ordered it, on a place that no unit holds.
LEMMA BuiltIs ==
    ASSUME BoardOK(Board), AdjustOK, BuildsFree, phase.type = "A", NEW p \in Powers, NEW x \in Built[p]
    PROVE  /\ x \in Units /\ At(x) \notin Occupied(units)
           /\ \E i \in DOMAIN adjust[p] : adjust[p][i].to = "B" /\ x = adjust[p][i].unit
  <1>1. Cardinality(centers[p]) - Cardinality(units[p]) \in Int
    BY SurplusType DEF BoardOK, Board, UnitsOK, CentersOK
  <1>2. PICK i \in DOMAIN adjust[p] : adjust[p][i].to = "B" /\ x = adjust[p][i].unit
    BY <1>1, FirstOfIs DEF Built
  <1>3. adjust[p][i] \in Orders
    BY ElementOfSeq DEF AdjustOK
  <1>4. x \in Units
    BY <1>2, <1>3 DEF Orders
  <1> QED BY <1>2, <1>4 DEF BuildsFree

\* A power loses units of its own, those it disbands before any other.
LEMMA RemovedIs ==
    ASSUME BoardOK(Board), AdjustOK, NEW p \in Powers
    PROVE  /\ Removed[p] \subseteq units[p]
           /\ Surplus(p, units, centers) > 0 =>
                /\ Surplus(p, units, centers) - Cardinality(Disbanded(p)) \in Nat
                /\ Cardinality(Goners(p, units[p] \ Disbanded(p),
                                      Surplus(p, units, centers) - Cardinality(Disbanded(p))))
                     = Smaller(Surplus(p, units, centers) - Cardinality(Disbanded(p)),
                               Cardinality(units[p] \ Disbanded(p)))
  <1> DEFINE n == Surplus(p, units, centers)
             from == units[p] \ Disbanded(p)
  <1>1. n \in Int /\ IsFiniteSet(units[p])
    BY SurplusType DEF BoardOK, Board, UnitsOK, CentersOK
  <1>2. CASE n <= 0
    BY <1>1, <1>2 DEF Removed
  <1>3. CASE n > 0
    <2>1. n \in Nat
      BY <1>1, <1>3
    <2>2. Cardinality(Disbanded(p)) \in Nat /\ Cardinality(Disbanded(p)) <= n
      BY <1>1, <2>1, FirstOfIs DEF Disbanded
    <2>3. n - Cardinality(Disbanded(p)) \in Nat
      BY <2>1, <2>2
    <2>4. IsFiniteSet(from)
      BY <1>1, FS_Subset
    <2>5. /\ Goners(p, from, n - Cardinality(Disbanded(p))) \subseteq from
          /\ Cardinality(Goners(p, from, n - Cardinality(Disbanded(p))))
                = Smaller(n - Cardinality(Disbanded(p)), Cardinality(from))
      BY <2>3, <2>4, GonersAre
    <2>6. Removed[p] = (Disbanded(p) \cap units[p]) \cup Goners(p, from, n - Cardinality(Disbanded(p)))
      BY <1>1, <1>3 DEF Removed
    <2> HIDE DEF n
    <2>7. Removed[p] \subseteq units[p]
      BY <2>5, <2>6
    <2> QED BY <2>3, <2>5, <2>7 DEF n
  <1> QED BY <1>1, <1>2, <1>3

\* An adjustment phase leaves a board in order, and no retreats.
LEMMA AdjustResultsOK ==
    ASSUME BoardOK(Board), AdjustOK, BuildsFree, BuildsApart, phase.type = "A"
    PROVE  BoardOK(AdjustResults) /\ NobodyRetreats(AdjustResults.retreats)
  <1> DEFINE new == [p \in Powers |-> (units[p] \cup Built[p]) \ Removed[p]]
             changed == [p \in Powers |-> Built[p] \cup Removed[p]]
  <1>1. /\ UnitsOK(units) /\ RetreatsOK(retreats) /\ CentersOK(centers)
        /\ hash = HashOf(units, retreats, centers)
    BY DEF BoardOK, Board
  <1>2. AdjustResults =
            [units |-> new, retreats |-> NoRetreats, centers |-> centers,
             hash |-> Toggle(hash, AllTokens("unit", Built) \cup AllTokens("unit", Removed)
                                    \cup AllTokens("dislodged", Dislodged(retreats)))]
    BY DEF AdjustResults, Built, Removed, Disbanded
  <1>3. \A p, o \in Powers : \A x \in units[o], y \in Built[p] : At(x) # At(y)
    BY BuiltIs, OccupiedIs
  <1>4. ASSUME NEW p \in Powers, NEW o \in Powers, NEW x \in Built[p], NEW y \in Built[o],
               At(x) = At(y)
        PROVE  p = o /\ x = y
    <2>1. PICK i \in DOMAIN adjust[p] : adjust[p][i].to = "B" /\ x = adjust[p][i].unit
      BY BuiltIs
    <2>2. PICK j \in DOMAIN adjust[o] : adjust[o][j].to = "B" /\ y = adjust[o][j].unit
      BY BuiltIs
    <2>3. p = o /\ i = j
      BY <1>4, <2>1, <2>2 DEF BuildsApart
    <2> QED BY <2>1, <2>2, <2>3
  <1>5. UnitsOK(new)
    <2>1. \A p \in Powers : new[p] \subseteq Units
      BY <1>1, BuiltIs DEF UnitsOK
    <2>2. new \in [Powers -> SUBSET Units]
      BY <2>1
    <2>3. \A p \in Powers : \A x \in new[p] : x \in units[p] \/ x \in Built[p]
      OBVIOUS
    <2> HIDE DEF new
    <2> QED BY <1>1, <1>3, <1>4, <2>2, <2>3 DEF UnitsOK
  <1>6. RetreatsOK(NoRetreats) /\ NobodyRetreats(NoRetreats)
    BY DEF RetreatsOK, NobodyRetreats, NoRetreats, IsDict, Empty
  <1>7. Toggle(hash, AllTokens("unit", Built) \cup AllTokens("unit", Removed)
                        \cup AllTokens("dislodged", Dislodged(retreats)))
            = HashOf(new, NoRetreats, centers)
    <2>1. AllTokens("unit", Built) \cup AllTokens("unit", Removed) = AllTokens("unit", changed)
      BY DEF AllTokens, Tokens
    <2>2. AllTokens("unit", Built) \cup AllTokens("unit", Removed)
            \cup AllTokens("dislodged", Dislodged(retreats))
            = Hash(changed, Dislodged(retreats), Nothing)
      BY <2>1, NoTokens DEF Hash
    <2>3. ASSUME NEW p \in Powers
          PROVE  /\ new[p] = Toggle(units[p], changed[p])
                 /\ Dislodged(NoRetreats)[p] = Toggle(Dislodged(retreats)[p], Dislodged(retreats)[p])
                 /\ centers[p] = Toggle(centers[p], Nothing[p])
      <3>1. units[p] \cap Built[p] = {} /\ Removed[p] \subseteq units[p]
        BY <1>3, RemovedIs
      <3>2. new[p] = (units[p] \cup Built[p]) \ Removed[p] /\ changed[p] = Built[p] \cup Removed[p]
        OBVIOUS
      <3>3. Dislodged(NoRetreats)[p] = {}
        BY DEF Dislodged, NoRetreats, Empty
      <3> QED BY <3>1, <3>2, <3>3 DEF Toggle, Nothing
    <2> HIDE DEF new, changed
    <2>4. Toggle(Hash(units, Dislodged(retreats), centers), Hash(changed, Dislodged(retreats), Nothing))
            = Hash(new, Dislodged(NoRetreats), centers)
      BY <2>3, HashToggle
    <2> QED BY <1>1, <2>2, <2>4, HashOfParts
  <1> HIDE DEF new
  <1> QED BY <1>1, <1>2, <1>5, <1>6, <1>7 DEF BoardOK

----------------------------------------------------------------------------
(* Centres and the end of a game.                                           *)

\* The places of a power's units that are centres, as TakenFrom has them.
On(b, p) == {At(x) : x \in b.units[p]} \cap Centers

\* Who owns a centre after a capture: the power on it, else the one that had it, and one only.
LEMMA TakenIs ==
    ASSUME NEW b, UnitsOK(b.units), CentersOK(b.centers), NEW p \in Powers
    PROVE  /\ TakenFrom(b)[p] \subseteq Centers /\ On(b, p) \subseteq TakenFrom(b)[p]
           /\ \A c \in TakenFrom(b)[p] :
                /\ c \in On(b, p) \/ c \in b.centers[p]
                     \/ (c \in Homes[p] /\ \A o \in Powers : b.centers[o] = {})
                /\ \A o \in Powers \ {p} : c \notin TakenFrom(b)[o]
  <1> DEFINE before == IF \A o \in Powers : b.centers[o] = {} THEN Homes ELSE b.centers
             others(o) == UNION {On(b, q) : q \in Powers \ {o}}
  <1>1. \A o \in Powers : TakenFrom(b)[o] = (before[o] \ others(o)) \cup On(b, o)
    BY DEF TakenFrom, On
  <1>2. /\ \A o \in Powers : before[o] \subseteq Centers
        /\ \A o, q \in Powers : o # q => before[o] \cap before[q] = {}
    BY TurnsAssumption DEF CentersOK
  <1>3. \A o, q \in Powers : o # q => On(b, o) \cap On(b, q) = {}
    BY DEF On, UnitsOK
  <1>4. \A o : On(b, o) \subseteq Centers
    BY DEF On
  <1>5. \A c \in before[p] : c \in b.centers[p]
                     \/ (c \in Homes[p] /\ \A o \in Powers : b.centers[o] = {})
    OBVIOUS
  <1>6. \A o \in Powers \ {p} : On(b, p) \subseteq others(o) /\ On(b, o) \subseteq others(p)
    OBVIOUS
  <1> HIDE DEF before, others
  <1>7. \A c \in TakenFrom(b)[p] : \A o \in Powers \ {p} : c \notin TakenFrom(b)[o]
    BY <1>1, <1>2, <1>3, <1>6
  <1> QED BY <1>1, <1>2, <1>4, <1>5, <1>7

IsBoard(b) == b = [units |-> b.units, retreats |-> b.retreats, centers |-> b.centers, hash |-> b.hash]

Fields == {"units", "retreats", "centers", "hash"}

\* A board is its four fields.
LEMMA FieldsOfBoard ==
    ASSUME NEW b, IsBoard(b)
    PROVE  DOMAIN b = Fields /\ b = [k \in Fields |-> b[k]]
  <1>1. DOMAIN [units |-> b.units, retreats |-> b.retreats, centers |-> b.centers, hash |-> b.hash]
            = Fields
    BY DEF Fields
  <1>2. DOMAIN b = Fields
    BY <1>1 DEF IsBoard
  <1> QED BY <1>2 DEF IsBoard

\* The fields of a board after centres were captured.
LEMMA CaptureIs ==
    ASSUME NEW b, IsBoard(b)
    PROVE  /\ Capture(b).units = b.units /\ Capture(b).retreats = b.retreats
           /\ Capture(b).centers = TakenFrom(b)
           /\ Capture(b).hash = Toggle(Toggle(b.hash, AllTokens("center", b.centers)),
                                       AllTokens("center", TakenFrom(b)))
           /\ IsBoard(Capture(b))
  <1> DEFINE c == TakenFrom(b)
             h == Toggle(Toggle(b.hash, AllTokens("center", b.centers)), AllTokens("center", c))
  <1>1. Capture(b) = [b EXCEPT !.centers = c, !.hash = h]
    BY DEF Capture
  <1> HIDE DEF c, h
  <1>2. [b EXCEPT !.centers = c, !.hash = h]
            = [units |-> b.units, retreats |-> b.retreats, centers |-> c, hash |-> h]
    <2> DEFINE x == [b EXCEPT !.centers = c, !.hash = h]
    <2>1. x = [k \in Fields |-> IF k = "hash" THEN h ELSE IF k = "centers" THEN c ELSE b[k]]
      BY FieldsOfBoard DEF Fields
    <2> HIDE DEF x
    <2>2. x = [units |-> b.units, retreats |-> b.retreats, centers |-> c, hash |-> h]
      BY <2>1 DEF Fields
    <2> QED BY <2>2 DEF x
  <1>3. /\ Capture(b).units = b.units /\ Capture(b).retreats = b.retreats
        /\ Capture(b).centers = c /\ Capture(b).hash = h /\ IsBoard(Capture(b))
    BY <1>1, <1>2 DEF IsBoard
  <1> QED BY <1>3 DEF c, h

\* A capture leaves a board in order.
LEMMA CaptureOK ==
    ASSUME NEW b, IsBoard(b), BoardOK(b)
    PROVE  IsBoard(Capture(b)) /\ BoardOK(Capture(b))
  <1> DEFINE taken == TakenFrom(b)
  <1>1. UnitsOK(b.units) /\ RetreatsOK(b.retreats) /\ CentersOK(b.centers)
        /\ b.hash = Hash(b.units, Dislodged(b.retreats), b.centers)
    BY HashOfParts DEF BoardOK
  <1>2. CentersOK(taken)
    <2>1. DOMAIN taken = Powers /\ taken = [p \in Powers |-> taken[p]]
      BY DEF TakenFrom
    <2> HIDE DEF taken
    <2>2. \A p \in Powers : /\ taken[p] \subseteq Centers
                            /\ \A c \in taken[p] : \A o \in Powers \ {p} : c \notin taken[o]
      BY <1>1, TakenIs DEF taken
    <2> QED BY <2>1, <2>2 DEF CentersOK
  <1> HIDE DEF taken
  <1>3. Toggle(b.hash, AllTokens("center", b.centers))
            = Hash(b.units, Dislodged(b.retreats), Nothing)
    <2>1. AllTokens("center", b.centers) = Hash(Nothing, Nothing, b.centers)
      BY NoTokens DEF Hash
    <2>2. \A p \in Powers : /\ b.units[p] = Toggle(b.units[p], Nothing[p])
                            /\ Dislodged(b.retreats)[p] = Toggle(Dislodged(b.retreats)[p], Nothing[p])
                            /\ Nothing[p] = Toggle(b.centers[p], b.centers[p])
      BY DEF Toggle, Nothing
    <2>3. Toggle(Hash(b.units, Dislodged(b.retreats), b.centers), Hash(Nothing, Nothing, b.centers))
            = Hash(b.units, Dislodged(b.retreats), Nothing)
      BY <2>2, HashToggle
    <2> QED BY <1>1, <2>1, <2>3
  <1>4. Toggle(Hash(b.units, Dislodged(b.retreats), Nothing), AllTokens("center", taken))
            = Hash(b.units, Dislodged(b.retreats), taken)
    <2>1. AllTokens("center", taken) = Hash(Nothing, Nothing, taken)
      BY NoTokens DEF Hash
    <2>2. \A p \in Powers : /\ b.units[p] = Toggle(b.units[p], Nothing[p])
                            /\ Dislodged(b.retreats)[p] = Toggle(Dislodged(b.retreats)[p], Nothing[p])
                            /\ taken[p] = Toggle(Nothing[p], taken[p])
      BY DEF Toggle, Nothing
    <2>3. Toggle(Hash(b.units, Dislodged(b.retreats), Nothing), Hash(Nothing, Nothing, taken))
            = Hash(b.units, Dislodged(b.retreats), taken)
      BY <2>2, HashToggle
    <2> QED BY <2>1, <2>3
  <1>5. /\ Capture(b).units = b.units /\ Capture(b).retreats = b.retreats
        /\ Capture(b).centers = taken
        /\ Capture(b).hash = Toggle(Toggle(b.hash, AllTokens("center", b.centers)),
                                       AllTokens("center", taken))
        /\ IsBoard(Capture(b))
    BY CaptureIs DEF taken
  <1>6. Capture(b).hash = HashOf(b.units, b.retreats, taken)
    BY <1>3, <1>4, <1>5, HashOfParts
  <1> QED BY <1>1, <1>2, <1>5, <1>6 DEF BoardOK

\* The board of a game that finishes keeps its units and centres, and nobody retreats.
LEMMA FinishedOK ==
    ASSUME NEW b, IsBoard(b), BoardOK(b)
    PROVE  /\ IsBoard(Finished(b)) /\ BoardOK(Finished(b)) /\ NobodyRetreats(Finished(b).retreats)
           /\ Finished(b).units = b.units /\ Finished(b).centers = b.centers
  <1>1. UnitsOK(b.units) /\ RetreatsOK(b.retreats) /\ CentersOK(b.centers)
        /\ b.hash = Hash(b.units, Dislodged(b.retreats), b.centers)
    BY HashOfParts DEF BoardOK
  <1>2. /\ IsBoard(Finished(b)) /\ Finished(b).units = b.units /\ Finished(b).centers = b.centers
        /\ Finished(b).retreats = NoRetreats
        /\ Finished(b).hash = Toggle(b.hash, AllTokens("dislodged", Dislodged(b.retreats)))
    <2> DEFINE h == Toggle(b.hash, AllTokens("dislodged", Dislodged(b.retreats)))
    <2>1. Finished(b) = [b EXCEPT !.retreats = NoRetreats, !.hash = h]
      BY DEF Finished
    <2> HIDE DEF h
    <2>2. [b EXCEPT !.retreats = NoRetreats, !.hash = h]
            = [units |-> b.units, retreats |-> NoRetreats, centers |-> b.centers, hash |-> h]
      <3> DEFINE x == [b EXCEPT !.retreats = NoRetreats, !.hash = h]
      <3>1. x = [k \in Fields |-> IF k = "hash" THEN h ELSE IF k = "retreats" THEN NoRetreats
                                  ELSE b[k]]
        BY FieldsOfBoard DEF Fields
      <3> HIDE DEF x
      <3>2. x = [units |-> b.units, retreats |-> NoRetreats, centers |-> b.centers, hash |-> h]
        BY <3>1 DEF Fields
      <3> QED BY <3>2 DEF x
    <2>3. /\ IsBoard(Finished(b)) /\ Finished(b).units = b.units /\ Finished(b).centers = b.centers
          /\ Finished(b).retreats = NoRetreats /\ Finished(b).hash = h
      BY <2>1, <2>2 DEF IsBoard
    <2> QED BY <2>3 DEF h
  <1>3. RetreatsOK(NoRetreats) /\ NobodyRetreats(NoRetreats)
    BY DEF RetreatsOK, NobodyRetreats, NoRetreats, IsDict, Empty
  <1>4. Finished(b).hash = HashOf(b.units, NoRetreats, b.centers)
    <2>1. AllTokens("dislodged", Dislodged(b.retreats)) = Hash(Nothing, Dislodged(b.retreats), Nothing)
      BY NoTokens DEF Hash
    <2>2. ASSUME NEW p \in Powers
          PROVE  /\ b.units[p] = Toggle(b.units[p], Nothing[p])
                 /\ Dislodged(NoRetreats)[p] = Toggle(Dislodged(b.retreats)[p], Dislodged(b.retreats)[p])
                 /\ b.centers[p] = Toggle(b.centers[p], Nothing[p])
      <3>1. Dislodged(NoRetreats)[p] = {}
        BY DEF Dislodged, NoRetreats, Empty
      <3> QED BY <3>1 DEF Toggle, Nothing
    <2>3. Toggle(Hash(b.units, Dislodged(b.retreats), b.centers),
                 Hash(Nothing, Dislodged(b.retreats), Nothing))
            = Hash(b.units, Dislodged(NoRetreats), b.centers)
      BY <2>2, HashToggle
    <2> QED BY <1>1, <1>2, <2>1, <2>3, HashOfParts
  <1> QED BY <1>1, <1>2, <1>3, <1>4 DEF BoardOK

----------------------------------------------------------------------------
(* The results of any phase.                                                *)

\* The board of the state is a board.
LEMMA BoardIsBoard == IsBoard(Board)
  BY DEF IsBoard, Board

\* The fields of a board that is loaded.
LEMMA LoadedIs ==
    ASSUME NEW s
    PROVE  /\ Loaded(s).units = s.units /\ Loaded(s).retreats = s.retreats
           /\ Loaded(s).centers = s.centers
           /\ Loaded(s).hash = HashOf(s.units, s.retreats, s.centers)
  BY DEF Loaded

\* The results of the three types of phases are boards.
LEMMA ResultsAreBoards == IsBoard(MoveResults) /\ IsBoard(RetreatResults) /\ IsBoard(AdjustResults)
  <1>1. \A u, r, c, h : IsBoard([units |-> u, retreats |-> r, centers |-> c, hash |-> h])
    BY DEF IsBoard
  <1>2. \E u, r, c, h : MoveResults = [units |-> u, retreats |-> r, centers |-> c, hash |-> h]
    BY Zenon DEF MoveResults
  <1>3. \E u, r, c, h : RetreatResults = [units |-> u, retreats |-> r, centers |-> c, hash |-> h]
    BY Zenon DEF RetreatResults
  <1>4. \E u, r, c, h : AdjustResults = [units |-> u, retreats |-> r, centers |-> c, hash |-> h]
    BY Zenon DEF AdjustResults
  <1> QED BY <1>1, <1>2, <1>3, <1>4, Zenon

\* The results of a phase make a board, and after any phase but of movement nobody is to
\* retreat.
LEMMA ResultsOK ==
    ASSUME IInv, InGame(phase)
    PROVE  /\ IsBoard(Results) /\ BoardOK(Results)
           /\ phase.type # "M" => NobodyRetreats(Results.retreats)
           /\ phase.type \in {"M", "R", "A"}
  <1>1. phase.type \in {"M", "R", "A"}
    <2>1. PICK i \in 1..5 : phase = [season |-> Flow[i].season, year |-> phase.year, type |-> Flow[i].type]
      BY DEF IInv, PhaseOK, IsPlayed, InGame
    <2>2. \A j \in 1..5 : Flow[j].type \in {"M", "R", "A"}
      BY DEF Flow
    <2> QED BY <2>1, <2>2
  <1>2. CASE phase.type = "M"
    BY <1>1, <1>2, MoveResultsOK, ResultsAreBoards DEF IInv, Results
  <1>3. CASE phase.type = "R"
    BY <1>1, <1>3, RetreatResultsOK, ResultsAreBoards DEF IInv, Results
  <1>4. CASE phase.type = "A"
    BY <1>1, <1>4, AdjustResultsOK, ResultsAreBoards DEF IInv, Results
  <1> QED BY <1>1, <1>2, <1>3, <1>4

\* The board in the next phase has the units of the results.
LEMMA BoardInOK ==
    ASSUME NEW b, NEW later, IsBoard(b), BoardOK(b)
    PROVE  /\ IsBoard(BoardIn(b, later)) /\ BoardOK(BoardIn(b, later))
           /\ BoardIn(b, later).retreats = b.retreats /\ BoardIn(b, later).units = b.units
  BY CaptureIs, CaptureOK DEF BoardIn

\* A board that is set.
LEMMA SetBoardIs ==
    ASSUME NEW b, BoardOK(b), SetBoard(b)
    PROVE  BoardOK(Board)' /\ (NobodyRetreats(b.retreats) => NobodyRetreats(retreats)')
  <1>1. /\ UnitsOK(b.units) /\ RetreatsOK(b.retreats) /\ CentersOK(b.centers)
        /\ b.hash = HashOf(b.units, b.retreats, b.centers)
    BY DEF BoardOK
  <1>2. units' = b.units /\ retreats' = b.retreats /\ centers' = b.centers /\ hash' = b.hash
    BY DEF SetBoard
  <1>3. /\ Board'.units = units' /\ Board'.retreats = retreats'
        /\ Board'.centers = centers' /\ Board'.hash = hash'
    BY DEF Board
  <1>4. BoardOK(Board')
    BY <1>1, <1>2, <1>3 DEF BoardOK
  <1> QED BY <1>2, <1>4

----------------------------------------------------------------------------
(* The succession of phases.                                                *)

\* The phases of all years, counted.
Time(ph) == 6 * ph.year + Index(ph)

\* No phase is twice in the flow.
LEMMA FlowApart ==
    /\ DOMAIN Flow = 0..5
    /\ Flow[0] = [season |-> "NEWYEAR", type |-> "-"]
    /\ Flow[1] = [season |-> "SPRING", type |-> "M"] /\ Flow[2] = [season |-> "SPRING", type |-> "R"]
    /\ Flow[3] = [season |-> "FALL", type |-> "M"] /\ Flow[4] = [season |-> "FALL", type |-> "R"]
    /\ Flow[5] = [season |-> "WINTER", type |-> "A"]
  <1>1. 3 % 2 = 1 /\ 1 % 2 = 1 /\ 4 % 2 # 1 /\ 2 % 2 # 1
    OBVIOUS
  <1> QED BY <1>1 DEF Flow

\* The index of a phase that is played.
LEMMA IndexIs ==
    ASSUME NEW i \in 1..5, NEW y \in Nat
    PROVE  LET ph == [season |-> Flow[i].season, year |-> y, type |-> Flow[i].type] IN
           Index(ph) = i /\ IsPlayed(ph) /\ InGame(ph) /\ ph.type \in Types
  <1> DEFINE ph == [season |-> Flow[i].season, year |-> y, type |-> Flow[i].type]
  <1>1. ph.season = Flow[i].season /\ ph.type = Flow[i].type /\ ph.year = y
    OBVIOUS
  <1>2. Flow[i] = [season |-> ph.season, type |-> ph.type] /\ i \in DOMAIN Flow
    BY <1>1, FlowApart
  <1>3. \A j \in DOMAIN Flow : Flow[j] = Flow[i] => j = i
    <2> SUFFICES ASSUME NEW j \in 0..5, Flow[j] = Flow[i]
                 PROVE  j = i
      BY FlowApart
    <2>1. Flow[j].season = Flow[i].season /\ Flow[j].type = Flow[i].type
      OBVIOUS
    <2>2. j \in {0, 1, 2, 3, 4, 5} /\ i \in {1, 2, 3, 4, 5}
      OBVIOUS
    <2> QED BY <2>1, <2>2, FlowApart
  <1>4. IsPlayed(ph)
    BY <1>1 DEF IsPlayed
  <1>5. ph.season \in {"SPRING", "FALL", "WINTER"} /\ ph.type \in Types
    BY <1>1, FlowApart DEF Types
  <1>6. InGame(ph)
    BY <1>5 DEF InGame, FORMING, COMPLETED
  <1> HIDE DEF ph
  <1>7. Index(ph) = i
    BY <1>2, <1>3 DEF Index
  <1> QED BY <1>4, <1>5, <1>6, <1>7 DEF ph

\* What a phase that is played is made of.
LEMMA PlayedIs ==
    ASSUME NEW ph, IsPlayed(ph)
    PROVE  /\ Index(ph) \in 1..5 /\ ph.year \in Nat /\ Time(ph) \in Nat /\ InGame(ph)
           /\ ph.type = Flow[Index(ph)].type /\ ph.season = Flow[Index(ph)].season
           /\ ph.type \in Types
           /\ ph = [season |-> ph.season, year |-> ph.year, type |-> ph.type]
  <1>1. PICK i \in 1..5 : ph = [season |-> Flow[i].season, year |-> ph.year, type |-> Flow[i].type]
    BY DEF IsPlayed
  <1>2. ph.year \in Nat
    BY DEF IsPlayed
  <1>3. Index(ph) = i /\ InGame(ph) /\ ph.type \in Types
    BY <1>1, <1>2, IndexIs
  <1>4. ph.season = Flow[i].season /\ ph.type = Flow[i].type
    BY <1>1
  <1>5. 6 * ph.year + Index(ph) \in Nat
    BY <1>2, <1>3
  <1> QED BY <1>1, <1>2, <1>3, <1>4, <1>5 DEF Time

\* Phases are compared by their time.
LEMMA ComparesTimes ==
    ASSUME NEW a, NEW b, IsPlayed(a), IsPlayed(b)
    PROVE  /\ ComparePhases(a, b) = -1 <=> Time(a) < Time(b)
           /\ ComparePhases(a, COMPLETED) = -1
  <1>1. /\ Index(a) \in 1..5 /\ a.year \in Nat /\ InGame(a) /\ Index(b) \in 1..5
        /\ b.year \in Nat /\ InGame(b)
    BY PlayedIs
  <1>2. ComparePhases(a, b) = IF a.year # b.year THEN Sign(a.year - b.year)
                              ELSE Sign(Index(a) - Index(b))
    BY <1>1 DEF ComparePhases
  <1>3. \A n \in Int : Sign(n) = -1 <=> n < 0
    BY DEF Sign
  <1>4. ComparePhases(a, b) = -1 <=> (a.year < b.year \/ (a.year = b.year /\ Index(a) < Index(b)))
    BY <1>1, <1>2, <1>3
  <1>5. Time(a) < Time(b) <=> (a.year < b.year \/ (a.year = b.year /\ Index(a) < Index(b)))
    BY <1>1 DEF Time
  <1>6. ComparePhases(a, COMPLETED) = Sign(Rank(a) - Rank(COMPLETED))
    BY DEF ComparePhases, InGame
  <1>7. Rank(a) = 2 /\ Rank(COMPLETED) = 3
    BY <1>1 DEF Rank, InGame, FORMING, COMPLETED
  <1> QED BY <1>3, <1>4, <1>5, <1>6, <1>7

\* The entries of the flow after a phase.
LEMMA EntryIs ==
    ASSUME NEW ph, IsPlayed(ph), NEW n \in Nat \ {0}
    PROVE  /\ (Index(ph) + n) % 6 # 0 =>
                /\ IsPlayed(Entry(ph, n)) /\ Entry(ph, n).type \in Types
                /\ Time(Entry(ph, n)) = Time(ph) + n
           /\ Entry(ph, n).type = Flow[(Index(ph) + n) % 6].type
  <1> DEFINE i == Index(ph) + n
             y == ph.year + i \div 6
  <1>1. Index(ph) \in 1..5 /\ ph.year \in Nat
    BY PlayedIs
  <1>2. i \in Nat
    BY <1>1
  <1>3. i % 6 \in 0..5 /\ i \div 6 \in Nat /\ i % 6 = i - 6 * (i \div 6)
    <2> HIDE DEF i
    <2>1. i % 6 \in 0..5
      BY <1>2
    <2>2. i \div 6 \in Nat
      BY <1>2
    <2>3. i % 6 = i - 6 * (i \div 6)
      BY <1>2
    <2> QED BY <2>1, <2>2, <2>3
  <1>4. Entry(ph, n) = [season |-> Flow[i % 6].season, year |-> y, type |-> Flow[i % 6].type]
    BY DEF Entry
  <1>5. y \in Nat
    BY <1>1, <1>3
  <1>6. ASSUME i % 6 # 0
        PROVE  /\ IsPlayed(Entry(ph, n)) /\ Entry(ph, n).type \in Types
               /\ Time(Entry(ph, n)) = Time(ph) + n
    <2>1. i % 6 \in 1..5
      BY <1>3, <1>6
    <2> HIDE DEF i, y
    <2>2. IsPlayed(Entry(ph, n)) /\ Entry(ph, n).type \in Types /\ Index(Entry(ph, n)) = i % 6
      BY <1>4, <1>5, <2>1, IndexIs
    <2>3. Entry(ph, n).year = y
      BY <1>4
    <2>4. 6 * y + (i % 6) = (6 * ph.year + Index(ph)) + n
      <3>1. i = Index(ph) + n /\ y = ph.year + i \div 6
        BY DEF i, y
      <3> DEFINE d == i \div 6
                 m == i % 6
      <3>2. d \in Nat /\ m \in Int /\ m = i - 6 * d /\ y = ph.year + d
        BY <1>3, <3>1
      <3> HIDE DEF d, m
      <3>3. 6 * y + m = (6 * ph.year + Index(ph)) + n
        BY <1>1, <3>1, <3>2
      <3> QED BY <3>3 DEF m
    <2>5. Time(Entry(ph, n)) = 6 * y + (i % 6) /\ Time(ph) = 6 * ph.year + Index(ph)
      BY <2>2, <2>3 DEF Time
    <2> QED BY <2>2, <2>4, <2>5
  <1>7. Entry(ph, n).type = Flow[i % 6].type
    <2> HIDE DEF i, y
    <2> QED BY <1>4
  <1> QED BY <1>6, <1>7

\* There are three types of phases.
LEMMA TypesCounted == Cardinality(Types) = 3
  <1>1. Cardinality({"M"}) = 1 /\ IsFiniteSet({"M"})
    BY FS_Singleton
  <1>2. Cardinality({"M"} \cup {"R"}) = 2 /\ IsFiniteSet({"M"} \cup {"R"})
    BY <1>1, FS_AddElement
  <1>3. Cardinality(({"M"} \cup {"R"}) \cup {"A"}) = 3
    BY <1>2, FS_AddElement
  <1>4. Types = ({"M"} \cup {"R"}) \cup {"A"}
    BY DEF Types
  <1> QED BY <1>3, <1>4

\* The n-th of the phases that may follow: NEWYEAR is passed over.
LEMMA AheadIs ==
    ASSUME IsPlayed(phase), NEW n \in 1..Cardinality(Types)
    PROVE  /\ IsPlayed(Ahead(n)) /\ Time(phase) < Time(Ahead(n))
           /\ Index(Ahead(n)) = IF Index(phase) + n < 6 THEN Index(phase) + n ELSE Index(phase) + n - 5
           /\ Ahead(n).year = IF Index(phase) + n < 6 THEN phase.year ELSE phase.year + 1
  <1> DEFINE i == Index(phase)
             found == {k \in 1..(6 * n) : Entry(phase, 1 * k).type \in Types}
             j == IF i + n < 6 THEN n ELSE n + 1
  <1>1. n \in 1..3 /\ i \in 1..5 /\ InGame(phase) /\ Time(phase) \in Nat /\ phase.year \in Nat
    BY PlayedIs, TypesCounted
  <1>2. \A k \in Nat \ {0} : Entry(phase, k).type \in Types <=> (i + k) % 6 # 0
    <2> TAKE k \in Nat \ {0}
    <2>1. (i + k) % 6 # 0 => Entry(phase, k).type \in Types
      BY EntryIs
    <2>2. Entry(phase, k).type = Flow[(i + k) % 6].type
      BY EntryIs
    <2>3. Flow[0].type \notin Types
      BY FlowApart DEF Types
    <2> QED BY <2>1, <2>2, <2>3
  <1>3. found = {k \in 1..(6 * n) : (i + k) % 6 # 0}
    <2>1. \A k \in 1..(6 * n) : k \in Nat \ {0} /\ 1 * k = k
      BY <1>1
    <2> QED BY <1>2, <2>1
  <1>4. Ahead(n) = Entry(phase, 1 * CHOOSE k \in found : Place(found, k) = n)
    <2>1. n - 1 + 1 = n
      BY <1>1
    <2> QED BY <1>1, <2>1 DEF Ahead, FindNextPhase, Search, Place
  <1> HIDE DEF i, found
  <1>5. \A k \in 1..4 : (i + k) % 6 = 0 <=> i + k = 6
    <2>1. \A m \in 2..9 : m % 6 = 0 <=> m = 6
      OBVIOUS
    <2>2. \A k \in 1..4 : i + k \in 2..9
      BY <1>1
    <2> QED BY <2>1, <2>2
  <1>6. j \in 1..4 /\ j <= 6 * n /\ i + j # 6
    BY <1>1
  <1> HIDE DEF j
  <1>7. j \in found
    BY <1>1, <1>3, <1>5, <1>6
  <1>8. Place(found, j) = n
    <2>1. {k \in found : k <= j} = {k \in 1..j : i + k # 6}
      BY <1>1, <1>3, <1>5, <1>6
    <2>2. \A m \in Nat : IsFiniteSet(1..m) /\ Cardinality(1..m) = m
      <3> TAKE m \in Nat
      <3>1. IsFiniteSet(1..m) /\ Cardinality(1..m) = IF 1 > m THEN 0 ELSE m - 1 + 1
        BY FS_Interval
      <3> QED BY <3>1
    <2>3. CASE i + n < 6
      <3>1. {k \in 1..j : i + k # 6} = 1..n
        BY <1>1, <2>3 DEF j
      <3>2. Cardinality(1..n) = n
        BY <1>1, <2>2
      <3> QED BY <2>1, <3>1, <3>2 DEF Place
    <2>4. CASE ~(i + n < 6)
      <3>1. {k \in 1..j : i + k # 6} = (1..(n + 1)) \ {6 - i} /\ 6 - i \in 1..(n + 1)
        BY <1>1, <2>4 DEF j
      <3> DEFINE c == 6 - i
                 S == 1..(n + 1)
      <3>2. c \in S /\ IsFiniteSet(S) /\ Cardinality(S) = n + 1
        BY <1>1, <2>2, <3>1
      <3> HIDE DEF c, S
      <3>3. Cardinality(S \ {c}) = n
        BY <1>1, <3>2, FS_RemoveElement
      <3> QED BY <1>1, <2>1, <3>1, <3>3 DEF Place, c, S
    <2> QED BY <2>3, <2>4
  <1>9. \A k \in found : Place(found, k) = n => k = j
    <2>1. IsFiniteSet(found) /\ found \subseteq Nat
      <3>1. IsFiniteSet(1..(6 * n))
        BY <1>1, FS_Interval
      <3> QED BY <1>3, <3>1, FS_Subset
    <2>2. \A k, m \in found : k < m => Place(found, k) < Place(found, m)
      BY <2>1, PlacesInOrder
    <2> QED BY <1>1, <1>7, <1>8, <2>1, <2>2
  <1>10. Ahead(n) = Entry(phase, j)
    <2>1. (CHOOSE k \in found : Place(found, k) = n) = j
      BY <1>7, <1>8, <1>9
    <2>2. 1 * j = j
      BY <1>6
    <2> QED BY <1>4, <2>1, <2>2
  <1>11. (i + j) % 6 # 0
    BY <1>5, <1>6
  <1>12. IsPlayed(Ahead(n)) /\ Time(Ahead(n)) = Time(phase) + j
    BY <1>6, <1>10, <1>11, EntryIs DEF i
  <1> DEFINE y == Ahead(n).year
             k == Index(Ahead(n))
  <1>13. k \in 1..5 /\ y \in Nat /\ 6 * y + k = 6 * phase.year + i + j
    <2>1. Time(Ahead(n)) = 6 * y + k /\ Time(phase) = 6 * phase.year + i
      BY DEF Time, i
    <2> QED BY <1>1, <1>6, <1>12, <2>1, PlayedIs
  <1> HIDE DEF y, k
  <1>14. /\ k = IF i + n < 6 THEN i + n ELSE i + n - 5
         /\ y = IF i + n < 6 THEN phase.year ELSE phase.year + 1
    BY <1>1, <1>13 DEF j
  <1>15. Time(phase) < Time(Ahead(n))
    BY <1>1, <1>6, <1>12
  <1> QED BY <1>12, <1>14, <1>15 DEF y, k, i

----------------------------------------------------------------------------
(* The steps that end a phase.                                              *)

\* A power without orders has nothing but valid ones.
LEMMA NobodyOrders ==
    /\ \A p \in Powers : orders[p] = Empty =>
          /\ IsDict(orders[p], Units, [type : {"H", "-", "S"}, of : Units, to : Locs])
          /\ \A x \in DOMAIN orders[p] : CommandOK(x, orders[p][x])
    /\ \A p \in Powers : orders'[p] = Empty =>
          /\ IsDict(orders'[p], Units, [type : {"H", "-", "S"}, of : Units, to : Locs])
          /\ \A x \in DOMAIN orders'[p] : CommandOK(x, orders'[p][x])
  <1>1. IsDict(Empty, Units, [type : {"H", "-", "S"}, of : Units, to : Locs]) /\ DOMAIN Empty = {}
    BY DEF IsDict, Empty
  <1> QED BY <1>1

\* When all orders are dropped, nothing is left to be wrong about them.
LEMMA NothingGivenOK ==
    ASSUME NothingGiven
    PROVE  OrdersOK' /\ AdjustOK' /\ RetreatsFree' /\ BuildsFree' /\ BuildsApart' /\ DisbandsOwn'
  <1>1. /\ DOMAIN orders' = Powers /\ orders' = [p \in Powers |-> orders'[p]]
        /\ \A p \in Powers : orders'[p] = Empty
    BY DEF NothingGiven
  <1>2. adjust' = [p \in Powers |-> <<>>] /\ \A p \in Powers : adjust'[p] = <<>>
    BY DEF NothingGiven, NoAdjust
  <1>3. OrdersOK'
    BY <1>1, NobodyOrders, Zenon DEF OrdersOK
  <1>4. AdjustOK'
    <2>1. <<>> \in Seq(Orders) /\ Len(<<>>) = 0
      BY EmptySeq
    <2>2. 0 <= MaxAdjust
      BY TurnsAssumption
    <2> QED BY <1>2, <2>1, <2>2 DEF AdjustOK
  <1>5. \A p \in Powers : DOMAIN adjust'[p] = {}
    <2>1. DOMAIN <<>> = {}
      OBVIOUS
    <2> QED BY <1>2, <2>1
  <1>6. RetreatsFree' /\ BuildsFree' /\ BuildsApart'
    BY <1>5, Zenon DEF RetreatsFree, BuildsFree, BuildsApart
  <1>7. DisbandsOwn'
    BY <1>5, Zenon DEF DisbandsOwn
  <1> QED BY <1>3, <1>4, <1>6, <1>7

\* What is past stays past.
LEMMA StaysPast ==
    ASSUME NEW old, IsPlayed(old), IsPlayed(phase), ComparePhases(old, phase) = -1 \/ old = phase,
           NEW next, next = COMPLETED \/ (IsPlayed(next) /\ Time(phase) < Time(next))
    PROVE  ComparePhases(old, next) = -1
  <1>1. Time(old) \in Nat /\ Time(phase) \in Nat
    BY PlayedIs
  <1>2. Time(old) <= Time(phase)
    BY <1>1, ComparesTimes
  <1>3. CASE next = COMPLETED
    BY <1>3, ComparesTimes
  <1>4. CASE IsPlayed(next) /\ Time(phase) < Time(next)
    <2>1. Time(next) \in Nat
      BY <1>4, PlayedIs
    <2>2. Time(old) < Time(next)
      BY <1>1, <1>2, <1>4, <2>1
    <2> QED BY <1>4, <2>2, ComparesTimes
  <1> QED BY <1>3, <1>4

\* Recording the phase that ends keeps the histories in order.
LEMMA RecordedOK ==
    ASSUME HistoriesOK, IsPlayed(phase), NEW keys, Recorded(keys), phase \in keys,
           phase' = COMPLETED \/ (IsPlayed(phase') /\ Time(phase) < Time(phase')),
           \A k \in keys : k = phase \/ (IsPlayed(k) /\ phase' = COMPLETED)
    PROVE  HistoriesOK'
  <1>1. /\ state_history' = result_history' /\ state_history' \subseteq stance_history'
        /\ state_history' = state_history \cup keys
    BY DEF HistoriesOK, Recorded
  <1>2. ASSUME NEW old \in state_history'
        PROVE  IsPlayed(old) /\ ComparePhases(old, phase') = -1
    <2>1. CASE old \in state_history
      BY <2>1, StaysPast DEF HistoriesOK
    <2>2. CASE old = phase
      BY <2>2, StaysPast
    <2>3. CASE IsPlayed(old) /\ phase' = COMPLETED
      BY <2>3, ComparesTimes
    <2> QED BY <1>1, <1>2, <2>1, <2>2, <2>3
  <1> QED BY <1>1, <1>2 DEF HistoriesOK, PhaseOK

\* From a movement phase with retreats the next phase is theirs.
LEMMA MovesWait ==
    ASSUME IInv, InGame(phase), NEW n \in 1..Cardinality(Types), Ahead(n).type = "M",
           \A m \in 1..(n - 1) : ~HasToStop(Results, Ahead(m))
    PROVE  NobodyRetreats(Results.retreats)
  <1>1. IsPlayed(phase)
    BY DEF IInv, PhaseOK, InGame
  <1>2. CASE phase.type # "M"
    BY <1>2, ResultsOK
  <1>3. CASE phase.type = "M"
    <2>1. 1 \in 1..Cardinality(Types)
      BY TypesCounted
    <2>2. Ahead(1).type = "R"
      <3>1. Index(phase) \in {1, 2, 3, 4, 5} /\ phase.type = Flow[Index(phase)].type
        BY <1>1, PlayedIs
      <3>2. Index(phase) \in {1, 3}
        BY <1>3, <3>1, FlowApart
      <3>3. IsPlayed(Ahead(1)) /\ Index(Ahead(1)) = Index(phase) + 1
        BY <1>1, <2>1, <3>2, AheadIs
      <3>4. Ahead(1).type = Flow[Index(Ahead(1))].type
        BY <3>3, PlayedIs
      <3> QED BY <3>2, <3>3, <3>4, FlowApart
    <2>3. 1 \in 1..(n - 1)
      <3>1. n # 1
        BY <2>2
      <3> QED BY <3>1
    <2>4. ~HasToStop(Results, Ahead(1))
      BY <2>3
    <2> QED BY <2>2, <2>4 DEF HasToStop, NobodyRetreats
  <1> QED BY <1>2, <1>3

\* Processing a phase keeps the invariant.
LEMMA ProcessOK ==
    ASSUME IInv, Process
    PROVE  IInv'
  <1>1. InGame(phase) /\ NothingGiven
    BY DEF Process
  <1>2. IsPlayed(phase)
    BY <1>1 DEF IInv, PhaseOK, InGame
  <1> DEFINE b == Results
  <1>3. PICK n \in 1..Cardinality(Types) :
            /\ HasToStop(b, Ahead(n)) /\ \A m \in 1..(n - 1) : ~HasToStop(b, Ahead(m))
            /\ IF WonIn(b, Ahead(n)) \/ DrawnIn(Ahead(n))
               THEN phase' = COMPLETED /\ SetBoard(Finished(BoardIn(b, Ahead(n))))
               ELSE phase' = Ahead(n) /\ SetBoard(BoardIn(b, Ahead(n)))
            /\ Recorded({phase} \cup
                  IF DrawnIn(Ahead(n)) /\ ~WonIn(b, Ahead(n)) THEN {Ahead(n)} ELSE {})
    BY Zenon DEF Process
  <1>4. IsPlayed(Ahead(n)) /\ Time(phase) < Time(Ahead(n))
    BY <1>2, AheadIs
  <1> DEFINE later == Ahead(n)
             next == BoardIn(b, later)
             ends == WonIn(b, later) \/ DrawnIn(later)
             keys == {phase} \cup IF DrawnIn(later) /\ ~WonIn(b, later) THEN {later} ELSE {}
  <1>5. IsBoard(b) /\ BoardOK(b)
    BY <1>1, ResultsOK
  <1>6. later.type = "M" => NobodyRetreats(b.retreats)
    BY <1>1, <1>3, MovesWait
  <1> HIDE DEF b
  <1>7. IsBoard(next) /\ BoardOK(next) /\ next.retreats = b.retreats
    BY <1>5, BoardInOK
  <1>8. /\ ends => phase' = COMPLETED /\ SetBoard(Finished(next))
        /\ ~ends => phase' = later /\ SetBoard(next)
        /\ Recorded(keys)
        /\ phase \in keys /\ \A k \in keys : k = phase \/ (k = later /\ ends)
    BY <1>3
  <1> HIDE DEF later, next, ends, keys
  <1>9. IsPlayed(later) /\ Time(phase) < Time(later)
    BY <1>4 DEF later
  <1>11. PhaseOK'
    BY <1>8, <1>9 DEF PhaseOK
  <1>12. BoardOK(Board)' /\ (phase.type = "M" => NobodyRetreats(retreats))'
    <2>1. CASE ends
      BY <1>7, <1>8, <2>1, FinishedOK, SetBoardIs
    <2>2. CASE ~ends
      BY <1>6, <1>7, <1>8, <2>2, SetBoardIs
    <2> QED BY <2>1, <2>2
  <1> QED BY <1>1, <1>11, <1>12, NothingGivenOK DEF IInv

\* A draw keeps the invariant.
LEMMA DrawOK ==
    ASSUME IInv, Draw
    PROVE  IInv'
  <1>2. phase' = COMPLETED /\ SetBoard(Finished(Board)) /\ NothingGiven
    BY DEF Draw
  <1>4. BoardOK(Board)' /\ NobodyRetreats(retreats)'
    BY <1>2, BoardIsBoard, FinishedOK, SetBoardIs DEF IInv
  <1> QED BY <1>2, <1>4, NothingGivenOK DEF IInv, PhaseOK, COMPLETED

\* A state that is loaded.
LEMMA LoadedOK ==
    ASSUME NEW s \in Situations \cup Reloads
    PROVE  /\ IsPlayed(s.phase) /\ BoardOK(Loaded(s))
           /\ s.phase.type = "M" => NobodyRetreats(s.retreats)
  <1>1. /\ s.phase.year \in Nat
        /\ \E i \in 1..5 : s.phase = [season |-> Flow[i].season, year |-> s.phase.year,
                                       type |-> Flow[i].type]
    BY TurnsAssumption
  <1>2. IsPlayed(s.phase)
    BY <1>1 DEF IsPlayed
  <1>3. UnitsOK(s.units)
    BY TurnsAssumption DEF UnitsOK, At
  <1>4. CentersOK(s.centers)
    BY TurnsAssumption DEF CentersOK
  <1>5. RetreatsOK(s.retreats)
    BY TurnsAssumption DEF RetreatsOK
  <1>6. s.phase.type = "M" => NobodyRetreats(s.retreats)
    BY TurnsAssumption DEF NobodyRetreats
  <1>7. BoardOK(Loaded(s))
    BY <1>3, <1>4, <1>5, LoadedIs DEF BoardOK
  <1> QED BY <1>2, <1>6, <1>7

\* Loading a state keeps the invariant.
LEMMA SetStateOK ==
    ASSUME IInv, NEW s \in Reloads, SetState(s)
    PROVE  IInv'
  <1>1. /\ phase' = s.phase /\ SetBoard(Loaded(s)) /\ NothingGiven
    BY DEF SetState
  <1>2. /\ IsPlayed(s.phase) /\ BoardOK(Loaded(s))
        /\ s.phase.type = "M" => NobodyRetreats(s.retreats)
    BY LoadedOK
  <1>3. BoardOK(Board)' /\ (phase.type = "M" => NobodyRetreats(retreats))'
    BY <1>1, <1>2, SetBoardIs, LoadedIs
  <1>4. PhaseOK'
    BY <1>1, <1>2 DEF PhaseOK
  <1> QED BY <1>1, <1>3, <1>4, NothingGivenOK DEF IInv

\* The initial states satisfy the invariant.
LEMMA InitOK == Init => IInv
  <1> SUFFICES ASSUME Init PROVE IInv
    OBVIOUS
  <1>1. PICK s \in Situations :
          /\ phase = s.phase
          /\ units = s.units /\ retreats = s.retreats /\ centers = s.centers
          /\ hash = HashOf(s.units, s.retreats, s.centers)
    BY DEF Init
  <1>2. /\ IsPlayed(s.phase) /\ BoardOK(Loaded(s))
        /\ s.phase.type = "M" => NobodyRetreats(s.retreats)
    BY LoadedOK
  <1>3. BoardOK(Board)
    <2>1. Board = Loaded(s)
      BY <1>1 DEF Board, Loaded
    <2> QED BY <1>2, <2>1
  <1>4. /\ DOMAIN orders = Powers /\ orders = [p \in Powers |-> orders[p]]
        /\ \A p \in Powers : orders[p] = Empty
    BY DEF Init
  <1>5. adjust = [p \in Powers |-> <<>>] /\ \A p \in Powers : adjust[p] = <<>>
    BY DEF Init, NoAdjust
  <1>6. OrdersOK
    BY <1>4, NobodyOrders, Zenon DEF OrdersOK
  <1>7. AdjustOK
    <2>1. <<>> \in Seq(Orders) /\ Len(<<>>) = 0
      BY EmptySeq
    <2>2. 0 <= MaxAdjust
      BY TurnsAssumption
    <2> QED BY <1>5, <2>1, <2>2 DEF AdjustOK
  <1>8. \A p \in Powers : DOMAIN adjust[p] = {}
    <2>1. DOMAIN <<>> = {}
      OBVIOUS
    <2> QED BY <1>5, <2>1
  <1>9. RetreatsFree /\ BuildsFree /\ BuildsApart
    BY <1>8, Zenon DEF RetreatsFree, BuildsFree, BuildsApart
  <1>10. DisbandsOwn
    BY <1>8, Zenon DEF DisbandsOwn
  <1>11. PhaseOK /\ (phase.type = "M" => NobodyRetreats(retreats))
    BY <1>1, <1>2 DEF PhaseOK
  <1> QED BY <1>3, <1>6, <1>7, <1>9, <1>10, <1>11 DEF IInv

----------------------------------------------------------------------------
(* The steps of the players.                                                *)

\* A board that does not change stays in order.
LEMMA SameBoard ==
    ASSUME BoardOK(Board), UNCHANGED board
    PROVE  BoardOK(Board)'
  BY DEF board, Board

\* A movement phase.
LEMMA SetOrdersOK ==
    ASSUME IInv, NEW p \in Powers, SetOrders(p)
    PROVE  IInv'
  <1>0. PICK x \in units[p] : \E order \in Commands(p, x) :
            orders' = [orders EXCEPT ![p] = Put(orders[p], x, order)]
    BY Zenon DEF SetOrders
  <1>1. PICK order \in Commands(p, x) : orders' = [orders EXCEPT ![p] = Put(orders[p], x, order)]
    BY <1>0
  <1>2. /\ phase.type = "M" /\ UNCHANGED <<phase, board, adjust, histories>>
        /\ UNCHANGED <<units, retreats, centers>>
    BY DEF SetOrders, board
  <1>3. \A q \in Powers : units[q] \subseteq Units
    BY DEF IInv, BoardOK, Board, UnitsOK
  <1>4. x \in Units /\ x.loc \in Locs /\ Reach[x] \subseteq Locs
    BY <1>3, UnitTypes, TurnsAssumption
  <1>5. CommandOK(x, order) /\ order \in [type : {"H", "-", "S"}, of : Units, to : Locs]
    <2>1. CASE order \in [type : {"H"}, of : {x}, to : {x.loc}]
      BY <1>4, <2>1 DEF CommandOK
    <2>2. CASE order \in [type : {"-"}, of : {x}, to : Reach[x]]
      BY <1>4, <2>2 DEF CommandOK
    <2>3. CASE order \in [type : {"S"}, of : UNION {units[q] : q \in Powers}, to : {Base[l] : l \in Reach[x]}]
      <3>1. UNION {units[q] : q \in Powers} \subseteq Units /\ {Base[l] : l \in Reach[x]} \subseteq Locs
        BY <1>3, <1>4, TurnsAssumption
      <3> QED BY <2>3, <3>1 DEF CommandOK
    <2> QED BY <2>1, <2>2, <2>3 DEF Commands
  <1>6. OrdersOK'
    <2> DEFINE T == [type : {"H", "-", "S"}, of : Units, to : Locs]
    <2>1. /\ DOMAIN orders = Powers /\ orders = [q \in Powers |-> orders[q]]
          /\ \A q \in Powers : IsDict(orders[q], Units, T)
                               /\ \A y \in DOMAIN orders[q] : CommandOK(y, orders[q][y])
      BY DEF IInv, OrdersOK
    <2>2. /\ DOMAIN orders' = Powers /\ orders' = [q \in Powers |-> orders'[q]]
          /\ orders'[p] = Put(orders[p], x, order)
          /\ \A q \in Powers \ {p} : orders'[q] = orders[q]
      BY <1>1, <2>1
    <2>3. order \in T
      BY <1>5
    <2> HIDE DEF T
    <2>4. IsDict(Put(orders[p], x, order), Units, T)
      BY <1>4, <2>1, <2>3 DEF IsDict, Put
    <2>5. \A y \in DOMAIN Put(orders[p], x, order) : CommandOK(y, Put(orders[p], x, order)[y])
      BY <1>5, <2>1 DEF Put
    <2>6. \A q \in Powers : IsDict(orders'[q], Units, T)
                               /\ \A y \in DOMAIN orders'[q] : CommandOK(y, orders'[q][y])
      BY <2>1, <2>2, <2>4, <2>5
    <2> QED BY <1>2, <2>2, <2>6 DEF OrdersOK, T
  <1>7. BoardOK(Board)'
    BY <1>2, SameBoard DEF IInv
  <1>8. AdjustOK' /\ PhaseOK' /\ (phase.type = "M" => NobodyRetreats(retreats))'
    BY <1>2 DEF IInv, AdjustOK, PhaseOK, NobodyRetreats
  <1>9. RetreatsFree' /\ BuildsFree' /\ BuildsApart' /\ DisbandsOwn'
    BY <1>2 DEF RetreatsFree, BuildsFree, BuildsApart, DisbandsOwn
  <1> QED BY <1>6, <1>7, <1>8, <1>9 DEF IInv

\* A call is a sequence of orders.
LEMMA BoundedCall ==
    ASSUME NEW S, NEW call \in BoundedSeq(S, MaxCall)
    PROVE  call \in Seq(S)
  <1>1. PICK m \in 0..MaxCall : call \in [1..m -> S]
    BY DEF BoundedSeq, SeqOf
  <1>2. m \in Nat
    BY <1>1, TurnsAssumption
  <1> QED BY <1>1, <1>2, SeqDef

\* The first k of the new orders are old ones, for other locations, and the others were
\* chosen from a call; each counts once.
Merged(new, old, call, chosen, k, f, g) ==
    /\ \A n \in DOMAIN new :
         \/ n <= k /\ f[n] \in DOMAIN old /\ new[n] = old[f[n]]
         \/ k < n /\ g[n] \in chosen /\ new[n] = call[g[n]]
    /\ \A m, n \in DOMAIN new : m <= k /\ n <= k /\ f[m] = f[n] => m = n
    /\ \A m, n \in DOMAIN new : k < m /\ k < n /\ g[m] = g[n] => m = n
    /\ \A m, n \in DOMAIN new : m <= k /\ k < n => new[m].unit.loc # new[n].unit.loc

\* The orders after a later call.
LEMMA ReplacedIs ==
    ASSUME NEW old \in Seq(Orders), NEW call \in Seq(Orders), NEW chosen, chosen \subseteq DOMAIN call,
           NEW new, new = Replaced(old, Kept(call, chosen))
    PROVE  /\ new \in Seq(Orders)
           /\ \E k \in Nat : \E f, g : Merged(new, old, call, chosen, k, f, g)
  <1> DEFINE acc == Kept(call, chosen)
             stay == {i \in DOMAIN old : \A j \in DOMAIN acc : acc[j].unit.loc # old[i].unit.loc}
             kept == Kept(old, stay)
             k == Len(kept)
  <1>1. acc \in Seq(Orders)
    BY KeptIs
  <1>2. PICK e \in [DOMAIN acc -> chosen] :
            /\ \A n \in DOMAIN acc : acc[n] = call[e[n]]
            /\ \A m, n \in DOMAIN acc : e[m] = e[n] => m = n
    BY KeptIs
  <1>3. new = kept \o acc
    BY DEF Replaced
  <1> HIDE DEF acc
  <1>4. stay \subseteq DOMAIN old
    OBVIOUS
  <1>5. \A i \in stay : \A j \in DOMAIN acc : acc[j].unit.loc # old[i].unit.loc
    OBVIOUS
  <1> HIDE DEF stay
  <1>6. kept \in Seq(Orders)
    BY <1>4, KeptIs
  <1>7. PICK f \in [DOMAIN kept -> stay] :
            /\ \A n \in DOMAIN kept : kept[n] = old[f[n]]
            /\ \A m, n \in DOMAIN kept : f[m] = f[n] => m = n
    BY <1>4, KeptIs
  <1> HIDE DEF kept
  <1>8. /\ k \in Nat /\ Len(acc) \in Nat /\ DOMAIN kept = 1..k /\ DOMAIN acc = 1..Len(acc)
    BY <1>1, <1>6, LenProperties
  <1>9. /\ new \in Seq(Orders) /\ Len(new) = k + Len(acc)
        /\ \A n \in 1..(k + Len(acc)) : new[n] = IF n <= k THEN kept[n] ELSE acc[n - k]
    BY <1>1, <1>3, <1>6, ConcatProperties
  <1>10. DOMAIN new = 1..(k + Len(acc))
    BY <1>9, LenProperties
  <1> DEFINE g == [n \in DOMAIN new |-> e[n - k]]
  <1> HIDE DEF k
  <1>11. ASSUME NEW n \in DOMAIN new, n <= k
         PROVE  n \in DOMAIN kept /\ new[n] = kept[n] /\ f[n] \in stay /\ new[n] = old[f[n]]
    <2>1. n \in 1..k
      BY <1>8, <1>10, <1>11
    <2> QED BY <1>7, <1>8, <1>9, <1>10, <1>11, <2>1
  <1>12. ASSUME NEW n \in DOMAIN new, k < n
         PROVE  /\ n - k \in DOMAIN acc /\ new[n] = acc[n - k] /\ g[n] = e[n - k]
                /\ g[n] \in chosen /\ new[n] = call[g[n]]
    <2>1. n - k \in 1..Len(acc) /\ n \in 1..(k + Len(acc)) /\ ~(n <= k)
      BY <1>8, <1>10, <1>12
    <2>2. n - k \in DOMAIN acc /\ new[n] = acc[n - k]
      BY <1>8, <1>9, <2>1
    <2>3. g[n] = e[n - k]
      OBVIOUS
    <2> QED BY <1>2, <2>2, <2>3
  <1> HIDE DEF g
  <1>13. \A n \in DOMAIN new : \/ n <= k /\ f[n] \in DOMAIN old /\ new[n] = old[f[n]]
                               \/ k < n /\ g[n] \in chosen /\ new[n] = call[g[n]]
    <2>1. \A n \in DOMAIN new : n <= k \/ k < n
      BY <1>8, <1>10
    <2> QED BY <2>1, <1>4, <1>11, <1>12
  <1>14. \A m, n \in DOMAIN new : m <= k /\ n <= k /\ f[m] = f[n] => m = n
    BY <1>7, <1>11
  <1>15. \A m, n \in DOMAIN new : k < m /\ k < n /\ g[m] = g[n] => m = n
    <2> SUFFICES ASSUME NEW m \in DOMAIN new, NEW n \in DOMAIN new, k < m, k < n, g[m] = g[n]
                 PROVE  m = n
      OBVIOUS
    <2>1. m - k = n - k
      BY <1>2, <1>12
    <2> QED BY <1>8, <1>10, <2>1
  <1>16. \A m, n \in DOMAIN new : m <= k /\ k < n => new[m].unit.loc # new[n].unit.loc
    BY <1>5, <1>11, <1>12
  <1>17. Merged(new, old, call, chosen, k, f, g)
    BY <1>13, <1>14, <1>15, <1>16 DEF Merged
  <1> QED BY <1>8, <1>9, <1>17


\* A call of orders in a retreat or an adjustment phase.
LEMMA CallOK ==
    ASSUME IInv, NEW p \in Powers, NEW call \in Seq(Orders), NEW chosen, chosen \subseteq DOMAIN call,
           adjust' = [adjust EXCEPT ![p] =
                        IF call = <<>> THEN <<>> ELSE Replaced(adjust[p], Kept(call, chosen))],
           Len(adjust'[p]) <= MaxAdjust, phase.type \in {"R", "A"},
           UNCHANGED <<phase, board, orders, histories>>
    PROVE  /\ PhaseOK' /\ BoardOK(Board)' /\ OrdersOK' /\ AdjustOK'
           /\ (phase.type = "M" => NobodyRetreats(retreats))'
           /\ UNCHANGED <<units, retreats, centers>>
           /\ \A q \in Powers \ {p} : adjust'[q] = adjust[q]
           /\ adjust'[p] = <<>> \/ adjust'[p] = Replaced(adjust[p], Kept(call, chosen))
  <1>1. adjust \in [Powers -> Seq(Orders)]
    BY DEF IInv, AdjustOK
  <1>2. /\ \A q \in Powers \ {p} : adjust'[q] = adjust[q]
        /\ adjust'[p] = IF call = <<>> THEN <<>> ELSE Replaced(adjust[p], Kept(call, chosen))
        /\ DOMAIN adjust' = Powers /\ adjust' = [q \in Powers |-> adjust'[q]]
    BY <1>1
  <1>3. adjust'[p] \in Seq(Orders)
    <2>1. Replaced(adjust[p], Kept(call, chosen)) \in Seq(Orders)
      BY <1>1, ReplacedIs
    <2>2. <<>> \in Seq(Orders)
      BY EmptySeq
    <2> QED BY <1>2, <2>1, <2>2
  <1>4. adjust' \in [Powers -> Seq(Orders)]
    <2>1. \A q \in Powers : adjust'[q] \in Seq(Orders)
      BY <1>1, <1>2, <1>3
    <2> QED BY <1>2, <2>1
  <1>5. \A q \in Powers : Len(adjust'[q]) <= MaxAdjust
    BY <1>2 DEF IInv, AdjustOK
  <1>6. AdjustOK'
    BY <1>4, <1>5 DEF AdjustOK
  <1>7. UNCHANGED <<units, retreats, centers>>
    BY DEF board
  <1>8. BoardOK(Board)'
    BY SameBoard DEF IInv
  <1>9. /\ PhaseOK' /\ OrdersOK'
        /\ (phase.type = "M" => NobodyRetreats(retreats))'
    BY <1>7 DEF IInv, PhaseOK, OrdersOK, NobodyRetreats
  <1> QED BY <1>2, <1>6, <1>7, <1>8, <1>9

\* Who retreats has a free place to go to.
LEMMA SetRetreatOrdersOK ==
    ASSUME IInv, NEW p \in Powers, SetRetreatOrders(p)
    PROVE  IInv'
  <1>1. PICK call \in BoundedSeq(RetreatRequests(p), MaxCall) :
            adjust' = [adjust EXCEPT ![p] =
                IF call = <<>> THEN <<>>
                ELSE Replaced(adjust[p], Kept(call, {i \in DOMAIN call : RetreatAccepted(p, call, i)}))]
    BY Zenon DEF SetRetreatOrders
  <1>2. /\ phase.type = "R" /\ UNCHANGED <<phase, board, orders, histories>>
        /\ Len(adjust'[p]) <= MaxAdjust
    BY DEF SetRetreatOrders
  <1> DEFINE chosen == {i \in DOMAIN call : RetreatAccepted(p, call, i)}
             new == Replaced(adjust[p], Kept(call, chosen))
  <1>3. IsDict(retreats[p], Units, SUBSET Locs) /\ \A x \in DOMAIN retreats[p] : retreats[p][x] \subseteq Reach[x]
    BY DEF IInv, BoardOK, Board, RetreatsOK
  <1>4. call \in Seq(RetreatRequests(p)) /\ call \in Seq(Orders)
    <2>1. RetreatRequests(p) \subseteq Orders
      BY <1>3 DEF RetreatRequests, Orders, IsDict
    <2>2. call \in Seq(RetreatRequests(p))
      BY BoundedCall
    <2>3. call \in [1..Len(call) -> RetreatRequests(p)] /\ Len(call) \in Nat
      BY <2>2, LenProperties
    <2>4. call \in [1..Len(call) -> Orders]
      BY <2>1, <2>3
    <2> QED BY <2>2, <2>3, <2>4, SeqDef
  <1>5. ASSUME NEW i \in chosen
        PROVE  call[i].to # "D" => /\ call[i].to \in Locs
                                   /\ [call[i].unit EXCEPT !.loc = call[i].to] \in Units
                                   /\ Base[call[i].to] \notin Occupied(units)
    <2>1. call[i] \in RetreatRequests(p)
      BY <1>4, LenProperties, ElementOfSeq
    <2>2. call[i].unit \in DOMAIN retreats[p] /\ call[i].unit \in Units
      BY <1>3, <2>1 DEF RetreatRequests, IsDict
    <2>3. call[i].to # "D" => /\ call[i].to \in retreats[p][call[i].unit]
                              /\ Base[call[i].to] \notin Occupied(units)
      BY DEF RetreatAccepted, RetreatValid
    <2> QED BY <1>3, <2>2, <2>3, TurnsAssumption
  <1>6. chosen \subseteq DOMAIN call
    OBVIOUS
  <1>7. adjust' = [adjust EXCEPT ![p] = IF call = <<>> THEN <<>> ELSE new]
    BY <1>1
  <1> HIDE DEF chosen
  <1>8. /\ PhaseOK' /\ BoardOK(Board)' /\ OrdersOK' /\ AdjustOK'
        /\ (phase.type = "M" => NobodyRetreats(retreats))'
        /\ UNCHANGED <<units, retreats, centers>>
        /\ \A q \in Powers \ {p} : adjust'[q] = adjust[q]
        /\ adjust'[p] = <<>> \/ adjust'[p] = new
    BY <1>2, <1>4, <1>6, <1>7, CallOK
  <1>9. \A n \in DOMAIN new : (\E m \in DOMAIN adjust[p] : new[n] = adjust[p][m])
                              \/ (\E i \in chosen : new[n] = call[i])
    <2>1. adjust[p] \in Seq(Orders)
      BY DEF IInv, AdjustOK
    <2>2. new = Replaced(adjust[p], Kept(call, chosen))
      OBVIOUS
    <2> HIDE DEF new
    <2>3. PICK k \in Nat : \E f, g : Merged(new, adjust[p], call, chosen, k, f, g)
      BY <1>4, <1>6, <2>1, <2>2, ReplacedIs
    <2>4. PICK f, g : Merged(new, adjust[p], call, chosen, k, f, g)
      BY <2>3
    <2> QED BY <2>4 DEF Merged
  <1> DEFINE Fine(o) == o.to # "D" => /\ o.to \in Locs /\ [o.unit EXCEPT !.loc = o.to] \in Units
                                      /\ Base[o.to] \notin Occupied(units)
  <1>10. \A q \in Powers : \A m \in DOMAIN adjust[q] : Fine(adjust[q][m])
    BY <1>2, Zenon DEF IInv, RetreatsFree
  <1>11. \A i \in chosen : Fine(call[i])
    BY <1>5
  <1> HIDE DEF Fine, new
  <1>12. ASSUME NEW q \in Powers, NEW n \in DOMAIN adjust'[q]
         PROVE  Fine(adjust'[q][n])
    <2>1. CASE q # p
      BY <1>8, <1>10, <2>1
    <2>2. CASE q = p /\ adjust'[p] = new
      BY <1>9, <1>10, <1>11, <2>2
    <2>3. CASE q = p /\ adjust'[p] = <<>>
      BY <2>3
    <2> QED BY <1>8, <2>1, <2>2, <2>3
  <1>13. RetreatsFree'
    <2>1. \A q \in Powers : \A n \in DOMAIN adjust'[q] :
              adjust'[q][n].to # "D" =>
                  /\ adjust'[q][n].to \in Locs
                  /\ [adjust'[q][n].unit EXCEPT !.loc = adjust'[q][n].to] \in Units
                  /\ Base[adjust'[q][n].to] \notin Occupied(units)
      BY <1>12, Zenon DEF Fine
    <2>2. Occupied(units') = Occupied(units)
      BY <1>8
    <2> QED BY <2>1, <2>2, Zenon DEF RetreatsFree
  <1>14. BuildsFree' /\ BuildsApart' /\ DisbandsOwn'
    BY <1>2 DEF BuildsFree, BuildsApart, DisbandsOwn
  <1> QED BY <1>8, <1>13, <1>14 DEF IInv

\* A home that a power may build in is its own, and it builds there once: the orders of
\* earlier calls for the same home are for the same location, and are replaced.
LEMMA SetAdjustOrdersOK ==
    ASSUME IInv, CoastsClear', NEW p \in Powers, SetAdjustOrders(p)
    PROVE  IInv'
  <1>1. PICK call \in BoundedSeq(AdjustRequests, MaxCall) :
            adjust' = [adjust EXCEPT ![p] =
                IF call = <<>> THEN <<>>
                ELSE Replaced(adjust[p], Kept(call, {i \in DOMAIN call : AdjustAccepted(p, call, i)}))]
    BY Zenon DEF SetAdjustOrders
  <1>2. /\ phase.type = "A" /\ UNCHANGED <<phase, board, orders, histories>>
        /\ Len(adjust'[p]) <= MaxAdjust
    BY DEF SetAdjustOrders
  <1> DEFINE chosen == {i \in DOMAIN call : AdjustAccepted(p, call, i)}
             new == Replaced(adjust[p], Kept(call, chosen))
  <1>3. UnitsOK(units) /\ CentersOK(centers)
    BY DEF IInv, BoardOK, Board
  <1>4. call \in Seq(AdjustRequests) /\ call \in Seq(Orders)
    <2>1. AdjustRequests \subseteq Orders
      BY DEF AdjustRequests, Orders
    <2>2. call \in Seq(AdjustRequests)
      BY BoundedCall
    <2>3. call \in [1..Len(call) -> AdjustRequests] /\ Len(call) \in Nat
      BY <2>2, LenProperties
    <2>4. call \in [1..Len(call) -> Orders]
      BY <2>1, <2>3
    <2> QED BY <2>2, <2>3, <2>4, SeqDef
  <1>5. \A i \in DOMAIN call : call[i] \in AdjustRequests /\ i \in Nat
    BY <1>4, LenProperties, ElementOfSeq
  <1>6. ASSUME NEW i \in chosen
        PROVE  /\ call[i].to \in {"B", "D"} /\ call[i].unit \in Units
               /\ call[i].to = "B" =>
                    /\ At(call[i].unit) \in Sites(p) /\ At(call[i].unit) \notin Occupied(units)
                    /\ At(call[i].unit) \in centers[p]
               /\ call[i].to = "D" => call[i].unit \in units[p]
    <2>1. call[i] \in AdjustRequests
      BY <1>5
    <2>2. /\ call[i].to = "B" => At(call[i].unit) \in BuildSites(p, units, centers)
          /\ call[i].to = "D" => call[i].unit \in units[p]
      BY DEF AdjustAccepted
    <2>3. \A h \in BuildSites(p, units, centers) :
              h \in Sites(p) /\ h \notin Occupied(units) /\ h \in centers[p]
      <3>1. centers[p] \subseteq Centers
        BY <1>3 DEF CentersOK
      <3> QED BY <3>1 DEF BuildSites, Sites
    <2> QED BY <2>1, <2>2, <2>3 DEF AdjustRequests
  <1>7. ASSUME NEW i \in chosen, NEW j \in chosen, call[i].to = "B", call[j].to = "B", i < j
        PROVE  At(call[i].unit) # At(call[j].unit)
    <2>1. i \in 1..(j - 1)
      BY <1>4, <1>7, LenProperties
    <2>2. AdjustAccepted(p, call, j)
      OBVIOUS
    <2> QED BY <1>7, <2>1, <2>2 DEF AdjustAccepted
  <1>8. chosen \subseteq DOMAIN call
    OBVIOUS
  <1>9. adjust' = [adjust EXCEPT ![p] = IF call = <<>> THEN <<>> ELSE new]
    BY <1>1
  <1> HIDE DEF chosen
  <1>10. /\ PhaseOK' /\ BoardOK(Board)' /\ OrdersOK' /\ AdjustOK'
         /\ (phase.type = "M" => NobodyRetreats(retreats))'
         /\ UNCHANGED <<units, retreats, centers>>
         /\ \A q \in Powers \ {p} : adjust'[q] = adjust[q]
         /\ adjust'[p] = <<>> \/ adjust'[p] = new
    BY <1>2, <1>4, <1>8, <1>9, CallOK
  <1>0. PICK k \in Nat : \E f, g : Merged(new, adjust[p], call, chosen, k, f, g)
    <2>1. adjust[p] \in Seq(Orders)
      BY DEF IInv, AdjustOK
    <2>2. new = Replaced(adjust[p], Kept(call, chosen))
      OBVIOUS
    <2> HIDE DEF new
    <2> QED BY <1>4, <1>8, <2>1, <2>2, ReplacedIs
  <1>11. PICK f, g : Merged(new, adjust[p], call, chosen, k, f, g)
    BY <1>0
  <1>12. \A q \in Powers : adjust[q] \in Seq(Orders) /\ adjust'[q] \in Seq(Orders)
    BY <1>10 DEF IInv, AdjustOK
  <1>13. \A q \in Powers : \A n \in DOMAIN adjust'[q] : adjust'[q][n] \in Orders
    BY <1>12, LenProperties, ElementOfSeq
  <1> DEFINE Fine(q, o) ==
                /\ o.to \in {"B", "D"}
                /\ o.to = "B" => /\ At(o.unit) \in Sites(q) /\ At(o.unit) \notin Occupied(units)
                                 /\ \A r \in Powers \ {q} : At(o.unit) \notin centers[r]
  <1>14. \A q \in Powers : \A m \in DOMAIN adjust[q] : Fine(q, adjust[q][m])
    BY <1>2, Zenon DEF IInv, BuildsFree
  <1>15. \A i \in chosen : Fine(p, call[i])
    <2>1. \A r \in Powers \ {p} : centers[p] \cap centers[r] = {}
      BY <1>3 DEF CentersOK
    <2> QED BY <1>6, <2>1
  <1> HIDE DEF Fine, new
  <1>16. ASSUME NEW q \in Powers, NEW n \in DOMAIN adjust'[q]
         PROVE  Fine(q, adjust'[q][n])
    <2>1. CASE q # p
      BY <1>10, <1>14, <2>1
    <2>2. CASE q = p /\ adjust'[p] = new
      BY <1>11, <1>14, <1>15, <2>2 DEF Merged
    <2>3. CASE q = p /\ adjust'[p] = <<>>
      BY <2>3
    <2> QED BY <1>10, <2>1, <2>2, <2>3
  <1>17. BuildsFree'
    <2>1. Occupied(units') = Occupied(units) /\ centers' = centers
      BY <1>10
    <2>2. \A q \in Powers : \A n \in DOMAIN adjust'[q] :
            /\ adjust'[q][n].to \in {"B", "D"}
            /\ adjust'[q][n].to = "B" =>
                  /\ At(adjust'[q][n].unit) \in Sites(q)
                  /\ At(adjust'[q][n].unit) \notin Occupied(units)
                  /\ \A r \in Powers \ {q} : At(adjust'[q][n].unit) \notin centers[r]
      BY <1>16, Zenon DEF Fine
    <2> QED BY <2>1, <2>2, Zenon DEF BuildsFree
  <1>18. \A q, r \in Powers : \A i \in DOMAIN adjust[q], j \in DOMAIN adjust[r] :
            (/\ adjust[q][i].to = "B" /\ adjust[r][j].to = "B"
             /\ At(adjust[q][i].unit) = At(adjust[r][j].unit)) => q = r /\ i = j
    BY <1>2, Zenon DEF IInv, BuildsApart
  \* An order of another power is for another place: its own, or not a centre of p.
  <1>19. ASSUME NEW q \in Powers \ {p}, NEW i \in DOMAIN adjust'[q], NEW n \in DOMAIN adjust'[p],
                adjust'[q][i].to = "B", adjust'[p][n].to = "B"
         PROVE  At(adjust'[q][i].unit) # At(adjust'[p][n].unit)
    <2>1. adjust'[q] = adjust[q] /\ adjust'[p] = new
      <3>1. adjust'[p] # <<>>
        OBVIOUS
      <3> QED BY <1>10, <3>1
    <2>2. CASE \E m \in DOMAIN adjust[p] : new[n] = adjust[p][m]
      BY <1>18, <1>19, <2>1, <2>2
    <2>3. CASE \E j \in chosen : new[n] = call[j]
      <3>1. At(new[n].unit) \in centers[p]
        BY <1>6, <1>19, <2>1, <2>3
      <3>2. At(adjust[q][i].unit) \notin centers[p]
        BY <1>14, <1>19, <2>1 DEF Fine
      <3> QED BY <2>1, <3>1, <3>2
    <2> QED BY <1>11, <2>1, <2>2, <2>3 DEF Merged
  <1>20. ASSUME NEW m \in DOMAIN new, NEW n \in DOMAIN new, adjust'[p] = new,
                new[m].to = "B", new[n].to = "B", At(new[m].unit) = At(new[n].unit)
         PROVE  m = n
    <2>1. k \in Nat /\ m \in Nat /\ n \in Nat
      BY <1>12, <1>20, LenProperties
    <2>2. CASE m <= k /\ n <= k
      <3>1. /\ f[m] \in DOMAIN adjust[p] /\ new[m] = adjust[p][f[m]]
            /\ f[n] \in DOMAIN adjust[p] /\ new[n] = adjust[p][f[n]]
        BY <1>11, <2>1, <2>2 DEF Merged
      <3>2. f[m] = f[n]
        BY <1>18, <1>20, <3>1
      <3> QED BY <1>11, <2>2, <3>2 DEF Merged
    <2>3. CASE k < m /\ k < n
      <3>1. /\ g[m] \in chosen /\ new[m] = call[g[m]]
            /\ g[n] \in chosen /\ new[n] = call[g[n]]
        BY <1>11, <2>1, <2>3 DEF Merged
      <3>2. g[m] \in Nat /\ g[n] \in Nat
        BY <1>5, <1>8, <3>1
      <3>3. ~(g[m] < g[n]) /\ ~(g[n] < g[m])
        BY <1>7, <1>20, <3>1
      <3>4. g[m] = g[n]
        BY <3>2, <3>3
      <3> QED BY <1>11, <2>3, <3>4 DEF Merged
    <2>4. new[m].unit.loc = new[n].unit.loc
      <3>1. new[m] \in Orders /\ new[n] \in Orders
        BY <1>13, <1>20
      <3>2. new[m].unit \in Units /\ new[n].unit \in Units
        BY <3>1 DEF Orders
      <3>3. new[m].unit.loc \in Locs /\ new[n].unit.loc \in Locs
        BY <3>2, UnitTypes
      <3>4. At(new[m].unit) \in Sites(p)
        BY <1>16, <1>20 DEF Fine
      <3>5. CASE OneCoast
        BY <1>20, <3>3, <3>4, <3>5 DEF OneCoast, At
      <3>6. CASE OneCoastEach'
        BY <1>20, <3>6 DEF OneCoastEach
      <3> QED BY <3>5, <3>6 DEF CoastsClear
    <2>5. ~(m <= k /\ k < n) /\ ~(n <= k /\ k < m)
      BY <1>11, <2>4 DEF Merged
    <2> QED BY <2>1, <2>2, <2>3, <2>5
  <1>21. BuildsApart'
    <2>1. ASSUME NEW q \in Powers, NEW r \in Powers,
                 NEW i \in DOMAIN adjust'[q], NEW j \in DOMAIN adjust'[r],
                 adjust'[q][i].to = "B", adjust'[r][j].to = "B",
                 At(adjust'[q][i].unit) = At(adjust'[r][j].unit)
          PROVE  q = r /\ i = j
      <3>1. CASE q # p /\ r # p
        <4>1. adjust'[q] = adjust[q] /\ adjust'[r] = adjust[r]
          BY <1>10, <3>1
        <4> QED BY <1>18, <2>1, <4>1
      <3>2. CASE q # p /\ r = p
        BY <1>19, <2>1, <3>2
      <3>3. CASE q = p /\ r # p
        BY <1>19, <2>1, <3>3
      <3>4. CASE q = p /\ r = p
        <4>1. adjust'[p] = new
          <5>1. adjust'[p] # <<>>
            BY <3>4
          <5> QED BY <1>10, <5>1
        <4> QED BY <1>20, <2>1, <3>4, <4>1
      <3> QED BY <3>1, <3>2, <3>3, <3>4
    <2> QED BY <2>1, Zenon DEF BuildsApart
  <1>22. RetreatsFree'
    BY <1>2 DEF RetreatsFree
  <1>23. DisbandsOwn'
    <2>1. \A i \in chosen : call[i].to = "D" => call[i].unit \in units[p]
      BY <1>6
    <2>2. \A q \in Powers :
              \/ units[q] = {}
              \/ \A i \in DOMAIN adjust[q] : adjust[q][i].to = "D" => adjust[q][i].unit \in units[q]
      BY <1>2, Zenon DEF IInv, DisbandsOwn
    <2>3. ASSUME NEW q \in Powers, units[q] # {}, NEW i \in DOMAIN adjust'[q], adjust'[q][i].to = "D"
          PROVE  adjust'[q][i].unit \in units[q]
      <3>1. CASE q # p
        BY <1>10, <2>2, <2>3, <3>1
      <3>2. CASE q = p /\ adjust'[p] = new
        BY <1>11, <2>1, <2>2, <2>3, <3>2 DEF Merged
      <3>3. CASE q = p /\ adjust'[p] = <<>>
        BY <2>3, <3>3
      <3> QED BY <1>10, <3>1, <3>2, <3>3
    <2>4. units' = units
      BY <1>10
    <2> QED BY <2>3, <2>4, Zenon DEF DisbandsOwn
  <1> QED BY <1>10, <1>17, <1>21, <1>22, <1>23 DEF IInv

\* Clearing orders keeps the invariant.
LEMMA ClearOrdersOK ==
    ASSUME IInv, NEW p \in Powers, ClearOrders(p)
    PROVE  IInv'
  <1>1. /\ orders' = [orders EXCEPT ![p] = Empty] /\ adjust' = [adjust EXCEPT ![p] = <<>>]
        /\ UNCHANGED <<phase, board, histories>> /\ UNCHANGED <<units, retreats, centers>>
    BY DEF ClearOrders, board
  <1>2. /\ DOMAIN orders = Powers /\ orders = [q \in Powers |-> orders[q]]
        /\ adjust \in [Powers -> Seq(Orders)]
    BY DEF IInv, OrdersOK, AdjustOK
  <1>3. \A q \in Powers : orders'[q] = orders[q] \/ orders'[q] = Empty
    BY <1>1, <1>2
  <1>4. OrdersOK'
    <2>1. IsDict(Empty, Units, [type : {"H", "-", "S"}, of : Units, to : Locs]) /\ DOMAIN Empty = {}
      BY DEF IsDict, Empty
    <2>2. /\ DOMAIN orders' = Powers /\ orders' = [q \in Powers |-> orders'[q]]
          /\ phase' = phase
      BY <1>1, <1>2
    <2>3. /\ \A q \in Powers :
              /\ IsDict(orders[q], Units, [type : {"H", "-", "S"}, of : Units, to : Locs])
              /\ \A x \in DOMAIN orders[q] : CommandOK(x, orders[q][x])
          /\ phase.type # "M" => \A q \in Powers : orders[q] = Empty
      BY DEF IInv, OrdersOK
    <2>4. ASSUME NEW q \in Powers
          PROVE  /\ IsDict(orders'[q], Units, [type : {"H", "-", "S"}, of : Units, to : Locs])
                 /\ \A x \in DOMAIN orders'[q] : CommandOK(x, orders'[q][x])
                 /\ phase'.type # "M" => orders'[q] = Empty
      <3>1. CASE orders'[q] = orders[q]
        BY <2>2, <2>3, <3>1
      <3>2. CASE orders'[q] = Empty
        BY <2>1, <3>2
      <3> QED BY <1>3, <3>1, <3>2
    <2> QED BY <2>2, <2>4, Zenon DEF OrdersOK
  <1>5. /\ adjust' \in [Powers -> Seq(Orders)]
        /\ \A q \in Powers : adjust'[q] = adjust[q] \/ (adjust'[q] = <<>> /\ Len(adjust'[q]) = 0)
    <2>1. <<>> \in Seq(Orders) /\ Len(<<>>) = 0
      BY EmptySeq
    <2> QED BY <1>1, <1>2, <2>1
  <1>6. AdjustOK'
    <2>1. 0 <= MaxAdjust
      BY TurnsAssumption
    <2>2. \A q \in Powers : Len(adjust'[q]) <= MaxAdjust
      BY <1>5, <2>1 DEF IInv, AdjustOK
    <2> QED BY <1>1, <1>5, <2>2 DEF IInv, AdjustOK
  <1>7. \A q \in Powers : \A i \in DOMAIN adjust'[q] : i \in DOMAIN adjust[q] /\ adjust'[q] = adjust[q]
    <2>1. DOMAIN <<>> = {}
      OBVIOUS
    <2> QED BY <1>5, <2>1
  <1>8. RetreatsFree' /\ BuildsFree' /\ BuildsApart' /\ DisbandsOwn'
    <2>1. RetreatsFree'
      BY <1>1, <1>7 DEF IInv, RetreatsFree, Occupied
    <2>2. BuildsFree'
      BY <1>1, <1>7 DEF IInv, BuildsFree, Occupied
    <2>3. BuildsApart'
      BY <1>1, <1>7 DEF IInv, BuildsApart
    <2>4. DisbandsOwn'
      BY <1>1, <1>7 DEF IInv, DisbandsOwn
    <2> QED BY <2>1, <2>2, <2>3, <2>4
  <1>9. BoardOK(Board)'
    BY <1>1, SameBoard DEF IInv
  <1>10. PhaseOK' /\ (phase.type = "M" => NobodyRetreats(retreats))'
    BY <1>1 DEF IInv, PhaseOK, NobodyRetreats
  <1> QED BY <1>4, <1>6, <1>8, <1>9, <1>10 DEF IInv

\* The tokens of one power.
Only(p, S) == [q \in Powers |-> IF q = p THEN S ELSE {}]

\* The tokens of what one power has.
LEMMA OnlyTokens ==
    ASSUME NEW kind, NEW p \in Powers, NEW S
    PROVE  AllTokens(kind, Only(p, S)) = Tokens(kind, p, S)
  BY DEF AllTokens, Tokens, Only

\* Clearing the units of a power keeps the invariant: its hash drops them and their retreats.
LEMMA ClearUnitsOK ==
    ASSUME IInv, NEW p \in Powers, ClearUnits(p)
    PROVE  IInv'
  <1>1. /\ units' = [units EXCEPT ![p] = {}] /\ retreats' = [retreats EXCEPT ![p] = Empty]
        /\ hash' = Toggle(hash, Tokens("unit", p, units[p])
                                    \cup Tokens("dislodged", p, DOMAIN retreats[p]))
        /\ UNCHANGED <<phase, centers, given, histories>>
    BY DEF ClearUnits
  <1>2. /\ UnitsOK(units) /\ RetreatsOK(retreats) /\ CentersOK(centers)
        /\ hash = Hash(units, Dislodged(retreats), centers)
    BY HashOfParts DEF IInv, BoardOK, Board
  <1>3. /\ DOMAIN units = Powers /\ DOMAIN retreats = Powers
        /\ \A q \in Powers : units'[q] = IF q = p THEN {} ELSE units[q]
        /\ \A q \in Powers : retreats'[q] = IF q = p THEN Empty ELSE retreats[q]
    BY <1>1, <1>2 DEF UnitsOK, RetreatsOK
  <1>4. UnitsOK(units')
    <2>1. units' \in [Powers -> SUBSET Units]
      BY <1>1, <1>2 DEF UnitsOK
    <2>2. \A q \in Powers : units'[q] \subseteq units[q]
      BY <1>3
    <2> QED BY <1>2, <2>1, <2>2 DEF UnitsOK
  <1>5. RetreatsOK(retreats')
    <2>1. DOMAIN retreats' = Powers
      BY <1>1, <1>3
    <2>2. IsDict(Empty, Units, SUBSET Locs) /\ DOMAIN Empty = {}
      BY DEF IsDict, Empty
    <2> QED BY <1>2, <1>3, <2>1, <2>2 DEF RetreatsOK
  <1>6. hash' = HashOf(units', retreats', centers')
    <2>1. Tokens("unit", p, units[p]) \cup Tokens("dislodged", p, DOMAIN retreats[p])
            = Hash(Only(p, units[p]), Only(p, DOMAIN retreats[p]), Nothing)
      BY OnlyTokens, NoTokens DEF Hash
    <2>2. ASSUME NEW q \in Powers
          PROVE  /\ units'[q] = Toggle(units[q], Only(p, units[p])[q])
                 /\ Dislodged(retreats')[q] = Toggle(Dislodged(retreats)[q], Only(p, DOMAIN retreats[p])[q])
                 /\ centers[q] = Toggle(centers[q], Nothing[q])
      <3>1. DOMAIN Empty = {}
        BY DEF Empty
      <3>2. Dislodged(retreats)[q] = DOMAIN retreats[q] /\ Dislodged(retreats')[q] = DOMAIN retreats'[q]
        BY DEF Dislodged
      <3>3. CASE q = p
        BY <1>3, <3>1, <3>2, <3>3 DEF Toggle, Only, Nothing
      <3>4. CASE q # p
        BY <1>3, <3>2, <3>4 DEF Toggle, Only, Nothing
      <3> QED BY <3>3, <3>4
    <2>3. Toggle(Hash(units, Dislodged(retreats), centers),
                 Hash(Only(p, units[p]), Only(p, DOMAIN retreats[p]), Nothing))
            = Hash(units', Dislodged(retreats'), centers)
      BY <2>2, HashToggle
    <2>4. centers' = centers
      BY <1>1
    <2> QED BY <1>1, <1>2, <2>1, <2>3, <2>4, HashOfParts
  <1>7. BoardOK(Board)'
    <2>1. /\ Board'.units = units' /\ Board'.retreats = retreats'
          /\ Board'.centers = centers' /\ Board'.hash = hash'
      BY DEF Board
    <2>2. CentersOK(centers')
      BY <1>1, <1>2
    <2> QED BY <1>4, <1>5, <1>6, <2>1, <2>2 DEF BoardOK
  <1>8. phase' = phase /\ orders' = orders /\ adjust' = adjust /\ centers' = centers
        /\ UNCHANGED histories
    BY <1>1 DEF given
  <1>9. \A q : q \in Occupied(units') => q \in Occupied(units)
    BY <1>3 DEF Occupied
  <1>10. RetreatsFree' /\ BuildsFree' /\ BuildsApart' /\ DisbandsOwn'
    <2>1. RetreatsFree'
      BY <1>8, <1>9 DEF IInv, RetreatsFree
    <2>2. BuildsFree'
      BY <1>8, <1>9 DEF IInv, BuildsFree
    <2>3. BuildsApart'
      BY <1>8 DEF IInv, BuildsApart
    <2>4. DisbandsOwn'
      BY <1>3, <1>8 DEF IInv, DisbandsOwn
    <2> QED BY <2>1, <2>2, <2>3, <2>4
  <1>11. PhaseOK' /\ OrdersOK' /\ AdjustOK'
    BY <1>8 DEF IInv, PhaseOK, OrdersOK, AdjustOK
  <1>12. (phase.type = "M" => NobodyRetreats(retreats))'
    BY <1>3, <1>8 DEF IInv, NobodyRetreats
  <1> QED BY <1>7, <1>10, <1>11, <1>12 DEF IInv

\* Clearing the centres of a power keeps the invariant.
LEMMA ClearCentersOK ==
    ASSUME IInv, NEW p \in Powers, ClearCenters(p)
    PROVE  IInv'
  <1>1. /\ centers' = [centers EXCEPT ![p] = {}]
        /\ hash' = Toggle(hash, Tokens("center", p, centers[p]))
        /\ UNCHANGED <<phase, units, retreats, given, histories>>
    BY DEF ClearCenters
  <1>2. /\ UnitsOK(units) /\ RetreatsOK(retreats) /\ CentersOK(centers)
        /\ hash = Hash(units, Dislodged(retreats), centers)
    BY HashOfParts DEF IInv, BoardOK, Board
  <1>3. /\ phase' = phase /\ units' = units /\ retreats' = retreats /\ orders' = orders
        /\ adjust' = adjust /\ UNCHANGED histories
    BY <1>1 DEF given
  <1>4. /\ centers' \in [Powers -> SUBSET Centers]
        /\ \A q \in Powers : centers'[q] = IF q = p THEN {} ELSE centers[q]
    BY <1>1, <1>2 DEF CentersOK
  <1>5. CentersOK(centers')
    <2>1. \A q \in Powers : centers'[q] \subseteq centers[q]
      BY <1>4
    <2> QED BY <1>2, <1>4, <2>1 DEF CentersOK
  <1>6. hash' = HashOf(units', retreats', centers')
    <2>1. Tokens("center", p, centers[p]) = Hash(Nothing, Nothing, Only(p, centers[p]))
      BY OnlyTokens, NoTokens DEF Hash
    <2>2. ASSUME NEW q \in Powers
          PROVE  /\ units[q] = Toggle(units[q], Nothing[q])
                 /\ Dislodged(retreats)[q] = Toggle(Dislodged(retreats)[q], Nothing[q])
                 /\ centers'[q] = Toggle(centers[q], Only(p, centers[p])[q])
      BY <1>4 DEF Toggle, Only, Nothing
    <2>3. Toggle(Hash(units, Dislodged(retreats), centers), Hash(Nothing, Nothing, Only(p, centers[p])))
            = Hash(units, Dislodged(retreats), centers')
      BY <2>2, HashToggle
    <2> QED BY <1>1, <1>2, <1>3, <2>1, <2>3, HashOfParts
  <1>7. BoardOK(Board)'
    <2>1. /\ Board'.units = units' /\ Board'.retreats = retreats'
          /\ Board'.centers = centers' /\ Board'.hash = hash'
      BY DEF Board
    <2>2. UnitsOK(units') /\ RetreatsOK(retreats')
      BY <1>2, <1>3
    <2> QED BY <1>5, <1>6, <2>1, <2>2 DEF BoardOK
  <1>8. RetreatsFree' /\ BuildsFree' /\ BuildsApart' /\ DisbandsOwn'
    <2>1. \A q \in Powers : centers'[q] \subseteq centers[q]
      BY <1>4
    <2>2. RetreatsFree'
      BY <1>3 DEF IInv, RetreatsFree
    <2>3. BuildsFree'
      BY <1>3, <2>1 DEF IInv, BuildsFree
    <2>4. BuildsApart'
      BY <1>3 DEF IInv, BuildsApart
    <2>5. DisbandsOwn'
      BY <1>3 DEF IInv, DisbandsOwn
    <2> QED BY <2>2, <2>3, <2>4, <2>5
  <1>9. PhaseOK' /\ OrdersOK' /\ AdjustOK' /\ (phase.type = "M" => NobodyRetreats(retreats))'
    BY <1>3 DEF IInv, PhaseOK, OrdersOK, AdjustOK, NobodyRetreats
  <1> QED BY <1>7, <1>8, <1>9 DEF IInv

----------------------------------------------------------------------------
(* The theorems.                                                            *)

\* So does a step that changes nothing.
LEMMA UnchangedOK ==
    ASSUME IInv, UNCHANGED vars
    PROVE  IInv'
  <1>1. /\ phase' = phase /\ units' = units /\ retreats' = retreats /\ centers' = centers
        /\ hash' = hash /\ orders' = orders /\ adjust' = adjust /\ UNCHANGED histories
        /\ UNCHANGED board
    BY DEF vars, board, given
  <1>2. BoardOK(Board)'
    BY <1>1, SameBoard DEF IInv
  <1>3. PhaseOK' /\ OrdersOK' /\ AdjustOK' /\ (phase.type = "M" => NobodyRetreats(retreats))'
    BY <1>1 DEF IInv, PhaseOK, OrdersOK, AdjustOK, NobodyRetreats
  <1>4. RetreatsFree' /\ BuildsFree' /\ BuildsApart' /\ DisbandsOwn'
    BY <1>1 DEF IInv, RetreatsFree, BuildsFree, BuildsApart, DisbandsOwn
  <1> QED BY <1>2, <1>3, <1>4 DEF IInv

\* Every step keeps the invariant, as long as no power builds twice in one place.
LEMMA NextOK ==
    ASSUME IInv, [Next]_vars, CoastsClear'
    PROVE  IInv'
  <1>1. CASE Process
    BY <1>1, ProcessOK
  <1>2. CASE Draw
    BY <1>2, DrawOK
  <1>3. ASSUME NEW p \in Powers, Submit(p)
        PROVE  IInv'
    BY <1>3, SetOrdersOK, SetRetreatOrdersOK, SetAdjustOrdersOK, ClearOrdersOK DEF Submit
  <1>4. ASSUME NEW p \in Powers, ClearUnits(p)
        PROVE  IInv'
    BY <1>4, ClearUnitsOK
  <1>5. ASSUME NEW p \in Powers, ClearCenters(p)
        PROVE  IInv'
    BY <1>5, ClearCentersOK
  <1>6. ASSUME NEW s \in Reloads, SetState(s)
        PROVE  IInv'
    BY <1>6, SetStateOK
  <1>7. CASE UNCHANGED vars
    BY <1>7, UnchangedOK
  <1> QED BY <1>1, <1>2, <1>3, <1>4, <1>5, <1>6, <1>7 DEF Next

\* The invariant holds throughout.
LEMMA Invariance == Spec /\ []CoastsClear => []IInv
  <1>1. IInv /\ [Next]_vars /\ CoastsClear' => IInv'
    BY NextOK
  <1> QED BY <1>1, InitOK, PTL DEF Spec

\* The state of a game keeps its form, and orders of each kind are kept in their phases only.
THEOREM TypeCorrect == Spec /\ []CoastsClear => []TypeOK
  <1>1. IInv => TypeOK
    <2> SUFFICES ASSUME IInv PROVE TypeOK
      OBVIOUS
    <2>1. InGame(phase) => phase \in [season : {"SPRING", "FALL", "WINTER"}, year : Nat, type : Types]
      <3> SUFFICES ASSUME InGame(phase)
                   PROVE  phase \in [season : {"SPRING", "FALL", "WINTER"}, year : Nat, type : Types]
        OBVIOUS
      <3>1. IsPlayed(phase)
        BY DEF IInv, PhaseOK, InGame
      <3>2. Index(phase) \in {1, 2, 3, 4, 5} /\ phase.season = Flow[Index(phase)].season
        BY <3>1, PlayedIs
      <3>3. phase.season \in {"SPRING", "FALL", "WINTER"}
        BY <3>2, FlowApart
      <3> QED BY <3>1, <3>3, PlayedIs
    <2>2. /\ units \in [Powers -> SUBSET Units] /\ centers \in [Powers -> SUBSET Centers]
          /\ \A p \in Powers : IsDict(retreats[p], Units, SUBSET Locs)
      BY DEF IInv, BoardOK, Board, UnitsOK, CentersOK, RetreatsOK
    <2>3. \A p \in Powers : IsDict(orders[p], Units, [type : {"H", "-", "S"}, of : Units, to : Locs])
      BY DEF IInv, OrdersOK
    <2>4. phase.type = "M" => adjust = NoAdjust
      <3>1. adjust = [p \in Powers |-> adjust[p]]
        BY DEF IInv, AdjustOK
      <3>2. phase.type = "M" => \A p \in Powers : adjust[p] = <<>>
        BY DEF IInv, AdjustOK
      <3> QED BY <3>1, <3>2 DEF NoAdjust
    <2>5. phase.type \in {"R", "A"} => orders = [p \in Powers |-> Empty]
      <3>1. phase.type \in {"R", "A"} => \A p \in Powers : orders[p] = Empty
        BY DEF IInv, OrdersOK
      <3>2. orders = [p \in Powers |-> orders[p]]
        BY DEF IInv, OrdersOK
      <3> QED BY <3>1, <3>2
    <2>6. \A p \in Powers : adjust[p] \in Seq(Orders)
      BY DEF IInv, AdjustOK
    <2> QED BY <2>1, <2>2, <2>3, <2>4, <2>5, <2>6 DEF TypeOK
  <1> QED BY <1>1, Invariance, PTL

\* No two units stand in one place, whatever is ordered, and in whatever order a movement, a
\* retreat or an adjustment phase is resolved.
THEOREM UnitsApart == Spec /\ []CoastsClear => []OneUnitPerPlace
  <1>1. IInv => OneUnitPerPlace
    BY DEF IInv, BoardOK, Board, UnitsOK, OneUnitPerPlace
  <1> QED BY <1>1, Invariance, PTL

\* The hash that is updated change by change is that of the board.
THEOREM HashIsOfBoard == Spec /\ []CoastsClear => []HashMatches
  <1>1. IInv => HashMatches
    BY DEF IInv, BoardOK, Board, HashMatches
  <1> QED BY <1>1, Invariance, PTL

\* Every step keeps the histories in order.
LEMMA PastOK ==
    ASSUME HistoriesOK, [Next]_vars
    PROVE  HistoriesOK'
  <1>1. CASE InGame(phase) /\ (Process \/ Draw)
    <2>1. IsPlayed(phase)
      BY <1>1 DEF HistoriesOK, PhaseOK, InGame
    <2>2. CASE Process
      <3>1. PICK n \in 1..Cardinality(Types) :
                /\ phase' = COMPLETED \/ (phase' = Ahead(n) /\ ~DrawnIn(Ahead(n)))
                /\ Recorded({phase} \cup
                      IF DrawnIn(Ahead(n)) /\ ~WonIn(Results, Ahead(n)) THEN {Ahead(n)} ELSE {})
        BY <2>2, Zenon DEF Process
      <3> DEFINE keys == {phase} \cup
                    IF DrawnIn(Ahead(n)) /\ ~WonIn(Results, Ahead(n)) THEN {Ahead(n)} ELSE {}
      <3>2. IsPlayed(Ahead(n)) /\ Time(phase) < Time(Ahead(n))
        BY <2>1, AheadIs
      <3>3. /\ Recorded(keys) /\ phase \in keys
            /\ \A key \in keys : key = phase \/ (key = Ahead(n) /\ DrawnIn(Ahead(n)))
        BY <3>1
      <3>4. COMPLETED # Ahead(n)
        BY <3>2, PlayedIs DEF InGame
      <3> HIDE DEF keys
      <3>5. \A key \in keys : key = phase \/ (IsPlayed(key) /\ phase' = COMPLETED)
        BY <3>1, <3>2, <3>3
      <3>6. phase' = COMPLETED \/ (IsPlayed(phase') /\ Time(phase) < Time(phase'))
        BY <3>1, <3>2
      <3> QED BY <2>1, <3>3, <3>5, <3>6, RecordedOK
    <2>3. CASE Draw
      BY <2>1, <2>3, RecordedOK DEF Draw
    <2> QED BY <1>1, <2>2, <2>3
  <1>2. ASSUME NEW s \in Reloads, SetState(s)
        PROVE  HistoriesOK'
    <2>1. IsPlayed(s.phase)
      BY LoadedOK
    <2> QED BY <1>2, <2>1 DEF SetState, HistoriesOK, PhaseOK
  <1>3. CASE UNCHANGED <<phase, histories>>
    BY <1>3 DEF HistoriesOK, PhaseOK, histories
  <1>4. ASSUME NEW p \in Powers, Submit(p) \/ ClearUnits(p) \/ ClearCenters(p)
        PROVE  UNCHANGED <<phase, histories>>
    BY <1>4 DEF Submit, SetOrders, SetRetreatOrders, SetAdjustOrders, ClearOrders, ClearUnits,
                ClearCenters
  <1>5. CASE UNCHANGED vars
    BY <1>3, <1>5 DEF vars
  <1>6. Process \/ Draw => InGame(phase)
    BY DEF Process, Draw
  <1> QED BY <1>1, <1>2, <1>3, <1>4, <1>5, <1>6 DEF Next

\* A phase of the past has its state, its results and its stances, and is before the present:
\* on every map, whatever is built.
THEOREM HistoriesAgree == Spec => []HistoriesMatch
  <1>1. Init => HistoriesOK
    <2> SUFFICES ASSUME Init PROVE HistoriesOK
      OBVIOUS
    <2>1. PhaseOK
      BY InitOK DEF IInv
    <2> QED BY <2>1 DEF Init, HistoriesOK
  <1>2. HistoriesOK /\ [Next]_vars => HistoriesOK'
    BY PastOK
  <1>3. HistoriesOK => HistoriesMatch
    BY DEF HistoriesOK, HistoriesMatch
  <1> QED BY <1>1, <1>2, <1>3, PTL DEF Spec

----------------------------------------------------------------------------
(* Centres follow units.                                                    *)

\* Processing orders moves no centres: a capture does.
LEMMA ResultsKeepCenters ==
    ASSUME IInv, InGame(phase)
    PROVE  Results.centers = centers
  <1>1. MoveResults.centers = centers
    <2>1. \E u, r, h : MoveResults = [units |-> u, retreats |-> r, centers |-> centers, hash |-> h]
      BY Zenon DEF MoveResults
    <2> QED BY <2>1
  <1>2. RetreatResults.centers = centers
    BY DEF RetreatResults
  <1>3. AdjustResults.centers = centers
    BY DEF AdjustResults
  <1> QED BY <1>1, <1>2, <1>3, ResultsOK DEF Results

\* An adjustment phase leaves no power with more units than centres.
LEMMA AdjustCounts ==
    ASSUME IInv, phase.type = "A", NEW p \in Powers
    PROVE  Cardinality(AdjustResults.units[p]) <= Cardinality(centers[p])
  <1> DEFINE U == units[p]
             s == Surplus(p, units, centers)
             D == Disbanded(p)
             new == (U \cup Built[p]) \ Removed[p]
  <1>1. AdjustResults.units[p] = new
    BY DEF AdjustResults, Built, Removed, Disbanded
  <1>2. /\ BoardOK(Board) /\ AdjustOK /\ UnitsOK(units) /\ CentersOK(centers)
    BY DEF IInv, BoardOK, Board
  <1>3. /\ IsFiniteSet(U) /\ Cardinality(U) \in Nat /\ Cardinality(centers[p]) \in Nat
        /\ s = Cardinality(U) - Cardinality(centers[p]) /\ s \in Int
    BY <1>2, SurplusType DEF UnitsOK, CentersOK, Surplus
  <1>4. Built[p] = FirstOf(p, "B", Cardinality(centers[p]) - Cardinality(U))
    BY DEF Built
  <1> HIDE DEF s
  <1>5. CASE s <= 0
    <2>1. Removed[p] = {}
      BY <1>5 DEF Removed, s
    <2>2. Cardinality(centers[p]) - Cardinality(U) \in Nat
      BY <1>3, <1>5
    <2>3. /\ IsFiniteSet(Built[p]) /\ Cardinality(Built[p]) \in Nat
          /\ Cardinality(Built[p]) <= Cardinality(centers[p]) - Cardinality(U)
      BY <1>2, <1>4, <2>2, FirstOfIs
    <2>4. /\ Cardinality(U \cup Built[p])
                = Cardinality(U) + Cardinality(Built[p]) - Cardinality(U \cap Built[p])
          /\ Cardinality(U \cap Built[p]) \in Nat
      <3>1. IsFiniteSet(U \cap Built[p])
        BY <1>3, FS_Subset
      <3> QED BY <1>3, <2>3, <3>1, FS_Union, FS_CardinalityType
    <2>5. new = U \cup Built[p]
      BY <2>1
    <2> QED BY <1>1, <1>3, <2>3, <2>4, <2>5
  <1>6. CASE s > 0
    <2>1. Built[p] = {}
      BY <1>2, <1>3, <1>4, <1>6, NoneFirst
    <2>2. U # {}
      BY <1>3, <1>6, FS_EmptySet
    <2>3. IsFiniteSet(D) /\ Cardinality(D) \in Nat /\ D \subseteq U
      <3>1. \A x \in D : \E i \in DOMAIN adjust[p] : adjust[p][i].to = "D" /\ x = adjust[p][i].unit
        BY <1>2, <1>3, FirstOfIs DEF Disbanded, s
      <3>2. \A i \in DOMAIN adjust[p] : adjust[p][i].to = "D" => adjust[p][i].unit \in U
        BY <2>2, Zenon DEF IInv, DisbandsOwn
      <3>3. IsFiniteSet(D) /\ Cardinality(D) \in Nat
        BY <1>2, <1>3, FirstOfIs DEF Disbanded, s
      <3> QED BY <3>1, <3>2, <3>3
    <2> DEFINE G == Goners(p, U \ D, s - Cardinality(D))
    <2>4. Removed[p] = D \cup G
      <3>1. Removed[p] = (D \cap U) \cup G
        BY <1>3, <1>6 DEF Removed, s
      <3> QED BY <2>3, <3>1
    <2>5. /\ s - Cardinality(D) \in Nat /\ Cardinality(G) = Smaller(s - Cardinality(D), Cardinality(U \ D))
      BY <1>2, <1>6, RemovedIs DEF s
    <2>6. IsFiniteSet(U \ D) /\ Cardinality(U \ D) = Cardinality(U) - Cardinality(D)
      <3>1. U \cap D = D
        BY <2>3
      <3> QED BY <1>3, <2>3, <3>1, FS_Difference
    <2>7. G \subseteq U \ D
      BY <2>5, <2>6, GonersAre
    <2>8. Cardinality(G) = s - Cardinality(D) /\ IsFiniteSet(G)
      <3>1. s - Cardinality(D) <= Cardinality(U \ D)
        BY <1>3, <2>3, <2>6
      <3>2. s - Cardinality(D) \in Int /\ Cardinality(U \ D) \in Int
        BY <1>3, <2>3, <2>6
      <3>3. Smaller(s - Cardinality(D), Cardinality(U \ D)) = s - Cardinality(D)
        BY <3>1, <3>2 DEF Smaller
      <3> QED BY <2>5, <2>6, <2>7, <3>3, FS_Subset
    <2> HIDE DEF G
    <2>9. Cardinality(D \cup G) = s /\ IsFiniteSet(D \cup G) /\ D \cup G \subseteq U
      <3>1. D \cap G = {} /\ Cardinality({}) = 0
        BY <2>7, FS_EmptySet
      <3>2. Cardinality(D \cup G) = Cardinality(D) + Cardinality(G) - Cardinality(D \cap G)
            /\ IsFiniteSet(D \cup G)
        BY <2>3, <2>8, FS_Union
      <3>3. Cardinality(D \cap G) = 0
        BY <3>1, Zenon
      <3>4. Cardinality(D \cup G) = Cardinality(D) + (s - Cardinality(D)) - 0
        BY <2>8, <3>2, <3>3, Zenon
      <3>5. Cardinality(D \cup G) = s
        BY <1>3, <2>3, <3>4
      <3>6. D \cup G \subseteq U
        BY <2>3, <2>7
      <3> QED BY <3>2, <3>5, <3>6
    <2>10. Cardinality(U \ (D \cup G)) = Cardinality(U) - s
      <3> DEFINE X == D \cup G
      <3>1. U \cap X = X /\ IsFiniteSet(X) /\ Cardinality(X) = s
        BY <2>9
      <3> HIDE DEF X
      <3>2. Cardinality(U \ X) = Cardinality(U) - Cardinality(U \cap X)
        BY <1>3, FS_Difference
      <3>3. Cardinality(U \ X) = Cardinality(U) - s
        BY <3>1, <3>2
      <3> QED BY <3>3 DEF X
    <2>11. new = U \ (D \cup G)
      BY <2>1, <2>4
    <2> HIDE DEF new
    <2>12. Cardinality(new) = Cardinality(centers[p])
      BY <1>3, <2>10, <2>11
    <2> QED BY <1>1, <1>3, <2>12
  <1> QED BY <1>3, <1>5, <1>6

\* A step that ends a phase of a game that goes on.
LEMMA EndsByProcess ==
    ASSUME IInv, [Next]_vars, Ends, InGame(phase')
    PROVE  /\ IsPlayed(phase) /\ IsBoard(Results) /\ BoardOK(Results) /\ Results.centers = centers
           /\ \E n \in 1..Cardinality(Types) :
                /\ \A m \in 1..(n - 1) : ~HasToStop(Results, Ahead(m))
                /\ phase' = Ahead(n) /\ units' = Results.units
                /\ centers' = BoardIn(Results, Ahead(n)).centers
  <1>1. Process
    <2>1. phase' # phase /\ state_history' # {} /\ phase' # COMPLETED
      BY DEF Ends, InGame
    <2>2. \A s : ~SetState(s)
      BY <2>1 DEF SetState
    <2>3. ~Draw
      BY <2>1 DEF Draw
    <2>4. \A p : ~(Submit(p) \/ ClearUnits(p) \/ ClearCenters(p))
      BY <2>1 DEF Submit, SetOrders, SetRetreatOrders, SetAdjustOrders, ClearOrders, ClearUnits,
                  ClearCenters
    <2>5. ~UNCHANGED vars
      BY <2>1 DEF vars
    <2> QED BY <2>2, <2>3, <2>4, <2>5 DEF Next
  <1>2. InGame(phase) /\ IsPlayed(phase)
    BY <1>1 DEF Process, IInv, PhaseOK, InGame
  <1>3. PICK n \in 1..Cardinality(Types) :
            /\ \A m \in 1..(n - 1) : ~HasToStop(Results, Ahead(m))
            /\ \/ phase' = COMPLETED
               \/ phase' = Ahead(n) /\ SetBoard(BoardIn(Results, Ahead(n)))
    BY <1>1, Zenon DEF Process
  <1>4. IsBoard(Results) /\ BoardOK(Results) /\ Results.centers = centers
    BY <1>2, ResultsOK, ResultsKeepCenters
  <1>5. phase' = Ahead(n) /\ SetBoard(BoardIn(Results, Ahead(n)))
    BY <1>3 DEF InGame
  <1>6. units' = Results.units /\ centers' = BoardIn(Results, Ahead(n)).centers
    BY <1>4, <1>5, BoardInOK DEF SetBoard
  <1> QED BY <1>2, <1>3, <1>4, <1>5, <1>6

\* When autumn ends, the centres are those that Capture finds.
LEMMA AutumnOK ==
    ASSUME IInv, [Next]_vars, Ends, phase.season = "FALL", InGame(phase'), phase'.season # "FALL",
           NEW p \in Powers
    PROVE  /\ \A x \in units'[p] : At(x) \in Centers => At(x) \in centers'[p]
           /\ \A c \in centers'[p] :
                \/ \E x \in units'[p] : At(x) = c
                \/ c \in centers[p]
                \/ c \in Homes[p] /\ \A o \in Powers : centers[o] = {}
           /\ \A o \in Powers \ {p} : centers'[o] \cap centers'[p] = {}
  <1> DEFINE b == Results
  <1>1. /\ IsPlayed(phase) /\ IsBoard(b) /\ BoardOK(b) /\ b.centers = centers
    BY EndsByProcess
  <1>2. PICK n \in 1..Cardinality(Types) :
            phase' = Ahead(n) /\ units' = b.units /\ centers' = BoardIn(b, Ahead(n)).centers
    BY EndsByProcess
  <1> HIDE DEF b
  <1>3. Index(phase) \in {3, 4} /\ phase.type # "A"
    <2>1. /\ Index(phase) \in {1, 2, 3, 4, 5} /\ phase.season = Flow[Index(phase)].season
          /\ phase.type = Flow[Index(phase)].type
      BY <1>1, PlayedIs
    <2> QED BY <2>1, FlowApart
  <1>4. Ahead(n).type = "A" \/ Ahead(n).year # phase.year
    <2>1. /\ IsPlayed(Ahead(n))
          /\ Index(Ahead(n)) = IF Index(phase) + n < 6 THEN Index(phase) + n ELSE Index(phase) + n - 5
          /\ Ahead(n).year = IF Index(phase) + n < 6 THEN phase.year ELSE phase.year + 1
      BY <1>1, AheadIs
    <2>2. /\ Ahead(n).season = Flow[Index(Ahead(n))].season
          /\ Ahead(n).type = Flow[Index(Ahead(n))].type
      BY <2>1, PlayedIs
    <2>3. phase.year \in Nat /\ n \in 1..3
      BY <1>1, PlayedIs, TypesCounted
    <2>4. CASE Index(phase) + n < 6
      <3>1. Index(Ahead(n)) \in {4, 5}
        BY <1>3, <2>1, <2>3, <2>4
      <3>2. Index(Ahead(n)) # 4
        BY <1>2, <2>2, FlowApart
      <3> QED BY <2>2, <3>1, <3>2, FlowApart
    <2>5. CASE ~(Index(phase) + n < 6)
      BY <2>1, <2>3, <2>5
    <2> QED BY <2>4, <2>5
  <1>5. centers' = TakenFrom(b)
    <2>1. BoardIn(b, Ahead(n)) = Capture(b)
      BY <1>3, <1>4 DEF BoardIn
    <2> QED BY <1>1, <1>2, <2>1, CaptureIs
  <1>6. UnitsOK(b.units) /\ CentersOK(b.centers)
    BY <1>1 DEF BoardOK
  <1>7. /\ On(b, p) \subseteq TakenFrom(b)[p]
        /\ \A c \in TakenFrom(b)[p] :
             /\ c \in On(b, p) \/ c \in b.centers[p]
                     \/ (c \in Homes[p] /\ \A o \in Powers : b.centers[o] = {})
             /\ \A o \in Powers \ {p} : c \notin TakenFrom(b)[o]
    BY <1>6, TakenIs
  <1>8. \A c : c \in On(b, p) <=> (c \in Centers /\ \E x \in units'[p] : At(x) = c)
    BY <1>2 DEF On
  <1> QED BY <1>1, <1>5, <1>7, <1>8

\* No power begins a year with more units than centres.
LEMMA NewYearOK ==
    ASSUME IInv, [Next]_vars, Ends, InGame(phase'), phase'.year # phase.year, NEW p \in Powers
    PROVE  Cardinality(units'[p]) <= Cardinality(centers'[p])
  <1> DEFINE b == Results
  <1>1. /\ IsPlayed(phase) /\ IsBoard(b) /\ BoardOK(b) /\ b.centers = centers
    BY EndsByProcess
  <1>2. PICK n \in 1..Cardinality(Types) :
            /\ \A m \in 1..(n - 1) : ~HasToStop(b, Ahead(m))
            /\ phase' = Ahead(n) /\ units' = b.units /\ centers' = BoardIn(b, Ahead(n)).centers
    BY EndsByProcess
  <1>3. /\ Index(phase) \in {1, 2, 3, 4, 5} /\ phase.type = Flow[Index(phase)].type
        /\ phase.year \in Nat /\ n \in 1..3
    BY <1>1, PlayedIs, TypesCounted
  <1>4. CASE phase.type = "A"
    <2>1. Index(phase) = 5
      <3>1. /\ Flow[1].type # "A" /\ Flow[2].type # "A" /\ Flow[3].type # "A"
            /\ Flow[4].type # "A"
        BY FlowApart
      <3> QED BY <1>3, <1>4, <3>1
    <2>2. IsPlayed(Ahead(1)) /\ Index(Ahead(1)) = 1
      <3>1. 1 \in 1..Cardinality(Types)
        BY TypesCounted
      <3> QED BY <1>1, <2>1, <3>1, AheadIs
    <2>3. Ahead(1).type = "M"
      BY <2>2, PlayedIs, FlowApart
    <2>4. n = 1
      <3>1. HasToStop(b, Ahead(1))
        BY <2>3 DEF HasToStop
      <3>2. ~(1 \in 1..(n - 1))
        BY <1>2, <3>1
      <3> QED BY <1>3, <3>2
    <2>5. BoardIn(b, Ahead(n)) = b
      BY <1>4, <2>3, <2>4 DEF BoardIn
    <2>6. units' = AdjustResults.units /\ centers' = centers
      BY <1>1, <1>2, <1>4, <2>5 DEF Results
    <2> QED BY <1>4, <2>6, AdjustCounts
  <1>5. CASE phase.type # "A"
    <2> DEFINE m == 5 - Index(phase)
    <2>1. Index(phase) \in {1, 2, 3, 4}
      BY <1>3, <1>5, FlowApart
    <2>2. ~(Index(phase) + n < 6)
      BY <1>1, <1>2, AheadIs
    <2>3. m \in 1..(n - 1) /\ m \in 1..Cardinality(Types)
      BY <1>3, <2>1, <2>2, TypesCounted
    <2>4. IsPlayed(Ahead(m)) /\ Index(Ahead(m)) = 5
      BY <1>1, <2>1, <2>3, AheadIs
    <2> HIDE DEF m
    <2>5. Ahead(m).type = "A"
      BY <2>4, PlayedIs, FlowApart
    <2>6. ~ToAdjust(Capture(b))
      BY <1>2, <2>3, <2>5 DEF HasToStop
    <2>7. BoardIn(b, Ahead(n)) = Capture(b)
      BY <1>2, <1>5 DEF BoardIn
    <2>8. Capture(b).units = b.units /\ BoardOK(Capture(b))
      BY <1>1, CaptureIs, CaptureOK
    <2>9. /\ Cardinality(b.units[p]) \in Nat /\ Cardinality(Capture(b).centers[p]) \in Nat
      <3>1. b.units \in [Powers -> SUBSET Units] /\ Capture(b).centers \in [Powers -> SUBSET Centers]
        BY <2>8 DEF BoardOK, UnitsOK, CentersOK
      <3> QED BY <3>1, SurplusType
    <2>10. ~(Cardinality(b.units[p]) - Cardinality(Capture(b).centers[p]) > 0)
      BY <2>6, <2>8 DEF ToAdjust, Surplus
    <2> QED BY <1>2, <2>7, <2>9, <2>10
  <1> QED BY <1>4, <1>5

\* When autumn ends, centres belong to the units that stand on them, the others to their former
\* owners, and none to two powers; and no power begins a year with more units than centres,
\* whatever it ordered.
THEOREM CentersOfUnits == Spec /\ []CoastsClear => CentersFollowUnits
  <1>1. IInv /\ [Next]_vars =>
            [(Ends /\ phase.season = "FALL" /\ InGame(phase') /\ phase'.season # "FALL") =>
                \A p \in Powers :
                    /\ \A x \in units'[p] : At(x) \in Centers => At(x) \in centers'[p]
                    /\ \A c \in centers'[p] :
                          \/ \E x \in units'[p] : At(x) = c
                          \/ c \in centers[p]
                          \/ c \in Homes[p] /\ \A o \in Powers : centers[o] = {}
                    /\ \A o \in Powers \ {p} : centers'[o] \cap centers'[p] = {}]_vars
    BY AutumnOK
  <1>2. IInv /\ [Next]_vars =>
            [(Ends /\ InGame(phase') /\ phase'.year # phase.year) =>
                \A p \in Powers : Cardinality(units'[p]) <= Cardinality(centers'[p])]_vars
    BY NewYearOK
  <1> QED BY <1>1, <1>2, Invariance, PTL DEF Spec, CentersFollowUnits

=============================================================================
