-------------------------------- MODULE Turns --------------------------------
(***************************************************************************)
(* A game from phase to phase: the orders of each kind of phase, its        *)
(* results, the succession of phases, centres, the end, and the histories.  *)
(* diplomacy/engine/game.py, power.py.                                      *)
(*                                                                          *)
(* A movement phase ends as Rules says, which Adjudication shows to be what *)
(* the code finds.  Orders the code refuses, and keeps as VOID for its      *)
(* report, and WAIVE orders change nothing on the board: they are left out. *)
(***************************************************************************)
EXTENDS Phases, Sequences, SequencesExt, Dicts

CONSTANTS
    Powers,
    Base,           \* location -> its place: the locations of a place are its coasts
    Reach,          \* unit -> the locations it may move to
    Homes,          \* power -> places where it may build
    Centers,        \* Map.scs: the places with a supply centre
    Situations,     \* the states a game may be loaded in
    Reloads,        \* those a game under way may be set to
    Win,            \* Game.win: the centres a power needs to win
    DrawYear,       \* the year that ends in a draw: the hundredth, in the code
    HoldWin, SharedVictory, BuildAny, DontSkip,     \* rules of the game
    Clearable,      \* the types of phases in which units may be cleared
    MaxCall,        \* the orders in one call
    MaxAdjust,      \* the orders kept for a power
    MaxCommands,    \* the units of a power with an order in a movement phase
    MaxYear         \* the last year in which orders are given and units cleared

Locs == DOMAIN Base
Places == {Base[l] : l \in Locs}
Units == DOMAIN Reach               \* a unit is its type and its location

ASSUME TurnsAssumption ==
    /\ IsFiniteSet(Powers) /\ IsFiniteSet(Locs)
    /\ \A l \in Locs : Base[l] \in Locs /\ Base[Base[l]] = Base[l]
    /\ Units \subseteq [type : {"A", "F"}, loc : Locs]
    /\ Reach \in [Units -> SUBSET Locs]
    /\ \A x \in Units : \A l \in Reach[x] : [x EXCEPT !.loc = l] \in Units
    /\ Homes \in [Powers -> SUBSET Centers] /\ Centers \subseteq Places
    /\ \A p, o \in Powers : p # o => Homes[p] \cap Homes[o] = {}
    /\ \A s \in Situations \cup Reloads :
          /\ s.phase.year \in Nat
          /\ \E i \in 1..5 : s.phase = [season |-> Flow[i].season, year |-> s.phase.year,
                                       type |-> Flow[i].type]
          /\ s.units \in [Powers -> SUBSET Units]
          /\ \A p, o \in Powers : \A x \in s.units[p], y \in s.units[o] :
                Base[x.loc] = Base[y.loc] => p = o /\ x = y
          /\ s.centers \in [Powers -> SUBSET Centers]
          /\ \A p, o \in Powers : p # o => s.centers[p] \cap s.centers[o] = {}
          /\ DOMAIN s.retreats = Powers
          /\ \A p \in Powers :
                /\ IsDict(s.retreats[p], Units, SUBSET Locs)
                /\ \A x \in DOMAIN s.retreats[p] : s.retreats[p][x] \subseteq Reach[x]
                /\ s.phase.type = "M" => s.retreats[p] = Empty
    /\ {HoldWin, SharedVictory, BuildAny, DontSkip} \subseteq BOOLEAN
    /\ {Win, DrawYear, MaxCall, MaxAdjust, MaxCommands, MaxYear} \subseteq Nat

VARIABLES
    phase,          \* Game.phase
    units,          \* power -> its units
    retreats,       \* power -> dict: dislodged unit -> where it may retreat to
    centers,        \* power -> its centres
    orders,         \* power -> dict: unit -> order, of a movement phase
    adjust,         \* power -> orders of a retreat or adjustment phase
    hash,           \* Game.zobrist_hash: the tokens that make up the number
    state_history,  \* keys of Game.state_history, and of the orders, messages and logs
    result_history, \* keys of Game.result_history
    stance_history  \* keys of Game.stance_history, and of bots, deceiving and order logs

board == <<units, retreats, centers, hash>>
given == <<orders, adjust>>
histories == <<state_history, result_history, stance_history>>
vars == <<phase, board, given, histories>>

At(x) == Base[x.loc]
Occupied(all) == {At(x) : x \in UNION {all[p] : p \in Powers}}

----------------------------------------------------------------------------
(* update_hash: every change of the board is entered by exclusive or.       *)

Tokens(kind, p, things) == {<<kind, p, thing>> : thing \in things}

AllTokens(kind, of) == UNION {Tokens(kind, p, of[p]) : p \in Powers}

Toggle(h, tokens) == (h \ tokens) \cup (tokens \ h)

Dislodged(r) == [p \in Powers |-> DOMAIN r[p]]

\* rebuild_hash.
HashOf(u, r, c) ==
    AllTokens("unit", u) \cup AllTokens("dislodged", Dislodged(r)) \cup AllTokens("center", c)

NoRetreats == [p \in Powers |-> Empty]
NoAdjust == [p \in Powers |-> <<>>]

----------------------------------------------------------------------------
(* Orders.                                                                  *)

\* The last order of each unit counts.
Commands(p, x) ==
    [type : {"H"}, of : {x}, to : {x.loc}]
    \cup [type : {"-"}, of : {x}, to : Reach[x]]
    \cup {o \in [type : {"S"}, of : UNION {units[q] : q \in Powers}, to : {Base[l] : l \in Reach[x]}] :
            /\ o.of # x
            /\ o.to \in {At(o.of)} \cup {Base[l] : l \in Reach[o.of]}}

SetOrders(p) ==
    /\ phase.type = "M" /\ phase.year <= MaxYear
    /\ \E x \in units[p] : \E order \in Commands(p, x) :
          orders' = [orders EXCEPT ![p] = Put(@, x, order)]
    /\ \A o \in Powers : Cardinality(DOMAIN orders'[o]) <= MaxCommands
    /\ UNCHANGED <<phase, board, adjust, histories>>

\* An order to a dislodged unit: to retreat, or to disband ("D").
RetreatRequests(p) == [unit : DOMAIN retreats[p], to : Locs \cup {"D"}]

\* _add_retreat_orders: a unit retreats where it may, and once in a call.
RetreatValid(p, r) ==
    r.to # "D" => r.to \in retreats[p][r.unit] /\ Base[r.to] \notin Occupied(units)

RetreatAccepted(p, call, i) ==
    /\ RetreatValid(p, call[i])
    /\ \A k \in 1..(i - 1) : call[k].unit = call[i].unit => ~RetreatValid(p, call[k])

\* The orders of a call that are chosen, in its order.
Kept(call, chosen) ==
    [n \in 1..Cardinality(chosen) |->
        call[CHOOSE i \in chosen : Cardinality({k \in chosen : k <= i}) = n]]

\* Mutant: an order is replaced only by an order to the same unit.
ReplacedByUnit(old, new) ==
    Kept(old, {k \in DOMAIN old : \A i \in DOMAIN new : new[i].unit # old[k].unit}) \o new

\* Orders are replaced by those of a later call to the same location.
Replaced(old, new) ==
    Kept(old, {k \in DOMAIN old : \A i \in DOMAIN new : new[i].unit.loc # old[k].unit.loc}) \o new

SetRetreatOrders(p) ==
    /\ phase.type = "R" /\ phase.year <= MaxYear
    /\ \E call \in BoundedSeq(RetreatRequests(p), MaxCall) :
          LET accepted == Kept(call, {i \in DOMAIN call : RetreatAccepted(p, call, i)}) IN
          adjust' = [adjust EXCEPT ![p] =
              IF call = <<>> THEN <<>> ELSE Replaced(@, accepted)]
    /\ Len(adjust'[p]) <= MaxAdjust
    /\ UNCHANGED <<phase, board, orders, histories>>

----------------------------------------------------------------------------
(* Builds and disbands.                                                     *)

\* _build_sites: the free homes that a power owns.
BuildSites(p, u, c) ==
    {h \in IF BuildAny THEN c[p] ELSE Homes[p] : h \in c[p] /\ h \notin Occupied(u)}

Smaller(m, n) == IF m < n THEN m ELSE n

\* The units a power has to remove, or if negative, may build.
Surplus(p, u, c) == Cardinality(u[p]) - Cardinality(c[p])

AdjustRequests == [unit : Units, to : {"B", "D"}]

\* _add_adjust_orders: one build for each site of the call, and none if there is
\* something to remove.
AdjustAccepted(p, call, i) ==
    LET r == call[i] IN
    IF Surplus(p, units, centers) > 0
    THEN r.to = "D" /\ r.unit \in units[p] /\ \A k \in 1..(i - 1) : call[k] # r
    ELSE /\ r.to = "B"
         /\ Surplus(p, units, centers) < 0 /\ At(r.unit) \in BuildSites(p, units, centers)
         /\ \A k \in 1..(i - 1) : call[k].to = "B" => At(call[k].unit) # At(r.unit)

SetAdjustOrders(p) ==
    /\ phase.type = "A" /\ phase.year <= MaxYear
    /\ \E call \in BoundedSeq(AdjustRequests, MaxCall) :
          LET accepted == Kept(call, {i \in DOMAIN call : AdjustAccepted(p, call, i)}) IN
          adjust' = [adjust EXCEPT ![p] =
              IF call = <<>> THEN <<>> ELSE Replaced(@, accepted)]
    /\ Len(adjust'[p]) <= MaxAdjust
    /\ UNCHANGED <<phase, board, orders, histories>>

\* get_orderable_locations.
Orderable(p) ==
    CASE phase.type = "A" ->
            IF Surplus(p, units, centers) < 0 THEN BuildSites(p, units, centers)
            ELSE IF Surplus(p, units, centers) = 0 THEN {} ELSE {At(x) : x \in units[p]}
      [] phase.type = "R" -> {At(x) : x \in DOMAIN retreats[p]}
      [] OTHER -> {At(x) : x \in units[p]}

\* Mutant: retreats and builds are kept for the next phase.
AdjustKept ==
    /\ orders' = [p \in Powers |-> Empty]
    /\ UNCHANGED adjust

NothingGiven ==
    /\ orders' = [p \in Powers |-> Empty]
    /\ adjust' = NoAdjust

\* Power.clear_orders.
ClearOrders(p) ==
    /\ InGame(phase)
    /\ orders' = [orders EXCEPT ![p] = Empty]
    /\ adjust' = [adjust EXCEPT ![p] = <<>>]
    /\ UNCHANGED <<phase, board, histories>>
----------------------------------------------------------------------------
(* Results.  Each is a function from boards to boards.                       *)

Board == [units |-> units, retreats |-> retreats, centers |-> centers, hash |-> hash]

\* _determine_orders, _default_orders: who has no order holds.
CommandAt(q) ==
    LET p == CHOOSE o \in Powers : \E x \in units[o] : At(x) = q
        unit == CHOOSE x \in units[p] : At(x) = q
    IN IF unit \in DOMAIN orders[p] THEN orders[p][unit]
                                   ELSE [type |-> "H", of |-> unit, to |-> unit.loc]

Owner == [q \in Occupied(units) |-> CHOOSE p \in Powers : \E x \in units[p] : At(x) = q]

Command ==
    [q \in Occupied(units) |->
        LET o == CommandAt(q) IN
        [type |-> o.type, of |-> At(o.of), to |-> IF o.type = "S" THEN o.to ELSE Base[o.to],
         via |-> FALSE]]

R(owner, command) == INSTANCE Rules

\* _move_results: units move, and those dislodged leave the board; who can retreat
\* nowhere is destroyed.
MoveResults ==
    LET owner == Owner
        command == Command
        moved == R(owner, command)!Outcome
        lost == R(owner, command)!DislodgedIf(moved)
        attacker(q) == CHOOSE v \in moved : command[v].to = q
        open(x) == {l \in Reach[x] : /\ Base[l] # attacker(At(x))
                                     /\ R(owner, command)!FreeIf(moved, Base[l])}
        dislodged == [p \in Powers |-> {x \in units[p] : At(x) \in lost}]
        left == [p \in Powers |-> {x \in units[p] : At(x) \in moved}]
        arrived == [p \in Powers |-> {[x EXCEPT !.loc = CommandAt(At(x)).to] : x \in left[p]}]
        retreating == [p \in Powers |-> {x \in dislodged[p] : open(x) # {}}]
    IN [units |-> [p \in Powers |-> (units[p] \ (left[p] \cup dislodged[p])) \cup arrived[p]],
        retreats |-> [p \in Powers |-> [x \in retreating[p] |-> open(x)]],
        centers |-> centers,
        hash |-> Toggle(Toggle(hash, AllTokens("unit", left) \cup AllTokens("unit", dislodged)
                                        \cup AllTokens("dislodged", retreating)),
                        AllTokens("unit", arrived))]

\* Mutant: two units retreat to one place.
NoRetreatConflict == {}

\* The places that more than one unit retreats to.
RetreatConflicts ==
    LET requests == {r \in Powers \X (1..MaxAdjust) :
                        r[2] \in DOMAIN adjust[r[1]] /\ adjust[r[1]][r[2]].to # "D"}
        to(r) == Base[adjust[r[1]][r[2]].to]
    IN {q \in Places : \E r, t \in requests : r # t /\ to(r) = q /\ to(t) = q}

\* _other_results of a retreat phase: whose retreat has no conflict arrives, the
\* others disband.
RetreatResults ==
    LET requests(p) == {adjust[p][i] : i \in {k \in DOMAIN adjust[p] : adjust[p][k].to # "D"}}
        arrived == [p \in Powers |->
            {[r.unit EXCEPT !.loc = r.to] :
                r \in {t \in requests(p) : Base[t.to] \notin RetreatConflicts}}]
    IN [units |-> [p \in Powers |-> units[p] \cup arrived[p]],
        retreats |-> NoRetreats,
        centers |-> centers,
        hash |-> Toggle(hash, AllTokens("unit", arrived)
                                \cup AllTokens("dislodged", Dislodged(retreats)))]

\* _get_distance_to_home: fleets go where they may, armies everywhere.
WalkFrom(type, l) ==
    IF type = "F" THEN UNION {Reach[x] : x \in {y \in Units : y.type = "F" /\ y.loc = l}}
    ELSE UNION {Reach[x] : x \in {y \in Units : At(y) = Base[l]}}

Distance(x, homes) ==
    LET ball[n \in 0..Cardinality(Locs)] ==
            IF n = 0 THEN {x.loc}
            ELSE UNION {{l} \cup WalkFrom(x.type, l) : l \in ball[n - 1]}
        near == {n \in 0..Cardinality(Locs) : \E l \in ball[n] : Base[l] \in homes}
    IN IF near = {} THEN 99999 ELSE CHOOSE n \in near : \A m \in near : n <= m

\* The units removed in civil disorder: the farthest from home, fleets before
\* armies; the code takes their names when these are equal.
Goners(p, from, n) ==
    LET far == [x \in from |-> Distance(x, Homes[p])]
        before(x, y) == \/ far[x] > far[y]
                        \/ far[x] = far[y] /\ x.type = "F" /\ y.type = "A"
    IN CHOOSE gone \in SUBSET from :
        /\ Cardinality(gone) = Smaller(n, Cardinality(from))
        /\ \A x \in gone : \A y \in from \ gone : ~before(y, x)

\* The first n orders of a kind that a power gave.
FirstOf(p, to, n) ==
    LET all == {i \in DOMAIN adjust[p] : adjust[p][i].to = to} IN
    {adjust[p][i].unit : i \in {j \in all : Cardinality({k \in all : k <= j}) <= n}}

\* _other_results of an adjustment phase: as many builds or removals as there
\* ought to be, in the order they were given; missing removals are made up for.
AdjustResults ==
    LET built == [p \in Powers |-> FirstOf(p, "B", Cardinality(centers[p]) - Cardinality(units[p]))]
        ordered(p) == FirstOf(p, "D", Surplus(p, units, centers))
        removed == [p \in Powers |->
            IF Surplus(p, units, centers) <= 0 THEN {}
            ELSE (ordered(p) \cap units[p]) \cup
                 Goners(p, units[p] \ ordered(p),
                        Surplus(p, units, centers) - Cardinality(ordered(p)))]
    IN [units |-> [p \in Powers |-> (units[p] \cup built[p]) \ removed[p]],
        retreats |-> NoRetreats,
        centers |-> centers,
        hash |-> Toggle(hash, AllTokens("unit", built) \cup AllTokens("unit", removed)
                                \cup AllTokens("dislodged", Dislodged(retreats)))]

\* _resolve.
Results ==
    CASE phase.type = "M" -> MoveResults
      [] phase.type = "R" -> RetreatResults
      [] OTHER -> AdjustResults

----------------------------------------------------------------------------
(* The next phase.                                                          *)

\* Mutant: a power keeps the centres that others take.
TakenTwice(b) == [p \in Powers |-> b.centers[p] \cup ({At(x) : x \in b.units[p]} \cap Centers)]

\* A power takes the centres its units are on; when nobody has any, each power
\* starts with its homes.
TakenFrom(b) ==
    LET before == IF \A p \in Powers : b.centers[p] = {} THEN Homes ELSE b.centers
        on(p) == {At(x) : x \in b.units[p]} \cap Centers
        others(p) == UNION {on(o) : o \in Powers \ {p}}
    IN [p \in Powers |-> (before[p] \ others(p)) \cup on(p)]

\* _capture_centers.
Capture(b) ==
    LET taken == TakenFrom(b) IN
    [b EXCEPT !.centers = taken,
              !.hash = Toggle(Toggle(@, AllTokens("center", b.centers)), AllTokens("center", taken))]

\* _determine_win: who has enough, has grown, and leads alone.
Victors(before, after) ==
    LET score(c, p) == Cardinality(c[p]) IN
    {p \in Powers :
        /\ score(after, p) >= Win
        /\ IF HoldWin THEN score(before, p) >= Win ELSE score(after, p) > score(before, p)
        /\ SharedVictory \/ \A o \in Powers \ {p} : score(after, o) < score(after, p)}

\* Mutant: the retreats that end with the game stay in the hash.
FinishedKeepsTokens(b) == [b EXCEPT !.retreats = NoRetreats]

\* _finish: nobody retreats any more.
Finished(b) ==
    [b EXCEPT !.retreats = NoRetreats,
              !.hash = Toggle(@, AllTokens("dislodged", Dislodged(b.retreats)))]

\* Is there something to build or to remove?
ToAdjust(b) ==
    \E p \in Powers :
        \/ Surplus(p, b.units, b.centers) > 0
        \/ Surplus(p, b.units, b.centers) < 0 /\ BuildSites(p, b.units, b.centers) # {}

\* The board in a later phase: centres are captured when an adjustment phase is
\* reached, before it is decided whether to skip it.
BoardIn(b, later) ==
    IF later.type = "A" \/ (phase.type # "A" /\ later.year # phase.year) THEN Capture(b) ELSE b

\* How the game ends at an adjustment phase, if it does.
WonIn(b, later) == later.type = "A" /\ Victors(b.centers, Capture(b).centers) # {}
DrawnIn(later) == later.type = "A" /\ later.year = DrawYear

\* _check_phase: has a later phase to be processed?
HasToStop(b, later) ==
    \/ later.type = "M" \/ DontSkip \/ WonIn(b, later) \/ DrawnIn(later)
    \/ later.type = "R" /\ \E p \in Powers : b.retreats[p] # Empty
    \/ later.type = "A" /\ ToAdjust(Capture(b))

Ahead(n) == FindNextPhase(phase, Types, n - 1)

SetBoard(b) ==
    /\ units' = b.units /\ retreats' = b.retreats
    /\ centers' = b.centers /\ hash' = b.hash

\* Mutant: a phase that ends keeps no stances.
RecordedWithoutStance(keys) ==
    /\ state_history' = state_history \cup keys
    /\ result_history' = result_history \cup keys
    /\ UNCHANGED stance_history

Recorded(keys) ==
    /\ state_history' = state_history \cup keys
    /\ result_history' = result_history \cup keys
    /\ stance_history' = stance_history \cup keys

\* The results of a retreat are written for the units that are dislodged still: an
\* order left from a unit that was cleared, in a conflict, raises KeyError, unless a
\* refused (VOID) order of the unit was kept too.  Those are not in this model, so here
\* the phase may be processed, with the retreats in conflict given up, or not.
ResultsRaise ==
    /\ phase.type = "R"
    /\ \E p \in Powers : \E i \in DOMAIN adjust[p] :
          LET o == adjust[p][i] IN
          o.to # "D" /\ Base[o.to] \in RetreatConflicts /\ o.unit \notin DOMAIN retreats[p]

\* process, with _advance_phase.  A draw by years records the phase it is found in
\* as well.
Process ==
    /\ InGame(phase)
    /\ \E b \in {Results} : \E n \in 1..Cardinality(Types) : \E later \in {Ahead(n)} :
          /\ HasToStop(b, later) /\ \A m \in 1..(n - 1) : ~HasToStop(b, Ahead(m))
          /\ IF WonIn(b, later) \/ DrawnIn(later)
             THEN phase' = COMPLETED /\ SetBoard(Finished(BoardIn(b, later)))
             ELSE phase' = later /\ SetBoard(BoardIn(b, later))
          /\ Recorded({phase} \cup
                IF DrawnIn(later) /\ ~WonIn(b, later) THEN {later} ELSE {})
    /\ NothingGiven

\* draw.
Draw ==
    /\ InGame(phase)
    /\ phase' = COMPLETED
    /\ SetBoard(Finished(Board))
    /\ Recorded({phase})
    /\ NothingGiven

\* Power.clear_units: the orders of the units stay.
ClearUnits(p) ==
    /\ phase.type \in Clearable /\ phase.year <= MaxYear
    /\ units' = [units EXCEPT ![p] = {}]
    /\ retreats' = [retreats EXCEPT ![p] = Empty]
    /\ hash' = Toggle(hash, Tokens("unit", p, units[p])
                                \cup Tokens("dislodged", p, DOMAIN retreats[p]))
    /\ UNCHANGED <<phase, centers, given, histories>>

\* Power.clear_centers.
ClearCenters(p) ==
    /\ phase.type \in Clearable /\ phase.year <= MaxYear
    /\ centers' = [centers EXCEPT ![p] = {}]
    /\ hash' = Toggle(hash, Tokens("center", p, centers[p]))
    /\ UNCHANGED <<phase, units, retreats, given, histories>>

Loaded(s) ==
    [units |-> s.units, retreats |-> s.retreats, centers |-> s.centers,
     hash |-> HashOf(s.units, s.retreats, s.centers)]

\* set_state, which clears the histories of states and results only.  Bound: a state
\* is set in a phase that was not played.
SetState(s) ==
    /\ s.phase \notin stance_history
    /\ phase' = s.phase
    /\ SetBoard(Loaded(s))
    /\ state_history' = {} /\ result_history' = {}
    /\ NothingGiven
    /\ UNCHANGED stance_history

----------------------------------------------------------------------------

Init ==
    /\ \E s \in Situations :
          /\ phase = s.phase
          /\ units = s.units /\ retreats = s.retreats /\ centers = s.centers
          /\ hash = HashOf(s.units, s.retreats, s.centers)
    /\ orders = [p \in Powers |-> Empty] /\ adjust = NoAdjust
    /\ state_history = {} /\ result_history = {} /\ stance_history = {}

Submit(p) ==
    SetOrders(p) \/ SetRetreatOrders(p) \/ SetAdjustOrders(p) \/ ClearOrders(p)

Next ==
    \/ Process \/ Draw
    \/ \E p \in Powers : Submit(p) \/ ClearUnits(p) \/ ClearCenters(p)
    \/ \E s \in Reloads : SetState(s)

\* A phase ends when its deadline does, whatever the players do, unless its results
\* raise: this is WF_vars(Process), with the guard of Process for ENABLED, which is
\* slow to find.
Deadlines ==
    \/ []<>(~InGame(phase) \/ ResultsRaise)
    \/ []<><<Process>>_vars

Spec == Init /\ [][Next]_vars /\ Deadlines

----------------------------------------------------------------------------
(* Properties.                                                              *)

Orders == [unit : Units, to : Locs \cup {"B", "D"}]

\* The type invariant.
TypeOK ==
    /\ InGame(phase) => phase \in [season : {"SPRING", "FALL", "WINTER"}, year : Nat, type : Types]
    /\ units \in [Powers -> SUBSET Units]
    /\ \A p \in Powers : IsDict(retreats[p], Units, SUBSET Locs)
    /\ centers \in [Powers -> SUBSET Centers]
    /\ \A p \in Powers : IsDict(orders[p], Units, [type : {"H", "-", "S"}, of : Units, to : Locs])
    /\ phase.type = "M" => adjust = NoAdjust
    /\ phase.type \in {"R", "A"} => orders = [p \in Powers |-> Empty]
    /\ \A p \in Powers : adjust[p] \in Seq(Orders)

\* However orders are given and replaced, and retreats and builds resolved, no two
\* units stand in one place: a build finds its place free, and so does a retreat.
OneUnitPerPlace ==
    \A p, o \in Powers : \A x \in units[p], y \in units[o] :
        At(x) = At(y) => p = o /\ x = y

\* The hash updated change by change is that of the board (tests/test_datc.py).
HashMatches == hash = HashOf(units, retreats, centers)

\* A phase with a state has all the rest of its history, and all of them are past
\* (game.py:1048, which asserts more: that set_state clears all the histories).
HistoriesMatch ==
    /\ state_history = result_history /\ state_history \subseteq stance_history
    /\ \A old \in state_history : ComparePhases(old, phase) = -1

\* A phase ends; a state that is set leaves no history.
Ends == phase' # phase /\ state_history' # {}

\* When autumn ends, centres belong to the units that stand on them, the others to their
\* former owners, and none to two powers; and no power begins a year with more units
\* than centres, whatever it ordered.
CentersFollowUnits ==
    /\ [][(Ends /\ phase.season = "FALL" /\ InGame(phase') /\ phase'.season # "FALL") =>
            \A p \in Powers :
                /\ \A x \in units'[p] : At(x) \in Centers => At(x) \in centers'[p]
                /\ \A c \in centers'[p] :
                      \/ \E x \in units'[p] : At(x) = c
                      \/ c \in centers[p]
                      \/ c \in Homes[p] /\ \A o \in Powers : centers[o] = {}
                /\ \A o \in Powers \ {p} : centers'[o] \cap centers'[p] = {}]_vars
    /\ [][(Ends /\ InGame(phase') /\ phase'.year # phase.year) =>
            \A p \in Powers : Cardinality(units'[p]) <= Cardinality(centers'[p])]_vars

\* Every game ends, at the latest with the hundredth year.
GameEnds == <>(phase = COMPLETED)
=============================================================================
