---------------------------- MODULE Adjudication ----------------------------
(***************************************************************************)
(* The resolution of a movement phase, Game._resolve_moves of               *)
(* diplomacy/engine/game.py and the methods it calls, then the retreats and *)
(* the moves of Game._move_results.  The steps have the numbers of the      *)
(* comments in the code.                                                    *)
(*                                                                          *)
(* Where the outcome may depend on the order in which Python visits a       *)
(* dictionary or a set, each visit is an action of its own or the order is   *)
(* chosen, and the visits come in any order.                                *)
(***************************************************************************)
EXTENDS Convoys, Dicts

CONSTANTS
    Powers,
    Situations,  \* the positions to resolve: dicts place -> power of its unit
    OrderTypes   \* bound of this model: place -> the types of order its unit is given

ASSUME AdjudicationAssumption ==
    /\ \A s \in Situations : IsDict(s, Places, Powers) /\ DOMAIN s # {}
    /\ OrderTypes \in [Places -> SUBSET {"H", "-", "S", "C"}]

VARIABLES
    result,     \* Game.result: unit -> its results so far
    supports,   \* Game.supports: unit -> number of its valid supports
    no_help,    \* Game.supports: unit -> those not counted for a dislodgement
    combat,     \* Game.combat: dict <<unit, place>> -> strength of the unit there
    convoy_paths,  \* Game.convoy_paths: dict army -> the paths left to it
    may_convoy, \* dict army -> the fleets that may carry it, as they are visited
    cutters,    \* the convoyed armies that have cut the support they attack
    dislodged,  \* Game.dislodged: dict unit -> place of its attacker
    retreats,   \* Power.retreats: dict unit -> places it may retreat to
    next,       \* the next step
    left,       \* places or units this pass has still to visit
    site        \* the place to unbounce

orders == <<owner, command, convoy_paths, may_convoy, cutters>>
strengths == <<supports, no_help, combat>>
control == <<next, left, site>>
vars == <<orders, result, strengths, dislodged, retreats, control>>

\* Has the unit u a move that did not fail so far?
Moving(u) == command[u].type = "-" /\ result[u] = {}

Mark(units, mark) == [u \in Units |-> result[u] \cup IF u \in units THEN {mark} ELSE {}]

\* _is_moving_via_convoy: there is a path left.
MovesViaConvoy(u) ==
    command[u].type = "-" /\ u \in DOMAIN convoy_paths /\ convoy_paths[u] # <<>>

\* The entries of Game.combat at a place, and the strongest of them.
EntriesAt(p) == {e \in DOMAIN combat : e[2] = p}

Strongest(p) == {e \in EntriesAt(p) : \A f \in EntriesAt(p) : combat[e] >= combat[f]}

----------------------------------------------------------------------------
(* Step 1: convoys.  Step 2: supports.                                      *)

\* The fleets that may carry u.
Carriers(u) == UNION ConvoyPaths(u)

\* Step 1: an army with no path loses its VIA, and has no convoy if it cannot go by
\* land; the convoy orders that are of no use are void.
MatchConvoys ==
    /\ next = "convoy"
    /\ LET carried == {u \in MovingArmies : ConvoyPaths(u) # {}}
           alone == MovingArmies \ carried
           void == {c \in Units : /\ command[c].type = "C"
                                  /\ LET u == command[c].of IN u \in carried => c \notin Carriers(u)}
           useless == {c \in void : c \in Convoying(command[c].of)
                                       /\ command[c].of \in MovingArmies}
       IN /\ command' = [u \in Units |-> IF u \in alone THEN Move(u, command[u].to) ELSE command[u]]
          /\ result' = [u \in Units |->
                 Mark({a \in alone : command[a].to \notin Reach(a)} \cup useless, "no convoy")[u]
                     \cup IF u \in void THEN {"void"} ELSE {}]
          /\ \E paths \in [carried -> UNION {Sorted(ConvoyPaths(u)) : u \in carried}] :
                /\ \A u \in carried : paths[u] \in Sorted(ConvoyPaths(u))
                /\ convoy_paths' = paths
          /\ \E fleets \in [carried -> UNION {SetToSeqs(Carriers(u)) : u \in carried}] :
                /\ \A u \in carried : fleets[u] \in SetToSeqs(Carriers(u))
                /\ may_convoy' = fleets
    /\ next' = "count"
    /\ UNCHANGED <<owner, cutters, strengths, dislodged, retreats, left, site>>

\* Step 2: inconsistent supports are void, as are those of an army without convoy.
\* Supports of a move against a unit of the supporting power count, but not to
\* dislodge it; those of a move with VIA do, as the code takes that for the place.
CountSupports ==
    /\ next = "count"
    /\ LET void == {s \in Units :
                /\ command[s].type = "S"
                /\ \/ ~Supports(s, command[s].of)
                   \/ command[s].of \in MovingArmies /\ "no convoy" \in result[command[s].of]}
           helpers(u) == {s \in Units \ void : Supports(s, u)}
       IN
       /\ supports' = [u \in Units |-> Cardinality(helpers(u))]
       /\ no_help' = [u \in Units |->
             {s \in helpers(u) : /\ command[u].type = "-" /\ ~command[u].via
                                 /\ command[u].to \in Units
                                 /\ owner[s] = owner[command[u].to]}]
       /\ result' = Mark(void, "void")
    /\ next' = "cut"
    /\ UNCHANGED <<orders, combat, dislodged, retreats, left, site>>

----------------------------------------------------------------------------
(* Steps 3 to 5: cut supports and disrupted convoys.                        *)

\* A convoyed army does not cut support for or against a fleet it needs.
Spares(u, s) ==
    LET fleet == command[s].to IN
    /\ MovesViaConvoy(u)
    /\ fleet \in Fleets \cap Units /\ command[fleet].type = "C" /\ "void" \notin result[fleet]
    /\ \A i \in DOMAIN convoy_paths[u] : fleet \in convoy_paths[u][i]

\* Mutant: a support is cut although it is void.
CutsVoid(u, s) ==
    /\ command[u].type = "-" /\ command[u].to = s
    /\ command[s].type = "S"
    /\ owner[u] # owner[s]
    /\ command[s].to # u

\* _cut_support: the move of u cuts the support of s, unless that is given by the
\* power of u, or for a move against u.
Cuts(u, s) ==
    /\ command[u].type = "-" /\ command[u].to = s
    /\ command[s].type = "S" /\ result[s] \cap {"cut", "void"} = {}
    /\ owner[u] # owner[s]
    /\ command[s].to # u
    /\ ~Spares(u, s)

\* The cuts of the attackers; those in freed have their marks taken away first.
CutBy(attackers, freed) ==
    LET cut == {s \in Units : \E u \in attackers : Cuts(u, s)} IN
    /\ result' = [u \in Units |-> IF u \in freed THEN {} ELSE Mark(cut, "cut")[u]]
    /\ supports' = [u \in Units |->
          supports[u] - Cardinality({s \in cut : command[s].of = u})]
    /\ no_help' = [u \in Units |-> no_help[u] \ cut]

\* Step 3.
CutSupports ==
    /\ next = "cut"
    /\ CutBy({u \in Units : Moving(u) /\ ~MovesViaConvoy(u)}, {})
    /\ next' = "strengths"
    /\ UNCHANGED <<orders, combat, dislodged, retreats, left, site>>

\* _strengths: every unit fights where it goes or stays.
Strengths ==
    /\ next \in {"strengths", "laststrengths"}
    /\ combat' = [e \in {<<u, command[u].to>> : u \in {v \in Units : Moving(v)}}
                        \cup {<<u, u>> : u \in {v \in Units : ~Moving(v)}}
                    |-> 1 + supports[e[1]]]
    /\ next' = IF next = "strengths" /\ DOMAIN may_convoy # {} THEN "maybe" ELSE "swap"
    /\ UNCHANGED <<orders, result, supports, no_help, dislodged, retreats, left, site>>

\* The fleets in the convoy of u that are disrupted, the paths left to u after each of its
\* fleets is visited, and whether u has to stay.
Disrupted(u) ==
    {c \in Range(may_convoy[u]) : IsDisrupted(u, c, {e[1] : e \in Strongest(c)})}

PathsAfter(u) == PathsLeft(convoy_paths[u], may_convoy[u], Disrupted(u))

MustStay(u) ==
    \E n \in DOMAIN may_convoy[u] : LET fleet == may_convoy[u][n] IN
        /\ fleet \in Disrupted(u) /\ PathsAfter(u)[n] = <<>>
        /\ command[u].to \notin Reach(u) \/ command[u].via \/ SupportsAttack(u, fleet)

\* _check_disruptions: an army whose convoy is disrupted is marked, and the fleets, if
\* there is a mark for them.
CheckDisruptions(mark, fleetMark) ==
    LET armies == DOMAIN may_convoy
    IN /\ convoy_paths' = [u \in armies |-> PathsAfter(u)[Len(may_convoy[u])]]
       /\ result' = [v \in Units |->
              IF v \in armies /\ MustStay(v) THEN {mark}
              ELSE IF \E u \in armies : v \in Disrupted(u) /\ fleetMark # {} THEN fleetMark
              ELSE result[v]]

\* Step 4: the convoys that may be disrupted.
DisruptMaybe ==
    /\ next = "maybe"
    /\ CheckDisruptions("maybe", {})
    /\ next' = "convoycut"
    /\ UNCHANGED <<owner, command, may_convoy, cutters, strengths, dislodged, retreats, left, site>>

\* Step 4, the cuts of the convoyed armies; after any, the strengths are found again.
CutByConvoyed ==
    /\ next = "convoycut"
    /\ LET fresh == {u \in DOMAIN may_convoy : result[u] = {} /\ u \notin cutters} IN
       /\ CutBy(fresh, {})
       /\ cutters' = cutters \cup fresh
       /\ next' = IF fresh # {} THEN "strengths" ELSE "definite"
    /\ UNCHANGED <<owner, command, convoy_paths, may_convoy, combat, dislodged, retreats, left, site>>

\* Step 5: the convoys that are disrupted.
DisruptDefinite ==
    /\ next = "definite"
    /\ CheckDisruptions("no convoy", {"disrupted"})
    /\ next' = "cancel" /\ left' = DOMAIN may_convoy
    /\ UNCHANGED <<owner, command, may_convoy, cutters, strengths, dislodged, retreats, site>>

\* An army has no convoy: who helps it helps nobody.
Strand(u) ==
    /\ result' = Mark({s \in Units : /\ command[s].type \in {"S", "C"} /\ command[s].of = u
                                     /\ result[s] = {}}, "no convoy")
    /\ supports' = [supports EXCEPT ![u] = 0]
    /\ no_help' = [no_help EXCEPT ![u] = {}]
    /\ UNCHANGED <<cutters, next>>

\* An army that step 4 marked has a convoy after all.  (The paths that step 4 removed it
\* does not get back.)
Free(u) ==
    /\ CutBy({u}, {u})
    /\ cutters' = cutters \cup {u}
    /\ next' = "again"

\* Step 5, the rest: one visit, or the end of the pass, after which there is another one
\* if an army was freed.
CancelConvoys ==
    /\ next \in {"cancel", "again"}
    /\ UNCHANGED <<owner, command, convoy_paths, may_convoy, combat, dislodged, retreats, site>>
    /\ \/ /\ left = {}
          /\ next' = IF next = "again" THEN "strengths" ELSE "laststrengths"
          /\ UNCHANGED <<result, supports, no_help, cutters, left>>
       \/ \E u \in left :
          LET stranded == "no convoy" \in result[u]
              freed == ~stranded /\ "maybe" \in result[u] /\ u \notin cutters
          IN /\ left' = left \ {u}
             /\ \/ stranded /\ Strand(u)
                \/ freed /\ Free(u)
                \/ ~stranded /\ ~freed /\ UNCHANGED <<result, supports, no_help, cutters, next>>

----------------------------------------------------------------------------
(* Steps 6 to 8, _bounce.  After step 6 at least one of two swappers has     *)
(* bounced, so that there is nothing left for it when the code repeats it.  *)

\* _boing: the units that bounce also stay where they are, with strength one.
Bounced(units) ==
    [e \in DOMAIN combat \cup {<<u, u>> : u \in units} |->
        IF e \in DOMAIN combat THEN combat[e] ELSE 1]

HeadToHead(u, v) ==
    /\ Moving(u) /\ command[u].to = v
    /\ ~MovesViaConvoy(u) /\ ~MovesViaConvoy(v)
    /\ v \in Units /\ Moving(v) /\ command[v].to = u

\* u does not dislodge v from the place they attack each other for.
LosesSwap(u, v) ==
    \/ owner[u] = owner[v] \/ supports[u] = supports[v]
    \/ supports[u] - Cardinality(no_help[u]) <= supports[v] - Cardinality(no_help[v])

\* Step 6: units that swap places bounce, but for one that is stronger.
BounceSwappers ==
    /\ next = "swap"
    /\ LET swappers == {u \in Units : \E v \in Units : HeadToHead(u, v)}
           losers == {u \in swappers : LosesSwap(u, command[u].to)}
           void == UNION {no_help[u] : u \in swappers}
       IN /\ result' = [u \in Units |->
                Mark(losers, "bounce")[u] \cup IF u \in void THEN {"void"} ELSE {}]
          /\ combat' = Bounced(losers)
    /\ next' = "outgun"
    /\ UNCHANGED <<orders, supports, no_help, dislodged, retreats, left, site>>

\* A unit that is not the only strongest where it goes.
Outgunned(u) ==
    /\ Moving(u)
    /\ Strongest(command[u].to) # {<<u, command[u].to>>}

\* Mutant: a unit that bounced may be found once more.
SelfDislodgesAgain(u) ==
    LET p == command[u].to IN
    /\ command[u].type = "-" /\ Strongest(p) = {<<u, p>>}
    /\ p \in Units /\ ~Moving(p)
    /\ owner[u] = owner[p]

\* Step 8: who wins a place alone, but would dislodge a unit of its own power, or
\* only with the help of the power it attacks.
SelfDislodges(u) ==
    LET p == command[u].to IN
    /\ Moving(u) /\ Strongest(p) = {<<u, p>>}
    /\ p \in Units /\ ~Moving(p)
    /\ \/ owner[u] = owner[p]
       \/ \E e \in EntriesAt(p) :
             /\ e[1] # u
             /\ combat[<<u, p>>] - Cardinality(no_help[u]) <= combat[e]

\* Step 7: outgunned units bounce, until there are none.  More units that stay
\* outgun more: the order in which they are found does not matter.
BounceOutgunned ==
    /\ next = "outgun"
    /\ LET losers == {u \in Units : Outgunned(u)} IN
       /\ result' = Mark(losers, "bounce")
       /\ combat' = Bounced(losers)
       /\ IF losers # {} THEN UNCHANGED <<next, left>>
          ELSE /\ left' = {u \in Units : Moving(u) /\ command[u].to \in Units}
               /\ next' = IF \E u \in Units : SelfDislodges(u) THEN "self" ELSE "dislodgecut"
    /\ UNCHANGED <<orders, supports, no_help, dislodged, retreats, site>>

\* One visit of step 8; after a pass in which a unit bounced, back to step 7.
BounceSelfDislodger ==
    /\ next = "self"
    /\ UNCHANGED <<orders, supports, no_help, dislodged, retreats, site>>
    /\ \/ /\ left = {}
          /\ next' = "outgun"
          /\ UNCHANGED <<result, combat, left>>
       \/ \E u \in left :
          /\ left' = left \ {u}
          /\ UNCHANGED next
          /\ IF SelfDislodges(u)
             THEN /\ result' = [v \in Units |->
                        Mark({u}, "bounce")[v] \cup
                            IF v \in no_help[u] THEN {"void"} ELSE {}]
                  /\ combat' = Bounced({u})
             ELSE UNCHANGED <<result, combat>>

----------------------------------------------------------------------------
(* Steps 9 and 10: what units that moved dislodge.                          *)

\* The units step 10 has to visit: those that move, and those that bounced off a
\* place that may become free.
MayMove ==
    {u \in Units : /\ command[u].type = "-"
                   /\ \/ Moving(u)
                      \/ command[u].to \in Units /\ command[command[u].to].type = "-"}

\* Mutant: a unit that is dislodged goes on supporting.
DislodgeCutsNothing ==
    /\ next = "dislodgecut"
    /\ left' = MayMove
    /\ next' = "dislodge"
    /\ UNCHANGED <<orders, result, strengths, dislodged, retreats, site>>

\* Step 9: a unit that is dislodged does not support; then step 7 again.  An army with
\* VIA only takes away support against the place it comes from.
CutByDislodging ==
    /\ next = "dislodgecut"
    /\ LET victims == {s \in Units : /\ command[s].type = "S" /\ result[s] = {}
                                    /\ \E u \in Units :
                                          /\ Moving(u) /\ command[u].to = s
                                          /\ command[u].via => command[s].to = u}
           lost(e) == {s \in victims : <<command[s].of, command[s].to>> = e}
       IN /\ result' = Mark(victims, "cut")
          /\ combat' = [e \in DOMAIN combat |-> combat[e] - Cardinality(lost(e))]
          /\ no_help' = [u \in Units |-> no_help[u] \ victims]
          /\ IF victims # {}
             THEN next' = "outgun" /\ UNCHANGED left
             ELSE next' = "dislodge" /\ left' = MayMove
    /\ UNCHANGED <<orders, supports, dislodged, retreats, site>>

\* A unit dislodged by the one it attacked has no effect on the place of that.
WithoutLoser(u, loser) ==
    IF /\ command[loser].type = "-" /\ command[loser].to = u
       /\ ~MovesViaConvoy(u) /\ ~MovesViaConvoy(loser)
    THEN Drop(combat, <<loser, u>>) ELSE combat

\* After u left: if others want its place, the next step is to unbounce one.
Vacate(u, fights) ==
    IF \E e \in DOMAIN fights : e[2] = u
    THEN next' = "unbounce" /\ site' = u ELSE next' = "dislodge" /\ UNCHANGED site

\* Step 10, one visit: the move of u succeeds, and dislodges who is still there.
Dislodge ==
    /\ next = "dislodge"
    /\ \E u \in left :
          /\ left' = left \ {u}
          /\ UNCHANGED <<orders, supports, no_help, retreats>>
          /\ IF ~Moving(u) THEN UNCHANGED <<result, combat, dislodged, next, site>>
             ELSE LET p == command[u].to IN
                  IF p \in Units /\ ~Moving(p)
                  THEN /\ result' = [v \in Units |->
                             (Mark({p}, "dislodged")[v] \ IF v = p THEN {"disrupted"} ELSE {})
                                 \cup IF v \in no_help[u] THEN {"void"} ELSE {}]
                       /\ dislodged' = Put(dislodged, p, u)
                       /\ combat' = WithoutLoser(u, p)
                       /\ Vacate(u, combat')
                  ELSE /\ UNCHANGED <<result, combat, dislodged>>
                       /\ Vacate(u, combat)

\* Mutant: a unit that leaves its place after all is still dislodged from it.
UnbounceDislodged ==
    /\ next = "unbounce"
    /\ UNCHANGED <<orders, supports, no_help, dislodged, retreats, left>>
    /\ IF \E e \in Strongest(site) : Strongest(site) = {e} /\ "bounce" \in result[e[1]]
       THEN \E e \in Strongest(site) : LET u == e[1] IN
            /\ result' = [result EXCEPT ![u] = @ \ {"bounce", "dislodged"}]
            /\ combat' = Drop(combat, <<u, u>>)
            /\ Vacate(u, combat')
       ELSE next' = "dislodge" /\ UNCHANGED <<result, combat, site>>

\* _unbounce: the strongest of those that bounced off the place may enter it now;
\* its own place is free then, unless its attacker is there already.
Unbounce ==
    /\ next = "unbounce"
    /\ UNCHANGED <<orders, supports, no_help, retreats, left>>
    /\ IF \E e \in Strongest(site) : Strongest(site) = {e} /\ "bounce" \in result[e[1]]
       THEN \E e \in Strongest(site) : LET u == e[1] IN
            IF u \in DOMAIN dislodged
            THEN /\ result' = [result EXCEPT ![u] = @ \ {"bounce", "dislodged"}]
                 /\ dislodged' = Drop(dislodged, u)
                 /\ next' = "dislodge"
                 /\ UNCHANGED <<combat, site>>
            ELSE /\ result' = [result EXCEPT ![u] = @ \ {"bounce"}]
                 /\ combat' = Drop(combat, <<u, u>>)
                 /\ Vacate(u, combat')
                 /\ UNCHANGED dislodged
       ELSE /\ next' = "dislodge"
            /\ UNCHANGED <<result, combat, dislodged, site>>

----------------------------------------------------------------------------
(* _move_results, after the moves are resolved.                             *)

\* Where a dislodged unit may go: a place that nobody fought for, other than the
\* place of its attacker; anywhere, if that was convoyed.
RetreatsOf(u) ==
    {p \in Reach(u) : \/ EntriesAt(p) = {} /\ p # dislodged[u]
                      \/ MovesViaConvoy(dislodged[u])}

\* A unit that has no retreat is destroyed.
Retreat ==
    /\ next = "dislodge" /\ left = {}
    /\ retreats' = [u \in {v \in DOMAIN dislodged : RetreatsOf(v) # {}} |-> RetreatsOf(u)]
    /\ next' = "done"
    /\ UNCHANGED <<orders, result, strengths, dislodged, left, site>>

----------------------------------------------------------------------------

\* Step 0: nobody has an order yet.
Init ==
    /\ owner \in Situations
    /\ command = Empty
    /\ result = [u \in Units |-> {}]
    /\ supports = [u \in Units |-> 0]
    /\ no_help = [u \in Units |-> {}]
    /\ convoy_paths = Empty /\ may_convoy = Empty /\ cutters = {}
    /\ combat = Empty /\ dislodged = Empty /\ retreats = Empty
    /\ next = "orders" /\ left = Units /\ site = CHOOSE u \in Units : TRUE

\* Step 0: each unit has any valid order of the types it is given, or holds.
GiveOrder ==
    /\ next = "orders"
    /\ LET u == CHOOSE v \in left : TRUE IN
       /\ \E order \in ValidOrders(u) :
             order.type \in OrderTypes[u] /\ command' = Put(command, u, order)
       /\ left' = left \ {u}
    /\ next' = IF left' = {} THEN "convoy" ELSE "orders"
    /\ UNCHANGED <<owner, convoy_paths, may_convoy, cutters, result, strengths, dislodged, retreats, site>>

Done == next = "done"

\* A resolved phase is the end.
Next ==
    \/ GiveOrder \/ MatchConvoys \/ CountSupports \/ CutSupports \/ Strengths
    \/ DisruptMaybe \/ CutByConvoyed \/ DisruptDefinite \/ CancelConvoys
    \/ BounceSwappers \/ BounceOutgunned \/ BounceSelfDislodger
    \/ CutByDislodging \/ Dislodge \/ Unbounce \/ Retreat
    \/ Done /\ UNCHANGED vars

Spec == Init /\ [][Next]_vars

\* The code runs to its end: it takes steps until it is done.  (This is WF_vars(Next),
\* whose ENABLED is slow to find.  No state but the last is without a step that changes
\* it: any other would be a deadlock.)
FairSpec == Spec /\ ([]<><<Next>>_vars \/ []<>Done)

----------------------------------------------------------------------------
(* Properties.                                                              *)

Moved == {u \in Units : Moving(u)}

\* Armies that stay for want of a convoy, and who wanted to help them, hold, as do fleets
\* that an army does not need, having other paths; armies that are convoyed are marked.
Effective ==
    [u \in Units |->
        LET fails(a) == command[a].type = "-" /\ "no convoy" \in result[a] IN
        IF fails(u) \/ (command[u].type \in {"S", "C"} /\ fails(command[u].of))
             \/ /\ command[u].type = "C"
                /\ \/ "void" \in result[u]
                   \/ LET army == command[u].of IN
                      /\ MovesViaConvoy(army)
                      /\ \E i \in DOMAIN convoy_paths[army] : u \notin convoy_paths[army][i]
        THEN Hold(u) ELSE [command[u] EXCEPT !.via = MovesViaConvoy(u)]]

Rule(effective) == INSTANCE Rules WITH command <- effective

\* Steps 4 and 5 are not over.
Settling == next \in {"strengths", "maybe", "convoycut", "definite", "cancel", "again",
                     "laststrengths"}

\* The type invariant.  Supports are counted down below none only while the convoys are
\* not settled: an army freed in step 5 may cut the support of one that is stranded.
TypeOK ==
    /\ owner \in Situations
    /\ IsDict(command, Units, [type : {"H", "-", "S", "C"}, of : Units, to : Places, via : BOOLEAN])
    /\ result \in [Units -> SUBSET {"void", "cut", "bounce", "dislodged",
                                    "no convoy", "maybe", "disrupted"}]
    /\ supports \in [Units -> IF Settling THEN Int ELSE Nat]
    /\ no_help \in [Units -> SUBSET Units]
    /\ IsDict(combat, Units \X Places, IF Settling THEN Int ELSE Nat \ {0})
    /\ DOMAIN convoy_paths = DOMAIN may_convoy /\ DOMAIN may_convoy \subseteq Units
    /\ cutters \subseteq DOMAIN may_convoy
    /\ \A u \in DOMAIN may_convoy : Range(may_convoy[u]) \subseteq Units \cap Water
    /\ IsDict(dislodged, Units, Units)
    /\ IsDict(retreats, Units, SUBSET Places)
    /\ left \subseteq Units /\ site \in Units

\* The orders a player is offered are valid, and all valid ones are but the moves by
\* convoy that do not say so, and supports of an army the supporter would have to carry.
OffersAreValid ==
    next = "orders" /\ left = Units => \A u \in Units :
        PossibleOrders(u) = ValidOrders(u)
            \ {o \in ValidOrders(u) :
                  \/ o.type = "-" /\ ~o.via /\ o.to \notin Reach(u)
                  \/ /\ o.type = "S" /\ o.of # o.to /\ o.to \notin Reach(o.of)
                     /\ \A F \in Possible(o.of, o.to) : u \in F}

\* A power supports a move with VIA against a unit of its own.
HelpsAgainstOwn ==
    \E s, u \in Units : /\ command[u].via /\ Supports(s, u)
                        /\ command[u].to \in Units /\ owner[command[u].to] = owner[s]

\* The rules have a solution, and the adjudicator finds it, whatever the order of
\* its dictionaries: of several solutions the one in which most units move, as
\* those do that follow each other in a circle.  (But for OwnHelpDislodgesNot.)
FollowsRules ==
    Done /\ ~HelpsAgainstOwn =>
        LET effective == Effective IN
        /\ Rule(effective)!Solution(Moved)
        /\ \A moved \in SUBSET Rule(effective)!Movers :
              Rule(effective)!Solution(moved) => moved \subseteq Moved

\* An army that is convoyed where it could not go by land has been carried by fleets
\* none of which is dislodged.
CarriedRightly ==
    Done => \A u \in Moved \ Fleets :
        command[u].to \notin Reach(u) =>
            \E F \in Possible(u, command[u].to) :
                F \subseteq Convoying(u) \ DOMAIN dislodged

\* No two units share a place afterwards: those that moved went to different places, and
\* the dislodged units are those whose place one of them has taken, each with the place
\* its attacker came from.  Each may retreat to any neighbouring place that is free after
\* the moves, unless its attacker came from there, or units bounced off it.  (If the
\* attacker was convoyed, the code lets it go anywhere; see RetreatsFree.)
DislodgedRightly ==
    Done =>
        LET effective == Effective IN
        /\ \A u, v \in Moved : command[u].to = command[v].to => u = v
        /\ DOMAIN dislodged = DislodgedIf(Moved)
        /\ \A u \in DOMAIN dislodged :
              /\ dislodged[u] \in Moved /\ command[dislodged[u]].to = u
              /\ "dislodged" \in result[u]
              /\ ~MovesViaConvoy(dislodged[u]) =>
                    (IF u \in DOMAIN retreats THEN retreats[u] ELSE {}) =
                        {p \in Reach(u) : p # dislodged[u] /\ Rule(effective)!FreeIf(Moved, p)}

\* What a comment says of the supports of a power for a move against its own unit: they
\* are "not counted toward dislodgment".  (They are, if the move says VIA.)
OwnHelpDislodgesNot ==
    Done => \A u \in DOMAIN dislodged :
        \E s \in Units : Supports(s, dislodged[u]) /\ owner[s] # owner[u]

\* What a test says of retreats: "Stand off prevents retreat to the area."  (A unit
\* that a convoyed army dislodged may retreat there.)
RetreatsFree ==
    Done => LET effective == Effective IN
            \A u \in DOMAIN retreats : \A p \in retreats[u] :
                p \notin Units => Rule(effective)!FreeIf(Moved, p)

\* The `while` loops of _bounce and _resolve_moves end.
Terminates == <>Done
=============================================================================
