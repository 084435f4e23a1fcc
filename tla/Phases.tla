------------------------------- MODULE Phases -------------------------------
(***************************************************************************)
(* The phases of a game and their order, from diplomacy/engine/map.py.      *)
(***************************************************************************)
EXTENDS Integers, FiniteSets

\* Map.seq.  NEWYEAR is its first entry: a cycle that passes it adds a year.
Flow ==
    [i \in 0..5 |->
        IF i = 0 THEN [season |-> "NEWYEAR", type |-> "-"]
        ELSE [season |-> IF i <= 2 THEN "SPRING" ELSE IF i <= 4 THEN "FALL" ELSE "WINTER",
              type |-> IF i = 5 THEN "A" ELSE IF i % 2 = 1 THEN "M" ELSE "R"]]

Types == {"M", "R", "A"}

FORMING == [season |-> "FORMING", year |-> 0, type |-> "-"]
COMPLETED == [season |-> "COMPLETED", year |-> 0, type |-> "-"]

InGame(phase) == phase \notin {FORMING, COMPLETED}

Index(phase) ==
    CHOOSE i \in DOMAIN Flow : Flow[i] = [season |-> phase.season, type |-> phase.type]

\* Mutant: no year passes.
EntrySameYear(phase, n) ==
    LET i == Index(phase) + n IN
    [season |-> Flow[i % 6].season, year |-> phase.year, type |-> Flow[i % 6].type]

\* The entry of the flow n steps after a phase, or before it.
Entry(phase, n) ==
    LET i == Index(phase) + n IN
    [season |-> Flow[i % 6].season, year |-> phase.year + i \div 6, type |-> Flow[i % 6].type]

\* The loop of find_next_phase and find_previous_phase, which skips some of the
\* phases of the types it looks for.
Search(phase, sign, types, skip) ==
    LET found == {n \in 1..(6 * (skip + 1)) : Entry(phase, sign * n).type \in types} IN
    IF ~InGame(phase) THEN phase
    ELSE Entry(phase, sign * CHOOSE n \in found :
                          Cardinality({k \in found : k <= n}) = skip + 1)

FindNextPhase(phase, types, skip) == Search(phase, 1, types, skip)
FindPreviousPhase(phase, types, skip) == Search(phase, -1, types, skip)

Sign(n) == IF n > 0 THEN 1 ELSE IF n < 0 THEN -1 ELSE 0

\* FORMING comes before all phases of a game, and COMPLETED after them.
Rank(phase) == IF phase = FORMING THEN 1 ELSE IF phase = COMPLETED THEN 3 ELSE 2

\* Between two seasons of a year there is no NEWYEAR in this flow.
ComparePhases(one, other) ==
    IF ~InGame(one) \/ ~InGame(other) THEN Sign(Rank(one) - Rank(other))
    ELSE IF one.year # other.year THEN Sign(one.year - other.year)
    ELSE Sign(Index(one) - Index(other))
=============================================================================
