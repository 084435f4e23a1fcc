------------------------------- MODULE Rules -------------------------------
(***************************************************************************)
(* The rules of a movement phase, as equations for the units that move.  A  *)
(* unit is known by its place.  Adjudication shows that the code finds the  *)
(* largest solution of these equations; Turns plays whole games with it.    *)
(***************************************************************************)
EXTENDS Integers, FiniteSets

VARIABLES
    owner,      \* place -> power whose unit is there
    command     \* unit -> its order: to hold, move (convoyed: via), support or convoy

Units == DOMAIN owner

\* Is the order of s to support u, and does u do what is supported?
Supports(s, u) ==
    /\ command[s].type = "S" /\ command[s].of = u
    /\ IF command[u].type = "-" THEN command[s].to = command[u].to /\ command[s].to # u
                                ELSE command[s].to = u

Movers == {u \in Units : command[u].type = "-"}

\* If exactly the units of `moved` move: who is dislodged, and the supports that
\* are not cut.
DislodgedIf(moved) ==
    {u \in Units \ moved : \E v \in moved : command[v].to = u}

\* A support for or against a fleet that convoys an army is not cut by that army.
SparedBy(v, s) ==
    LET fleet == command[s].to IN
    command[v].via /\ fleet \in Units /\ command[fleet].type = "C" /\ command[fleet].of = v

SupportersIf(moved, u) ==
    {s \in Units \ DislodgedIf(moved) :
        /\ Supports(s, u)
        /\ ~\E v \in Movers : /\ command[v].to = s /\ owner[v] # owner[s]
                              /\ command[s].to # v /\ ~SparedBy(v, s)}

StrengthIf(moved, u) == 1 + Cardinality(SupportersIf(moved, u))

\* They attack each other; an army that is convoyed passes.
Opposes(u, v) == /\ u \in Movers /\ v \in Movers /\ ~command[u].via /\ ~command[v].via
                 /\ command[u].to = v /\ command[v].to = u

\* The strength of u against the unit at its destination, which must be more than
\* what that has to stay there.
AttackIf(moved, u) ==
    LET p == command[u].to IN
    IF p \notin Units \/ (p \in moved /\ ~Opposes(u, p)) THEN StrengthIf(moved, u)
    ELSE IF owner[p] = owner[u] THEN 0
    ELSE 1 + Cardinality({s \in SupportersIf(moved, u) : owner[s] # owner[p]})

HoldIf(moved, u) ==
    LET p == command[u].to IN
    IF p \notin Units THEN 0
    ELSE IF Opposes(u, p) THEN StrengthIf(moved, p)
    ELSE IF p \in moved THEN 0
    ELSE IF p \in Movers THEN 1 ELSE StrengthIf(moved, p)

\* What another unit v with the same destination has against u.
PreventIf(moved, v) ==
    IF \E w \in moved : Opposes(v, w) THEN 0 ELSE StrengthIf(moved, v)

\* The units of `moved`, and no others, win where they go.
Solution(moved) ==
    \A u \in Movers : u \in moved <=>
        /\ AttackIf(moved, u) > HoldIf(moved, u)
        /\ \A v \in Movers \ {u} : command[v].to = command[u].to =>
              AttackIf(moved, u) > PreventIf(moved, v)

\* Nobody stays at p or enters it, and nobody bounced off it: those who bounced
\* off its unit in a swap do not count.
FreeIf(moved, p) ==
    /\ p \in Units => p \in moved
    /\ \A v \in moved : command[v].to # p
    /\ \A v \in Movers \ moved :
          command[v].to = p => \E w \in moved : Opposes(v, w)

\* What the code finds: of several solutions the one in which most units move.
Outcome ==
    CHOOSE moved \in SUBSET Movers :
        /\ Solution(moved)
        /\ \A other \in SUBSET Movers : Solution(other) => other \subseteq moved
=============================================================================
