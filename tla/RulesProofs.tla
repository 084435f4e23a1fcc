---------------------------- MODULE RulesProofs ----------------------------
(***************************************************************************)
(* The equations of Rules have a largest solution, whatever is ordered, so  *)
(* that the outcome of a movement phase is defined; and in a solution no    *)
(* two units end in one place.                                              *)
(*                                                                         *)
(* Attacks, holds and preventions depend on the units that move in two      *)
(* ways.  That a unit leaves its place, or loses against the unit it        *)
(* opposes, only makes it easier for others to move.  That a giver of a     *)
(* support is dislodged does not, but which givers are is the same in all   *)
(* solutions: an uncut support is given up only to a unit at the place      *)
(* where it is given (or, a convoy being there, to a convoyed army), so the *)
(* fight for a place whose unit supports knows no lost supports.  Hence the *)
(* solutions are the fixed points of a monotone operator.                   *)
(***************************************************************************)
EXTENDS Rules, FiniteSetTheorems, TLAPS

\* The units of a phase, and what is asked of their orders.
Orderly ==
    /\ IsFiniteSet(Units)
    /\ \A u \in Units : command[u].via \in BOOLEAN

----------------------------------------------------------------------------
(* The same terms for any set of units that give no support.                *)

\* Those who support u, and whom nobody cuts by an attack.
Uncut(u) ==
    {s \in Units :
        /\ Supports(s, u)
        /\ ~\E v \in Movers : /\ command[v].to = s /\ owner[v] # owner[s]
                              /\ command[s].to # v /\ ~SparedBy(v, s)}

Strength(gone, u) == 1 + Cardinality(Uncut(u) \ gone)

Attack(gone, moved, u) ==
    LET p == command[u].to IN
    IF p \notin Units \/ (p \in moved /\ ~Opposes(u, p)) THEN Strength(gone, u)
    ELSE IF owner[p] = owner[u] THEN 0
    ELSE 1 + Cardinality({s \in Uncut(u) \ gone : owner[s] # owner[p]})

Hold(gone, moved, u) ==
    LET p == command[u].to IN
    IF p \notin Units THEN 0
    ELSE IF Opposes(u, p) THEN Strength(gone, p)
    ELSE IF p \in moved THEN 0
    ELSE IF p \in Movers THEN 1 ELSE Strength(gone, p)

Prevent(gone, moved, v) ==
    IF \E w \in moved : Opposes(v, w) THEN 0 ELSE Strength(gone, v)

Wins(gone, moved, u) ==
    /\ Attack(gone, moved, u) > Hold(gone, moved, u)
    /\ \A v \in Movers \ {u} : command[v].to = command[u].to =>
          Attack(gone, moved, u) > Prevent(gone, moved, v)

Supporter(s) == s \in Units /\ command[s].type = "S"

\* Those who support and are in `gone` are attacked by another power.
Attacked(gone) ==
    \A s \in gone : Supporter(s) =>
        \E v \in Movers : command[v].to = s /\ owner[v] # owner[s]

\* The supporters that are dislodged when no support is lost.
Overrun ==
    {s \in Units : Supporter(s) /\ \E v \in Movers : command[v].to = s /\ Wins({}, {}, v)}

----------------------------------------------------------------------------

\* The uncut supporters of a unit are finitely many.
LEMMA UncutFinite ==
    ASSUME Orderly, NEW u, NEW gone
    PROVE  /\ IsFiniteSet(Uncut(u) \ gone)
           /\ Cardinality(Uncut(u) \ gone) \in Nat
           /\ Strength(gone, u) \in Nat /\ Strength(gone, u) >= 1
  <1>1. IsFiniteSet(Uncut(u) \ gone)
    BY FS_Subset DEF Uncut, Orderly
  <1>2. Cardinality(Uncut(u) \ gone) \in Nat
    BY <1>1, FS_CardinalityType
  <1> QED BY <1>1, <1>2 DEF Strength

\* An attack is at most as strong as the unit.
LEMMA AttackBound ==
    ASSUME Orderly, NEW u, NEW gone, NEW moved
    PROVE  /\ Attack(gone, moved, u) \in Nat
           /\ Attack(gone, moved, u) <= Strength(gone, u)
  <1> DEFINE some == {s \in Uncut(u) \ gone : owner[s] # owner[command[u].to]}
  <1>1. /\ IsFiniteSet(some) /\ Cardinality(some) \in Nat
        /\ Cardinality(some) <= Cardinality(Uncut(u) \ gone)
    BY UncutFinite, FS_Subset, FS_CardinalityType
  <1>2. Attack(gone, moved, u) \in {Strength(gone, u), 0, 1 + Cardinality(some)}
    BY DEF Attack
  <1> HIDE DEF some
  <1> QED BY <1>1, <1>2, UncutFinite DEF Strength

\* The strength to hold a place is a number.
LEMMA HoldType ==
    ASSUME Orderly, NEW u, NEW gone, NEW moved
    PROVE  Hold(gone, moved, u) \in Nat
  BY UncutFinite DEF Hold

\* So is the strength to prevent a move.
LEMMA PreventType ==
    ASSUME Orderly, NEW u, NEW gone, NEW moved
    PROVE  Prevent(gone, moved, u) \in Nat
  BY UncutFinite DEF Prevent

\* Solutions in the terms of this module.
LEMMA SolutionWins ==
    ASSUME NEW moved
    PROVE  Solution(moved) <=>
              \A u \in Movers : u \in moved <=> Wins(DislodgedIf(moved), moved, u)
  <1>1. \A u : SupportersIf(moved, u) = Uncut(u) \ DislodgedIf(moved)
    BY DEF SupportersIf, Uncut
  <1>2. \A u : StrengthIf(moved, u) = Strength(DislodgedIf(moved), u)
    BY <1>1 DEF StrengthIf, Strength
  <1>3. \A u : AttackIf(moved, u) = Attack(DislodgedIf(moved), moved, u)
    BY <1>1, <1>2 DEF AttackIf, Attack
  <1>4. \A u : HoldIf(moved, u) = Hold(DislodgedIf(moved), moved, u)
    BY <1>2 DEF HoldIf, Hold
  <1>5. \A u : PreventIf(moved, u) = Prevent(DislodgedIf(moved), moved, u)
    BY <1>2 DEF PreventIf, Prevent
  <1> QED BY <1>3, <1>4, <1>5 DEF Solution, Wins

----------------------------------------------------------------------------
(* Monotonicity.                                                            *)

\* The more units leave, the easier a unit moves.
LEMMA Monotone ==
    ASSUME Orderly, NEW gone, NEW less, NEW more, less \subseteq more,
           NEW u \in Movers, Wins(gone, less, u)
    PROVE  Wins(gone, more, u)
  <1>1. Attack(gone, less, u) <= Attack(gone, more, u)
    <2>1. CASE Attack(gone, more, u) = Strength(gone, u)
      BY <2>1, AttackBound
    <2>2. CASE Attack(gone, more, u) # Strength(gone, u)
      <3>1. ~(command[u].to \notin Units
                \/ (command[u].to \in more /\ ~Opposes(u, command[u].to)))
        BY <2>2 DEF Attack
      <3>2. Attack(gone, less, u) = Attack(gone, more, u)
        BY <3>1 DEF Attack
      <3> QED BY <3>2, AttackBound
    <2> QED BY <2>1, <2>2
  <1>2. Hold(gone, more, u) <= Hold(gone, less, u)
    <2>1. Hold(gone, more, u) \in {0, Hold(gone, less, u)}
      BY DEF Hold
    <2> QED BY <2>1, HoldType
  <1>3. \A v \in Movers : Prevent(gone, more, v) <= Prevent(gone, less, v)
    <2> TAKE v \in Movers
    <2>1. Prevent(gone, more, v) \in {0, Prevent(gone, less, v)}
      BY DEF Prevent
    <2> QED BY <2>1, PreventType
  <1>4. Attack(gone, more, u) > Hold(gone, more, u)
    BY <1>1, <1>2, AttackBound, HoldType DEF Wins
  <1>5. \A v \in Movers \ {u} : command[v].to = command[u].to =>
          Attack(gone, more, u) > Prevent(gone, more, v)
    <2> TAKE v \in Movers \ {u}
    <2> HAVE command[v].to = command[u].to
    <2>1. Attack(gone, less, u) > Prevent(gone, less, v)
      BY DEF Wins
    <2> QED BY <2>1, <1>1, <1>3, AttackBound, PreventType
  <1> QED BY <1>4, <1>5 DEF Wins

----------------------------------------------------------------------------
(* Lost supports.                                                           *)

\* Only those who support matter among the units that give no support.
LEMMA OnlySupportersLost ==
    ASSUME NEW gone, NEW lost, NEW moved, NEW u,
           \A s : Supporter(s) => (s \in gone <=> s \in lost)
    PROVE  Wins(gone, moved, u) <=> Wins(lost, moved, u)
  <1>1. \A x : Uncut(x) \ gone = Uncut(x) \ lost
    BY DEF Uncut, Supports, Supporter
  <1>2. \A x : Strength(gone, x) = Strength(lost, x)
    BY <1>1 DEF Strength
  <1>3. Attack(gone, moved, u) = Attack(lost, moved, u)
    BY <1>1, <1>2 DEF Attack
  <1>4. Hold(gone, moved, u) = Hold(lost, moved, u)
    BY <1>2 DEF Hold
  <1>5. \A x : Prevent(gone, moved, x) = Prevent(lost, moved, x)
    BY <1>2 DEF Prevent
  <1> QED BY <1>3, <1>4, <1>5 DEF Wins

\* Where a unit supports, no support is lost.
LEMMA NoSupportLost ==
    ASSUME NEW gone, Attacked(gone), NEW s, Supporter(s), NEW u \in Units,
           u = s \/ (u \in Movers /\ command[u].to = s)
    PROVE  Uncut(u) \ gone = Uncut(u)
  <1> SUFFICES ASSUME NEW t \in Uncut(u), t \in gone PROVE FALSE
    OBVIOUS
  <1>1. Supporter(t) /\ command[t].to = s
    BY DEF Uncut, Supports, Supporter, Movers
  <1>2. PICK v \in Movers : command[v].to = t /\ owner[v] # owner[t]
    BY <1>1 DEF Attacked
  <1>3. s # v
    BY DEF Supporter, Movers
  <1>4. ~SparedBy(v, t)
    BY <1>1 DEF SparedBy, Supporter
  <1> QED BY <1>1, <1>2, <1>3, <1>4 DEF Uncut

\* So it is settled who wins against a unit that supports.
LEMMA Settled ==
    ASSUME Orderly, NEW gone, Attacked(gone), NEW moved, moved \subseteq Movers,
           NEW u \in Movers, Supporter(command[u].to)
    PROVE  Wins(gone, moved, u) <=> Wins({}, {}, u)
  <1> DEFINE s == command[u].to
  <1>1. s \in Units /\ s \notin Movers /\ s \notin moved /\ command[s].type = "S" /\ u \in Units
    BY DEF Supporter, Movers
  <1>2. \A v : ~Opposes(u, s) /\ (command[v].to = s => \A w : ~Opposes(v, w))
    BY <1>1 DEF Opposes
  <1>3. Uncut(u) \ gone = Uncut(u) /\ Uncut(s) \ gone = Uncut(s)
    BY <1>1, NoSupportLost
  <1>4. \A v \in Movers : command[v].to = s => Uncut(v) \ gone = Uncut(v)
    BY <1>1, NoSupportLost DEF Movers
  <1>5. Attack(gone, moved, u) = Attack({}, {}, u)
    BY <1>1, <1>2, <1>3 DEF Attack
  <1>6. Hold(gone, moved, u) = Hold({}, {}, u)
    BY <1>1, <1>2, <1>3 DEF Hold, Strength
  <1>7. \A v \in Movers : command[v].to = s => Prevent(gone, moved, v) = Prevent({}, {}, v)
    BY <1>2, <1>4 DEF Prevent, Strength
  <1> QED BY <1>5, <1>6, <1>7 DEF Wins

\* No unit wins against a unit of its power that stays.
LEMMA OwnUnitStays ==
    ASSUME Orderly, NEW gone, NEW moved, NEW u \in Movers, Wins(gone, moved, u),
           command[u].to \in Units \ moved
    PROVE  owner[u] # owner[command[u].to]
  <1> SUFFICES ASSUME owner[u] = owner[command[u].to] PROVE FALSE
    OBVIOUS
  <1>1. Attack(gone, moved, u) = 0
    BY DEF Attack
  <1> QED BY <1>1, HoldType DEF Wins

\* Those who are dislodged in a solution were attacked by another power.
LEMMA DislodgedAttacked ==
    ASSUME Orderly, NEW moved, moved \subseteq Movers, Solution(moved)
    PROVE  Attacked(DislodgedIf(moved))
  <1> SUFFICES ASSUME NEW s \in DislodgedIf(moved), Supporter(s)
               PROVE  \E v \in Movers : command[v].to = s /\ owner[v] # owner[s]
    BY DEF Attacked
  <1>1. PICK v \in moved : command[v].to = s
    BY DEF DislodgedIf
  <1>2. Wins(DislodgedIf(moved), moved, v)
    BY SolutionWins
  <1>3. s \in Units \ moved
    BY DEF DislodgedIf
  <1> QED BY <1>1, <1>2, <1>3, OwnUnitStays

\* A supporter that is overrun is attacked by a unit of another power.
LEMMA OverrunAttacked ==
    ASSUME Orderly
    PROVE  Attacked(Overrun)
  <1> SUFFICES ASSUME NEW s \in Overrun, Supporter(s)
               PROVE  \E v \in Movers : command[v].to = s /\ owner[v] # owner[s]
    BY DEF Attacked
  <1>1. PICK v \in Movers : command[v].to = s /\ Wins({}, {}, v)
    BY DEF Overrun
  <1>2. s \in Units \ {}
    BY DEF Overrun
  <1> QED BY <1>1, <1>2, OwnUnitStays

\* If the units that move are those that win, and whatever is lost was attacked,
\* the supporters that are dislodged are those overrun.
LEMMA DislodgedOverrun ==
    ASSUME Orderly, NEW gone, Attacked(gone), NEW moved, moved \subseteq Movers,
           \A u \in Movers : u \in moved <=> Wins(gone, moved, u)
    PROVE  \A s : Supporter(s) => (s \in DislodgedIf(moved) <=> s \in Overrun)
  <1> SUFFICES ASSUME NEW s, Supporter(s)
               PROVE  s \in DislodgedIf(moved) <=> s \in Overrun
    OBVIOUS
  <1>1. s \in Units /\ s \notin moved
    BY DEF Supporter, Movers
  <1>2. \A v \in Movers : command[v].to = s => (v \in moved <=> Wins({}, {}, v))
    BY Settled
  <1> QED BY <1>1, <1>2 DEF DislodgedIf, Overrun

----------------------------------------------------------------------------

\* The solutions are the fixed points of the operator that keeps Overrun lost.
LEMMA SolutionFixed ==
    ASSUME Orderly, NEW moved, moved \subseteq Movers
    PROVE  Solution(moved) <=> \A u \in Movers : u \in moved <=> Wins(Overrun, moved, u)
  <1>1. ASSUME Solution(moved)
        PROVE  \A u \in Movers : u \in moved <=> Wins(Overrun, moved, u)
    <2>1. \A u \in Movers : u \in moved <=> Wins(DislodgedIf(moved), moved, u)
      BY <1>1, SolutionWins
    <2>2. \A s : Supporter(s) => (s \in DislodgedIf(moved) <=> s \in Overrun)
      BY <1>1, <2>1, DislodgedAttacked, DislodgedOverrun
    <2> QED BY <2>1, <2>2, OnlySupportersLost
  <1>2. ASSUME \A u \in Movers : u \in moved <=> Wins(Overrun, moved, u)
        PROVE  Solution(moved)
    <2>1. \A s : Supporter(s) => (s \in DislodgedIf(moved) <=> s \in Overrun)
      BY <1>2, OverrunAttacked, DislodgedOverrun
    <2>2. \A u \in Movers : u \in moved <=> Wins(DislodgedIf(moved), moved, u)
      BY <1>2, <2>1, OnlySupportersLost
    <2> QED BY <2>2, SolutionWins
  <1> QED BY <1>1, <1>2

\* Whatever units are ordered to do, there is a set of moves that the rules allow and
\* that contains every other such set: the result of a movement phase (game.py,
\* _resolve_moves) does not depend on the order in which orders are looked at, and
\* there is one.
THEOREM LargestSolution ==
    ASSUME Orderly
    PROVE  \E moved \in SUBSET Movers :
              /\ Solution(moved)
              /\ \A other \in SUBSET Movers : Solution(other) => other \subseteq moved
  <1> DEFINE Able(m) == \A u \in m : Wins(Overrun, m, u)
             largest == UNION {m \in SUBSET Movers : Able(m)}
  <1>1. largest \subseteq Movers
    OBVIOUS
  <1>2. \A m \in SUBSET Movers : Able(m) => m \subseteq largest
    OBVIOUS
  <1>3. Able(largest)
    <2> SUFFICES ASSUME NEW u \in largest PROVE Wins(Overrun, largest, u)
      OBVIOUS
    <2>1. PICK m \in SUBSET Movers : Able(m) /\ u \in m
      OBVIOUS
    <2>2. m \subseteq largest /\ u \in Movers /\ Wins(Overrun, m, u)
      BY <2>1, <1>2
    <2> HIDE DEF largest
    <2> QED BY <2>2, Monotone
  <1> HIDE DEF largest
  <1>4. ASSUME NEW u \in Movers, Wins(Overrun, largest, u)
        PROVE  u \in largest
    <2> DEFINE m == largest \cup {u}
    <2>1. \A v \in m : Wins(Overrun, largest, v)
      BY <1>3, <1>4
    <2>2. \A v \in m : v \in Movers /\ largest \subseteq m
      BY <1>1
    <2>3. \A v \in m : Wins(Overrun, m, v)
      <3> HIDE DEF m
      <3> QED BY <2>1, <2>2, Monotone
    <2>4. Able(m) /\ m \in SUBSET Movers
      BY <2>3, <2>2
    <2> QED BY <2>4, <1>2
  <1>5. Solution(largest)
    BY <1>1, <1>3, <1>4, SolutionFixed
  <1>6. ASSUME NEW other \in SUBSET Movers, Solution(other)
        PROVE  other \subseteq largest
    BY <1>6, <1>2, SolutionFixed
  <1> QED BY <1>1, <1>5, <1>6

\* So Outcome is a solution: what it chooses exists.
THEOREM OutcomeSolves ==
    ASSUME Orderly
    PROVE  /\ Outcome \subseteq Movers
           /\ Solution(Outcome)
           /\ \A other \in SUBSET Movers : Solution(other) => other \subseteq Outcome
  BY LargestSolution DEF Outcome

----------------------------------------------------------------------------
(* Places.                                                                  *)

\* Of two units that attack each other at most one moves.
LEMMA NoSwap ==
    ASSUME Orderly, NEW moved, moved \subseteq Movers, Solution(moved),
           NEW u \in moved, NEW v \in moved
    PROVE  ~Opposes(u, v)
  <1> SUFFICES ASSUME Opposes(u, v) PROVE FALSE
    OBVIOUS
  <1> DEFINE gone == DislodgedIf(moved)
  <1>1. command[u].to = v /\ command[v].to = u /\ u \in Units /\ v \in Units /\ Opposes(v, u)
    BY DEF Opposes, Movers
  <1>2. Hold(gone, moved, u) = Strength(gone, v) /\ Hold(gone, moved, v) = Strength(gone, u)
    BY <1>1 DEF Hold
  <1>3. Wins(gone, moved, u) /\ Wins(gone, moved, v)
    BY SolutionWins
  <1> HIDE DEF gone
  <1>4. /\ Attack(gone, moved, u) > Strength(gone, v)
        /\ Attack(gone, moved, v) > Strength(gone, u)
    BY <1>2, <1>3 DEF Wins
  <1>5. /\ Attack(gone, moved, u) <= Strength(gone, u)
        /\ Attack(gone, moved, v) <= Strength(gone, v)
        /\ Attack(gone, moved, u) \in Nat /\ Attack(gone, moved, v) \in Nat
    BY AttackBound
  <1>6. Strength(gone, u) \in Nat /\ Strength(gone, v) \in Nat
    BY UncutFinite
  <1> QED BY <1>4, <1>5, <1>6

\* No two units go to one place: of those who attack it, one is stronger than each
\* other, or none gets there (_bounce and Game.boing in game.py).
THEOREM DestinationsDiffer ==
    ASSUME Orderly, NEW moved, moved \subseteq Movers, Solution(moved),
           NEW u \in moved, NEW v \in moved, command[u].to = command[v].to
    PROVE  u = v
  <1> SUFFICES ASSUME u # v PROVE FALSE
    OBVIOUS
  <1> DEFINE gone == DislodgedIf(moved)
  <1>1. Wins(gone, moved, u) /\ Wins(gone, moved, v)
    BY SolutionWins
  <1>2. \A w \in moved : ~Opposes(u, w) /\ ~Opposes(v, w)
    BY NoSwap
  <1>3. Prevent(gone, moved, u) = Strength(gone, u) /\ Prevent(gone, moved, v) = Strength(gone, v)
    BY <1>2 DEF Prevent
  <1> HIDE DEF gone
  <1>4. /\ Attack(gone, moved, u) > Strength(gone, v)
        /\ Attack(gone, moved, v) > Strength(gone, u)
    BY <1>1, <1>3 DEF Wins
  <1>5. /\ Attack(gone, moved, u) <= Strength(gone, u)
        /\ Attack(gone, moved, v) <= Strength(gone, v)
        /\ Attack(gone, moved, u) \in Nat /\ Attack(gone, moved, v) \in Nat
    BY AttackBound
  <1>6. Strength(gone, u) \in Nat /\ Strength(gone, v) \in Nat
    BY UncutFinite
  <1> QED BY <1>4, <1>5, <1>6
=============================================================================
