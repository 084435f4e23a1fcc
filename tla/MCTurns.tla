------------------------------ MODULE MCTurns ------------------------------
(* A map of four places: the homes h and k of two powers, a centre n with    *)
(* two coasts, and a place x without a centre.  Armies go everywhere but     *)
(* between the homes; fleets go along the coasts.                            *)
EXTENDS Turns, TLC

CONSTANTS h, k, n, n1, n2, x,  P, Q

MCBase == h :> h @@ k :> k @@ x :> x @@ n :> n @@ n1 :> n @@ n2 :> n

Army(l) == [type |-> "A", loc |-> l]
Fleet(l) == [type |-> "F", loc |-> l]

MCReach ==
    Army(h) :> {n, x} @@ Army(k) :> {n, x} @@ Army(n) :> {h, k, x} @@ Army(x) :> {h, k, n}
    @@ Fleet(h) :> {n1, x} @@ Fleet(k) :> {n2, x} @@ Fleet(n1) :> {h} @@ Fleet(n2) :> {k}
    @@ Fleet(x) :> {h, k}

MCHomes == P :> {h} @@ Q :> {k}

\* A late autumn, and the retreats after one: a fleet and an army of both powers
\* may choose the same place.
Autumn ==
    [phase |-> [season |-> "FALL", year |-> 1, type |-> "M"],
     units |-> P :> {Army(h)} @@ Q :> {Army(k), Fleet(x)},
     retreats |-> P :> Empty @@ Q :> Empty,
     centers |-> P :> {h} @@ Q :> {k}]

Retreating ==
    [phase |-> [season |-> "FALL", year |-> 1, type |-> "R"],
     units |-> P :> {Army(h)} @@ Q :> {Army(k)},
     retreats |-> P :> (Fleet(h) :> {n1, x}) @@ Q :> (Fleet(k) :> {n2, x} @@ Army(k) :> {n}),
     centers |-> P :> {h} @@ Q :> {k}]

\* P may build once its home is free.
Settled ==
    [phase |-> [season |-> "FALL", year |-> 1, type |-> "M"],
     units |-> P :> {Army(h)} @@ Q :> {Army(k)},
     retreats |-> P :> Empty @@ Q :> Empty,
     centers |-> P :> {h, n} @@ Q :> {k}]

MCReloads == {Settled}

\* P may build twice, and has one free home, with two coasts.
Building ==
    [phase |-> [season |-> "WINTER", year |-> 1, type |-> "A"],
     units |-> P :> {} @@ Q :> {Army(k)},
     retreats |-> P :> Empty @@ Q :> Empty,
     centers |-> P :> {h, n} @@ Q :> {k}]

TwoCoasts == P :> {n} @@ Q :> {k}
BuildingOnly == {Building}

MCSituations == {Autumn, Retreating, Settled}
=============================================================================
