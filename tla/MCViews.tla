------------------------------ MODULE MCViews ------------------------------
(* Two powers; a player with two tokens, one of which may have to join first, *)
(* an observer, and, unwatched, the other player and the master of the game.  *)
EXTENDS Views

OwnerValue == [a1 |-> "ann", a2 |-> "ann", b |-> "bob", o |-> "olga", m |-> "max"]
TokensValue == DOMAIN OwnerValue
SeatingsValue ==
    {[austria |-> a, britain |-> {"b"}, observer |-> {"o"}, omniscient |-> {"m"}] :
        a \in {{"a1", "a2"}, {"a2"}}}
=============================================================================
