------------------------------ MODULE MCDaide ------------------------------
(* Three connections of one client name, two powers, and up to three orders  *)
(* for two units in a call, two things each may be told, in order or not:    *)
(* one takes the place of another.  All phases are movements.                *)
EXTENDS Daide, TLC
CONSTANTS c1, c2, c3, bot, A, B, u1, u2, hold, move, bad

MCStrangers == {<<2, bot>>}
\* No step of a movement phase reads the last answer, or what was ordered: of them only
\* what a property asks is part of a state.
Asked ==
    [p \in GamePowers |-> IF game.type = "M" THEN [power[p] EXCEPT !.ordered = {}] ELSE power[p]]
AskedAbout == <<sessions, game, Asked, ThankedMoveStands>>
Symmetric == Permutations(Conns) \cup Permutations(GamePowers) \cup Permutations(Texts)
=============================================================================
