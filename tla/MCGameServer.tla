---------------------------- MODULE MCGameServer ----------------------------
(* Two powers, a game master m and a user u; deadlines of none and one step.  *)
EXTENDS GameServer, TLC

CONSTANTS m, u

MCDeadlines == {0, 1}
MCCounts == {2}

Symmetry == Permutations(Powers)
=============================================================================
