----------------------------- MODULE MCSessions -----------------------------
(* The administrator, the bot and a user, with three tokens and two          *)
(* connections that are opened again and again.                              *)
EXTENDS Sessions, TLC

Symmetry == Permutations(Tokens) \cup Permutations(Connections) \cup Permutations(Powers)
=============================================================================
