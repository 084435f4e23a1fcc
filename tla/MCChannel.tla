----------------------------- MODULE MCChannel -----------------------------
(* One request of each kind in turn, one message of another player, one      *)
(* phase that is processed and two connections that break.                   *)
EXTENDS Channel
=============================================================================
