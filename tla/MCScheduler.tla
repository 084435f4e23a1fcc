---------------------------- MODULE MCScheduler ----------------------------
(* The scheduler with two games, one delay of zero and two positive ones.   *)
EXTENDS Scheduler

MCDelays == {0, 1, 2}
=============================================================================
