---------------------------- MODULE MCScheduler ----------------------------
(***************************************************************************)
(* Scheduler for TLC: three characters, of which the first is broken.      *)
(***************************************************************************)
EXTENDS Scheduler

MCAgent == 1..3
TheFirst == {1}
=============================================================================
