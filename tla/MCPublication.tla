--------------------------- MODULE MCPublication ---------------------------
(***************************************************************************)
(* Publication for TLC: runs in any order, each with a small call budget.  *)
(***************************************************************************)
EXTENDS Publication, TLC

Runs == Permutations(Run)
MCJudgements == {<<"plan_action">>, <<"plan", "plan_action">>}
=============================================================================
