----------------------------- MODULE Processes ------------------------------
(***************************************************************************)
(* The processes that run the same World, as ProjectDatabase, ModelCalls   *)
(* and Publication share them: each makes one run, from run_world.         *)
(***************************************************************************)
CONSTANTS
  Run,   \* the runs
  None   \* no value, no file, nobody

ASSUME RunAssumption == None \notin Run

VARIABLE pc   \* where each run is

Goto(r, where) == pc' = [pc EXCEPT ![r] = where]
=============================================================================
