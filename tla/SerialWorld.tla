----------------------------- MODULE SerialWorld -----------------------------
(***************************************************************************)
(* What the run control promises, with no locks, owners, epochs or         *)
(* processes: a World that is stopped or running, at most one charged      *)
(* attempt at a time, and a history in which every decision was made on    *)
(* exactly the World that the decisions before it left.  A stop or a new   *)
(* run forgets the current attempt for good.                               *)
(***************************************************************************)
EXTENDS Naturals, Sequences

CONSTANTS Agent

VARIABLES
  running,    \* whether decisions may be charged and published
  attempt,    \* {} or the singleton of the charged attempt
  charged,    \* how many attempts were ever charged
  granted,    \* how many attempts all runs together were granted
  version,    \* the World version
  history     \* the published decisions, oldest first

serialVars == <<running, attempt, charged, granted, version, history>>

Init == /\ running = FALSE
        /\ attempt = {}
        /\ charged = 0
        /\ granted = 0
        /\ version = 1
        /\ history = <<>>

Start == /\ running' = TRUE
         /\ attempt' = {}
         /\ granted' > granted
         /\ UNCHANGED <<charged, version, history>>

Stop == /\ running
        /\ running' = FALSE
        /\ attempt' = {}
        /\ UNCHANGED <<charged, granted, version, history>>

Charge(a) == /\ running
             /\ attempt = {}
             /\ charged < granted
             /\ charged' = charged + 1
             /\ attempt' = {[number |-> charged', agent |-> a]}
             /\ UNCHANGED <<running, granted, version, history>>

Abandon == /\ running
           /\ attempt # {}
           /\ attempt' = {}
           /\ UNCHANGED <<running, charged, granted, version, history>>

\* The decision was made on the current version, after all of history.
Publish(applied) ==
  /\ running
  /\ \E t \in attempt :
       history' = Append(history, [number  |-> t.number, agent |-> t.agent,
                                   version |-> version, after |-> Len(history),
                                   applied |-> applied])
  /\ version' = IF applied THEN version + 1 ELSE version
  /\ attempt' = {}
  /\ UNCHANGED <<running, charged, granted>>

Next == \/ Start
        \/ Stop
        \/ \E a \in Agent : Charge(a)
        \/ Abandon
        \/ \E applied \in BOOLEAN : Publish(applied)

Spec == Init /\ [][Next]_serialVars
=============================================================================
