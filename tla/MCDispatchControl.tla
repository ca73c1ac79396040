-------------------------- MODULE MCDispatchControl --------------------------
(***************************************************************************)
(* DispatchControl for TLC: the quotas of a resume and the fault sets that *)
(* the configurations choose from.                                         *)
(***************************************************************************)
EXTENDS DispatchControl

OneDecision == {1}
TwoDecisions == {2}
AllFaults == {"error", "interrupt", "close", "crash", "pause"}
InterruptFaults == {"interrupt"}
=============================================================================
