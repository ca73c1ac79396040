--------------------------- MODULE MCWorldRuntime ---------------------------
(***************************************************************************)
(* WorldRuntime for TLC: three characters at one place.                    *)
(***************************************************************************)
EXTENDS WorldRuntime

MCAgent == 1..3
MCLocationOf == [a \in 1..3 |-> "hall"]
OneSize == {2}
AllDecisions == {"decline", "behave", "utter", "ask", "respond", "leave", "join"}
=============================================================================
