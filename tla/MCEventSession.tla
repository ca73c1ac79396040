--------------------------- MODULE MCEventSession ---------------------------
(***************************************************************************)
(* EventSession for TLC: five characters at two places.                    *)
(***************************************************************************)
EXTENDS EventSession

MCSession == 1..5
MCLocationOf == [s \in 1..5 |-> IF s >= 4 THEN "courtyard" ELSE "hall"]
=============================================================================
