--------------------------- MODULE MCCharacterStep ---------------------------
(***************************************************************************)
(* CharacterStep for TLC: two threads, two characters, a switch.           *)
(***************************************************************************)
EXTENDS CharacterStep

CONSTANTS a1, a2

Threads == Permutations(Caller)

Switch == {<<"off", "on">>, <<"on", "off">>}
OnePlan == {<<"p">>}

\* The second character may be alone with what it does.
Audiences == {{a2}, {a1, a2}}
Steps == [a \in {a1, a2} |-> IF a = a1 THEN {"ask", "use", "wait"} ELSE {"wait", "leave", "respond"}]
=============================================================================
