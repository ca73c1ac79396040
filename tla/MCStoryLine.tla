---------------------------- MODULE MCStoryLine ----------------------------
(***************************************************************************)
(* StoryLine for TLC: four characters at one place.  Who waits, asks or   *)
(* declines does not show in the story.                                    *)
(***************************************************************************)
EXTENDS StoryLine

MCAgent == 1..4
MCLocationOf == [a \in 1..4 |-> "hall"]
OneSize == {4}
StoryDecisions == {"behave", "utter", "leave", "join"}
=============================================================================
