---------------------------- MODULE SessionBlocks ----------------------------
(***************************************************************************)
(* What the EventSession topology promises, with no roots, versions or     *)
(* rows: every character session is in exactly one block, a join moves one *)
(* session into the block of another, a leave makes it a block of its own. *)
(* The join of a lone session dissolves its old block.                     *)
(***************************************************************************)
CONSTANT Session

VARIABLE blocks

BlockOf(s) == CHOOSE b \in blocks : s \in b

Separate(s) == {b \ {s} : b \in blocks} \ {{}}

Init == /\ blocks \in SUBSET ((SUBSET Session) \ {{}})
        /\ \A s \in Session : \E b \in blocks : s \in b
        /\ \A b, c \in blocks : b # c => b \cap c = {}

Join(s, t) ==
  /\ BlockOf(s) # BlockOf(t)
  /\ blocks' = (Separate(s) \ {BlockOf(t)}) \cup {BlockOf(t) \cup {s}}

Leave(s) ==
  /\ BlockOf(s) # {s}
  /\ blocks' = Separate(s) \cup {{s}}

Next == \/ \E s, t \in Session : Join(s, t)
        \/ \E s \in Session : Leave(s)

Spec == Init /\ [][Next]_blocks
=============================================================================
