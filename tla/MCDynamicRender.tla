-------------------------- MODULE MCDynamicRender --------------------------
(***************************************************************************)
(* DynamicRender for TLC: two events with three renders, and the edits of  *)
(* the file: one render rewritten and another appended, or an event        *)
(* removed.                                                                *)
(***************************************************************************)
EXTENDS DynamicRender

Base ==
  [first |-> "A", renders |-> [A |-> <<<<"A", "a1">>, <<"A", "a2">>>>, B |-> <<<<"B", "b1">>>>]]
Rewritten ==
  [Base EXCEPT !.renders = [A |-> <<<<"A", "a1">>, <<"A", "a2v2">>>>,
                            B |-> <<<<"B", "b1">>, <<"B", "b2">>>>]]
Removed == [first |-> "A", renders |-> [A |-> Base.renders.A]]

Edits == {Base, Rewritten, Removed}
TwoEdits == {Base, Rewritten}
=============================================================================
