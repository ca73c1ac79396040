------------------------------ MODULE PersonAct ------------------------------
(***************************************************************************)
(* One decision of one character, as PersonActAgent and its loop compute   *)
(* it from a snapshot: prepare, perceive, retrieve, plan, and the private  *)
(* state that is committed with the outcome.  Nothing here touches the     *)
(* World: CharacterStep reads the view and commits the results.            *)
(*                                                                         *)
(* A candidate of a view is named by its source: a committed entry by its  *)
(* World version, an ambient one by what it shows.  The visible fields of  *)
(* a source are always the same, so the source is its novelty key.  What   *)
(* the model is asked (poignancy, a plan, an action) is a free choice; the *)
(* scores and texts are left out, and no record expires.                   *)
(***************************************************************************)
EXTENDS Integers, SequencesExt

CONSTANTS
  Observing,  \* the characters with MemoryWritePolicy.OBSERVATION
  Budget,     \* cognitive_config.attention_budget
  Drafts      \* the plan drafts a model may answer with, each without repeats

ASSUME BudgetAssumption == Budget \in Nat
ASSUME DraftAssumption == \A d \in Drafts : d \in Seq(Range(d)) /\ IsInjective(d)

Disposition == {"keep", "complete_on_applied", "cancel"}

-----------------------------------------------------------------------------
(* The candidates of AgentViewBuilder.                                     *)

Entry(v) == <<"entry", v>>
Self == <<"self", 0>>
Place == <<"location", 0>>
Thing(state) == <<"object", state>>

\* _ambient_candidates, with one object and without facts: they follow from
\* the World as it is, so they are offered in every view.
Ambient(state) == {Self, Place, Thing(state)}

\* _merge_candidate_entries and the ambient candidates.
Candidates(view) ==
  {Entry(v) : v \in view.new \cup view.sources} \cup Ambient(view.object)

\* _entry_candidate and _visible_history: mandatory are the requests that the
\* view puts first.
Mandatory(view) == {Entry(v) : v \in view.must}

\* The order of _perceive: tier, then salience.  Candidates with the same rank
\* are ordered by an identifier that is a hash, in any order therefore.
Rank(x) == CASE x[1] = "entry" -> 1
             [] x = Self -> 2
             [] x[1] = "object" -> 3
             [] OTHER -> 4

-----------------------------------------------------------------------------
(* PersonActLoop.                                                          *)

\* _prepare: the view does not lead back behind the character's own state.
Prepared(view) == view.version >= view.persona.seen

\* Faulty: the budget cuts the mandatory candidates too.
AttentionsCutAll(view) ==
  {S \in SUBSET Candidates(view) :
     /\ Cardinality(S) = Budget
     /\ \A x \in S, y \in Candidates(view) \ S : Rank(x) <= Rank(y)}

\* _perceive: every mandatory candidate, and optional ones up to the budget.
Attentions(view) ==
  LET optional == Candidates(view) \ Mandatory(view)
      left == IF Cardinality(Mandatory(view)) >= Budget THEN 0
              ELSE Budget - Cardinality(Mandatory(view))
      room == IF Cardinality(optional) < left THEN Cardinality(optional) ELSE left
  IN {Mandatory(view) \cup S : S \in
       {S \in SUBSET optional :
          /\ Cardinality(S) = room
          /\ \A x \in S, y \in optional \ S : Rank(x) <= Rank(y)}}

\* Faulty: novelty against the latest record only.
NovelRecently(memory, x) == memory = <<>> \/ Last(memory) # x

\* is_novel, against all event records of the stream.
Novel(memory, x) == \A i \in DOMAIN memory : memory[i] # x

\* new_observations of _perceive, recorded or not.
NewObservations(view, attended) == {x \in attended : Novel(view.memory, x)}

\* The event records of _perceive: one per novel observation, and none unless
\* the write policy of the character has observations.
Writes(view, attended) ==
  IF view.agent \in Observing THEN SetToSeq(NewObservations(view, attended)) ELSE <<>>

\* retrieve_related and retrieve_ranked: which records match and rank highest
\* is left open; all of the history may.
Retrieved(memory) == Range(memory)

\* _retrieve: for each novel observation, whatever the write policy, and never
\* what was just written.
Touches(view, attended) ==
  IF NewObservations(view, attended) = {} THEN {} ELSE Retrieved(view.memory)

\* _plan: the model is asked for a draft only when the queue is empty; the
\* active plan is the head unless one is active.
Planned(persona, draft) ==
  LET queue == IF persona.queue = <<>> THEN draft ELSE persona.queue IN
  [persona EXCEPT
     !.queue = queue,
     !.active = IF persona.queue # <<>> /\ persona.active # <<>> THEN persona.active
                ELSE IF queue = <<>> THEN <<>> ELSE <<Head(queue)>>]

\* _state_after_outcome: whether the active plan leaves the queue.
Completed(status, disposition) ==
  \/ disposition = "cancel"
  \/ disposition = "complete_on_applied" /\ status = "applied"

\* The plans of the queue but the active one, which is in it once.
Remaining(persona) ==
  LET at == {i \in DOMAIN persona.queue : <<persona.queue[i]>> = persona.active}
  IN IF at = {} THEN persona.queue ELSE RemoveAt(persona.queue, CHOOSE i \in at : TRUE)

\* Faulty: the removed plan stays the active one.
AfterOutcomeStillActive(persona, status, disposition) ==
  IF ~Completed(status, disposition) THEN persona
  ELSE [persona EXCEPT !.queue = Remaining(persona)]

\* _state_after_outcome: without the active plan, the next is the new head.
AfterOutcome(persona, status, disposition) ==
  IF ~Completed(status, disposition) THEN persona
  ELSE LET queue == Remaining(persona)
       IN [persona EXCEPT !.queue = queue,
                          !.active = IF queue = <<>> THEN <<>> ELSE <<Head(queue)>>]

\* observe_outcome: the version that the outcome is committed at.
Committed(view, status) == IF status = "applied" THEN view.version + 1 ELSE view.version

\* decide and observe_outcome: the PersonActStateUpdate of one outcome.
StateUpdate(view, id, attended, draft, status, disposition) ==
  LET thought == AfterOutcome(Planned(view.persona, draft), status, disposition)
  IN [thought EXCEPT !.seen = Committed(view, status),
                     !.noted = @ + Len(Writes(view, attended)),
                     !.cursor = view.cursor,
                     !.id = <<id>>,
                     !.outcome = status]
=============================================================================
