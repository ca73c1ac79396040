----------------------------- MODULE ModelCalls -----------------------------
(***************************************************************************)
(* The model calls of one decision.  A character judges through its        *)
(* ModelCognitionStrategy: scores of what it newly noticed, a plan when    *)
(* its queue is empty, and an action.  Each judgement is one logical call, *)
(* and one more if its answer is sent back for repair; each call takes one *)
(* slot of the process's BudgetedModelGateway and up to                    *)
(* MaxTransportAttempts attempts of the LangChainModelGateway behind it.   *)
(*                                                                         *)
(* run_world makes one gateway per run and decides on one thread.          *)
(***************************************************************************)
EXTENDS Processes, Naturals, Sequences

CONSTANTS
  CallLimit,            \* --provider-call-limit
  MaxTransportAttempts, \* attempts per call, 3 in the code
  Judgements            \* the sequences of judgements that decisions may take

ASSUME CallAssumption ==
  /\ CallLimit \in Nat \ {0}
  /\ MaxTransportAttempts \in Nat \ {0}
  /\ Judgements \subseteq Seq({"score_poignancy", "plan", "plan_action"}) \ {<<>>}

VARIABLES
  paused,    \* worlds.status
  decision,  \* the decision that each run is making
  ledger     \* what each run has counted and traced

callVars == <<paused, decision, ledger>>

\* state: "idle", "asking" (about to call), "sent" (a call in flight),
\* "decided" or "failed" (PlanningError); todo: the judgements to make, the
\* current one first; round: 1, or 2 for a repair; tries: attempts so far.
NoDecision == [state |-> "idle", todo |-> <<>>, round |-> 1, tries |-> 0]

\* used: _generate_count; exhausted: whether a call was refused and, if so,
\* whether on_exhausted could pause the World; results: the model.result
\* events in the trace; silent: calls that raised without a result.
EmptyLedger == [used |-> 0, exhausted |-> "no", results |-> 0, silent |-> 0]

CallsInit ==
  /\ decision = [r \in Run |-> NoDecision]
  /\ ledger = [r \in Run |-> EmptyLedger]

Becomes(r, state) == decision' = [decision EXCEPT ![r].state = state]

-----------------------------------------------------------------------------
(* A decision begins, and ends without an answer to a call in flight.      *)

Begin(r) ==
  /\ decision[r].state = "idle"
  /\ \E todo \in Judgements :
       decision' = [decision EXCEPT ![r] = [NoDecision EXCEPT !.state = "asking", !.todo = todo]]
  /\ UNCHANGED ledger

\* The process stops, is interrupted, or the dispatch ends.
Abandon(r) ==
  /\ decision' = [decision EXCEPT ![r] = NoDecision]
  /\ ledger' = IF decision[r].state = "sent"
                 THEN [ledger EXCEPT ![r].silent = @ + 1] ELSE ledger

-----------------------------------------------------------------------------
(* BudgetedModelGateway.generate.                                          *)

\* The slot is taken before the call and never given back.
Generate(r) ==
  /\ decision[r].state = "asking"
  /\ ledger[r].used < CallLimit
  /\ ledger' = [ledger EXCEPT ![r].used = @ + 1]
  /\ decision' = [decision EXCEPT ![r] = [@ EXCEPT !.state = "sent", !.tries = 1]]
  /\ UNCHANGED paused

\* The first refusal pauses the World, which may fail; a later one only raises.
Exhaust(r) ==
  /\ decision[r].state = "asking"
  /\ ledger[r].used >= CallLimit
  /\ IF ledger[r].exhausted = "no"
       THEN \E fenced \in BOOLEAN :
              /\ ledger' = [ledger EXCEPT ![r].exhausted = IF fenced THEN "fenced" ELSE "unfenced"]
              /\ paused' = (paused \/ fenced)
       ELSE UNCHANGED <<ledger, paused>>
  /\ Becomes(r, "failed")

-----------------------------------------------------------------------------
(* LangChainModelGateway.generate and ModelCognitionStrategy._generate.    *)

\* A valid answer: on to the next judgement.
Answer(r) ==
  /\ decision[r].state = "sent"
  /\ ledger' = [ledger EXCEPT ![r].results = @ + 1]
  /\ LET rest == Tail(decision[r].todo) IN
     decision' = [decision EXCEPT ![r] =
       [NoDecision EXCEPT !.state = IF rest = <<>> THEN "decided" ELSE "asking", !.todo = rest]]
  /\ UNCHANGED paused

\* Faulty: the repair goes to the provider without a slot of its own.
RepairUncharged(r) ==
  /\ decision[r].state = "sent"
  /\ IF decision[r].round = 1
       THEN /\ decision' = [decision EXCEPT ![r] = [@ EXCEPT !.round = 2, !.tries = 1]]
            /\ ledger' = [ledger EXCEPT ![r].results = @ + 1]
       ELSE /\ Becomes(r, "failed")
            /\ ledger' = [ledger EXCEPT ![r].results = @ + 1]
  /\ UNCHANGED paused

\* An answer outside the contract, or an action that the view does not grant:
\* repaired once by a new call, then PlannerOutputError.
Repair(r) ==
  /\ decision[r].state = "sent"
  /\ ledger' = [ledger EXCEPT ![r].results = @ + 1]
  /\ IF decision[r].round = 1
       THEN decision' = [decision EXCEPT ![r] =
              [state |-> "asking", todo |-> @.todo, round |-> 2, tries |-> 0]]
       ELSE Becomes(r, "failed")
  /\ UNCHANGED paused

\* A retryable error before the last attempt.
Retry(r) ==
  /\ decision[r].state = "sent"
  /\ decision[r].tries < MaxTransportAttempts
  /\ decision' = [decision EXCEPT ![r].tries = @ + 1]
  /\ UNCHANGED <<ledger, paused>>

\* ModelTransportError: a result, and no repair.
TransportFails(r) ==
  /\ decision[r].state = "sent"
  /\ decision[r].tries = MaxTransportAttempts
  /\ ledger' = [ledger EXCEPT ![r].results = @ + 1]
  /\ Becomes(r, "failed")
  /\ UNCHANGED paused

\* An error that is neither retried nor repaired: the provider rejects the
\* request, or anything unexpected.  The strategy adds no result for it.
Refuse(r) ==
  /\ decision[r].state = "sent"
  /\ ledger' = [ledger EXCEPT ![r].silent = @ + 1]
  /\ Becomes(r, "failed")
  /\ UNCHANGED paused

Call(r) ==
  Generate(r) \/ Exhaust(r) \/ Answer(r) \/ Repair(r) \/ Retry(r) \/ TransportFails(r) \/ Refuse(r)

-----------------------------------------------------------------------------

CallsTypeOK ==
  /\ paused \in BOOLEAN
  /\ \A r \in Run :
       /\ decision[r].state \in {"idle", "asking", "sent", "decided", "failed"}
       /\ decision[r].round \in 1..2 /\ decision[r].tries \in 0..MaxTransportAttempts
       /\ decision[r].state \in {"asking", "sent"} => decision[r].todo # <<>>
       /\ ledger[r] \in [used : Nat, exhausted : {"no", "fenced", "unfenced"},
                         results : Nat, silent : Nat]
=============================================================================
