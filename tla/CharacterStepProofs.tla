------------------------ MODULE CharacterStepProofs ------------------------
(***************************************************************************)
(* Proofs about CharacterStep for any callers, characters, operations,     *)
(* budget and bounds.                                                      *)
(*                                                                         *)
(* IInv says what the decision sequence stands for: a view with the        *)
(* sequence of the row shows the row's World, and a token with that        *)
(* sequence holds a request that still has its priority.  Every commit     *)
(* advances the sequence, and nothing else writes what a view shows.  So   *)
(* the fence of the World row protects every other row that a decision     *)
(* reads and replaces (FenceSuffices).                                     *)
(*                                                                         *)
(* The second part connects the saved rows to the history: one answer for  *)
(* each decision, whole commits, everything seen once, requests            *)
(* remembered, sound types.  A view with the sequence of the row shows all *)
(* that its character can see; an identifier that could still be committed *)
(* names the sequence of the row or the active dispatch, which no          *)
(* committed identifier does.                                              *)
(***************************************************************************)
EXTENDS CharacterStep, FiniteSetTheorems, SequenceTheorems, TLAPS

-----------------------------------------------------------------------------
(* The fence.                                                              *)


\* The saved rows have the columns the fences compare.
RowsTyped ==
  /\ seq \in Nat /\ version \in Nat
  /\ DOMAIN entries \subseteq Nat
  /\ persona = [a \in Agent |-> persona[a]]
  /\ memory = [a \in Agent |-> memory[a]]
  /\ \A a \in Agent : "cursor" \in DOMAIN persona[a] /\ persona[a].cursor \in Nat

CallersTyped ==
  /\ pc = [c \in Caller |-> pc[c]]
  /\ call = [c \in Caller |-> call[c]]
  /\ view = [c \in Caller |-> view[c]]

\* What a caller was given with its dispatch.
Charged(c) ==
  /\ call[c].agent \in Agent
  /\ \A t \in call[c].token :
       /\ t.seq \in Nat /\ t.seq <= seq
       /\ t.seq = seq /\ t.request # 0 => t.request \in pending \ handed

\* The view is the World as it is.
Current(c) ==
  LET a == call[c].agent IN
  /\ view[c].agent = a
  /\ view[c].object = object
  /\ view[c].persona = persona[a]
  /\ view[c].memory = memory[a]
  /\ view[c].sources = RequestsOf(a)

\* What a caller has read.
Informed(c) ==
  /\ view[c].seq \in Nat /\ view[c].seq <= seq
  /\ view[c].version \in Nat /\ view[c].cursor \in Nat
  /\ "cursor" \in DOMAIN view[c].persona /\ view[c].persona.cursor \in Nat
  /\ view[c].persona.cursor <= view[c].cursor
  /\ \A t \in call[c].token : t.seq = view[c].seq
  /\ view[c].seq = seq => Current(c)

CallerOK(c) ==
  /\ pc[c] \in {"idle", "calling", "deciding"}
  /\ pc[c] # "idle" => Charged(c)
  /\ pc[c] = "deciding" => Informed(c)

IInv == RowsTyped /\ CallersTyped /\ \A c \in Caller : CallerOK(c)

-----------------------------------------------------------------------------

\* IInv holds of a new World: nobody calls.
LEMMA InitEstablishes == Init => IInv
  BY DEF Init, IInv, RowsTyped, CallersTyped, CallerOK, NewPersona

\* A caller that a step leaves alone keeps what it knows while the World does.
LEMMA OthersKeep ==
  ASSUME NEW c \in Caller, CallerOK(c), UNCHANGED <<seq, public, private>>,
         pc'[c] = pc[c], call'[c] = call[c], view'[c] = view[c]
  PROVE  CallerOK(c)'
  BY DEF CallerOK, Charged, Informed, Current, RequestsOf, public, private

\* After the commit of another, its view is old: the sequence has moved on.
LEMMA OthersAreLate ==
  ASSUME NEW c \in Caller, CallerOK(c), seq \in Nat, seq' = seq + 1,
         pc'[c] = pc[c], call'[c] = call[c], view'[c] = view[c]
  PROVE  CallerOK(c)'
  BY DEF CallerOK, Charged, Informed

\* The rows of a step that writes none of what a view shows.
LEMMA RowsKeep ==
  ASSUME RowsTyped, UNCHANGED <<seq, version, public, private>>
  PROVE  RowsTyped'
  BY DEF RowsTyped, public, private

\* Starting a call: only its own request comes with it.
LEMMA StartPreserves ==
  ASSUME IInv, NEW c \in Caller, NEW a \in Agent, NEW id, NEW token,
         Start(c, a, id, token), UNCHANGED <<seq, version, public, private, view>>,
         \A t \in token : t.seq = seq /\ (t.request # 0 => t.request \in pending \ handed)
  PROVE  IInv'
<1>1. RowsTyped' BY RowsKeep DEF IInv
<1>2. CallersTyped' BY DEF IInv, CallersTyped, Start
<1>3. ASSUME NEW d \in Caller PROVE CallerOK(d)'
  <2>1. CASE d = c
    <3>1. pc'[c] = "calling" /\ call'[c] = [agent |-> a, id |-> id, token |-> token]
      BY DEF IInv, CallersTyped, Start
    <3>2. seq \in Nat BY DEF IInv, RowsTyped
    <3> QED BY <2>1, <3>1, <3>2 DEF CallerOK, Charged, public
  <2>2. CASE d # c
    <3>1. pc'[d] = pc[d] /\ call'[d] = call[d] /\ view'[d] = view[d]
      BY <2>2 DEF IInv, CallersTyped, Start
    <3> QED BY <3>1, OthersKeep DEF IInv
  <2> QED BY <2>1, <2>2
<1> QED BY <1>1, <1>2, <1>3 DEF IInv

\* A claim hands over the oldest request that still has its priority.
LEMMA ClaimPreserves ==
  ASSUME IInv, NEW c \in Caller, NEW a \in Agent, Claim(c, a)
  PROVE  IInv'
<1> DEFINE T(r) == {[owner |-> c, agent |-> a, count |-> count', epoch |-> epoch,
                     version |-> version, seq |-> seq, request |-> r]}
<1>1. PICK r \in Oldest(RequestsOf(a) \ handed) :
        Start(c, a, DispatchId(a, epoch, count'), T(r))
  BY DEF Claim
<1>2. r = 0 \/ r \in pending \ handed BY <1>1 DEF Oldest, RequestsOf
<1>3. \A t \in T(r) : t.seq = seq /\ (t.request # 0 => t.request \in pending \ handed)
  BY <1>2
<1>4. UNCHANGED <<seq, version, public, private, view>> BY DEF Claim
<1> QED BY <1>1, <1>3, <1>4, StartPreserves

\* A step after which the caller knows nothing.
LEMMA ForgetPreserves ==
  ASSUME IInv, NEW c \in Caller, UNCHANGED <<seq, version, public, private>>,
         pc' = [pc EXCEPT ![c] = "idle"], call' = [call EXCEPT ![c] = NoCall],
         view' = view \/ view' = [view EXCEPT ![c] = NoView]
  PROVE  IInv'
<1>1. RowsTyped' BY RowsKeep DEF IInv
<1>2. CallersTyped' BY DEF IInv, CallersTyped
<1>3. ASSUME NEW d \in Caller PROVE CallerOK(d)'
  <2>1. CASE d = c BY <2>1 DEF IInv, CallersTyped, CallerOK
  <2>2. CASE d # c
    <3>1. pc'[d] = pc[d] /\ call'[d] = call[d] /\ view'[d] = view[d]
      BY <2>2 DEF IInv, CallersTyped
    <3> QED BY <3>1, OthersKeep DEF IInv
  <2> QED BY <2>1, <2>2
<1> QED BY <1>1, <1>2, <1>3 DEF IInv

\* A view is read in one transaction, at the sequence of the dispatch.
LEMMA ReadPreserves ==
  ASSUME IInv, NEW c \in Caller, Read(c)
  PROVE  IInv'
<1> DEFINE a == call[c].agent
<1>1. PICK cursor \in NextCursor(a) : view' = [view EXCEPT ![c] = ViewOf(c, cursor)]
  BY DEF Read
<1>2. /\ pc[c] = "calling" /\ pc' = [pc EXCEPT ![c] = "deciding"]
      /\ UNCHANGED <<seq, version, public, private, call>>
  BY DEF Read, row
<1>3. Charged(c) /\ a \in Agent BY <1>2 DEF IInv, CallerOK, Charged
<1>4. persona[a].cursor \in Nat /\ "cursor" \in DOMAIN persona[a]
  BY <1>3 DEF IInv, RowsTyped
<1>5. cursor \in Nat /\ persona[a].cursor <= cursor
  <2>1. New(a) \subseteq Nat /\ \A v \in New(a) : v > persona[a].cursor
    BY <1>4 DEF New, VisibleTo, IInv, RowsTyped
  <2>2. cursor \in New(a) \/ cursor = persona[a].cursor
    BY <1>1 DEF NextCursor, Latest
  <2> QED BY <1>4, <2>1, <2>2
<1>6. \A t \in call[c].token : t.seq = seq BY DEF Read, MayRead
<1>7. RowsTyped' BY <1>2, RowsKeep DEF IInv
<1>8. CallersTyped' BY <1>1, <1>2 DEF IInv, CallersTyped
<1>9. ASSUME NEW d \in Caller PROVE CallerOK(d)'
  <2>1. CASE d = c
    <3>1. pc'[c] = "deciding" /\ call'[c] = call[c] /\ view'[c] = ViewOf(c, cursor)
      BY <1>1, <1>2 DEF IInv, CallersTyped
    <3>2. Charged(c)' BY <1>2, <1>3, <3>1 DEF Charged, public
    <3>3. Current(c)' BY <1>2, <3>1 DEF Current, ViewOf, RequestsOf, public, private
    <3>4. Informed(c)'
      BY <1>2, <1>4, <1>5, <1>6, <3>1, <3>3 DEF Informed, ViewOf, IInv, RowsTyped
    <3> QED BY <2>1, <3>1, <3>2, <3>4 DEF CallerOK
  <2>2. CASE d # c
    <3>1. pc'[d] = pc[d] /\ call'[d] = call[d] /\ view'[d] = view[d]
      BY <1>1, <1>2, <2>2 DEF IInv, CallersTyped
    <3> QED BY <1>2, <3>1, OthersKeep DEF IInv
  <2> QED BY <2>1, <2>2
<1> QED BY <1>7, <1>8, <1>9 DEF IInv

\* A failed decision keeps the call, and nothing of the view.
LEMMA FailPreserves ==
  ASSUME IInv, NEW c \in Caller, DecisionFails(c)
  PROVE  IInv'
<1>1. /\ pc[c] = "deciding" /\ pc' = [pc EXCEPT ![c] = "calling"]
      /\ view' = [view EXCEPT ![c] = NoView]
      /\ UNCHANGED <<seq, version, public, private, call>>
  BY DEF DecisionFails
<1>2. RowsTyped' BY <1>1, RowsKeep DEF IInv
<1>3. CallersTyped' BY <1>1 DEF IInv, CallersTyped
<1>4. ASSUME NEW d \in Caller PROVE CallerOK(d)'
  <2>1. CASE d = c
    <3>1. pc'[c] = "calling" /\ call'[c] = call[c] BY <1>1 DEF IInv, CallersTyped
    <3>2. Charged(c) BY <1>1 DEF IInv, CallerOK
    <3> QED BY <1>1, <2>1, <3>1, <3>2 DEF CallerOK, Charged, public
  <2>2. CASE d # c
    <3>1. pc'[d] = pc[d] /\ call'[d] = call[d] /\ view'[d] = view[d]
      BY <1>1, <2>2 DEF IInv, CallersTyped
    <3> QED BY <1>1, <3>1, OthersKeep DEF IInv
  <2> QED BY <2>1, <2>2
<1> QED BY <1>2, <1>3, <1>4 DEF IInv

\* The private state of an outcome has the cursor of its view.
LEMMA UpdateHasCursor ==
  ASSUME NEW v, NEW id, NEW attended, NEW draft, NEW status, NEW disposition,
         "cursor" \in DOMAIN v.persona
  PROVE  LET u == [StateUpdate(v, id, attended, draft, status, disposition)
                     EXCEPT !.revision = @ + 1]
         IN "cursor" \in DOMAIN u /\ u.cursor = v.cursor
<1> DEFINE planned == Planned(v.persona, draft)
           thought == AfterOutcome(planned, status, disposition)
<1>1. "cursor" \in DOMAIN planned BY DEF Planned
<1>2. "cursor" \in DOMAIN thought
  <2> HIDE DEF planned
  <2> QED BY <1>1 DEF AfterOutcome
<1>3. StateUpdate(v, id, attended, draft, status, disposition) =
        [thought EXCEPT !.seen = Committed(v, status),
                        !.noted = @ + Len(Writes(v, attended)),
                        !.cursor = v.cursor, !.id = <<id>>, !.outcome = status]
  BY DEF StateUpdate
<1> HIDE DEF thought
<1> QED BY <1>2, <1>3

\* A commit advances the sequence: it leaves every other view and token behind.
LEMMA CommitPreserves ==
  ASSUME IInv, NEW c \in Caller, NEW attended, NEW draft, NEW disposition, NEW act,
         Commit(c, attended, draft, disposition, act)
  PROVE  IInv'
<1> DEFINE a == call[c].agent
           status == StatusOf(act)
<1>1. Informed(c) /\ a \in Agent BY DEF Commit, IInv, CallerOK, Charged
<1>2. seq \in Nat /\ seq' = seq + 1 BY DEF Commit, ApplyRow, IInv, RowsTyped
<1>3. version' \in Nat BY <1>1 DEF Commit, ApplyRow, Committed, Informed
<1>4. DOMAIN entries' \subseteq Nat
  <2>1. DOMAIN entries' \subseteq DOMAIN entries \cup {version'} BY DEF Commit, ApplyEntry
  <2> QED BY <1>3, <2>1 DEF IInv, RowsTyped
<1>5. PICK u : /\ persona' = [persona EXCEPT ![a] = u]
               /\ "cursor" \in DOMAIN u /\ u.cursor = view[c].cursor
  <2> DEFINE w == [StateUpdate(view[c], call[c].id, attended, draft, status, disposition)
                     EXCEPT !.revision = @ + 1]
  <2>1. persona' = [persona EXCEPT ![a] = w] BY DEF Commit, CommitPersona
  <2>2. "cursor" \in DOMAIN w /\ w.cursor = view[c].cursor
    BY <1>1, UpdateHasCursor DEF Informed
  <2> HIDE DEF w
  <2> QED BY <2>1, <2>2
<1>6. PICK m : memory' = [memory EXCEPT ![a] = m]
  BY DEF Commit, CommitMemory
<1>7. RowsTyped'
  <2>1. persona' = [b \in Agent |-> persona'[b]] /\ memory' = [b \in Agent |-> memory'[b]]
    BY <1>5, <1>6 DEF IInv, RowsTyped
  <2>2. ASSUME NEW b \in Agent
        PROVE  "cursor" \in DOMAIN persona'[b] /\ persona'[b].cursor \in Nat
    <3>1. persona'[b] = IF b = a THEN u ELSE persona[b] BY <1>5 DEF IInv, RowsTyped
    <3> QED BY <1>1, <1>5, <3>1 DEF IInv, RowsTyped, Informed
  <2> QED BY <1>2, <1>3, <1>4, <2>1, <2>2 DEF RowsTyped, IInv
<1>8. CallersTyped' BY DEF Commit, Told, IInv, CallersTyped
<1>9. ASSUME NEW d \in Caller PROVE CallerOK(d)'
  <2>1. CASE d = c
    <3>1. pc'[c] = "idle" BY DEF Commit, Told, IInv, CallersTyped
    <3> QED BY <2>1, <3>1 DEF CallerOK
  <2>2. CASE d # c
    <3>1. pc'[d] = pc[d] /\ call'[d] = call[d] /\ view'[d] = view[d]
      BY <2>2 DEF Commit, Told, IInv, CallersTyped
    <3> QED BY <1>2, <3>1, OthersAreLate DEF IInv
  <2> QED BY <2>1, <2>2
<1> QED BY <1>7, <1>8, <1>9 DEF IInv

\* A step that writes none of what a view shows, and moves no caller.
LEMMA RowPreserves ==
  ASSUME IInv, UNCHANGED <<seq, version, public, private, pc, call, view>>
  PROVE  IInv'
<1>1. RowsTyped' BY RowsKeep DEF IInv
<1>2. CallersTyped' BY DEF IInv, CallersTyped
<1>3. \A c \in Caller : CallerOK(c)' BY OthersKeep DEF IInv
<1> QED BY <1>1, <1>2, <1>3 DEF IInv

\* IInv is inductive.
LEMMA StepPreserves == IInv /\ [Next]_vars => IInv'
<1> SUFFICES ASSUME IInv, [Next]_vars PROVE IInv'
  OBVIOUS
<1>1. CASE UNCHANGED vars BY <1>1, RowPreserves DEF vars, row
<1>2. CASE Pause BY <1>2, RowPreserves DEF Pause, Unread
<1>3. ASSUME NEW c \in Caller, Resume(c) PROVE IInv'
  BY <1>3, RowPreserves DEF Resume, Unread
<1>4. ASSUME NEW c \in Caller, NEW a \in Agent, NextDecisionId(c, a) PROVE IInv'
  <2>1. Start(c, a, StepId(a), {}) /\ UNCHANGED <<seq, version, public, private, view>>
    BY <1>4 DEF NextDecisionId, row
  <2> QED BY <2>1, StartPreserves
<1>5. ASSUME NEW c \in Caller, NEW a \in Agent, Claim(c, a) PROVE IInv'
  BY <1>5, ClaimPreserves
<1>6. ASSUME NEW c \in Caller, Replay(c) PROVE IInv'
  BY <1>6, ForgetPreserves DEF Replay, Told, row
<1>7. ASSUME NEW a \in Agent, NEW k \in DOMAIN decided, Repeat(a, k) PROVE IInv'
  BY <1>7, RowPreserves DEF Repeat, row
<1>8. ASSUME NEW c \in Caller, Read(c) PROVE IInv' BY <1>8, ReadPreserves
<1>9. ASSUME NEW c \in Caller, ReadFails(c) PROVE IInv'
  BY <1>9, ForgetPreserves DEF ReadFails, row
<1>10. ASSUME NEW c \in Caller, Decide(c) PROVE IInv'
  BY <1>10, CommitPreserves DEF Decide
<1>11. ASSUME NEW c \in Caller, DecisionFails(c) PROVE IInv' BY <1>11, FailPreserves
<1>12. ASSUME NEW c \in Caller, Leave(c) PROVE IInv'
  BY <1>12, ForgetPreserves DEF Leave, row
<1> QED
  BY <1>1, <1>2, <1>3, <1>4, <1>5, <1>6, <1>7, <1>8, <1>9, <1>10, <1>11, <1>12 DEF Next

\* An afforded action operates on the object as seen, and answers a request
\* that the view shows.
LEMMA AffordedByView ==
  ASSUME NEW a, NEW v, NEW act \in Actions(a, v)
  PROVE  /\ act.op # <<>> => act.op[1] = v.object
         /\ act.reply # 0 => act.reply \in v.sources
<1>1. CASE act \in Declines BY <1>1 DEF Declines, Silent
<1>2. CASE act \in Behaviors(a)
  <2>1. PICK kind, to : act = Audible(kind, to) BY <1>2 DEF Behaviors
  <2> QED BY <2>1 DEF Audible, Silent
<1>3. CASE act \in Questions(a)
  <2>1. PICK to, b : act = [Audible("ask", to) EXCEPT !.asks = <<b>>]
    BY <1>3 DEF Questions
  <2> QED BY <2>1 DEF Audible, Silent
<1>4. CASE act \in Responses(a, v)
  <2>1. PICK to \in {S \in Heard : a \in S}, r \in v.sources :
          act = [Audible("respond", to) EXCEPT !.reply = r]
    BY <1>4 DEF Responses
  <2> QED BY <2>1 DEF Audible, Silent
<1>5. CASE act \in ObjectUses(a, v)
  <2>1. PICK to \in {S \in Heard : a \in S}, op \in Enabled(v) :
          act = [Audible("use", to) EXCEPT !.op = op]
    BY <1>5 DEF ObjectUses
  <2> QED BY <2>1 DEF Audible, Silent, Enabled
<1> QED BY <1>1, <1>2, <1>3, <1>4, <1>5 DEF Actions

\* What IInv says of the fences.
LEMMA FencesAgree == IInv => FenceSuffices
<1> SUFFICES ASSUME IInv, NEW c \in Caller, pc[c] = "deciding", WorldFence(c),
                    NEW attended \in Attentions(view[c]),
                    NEW act \in Actions(call[c].agent, view[c])
             PROVE  ObjectFence(act) /\ RequestFence(c, act) /\ PersonaFence(c)
                      /\ MemoryFence(c, attended)
  BY DEF FenceSuffices
<1>1. Charged(c) /\ Informed(c) BY DEF IInv, CallerOK
<1>2. view[c].seq = seq BY DEF WorldFence
<1>3. Current(c) BY <1>1, <1>2 DEF Informed
<1>4. act.op # <<>> => act.op[1] = view[c].object
  BY AffordedByView
<1>5. act.reply # 0 => act.reply \in view[c].sources
  BY AffordedByView
<1>6. ObjectFence(act) BY <1>3, <1>4 DEF ObjectFence, Current
<1>7. RequestFence(c, act)
  BY <1>1, <1>2, <1>3, <1>5 DEF RequestFence, Current, RequestsOf, Charged, Informed
<1>8. PersonaFence(c)
  BY <1>1, <1>3 DEF PersonaFence, Current, Informed
<1>9. MemoryFence(c, attended)
  BY <1>3 DEF MemoryFence, Touches, Retrieved, Current
<1> QED BY <1>6, <1>7, <1>8, <1>9

\* FenceSuffices: when the fence of the worlds row holds, no other write of the
\* transaction finds its rows changed.
THEOREM OneFenceProtectsAll == Spec => []FenceSuffices
<1>1. Init => IInv BY InitEstablishes
<1>2. IInv /\ [Next]_vars => IInv' BY StepPreserves
<1>3. IInv => FenceSuffices BY FencesAgree
<1> QED BY <1>1, <1>2, <1>3, PTL DEF Spec

-----------------------------------------------------------------------------
(* The history.                                                            *)


\* The fields of a character's row that the properties are about.
Fields == {"revision", "cursor", "id", "outcome", "noted"}

\* What the rows are, as far as the proofs calculate with them.
Shape ==
  /\ version \in Nat \ {0} /\ count \in Nat
  /\ DOMAIN entries \subseteq 2..version
  /\ decided \in Seq(Range(decided))
  /\ offered = [a \in Agent |-> offered[a]]
  /\ \A a \in Agent :
       /\ Fields \subseteq DOMAIN persona[a]
       /\ memory[a] \in Seq(Range(memory[a]))

\* A dispatch is named after its charge and brings a request of its own.
Named(c) ==
  \A t \in call[c].token :
    /\ t.agent = call[c].agent /\ t.count \in Nat /\ t.count <= count
    /\ call[c].id = DispatchId(t.agent, t.epoch, t.count)
    /\ t.seq = seq /\ t.request # 0 => entries[t.request].asks = <<call[c].agent>>

\* The view shows all of the World that the character can see.
Fresh(c) ==
  LET a == call[c].agent IN
  /\ view[c].version = version
  /\ view[c].new = New(a) /\ view[c].cursor \in NextCursor(a)
  /\ view[c].sources \subseteq VisibleTo(a) /\ view[c].must \subseteq VisibleTo(a)

\* A call without a dispatch is named after the sequence of its view.
Stepped(c) ==
  call[c].token = {} =>
    call[c].id = <<"step", call[c].agent, view[c].version, view[c].epoch, view[c].seq>>

\* What a caller holds agrees with the World that it may still commit to.
CallerKnows(c) ==
  /\ pc[c] # "idle" => Named(c)
  /\ pc[c] = "deciding" => Stepped(c) /\ (view[c].seq = seq => Fresh(c))

\* A committed identifier names an earlier sequence or a dispatch that is over.
Used(id) ==
  /\ id[1] = "step" => id[5] \in Nat /\ id[5] < seq
  /\ id[1] = "dispatch" => id[4] \in Nat /\ id[4] <= count /\ \A d \in active : d.count # id[4]

\* Every committed identifier is used up.
IdsUsed == \A k \in DOMAIN decided : Used(decided[k].id)

\* NothingSkipped, for everything that is remembered.
Seen(a) ==
  /\ persona[a].cursor <= version
  /\ offered[a] = {v \in VisibleTo(a) : v <= persona[a].cursor}
  /\ \A x \in Range(memory[a]) : x[1] = "entry" => x[2] \in offered[a]
  /\ IsInjective(memory[a])

\* An entry is of one committed decision, and the saved outcome of a character
\* is of one.
Saved ==
  /\ \A v \in DOMAIN entries : \E k \in DOMAIN decided :
       /\ decided[k].id = entries[v].id /\ decided[k].agent = entries[v].by
       /\ decided[k].status = "applied"
  /\ \A v, w \in DOMAIN entries : entries[v].id = entries[w].id => v = w
  /\ \A a \in Agent : persona[a].id # <<>> => \E k \in DOMAIN decided :
       /\ persona[a].id = <<decided[k].id>> /\ decided[k].agent = a
       /\ decided[k].status = persona[a].outcome

\* The inductive invariant.
Inv ==
  /\ IInv /\ Shape /\ \A c \in Caller : CallerKnows(c)
  /\ IdsUsed /\ \A a \in Agent : Seen(a)
  /\ RequestsAreHeard /\ Saved /\ OneAnswer

-----------------------------------------------------------------------------
(* Sequences and finite sets.                                              *)

\* SetToSeq lists each element once.
LEMMA OneOfEach ==
  ASSUME NEW S, IsFiniteSet(S)
  PROVE  /\ SetToSeq(S) \in Seq(S)
         /\ IsInjective(SetToSeq(S))
         /\ Range(SetToSeq(S)) = S
<1> DEFINE n == Cardinality(S)
           f == SetToSeq(S)
<1>1. n \in Nat /\ ExistsBijection(1..n, S) BY FS_CardinalityType
<1>2. PICK g \in [1..n -> S] : IsInjective(g)
  BY <1>1 DEF ExistsBijection, Bijection, Injection
<1>3. f \in [1..n -> S] /\ IsInjective(f) BY <1>2 DEF SetToSeq
<1>4. f \in Seq(S) BY <1>1, <1>3
<1>5. f \in Surjection(1..n, S)
  <2>1. f \in Injection(1..n, S) BY <1>3 DEF Injection
  <2>2. Cardinality(1..n) = n
    BY <1>1, FS_Interval
  <2> HIDE DEF f, n
  <2> QED BY <2>1, <2>2, FS_Injection DEF n
<1>6. Range(f) = S BY <1>3, <1>5 DEF Surjection, Range
<1> QED BY <1>3, <1>4, <1>6

\* Finitely many entries are finitely many candidates.
LEMMA EntriesFinite ==
  ASSUME NEW V, IsFiniteSet(V)
  PROVE  IsFiniteSet({Entry(v) : v \in V})
<1> DEFINE T == {Entry(v) : v \in V}
           f == [v \in V |-> Entry(v)]
<1>1. f \in Surjection(V, T) BY DEF Surjection
<1> QED BY <1>1, FS_Surjection

\* What a view offers is a finite number of candidates.
LEMMA AttentionFinite ==
  ASSUME NEW v, IsFiniteSet(v.new), IsFiniteSet(v.sources), IsFiniteSet(v.must),
         NEW attended \in Attentions(v)
  PROVE  /\ IsFiniteSet(attended)
         /\ Mandatory(v) \subseteq attended
         /\ attended \subseteq Mandatory(v) \cup Candidates(v)
<1>1. PICK S : S \subseteq Candidates(v) \ Mandatory(v) /\ attended = Mandatory(v) \cup S
  BY DEF Attentions
<1>2. IsFiniteSet(Mandatory(v)) BY EntriesFinite DEF Mandatory
<1>3. IsFiniteSet(Candidates(v))
  <2>1. IsFiniteSet(v.new \cup v.sources) BY FS_Union
  <2>2. IsFiniteSet({Entry(w) : w \in v.new \cup v.sources}) BY <2>1, EntriesFinite
  <2>3. IsFiniteSet(Ambient(v.object))
    <3>1. IsFiniteSet({Self} \cup {Place}) BY FS_Singleton, FS_AddElement
    <3>2. Ambient(v.object) = ({Self} \cup {Place}) \cup {Thing(v.object)} BY DEF Ambient
    <3> QED BY <3>1, <3>2, FS_AddElement
  <2> QED BY <2>2, <2>3, FS_Union DEF Candidates
<1>4. IsFiniteSet(S) BY <1>1, <1>3, FS_Subset
<1> QED BY <1>1, <1>2, <1>4, FS_Union

\* A sequence and one more element.
LEMMA Appended ==
  ASSUME NEW s, s \in Seq(Range(s)), NEW e
  PROVE  LET s2 == Append(s, e)
             n == Len(s) + 1
         IN /\ s2 \in Seq(Range(s2))
            /\ n \notin DOMAIN s /\ n \in DOMAIN s2
            /\ DOMAIN s = 1..Len(s) /\ Len(s) \in Nat
            /\ DOMAIN s2 = DOMAIN s \cup {n} /\ Len(s2) = n
            /\ \A k \in DOMAIN s : s2[k] = s[k]
            /\ s2[n] = e
<1> DEFINE S == Range(s) \cup {e}
<1>1. s \in Seq(S) BY SeqMonotonic
<1>2. Append(s, e) \in Seq(S) BY <1>1, AppendProperties
<1>3. Append(s, e) \in Seq(Range(Append(s, e))) BY <1>2, SeqOfRange
<1>4. /\ Len(Append(s, e)) = Len(s) + 1
      /\ \A i \in 1..Len(s) : Append(s, e)[i] = s[i]
      /\ Append(s, e)[Len(s) + 1] = e
  BY <1>1, AppendProperties
<1>5. Len(s) \in Nat /\ DOMAIN s = 1..Len(s) BY LenProperties
<1>6. DOMAIN Append(s, e) = 1..(Len(s) + 1) BY <1>2, <1>4, LenProperties
<1> QED BY <1>3, <1>4, <1>5, <1>6

\* Two sequences without a common element.
LEMMA Joined ==
  ASSUME NEW s, s \in Seq(Range(s)), NEW t, t \in Seq(Range(t)),
         IsInjective(s), IsInjective(t), Range(s) \cap Range(t) = {}
  PROVE  /\ s \o t \in Seq(Range(s \o t))
         /\ Range(s \o t) = Range(s) \cup Range(t)
         /\ Len(s \o t) = Len(s) + Len(t)
         /\ IsInjective(s \o t)
<1> DEFINE S == Range(s) \cup Range(t)
<1>1. s \in Seq(S) /\ t \in Seq(S) BY SeqMonotonic
<1> HIDE DEF S
<1>2. s \o t \in Seq(S) /\ Len(s \o t) = Len(s) + Len(t)
  BY <1>1, ConcatProperties
<1>3. \A i \in 1 .. Len(s) + Len(t) :
        (s \o t)[i] = IF i <= Len(s) THEN s[i] ELSE t[i - Len(s)]
  BY <1>1, ConcatProperties
<1>4. s \o t \in Seq(Range(s \o t)) BY <1>2, SeqOfRange
<1>5. Range(s \o t) = Range(s) \cup Range(t) BY <1>1, RangeConcatenation
<1>6. /\ Len(s) \in Nat /\ Len(t) \in Nat
      /\ DOMAIN s = 1..Len(s) /\ DOMAIN t = 1..Len(t)
      /\ DOMAIN (s \o t) = 1..(Len(s) + Len(t))
  BY <1>1, <1>2, LenProperties
<1>7. ASSUME NEW i \in DOMAIN (s \o t), NEW j \in DOMAIN (s \o t), (s \o t)[i] = (s \o t)[j]
      PROVE  i = j
  <2>1. CASE i <= Len(s) /\ j <= Len(s)
    BY <1>3, <1>6, <1>7, <2>1 DEF IsInjective
  <2>2. CASE ~(i <= Len(s)) /\ ~(j <= Len(s))
    <3>1. i - Len(s) \in DOMAIN t /\ j - Len(s) \in DOMAIN t BY <1>6, <2>2
    <3>2. t[i - Len(s)] = t[j - Len(s)] BY <1>3, <1>6, <1>7, <2>2
    <3>3. i - Len(s) = j - Len(s) BY <3>1, <3>2 DEF IsInjective
    <3> QED BY <1>6, <3>3
  <2>3. CASE i <= Len(s) /\ ~(j <= Len(s))
    <3>1. (s \o t)[i] \in Range(s) BY <1>3, <1>6, <2>3 DEF Range
    <3>2. j - Len(s) \in DOMAIN t BY <1>6, <2>3
    <3>3. (s \o t)[j] = t[j - Len(s)] BY <1>3, <1>6, <2>3
    <3>4. (s \o t)[j] \in Range(t) BY <3>2, <3>3 DEF Range
    <3> QED BY <1>7, <3>1, <3>4
  <2>4. CASE ~(i <= Len(s)) /\ j <= Len(s)
    <3>1. (s \o t)[j] \in Range(s) BY <1>3, <1>6, <2>4 DEF Range
    <3>2. i - Len(s) \in DOMAIN t BY <1>6, <2>4
    <3>3. (s \o t)[i] = t[i - Len(s)] BY <1>3, <1>6, <2>4
    <3>4. (s \o t)[i] \in Range(t) BY <3>2, <3>3 DEF Range
    <3> QED BY <1>7, <3>1, <3>4
  <2> QED BY <2>1, <2>2, <2>3, <2>4
<1>8. IsInjective(s \o t) BY <1>7 DEF IsInjective
<1> QED BY <1>2, <1>4, <1>5, <1>8

-----------------------------------------------------------------------------
(* Steps that commit nothing.                                              *)

\* Everything that a view shows or a commit writes, and the history.
Kept == <<seq, version, public, private, decided, offered>>

\* A step charges a dispatch, or only ends one.
Charges ==
  \/ count' = count /\ active' \subseteq active
  \/ count' = count + 1 /\ \A d \in active' : d.count = count'

\* Inv of a new World: there is nothing that it could be wrong about.
LEMMA InitInv == Init => Inv
<1> SUFFICES ASSUME Init PROVE Inv
  OBVIOUS
<1>1. IInv BY InitEstablishes
<1>2. Shape
  <2>1. <<>> \in Seq(Range(<<>>)) BY EmptySeq
  <2> QED BY <2>1 DEF Init, Shape, Fields, NewPersona
<1>3. \A c \in Caller : CallerKnows(c) BY DEF Init, CallerKnows
<1>4. IdsUsed BY DEF Init, IdsUsed
<1>5. ASSUME NEW a \in Agent PROVE Seen(a)
  <2>1. persona[a].cursor = 0 /\ offered[a] = {} /\ memory[a] = <<>> /\ VisibleTo(a) = {}
    BY DEF Init, NewPersona, VisibleTo
  <2> QED BY <2>1 DEF Init, Seen, IsInjective, Range
<1>6. RequestsAreHeard /\ OneAnswer BY DEF Init, RequestsAreHeard, OneAnswer
<1>7. Saved BY DEF Init, Saved, NewPersona
<1> QED BY <1>1, <1>2, <1>3, <1>4, <1>5, <1>6, <1>7 DEF Inv

\* The parts of Inv that are about the rows survive a step that keeps them.
LEMMA KeptRows ==
  ASSUME Inv, UNCHANGED Kept, Charges
  PROVE  /\ Shape' /\ IdsUsed' /\ (\A a \in Agent : Seen(a)')
         /\ RequestsAreHeard' /\ Saved'
<1> USE DEF Kept, public, private
<1>1. count \in Nat /\ count' \in Nat /\ count <= count' BY DEF Inv, Shape, Charges
<1>2. Shape' BY <1>1 DEF Inv, Shape
<1>3. IdsUsed'
  <2> SUFFICES ASSUME NEW k \in DOMAIN decided PROVE Used(decided[k].id)'
    BY DEF IdsUsed
  <2>1. Used(decided[k].id) BY DEF Inv, IdsUsed
  <2> QED BY <1>1, <2>1 DEF Used, Charges
<1>4. ASSUME NEW a \in Agent PROVE Seen(a)'
  <2>1. Seen(a) BY DEF Inv
  <2> QED BY <2>1 DEF Seen, VisibleTo
<1>5. RequestsAreHeard' BY DEF Inv, RequestsAreHeard
<1>6. Saved' BY DEF Inv, Saved
<1> QED BY <1>2, <1>3, <1>4, <1>5, <1>6

\* A caller that such a step leaves alone knows what it knew.
LEMMA OtherKnows ==
  ASSUME NEW c \in Caller, CallerKnows(c), UNCHANGED Kept, count \in Nat, Charges,
         pc'[c] = pc[c], call'[c] = call[c], view'[c] = view[c]
  PROVE  CallerKnows(c)'
<1> USE DEF Kept, public, private
<1>1. count' \in Nat /\ count <= count' BY DEF Charges
<1>2. Named(c) => Named(c)' BY <1>1 DEF Named
<1>3. Stepped(c) => Stepped(c)' BY DEF Stepped
<1>4. Fresh(c) => Fresh(c)' BY DEF Fresh, New, NextCursor, VisibleTo
<1> QED BY <1>2, <1>3, <1>4 DEF CallerKnows

\* What is answered without a decision was committed.
Known(t) ==
  \E k \in DOMAIN decided :
    /\ decided[k].id = t.id /\ decided[k].agent = t.agent
    /\ decided[k].status = t.outcome.status
    /\ EntriesOf(t.id) = {t.outcome.entry} \ {0}

\* A replay tells what was committed.
LEMMA ReplayKnown ==
  ASSUME Inv, NEW a \in Agent, NEW id, NEW outcome \in Replays(a, id), ~ReplayFails(a, id)
  PROVE  Known([agent |-> a, id |-> id, outcome |-> outcome])
<1>1. CASE EntriesOf(id) # {}
  <2>1. PICK v \in EntriesOf(id) : outcome = [status |-> "applied", entry |-> v]
    BY <1>1 DEF Replays
  <2>2. v \in DOMAIN entries /\ entries[v].id = id /\ entries[v].by = a /\ v # 0
    BY <2>1 DEF EntriesOf, ReplayFails, Inv, Shape
  <2>3. EntriesOf(id) = {v} BY <2>2 DEF EntriesOf, Inv, Saved
  <2>4. PICK k \in DOMAIN decided :
          decided[k].id = id /\ decided[k].agent = a /\ decided[k].status = "applied"
    BY <2>2 DEF Inv, Saved
  <2> QED BY <2>1, <2>2, <2>3, <2>4 DEF Known
<1>2. CASE EntriesOf(id) = {}
  <2>1. /\ persona[a].id = <<id>>
        /\ outcome = [status |-> persona[a].outcome, entry |-> 0]
    BY <1>2 DEF Replays
  <2>2. PICK k \in DOMAIN decided :
          /\ persona[a].id = <<decided[k].id>> /\ decided[k].agent = a
          /\ decided[k].status = persona[a].outcome
    BY <2>1 DEF Inv, Saved
  <2> QED BY <1>2, <2>1, <2>2 DEF Known
<1> QED BY <1>1, <1>2

\* The rest of a step that commits nothing.
LEMMA KeptStep ==
  ASSUME Inv, IInv', UNCHANGED Kept, Charges, NEW c \in Caller,
         \A d \in Caller \ {c} : pc'[d] = pc[d] /\ call'[d] = call[d] /\ view'[d] = view[d],
         CallerKnows(c)',
         \A t \in answers' : t \in answers \/ Known(t)
  PROVE  Inv'
<1>1. \A d \in Caller : CallerKnows(d)'
  <2> SUFFICES ASSUME NEW d \in Caller, d # c PROVE CallerKnows(d)'
    OBVIOUS
  <2> QED BY OtherKnows DEF Inv, Shape
<1>2. OneAnswer'
  <2>1. \A t \in answers' : Known(t) BY DEF Inv, OneAnswer, Known
  <2> QED BY <2>1 DEF Inv, OneAnswer, Known, EntriesOf, Kept, public
<1> QED BY <1>1, <1>2, KeptRows DEF Inv

\* A call begins: it knows no more than its name.
LEMMA StartKeeps ==
  ASSUME Inv, IInv', NEW c \in Caller, NEW a \in Agent, NEW id, NEW token,
         Start(c, a, id, token), UNCHANGED <<Kept, view, answers>>, Charges,
         \A t \in token :
           /\ t.agent = a /\ t.count \in Nat /\ t.count <= count'
           /\ id = DispatchId(a, t.epoch, t.count)
           /\ t.request # 0 => entries[t.request].asks = <<a>>
  PROVE  Inv'
<1>1. CallersTyped BY DEF Inv, IInv
<1>2. /\ pc'[c] = "calling" /\ call'[c] = [agent |-> a, id |-> id, token |-> token]
      /\ \A d \in Caller \ {c} : pc'[d] = pc[d] /\ call'[d] = call[d] /\ view'[d] = view[d]
  BY <1>1 DEF Start, CallersTyped
<1>3. CallerKnows(c)' BY <1>2 DEF CallerKnows, Named, Kept, public
<1> QED BY <1>2, <1>3, KeptStep

\* A caller that is done, or gave up.
LEMMA ForgetKeeps ==
  ASSUME Inv, IInv', NEW c \in Caller, UNCHANGED Kept, Charges,
         pc' = [pc EXCEPT ![c] = "idle"], call' = [call EXCEPT ![c] = NoCall],
         view' = view \/ view' = [view EXCEPT ![c] = NoView],
         \A t \in answers' : t \in answers \/ Known(t)
  PROVE  Inv'
<1>1. CallersTyped BY DEF Inv, IInv
<1>2. /\ pc'[c] = "idle"
      /\ \A d \in Caller \ {c} : pc'[d] = pc[d] /\ call'[d] = call[d] /\ view'[d] = view[d]
  BY <1>1 DEF CallersTyped
<1>3. CallerKnows(c)' BY <1>2 DEF CallerKnows
<1> QED BY <1>2, <1>3, KeptStep

\* A view shows all that its character can see, up to its cursor.
LEMMA ReadKeeps ==
  ASSUME Inv, IInv', NEW c \in Caller, Read(c)
  PROVE  Inv'
<1> DEFINE a == call[c].agent
<1>1. PICK cursor \in NextCursor(a) : view' = [view EXCEPT ![c] = ViewOf(c, cursor)]
  BY DEF Read
<1>2. /\ pc[c] = "calling" /\ pc' = [pc EXCEPT ![c] = "deciding"]
      /\ UNCHANGED <<Kept, row, call, answers>>
      /\ MayRead(c) /\ Servable(a)
  BY DEF Read, row, past, Kept
<1>3. CallersTyped BY DEF Inv, IInv
<1>4. /\ pc'[c] = "deciding" /\ call'[c] = call[c] /\ view'[c] = ViewOf(c, cursor)
      /\ \A d \in Caller \ {c} : pc'[d] = pc[d] /\ call'[d] = call[d] /\ view'[d] = view[d]
  BY <1>1, <1>2, <1>3 DEF CallersTyped
<1>5. Charges BY <1>2 DEF Charges, row
<1>6. Named(c) /\ a \in Agent
  BY <1>2 DEF Inv, CallerKnows, IInv, CallerOK, Charged
<1>7. CallerKnows(c)'
  <2>1. Named(c)' BY <1>2, <1>4, <1>6 DEF Named, Kept, row, public
  <2>2. Stepped(c)' BY <1>2, <1>4 DEF MayRead, Stepped, StepId, ViewOf
  <2>3. {t.request : t \in call[c].token} \ {0} \subseteq VisibleTo(a)
    <3> SUFFICES ASSUME NEW t \in call[c].token, t.request # 0
                 PROVE  t.request \in VisibleTo(a)
      OBVIOUS
    <3>1. t.seq = seq BY <1>2 DEF MayRead
    <3>2. t.request \in pending
      BY <1>2, <3>1 DEF Inv, IInv, CallerOK, Charged
    <3>3. t.request \in RequestsOf(a) BY <1>6, <3>1, <3>2 DEF Named, RequestsOf
    <3> QED BY <1>2, <3>3 DEF Servable
  <2>4. Fresh(c)'
    BY <1>2, <1>4, <2>3 DEF Fresh, ViewOf, New, NextCursor, VisibleTo, RequestsOf, Servable,
                            Kept, row, public, private
  <2> QED BY <2>1, <2>2, <2>4 DEF CallerKnows
<1> QED BY <1>2, <1>4, <1>5, <1>7, KeptStep

\* A failed decision goes back to its call.
LEMMA FailKeeps ==
  ASSUME Inv, IInv', NEW c \in Caller, DecisionFails(c)
  PROVE  Inv'
<1>1. /\ pc[c] = "deciding" /\ pc' = [pc EXCEPT ![c] = "calling"]
      /\ view' = [view EXCEPT ![c] = NoView]
      /\ UNCHANGED <<Kept, count, call, answers>>
      /\ active' \subseteq active
  BY DEF DecisionFails, past, Kept
<1>2. CallersTyped BY DEF Inv, IInv
<1>3. /\ pc'[c] = "calling" /\ call'[c] = call[c]
      /\ \A d \in Caller \ {c} : pc'[d] = pc[d] /\ call'[d] = call[d] /\ view'[d] = view[d]
  BY <1>1, <1>2 DEF CallersTyped
<1>4. Charges BY <1>1 DEF Charges
<1>5. Named(c) BY <1>1 DEF Inv, CallerKnows
<1>6. CallerKnows(c)' BY <1>1, <1>3, <1>5 DEF CallerKnows, Named, Kept, public
<1> QED BY <1>1, <1>3, <1>4, <1>6, KeptStep

\* A step of no caller.
LEMMA NobodyKeeps ==
  ASSUME Inv, IInv', UNCHANGED <<Kept, pc, call, view>>, Charges,
         \A t \in answers' : t \in answers \/ Known(t)
  PROVE  Inv'
<1>1. \A d \in Caller : CallerKnows(d)' BY OtherKnows DEF Inv, Shape
<1>2. OneAnswer'
  <2>1. \A t \in answers' : Known(t) BY DEF Inv, OneAnswer, Known
  <2> QED BY <2>1 DEF Inv, OneAnswer, Known, EntriesOf, Kept, public
<1> QED BY <1>1, <1>2, KeptRows DEF Inv

\* A claim charges a new count and names the dispatch after it.
LEMMA ClaimKeeps ==
  ASSUME Inv, IInv', NEW c \in Caller, NEW a \in Agent, Claim(c, a)
  PROVE  Inv'
<1> DEFINE T(r) == {[owner |-> c, agent |-> a, count |-> count', epoch |-> epoch,
                     version |-> version, seq |-> seq, request |-> r]}
<1>1. PICK r \in Oldest(RequestsOf(a) \ handed) :
        Start(c, a, DispatchId(a, epoch, count'), T(r))
  BY DEF Claim
<1>2. r = 0 \/ r \in RequestsOf(a) BY <1>1 DEF Oldest
<1>3. count' = count + 1 /\ count' \in Nat /\ active' = {[agent |-> a, count |-> count']}
  BY DEF Claim, Inv, Shape
<1>4. \A t \in T(r) :
        /\ t.agent = a /\ t.count \in Nat /\ t.count <= count'
        /\ DispatchId(a, epoch, count') = DispatchId(a, t.epoch, t.count)
        /\ t.request # 0 => entries[t.request].asks = <<a>>
  BY <1>2, <1>3 DEF RequestsOf
<1>5. UNCHANGED <<Kept, view, answers>> BY DEF Claim, Kept, past
<1>6. Charges BY <1>3 DEF Charges
<1> QED BY <1>1, <1>4, <1>5, <1>6, StartKeeps

-----------------------------------------------------------------------------
(* The commit.                                                             *)

\* StateUpdate writes the fields it names and keeps the others.
LEMMA UpdateFields ==
  ASSUME NEW v, NEW id, NEW attended, NEW draft, NEW status, NEW disposition,
         Fields \subseteq DOMAIN v.persona
  PROVE  LET u == [StateUpdate(v, id, attended, draft, status, disposition)
                     EXCEPT !.revision = @ + 1]
         IN /\ Fields \subseteq DOMAIN u
            /\ u.cursor = v.cursor /\ u.id = <<id>> /\ u.outcome = status
            /\ u.revision = v.persona.revision + 1
            /\ u.noted = v.persona.noted + Len(Writes(v, attended))
<1> DEFINE planned == Planned(v.persona, draft)
           thought == AfterOutcome(planned, status, disposition)
<1>1. /\ Fields \subseteq DOMAIN planned
      /\ planned.revision = v.persona.revision /\ planned.noted = v.persona.noted
  BY DEF Planned, Fields
<1>2. /\ Fields \subseteq DOMAIN thought
      /\ thought.revision = v.persona.revision /\ thought.noted = v.persona.noted
  <2> HIDE DEF planned
  <2> QED BY <1>1 DEF AfterOutcome, Fields
<1>3. StateUpdate(v, id, attended, draft, status, disposition) =
        [thought EXCEPT !.seen = Committed(v, status),
                        !.noted = @ + Len(Writes(v, attended)),
                        !.cursor = v.cursor, !.id = <<id>>, !.outcome = status]
  BY DEF StateUpdate
<1> HIDE DEF thought
<1> QED BY <1>2, <1>3 DEF Fields

\* The sides of a commit: its caller's view is the World.
LEMMA Ready ==
  ASSUME Inv, NEW c \in Caller, pc[c] = "deciding", WorldFence(c)
  PROVE  /\ call[c].agent \in Agent
         /\ view[c].seq = seq /\ Current(c) /\ Fresh(c) /\ Named(c) /\ Stepped(c)
<1>1. CallerOK(c) /\ CallerKnows(c) BY DEF Inv, IInv
<1>2. Charged(c) /\ Informed(c) BY <1>1 DEF CallerOK
<1>3. view[c].seq = seq BY DEF WorldFence
<1> QED BY <1>1, <1>2, <1>3 DEF CallerKnows, Charged, Informed

\* No decision was committed under the identifier of a commit.
LEMMA FreshId ==
  ASSUME Inv, NEW c \in Caller, pc[c] = "deciding", WorldFence(c), NEW k \in DOMAIN decided
  PROVE  decided[k].id # call[c].id
<1>1. /\ view[c].seq = seq /\ Named(c) /\ Stepped(c) BY Ready
<1>2. Used(decided[k].id) BY DEF Inv, IdsUsed
<1>3. seq \in Nat BY DEF Inv, IInv, RowsTyped
<1>4. CASE call[c].token = {}
  <2>1. call[c].id = <<"step", call[c].agent, view[c].version, view[c].epoch, seq>>
    BY <1>1, <1>4 DEF Stepped
  <2>2. call[c].id[1] = "step" /\ call[c].id[5] = seq BY <2>1
  <2> QED BY <1>2, <1>3, <2>2 DEF Used
<1>5. CASE call[c].token # {}
  <2>1. PICK t : t \in call[c].token BY <1>5
  <2>2. call[c].id = <<"dispatch", t.agent, t.epoch, t.count>>
    BY <1>1, <2>1 DEF Named, DispatchId
  <2>3. call[c].id[1] = "dispatch" /\ call[c].id[4] = t.count BY <2>2
  <2>4. active = {[agent |-> t.agent, count |-> t.count]}
    BY <2>1 DEF WorldFence, TokenIsActive
  <2> QED BY <1>2, <2>3, <2>4 DEF Used
<1> QED BY <1>4, <1>5

\* What is left in the view are entries that the character can see.
LEMMA AttendedSeen ==
  ASSUME Inv, NEW c \in Caller, Fresh(c), call[c].agent \in Agent,
         NEW attended \in Attentions(view[c])
  PROVE  /\ IsFiniteSet(attended) /\ Mandatory(view[c]) \subseteq attended
         /\ \A x \in attended : x[1] = "entry" => x[2] \in VisibleTo(call[c].agent)
<1> DEFINE v == view[c]
           V == VisibleTo(call[c].agent)
<1>1. IsFiniteSet(V)
  <2>1. 2 \in Int /\ version \in Int BY DEF Inv, Shape
  <2>2. IsFiniteSet(2..version) BY <2>1, FS_Interval
  <2>3. V \subseteq 2..version BY DEF VisibleTo, Inv, Shape
  <2> QED BY <2>2, <2>3, FS_Subset
<1>2. v.new \subseteq V /\ v.sources \subseteq V /\ v.must \subseteq V BY DEF Fresh, New
<1>3. IsFiniteSet(v.new) /\ IsFiniteSet(v.sources) /\ IsFiniteSet(v.must)
  BY <1>1, <1>2, FS_Subset
<1>4. /\ IsFiniteSet(attended) /\ Mandatory(v) \subseteq attended
      /\ attended \subseteq Mandatory(v) \cup Candidates(v)
  BY <1>3, AttentionFinite
<1>5. \A x \in Mandatory(v) \cup Candidates(v) : x[1] = "entry" => x[2] \in V
  <2> SUFFICES ASSUME NEW x \in Mandatory(v) \cup Candidates(v), x[1] = "entry"
               PROVE  x[2] \in V
    OBVIOUS
  <2>1. x \notin Ambient(v.object) BY DEF Ambient, Self, Place, Thing
  <2>2. PICK w \in v.must \cup v.new \cup v.sources : x = Entry(w)
    BY <2>1 DEF Mandatory, Candidates
  <2> QED BY <1>2, <2>2 DEF Entry
<1> QED BY <1>4, <1>5

\* What a character remembers after a commit: what it did, and what it attended
\* if its policy records that.
LEMMA Remembered ==
  ASSUME Inv, NEW c \in Caller, Fresh(c), Current(c), call[c].agent \in Agent,
         NEW attended \in Attentions(view[c]), CommitMemory(c, attended)
  PROVE  LET a == call[c].agent
             m == memory[a] \o Writes(view[c], attended)
         IN /\ memory' = [memory EXCEPT ![a] = m]
            /\ m \in Seq(Range(m)) /\ IsInjective(m)
            /\ Range(m) = Range(memory[a]) \cup (IF a \in Observing THEN attended ELSE {})
            /\ Len(m) = Len(memory[a]) + Len(Writes(view[c], attended))
<1> DEFINE a == call[c].agent
           S == {x \in attended : Novel(memory[a], x)}
           W == Writes(view[c], attended)
           m == memory[a] \o W
<1>1. memory[a] \in Seq(Range(memory[a])) /\ IsInjective(memory[a])
  BY DEF Inv, Shape, Seen
<1>2. S = {x \in attended : x \notin Range(memory[a])} BY DEF Novel, Range
<1>3. IsFiniteSet(S) BY AttendedSeen, FS_Subset
<1>4. W = IF a \in Observing THEN SetToSeq(S) ELSE <<>>
  BY DEF Writes, NewObservations, Current
<1>5. memory' = [memory EXCEPT ![a] = m] BY DEF CommitMemory
<1> HIDE DEF S, W
<1>6. /\ W \in Seq(Range(W)) /\ IsInjective(W)
      /\ Range(W) = IF a \in Observing THEN S ELSE {}
  <2>1. CASE a \in Observing
    <3>1. /\ SetToSeq(S) \in Seq(S) /\ IsInjective(SetToSeq(S)) /\ Range(SetToSeq(S)) = S
      BY <1>3, OneOfEach
    <3> QED BY <1>4, <2>1, <3>1
  <2>2. CASE a \notin Observing
    <3>1. W = <<>> BY <1>4, <2>2
    <3>2. Range(<<>>) = {} /\ <<>> \in Seq({}) /\ IsInjective(<<>>)
      BY EmptySeq DEF Range, IsInjective
    <3> QED BY <2>2, <3>1, <3>2
  <2> QED BY <2>1, <2>2
<1>7. Range(memory[a]) \cap Range(W) = {} BY <1>2, <1>6
<1>8. /\ m \in Seq(Range(m)) /\ IsInjective(m)
      /\ Range(m) = Range(memory[a]) \cup Range(W)
      /\ Len(m) = Len(memory[a]) + Len(W)
  BY <1>1, <1>6, <1>7, Joined
<1>9. Range(memory[a]) \cup Range(W) =
        Range(memory[a]) \cup (IF a \in Observing THEN attended ELSE {})
  BY <1>2, <1>6
<1>10. Range(m) = Range(memory[a]) \cup (IF a \in Observing THEN attended ELSE {})
  BY <1>8, <1>9
<1> HIDE DEF m
<1> QED BY <1>5, <1>8, <1>10 DEF W, m

\* The public side of a commit, as far as the history depends on it.
RowsCommitted(c, act) ==
  /\ seq \in Nat /\ seq' = seq + 1 /\ count' = count
  /\ active' = IF call[c].token = {} THEN active ELSE {}
  /\ version' = IF StatusOf(act) = "applied" THEN version + 1 ELSE version
  /\ DOMAIN entries' = IF StatusOf(act) = "applied"
                         THEN DOMAIN entries \cup {version'} ELSE DOMAIN entries
  /\ \A v \in DOMAIN entries : v <= version /\ v # 0 /\ entries'[v] = entries[v]
  /\ StatusOf(act) = "applied" =>
       /\ version' \notin DOMAIN entries
       /\ entries'[version'].id = call[c].id
       /\ entries'[version'].by = call[c].agent
       /\ entries'[version'].op = act.op

\* Its private side.
PersonaCommitted(c, attended, act, u) ==
  /\ persona' = [persona EXCEPT ![call[c].agent] = u]
  /\ Fields \subseteq DOMAIN u
  /\ u.cursor = view[c].cursor /\ u.id = <<call[c].id>> /\ u.outcome = StatusOf(act)
  /\ u.revision = persona[call[c].agent].revision + 1
  /\ u.noted = persona[call[c].agent].noted + Len(Writes(view[c], attended))

\* Its place in the history.
HistoryCommitted(c, act, n) ==
  /\ decided' \in Seq(Range(decided')) /\ n \notin DOMAIN decided
  /\ DOMAIN decided = 1..(n - 1) /\ n \in Nat \ {0}
  /\ DOMAIN decided' = DOMAIN decided \cup {n} /\ Len(decided') = n
  /\ \A k \in DOMAIN decided : decided'[k] = decided[k]
  /\ decided'[n] = [agent |-> call[c].agent, id |-> call[c].id,
                    status |-> StatusOf(act), must |-> view[c].must]

\* A commit writes the rows of the World as RowsCommitted says.
LEMMA CommittedRows ==
  ASSUME Inv, NEW c \in Caller, Fresh(c), NEW attended, NEW draft, NEW disposition, NEW act,
         Commit(c, attended, draft, disposition, act)
  PROVE  RowsCommitted(c, act)
<1>1. version \in Nat \ {0} /\ DOMAIN entries \subseteq 2..version BY DEF Inv, Shape
<1>2. seq \in Nat BY DEF Inv, IInv, RowsTyped
<1>3. version' = IF StatusOf(act) = "applied" THEN version + 1 ELSE version
  BY DEF Commit, ApplyRow, Committed, Fresh
<1>4. seq' = seq + 1 /\ count' = count /\ active' = IF call[c].token = {} THEN active ELSE {}
  BY DEF Commit, ApplyRow
<1>5. ApplyEntry(c, act) BY DEF Commit
<1>6. CASE StatusOf(act) = "applied"
  <2>1. version' \notin DOMAIN entries BY <1>1, <1>3, <1>6
  <2>2. entries' = [w \in DOMAIN entries \cup {version'} |->
                     IF w # version' THEN entries[w]
                     ELSE [by |-> call[c].agent, id |-> call[c].id, to |-> act.to,
                           asks |-> act.asks, op |-> act.op]]
    BY <1>5, <1>6 DEF ApplyEntry
  <2>3. \A v \in DOMAIN entries : entries'[v] = entries[v] BY <2>1, <2>2
  <2>4. /\ entries'[version'].id = call[c].id
        /\ entries'[version'].by = call[c].agent
        /\ entries'[version'].op = act.op
    BY <2>2
  <2> QED BY <1>1, <1>2, <1>3, <1>4, <1>6, <2>1, <2>2, <2>3, <2>4 DEF RowsCommitted
<1>7. CASE StatusOf(act) # "applied"
  <2>1. entries' = entries BY <1>5, <1>7 DEF ApplyEntry
  <2> QED BY <1>1, <1>2, <1>3, <1>4, <1>7, <2>1 DEF RowsCommitted
<1> QED BY <1>6, <1>7

\* A commit writes the row of its character as PersonaCommitted says.
LEMMA CommittedPersona ==
  ASSUME Inv, NEW c \in Caller, Fresh(c), Current(c), call[c].agent \in Agent,
         NEW attended, NEW draft, NEW disposition, NEW act,
         Commit(c, attended, draft, disposition, act)
  PROVE  \E u : PersonaCommitted(c, attended, act, u)
<1> DEFINE w == [StateUpdate(view[c], call[c].id, attended, draft, StatusOf(act), disposition)
                   EXCEPT !.revision = @ + 1]
<1>1. persona' = [persona EXCEPT ![call[c].agent] = w] BY DEF Commit, CommitPersona
<1>2. view[c].persona = persona[call[c].agent] BY DEF Current
<1>3. Fields \subseteq DOMAIN view[c].persona BY <1>2 DEF Inv, Shape
<1>4. /\ Fields \subseteq DOMAIN w
      /\ w.cursor = view[c].cursor /\ w.id = <<call[c].id>> /\ w.outcome = StatusOf(act)
      /\ w.revision = view[c].persona.revision + 1
      /\ w.noted = view[c].persona.noted + Len(Writes(view[c], attended))
  BY <1>3, UpdateFields
<1> HIDE DEF w
<1>5. PersonaCommitted(c, attended, act, w) BY <1>1, <1>2, <1>4 DEF PersonaCommitted
<1> QED BY <1>5

\* A commit appends one decision to the history.
LEMMA CommittedHistory ==
  ASSUME Inv, NEW c \in Caller, NEW attended, NEW draft, NEW disposition, NEW act,
         Commit(c, attended, draft, disposition, act)
  PROVE  HistoryCommitted(c, act, Len(decided) + 1)
<1> DEFINE e == [agent |-> call[c].agent, id |-> call[c].id,
                 status |-> StatusOf(act), must |-> view[c].must]
<1>1. decided \in Seq(Range(decided)) BY DEF Inv, Shape
<1>2. decided' = Append(decided, e) BY DEF Commit
<1> HIDE DEF e
<1>3. /\ decided' \in Seq(Range(decided')) /\ Len(decided) + 1 \notin DOMAIN decided
      /\ DOMAIN decided = 1..Len(decided) /\ Len(decided) \in Nat
      /\ DOMAIN decided' = DOMAIN decided \cup {Len(decided) + 1}
      /\ Len(decided') = Len(decided) + 1
      /\ \A k \in DOMAIN decided : decided'[k] = decided[k]
      /\ decided'[Len(decided) + 1] = e
  BY <1>1, <1>2, Appended
<1>4. Len(decided) + 1 \in Nat \ {0} /\ (Len(decided) + 1) - 1 = Len(decided) BY <1>3
<1> QED BY <1>3, <1>4 DEF HistoryCommitted, e

\* A commit keeps the rows in shape.
LEMMA CommitShape ==
  ASSUME Inv, NEW c \in Caller, NEW attended \in Attentions(view[c]), NEW draft,
         NEW disposition, NEW act, Commit(c, attended, draft, disposition, act)
  PROVE  Shape'
<1> DEFINE a == call[c].agent
<1>1. a \in Agent /\ Current(c) /\ Fresh(c) BY Ready DEF Commit
<1>2. version' \in Nat \ {0} /\ count' \in Nat /\ DOMAIN entries' \subseteq 2..version'
  <2>1. RowsCommitted(c, act) BY <1>1, CommittedRows
  <2> QED BY <2>1 DEF RowsCommitted, Inv, Shape
<1>3. decided' \in Seq(Range(decided')) BY CommittedHistory DEF HistoryCommitted
<1>4. offered' = [b \in Agent |-> offered'[b]] BY DEF Commit, Inv, Shape
<1>5. PICK u : persona' = [persona EXCEPT ![a] = u] /\ Fields \subseteq DOMAIN u
  BY <1>1, CommittedPersona DEF PersonaCommitted
<1>6. PICK m : memory' = [memory EXCEPT ![a] = m] /\ m \in Seq(Range(m))
  BY <1>1, Remembered DEF Commit
<1>7. ASSUME NEW b \in Agent
      PROVE  Fields \subseteq DOMAIN persona'[b] /\ memory'[b] \in Seq(Range(memory'[b]))
  <2>1. persona'[b] = (IF b = a THEN u ELSE persona[b]) /\ memory'[b] = IF b = a THEN m ELSE memory[b]
    BY <1>5, <1>6 DEF Inv, IInv, RowsTyped
  <2> QED BY <1>5, <1>6, <2>1 DEF Inv, Shape
<1> QED BY <1>2, <1>3, <1>4, <1>7 DEF Shape

\* The other callers are late: their views and requests are of an earlier sequence.
LEMMA CommitCallers ==
  ASSUME Inv, NEW c \in Caller, NEW attended, NEW draft, NEW disposition, NEW act,
         Commit(c, attended, draft, disposition, act), NEW d \in Caller
  PROVE  CallerKnows(d)'
<1>1. seq \in Nat /\ seq' = seq + 1 /\ count' = count
  BY DEF Commit, ApplyRow, Inv, IInv, RowsTyped
<1>2. CallersTyped BY DEF Inv, IInv
<1>3. CASE d = c
  <2>1. pc'[c] = "idle" BY <1>2 DEF Commit, Told, CallersTyped
  <2> QED BY <1>3, <2>1 DEF CallerKnows
<1>4. CASE d # c
  <2>1. pc'[d] = pc[d] /\ call'[d] = call[d] /\ view'[d] = view[d]
    BY <1>2, <1>4 DEF Commit, Told, CallersTyped
  <2>2. CallerKnows(d) /\ CallerOK(d) BY DEF Inv, IInv
  <2>3. pc[d] # "idle" => Named(d)'
    <3> SUFFICES ASSUME pc[d] # "idle", NEW t \in call[d].token
                 PROVE  /\ t.agent = call[d].agent /\ t.count \in Nat /\ t.count <= count
                        /\ call[d].id = DispatchId(t.agent, t.epoch, t.count)
                        /\ t.seq # seq'
      BY <1>1, <2>1 DEF Named
    <3>1. Named(d) /\ Charged(d) BY <2>2 DEF CallerKnows, CallerOK
    <3> QED BY <1>1, <3>1 DEF Named, Charged
  <2>4. pc[d] = "deciding" => Stepped(d)' /\ view[d].seq # seq'
    BY <1>1, <2>1, <2>2 DEF CallerKnows, CallerOK, Stepped, Informed
  <2> QED BY <2>1, <2>3, <2>4 DEF CallerKnows
<1> QED BY <1>3, <1>4

\* The identifier of the commit is used up with it.
LEMMA CommitIds ==
  ASSUME Inv, NEW c \in Caller, NEW attended, NEW draft, NEW disposition, NEW act,
         Commit(c, attended, draft, disposition, act)
  PROVE  IdsUsed'
<1>1. Fresh(c) /\ Named(c) /\ Stepped(c) /\ view[c].seq = seq BY Ready DEF Commit
<1>2. /\ seq \in Nat /\ seq' = seq + 1 /\ count' = count
      /\ active' = IF call[c].token = {} THEN active ELSE {}
  BY <1>1, CommittedRows DEF RowsCommitted
<1>3. PICK n : HistoryCommitted(c, act, n) BY CommittedHistory
<1> SUFFICES ASSUME NEW k \in DOMAIN decided' PROVE Used(decided[k].id)'
  BY DEF IdsUsed
<1>4. CASE k \in DOMAIN decided
  <2>1. decided'[k] = decided[k] BY <1>3, <1>4 DEF HistoryCommitted
  <2>2. Used(decided[k].id) BY <1>4 DEF Inv, IdsUsed
  <2>3. active' \subseteq active BY <1>2
  <2> QED BY <1>2, <2>1, <2>2, <2>3 DEF Used
<1>5. CASE k \notin DOMAIN decided
  <2>1. decided'[k].id = call[c].id
    <3>1. decided'[k] = [agent |-> call[c].agent, id |-> call[c].id,
                         status |-> StatusOf(act), must |-> view[c].must]
      BY <1>3, <1>5 DEF HistoryCommitted
    <3> QED BY <3>1
  <2>2. CASE call[c].token = {}
    <3>1. call[c].id[1] = "step" /\ call[c].id[5] = seq BY <1>1, <2>2 DEF Stepped
    <3> QED BY <1>2, <2>1, <3>1 DEF Used
  <2>3. CASE call[c].token # {}
    <3>1. PICK t : t \in call[c].token BY <2>3
    <3>2. /\ call[c].id[1] = "dispatch" /\ call[c].id[4] = t.count
          /\ t.count \in Nat /\ t.count <= count
      BY <1>1, <3>1 DEF Named, DispatchId
    <3>3. active' = {} BY <1>2, <2>3
    <3> QED BY <1>2, <2>1, <3>2, <3>3 DEF Used
  <2> QED BY <2>2, <2>3
<1> QED BY <1>4, <1>5

\* Each character has been shown what it can see up to its cursor.
LEMMA CommitSeen ==
  ASSUME Inv, NEW c \in Caller, NEW attended \in Attentions(view[c]), NEW draft,
         NEW disposition, NEW act, Commit(c, attended, draft, disposition, act),
         NEW b \in Agent
  PROVE  Seen(b)'
<1> DEFINE a == call[c].agent
<1>1. a \in Agent /\ Current(c) /\ Fresh(c) BY Ready DEF Commit
<1>2. RowsCommitted(c, act) BY <1>1, CommittedRows
<1>3. /\ version \in Nat /\ version' \in Nat /\ version <= version'
      /\ DOMAIN entries \subseteq 2..version
      /\ persona[b].cursor \in Nat
  BY <1>2 DEF RowsCommitted, Inv, Shape, IInv, RowsTyped
<1>4. \A n \in Nat : n <= version =>
        {v \in VisibleTo(b)' : v <= n} = {v \in VisibleTo(b) : v <= n}
  <2>1. CASE StatusOf(act) = "applied"
    <3>1. /\ version' = version + 1 /\ DOMAIN entries' = DOMAIN entries \cup {version'}
          /\ \A v \in DOMAIN entries : entries'[v] = entries[v]
      BY <1>2, <2>1 DEF RowsCommitted
    <3> QED BY <1>3, <3>1 DEF VisibleTo
  <2>2. CASE StatusOf(act) # "applied"
    <3>1. /\ DOMAIN entries' = DOMAIN entries
          /\ \A v \in DOMAIN entries : entries'[v] = entries[v]
      BY <1>2, <2>2 DEF RowsCommitted
    <3> QED BY <3>1 DEF VisibleTo
  <2> QED BY <2>1, <2>2
<1>5. PICK u : persona' = [persona EXCEPT ![a] = u] /\ u.cursor = view[c].cursor
  BY <1>1, CommittedPersona DEF PersonaCommitted
<1>6. PICK m : /\ memory' = [memory EXCEPT ![a] = m] /\ IsInjective(m)
               /\ Range(m) \subseteq Range(memory[a]) \cup attended
  BY <1>1, Remembered DEF Commit
<1>7. offered' = [offered EXCEPT ![a] = @ \cup view[c].new] BY DEF Commit
<1>8. persona = [d \in Agent |-> persona[d]] /\ memory = [d \in Agent |-> memory[d]]
      /\ offered = [d \in Agent |-> offered[d]]
  BY DEF Inv, IInv, RowsTyped, Shape
<1>9. Seen(b) BY DEF Inv
<1>10. CASE b = a
  <2>1. /\ persona'[a].cursor = view[c].cursor /\ memory'[a] = m
        /\ offered'[a] = offered[a] \cup New(a)
    BY <1>1, <1>5, <1>6, <1>7, <1>8 DEF Fresh
  <2>2. /\ view[c].cursor \in Nat /\ view[c].cursor <= version
        /\ \A v \in VisibleTo(a) : v <= view[c].cursor
    <3>1. view[c].cursor \in Latest(New(a), persona[a].cursor) BY <1>1 DEF Fresh, NextCursor
    <3>2. VisibleTo(a) \subseteq 2..version BY <1>3 DEF VisibleTo
    <3>3. CASE New(a) = {}
      <4>1. view[c].cursor = persona[a].cursor BY <3>1, <3>3 DEF Latest
      <4>2. \A v \in VisibleTo(a) : v <= persona[a].cursor BY <1>3, <1>10, <3>2, <3>3 DEF New
      <4> QED BY <1>3, <1>9, <1>10, <4>1, <4>2 DEF Seen
    <3>4. CASE New(a) # {}
      <4>1. view[c].cursor \in New(a) /\ \A w \in New(a) : w <= view[c].cursor
        BY <3>1, <3>4 DEF Latest
      <4>2. view[c].cursor \in 2..version /\ view[c].cursor > persona[a].cursor
        BY <3>2, <4>1 DEF New
      <4>3. \A v \in VisibleTo(a) : v > persona[a].cursor => v <= view[c].cursor
        BY <4>1 DEF New
      <4> QED BY <1>3, <1>10, <3>2, <4>2, <4>3
    <3> QED BY <3>3, <3>4
  <2>3. offered'[a] = VisibleTo(a)
    BY <1>3, <1>9, <1>10, <2>1 DEF Seen, New, VisibleTo
  <2>4. {v \in VisibleTo(b)' : v <= view[c].cursor} = VisibleTo(b)
    BY <1>4, <1>10, <2>2
  <2>5. \A x \in Range(m) : x[1] = "entry" => x[2] \in VisibleTo(a)
    <3>1. \A x \in attended : x[1] = "entry" => x[2] \in VisibleTo(a)
      BY <1>1, AttendedSeen
    <3>2. offered[a] \subseteq VisibleTo(a) BY <1>9, <1>10 DEF Seen
    <3> QED BY <1>6, <1>9, <1>10, <3>1, <3>2 DEF Seen
  <2>6. persona'[a].cursor <= version' BY <1>3, <2>1, <2>2
  <2> QED BY <1>6, <1>10, <2>1, <2>3, <2>4, <2>5, <2>6 DEF Seen
<1>11. CASE b # a
  <2>1. persona'[b] = persona[b] /\ memory'[b] = memory[b] /\ offered'[b] = offered[b]
    BY <1>5, <1>6, <1>7, <1>8, <1>11
  <2>2. {v \in VisibleTo(b)' : v <= persona[b].cursor} = {v \in VisibleTo(b) : v <= persona[b].cursor}
    BY <1>3, <1>4, <1>9 DEF Seen
  <2>3. persona[b].cursor <= version' BY <1>3, <1>9 DEF Seen
  <2> QED BY <1>9, <2>1, <2>2, <2>3 DEF Seen
<1> QED BY <1>10, <1>11

\* A request that a committed view put first is remembered, for ever, by who
\* records observations.
LEMMA CommitHeard ==
  ASSUME Inv, NEW c \in Caller, NEW attended \in Attentions(view[c]), NEW draft,
         NEW disposition, NEW act, Commit(c, attended, draft, disposition, act)
  PROVE  RequestsAreHeard'
<1> DEFINE a == call[c].agent
<1>1. a \in Agent /\ Current(c) /\ Fresh(c) BY Ready DEF Commit
<1>2. PICK m : /\ memory' = [memory EXCEPT ![a] = m]
               /\ Range(m) = Range(memory[a]) \cup (IF a \in Observing THEN attended ELSE {})
  BY <1>1, Remembered DEF Commit
<1>3. memory = [d \in Agent |-> memory[d]] BY DEF Inv, IInv, RowsTyped
<1>4. \A d : Range(memory[d]) \subseteq Range(memory'[d])
  <2> SUFFICES ASSUME NEW d PROVE Range(memory[d]) \subseteq Range(memory'[d])
    OBVIOUS
  <2>1. memory'[a] = m BY <1>1, <1>2, <1>3
  <2>2. d # a => memory'[d] = memory[d] BY <1>2, <1>3
  <2> QED BY <1>2, <2>1, <2>2
<1>5. PICK n : HistoryCommitted(c, act, n) BY CommittedHistory
<1> SUFFICES ASSUME NEW k \in DOMAIN decided', decided'[k].agent \in Observing,
                    NEW r \in decided'[k].must
             PROVE  Entry(r) \in Range(memory'[decided'[k].agent])
  BY DEF RequestsAreHeard, Entry
<1>6. CASE k \in DOMAIN decided
  <2>1. decided'[k] = decided[k] BY <1>5, <1>6 DEF HistoryCommitted
  <2>2. Entry(r) \in Range(memory[decided[k].agent]) BY <1>6, <2>1 DEF Inv, RequestsAreHeard
  <2> QED BY <1>4, <2>1, <2>2
<1>7. CASE k \notin DOMAIN decided
  <2>1. decided'[k] = [agent |-> a, id |-> call[c].id,
                       status |-> StatusOf(act), must |-> view[c].must]
    BY <1>5, <1>7 DEF HistoryCommitted
  <2>2. Entry(r) \in Mandatory(view[c]) BY <2>1 DEF Mandatory
  <2>3. Entry(r) \in attended BY <1>1, <2>2, AttendedSeen
  <2>4. memory'[a] = m BY <1>1, <1>2, <1>3
  <2>5. a \in Observing BY <2>1
  <2> QED BY <1>2, <2>1, <2>3, <2>4, <2>5
<1> QED BY <1>6, <1>7

\* The new entry and the saved outcome are those of the new decision.
LEMMA CommitSaved ==
  ASSUME Inv, NEW c \in Caller, NEW attended \in Attentions(view[c]), NEW draft,
         NEW disposition, NEW act, Commit(c, attended, draft, disposition, act)
  PROVE  Saved'
<1> DEFINE a == call[c].agent
           status == StatusOf(act)
<1>1. a \in Agent /\ Current(c) /\ Fresh(c) BY Ready DEF Commit
<1>2. PICK n :
        /\ DOMAIN decided' = DOMAIN decided \cup {n}
        /\ \A k \in DOMAIN decided : decided'[k] = decided[k]
        /\ decided'[n].agent = a /\ decided'[n].id = call[c].id /\ decided'[n].status = status
  <2>1. PICK n : HistoryCommitted(c, act, n) BY CommittedHistory
  <2>2. decided'[n].agent = a /\ decided'[n].id = call[c].id /\ decided'[n].status = status
    BY <2>1 DEF HistoryCommitted
  <2> QED BY <2>1, <2>2 DEF HistoryCommitted
<1>3. /\ DOMAIN entries' = IF status = "applied" THEN DOMAIN entries \cup {version'} ELSE DOMAIN entries
      /\ \A v \in DOMAIN entries : entries'[v] = entries[v]
      /\ status = "applied" => entries'[version'].id = call[c].id /\ entries'[version'].by = a
  <2>1. RowsCommitted(c, act) BY <1>1, CommittedRows
  <2> QED BY <2>1 DEF RowsCommitted
<1>4. \A v \in DOMAIN entries : entries[v].id # call[c].id
  <2> SUFFICES ASSUME NEW v \in DOMAIN entries PROVE entries[v].id # call[c].id
    OBVIOUS
  <2>1. PICK k \in DOMAIN decided : decided[k].id = entries[v].id BY DEF Inv, Saved
  <2> QED BY <2>1, FreshId DEF Commit
<1> HIDE DEF a, status
<1>5. ASSUME NEW v \in DOMAIN entries'
      PROVE  \E k \in DOMAIN decided' :
               /\ decided'[k].id = entries'[v].id /\ decided'[k].agent = entries'[v].by
               /\ decided'[k].status = "applied"
  <2>1. CASE v \in DOMAIN entries
    <3>1. PICK k \in DOMAIN decided :
            /\ decided[k].id = entries[v].id /\ decided[k].agent = entries[v].by
            /\ decided[k].status = "applied"
      BY <2>1 DEF Inv, Saved
    <3> QED BY <1>2, <1>3, <2>1, <3>1
  <2>2. CASE v \notin DOMAIN entries
    <3>1. v = version' /\ status = "applied" BY <1>3, <2>2
    <3> QED BY <1>2, <1>3, <3>1
  <2> QED BY <2>1, <2>2
<1>6. ASSUME NEW v \in DOMAIN entries', NEW w \in DOMAIN entries', entries'[v].id = entries'[w].id
      PROVE  v = w
  <2>1. \A x \in DOMAIN entries' : x \in DOMAIN entries \/ (x = version' /\ status = "applied")
    BY <1>3
  <2>2. CASE v \in DOMAIN entries /\ w \in DOMAIN entries
    BY <1>3, <1>6, <2>2 DEF Inv, Saved
  <2>3. CASE v \in DOMAIN entries /\ w \notin DOMAIN entries
    BY <1>3, <1>4, <1>6, <2>1, <2>3
  <2>4. CASE v \notin DOMAIN entries /\ w \in DOMAIN entries
    BY <1>3, <1>4, <1>6, <2>1, <2>4
  <2> QED BY <2>1, <2>2, <2>3, <2>4
<1>7. PICK u : /\ persona' = [persona EXCEPT ![a] = u]
               /\ u.id = <<call[c].id>> /\ u.outcome = status
  <2>1. PICK u : PersonaCommitted(c, attended, act, u) BY <1>1, CommittedPersona DEF a
  <2> QED BY <2>1 DEF PersonaCommitted, a, status
<1>8. ASSUME NEW b \in Agent, persona'[b].id # <<>>
      PROVE  \E k \in DOMAIN decided' :
               /\ persona'[b].id = <<decided'[k].id>> /\ decided'[k].agent = b
               /\ decided'[k].status = persona'[b].outcome
  <2>1. persona'[b] = IF b = a THEN u ELSE persona[b]
    BY <1>7 DEF Inv, IInv, RowsTyped
  <2>2. CASE b = a BY <1>2, <1>7, <2>1, <2>2
  <2>3. CASE b # a
    <3>1. PICK k \in DOMAIN decided :
            /\ persona[b].id = <<decided[k].id>> /\ decided[k].agent = b
            /\ decided[k].status = persona[b].outcome
      BY <1>8, <2>1, <2>3 DEF Inv, Saved
    <3> QED BY <1>2, <2>1, <2>3, <3>1
  <2> QED BY <2>2, <2>3
<1> QED BY <1>5, <1>6, <1>8 DEF Saved

\* What callers were told stays true, and the new answer is.
LEMMA CommitAnswers ==
  ASSUME Inv, NEW c \in Caller, NEW attended \in Attentions(view[c]), NEW draft,
         NEW disposition, NEW act, Commit(c, attended, draft, disposition, act)
  PROVE  OneAnswer'
<1> DEFINE a == call[c].agent
           status == StatusOf(act)
           told == [status |-> status, entry |-> IF status = "applied" THEN version' ELSE 0]
<1>1. a \in Agent /\ Current(c) /\ Fresh(c) BY Ready DEF Commit
<1>2. PICK n :
        /\ DOMAIN decided' = DOMAIN decided \cup {n} /\ n \notin DOMAIN decided
        /\ \A k \in DOMAIN decided : decided'[k] = decided[k] /\ decided[k].id # call[c].id
        /\ decided'[n].agent = a /\ decided'[n].id = call[c].id /\ decided'[n].status = status
  <2>1. PICK n : HistoryCommitted(c, act, n) BY CommittedHistory
  <2>2. decided'[n].agent = a /\ decided'[n].id = call[c].id /\ decided'[n].status = status
    BY <2>1 DEF HistoryCommitted
  <2>3. \A k \in DOMAIN decided : decided[k].id # call[c].id BY FreshId DEF Commit
  <2> QED BY <2>1, <2>2, <2>3 DEF HistoryCommitted
<1>3. /\ DOMAIN entries' = IF status = "applied" THEN DOMAIN entries \cup {version'} ELSE DOMAIN entries
      /\ \A v \in DOMAIN entries : entries'[v] = entries[v]
      /\ status = "applied" => entries'[version'].id = call[c].id
      /\ version' # 0
  <2>1. RowsCommitted(c, act) BY <1>1, CommittedRows
  <2> QED BY <2>1 DEF RowsCommitted, Inv, Shape
<1>4. answers' = answers \cup {[agent |-> a, id |-> call[c].id, outcome |-> told]}
  BY DEF Commit, Told
<1>5. \A j, k \in DOMAIN decided' : decided'[j].id = decided'[k].id => j = k
  <2> HIDE DEF a, status
  <2> QED BY <1>2 DEF Inv, OneAnswer
<1>6. ASSUME NEW t \in answers'
      PROVE  \E k \in DOMAIN decided' :
               /\ decided'[k].id = t.id /\ decided'[k].agent = t.agent
               /\ decided'[k].status = t.outcome.status
               /\ EntriesOf(t.id)' = {t.outcome.entry} \ {0}
  <2>1. CASE t \in answers
    <3>1. PICK k \in DOMAIN decided :
            /\ decided[k].id = t.id /\ decided[k].agent = t.agent
            /\ decided[k].status = t.outcome.status
            /\ EntriesOf(t.id) = {t.outcome.entry} \ {0}
      BY <2>1 DEF Inv, OneAnswer
    <3>2. t.id # call[c].id BY <1>2, <3>1
    <3>3. EntriesOf(t.id)' = EntriesOf(t.id) BY <1>3, <3>2 DEF EntriesOf
    <3> QED BY <1>2, <3>1, <3>3
  <2>2. CASE t = [agent |-> a, id |-> call[c].id, outcome |-> told]
    <3>1. \A v \in DOMAIN entries : entries[v].id # call[c].id
      <4> SUFFICES ASSUME NEW v \in DOMAIN entries PROVE entries[v].id # call[c].id
        OBVIOUS
      <4>1. PICK k \in DOMAIN decided : decided[k].id = entries[v].id BY DEF Inv, Saved
      <4> QED BY <1>2, <4>1
    <3>2. t.id = call[c].id /\ t.agent = a /\ t.outcome = told BY <2>2
    <3>3. EntriesOf(t.id)' = IF status = "applied" THEN {version'} ELSE {}
      BY <1>3, <3>1, <3>2 DEF EntriesOf
    <3>4. EntriesOf(t.id)' = {t.outcome.entry} \ {0} /\ t.outcome.status = status
      BY <1>3, <3>2, <3>3
    <3> QED BY <1>2, <3>2, <3>4
  <2> QED BY <1>4, <2>1, <2>2
<1> QED BY <1>5, <1>6 DEF OneAnswer

\* Inv is inductive: a step commits one decision or keeps everything.
LEMMA StepInv == Inv /\ [Next]_vars => Inv'
<1> SUFFICES ASSUME Inv, [Next]_vars PROVE Inv'
  OBVIOUS
<1> USE DEF Kept, row, past, Charges
<1>1. IInv' BY StepPreserves DEF Inv
<1>2. CASE UNCHANGED vars BY <1>1, <1>2, NobodyKeeps DEF vars
<1>3. CASE Pause BY <1>1, <1>3, NobodyKeeps DEF Pause, Unread
<1>4. ASSUME NEW c \in Caller, Resume(c) PROVE Inv'
  BY <1>1, <1>4, NobodyKeeps DEF Resume, Unread
<1>5. ASSUME NEW c \in Caller, NEW a \in Agent, NextDecisionId(c, a) PROVE Inv'
  <2>1. Start(c, a, StepId(a), {}) /\ UNCHANGED <<Kept, view, answers, active, count>>
    BY <1>5 DEF NextDecisionId
  <2> QED BY <1>1, <2>1, StartKeeps
<1>6. ASSUME NEW c \in Caller, NEW a \in Agent, Claim(c, a) PROVE Inv'
  BY <1>1, <1>6, ClaimKeeps
<1>7. ASSUME NEW c \in Caller, Replay(c) PROVE Inv'
  <2>1. PICK outcome \in Replays(call[c].agent, call[c].id) : Told(c, outcome)
    BY <1>7 DEF Replay
  <2>2. call[c].agent \in Agent BY <1>7 DEF Replay, Inv, IInv, CallerOK, Charged
  <2>3. Known([agent |-> call[c].agent, id |-> call[c].id, outcome |-> outcome])
    BY <1>7, <2>2, ReplayKnown DEF Replay
  <2>4. \A t \in answers' : t \in answers \/ Known(t) BY <2>1, <2>3 DEF Told
  <2> QED BY <1>1, <1>7, <2>1, <2>4, ForgetKeeps DEF Replay, Told
<1>8. ASSUME NEW a \in Agent, NEW k \in DOMAIN decided, Repeat(a, k) PROVE Inv'
  <2>1. PICK outcome \in Replays(a, decided[k].id) :
          answers' = answers \cup {[agent |-> a, id |-> decided[k].id, outcome |-> outcome]}
    BY <1>8 DEF Repeat
  <2>2. Known([agent |-> a, id |-> decided[k].id, outcome |-> outcome])
    BY <1>8, ReplayKnown DEF Repeat
  <2>3. \A t \in answers' : t \in answers \/ Known(t) BY <2>1, <2>2
  <2> QED BY <1>1, <1>8, <2>3, NobodyKeeps DEF Repeat
<1>9. ASSUME NEW c \in Caller, Read(c) PROVE Inv' BY <1>1, <1>9, ReadKeeps
<1>10. ASSUME NEW c \in Caller, ReadFails(c) PROVE Inv'
  BY <1>1, <1>10, ForgetKeeps DEF ReadFails
<1>11. ASSUME NEW c \in Caller, Decide(c) PROVE Inv'
  <2>1. PICK attended \in Attentions(view[c]), draft \in Plans(view[c].persona),
             disposition \in Disposition, act \in Actions(call[c].agent, view[c]) :
          Commit(c, attended, draft, disposition, act)
    BY <1>11 DEF Decide
  <2> QED
    BY <1>1, <2>1, CommitShape, CommitCallers, CommitIds, CommitSeen, CommitHeard,
       CommitSaved, CommitAnswers DEF Inv
<1>12. ASSUME NEW c \in Caller, DecisionFails(c) PROVE Inv' BY <1>1, <1>12, FailKeeps
<1>13. ASSUME NEW c \in Caller, Leave(c) PROVE Inv'
  BY <1>1, <1>13, ForgetKeeps DEF Leave
<1> QED
  BY <1>2, <1>3, <1>4, <1>5, <1>6, <1>7, <1>8, <1>9, <1>10, <1>11, <1>12, <1>13 DEF Next

\* Inv holds in every behavior of CharacterStep.
LEMMA InvCorrect == Spec => []Inv
<1> QED BY InitInv, StepInv, PTL DEF Spec

-----------------------------------------------------------------------------
(* The properties.                                                         *)

\* OneAnswer: every answer about a decision, to whoever asks and whenever, is
\* the outcome that was committed under its identifier, and it was once.
THEOREM DecisionsAreAnsweredOnce == Spec => []OneAnswer
<1>1. Inv => OneAnswer BY DEF Inv
<1> QED BY <1>1, InvCorrect, PTL

\* NothingSkipped: a character is shown what it can see exactly up to its
\* cursor, and remembers nothing that it was not shown, and nothing twice.
THEOREM EverythingIsSeenOnce == Spec => []NothingSkipped
<1>1. Inv => NothingSkipped
  <2> SUFFICES ASSUME Inv, NEW a \in Agent
               PROVE  /\ offered[a] = {v \in VisibleTo(a) : v <= persona[a].cursor}
                      /\ \A v \in DOMAIN entries : Entry(v) \in Range(memory[a]) => v \in offered[a]
                      /\ IsInjective(memory[a])
    BY DEF NothingSkipped
  <2>1. Seen(a) BY DEF Inv
  <2>2. \A v : Entry(v)[1] = "entry" /\ Entry(v)[2] = v BY DEF Entry
  <2> QED BY <2>1, <2>2 DEF Seen
<1> QED BY <1>1, InvCorrect, PTL

\* RequestsAreHeard: the attention budget never cuts a request that a view put
\* first; a recipient whose write policy records observations remembers it from
\* the decision on.
THEOREM RequestsAreRemembered == Spec => []RequestsAreHeard
<1>1. Inv => RequestsAreHeard BY DEF Inv
<1> QED BY <1>1, InvCorrect, PTL

-----------------------------------------------------------------------------
(* Whole commits.                                                          *)

\* A set of versions is empty or has a largest one.
HasLast(S) == S = {} \/ \E m \in S : \A w \in S : w <= m

\* The largest of some versions.
LastOf(S) == CHOOSE m \in S : \A w \in S : w <= m

\* The entries up to a version that operate on the object.
UsesTill(v) == Uses \cap 2..v

\* The entries up to a version have a last one that operates on the object.
Whole == CommitsAreWhole /\ \A v \in 1..version : HasLast(UsesTill(v))

\* The last operation tells the state of the object.
LEMMA ToldByLast ==
  ASSUME NEW v
  PROVE  ToldState(v) = IF UsesTill(v) = {} THEN FirstState
                        ELSE entries[LastOf(UsesTill(v))].op[2]
  BY DEF ToldState, UsesTill, LastOf

\* A largest version is the one that CHOOSE finds.
LEMMA TheLast ==
  ASSUME NEW S \in SUBSET Nat, NEW m \in S, \A w \in S : w <= m
  PROVE  LastOf(S) = m
<1>1. LastOf(S) \in S /\ \A w \in S : w <= LastOf(S) BY DEF LastOf
<1>2. LastOf(S) \in Nat /\ m \in Nat BY <1>1
<1>3. m <= LastOf(S) /\ LastOf(S) <= m BY <1>1
<1> QED BY <1>2, <1>3

\* A new World has no decision, and the object is in its first state.
LEMMA InitWhole == Init => Whole
<1> SUFFICES ASSUME Init PROVE Whole
  OBVIOUS
<1>1. decided = <<>> /\ entries = <<>> /\ Uses = {} BY DEF Init, Uses
<1>2. \A v : UsesTill(v) = {} /\ ToldState(v) = FirstState BY <1>1, ToldByLast DEF UsesTill
<1>3. {k \in DOMAIN decided : decided[k].status = "applied"} = {} BY <1>1
<1>4. \A a : DecisionsOf(a) = {} BY <1>1 DEF DecisionsOf
<1>5. Len(decided) = 0 /\ Cardinality({}) = 0 BY <1>1, FS_EmptySet
<1>6. seq = 0 /\ version = 1 /\ object = FirstState BY DEF Init
<1>7. \A a \in Agent : persona[a].revision = 1 /\ persona[a].noted = Len(memory[a])
  BY DEF Init, NewPersona
<1>8. Cardinality({k \in DOMAIN decided : decided[k].status = "applied"}) = 0
  BY <1>3, <1>5
<1>9. \A a \in Agent :
        /\ persona[a].revision = 1 + Cardinality(DecisionsOf(a))
        /\ \A k \in DecisionsOf(a) : (\A j \in DecisionsOf(a) : j <= k) =>
             persona[a].id = <<decided[k].id>> /\ persona[a].outcome = decided[k].status
  <2> SUFFICES ASSUME NEW a \in Agent
               PROVE  persona[a].revision = 1 + Cardinality(DecisionsOf(a)) /\ DecisionsOf(a) = {}
    OBVIOUS
  <2>1. Cardinality(DecisionsOf(a)) = 0 BY <1>4, <1>5
  <2> QED BY <1>4, <1>7, <2>1
<1>10. CommitsAreWhole
  BY <1>1, <1>2, <1>5, <1>6, <1>7, <1>8, <1>9 DEF CommitsAreWhole
<1>11. \A v : HasLast(UsesTill(v)) BY <1>2 DEF HasLast
<1> QED BY <1>10, <1>11 DEF Whole

\* Only an operation of the object has a step of the object, and it is applied.
LEMMA UsesAreApplied ==
  ASSUME NEW a, NEW v, NEW act \in Actions(a, v), act.op # <<>>
  PROVE  StatusOf(act) = "applied"
<1>1. act \in ObjectUses(a, v)
  <2>1. act \notin Declines BY DEF Declines, Silent
  <2>2. act \notin Behaviors(a) BY DEF Behaviors, Audible, Silent
  <2>3. act \notin Questions(a)
    <3> SUFFICES ASSUME act \in Questions(a) PROVE FALSE
      OBVIOUS
    <3>1. PICK to, b : act = [Audible("ask", to) EXCEPT !.asks = <<b>>] BY DEF Questions
    <3>2. act.op = <<>> BY <3>1 DEF Audible, Silent
    <3> QED BY <3>2
  <2>4. act \notin Responses(a, v)
    <3> SUFFICES ASSUME act \in Responses(a, v) PROVE FALSE
      OBVIOUS
    <3>1. PICK to, r : act = [Audible("respond", to) EXCEPT !.reply = r] BY DEF Responses
    <3>2. act.op = <<>> BY <3>1 DEF Audible, Silent
    <3> QED BY <3>2
  <2> QED BY <2>1, <2>2, <2>3, <2>4 DEF Actions
<1>2. act.kind = "use"
  <2>1. PICK to, op : act = [Audible("use", to) EXCEPT !.op = op] BY <1>1 DEF ObjectUses
  <2> QED BY <2>1 DEF Audible, Silent
<1> QED BY <1>2 DEF StatusOf

\* One decision more, of the World and of its character.
LEMMA CommitCounts ==
  ASSUME Inv, Whole, NEW c \in Caller, NEW attended \in Attentions(view[c]), NEW draft,
         NEW disposition, NEW act, Commit(c, attended, draft, disposition, act)
  PROVE  /\ seq' = Len(decided')
         /\ version' = 1 + Cardinality({k \in DOMAIN decided' : decided'[k].status = "applied"})
         /\ \A b \in Agent :
              /\ persona'[b].revision = 1 + Cardinality(DecisionsOf(b)')
              /\ persona'[b].noted = Len(memory'[b])
              /\ \A k \in DecisionsOf(b)' : (\A j \in DecisionsOf(b)' : j <= k) =>
                   persona'[b].id = <<decided'[k].id>> /\ persona'[b].outcome = decided'[k].status
<1> DEFINE a == call[c].agent
           n == Len(decided) + 1
           applied == {k \in DOMAIN decided : decided[k].status = "applied"}
<1>1. a \in Agent /\ Current(c) /\ Fresh(c) BY Ready DEF Commit
<1>2. HistoryCommitted(c, act, n) BY CommittedHistory
<1>3. RowsCommitted(c, act) BY <1>1, CommittedRows
<1>4. PICK u : PersonaCommitted(c, attended, act, u) BY <1>1, CommittedPersona
<1>5. PICK m : /\ memory' = [memory EXCEPT ![a] = m]
               /\ Len(m) = Len(memory[a]) + Len(Writes(view[c], attended))
  BY <1>1, Remembered DEF Commit
<1>6. CommitsAreWhole BY DEF Whole
<1>7. IsFiniteSet(DOMAIN decided)
  <2>1. 1 \in Int /\ n - 1 \in Int BY <1>2 DEF HistoryCommitted
  <2>2. IsFiniteSet(1..(n - 1)) BY <2>1, FS_Interval
  <2> QED BY <1>2, <2>2 DEF HistoryCommitted
<1>8. /\ decided'[n].agent = a /\ decided'[n].id = call[c].id
      /\ decided'[n].status = StatusOf(act)
  BY <1>2 DEF HistoryCommitted
<1>9. seq' = Len(decided')
  BY <1>2, <1>3, <1>6 DEF CommitsAreWhole, HistoryCommitted, RowsCommitted
<1>10. version' = 1 + Cardinality({k \in DOMAIN decided' : decided'[k].status = "applied"})
  <2>1. {k \in DOMAIN decided' : decided'[k].status = "applied"} =
          IF StatusOf(act) = "applied" THEN applied \cup {n} ELSE applied
    BY <1>2, <1>8 DEF HistoryCommitted
  <2>2. IsFiniteSet(applied) BY <1>7, FS_Subset
  <2>3. n \notin applied BY <1>2 DEF HistoryCommitted
  <2>4. version = 1 + Cardinality(applied) BY <1>6 DEF CommitsAreWhole
  <2> HIDE DEF applied, n
  <2>5. Cardinality(applied \cup {n}) = Cardinality(applied) + 1 /\ Cardinality(applied) \in Nat
    BY <2>2, <2>3, FS_AddElement, FS_CardinalityType
  <2>6. version' = IF StatusOf(act) = "applied" THEN version + 1 ELSE version
    BY <1>3 DEF RowsCommitted
  <2> DEFINE applied2 == {k \in DOMAIN decided' : decided'[k].status = "applied"}
  <2>7. version' = 1 + Cardinality(applied2)
    <3>1. version \in Nat BY DEF Inv, Shape
    <3>2. applied2 = IF StatusOf(act) = "applied" THEN applied \cup {n} ELSE applied
      BY <2>1
    <3> HIDE DEF applied2
    <3>3. CASE StatusOf(act) = "applied"
      <4>1. applied2 = applied \cup {n} BY <3>2, <3>3
      <4>2. version' = version + 1 BY <2>6, <3>3
      <4> QED BY <2>4, <2>5, <4>1, <4>2
    <3>4. CASE StatusOf(act) # "applied" BY <2>4, <2>6, <3>2, <3>4
    <3> QED BY <3>3, <3>4
  <2> QED BY <2>7
<1>11. ASSUME NEW b \in Agent
       PROVE  /\ persona'[b].revision = 1 + Cardinality(DecisionsOf(b)')
              /\ persona'[b].noted = Len(memory'[b])
              /\ \A k \in DecisionsOf(b)' : (\A j \in DecisionsOf(b)' : j <= k) =>
                   persona'[b].id = <<decided'[k].id>> /\ persona'[b].outcome = decided'[k].status
  <2>1. DecisionsOf(b)' = IF b = a THEN DecisionsOf(b) \cup {n} ELSE DecisionsOf(b)
    BY <1>2, <1>8 DEF HistoryCommitted, DecisionsOf
  <2>2. DecisionsOf(b) \subseteq DOMAIN decided /\ IsFiniteSet(DecisionsOf(b))
    BY <1>7, FS_Subset DEF DecisionsOf
  <2>3. /\ persona'[b] = IF b = a THEN u ELSE persona[b]
        /\ memory'[b] = IF b = a THEN m ELSE memory[b]
    BY <1>4, <1>5 DEF PersonaCommitted, Inv, IInv, RowsTyped
  <2>4. /\ persona[b].revision = 1 + Cardinality(DecisionsOf(b))
        /\ persona[b].noted = Len(memory[b])
        /\ \A k \in DecisionsOf(b) : (\A j \in DecisionsOf(b) : j <= k) =>
             persona[b].id = <<decided[k].id>> /\ persona[b].outcome = decided[k].status
    BY <1>6 DEF CommitsAreWhole
  <2>5. CASE b = a
    <3>1. n \notin DecisionsOf(a) /\ n \in Nat /\ \A k \in DecisionsOf(a) : k \in Nat /\ k < n
      BY <1>2, <2>2, <2>5 DEF HistoryCommitted
    <3>2. Cardinality(DecisionsOf(a) \cup {n}) = Cardinality(DecisionsOf(a)) + 1
          /\ Cardinality(DecisionsOf(a)) \in Nat
      BY <2>2, <2>5, <3>1, FS_AddElement, FS_CardinalityType
    <3>3. u.revision = persona[a].revision + 1
          /\ u.noted = persona[a].noted + Len(Writes(view[c], attended))
          /\ u.id = <<call[c].id>> /\ u.outcome = StatusOf(act)
      BY <1>4 DEF PersonaCommitted
    <3>4. persona'[b].revision = 1 + Cardinality(DecisionsOf(b)')
      BY <2>1, <2>3, <2>4, <2>5, <3>2, <3>3
    <3>5. persona'[b].noted = Len(memory'[b]) BY <1>5, <2>3, <2>4, <2>5, <3>3
    <3>6. ASSUME NEW k \in DecisionsOf(b)', \A j \in DecisionsOf(b)' : j <= k
          PROVE  persona'[b].id = <<decided'[k].id>> /\ persona'[b].outcome = decided'[k].status
      <4>1. k = n
        <5>1. n <= k BY <2>1, <2>5, <3>6
        <5>2. k \in DecisionsOf(a) \/ k = n BY <2>1, <2>5
        <5> QED BY <3>1, <5>1, <5>2
      <4> QED BY <1>8, <2>3, <2>5, <3>3, <4>1
    <3> QED BY <3>4, <3>5, <3>6
  <2>6. CASE b # a
    <3>1. \A k \in DecisionsOf(b) : decided'[k] = decided[k]
      BY <1>2, <2>2 DEF HistoryCommitted
    <3> QED BY <2>1, <2>3, <2>4, <2>6, <3>1
  <2> QED BY <2>5, <2>6
<1> QED BY <1>9, <1>10, <1>11

\* The object is where the operations of the entries took it.
LEMMA CommitObject ==
  ASSUME Inv, Whole, NEW c \in Caller, NEW attended \in Attentions(view[c]), NEW draft,
         NEW disposition, NEW act \in Actions(call[c].agent, view[c]),
         Commit(c, attended, draft, disposition, act)
  PROVE  /\ object' = ToldState(version)'
         /\ \A v \in Uses' : entries'[v].op[1] = ToldState(v - 1)'
         /\ \A v \in 1..version' : HasLast(UsesTill(v)')
<1>1. Fresh(c) BY Ready DEF Commit
<1>2. RowsCommitted(c, act) BY <1>1, CommittedRows
<1>3. /\ version \in Nat \ {0} /\ DOMAIN entries \subseteq 2..version
      /\ version' = version \/ version' = version + 1
  BY <1>2 DEF RowsCommitted, Inv, Shape
<1>4. /\ object = ToldState(version) /\ \A v \in Uses : entries[v].op[1] = ToldState(v - 1)
      /\ \A v \in 1..version : HasLast(UsesTill(v))
  BY DEF Whole, CommitsAreWhole
<1>5. \A v \in Uses : v \in 2..version /\ entries'[v] = entries[v]
  BY <1>2, <1>3 DEF Uses, RowsCommitted
<1>6. Uses' = IF act.op = <<>> THEN Uses ELSE Uses \cup {version'}
  <2>1. CASE StatusOf(act) = "applied" BY <1>2, <2>1 DEF Uses, RowsCommitted
  <2>2. CASE StatusOf(act) # "applied"
    <3>1. act.op = <<>> BY <2>2, UsesAreApplied
    <3> QED BY <1>2, <2>2, <3>1 DEF Uses, RowsCommitted
  <2> QED BY <2>1, <2>2
<1>7. ASSUME NEW v \in 1..version
      PROVE  UsesTill(v)' = UsesTill(v) /\ ToldState(v)' = ToldState(v)
  <2>1. UsesTill(v)' = UsesTill(v)
    <3>1. act.op # <<>> => version' = version + 1
      BY <1>2, UsesAreApplied DEF RowsCommitted
    <3> QED BY <1>3, <1>6, <3>1 DEF UsesTill
  <2>2. HasLast(UsesTill(v)) BY <1>4
  <2>3. UsesTill(v) # {} => LastOf(UsesTill(v)) \in UsesTill(v)
    BY <2>2 DEF HasLast, LastOf
  <2>4. UsesTill(v) # {} =>
          entries'[LastOf(UsesTill(v))] = entries[LastOf(UsesTill(v))]
    BY <1>5, <2>3 DEF UsesTill
  <2>5. ToldState(v)' = IF UsesTill(v)' = {} THEN FirstState
                        ELSE entries'[LastOf(UsesTill(v)')].op[2]
    BY DEF ToldState, UsesTill, LastOf
  <2>6. LastOf(UsesTill(v)') = LastOf(UsesTill(v)) BY <2>1
  <2> QED BY <2>1, <2>4, <2>5, <2>6, ToldByLast
<1>8. ASSUME act.op = <<>>
      PROVE  ToldState(version)' = ToldState(version) /\ UsesTill(version)' = UsesTill(version)
  <2>1. UsesTill(version)' = UsesTill(version)
    BY <1>3, <1>5, <1>6, <1>8 DEF UsesTill
  <2>2. HasLast(UsesTill(version)) BY <1>3, <1>4
  <2>3. UsesTill(version) # {} =>
          entries'[LastOf(UsesTill(version))] = entries[LastOf(UsesTill(version))]
    <3>1. UsesTill(version) # {} => LastOf(UsesTill(version)) \in UsesTill(version)
      BY <2>2 DEF HasLast, LastOf
    <3> QED BY <1>5, <3>1 DEF UsesTill
  <2>4. ToldState(version)' = IF UsesTill(version)' = {} THEN FirstState
                              ELSE entries'[LastOf(UsesTill(version)')].op[2]
    BY DEF ToldState, UsesTill, LastOf
  <2>5. LastOf(UsesTill(version)') = LastOf(UsesTill(version)) BY <2>1
  <2> QED BY <2>1, <2>3, <2>4, <2>5, ToldByLast
<1>9. ASSUME act.op # <<>>
      PROVE  /\ version' = version + 1 /\ version' \in UsesTill(version)'
             /\ LastOf(UsesTill(version)') = version' /\ HasLast(UsesTill(version)')
             /\ entries'[version'].op = act.op
  <2>1. version' = version + 1 /\ entries'[version'].op = act.op
    BY <1>2, <1>9, UsesAreApplied DEF RowsCommitted
  <2>2. version' \in UsesTill(version)' /\ UsesTill(version)' \subseteq 2..version'
    BY <1>3, <1>6, <1>9, <2>1 DEF UsesTill
  <2>3. UsesTill(version)' \in SUBSET Nat /\ \A w \in UsesTill(version)' : w <= version'
    BY <2>2
  <2>4. LastOf(UsesTill(version)') = version'
    <3> DEFINE S == UsesTill(version)'
    <3>1. S \in SUBSET Nat /\ version' \in S /\ \A w \in S : w <= version' BY <2>2, <2>3
    <3> HIDE DEF S
    <3> QED BY <3>1, TheLast DEF S
  <2> QED BY <2>1, <2>2, <2>3, <2>4 DEF HasLast
<1>10. object' = ToldState(version)'
  <2>1. CASE act.op = <<>>
    <3>1. object' = object BY <2>1 DEF Commit, ApplyObject
    <3> QED BY <1>4, <1>8, <2>1, <3>1
  <2>2. CASE act.op # <<>>
    <3>1. object' = act.op[2] BY <2>2 DEF Commit, ApplyObject
    <3>2. ToldState(version)' = IF UsesTill(version)' = {} THEN FirstState
                                ELSE entries'[LastOf(UsesTill(version)')].op[2]
      BY DEF ToldState, UsesTill, LastOf
    <3> QED BY <1>9, <2>2, <3>1, <3>2
  <2> QED BY <2>1, <2>2
<1>11. ASSUME NEW v \in Uses' PROVE entries'[v].op[1] = ToldState(v - 1)'
  <2>1. CASE v \in Uses
    <3>1. v - 1 \in 1..version /\ entries'[v] = entries[v] BY <1>3, <1>5, <2>1
    <3> QED BY <1>4, <1>7, <2>1, <3>1
  <2>2. CASE v \notin Uses
    <3>1. act.op # <<>> /\ v = version' BY <1>6, <2>2
    <3>2. v - 1 = version /\ version \in 1..version BY <1>3, <1>9, <3>1
    <3>3. ToldState(v - 1)' = object
      <4>1. ASSUME NEW w \in 1..version, w = version PROVE ToldState(w)' = object
        BY <1>4, <1>7, <4>1
      <4> QED BY <3>2, <4>1
    <3>4. object = act.op[1] BY <3>1 DEF Commit, ObjectFence
    <3> QED BY <1>9, <3>1, <3>3, <3>4
  <2> QED BY <2>1, <2>2
<1>12. ASSUME NEW v \in 1..version' PROVE HasLast(UsesTill(v)')
  <2>1. CASE v \in 1..version BY <1>4, <1>7, <2>1
  <2>2. CASE v \notin 1..version
    <3>1. v = version' BY <1>3, <2>2
    <3>2. CASE act.op # <<>> BY <1>9, <3>1, <3>2
    <3>3. CASE act.op = <<>> BY <1>3, <1>4, <1>8, <3>1, <3>3
    <3> QED BY <3>2, <3>3
  <2> QED BY <2>1, <2>2
<1> QED BY <1>10, <1>11, <1>12

\* Whole is kept: with Inv, it is inductive.
LEMMA StepWhole == Inv /\ Whole /\ [Next]_vars => Whole'
<1> SUFFICES ASSUME Inv, Whole, [Next]_vars PROVE Whole'
  OBVIOUS
<1>1. CASE UNCHANGED Kept
  <2>1. UNCHANGED <<seq, version, object, entries, persona, memory, decided>>
    BY <1>1 DEF Kept, public, private
  <2>2. \A v : UsesTill(v)' = UsesTill(v) /\ ToldState(v)' = ToldState(v)
    BY <2>1 DEF UsesTill, Uses, ToldState
  <2>3. Uses' = Uses BY <2>1 DEF Uses
  <2>4. CommitsAreWhole' BY <2>1, <2>2, <2>3 DEF Whole, CommitsAreWhole, DecisionsOf
  <2>5. \A v \in 1..version' : HasLast(UsesTill(v)') BY <2>1, <2>2 DEF Whole
  <2> QED BY <2>4, <2>5 DEF Whole, HasLast
<1>2. ASSUME NEW c \in Caller, Decide(c) PROVE Whole'
  <2>1. PICK attended \in Attentions(view[c]), draft \in Plans(view[c].persona),
             disposition \in Disposition, act \in Actions(call[c].agent, view[c]) :
          Commit(c, attended, draft, disposition, act)
    BY <1>2 DEF Decide
  <2>2. CommitsAreWhole'
    BY <2>1, CommitCounts, CommitObject DEF CommitsAreWhole
  <2>3. \A v \in 1..version' : HasLast(UsesTill(v)') BY <2>1, CommitObject
  <2> QED BY <2>2, <2>3 DEF Whole, HasLast
<1>3. UNCHANGED Kept \/ \E c \in Caller : Decide(c)
  <2> USE DEF Kept, past
  <2>1. CASE UNCHANGED vars BY <2>1 DEF vars, row, public, private
  <2>2. CASE Pause BY <2>2 DEF Pause, Unread
  <2>3. CASE \E a \in Agent, k \in DOMAIN decided : Repeat(a, k) BY <2>3 DEF Repeat, row
  <2>4. ASSUME NEW c \in Caller,
               \/ Resume(c) \/ Replay(c) \/ Read(c) \/ ReadFails(c)
               \/ DecisionFails(c) \/ Leave(c)
               \/ \E a \in Agent : NextDecisionId(c, a) \/ Claim(c, a)
        PROVE  UNCHANGED Kept
    BY <2>4 DEF Resume, Replay, Read, ReadFails, DecisionFails, Leave, NextDecisionId, Claim,
                Unread, row
  <2> QED BY <2>1, <2>2, <2>3, <2>4 DEF Next
<1> QED BY <1>1, <1>2, <1>3

\* CommitsAreWhole: World, object, character state and memories are the result
\* of the same decisions, after every step.
THEOREM CommitsKeptWhole == Spec => []CommitsAreWhole
<1>1. Inv /\ Whole /\ [Next]_vars => (Inv /\ Whole)' BY StepInv, StepWhole
<1>2. Whole => CommitsAreWhole BY DEF Whole
<1> QED BY InitInv, InitWhole, <1>1, <1>2, PTL DEF Spec

-----------------------------------------------------------------------------
(* The plan queue.                                                         *)

\* What PersonaState insists on: no plan is in the queue twice, and the active
\* plan is one of them.
QueueSound(p) ==
  /\ {"queue", "active"} \subseteq DOMAIN p
  /\ p.queue \in Seq(Range(p.queue)) /\ IsInjective(p.queue)
  /\ p.active = <<>> \/ \E x \in Range(p.queue) : p.active = <<x>>

\* A sequence without repeats stays one when an element goes.
LEMMA OneLess ==
  ASSUME NEW s, s \in Seq(Range(s)), IsInjective(s), NEW i \in DOMAIN s
  PROVE  RemoveAt(s, i) \in Seq(Range(RemoveAt(s, i))) /\ IsInjective(RemoveAt(s, i))
<1> DEFINE n == Len(s)
           t == SubSeq(s, 1, i - 1)
           u == SubSeq(s, i + 1, n)
           S == Range(s)
<1>1. n \in Nat /\ DOMAIN s = 1..n
  BY LenProperties
<1>2. i \in 1..n /\ \A j \in 1..n : s[j] \in S
  BY <1>1 DEF Range
<1>3. /\ t \in Seq(S) /\ Len(t) = i - 1
      /\ \A j \in 1..(i - 1) : t[j] = s[j]
  <2>1. \A j \in 1..(i - 1) : s[j] \in S
    BY <1>1, <1>2
  <2>2. /\ t \in Seq(S) /\ Len(t) = IF 1 <= i - 1 THEN (i - 1) - 1 + 1 ELSE 0
        /\ \A j \in 1..((i - 1) - 1 + 1) : t[j] = s[1 + j - 1]
    BY <1>1, <1>2, <2>1, SubSeqProperties
  <2>. HIDE DEF t
  <2>. QED  BY <1>1, <1>2, <2>2
<1>4. /\ u \in Seq(S) /\ Len(u) = n - i
      /\ \A j \in 1..(n - i) : u[j] = s[i + j]
  <2>1. \A j \in (i + 1)..n : s[j] \in S
    BY <1>1, <1>2
  <2>2. /\ u \in Seq(S) /\ Len(u) = IF i + 1 <= n THEN n - (i + 1) + 1 ELSE 0
        /\ \A j \in 1..(n - (i + 1) + 1) : u[j] = s[(i + 1) + j - 1]
    BY <1>1, <1>2, <2>1, SubSeqProperties
  <2>. HIDE DEF u, S, n
  <2>3. Len(u) = n - i
    BY <1>1, <1>2, <2>2
  <2>4. ASSUME NEW j \in 1..(n - i) PROVE u[j] = s[i + j]
    <3>1. j \in 1..(n - (i + 1) + 1) /\ (i + 1) + j - 1 = i + j
      BY <1>1, <1>2
    <3>. QED  BY <2>2, <3>1
  <2>. QED  BY <2>2, <2>3, <2>4
<1>5. RemoveAt(s, i) = t \o u
  BY DEF RemoveAt
<1>. HIDE DEF t, u, S, n
<1>6. DOMAIN t = 1..(i - 1) /\ DOMAIN u = 1..(n - i)
  BY <1>3, <1>4, LenProperties
<1>7. t \in Seq(Range(t)) /\ u \in Seq(Range(u))
  BY <1>3, <1>4, SeqOfRange
<1>8. \A j, k \in 1..n : s[j] = s[k] => j = k
  BY <1>1 DEF IsInjective
<1>9. IsInjective(t)
  <2>1. \A j, k \in 1..(i - 1) : t[j] = t[k] => j = k
    BY <1>1, <1>2, <1>3, <1>8
  <2>. QED  BY <1>6, <2>1 DEF IsInjective
<1>10. IsInjective(u)
  <2>1. ASSUME NEW j \in 1..(n - i), NEW k \in 1..(n - i), u[j] = u[k] PROVE j = k
    <3>1. i + j \in 1..n /\ i + k \in 1..n /\ s[i + j] = s[i + k]
      BY <1>1, <1>2, <1>4, <2>1
    <3>2. i + j = i + k
      BY <1>8, <3>1
    <3>. QED  BY <1>1, <1>2, <3>2
  <2>. QED  BY <1>6, <2>1 DEF IsInjective
<1>11. Range(t) \cap Range(u) = {}
  <2>1. ASSUME NEW j \in 1..(i - 1), NEW k \in 1..(n - i), t[j] = u[k] PROVE FALSE
    <3>1. j \in 1..n /\ i + k \in 1..n /\ s[j] = s[i + k]
      BY <1>1, <1>2, <1>3, <1>4, <2>1
    <3>2. j = i + k
      BY <1>8, <3>1
    <3>. QED  BY <1>1, <1>2, <3>2
  <2>. QED  BY <1>6, <2>1 DEF Range
<1>12. t \o u \in Seq(Range(t \o u)) /\ IsInjective(t \o u)
  BY <1>7, <1>9, <1>10, <1>11, Joined
<1>. QED  BY <1>5, <1>12

\* The head of a queue is in it.
LEMMA HeadIsThere ==
  ASSUME NEW s, s \in Seq(Range(s)), s # <<>>
  PROVE  Head(s) \in Range(s)
  BY HeadTailProperties

\* _plan keeps the queue sound.
LEMMA PlannedSound ==
  ASSUME NEW p, QueueSound(p), NEW draft \in Plans(p)
  PROVE  QueueSound(Planned(p, draft))
<1> DEFINE queue == IF p.queue = <<>> THEN draft ELSE p.queue
           top == IF p.queue # <<>> /\ p.active # <<>> THEN p.active
                  ELSE IF queue = <<>> THEN <<>> ELSE <<Head(queue)>>
<1>1. queue \in Seq(Range(queue)) /\ IsInjective(queue)
  BY DraftAssumption DEF Plans, QueueSound
<1>2. top = <<>> \/ \E x \in Range(queue) : top = <<x>>
  <2>1. CASE p.queue # <<>> /\ p.active # <<>>
    BY <2>1 DEF QueueSound
  <2>2. CASE ~(p.queue # <<>> /\ p.active # <<>>)
    <3>1. queue # <<>> => Head(queue) \in Range(queue)
      BY <1>1, HeadIsThere
    <3>. HIDE DEF queue
    <3>. QED  BY <2>2, <3>1
  <2>. QED  BY <2>1, <2>2
<1>3. Planned(p, draft) = [p EXCEPT !.queue = queue, !.active = top]
  BY DEF Planned
<1>. HIDE DEF queue, top
<1>4. /\ Planned(p, draft).queue = queue /\ Planned(p, draft).active = top
      /\ {"queue", "active"} \subseteq DOMAIN Planned(p, draft)
  BY <1>3 DEF QueueSound
<1>. QED  BY <1>1, <1>2, <1>4 DEF QueueSound

\* _state_after_outcome keeps the queue sound.
LEMMA OutcomeSound ==
  ASSUME NEW p, QueueSound(p), NEW status, NEW disposition
  PROVE  QueueSound(AfterOutcome(p, status, disposition))
<1> DEFINE at == {i \in DOMAIN p.queue : <<p.queue[i]>> = p.active}
           queue == Remaining(p)
           top == IF queue = <<>> THEN <<>> ELSE <<Head(queue)>>
<1>1. queue \in Seq(Range(queue)) /\ IsInjective(queue)
  <2>1. CASE at = {}
    BY <2>1 DEF Remaining, QueueSound
  <2>2. CASE at # {}
    <3>1. PICK i : i = (CHOOSE j \in at : TRUE) /\ i \in at
      BY <2>2
    <3>2. queue = RemoveAt(p.queue, i)
      BY <2>2, <3>1 DEF Remaining
    <3>. QED  BY <3>1, <3>2, OneLess DEF QueueSound
  <2>. QED  BY <2>1, <2>2
<1>2. CASE Completed(status, disposition)
  <2>1. AfterOutcome(p, status, disposition) = [p EXCEPT !.queue = queue, !.active = top]
    BY <1>2 DEF AfterOutcome
  <2>2. queue # <<>> => Head(queue) \in Range(queue)
    BY <1>1, HeadIsThere
  <2>. HIDE DEF queue
  <2>3. top = <<>> \/ \E x \in Range(queue) : top = <<x>>
    BY <2>2
  <2>. HIDE DEF top
  <2>4. /\ AfterOutcome(p, status, disposition).queue = queue
        /\ AfterOutcome(p, status, disposition).active = top
        /\ {"queue", "active"} \subseteq DOMAIN AfterOutcome(p, status, disposition)
    BY <2>1 DEF QueueSound
  <2>. QED  BY <1>1, <2>3, <2>4 DEF QueueSound
<1>3. CASE ~Completed(status, disposition)
  BY <1>3 DEF AfterOutcome
<1>. QED  BY <1>2, <1>3

\* The private state of an outcome has a sound queue.
LEMMA UpdateSound ==
  ASSUME NEW v, QueueSound(v.persona), NEW id, NEW attended, NEW draft \in Plans(v.persona),
         NEW status, NEW disposition
  PROVE  QueueSound([StateUpdate(v, id, attended, draft, status, disposition)
                       EXCEPT !.revision = @ + 1])
<1> DEFINE thought == AfterOutcome(Planned(v.persona, draft), status, disposition)
<1>1. QueueSound(thought)
  BY PlannedSound, OutcomeSound
<1>2. StateUpdate(v, id, attended, draft, status, disposition) =
        [thought EXCEPT !.seen = Committed(v, status),
                        !.noted = @ + Len(Writes(v, attended)),
                        !.cursor = v.cursor, !.id = <<id>>, !.outcome = status]
  BY DEF StateUpdate
<1>. HIDE DEF thought
<1> DEFINE u == [StateUpdate(v, id, attended, draft, status, disposition)
                   EXCEPT !.revision = @ + 1]
<1>3. u.queue = thought.queue /\ u.active = thought.active /\ DOMAIN u = DOMAIN thought
  BY <1>1, <1>2 DEF QueueSound
<1>. HIDE DEF u
<1>4. QueueSound(u)
  BY <1>1, <1>3 DEF QueueSound
<1>. QED  BY <1>4 DEF u

-----------------------------------------------------------------------------
(* The types.                                                              *)

\* The outcomes that a caller can be told.
Outcomes == [status : Status, entry : {0} \cup 2..version]

\* The worlds row.
RowTyped ==
  /\ running \in BOOLEAN /\ owner \in Caller \cup {None}
  /\ epoch \in Nat /\ version \in Nat /\ seq \in Nat /\ count \in Nat
  /\ active \subseteq [agent : Agent, count : 1..count]

\* The entries and their requests.
EntriesTyped ==
  /\ DOMAIN entries = 2..version
  /\ \A v \in DOMAIN entries : entries[v].by \in entries[v].to
  /\ handed \subseteq pending /\ pending \subseteq DOMAIN entries

\* A character's row; with an identifier it has an outcome.
PersonaTyped(p) ==
  /\ QueueSound(p)
  /\ p.revision \in Nat \ {0} /\ p.outcome \in Status \cup {None}
  /\ p.id # <<>> => p.outcome \in Status

\* Inductive together with Inv.
Typed ==
  /\ RowTyped /\ EntriesTyped
  /\ \A a \in Agent : PersonaTyped(persona[a])
  /\ pc \in [Caller -> {"idle", "calling", "deciding"}]
  /\ \A t \in answers : t.outcome \in Outcomes

\* The queue of a typed row is one of TypeOK.
LEMMA TypesFromTyped == Typed => TypeOK
<1> SUFFICES ASSUME Typed PROVE TypeOK
  OBVIOUS
<1>1. ASSUME NEW a \in Agent
      PROVE  /\ persona[a].revision \in Nat \ {0} /\ persona[a].outcome \in Status \cup {None}
             /\ IsInjective(persona[a].queue) /\ Len(persona[a].active) <= 1
             /\ Range(persona[a].active) \subseteq Range(persona[a].queue)
  <2>1. PersonaTyped(persona[a])
    BY DEF Typed
  <2>2. CASE persona[a].active = <<>>
    BY <2>1, <2>2 DEF PersonaTyped, QueueSound, Range
  <2>3. CASE persona[a].active # <<>>
    <3>1. PICK x \in Range(persona[a].queue) : persona[a].active = <<x>>
      BY <2>1, <2>3 DEF PersonaTyped, QueueSound
    <3>2. Len(<<x>>) = 1 /\ Range(<<x>>) = {x}
      BY DEF Range
    <3>. QED  BY <2>1, <3>1, <3>2 DEF PersonaTyped, QueueSound
  <2>. QED  BY <2>2, <2>3
<1>. QED  BY <1>1 DEF Typed, RowTyped, EntriesTyped, Outcomes, TypeOK

\* A new World is typed.
LEMMA InitTyped == Init => Typed
<1> SUFFICES ASSUME Init PROVE Typed
  OBVIOUS
<1>1. EntriesTyped
  <2>1. 2..1 = {} /\ DOMAIN <<>> = {}
    OBVIOUS
  <2>. QED  BY <2>1 DEF Init, EntriesTyped
<1>2. ASSUME NEW a \in Agent PROVE PersonaTyped(persona[a])
  <2>1. persona[a] = NewPersona
    BY DEF Init
  <2>2. <<>> \in Seq(Range(<<>>)) /\ IsInjective(<<>>)
    BY EmptySeq DEF IsInjective
  <2>. QED  BY <2>1, <2>2 DEF PersonaTyped, QueueSound, NewPersona
<1>. QED  BY <1>1, <1>2 DEF Init, Typed, RowTyped

\* A step that writes no entry and no character, and tells only what is typed.
LEMMA QuietTyped ==
  ASSUME Typed, UNCHANGED <<version, entries, pending, handed, persona>>, RowTyped',
         pc' \in [Caller -> {"idle", "calling", "deciding"}],
         \A t \in answers' : t \in answers \/ t.outcome \in Outcomes
  PROVE  Typed'
  BY DEF Typed, EntriesTyped, PersonaTyped, Outcomes

\* What is told again is typed.
LEMMA ReplayTyped ==
  ASSUME Typed, NEW a \in Agent, NEW id, NEW outcome \in Replays(a, id)
  PROVE  outcome \in Outcomes
<1>1. CASE \E v \in EntriesOf(id) : outcome = [status |-> "applied", entry |-> v]
  BY <1>1 DEF EntriesOf, Typed, EntriesTyped, Outcomes, Status
<1>2. CASE persona[a].id = <<id>> /\ outcome = [status |-> persona[a].outcome, entry |-> 0]
  <2>1. persona[a].id # <<>>
    BY <1>2
  <2>2. persona[a].outcome \in Status
    BY <2>1 DEF Typed, PersonaTyped
  <2>. QED  BY <1>2, <2>2 DEF Outcomes
<1>. QED  BY <1>1, <1>2 DEF Replays

\* Who is told an outcome is done with its call.
LEMMA ToldTyped ==
  ASSUME Typed, NEW c \in Caller, NEW outcome, Told(c, outcome)
  PROVE  /\ pc' \in [Caller -> {"idle", "calling", "deciding"}]
         /\ \A t \in answers' : t \in answers \/ t.outcome = outcome
  BY DEF Typed, Told

\* An action of a view is heard by its actor if it leaves an entry, and asks
\* only if it leaves one.
LEMMA ActionsTyped ==
  ASSUME NEW a, NEW v, NEW act \in Actions(a, v)
  PROVE  /\ StatusOf(act) \in Status
         /\ StatusOf(act) = "applied" => a \in act.to
         /\ act.asks # <<>> => StatusOf(act) = "applied"
<1>1. CASE act \in Declines
  BY <1>1 DEF Declines, Silent, StatusOf, Status
<1>2. CASE act \in Behaviors(a)
  <2>1. PICK kind \in {"behave", "leave"}, to \in {S \in Heard : a \in S} : act = Audible(kind, to)
    BY <1>2 DEF Behaviors
  <2>. QED  BY <2>1 DEF Audible, Silent, StatusOf, Status
<1>3. CASE act \in Questions(a)
  <2>1. PICK to \in {S \in Heard : a \in S}, b \in Agent \ {a} :
          act = [Audible("ask", to) EXCEPT !.asks = <<b>>]
    BY <1>3 DEF Questions
  <2>. QED  BY <2>1 DEF Audible, Silent, StatusOf, Status
<1>4. CASE act \in Responses(a, v)
  <2>1. PICK to \in {S \in Heard : a \in S}, r \in v.sources :
          act = [Audible("respond", to) EXCEPT !.reply = r]
    BY <1>4 DEF Responses
  <2>. QED  BY <2>1 DEF Audible, Silent, StatusOf, Status
<1>5. CASE act \in ObjectUses(a, v)
  <2>1. PICK to \in {S \in Heard : a \in S}, op \in Enabled(v) :
          act = [Audible("use", to) EXCEPT !.op = op]
    BY <1>5 DEF ObjectUses
  <2>. QED  BY <2>1 DEF Audible, Silent, StatusOf, Status
<1>. QED  BY <1>1, <1>2, <1>3, <1>4, <1>5 DEF Actions

\* A commit writes a typed row, entry and character.
LEMMA CommitTyped ==
  ASSUME Inv, Typed, NEW c \in Caller, pc[c] = "deciding",
         NEW attended, NEW draft \in Plans(view[c].persona), NEW disposition,
         NEW act \in Actions(call[c].agent, view[c]),
         Commit(c, attended, draft, disposition, act)
  PROVE  Typed'
<1> DEFINE a == call[c].agent
           status == StatusOf(act)
           w == [StateUpdate(view[c], call[c].id, attended, draft, status, disposition)
                   EXCEPT !.revision = @ + 1]
<1>1. a \in Agent /\ Current(c) /\ Fresh(c)
  BY Ready DEF Commit
<1>2. /\ status \in Status /\ (status = "applied" => a \in act.to)
      /\ (act.asks # <<>> => status = "applied")
  BY ActionsTyped
<1>3. version' = IF status = "applied" THEN version + 1 ELSE version
  BY <1>1 DEF Commit, ApplyRow, Committed, Fresh
<1>4. /\ version \in Nat /\ version' \in Nat /\ version <= version'
      /\ DOMAIN entries = 2..version /\ version >= 1
  BY <1>3 DEF Typed, RowTyped, EntriesTyped, Inv, Shape
<1>5. RowTyped'
  <2>1. /\ seq' = seq + 1 /\ active' \subseteq active
        /\ UNCHANGED <<running, owner, epoch, count>>
    BY DEF Commit, ApplyRow
  <2>. QED  BY <1>4, <2>1 DEF Typed, RowTyped
<1>6. /\ DOMAIN entries' = 2..version'
      /\ \A v \in DOMAIN entries' : entries'[v].by \in entries'[v].to
  <2>1. CASE status = "applied"
    <3>1. version' = version + 1 /\ version' \notin DOMAIN entries
      BY <1>3, <1>4, <2>1
    <3>2. entries' = [v \in DOMAIN entries \cup {version'} |->
                        IF v # version' THEN entries[v]
                        ELSE [by |-> a, id |-> call[c].id, to |-> act.to,
                              asks |-> act.asks, op |-> act.op]]
      BY <2>1 DEF Commit, ApplyEntry
    <3>3. DOMAIN entries' = 2..version'
      BY <1>4, <3>1, <3>2
    <3>4. ASSUME NEW v \in DOMAIN entries' PROVE entries'[v].by \in entries'[v].to
      <4>1. CASE v = version'
        BY <1>2, <2>1, <3>2, <4>1
      <4>2. CASE v # version'
        BY <3>2, <4>2 DEF Typed, EntriesTyped
      <4>. QED  BY <4>1, <4>2
    <3>. QED  BY <3>3, <3>4
  <2>2. CASE status # "applied"
    <3>1. entries' = entries /\ version' = version
      BY <1>3, <2>2 DEF Commit, ApplyEntry
    <3>. QED  BY <3>1 DEF Typed, EntriesTyped
  <2>. QED  BY <2>1, <2>2
<1>7. handed' \subseteq pending' /\ pending' \subseteq DOMAIN entries'
  <2>1. PICK gone : /\ pending' = (pending \cup IF act.asks # <<>> THEN {version'} ELSE {}) \ gone
                    /\ handed' = (handed \cup ({t.request : t \in call[c].token} \ {0})) \ gone
    BY DEF Commit, ApplyRequests
  <2>2. \A t \in call[c].token : t.request # 0 => t.request \in pending
    BY DEF Commit, RequestFence
  <2>3. handed \subseteq pending /\ pending \subseteq 2..version
    BY <1>4 DEF Typed, EntriesTyped
  <2>4. act.asks # <<>> => version' \in 2..version'
    BY <1>2, <1>3, <1>4
  <2>5. {t.request : t \in call[c].token} \ {0} \subseteq pending
    BY <2>2
  <2>6. handed' \subseteq pending'
    BY <2>1, <2>3, <2>5
  <2>7. 2..version \subseteq DOMAIN entries'
    BY <1>4, <1>6
  <2>8. (IF act.asks # <<>> THEN {version'} ELSE {}) \subseteq DOMAIN entries'
    BY <1>6, <2>4
  <2>9. pending' \subseteq DOMAIN entries'
    BY <2>1, <2>3, <2>7, <2>8
  <2>. QED  BY <2>6, <2>9
<1>8. ASSUME NEW b \in Agent PROVE PersonaTyped(persona[b])'
  <2>1. PersonaTyped(persona[b]) /\ PersonaTyped(view[c].persona)
    BY <1>1 DEF Typed, Current
  <2>2. PersonaTyped(w)
    <3>1. QueueSound(w)
      BY <2>1, UpdateSound DEF PersonaTyped
    <3>2. Fields \subseteq DOMAIN view[c].persona
      BY <1>1 DEF Current, Inv, Shape
    <3>3. w.outcome = status /\ w.revision = view[c].persona.revision + 1
      BY <3>2, UpdateFields
    <3>. HIDE DEF w
    <3>. QED  BY <1>2, <2>1, <3>1, <3>3 DEF PersonaTyped
  <2>3. persona' = [persona EXCEPT ![a] = w]
    BY DEF Commit, CommitPersona
  <2>. HIDE DEF w
  <2>4. persona'[b] = IF b = a THEN w ELSE persona[b]
    BY <2>3 DEF Inv, IInv, RowsTyped
  <2>5. PersonaTyped(persona'[b])
    BY <2>1, <2>2, <2>4
  <2>. QED  BY <2>5 DEF PersonaTyped, QueueSound
<1>9. /\ pc' \in [Caller -> {"idle", "calling", "deciding"}]
      /\ \A t \in answers' : t.outcome \in Outcomes'
  <2> DEFINE outcome == [status |-> status, entry |-> IF status = "applied" THEN version' ELSE 0]
  <2>1. Told(c, outcome)
    BY DEF Commit
  <2>2. outcome \in Outcomes'
    BY <1>2, <1>3, <1>4 DEF Outcomes
  <2>. HIDE DEF outcome
  <2>3. /\ pc' \in [Caller -> {"idle", "calling", "deciding"}]
        /\ \A t \in answers' : t \in answers \/ t.outcome = outcome
    BY <2>1, ToldTyped
  <2>4. \A t \in answers : t.outcome \in Outcomes'
    BY <1>4 DEF Typed, Outcomes
  <2>. QED  BY <2>2, <2>3, <2>4
<1>. QED  BY <1>5, <1>6, <1>7, <1>8, <1>9 DEF Typed, EntriesTyped

\* Typed is inductive relative to Inv.
LEMMA StepTyped == Inv /\ Typed /\ [Next]_vars => Typed'
<1> SUFFICES ASSUME Inv, Typed, [Next]_vars PROVE Typed'
  OBVIOUS
<1> USE DEF public, private
<1>1. CASE UNCHANGED vars
  BY <1>1, QuietTyped DEF vars, row, past, Typed, RowTyped
<1>2. CASE Pause
  <2>1. /\ running' = FALSE /\ owner' = None /\ epoch' = epoch + 1 /\ active' = {}
        /\ UNCHANGED <<version, seq, count, entries, pending, handed, persona, pc, answers>>
    BY <1>2 DEF Pause, Unread, past
  <2>2. RowTyped'
    <3>1. running' \in BOOLEAN
      BY <2>1
    <3>2. owner' \in Caller \cup {None} /\ active' \subseteq [agent : Agent, count : 1..count']
      BY <2>1
    <3>3. epoch' \in Nat /\ version' \in Nat /\ seq' \in Nat /\ count' \in Nat
      BY <2>1 DEF Typed, RowTyped
    <3>. QED  BY <3>1, <3>2, <3>3 DEF RowTyped
  <2>. QED  BY <2>1, <2>2, QuietTyped DEF Typed
<1>3. ASSUME NEW c \in Caller, Resume(c) PROVE Typed'
  <2>1. /\ running' = TRUE /\ owner' = c /\ epoch' = epoch + 1 /\ active' = {}
        /\ UNCHANGED <<version, seq, count, entries, pending, handed, persona, pc, answers>>
    BY <1>3 DEF Resume, Unread, past
  <2>2. RowTyped'
    <3>1. running' \in BOOLEAN
      BY <2>1
    <3>2. owner' \in Caller \cup {None}
      BY <2>1
    <3>3. active' \subseteq [agent : Agent, count : 1..count']
      BY <2>1
    <3>4. epoch' \in Nat /\ version' \in Nat /\ seq' \in Nat /\ count' \in Nat
      BY <2>1 DEF Typed, RowTyped
    <3>. QED  BY <3>1, <3>2, <3>3, <3>4 DEF RowTyped
  <2>. QED  BY <2>1, <2>2, QuietTyped DEF Typed
<1>4. ASSUME NEW c \in Caller, NEW a \in Agent, NextDecisionId(c, a) PROVE Typed'
  BY <1>4, QuietTyped DEF NextDecisionId, Start, row, past, Typed, RowTyped
<1>5. ASSUME NEW c \in Caller, NEW a \in Agent, Claim(c, a) PROVE Typed'
  <2>1. /\ count \in Nat /\ count' = count + 1 /\ active' = {[agent |-> a, count |-> count']}
        /\ UNCHANGED <<running, owner, epoch, version, seq, entries, pending, handed, persona, answers>>
        /\ pc' = [pc EXCEPT ![c] = "calling"]
    BY <1>5 DEF Claim, Start, past, Typed, RowTyped
  <2>2. active' \subseteq [agent : Agent, count : 1..count']
    BY <2>1
  <2>3. RowTyped'
    BY <2>1, <2>2 DEF Typed, RowTyped
  <2>4. pc' \in [Caller -> {"idle", "calling", "deciding"}]
    BY <2>1 DEF Typed
  <2>. QED  BY <2>1, <2>3, <2>4, QuietTyped
<1>6. ASSUME NEW c \in Caller, Replay(c) PROVE Typed'
  <2>1. call[c].agent \in Agent
    BY <1>6 DEF Replay, Inv, IInv, CallerOK, Charged
  <2>2. PICK outcome \in Replays(call[c].agent, call[c].id) : Told(c, outcome)
    BY <1>6 DEF Replay
  <2>3. outcome \in Outcomes
    BY <2>1, ReplayTyped
  <2>4. /\ pc' \in [Caller -> {"idle", "calling", "deciding"}]
        /\ \A t \in answers' : t \in answers \/ t.outcome = outcome
    BY <2>2, ToldTyped
  <2>5. RowTyped'
    BY <1>6 DEF Replay, row, Typed, RowTyped
  <2>. QED  BY <1>6, <2>3, <2>4, <2>5, QuietTyped DEF Replay, row
<1>7. ASSUME NEW a \in Agent, NEW k \in DOMAIN decided, Repeat(a, k) PROVE Typed'
  <2>1. PICK outcome \in Replays(a, decided[k].id) :
          answers' = answers \cup {[agent |-> a, id |-> decided[k].id, outcome |-> outcome]}
    BY <1>7 DEF Repeat
  <2>2. outcome \in Outcomes
    BY ReplayTyped
  <2>3. \A t \in answers' : t \in answers \/ t.outcome \in Outcomes
    BY <2>1, <2>2
  <2>. QED  BY <1>7, <2>3, QuietTyped DEF Repeat, row, Typed, RowTyped
<1>8. ASSUME NEW c \in Caller, Read(c) PROVE Typed'
  BY <1>8, QuietTyped DEF Read, row, past, Typed, RowTyped
<1>9. ASSUME NEW c \in Caller, ReadFails(c) PROVE Typed'
  BY <1>9, QuietTyped DEF ReadFails, row, past, Typed, RowTyped
<1>10. ASSUME NEW c \in Caller, Decide(c) PROVE Typed'
  BY <1>10, CommitTyped DEF Decide
<1>11. ASSUME NEW c \in Caller, DecisionFails(c) PROVE Typed'
  BY <1>11, QuietTyped DEF DecisionFails, past, Typed, RowTyped
<1>12. ASSUME NEW c \in Caller, Leave(c) PROVE Typed'
  BY <1>12, QuietTyped DEF Leave, row, past, Typed, RowTyped
<1>. QED
  BY <1>1, <1>2, <1>3, <1>4, <1>5, <1>6, <1>7, <1>8, <1>9, <1>10, <1>11, <1>12 DEF Next

\* TypeOK: the rows keep their types, and whatever a decision does to the plan
\* queue of a character, PersonaState accepts it when it is loaded again.
THEOREM TypesKept == Spec => []TypeOK
<1>1. Inv /\ Typed /\ [Next]_vars => (Inv /\ Typed)'
  BY StepInv, StepTyped
<1>. QED  BY <1>1, InitInv, InitTyped, TypesFromTyped, PTL DEF Spec
=============================================================================
