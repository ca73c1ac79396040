---------------------------- MODULE CharacterStep ----------------------------
(***************************************************************************)
(* CharacterStep of event/character_step.py: a caller reads a World and    *)
(* the private half of one character in one transaction, decides outside   *)
(* of SQL, and commits World, character and memory in one transaction, or  *)
(* nothing.  A decision has an identifier that names the World state it is *)
(* for; a caller that lost the answer asks again with the same one.        *)
(*                                                                         *)
(* Callers are threads of any processes.  A runner owns the World and      *)
(* claims a dispatch for each decision; a World that runs without an owner *)
(* (loaded from a save that another tool left running, or from one older   *)
(* than the runner) is stepped with identifiers of its own.  The run lock  *)
(* and the schedule are left to DispatchControl and WorldRuntime: a caller *)
(* may take the World over at any time here, and claim for anybody.        *)
(*                                                                         *)
(* What a caller decides is chosen when it commits: it rests on the view   *)
(* alone and nobody sees it before.  Who hears an entry is a free choice,  *)
(* because the session topology is EventSession's.  0 stands for NULL.     *)
(***************************************************************************)
EXTENDS PersonAct, FiniteSets

CONSTANTS
  Caller,      \* the threads
  Agent,       \* the characters
  None,        \* SQL NULL
  Operations,  \* the object's operations: pairs of states
  FirstState,  \* the object's first state
  Kinds,       \* the kinds of decision that the model takes for a character
  Heard,       \* who may hear an entry
  MaxEpoch,    \* bound of the model: no resume from this control epoch on
  MaxSeq       \* bound of the model: no call after this many decisions or claims

ASSUME NoneAssumption == None \notin Caller \cup Agent
ASSUME KindAssumption ==
  Kinds \in [Agent -> SUBSET {"wait", "no_op", "behave", "leave", "ask", "respond", "use"}]
ASSUME HeardAssumption == Heard \subseteq SUBSET Agent
ASSUME BoundAssumption == MaxEpoch \in Nat /\ MaxSeq \in Nat

VARIABLES
  running, owner, epoch, version, seq, count,  \* the worlds row
  active,    \* {} or the singleton of the active dispatch
  object,    \* the state of the object
  entries,   \* the committed entry of each World version after the first
  pending,   \* the entries whose response request is pending
  handed,    \* those among them whose priority was consumed
  persona,   \* the agent_runtime_states rows
  memory,    \* the memories rows: the source of each, in memory_seq order
  pc, call, view,   \* the callers
  decided,   \* history: the committed decisions
  offered,   \* history: the entries that committed views showed each character
  answers    \* history: what callers were told of decisions

row     == <<running, owner, epoch, version, seq, count, active>>
public  == <<object, entries, pending, handed>>
private == <<persona, memory>>
past    == <<decided, offered, answers>>
vars    == <<row, public, private, pc, call, view, past>>

NewPersona == [revision |-> 1, cursor |-> 0, id |-> <<>>, outcome |-> None,
               seen |-> 0, noted |-> 0, queue |-> <<>>, active |-> <<>>]

NoCall   == [agent |-> None, id |-> <<>>, token |-> {}]
NoView   == [version |-> 0]

\* A World is created paused; a save may also be found running.
Init ==
  /\ running \in BOOLEAN
  /\ owner = None /\ epoch = 1 /\ version = 1 /\ seq = 0 /\ count = 0 /\ active = {}
  /\ object = FirstState
  /\ entries = <<>> /\ pending = {} /\ handed = {}
  /\ persona = [a \in Agent |-> NewPersona]
  /\ memory = [a \in Agent |-> <<>>]
  /\ pc = [c \in Caller |-> "idle"]
  /\ call = [c \in Caller |-> NoCall]
  /\ view = [c \in Caller |-> NoView]
  /\ decided = <<>>
  /\ offered = [a \in Agent |-> {}]
  /\ answers = {}

-----------------------------------------------------------------------------
(* The run.                                                                *)

Unread == <<public, private, pc, call, view, past>>

Resume(c) ==
  /\ epoch < MaxEpoch
  /\ running' = TRUE
  /\ owner' = c
  /\ epoch' = epoch + 1
  /\ active' = {}
  /\ UNCHANGED <<version, seq, count, Unread>>

Pause ==
  /\ running
  /\ running' = FALSE
  /\ owner' = None
  /\ epoch' = epoch + 1
  /\ active' = {}
  /\ UNCHANGED <<version, seq, count, Unread>>

-----------------------------------------------------------------------------
(* Identifiers.                                                            *)

\* _decision_id, without its constant parts.
StepId(a) == <<"step", a, version, epoch, seq>>

\* dispatch_decision_id.
DispatchId(a, e, n) == <<"dispatch", a, e, n>>

Start(c, a, id, token) ==
  /\ pc[c] = "idle"
  /\ pc' = [pc EXCEPT ![c] = "calling"]
  /\ call' = [call EXCEPT ![c] = [agent |-> a, id |-> id, token |-> token]]

\* next_decision_id.
NextDecisionId(c, a) ==
  /\ seq < MaxSeq
  /\ running /\ owner = None /\ active = {}
  /\ Start(c, a, StepId(a), {})
  /\ UNCHANGED <<row, public, private, view, past>>

RequestsOf(a) == {r \in pending : entries[r].asks = <<a>>}

\* The oldest of some entries, or none.
Oldest(V) == IF V = {} THEN {0} ELSE {v \in V : \A w \in V : v <= w}

\* A claim of the owner: next_dispatch for whomever it selects, with the oldest
\* request that still has its priority.
Claim(c, a) ==
  /\ seq < MaxSeq /\ count < MaxSeq
  /\ running /\ owner = c /\ active = {}
  /\ count' = count + 1
  /\ active' = {[agent |-> a, count |-> count']}
  /\ \E r \in Oldest(RequestsOf(a) \ handed) :
       Start(c, a, DispatchId(a, epoch, count'),
             {[owner |-> c, agent |-> a, count |-> count', epoch |-> epoch,
               version |-> version, seq |-> seq, request |-> r]})
  /\ UNCHANGED <<running, owner, epoch, version, seq, public, private, view, past>>

-----------------------------------------------------------------------------
(* _read, one transaction.                                                 *)

\* get_by_source.
EntriesOf(id) == {v \in DOMAIN entries : entries[v].id = id}

\* Faulty: the saved outcome answers whoever asks.
ReplaysOfLast(a, id) ==
  {[status |-> "applied", entry |-> v] : v \in EntriesOf(id)} \cup
  IF EntriesOf(id) = {} /\ persona[a].outcome \in {"wait", "no_op"}
    THEN {[status |-> persona[a].outcome, entry |-> 0]} ELSE {}

\* _replay_result: {} when the decision is not known.
Replays(a, id) ==
  {[status |-> "applied", entry |-> v] : v \in EntriesOf(id)} \cup
  IF EntriesOf(id) = {} /\ persona[a].id = <<id>>
    THEN {[status |-> persona[a].outcome, entry |-> 0]} ELSE {}

\* The entry is of another character, or an applied decision has none.
ReplayFails(a, id) ==
  \/ \E v \in EntriesOf(id) : entries[v].by # a
  \/ [status |-> "applied", entry |-> 0] \in Replays(a, id)

\* _require_dispatch, and the checks of a call without a dispatch.
MayRead(c) ==
  LET a == call[c].agent IN
  /\ running
  /\ IF call[c].token = {}
       THEN owner = None /\ active = {} /\ call[c].id = StepId(a)
       ELSE \A t \in call[c].token :
              /\ owner = t.owner
              /\ active = {[agent |-> t.agent, count |-> t.count]}
              /\ epoch = t.epoch /\ version = t.version /\ seq = t.seq

VisibleTo(a) == {v \in DOMAIN entries : a \in entries[v].to}

\* The latest of some entries, or the old cursor.
Latest(V, default) == IF V = {} THEN {default} ELSE {v \in V : \A w \in V : w <= v}

New(a) == {v \in VisibleTo(a) : v > persona[a].cursor}

\* The last new entry, or the old cursor: what comes later is new next time.
NextCursor(a) == Latest(New(a), persona[a].cursor)

\* AgentViewBuilder.build.  A dispatch puts only its own request first.
ViewOf(c, cursor) ==
  LET a == call[c].agent IN
  [agent |-> a,
   version |-> version, epoch |-> epoch, seq |-> seq, object |-> object,
   persona |-> persona[a], memory |-> memory[a],
   new |-> New(a), sources |-> RequestsOf(a), cursor |-> cursor,
   must |-> IF call[c].token = {} THEN RequestsOf(a)
            ELSE {t.request : t \in call[c].token} \ {0}]

\* What build and _prepare refuse to work on.
Servable(a) ==
  /\ persona[a].cursor = 0 \/ persona[a].cursor \in VisibleTo(a)
  /\ RequestsOf(a) \subseteq VisibleTo(a)
  /\ persona[a].seen <= version

\* The caller gets its answer and is done; if the answer is lost, see Repeat.
Told(c, outcome) ==
  /\ answers' = answers \cup {[agent |-> call[c].agent, id |-> call[c].id, outcome |-> outcome]}
  /\ pc' = [pc EXCEPT ![c] = "idle"]
  /\ call' = [call EXCEPT ![c] = NoCall]
  /\ view' = [view EXCEPT ![c] = NoView]

Replay(c) ==
  LET a == call[c].agent IN
  /\ pc[c] = "calling"
  /\ ~ReplayFails(a, call[c].id)
  /\ \E outcome \in Replays(a, call[c].id) : Told(c, outcome)
  /\ UNCHANGED <<row, public, private, decided, offered>>

\* Somebody who knows the identifier of a decision runs it once more, for any
\* character: the first transaction answers or refuses.
Repeat(a, k) ==
  LET id == decided[k].id IN
  /\ ~ReplayFails(a, id)
  /\ \E outcome \in Replays(a, id) :
       answers' = answers \cup {[agent |-> a, id |-> id, outcome |-> outcome]}
  /\ UNCHANGED <<row, public, private, pc, call, view, decided, offered>>

Read(c) ==
  LET a == call[c].agent IN
  /\ pc[c] = "calling"
  /\ Replays(a, call[c].id) = {}
  /\ MayRead(c) /\ Servable(a)
  /\ \E cursor \in NextCursor(a) : view' = [view EXCEPT ![c] = ViewOf(c, cursor)]
  /\ pc' = [pc EXCEPT ![c] = "deciding"]
  /\ UNCHANGED <<row, public, private, call, past>>

ReadFails(c) ==
  LET a == call[c].agent IN
  /\ pc[c] = "calling"
  /\ \/ ReplayFails(a, call[c].id)
     \/ Replays(a, call[c].id) = {} /\ ~(MayRead(c) /\ Servable(a))
  /\ pc' = [pc EXCEPT ![c] = "idle"]
  /\ call' = [call EXCEPT ![c] = NoCall]
  /\ UNCHANGED <<row, public, private, view, past>>

-----------------------------------------------------------------------------
(* The decision and its transaction.                                       *)

\* The actions of WorldAffordanceResolver; each is heard by its actor too.  A
\* behavior stands for speech that expects no answer as well.
Silent(kind) == [kind |-> kind, to |-> {}, asks |-> <<>>, reply |-> 0, op |-> <<>>]
Audible(kind, to) == [Silent(kind) EXCEPT !.to = to]

Declines == {Silent(kind) : kind \in {"wait", "no_op"}}
Behaviors(a) ==
  {Audible(kind, to) : kind \in {"behave", "leave"}, to \in {S \in Heard : a \in S}}
Questions(a) ==
  {[Audible("ask", to) EXCEPT !.asks = <<b>>] :
     to \in {S \in Heard : a \in S}, b \in Agent \ {a}}
Responses(a, v) ==
  {[Audible("respond", to) EXCEPT !.reply = r] :
     to \in {S \in Heard : a \in S}, r \in v.sources}
Enabled(v) == {op \in Operations : op[1] = v.object}
ObjectUses(a, v) ==
  {[Audible("use", to) EXCEPT !.op = op] : to \in {S \in Heard : a \in S}, op \in Enabled(v)}

\* What a view affords, of the kinds that the model takes.
Actions(a, v) ==
  {act \in Declines \cup Behaviors(a) \cup Questions(a) \cup Responses(a, v)
            \cup ObjectUses(a, v) : act.kind \in Kinds[a]}

\* _utter_plan and _response_plan: the addressee hears what is said.
Addressed(act) ==
  /\ \A i \in DOMAIN act.asks : act.asks[i] \in act.to
  /\ act.reply # 0 => entries[act.reply].by \in act.to

StatusOf(act) == IF act.kind \in {"wait", "no_op"} THEN act.kind ELSE "applied"

TokenIsActive(c) ==
  \A t \in call[c].token : owner = t.owner /\ active = {[agent |-> t.agent, count |-> t.count]}

\* Faulty: optimistic concurrency on the World version only.
WorldFenceVersionOnly(c) == running /\ version = view[c].version /\ TokenIsActive(c)

\* compare_and_advance.
WorldFence(c) ==
  /\ running
  /\ epoch = view[c].epoch /\ version = view[c].version /\ seq = view[c].seq
  /\ TokenIsActive(c)

\* compare_and_set_object_state: the operation still starts at the saved state.
ObjectFence(act) == act.op # <<>> => object = act.op[1]

\* consume_request_priority and resolve_request.
RequestFence(c, act) ==
  /\ act.reply # 0 => act.reply \in pending
  /\ \A t \in call[c].token : t.request # 0 => t.request \in pending \ handed

\* PersonaStateStore.compare_and_set.
PersonaFence(c) ==
  LET a == call[c].agent IN
  /\ persona[a].revision = view[c].persona.revision
  /\ IF view[c].cursor = 0 THEN persona[a].cursor = 0 ELSE persona[a].cursor <= view[c].cursor

\* MemoryStore.touch: a record that is not there cannot be touched.
MemoryFence(c, attended) == Touches(view[c], attended) \subseteq Range(memory[call[c].agent])

Plans(persona_) == IF persona_.queue = <<>> THEN Drafts ELSE {<<>>}

\* WorldUpdater.apply, the worlds row.
ApplyRow(c, status) ==
  /\ version' = Committed(view[c], status)
  /\ seq' = seq + 1
  /\ active' = IF call[c].token = {} THEN active ELSE {}
  /\ UNCHANGED <<running, owner, epoch, count>>

\* _object_plan and compare_and_set_object_state.
ApplyObject(act) == object' = IF act.op = <<>> THEN object ELSE act.op[2]

\* EventEntryStore.append: one entry for an applied outcome.
ApplyEntry(c, act) ==
  entries' = IF StatusOf(act) # "applied" THEN entries
             ELSE [w \in DOMAIN entries \cup {version'} |->
                     IF w # version' THEN entries[w]
                     ELSE [by |-> call[c].agent, id |-> call[c].id, to |-> act.to,
                           asks |-> act.asks, op |-> act.op]]

\* create_request, resolve_request, consume_request_priority, and for who leaves
\* its company cancel_unreachable_requests.
ApplyRequests(c, act) ==
  LET a == call[c].agent
      mine == {r \in pending : entries[r].by = a \/ entries[r].asks = <<a>>}
      gone == {act.reply} \cup IF act.kind = "leave" THEN mine ELSE {}
      used == {t.request : t \in call[c].token} \ {0}
  IN /\ pending' = (pending \cup IF act.asks # <<>> THEN {version'} ELSE {}) \ gone
     /\ handed' = (handed \cup used) \ gone

\* Faulty: an outcome without an entry leaves the character's state alone.
CommitPersonaIfApplied(c, attended, draft, status, disposition) ==
  persona' = IF status # "applied" THEN persona
             ELSE [persona EXCEPT ![call[c].agent] =
                     [StateUpdate(view[c], call[c].id, attended, draft, status, disposition)
                        EXCEPT !.revision = @ + 1]]

\* compare_and_set: the new state comes from the view.
CommitPersona(c, attended, draft, status, disposition) ==
  persona' = [persona EXCEPT ![call[c].agent] =
                [StateUpdate(view[c], call[c].id, attended, draft, status, disposition)
                   EXCEPT !.revision = @ + 1]]

\* MemoryStore.append: the new records go to the tail of the stored stream.
CommitMemory(c, attended) ==
  memory' = [memory EXCEPT ![call[c].agent] = @ \o Writes(view[c], attended)]

Commit(c, attended, draft, disposition, act) ==
  LET a == call[c].agent IN
  /\ pc[c] = "deciding"
  /\ Addressed(act)
  /\ WorldFence(c) /\ ObjectFence(act) /\ RequestFence(c, act)
  /\ PersonaFence(c) /\ MemoryFence(c, attended)
  /\ ApplyRow(c, StatusOf(act))
  /\ ApplyObject(act) /\ ApplyEntry(c, act) /\ ApplyRequests(c, act)
  /\ CommitPersona(c, attended, draft, StatusOf(act), disposition)
  /\ CommitMemory(c, attended)
  /\ Told(c, [status |-> StatusOf(act),
               entry |-> IF StatusOf(act) = "applied" THEN version' ELSE 0])
  /\ decided' = Append(decided, [agent |-> a, id |-> call[c].id,
                                 status |-> StatusOf(act), must |-> view[c].must])
  /\ offered' = [offered EXCEPT ![a] = @ \cup view[c].new]

\* What the decision may be: see PersonActLoop.
Decide(c) ==
  /\ pc[c] = "deciding"
  /\ \E attended \in Attentions(view[c]), draft \in Plans(view[c].persona),
        disposition \in Disposition, act \in Actions(call[c].agent, view[c]) :
       Commit(c, attended, draft, disposition, act)

\* Any error of the decision or of its transaction, a stale fence among them;
\* nothing is kept, and the caller may ask again.  A runner clears its attempt
\* if it is still active.
DecisionFails(c) ==
  /\ pc[c] = "deciding"
  /\ active' = active \ {[agent |-> t.agent, count |-> t.count] :
                           t \in {t \in call[c].token : t.owner = owner /\ t.epoch = epoch}}
  /\ pc' = [pc EXCEPT ![c] = "calling"]
  /\ view' = [view EXCEPT ![c] = NoView]
  /\ UNCHANGED <<running, owner, epoch, version, seq, count, public, private, call,
                 past>>

\* The caller gives up or dies: whatever it worked on is lost.
Leave(c) ==
  /\ pc[c] # "idle"
  /\ pc' = [pc EXCEPT ![c] = "idle"]
  /\ call' = [call EXCEPT ![c] = NoCall]
  /\ view' = [view EXCEPT ![c] = NoView]
  /\ UNCHANGED <<row, public, private, past>>

Next ==
  \/ Pause
  \/ \E c \in Caller :
       \/ Resume(c) \/ Replay(c) \/ Read(c) \/ ReadFails(c) \/ Decide(c)
       \/ DecisionFails(c) \/ Leave(c)
       \/ \E a \in Agent : NextDecisionId(c, a) \/ Claim(c, a)
  \/ \E a \in Agent, k \in DOMAIN decided : Repeat(a, k)

Spec == Init /\ [][Next]_vars

-----------------------------------------------------------------------------
(* Properties.                                                             *)

Status == {"applied", "wait", "no_op"}

TypeOK ==
  /\ running \in BOOLEAN /\ owner \in Caller \cup {None}
  /\ epoch \in Nat /\ version \in Nat /\ seq \in Nat /\ count \in Nat
  /\ active \subseteq [agent : Agent, count : 1..count]
  /\ DOMAIN entries = 2..version
  /\ \A v \in DOMAIN entries : entries[v].by \in entries[v].to
  /\ handed \subseteq pending /\ pending \subseteq DOMAIN entries
  /\ \A a \in Agent :
       /\ persona[a].revision \in Nat \ {0} /\ persona[a].outcome \in Status \cup {None}
       /\ IsInjective(persona[a].queue) /\ Len(persona[a].active) <= 1
       /\ Range(persona[a].active) \subseteq Range(persona[a].queue)
  /\ pc \in [Caller -> {"idle", "calling", "deciding"}]
  /\ \A t \in answers : t.outcome \in [status : Status, entry : {0} \cup 2..version]

\* Everything a caller is told about a decision is the one outcome that was
\* committed under its identifier, whoever asks, how often and how late; no
\* identifier is committed twice.
OneAnswer ==
  /\ \A j, k \in DOMAIN decided : decided[j].id = decided[k].id => j = k
  /\ \A t \in answers : \E k \in DOMAIN decided :
       /\ decided[k].id = t.id /\ decided[k].agent = t.agent
       /\ decided[k].status = t.outcome.status
       /\ EntriesOf(t.id) = {t.outcome.entry} \ {0}

DecisionsOf(a) == {k \in DOMAIN decided : decided[k].agent = a}

Uses == {v \in DOMAIN entries : entries[v].op # <<>>}

\* The state that the entries up to version v tell.
ToldState(v) ==
  LET uses == Uses \cap 2..v IN
  IF uses = {} THEN FirstState
  ELSE entries[CHOOSE last \in uses : \A w \in uses : w <= last].op[2]

\* A decision is committed as a whole: each is one step of the World and one
\* revision of its character, the last one of a character is the saved one, the
\* memories that its state counts are the memories that are stored, and the
\* object is where the operations of the entries, end to end, have taken it.
CommitsAreWhole ==
  /\ seq = Len(decided)
  /\ version = 1 + Cardinality({k \in DOMAIN decided : decided[k].status = "applied"})
  /\ \A a \in Agent :
       /\ persona[a].revision = 1 + Cardinality(DecisionsOf(a))
       /\ persona[a].noted = Len(memory[a])
       /\ \A k \in DecisionsOf(a) : (\A j \in DecisionsOf(a) : j <= k) =>
            persona[a].id = <<decided[k].id>> /\ persona[a].outcome = decided[k].status
  /\ object = ToldState(version)
  /\ \A v \in Uses : entries[v].op[1] = ToldState(v - 1)

\* The fence of the World is enough: when it holds, no other part of the
\* transaction can find its rows changed, so no decision is lost half-way.
FenceSuffices ==
  \A c \in Caller : pc[c] = "deciding" /\ WorldFence(c) =>
    \A attended \in Attentions(view[c]), act \in Actions(call[c].agent, view[c]) :
      ObjectFence(act) /\ RequestFence(c, act) /\ PersonaFence(c) /\ MemoryFence(c, attended)

\* A character is shown every entry it can see, and nothing else, exactly up
\* to its cursor; what it remembers it was shown, and it remembers it once.
NothingSkipped ==
  \A a \in Agent :
    /\ offered[a] = {v \in VisibleTo(a) : v <= persona[a].cursor}
    /\ \A v \in DOMAIN entries : Entry(v) \in Range(memory[a]) => v \in offered[a]
    /\ IsInjective(memory[a])

\* A request that was put first is in the memory of its recipient once the
\* decision is committed, whatever the attention budget is, if the recipient is
\* a character that records what it observes.
RequestsAreHeard ==
  \A k \in DOMAIN decided : decided[k].agent \in Observing =>
    \A r \in decided[k].must : Entry(r) \in Range(memory[decided[k].agent])
=============================================================================
