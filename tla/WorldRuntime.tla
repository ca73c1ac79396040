---------------------------- MODULE WorldRuntime ----------------------------
(***************************************************************************)
(* One World as its runner sees it: the scheduling columns of the session  *)
(* nodes, the committed entries with their recipients and links, the       *)
(* response requests, and what each character has observed.  A claimed     *)
(* dispatch is decided on the rows it was claimed on, so an outcome is one *)
(* step here; DispatchControl shows why no other outcome, and no late one, *)
(* comes between.  The topology rows are those of EventSession.            *)
(*                                                                         *)
(* A character and its stable session node are one-to-one and share a      *)
(* name.  0 stands for NULL.  Objects, texts and the private memory of the *)
(* characters are not modelled.                                            *)
(***************************************************************************)
EXTENDS Integers, FiniteSets

CONSTANTS
  Agent,        \* the characters, ordered like their identifiers
  LocationOf,   \* where each character is; nobody moves
  TurnLimit,    \* consecutive dialogue turns a character may take: 50
  Quota,        \* the additional_decisions a resume may be given
  Decisions,    \* the kinds of decision that the models take
  MaxDispatch,  \* bound of the model: no resume beyond this dispatch limit
  MaxVersion    \* bound of the model: no entry beyond this World version

ASSUME AgentAssumption == Agent \subseteq Int /\ IsFiniteSet(Agent)
ASSUME DecisionAssumption ==
  Decisions \subseteq {"decline", "behave", "utter", "ask", "respond", "leave", "join"}
ASSUME BoundAssumption ==
  TurnLimit \in Nat /\ MaxDispatch \in Nat /\ MaxVersion \in Nat /\ Quota \subseteq Nat \ {0}

VARIABLES
  root, topo, version,   \* the topology rows and the World version
  running, count, limit, \* the worlds row, as far as the schedule needs it
  active,     \* {} or the singleton of the active dispatch
  last,       \* event_sessions.last_dispatch_count
  wait,       \* event_sessions.wait_for_visible_entry_after_version
  turns,      \* event_sessions.consecutive_dialogue_turns
  entries,    \* the committed entry of each World version after the first
  requests,   \* the response request of an entry, if it made one
  cursor      \* persona state: the last entry that the character observed

topology == <<root, topo, version>>
vars == <<topology, running, count, limit, active, last, wait, turns, entries,
          requests, cursor>>

Topology == INSTANCE EventSession WITH Session <- Agent

Members(a) == Topology!Members(a)

\* The story line key of a's current company.
LineOf(a) == <<root[a], topo[a]>>

Visible(a) == {v \in DOMAIN entries : a \in entries[v].to}

Latest(V) == {v \in V : \A w \in V : w <= v}

\* Faulty: the frontier of the root, whatever its topology version.
FrontierOfRoot(line) == Latest({v \in DOMAIN entries : entries[v].line[1] = line[1]})

\* latest_for_line: {} while the line has no entry.
FrontierOf(line) == Latest({v \in DOMAIN entries : entries[v].line = line})

Pending == {r \in DOMAIN requests : requests[r].status = "pending"}

Init ==
  /\ Topology!Init
  /\ running = FALSE /\ count = 0 /\ limit = 0
  /\ active = {}
  /\ last = [a \in Agent |-> 0]
  /\ wait = [a \in Agent |-> 0]
  /\ turns = [a \in Agent |-> 0]
  /\ entries = <<>>
  /\ requests = <<>>
  /\ cursor = [a \in Agent |-> 0]

-----------------------------------------------------------------------------
(* WorldRunner: resume, pause and next_dispatch.                           *)

Unscheduled == <<topology, last, wait, turns, entries, requests, cursor>>

\* Also after a crash, when the World is still running.
Resume(n) ==
  /\ limit + n <= MaxDispatch
  /\ running' = TRUE
  /\ limit' = limit + n
  /\ active' = {}
  /\ UNCHANGED <<count, Unscheduled>>

\* pause, with whatever reason: the active dispatch is fenced.
Pause ==
  /\ running
  /\ running' = FALSE
  /\ active' = {}
  /\ UNCHANGED <<count, limit, Unscheduled>>

Runnable(a) == wait[a] = 0 \/ \E v \in Visible(a) : v > wait[a]

\* Lexicographic order of two pairs of numbers.
Before(p, q) == p[1] < q[1] \/ (p[1] = q[1] /\ p[2] <= q[2])

\* The element of S with the least key.
First(S, key(_)) == CHOOSE x \in S : \A y \in S : Before(key(x), key(y))

\* Each recipient's oldest pending request without priority dispatch so far.
Unconsumed ==
  LET open == {r \in Pending : requests[r].chance = 0} IN
  {r \in open : \A q \in open : requests[q].to = requests[r].to => r <= q}

Prioritised == {r \in Unconsumed : Runnable(requests[r].to)}

RequestKey(r) == <<last[requests[r].to], r>>

MostRecent(S) == CHOOSE n \in {last[a] : a \in S} : \A a \in S : last[a] <= n

\* A root's turn is measured by all its members, runnable or not.
RootKey(r) == <<MostRecent({a \in Agent : root[a] = r}), r>>

AgentKey(a) == <<last[a], a>>

\* _select: the agent, and the request that gave it priority.
Select ==
  IF Prioritised # {}
    THEN LET r == First(Prioritised, RequestKey) IN [agent |-> requests[r].to, request |-> r]
    ELSE LET runnable == {a \in Agent : Runnable(a)}
             next == First({root[a] : a \in runnable}, RootKey)
         IN [agent   |-> First({a \in runnable : root[a] = next}, AgentKey),
             request |-> 0]

\* next_dispatch pauses on an exhausted budget or an idle World: see Pause.
Claim ==
  /\ running /\ active = {} /\ count < limit
  /\ \E a \in Agent : Runnable(a)
  /\ count' = count + 1
  /\ active' = {Select}
  /\ last' = [last EXCEPT ![Select.agent] = count']
  /\ wait' = [wait EXCEPT ![Select.agent] = 0]
  /\ UNCHANGED <<topology, running, limit, turns, entries, requests, cursor>>

\* fail_dispatch: nothing but the token is given back.
Fail(d) ==
  /\ active' = {}
  /\ UNCHANGED <<running, count, limit, Unscheduled>>

-----------------------------------------------------------------------------
(* CharacterStep: one transaction for the World and the character.         *)

\* Faulty: the cursor moves to the World version instead of an entry.
ObservedVersion(a) == version

\* The view's cursor: the last visible entry, if there is one.
Observed(a) == IF Visible(a) = {} THEN 0 ELSE CHOOSE v \in Latest(Visible(a)) : TRUE

\* consume_request_priority.
Consumed(d) ==
  IF d.request = 0 THEN requests ELSE [requests EXCEPT ![d.request].chance = count]

\* What every outcome of d.agent writes, applied or not.
Finish(d) ==
  /\ active' = {}
  /\ cursor' = [cursor EXCEPT ![d.agent] = Observed(d.agent)]
  /\ UNCHANGED <<running, count, limit, last>>

\* Faulty: a decision without effect does not save what was observed.
DeclineUnsaved(d) ==
  /\ "decline" \in Decisions
  /\ active' = {}
  /\ wait' = [wait EXCEPT ![d.agent] = version]
  /\ requests' = Consumed(d)
  /\ UNCHANGED <<topology, running, count, limit, last, turns, entries, cursor>>

\* wait and no_op.
Decline(d) ==
  /\ "decline" \in Decisions
  /\ Finish(d)
  /\ wait' = [wait EXCEPT ![d.agent] = version]
  /\ requests' = Consumed(d)
  /\ UNCHANGED <<topology, turns, entries>>

\* A row that is inserted with the key v; no row is ever overwritten.
Inserted(rows, v, row) ==
  [w \in DOMAIN rows \cup {v} |-> IF w \in DOMAIN rows THEN rows[w] ELSE row]

\* Faulty: the entry takes the version that the decision was based on.
AppendAtBase(entry) == entries' = Inserted(entries, version, entry)

\* append: the entry of the version that this commit makes.
AppendEntry(entry) == entries' = Inserted(entries, version + 1, entry)

\* An entry of a to its current line, heard by the characters of to.
LineEntry(a, kind, channel, to, reply) ==
  [kind |-> kind, actor |-> a, line |-> LineOf(a), channel |-> channel,
   to |-> to, previous |-> FrontierOf(LineOf(a)), reply |-> reply,
   before |-> {}, after |-> {}]

\* The view offers behaviours always, so an outcome is always possible.
Behave(d) ==
  /\ "behave" \in Decisions
  /\ Topology!OtherEntry
  /\ Finish(d)
  /\ AppendEntry(LineEntry(d.agent, "behavior", "none", Members(d.agent), 0))
  /\ wait' = [wait EXCEPT ![d.agent] = 0]
  /\ turns' = [turns EXCEPT ![d.agent] = 0]
  /\ requests' = Consumed(d)

Channel == {"direct", "whisper"}

Audience(a, t, channel) == IF channel = "direct" THEN Members(a) ELSE {a, t}

\* A dialogue entry of d.agent to t: both must be in one line.
Dialogue(d, t, channel, reply) ==
  /\ turns[d.agent] < TurnLimit
  /\ t \in Members(d.agent) \ {d.agent}
  /\ Topology!OtherEntry
  /\ Finish(d)
  /\ AppendEntry(LineEntry(d.agent, "dialogue", channel, Audience(d.agent, t, channel), reply))
  /\ wait' = [wait EXCEPT ![d.agent] = 0]
  /\ turns' = [turns EXCEPT ![d.agent] = @ + 1]

Utter(d, t, channel) ==
  /\ "utter" \in Decisions
  /\ Dialogue(d, t, channel, 0)
  /\ requests' = Consumed(d)

\* An utterance that expects a response.
Ask(d, t, channel) ==
  /\ "ask" \in Decisions
  /\ Dialogue(d, t, channel, 0)
  /\ requests' = Inserted(Consumed(d), version + 1,
       [from |-> d.agent, to |-> t, status |-> "pending", chance |-> 0])

Respond(d, r) ==
  /\ "respond" \in Decisions
  /\ r \in Pending /\ requests[r].to = d.agent
  /\ Dialogue(d, requests[r].from, entries[r].channel, r)
  /\ requests' = [Consumed(d) EXCEPT ![r].status = "resolved"]

\* cancel_unreachable_requests.
Cancel(reqs, affected, rootOf) ==
  [r \in DOMAIN reqs |->
     IF /\ reqs[r].status = "pending"
        /\ {reqs[r].from, reqs[r].to} \subseteq affected
        /\ rootOf[reqs[r].from] # rootOf[reqs[r].to]
       THEN [reqs[r] EXCEPT !.status = "cancelled"]
       ELSE reqs[r]]

\* Faulty: the entry stays on the line that the actor leaves.
EntryOnOldLine(a, affected, rootOf) ==
  [kind |-> "transition", actor |-> a, line |-> LineOf(a), channel |-> "none",
   to |-> affected, previous |-> UNION {FrontierOf(LineOf(s)) : s \in affected}, reply |-> 0,
   before |-> {[line |-> LineOf(s), members |-> Members(s)] : s \in affected},
   after  |-> {[line    |-> <<rootOf[s], version + 1>>,
                members |-> {u \in affected : rootOf[u] = rootOf[s]}] : s \in affected}]

\* The entry of a transition, on the actor's new line, with the story lines
\* that it takes apart and those that it makes (the transition parts).
TransitionEntry(a, affected, rootOf) ==
  [kind |-> "transition", actor |-> a, line |-> <<rootOf[a], version + 1>>, channel |-> "none",
   to |-> affected, previous |-> UNION {FrontierOf(LineOf(s)) : s \in affected}, reply |-> 0,
   before |-> {[line |-> LineOf(s), members |-> Members(s)] : s \in affected},
   after  |-> {[line    |-> <<rootOf[s], version + 1>>,
                members |-> {u \in affected : rootOf[u] = rootOf[s]}] : s \in affected}]

\* Faulty: the planned roots are lost on the way to the rows.
TransitionKeepsRoots(d, affected, rootOf) ==
  /\ Topology!ApplyTransition(affected, root)
  /\ Finish(d)
  /\ AppendEntry(TransitionEntry(d.agent, affected, rootOf))
  /\ wait' = [s \in Agent |-> IF s \in affected THEN 0 ELSE wait[s]]
  /\ turns' = [turns EXCEPT ![d.agent] = 0]
  /\ requests' = Cancel(Consumed(d), affected, rootOf)

Transition(d, affected, rootOf) ==
  /\ Topology!ApplyTransition(affected, rootOf)
  /\ Finish(d)
  /\ AppendEntry(TransitionEntry(d.agent, affected, rootOf))
  /\ wait' = [s \in Agent |-> IF s \in affected THEN 0 ELSE wait[s]]
  /\ turns' = [turns EXCEPT ![d.agent] = 0]
  /\ requests' = Cancel(Consumed(d), affected, rootOf)

Leave(d) ==
  /\ "leave" \in Decisions
  /\ version < MaxVersion
  /\ Topology!CanLeave(d.agent)
  /\ Transition(d, Topology!LeaveAffected(d.agent), Topology!LeavePartition(d.agent).rootOf)

Join(d, t) ==
  /\ "join" \in Decisions
  /\ version < MaxVersion
  /\ Topology!CanJoin(d.agent, t)
  /\ LocationOf[d.agent] = LocationOf[t]
  /\ Transition(d, Topology!JoinAffected(d.agent, t), Topology!JoinPartition(d.agent, t).rootOf)

Commit(d) ==
  \/ Decline(d)
  \/ Behave(d)
  \/ \E t \in Agent, channel \in Channel : Utter(d, t, channel) \/ Ask(d, t, channel)
  \/ \E r \in Pending : Respond(d, r)
  \/ Leave(d)
  \/ \E t \in Agent : Join(d, t)

Next ==
  \/ \E n \in Quota : Resume(n)
  \/ Pause
  \/ Claim
  \/ \E d \in active : Fail(d) \/ Commit(d)

Spec == Init /\ [][Next]_vars

-----------------------------------------------------------------------------
(* Properties.                                                             *)

Line == Agent \X Nat

Part == [line : Line, members : SUBSET Agent]

Entry == [kind : {"behavior", "dialogue", "transition"}, actor : Agent, line : Line,
          channel : Channel \cup {"none"}, to : SUBSET Agent,
          previous : SUBSET DOMAIN entries, reply : Nat,
          before : SUBSET Part, after : SUBSET Part]

TypeOK ==
  /\ Topology!TypeOK
  /\ running \in BOOLEAN /\ count \in Nat /\ limit \in Nat
  /\ active \subseteq [agent : Agent, request : {0} \cup DOMAIN requests]
  /\ last \in [Agent -> 0..count]
  /\ wait \in [Agent -> 0..version]
  /\ turns \in [Agent -> 0..TurnLimit]
  /\ entries \in [2..version -> Entry]
  /\ DOMAIN requests \subseteq DOMAIN entries
  /\ \A r \in DOMAIN requests :
       requests[r] \in [from : Agent, to : Agent, chance : 0..count,
                        status : {"pending", "resolved", "cancelled"}]
  /\ cursor \in [Agent -> 0..version]

\* No reachable row makes a read or a commit of a dispatch fail: the cursor of
\* every character is an entry it can see, the source of a pending request is
\* visible to its recipient, and the request that gave a dispatch priority is
\* still pending, unconsumed and its own when the outcome arrives.  Nor is a
\* request ever stuck: its two sides are in one line, or it could never be
\* answered and nothing would cancel it.
DispatchesServable ==
  /\ \A a \in Agent : cursor[a] # 0 => cursor[a] \in Visible(a)
  /\ \A r \in Pending :
       r \in Visible(requests[r].to) /\ root[requests[r].from] = root[requests[r].to]
  /\ \A d \in active : d.request # 0 =>
       /\ d.request \in Pending
       /\ requests[d.request].to = d.agent /\ requests[d.request].chance = 0

\* A character that waits has observed everything it can see: no entry falls
\* between its cursor and its wait threshold, whatever was committed while its
\* model was called, and whichever call failed before.
WaitersHaveRead ==
  \A a \in Agent : ~Runnable(a) => \A v \in Visible(a) : v <= cursor[a]

\* Each line is one chain in commit order: an entry that is not the first of
\* its line has exactly the one before it as PREVIOUS, and only a transition
\* has a PREVIOUS on another line.
LinesAreChains ==
  \A v \in DOMAIN entries :
    LET earlier == {w \in DOMAIN entries : w < v /\ entries[w].line = entries[v].line} IN
    IF earlier = {}
      THEN entries[v].previous # {} => entries[v].kind = "transition"
      ELSE entries[v].previous = Latest(earlier)

\* Everybody on a line hears the same: the public entries of a line have the
\* same recipients, and those of its whispers are among them.  A transition,
\* also heard by those it leaves behind, is heard by all of them.
OneAudiencePerLine ==
  \A v, w \in DOMAIN entries :
    entries[v].line = entries[w].line /\ entries[v].kind # "transition"
      /\ entries[v].channel # "whisper" =>
        CASE entries[w].kind = "transition"  -> entries[v].to \subseteq entries[w].to
          [] entries[w].channel = "whisper"  -> entries[w].to \subseteq entries[v].to
          [] OTHER                           -> entries[w].to = entries[v].to

\* A story line is told in order, to those who are on it.
LinesAreSound == LinesAreChains /\ OneAudiencePerLine

\* M4_dev_log.md: the lines that a transition leaves behind continue from it:
\* their first later entry has the transition as PREVIOUS.
BranchesContinue ==
  \A v, w \in DOMAIN entries :
    entries[v].kind = "transition" /\ entries[w].kind # "transition" /\ entries[w].line[2] = v
      => \E u \in DOMAIN entries : entries[u].line = entries[w].line /\ v \in entries[u].previous

\* The Scheduler's view of the rows.
Turns == INSTANCE Scheduler
  WITH Broken  <- {},
       blocks  <- {Members(a) : a \in Agent},
       last    <- [a \in Agent |-> Cardinality({b \in Agent : 0 < last[b] /\ last[b] <= last[a]})],
       waiting <- {a \in Agent : ~Runnable(a)},
       asked   <- {[from |-> requests[r].from, to |-> requests[r].to] :
                     r \in {q \in Pending : requests[q].chance = 0}},
       active  <- {d.agent : d \in active}

\* The topology rows move as EventSession says, and the rows take turns as the
\* Scheduler says, whatever else the same transactions write.
ImplementsParts == Topology!Spec /\ Turns!Spec
=============================================================================
