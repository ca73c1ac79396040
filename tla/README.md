# MyGO-World in TLA+

Models, model checks and proofs for the World runtime (`src/agent_runtime`) and
the Dynamic Render server (`src/extensions/dynamic-render`). Paths below leave
out the leading `src/`; `PROJECT.json` maps every definition to its lines and
lists every run, mutant, finding, hazard and theorem.

The program in a sentence: a *World* is a set of rows in a SQLite database;
*characters* take turns to be asked for one decision by a language model, each
decision is made on a snapshot, committed atomically if nothing has overtaken
it, and becomes an *entry* of the story line that the character is in; a run is
bounded by a quota and may be paused, interrupted, killed and resumed.

## 1. Inventory

| Component | State it keeps | Operations | What is hard |
|---|---|---|---|
| **UnionPart** `common/union_part.py` | a partition, twice: root of an item, members of a root | `merge`, `split` | two indices changed by hand |
| **EventSession** `event/session.py` | `root_session_id`, `topology_version` of the node rows | `plan_join`, `plan_leave`, apply | a root that leaves, a root that comes back; line keys must never be reused |
| **World row** `world/storage.py` | status, epoch, version, decision_seq, dispatch count and limit, active dispatch, owner, stop | `resume`, `pause`, `claim_dispatch`, `fail_dispatch`, `compare_and_advance` | transactions of several processes in any order; CHECK constraints at the limits |
| **WorldRunner** `event/runner.py` | a run lock on a file, an owner id, the dispatch in hand | `resume`, `run`, `next_dispatch`, `_select`, `pause_and_save`, `close`; `pause_world` from anywhere | Ctrl+C, crash, close while a model call is in flight, late answers, idle and exhausted Worlds, starvation |
| **CharacterStep** `event/character_step.py` | none of its own | `next_decision_id`; answer a decision that is committed already; read a snapshot, decide outside any transaction, commit behind a fence | state read before the call and used after it; a caller that lost its answer asks again; five kinds of rows in one transaction |
| **Entries and requests** `world/entry_storage.py` | entries with recipients and links, interaction requests, transition parts | `append`, create / resolve / consume / cancel a request, the queries of the scheduler | a move separates the sides of a request; cursors and thresholds that lose a wake-up |
| **World updates** `world/updater.py` | none of its own | validate and apply a decision: decline, behave, operate an object, utter, respond, leave, join | a plan made on old rows; the PREVIOUS of an entry |
| **Agent view** `world/view_builder.py` | none of its own | what a character observes and is offered | a saved cursor that no later view accepts |
| **Story line view** `event/story_line.py` | none of its own | rebuild the graph of story lines up to a cut | it undoes later transitions from the current rows |
| **run_world, CLI** `world_cli.py` | `storyline.json`, attempt manifests, `run_manifest.json` | run, pause, status, story | files published after the lock is released; an exhausted budget must end as a failed run |
| **Dynamic Render server** `extensions/dynamic-render` | timeline, selected event, played renders, active dispatch, renderer and host sockets | `beginNext`, `markPlaying`, `complete`, `replaceTimeline`, message and connection handlers, reload | pages that replace each other, late messages, asynchronous reloads |
| **PersonAct agent** `agent/personact` | `PersonaState`: revision, cursor, last decision and outcome, plan queue | prepare, perceive, retrieve, plan, what an outcome does to the state | prepared from one World, committed with another; a budget that cuts what must be heard |
| **Memory** `agent/memory` | the stream of memories of a character, one row each | append, novelty, retrieve, touch | remembered twice, or counted and not stored |
| **Model gateway, strategy** `model_gateway.py`, `agent/personact/model_strategy.py` | none between calls | a judgement with bounded repair of its answer and bounded transport attempts | repairs and attempts within another bound |
| **Provider budget** `model_budget.py` | slots used, refused or not | take a slot, refuse and pause the World | calls that no result accounts for |
| **Project database, bootstrap** `sqlite.py`, `migration.py`, `bootstrap.py` | the database file and the first rows | open, build and publish a new file, create or load a World | two creators at once, a stop anywhere |

How they interact: `run_world` loads the World and builds a `WorldRunner` and a
`CharacterStep`. The runner takes the lock, resumes the row and loops: it
selects a character on the rows (`_select`), charges a dispatch in the same
transaction and calls `run_dispatch`, which reads a snapshot (row, view,
private state), lets the agent decide through the gateway, and in one
transaction checks the fences, validates the decision, writes entries, requests,
objects, nodes, private state and memories, and advances the row. Any other
process may write the same row with `pause_world`, and `resume` once the lock is
free. The story view and the CLI read the committed rows. The Dynamic Render
server shares nothing with the runtime but files.

Correctness, part by part: topologies always load and their line keys name one
company; the World row behaves as if decisions were made one after the other;
every run ends; nobody starves; requests are answerable or cancelled; a
character that waits has read all it can see; a decision is committed once, as
a whole, and whoever asks for it gets the same answer; a character is shown
everything it can see once and remembers what it had to hear; each line is one
chain of entries; the story builds and never changes in the past; all processes
work on one complete database; calls of the provider add up; what is published
is of the run that it names; the renderer shows and counts exactly what was
played. Section 3 lists the properties that state this.

## 2. Modules

```
SessionBlocks <--implements-- EventSession <--INSTANCE, implements-- WorldRuntime <--EXTENDS-- StoryLine
                                                                         |
SerialWorld   <--implements-- DispatchControl      Scheduler <--implements--+

PersonAct <--EXTENDS-- CharacterStep

Processes <--EXTENDS-- ProjectDatabase, ModelCalls <--EXTENDS-- Publication

DynamicRender
```

| Module | Models | Its state and actions in the code |
|---|---|---|
| `SessionBlocks` | what a partition of characters promises | `blocks`; join and leave move one character |
| `EventSession` | `UnionPart`, `plan_join`, `plan_leave`, `apply_session_transition` | `root`, `topo` are columns of `event_sessions`, `version` is `worlds.current_version`; `Merge` and `Split` keep both indices as the code does, `CanMerge` and `CanSplit` are what they check first |
| `SerialWorld` | what run control promises: no locks, owners or processes | one attempt at a time; `Publish` appends a decision made on the present version |
| `DispatchControl` | the `worlds` row, the run lock, `WorldRunner`, `CharacterStep`, the pause in `run_world` | one variable per column; `pc[r]` is the place in the runner's code between transactions, `token[r]` its `CharacterDispatch` and snapshot; each action is one transaction or one step outside of one |
| `Scheduler` | `_select`, turns, waiting, requests, on abstract blocks | `last` holds ranks in place of counts; only their order is ever compared |
| `WorldRuntime` | the whole runtime on its rows: entries with links, recipients and transition parts, requests, nodes, cursors, selection | one action per kind of decision (`Decline`, `Behave`, `Utter`, `Ask`, `Respond`, `Leave`, `Join`), with resume, pause, claim and fail |
| `StoryLine` | `StoryLineBuilder` and the validation of its result | operators over the rows of `WorldRuntime` at a cut: `Rewound` undoes transitions, `Stage` is the view, `ValidStage` and `RewindMatches` are its checks |
| `PersonAct` | `PersonActAgent`, `PersonActLoop` and the memory stream | no state, the write policies are the constant `Observing`: `Attentions`, `NewObservations`, `Writes`, `Touches`, `Planned`, `StateUpdate` are functions of a view and the private state |
| `CharacterStep` | `CharacterStep`, the view, replay, the fences and the writes of World, object, requests, persona and memory | `view[c]` is what a caller has read and `call[c]` what it was asked to do; each action is one transaction; `Commit` composes one operator per store |
| `Processes` | the runs that the next three modules share | `pc[r]` is the place in `run_world` |
| `ProjectDatabase` | `open_project_database`, `_publish_new_database`, `_load_or_create_world` | `file`, `temp[r]`, `opened[r]`, and the World in the file; one action per system call or transaction |
| `ModelCalls` | `ModelCognitionStrategy`, `BudgetedModelGateway`, `LangChainModelGateway` | `decision[r]` is where the judgement in hand is, `ledger[r]` what the process has counted |
| `Publication` | `run_world` from the database to the last manifest, with the `story` and `pause` commands | one action per file replaced, and the steps of the two modules above |
| `DynamicRender` | `DynamicTimelineRuntime`, its controller, reloads; pages are external | `rt` is the runtime record; one action per handler, as Node runs one at a time; queues of messages per page |
| `EventSessionProofs`, `DispatchControlProofs`, `SchedulerProofs`, `WorldRuntimeProofs`, `StoryLineProofs`, `CharacterStepProofs`, `PublicationProofs`, `DynamicRenderProofs` | the theorems (section 6) | |
| `MC...` | constants and bounds for TLC | |

A definition that a comment calls *Faulty* is a plausible bug of the definition
below it. No specification uses it; `PROJECT.json` "mutants" pairs each with
the property that finds it.

Decisions that shape the models:

- **A committed outcome is one step in `WorldRuntime`.** `DispatchControl` has
  the read, the call and the commit apart, and its theorem `DecisionsAreSerial`
  says that every published decision was made on the World it was committed
  to. That is what allows the larger module to treat a decision as atomic.
- **The private half is `CharacterStep`.** It has what the two modules above
  leave out: object state, the character's own state and memories, calls without
  a dispatch (`next_decision_id`), and decisions that are asked for again. In
  return, who hears an entry is a free choice there, and so is whom a runner
  selects. Any thread may take the World over at any time, which is more than
  the run lock permits: what holds there needs no lock.
- **What a model answers is a free choice**, and so is whether it answers. Only
  decisions that the view offers are validated at all; the others end as
  rejected or failed dispatches.
- In `CharacterStep` the decision is chosen in the step that commits it: nobody
  sees it before, and it rests on what was read.
- Session, agent and request ids are integers. The code compares ids for
  equality and takes the least of a set. An entry is known by its World version.
- A candidate of a view is known by its source (an entry, a place, an object in
  a state), because that is what its novelty key is made from.
- The limit of consecutive dialogue turns is the literal 50 in
  `world/view_builder.py:440` and the constant `TurnLimit` here.

## 3. Runs

Times are for two workers. Deadlock is not checked: a World whose quota is used up,
a bound that is reached and a closed runner are the ends of these systems.

| Run | Checks | Instance |
|---|---|---|
| `session_topology` | `TopologyInv`, `PlansAccepted`, `LineFollowsCompany`, `StaysColocated`, `ImplementsBlocks` | five characters at two places, every initial partition, four commits; 20 thousand states, 25 s |
| `dispatch_control` | `RowSound`, `HolderOwnsRun`, `OneChargePerCall`, `ImplementsSerial`, `RunEnds` | two runners, two to four resumes of one decision each, all faults, fairness; 30 s |
| `turn_taking` | `OneChance`, `NobodyStarves`, `RequestChainsEnd` | three characters, one of which may fail for ever; every utterance, request and move, for ever; 12 s |
| `world_rows` | `DispatchesServable`, `WaitersHaveRead`, `LinesAreSound`, `ImplementsParts` | three characters, up to four dispatches in two runs of two; 131 thousand states, 30 s |
| `story` | `StoryBuilds`, `OnePathPerCharacter`, `HistoryIsFixed` | four characters, every initial partition, four dispatches; 3 min |
| `character_step` | `OneAnswer`, `CommitsAreWhole`, `FenceSuffices`, `NothingSkipped`, `RequestsAreHeard` | two threads, two characters of which one may be alone with what it does and one records observations, a switch, attention for one observation, three decisions, one resume or pause |
| `publication` | `CanonicalIsAttested`, `StoryShowsItsRun`, `CallsAccounted`, `ExhaustedRunsFail`, `DatabaseIsWhole` | two runs and the story and pause commands, from an absent, an old or a current database; two provider calls of two attempts, decisions of one or two judgements; 2 million states, 90 s |
| `render_queue` | `TimelineKeepsHistory`, `StageIsCurrent`, `PlayedWasShown`, `SelectedEventPlays` | two pages, a selection, an edit that appends and rewrites or removes, fairness; 70 s |
| `interrupt_leaves_running`, `broken_recipient_blocks`, `branches_do_not_continue`, `stale_reload_wins` | one property each, **violated** | section 5 |

The first invariant of each module is `TypeOK`.

What the properties say, in short:

- `TopologyInv` is what a load validates; `PlansAccepted` that `merge` and
  `split` accept what the planners build and leave their indices in agreement;
  `LineFollowsCompany` that a line key changes exactly with the company.
- `RowSound` is the CHECKs of the `worlds` table and what a paused World looks
  like; `HolderOwnsRun` that the lock gives the row; `OneChargePerCall` that no
  two calls share a charge; `ImplementsSerial` that all of it is one serial
  sequence of decisions. `RunEnds`: a started run ends, and `ReturnsPaused` holds:
  the World is paused when `run` returns, and a runner that fails with the lock
  in its hands leaves no World running as its own unless its pause fails too.
- `DispatchesServable`: whatever is claimed can be read. `WaitersHaveRead`: who
  waits has nothing unread. `LinesAreSound`: entries form one chain per line, a
  line has one audience, and the two sides of a pending request can hear each
  other. `ImplementsParts`: the rows implement the topology and the scheduler, so
  that the liveness of `turn_taking` is about the rows.
- `OneAnswer`: one outcome per identifier, for everyone who ever asks.
  `CommitsAreWhole`: World, object, persona and memories agree after every
  decision. `FenceSuffices`: while the fence of the row holds no other write can
  be refused. `NothingSkipped`: each character is shown each entry it can see up
  to its cursor, and remembers none twice. `RequestsAreHeard`: what was put
  first is remembered, whatever the attention budget, by a character whose write
  policy records observations; without `MemoryWritePolicy.OBSERVATION`, which is
  the manifest's default, nothing attended is written (`Observing`).
- `DatabaseIsWhole`: one complete database for all who opened one.
  `CallsAccounted`: slots, results and silent failures add up.
  `ExhaustedRunsFail`: a refused call never ends as a completed run.
  `CanonicalIsAttested`, `StoryShowsItsRun`: the published files agree with an
  attempt that was completed.
- `TimelineKeepsHistory`: a reload never changes what was played.
  `StageIsCurrent`: what counts as playing is on the page that is connected, and
  the hosts know. `PlayedWasShown`, `SelectedEventPlays`: exactly once, and in
  the end.

**Bounds.** Every bound is a constant that a guard names.
`EventSession`: five characters give a transfer between two lines that both
survive it at one place, and a second place; four commits let a root leave,
come back as a root and lead another company. `DispatchControl`: `MaxEpoch`
bounds pauses and resumes together: two resumes that are paused, up to four
that take over from crashes. So a runner can lose the lock, another one resume,
and the first answer late, which is the longest chase that the fence has to
win. A resume adds to what is left of the limit, so with a quota of one
decision a later run may still make two. One agent is enough where the agent
is only part of the token. `WorldRuntime`: three characters make a line that
goes on when one leaves; four dispatches are a request, its answer and two
moves, or a request that a move cancels and two moves more, and the second
resume comes after a pause or a crash, anywhere among them. What needs a longer
history is left to the theorems, which have no bound. `TurnLimit` 2 is reached;
what it cuts off, `turn_taking` shows. `Scheduler` is not bounded in length:
ranks keep it finite, so its liveness is over infinite behaviours. `StoryLine`: four characters and four transitions make a line with
two children and a root that returns. `CharacterStep`: three decisions are a
request, its answer and one more that starts from both; the two threads
overtake each other at every step; `MaxEpoch` 2 lets the World be paused or
taken over once under a view; the budget of one observation is less than what a
request and the place offer. `Publication`: two runs, since each property
relates one run to what another does between its steps; two calls are used up
inside one decision, by its repair or by its second judgement. `DynamicRender`:
two pages, so that one replaces the other while a render plays and its
messages arrive late; one edit, which appends and rewrites or removes. The
run that is violated has two edits and one page.

## 4. Fairness

- `DispatchControl`: weak fairness of `Step(r)`, the code that a started runner
  executes next. It is sequential code, and the gateway answers or fails. No
  fault, pause or start is fair: nobody has to start a run.
- `Scheduler`: weak fairness of a claim (runs go on as long as somebody is
  runnable, that is, the owner keeps resuming the World) and of the end of each
  attempt, and strong fairness of the commits of a character whose calls do not
  all fail. The commits of the `Broken` characters may happen and need not. The
  budget is abstracted by this.
- `DynamicRender`: weak fairness of `Sync(p)` and `Show(p)` (messages arrive),
  of `Play(p)` (an open page plays what it got) and of `Reload` (reads of the
  timeline end). Nobody has to connect, choose or edit.

## 5. Findings

Each is a run that TLC must find violated, and one line of the repository that
says otherwise; `PROJECT.json` has the quotes.

1. `interrupt_leaves_running`: a Ctrl+C after `resume` has committed and before
   the `try` block around `run` leaves the row running with a dead owner; the
   design says that Ctrl+C fences like a pause. The next resume recovers.
2. `broken_recipient_blocks`: a character whose calls always fail and that was
   asked for a response is selected for ever; charging before the call, which
   the design gives as the reason why this cannot happen, does not help against
   the priority of requests. `turn_taking` shows that nothing else starves:
   `NobodyStarves` holds unless a broken character stays asked.
3. `branches_do_not_continue`: the line that a transition leaves behind starts
   without the PREVIOUS link to the transition that the design describes.
4. `stale_reload_wins`: of two overlapping reloads of a timeline the older one
   may be installed last, and stays.

Two more were met while reading, and no run states them: the manifest of a run
takes its start from the World that was loaded before the run lock was held, and
`storyline.json` and `run_manifest.json` are replaced one after the other, after
the lock is released, so that they can be left of two different runs.
`Publication` has both interleavings; its properties are what survives them.

## 6. Proofs

The theorems hold for any sets of sessions, runners, threads, characters, pages
and runs, any quotas, budgets and bounds, and all faults. They rest on the named
`ASSUME`s of the modules only: session ids are integers of which every nonempty
set has a least one (`SessionAssumption`), a World and the scheduler have
finitely many characters, which are integers where their ids are compared
(`AgentAssumption`: the code orders identifiers, and `scenario.yaml` lists the
characters), the stand-ins for NULL differ from what they stand beside, quotas
and limits are positive and bounds natural numbers, and a plan is a sequence
that lists no action twice (`DraftAssumption`). TLC evaluates each in the runs.

| Theorem | Property | Inductive invariant |
|---|---|---|
| `EventSessionProofs.TypeCorrect`, `TopologyAlwaysLoads` | `TypeOK`, `TopologyInv` | `TypeOK /\ TopologyInv` |
| `PlannersAgree`, `ColocationPreserved`, `LinesFollowCompany`, `RowsAreBlocks` | `PlansAccepted`, `StaysColocated`, `LineFollowsCompany`, `ImplementsBlocks` | the same |
| `DispatchControlProofs.TypeCorrect`, `RowsAccepted`, `LockGivesOwnership`, `ChargesNotShared`, `DecisionsAreSerial`, `RunReturnsPaused` | `TypeOK`, `RowSound`, `HolderOwnsRun`, `OneChargePerCall`, `ImplementsSerial`, and `ReturnsPaused` of `RunEnds` | `Inv`: the row, the lock, the holder, charges, sequence numbers |
| `SchedulerProofs.RequestsGetOneChance` | `OneChance` | `Inv`: everybody has a line, one request, served next |
| `SchedulerProofs.NeverIdleTooEarly`, `DispatchedGoesLast` | no run states them | `Inv /\ Ranked`: distinct ranks, none above the number of those who have one |
| `WorldRuntimeProofs.TypeCorrect`, `AlwaysServable`, `WaitingIsSafe`, `LinesAlwaysSound` | `TypeOK`, `DispatchesServable`, `WaitersHaveRead`, `LinesAreSound` | `WorldInv`: types, old and current lines, requests and their entries, read cursors |
| `WorldRuntimeProofs.TurnsAlways`, `PartsImplemented` | `ImplementsParts` | `WorldInv /\ TurnInv`: one dispatch, one open request, distinct dispatch counts |
| `StoryLineProofs.StoryAlwaysBuilds`, `StoryStaysFixed`, `CharactersAlwaysOnePath` | `StoryBuilds`, `HistoryIsFixed`, `OnePathPerCharacter` | `WorldInv /\ StoryInv`: there is a chronicle of the lines that the entries tell |
| `CharacterStepProofs.OneFenceProtectsAll` | `FenceSuffices` | `IInv`: a view with the row's sequence is the World |
| `CharacterStepProofs.DecisionsAreAnsweredOnce`, `EverythingIsSeenOnce`, `RequestsAreRemembered` | `OneAnswer`, `NothingSkipped`, `RequestsAreHeard` | `Inv`: `IInv`, fresh identifiers, rows and history |
| `CharacterStepProofs.CommitsKeptWhole` | `CommitsAreWhole` | `Inv /\ Whole` |
| `CharacterStepProofs.TypesKept` | `TypeOK` | `Inv /\ Typed` |
| `PublicationProofs.TypesKept`, `CanonicalAttested`, `StoryWhole`, `CallsAddUp`, `RefusedRunsFail`, `DatabaseWhole` | `TypeOK`, `CanonicalIsAttested`, `StoryShowsItsRun`, `CallsAccounted`, `ExhaustedRunsFail`, `DatabaseIsWhole` | `IInv`: types, calls, and what each place of a run implies |
| `DynamicRenderProofs.TypeCorrect`, `HistoryIsKept`, `StageIsTold`, `OnlyPlayedCounts` | `TypeOK`, `TimelineKeepsHistory`, `StageIsCurrent`, `PlayedWasShown` | `RenderInv`: dispatch numbers, queues, what an end of play stands for |

**`EventSessionProofs`.** The planners build new partitions out of the two
indices, and the proof first says what comes out in terms of the rows:
`LeaveRoots` and `JoinRoots` give the root of every session after a leave and a
join, with `RemainingRootStays` for the case where the root is the one who goes.
`JoinStep` and `LeaveStep` restate the two actions as "these sessions form these
companies, with the version of the commit", and from there
`TypeOK /\ TopologyInv` is inductive. `PlannersAgree` is about the two indices of
`UnionPart`: `Indices` says what they are for a topology that loads,
`MergeAgrees` and `SplitAgrees` that each operation passes the checks of the
code and changes both alike. `RowsAreBlocks` maps each commit to one session
that moves between abstract blocks (`BlocksStep`).

**`DispatchControlProofs`.** `HolderOwnsRun` is not inductive: a runner may get
the lock while the World still runs under the owner that died. `Inv` adds
`LockHeld` (where only a crash takes the lock away), `HolderOwns` (the same
statement from the resume on, which rules out a conflict for the holder),
`Charged` (a token's count was really charged, and nothing was published
beyond it) and `SeqCounts`. One lemma per part, one step per action: `TypeStep`,
`RowStep`, `LockStep`, `HolderStep`, `ChargeStep`, `SeqStep`. `DecisionsAreSerial`
proves that `DispatchControl` implements `SerialWorld`: each step maps to a
start, a stop, a charge, an abandoned attempt, a publication or a stutter. It
needs `SeqCounts` and the fence of the commit: what is published is numbered
next and was decided on the version it is appended to.

**`SchedulerProofs`.** `OneChance` is not inductive: a character that spoke while
the request of another waits would leave two requests. `Served` says why nobody
does: who decides while a request waits is its recipient, and each of its
outcomes serves the request before it may create one. `NeverIdleTooEarly` and
`DispatchedGoesLast` are the safety half of `NobodyStarves`: somebody is chosen while
anybody is runnable, and a dispatch sends its character behind all others, who
keep their order (`BumpMovesUp`). `Ranked` is what makes them true: without it a
claim could give a rank that another character has, or leave it in front.

**`CharacterStepProofs`.** The first part says what the decision sequence stands for. Every commit advances it and nothing else writes
what a view shows, so a view with the sequence of the row shows the World's
object, requests, persona and memories, and no other fence can fail. The second part
adds the history. Its `Inv` says of each caller what it holds while its view is
not overtaken (`Fresh`, `Named`, `Stepped`), that committed identifiers name
earlier sequences or dispatches that are over (`IdsUsed`), so that the next
commit cannot repeat one (`FreshId`), that entries and saved outcomes are each
of one committed decision (`Saved`), and that each character has been shown
what it can see up to its cursor (`Seen`). Steps that write nothing are handled
together (`KeptStep`); a commit has one lemma for each part. `Whole` adds that
the entries up to each version have a last one that operates on the object,
which is what `ToldState` chooses. `Typed` adds that a saved identifier has a
saved outcome, and `QueueSound` what `PersonaState` validates of the plan queue:
`PlannedSound` and `OutcomeSound` follow it through a decision.

**`PublicationProofs`.** No property of a published file is inductive alone. What
connects them is where a run is: `Placed` says that only a run in its loop
decides and holds the lock and that a run past its loop was refused no call,
`Written` what the files of a run say of it. `OpenKeeps`, `CallKeeps`,
`AbandonKeeps`, `JudgedKeeps` and `FilesGrow` serve the steps that several actions
share.

**`WorldRuntimeProofs`.** The seven kinds of decision write the rows in three ways:
`Quiet` writes nothing but the dispatch, `Tells` an entry on the actor's line,
`Moved` an entry on its new line for everybody a transition affects. `Outcomes`
says so, and every invariant is proved of the three (`QuietStep`, `ToldStep`,
`MovedStep`) and of the steps of the runner (`ScheduleStep`). None of the four
properties is inductive. `LinesAreSound` needs `CurrentLines`: whoever is on a
line now is who its entries were for, from which the one audience of the next
entry follows; and `OldLines`: a key stamped with the version of a commit is
fresh, so that a transition never continues an old line. What a transition does
to the companies comes from `EventSessionProofs`, instantiated on these rows
(`MoveRows`). `DispatchesServable` rests on that too: a request survives a
transition only if both sides stay together (`Cancel`). `WaitersHaveRead` follows
from `HasRead`, which also speaks of a waiting character that a newer entry has
woken: what it could see up to its threshold, it has read.

`PartsImplemented` proves both refinements. A step of the rows is a join, a leave,
another entry or a stutter of `EventSession` (`TopologyStep`). For `Scheduler` the
mapping reads dispatch counts as ranks, waiting as "not runnable", and as asked
the pair of the open request. It needs `TurnInv`: one dispatch at a time, at most
one open request, which has whatever dispatch is active, and a recipient that is
runnable. Otherwise a second request could wait behind the first, which the
scheduler's single request does not have. Distinct dispatch counts make ranks
change as the abstract claim says (`RanksBump`), and whom `_select` takes on the
rows is always one of the abstract choices (`SelectIsChosen`). So the liveness
that `turn_taking` checks on the scheduler is about the selection that the rows
make.

**`StoryLineProofs`.** The builder works backwards, from the present rows past the
later transitions, and the rows keep no past that an invariant could compare its
result with. So `StoryInv` says that there is one: a `Chronicle` gives every
character's line at every version, ends with the present lines, and agrees with
every entry. A transition tells how two versions differ (`MovesLines`), any other
entry is told on a line of its version to who is on it (`ToldOnLine`), lines only
get newer (`LinesAge`), and a line has the same members for ever
(`CompaniesLast`). Every outcome extends the chronicle by one version
(`TellingGoesOn`, `MovingGoesOn`); that the parts which a transition stores are
those of a merge, a split or a transfer comes from the plans of `EventSession`
(`MoveShape`). TLC has checked the invariant on the instance of `story` with the
builder's own result, `Rewound(1)`, as the chronicle. The rewind is then shown to
be the chronicle (`RewoundIs`): it is a recursive function, of which any value
obeys the same equation at each version, and the last version at which it
differed from the chronicle would contradict that. What the builder makes
follows: `LinesUntilAre` and `LineageIs` say of which versions its lines and edges
are, and the three theorems are read off the chronicle. `StoryStaysFixed` needs
nothing of later steps but that they extend it; `CharactersAlwaysOnePath` counts
the edges by a bijection with all of a character's lines but the first.

**`DynamicRenderProofs`.** `RenderInv` is about the newest dispatch, the only one
that can be active. Its number is known to no page but the present one
(`NewestIsCurrent`), waits last in that page's queue (`NewestComesLast`), is named
by no message that is ahead of its page (`NoMessageAhead`), and an end that is
reported is the end of a script that was played (`EndsAreReal`). Each is needed: a
replaced page may still send markers, and only the first two make them name
older dispatches. `HistoryIsKept` is the part `RuntimeSound`, proved of each
method of the runtime; a reload that would drop a render in use is refused.

**Only model-checked.** Liveness (`RunEnds`, `NobodyStarves`,
`RequestChainsEnd`, `SelectedEventPlays`): the proof system has no rules for
fairness and ENABLED. Everything else that a passing run checks is a theorem.
Induction over data, with an operator as its parameter, is out of the provers' reach:
the recursion of `Rewound` is handled without it, as described above, and the
model takes the active plan out of a queue with `RemoveAt` in place of the
recursive `SelectSeq`; for a queue without repeats the two are the same. No module declares a RECURSIVE
operator.

## 7. Not modelled, and what is left

- **Presentation, data and conversions**: the Dynamic Render client, the
  authoring tools, the projects and artifacts, the compiler and the skills of
  PersonAct. They keep no state that outlives a call. `director`, `broadcast`
  and `render_gateway` are empty packages.
- **The database engine**: transactions are taken as atomic and serializable,
  which SQLite and the single writer per session establish. Migrations run on
  a private empty file and count as one transaction; their data definition is
  not modelled, nor are the triggers and the validation of loaded rows, which
  repeat the rules that the models have. `CharacterStep` and `WorldRuntime` show
  what those rules protect.
- **The model**: what it writes is a free choice, and so is which memories a
  ranking by floating-point scores returns. Prompts, provider set-up, the
  fixture gateway and the smoke command keep no state. Threads that share one
  gateway are not modelled, because `run_world` uses one thread.
- **Facts** of a World are read and never written. **Reflection** has
  counters in the state of PersonAct and nothing triggers it. A replay inside one agent
  object cannot happen either: every step builds a new agent.
- **Files**: the per-attempt story of a failed run and the counts that a
  manifest adds up. The trace is only the place where a write may raise.
- **Dynamic Render**: the WebGAL bundle is external, and how it plays a script is
  modelled from the messages that the server expects of it. The compilation of a
  render, and a restart or `close` of the server, are not modelled.

Hazards that no property covers are listed with the others in `PROJECT.json`: a
page that was replaced may report the new one ready (`server.mjs:109`), which
depends on the bundle that the repository does not hold, and the start count of
a manifest may be of another run (`world_cli.py:283`), which section 5 notes.

What is left to prove: nothing that the provers can state. Every invariant, action
property and refinement that a passing run checks is a theorem; the four liveness
properties are left to TLC, with the safety halves of `RunEnds` and
`NobodyStarves` proved (section 6).
