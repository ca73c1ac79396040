---------------------------- MODULE Publication ----------------------------
(***************************************************************************)
(* A run from its first look at the disk to its last file: run_world of    *)
(* world_cli.py loads or creates the World (ProjectDatabase), runs it      *)
(* under the run lock (ModelCalls for what a decision asks the provider)   *)
(* and then, without the lock, exports the story to a candidate file,      *)
(* moves it over storyline.json, and writes the manifest of the attempt    *)
(* and run_manifest.json.  Several processes run the same World one after  *)
(* the other, but open and publish as they please, and the story command   *)
(* replaces storyline.json too.  Each file is replaced at once.            *)
(*                                                                         *)
(* Of the World only its version and its status matter here: the dispatch  *)
(* limit is one reason to return, and DispatchControl has the rest.        *)
(***************************************************************************)
EXTENDS ProjectDatabase, ModelCalls

CONSTANT MaxVersion   \* bound of the model: no entry beyond this World version

ASSUME VersionAssumption == MaxVersion \in Nat

VARIABLES
  lock,       \* the run that holds the run lock, or None
  final,      \* the version of each run's final state: final_world_version
  candidate,  \* the version of the story in each run's candidate file, or 0
  story,      \* storyline.json: the version it shows and the run it is of
  reading,    \* the version that a story command has read, or 0
  outcome,    \* the attempt manifests: result and provider_generate_count
  canonical   \* run_manifest.json: the run it is of, or None

disk  == <<file, temp, opened>>
run   == <<lock, final, loaded>>
files == <<story, outcome, canonical>>
vars  == <<databaseVars, callVars, lock, final, candidate, reading, files>>

Manifest(result, calls) == [result |-> result, calls |-> calls]

Release(r) == lock' = IF lock = r THEN None ELSE lock

Init ==
  /\ DatabaseInit
  /\ CallsInit /\ paused = TRUE
  /\ lock = None
  /\ final = [r \in Run |-> 0]
  /\ candidate = [r \in Run |-> 0]
  /\ story = [version |-> 0, by |-> None]
  /\ reading = 0
  /\ outcome = [r \in Run |-> Manifest("none", 0)]
  /\ canonical = None

-----------------------------------------------------------------------------
(* The run.                                                                *)

\* Finding the World, and creating it if it is not there.
Open(r) ==
  /\ OpenWorld(r)
  /\ UNCHANGED <<callVars, lock, final, candidate, reading, files>>

\* A World that a dead run left running is taken over.
Resume(r) ==
  /\ pc[r] = "loaded"
  /\ lock = None
  /\ lock' = r
  /\ paused' = FALSE
  /\ Goto(r, "running")
  /\ UNCHANGED <<disk, version, loaded, decision, ledger, final, candidate, reading, files>>

\* next_dispatch: the claim is charged before the decision begins.
Dispatch(r) ==
  /\ pc[r] = "running"
  /\ ~paused
  /\ Begin(r)
  /\ UNCHANGED <<databaseVars, paused, lock, final, candidate, reading, files>>

\* run_dispatch, up to the decision.
Judge(r) ==
  /\ pc[r] = "running"
  /\ Call(r)
  /\ UNCHANGED <<databaseVars, lock, final, candidate, reading, files>>

\* The outcome: an entry or none, and nothing in a World paused meanwhile.
Commit(r) ==
  /\ decision[r].state = "decided"
  /\ version' \in IF paused THEN {version} ELSE {version, version + 1}
  /\ version' <= MaxVersion
  /\ Abandon(r)
  /\ UNCHANGED <<disk, loaded, pc, paused, lock, final, candidate, reading, files>>

\* PersonActError: the dispatch is cleared and the loop goes on.
FailDispatch(r) ==
  /\ decision[r].state = "failed"
  /\ Abandon(r)
  /\ UNCHANGED <<databaseVars, paused, lock, final, candidate, reading, files>>

\* Faulty: the gateway is not asked whether it refused a call.
ReturnsUnchecked(r) ==
  /\ pc[r] = "running"
  /\ paused' = TRUE
  /\ final' = [final EXCEPT ![r] = version]
  /\ Abandon(r)
  /\ Release(r)
  /\ Goto(r, "ran")
  /\ UNCHANGED <<disk, version, loaded, candidate, reading, files>>

\* run returns between two dispatches, when the World is paused, the limit
\* reached or nobody runnable, or at once on Ctrl+C.  The final state is read,
\* the gateway asked whether it refused a call, and the lock released.
Returns(r) ==
  /\ pc[r] = "running"
  /\ ledger[r].exhausted = "no"
  /\ paused' = TRUE
  /\ final' = [final EXCEPT ![r] = version]
  /\ Abandon(r)
  /\ Release(r)
  /\ Goto(r, "ran")
  /\ UNCHANGED <<disk, version, loaded, candidate, reading, files>>

\* The pause command, or any other process that fences the World.
ExternalPause ==
  /\ ~paused
  /\ paused' = TRUE
  /\ UNCHANGED <<databaseVars, decision, ledger, lock, final, candidate, reading, files>>

-----------------------------------------------------------------------------
(* The publication.                                                        *)

\* Faulty: the story is built at the version that was loaded.
ExportLoaded(r) ==
  /\ pc[r] = "ran"
  /\ candidate' = [candidate EXCEPT ![r] = loaded[r]]
  /\ Goto(r, "exported")
  /\ UNCHANGED <<disk, version, callVars, run, reading, files>>

\* Faulty: the export may also continue the version that is published.
ExportFuture(r) ==
  /\ pc[r] = "ran"
  /\ candidate' = [candidate EXCEPT ![r] = version + 1]
  /\ Goto(r, "exported")
  /\ UNCHANGED <<disk, version, callVars, run, reading, files>>

\* _export_storyline: the whole committed story, in one read transaction.
Export(r) ==
  /\ pc[r] = "ran"
  /\ candidate' = [candidate EXCEPT ![r] = version]
  /\ Goto(r, "exported")
  /\ UNCHANGED <<disk, version, callVars, run, reading, files>>

\* _publish_output: os.replace.
PublishStory(r) ==
  /\ pc[r] = "exported"
  /\ story' = [version |-> candidate[r], by |-> r]
  /\ candidate' = [candidate EXCEPT ![r] = 0]
  /\ Goto(r, "published")
  /\ UNCHANGED <<disk, version, callVars, run, reading, outcome, canonical>>

WriteAttempt(r) ==
  /\ pc[r] = "published"
  /\ outcome' = [outcome EXCEPT ![r] = Manifest("completed", ledger[r].used)]
  /\ Goto(r, "attested")
  /\ UNCHANGED <<disk, version, callVars, run, candidate, reading, story, canonical>>

\* Faulty: the canonical manifest comes first.
WriteCanonicalFirst(r) ==
  /\ pc[r] \in {"published", "attested"}
  /\ canonical' = r
  /\ IF pc[r] = "attested" THEN Goto(r, "done") ELSE UNCHANGED pc
  /\ UNCHANGED <<disk, version, callVars, run, candidate, reading, story, outcome>>

WriteCanonical(r) ==
  /\ pc[r] = "attested"
  /\ canonical' = r
  /\ Forget(r)
  /\ Goto(r, "done")
  /\ UNCHANGED <<file, version, callVars, lock, final, candidate, reading, story, outcome>>

\* Any exception up to the publication of the story, among them a World that
\* is already running and a refused call.  A run that had resumed pauses the
\* World, which may fail too.
Fail(r) ==
  /\ pc[r] \in {"loaded", "running", "ran", "exported"}
  /\ paused' \in IF pc[r] = "running" THEN {paused, TRUE} ELSE {paused}
  /\ Abandon(r)
  /\ Release(r)
  /\ candidate' = [candidate EXCEPT ![r] = 0]
  /\ Goto(r, "failing")
  /\ UNCHANGED <<disk, version, loaded, final, reading, files>>

WriteFailure(r) ==
  /\ pc[r] = "failing"
  /\ outcome' = [outcome EXCEPT ![r] = Manifest("failed", ledger[r].used)]
  /\ Forget(r)
  /\ Goto(r, "done")
  /\ UNCHANGED <<file, version, callVars, lock, final, candidate, reading, story, canonical>>

\* A crash, an error while opening, a Ctrl+C outside run, or a failing write
\* outside the try block.
Stop(r) ==
  /\ pc[r] \notin {"done", "stopped"}
  /\ Forget(r)
  /\ Abandon(r)
  /\ Release(r)
  /\ candidate' = [candidate EXCEPT ![r] = 0]
  /\ Goto(r, "stopped")
  /\ UNCHANGED <<file, version, paused, final, reading, files>>

\* The story command reads the story and replaces storyline.json with it.
ReadStory ==
  /\ reading = 0
  /\ reading' = version
  /\ UNCHANGED <<databaseVars, callVars, lock, final, candidate, files>>

WriteStory ==
  /\ reading # 0
  /\ story' = [version |-> reading, by |-> None]
  /\ reading' = 0
  /\ UNCHANGED <<databaseVars, callVars, lock, final, candidate, outcome, canonical>>

Next ==
  \/ \E r \in Run :
       \/ Open(r) \/ Resume(r) \/ Dispatch(r) \/ Judge(r) \/ Commit(r) \/ FailDispatch(r)
       \/ Returns(r) \/ Export(r) \/ PublishStory(r) \/ WriteAttempt(r) \/ WriteCanonical(r)
       \/ Fail(r) \/ WriteFailure(r) \/ Stop(r)
  \/ ExternalPause \/ ReadStory \/ WriteStory

Spec == Init /\ [][Next]_vars

-----------------------------------------------------------------------------
(* Properties.                                                             *)

Where == {"new", "creating", "building", "linked", "opened", "loaded", "running", "ran",
          "exported", "published", "attested", "failing", "done", "stopped"}

TypeOK ==
  /\ CallsTypeOK
  /\ version \in Nat /\ lock \in Run \cup {None}
  /\ pc \in [Run -> Where]
  /\ loaded \in [Run -> 0..version] /\ final \in [Run -> 0..version]
  /\ candidate \in [Run -> 0..version]
  /\ story \in [version : 0..version, by : Run \cup {None}]
  /\ reading \in 0..version
  /\ outcome \in [Run -> [result : {"none", "completed", "failed"}, calls : Nat]]
  /\ canonical \in Run \cup {None}

\* run_manifest.json always repeats the manifest of a completed attempt that
\* is on disk too, wherever runs are stopped, fail or overtake each other.
CanonicalIsAttested == canonical # None => outcome[canonical].result = "completed"

\* The story that a run publishes shows every decision of that run, whatever
\* other runs commit and publish meanwhile, and a run that failed published none.
StoryShowsItsRun ==
  story.by # None =>
    /\ story.version >= final[story.by] /\ final[story.by] > 0
    /\ outcome[story.by].result # "failed"

\* The provider calls of a run add up: each slot of its budget ends as one
\* result in the trace or as one call that raised, repairs included and
\* transport retries not, and that is the number that the manifest shows.
CallsAccounted ==
  \A r \in Run :
    LET l == ledger[r]
        ended == l.results + l.silent IN
    /\ l.used = ended + (IF decision[r].state = "sent" THEN 1 ELSE 0)
    /\ l.used <= CallLimit
    /\ outcome[r].result # "none" => outcome[r].calls = ended

\* A run whose budget refused a call ends as a failed attempt and publishes
\* neither story nor canonical manifest; and once the refusal has paused the
\* World, the run makes no further dispatch.
ExhaustedRunsFail ==
  \A r \in Run : ledger[r].exhausted # "no" =>
    /\ outcome[r].result # "completed"
    /\ canonical # r /\ story.by # r
    /\ ledger[r].exhausted = "fenced" /\ lock = r => paused
=============================================================================
