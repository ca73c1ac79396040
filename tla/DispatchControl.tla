--------------------------- MODULE DispatchControl ---------------------------
(***************************************************************************)
(* Run control of one World: the worlds row that world/storage.py guards   *)
(* with compare-and-set updates, the POSIX run lock, and the processes     *)
(* that use them: a WorldRunner claims a dispatch, its CharacterStep reads *)
(* a snapshot, calls the model outside every transaction and commits the   *)
(* outcome, while anybody may pause the World, a process may die, and a    *)
(* runner that lost its lock may still have a model call in flight.        *)
(*                                                                         *)
(* Every action that touches the row is one SQLite transaction.  What a    *)
(* decision does to characters, entries and requests is not modelled here: *)
(* an outcome is applied (a new World version) or not, and whether any     *)
(* character is runnable is a free choice.                                 *)
(***************************************************************************)
EXTENDS Naturals, Sequences

CONSTANTS
  Runner,      \* WorldRunner instances, each in a process of its own
  Agent,       \* character agents
  None,        \* SQL NULL
  Quota,       \* the additional_decisions a resume may be given
  MaxEpoch,    \* bound of the model: no resume from this control epoch on
  Faults       \* which faults the environment has

ASSUME QuotaAssumption == Quota \subseteq Nat \ {0}
ASSUME EpochAssumption == MaxEpoch \in Nat

\* WorldStopReason.
StopReason == {"budget_exhausted", "idle", "interrupted", "user_pause"}

ASSUME NoneAssumption == None \notin Runner \cup Agent \cup StopReason

\* "error":     any exception that is not a PersonActError, a locked database
\*              or a failing trace write among them
\* "interrupt": KeyboardInterrupt
\* "close":     the lock is closed while the caller still has a call in flight
\* "crash":     the process dies
\* "pause":     an external pause
ASSUME FaultsAssumption == Faults \subseteq {"error", "interrupt", "close", "crash", "pause"}

VARIABLES
  \* the worlds row; 0 stands for NULL in activeCount and stoppedAt
  status, epoch, version, seq, count, limit, activeCount, activeAgent,
  owner, stopReason, stoppedAt,
  lock,        \* the runner that holds the run lock, or None
  pc,          \* where each runner is
  token,       \* the CharacterDispatch each runner works on
  published    \* history: the decisions committed so far, oldest first

row  == <<status, epoch, version, seq, count, limit, activeCount, activeAgent,
          owner, stopReason, stoppedAt>>
vars == <<row, lock, pc, token, published>>

\* Where a runner holds a dispatch: before the read, in the model call, and
\* after a PersonActError.
InFlight == {"claimed", "deciding", "failed"}

\* What WorldRunner.run does next, in the order of its code.
InRun == InFlight \cup {"ready", "conflict"}

\* The way out: "closing" after what the code does about a running World, and
\* "unpaused" where an error keeps it from doing so.
Where == InRun \cup {"closed", "locked", "resumed", "interrupted", "returned",
                     "raised", "pausing", "closing", "unpaused"}

NoToken == [count |-> 0, agent |-> None, epoch |-> 0, version |-> 0, seq |-> 0]

Goto(r, where) ==
  /\ pc' = [pc EXCEPT ![r] = where]
  /\ token' = IF where \in InFlight THEN token ELSE [token EXCEPT ![r] = NoToken]

-----------------------------------------------------------------------------
(* WorldStore: the transactions on the row.                                *)

ClearActive == activeCount' = 0 /\ activeAgent' = None

\* Faulty: the pause leaves the row's version behind the last commit.
PauseRowStale(reason) ==
  /\ status = "running"
  /\ status' = "paused"
  /\ epoch' = epoch + 1
  /\ ClearActive
  /\ owner' = None
  /\ stopReason' = reason
  /\ stoppedAt' = seq + 1
  /\ UNCHANGED <<version, seq, count, limit>>

PauseRow(reason) ==
  /\ status = "running"
  /\ status' = "paused"
  /\ epoch' = epoch + 1
  /\ ClearActive
  /\ owner' = None
  /\ stopReason' = reason
  /\ stoppedAt' = version
  /\ UNCHANGED <<version, seq, count, limit>>

\* Faulty: a resume takes over without fencing the attempt in flight.
ResumeRowKeepsActive(r, n) ==
  /\ status' = "running"
  /\ epoch' = epoch + 1
  /\ limit' = limit + n
  /\ owner' = r
  /\ stopReason' = None
  /\ stoppedAt' = 0
  /\ UNCHANGED <<version, seq, count, activeCount, activeAgent>>

ResumeRow(r, n) ==
  /\ status' = "running"
  /\ epoch' = epoch + 1
  /\ limit' = limit + n
  /\ ClearActive
  /\ owner' = r
  /\ stopReason' = None
  /\ stoppedAt' = 0
  /\ UNCHANGED <<version, seq, count>>

\* Faulty: a claim reuses the count of an attempt that was not published.
ClaimRowRefunds(a) ==
  /\ count' = seq + 1
  /\ activeCount' = count'
  /\ activeAgent' = a
  /\ UNCHANGED <<status, epoch, version, seq, limit, owner, stopReason, stoppedAt>>

ClaimRow(a) ==
  /\ count' = count + 1
  /\ activeCount' = count'
  /\ activeAgent' = a
  /\ UNCHANGED <<status, epoch, version, seq, limit, owner, stopReason, stoppedAt>>

\* The fences of an active dispatch: status, owner, epoch, count and agent.
TokenIsActive(r) ==
  /\ status = "running"
  /\ owner = r
  /\ epoch = token[r].epoch
  /\ activeCount = token[r].count
  /\ activeAgent = token[r].agent

\* Faulty: optimistic concurrency on the version only.
CommitFenceVersionOnly(r) ==
  /\ version = token[r].version
  /\ seq = token[r].seq

\* compare_and_advance: also nothing was committed since the snapshot.
CommitFence(r) ==
  /\ TokenIsActive(r)
  /\ version = token[r].version
  /\ seq = token[r].seq

CommitRow(applied) ==
  /\ version' = IF applied THEN version + 1 ELSE version
  /\ seq' = seq + 1
  /\ ClearActive
  /\ UNCHANGED <<status, epoch, count, limit, owner, stopReason, stoppedAt>>

FailRow ==
  /\ ClearActive
  /\ UNCHANGED <<status, epoch, version, seq, count, limit, owner, stopReason, stoppedAt>>

-----------------------------------------------------------------------------
(* WorldRunner.resume                                                      *)

Init ==
  /\ status = "paused" /\ epoch = 1 /\ version = 1 /\ seq = 0
  /\ count = 0 /\ limit = 0 /\ activeCount = 0 /\ activeAgent = None
  /\ owner = None /\ stopReason = None /\ stoppedAt = 0
  /\ lock = None
  /\ pc = [r \in Runner |-> "closed"]
  /\ token = [r \in Runner |-> NoToken]
  /\ published = <<>>

\* A non-blocking flock; a second process gets WorldAlreadyRunningError.
AcquireLock(r) ==
  /\ pc[r] = "closed"
  /\ epoch < MaxEpoch
  /\ lock = None
  /\ lock' = r
  /\ Goto(r, "locked")
  /\ UNCHANGED <<row, published>>

Resume(r, n) ==
  /\ pc[r] = "locked"
  /\ ResumeRow(r, n)
  /\ Goto(r, "resumed")
  /\ UNCHANGED <<lock, published>>

\* resume fails or is interrupted, or its caller is before it enters run: the
\* lock is released, and nothing pauses a World that was already resumed.
AbortResume(r) ==
  /\ Faults \cap {"error", "interrupt"} # {}
  /\ pc[r] \in {"locked", "resumed"}
  /\ Goto(r, "unpaused")
  /\ UNCHANGED <<row, lock, published>>

EnterRun(r) ==
  /\ pc[r] = "resumed"
  /\ Goto(r, "ready")
  /\ UNCHANGED <<row, lock, published>>

-----------------------------------------------------------------------------
(* WorldRunner.next_dispatch, one transaction.                             *)

\* A runner with the lock that owns a running World without active dispatch.
MayDispatch(r) ==
  /\ pc[r] = "ready"
  /\ lock = r
  /\ status = "running"
  /\ owner = r
  /\ activeCount = 0

RejectNext(r) ==
  /\ pc[r] = "ready"
  /\ \/ lock # r
     \/ status = "running" /\ (owner # r \/ activeCount # 0)
  /\ Goto(r, "raised")
  /\ UNCHANGED <<row, lock, published>>

FindPaused(r) ==
  /\ pc[r] = "ready"
  /\ lock = r
  /\ status # "running"
  /\ Goto(r, "returned")
  /\ UNCHANGED <<row, lock, published>>

\* Faulty: the exhausted runner polls instead of pausing the World.
KeepWaitingOnBudget(r) ==
  /\ MayDispatch(r)
  /\ count >= limit
  /\ Goto(r, "ready")
  /\ UNCHANGED <<row, lock, published>>

PauseOnBudget(r) ==
  /\ MayDispatch(r)
  /\ count >= limit
  /\ PauseRow("budget_exhausted")
  /\ Goto(r, "returned")
  /\ UNCHANGED <<lock, published>>

\* Faulty: a stop reason that WorldStopReason does not have.
PauseOnIdleUnnamed(r) ==
  /\ MayDispatch(r)
  /\ count < limit
  /\ PauseRow("nobody_runnable")
  /\ Goto(r, "returned")
  /\ UNCHANGED <<lock, published>>

\* Nobody is runnable: a free choice here.
PauseOnIdle(r) ==
  /\ MayDispatch(r)
  /\ count < limit
  /\ PauseRow("idle")
  /\ Goto(r, "returned")
  /\ UNCHANGED <<lock, published>>

Claim(r, a) ==
  /\ MayDispatch(r)
  /\ count < limit
  /\ ClaimRow(a)
  /\ pc' = [pc EXCEPT ![r] = "claimed"]
  /\ token' = [token EXCEPT ![r] = [count |-> count', agent |-> a, epoch |-> epoch,
                                    version |-> version, seq |-> seq]]
  /\ UNCHANGED <<lock, published>>

-----------------------------------------------------------------------------
(* CharacterStep.run_dispatch and WorldRunner.run around it.               *)

\* _read: the snapshot is taken only under the active token.
ReadSnapshot(r) ==
  /\ pc[r] = "claimed"
  /\ Goto(r, IF CommitFence(r) THEN "deciding" ELSE "raised")
  /\ UNCHANGED <<row, lock, published>>

\* The model answered: one transaction for the World, the character and its
\* memory.
CommitOutcome(r, applied) ==
  /\ pc[r] = "deciding"
  /\ CommitFence(r)
  /\ CommitRow(applied)
  /\ published' = Append(published, [number  |-> token[r].count, agent |-> token[r].agent,
                                     version |-> token[r].version, after |-> token[r].seq,
                                     applied |-> applied])
  /\ Goto(r, "ready")
  /\ UNCHANGED lock

RejectOutcome(r) ==
  /\ pc[r] = "deciding"
  /\ ~CommitFence(r)
  /\ Goto(r, "raised")
  /\ UNCHANGED <<row, lock, published>>

\* A PersonActError: the model call failed or its answer was not valid.
DecisionFails(r) ==
  /\ pc[r] = "deciding"
  /\ Goto(r, "failed")
  /\ UNCHANGED <<row, lock, published>>

\* The process-local provider budget ran out inside the model call: its
\* callback pauses whatever run the World is in, then the call fails.
ProviderBudgetExhausted(r) ==
  /\ pc[r] = "deciding"
  /\ IF status = "running" THEN PauseRow("interrupted") ELSE UNCHANGED row
  /\ Goto(r, "failed")
  /\ UNCHANGED <<lock, published>>

ClearFailed(r) ==
  /\ pc[r] = "failed"
  /\ IF TokenIsActive(r)
       THEN FailRow /\ Goto(r, "ready")
       ELSE UNCHANGED row /\ Goto(r, "conflict")
  /\ UNCHANGED <<lock, published>>

\* The conflict is swallowed when a later read finds the World not running.
RecheckStatus(r) ==
  /\ pc[r] = "conflict"
  /\ Goto(r, IF status = "running" THEN "raised" ELSE "ready")
  /\ UNCHANGED <<row, lock, published>>

-----------------------------------------------------------------------------
(* Leaving run: Ctrl+C, exceptions, and the CLI around it.                 *)

Interrupt(r) ==
  /\ "interrupt" \in Faults
  /\ pc[r] \in InRun
  /\ Goto(r, "interrupted")
  /\ UNCHANGED <<row, lock, published>>

\* pause_and_save(INTERRUPTED) by run itself.
PauseInterrupted(r) ==
  /\ pc[r] = "interrupted"
  /\ \/ /\ lock = r /\ status = "running" /\ owner = r
        /\ PauseRow("interrupted")
        /\ Goto(r, "returned")
     \/ /\ lock = r /\ status # "running"
        /\ Goto(r, "returned") /\ UNCHANGED row
     \/ /\ lock # r \/ (status = "running" /\ owner # r)
        /\ Goto(r, "raised") /\ UNCHANGED row
  /\ UNCHANGED <<lock, published>>

\* Any other exception; after the loop, of the final state read or of the
\* provider budget check.
RaiseError(r) ==
  /\ "error" \in Faults
  /\ pc[r] \in InRun \cup {"interrupted", "returned"}
  /\ Goto(r, "raised")
  /\ UNCHANGED <<row, lock, published>>

\* _pause_after_failure, the read.
CheckAfterFailure(r) ==
  /\ pc[r] = "raised"
  /\ Goto(r, IF status = "running" THEN "pausing" ELSE "closing")
  /\ UNCHANGED <<row, lock, published>>

\* _pause_after_failure, the pause; its own failures are swallowed.
PauseAfterFailure(r) ==
  /\ pc[r] = "pausing"
  /\ IF lock = r /\ status = "running" /\ owner = r
       THEN PauseRow("interrupted")
       ELSE UNCHANGED row
  /\ Goto(r, "closing")
  /\ UNCHANGED <<lock, published>>

GiveUpPause(r) ==
  /\ "error" \in Faults
  /\ pc[r] \in {"raised", "pausing"}
  /\ Goto(r, "unpaused")
  /\ UNCHANGED <<row, lock, published>>

Release(r) == lock' = IF lock = r THEN None ELSE lock

Close(r) ==
  /\ pc[r] \in {"returned", "closing", "unpaused"}
  /\ Release(r)
  /\ Goto(r, "closed")
  /\ UNCHANGED <<row, published>>

-----------------------------------------------------------------------------
(* The environment.                                                        *)

CloseInFlight(r) ==
  /\ "close" \in Faults
  /\ pc[r] \in {"ready", "claimed", "deciding"}
  /\ lock = r
  /\ Release(r)
  /\ UNCHANGED <<row, pc, token, published>>

Crash(r) ==
  /\ "crash" \in Faults
  /\ pc[r] # "closed"
  /\ Release(r)
  /\ Goto(r, "closed")
  /\ UNCHANGED <<row, published>>

\* pause_world: no lock and no owner check; a paused World is left alone.
ExternalPause ==
  /\ "pause" \in Faults
  /\ PauseRow("user_pause")
  /\ UNCHANGED <<lock, pc, token, published>>

-----------------------------------------------------------------------------

NextDispatch(r) ==
  \/ RejectNext(r) \/ FindPaused(r) \/ PauseOnBudget(r) \/ PauseOnIdle(r)
  \/ \E a \in Agent : Claim(r, a)

Decide(r) ==
  \/ \E applied \in BOOLEAN : CommitOutcome(r, applied)
  \/ RejectOutcome(r) \/ DecisionFails(r) \/ ProviderBudgetExhausted(r)

\* What the code of an acquired runner does next, faults aside.
Step(r) ==
  \/ \E n \in Quota : Resume(r, n)
  \/ EnterRun(r) \/ NextDispatch(r) \/ ReadSnapshot(r) \/ Decide(r)
  \/ ClearFailed(r) \/ RecheckStatus(r) \/ PauseInterrupted(r)
  \/ CheckAfterFailure(r) \/ PauseAfterFailure(r) \/ Close(r)

Fault(r) ==
  \/ AbortResume(r) \/ Interrupt(r) \/ RaiseError(r) \/ GiveUpPause(r)
  \/ CloseInFlight(r) \/ Crash(r)

Next ==
  \/ \E r \in Runner : AcquireLock(r) \/ Step(r) \/ Fault(r)
  \/ ExternalPause

Spec == Init /\ [][Next]_vars

\* A runner that was started keeps executing: its code is sequential, and
\* the model gateway answers or fails.  Nobody is obliged to start a run.
FairSpec == Spec /\ \A r \in Runner : WF_vars(Step(r))

-----------------------------------------------------------------------------
(* Properties.                                                             *)

Token == [count : Nat, agent : Agent \cup {None}, epoch : Nat, version : Nat, seq : Nat]

Decision == [number : Nat, agent : Agent \cup {None}, version : Nat, after : Nat,
             applied : BOOLEAN]

TypeOK ==
  /\ status \in {"paused", "running"}
  /\ epoch \in Nat /\ version \in Nat /\ seq \in Nat /\ count \in Nat /\ limit \in Nat
  /\ activeCount \in Nat /\ activeAgent \in Agent \cup {None}
  /\ owner \in Runner \cup {None}
  /\ stopReason \in StopReason \cup {None}
  /\ stoppedAt \in Nat
  /\ lock \in Runner \cup {None}
  /\ pc \in [Runner -> Where]
  /\ token \in [Runner -> Token]
  /\ published \in Seq(Decision)

\* No transaction is ever refused by a CHECK of the worlds table, and every
\* saved row can be loaded again (WorldState validates the same relations).
RowConstraints ==
  /\ count <= limit
  /\ activeCount = 0 <=> activeAgent = None
  /\ activeCount # 0 => activeCount <= count /\ status = "running" /\ owner # None
  /\ stoppedAt <= version

\* A paused World rests on a complete boundary: no attempt, no owner, and the
\* stop is at the version of the last committed decision.  A late commit, a
\* late clean-up or a second pause would break it.
StopBoundary ==
  status = "paused" =>
    /\ activeCount = 0 /\ owner = None
    /\ IF stopReason = None THEN epoch = 1 ELSE stoppedAt = version

\* What a save of the worlds row promises to whoever loads it.
RowSound == RowConstraints /\ StopBoundary

\* An attempt belongs to the live run or to nobody: when the holder of the
\* lock is in a running World, the World is its own and the only active
\* attempt is the one in its hands.  So the ownership errors of next_dispatch
\* can only hit a runner that lost its lock.
HolderOwnsRun ==
  \A r \in Runner :
    lock = r /\ pc[r] \in InRun /\ status = "running" =>
      /\ owner = r
      /\ activeCount # 0 <=> pc[r] \in InFlight
      /\ pc[r] \in InFlight => CommitFence(r)

\* Every model call was charged on its own: no two calls in flight and no
\* published decision ever share a dispatch count, across pauses, crashes
\* and take-overs.
OneChargePerCall ==
  \A r \in Runner : pc[r] \in InFlight =>
    /\ token[r].count <= count
    /\ \A o \in Runner : pc[o] \in InFlight /\ token[o].count = token[r].count => o = r
    /\ \A k \in 1..Len(published) : published[k].number # token[r].count

\* When run returns without an exception, the World is paused, whoever paused
\* it.  A runner that failed, still holds the lock and could read and pause the
\* row does not leave the World running as its own.
ReturnsPaused ==
  \A r \in Runner :
    /\ pc[r] = "returned" => status = "paused"
    /\ pc[r] = "closing" /\ lock = r => owner # r

\* The row implements the serial World: each decision is published once, in
\* the run that charged it, on the World its snapshot showed.
Serial == INSTANCE SerialWorld
  WITH running <- status = "running",
       attempt <- IF activeCount = 0 THEN {}
                  ELSE {[number |-> activeCount, agent |-> activeAgent]},
       charged <- count, granted <- limit, history <- published
ImplementsSerial == Serial!Spec

\* Every run ends: whatever faults hit it, a started runner closes, and unless
\* its pause itself fails it leaves the World as ReturnsPaused says.
RunEnds ==
  /\ []ReturnsPaused
  /\ \A r \in Runner : pc[r] = "ready" ~> pc[r] = "closed"

\* M4_dev_log.md: a Ctrl+C in the owner process fences like a pause.  So a
\* runner that Ctrl+C alone can disturb leaves no World running behind it.
InterruptFences == \A r \in Runner : pc[r] = "closed" => owner # r
=============================================================================
