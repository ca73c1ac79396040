----------------------- MODULE DispatchControlProofs -----------------------
(***************************************************************************)
(* Proofs about DispatchControl for any number of runners and agents, any  *)
(* quotas, any epochs and all faults.  The invariant Inv adds to the       *)
(* properties what makes them inductive: the lock is held in the steps     *)
(* where it cannot be closed in flight, and a token was really charged.    *)
(***************************************************************************)
EXTENDS DispatchControl, TLAPS

\* Where nothing but the death of the process takes the lock away.
LockHeld == \A r \in Runner : pc[r] \in {"locked", "resumed", "returned"} => lock = r

\* The holder of the lock, past its resume, owns the World it finds running.
HolderOwns ==
  \A r \in Runner :
    lock = r /\ pc[r] \in InRun \cup {"resumed"} /\ status = "running" =>
      /\ owner = r
      /\ pc[r] # "conflict"
      /\ activeCount # 0 <=> pc[r] \in InFlight
      /\ pc[r] \in InFlight => CommitFence(r)

\* Dispatch counts: of tokens, and of what was published.
Charged ==
  /\ \A r \in Runner : pc[r] \in InFlight => token[r].count \in 1..count
  /\ \A k \in 1..Len(published) : published[k].number <= count

\* decision_seq counts the published decisions.
SeqCounts == seq = Len(published)

Inv == /\ TypeOK /\ RowConstraints /\ StopBoundary
       /\ LockHeld /\ HolderOwns /\ ReturnsPaused
       /\ Charged /\ OneChargePerCall /\ SeqCounts

USE QuotaAssumption, EpochAssumption, NoneAssumption

-----------------------------------------------------------------------------
(* The parts that only the row decides.                                    *)

LEMMA InitInv == Init => Inv
BY DEF Init, Inv, TypeOK, RowConstraints, StopBoundary, LockHeld, HolderOwns, ReturnsPaused,
       Charged, OneChargePerCall, SeqCounts, StopReason, NoToken, Token, Where, InRun, InFlight, Decision

\* Where a runner goes keeps the types.
LEMMA GotoType ==
  ASSUME NEW r \in Runner, NEW where \in Where,
         pc \in [Runner -> Where], token \in [Runner -> Token], Goto(r, where)
  PROVE  /\ pc' \in [Runner -> Where]
         /\ token' \in [Runner -> Token]
         /\ pc'[r] = where
         /\ \A o \in Runner : o # r => pc'[o] = pc[o] /\ token'[o] = token[o]
         /\ where \in InFlight => token' = token
<1>1. NoToken \in Token
  BY DEF NoToken, Token
<1>. QED  BY <1>1 DEF Goto

LEMMA TypeStep == TypeOK /\ [Next]_vars => TypeOK'
<1> SUFFICES ASSUME TypeOK, [Next]_vars PROVE TypeOK'
  OBVIOUS
<1> USE DEF TypeOK
<1>1. {"closed", "locked", "resumed", "interrupted", "returned", "raised", "pausing",
       "closing", "unpaused", "claimed", "deciding", "failed", "ready", "conflict"} = Where
  BY DEF Where, InRun, InFlight
<1>2. ASSUME NEW r \in Runner, AcquireLock(r)  PROVE TypeOK'
  BY <1>1, <1>2, GotoType DEF AcquireLock, row
<1>3. ASSUME NEW r \in Runner, NEW n \in Quota, Resume(r, n)  PROVE TypeOK'
  BY <1>1, <1>3, GotoType DEF Resume, ResumeRow, ClearActive
<1>4. ASSUME NEW r \in Runner, EnterRun(r)  PROVE TypeOK'
  BY <1>1, <1>4, GotoType DEF EnterRun, row
<1>5. ASSUME NEW r \in Runner, RejectNext(r) \/ FindPaused(r)  PROVE TypeOK'
  BY <1>1, <1>5, GotoType DEF RejectNext, FindPaused, row
<1>6. ASSUME NEW r \in Runner, PauseOnBudget(r) \/ PauseOnIdle(r)  PROVE TypeOK'
  BY <1>1, <1>6, GotoType DEF PauseOnBudget, PauseOnIdle, PauseRow, ClearActive, StopReason
<1>7. ASSUME NEW r \in Runner, NEW a \in Agent, Claim(r, a)  PROVE TypeOK'
  BY <1>1, <1>7 DEF Claim, ClaimRow, Token
<1>8. ASSUME NEW r \in Runner, ReadSnapshot(r) \/ RejectOutcome(r) \/ DecisionFails(r)
      PROVE TypeOK'
  BY <1>1, <1>8, GotoType DEF ReadSnapshot, RejectOutcome, DecisionFails, row
<1>9. ASSUME NEW r \in Runner, NEW applied \in BOOLEAN, CommitOutcome(r, applied)
      PROVE TypeOK'
  <2>1. published' \in Seq(Decision)
    <3>1. token[r] \in Token
      OBVIOUS
    <3>2. [number  |-> token[r].count, agent |-> token[r].agent,
           version |-> token[r].version, after |-> token[r].seq,
           applied |-> applied] \in Decision
      BY <3>1 DEF Token, Decision
    <3>. QED  BY <1>9, <3>2 DEF CommitOutcome
  <2>2. /\ pc' \in [Runner -> Where]
        /\ token' \in [Runner -> Token]
    BY <1>1, <1>9, GotoType DEF CommitOutcome
  <2>. QED  BY <1>9, <2>1, <2>2 DEF CommitOutcome, CommitRow, ClearActive
<1>10. ASSUME NEW r \in Runner, ProviderBudgetExhausted(r)  PROVE TypeOK'
  BY <1>1, <1>10, GotoType DEF ProviderBudgetExhausted, PauseRow, ClearActive, StopReason, row
<1>11. ASSUME NEW r \in Runner, ClearFailed(r)  PROVE TypeOK'
  BY <1>1, <1>11, GotoType DEF ClearFailed, FailRow, ClearActive, row
<1>12. ASSUME NEW r \in Runner, RecheckStatus(r) \/ CheckAfterFailure(r)  PROVE TypeOK'
  BY <1>1, <1>12, GotoType DEF RecheckStatus, CheckAfterFailure, row
<1>13. ASSUME NEW r \in Runner, PauseInterrupted(r) \/ PauseAfterFailure(r)  PROVE TypeOK'
  BY <1>1, <1>13, GotoType DEF PauseInterrupted, PauseAfterFailure, PauseRow, ClearActive, StopReason, row
<1>14. ASSUME NEW r \in Runner, Close(r) \/ Crash(r)  PROVE TypeOK'
  BY <1>1, <1>14, GotoType DEF Close, Crash, Release, row
<1>15. ASSUME NEW r \in Runner,
              AbortResume(r) \/ Interrupt(r) \/ RaiseError(r) \/ GiveUpPause(r)
       PROVE TypeOK'
  BY <1>1, <1>15, GotoType DEF AbortResume, Interrupt, RaiseError, GiveUpPause, row
<1>16. ASSUME NEW r \in Runner, CloseInFlight(r)  PROVE TypeOK'
  BY <1>16 DEF CloseInFlight, Release, row
<1>17. CASE ExternalPause
  BY <1>17 DEF ExternalPause, PauseRow, ClearActive, StopReason
<1>18. CASE UNCHANGED vars
  BY <1>18 DEF vars, row
<1>. QED
  BY <1>2, <1>3, <1>4, <1>5, <1>6, <1>7, <1>8, <1>9, <1>10, <1>11, <1>12, <1>13, <1>14,
     <1>15, <1>16, <1>17, <1>18 DEF Next, Step, Fault, NextDispatch, Decide

-----------------------------------------------------------------------------
(* Each part of the invariant, one step per action that disturbs it.       *)

LEMMA RowStep == Inv /\ TypeOK' /\ [Next]_vars => RowConstraints' /\ StopBoundary'
<1> SUFFICES ASSUME Inv, TypeOK', [Next]_vars PROVE RowConstraints' /\ StopBoundary'
  OBVIOUS
<1> USE DEF Inv, TypeOK, RowConstraints, StopBoundary
<1>1. CASE UNCHANGED row
  BY <1>1 DEF row
<1>2. ASSUME NEW reason \in StopReason,
             PauseRow(reason)
      PROVE  RowConstraints' /\ StopBoundary'
  BY <1>2 DEF PauseRow, ClearActive, StopReason
<1>3. ASSUME NEW r \in Runner, NEW n \in Quota, Resume(r, n)
      PROVE  RowConstraints' /\ StopBoundary'
  BY <1>3 DEF Resume, ResumeRow, ClearActive
<1>4. ASSUME NEW r \in Runner, NEW a \in Agent, Claim(r, a)
      PROVE  RowConstraints' /\ StopBoundary'
  BY <1>4 DEF Claim, ClaimRow, MayDispatch
<1>5. ASSUME NEW r \in Runner, NEW applied \in BOOLEAN, CommitOutcome(r, applied)
      PROVE  RowConstraints' /\ StopBoundary'
  BY <1>5 DEF CommitOutcome, CommitRow, CommitFence, TokenIsActive, ClearActive
<1>6. ASSUME NEW r \in Runner, TokenIsActive(r), FailRow
      PROVE  RowConstraints' /\ StopBoundary'
  BY <1>6 DEF FailRow, TokenIsActive, ClearActive
<1>7. ASSUME NEW r \in Runner, AcquireLock(r) \/ Step(r) \/ Fault(r)
      PROVE  RowConstraints' /\ StopBoundary'
  <2>1. \/ UNCHANGED row
        \/ \E reason \in StopReason :
              PauseRow(reason)
        \/ \E n \in Quota : Resume(r, n)
        \/ \E a \in Agent : Claim(r, a)
        \/ \E applied \in BOOLEAN : CommitOutcome(r, applied)
        \/ TokenIsActive(r) /\ FailRow
    BY <1>7 DEF AcquireLock, Step, Fault, NextDispatch, Decide, EnterRun, RejectNext,
         FindPaused, PauseOnBudget, PauseOnIdle, ReadSnapshot, RejectOutcome, DecisionFails,
         ProviderBudgetExhausted, ClearFailed, RecheckStatus, PauseInterrupted,
         CheckAfterFailure, PauseAfterFailure, Close, AbortResume, Interrupt, RaiseError,
         GiveUpPause, CloseInFlight, Crash, StopReason
  <2>. QED  BY <1>1, <1>2, <1>3, <1>4, <1>5, <1>6, <2>1
<1>8. CASE ExternalPause
  BY <1>2, <1>8 DEF ExternalPause, StopReason
<1>9. CASE UNCHANGED vars
  BY <1>1, <1>9 DEF vars
<1>. QED  BY <1>7, <1>8, <1>9 DEF Next

LEMMA LockStep == Inv /\ TypeOK' /\ [Next]_vars => LockHeld' /\ ReturnsPaused'
<1> SUFFICES ASSUME Inv, TypeOK', [Next]_vars PROVE LockHeld' /\ ReturnsPaused'
  OBVIOUS
<1> USE DEF Inv, TypeOK, LockHeld, ReturnsPaused, InRun, InFlight
<1>1. ASSUME NEW r \in Runner, AcquireLock(r)
      PROVE  LockHeld' /\ ReturnsPaused'
  BY <1>1 DEF AcquireLock, Goto, row
<1>2. ASSUME NEW r \in Runner, NEW n \in Quota, Resume(r, n)
      PROVE  LockHeld' /\ ReturnsPaused'
  BY <1>2 DEF Resume, ResumeRow, ClearActive, Goto
<1>3. ASSUME NEW r \in Runner, AbortResume(r) \/ EnterRun(r)
      PROVE  LockHeld' /\ ReturnsPaused'
  BY <1>3 DEF AbortResume, EnterRun, Goto, row
<1>4. ASSUME NEW r \in Runner, RejectNext(r) \/ FindPaused(r)
      PROVE  LockHeld' /\ ReturnsPaused'
  BY <1>4 DEF RejectNext, FindPaused, Goto, row
<1>5. ASSUME NEW r \in Runner, PauseOnBudget(r) \/ PauseOnIdle(r)
      PROVE  LockHeld' /\ ReturnsPaused'
  BY <1>5 DEF PauseOnBudget, PauseOnIdle, MayDispatch, PauseRow, ClearActive, Goto
<1>6. ASSUME NEW r \in Runner, NEW a \in Agent, Claim(r, a)
      PROVE  LockHeld' /\ ReturnsPaused'
  BY <1>6 DEF Claim, ClaimRow, MayDispatch
<1>7. ASSUME NEW r \in Runner, ReadSnapshot(r)
      PROVE  LockHeld' /\ ReturnsPaused'
  BY <1>7 DEF ReadSnapshot, Goto, row
<1>8. ASSUME NEW r \in Runner, NEW applied \in BOOLEAN, CommitOutcome(r, applied)
      PROVE  LockHeld' /\ ReturnsPaused'
  BY <1>8 DEF CommitOutcome, CommitRow, ClearActive, Goto
<1>9. ASSUME NEW r \in Runner, RejectOutcome(r) \/ DecisionFails(r)
      PROVE  LockHeld' /\ ReturnsPaused'
  BY <1>9 DEF RejectOutcome, DecisionFails, Goto, row
<1>10. ASSUME NEW r \in Runner, ProviderBudgetExhausted(r)
      PROVE  LockHeld' /\ ReturnsPaused'
  BY <1>10 DEF ProviderBudgetExhausted, PauseRow, ClearActive, Goto, row
<1>11. ASSUME NEW r \in Runner, ClearFailed(r)
      PROVE  LockHeld' /\ ReturnsPaused'
  BY <1>11 DEF ClearFailed, FailRow, ClearActive, Goto, row
<1>12. ASSUME NEW r \in Runner, RecheckStatus(r) \/ CheckAfterFailure(r)
      PROVE  LockHeld' /\ ReturnsPaused'
  <2>1. status # "running" => owner # r
    BY DEF StopBoundary
  <2>2. CASE RecheckStatus(r)
    BY <2>2 DEF RecheckStatus, Goto, row
  <2>3. CASE CheckAfterFailure(r)
    BY <2>1, <2>3 DEF CheckAfterFailure, Goto, row
  <2>. QED  BY <1>12, <2>2, <2>3
<1>13. ASSUME NEW r \in Runner, PauseInterrupted(r)
      PROVE  LockHeld' /\ ReturnsPaused'
  BY <1>13 DEF PauseInterrupted, PauseRow, ClearActive, Goto, row
<1>14. ASSUME NEW r \in Runner, PauseAfterFailure(r) \/ GiveUpPause(r)
      PROVE  LockHeld' /\ ReturnsPaused'
  <2>1. status # "running" => owner # r
    BY DEF StopBoundary
  <2>2. CASE PauseAfterFailure(r)
    <3>1. lock' = lock /\ (lock = r => owner' # r)
      BY <2>1, <2>2 DEF PauseAfterFailure, PauseRow, row
    <3>2. status' = status \/ status' = "paused"
      BY <2>2 DEF PauseAfterFailure, PauseRow, row
    <3>3. owner' = owner \/ owner' = None
      BY <2>2 DEF PauseAfterFailure, PauseRow, row
    <3>4. pc' = [pc EXCEPT ![r] = "closing"]
      BY <2>2 DEF PauseAfterFailure, Goto
    <3>. QED  BY <3>1, <3>2, <3>3, <3>4
  <2>3. CASE GiveUpPause(r)
    BY <2>3 DEF GiveUpPause, Goto, row
  <2>. QED  BY <1>14, <2>2, <2>3
<1>15. ASSUME NEW r \in Runner, Interrupt(r) \/ RaiseError(r)
      PROVE  LockHeld' /\ ReturnsPaused'
  BY <1>15 DEF Interrupt, RaiseError, Goto, row
<1>16. ASSUME NEW r \in Runner, Close(r) \/ Crash(r)
      PROVE  LockHeld' /\ ReturnsPaused'
  BY <1>16 DEF Close, Crash, Release, Goto, row
<1>17. ASSUME NEW r \in Runner, CloseInFlight(r)
      PROVE  LockHeld' /\ ReturnsPaused'
  BY <1>17 DEF CloseInFlight, Release, row
<1>18. CASE ExternalPause
  BY <1>18 DEF ExternalPause, PauseRow, ClearActive
<1>19. CASE UNCHANGED vars
  BY <1>19 DEF vars, row
<1>. QED
  BY <1>1, <1>2, <1>3, <1>4, <1>5, <1>6, <1>7, <1>8, <1>9,
     <1>10, <1>11, <1>12, <1>13, <1>14, <1>15, <1>16, <1>17, <1>18, <1>19
  DEF Next, Step, Fault, NextDispatch, Decide

LEMMA HolderStep == Inv /\ TypeOK' /\ [Next]_vars => HolderOwns'
<1> SUFFICES ASSUME Inv, TypeOK', [Next]_vars PROVE HolderOwns'
  OBVIOUS
<1> USE DEF Inv, TypeOK, RowConstraints, LockHeld, HolderOwns, InRun, InFlight, CommitFence, TokenIsActive
<1>1. ASSUME NEW r \in Runner, AcquireLock(r)
      PROVE  HolderOwns'
  BY <1>1 DEF AcquireLock, Goto, row
<1>2. ASSUME NEW r \in Runner, NEW n \in Quota, Resume(r, n)
      PROVE  HolderOwns'
  BY <1>2 DEF Resume, ResumeRow, ClearActive, Goto
<1>3. ASSUME NEW r \in Runner, AbortResume(r) \/ EnterRun(r)
      PROVE  HolderOwns'
  BY <1>3 DEF AbortResume, EnterRun, Goto, row
<1>4. ASSUME NEW r \in Runner, RejectNext(r) \/ FindPaused(r)
      PROVE  HolderOwns'
  BY <1>4 DEF RejectNext, FindPaused, Goto, row
<1>5. ASSUME NEW r \in Runner, PauseOnBudget(r) \/ PauseOnIdle(r)
      PROVE  HolderOwns'
  BY <1>5 DEF PauseOnBudget, PauseOnIdle, MayDispatch, PauseRow, ClearActive, Goto
<1>6. ASSUME NEW r \in Runner, NEW a \in Agent, Claim(r, a)
      PROVE  HolderOwns'
  BY <1>6 DEF Claim, ClaimRow, MayDispatch
<1>7. ASSUME NEW r \in Runner, ReadSnapshot(r)
      PROVE  HolderOwns'
  BY <1>7 DEF ReadSnapshot, Goto, row
<1>8. ASSUME NEW r \in Runner, NEW applied \in BOOLEAN, CommitOutcome(r, applied)
      PROVE  HolderOwns'
  BY <1>8 DEF CommitOutcome, CommitRow, ClearActive, Goto
<1>9. ASSUME NEW r \in Runner, RejectOutcome(r) \/ DecisionFails(r)
      PROVE  HolderOwns'
  BY <1>9 DEF RejectOutcome, DecisionFails, Goto, row
<1>10. ASSUME NEW r \in Runner, ProviderBudgetExhausted(r)
      PROVE  HolderOwns'
  BY <1>10 DEF ProviderBudgetExhausted, PauseRow, ClearActive, Goto, row
<1>11. ASSUME NEW r \in Runner, ClearFailed(r)
      PROVE  HolderOwns'
  BY <1>11 DEF ClearFailed, FailRow, ClearActive, Goto, row
<1>12. ASSUME NEW r \in Runner, RecheckStatus(r) \/ CheckAfterFailure(r)
      PROVE  HolderOwns'
  BY <1>12 DEF RecheckStatus, CheckAfterFailure, Goto, row
<1>13. ASSUME NEW r \in Runner, PauseInterrupted(r)
      PROVE  HolderOwns'
  BY <1>13 DEF PauseInterrupted, PauseRow, ClearActive, Goto, row
<1>14. ASSUME NEW r \in Runner, PauseAfterFailure(r) \/ GiveUpPause(r)
      PROVE  HolderOwns'
  BY <1>14 DEF PauseAfterFailure, GiveUpPause, PauseRow, ClearActive, Goto, row
<1>15. ASSUME NEW r \in Runner, Interrupt(r) \/ RaiseError(r)
      PROVE  HolderOwns'
  BY <1>15 DEF Interrupt, RaiseError, Goto, row
<1>16. ASSUME NEW r \in Runner, Close(r) \/ Crash(r)
      PROVE  HolderOwns'
  BY <1>16 DEF Close, Crash, Release, Goto, row
<1>17. ASSUME NEW r \in Runner, CloseInFlight(r)
      PROVE  HolderOwns'
  BY <1>17 DEF CloseInFlight, Release, row
<1>18. CASE ExternalPause
  BY <1>18 DEF ExternalPause, PauseRow, ClearActive
<1>19. CASE UNCHANGED vars
  BY <1>19 DEF vars, row
<1>. QED
  BY <1>1, <1>2, <1>3, <1>4, <1>5, <1>6, <1>7, <1>8, <1>9,
     <1>10, <1>11, <1>12, <1>13, <1>14, <1>15, <1>16, <1>17, <1>18, <1>19
  DEF Next, Step, Fault, NextDispatch, Decide

LEMMA ChargeStep == Inv /\ TypeOK' /\ [Next]_vars => Charged' /\ OneChargePerCall'
<1> SUFFICES ASSUME Inv, TypeOK', [Next]_vars PROVE Charged' /\ OneChargePerCall'
  OBVIOUS
<1> DEFINE NothingCharged ==
             /\ count' = count /\ published' = published
             /\ \A o \in Runner : pc'[o] \in InFlight =>
                                pc[o] \in InFlight /\ token'[o] = token[o]
<1>1. ASSUME NothingCharged  PROVE Charged' /\ OneChargePerCall'
  BY <1>1 DEF Inv, TypeOK, Charged, OneChargePerCall
<1>2. ASSUME NEW r \in Runner, NEW a \in Agent, Claim(r, a)
      PROVE  Charged' /\ OneChargePerCall'
  <2>1. /\ count' = count + 1 /\ published' = published
        /\ pc'[r] = "claimed" /\ token'[r].count = count + 1
        /\ \A o \in Runner : o # r => pc'[o] = pc[o] /\ token'[o] = token[o]
    BY <1>2 DEF Claim, ClaimRow, Inv, TypeOK
  <2>2. /\ \A o \in Runner : o # r /\ pc'[o] \in InFlight => token'[o].count \in 1..count
        /\ \A k \in 1..Len(published) : published[k].number \in Nat
                                      /\ published[k].number <= count
    <3>1. \A k \in 1..Len(published) : published[k] \in Decision
      BY DEF Inv, TypeOK
    <3>2. \A k \in 1..Len(published) : published[k].number \in Nat
      BY <3>1 DEF Decision
    <3>. QED  BY <2>1, <3>2 DEF Inv, Charged
  <2>3. Charged'
    <3>1. count \in Nat
      BY DEF Inv, TypeOK
    <3>2. ASSUME NEW o \in Runner, pc'[o] \in InFlight  PROVE token'[o].count \in 1..count'
      <4>1. CASE o = r
        BY <2>1, <3>1, <4>1
      <4>2. CASE o # r
        <5>1. token'[o].count \in 1..count
          BY <2>2, <3>2, <4>2
        <5>. QED  BY <2>1, <3>1, <5>1
      <4>. QED  BY <4>1, <4>2
    <3>3. \A k \in 1..Len(published') : published'[k].number <= count'
      BY <2>1, <2>2, <3>1
    <3>. QED  BY <3>2, <3>3 DEF Charged
  <2>4. ASSUME NEW o \in Runner, pc'[o] \in InFlight
        PROVE  /\ token'[o].count <= count'
               /\ \A q \in Runner : pc'[q] \in InFlight /\ token'[q].count = token'[o].count => q = o
               /\ \A k \in 1..Len(published') : published'[k].number # token'[o].count
    <3>0. count \in Nat
      BY DEF Inv, TypeOK
    <3>1. CASE o = r
      <4>1. token'[o].count = count + 1
        BY <2>1, <3>1
      <4>2. \A q \in Runner : q # r /\ pc'[q] \in InFlight => token'[q].count # count + 1
        <5> SUFFICES ASSUME NEW q \in Runner, q # r, pc'[q] \in InFlight
                     PROVE  token'[q].count # count + 1
          OBVIOUS
        <5>1. token'[q].count \in 1..count
          BY <2>2
        <5>. QED  BY <3>0, <5>1
      <4>3. \A k \in 1..Len(published) : published[k].number # count + 1
        <5> SUFFICES ASSUME NEW k \in 1..Len(published)
                     PROVE  published[k].number # count + 1
          OBVIOUS
        <5>1. published[k].number \in Nat /\ published[k].number <= count
          BY <2>2
        <5>. QED  BY <3>0, <5>1
      <4>4. token'[o].count <= count'
        BY <2>1, <3>0, <4>1
      <4>. QED  BY <2>1, <3>1, <4>1, <4>2, <4>3, <4>4
    <3>2. CASE o # r
      <4>1. pc[o] \in InFlight /\ token'[o].count = token[o].count
        BY <2>1, <2>4, <3>2
      <4>2. /\ \A q \in Runner : pc[q] \in InFlight /\ token[q].count = token[o].count => q = o
            /\ \A k \in 1..Len(published) : published[k].number # token[o].count
        BY <4>1 DEF Inv, OneChargePerCall
      <4>3. token[o].count \in 1..count
        BY <4>1 DEF Inv, Charged
      <4>4. ASSUME NEW q \in Runner, pc'[q] \in InFlight, token'[q].count = token'[o].count
            PROVE  q = o
        <5>1. q # r
          BY <2>1, <4>1, <4>3, <4>4 DEF Inv, TypeOK
        <5>. QED  BY <2>1, <4>1, <4>2, <4>4, <5>1
      <4>. QED  BY <2>1, <4>1, <4>2, <4>3, <4>4 DEF Inv, TypeOK
    <3>. QED  BY <3>1, <3>2
  <2>. QED  BY <2>3, <2>4 DEF OneChargePerCall
<1>3. ASSUME NEW r \in Runner, NEW applied \in BOOLEAN, CommitOutcome(r, applied)
      PROVE  Charged' /\ OneChargePerCall'
  <2>1. /\ pc[r] \in InFlight /\ pc'[r] \notin InFlight /\ count' = count
        /\ \A o \in Runner : o # r => pc'[o] = pc[o] /\ token'[o] = token[o]
    BY <1>3 DEF CommitOutcome, CommitRow, Goto, InFlight, Inv, TypeOK
  <2>2. /\ Len(published') = Len(published) + 1
        /\ published'[Len(published) + 1].number = token[r].count
        /\ \A k \in 1..Len(published) : published'[k] = published[k]
    <3>1. published \in Seq(Decision)
      BY DEF Inv, TypeOK
    <3>. QED  BY <1>3, <3>1 DEF CommitOutcome
  <2>3. Charged'
    <3>1. token[r].count <= count
      BY <2>1 DEF Inv, Charged
    <3>2. \A k \in 1..Len(published') : k \in 1..Len(published) \/ k = Len(published) + 1
      BY <2>2 DEF Inv, TypeOK
    <3>. QED  BY <2>1, <2>2, <3>1, <3>2 DEF Inv, Charged
  <2>4. OneChargePerCall'
    <3>1. \A o \in Runner : pc'[o] \in InFlight => o # r /\ token'[o].count # token[r].count
      BY <2>1 DEF Inv, OneChargePerCall
    <3>2. \A k \in 1..Len(published') : k \in 1..Len(published) \/ k = Len(published) + 1
      BY <2>2 DEF Inv, TypeOK
    <3>3. ASSUME NEW o \in Runner, pc'[o] \in InFlight
          PROVE  /\ token'[o].count <= count'
                 /\ \A q \in Runner : pc'[q] \in InFlight /\ token'[q].count = token'[o].count => q = o
                 /\ \A k \in 1..Len(published') : published'[k].number # token'[o].count
      <4>1. o # r /\ pc[o] \in InFlight /\ token'[o] = token[o]
        BY <2>1, <3>3
      <4>2. /\ token[o].count <= count
            /\ \A q \in Runner : pc[q] \in InFlight /\ token[q].count = token[o].count => q = o
            /\ \A k \in 1..Len(published) : published[k].number # token[o].count
        BY <4>1 DEF Inv, OneChargePerCall
      <4>3. \A k \in 1..Len(published') : published'[k].number # token'[o].count
        BY <2>2, <3>1, <3>2, <3>3, <4>1, <4>2
      <4>4. \A q \in Runner : pc'[q] \in InFlight => pc[q] \in InFlight /\ token'[q] = token[q]
        BY <2>1
      <4>. QED  BY <2>1, <4>1, <4>2, <4>3, <4>4
    <3>. QED  BY <3>3 DEF OneChargePerCall
  <2>. QED  BY <2>3, <2>4
<1>4. ASSUME NEW r \in Runner, AcquireLock(r) \/ Fault(r)
      PROVE  NothingCharged
  BY <1>4 DEF AcquireLock, Fault, AbortResume, Interrupt, RaiseError, GiveUpPause,
              CloseInFlight, Crash, Goto, row, InFlight, Inv, TypeOK
<1>5. ASSUME NEW r \in Runner, NEW n \in Quota, Resume(r, n)
      PROVE  NothingCharged
  BY <1>5 DEF Resume, ResumeRow, Goto, InFlight, Inv, TypeOK
<1>6. ASSUME NEW r \in Runner,
             EnterRun(r) \/ RejectNext(r) \/ FindPaused(r) \/ PauseOnBudget(r) \/ PauseOnIdle(r)
      PROVE  NothingCharged
  BY <1>6 DEF EnterRun, RejectNext, FindPaused, PauseOnBudget, PauseOnIdle, PauseRow,
              Goto, row, InFlight, Inv, TypeOK
<1>7. ASSUME NEW r \in Runner,
             ReadSnapshot(r) \/ RejectOutcome(r) \/ DecisionFails(r) \/ ProviderBudgetExhausted(r)
      PROVE  NothingCharged
  BY <1>7 DEF ReadSnapshot, RejectOutcome, DecisionFails, ProviderBudgetExhausted, PauseRow,
              Goto, row, InFlight, Inv, TypeOK
<1>8. ASSUME NEW r \in Runner, ClearFailed(r) \/ RecheckStatus(r) \/ PauseInterrupted(r)
      PROVE  NothingCharged
  BY <1>8 DEF ClearFailed, FailRow, RecheckStatus, PauseInterrupted, PauseRow,
              Goto, row, InFlight, Inv, TypeOK
<1>9. ASSUME NEW r \in Runner, CheckAfterFailure(r) \/ PauseAfterFailure(r) \/ Close(r)
      PROVE  NothingCharged
  BY <1>9 DEF CheckAfterFailure, PauseAfterFailure, PauseRow, Close,
              Goto, row, InFlight, Inv, TypeOK
<1>10. CASE ExternalPause \/ UNCHANGED vars
  <2>1. NothingCharged
    BY <1>10 DEF ExternalPause, PauseRow, vars, row
  <2>. QED  BY <1>1, <2>1
<1>. HIDE DEF NothingCharged
<1>. QED
  BY <1>1, <1>2, <1>3, <1>4, <1>5, <1>6, <1>7, <1>8, <1>9, <1>10
  DEF Next, Step, NextDispatch, Decide

LEMMA SeqStep == Inv /\ TypeOK' /\ [Next]_vars => SeqCounts'
<1> SUFFICES ASSUME Inv, TypeOK', [Next]_vars PROVE SeqCounts'
  OBVIOUS
<1>1. ASSUME NEW r \in Runner, NEW applied \in BOOLEAN, CommitOutcome(r, applied)
      PROVE  SeqCounts'
  BY <1>1 DEF CommitOutcome, CommitRow, Inv, TypeOK, SeqCounts
<1>2. ASSUME seq' = seq, published' = published
      PROVE  SeqCounts'
  BY <1>2 DEF Inv, SeqCounts
<1>3. ASSUME NEW r \in Runner, AcquireLock(r) \/ Step(r) \/ Fault(r),
             \A applied \in BOOLEAN : ~CommitOutcome(r, applied)
      PROVE  seq' = seq /\ published' = published
  BY <1>3 DEF AcquireLock, Step, Fault, NextDispatch, Decide, Resume, ResumeRow, EnterRun,
       RejectNext, FindPaused, PauseOnBudget, PauseOnIdle, PauseRow, Claim, ClaimRow,
       ReadSnapshot, RejectOutcome, DecisionFails, ProviderBudgetExhausted, ClearFailed,
       FailRow, RecheckStatus, PauseInterrupted, CheckAfterFailure, PauseAfterFailure, Close,
       AbortResume, Interrupt, RaiseError, GiveUpPause, CloseInFlight, Crash, row
<1>4. CASE ExternalPause \/ UNCHANGED vars
  BY <1>2, <1>4 DEF ExternalPause, PauseRow, vars, row
<1>. QED  BY <1>1, <1>2, <1>3, <1>4 DEF Next

-----------------------------------------------------------------------------

\* The row, the tokens and the history keep their types, no CHECK of the
\* worlds table refuses a transaction, and a paused World is a boundary.
THEOREM InvCorrect == Spec => []Inv
<1>1. Inv /\ [Next]_vars => Inv'
  BY TypeStep, RowStep, LockStep, HolderStep, ChargeStep, SeqStep DEF Inv
<1>. QED  BY <1>1, InitInv, PTL DEF Spec

\* Type correctness.
THEOREM TypeCorrect == Spec => []TypeOK
<1>1. Inv => TypeOK
  BY DEF Inv
<1>. QED  BY <1>1, InvCorrect, PTL

\* Every transaction passes the CHECK constraints of the worlds table, and
\* late outcomes, late clean-ups and second pauses leave a pause as it was.
THEOREM RowsAccepted == Spec => []RowSound
<1>1. Inv => RowSound
  BY DEF Inv, RowSound
<1>. QED  BY <1>1, InvCorrect, PTL

\* The ownership errors of next_dispatch need a lost lock.
THEOREM LockGivesOwnership == Spec => []HolderOwnsRun
<1>1. Inv => HolderOwnsRun
  BY DEF Inv, HolderOwns, HolderOwnsRun
<1>. QED  BY <1>1, InvCorrect, PTL

\* No dispatch count is used for two model calls.
THEOREM ChargesNotShared == Spec => []OneChargePerCall
<1>1. Inv => OneChargePerCall
  BY DEF Inv
<1>. QED  BY <1>1, InvCorrect, PTL

\* ReturnsPaused, the safety half of RunEnds: a run that returns leaves the World
\* paused, and one that fails and can pause does not leave it running as its own.
THEOREM RunReturnsPaused == Spec => []ReturnsPaused
<1>1. Inv => ReturnsPaused
  BY DEF Inv
<1>. QED  BY <1>1, InvCorrect, PTL

-----------------------------------------------------------------------------
(* The refinement.                                                         *)

LEMMA SerialInit == Init => Serial!Init
BY DEF Init, Serial!Init

LEMMA SerialStep == Inv /\ Inv' /\ [Next]_vars => [Serial!Next]_(Serial!serialVars)
<1> SUFFICES ASSUME Inv, Inv', [Next]_vars PROVE Serial!Next \/ UNCHANGED Serial!serialVars
  OBVIOUS
<1> USE DEF Serial!serialVars
<1>1. ASSUME UNCHANGED row, published' = published
      PROVE  UNCHANGED Serial!serialVars
  BY <1>1 DEF row
<1>2. ASSUME NEW reason \in StopReason, PauseRow(reason), published' = published
      PROVE  Serial!Stop
  BY <1>2 DEF PauseRow, ClearActive, Serial!Stop
<1>3. ASSUME NEW r \in Runner, NEW n \in Quota, Resume(r, n)
      PROVE  Serial!Start
  BY <1>3 DEF Resume, ResumeRow, ClearActive, Serial!Start, Inv, TypeOK
<1>4. ASSUME NEW r \in Runner, NEW a \in Agent, Claim(r, a)
      PROVE  Serial!Charge(a)
  BY <1>4 DEF Claim, ClaimRow, MayDispatch, Serial!Charge, Inv, TypeOK
<1>5. ASSUME NEW r \in Runner, TokenIsActive(r), pc[r] \in InFlight, FailRow,
             published' = published
      PROVE  Serial!Abandon
  <2>1. activeCount # 0
    BY <1>5 DEF TokenIsActive, Inv, Charged, TypeOK
  <2>. QED  BY <1>5, <2>1 DEF FailRow, ClearActive, TokenIsActive, Serial!Abandon
<1>6. ASSUME NEW r \in Runner, NEW applied \in BOOLEAN, CommitOutcome(r, applied)
      PROVE  Serial!Publish(applied)
  <2>1. activeCount # 0 /\ activeCount = token[r].count /\ activeAgent = token[r].agent
    BY <1>6 DEF CommitOutcome, CommitFence, TokenIsActive, Inv, Charged, TypeOK, InFlight
  <2>2. token[r].version = version /\ token[r].seq = Len(published)
    BY <1>6 DEF CommitOutcome, CommitFence, Inv, SeqCounts
  <2>. QED
    BY <1>6, <2>1, <2>2 DEF CommitOutcome, CommitFence, TokenIsActive, CommitRow, ClearActive,
                            Serial!Publish
<1>7. ASSUME NEW r \in Runner, AcquireLock(r) \/ Step(r) \/ Fault(r)
      PROVE  \/ UNCHANGED row /\ published' = published
             \/ \E reason \in StopReason : PauseRow(reason) /\ published' = published
             \/ \E n \in Quota : Resume(r, n)
             \/ \E a \in Agent : Claim(r, a)
             \/ \E applied \in BOOLEAN : CommitOutcome(r, applied)
             \/ TokenIsActive(r) /\ pc[r] \in InFlight /\ FailRow /\ published' = published
  BY <1>7 DEF AcquireLock, Step, Fault, NextDispatch, Decide, EnterRun, RejectNext,
       FindPaused, PauseOnBudget, PauseOnIdle, ReadSnapshot, RejectOutcome, DecisionFails,
       ProviderBudgetExhausted, ClearFailed, RecheckStatus, PauseInterrupted,
       CheckAfterFailure, PauseAfterFailure, Close, AbortResume, Interrupt, RaiseError,
       GiveUpPause, CloseInFlight, Crash, StopReason, InFlight
<1>8. CASE ExternalPause
  BY <1>2, <1>8 DEF ExternalPause, StopReason, Serial!Next
<1>9. CASE UNCHANGED vars
  BY <1>1, <1>9 DEF vars
<1>. QED
  BY <1>1, <1>2, <1>3, <1>4, <1>5, <1>6, <1>7, <1>8, <1>9 DEF Next, Serial!Next

\* Under every interleaving of runners, pauses, crashes and late model
\* answers the committed decisions are those of a World that makes one
\* decision at a time, each on what the previous ones left.
THEOREM DecisionsAreSerial == Spec => ImplementsSerial
BY SerialInit, SerialStep, InvCorrect, PTL DEF Spec, ImplementsSerial, Serial!Spec
=============================================================================
