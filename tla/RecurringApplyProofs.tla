------------------------ MODULE RecurringApplyProofs ------------------------
(***************************************************************************)
(* Proofs about the occurrence store, for any attempts, deadlines and any  *)
(* caller, and about the recurring commands that call it: they add no step *)
(* to the orchestrator and none to the store, what is proved of the two    *)
(* holds for them, and a certificate covers what the attempt did.          *)
(***************************************************************************)
EXTENDS RecurringApply, OrchestratorProofs

(* The fence is only safe together with the lease bookkeeping: a row that  *)
(* is not running must hold no token a stale attempt could still match.    *)
StoreInv == StoreTypeOK /\ OneFenceOwner /\ LeaseIffRunning

-----------------------------------------------------------------------------
LEMMA GrantKeepsStoreInv ==
    ASSUME StoreInv, NEW a \in Attempts, fence[a] = 0, GrantFence(a),
           occ.status # "RUNNING"
    PROVE  StoreInv'
<1> USE StoreAssumption DEF StoreInv, StoreTypeOK, GrantFence
<1>1. StoreTypeOK'
  BY DEF OccurrenceStatus
<1>2. OneFenceOwner'
  BY DEF OneFenceOwner, OwnsFence
<1>3. LeaseIffRunning'
  BY DEF LeaseIffRunning
<1> QED
  BY <1>1, <1>2, <1>3

LEMMA TransitionKeepsStoreInv ==
    ASSUME StoreInv, NEW a \in Attempts,
           NEW status \in FinalStatus \cup {"APPROVAL_BLOCKED"},
           NEW request \in Nat, TransitionRunning(a, status, request)
    PROVE  StoreInv'
<1> USE StoreAssumption DEF StoreInv, StoreTypeOK, TransitionRunning, FinalStatus
<1>1. StoreTypeOK'
  BY DEF OccurrenceStatus
<1>2. OneFenceOwner'
  BY DEF OneFenceOwner
<1>3. LeaseIffRunning'
  BY DEF LeaseIffRunning
<1> QED
  BY <1>1, <1>2, <1>3

LEMMA StoreInvStep == StoreInv /\ [StoreNext]_storeVars => StoreInv'
<1> SUFFICES ASSUME StoreInv, [StoreNext]_storeVars
             PROVE  StoreInv'
  OBVIOUS
<1> USE StoreAssumption
<1>1. CASE RegisterOccurrence
  BY <1>1 DEF RegisterOccurrence, StoreInv, StoreTypeOK, OccurrenceStatus,
     OneFenceOwner, OwnsFence, LeaseIffRunning
<1>2. CASE MarkRecoverable
  BY <1>2 DEF MarkRecoverable, StoreInv, StoreTypeOK, OccurrenceStatus,
     OneFenceOwner, OwnsFence, LeaseIffRunning
<1>3. CASE CancelOccurrence
  BY <1>3 DEF CancelOccurrence, StoreInv, StoreTypeOK, OccurrenceStatus,
     OneFenceOwner, OwnsFence, LeaseIffRunning
<1>4. CASE Tick
  BY <1>4 DEF Tick, StoreInv, StoreTypeOK, OccurrenceStatus,
     OneFenceOwner, OwnsFence, LeaseIffRunning
<1>5. ASSUME NEW status \in {"RECOVERABLE", "INDETERMINATE"},
             ReconcileExpired(status)
      PROVE  StoreInv'
  BY <1>5 DEF ReconcileExpired, StoreInv, StoreTypeOK, OccurrenceStatus,
     OneFenceOwner, OwnsFence, LeaseIffRunning
<1>6. ASSUME NEW a \in Attempts, ReserveOccurrence(a)
      PROVE  StoreInv'
  BY <1>6, GrantKeepsStoreInv DEF ReserveOccurrence
<1>7. ASSUME NEW a \in Attempts, NEW g \in 1..occ.generation,
             ResumeApprovalBlocked(a, g)
      PROVE  StoreInv'
  BY <1>7, GrantKeepsStoreInv DEF ResumeApprovalBlocked
<1>8. ASSUME NEW a \in Attempts, RenewFence(a)
      PROVE  StoreInv'
  BY <1>8 DEF RenewFence, FenceValid, StoreInv, StoreTypeOK,
     OneFenceOwner, OwnsFence, LeaseIffRunning
<1>9. ASSUME NEW a \in Attempts, BlockForApproval(a)
      PROVE  StoreInv'
  <2>1. fence[a] \in Nat
    BY DEF StoreInv, StoreTypeOK
  <2> QED
    BY <1>9, <2>1, TransitionKeepsStoreInv DEF BlockForApproval
<1>10. ASSUME NEW a \in Attempts, NEW status \in FinalStatus,
              FinalizeOccurrence(a, status)
       PROVE  StoreInv'
  BY <1>10, TransitionKeepsStoreInv DEF FinalizeOccurrence
<1>11. CASE UNCHANGED storeVars
  BY <1>11 DEF storeVars, StoreInv, StoreTypeOK, OneFenceOwner, OwnsFence,
     LeaseIffRunning
<1> QED
  BY <1>1, <1>2, <1>3, <1>4, <1>5, <1>6, <1>7, <1>8, <1>9, <1>10, <1>11
  DEF StoreNext

LEMMA StoreInvHolds == StoreSpec => []StoreInv
<1>1. StoreInit => StoreInv
  BY StoreAssumption DEF StoreInit, StoreInv, StoreTypeOK, OccurrenceStatus,
     OneFenceOwner, LeaseIffRunning
<1> QED
  BY <1>1, StoreInvStep, PTL DEF StoreSpec

-----------------------------------------------------------------------------
(* The row of an occurrence is always well formed. *)
THEOREM StoreTypeCorrect == StoreSpec => []StoreTypeOK
<1>1. StoreInv => StoreTypeOK
  BY DEF StoreInv
<1> QED
  BY <1>1, StoreInvHolds, PTL

(* At most one attempt owns the fence, the one reserved last: however many *)
(* attempts reserve, block, resume and lose the occurrence.                *)
THEOREM FenceHasOneOwner == StoreSpec => []OneFenceOwner
<1>1. StoreInv => OneFenceOwner
  BY DEF StoreInv
<1> QED
  BY <1>1, StoreInvHolds, PTL

(* A lease and a token exist exactly while the occurrence runs. *)
THEOREM LeasesBelongToRunning == StoreSpec => []LeaseIffRunning
<1>1. StoreInv => LeaseIffRunning
  BY DEF StoreInv
<1> QED
  BY <1>1, StoreInvHolds, PTL

(* A settled, uncertain or cancelled occurrence never changes again. *)
THEOREM TerminalsAreFinal == StoreSpec => TerminalIsFinal
<1>1. StoreInv /\ [StoreNext]_storeVars =>
        [occ.status \in {"SUCCEEDED", "INDETERMINATE", "REVOKED", "CANCELLED"}
            => occ' = occ]_storeVars
  <2> SUFFICES ASSUME StoreNext,
                      occ.status \in {"SUCCEEDED", "INDETERMINATE", "REVOKED",
                                      "CANCELLED"}
               PROVE  occ' = occ
    OBVIOUS
  <2> QED
    BY DEF StoreNext, RegisterOccurrence, MarkRecoverable, CancelOccurrence,
       Tick, ReconcileExpired, LeaseExpired, ReserveOccurrence,
       ResumeApprovalBlocked, RenewFence, FenceValid, OwnsFence,
       BlockForApproval, FinalizeOccurrence, TransitionRunning
<1> QED
  BY <1>1, StoreInvHolds, PTL DEF StoreSpec, TerminalIsFinal, TerminalIsFinalStep

(* A new generation is only handed out from rest, after the previous one   *)
(* was released.                                                           *)
THEOREM GenerationsAdvanceFromRest == StoreSpec => GenerationAdvancesFromRest
<1>1. StoreInv /\ [StoreNext]_storeVars =>
        [occ'.generation # occ.generation =>
            /\ occ'.generation = occ.generation + 1
            /\ occ.token = NoAttempt
            /\ occ.status \in {"BOUND", "RECOVERABLE", "APPROVAL_BLOCKED"}
        ]_storeVars
  <2> SUFFICES ASSUME StoreInv, StoreNext, occ'.generation # occ.generation
               PROVE  /\ occ'.generation = occ.generation + 1
                      /\ occ.token = NoAttempt
                      /\ occ.status \in {"BOUND", "RECOVERABLE",
                                         "APPROVAL_BLOCKED"}
    OBVIOUS
  <2> USE DEF StoreInv, StoreTypeOK
  <2>1. PICK a \in Attempts : \/ ReserveOccurrence(a)
                              \/ \E g \in 1..occ.generation :
                                    ResumeApprovalBlocked(a, g)
    BY DEF StoreNext, RegisterOccurrence, MarkRecoverable, CancelOccurrence,
       Tick, ReconcileExpired, RenewFence, BlockForApproval,
       FinalizeOccurrence, TransitionRunning
  <2> QED
    BY <2>1 DEF ReserveOccurrence, ResumeApprovalBlocked, GrantFence,
       LeaseIffRunning
<1> QED
  BY <1>1, StoreInvHolds, PTL DEF StoreSpec, GenerationAdvancesFromRest, GenerationAdvancesFromRestStep

-----------------------------------------------------------------------------
(* The recurring commands. *)

(* An attempt that has not closed its occurrence has started its run, and  *)
(* reconcile has decided one of two things or nothing.                     *)
OpenStarted ==
    /\ open \in [Runs -> BOOLEAN]
    /\ seen \in {"RECOVERABLE", "INDETERMINATE", NoOutcomes}
    /\ \A r \in Runs : open[r] => pc[r] # "idle"

ApplyInv == TypeInv /\ OpenStarted

LEMMA AbandonSteps ==
    ASSUME ApplyInv, NEW r \in Runs, open[r], Abandon(r),
           UNCHANGED <<ledgerVars, effect>>
    PROVE  [Next]_vars
<1>0. RunTypes
  BY TypeInvParts DEF ApplyInv
<1>1. CASE UNCHANGED runVars
  BY <1>1 DEF runVars, vars, ledgerVars
<1>2. CASE Move(r, "crashed") /\ pc[r] = "crashed"
  BY <1>0, <1>2 DEF Move, RunTypes, vars, ledgerVars
<1>3. CASE Move(r, "crashed") /\ Live(r)
  BY <1>3 DEF Crash, Next
<1>4. pc[r] = "done" \/ pc[r] = "crashed" \/ Live(r)
  BY DEF ApplyInv, OpenStarted, Live
<1> QED
  BY <1>1, <1>2, <1>3, <1>4 DEF Abandon

(* Every step of the composition is a step of the orchestrator. *)
LEMMA ApplyStepsRun == ApplyInv /\ [ApplyNext]_allVars => [Next]_vars
<1> SUFFICES ASSUME ApplyInv, [ApplyNext]_allVars
             PROVE  [Next]_vars
  OBVIOUS
<1>1. CASE UNCHANGED vars
  BY <1>1
<1>2. CASE Operate \/ Revoke \/ ReconcileReads \/ ReconcileUpdates
  BY <1>2 DEF Operate, Revoke, ReconcileReads, ReconcileUpdates
<1>3. ASSUME NEW r \in Runs,
             ReserveAttempt(r) \/ ResumeAttempt(r) \/ GuardedPass(r)
               \/ GuardedRefusal(r) \/ RunStep(r)
      PROVE  [Next]_vars
  <2>1. Step(r)
    BY <1>3 DEF ReserveAttempt, ResumeAttempt, BeginAttempt, GuardedPass,
       GuardedRefusal, RunStep, Step, Execute
  <2> QED
    BY <2>1 DEF Next
<1>4. ASSUME NEW r \in Runs, Heartbeat(r) \/ ObserveBlocked(r) \/ ObserveFinal(r)
      PROVE  [Next]_vars
  BY <1>4 DEF Heartbeat, ObserveBlocked, ObserveFinal
<1>5. ASSUME NEW r \in Runs, Escape(r) \/ Die(r)
      PROVE  [Next]_vars
  BY <1>5, AbandonSteps DEF Escape, Die
<1> QED
  BY <1>1, <1>2, <1>3, <1>4, <1>5 DEF ApplyNext, allVars

(* Every step of the composition is a step of the store. *)
LEMMA ApplyStepsStore == ApplyInv /\ [ApplyNext]_allVars => [StoreNext]_storeVars
<1> SUFFICES ASSUME ApplyInv, [ApplyNext]_allVars
             PROVE  [StoreNext]_storeVars
  OBVIOUS
<1> USE ApplyAssumption
<1>1. CASE UNCHANGED storeVars
  BY <1>1
<1>2. CASE Operate
  BY <1>2 DEF Operate, StoreNext
<1>3. CASE ReconcileUpdates
  BY <1>3 DEF ReconcileUpdates, StoreNext, ApplyInv, OpenStarted
<1>4. CASE Revoke \/ ReconcileReads
  BY <1>4 DEF Revoke, ReconcileReads
<1>5. ASSUME NEW r \in Runs, ReserveAttempt(r) \/ ResumeAttempt(r)
      PROVE  [StoreNext]_storeVars
  BY <1>5 DEF ReserveAttempt, ResumeAttempt, StoreNext
<1>6. ASSUME NEW r \in Runs, GuardedPass(r) \/ GuardedRefusal(r) \/ RunStep(r) \/ Die(r)
      PROVE  [StoreNext]_storeVars
  BY <1>6 DEF GuardedPass, GuardedRefusal, RunStep, Die
<1>7. ASSUME NEW r \in Runs, Heartbeat(r) \/ ObserveBlocked(r)
      PROVE  [StoreNext]_storeVars
  BY <1>7 DEF Heartbeat, ObserveBlocked, StoreNext
<1>8. ASSUME NEW r \in Runs, ObserveFinal(r)
      PROVE  [StoreNext]_storeVars
  <2>1. ObservedStatus(r) \in FinalStatus
    BY DEF ObservedStatus, FinalStatus
  <2> QED
    BY <1>8, <2>1 DEF ObserveFinal, StoreNext
<1>9. ASSUME NEW r \in Runs, Escape(r)
      PROVE  [StoreNext]_storeVars
  <2>1. EscapeStatuses(r) \subseteq FinalStatus
    BY DEF EscapeStatuses, FinalStatus
  <2> QED
    BY <1>9, <2>1 DEF Escape, StoreNext
<1> QED
  BY <1>1, <1>2, <1>3, <1>4, <1>5, <1>6, <1>7, <1>8, <1>9
  DEF ApplyNext, allVars

(* A started run is never idle again. *)
LEMMA StepLeavesIdle ==
    ASSUME TypeInv, [Next]_vars, NEW r \in Runs, pc[r] # "idle"
    PROVE  pc'[r] # "idle"
<1>0. RunTypes
  BY TypeInvParts
<1>1. CASE UNCHANGED vars
  BY <1>1 DEF vars
<1>2. ASSUME NEW s \in Runs, Step(s) \/ Crash(s)
      PROVE  pc'[r] # "idle"
  <2>1. CASE Start(s) \/ Finish(s) \/ Crash(s)
    BY <1>0, <2>1 DEF Start, Finish, Crash, Move, RunTypes
  <2>2. CASE Gate(s)
    BY <1>0, <2>2 DEF Gate, SkipRemaining, RefuseCapability,
       AwaitCoherenceReview, SkipForDependency, RefuseByPolicy, PlanOnly,
       SelectionFails, ReadOrGenerate, ReportAndContinue, ReportAndCompensate,
       RunTypes
  <2>3. CASE Claim(s)
    BY <1>0, <2>3 DEF Claim, ClaimGranted, ClaimRefused, ClaimFindsOutcome,
       ReuseCompleted, ReuseUnconfirmed, ReconcileConfirmed,
       ResolveIndeterminate, ReportAndContinue, ReportAndCompensate, Move,
       RunTypes
  <2>4. CASE Execute(s)
    BY <1>0, <2>4 DEF Execute, GuardPasses, GuardRefuses, DispatchReturns,
       DispatchCertifiesNothing, DispatchRaises, TrackEffect, TrackFails,
       VerifyConfirms, VerifyFails, Complete, CompleteFails, Settle,
       SettleFails, ReportAndContinue, ReportAndCompensate, Move, Raise,
       RunTypes
  <2>5. CASE Rollback(s)
    BY <1>0, <2>5 DEF Rollback, CompensationFails, Compensate,
       ClearCompensated, ClearFails, EndRollback, Move, RunTypes
  <2> QED
    BY <1>2, <2>1, <2>2, <2>3, <2>4, <2>5 DEF Step
<1> QED
  BY <1>1, <1>2 DEF Next

LEMMA ApplyInvStep == ApplyInv /\ [ApplyNext]_allVars => ApplyInv'
<1> SUFFICES ASSUME ApplyInv, [ApplyNext]_allVars
             PROVE  ApplyInv'
  OBVIOUS
<1>0. RunTypes
  BY TypeInvParts DEF ApplyInv
<1>1. [Next]_vars
  BY ApplyStepsRun
<1>2. TypeInv'
  BY <1>1, NextTypes DEF ApplyInv
<1>3. \A r \in Runs : pc[r] # "idle" => pc'[r] # "idle"
  BY <1>1, StepLeavesIdle DEF ApplyInv
<1>4. ASSUME open' = open, seen' = seen \/ seen' = NoOutcomes
      PROVE  OpenStarted'
  BY <1>3, <1>4 DEF ApplyInv, OpenStarted
<1>5. ASSUME ReconcileReads
      PROVE  OpenStarted'
  BY <1>3, <1>5 DEF ReconcileReads, ReconcileVerdict, ApplyInv, OpenStarted
<1>6. ASSUME NEW r \in Runs, BeginAttempt(r)
      PROVE  OpenStarted'
  <2>1. pc'[r] = "loop" /\ open' = [open EXCEPT ![r] = TRUE] /\ seen' = seen
    BY <1>0, <1>6 DEF BeginAttempt, Start, RunTypes
  <2> QED
    BY <1>3, <2>1 DEF ApplyInv, OpenStarted
<1>7. ASSUME NEW r \in Runs, CloseAttempt(r)
      PROVE  OpenStarted'
  BY <1>3, <1>7 DEF CloseAttempt, ApplyInv, OpenStarted
<1>8. ASSUME NEW r \in Runs, Heartbeat(r) \/ GuardedPass(r)
               \/ GuardedRefusal(r) \/ RunStep(r)
      PROVE  OpenStarted'
  <2>1. open' = open /\ seen' = seen
    BY <1>8 DEF Heartbeat, GuardedPass, GuardedRefusal, RunStep, applyVars
  <2> QED
    BY <1>4, <2>1
<1>9. ASSUME Operate \/ Revoke \/ ReconcileUpdates
      PROVE  OpenStarted'
  <2>1. open' = open /\ (seen' = seen \/ seen' = NoOutcomes)
    BY <1>9 DEF Operate, Revoke, ReconcileUpdates, applyVars
  <2> QED
    BY <1>4, <2>1
<1>10. OpenStarted'
  BY <1>4, <1>5, <1>6, <1>7, <1>8, <1>9
  DEF ApplyNext, allVars, applyVars, ReserveAttempt, ResumeAttempt,
      ObserveBlocked, ObserveFinal, Escape, Die
<1> QED
  BY <1>2, <1>10 DEF ApplyInv

LEMMA ApplyInvHolds == ApplySpec => []ApplyInv
<1>1. ApplyInit => ApplyInv
  BY InitTypes DEF ApplyInit, ApplyInv, OpenStarted
<1> QED
  BY <1>1, ApplyInvStep, PTL DEF ApplySpec

-----------------------------------------------------------------------------
(* Whatever the recurring commands do, the orchestrator and its ledger see *)
(* nothing but runs that start, step, finish or stop: the guard, the       *)
(* heartbeat, reconcile and cancel add no behaviour to a run.              *)
THEOREM ApplyRefinesOrchestrator == ApplySpec => ImplementsOrchestrator
<1>1. ApplyInit => Init
  BY DEF ApplyInit
<1>2. ApplySpec => Init /\ [][Next]_vars
  BY <1>1, ApplyInvHolds, ApplyStepsRun, PTL DEF ApplySpec
<1> QED
  BY <1>2 DEF ImplementsOrchestrator, Spec

(* The occurrence row is only changed by the operations of the store. *)
THEOREM ApplyRefinesStore == ApplySpec => ImplementsStore
<1>1. ApplyInit => StoreInit
  BY DEF ApplyInit
<1>2. ApplySpec => StoreInit /\ [][StoreNext]_storeVars
  BY <1>1, ApplyInvHolds, ApplyStepsStore, PTL DEF ApplySpec
<1> QED
  BY <1>2 DEF ImplementsStore, StoreSpec

(* Attempts that lose their lease, are reconciled away while they still    *)
(* run, or resume after an approval never duplicate an effect: the ledger, *)
(* not the lease, keeps effects single.                                    *)
THEOREM AttemptsKeepEffectsSingle == ApplySpec => []AtMostOneEffect
  BY ApplyRefinesOrchestrator, EffectsAreSingle, PTL
  DEF ImplementsOrchestrator

(* In the composed system a generation has one owner at any moment. *)
THEOREM AttemptsAreFenced == ApplySpec => []OneFenceOwner
  BY ApplyRefinesStore, FenceHasOneOwner, PTL DEF ImplementsStore

-----------------------------------------------------------------------------
(* effect_started is set before the provider is called and never again     *)
(* reset: an attempt at a provider call, or with an effect, is marked.     *)
GuardMarks ==
    /\ started \in [Runs -> BOOLEAN]
    /\ made \in [Runs -> SUBSET Keys]
    /\ \A r \in Runs : pc[r] = "dispatch" \/ made[r] # {} => started[r]

(* Attempts never preview: a report says what was done. *)
NeverDry ==
    \A r \in Runs :
        mode[r] # "dry" /\ \A k \in Keys : report[r][k] # "PLANNED"

AttemptInv ==
    ApplyInv /\ Inv /\ ReportInv /\ StoreInv /\ GuardMarks /\ NeverDry

LEMMA NoPreviewWritten ==
    ASSUME RunTypes, NeverDry, NEW r \in Runs, NEW j, NEW st, st # "PLANNED",
           report' = [report EXCEPT ![r][j] = st]
    PROVE  \A s \in Runs, k \in Keys : report'[s][k] # "PLANNED"
<1> SUFFICES ASSUME NEW s \in Runs, NEW k \in Keys
             PROVE  report'[s][k] # "PLANNED"
  OBVIOUS
<1>1. report \in [Runs -> [Keys -> ActionStates]] /\ report[s][k] # "PLANNED"
  BY DEF RunTypes, NeverDry
<1>2. report'[s] = IF s = r THEN [report[r] EXCEPT ![j] = st] ELSE report[s]
  BY <1>1
<1>3. report'[s][k] = IF s = r /\ k = j THEN st ELSE report[s][k]
  BY <1>1, <1>2
<1> QED
  BY <1>1, <1>3

(* A step of a run that is not the guard does not enter the provider call, *)
(* makes an effect only inside it and writes no preview.                   *)
LEMMA RunStepFacts ==
    ASSUME Inv, NeverDry, NEW r \in Runs, RunStep(r)
    PROVE  /\ pc'[r] # "dispatch"
           /\ \A s \in Runs \ {r} : pc'[s] = pc[s]
           /\ pc[r] # "dispatch" => \A k \in Keys : ~(effect'[k] > effect[k])
           /\ mode' = mode
           /\ \A s \in Runs, k \in Keys : report'[s][k] # "PLANNED"
<1> DEFINE P == /\ pc'[r] # "dispatch"
                /\ \A s \in Runs \ {r} : pc'[s] = pc[s]
                /\ pc[r] # "dispatch" => \A k \in Keys : ~(effect'[k] > effect[k])
                /\ mode' = mode
                /\ \A s \in Runs, k \in Keys : report'[s][k] # "PLANNED"
<1>0. RunTypes /\ effect \in [Keys -> Nat]
  BY TypeInvParts DEF Inv
<1>1. ASSUME NEW s \in ActionStates \ {"PLANNED"}, effect' = effect,
             \/ ReportAndContinue(r, s)
             \/ ReportAndCompensate(r, s, executed[r])
      PROVE  P
  <2>1. \A q \in Runs, k \in Keys : report'[q][k] # "PLANNED"
    <3>1. report' = [report EXCEPT ![r][Key(r)] = s] /\ s # "PLANNED"
      BY <1>1 DEF ReportAndContinue, ReportAndCompensate
    <3> QED
      BY <1>0, <3>1, NoPreviewWritten
  <2>2. pc'[r] # "dispatch" /\ \A q \in Runs \ {r} : pc'[q] = pc[q]
    BY <1>0, <1>1 DEF ReportAndContinue, ReportAndCompensate, RunTypes
  <2>3. mode' = mode /\ \A k \in Keys : ~(effect'[k] > effect[k])
    BY <1>0, <1>1 DEF ReportAndContinue, ReportAndCompensate
  <2> QED
    BY <2>1, <2>2, <2>3
<1>2. ASSUME NEW to \in Pcs \ {"dispatch"}, effect' = effect, Move(r, to)
      PROVE  P
  BY <1>0, <1>2 DEF Move, RunTypes, NeverDry
<1>3. CASE Gate(r)
  <2>1. ~PlanOnly(r)
    BY DEF PlanOnly, NeverDry
  <2> QED
    BY <1>1, <1>3, <2>1 DEF Gate, SkipRemaining, RefuseCapability,
       AwaitCoherenceReview, SkipForDependency, RefuseByPolicy,
       SelectionFails, ReadOrGenerate, ActionStates
<1>4. CASE Claim(r)
  <2>1. CASE ClaimFindsOutcome(r)
    BY <1>0, <2>1 DEF ClaimFindsOutcome, RunTypes, NeverDry
  <2>2. CASE ClaimGranted(r) \/ ReconcileConfirmed(r)
    BY <1>2, <2>2 DEF ClaimGranted, ReconcileConfirmed, Pcs
  <2>3. CASE ClaimRefused(r) \/ ReuseCompleted(r) \/ ReuseUnconfirmed(r)
               \/ ResolveIndeterminate(r)
    BY <1>1, <2>3 DEF ClaimRefused, ReuseCompleted, ReuseUnconfirmed,
       ResolveIndeterminate, ActionStates
  <2> QED
    BY <1>4, <2>1, <2>2, <2>3 DEF Claim
<1>5. CASE Execute(r) /\ pc[r] # "guard"
  <2>1. CASE DispatchReturns(r) \/ DispatchRaises(r)
    BY <1>0, <2>1 DEF DispatchReturns, DispatchRaises, Raise, RunTypes, NeverDry
  <2>2. CASE DispatchCertifiesNothing(r) \/ TrackFails(r) \/ VerifyFails(r)
               \/ CompleteFails(r)
    BY <1>0, <2>2 DEF DispatchCertifiesNothing, TrackFails, VerifyFails,
       CompleteFails, Raise, RunTypes, NeverDry
  <2>3. CASE TrackEffect(r)
    BY <1>0, <2>3 DEF TrackEffect, RunTypes, NeverDry
  <2>4. CASE VerifyConfirms(r)
    BY <1>2, <2>4 DEF VerifyConfirms, Pcs
  <2>5. CASE Complete(r) \/ SettleFails(r)
    BY <1>1, <2>5 DEF Complete, SettleFails, ActionStates
  <2>6. CASE Settle(r)
    <3>1. SettledReport(r) \in ActionStates \ {"PLANNED"}
      BY DEF SettledReport, ActionStates
    <3> QED
      BY <1>1, <2>6, <3>1 DEF Settle
  <2>7. ~GuardPasses(r) /\ ~GuardRefuses(r)
    BY <1>5 DEF GuardPasses, GuardRefuses
  <2> QED
    BY <1>5, <2>1, <2>2, <2>3, <2>4, <2>5, <2>6, <2>7 DEF Execute
<1>6. CASE Rollback(r)
  <2>1. CASE CompensationFails(r)
    <3>1. LastTracked(r) \in Keys
      BY <1>0, <2>1, UntrackFacts DEF CompensationFails
    <3>2. \A q \in Runs, k \in Keys : report'[q][k] # "PLANNED"
      BY <1>0, <2>1, NoPreviewWritten DEF CompensationFails
    <3>3. \A k \in Keys : ~(effect'[k] > effect[k])
      BY <1>0, <2>1, <3>1 DEF CompensationFails
    <3> QED
      BY <2>1, <3>2, <3>3 DEF CompensationFails
  <2>2. CASE Compensate(r)
    <3>1. LastTracked(r) \in Keys
      BY <1>0, <2>2, UntrackFacts DEF Compensate
    <3> QED
      BY <1>0, <2>2, <3>1 DEF Compensate, Move, RunTypes, NeverDry
  <2>3. CASE ClearCompensated(r) \/ ClearFails(r)
    <3>1. \A q \in Runs, k \in Keys : report'[q][k] # "PLANNED"
      BY <1>0, <2>3, NoPreviewWritten DEF ClearCompensated, ClearFails
    <3>2. /\ pc'[r] # "dispatch" /\ \A q \in Runs \ {r} : pc'[q] = pc[q]
          /\ mode' = mode /\ effect' = effect
      BY <1>0, <2>3 DEF ClearCompensated, ClearFails, RunTypes
    <3> QED
      BY <1>0, <3>1, <3>2
  <2>4. CASE EndRollback(r)
    BY <1>0, <2>4 DEF EndRollback, RunTypes, NeverDry
  <2> QED
    BY <1>6, <2>1, <2>2, <2>3, <2>4 DEF Rollback
<1>7. CASE Finish(r)
  BY <1>2, <1>7 DEF Finish, Pcs
<1> QED
  BY <1>3, <1>4, <1>5, <1>6, <1>7 DEF RunStep

(* The guard marks its attempt on the way to the provider, whatever else   *)
(* happens to the occurrence.                                              *)
LEMMA MarksStep == AttemptInv /\ [ApplyNext]_allVars => GuardMarks'
<1> SUFFICES ASSUME AttemptInv, [ApplyNext]_allVars
             PROVE  GuardMarks'
  OBVIOUS
<1>0. RunTypes /\ GuardMarks
  BY TypeInvParts DEF AttemptInv, Inv
<1>1. ASSUME started' = started, made' = made,
             \A r \in Runs : pc'[r] = pc[r] \/ pc'[r] # "dispatch"
      PROVE  GuardMarks'
  BY <1>0, <1>1 DEF GuardMarks
<1>2. CASE UNCHANGED allVars
  BY <1>1, <1>2 DEF allVars, vars, applyVars
<1>3. CASE Operate \/ Revoke \/ ReconcileReads \/ ReconcileUpdates
  <2>1. started' = started /\ made' = made /\ pc' = pc
    BY <1>3 DEF Operate, Revoke, ReconcileReads, ReconcileUpdates, vars, applyVars
  <2> QED
    BY <1>1, <2>1
<1>4. ASSUME NEW r \in Runs, ReserveAttempt(r) \/ ResumeAttempt(r)
      PROVE  GuardMarks'
  <2>1. started' = started /\ made' = made /\ pc' = [pc EXCEPT ![r] = "loop"]
    BY <1>4 DEF ReserveAttempt, ResumeAttempt, BeginAttempt, Start
  <2> QED
    BY <1>0, <1>1, <2>1 DEF RunTypes
<1>5. ASSUME NEW r \in Runs, Heartbeat(r) \/ ObserveBlocked(r) \/ ObserveFinal(r)
      PROVE  GuardMarks'
  <2>1. started' = started /\ made' = made /\ pc' = pc
    BY <1>5 DEF Heartbeat, ObserveBlocked, ObserveFinal, CloseAttempt, vars
  <2> QED
    BY <1>1, <2>1
<1>6. ASSUME NEW r \in Runs, GuardedPass(r)
      PROVE  GuardMarks'
  <2>1. /\ started' = [started EXCEPT ![r] = TRUE] /\ made' = made
        /\ pc' = [pc EXCEPT ![r] = "dispatch"]
    BY <1>6 DEF GuardedPass, GuardPasses, Move
  <2> QED
    BY <1>0, <2>1 DEF GuardMarks, RunTypes
<1>7. ASSUME NEW r \in Runs, GuardedRefusal(r)
      PROVE  GuardMarks'
  <2>1. started' = started /\ made' = made /\ pc' = [pc EXCEPT ![r] = "settle"]
    BY <1>7 DEF GuardedRefusal, GuardRefuses, Raise, applyVars
  <2> QED
    BY <1>0, <1>1, <2>1 DEF RunTypes
<1>8. ASSUME NEW r \in Runs, RunStep(r)
      PROVE  GuardMarks'
  <2>1. /\ pc'[r] # "dispatch"
        /\ \A s \in Runs \ {r} : pc'[s] = pc[s]
        /\ pc[r] # "dispatch" => \A k \in Keys : ~(effect'[k] > effect[k])
    BY <1>8, RunStepFacts DEF AttemptInv
  <2>2. /\ made' = [made EXCEPT ![r] = @ \cup {k \in Keys : effect'[k] > effect[k]}]
        /\ started' = started
    BY <1>8 DEF RunStep
  <2>3. made'[r] # {} => started[r]
    BY <1>0, <2>1, <2>2 DEF GuardMarks
  <2> QED
    BY <1>0, <2>1, <2>2, <2>3 DEF GuardMarks
<1>9. ASSUME NEW r \in Runs, Escape(r) \/ Die(r)
      PROVE  GuardMarks'
  <2>1. /\ started' = started /\ made' = made
        /\ pc' = pc \/ pc' = [pc EXCEPT ![r] = "crashed"]
    BY <1>9 DEF Escape, Die, CloseAttempt, Abandon, Move, runVars
  <2> QED
    BY <1>0, <1>1, <2>1 DEF RunTypes
<1> QED
  BY <1>2, <1>3, <1>4, <1>5, <1>6, <1>7, <1>8, <1>9 DEF ApplyNext

LEMMA NeverDryStep == AttemptInv /\ [ApplyNext]_allVars => NeverDry'
<1> SUFFICES ASSUME AttemptInv, [ApplyNext]_allVars
             PROVE  NeverDry'
  OBVIOUS
<1>0. RunTypes /\ NeverDry
  BY TypeInvParts DEF AttemptInv, Inv
<1>1. ASSUME mode' = mode, report' = report
      PROVE  NeverDry'
  BY <1>0, <1>1 DEF NeverDry
<1>2. CASE UNCHANGED allVars
  BY <1>1, <1>2 DEF allVars, vars
<1>3. CASE Operate \/ Revoke \/ ReconcileReads \/ ReconcileUpdates
  BY <1>1, <1>3 DEF Operate, Revoke, ReconcileReads, ReconcileUpdates, vars
<1>4. ASSUME NEW r \in Runs, ReserveAttempt(r) \/ ResumeAttempt(r)
      PROVE  NeverDry'
  <2>1. /\ report' = report /\ mode'[r] # "dry"
        /\ \E m \in {"apply", "dry", "coherence"} : mode' = [mode EXCEPT ![r] = m]
    BY <1>4 DEF ReserveAttempt, ResumeAttempt, BeginAttempt, Start
  <2> QED
    BY <1>0, <2>1 DEF NeverDry, RunTypes
<1>5. ASSUME NEW r \in Runs, Heartbeat(r) \/ ObserveBlocked(r) \/ ObserveFinal(r)
      PROVE  NeverDry'
  BY <1>1, <1>5 DEF Heartbeat, ObserveBlocked, ObserveFinal, vars
<1>6. ASSUME NEW r \in Runs, GuardedPass(r) \/ GuardedRefusal(r)
      PROVE  NeverDry'
  BY <1>1, <1>6 DEF GuardedPass, GuardedRefusal, GuardPasses, GuardRefuses,
     Move, Raise
<1>7. ASSUME NEW r \in Runs, RunStep(r)
      PROVE  NeverDry'
  <2>1. mode' = mode /\ \A s \in Runs, k \in Keys : report'[s][k] # "PLANNED"
    BY <1>0, <1>7, RunStepFacts DEF AttemptInv
  <2> QED
    BY <1>0, <2>1 DEF NeverDry
<1>8. ASSUME NEW r \in Runs, Escape(r) \/ Die(r)
      PROVE  NeverDry'
  BY <1>1, <1>8 DEF Escape, Die, Abandon, Move, runVars
<1> QED
  BY <1>2, <1>3, <1>4, <1>5, <1>6, <1>7, <1>8 DEF ApplyNext

LEMMA AttemptInvHolds == ApplySpec => []AttemptInv
<1>1. ApplyInit => AttemptInv
  <2>1. ApplyInit => StoreInv
    BY StoreAssumption DEF ApplyInit, StoreInit, StoreInv, StoreTypeOK,
       OccurrenceStatus, OneFenceOwner, LeaseIffRunning
  <2>2. ApplyInit => GuardMarks /\ NeverDry
    BY DEF ApplyInit, Init, GuardMarks, NeverDry
  <2> QED
    BY <2>1, <2>2, InitTypes, InitOwns, InitReports
    DEF ApplyInit, AttemptInv, ApplyInv, OpenStarted
<1>2. AttemptInv /\ [ApplyNext]_allVars => AttemptInv'
  BY ApplyInvStep, ApplyStepsRun, ApplyStepsStore, NextReports, StoreInvStep,
     MarksStep, NeverDryStep DEF AttemptInv
<1> QED
  BY <1>1, <1>2, PTL DEF ApplySpec

(* Only the exception path and the report of a run without a provider call *)
(* certify FAILED_PRE_EFFECT, and both ask effect_started first: whatever  *)
(* loses leases, dies or is cancelled meanwhile, the certificate is true.  *)
THEOREM CertificatesAreTrue == ApplySpec => CertificateCoversAttempt
<1>1. AttemptInv /\ [ApplyNext]_allVars => CertificateCoversAttemptStep
  <2> SUFFICES ASSUME AttemptInv, [ApplyNext]_allVars, NEW r \in Runs,
                      open[r], ~open'[r], OwnsFence(r),
                      occ'.status = "FAILED_PRE_EFFECT"
               PROVE  made[r] = {}
    BY DEF CertificateCoversAttemptStep
  <2>0. /\ open \in [Runs -> BOOLEAN]
        /\ made[r] # {} => started[r]
        /\ occ.status = "RUNNING"
    BY DEF AttemptInv, ApplyInv, OpenStarted, GuardMarks, OwnsFence
  <2>1. PICK q \in Runs : \/ ObserveBlocked(q) \/ ObserveFinal(q)
                          \/ Escape(q) \/ Die(q)
    <3>1. open' # open
      OBVIOUS
    <3>2. ASSUME NEW q \in Runs, BeginAttempt(q)
          PROVE  FALSE
      BY <2>0, <3>2 DEF BeginAttempt
    <3> QED
      BY <3>1, <3>2 DEF ApplyNext, allVars, applyVars, Operate, Revoke,
         ReconcileReads, ReconcileUpdates, ReserveAttempt, ResumeAttempt,
         Heartbeat, GuardedPass, GuardedRefusal, RunStep
  <2>2. q = r
    <3>1. open' = [open EXCEPT ![q] = FALSE]
      BY <2>1 DEF ObserveBlocked, ObserveFinal, Escape, Die, CloseAttempt
    <3> QED
      BY <2>0, <3>1
  <2>3. ~ObserveBlocked(r) /\ ~Die(r)
    BY <2>0 DEF ObserveBlocked, BlockForApproval, TransitionRunning, Die,
       storeVars, AttemptInv, StoreInv, StoreTypeOK
  <2>4. CASE ObserveFinal(r)
    <3>1. ObservedStatus(r) = "FAILED_PRE_EFFECT"
      BY <2>4 DEF ObserveFinal, FinalizeOccurrence, TransitionRunning
    <3> QED
      BY <2>0, <3>1 DEF ObservedStatus
  <2>5. CASE Escape(r)
    <3>1. "FAILED_PRE_EFFECT" \in EscapeStatuses(r)
      <4>1. ~UNCHANGED storeVars
        BY <2>0 DEF storeVars
      <4>2. PICK s \in EscapeStatuses(r) : FinalizeOccurrence(r, s)
        BY <2>5, <4>1 DEF Escape
      <4>3. occ'.status = s
        BY <4>2 DEF FinalizeOccurrence, TransitionRunning, AttemptInv, StoreInv,
           StoreTypeOK
      <4> QED
        BY <4>2, <4>3
    <3> QED
      BY <2>0, <3>1 DEF EscapeStatuses
  <2> QED
    BY <2>1, <2>2, <2>3, <2>4, <2>5
<1> QED
  BY <1>1, AttemptInvHolds, PTL DEF ApplySpec, CertificateCoversAttempt

(* A success is only recorded from the report of the attempt that owns the *)
(* fence; what the report counts on stands in the ledger, or the attempt   *)
(* that undid it is another one, which has lost the fence.                 *)
THEOREM SuccessesAreRecorded == ApplySpec => SuccessIsRecorded
<1>1. AttemptInv /\ [ApplyNext]_allVars => SuccessIsRecordedStep
  <2> SUFFICES ASSUME AttemptInv, [ApplyNext]_allVars,
                      occ'.status = "SUCCEEDED", occ.status # "SUCCEEDED",
                      NEW k \in EffectKeys
               PROVE  \/ rows[k].status = "completed"
                      \/ \E s \in Runs : ~OwnsFence(s) /\ RolledBack(s, k)
    BY DEF SuccessIsRecordedStep
  <2>0. StoreTypeOK
    BY DEF AttemptInv, StoreInv
  <2>1. PICK r \in Runs : ObserveFinal(r)
    <3>1. ~UNCHANGED storeVars
      BY DEF storeVars
    <3>2. ~Operate
      BY <2>0 DEF Operate, RegisterOccurrence, MarkRecoverable,
         CancelOccurrence, Tick, StoreTypeOK
    <3>3. ~ReconcileUpdates
      BY <2>0, <3>1 DEF ReconcileUpdates, ReconcileExpired, StoreTypeOK,
         AttemptInv, ApplyInv, OpenStarted
    <3>4. ASSUME NEW q \in Runs, ReserveAttempt(q) \/ ResumeAttempt(q)
          PROVE  FALSE
      BY <3>4 DEF ReserveAttempt, ResumeAttempt, ReserveOccurrence,
         ResumeApprovalBlocked, GrantFence
    <3>5. ASSUME NEW q \in Runs, Heartbeat(q)
          PROVE  FALSE
      BY <2>0, <3>1, <3>5 DEF Heartbeat, RenewFence, StoreTypeOK
    <3>6. ASSUME NEW q \in Runs, ObserveBlocked(q)
          PROVE  FALSE
      BY <2>0, <3>6 DEF ObserveBlocked, BlockForApproval, TransitionRunning,
         StoreTypeOK
    <3>7. ASSUME NEW q \in Runs, Escape(q)
          PROVE  FALSE
      <4>1. PICK s \in EscapeStatuses(q) : FinalizeOccurrence(q, s)
        BY <3>1, <3>7 DEF Escape
      <4>2. occ'.status = s
        BY <2>0, <4>1 DEF FinalizeOccurrence, TransitionRunning, StoreTypeOK
      <4> QED
        BY <4>1, <4>2 DEF EscapeStatuses
    <3>8. ~Revoke /\ ~ReconcileReads /\ ~UNCHANGED allVars
      BY <3>1 DEF Revoke, ReconcileReads, allVars
    <3>9. ASSUME NEW q \in Runs,
                 GuardedPass(q) \/ GuardedRefusal(q) \/ RunStep(q) \/ Die(q)
          PROVE  FALSE
      BY <3>1, <3>9 DEF GuardedPass, GuardedRefusal, RunStep, Die
    <3> QED
      BY <3>2, <3>3, <3>4, <3>5, <3>6, <3>7, <3>8, <3>9 DEF ApplyNext
  <2>2. /\ pc[r] = "done" /\ OwnsFence(r)
        /\ ObservedStatus(r) = "SUCCEEDED"
    BY <2>0, <2>1 DEF ObserveFinal, FinalizeOccurrence, TransitionRunning,
       StoreTypeOK
  <2>3. k \in Keys /\ k \in Effectful /\ \E i \in Positions : Plan[i] = k
    BY PlanFacts DEF EffectKeys
  <2>4. report[r][k] \in {"VERIFIED", "REUSED"}
    BY <2>2, <2>3 DEF ObservedStatus, Successful, AttemptInv, NeverDry
  <2>5. CASE report[r][k] = "VERIFIED"
    BY <2>2, <2>3, <2>5 DEF AttemptInv, ReportInv, VerifiedStands, Standing,
       Undone
  <2>6. CASE report[r][k] = "REUSED"
    <3>1. CASE Standing(k)
      BY <3>1 DEF Standing
    <3>2. ASSUME NEW s \in Runs \ {r}, Undone(s, k)
          PROVE  ~OwnsFence(s) /\ RolledBack(s, k)
      BY <2>2, <2>3, <3>2, UndoneIsRolledBack DEF OwnsFence
    <3> QED
      BY <2>3, <2>6, <3>1, <3>2 DEF AttemptInv, ReportInv, ReusedStands
  <2> QED
    BY <2>4, <2>5, <2>6
<1> QED
  BY <1>1, AttemptInvHolds, PTL DEF ApplySpec, SuccessIsRecorded

(* The whole invariant of the orchestrator, and with it every property     *)
(* proved from it, holds for attempts of a recurring occurrence.           *)
THEOREM AttemptsKeepSafety == ApplySpec => []SafetyInv
  BY ApplyRefinesOrchestrator, SafetyHolds, PTL DEF ImplementsOrchestrator

=============================================================================
