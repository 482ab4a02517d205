------------------------- MODULE OrchestratorProofs -------------------------
(***************************************************************************)
(* Proofs about the idempotency ledger, for any sets of keys,              *)
(* fingerprints, tokens and results and any caller, and about the          *)
(* orchestrator that calls it, for any number of runs and any plan: type   *)
(* correctness, then the ownership invariant and what follows from it, and *)
(* what the reports of runs say about the provider.                        *)
(***************************************************************************)
EXTENDS Orchestrator, TLAPS

(* The open part of ReservationIsOpenClaim and its converse for rows that  *)
(* still carry a token: what makes the WHERE clause a fence.               *)
LedgerInv ==
    /\ LedgerTypeOK
    /\ ReservationIsOpenClaim
    /\ \A k \in Keys : rows[k].token \in Tokens =>
          verdict[rows[k].token] # "undrawn"

-----------------------------------------------------------------------------
(* What each operation writes keeps the table well formed. *)
LEMMA LedgerTypeStep == LedgerTypeOK /\ [LedgerNext]_ledgerVars => LedgerTypeOK'
<1> SUFFICES ASSUME LedgerTypeOK, [LedgerNext]_ledgerVars
             PROVE  LedgerTypeOK'
  OBVIOUS
<1> USE DEF LedgerTypeOK, Row, RowStatus, Verdicts
<1>1. CASE CallClaim
  BY <1>1 DEF CallClaim, ClaimAction
<1>2. CASE CallComplete
  BY <1>2 DEF CallComplete, CompleteAction, OwnsClaim
<1>3. CASE CallFinish
  BY <1>3 DEF CallFinish, FinishActionClaim, OwnsClaim
<1>4. CASE CallRelease
  BY <1>4 DEF CallRelease, ReleaseActionClaim, FinishActionClaim, OwnsClaim
<1>5. CASE CallResolve
  BY <1>5 DEF CallResolve, ResolveIndeterminateAction, CanResolve
<1>6. CASE CallClear
  BY <1>6 DEF CallClear, ClearCompleted, NoRow
<1>7. CASE CallSave
  BY <1>7 DEF CallSave, SaveCompleted
<1>8. CASE UNCHANGED ledgerVars
  BY <1>8 DEF ledgerVars
<1> QED
  BY <1>1, <1>2, <1>3, <1>4, <1>5, <1>6, <1>7, <1>8 DEF LedgerNext

(* Every operation keeps the table well formed, whatever its callers do.   *)
THEOREM LedgerTypeCorrect == LedgerSpec => []LedgerTypeOK
<1>1. LedgerInit => LedgerTypeOK
  BY DEF LedgerInit, LedgerTypeOK, NoRow, Row, RowStatus, Verdicts
<1> QED
  BY <1>1, LedgerTypeStep, PTL DEF LedgerSpec

-----------------------------------------------------------------------------
(* LedgerInv is preserved by every operation. *)
LEMMA LedgerInvStep == LedgerInv /\ [LedgerNext]_ledgerVars => LedgerInv'
<1> SUFFICES ASSUME LedgerInv, [LedgerNext]_ledgerVars
             PROVE  LedgerInv'
  OBVIOUS
<1>0. LedgerTypeOK'
  BY LedgerTypeStep DEF LedgerInv
<1> USE LedgerSentinels, <1>0
    DEF LedgerInv, LedgerTypeOK, ReservationIsOpenClaim, Row, RowStatus, Verdicts
<1>1. CASE CallClaim
  BY <1>1 DEF CallClaim, ClaimAction
<1>2. CASE CallComplete
  BY <1>2 DEF CallComplete, CompleteAction, OwnsClaim
<1>3. CASE CallFinish
  BY <1>3 DEF CallFinish, FinishActionClaim, OwnsClaim
<1>4. CASE CallRelease
  BY <1>4 DEF CallRelease, ReleaseActionClaim, FinishActionClaim, OwnsClaim
<1>5. CASE CallResolve
  BY <1>5 DEF CallResolve, ResolveIndeterminateAction, CanResolve
<1>6. CASE CallClear
  BY <1>6 DEF CallClear, ClearCompleted, NoRow
<1>7. CASE CallSave
  BY <1>7 DEF CallSave, SaveCompleted
<1>8. CASE UNCHANGED ledgerVars
  BY <1>8 DEF ledgerVars
<1> QED
  BY <1>1, <1>2, <1>3, <1>4, <1>5, <1>6, <1>7, <1>8 DEF LedgerNext

LEMMA LedgerInvHolds == LedgerSpec => []LedgerInv
<1>1. LedgerInit => LedgerInv
  BY LedgerSentinels DEF LedgerInit, LedgerInv, LedgerTypeOK,
     ReservationIsOpenClaim, NoRow, Row, RowStatus, Verdicts
<1> QED
  BY <1>1, LedgerInvStep, PTL DEF LedgerSpec

(* A reserved row is reserved by an unsettled claim, and one claim never   *)
(* reserves two keys.                                                      *)
THEOREM ReservationsAreOpenClaims == LedgerSpec => []ReservationIsOpenClaim
<1>1. LedgerInv => ReservationIsOpenClaim
  BY DEF LedgerInv
<1> QED
  BY <1>1, LedgerInvHolds, PTL

(* No late or repeated call changes the outcome of a settled attempt. *)
THEOREM VerdictsAreFinal == LedgerSpec => VerdictIsFinal
<1>1. LedgerInv /\ [LedgerNext]_ledgerVars =>
        [\A t \in Tokens : verdict[t] \notin {"undrawn", "open"} =>
            verdict'[t] = verdict[t]]_ledgerVars
  <2> SUFFICES ASSUME LedgerInv, LedgerNext,
                      NEW t \in Tokens, verdict[t] \notin {"undrawn", "open"}
               PROVE  verdict'[t] = verdict[t]
    OBVIOUS
  <2> USE LedgerSentinels DEF LedgerInv, LedgerTypeOK, ReservationIsOpenClaim
  <2>1. CASE CallClaim
    BY <2>1 DEF CallClaim, ClaimAction
  <2>2. CASE CallComplete
    BY <2>2 DEF CallComplete, CompleteAction, OwnsClaim
  <2>3. CASE CallFinish
    BY <2>3 DEF CallFinish, FinishActionClaim, OwnsClaim
  <2>4. CASE CallRelease
    BY <2>4 DEF CallRelease, ReleaseActionClaim, FinishActionClaim, OwnsClaim
  <2>5. CASE CallResolve \/ CallClear \/ CallSave
    BY <2>5 DEF CallResolve, ResolveIndeterminateAction, CallClear,
       ClearCompleted, CallSave, SaveCompleted
  <2> QED
    BY <2>1, <2>2, <2>3, <2>4, <2>5 DEF LedgerNext
<1> QED
  BY <1>1, LedgerInvHolds, PTL DEF LedgerSpec, VerdictIsFinal, VerdictIsFinalStep

(* A completed row stays as it is until it is deleted as a whole. *)
THEOREM CompletionsAreStable == LedgerSpec => CompletionIsStable
<1>1. LedgerTypeOK /\ [LedgerNext]_ledgerVars =>
        [\A k \in Keys : rows[k].status = "completed" =>
            rows'[k] = rows[k] \/ rows'[k] = NoRow]_ledgerVars
  <2> SUFFICES ASSUME LedgerTypeOK, LedgerNext,
                      NEW k \in Keys, rows[k].status = "completed"
               PROVE  rows'[k] = rows[k] \/ rows'[k] = NoRow
    OBVIOUS
  <2> USE DEF LedgerTypeOK
  <2>1. CASE CallClaim
    BY <2>1 DEF CallClaim, ClaimAction, ClaimState
  <2>2. CASE CallComplete
    BY <2>2 DEF CallComplete, CompleteAction, OwnsClaim
  <2>3. CASE CallFinish
    BY <2>3 DEF CallFinish, FinishActionClaim, OwnsClaim
  <2>4. CASE CallRelease
    BY <2>4 DEF CallRelease, ReleaseActionClaim, FinishActionClaim, OwnsClaim
  <2>5. CASE CallResolve
    BY <2>5 DEF CallResolve, ResolveIndeterminateAction, CanResolve
  <2>6. CASE CallClear
    BY <2>6 DEF CallClear, ClearCompleted
  <2>7. CASE CallSave
    BY <2>7 DEF CallSave, SaveCompleted
  <2> QED
    BY <2>1, <2>2, <2>3, <2>4, <2>5, <2>6, <2>7 DEF LedgerNext
<1> QED
  BY <1>1, LedgerTypeCorrect, PTL DEF LedgerSpec, CompletionIsStable, CompletionIsStableStep

-----------------------------------------------------------------------------
(* The orchestrator: types. *)

(* TypeOK is inductive together with ProgramOrder. *)
TypeInv == TypeOK /\ ProgramOrder

(* The part of TypeInv about the local state of the runs. *)
RunTypes ==
    /\ pc \in [Runs -> Pcs]
    /\ mode \in [Runs -> {"apply", "dry", "coherence"}]
    /\ at \in [Runs -> 1..(Len(Plan) + 1)]
    /\ report \in [Runs -> [Keys -> ActionStates]]
    /\ executed \in [Runs -> Seq(Keys)]
    /\ stopped \in [Runs -> BOOLEAN]
    /\ result \in [Runs -> Results \cup {NoResult}]
    /\ cause \in [Runs -> Causes]
    /\ ProgramOrder

LEMMA PlanLength == Len(Plan) \in Nat
  BY PlanAssumption

LEMMA TypeInvParts ==
    /\ TypeInv => LedgerTypeOK /\ effect \in [Keys -> Nat] /\ RunTypes
    /\ LedgerTypeOK /\ effect \in [Keys -> Nat] /\ RunTypes => TypeInv
  BY DEF TypeInv, TypeOK, RunTypes

(* The action in hand is an action of the plan. *)
LEMMA InHandTypes ==
    ASSUME NEW r \in Runs, RunTypes, at[r] <= Len(Plan)
    PROVE  Key(r) \in Keys /\ Fp(r) \in Fingerprints /\ Token(r) \in Tokens
<1>1. at[r] \in 1..Len(Plan)
  BY PlanLength DEF RunTypes
<1>2. Key(r) \in Keys
  BY <1>1, PlanAssumption DEF Key
<1> QED
  BY <1>2, PlanAssumption DEF Fp, Token

-----------------------------------------------------------------------------
(* The four ways a run moves keep its local state well formed. *)
LEMMA ContinueTypes ==
    ASSUME NEW r \in Runs, RunTypes, at[r] <= Len(Plan),
           NEW s \in ActionStates, ReportAndContinue(r, s)
    PROVE  RunTypes'
<1>1. Key(r) \in Keys
  BY InHandTypes
<1>2. at[r] + 1 \in 1..(Len(Plan) + 1)
  BY PlanLength DEF RunTypes
<1> QED
  BY <1>1, <1>2 DEF ReportAndContinue, RunTypes, ProgramOrder, Pcs, Causes

LEMMA CompensateTypes ==
    ASSUME NEW r \in Runs, RunTypes, at[r] <= Len(Plan),
           NEW s \in ActionStates, NEW tracked, ReportAndCompensate(r, s, tracked)
    PROVE  RunTypes'
<1>1. Key(r) \in Keys
  BY InHandTypes
<1>2. at[r] + 1 \in 1..(Len(Plan) + 1)
  BY PlanLength DEF RunTypes
<1> QED
  BY ZenonT(60), <1>1, <1>2 DEF ReportAndCompensate, RunTypes, ProgramOrder, Pcs, Causes

LEMMA RaiseTypes ==
    ASSUME NEW r \in Runs, RunTypes, at[r] <= Len(Plan),
           NEW why \in Causes, NEW res \in Results \cup {NoResult},
           Raise(r, why, res)
    PROVE  RunTypes'
  BY DEF Raise, RunTypes, ProgramOrder, Pcs

LEMMA MoveTypes ==
    ASSUME NEW r \in Runs, RunTypes, NEW to \in Pcs, Move(r, to),
           to \in {"done", "crashed"} \/ at[r] <= Len(Plan),
           to = "clear" => executed[r] # <<>>,
           to \in {"returned", "verify", "complete", "reconcile", "resolve"}
             => result[r] # NoResult
    PROVE  RunTypes'
  BY DEF Move, RunTypes, ProgramOrder

-----------------------------------------------------------------------------
(* Step by step: the local state stays well formed, the ledger takes a     *)
(* step of its own specification or none, effects are counted.             *)
StepTypes == RunTypes' /\ [LedgerNext]_ledgerVars /\ effect' \in [Keys -> Nat]

LEMMA GateTypes ==
    ASSUME NEW r \in Runs, TypeInv, Gate(r)
    PROVE  StepTypes
<1> USE TypeInvParts
<1>1. at[r] <= Len(Plan)
  BY DEF Gate, SkipRemaining, RefuseCapability, AwaitCoherenceReview,
     SkipForDependency, RefuseByPolicy, PlanOnly, SelectionFails,
     ReadOrGenerate, Applying, Eligible, InHand
<1>2. UNCHANGED <<ledgerVars, effect>>
  BY DEF Gate, SkipRemaining, RefuseCapability, AwaitCoherenceReview,
     SkipForDependency, RefuseByPolicy, PlanOnly, SelectionFails, ReadOrGenerate
<1>3. \E s \in ActionStates : \/ ReportAndContinue(r, s)
                              \/ ReportAndCompensate(r, s, executed[r])
  BY DEF Gate, SkipRemaining, RefuseCapability, AwaitCoherenceReview,
     SkipForDependency, RefuseByPolicy, PlanOnly, SelectionFails,
     ReadOrGenerate, ActionStates
<1>4. RunTypes'
  BY <1>1, <1>3, ContinueTypes, CompensateTypes
<1> QED
  BY <1>2, <1>4 DEF StepTypes

LEMMA ClaimTypes ==
    ASSUME NEW r \in Runs, TypeInv, Claim(r)
    PROVE  StepTypes
<1> USE TypeInvParts
<1>1. at[r] <= Len(Plan)
  BY DEF Claim, ClaimGranted, ClaimRefused, ClaimFindsOutcome, ReuseCompleted,
     ReuseUnconfirmed, ReconcileConfirmed, ResolveIndeterminate,
     Applying, Eligible, InHand, RunTypes, ProgramOrder
<1>2. Key(r) \in Keys /\ Fp(r) \in Fingerprints /\ Token(r) \in Tokens
  BY <1>1, InHandTypes
<1>a. {"CONFLICTED", "FAILED", "REUSED"} \subseteq ActionStates
  BY DEF ActionStates
<1>3. CASE ClaimGranted(r)
  <2>1. CallClaim
    BY <1>2, <1>3 DEF ClaimGranted, CallClaim
  <2>2. RunTypes'
    BY <1>1, <1>3, MoveTypes DEF ClaimGranted, Pcs
  <2> QED
    BY <1>3, <2>1, <2>2 DEF ClaimGranted, LedgerNext, StepTypes
<1>4. CASE ClaimRefused(r) \/ ReuseUnconfirmed(r)
  BY <1>1, <1>4, <1>a, CompensateTypes DEF ClaimRefused, ReuseUnconfirmed, StepTypes
<1>5. CASE ClaimFindsOutcome(r)
  <2>1. rows[Key(r)].result \in Results \cup {NoResult}
    BY <1>2 DEF LedgerTypeOK, Row
  <2>2. RunTypes'
    BY <1>1, <1>5, <2>1 DEF ClaimFindsOutcome, RunTypes, ProgramOrder, Pcs
  <2> QED
    BY <1>5, <2>2 DEF ClaimFindsOutcome, StepTypes
<1>6. CASE ReuseCompleted(r)
  BY <1>1, <1>6, <1>a, ContinueTypes DEF ReuseCompleted, StepTypes
<1>7. CASE ReconcileConfirmed(r)
  <2>1. result[r] # NoResult
    BY <1>7 DEF ReconcileConfirmed, RunTypes, ProgramOrder
  <2>2. RunTypes'
    BY <1>1, <1>7, <2>1, MoveTypes DEF ReconcileConfirmed, Pcs
  <2> QED
    BY <1>7, <2>2 DEF ReconcileConfirmed, StepTypes
<1>8. CASE ResolveIndeterminate(r)
  <2>1. result[r] \in Results
    BY <1>8 DEF ResolveIndeterminate, RunTypes, ProgramOrder
  <2>2. RunTypes'
    BY <1>1, <1>8, <1>a, ContinueTypes, CompensateTypes DEF ResolveIndeterminate
  <2>3. CallResolve
    BY <1>2, <1>8, <2>1 DEF ResolveIndeterminate, CallResolve
  <2> QED
    BY <1>8, <2>2, <2>3 DEF ResolveIndeterminate, LedgerNext, StepTypes
<1> QED
  BY <1>3, <1>4, <1>5, <1>6, <1>7, <1>8 DEF Claim

LEMMA ExecuteTypes ==
    ASSUME NEW r \in Runs, TypeInv, Execute(r)
    PROVE  StepTypes
<1> USE TypeInvParts
<1>1. at[r] <= Len(Plan)
  BY DEF Execute, GuardPasses, GuardRefuses, DispatchReturns,
     DispatchCertifiesNothing, DispatchRaises, TrackEffect, TrackFails,
     VerifyConfirms, VerifyFails, Complete, CompleteFails, Settle, SettleFails,
     RunTypes, ProgramOrder
<1>2. Key(r) \in Keys /\ Fp(r) \in Fingerprints /\ Token(r) \in Tokens
  BY <1>1, InHandTypes
<1>3. result[r] \in Results \cup {NoResult}
  BY DEF RunTypes
<1>4. CASE GuardPasses(r)
  <2>1. RunTypes'
    BY <1>1, <1>4, MoveTypes DEF GuardPasses, Pcs
  <2> QED
    BY <1>4, <2>1 DEF GuardPasses, StepTypes
<1>5. CASE GuardRefuses(r) \/ DispatchCertifiesNothing(r)
  <2>1. RunTypes'
    BY <1>1, <1>5, RaiseTypes DEF GuardRefuses, DispatchCertifiesNothing, Causes
  <2> QED
    BY <1>5, <2>1 DEF GuardRefuses, DispatchCertifiesNothing, StepTypes
<1>6. CASE DispatchReturns(r)
  <2>1. RunTypes'
    BY <1>1, <1>6, LedgerSentinels DEF DispatchReturns, RunTypes, ProgramOrder, Pcs
  <2>2. effect' \in [Keys -> Nat]
    BY <1>2, <1>6 DEF DispatchReturns
  <2> QED
    BY <1>6, <2>1, <2>2 DEF DispatchReturns, StepTypes
<1>7. CASE DispatchRaises(r)
  <2>1. RunTypes'
    BY <1>1, <1>7, RaiseTypes DEF DispatchRaises, Causes
  <2>2. effect' \in [Keys -> Nat]
    BY <1>2, <1>7 DEF DispatchRaises
  <2> QED
    BY <1>7, <2>1, <2>2 DEF DispatchRaises, StepTypes
<1>8. CASE TrackEffect(r)
  <2>1. executed' \in [Runs -> Seq(Keys)]
    BY <1>2, <1>8 DEF TrackEffect, RunTypes
  <2>2. RunTypes'
    BY <1>1, <1>8, <2>1 DEF TrackEffect, RunTypes, ProgramOrder, Pcs
  <2> QED
    BY <1>8, <2>2 DEF TrackEffect, StepTypes
<1>9. CASE TrackFails(r) \/ VerifyFails(r) \/ CompleteFails(r)
  <2>1. RunTypes'
    BY <1>1, <1>3, <1>9, RaiseTypes
    DEF TrackFails, VerifyFails, CompleteFails, Causes
  <2> QED
    BY <1>9, <2>1 DEF TrackFails, VerifyFails, CompleteFails, StepTypes
<1>10. CASE VerifyConfirms(r)
  <2>1. result[r] # NoResult
    BY <1>10 DEF VerifyConfirms, RunTypes, ProgramOrder
  <2>2. RunTypes'
    BY <1>1, <1>10, <2>1, MoveTypes DEF VerifyConfirms, Pcs
  <2> QED
    BY <1>10, <2>2 DEF VerifyConfirms, StepTypes
<1>11. CASE Complete(r)
  <2>1. result[r] \in Results
    BY <1>3, <1>11 DEF Complete, RunTypes, ProgramOrder
  <2>2. CallComplete
    BY <1>2, <1>11, <2>1 DEF Complete, CallComplete
  <2>3. RunTypes'
    BY <1>1, <1>11, ContinueTypes DEF Complete, ActionStates
  <2> QED
    BY <1>11, <2>2, <2>3 DEF Complete, LedgerNext, StepTypes
<1>12. CASE Settle(r)
  <2>1. SettledStatus(r) \in {"failed", "indeterminate"}
    BY DEF SettledStatus
  <2>2. SettledReport(r) \in ActionStates
    BY DEF SettledReport, ActionStates
  <2>3. CallFinish
    BY <1>2, <1>3, <1>12, <2>1 DEF Settle, CallFinish
  <2>4. RunTypes'
    BY <1>1, <1>12, <2>2, CompensateTypes DEF Settle
  <2> QED
    BY <1>12, <2>3, <2>4 DEF Settle, LedgerNext, StepTypes
<1>13. CASE SettleFails(r)
  <2>1. RunTypes'
    BY <1>1, <1>13, CompensateTypes DEF SettleFails, ActionStates
  <2> QED
    BY <1>13, <2>1 DEF SettleFails, StepTypes
<1> QED
  BY <1>4, <1>5, <1>6, <1>7, <1>8, <1>9, <1>10, <1>11, <1>12, <1>13 DEF Execute

(* The list of effects to undo loses its last element. *)
LEMMA UntrackFacts ==
    ASSUME NEW r \in Runs, RunTypes, executed[r] # <<>>
    PROVE  /\ Len(executed[r]) \in Nat \ {0}
           /\ LastTracked(r) \in Keys
           /\ Untracked(r) \in [Runs -> Seq(Keys)]
           /\ Len(Untracked(r)[r]) = Len(executed[r]) - 1
           /\ \A i \in 1..(Len(executed[r]) - 1) :
                 Untracked(r)[r][i] = executed[r][i]
           /\ \A s \in Runs \ {r} : Untracked(r)[s] = executed[s]
<1> DEFINE e == executed[r]
<1>1. e \in Seq(Keys) /\ e # <<>>
  BY DEF RunTypes
<1>2. Len(e) \in Nat \ {0}
  BY <1>1
<1>3. e[Len(e)] \in Keys
  BY <1>1, <1>2
<1>4. /\ SubSeq(e, 1, Len(e) - 1) \in Seq(Keys)
      /\ Len(SubSeq(e, 1, Len(e) - 1)) = Len(e) - 1
      /\ \A i \in 1..(Len(e) - 1) : SubSeq(e, 1, Len(e) - 1)[i] = e[i]
  BY <1>1, <1>2
<1> QED
  BY <1>2, <1>3, <1>4 DEF LastTracked, Untracked, RunTypes

LEMMA RollbackTypes ==
    ASSUME NEW r \in Runs, TypeInv, Rollback(r)
    PROVE  StepTypes
<1> USE TypeInvParts
<1>1. at[r] <= Len(Plan)
  BY DEF Rollback, CompensationFails, Compensate, ClearCompensated, ClearFails,
     EndRollback, RunTypes, ProgramOrder
<1>2. CASE CompensationFails(r)
  <2>1. /\ LastTracked(r) \in Keys
        /\ Untracked(r) \in [Runs -> Seq(Keys)]
        /\ \A s \in Runs \ {r} : Untracked(r)[s] = executed[s]
    BY <1>2, UntrackFacts DEF CompensationFails
  <2>a. report' \in [Runs -> [Keys -> ActionStates]]
    BY <1>2, <2>1 DEF CompensationFails, RunTypes, ActionStates
  <2>b. ProgramOrder'
    BY <1>2, <2>1 DEF CompensationFails, RunTypes, ProgramOrder
  <2>2. RunTypes'
    BY <1>2, <2>1, <2>a, <2>b DEF CompensationFails, RunTypes
  <2>3. effect' \in [Keys -> Nat]
    BY <1>2, <2>1 DEF CompensationFails
  <2> QED
    BY <1>2, <2>2, <2>3 DEF CompensationFails, StepTypes
<1>3. CASE Compensate(r)
  <2>1. LastTracked(r) \in Keys
    BY <1>3, UntrackFacts DEF Compensate
  <2>2. RunTypes'
    BY <1>1, <1>3, MoveTypes DEF Compensate, Pcs
  <2>3. effect' \in [Keys -> Nat]
    BY <1>3, <2>1 DEF Compensate
  <2> QED
    BY <1>3, <2>2, <2>3 DEF Compensate, StepTypes
<1>4. CASE ClearCompensated(r) \/ ClearFails(r)
  <2>1. executed[r] # <<>>
    BY <1>4 DEF ClearCompensated, ClearFails, RunTypes, ProgramOrder
  <2>2. /\ LastTracked(r) \in Keys
        /\ Untracked(r) \in [Runs -> Seq(Keys)]
        /\ \A s \in Runs \ {r} : Untracked(r)[s] = executed[s]
    BY <2>1, UntrackFacts
  <2>a. report' \in [Runs -> [Keys -> ActionStates]]
    <3>1. \E x \in ActionStates :
             report' = [report EXCEPT ![r][LastTracked(r)] = x]
      BY <1>4 DEF ClearCompensated, ClearFails, ActionStates
    <3> QED
      BY <2>2, <3>1 DEF RunTypes
  <2>b. ProgramOrder'
    BY <1>1, <1>4, <2>2 DEF ClearCompensated, ClearFails, RunTypes, ProgramOrder
  <2>3. RunTypes'
    BY <1>4, <2>2, <2>a, <2>b DEF ClearCompensated, ClearFails, RunTypes, Pcs
  <2>4. EffectFp[r][LastTracked(r)] \in Fingerprints
    BY <2>2, PlanAssumption
  <2>5. CallClear \/ UNCHANGED ledgerVars
    BY <1>4, <2>2, <2>4 DEF ClearCompensated, ClearFails, CallClear
  <2> QED
    BY <1>4, <2>3, <2>5 DEF ClearCompensated, ClearFails, LedgerNext, StepTypes
<1>5. CASE EndRollback(r)
  <2>1. at[r] + 1 \in 1..(Len(Plan) + 1)
    BY <1>1, PlanLength DEF RunTypes
  <2>2. RunTypes'
    BY <1>5, <2>1 DEF EndRollback, RunTypes, ProgramOrder, Pcs
  <2> QED
    BY <1>5, <2>2 DEF EndRollback, StepTypes
<1> QED
  BY <1>2, <1>3, <1>4, <1>5 DEF Rollback

LEMMA NextTypes == TypeInv /\ [Next]_vars => TypeInv' /\ [LedgerNext]_ledgerVars
<1> SUFFICES ASSUME TypeInv, [Next]_vars
             PROVE  TypeInv' /\ [LedgerNext]_ledgerVars
  OBVIOUS
<1> USE TypeInvParts
<1>1. ASSUME NEW r \in Runs, Step(r) \/ Crash(r)
      PROVE  StepTypes
  <2>1. CASE Start(r)
    BY <2>1 DEF Start, StepTypes, RunTypes, ProgramOrder, Pcs, ledgerVars
  <2>2. CASE Finish(r) \/ Crash(r)
    <3>1. RunTypes'
      BY <2>2, MoveTypes DEF Finish, Crash, Pcs
    <3> QED
      BY <2>2, <3>1 DEF Finish, Crash, StepTypes
  <2> QED
    BY <1>1, <2>1, <2>2, GateTypes, ClaimTypes, ExecuteTypes, RollbackTypes
    DEF Step
<1>2. CASE UNCHANGED vars
  BY <1>2 DEF vars, ledgerVars, TypeInv, TypeOK, LedgerTypeOK, ProgramOrder
<1>3. CASE Next
  <2>1. StepTypes
    BY <1>1, <1>3 DEF Next
  <2>2. LedgerTypeOK'
    BY <2>1, LedgerTypeStep DEF StepTypes
  <2> QED
    BY <2>1, <2>2 DEF StepTypes, TypeInv, TypeOK, RunTypes
<1> QED
  BY <1>2, <1>3

LEMMA InitTypes == Init => TypeInv
<1> SUFFICES ASSUME Init
             PROVE  TypeInv
  OBVIOUS
<1>1. LedgerTypeOK
  BY DEF Init, LedgerInit, LedgerTypeOK, NoRow, Row, RowStatus, Verdicts
<1>2. RunTypes
  BY PlanLength DEF Init, RunTypes, ProgramOrder, Pcs, ActionStates, Causes
<1> QED
  BY <1>1, <1>2, TypeInvParts DEF Init

LEMMA TypeInvHolds == Spec => []TypeInv
  BY InitTypes, NextTypes, PTL DEF Spec

(* Every step of every run keeps the whole state well formed: the loop     *)
(* never runs past its plan and reports only ActionStates.                 *)
THEOREM TypeCorrect == Spec => []TypeOK
<1>1. TypeInv => TypeOK
  BY DEF TypeInv
<1> QED
  BY <1>1, TypeInvHolds, PTL

(* The orchestrator uses the ledger as its specification allows, so what   *)
(* is proved of the ledger holds of the orchestrator.                      *)
THEOREM UsesLedger == Spec => LedgerSpec
<1>1. Init => LedgerInit
  BY DEF Init
<1> QED
  BY <1>1, NextTypes, TypeInvHolds, PTL DEF Spec, LedgerSpec
-----------------------------------------------------------------------------
(***************************************************************************)
(* OwnershipInv is an inductive invariant of the orchestrator.  From it:   *)
(* a key never has two effects standing, a key offered for retry has none, *)
(* an effect has one owner, and the orchestrator implements EffectOnce.    *)
(***************************************************************************)

Inv == TypeInv /\ OwnershipInv

(* Only run r moves. *)
Others(r) ==
    \A s \in Runs \ {r} :
        /\ pc'[s] = pc[s] /\ at'[s] = at[s] /\ executed'[s] = executed[s]
        /\ result'[s] = result[s] /\ cause'[s] = cause[s]

(* Then what is said of the other runs stays the same. *)
LEMMA OthersFacts ==
    ASSUME NEW r \in Runs, Others(r), NEW s \in Runs \ {r}
    PROVE  /\ Key(s)' = Key(s) /\ Fp(s)' = Fp(s) /\ Token(s)' = Token(s)
           /\ Holding(s)' <=> Holding(s)
           /\ \A k \in Keys : Tracked(s, k)' <=> Tracked(s, k)
           /\ SettledStatus(s)' = SettledStatus(s)
           /\ LastTracked(s)' = LastTracked(s)
           /\ pc'[s] = pc[s] /\ result'[s] = result[s]
           /\ executed'[s] = executed[s]
  BY DEF Others, Key, Fp, Token, Holding, Tracked, SettledStatus, LastTracked

LEMMA SameLocals ==
    ASSUME NEW r \in Runs, at'[r] = at[r], executed'[r] = executed[r]
    PROVE  /\ Key(r)' = Key(r) /\ Fp(r)' = Fp(r) /\ Token(r)' = Token(r)
           /\ \A k \in Keys : Tracked(r, k)' <=> Tracked(r, k)
           /\ LastTracked(r)' = LastTracked(r)
  BY DEF Key, Fp, Token, Tracked, LastTracked

(* The key of a run inside an attempt. *)
LEMMA HeldKey ==
    ASSUME Inv, NEW r \in Runs, Holding(r) \/ pc[r] \in {"reuse", "reconcile", "resolve"}
    PROVE  /\ at[r] <= Len(Plan)
           /\ Key(r) \in Keys /\ Fp(r) \in Fingerprints /\ Token(r) \in Tokens
           /\ Fp(r) = EffectFp[r][Key(r)] /\ Token(r) = <<r, Key(r)>>
<1>1. at[r] <= Len(Plan)
  BY DEF Inv, OwnershipInv, ProgramOrder, Holding
<1> QED
  BY <1>1, InHandTypes, TypeInvParts DEF Inv, Fp, Token

(* Two runs cannot both own a key. *)
LEMMA OneOwner ==
    ASSUME Inv, NEW r \in Runs, NEW s \in Runs, NEW k \in Keys,
           Attempting(r, k) \/ Tracked(r, k), Attempting(s, k) \/ Tracked(s, k)
    PROVE  r = s
<1>1. ASSUME NEW q \in Runs, Attempting(q, k)
      PROVE  rows[k].status = "pending" /\ rows[k].token = <<q, k>>
  BY <1>1, HeldKey DEF Attempting, Inv, OwnershipInv, ClaimHeld, OwnsClaim
<1>2. ASSUME NEW q \in Runs, Tracked(q, k), rows[k].status = "pending"
      PROVE  rows[k].token = <<q, k>>
  BY <1>2 DEF Inv, OwnershipInv, TrackedRow
<1>3. CASE Tracked(r, k) /\ Tracked(s, k)
  BY <1>3 DEF Inv, OwnershipInv, TrackedOnce
<1>4. CASE Attempting(r, k) \/ Attempting(s, k)
  <2>1. rows[k].token = <<r, k>> /\ rows[k].token = <<s, k>>
    BY <1>1, <1>2, <1>4
  <2> QED
    BY <2>1
<1> QED
  BY <1>3, <1>4

-----------------------------------------------------------------------------
(* A run that leaves rows, effects and lists alone and ends outside an     *)
(* attempt disturbs nothing.                                               *)
LEMMA QuietStep ==
    ASSUME Inv, TypeInv', NEW r \in Runs, Others(r),
           rows' = rows, effect' = effect, executed'[r] = executed[r],
           ~Holding(r)', pc'[r] # "clear"
    PROVE  OwnershipInv'
<1> USE DEF Inv, OwnershipInv
<1>0. \A s \in Runs, k \in Keys : Tracked(s, k)' <=> Tracked(s, k)
  BY OthersFacts DEF Tracked
<1>1. ProgramOrder'
  BY DEF TypeInv
<1>2. ClaimHeld'
  BY OthersFacts DEF ClaimHeld, OwnsClaim
<1>3. TrackedRow'
  BY <1>0 DEF TrackedRow
<1>4. TrackedOnce'
  BY <1>0, OthersFacts DEF TrackedOnce
<1>5. NotYetTracked'
  <2> SUFFICES ASSUME NEW s \in Runs, pc'[s] \in {"guard", "dispatch", "returned"}
                        \/ (pc'[s] = "settle" /\ result'[s] = NoResult)
               PROVE  ~Tracked(s, Key(s))'
    BY DEF NotYetTracked
  <2>1. s # r
    BY DEF Holding
  <2> QED
    BY <2>1 DEF NotYetTracked, Others, Tracked, Key
<1>6. EffectKnown'
  BY OthersFacts DEF EffectKnown, Holding
<1>7. AtMostOneEffect' /\ RetryableMeansNoEffect'
  BY DEF AtMostOneEffect, RetryableMeansNoEffect
<1> QED
  BY <1>1, <1>2, <1>3, <1>4, <1>5, <1>6, <1>7

(* A step inside an attempt that only changes what the run knows. *)
LEMMA AttemptStep ==
    ASSUME Inv, TypeInv', NEW r \in Runs, Others(r),
           rows' = rows, effect' = effect, executed'[r] = executed[r],
           at'[r] = at[r], Holding(r), Holding(r)',
           \/ pc'[r] \in {"guard", "dispatch", "returned"}
           \/ pc'[r] = "settle" /\ result'[r] = NoResult
           => ~Tracked(r, Key(r)),
           pc'[r] \in {"guard", "dispatch"} => effect[Key(r)] = 0,
           pc'[r] = "complete" => effect[Key(r)] = 1,
           pc'[r] = "settle" /\ SettledStatus(r)' = "failed"
             => effect[Key(r)] = 0
    PROVE  OwnershipInv'
<1> USE DEF Inv, OwnershipInv
<1>0. \A s \in Runs, k \in Keys : Tracked(s, k)' <=> Tracked(s, k)
  BY OthersFacts, SameLocals
<1>1. ProgramOrder'
  BY DEF TypeInv
<1>2. ClaimHeld'
  BY OthersFacts, SameLocals DEF ClaimHeld, OwnsClaim
<1>3. TrackedRow'
  BY <1>0 DEF TrackedRow
<1>4. TrackedOnce'
  BY <1>0, OthersFacts DEF TrackedOnce
<1>5. NotYetTracked'
  <2>1. ASSUME NEW s \in Runs \ {r}, pc'[s] \in {"guard", "dispatch", "returned"}
                 \/ (pc'[s] = "settle" /\ result'[s] = NoResult)
        PROVE  ~Tracked(s, Key(s))'
    BY <2>1 DEF NotYetTracked, Others, Tracked, Key
  <2>2. Tracked(r, Key(r))' <=> Tracked(r, Key(r))
    BY DEF Tracked, Key
  <2> QED
    BY <2>1, <2>2 DEF NotYetTracked
<1>6. EffectKnown'
  <2>1. Key(r)' = Key(r) /\ pc'[r] # "clear"
    BY SameLocals DEF Holding
  <2> QED
    BY <2>1, OthersFacts DEF EffectKnown
<1>7. AtMostOneEffect' /\ RetryableMeansNoEffect'
  BY DEF AtMostOneEffect, RetryableMeansNoEffect
<1> QED
  BY <1>1, <1>2, <1>3, <1>4, <1>5, <1>6, <1>7

(* How each way of moving changes the local state of the run. *)
LEMMA ContinueFrame ==
    ASSUME RunTypes, NEW r \in Runs, NEW st, ReportAndContinue(r, st)
    PROVE  Others(r) /\ executed'[r] = executed[r] /\ pc'[r] = "loop"
  BY DEF RunTypes, ReportAndContinue, Others

LEMMA CompensateFrame ==
    ASSUME RunTypes, NEW r \in Runs, NEW st, NEW tracked,
           ReportAndCompensate(r, st, tracked)
    PROVE  /\ Others(r) /\ executed'[r] = executed[r]
           /\ pc'[r] \in {"loop", "rollback"}
  BY DEF RunTypes, ReportAndCompensate, Others

LEMMA RaiseFrame ==
    ASSUME RunTypes, NEW r \in Runs, NEW why, NEW res, Raise(r, why, res)
    PROVE  /\ Others(r) /\ executed' = executed /\ at' = at
           /\ pc'[r] = "settle" /\ cause'[r] = why /\ result'[r] = res
  BY DEF RunTypes, Raise, Others

LEMMA MoveFrame ==
    ASSUME RunTypes, NEW r \in Runs, NEW to, Move(r, to)
    PROVE  /\ Others(r) /\ executed' = executed /\ at' = at
           /\ result' = result /\ pc'[r] = to
  BY DEF RunTypes, Move, Others

-----------------------------------------------------------------------------
(* The steps before a claim, a crash and the end of a run. *)
LEMMA OutsideKeeps ==
    ASSUME Inv, TypeInv', NEW r \in Runs,
           Start(r) \/ Gate(r) \/ Finish(r) \/ Crash(r)
    PROVE  OwnershipInv'
<1>0. RunTypes
  BY TypeInvParts DEF Inv
<1>1. rows' = rows /\ effect' = effect
  BY DEF Start, Gate, SkipRemaining, RefuseCapability, AwaitCoherenceReview,
     SkipForDependency, RefuseByPolicy, PlanOnly, SelectionFails,
     ReadOrGenerate, Finish, Crash, ledgerVars
<1>2. /\ Others(r) /\ executed'[r] = executed[r]
      /\ pc'[r] \in {"loop", "rollback", "done", "crashed"}
  <2>1. CASE Start(r)
    BY <1>0, <2>1 DEF Start, Others, RunTypes
  <2>2. CASE Gate(r)
    <3>1. \E st \in ActionStates : \/ ReportAndContinue(r, st)
                                   \/ ReportAndCompensate(r, st, executed[r])
      BY <2>2 DEF Gate, SkipRemaining, RefuseCapability, AwaitCoherenceReview,
         SkipForDependency, RefuseByPolicy, PlanOnly, SelectionFails,
         ReadOrGenerate, ActionStates
    <3> QED
      BY <1>0, <3>1, ContinueFrame, CompensateFrame
  <2>3. CASE Finish(r) \/ Crash(r)
    <3>1. Move(r, "done") \/ Move(r, "crashed")
      BY <2>3 DEF Finish, Crash
    <3> QED
      BY <1>0, <3>1, MoveFrame
  <2> QED
    BY <2>1, <2>2, <2>3
<1>3. ~Holding(r)' /\ pc'[r] # "clear"
  BY <1>2 DEF Holding
<1> QED
  BY <1>1, <1>2, <1>3, QuietStep

(* A claim is granted on an open row only, where nothing stands and        *)
(* nobody has anything to undo.                                            *)
LEMMA ClaimGrantedKeeps ==
    ASSUME Inv, TypeInv', NEW r \in Runs, ClaimGranted(r)
    PROVE  OwnershipInv'
<1> DEFINE k == Key(r)
<1>0. RunTypes /\ LedgerTypeOK
  BY TypeInvParts DEF Inv
<1>1. /\ Others(r) /\ executed' = executed /\ at' = at
      /\ pc'[r] = "guard" /\ effect' = effect
  BY <1>0, MoveFrame DEF ClaimGranted
<1>2. at[r] <= Len(Plan) /\ ~Holding(r)
  BY DEF ClaimGranted, Applying, Eligible, InHand, Holding
<1>3. k \in Keys /\ Fp(r) \in Fingerprints /\ Token(r) \in Tokens
  BY <1>0, <1>2, InHandTypes
<1>4. rows[k].status \in {"absent", "failed"}
  BY <1>0, <1>3 DEF ClaimGranted, ClaimAction, ClaimState, LedgerTypeOK, Row, RowStatus
<1>5. /\ rows'[k] = [status |-> "pending", fp |-> Fp(r), token |-> Token(r),
                     result |-> NoResult]
      /\ \A j \in Keys \ {k} : rows'[j] = rows[j]
  BY <1>0, <1>3 DEF ClaimGranted, ClaimAction, LedgerTypeOK
<1>6. Key(r)' = k /\ Fp(r)' = Fp(r) /\ Token(r)' = Token(r)
  BY <1>1, SameLocals
<1>7. \A s \in Runs, j \in Keys : Tracked(s, j)' <=> Tracked(s, j)
  BY <1>1 DEF Tracked
<1>8. \A s \in Runs : ~Tracked(s, k)
  BY <1>3, <1>4 DEF Inv, OwnershipInv, TrackedRow
<1>9. \A s \in Runs : Holding(s) => Key(s) \in Keys \ {k}
  BY <1>4, HeldKey DEF Inv, OwnershipInv, ClaimHeld, OwnsClaim
<1>10. effect[k] = 0
  BY <1>3, <1>4 DEF Inv, OwnershipInv, RetryableMeansNoEffect
<1>a. ProgramOrder'
  BY DEF TypeInv
<1>b. ClaimHeld'
  <2>1. OwnsClaim(Key(r), Fp(r), Token(r))'
    BY <1>5, <1>6 DEF OwnsClaim
  <2>2. ASSUME NEW s \in Runs \ {r}, Holding(s)'
        PROVE  OwnsClaim(Key(s), Fp(s), Token(s))'
    <3>1. Holding(s) /\ Key(s)' = Key(s) /\ Fp(s)' = Fp(s) /\ Token(s)' = Token(s)
      BY <1>1, <2>2, OthersFacts
    <3>2. rows'[Key(s)] = rows[Key(s)]
      BY <1>5, <1>9, <3>1
    <3> QED
      BY <3>1, <3>2 DEF OwnsClaim, Inv, OwnershipInv, ClaimHeld
  <2> QED
    BY <2>1, <2>2 DEF ClaimHeld
<1>c. TrackedRow'
  BY <1>5, <1>7, <1>8 DEF TrackedRow, Inv, OwnershipInv
<1>d. TrackedOnce'
  BY <1>1, <1>7 DEF TrackedOnce, Inv, OwnershipInv
<1>e. NotYetTracked'
  <2>1. ~Tracked(r, Key(r))'
    BY <1>1, <1>3, <1>8 DEF Tracked, Key
  <2>2. ASSUME NEW s \in Runs \ {r}, pc'[s] \in {"guard", "dispatch", "returned"}
                 \/ (pc'[s] = "settle" /\ result'[s] = NoResult)
        PROVE  ~Tracked(s, Key(s))'
    BY <1>1, <2>2 DEF NotYetTracked, Others, Tracked, Key, Inv, OwnershipInv
  <2> QED
    BY <2>1, <2>2 DEF NotYetTracked
<1>f. EffectKnown'
  BY <1>1, <1>6, <1>10, OthersFacts DEF EffectKnown, Inv, OwnershipInv
<1>g. AtMostOneEffect' /\ RetryableMeansNoEffect'
  BY <1>1, <1>5 DEF AtMostOneEffect, RetryableMeansNoEffect, Inv, OwnershipInv
<1> QED
  BY <1>a, <1>b, <1>c, <1>d, <1>e, <1>f, <1>g DEF OwnershipInv

(* One row changes and its run ends outside an attempt: safe when no other *)
(* run is in an attempt of that key, an effect to undo keeps its row, and  *)
(* an open row has no effect.                                              *)
LEMMA RowStep ==
    ASSUME Inv, TypeInv', NEW r \in Runs, Others(r), NEW k \in Keys,
           effect' = effect, executed'[r] = executed[r],
           ~Holding(r)', pc'[r] # "clear",
           \A j \in Keys \ {k} : rows'[j] = rows[j],
           \A s \in Runs \ {r} : Holding(s) => Key(s) # k,
           \A s \in Runs : Tracked(s, k) =>
              /\ rows'[k].status \in {"completed", "indeterminate"}
              /\ rows'[k].fp = EffectFp[s][k],
           rows'[k].status \in {"absent", "failed"} => effect[k] = 0
    PROVE  OwnershipInv'
<1> USE DEF Inv, OwnershipInv
<1>0. \A s \in Runs, j \in Keys : Tracked(s, j)' <=> Tracked(s, j)
  BY OthersFacts DEF Tracked
<1>1. ProgramOrder'
  BY DEF TypeInv
<1>2. ClaimHeld'
  <2> SUFFICES ASSUME NEW s \in Runs, Holding(s)'
               PROVE  OwnsClaim(Key(s), Fp(s), Token(s))'
    BY DEF ClaimHeld
  <2>1. s # r
    OBVIOUS
  <2>2. Holding(s) /\ Key(s)' = Key(s) /\ Fp(s)' = Fp(s) /\ Token(s)' = Token(s)
    BY <2>1, OthersFacts
  <2>3. rows'[Key(s)] = rows[Key(s)]
    BY <2>1, <2>2, HeldKey
  <2> QED
    BY <2>2, <2>3 DEF ClaimHeld, OwnsClaim
<1>3. TrackedRow'
  BY <1>0 DEF TrackedRow
<1>4. TrackedOnce'
  BY <1>0, OthersFacts DEF TrackedOnce
<1>5. NotYetTracked'
  <2> SUFFICES ASSUME NEW s \in Runs, pc'[s] \in {"guard", "dispatch", "returned"}
                        \/ (pc'[s] = "settle" /\ result'[s] = NoResult)
               PROVE  ~Tracked(s, Key(s))'
    BY DEF NotYetTracked
  <2>1. s # r
    BY DEF Holding
  <2> QED
    BY <2>1 DEF NotYetTracked, Others, Tracked, Key
<1>6. EffectKnown'
  BY OthersFacts DEF EffectKnown, Holding
<1>7. AtMostOneEffect' /\ RetryableMeansNoEffect'
  BY DEF AtMostOneEffect, RetryableMeansNoEffect
<1> QED
  BY <1>1, <1>2, <1>3, <1>4, <1>5, <1>6, <1>7

(* The steps on the answer of claim_action. *)
LEMMA ClaimKeeps ==
    ASSUME Inv, TypeInv', NEW r \in Runs, Claim(r)
    PROVE  OwnershipInv'
<1>0. RunTypes /\ LedgerTypeOK
  BY TypeInvParts DEF Inv
<1>1. CASE ClaimGranted(r)
  BY <1>1, ClaimGrantedKeeps
<1>2. CASE ClaimRefused(r) \/ ReuseUnconfirmed(r) \/ ReuseCompleted(r)
  <2>1. rows' = rows /\ effect' = effect
    BY <1>2 DEF ClaimRefused, ReuseUnconfirmed, ReuseCompleted, ledgerVars
  <2>2. Others(r) /\ executed'[r] = executed[r] /\ pc'[r] \in {"loop", "rollback"}
    BY <1>0, <1>2, ContinueFrame, CompensateFrame
    DEF ClaimRefused, ReuseUnconfirmed, ReuseCompleted
  <2>3. ~Holding(r)' /\ pc'[r] # "clear"
    BY <2>2 DEF Holding
  <2> QED
    BY <2>1, <2>2, <2>3, QuietStep
<1>3. CASE ClaimFindsOutcome(r) \/ ReconcileConfirmed(r)
  <2>1. rows' = rows /\ effect' = effect
    BY <1>3 DEF ClaimFindsOutcome, ReconcileConfirmed, ledgerVars
  <2>2. /\ Others(r) /\ executed'[r] = executed[r]
        /\ pc'[r] \in {"reuse", "reconcile", "resolve"}
    <3>1. CASE ClaimFindsOutcome(r)
      BY <1>0, <3>1 DEF ClaimFindsOutcome, Others, RunTypes
    <3>2. CASE ReconcileConfirmed(r)
      BY <1>0, <3>2, MoveFrame DEF ReconcileConfirmed
    <3> QED
      BY <1>3, <3>1, <3>2
  <2>3. ~Holding(r)' /\ pc'[r] # "clear"
    BY <2>2 DEF Holding
  <2> QED
    BY <2>1, <2>2, <2>3, QuietStep
<1>4. CASE ResolveIndeterminate(r)
  <2> DEFINE k == Key(r)
  <2>1. effect' = effect /\ pc[r] = "resolve"
    BY <1>4 DEF ResolveIndeterminate
  <2>2. Others(r) /\ executed'[r] = executed[r] /\ pc'[r] \in {"loop", "rollback"}
    BY <1>0, <1>4, ContinueFrame, CompensateFrame DEF ResolveIndeterminate
  <2>3. ~Holding(r)' /\ pc'[r] # "clear"
    BY <2>2 DEF Holding
  <2>4. k \in Keys
    BY <2>1, HeldKey
  <2>5. /\ rows[k].status = "indeterminate" /\ rows'[k].status = "completed"
        /\ rows'[k].fp = rows[k].fp
        /\ \A j \in Keys \ {k} : rows'[j] = rows[j]
    BY <1>0, <1>4, <2>4
    DEF ResolveIndeterminate, ResolveIndeterminateAction, CanResolve, LedgerTypeOK
  <2>6. \A s \in Runs \ {r} : Holding(s) => Key(s) # k
    BY <2>5 DEF Inv, OwnershipInv, ClaimHeld, OwnsClaim
  <2>7. \A s \in Runs : Tracked(s, k) => rows'[k].fp = EffectFp[s][k]
    BY <2>4, <2>5 DEF Inv, OwnershipInv, TrackedRow
  <2> QED
    BY <2>1, <2>2, <2>3, <2>4, <2>5, <2>6, <2>7, RowStep
<1> QED
  BY <1>1, <1>2, <1>3, <1>4 DEF Claim

-----------------------------------------------------------------------------
(* The outcome of an attempt is written. *)
LEMMA CompleteKeeps ==
    ASSUME Inv, TypeInv', NEW r \in Runs, Complete(r) \/ Settle(r)
    PROVE  OwnershipInv'
<1> DEFINE k == Key(r)
<1>0. RunTypes /\ LedgerTypeOK
  BY TypeInvParts DEF Inv
<1>1. Holding(r) /\ effect' = effect
  BY DEF Holding, Complete, Settle
<1>2. /\ k \in Keys /\ Fp(r) = EffectFp[r][k] /\ Token(r) = <<r, k>>
  BY <1>1, HeldKey
<1>3. Others(r) /\ executed'[r] = executed[r] /\ pc'[r] \in {"loop", "rollback"}
  BY <1>0, ContinueFrame, CompensateFrame DEF Complete, Settle
<1>4. ~Holding(r)' /\ pc'[r] # "clear"
  BY <1>3 DEF Holding
<1>5. OwnsClaim(k, Fp(r), Token(r))
  BY <1>1 DEF Inv, OwnershipInv, ClaimHeld
<1>6. \A s \in Runs \ {r} : Holding(s) => Key(s) # k
  BY <1>1, <1>2, OneOwner DEF Attempting
<1>7. \A s \in Runs : Tracked(s, k) => s = r
  BY <1>1, <1>2, OneOwner DEF Attempting
<1>8. /\ rows'[k].fp = Fp(r)
      /\ \A j \in Keys \ {k} : rows'[j] = rows[j]
      /\ \/ rows'[k].status \in {"completed", "indeterminate"}
         \/ /\ rows'[k].status = "failed" /\ pc[r] = "settle"
            /\ SettledStatus(r) = "failed"
  <2>1. CASE Complete(r)
    BY <1>0, <1>2, <2>1 DEF Complete, CompleteAction, LedgerTypeOK
  <2>2. CASE Settle(r)
    BY <1>0, <1>2, <2>2
    DEF Settle, FinishActionClaim, SettledStatus, LedgerTypeOK
  <2> QED
    BY <2>1, <2>2
<1>9. CASE rows'[k].status \in {"completed", "indeterminate"}
  BY <1>1, <1>2, <1>3, <1>4, <1>6, <1>7, <1>8, <1>9, RowStep
<1>10. CASE /\ rows'[k].status = "failed" /\ pc[r] = "settle"
            /\ SettledStatus(r) = "failed"
  <2>1. effect[k] = 0
    BY <1>10 DEF Inv, OwnershipInv, EffectKnown
  <2>2. result[r] = NoResult
    BY <1>10 DEF SettledStatus
  <2>3. ~Tracked(r, k)
    BY <1>10, <2>2 DEF Inv, OwnershipInv, NotYetTracked
  <2> QED
    BY <1>1, <1>2, <1>3, <1>4, <1>6, <1>7, <1>8, <2>1, <2>3, RowStep
<1> QED
  BY <1>8, <1>9, <1>10

(* The provider is called: the effect of the key in hand may be made. *)
LEMMA DispatchKeeps ==
    ASSUME Inv, TypeInv', NEW r \in Runs, DispatchReturns(r) \/ DispatchRaises(r)
    PROVE  OwnershipInv'
<1> DEFINE k == Key(r)
<1>0. RunTypes /\ LedgerTypeOK /\ effect \in [Keys -> Nat]
  BY TypeInvParts DEF Inv
<1>1. Holding(r) /\ rows' = rows /\ pc[r] = "dispatch"
  BY DEF Holding, DispatchReturns, DispatchRaises, ledgerVars
<1>2. k \in Keys
  BY <1>1, HeldKey
<1>3. /\ Others(r) /\ executed' = executed /\ at' = at
      /\ \/ pc'[r] = "returned"
         \/ pc'[r] = "settle" /\ cause'[r] = "uncertain"
  <2>1. CASE DispatchReturns(r)
    BY <1>0, <2>1 DEF DispatchReturns, Others, RunTypes
  <2>2. CASE DispatchRaises(r)
    BY <1>0, <2>2, RaiseFrame DEF DispatchRaises
  <2> QED
    BY <2>1, <2>2
<1>4. /\ effect'[k] \in {0, 1} /\ \A j \in Keys \ {k} : effect'[j] = effect[j]
  <2>1. effect[k] = 0
    BY <1>1 DEF Inv, OwnershipInv, EffectKnown
  <2> QED
    BY <1>0, <1>2, <2>1 DEF DispatchReturns, DispatchRaises
<1>5. \A s \in Runs \ {r} : Holding(s) => Key(s) \in Keys \ {k}
  BY <1>1, <1>2, HeldKey, OneOwner DEF Attempting
<1>6. \A s \in Runs \ {r} : ~Tracked(s, k)
  BY <1>1, <1>2, OneOwner DEF Attempting
<1>7. \A s \in Runs, j \in Keys : Tracked(s, j)' <=> Tracked(s, j)
  BY <1>3 DEF Tracked
<1>8. \A s \in Runs : Key(s)' = Key(s) /\ Fp(s)' = Fp(s) /\ Token(s)' = Token(s)
  BY <1>3 DEF Others, Key, Fp, Token
<1>9. rows[k].status = "pending" /\ ~Tracked(r, k)
  BY <1>1 DEF Inv, OwnershipInv, ClaimHeld, OwnsClaim, NotYetTracked
<1>a. ProgramOrder'
  BY DEF TypeInv
<1>b. ClaimHeld'
  BY <1>1, <1>3, <1>8, OthersFacts DEF ClaimHeld, OwnsClaim, Inv, OwnershipInv
<1>c. TrackedRow' /\ TrackedOnce'
  BY <1>1, <1>3, <1>7 DEF TrackedRow, TrackedOnce, Inv, OwnershipInv
<1>d. NotYetTracked'
  <2>1. ASSUME NEW s \in Runs \ {r}, pc'[s] \in {"guard", "dispatch", "returned"}
                 \/ (pc'[s] = "settle" /\ result'[s] = NoResult)
        PROVE  ~Tracked(s, Key(s))'
    BY <1>3, <2>1 DEF NotYetTracked, Others, Tracked, Key, Inv, OwnershipInv
  <2>2. ~Tracked(r, Key(r))'
    BY <1>3, <1>9 DEF Tracked, Key
  <2> QED
    BY <2>1, <2>2 DEF NotYetTracked
<1>e. EffectKnown'
  <2>1. ASSUME NEW s \in Runs \ {r}, Holding(s)
        PROVE  effect'[Key(s)] = effect[Key(s)]
    BY <1>4, <1>5, <2>1
  <2>2. ASSUME NEW s \in Runs \ {r}, pc[s] = "clear"
        PROVE  effect'[LastTracked(s)] = effect[LastTracked(s)]
    <3>1. /\ executed[s] # <<>> /\ Len(executed[s]) \in Nat \ {0}
          /\ LastTracked(s) \in Keys
      BY <1>0, <2>2, UntrackFacts DEF RunTypes, ProgramOrder
    <3>2. Tracked(s, LastTracked(s))
      BY <3>1 DEF Tracked, LastTracked
    <3> QED
      BY <1>4, <1>6, <3>1, <3>2
  <2>3. SettledStatus(r)' = "indeterminate" \/ pc'[r] # "settle"
    BY <1>3 DEF SettledStatus
  <2>4. \A s \in Runs \ {r} :
           /\ pc'[s] \in {"guard", "dispatch"} => effect'[Key(s)] = 0
           /\ pc'[s] = "complete" => effect'[Key(s)] = 1
           /\ pc'[s] = "settle" /\ SettledStatus(s)' = "failed"
                => effect'[Key(s)] = 0
           /\ pc'[s] = "clear" => effect'[LastTracked(s)] = 0
    BY <1>3, <2>1, <2>2, OthersFacts DEF EffectKnown, Holding, Inv, OwnershipInv
  <2> QED
    BY <1>3, <1>8, <2>3, <2>4, OthersFacts DEF EffectKnown
<1>f. AtMostOneEffect' /\ RetryableMeansNoEffect'
  BY <1>1, <1>2, <1>4, <1>9
  DEF AtMostOneEffect, RetryableMeansNoEffect, Inv, OwnershipInv
<1> QED
  BY <1>a, <1>b, <1>c, <1>d, <1>e, <1>f DEF OwnershipInv

(* A reversible effect is put on the list of effects to undo. *)
LEMMA TrackKeeps ==
    ASSUME Inv, TypeInv', NEW r \in Runs, TrackEffect(r)
    PROVE  OwnershipInv'
<1> DEFINE k == Key(r)
<1>0. RunTypes /\ LedgerTypeOK
  BY TypeInvParts DEF Inv
<1>1. /\ Holding(r) /\ rows' = rows /\ effect' = effect /\ at' = at
      /\ pc[r] = "returned" /\ pc'[r] = "verify" /\ result' = result
      /\ Others(r)
  BY <1>0 DEF Holding, TrackEffect, ledgerVars, Others, RunTypes
<1>2. k \in Keys /\ Fp(r) = EffectFp[r][k] /\ Token(r) = <<r, k>>
  BY <1>1, HeldKey
<1>3. ~Tracked(r, k) /\ result[r] # NoResult
  BY <1>1 DEF Inv, OwnershipInv, NotYetTracked, ProgramOrder
<1>4. CASE executed' = executed
  <2>1. Holding(r)'
    BY <1>1 DEF Holding
  <2> QED
    BY <1>1, <1>3, <1>4, <2>1, AttemptStep
<1>5. CASE executed' = [executed EXCEPT ![r] = Append(@, k)]
  <2> DEFINE e == executed[r]
  <2>1. /\ e \in Seq(Keys) /\ Len(e) \in Nat
        /\ executed'[r] = Append(e, k)
    BY <1>0, <1>5 DEF RunTypes
  <2>2. /\ Len(executed'[r]) = Len(e) + 1
        /\ executed'[r][Len(e) + 1] = k
        /\ \A i \in 1..Len(e) : executed'[r][i] = e[i]
    BY <1>2, <2>1
  <2>3. \A j \in Keys : Tracked(r, j)' <=> Tracked(r, j) \/ j = k
    BY <2>1, <2>2 DEF Tracked
  <2>4. \A s \in Runs \ {r} : ~Tracked(s, k)
    BY <1>1, <1>2, OneOwner DEF Attempting
  <2>5. \A s \in Runs \ {r}, j \in Keys : Tracked(s, j)' <=> Tracked(s, j)
    BY <1>1, OthersFacts
  <2>6. OwnsClaim(k, Fp(r), Token(r))
    BY <1>1 DEF Inv, OwnershipInv, ClaimHeld
  <2>7. \A s \in Runs : Key(s)' = Key(s) /\ Fp(s)' = Fp(s) /\ Token(s)' = Token(s)
    BY <1>1 DEF Others, Key, Fp, Token
  <2>a. ProgramOrder'
    BY DEF TypeInv
  <2>b. ClaimHeld'
    BY <1>1, <2>7, OthersFacts DEF ClaimHeld, OwnsClaim, Inv, OwnershipInv
  <2>c. TrackedRow'
    BY <1>1, <1>2, <2>3, <2>5, <2>6 DEF TrackedRow, OwnsClaim, Inv, OwnershipInv
  <2>d. TrackedOnce'
    <3>1. \A s, q \in Runs, j \in Keys :
             Tracked(s, j)' /\ Tracked(q, j)' => s = q
      BY <2>3, <2>4, <2>5 DEF TrackedOnce, Inv, OwnershipInv
    <3>2. \A i, j \in 1..Len(executed'[r]) :
             executed'[r][i] = executed'[r][j] => i = j
      <4>1. \A i \in 1..Len(e) : e[i] # k
        BY <1>3 DEF Tracked
      <4>2. \A i, j \in 1..Len(e) : e[i] = e[j] => i = j
        BY DEF TrackedOnce, Inv, OwnershipInv
      <4> QED
        BY <2>1, <2>2, <4>1, <4>2
    <3>3. \A s \in Runs \ {r} : \A i, j \in 1..Len(executed'[s]) :
             executed'[s][i] = executed'[s][j] => i = j
      BY <1>1, OthersFacts DEF TrackedOnce, Inv, OwnershipInv
    <3> QED
      BY <3>1, <3>2, <3>3 DEF TrackedOnce
  <2>e. NotYetTracked'
    <3>1. ASSUME NEW s \in Runs \ {r},
                 pc'[s] \in {"guard", "dispatch", "returned"}
                   \/ (pc'[s] = "settle" /\ result'[s] = NoResult)
          PROVE  ~Tracked(s, Key(s))'
      BY <1>1, <3>1 DEF NotYetTracked, Others, Tracked, Key, Inv, OwnershipInv
    <3> QED
      BY <1>1, <3>1 DEF NotYetTracked
  <2>f. EffectKnown'
    BY <1>1, <2>7, OthersFacts DEF EffectKnown, Inv, OwnershipInv
  <2>g. AtMostOneEffect' /\ RetryableMeansNoEffect'
    BY <1>1 DEF AtMostOneEffect, RetryableMeansNoEffect, Inv, OwnershipInv
  <2> QED
    BY <2>a, <2>b, <2>c, <2>d, <2>e, <2>f, <2>g DEF OwnershipInv
<1> QED
  BY <1>4, <1>5 DEF TrackEffect

(* The steps between claim and outcome. *)
LEMMA ExecuteKeeps ==
    ASSUME Inv, TypeInv', NEW r \in Runs, Execute(r)
    PROVE  OwnershipInv'
<1>0. RunTypes /\ effect \in [Keys -> Nat]
  BY TypeInvParts DEF Inv
<1>1. CASE DispatchReturns(r) \/ DispatchRaises(r)
  BY <1>1, DispatchKeeps
<1>2. CASE TrackEffect(r)
  BY <1>2, TrackKeeps
<1>3. CASE Complete(r) \/ Settle(r)
  BY <1>3, CompleteKeeps
<1>4. CASE GuardPasses(r)
  <2>1. /\ Others(r) /\ rows' = rows /\ effect' = effect /\ executed' = executed
        /\ at' = at /\ pc[r] = "guard" /\ pc'[r] = "dispatch"
    BY <1>0, <1>4, MoveFrame DEF GuardPasses, ledgerVars
  <2>2. Holding(r) /\ Holding(r)'
    BY <2>1 DEF Holding
  <2>3. effect[Key(r)] = 0 /\ ~Tracked(r, Key(r))
    BY <2>1 DEF Inv, OwnershipInv, EffectKnown, NotYetTracked
  <2> QED
    BY <2>1, <2>2, <2>3, AttemptStep
<1>5. CASE GuardRefuses(r) \/ DispatchCertifiesNothing(r)
  <2>1. /\ Others(r) /\ rows' = rows /\ effect' = effect /\ executed' = executed
        /\ at' = at /\ pc[r] \in {"guard", "dispatch"} /\ pc'[r] = "settle"
    BY <1>0, <1>5, RaiseFrame DEF GuardRefuses, DispatchCertifiesNothing, ledgerVars
  <2>2. Holding(r) /\ Holding(r)'
    BY <2>1 DEF Holding
  <2>3. effect[Key(r)] = 0 /\ ~Tracked(r, Key(r))
    BY <2>1 DEF Inv, OwnershipInv, EffectKnown, NotYetTracked
  <2> QED
    BY <2>1, <2>2, <2>3, AttemptStep
<1>6. CASE TrackFails(r) \/ VerifyFails(r) \/ CompleteFails(r)
  <2>1. /\ Others(r) /\ rows' = rows /\ effect' = effect /\ executed' = executed
        /\ at' = at /\ pc[r] \in {"returned", "verify", "complete"}
        /\ pc'[r] = "settle" /\ result'[r] = result[r]
    BY <1>0, <1>6, RaiseFrame DEF TrackFails, VerifyFails, CompleteFails, ledgerVars
  <2>2. Holding(r) /\ Holding(r)'
    BY <2>1 DEF Holding
  <2>3. result'[r] # NoResult
    BY <2>1 DEF Inv, OwnershipInv, ProgramOrder
  <2>4. SettledStatus(r)' # "failed"
    BY <2>3 DEF SettledStatus
  <2> QED
    BY <2>1, <2>2, <2>3, <2>4, AttemptStep
<1>7. CASE VerifyConfirms(r)
  <2>1. /\ Others(r) /\ rows' = rows /\ effect' = effect /\ executed' = executed
        /\ at' = at /\ pc[r] = "verify" /\ pc'[r] = "complete"
        /\ effect[Key(r)] > 0
    BY <1>0, <1>7, MoveFrame DEF VerifyConfirms, CanConfirm, ledgerVars
  <2>2. Holding(r) /\ Holding(r)'
    BY <2>1 DEF Holding
  <2>3. Key(r) \in Keys
    BY <2>2, HeldKey
  <2>4. effect[Key(r)] = 1
    BY <1>0, <2>1, <2>3 DEF Inv, OwnershipInv, AtMostOneEffect
  <2> QED
    BY <2>1, <2>2, <2>4, AttemptStep
<1>8. CASE SettleFails(r)
  <2>1. /\ Others(r) /\ rows' = rows /\ effect' = effect
        /\ executed'[r] = executed[r] /\ pc'[r] \in {"loop", "rollback"}
    BY <1>0, <1>8, CompensateFrame DEF SettleFails, ledgerVars
  <2>2. ~Holding(r)' /\ pc'[r] # "clear"
    BY <2>1 DEF Holding
  <2> QED
    BY <2>1, <2>2, QuietStep
<1> QED
  BY <1>1, <1>2, <1>3, <1>4, <1>5, <1>6, <1>7, <1>8 DEF Execute

-----------------------------------------------------------------------------
(* What a rollback step touches belongs to the run that takes it. *)
LEMMA RollbackOwns ==
    ASSUME Inv, NEW r \in Runs, executed[r] # <<>>,
           pc[r] \in {"rollback", "clear"}
    PROVE  /\ LastTracked(r) \in Keys
           /\ Tracked(r, LastTracked(r))
           /\ \A s \in Runs \ {r} : ~Tracked(s, LastTracked(r))
           /\ \A s \in Runs : Holding(s) =>
                 s # r /\ Key(s) \in Keys \ {LastTracked(r)}
<1>1. /\ Len(executed[r]) \in Nat \ {0} /\ LastTracked(r) \in Keys
  BY UntrackFacts, TypeInvParts DEF Inv
<1>2. Tracked(r, LastTracked(r))
  BY <1>1 DEF Tracked, LastTracked
<1>3. \A s \in Runs \ {r} : ~Tracked(s, LastTracked(r))
  BY <1>1, <1>2, OneOwner
<1>4. \A s \in Runs : Holding(s) => s # r /\ Key(s) \in Keys \ {LastTracked(r)}
  BY <1>1, <1>2, HeldKey, OneOwner DEF Attempting, Holding
<1> QED
  BY <1>1, <1>2, <1>3, <1>4

(* An effect leaves the list of effects to undo, with its effect undone or *)
(* not and its row kept or deleted.                                        *)
LEMMA UntrackKeeps ==
    ASSUME Inv, TypeInv', NEW r \in Runs, Others(r), executed[r] # <<>>,
           pc[r] \in {"rollback", "clear"}, pc'[r] = "rollback",
           executed' = Untracked(r),
           effect' \in {effect, [effect EXCEPT ![LastTracked(r)] = 0]},
           \A j \in Keys \ {LastTracked(r)} : rows'[j] = rows[j],
           \/ rows'[LastTracked(r)] = rows[LastTracked(r)]
           \/ effect'[LastTracked(r)] = 0
    PROVE  OwnershipInv'
<1> DEFINE k == LastTracked(r)
           n == Len(executed[r])
<1>0. RunTypes /\ LedgerTypeOK /\ effect \in [Keys -> Nat]
  BY TypeInvParts DEF Inv
<1>1. /\ k \in Keys /\ Tracked(r, k)
      /\ \A s \in Runs \ {r} : ~Tracked(s, k)
      /\ \A s \in Runs : Holding(s) => s # r /\ Key(s) \in Keys \ {k}
  BY RollbackOwns
<1>2. /\ n \in Nat \ {0} /\ Len(executed'[r]) = n - 1
      /\ \A i \in 1..(n - 1) : executed'[r][i] = executed[r][i]
  BY <1>0, UntrackFacts
<1>3. \A i, j \in 1..n : executed[r][i] = executed[r][j] => i = j
  BY DEF Inv, OwnershipInv, TrackedOnce
<1>4. \A j \in Keys : Tracked(r, j)' <=> Tracked(r, j) /\ j # k
  <2> SUFFICES ASSUME NEW j \in Keys
               PROVE  Tracked(r, j)' <=> Tracked(r, j) /\ j # k
    OBVIOUS
  <2>1. k = executed[r][n]
    BY DEF LastTracked
  <2>2. Tracked(r, j)' <=> \E i \in 1..(n - 1) : executed[r][i] = j
    BY <1>2 DEF Tracked
  <2>3. Tracked(r, j) <=> \E i \in 1..n : executed[r][i] = j
    BY DEF Tracked
  <2>4. 1..n = 1..(n - 1) \cup {n} /\ n \notin 1..(n - 1)
    BY <1>2
  <2> HIDE DEF k, n
  <2> QED
    BY <1>3, <2>1, <2>2, <2>3, <2>4
<1>5. \A s \in Runs \ {r}, j \in Keys : Tracked(s, j)' <=> Tracked(s, j)
  BY OthersFacts
<1>6. /\ effect'[k] \in {0, effect[k]}
      /\ \A j \in Keys \ {k} : effect'[j] = effect[j]
  BY <1>0, <1>1
<1>7. ~Holding(r)'
  BY DEF Holding
<1>a. ProgramOrder'
  BY DEF TypeInv
<1>b. ClaimHeld'
  <2> SUFFICES ASSUME NEW s \in Runs, Holding(s)'
               PROVE  OwnsClaim(Key(s), Fp(s), Token(s))'
    BY DEF ClaimHeld
  <2>1. s # r
    BY <1>7
  <2>2. Holding(s) /\ Key(s)' = Key(s) /\ Fp(s)' = Fp(s) /\ Token(s)' = Token(s)
    BY <2>1, OthersFacts
  <2>3. rows'[Key(s)] = rows[Key(s)]
    BY <1>1, <2>2
  <2> QED
    BY <2>2, <2>3 DEF ClaimHeld, OwnsClaim, Inv, OwnershipInv
<1>c. TrackedRow'
  BY <1>1, <1>4, <1>5 DEF TrackedRow, Inv, OwnershipInv
<1>d. TrackedOnce'
  <2>1. \A s, q \in Runs, j \in Keys : Tracked(s, j)' /\ Tracked(q, j)' => s = q
    BY <1>4, <1>5 DEF TrackedOnce, Inv, OwnershipInv
  <2>2. \A i, j \in 1..Len(executed'[r]) :
           executed'[r][i] = executed'[r][j] => i = j
    BY SMTT(30), <1>2, <1>3
  <2>3. \A s \in Runs \ {r} : \A i, j \in 1..Len(executed'[s]) :
           executed'[s][i] = executed'[s][j] => i = j
    BY OthersFacts DEF TrackedOnce, Inv, OwnershipInv
  <2> QED
    BY <2>1, <2>2, <2>3 DEF TrackedOnce
<1>e. NotYetTracked'
  <2> SUFFICES ASSUME NEW s \in Runs, pc'[s] \in {"guard", "dispatch", "returned"}
                        \/ (pc'[s] = "settle" /\ result'[s] = NoResult)
               PROVE  ~Tracked(s, Key(s))'
    BY DEF NotYetTracked
  <2>1. s # r
    OBVIOUS
  <2> QED
    BY <2>1 DEF NotYetTracked, Others, Tracked, Key, Inv, OwnershipInv
<1>f. EffectKnown'
  <2>1. ASSUME NEW s \in Runs \ {r}, Holding(s)
        PROVE  effect'[Key(s)] = effect[Key(s)]
    BY <1>1, <1>6, <2>1
  <2>2. ASSUME NEW s \in Runs \ {r}, pc[s] = "clear"
        PROVE  effect'[LastTracked(s)] = effect[LastTracked(s)]
    <3>1. executed[s] # <<>>
      BY <2>2 DEF Inv, OwnershipInv, ProgramOrder
    <3>2. LastTracked(s) \in Keys /\ Tracked(s, LastTracked(s))
      BY <2>2, <3>1, RollbackOwns
    <3> QED
      BY <1>1, <1>6, <3>2
  <2>3. \A s \in Runs \ {r} :
           /\ pc'[s] \in {"guard", "dispatch"} => effect'[Key(s)] = 0
           /\ pc'[s] = "complete" => effect'[Key(s)] = 1
           /\ pc'[s] = "settle" /\ SettledStatus(s)' = "failed"
                => effect'[Key(s)] = 0
           /\ pc'[s] = "clear" => effect'[LastTracked(s)] = 0
    BY <2>1, <2>2, OthersFacts DEF EffectKnown, Holding, Inv, OwnershipInv
  <2> QED
    BY <2>3, OthersFacts DEF EffectKnown
<1>g. AtMostOneEffect'
  BY <1>6 DEF AtMostOneEffect, Inv, OwnershipInv
<1>h. RetryableMeansNoEffect'
  <2>1. rows[k].status \notin {"absent", "failed"}
    BY <1>1 DEF TrackedRow, Inv, OwnershipInv
  <2>2. rows'[k].status \in {"absent", "failed"} => effect'[k] = 0
    BY <2>1
  <2> QED
    BY <1>6, <2>2 DEF RetryableMeansNoEffect, Inv, OwnershipInv
<1> QED
  BY <1>a, <1>b, <1>c, <1>d, <1>e, <1>f, <1>g, <1>h DEF OwnershipInv

(* The last tracked effect is undone; it stays on the list until its row   *)
(* is cleared.                                                             *)
LEMMA UndoKeeps ==
    ASSUME Inv, TypeInv', NEW r \in Runs, Compensate(r)
    PROVE  OwnershipInv'
<1> DEFINE k == LastTracked(r)
<1>0. RunTypes /\ effect \in [Keys -> Nat]
  BY TypeInvParts DEF Inv
<1>1. /\ Others(r) /\ executed' = executed /\ at' = at /\ pc'[r] = "clear"
      /\ rows' = rows
  BY <1>0, MoveFrame DEF Compensate, ledgerVars
<1>2. /\ k \in Keys /\ Tracked(r, k)
      /\ \A s \in Runs \ {r} : ~Tracked(s, k)
      /\ \A s \in Runs : Holding(s) => s # r /\ Key(s) \in Keys \ {k}
  BY RollbackOwns DEF Compensate
<1>3. effect'[k] = 0 /\ \A j \in Keys \ {k} : effect'[j] = effect[j]
  BY <1>0, <1>2 DEF Compensate
<1>4. \A s \in Runs, j \in Keys : Tracked(s, j)' <=> Tracked(s, j)
  BY <1>1 DEF Tracked
<1>5. ~Holding(r)'
  BY <1>1 DEF Holding
<1>a. ProgramOrder'
  BY DEF TypeInv
<1>b. ClaimHeld'
  BY <1>1, <1>5, OthersFacts DEF ClaimHeld, OwnsClaim, Inv, OwnershipInv
<1>c. TrackedRow' /\ TrackedOnce'
  BY <1>1, <1>4 DEF TrackedRow, TrackedOnce, Inv, OwnershipInv
<1>d. NotYetTracked'
  <2> SUFFICES ASSUME NEW s \in Runs, pc'[s] \in {"guard", "dispatch", "returned"}
                        \/ (pc'[s] = "settle" /\ result'[s] = NoResult)
               PROVE  ~Tracked(s, Key(s))'
    BY DEF NotYetTracked
  <2>1. s # r
    BY <1>1
  <2> QED
    BY <1>1, <2>1 DEF NotYetTracked, Others, Tracked, Key, Inv, OwnershipInv
<1>e. EffectKnown'
  <2>1. ASSUME NEW s \in Runs \ {r}, Holding(s)
        PROVE  effect'[Key(s)] = effect[Key(s)]
    BY <1>2, <1>3, <2>1
  <2>2. ASSUME NEW s \in Runs \ {r}, pc[s] = "clear"
        PROVE  effect'[LastTracked(s)] = effect[LastTracked(s)]
    <3>1. executed[s] # <<>>
      BY <2>2 DEF Inv, OwnershipInv, ProgramOrder
    <3>2. LastTracked(s) \in Keys /\ Tracked(s, LastTracked(s))
      BY <2>2, <3>1, RollbackOwns
    <3> QED
      BY <1>2, <1>3, <3>2
  <2>3. \A s \in Runs \ {r} :
           /\ pc'[s] \in {"guard", "dispatch"} => effect'[Key(s)] = 0
           /\ pc'[s] = "complete" => effect'[Key(s)] = 1
           /\ pc'[s] = "settle" /\ SettledStatus(s)' = "failed"
                => effect'[Key(s)] = 0
           /\ pc'[s] = "clear" => effect'[LastTracked(s)] = 0
    BY <1>1, <2>1, <2>2, OthersFacts DEF EffectKnown, Holding, Inv, OwnershipInv
  <2>4. LastTracked(r)' = k
    BY <1>1 DEF LastTracked
  <2> QED
    BY <1>1, <1>3, <2>3, <2>4, OthersFacts DEF EffectKnown
<1>f. AtMostOneEffect' /\ RetryableMeansNoEffect'
  BY <1>1, <1>3 DEF AtMostOneEffect, RetryableMeansNoEffect, Inv, OwnershipInv
<1> QED
  BY <1>a, <1>b, <1>c, <1>d, <1>e, <1>f DEF OwnershipInv

(* _maybe_compensate. *)
LEMMA RollbackKeeps ==
    ASSUME Inv, TypeInv', NEW r \in Runs, Rollback(r)
    PROVE  OwnershipInv'
<1>0. RunTypes /\ LedgerTypeOK /\ effect \in [Keys -> Nat]
  BY TypeInvParts DEF Inv
<1>1. CASE Compensate(r)
  BY <1>1, UndoKeeps
<1>2. CASE CompensationFails(r)
  <2>1. /\ executed[r] # <<>> /\ pc[r] = "rollback" /\ pc'[r] = "rollback"
        /\ executed' = Untracked(r) /\ rows' = rows
        /\ effect' \in {effect, [effect EXCEPT ![LastTracked(r)] = 0]}
    BY <1>2 DEF CompensationFails, ledgerVars
  <2>2. Others(r)
    BY <1>0, <1>2, <2>1, UntrackFacts DEF CompensationFails, Others
  <2> QED
    BY <2>1, <2>2, UntrackKeeps
<1>3. CASE ClearFails(r) \/ ClearCompensated(r)
  <2>1. /\ pc[r] = "clear" /\ pc'[r] = "rollback"
        /\ executed' = Untracked(r) /\ effect' = effect
    BY <1>0, <1>3 DEF ClearFails, ClearCompensated, RunTypes
  <2>2. executed[r] # <<>>
    BY <2>1 DEF Inv, OwnershipInv, ProgramOrder
  <2>3. Others(r)
    <3>1. \A s \in Runs \ {r} : executed'[s] = executed[s]
      BY <1>0, <2>1, <2>2, UntrackFacts
    <3> QED
      BY <1>0, <1>3, <3>1 DEF ClearFails, ClearCompensated, Others, RunTypes
  <2>4. effect'[LastTracked(r)] = 0
    BY <2>1 DEF Inv, OwnershipInv, EffectKnown
  <2>5. \A j \in Keys \ {LastTracked(r)} : rows'[j] = rows[j]
    BY <1>0, <1>3
    DEF ClearFails, ClearCompensated, ClearCompleted, ledgerVars, LedgerTypeOK
  <2> QED
    BY <2>1, <2>2, <2>3, <2>4, <2>5, UntrackKeeps
<1>4. CASE EndRollback(r)
  <2>1. /\ Others(r) /\ rows' = rows /\ effect' = effect
        /\ executed'[r] = executed[r] /\ pc'[r] = "loop"
    BY <1>0, <1>4 DEF EndRollback, Others, ledgerVars, RunTypes
  <2>2. ~Holding(r)' /\ pc'[r] # "clear"
    BY <2>1 DEF Holding
  <2> QED
    BY <2>1, <2>2, QuietStep
<1> QED
  BY <1>1, <1>2, <1>3, <1>4 DEF Rollback

-----------------------------------------------------------------------------
LEMMA InitOwns == Init => Inv
<1> SUFFICES ASSUME Init
             PROVE  Inv
  OBVIOUS
<1>1. TypeInv
  BY InitTypes
<1>2. \A r \in Runs : pc[r] = "idle" /\ executed[r] = <<>>
  BY DEF Init
<1>3. \A r \in Runs : ~Holding(r) /\ \A k \in Keys : ~Tracked(r, k)
  BY <1>2 DEF Holding, Tracked
<1>4. ProgramOrder
  BY <1>1 DEF TypeInv
<1>5. ClaimHeld /\ TrackedRow
  BY <1>3 DEF ClaimHeld, TrackedRow
<1>6. TrackedOnce
  BY <1>2, <1>3 DEF TrackedOnce
<1>7. NotYetTracked /\ EffectKnown
  BY <1>2 DEF NotYetTracked, EffectKnown
<1>8. AtMostOneEffect /\ RetryableMeansNoEffect
  BY DEF Init, AtMostOneEffect, RetryableMeansNoEffect
<1> QED
  BY <1>1, <1>4, <1>5, <1>6, <1>7, <1>8 DEF Inv, OwnershipInv

LEMMA StutterOwns == Inv /\ UNCHANGED vars => Inv'
<1> SUFFICES ASSUME Inv, UNCHANGED vars
             PROVE  Inv'
  OBVIOUS
<1>1. TypeInv'
  BY NextTypes DEF Inv
<1>2. /\ \A r \in Runs : Holding(r)' <=> Holding(r)
      /\ \A r \in Runs : SettledStatus(r)' = SettledStatus(r)
      /\ \A r \in Runs : Key(r)' = Key(r) /\ LastTracked(r)' = LastTracked(r)
      /\ \A r \in Runs : Fp(r)' = Fp(r) /\ Token(r)' = Token(r)
  BY DEF vars, Holding, SettledStatus, Key, LastTracked, Fp, Token
<1>3. ClaimHeld' /\ EffectKnown'
  BY <1>2 DEF vars, Inv, OwnershipInv, ClaimHeld, OwnsClaim, EffectKnown
<1>4. TrackedRow' /\ TrackedOnce' /\ NotYetTracked'
  BY DEF vars, Inv, OwnershipInv, TrackedRow, TrackedOnce, NotYetTracked,
     Tracked, Key
<1>5. AtMostOneEffect' /\ RetryableMeansNoEffect'
  BY DEF vars, Inv, OwnershipInv, AtMostOneEffect, RetryableMeansNoEffect
<1> QED
  BY <1>1, <1>3, <1>4, <1>5 DEF Inv, OwnershipInv, TypeInv

LEMMA NextOwns == Inv /\ [Next]_vars => Inv'
<1> SUFFICES ASSUME Inv, [Next]_vars
             PROVE  Inv'
  OBVIOUS
<1>1. TypeInv'
  BY NextTypes DEF Inv
<1>2. CASE UNCHANGED vars
  BY <1>2, StutterOwns
<1>3. ASSUME NEW r \in Runs, Step(r) \/ Crash(r)
      PROVE  OwnershipInv'
  BY <1>1, <1>3, OutsideKeeps, ClaimKeeps, ExecuteKeeps, RollbackKeeps DEF Step
<1> QED
  BY <1>1, <1>2, <1>3 DEF Next, Inv

(* The inductive invariant holds in every reachable state: a run inside an *)
(* attempt owns its row, and the row of an effect that may have to be      *)
(* undone is not given away (claim_action, complete_action,                *)
(* _maybe_compensate).                                                     *)
THEOREM OwnershipHolds == Spec => []OwnershipInv
<1>1. Spec => []Inv
  BY InitOwns, NextOwns, PTL DEF Spec
<1>2. Inv => OwnershipInv
  BY DEF Inv
<1> QED
  BY <1>1, <1>2, PTL

(* For any number of runs, keys, crashes and retries: a key never has two  *)
(* effects standing at the provider.                                       *)
THEOREM EffectsAreSingle == Spec => []AtMostOneEffect
<1>1. OwnershipInv => AtMostOneEffect
  BY DEF OwnershipInv
<1> QED
  BY <1>1, OwnershipHolds, PTL

(* A key that claim_action would grant again has no effect standing. *)
THEOREM RetriesAreSafe == Spec => []RetryableMeansNoEffect
<1>1. OwnershipInv => RetryableMeansNoEffect
  BY DEF OwnershipInv
<1> QED
  BY <1>1, OwnershipHolds, PTL

(* No two runs are at work on the same key, between claim and outcome or   *)
(* between outcome and rollback.                                           *)
THEOREM OwnersAreSingle == Spec => []SingleOwner
<1>1. Spec => []Inv
  BY InitOwns, NextOwns, PTL DEF Spec
<1>2. Inv => SingleOwner
  <2> SUFFICES ASSUME Inv, NEW r \in Runs, NEW s \in Runs, r # s, NEW k \in Keys,
                      Attempting(r, k) \/ Tracked(r, k),
                      Attempting(s, k) \/ Tracked(s, k)
               PROVE  FALSE
    BY DEF SingleOwner
  <2> QED
    BY OneOwner
<1> QED
  BY <1>1, <1>2, PTL

-----------------------------------------------------------------------------
(***************************************************************************)
(* The orchestrator with its ledger implements EffectOnce: every step of   *)
(* every run maps to a step of the abstract specification or to none.      *)
(***************************************************************************)
phaseMap == [k \in Keys |-> PhaseOf(rows[k].status)]

(* What an abstract step is, in terms of rows and effects. *)
AbstractStep == [Promise!SpecNext]_(Promise!specVars)

(* A step that changes only the row of k maps to a change of k's phase. *)
LEMMA RowMaps ==
    ASSUME TypeInv, TypeInv', NEW k \in Keys,
           \A j \in Keys \ {k} : rows'[j] = rows[j]
    PROVE  phaseMap' = [phaseMap EXCEPT ![k] = PhaseOf(rows'[k].status)]
  BY DEF phaseMap, PhaseOf

LEMMA SameRowsMap ==
    ASSUME rows' = rows, effect' = effect
    PROVE  AbstractStep
  BY DEF AbstractStep, Promise!specVars, PhaseOf

(* A row is settled, promoted, reopened or reserved while effects stay. *)
LEMMA RowStepMaps ==
    ASSUME Inv, TypeInv', NEW k \in Keys, effect' = effect,
           \A j \in Keys \ {k} : rows'[j] = rows[j],
           \/ rows[k].status \in {"absent", "failed"} /\ rows'[k].status = "pending"
           \/ /\ rows[k].status = "pending" /\ rows'[k].status = "completed"
              /\ effect[k] = 1
           \/ rows[k].status = "pending" /\ rows'[k].status = "indeterminate"
           \/ rows[k].status = "indeterminate" /\ rows'[k].status = "completed"
           \/ /\ rows[k].status \notin {"absent", "failed"}
              /\ rows'[k].status \in {"absent", "failed"} /\ effect[k] = 0
           \/ rows'[k] = rows[k]
    PROVE  AbstractStep
<1>1. phaseMap' = [phaseMap EXCEPT ![k] = PhaseOf(rows'[k].status)]
  BY RowMaps DEF Inv
<1>2. phaseMap[k] = PhaseOf(rows[k].status)
  BY DEF phaseMap
<1>3. rows[k].status \in {"absent", "failed"} => effect[k] = 0
  BY DEF Inv, OwnershipInv, RetryableMeansNoEffect
<1>4. CASE rows'[k] = rows[k]
  <2>1. \A j \in Keys : rows'[j] = rows[j]
    BY <1>4
  <2>2. phaseMap' = phaseMap
    BY <2>1 DEF phaseMap
  <2> QED
    BY <2>2 DEF AbstractStep, Promise!specVars, phaseMap
<1>5. CASE rows[k].status \in {"absent", "failed"} /\ rows'[k].status = "pending"
  <2>1. Promise!Reserve(k)
    BY <1>1, <1>2, <1>3, <1>5
    DEF Promise!Reserve, Promise!Enter, PhaseOf, phaseMap
  <2> QED
    BY <2>1 DEF AbstractStep, Promise!SpecNext
<1>6. CASE /\ rows[k].status = "pending" /\ rows'[k].status = "completed"
           /\ effect[k] = 1
  <2>1. Promise!Confirm(k)
    BY <1>1, <1>2, <1>6 DEF Promise!Confirm, Promise!Enter, PhaseOf, phaseMap
  <2> QED
    BY <2>1 DEF AbstractStep, Promise!SpecNext
<1>7. CASE rows[k].status = "pending" /\ rows'[k].status = "indeterminate"
  <2>1. Promise!Doubt(k)
    BY <1>1, <1>2, <1>7 DEF Promise!Doubt, Promise!Enter, PhaseOf, phaseMap
  <2> QED
    BY <2>1 DEF AbstractStep, Promise!SpecNext
<1>8. CASE rows[k].status = "indeterminate" /\ rows'[k].status = "completed"
  <2>1. Promise!Reconcile(k)
    BY <1>1, <1>2, <1>8 DEF Promise!Reconcile, Promise!Enter, PhaseOf, phaseMap
  <2> QED
    BY <2>1 DEF AbstractStep, Promise!SpecNext
<1>9. CASE /\ rows[k].status \notin {"absent", "failed"}
           /\ rows'[k].status \in {"absent", "failed"} /\ effect[k] = 0
  <2>1. Promise!Reopen(k)
    BY <1>1, <1>2, <1>9 DEF Promise!Reopen, Promise!Enter, PhaseOf, phaseMap
  <2> QED
    BY <2>1 DEF AbstractStep, Promise!SpecNext
<1> QED
  BY <1>4, <1>5, <1>6, <1>7, <1>8, <1>9

(* The provider makes or undoes the effect of k while rows stay. *)
LEMMA EffectStepMaps ==
    ASSUME Inv, NEW k \in Keys, rows' = rows,
           \/ effect' = effect
           \/ /\ rows[k].status = "pending" /\ effect[k] = 0
              /\ effect' = [effect EXCEPT ![k] = 1]
           \/ /\ rows[k].status \notin {"absent", "failed"}
              /\ effect' = [effect EXCEPT ![k] = 0]
    PROVE  AbstractStep
<1>0. effect \in [Keys -> Nat] /\ effect[k] \in {0, 1}
  BY TypeInvParts DEF Inv, OwnershipInv, AtMostOneEffect
<1>1. phaseMap' = phaseMap /\ phaseMap[k] = PhaseOf(rows[k].status)
  BY DEF phaseMap
<1>2. CASE effect' = effect
  BY <1>2, SameRowsMap
<1>3. CASE /\ rows[k].status = "pending" /\ effect[k] = 0
           /\ effect' = [effect EXCEPT ![k] = 1]
  <2>1. Promise!Apply(k)
    BY <1>1, <1>3 DEF Promise!Apply, PhaseOf, phaseMap
  <2> QED
    BY <2>1 DEF AbstractStep, Promise!SpecNext
<1>4. CASE /\ rows[k].status \notin {"absent", "failed"} /\ effect[k] = 1
           /\ effect' = [effect EXCEPT ![k] = 0]
  <2>1. Promise!Undo(k)
    BY <1>1, <1>4 DEF Promise!Undo, PhaseOf, phaseMap
  <2> QED
    BY <2>1 DEF AbstractStep, Promise!SpecNext
<1>5. CASE effect[k] = 0 /\ effect' = [effect EXCEPT ![k] = 0]
  <2>1. effect' = effect
    BY <1>0, <1>5
  <2> QED
    BY <1>2, <2>1
<1> QED
  BY <1>0, <1>2, <1>3, <1>4, <1>5

-----------------------------------------------------------------------------
(* The steps on the answer of claim_action. *)
LEMMA ClaimMaps ==
    ASSUME Inv, TypeInv', NEW r \in Runs, Claim(r)
    PROVE  AbstractStep
<1> DEFINE k == Key(r)
<1>0. RunTypes /\ LedgerTypeOK
  BY TypeInvParts DEF Inv
<1>1. CASE ClaimGranted(r)
  <2>1. at[r] <= Len(Plan)
    BY <1>1 DEF ClaimGranted, Applying, Eligible, InHand
  <2>2. k \in Keys
    BY <1>0, <2>1, InHandTypes
  <2>3. /\ rows[k].status \in {"absent", "failed"}
        /\ rows'[k].status = "pending" /\ effect' = effect
        /\ \A j \in Keys \ {k} : rows'[j] = rows[j]
    BY <1>0, <1>1, <2>2
    DEF ClaimGranted, ClaimAction, ClaimState, LedgerTypeOK, Row, RowStatus
  <2> QED
    BY <2>2, <2>3, RowStepMaps
<1>2. CASE ResolveIndeterminate(r)
  <2>1. k \in Keys
    BY <1>2, HeldKey DEF ResolveIndeterminate
  <2>2. /\ rows[k].status = "indeterminate" /\ rows'[k].status = "completed"
        /\ effect' = effect /\ \A j \in Keys \ {k} : rows'[j] = rows[j]
    BY <1>0, <1>2, <2>1
    DEF ResolveIndeterminate, ResolveIndeterminateAction, CanResolve, LedgerTypeOK
  <2> QED
    BY <2>1, <2>2, RowStepMaps
<1>3. CASE ~ClaimGranted(r) /\ ~ResolveIndeterminate(r)
  <2>1. rows' = rows /\ effect' = effect
    BY <1>3 DEF Claim, ClaimRefused, ClaimFindsOutcome, ReuseCompleted,
       ReuseUnconfirmed, ReconcileConfirmed, ledgerVars
  <2> QED
    BY <2>1, SameRowsMap
<1> QED
  BY <1>1, <1>2, <1>3

(* The steps between claim and outcome. *)
LEMMA ExecuteMaps ==
    ASSUME Inv, TypeInv', NEW r \in Runs, Execute(r)
    PROVE  AbstractStep
<1> DEFINE k == Key(r)
<1>0. LedgerTypeOK /\ effect \in [Keys -> Nat]
  BY TypeInvParts DEF Inv
<1>1. Holding(r)
  BY DEF Holding, Execute, GuardPasses, GuardRefuses, DispatchReturns,
     DispatchCertifiesNothing, DispatchRaises, TrackEffect, TrackFails,
     VerifyConfirms, VerifyFails, Complete, CompleteFails, Settle, SettleFails
<1>2. k \in Keys /\ rows[k].status = "pending"
  BY <1>1, HeldKey DEF Inv, OwnershipInv, ClaimHeld, OwnsClaim
<1>3. CASE DispatchReturns(r) \/ DispatchRaises(r)
  <2>1. effect[k] = 0
    BY <1>3 DEF DispatchReturns, DispatchRaises, Inv, OwnershipInv, EffectKnown
  <2>2. /\ rows' = rows
        /\ effect' = effect \/ effect' = [effect EXCEPT ![k] = 1]
    BY <1>0, <1>2, <1>3, <2>1 DEF DispatchReturns, DispatchRaises, ledgerVars
  <2> QED
    BY <1>2, <2>1, <2>2, EffectStepMaps
<1>4. CASE Complete(r)
  <2>1. effect[k] = 1 /\ effect' = effect
    BY <1>4 DEF Complete, Inv, OwnershipInv, EffectKnown
  <2>2. /\ rows'[k].status = "completed"
        /\ \A j \in Keys \ {k} : rows'[j] = rows[j]
    BY <1>0, <1>2, <1>4 DEF Complete, CompleteAction, LedgerTypeOK
  <2> QED
    BY <1>2, <2>1, <2>2, RowStepMaps
<1>5. CASE Settle(r)
  <2>1. /\ rows'[k].status = SettledStatus(r) /\ effect' = effect
        /\ \A j \in Keys \ {k} : rows'[j] = rows[j]
    BY <1>0, <1>2, <1>5 DEF Settle, FinishActionClaim, LedgerTypeOK
  <2>2. \/ SettledStatus(r) = "indeterminate"
        \/ SettledStatus(r) = "failed" /\ effect[k] = 0
    BY <1>5 DEF Settle, SettledStatus, Inv, OwnershipInv, EffectKnown
  <2> QED
    BY <1>2, <2>1, <2>2, RowStepMaps
<1>6. CASE UNCHANGED <<ledgerVars, effect>>
  BY <1>6, SameRowsMap DEF ledgerVars
<1> QED
  BY <1>3, <1>4, <1>5, <1>6
  DEF Execute, GuardPasses, GuardRefuses, DispatchCertifiesNothing, TrackEffect,
      TrackFails, VerifyConfirms, VerifyFails, CompleteFails, SettleFails

(* _maybe_compensate. *)
LEMMA RollbackMaps ==
    ASSUME Inv, TypeInv', NEW r \in Runs, Rollback(r)
    PROVE  AbstractStep
<1> DEFINE k == LastTracked(r)
<1>0. LedgerTypeOK
  BY TypeInvParts DEF Inv
<1>1. CASE executed[r] # <<>> /\ pc[r] \in {"rollback", "clear"}
  <2>1. k \in Keys /\ Tracked(r, k)
    BY <1>1, RollbackOwns
  <2>2. rows[k].status \notin {"absent", "failed"}
    BY <2>1 DEF Inv, OwnershipInv, TrackedRow
  <2>3. CASE CompensationFails(r) \/ Compensate(r)
    <3>1. /\ rows' = rows
          /\ effect' = effect \/ effect' = [effect EXCEPT ![k] = 0]
      BY <2>3 DEF CompensationFails, Compensate, ledgerVars
    <3> QED
      BY <2>1, <2>2, <3>1, EffectStepMaps
  <2>4. CASE ClearCompensated(r)
    <3>1. effect[k] = 0 /\ effect' = effect
      BY <2>4 DEF ClearCompensated, Inv, OwnershipInv, EffectKnown
    <3>2. /\ rows'[k] = rows[k] \/ rows'[k].status = "absent"
          /\ \A j \in Keys \ {k} : rows'[j] = rows[j]
      BY <1>0, <2>1, <2>4
      DEF ClearCompensated, ClearCompleted, NoRow, LedgerTypeOK
    <3> QED
      BY <2>1, <2>2, <3>1, <3>2, RowStepMaps
  <2>5. CASE ClearFails(r) \/ EndRollback(r)
    BY <2>5, SameRowsMap DEF ClearFails, EndRollback, ledgerVars
  <2> QED
    BY <2>3, <2>4, <2>5 DEF Rollback
<1>2. CASE EndRollback(r)
  BY <1>2, SameRowsMap DEF EndRollback, ledgerVars
<1>3. EndRollback(r) \/ (executed[r] # <<>> /\ pc[r] \in {"rollback", "clear"})
  BY DEF Rollback, CompensationFails, Compensate, ClearCompensated, ClearFails,
     Inv, OwnershipInv, ProgramOrder
<1> QED
  BY <1>1, <1>2, <1>3

LEMMA NextMaps == Inv /\ Inv' /\ [Next]_vars => AbstractStep
<1> SUFFICES ASSUME Inv, Inv', [Next]_vars
             PROVE  AbstractStep
  OBVIOUS
<1>0. TypeInv'
  BY DEF Inv
<1>1. CASE UNCHANGED vars
  BY <1>1, SameRowsMap DEF vars
<1>2. ASSUME NEW r \in Runs, Start(r) \/ Gate(r) \/ Finish(r) \/ Crash(r)
      PROVE  AbstractStep
  <2>1. rows' = rows /\ effect' = effect
    BY <1>2 DEF Start, Gate, SkipRemaining, RefuseCapability,
       AwaitCoherenceReview, SkipForDependency, RefuseByPolicy, PlanOnly,
       SelectionFails, ReadOrGenerate, Finish, Crash, ledgerVars
  <2> QED
    BY <2>1, SameRowsMap
<1>3. ASSUME NEW r \in Runs, Step(r) \/ Crash(r)
      PROVE  AbstractStep
  BY <1>0, <1>2, <1>3, ClaimMaps, ExecuteMaps, RollbackMaps DEF Step
<1> QED
  BY <1>1, <1>3 DEF Next

LEMMA InitMaps == Init => Promise!SpecInit
  BY DEF Init, LedgerInit, NoRow, Promise!SpecInit, PhaseOf

(* For any plan and any number of runs, crashes and retries, what the runs *)
(* do to the ledger and the provider is a behaviour of EffectOnce: an      *)
(* effect is made only under a reservation while none stands, and a key is *)
(* open again only when no effect of it stands.                            *)
THEOREM OrchestratorImplementsEffectOnce == Spec => ImplementsEffectOnce
<1>1. Spec => []Inv
  BY InitOwns, NextOwns, PTL DEF Spec
<1>2. Inv /\ Inv' /\ [Next]_vars => [Promise!SpecNext]_(Promise!specVars)
  BY NextMaps DEF AbstractStep
<1>3. Spec => Promise!SpecInit /\ [][Promise!SpecNext]_(Promise!specVars)
  BY <1>1, <1>2, InitMaps, PTL DEF Spec
<1> QED
  BY <1>3 DEF ImplementsEffectOnce, Promise!EffectOnceSpec

-----------------------------------------------------------------------------
(* What the reports of runs say about the provider.  ReportInv is          *)
(* inductive given OwnershipInv; from the two: a claim left behind is      *)
(* explained, only a rollback falsifies a finished report, dependencies    *)
(* stand at dispatch, and effects are undone in reverse order.             *)

(* Only run r moves, and only its report changes. *)
Alone(r) == Others(r) /\ \A s \in Runs \ {r} : report'[s] = report[s]

LEMMA PlanFacts ==
    /\ Len(Plan) \in Nat
    /\ \A m \in Positions : Plan[m] \in Keys
    /\ \A m, n \in Positions : Plan[m] = Plan[n] => m = n
  BY PlanAssumption DEF Positions

LEMMA AtFacts ==
    ASSUME Inv, NEW r \in Runs
    PROVE  /\ at[r] \in Nat
           /\ at[r] <= Len(Plan) => at[r] \in Positions /\ Key(r) \in Keys
           /\ Key(r) = Plan[at[r]]
<1>1. at[r] \in 1..(Len(Plan) + 1)
  BY DEF Inv, TypeInv, TypeOK
<1> QED
  BY <1>1, PlanFacts DEF Positions, Key

(* The report on the action in hand is written while nothing of it is on   *)
(* the list of effects to undo that another run could have undone.         *)
LEMMA FreshReport ==
    ASSUME Inv, ReportInv, NEW r \in Runs, at[r] <= Len(Plan),
           pc[r] \notin {"rollback", "clear", "crashed"}
    PROVE  report[r][Key(r)] = "none"
  BY AtFacts DEF ReportInv, ReportsInOrder

LEMMA NotTrackedAhead ==
    ASSUME Inv, ReportInv, NEW r \in Runs, at[r] <= Len(Plan),
           pc[r] \notin {"verify", "complete", "settle", "rollback", "clear",
                         "crashed"}
    PROVE  ~Tracked(r, Key(r))
<1> SUFFICES ASSUME Tracked(r, Key(r))
             PROVE  FALSE
  OBVIOUS
<1>1. at[r] \in Positions /\ Key(r) \in Keys /\ Key(r) = Plan[at[r]]
  BY AtFacts
<1>2. \E m \in Positions : Plan[m] = Key(r) /\ m < at[r]
  BY <1>1 DEF ReportInv, TrackedInOrder
<1> QED
  BY <1>1, <1>2, PlanFacts, AtFacts

-----------------------------------------------------------------------------
(* The action in hand is reported and the loop moves on or rolls back. *)
LEMMA ReportStep ==
    ASSUME Inv, ReportInv, Inv', NEW r \in Runs, Alone(r),
           NEW st \in ActionStates, at[r] <= Len(Plan),
           pc[r] \notin {"rollback", "clear", "crashed"},
           report'[r] = [report[r] EXCEPT ![Key(r)] = st],
           executed'[r] = executed[r], effect' = effect,
           \/ pc'[r] = "loop" /\ at'[r] = at[r] + 1
           \/ pc'[r] = "rollback" /\ at'[r] = at[r],
           st = "VERIFIED" /\ Key(r) \in Effectful =>
              pc[r] = "complete" /\ rows'[Key(r)].status = "completed",
           st = "REUSED" =>
              /\ pc[r] \in {"reuse", "resolve"}
              /\ \/ effect[Key(r)] = 1 /\ rows'[Key(r)].status = "completed"
                 \/ \E s \in Runs \ {r} : Undone(s, Key(r)),
           \A k \in Keys :
              /\ rows'[k].status = "pending" => rows'[k] = rows[k]
              /\ rows[k].status = "completed" => rows'[k].status = "completed",
           Holding(r) => \/ rows'[Key(r)].status # "pending"
                         \/ st = "INDETERMINATE"
    PROVE  ReportInv'
<1> DEFINE k == Key(r)
<1>1. /\ at[r] \in Positions /\ at[r] \in Nat /\ k = Plan[at[r]] /\ k \in Keys
  BY AtFacts
<1>2. /\ report \in [Runs -> [Keys -> ActionStates]]
      /\ report[r][k] = "none"
  BY FreshReport DEF Inv, TypeInv, TypeOK
<1>3. /\ report'[r][k] = st
      /\ \A j \in Keys \ {k} : report'[r][j] = report[r][j]
      /\ \A s \in Runs \ {r} : report'[s] = report[s]
  BY <1>1, <1>2 DEF Alone
<1>4. \A s \in Runs, j \in Keys : Tracked(s, j)' <=> Tracked(s, j)
  BY OthersFacts DEF Alone, Tracked
<1>5. \A s \in Runs, j \in Keys : Undone(s, j) => Undone(s, j)'
  <2> SUFFICES ASSUME NEW s \in Runs, NEW j \in Keys, Undone(s, j)
               PROVE  Undone(s, j)'
    OBVIOUS
  <2>1. CASE s = r
    <3>1. report[r][j] \in {"COMPENSATED", "COMPENSATION_FAILED"}
      BY <2>1 DEF Undone
    <3>2. j # k
      BY <1>2, <3>1
    <3> QED
      BY <1>3, <2>1, <3>1, <3>2 DEF Undone
  <2>2. CASE s # r
    BY <1>3, <1>4, <2>2, OthersFacts DEF Undone, Alone
  <2> QED
    BY <2>1, <2>2
<1>a. ReportsInOrder'
  <2> SUFFICES ASSUME NEW s \in Runs, NEW i \in Positions,
                      \/ i > at'[s]
                      \/ i = at'[s] /\ pc'[s] \notin {"rollback", "clear", "crashed"}
               PROVE  report'[s][Plan[i]] = "none"
    BY DEF ReportsInOrder
  <2>1. CASE s = r
    <3>1. i > at[r] /\ i \in Nat
      BY <1>1, <2>1, PlanFacts DEF Positions
    <3>2. Plan[i] \in Keys \ {k}
      BY <1>1, <3>1, PlanFacts
    <3> QED
      BY <1>3, <2>1, <3>1, <3>2 DEF ReportInv, ReportsInOrder
  <2>2. CASE s # r
    BY <1>3, <2>2 DEF ReportInv, ReportsInOrder, Alone, Others
  <2> QED
    BY <2>1, <2>2
<1>b. TrackedInOrder'
  <2>1. ASSUME NEW s \in Runs, NEW j \in Keys, Tracked(s, j)
        PROVE  /\ j \in Reversible /\ report'[s][j] # "REUSED"
               /\ \E m \in Positions :
                     /\ Plan[m] = j
                     /\ \/ m < at'[s]
                        \/ m = at'[s] /\ pc'[s] \in {"verify", "complete",
                              "settle", "rollback", "clear", "crashed"}
    <3>1. /\ j \in Reversible /\ report[s][j] # "REUSED"
          /\ \E m \in Positions :
                /\ Plan[m] = j
                /\ \/ m < at[s]
                   \/ m = at[s] /\ pc[s] \in {"verify", "complete", "settle",
                                              "rollback", "clear", "crashed"}
      BY <2>1 DEF ReportInv, TrackedInOrder
    <3>2. CASE s = r
      <4>1. report'[r][j] # "REUSED"
        <5>1. CASE j = k /\ st = "REUSED"
          <6>1. ~Tracked(r, k)
            BY <5>1, NotTrackedAhead
          <6> QED
            BY <2>1, <3>2, <5>1, <6>1
        <5> QED
          BY <1>3, <3>1, <3>2, <5>1
      <4>2. PICK m \in Positions :
               /\ Plan[m] = j
               /\ \/ m < at[r]
                  \/ m = at[r] /\ pc[r] \in {"verify", "complete", "settle",
                                             "rollback", "clear", "crashed"}
        BY <3>1, <3>2
      <4>3. m < at'[r] \/ (m = at'[r] /\ pc'[r] = "rollback")
        BY <1>1, <4>2, PlanFacts DEF Positions
      <4> QED
        BY <3>1, <3>2, <4>1, <4>2, <4>3
    <3>3. CASE s # r
      BY <1>3, <3>1, <3>3 DEF Alone, Others
    <3> QED
      BY <3>2, <3>3
  <2>2. \A s \in Runs : executed'[s] = executed[s]
    BY DEF Alone, Others
  <2>3. \A s \in Runs : \A i, j \in 1..Len(executed'[s]) :
           i < j => Precedes(executed'[s][i], executed'[s][j])
    BY <2>2 DEF ReportInv, TrackedInOrder
  <2> QED
    BY <1>4, <2>1, <2>3 DEF TrackedInOrder, Precedes
<1>c. SeenSoFar'
  <2> SUFFICES ASSUME NEW s \in Runs
               PROVE  /\ pc'[s] \in {"guard", "dispatch"} =>
                            \A d \in Deps[Key(s)'] : Succeeded(report'[s][d])
                      /\ pc'[s] \in {"verify", "complete"} /\ Key(s)' \in Reversible
                            => Tracked(s, Key(s))'
                      /\ pc'[s] = "reuse" => rows'[Key(s)'].status = "completed"
                            \/ \E q \in Runs \ {s} : Undone(q, Key(s))'
                      /\ pc'[s] = "resolve" => effect'[Key(s)'] = 1
                            \/ \E q \in Runs \ {s} : Undone(q, Key(s))'
    BY DEF SeenSoFar
  <2>1. CASE s = r
    BY <2>1
  <2>2. CASE s # r
    <3>1. pc'[s] = pc[s] /\ Key(s)' = Key(s) /\ report'[s] = report[s]
      BY <2>2 DEF Alone, Others, Key
    <3>2. pc[s] \in {"reuse", "resolve", "verify", "complete"} => Key(s) \in Keys
      BY HeldKey DEF Holding
    <3>3. Tracked(s, Key(s))' <=> Tracked(s, Key(s))
      BY <2>2, <3>1 DEF Alone, Others, Tracked, Key
    <3>4. pc[s] \in {"reuse", "resolve"} =>
             \A q \in Runs : Undone(q, Key(s)) => Undone(q, Key(s))'
      BY <1>5, <3>1, <3>2
    <3>a. /\ pc'[s] \in {"guard", "dispatch"} =>
                \A d \in Deps[Key(s)'] : Succeeded(report'[s][d])
          /\ pc'[s] \in {"verify", "complete"} /\ Key(s)' \in Reversible
                => Tracked(s, Key(s))'
      BY <3>1, <3>2, <3>3 DEF ReportInv, SeenSoFar
    <3>b. ASSUME pc'[s] = "reuse"
          PROVE  rows'[Key(s)'].status = "completed"
                   \/ \E q \in Runs \ {s} : Undone(q, Key(s))'
      <4>1. Key(s) \in Keys
        BY <3>1, <3>2, <3>b
      <4>2. rows[Key(s)].status = "completed" => rows'[Key(s)].status = "completed"
        BY <4>1
      <4>3. rows[Key(s)].status = "completed"
              \/ \E q \in Runs \ {s} : Undone(q, Key(s))
        BY <3>1, <3>b DEF ReportInv, SeenSoFar
      <4>4. CASE rows[Key(s)].status = "completed"
        BY <3>1, <4>2, <4>4
      <4>5. CASE \E q \in Runs \ {s} : Undone(q, Key(s))
        BY <3>1, <3>4, <3>b, <4>5
      <4> QED
        BY <4>3, <4>4, <4>5
    <3>c. pc'[s] = "resolve" => effect'[Key(s)'] = 1
            \/ \E q \in Runs \ {s} : Undone(q, Key(s))'
      BY <3>1, <3>4 DEF ReportInv, SeenSoFar
    <3> QED
      BY <3>a, <3>b, <3>c
  <2> QED
    BY <2>1, <2>2
<1>d. VerifiedStands'
  <2> SUFFICES ASSUME NEW s \in Runs, NEW j \in Effectful,
                      report'[s][j] = "VERIFIED"
               PROVE  \/ Standing(j)' /\ (j \in Reversible => Tracked(s, j)')
                      \/ Undone(s, j)'
    BY DEF VerifiedStands
  <2>0. j \in Keys
    BY PlanAssumption
  <2>1. CASE report[s][j] = "VERIFIED"
    BY <1>4, <1>5, <2>0, <2>1 DEF ReportInv, VerifiedStands, Standing
  <2>2. CASE report[s][j] # "VERIFIED"
    <3>1. s = r /\ j = k /\ pc[r] = "complete"
      BY ZenonT(60), <1>3, <2>0, <2>2
    <3>2. effect[k] = 1
      BY <3>1 DEF Inv, OwnershipInv, EffectKnown
    <3>3. k \in Reversible => Tracked(r, k)
      BY <3>1 DEF ReportInv, SeenSoFar
    <3>4. Standing(j)'
      <4>1. st = "VERIFIED"
        BY <1>3, <3>1
      <4>2. rows'[j].status = "completed"
        BY <3>1, <4>1
      <4>3. effect'[j] = 1
        BY <3>1, <3>2
      <4> QED
        BY <4>2, <4>3 DEF Standing
    <3> QED
      BY <1>4, <2>0, <3>1, <3>3, <3>4
  <2> QED
    BY <2>1, <2>2
<1>e. ReusedStands'
  <2> SUFFICES ASSUME NEW s \in Runs, NEW j \in Effectful,
                      report'[s][j] = "REUSED"
               PROVE  Standing(j)' \/ \E q \in Runs \ {s} : Undone(q, j)'
    BY DEF ReusedStands
  <2>0. j \in Keys
    BY PlanAssumption
  <2>1. CASE report[s][j] = "REUSED"
    BY <1>5, <2>0, <2>1 DEF ReportInv, ReusedStands, Standing
  <2>2. CASE report[s][j] # "REUSED"
    <3>1. s = r /\ j = k /\ st = "REUSED"
      BY ZenonT(60), <1>3, <2>0, <2>2
    <3> QED
      BY <1>5, <2>0, <3>1 DEF Standing
  <2> QED
    BY <2>1, <2>2
<1>f. StuckClaimExplained'
  <2> SUFFICES ASSUME NEW j \in Keys, rows'[j].status = "pending"
               PROVE  \E s \in Runs :
                        /\ rows'[j].token = <<s, j>>
                        /\ \/ Attempting(s, j)'
                           \/ pc'[s] = "crashed"
                           \/ report'[s][j] \in {"INDETERMINATE", "COMPENSATION_FAILED"}
    BY DEF StuckClaimExplained
  <2>1. rows'[j] = rows[j]
    OBVIOUS
  <2>2. PICK s \in Runs :
           /\ rows[j].token = <<s, j>>
           /\ \/ Attempting(s, j)
              \/ pc[s] = "crashed"
              \/ report[s][j] \in {"INDETERMINATE", "COMPENSATION_FAILED"}
    BY <2>1 DEF ReportInv, StuckClaimExplained
  <2>3. CASE s # r
    <3>1. Attempting(s, j) => Attempting(s, j)'
      BY <2>3 DEF Alone, Others, Attempting, Holding, Key
    <3> QED
      BY <1>3, <2>1, <2>2, <2>3, <3>1 DEF Alone, Others
  <2>4. CASE s = r /\ Attempting(r, j)
    <3>1. j = k /\ Holding(r)
      BY <2>4 DEF Attempting
    <3> QED
      BY <1>3, <2>1, <2>2, <2>4, <3>1
  <2>5. CASE s = r /\ report[r][j] \in {"INDETERMINATE", "COMPENSATION_FAILED"}
    <3>1. j # k
      BY <1>2, <2>5
    <3> QED
      BY <1>3, <2>1, <2>2, <2>5, <3>1
  <2> QED
    BY <2>2, <2>3, <2>4, <2>5
<1> QED
  BY <1>a, <1>b, <1>c, <1>d, <1>e, <1>f DEF ReportInv
-----------------------------------------------------------------------------
(* A run moves without a report: claims, dispatches, raises, undoes the    *)
(* last effect on its list, or stops.                                      *)
LEMMA MoveStep ==
    ASSUME Inv, ReportInv, Inv', NEW r \in Runs, Alone(r), pc[r] # "crashed",
           report'[r] = report[r], executed'[r] = executed[r], at'[r] = at[r],
           pc[r] \in {"verify", "complete", "settle"} =>
              pc'[r] \in {"verify", "complete", "settle", "crashed"},
           pc[r] = "rollback" => pc'[r] \in {"clear", "crashed"},
           pc[r] = "clear" => pc'[r] = "crashed",
           Holding(r) => Holding(r)' \/ pc'[r] = "crashed",
           pc'[r] \in {"guard", "dispatch"} /\ pc[r] # "guard" =>
              \A d \in Deps[Key(r)] : Succeeded(report[r][d]),
           pc'[r] \in {"verify", "complete"} /\ Key(r) \in Reversible =>
              Tracked(r, Key(r)),
           pc'[r] = "reuse" => rows'[Key(r)].status = "completed",
           pc'[r] = "resolve" => effect[Key(r)] = 1 /\ effect' = effect,
           \A k \in Keys :
              rows[k].status = "completed" => rows'[k].status = "completed",
           \A k \in Keys : effect[k] = 1 => \/ effect'[k] = 1
                                            \/ /\ Tracked(r, k)
                                               /\ pc'[r] = "clear"
                                               /\ LastTracked(r) = k,
           \A k \in Keys : rows'[k].status = "pending" =>
              \/ rows'[k] = rows[k]
              \/ rows'[k].token = <<r, k>> /\ Attempting(r, k)'
    PROVE  ReportInv'
<1>1. \A s \in Runs :
         /\ executed'[s] = executed[s] /\ at'[s] = at[s]
         /\ report'[s] = report[s] /\ Key(s)' = Key(s)
         /\ LastTracked(s)' = LastTracked(s)
  BY DEF Alone, Others, Key, LastTracked
<1>2. \A s \in Runs, j \in Keys : Tracked(s, j)' <=> Tracked(s, j)
  BY <1>1 DEF Tracked
<1>3. \A s \in Runs \ {r} : pc'[s] = pc[s]
  BY DEF Alone, Others
<1>4. \A s \in Runs, j \in Keys : Undone(s, j) => Undone(s, j)'
  BY <1>1, <1>2, <1>3 DEF Undone
<1>5. \A j \in Keys : effect[j] = 1 => effect'[j] = 1 \/ Undone(r, j)'
  BY <1>1, <1>2 DEF Undone
<1>a. ReportsInOrder'
  BY <1>1, <1>3 DEF ReportInv, ReportsInOrder
<1>b. TrackedInOrder'
  <2>1. ASSUME NEW s \in Runs, NEW j \in Keys, Tracked(s, j)
        PROVE  /\ j \in Reversible /\ report'[s][j] # "REUSED"
               /\ \E m \in Positions :
                     /\ Plan[m] = j
                     /\ \/ m < at'[s]
                        \/ m = at'[s] /\ pc'[s] \in {"verify", "complete",
                              "settle", "rollback", "clear", "crashed"}
    <3>1. /\ j \in Reversible /\ report[s][j] # "REUSED"
          /\ \E m \in Positions :
                /\ Plan[m] = j
                /\ \/ m < at[s]
                   \/ m = at[s] /\ pc[s] \in {"verify", "complete", "settle",
                                              "rollback", "clear", "crashed"}
      BY <2>1 DEF ReportInv, TrackedInOrder
    <3>2. pc[s] \in {"verify", "complete", "settle", "rollback", "clear",
                     "crashed"} =>
          pc'[s] \in {"verify", "complete", "settle", "rollback", "clear",
                      "crashed"}
      BY <1>3
    <3> QED
      BY <1>1, <3>1, <3>2
  <2>2. \A s \in Runs : \A i, j \in 1..Len(executed'[s]) :
           i < j => Precedes(executed'[s][i], executed'[s][j])
    BY <1>1 DEF ReportInv, TrackedInOrder
  <2> QED
    BY <1>2, <2>1, <2>2 DEF TrackedInOrder, Precedes
<1>c. SeenSoFar'
  <2> SUFFICES ASSUME NEW s \in Runs
               PROVE  /\ pc'[s] \in {"guard", "dispatch"} =>
                            \A d \in Deps[Key(s)'] : Succeeded(report'[s][d])
                      /\ pc'[s] \in {"verify", "complete"} /\ Key(s)' \in Reversible
                            => Tracked(s, Key(s))'
                      /\ pc'[s] = "reuse" => rows'[Key(s)'].status = "completed"
                            \/ \E q \in Runs \ {s} : Undone(q, Key(s))'
                      /\ pc'[s] = "resolve" => effect'[Key(s)'] = 1
                            \/ \E q \in Runs \ {s} : Undone(q, Key(s))'
    BY DEF SeenSoFar
  <2>1. Tracked(s, Key(s))' <=> Tracked(s, Key(s))
    BY <1>1 DEF Tracked, Key
  <2>2. CASE s = r
    BY <1>1, <2>1, <2>2 DEF ReportInv, SeenSoFar
  <2>3. CASE s # r
    <3>1. pc[s] \in {"reuse", "resolve"} => Key(s) \in Keys
      BY HeldKey
    <3>a. pc[s] = "reuse" => rows'[Key(s)'].status = "completed"
             \/ \E q \in Runs \ {s} : Undone(q, Key(s))'
      <4> SUFFICES ASSUME pc[s] = "reuse"
                   PROVE  rows'[Key(s)'].status = "completed"
                            \/ \E q \in Runs \ {s} : Undone(q, Key(s))'
        OBVIOUS
      <4>1. Key(s) \in Keys /\ Key(s)' = Key(s)
        BY <1>1, <3>1
      <4>2. \A q \in Runs : Undone(q, Key(s)) => Undone(q, Key(s))'
        BY <1>4, <4>1
      <4> QED
        BY <4>1, <4>2 DEF ReportInv, SeenSoFar
    <3>2. pc[s] = "resolve" => effect'[Key(s)'] = 1
             \/ \E q \in Runs \ {s} : Undone(q, Key(s))'
      <4> SUFFICES ASSUME pc[s] = "resolve"
                   PROVE  effect'[Key(s)'] = 1
                            \/ \E q \in Runs \ {s} : Undone(q, Key(s))'
        OBVIOUS
      <4>1. \A q \in Runs : Undone(q, Key(s)) => Undone(q, Key(s))'
        <5>1. Key(s) \in Keys /\ Key(s)' = Key(s)
          BY <1>1, <3>1
        <5> QED
          BY <1>4, <5>1
      <4>2. CASE effect[Key(s)] = 1
        <5>1. effect'[Key(s)] = 1 \/ Undone(r, Key(s))'
          BY <1>1, <1>5, <3>1, <4>2
        <5> QED
          BY <1>1, <2>3, <5>1
      <4> QED
        BY <4>1, <4>2 DEF ReportInv, SeenSoFar
    <3> QED
      BY <1>1, <1>3, <2>1, <2>3, <3>2, <3>a DEF ReportInv, SeenSoFar
  <2> QED
    BY <2>2, <2>3
<1>d. VerifiedStands'
  <2> SUFFICES ASSUME NEW s \in Runs, NEW j \in Effectful,
                      report[s][j] = "VERIFIED"
               PROVE  \/ Standing(j)' /\ (j \in Reversible => Tracked(s, j)')
                      \/ Undone(s, j)'
    BY <1>1 DEF VerifiedStands
  <2>0. j \in Keys
    BY PlanAssumption
  <2>1. CASE Undone(s, j)
    BY <1>4, <2>0, <2>1
  <2>2. CASE Standing(j) /\ (j \in Reversible => Tracked(s, j))
    <3>1. CASE effect'[j] = 1
      BY <1>2, <2>0, <2>2, <3>1 DEF Standing
    <3>2. CASE effect'[j] # 1
      <4>1. Tracked(r, j) /\ Undone(r, j)'
        BY <1>5, <2>0, <2>2, <3>2 DEF Standing
      <4>2. j \in Reversible
        BY <2>0, <4>1 DEF ReportInv, TrackedInOrder
      <4>3. s = r
        BY <2>0, <2>2, <4>1, <4>2 DEF Inv, OwnershipInv, TrackedOnce
      <4> QED
        BY <4>1, <4>3
    <3> QED
      BY <3>1, <3>2
  <2> QED
    BY <2>1, <2>2 DEF ReportInv, VerifiedStands
<1>e. ReusedStands'
  <2> SUFFICES ASSUME NEW s \in Runs, NEW j \in Effectful,
                      report[s][j] = "REUSED"
               PROVE  Standing(j)' \/ \E q \in Runs \ {s} : Undone(q, j)'
    BY <1>1 DEF ReusedStands
  <2>0. j \in Keys
    BY PlanAssumption
  <2>1. CASE effect[j] = 1 /\ effect'[j] # 1
    <3>1. Tracked(r, j) /\ Undone(r, j)'
      BY <1>5, <2>0, <2>1
    <3>2. s # r
      BY <2>0, <3>1 DEF ReportInv, TrackedInOrder
    <3> QED
      BY <3>1, <3>2
  <2>2. CASE Standing(j) /\ effect'[j] = 1
    BY <2>0, <2>2 DEF Standing
  <2>3. CASE ~Standing(j)
    BY <1>4, <2>0, <2>3 DEF ReportInv, ReusedStands
  <2> QED
    BY <2>1, <2>2, <2>3 DEF Standing
<1>f. StuckClaimExplained'
  <2> SUFFICES ASSUME NEW j \in Keys, rows'[j].status = "pending"
               PROVE  \E s \in Runs :
                        /\ rows'[j].token = <<s, j>>
                        /\ \/ Attempting(s, j)'
                           \/ pc'[s] = "crashed"
                           \/ report'[s][j] \in {"INDETERMINATE", "COMPENSATION_FAILED"}
    BY DEF StuckClaimExplained
  <2>1. CASE rows'[j].token = <<r, j>> /\ Attempting(r, j)'
    BY <2>1
  <2>2. CASE rows'[j] = rows[j]
    <3>1. PICK s \in Runs :
             /\ rows[j].token = <<s, j>>
             /\ \/ Attempting(s, j)
                \/ pc[s] = "crashed"
                \/ report[s][j] \in {"INDETERMINATE", "COMPENSATION_FAILED"}
      BY <2>2 DEF ReportInv, StuckClaimExplained
    <3>2. Attempting(s, j) => Attempting(s, j)' \/ pc'[s] = "crashed"
      BY <1>1, <1>3 DEF Attempting, Holding
    <3> QED
      BY <1>1, <1>3, <2>2, <3>1, <3>2
  <2> QED
    BY <2>1, <2>2
<1> QED
  BY <1>a, <1>b, <1>c, <1>d, <1>e, <1>f DEF ReportInv
-----------------------------------------------------------------------------
(* A reversible effect is put at the end of the list of effects to undo,   *)
(* where it belongs in the order of the plan.                              *)
LEMMA TrackStep ==
    ASSUME Inv, ReportInv, Inv', NEW r \in Runs, TrackEffect(r),
           Key(r) \in Reversible
    PROVE  ReportInv'
<1> DEFINE k == Key(r)
           e == executed[r]
<1>1. /\ pc[r] = "returned" /\ pc'[r] = "verify"
      /\ rows' = rows /\ effect' = effect /\ at' = at /\ report' = report
      /\ executed' = [executed EXCEPT ![r] = Append(@, k)]
      /\ Others(r)
  BY DEF TrackEffect, ledgerVars, Others, Inv, TypeInv, TypeOK
<1>2. at[r] <= Len(Plan)
  BY <1>1 DEF Inv, OwnershipInv, ProgramOrder
<1>3. /\ at[r] \in Positions /\ at[r] \in Nat /\ k = Plan[at[r]] /\ k \in Keys
      /\ report[r][k] = "none"
  BY <1>1, <1>2, AtFacts, FreshReport
<1>4. /\ e \in Seq(Keys) /\ Len(e) \in Nat /\ executed'[r] = Append(e, k)
  BY <1>1 DEF Inv, TypeInv, TypeOK
<1>5. /\ Len(executed'[r]) = Len(e) + 1
      /\ executed'[r][Len(e) + 1] = k
      /\ \A i \in 1..Len(e) : executed'[r][i] = e[i] /\ e[i] \in Keys
  BY <1>3, <1>4
<1>6. \A s \in Runs \ {r} : executed'[s] = executed[s] /\ pc'[s] = pc[s]
  BY <1>1 DEF Others
<1>7. /\ \A j \in Keys : Tracked(r, j)' <=> Tracked(r, j) \/ j = k
      /\ \A s \in Runs \ {r}, j \in Keys : Tracked(s, j)' <=> Tracked(s, j)
  BY <1>4, <1>5, <1>6 DEF Tracked
<1>8. \A s \in Runs : Key(s)' = Key(s)
  BY <1>1 DEF Key
<1>9. \A s \in Runs, j \in Keys : Undone(s, j) => Undone(s, j)'
  <2>1. \A s \in Runs \ {r} : LastTracked(s)' = LastTracked(s)
    BY <1>6 DEF LastTracked
  <2> QED
    BY <1>1, <1>6, <1>7, <2>1 DEF Undone
<1>a. ReportsInOrder'
  BY <1>1, <1>6 DEF ReportInv, ReportsInOrder
<1>b. TrackedInOrder'
  <2>1. ASSUME NEW s \in Runs, NEW j \in Keys, Tracked(s, j)'
        PROVE  /\ j \in Reversible /\ report'[s][j] # "REUSED"
               /\ \E m \in Positions :
                     /\ Plan[m] = j
                     /\ \/ m < at'[s]
                        \/ m = at'[s] /\ pc'[s] \in {"verify", "complete",
                              "settle", "rollback", "clear", "crashed"}
    <3>1. CASE s = r /\ j = k
      BY <1>1, <1>3, <3>1
    <3>2. CASE Tracked(s, j)
      <4>1. /\ j \in Reversible /\ report[s][j] # "REUSED"
            /\ \E m \in Positions :
                  /\ Plan[m] = j
                  /\ \/ m < at[s]
                     \/ m = at[s] /\ pc[s] \in {"verify", "complete", "settle",
                                                "rollback", "clear", "crashed"}
        BY <3>2 DEF ReportInv, TrackedInOrder
      <4> QED
        BY <1>1, <1>6, <4>1
    <3> QED
      BY <1>7, <2>1, <3>1, <3>2
  <2>2. \A i \in 1..Len(e) : Precedes(e[i], k)
    <3> SUFFICES ASSUME NEW i \in 1..Len(e)
                 PROVE  Precedes(e[i], k)
      OBVIOUS
    <3>1. e[i] \in Keys /\ Tracked(r, e[i])
      BY <1>5 DEF Tracked
    <3>2. \E m \in Positions : Plan[m] = e[i] /\ m < at[r]
      BY <1>1, <3>1 DEF ReportInv, TrackedInOrder
    <3> QED
      BY <1>3, <3>2 DEF Precedes
  <2>3. ASSUME NEW s \in Runs, NEW i \in 1..Len(executed'[s]),
               NEW j \in 1..Len(executed'[s]), i < j
        PROVE  Precedes(executed'[s][i], executed'[s][j])
    <3>1. CASE s # r
      BY <1>6, <2>3, <3>1 DEF ReportInv, TrackedInOrder
    <3>2. CASE s = r /\ j = Len(e) + 1
      <4>1. i \in 1..Len(e)
        BY <1>4, <1>5, <2>3, <3>2
      <4> QED
        BY <1>5, <2>2, <3>2, <4>1
    <3>3. CASE s = r /\ j # Len(e) + 1
      <4>1. i \in 1..Len(e) /\ j \in 1..Len(e)
        BY <1>4, <1>5, <2>3, <3>3
      <4> QED
        BY <1>5, <2>3, <3>3, <4>1 DEF ReportInv, TrackedInOrder
    <3> QED
      BY <3>1, <3>2, <3>3
  <2> QED
    BY <2>1, <2>3 DEF TrackedInOrder, Precedes
<1>c. SeenSoFar'
  <2> SUFFICES ASSUME NEW s \in Runs
               PROVE  /\ pc'[s] \in {"guard", "dispatch"} =>
                            \A d \in Deps[Key(s)'] : Succeeded(report'[s][d])
                      /\ pc'[s] \in {"verify", "complete"} /\ Key(s)' \in Reversible
                            => Tracked(s, Key(s))'
                      /\ pc'[s] = "reuse" => rows'[Key(s)'].status = "completed"
                            \/ \E q \in Runs \ {s} : Undone(q, Key(s))'
                      /\ pc'[s] = "resolve" => effect'[Key(s)'] = 1
                            \/ \E q \in Runs \ {s} : Undone(q, Key(s))'
    BY DEF SeenSoFar
  <2>1. CASE s = r
    <3>1. Tracked(r, Key(r))'
      <4>1. \E i \in 1..Len(executed'[r]) : executed'[r][i] = k
        BY <1>4, <1>5
      <4> QED
        BY <1>8, <4>1 DEF Tracked
    <3> QED
      BY <1>1, <2>1, <3>1
  <2>2. CASE s # r
    <3>1. Tracked(s, Key(s))' <=> Tracked(s, Key(s))
      BY <1>6, <1>8, <2>2 DEF Tracked
    <3>2. pc[s] \in {"reuse", "resolve"} =>
             \A q \in Runs : Undone(q, Key(s)) => Undone(q, Key(s))'
      BY <1>8, <1>9, HeldKey
    <3> QED
      BY <1>1, <1>6, <1>8, <2>2, <3>1, <3>2 DEF ReportInv, SeenSoFar
  <2> QED
    BY <2>1, <2>2
<1>d. VerifiedStands' /\ ReusedStands'
  <2>1. \A j \in Effectful : j \in Keys
    BY PlanAssumption
  <2>2. \A s \in Runs, j \in Keys : Tracked(s, j) => Tracked(s, j)'
    BY <1>7
  <2> QED
    BY <1>1, <1>9, <2>1, <2>2
    DEF ReportInv, VerifiedStands, ReusedStands, Standing
<1>e. StuckClaimExplained'
  <2>1. \A s \in Runs, j \in Keys : Attempting(s, j) => Attempting(s, j)'
    BY <1>1, <1>6, <1>8 DEF Attempting, Holding
  <2>2. \A s \in Runs : pc[s] = "crashed" => pc'[s] = "crashed"
    BY <1>1, <1>6
  <2> QED
    BY <1>1, <2>1, <2>2 DEF ReportInv, StuckClaimExplained
<1> QED
  BY <1>a, <1>b, <1>c, <1>d, <1>e DEF ReportInv

(* The last effect on the list is dealt with and reported. *)
LEMMA UntrackStep ==
    ASSUME Inv, ReportInv, Inv', NEW r \in Runs, Others(r), executed[r] # <<>>,
           pc[r] \in {"rollback", "clear"}, pc'[r] = "rollback", at' = at,
           executed' = Untracked(r), NEW k \in Keys, k = LastTracked(r),
           NEW st \in {"COMPENSATED", "COMPENSATION_FAILED"},
           report' = [report EXCEPT ![r][k] = st],
           \A j \in Keys \ {k} :
              effect'[j] = effect[j] /\ rows'[j] = rows[j],
           \/ rows'[k].status # "pending"
           \/ /\ rows'[k] = rows[k]
              /\ st = "COMPENSATION_FAILED"
    PROVE  ReportInv'
<1> DEFINE n == Len(executed[r])
<1>1. /\ Tracked(r, k)
      /\ \A s \in Runs \ {r} : ~Tracked(s, k)
  BY RollbackOwns
<1>2. RunTypes
  BY TypeInvParts DEF Inv
<1>3. /\ n \in Nat \ {0} /\ Len(executed'[r]) = n - 1
      /\ \A i \in 1..(n - 1) : executed'[r][i] = executed[r][i]
  BY <1>2, UntrackFacts
<1>4. \A j \in Keys : /\ Tracked(r, j)' => Tracked(r, j)
                      /\ Tracked(r, j) /\ j # k => Tracked(r, j)'
  <2> SUFFICES ASSUME NEW j \in Keys
               PROVE  /\ Tracked(r, j)' => Tracked(r, j)
                      /\ Tracked(r, j) /\ j # k => Tracked(r, j)'
    OBVIOUS
  <2>1. k = executed[r][n]
    BY DEF LastTracked
  <2>2. Tracked(r, j)' <=> \E i \in 1..(n - 1) : executed[r][i] = j
    BY <1>3 DEF Tracked
  <2>3. Tracked(r, j) <=> \E i \in 1..n : executed[r][i] = j
    BY DEF Tracked
  <2>4. 1..n = 1..(n - 1) \cup {n}
    BY <1>3
  <2> HIDE DEF n
  <2> QED
    BY <2>1, <2>2, <2>3, <2>4
<1>5. /\ report'[r][k] = st
      /\ \A j \in Keys \ {k} : report'[r][j] = report[r][j]
      /\ \A s \in Runs \ {r} : report'[s] = report[s]
  BY <1>1, <1>2 DEF RunTypes
<1>6. \A s \in Runs \ {r} :
         /\ executed'[s] = executed[s] /\ pc'[s] = pc[s]
         /\ LastTracked(s)' = LastTracked(s)
  BY DEF Others, LastTracked
<1>7. \A s \in Runs \ {r}, j \in Keys : Tracked(s, j)' <=> Tracked(s, j)
  BY <1>6 DEF Tracked
<1>8. \A s \in Runs : Key(s)' = Key(s)
  BY DEF Key
<1>9. /\ Undone(r, k)'
      /\ \A s \in Runs, j \in Keys : Undone(s, j) => Undone(s, j)'
  <2>1. Undone(r, k)'
    BY <1>5 DEF Undone
  <2>2. ASSUME NEW j \in Keys \ {k}, Undone(r, j)
        PROVE  Undone(r, j)'
    BY <1>5, <2>2 DEF Undone
  <2>3. ASSUME NEW s \in Runs \ {r}, NEW j \in Keys, Undone(s, j)
        PROVE  Undone(s, j)'
    BY <1>5, <1>6, <1>7, <2>3 DEF Undone
  <2> QED
    BY <2>1, <2>2, <2>3
<1>10. PICK p \in Positions : Plan[p] = k /\ p <= at[r]
  BY <1>1, PlanFacts, AtFacts DEF ReportInv, TrackedInOrder, Positions
<1>a. ReportsInOrder'
  <2> SUFFICES ASSUME NEW s \in Runs, NEW i \in Positions,
                      \/ i > at[s]
                      \/ i = at[s] /\ pc'[s] \notin {"rollback", "clear", "crashed"}
               PROVE  report'[s][Plan[i]] = "none"
    BY DEF ReportsInOrder
  <2>1. CASE s = r
    <3>1. i > at[r]
      BY <2>1
    <3>2. Plan[i] \in Keys \ {k}
      BY <1>10, <3>1, PlanFacts, AtFacts DEF Positions
    <3> QED
      BY <1>5, <2>1, <3>1, <3>2 DEF ReportInv, ReportsInOrder
  <2>2. CASE s # r
    BY <1>5, <1>6, <2>2 DEF ReportInv, ReportsInOrder
  <2> QED
    BY <2>1, <2>2
<1>b. TrackedInOrder'
  <2>1. ASSUME NEW s \in Runs, NEW j \in Keys, Tracked(s, j)'
        PROVE  /\ j \in Reversible /\ report'[s][j] # "REUSED"
               /\ \E m \in Positions :
                     /\ Plan[m] = j
                     /\ \/ m < at'[s]
                        \/ m = at'[s] /\ pc'[s] \in {"verify", "complete",
                              "settle", "rollback", "clear", "crashed"}
    <3>1. Tracked(s, j)
      BY <1>4, <1>7, <2>1
    <3>2. /\ j \in Reversible /\ report[s][j] # "REUSED"
          /\ \E m \in Positions :
                /\ Plan[m] = j
                /\ \/ m < at[s]
                   \/ m = at[s] /\ pc[s] \in {"verify", "complete", "settle",
                                              "rollback", "clear", "crashed"}
      BY <3>1 DEF ReportInv, TrackedInOrder
    <3>3. report'[s][j] # "REUSED"
      BY <1>5, <3>2
    <3>4. pc[s] \in {"verify", "complete", "settle", "rollback", "clear",
                     "crashed"} =>
          pc'[s] \in {"verify", "complete", "settle", "rollback", "clear",
                      "crashed"}
      BY <1>6
    <3> QED
      BY <3>2, <3>3, <3>4
  <2>2. ASSUME NEW s \in Runs, NEW i \in 1..Len(executed'[s]),
               NEW j \in 1..Len(executed'[s]), i < j
        PROVE  Precedes(executed'[s][i], executed'[s][j])
    <3>1. CASE s # r
      BY <1>6, <2>2, <3>1 DEF ReportInv, TrackedInOrder
    <3>2. CASE s = r
      <4>1. /\ i \in 1..n /\ j \in 1..n
            /\ executed'[r][i] = executed[r][i]
            /\ executed'[r][j] = executed[r][j]
        BY <1>3, <3>2
      <4> QED
        BY <2>2, <3>2, <4>1 DEF ReportInv, TrackedInOrder
    <3> QED
      BY <3>1, <3>2
  <2> QED
    BY <2>1, <2>2 DEF TrackedInOrder, Precedes
<1>c. SeenSoFar'
  <2> SUFFICES ASSUME NEW s \in Runs
               PROVE  /\ pc'[s] \in {"guard", "dispatch"} =>
                            \A d \in Deps[Key(s)'] : Succeeded(report'[s][d])
                      /\ pc'[s] \in {"verify", "complete"} /\ Key(s)' \in Reversible
                            => Tracked(s, Key(s))'
                      /\ pc'[s] = "reuse" => rows'[Key(s)'].status = "completed"
                            \/ \E q \in Runs \ {s} : Undone(q, Key(s))'
                      /\ pc'[s] = "resolve" => effect'[Key(s)'] = 1
                            \/ \E q \in Runs \ {s} : Undone(q, Key(s))'
    BY DEF SeenSoFar
  <2>1. CASE s = r
    BY <2>1
  <2>2. CASE s # r
    <3>1. Tracked(s, Key(s))' <=> Tracked(s, Key(s))
      BY <1>6, <1>8, <2>2 DEF Tracked
    <3>2. ASSUME pc[s] \in {"reuse", "resolve"}
          PROVE  \/ pc[s] = "reuse" /\ rows'[Key(s)'].status = "completed"
                 \/ pc[s] = "resolve" /\ effect'[Key(s)'] = 1
                 \/ \E q \in Runs \ {s} : Undone(q, Key(s))'
      <4>1. Key(s) \in Keys /\ Key(s)' = Key(s)
        BY <1>8, <3>2, HeldKey
      <4>2. \A q \in Runs : Undone(q, Key(s)) => Undone(q, Key(s))'
        BY <1>9, <4>1
      <4>3. CASE Key(s) = k
        <5>1. Undone(r, Key(s))'
          BY <1>9, <4>1, <4>3
        <5> QED
          BY <2>2, <5>1
      <4>4. CASE Key(s) # k
        BY <3>2, <4>1, <4>2, <4>4 DEF ReportInv, SeenSoFar
      <4> QED
        BY <4>3, <4>4
    <3> QED
      BY <1>5, <1>6, <1>8, <2>2, <3>1, <3>2 DEF ReportInv, SeenSoFar
  <2> QED
    BY <2>1, <2>2
<1>d. VerifiedStands'
  <2> SUFFICES ASSUME NEW s \in Runs, NEW j \in Effectful,
                      report'[s][j] = "VERIFIED"
               PROVE  \/ Standing(j)' /\ (j \in Reversible => Tracked(s, j)')
                      \/ Undone(s, j)'
    BY DEF VerifiedStands
  <2>0. j \in Keys
    BY PlanAssumption
  <2>1. report[s][j] = "VERIFIED" /\ (s = r => j # k)
    BY <1>5, <2>0
  <2>2. CASE Undone(s, j)
    BY <1>9, <2>0, <2>2
  <2>3. CASE Standing(j) /\ (j \in Reversible => Tracked(s, j))
    <3>1. j # k
      <4>1. k \in Reversible
        BY <1>1 DEF ReportInv, TrackedInOrder
      <4> QED
        BY <1>1, <2>1, <2>3, <4>1
    <3>2. Tracked(s, j) => Tracked(s, j)'
      BY <1>4, <1>7, <2>0, <3>1
    <3> QED
      BY <2>0, <2>3, <3>1, <3>2 DEF Standing
  <2> QED
    BY <2>1, <2>2, <2>3 DEF ReportInv, VerifiedStands
<1>e. ReusedStands'
  <2> SUFFICES ASSUME NEW s \in Runs, NEW j \in Effectful,
                      report'[s][j] = "REUSED"
               PROVE  Standing(j)' \/ \E q \in Runs \ {s} : Undone(q, j)'
    BY DEF ReusedStands
  <2>0. j \in Keys
    BY PlanAssumption
  <2>1. report[s][j] = "REUSED" /\ (s = r => j # k)
    BY <1>5, <2>0
  <2>2. CASE j = k
    BY <1>9, <2>1, <2>2
  <2>3. CASE j # k
    BY <1>9, <2>0, <2>1, <2>3 DEF ReportInv, ReusedStands, Standing
  <2> QED
    BY <2>2, <2>3
<1>f. StuckClaimExplained'
  <2> SUFFICES ASSUME NEW j \in Keys, rows'[j].status = "pending"
               PROVE  \E s \in Runs :
                        /\ rows'[j].token = <<s, j>>
                        /\ \/ Attempting(s, j)'
                           \/ pc'[s] = "crashed"
                           \/ report'[s][j] \in {"INDETERMINATE", "COMPENSATION_FAILED"}
    BY DEF StuckClaimExplained
  <2>1. rows'[j] = rows[j] /\ (j = k => st = "COMPENSATION_FAILED")
    BY <1>1
  <2>2. PICK s \in Runs :
           /\ rows[j].token = <<s, j>>
           /\ \/ Attempting(s, j)
              \/ pc[s] = "crashed"
              \/ report[s][j] \in {"INDETERMINATE", "COMPENSATION_FAILED"}
    BY <2>1 DEF ReportInv, StuckClaimExplained
  <2>3. CASE s # r
    <3>1. Attempting(s, j) => Attempting(s, j)'
      BY <1>6, <1>8, <2>3 DEF Attempting, Holding
    <3> QED
      BY <1>5, <1>6, <2>1, <2>2, <2>3, <3>1
  <2>4. CASE s = r
    <3>1. ~Attempting(r, j)
      BY DEF Attempting, Holding
    <3>2. report[r][j] \in {"INDETERMINATE", "COMPENSATION_FAILED"}
      BY <2>2, <2>4, <3>1
    <3>3. report'[r][j] \in {"INDETERMINATE", "COMPENSATION_FAILED"}
      BY <1>5, <2>1, <3>2
    <3> QED
      BY <2>1, <2>2, <2>4, <3>3
  <2> QED
    BY <2>3, <2>4
<1> QED
  BY <1>a, <1>b, <1>c, <1>d, <1>e, <1>f DEF ReportInv
(* With nothing left to undo, the loop skips what remains of the plan. *)
LEMMA EndStep ==
    ASSUME Inv, ReportInv, Inv', NEW r \in Runs, EndRollback(r)
    PROVE  ReportInv'
<1>1. /\ pc[r] = "rollback" /\ pc'[r] = "loop" /\ executed[r] = <<>>
      /\ at'[r] = at[r] + 1 /\ rows' = rows /\ effect' = effect
      /\ report' = report /\ executed' = executed
      /\ \A s \in Runs \ {r} : pc'[s] = pc[s] /\ at'[s] = at[s]
  BY DEF EndRollback, ledgerVars, Inv, TypeInv, TypeOK
<1>2. \A j \in Keys : ~Tracked(r, j)
  BY <1>1 DEF Tracked
<1>3. \A s \in Runs, j \in Keys : Tracked(s, j)' <=> Tracked(s, j)
  BY <1>1 DEF Tracked
<1>4. \A s \in Runs \ {r} : Key(s)' = Key(s)
  BY <1>1 DEF Key
<1>5. \A s \in Runs, j \in Keys : Undone(s, j) => Undone(s, j)'
  BY <1>1, <1>3 DEF Undone, LastTracked
<1>a. ReportsInOrder'
  <2> SUFFICES ASSUME NEW s \in Runs, NEW i \in Positions,
                      \/ i > at'[s]
                      \/ i = at'[s] /\ pc'[s] \notin {"rollback", "clear", "crashed"}
               PROVE  report[s][Plan[i]] = "none"
    BY <1>1 DEF ReportsInOrder
  <2>1. s = r => i > at[r]
    BY <1>1, AtFacts, PlanFacts DEF Positions
  <2> QED
    BY <1>1, <2>1 DEF ReportInv, ReportsInOrder
<1>b. TrackedInOrder'
  <2>1. ASSUME NEW s \in Runs, NEW j \in Keys, Tracked(s, j)
        PROVE  /\ j \in Reversible /\ report'[s][j] # "REUSED"
               /\ \E m \in Positions :
                     /\ Plan[m] = j
                     /\ \/ m < at'[s]
                        \/ m = at'[s] /\ pc'[s] \in {"verify", "complete",
                              "settle", "rollback", "clear", "crashed"}
    <3>1. s # r
      BY <1>2, <2>1
    <3> QED
      BY <1>1, <2>1, <3>1 DEF ReportInv, TrackedInOrder
  <2>2. \A s \in Runs : \A i, j \in 1..Len(executed'[s]) :
           i < j => Precedes(executed'[s][i], executed'[s][j])
    BY <1>1 DEF ReportInv, TrackedInOrder
  <2> QED
    BY <1>3, <2>1, <2>2 DEF TrackedInOrder, Precedes
<1>c. SeenSoFar'
  <2> SUFFICES ASSUME NEW s \in Runs
               PROVE  /\ pc'[s] \in {"guard", "dispatch"} =>
                            \A d \in Deps[Key(s)'] : Succeeded(report'[s][d])
                      /\ pc'[s] \in {"verify", "complete"} /\ Key(s)' \in Reversible
                            => Tracked(s, Key(s))'
                      /\ pc'[s] = "reuse" => rows'[Key(s)'].status = "completed"
                            \/ \E q \in Runs \ {s} : Undone(q, Key(s))'
                      /\ pc'[s] = "resolve" => effect'[Key(s)'] = 1
                            \/ \E q \in Runs \ {s} : Undone(q, Key(s))'
    BY DEF SeenSoFar
  <2>1. CASE s = r
    BY <1>1, <2>1
  <2>2. CASE s # r
    <3>1. Tracked(s, Key(s))' <=> Tracked(s, Key(s))
      BY <1>1, <1>4, <2>2 DEF Tracked
    <3>2. pc[s] \in {"reuse", "resolve"} =>
             \A q \in Runs : Undone(q, Key(s)) => Undone(q, Key(s))'
      BY <1>4, <1>5, <2>2, HeldKey
    <3> QED
      BY <1>1, <1>4, <2>2, <3>1, <3>2 DEF ReportInv, SeenSoFar
  <2> QED
    BY <2>1, <2>2
<1>d. VerifiedStands' /\ ReusedStands'
  <2>1. \A j \in Effectful : j \in Keys
    BY PlanAssumption
  <2> QED
    BY <1>1, <1>3, <1>5, <2>1
    DEF ReportInv, VerifiedStands, ReusedStands, Standing
<1>e. StuckClaimExplained'
  <2>1. \A s \in Runs, j \in Keys : Attempting(s, j) => Attempting(s, j)'
    BY <1>1, <1>4 DEF Attempting, Holding
  <2>2. \A s \in Runs : pc[s] = "crashed" => pc'[s] = "crashed"
    BY <1>1
  <2> QED
    BY <1>1, <2>1, <2>2 DEF ReportInv, StuckClaimExplained
<1> QED
  BY <1>a, <1>b, <1>c, <1>d, <1>e DEF ReportInv

-----------------------------------------------------------------------------
(* How ReportAndContinue and ReportAndCompensate move a run. *)
LEMMA ReportFrame ==
    ASSUME RunTypes, NEW r \in Runs, NEW st, NEW tracked,
           ReportAndContinue(r, st) \/ ReportAndCompensate(r, st, tracked)
    PROVE  /\ Alone(r) /\ executed'[r] = executed[r]
           /\ report'[r] = [report[r] EXCEPT ![Key(r)] = st]
           /\ \/ pc'[r] = "loop" /\ at'[r] = at[r] + 1
              \/ pc'[r] = "rollback" /\ at'[r] = at[r]
<1>1. /\ report' = [report EXCEPT ![r][Key(r)] = st] /\ executed' = executed
  BY DEF ReportAndContinue, ReportAndCompensate
<1>2. Others(r)
  BY ContinueFrame, CompensateFrame
<1>3. \/ pc'[r] = "loop" /\ at'[r] = at[r] + 1
      \/ pc'[r] = "rollback" /\ at'[r] = at[r]
  BY DEF ReportAndContinue, ReportAndCompensate, RunTypes
<1> QED
  BY <1>1, <1>2, <1>3 DEF Alone, RunTypes

(* Move and Raise change nothing but where the run is and what it holds. *)
LEMMA LocalFrame ==
    ASSUME RunTypes, NEW r \in Runs, NEW to, NEW why, NEW res,
           Move(r, to) \/ Raise(r, why, res)
    PROVE  /\ Alone(r) /\ executed'[r] = executed[r] /\ at'[r] = at[r]
           /\ report'[r] = report[r]
           /\ Move(r, to) => pc'[r] = to
           /\ Raise(r, why, res) => pc'[r] = "settle"
<1>1. Others(r) /\ executed' = executed /\ at' = at /\ report' = report
  BY MoveFrame, RaiseFrame DEF Move, Raise
<1> QED
  BY <1>1, MoveFrame, RaiseFrame DEF Alone

-----------------------------------------------------------------------------
(* Refusals, skips, plans and reads. *)
LEMMA GateReports ==
    ASSUME Inv, ReportInv, Inv', NEW r \in Runs, Gate(r)
    PROVE  ReportInv'
<1>0. RunTypes
  BY TypeInvParts DEF Inv
<1>1. /\ rows' = rows /\ effect' = effect
      /\ pc[r] = "loop" /\ at[r] <= Len(Plan)
  BY DEF Gate, SkipRemaining, RefuseCapability, AwaitCoherenceReview,
     SkipForDependency, RefuseByPolicy, PlanOnly, SelectionFails,
     ReadOrGenerate, Applying, Eligible, InHand, ledgerVars
<1>2. PICK st \in ActionStates \ {"REUSED"} :
         /\ \/ ReportAndContinue(r, st)
            \/ ReportAndCompensate(r, st, executed[r])
         /\ st = "VERIFIED" => Key(r) \notin Effectful
  BY DEF Gate, SkipRemaining, RefuseCapability, AwaitCoherenceReview,
     SkipForDependency, RefuseByPolicy, PlanOnly, SelectionFails,
     ReadOrGenerate, ActionStates
<1>3. /\ Alone(r) /\ executed'[r] = executed[r]
      /\ report'[r] = [report[r] EXCEPT ![Key(r)] = st]
      /\ \/ pc'[r] = "loop" /\ at'[r] = at[r] + 1
         \/ pc'[r] = "rollback" /\ at'[r] = at[r]
  BY <1>0, <1>2, ReportFrame
<1>4. ~Holding(r)
  BY <1>1 DEF Holding
<1> QED
  BY <1>1, <1>2, <1>3, <1>4, ReportStep

(* Start, Finish and the end of a process. *)
LEMMA OutsideReports ==
    ASSUME Inv, ReportInv, Inv', NEW r \in Runs, Start(r) \/ Finish(r) \/ Crash(r)
    PROVE  ReportInv'
<1>0. RunTypes
  BY TypeInvParts DEF Inv
<1>1. rows' = rows /\ effect' = effect
  BY DEF Start, Finish, Crash, ledgerVars
<1>2. /\ Alone(r) /\ executed'[r] = executed[r] /\ at'[r] = at[r]
      /\ report'[r] = report[r]
  <2>1. CASE Start(r)
    BY <1>0, <2>1 DEF Start, Alone, Others, RunTypes
  <2>2. CASE Finish(r) \/ Crash(r)
    <3>1. Move(r, "done") \/ Move(r, "crashed")
      BY <2>2 DEF Finish, Crash
    <3> QED
      BY <1>0, <3>1, LocalFrame
  <2> QED
    BY <2>1, <2>2
<1>3. \/ pc[r] \in {"idle", "loop"} /\ pc'[r] \in {"loop", "done"}
      \/ pc[r] # "crashed" /\ pc'[r] = "crashed"
  <2>1. CASE Start(r)
    BY <1>0, <2>1 DEF Start, RunTypes
  <2>2. CASE Finish(r)
    BY <1>0, <2>2, LocalFrame DEF Finish
  <2>3. CASE Crash(r)
    BY <1>0, <2>3, LocalFrame DEF Crash, Live
  <2> QED
    BY <2>1, <2>2, <2>3
<1>4. Holding(r) => pc'[r] = "crashed"
  BY <1>3 DEF Holding
<1> QED
  BY <1>1, <1>2, <1>3, <1>4, MoveStep
(* What a truthful read confirms stands once. *)
LEMMA Confirmed ==
    ASSUME Inv, NEW k \in Keys, CanConfirm(k)
    PROVE  effect[k] = 1
  BY DEF Inv, TypeInv, TypeOK, OwnershipInv, AtMostOneEffect, CanConfirm

(* The claim and the branch on its answer. *)
LEMMA ClaimReports ==
    ASSUME Inv, ReportInv, Inv', NEW r \in Runs, Claim(r)
    PROVE  ReportInv'
<1>0. RunTypes /\ LedgerTypeOK
  BY TypeInvParts DEF Inv
<1>1. /\ at[r] <= Len(Plan)
      /\ pc[r] \in {"loop", "reuse", "reconcile", "resolve"}
  BY DEF Claim, ClaimGranted, ClaimRefused, ClaimFindsOutcome, ReuseCompleted,
     ReuseUnconfirmed, ReconcileConfirmed, ResolveIndeterminate,
     Applying, Eligible, InHand, Inv, OwnershipInv, ProgramOrder
<1>2. Key(r) \in Keys /\ ~Holding(r)
  BY <1>1, AtFacts DEF Holding
<1>3. CASE ClaimGranted(r)
  <2>1. /\ Alone(r) /\ executed'[r] = executed[r] /\ at'[r] = at[r]
        /\ report'[r] = report[r] /\ pc'[r] = "guard" /\ effect' = effect
    BY <1>0, <1>3, LocalFrame DEF ClaimGranted
  <2>2. \A d \in Deps[Key(r)] : Succeeded(report[r][d])
    BY <1>3 DEF ClaimGranted, Applying, Eligible, FailedDependencies,
       DependencySucceeded
  <2>3. /\ rows'[Key(r)].token = <<r, Key(r)>>
        /\ \A j \in Keys \ {Key(r)} : rows'[j] = rows[j]
    BY <1>0, <1>2, <1>3 DEF ClaimGranted, ClaimAction, LedgerTypeOK, Token
  <2>4. Attempting(r, Key(r))' /\ Key(r)' = Key(r)
    BY <2>1 DEF Attempting, Holding, Key
  <2>5. \A k \in Keys : rows'[k].status = "pending" =>
           \/ rows'[k] = rows[k]
           \/ rows'[k].token = <<r, k>> /\ Attempting(r, k)'
    <3> SUFFICES ASSUME NEW k \in Keys, k = Key(r)
                 PROVE  rows'[k].token = <<r, k>> /\ Attempting(r, k)'
      BY <2>3
    <3> QED
      BY <2>1, <2>3, <2>4 DEF Attempting, Holding
  <2>6. pc[r] = "loop"
    BY <1>3 DEF ClaimGranted, Applying, Eligible, InHand
  <2>7. \A k \in Keys :
           rows[k].status = "completed" => rows'[k].status = "completed"
    BY <1>3, <2>3 DEF ClaimGranted, ClaimAction, ClaimState
  <2> QED
    BY <1>2, <2>1, <2>2, <2>5, <2>6, <2>7, MoveStep
<1>4. CASE ClaimRefused(r) \/ ReuseUnconfirmed(r)
  <2>1. PICK st \in {"CONFLICTED", "FAILED"} :
           ReportAndCompensate(r, st, executed[r])
    BY <1>4 DEF ClaimRefused, ReuseUnconfirmed
  <2>2. rows' = rows /\ effect' = effect /\ st \in ActionStates
    BY <1>4 DEF ClaimRefused, ReuseUnconfirmed, ledgerVars, ActionStates
  <2>3. /\ Alone(r) /\ executed'[r] = executed[r]
        /\ report'[r] = [report[r] EXCEPT ![Key(r)] = st]
        /\ \/ pc'[r] = "loop" /\ at'[r] = at[r] + 1
           \/ pc'[r] = "rollback" /\ at'[r] = at[r]
    BY <1>0, <2>1, ReportFrame
  <2> QED
    BY <1>1, <1>2, <2>2, <2>3, ReportStep
<1>5. CASE ClaimFindsOutcome(r)
  <2>1. /\ Alone(r) /\ executed'[r] = executed[r] /\ at'[r] = at[r]
        /\ report'[r] = report[r] /\ rows' = rows /\ effect' = effect
        /\ pc'[r] \in {"reuse", "reconcile"} /\ pc[r] = "loop"
    BY <1>0, <1>5 DEF ClaimFindsOutcome, Applying, Eligible, InHand, Alone,
       Others, RunTypes, ledgerVars
  <2>2. pc'[r] = "reuse" => rows[Key(r)].status = "completed"
    BY <1>0, <1>5 DEF ClaimFindsOutcome, ClaimState, RunTypes
  <2> QED
    BY <1>2, <2>1, <2>2, MoveStep
<1>6. CASE ReconcileConfirmed(r)
  <2>1. /\ Alone(r) /\ executed'[r] = executed[r] /\ at'[r] = at[r]
        /\ report'[r] = report[r] /\ rows' = rows /\ effect' = effect
        /\ pc'[r] = "resolve" /\ pc[r] = "reconcile"
    BY <1>0, <1>6, LocalFrame DEF ReconcileConfirmed, ledgerVars
  <2>2. effect[Key(r)] = 1
    BY <1>2, <1>6, Confirmed DEF ReconcileConfirmed
  <2> QED
    BY <1>2, <2>1, <2>2, MoveStep
<1>7. CASE ReuseCompleted(r) \/ ResolveIndeterminate(r)
  <2>1. PICK st \in {"REUSED", "CONFLICTED"} :
           /\ \/ ReportAndContinue(r, st)
              \/ ReportAndCompensate(r, st, executed[r])
           /\ effect' = effect
    BY <1>7 DEF ReuseCompleted, ResolveIndeterminate
  <2>2. /\ Alone(r) /\ executed'[r] = executed[r]
        /\ report'[r] = [report[r] EXCEPT ![Key(r)] = st]
        /\ \/ pc'[r] = "loop" /\ at'[r] = at[r] + 1
           \/ pc'[r] = "rollback" /\ at'[r] = at[r]
    BY <1>0, <2>1, ReportFrame
  <2>3. \A k \in Keys :
           /\ rows'[k].status = "pending" => rows'[k] = rows[k]
           /\ rows[k].status = "completed" => rows'[k].status = "completed"
    <3>1. CASE ReuseCompleted(r)
      BY <3>1 DEF ReuseCompleted, ledgerVars
    <3>2. CASE ResolveIndeterminate(r)
      BY <1>0, <1>2, <3>2
      DEF ResolveIndeterminate, ResolveIndeterminateAction, LedgerTypeOK
    <3> QED
      BY <1>7, <3>1, <3>2
  <2>4. \/ effect[Key(r)] = 1 /\ rows'[Key(r)].status = "completed"
        \/ \E s \in Runs \ {r} : Undone(s, Key(r))
    <3>1. CASE ReuseCompleted(r)
      <4>1. effect[Key(r)] = 1
        BY <1>2, <3>1, Confirmed DEF ReuseCompleted
      <4> QED
        BY <1>2, <2>3, <3>1, <4>1 DEF ReuseCompleted, ReportInv, SeenSoFar
    <3>2. CASE ResolveIndeterminate(r)
      <4>1. rows'[Key(r)].status = "completed"
        BY <1>0, <1>2, <3>2
        DEF ResolveIndeterminate, ResolveIndeterminateAction, LedgerTypeOK
      <4> QED
        BY <3>2, <4>1 DEF ResolveIndeterminate, ReportInv, SeenSoFar
    <3> QED
      BY <1>7, <3>1, <3>2
  <2>5. st \in ActionStates /\ pc[r] \in {"reuse", "resolve"}
    BY <1>7, <2>1 DEF ActionStates, ReuseCompleted, ResolveIndeterminate
  <2> QED
    BY <1>1, <1>2, <2>1, <2>2, <2>3, <2>4, <2>5, ReportStep
<1> QED
  BY <1>3, <1>4, <1>5, <1>6, <1>7 DEF Claim

(* The attempt, from the guard to the outcome on disk. *)
LEMMA ExecuteReports ==
    ASSUME Inv, ReportInv, Inv', NEW r \in Runs, Execute(r)
    PROVE  ReportInv'
<1>0. RunTypes /\ LedgerTypeOK /\ effect \in [Keys -> Nat]
  BY TypeInvParts DEF Inv
<1>1. Holding(r)
  BY DEF Execute, GuardPasses, GuardRefuses, DispatchReturns,
     DispatchCertifiesNothing, DispatchRaises, TrackEffect, TrackFails,
     VerifyConfirms, VerifyFails, Complete, CompleteFails, Settle, SettleFails,
     Holding
<1>2. /\ at[r] <= Len(Plan) /\ Key(r) \in Keys
      /\ pc[r] \notin {"rollback", "clear", "crashed"}
  BY <1>1, HeldKey DEF Holding
<1>3. CASE GuardPasses(r)
  <2>1. /\ Alone(r) /\ executed'[r] = executed[r] /\ at'[r] = at[r]
        /\ report'[r] = report[r] /\ rows' = rows /\ effect' = effect
        /\ pc'[r] = "dispatch" /\ pc[r] = "guard"
    BY <1>0, <1>3, LocalFrame DEF GuardPasses, ledgerVars
  <2>2. Holding(r)'
    BY <2>1 DEF Holding
  <2> QED
    BY <2>1, <2>2, MoveStep
<1>4. CASE \/ GuardRefuses(r) \/ DispatchCertifiesNothing(r) \/ TrackFails(r)
           \/ VerifyFails(r) \/ CompleteFails(r) \/ DispatchRaises(r)
  <2>1. rows' = rows /\ \E why, res : Raise(r, why, res)
    BY <1>4 DEF GuardRefuses, DispatchCertifiesNothing, TrackFails, VerifyFails,
       CompleteFails, DispatchRaises, ledgerVars
  <2>2. /\ Alone(r) /\ executed'[r] = executed[r] /\ at'[r] = at[r]
        /\ report'[r] = report[r] /\ pc'[r] = "settle"
    BY <1>0, <2>1, LocalFrame
  <2>3. Holding(r)'
    BY <2>2 DEF Holding
  <2>4. \A k \in Keys : effect[k] = 1 => effect'[k] = 1
    <3>1. CASE DispatchRaises(r)
      <4>1. effect[Key(r)] = 0
        BY <3>1 DEF DispatchRaises, Inv, OwnershipInv, EffectKnown
      <4> QED
        BY <1>0, <1>2, <3>1, <4>1 DEF DispatchRaises
    <3>2. CASE ~DispatchRaises(r)
      BY <1>4, <3>2 DEF GuardRefuses, DispatchCertifiesNothing, TrackFails,
         VerifyFails, CompleteFails
    <3> QED
      BY <3>1, <3>2
  <2> QED
    BY <1>2, <2>1, <2>2, <2>3, <2>4, MoveStep
<1>5. CASE DispatchReturns(r)
  <2>1. /\ Alone(r) /\ executed'[r] = executed[r] /\ at'[r] = at[r]
        /\ report'[r] = report[r] /\ rows' = rows
        /\ pc'[r] = "returned" /\ pc[r] = "dispatch"
    BY <1>0, <1>5 DEF DispatchReturns, Alone, Others, RunTypes, ledgerVars
  <2>2. Holding(r)'
    BY <2>1 DEF Holding
  <2>3. \A k \in Keys : effect[k] = 1 => effect'[k] = 1
    <3>1. effect[Key(r)] = 0
      BY <2>1 DEF Inv, OwnershipInv, EffectKnown
    <3> QED
      BY <1>0, <1>2, <1>5, <3>1 DEF DispatchReturns
  <2> QED
    BY <2>1, <2>2, <2>3, MoveStep
<1>6. CASE TrackEffect(r)
  <2>1. CASE Key(r) \in Reversible
    BY <1>6, <2>1, TrackStep
  <2>2. CASE Key(r) \notin Reversible
    <3>1. /\ Alone(r) /\ executed'[r] = executed[r] /\ at'[r] = at[r]
          /\ report'[r] = report[r] /\ rows' = rows /\ effect' = effect
          /\ pc'[r] = "verify" /\ pc[r] = "returned"
      BY <1>0, <1>6, <2>2 DEF TrackEffect, Alone, Others, RunTypes, ledgerVars
    <3>2. Holding(r)'
      BY <3>1 DEF Holding
    <3> QED
      BY <2>2, <3>1, <3>2, MoveStep
  <2> QED
    BY <2>1, <2>2
<1>7. CASE VerifyConfirms(r)
  <2>1. /\ Alone(r) /\ executed'[r] = executed[r] /\ at'[r] = at[r]
        /\ report'[r] = report[r] /\ rows' = rows /\ effect' = effect
        /\ pc'[r] = "complete" /\ pc[r] = "verify"
    BY <1>0, <1>7, LocalFrame DEF VerifyConfirms, ledgerVars
  <2>2. Holding(r)'
    BY <2>1 DEF Holding
  <2>3. Key(r) \in Reversible => Tracked(r, Key(r))
    BY <2>1 DEF ReportInv, SeenSoFar
  <2> QED
    BY <2>1, <2>2, <2>3, MoveStep
<1>8. CASE Complete(r) \/ Settle(r) \/ SettleFails(r)
  <2>1. PICK st \in ActionStates \ {"REUSED"} :
           /\ \/ ReportAndContinue(r, st)
              \/ ReportAndCompensate(r, st, executed[r])
           /\ st = "VERIFIED" => pc[r] = "complete" /\ Complete(r)
           /\ SettleFails(r) => st = "INDETERMINATE"
    <3>1. CASE Complete(r)
      BY <3>1 DEF Complete, SettleFails, ActionStates
    <3>2. CASE Settle(r)
      <4>1. SettledReport(r) \in {"INDETERMINATE", "CONFLICTED", "FAILED"}
        BY DEF SettledReport
      <4>2. CASE ~SettleFails(r)
        BY <3>2, <4>1, <4>2 DEF Settle, ActionStates
      <4>3. CASE SettleFails(r)
        BY <4>3 DEF SettleFails, ActionStates
      <4> QED
        BY <4>2, <4>3
    <3>3. CASE SettleFails(r)
      BY <3>3 DEF SettleFails, ActionStates
    <3> QED
      BY <1>8, <3>1, <3>2, <3>3
  <2>2. /\ Alone(r) /\ executed'[r] = executed[r]
        /\ report'[r] = [report[r] EXCEPT ![Key(r)] = st]
        /\ \/ pc'[r] = "loop" /\ at'[r] = at[r] + 1
           \/ pc'[r] = "rollback" /\ at'[r] = at[r]
    BY <1>0, <2>1, ReportFrame
  <2>3. /\ effect' = effect
        /\ \A k \in Keys :
              /\ rows'[k].status = "pending" => rows'[k] = rows[k]
              /\ rows[k].status = "completed" => rows'[k].status = "completed"
        /\ rows'[Key(r)].status # "pending" \/ st = "INDETERMINATE"
        /\ Complete(r) => rows'[Key(r)].status = "completed"
    <3>1. CASE Complete(r)
      BY <1>0, <1>2, <3>1 DEF Complete, CompleteAction, LedgerTypeOK
    <3>2. CASE Settle(r)
      BY <1>0, <1>2, <3>2
      DEF Settle, FinishActionClaim, OwnsClaim, SettledStatus, LedgerTypeOK,
          Complete
    <3>3. CASE SettleFails(r)
      BY <2>1, <3>3 DEF SettleFails, ledgerVars, Complete
    <3> QED
      BY <1>8, <3>1, <3>2, <3>3
  <2> QED
    BY <1>2, <2>1, <2>2, <2>3, ReportStep
<1> QED
  BY <1>3, <1>4, <1>5, <1>6, <1>7, <1>8 DEF Execute
(* _maybe_compensate. *)
LEMMA RollbackReports ==
    ASSUME Inv, ReportInv, Inv', NEW r \in Runs, Rollback(r)
    PROVE  ReportInv'
<1>0. RunTypes /\ LedgerTypeOK /\ effect \in [Keys -> Nat]
  BY TypeInvParts DEF Inv
<1>1. CASE Compensate(r)
  <2>1. /\ Alone(r) /\ executed'[r] = executed[r] /\ at'[r] = at[r]
        /\ report'[r] = report[r] /\ rows' = rows
        /\ pc'[r] = "clear" /\ pc[r] = "rollback"
    BY <1>0, <1>1, LocalFrame DEF Compensate, ledgerVars
  <2>2. LastTracked(r) \in Keys /\ Tracked(r, LastTracked(r))
    BY <1>1, RollbackOwns DEF Compensate
  <2>3. \A k \in Keys : effect[k] = 1 => \/ effect'[k] = 1
                                         \/ /\ Tracked(r, k)
                                            /\ pc'[r] = "clear"
                                            /\ LastTracked(r) = k
    BY <1>0, <1>1, <2>1, <2>2 DEF Compensate
  <2>4. ~Holding(r)
    BY <2>1 DEF Holding
  <2> QED
    BY <2>1, <2>3, <2>4, MoveStep
<1>2. CASE EndRollback(r)
  BY <1>2, EndStep
<1>3. CASE CompensationFails(r) \/ ClearCompensated(r) \/ ClearFails(r)
  <2>1. /\ pc[r] \in {"rollback", "clear"} /\ pc'[r] = "rollback" /\ at' = at
        /\ executed[r] # <<>> /\ executed' = Untracked(r)
    <3>1. CASE CompensationFails(r)
      BY <3>1 DEF CompensationFails
    <3>2. CASE ClearCompensated(r) \/ ClearFails(r)
      BY <1>0, <3>2 DEF ClearCompensated, ClearFails, RunTypes, ProgramOrder
    <3> QED
      BY <1>3, <3>1, <3>2
  <2>2. PICK k \in Keys : k = LastTracked(r) /\ Tracked(r, k)
    BY <2>1, RollbackOwns
  <2>3. Others(r)
    <3>1. \A s \in Runs \ {r} : executed'[s] = executed[s]
      BY <1>0, <2>1, UntrackFacts
    <3> QED
      BY <1>0, <1>3, <3>1
      DEF CompensationFails, ClearFails, ClearCompensated, Others, RunTypes
  <2>4. PICK st \in {"COMPENSATED", "COMPENSATION_FAILED"} :
           /\ report' = [report EXCEPT ![r][k] = st]
           /\ st = "COMPENSATED" => ClearCompensated(r)
           /\ ClearCompensated(r) => st = "COMPENSATED"
    <3>1. CASE ClearCompensated(r)
      BY <2>2, <3>1 DEF ClearCompensated
    <3>2. CASE ~ClearCompensated(r)
      BY <1>3, <2>2, <3>2 DEF CompensationFails, ClearFails
    <3> QED
      BY <3>1, <3>2
  <2>5. \A j \in Keys \ {k} : effect'[j] = effect[j] /\ rows'[j] = rows[j]
    BY <1>0, <1>3, <2>2 DEF CompensationFails, ClearFails, ClearCompensated,
       ClearCompleted, ledgerVars, LedgerTypeOK
  <2>6. \/ rows'[k].status # "pending"
        \/ rows'[k] = rows[k] /\ st = "COMPENSATION_FAILED"
    <3>1. CASE ClearCompensated(r)
      <4>1. rows[k].fp = EffectFp[r][k]
        BY <2>2 DEF Inv, OwnershipInv, TrackedRow
      <4>2. rows'[k] = NoRow
        BY <1>0, <2>2, <3>1, <4>1 DEF ClearCompensated, ClearCompleted, LedgerTypeOK
      <4> QED
        BY <4>2 DEF NoRow
    <3>2. CASE ~ClearCompensated(r)
      BY <1>3, <2>4, <3>2 DEF CompensationFails, ClearFails, ledgerVars
    <3> QED
      BY <3>1, <3>2
  <2> QED
    BY <2>1, <2>2, <2>3, <2>4, <2>5, <2>6, UntrackStep
<1> QED
  BY <1>1, <1>2, <1>3 DEF Rollback

-----------------------------------------------------------------------------
LEMMA InitReports == Init => ReportInv
<1> SUFFICES ASSUME Init
             PROVE  ReportInv
  OBVIOUS
<1>1. \A r \in Runs : /\ pc[r] = "idle" /\ executed[r] = <<>>
                      /\ \A k \in Keys : report[r][k] = "none" /\ ~Tracked(r, k)
  BY DEF Init, Tracked
<1>2. ReportsInOrder
  BY <1>1, PlanFacts DEF ReportsInOrder
<1>3. TrackedInOrder /\ SeenSoFar
  BY <1>1 DEF TrackedInOrder, SeenSoFar
<1>4. VerifiedStands /\ ReusedStands
  BY <1>1, PlanAssumption DEF VerifiedStands, ReusedStands
<1>5. StuckClaimExplained
  BY DEF Init, LedgerInit, NoRow, StuckClaimExplained
<1> QED
  BY <1>2, <1>3, <1>4, <1>5 DEF ReportInv

LEMMA StutterReports == ReportInv /\ UNCHANGED vars => ReportInv'
<1> SUFFICES ASSUME ReportInv, UNCHANGED vars
             PROVE  ReportInv'
  OBVIOUS
<1>1. /\ \A s \in Runs : Key(s)' = Key(s) /\ (Holding(s)' <=> Holding(s))
      /\ \A s \in Runs : \A j : Tracked(s, j)' <=> Tracked(s, j)
      /\ \A s \in Runs : \A j : Undone(s, j)' <=> Undone(s, j)
  BY DEF vars, Key, Holding, Tracked, Undone, LastTracked
<1>2. \A s \in Runs : /\ Tracked(s, Key(s))' <=> Tracked(s, Key(s))
                      /\ \A q \in Runs : Undone(q, Key(s))' <=> Undone(q, Key(s))
  BY DEF vars, Key, Tracked, Undone, LastTracked
<1>3. ReportsInOrder' /\ TrackedInOrder'
  BY <1>1 DEF vars, ReportInv, ReportsInOrder, TrackedInOrder, Precedes
<1>4. SeenSoFar'
  BY <1>1, <1>2 DEF vars, ReportInv, SeenSoFar
<1>5. VerifiedStands' /\ ReusedStands'
  BY <1>1 DEF vars, ReportInv, VerifiedStands, ReusedStands, Standing
<1>6. StuckClaimExplained'
  BY <1>1 DEF vars, ReportInv, StuckClaimExplained, Attempting
<1> QED
  BY <1>3, <1>4, <1>5, <1>6 DEF ReportInv

LEMMA NextReports == Inv /\ ReportInv /\ [Next]_vars => Inv' /\ ReportInv'
<1> SUFFICES ASSUME Inv, ReportInv, [Next]_vars
             PROVE  Inv' /\ ReportInv'
  OBVIOUS
<1>1. Inv'
  BY NextOwns
<1>2. ASSUME NEW r \in Runs, Step(r) \/ Crash(r)
      PROVE  ReportInv'
  BY <1>1, <1>2, OutsideReports, GateReports, ClaimReports, ExecuteReports,
     RollbackReports DEF Step
<1> QED
  BY <1>1, <1>2, StutterReports DEF Next

LEMMA InvHolds == Spec => [](Inv /\ ReportInv)
  BY InitOwns, InitReports, NextReports, PTL DEF Spec

(* The inductive invariant: every row has its owner, reports are written   *)
(* once and in order, and what a report says stands unless the run that    *)
(* undid it says so (WorkflowOrchestrator.run, _maybe_compensate).         *)
THEOREM SafetyHolds == Spec => []SafetyInv
<1>1. Inv /\ ReportInv => SafetyInv
  BY DEF Inv, SafetyInv
<1> QED
  BY <1>1, InvHolds, PTL

(* For any plan and any number of runs, a reservation left behind belongs  *)
(* to a run that is at work on it, has stopped, or has reported that it    *)
(* could not record the outcome.                                           *)
THEOREM StuckClaimsAreExplained == Spec => []StuckClaimExplained
<1>1. SafetyInv => StuckClaimExplained
  BY DEF SafetyInv, ReportInv
<1> QED
  BY <1>1, SafetyHolds, PTL

LEMMA UndoneIsRolledBack ==
    ASSUME NEW s \in Runs, NEW k \in Keys, Undone(s, k)
    PROVE  RolledBack(s, k)
  BY DEF Undone, RolledBack

(* A finished report is only falsified by a rollback of another run: what  *)
(* a run reports VERIFIED it never loses, what it reports REUSED only to   *)
(* the run that made it.                                                   *)
THEOREM ReportsAreTrusted == Spec => []OnlyRollbackRevokesSuccess
<1>1. Inv /\ ReportInv => OnlyRollbackRevokesSuccess
  <2> SUFFICES ASSUME Inv, ReportInv, NEW r \in Runs, NEW k \in Effectful,
                      pc[r] = "done", Succeeded(report[r][k]), effect[k] = 0
               PROVE  /\ report[r][k] = "REUSED"
                      /\ \E s \in Runs \ {r} : RolledBack(s, k)
    BY DEF OnlyRollbackRevokesSuccess
  <2>0. k \in Keys
    BY PlanAssumption
  <2>1. report[r][k] # "VERIFIED"
    BY DEF ReportInv, VerifiedStands, Undone, Standing
  <2>2. report[r][k] = "REUSED"
    BY <2>1 DEF Succeeded
  <2>3. \E s \in Runs \ {r} : Undone(s, k)
    BY <2>2 DEF ReportInv, ReusedStands, Standing
  <2> QED
    BY <2>0, <2>2, <2>3, UndoneIsRolledBack
<1> QED
  BY <1>1, InvHolds, PTL

(* Whatever other runs do meanwhile, the provider is asked for an action   *)
(* while the effects it depends on stand, or the run that made one of them *)
(* has rolled it back.                                                     *)
THEOREM DispatchIsSupported == Spec => []DependenciesStandAtDispatch
<1>1. Inv /\ ReportInv => DependenciesStandAtDispatch
  <2> SUFFICES ASSUME Inv, ReportInv, NEW r \in Runs, pc[r] = "dispatch",
                      NEW d \in Deps[Key(r)] \cap Effectful
               PROVE  effect[d] = 1 \/ \E s \in Runs \ {r} : RolledBack(s, d)
    BY DEF DependenciesStandAtDispatch
  <2>0. d \in Keys
    BY PlanAssumption
  <2>1. report[r][d] \in {"VERIFIED", "REUSED"}
    BY DEF ReportInv, SeenSoFar, Succeeded
  <2>2. CASE report[r][d] = "VERIFIED"
    BY <2>2 DEF ReportInv, VerifiedStands, Undone, Standing
  <2>3. CASE report[r][d] = "REUSED"
    <3>1. effect[d] = 1 \/ \E s \in Runs \ {r} : Undone(s, d)
      BY <2>3 DEF ReportInv, ReusedStands, Standing
    <3> QED
      BY <2>0, <3>1, UndoneIsRolledBack
  <2> QED
    BY <2>1, <2>2, <2>3
<1> QED
  BY <1>1, InvHolds, PTL

-----------------------------------------------------------------------------
(* An effect is only undone by a run that has it last on its list. *)
LEMMA WhoUndoes ==
    ASSUME Inv, [Next]_vars, NEW k \in Keys, effect'[k] < effect[k]
    PROVE  \E r \in Runs : /\ pc[r] = "rollback" /\ executed[r] # <<>>
                           /\ LastTracked(r) = k
<1>0. effect \in [Keys -> Nat] /\ RunTypes
  BY TypeInvParts DEF Inv
<1>1. effect' # effect
  BY <1>0
<1>2. PICK r \in Runs : \/ DispatchReturns(r) \/ DispatchRaises(r)
                        \/ CompensationFails(r) \/ Compensate(r)
  BY <1>1 DEF Next, vars, Step, Start, Gate, SkipRemaining, RefuseCapability,
     AwaitCoherenceReview, SkipForDependency, RefuseByPolicy, PlanOnly,
     SelectionFails, ReadOrGenerate, Claim, ClaimGranted, ClaimRefused,
     ClaimFindsOutcome, ReuseCompleted, ReuseUnconfirmed, ReconcileConfirmed,
     ResolveIndeterminate, Execute, GuardPasses, GuardRefuses,
     DispatchCertifiesNothing, TrackEffect, TrackFails, VerifyConfirms,
     VerifyFails, Complete, CompleteFails, Settle, SettleFails, Rollback,
     ClearCompensated, ClearFails, EndRollback, Finish, Crash
<1>3. CASE DispatchReturns(r) \/ DispatchRaises(r)
  <2>1. Key(r) \in Keys
    BY <1>3, HeldKey DEF Holding, DispatchReturns, DispatchRaises
  <2> QED
    BY <1>0, <1>3, <2>1 DEF DispatchReturns, DispatchRaises
<1>4. CASE CompensationFails(r) \/ Compensate(r)
  <2>1. LastTracked(r) \in Keys /\ pc[r] = "rollback" /\ executed[r] # <<>>
    BY <1>0, <1>4, UntrackFacts DEF CompensationFails, Compensate
  <2> QED
    BY <1>0, <1>4, <2>1 DEF CompensationFails, Compensate
<1> QED
  BY <1>2, <1>3, <1>4

(* A rollback undoes effects in the reverse order of the plan: when one is *)
(* undone, nothing later of the same run is left on its list.              *)
THEOREM RollbackIsReversed == Spec => UndoneInReverseOrder
<1>1. Inv /\ ReportInv /\ [Next]_vars => UndoneInReverseOrderStep
  <2> SUFFICES ASSUME Inv, ReportInv, [Next]_vars, NEW r \in Runs,
                      NEW i \in Positions, NEW j \in Positions, i < j,
                      effect'[Plan[i]] < effect[Plan[i]],
                      Tracked(r, Plan[i]), Tracked(r, Plan[j])
               PROVE  FALSE
    BY DEF UndoneInReverseOrderStep
  <2>0. i \in Nat /\ j \in Nat /\ Plan[i] \in Keys /\ Plan[j] \in Keys
    BY PlanFacts DEF Positions
  <2>1. PICK s \in Runs : /\ pc[s] = "rollback" /\ executed[s] # <<>>
                          /\ LastTracked(s) = Plan[i]
    BY <2>0, WhoUndoes
  <2>2. s = r
    <3>1. Tracked(s, Plan[i])
      BY <2>1, RollbackOwns
    <3> QED
      BY <2>0, <3>1 DEF Inv, OwnershipInv, TrackedOnce
  <2> DEFINE n == Len(executed[r])
  <2>3. n \in Nat \ {0} /\ executed[r][n] = Plan[i]
    BY <2>1, <2>2, UntrackFacts, TypeInvParts DEF Inv, LastTracked
  <2>4. PICK m \in 1..n : executed[r][m] = Plan[j]
    BY DEF Tracked
  <2>5. m # n
    BY <2>0, <2>3, <2>4, PlanFacts
  <2>6. Precedes(Plan[j], Plan[i])
    <3>1. m < n
      BY <2>3, <2>4, <2>5
    <3> QED
      BY <2>3, <2>4, <3>1 DEF ReportInv, TrackedInOrder
  <2>7. PICK p \in Positions, q \in Positions :
           p < q /\ Plan[p] = Plan[j] /\ Plan[q] = Plan[i]
    BY <2>6 DEF Precedes
  <2>8. p = j /\ q = i
    BY <2>7, PlanFacts
  <2> QED
    BY <2>0, <2>7, <2>8
<1> QED
  BY <1>1, InvHolds, PTL DEF Spec, UndoneInReverseOrder

(* No failed or uncertain attempt gives a bound key to another effect:     *)
(* only the run whose effect it is, after it undid and verified, does.     *)
THEOREM BindingsOutliveFailures == Spec => BindingOutlivesFailure
<1>1. Inv /\ [Next]_vars => BindingOutlivesFailureStep
  <2> SUFFICES ASSUME Inv, [Next]_vars, NEW k \in Keys,
                      rows[k].status # "absent", rows'[k].fp # rows[k].fp
               PROVE  \E r \in Runs : /\ pc[r] = "clear"
                                      /\ LastTracked(r) = k
                                      /\ EffectFp[r][k] = rows[k].fp
    BY DEF BindingOutlivesFailureStep
  <2>0. LedgerTypeOK /\ RunTypes
    BY TypeInvParts DEF Inv
  <2>1. PICK r \in Runs : \/ ClaimGranted(r) \/ ResolveIndeterminate(r)
                          \/ Complete(r) \/ Settle(r) \/ ClearCompensated(r)
    BY DEF Next, vars, ledgerVars, Step, Start, Gate, SkipRemaining,
       RefuseCapability, AwaitCoherenceReview, SkipForDependency,
       RefuseByPolicy, PlanOnly, SelectionFails, ReadOrGenerate, Claim,
       ClaimRefused, ClaimFindsOutcome, ReuseCompleted, ReuseUnconfirmed,
       ReconcileConfirmed, Execute, GuardPasses, GuardRefuses,
       DispatchReturns, DispatchRaises, DispatchCertifiesNothing, TrackEffect,
       TrackFails, VerifyConfirms, VerifyFails, CompleteFails, SettleFails,
       Rollback, CompensationFails, Compensate, ClearFails, EndRollback,
       Finish, Crash
  <2>2. CASE ClearCompensated(r)
    BY <2>0, <2>2 DEF ClearCompensated, ClearCompleted, LedgerTypeOK
  <2>3. CASE ClaimGranted(r)
    BY <2>0, <2>3 DEF ClaimGranted, ClaimAction, ClaimState, LedgerTypeOK
  <2>4. CASE Complete(r) \/ Settle(r)
    BY <2>0, <2>4 DEF Complete, CompleteAction, Settle, FinishActionClaim,
       OwnsClaim, LedgerTypeOK
  <2>5. CASE ResolveIndeterminate(r)
    BY <2>0, <2>5 DEF ResolveIndeterminate, ResolveIndeterminateAction,
       CanResolve, LedgerTypeOK
  <2> QED
    BY <2>1, <2>2, <2>3, <2>4, <2>5
<1> QED
  BY <1>1, InvHolds, PTL DEF Spec, BindingOutlivesFailure
=============================================================================
