---------------------------- MODULE Orchestrator ----------------------------
(***************************************************************************)
(* WorkflowOrchestrator.run (master_agent/orchestrator.py): the loop that  *)
(* takes the actions of a bound plan in dependency order through policy,   *)
(* the idempotency ledger, provider dispatch, independent verification     *)
(* and, after a failure, compensation in reverse order.                    *)
(*                                                                         *)
(* Runs are separate CLI processes over one ledger and one provider.  A    *)
(* retry of a plan is another run.  A process may stop at any step, by a   *)
(* crash or by an exception the loop does not catch (sqlite3.Error).       *)
(*                                                                         *)
(* The provider is external: effect[k] counts the effects of key k that    *)
(* stand at the provider.  Connectors are taken at their word: one that    *)
(* raises PreEffectError or VersionConflictError has had no effect, and    *)
(* verify, verify_completed and verify_compensation only confirm what is   *)
(* so; each of them may always fail to confirm.                            *)
(***************************************************************************)
EXTENDS IdempotencyLedger, Naturals, Sequences

CONSTANTS
    Runs,        \* processes that run the plan
    Plan,        \* the keys of the plan's actions, in _topological_order
    Deps,        \* Deps[k]: the keys of the actions k depends on
    Effectful,   \* keys of actions with _uses_idempotency
    Reversible,  \* keys of actions of risk REVERSIBLE_WRITE
    EffectFp,    \* EffectFp[r][k]: effect fingerprint of run r's action k
    CompensateOnFailure   \* plan.compensate_on_failure

Positions == 1..Len(Plan)

ASSUME PlanAssumption ==
    /\ Plan \in Seq(Keys)
    /\ \A i, j \in Positions : Plan[i] = Plan[j] => i = j
    /\ Deps \in [Keys -> SUBSET Keys]
    /\ \A i \in Positions : \A d \in Deps[Plan[i]] :
          \E j \in 1..(i - 1) : Plan[j] = d
    /\ Reversible \subseteq Effectful
    /\ Effectful \subseteq Keys
    /\ EffectFp \in [Runs -> [Keys -> Fingerprints]]
    /\ CompensateOnFailure \in BOOLEAN
    /\ Tokens = Runs \X Keys

VARIABLES
    effect,    \* external: effects of each key standing at the provider
    pc,        \* where each run is
    mode,      \* "apply", "dry", or "coherence" (whole-plan review missing)
    at,        \* position of the action in hand
    report,    \* report[r][k]: ActionState reported for k, or "none"
    executed,  \* side_effects_may_have_occurred
    stopped,   \* abort_remaining
    result,    \* result of the action in hand, or the outcome being reconciled
    cause      \* the outcome _persist_idempotency_outcome will be asked for

runVars == <<pc, mode, at, report, executed, stopped, result, cause>>
vars == <<rows, verdict, effect, pc, mode, at, report, executed, stopped,
          result, cause>>

-----------------------------------------------------------------------------
Pcs == {"idle", "loop", "reuse", "reconcile", "resolve", "guard", "dispatch",
        "returned", "verify", "complete", "settle", "rollback", "clear",
        "done", "crashed"}

ActionStates == {"none", "PLANNED", "SKIPPED", "APPROVAL_REQUIRED",
                 "PROHIBITED", "VERIFIED", "REUSED", "FAILED", "CONFLICTED",
                 "INDETERMINATE", "COMPENSATED", "COMPENSATION_FAILED"}

Causes == {"none", "version_conflict", "pre_effect", "uncertain"}

TypeOK ==
    /\ LedgerTypeOK
    /\ effect \in [Keys -> Nat]
    /\ pc \in [Runs -> Pcs]
    /\ mode \in [Runs -> {"apply", "dry", "coherence"}]
    /\ at \in [Runs -> 1..(Len(Plan) + 1)]
    /\ report \in [Runs -> [Keys -> ActionStates]]
    /\ executed \in [Runs -> Seq(Keys)]
    /\ stopped \in [Runs -> BOOLEAN]
    /\ result \in [Runs -> Results \cup {NoResult}]
    /\ cause \in [Runs -> Causes]

Init ==
    /\ LedgerInit
    /\ effect = [k \in Keys |-> 0]
    /\ pc = [r \in Runs |-> "idle"]
    /\ mode = [r \in Runs |-> "apply"]
    /\ at = [r \in Runs |-> 1]
    /\ report = [r \in Runs |-> [k \in Keys |-> "none"]]
    /\ executed = [r \in Runs |-> <<>>]
    /\ stopped = [r \in Runs |-> FALSE]
    /\ result = [r \in Runs |-> NoResult]
    /\ cause = [r \in Runs |-> "none"]

-----------------------------------------------------------------------------
(* The action in hand, its fingerprint and the token its claim draws. *)
Key(r) == Plan[at[r]]
Fp(r) == EffectFp[r][Key(r)]
Token(r) == <<r, Key(r)>>

InHand(r) == pc[r] = "loop" /\ at[r] <= Len(Plan)

Succeeded(s) == s \in {"VERIFIED", "REUSED"}

(* Faulty variant: an attempt that was made counts as a success. *)
DependencyAttempted(r, d) ==
    report[r][d] \in {"VERIFIED", "REUSED", "PLANNED", "INDETERMINATE"}

DependencySucceeded(r, d) ==
    Succeeded(report[r][d]) \/ (mode[r] = "dry" /\ report[r][d] = "PLANNED")

FailedDependencies(r) ==
    {d \in Deps[Key(r)] : ~DependencySucceeded(r, d)}

(* The action in hand is reported as s and the loop moves on. *)
ReportAndContinue(r, s) ==
    /\ report' = [report EXCEPT ![r][Key(r)] = s]
    /\ at' = [at EXCEPT ![r] = @ + 1]
    /\ pc' = [pc EXCEPT ![r] = "loop"]
    /\ result' = [result EXCEPT ![r] = NoResult]
    /\ cause' = [cause EXCEPT ![r] = "none"]
    /\ UNCHANGED <<mode, executed, stopped>>

(* The action in hand is reported as s and _maybe_compensate is called,    *)
(* with tracked the list of effects it may have to undo.                   *)
ReportAndCompensate(r, s, tracked) ==
    /\ report' = [report EXCEPT ![r][Key(r)] = s]
    /\ result' = [result EXCEPT ![r] = NoResult]
    /\ cause' = [cause EXCEPT ![r] = "none"]
    /\ IF mode[r] # "dry" /\ CompensateOnFailure /\ tracked # <<>>
       THEN pc' = [pc EXCEPT ![r] = "rollback"] /\ UNCHANGED at
       ELSE pc' = [pc EXCEPT ![r] = "loop"] /\ at' = [at EXCEPT ![r] = @ + 1]
    /\ UNCHANGED <<mode, executed, stopped>>

Move(r, to) ==
    /\ pc' = [pc EXCEPT ![r] = to]
    /\ UNCHANGED <<mode, at, report, executed, stopped, result, cause>>

(* An exception handler is entered; res is what `result` holds there. *)
Raise(r, why, res) ==
    /\ pc' = [pc EXCEPT ![r] = "settle"]
    /\ cause' = [cause EXCEPT ![r] = why]
    /\ result' = [result EXCEPT ![r] = res]
    /\ UNCHANGED <<mode, at, report, executed, stopped>>

-----------------------------------------------------------------------------
(* run: systems governance decides whether the plan still needs a          *)
(* whole-plan review; the plan_started event is written.                   *)
Start(r) ==
    /\ pc[r] = "idle"
    /\ \E m \in {"apply", "dry", "coherence"} : mode' = [mode EXCEPT ![r] = m]
    /\ pc' = [pc EXCEPT ![r] = "loop"]
    /\ UNCHANGED <<rows, verdict, effect, at, report, executed, stopped,
                   result, cause>>

(* Actions left after a rollback are skipped. *)
SkipRemaining(r) ==
    /\ InHand(r)
    /\ stopped[r]
    /\ ReportAndContinue(r, "SKIPPED")
    /\ UNCHANGED <<ledgerVars, effect>>

(* The capability catalogue or the governance envelope refuses the action. *)
RefuseCapability(r) ==
    /\ InHand(r)
    /\ ~stopped[r]
    /\ ReportAndCompensate(r, "PROHIBITED", executed[r])
    /\ UNCHANGED <<ledgerVars, effect>>

(* No action is attempted while the whole-plan review is missing. *)
AwaitCoherenceReview(r) ==
    /\ InHand(r)
    /\ ~stopped[r]
    /\ mode[r] = "coherence"
    /\ \E s \in {"APPROVAL_REQUIRED", "PROHIBITED"} : ReportAndContinue(r, s)
    /\ UNCHANGED <<ledgerVars, effect>>

SkipForDependency(r) ==
    /\ InHand(r)
    /\ ~stopped[r]
    /\ mode[r] # "coherence"
    /\ FailedDependencies(r) # {}
    /\ ReportAndContinue(r, "SKIPPED")
    /\ UNCHANGED <<ledgerVars, effect>>

Eligible(r) ==
    /\ InHand(r)
    /\ ~stopped[r]
    /\ mode[r] # "coherence"
    /\ FailedDependencies(r) = {}

(* Source of truth, policy, connector contract or egress binding refuse. *)
RefuseByPolicy(r) ==
    /\ Eligible(r)
    /\ \E s \in {"APPROVAL_REQUIRED", "PROHIBITED"} :
          ReportAndCompensate(r, s, executed[r])
    /\ UNCHANGED <<ledgerVars, effect>>

PlanOnly(r) ==
    /\ Eligible(r)
    /\ mode[r] = "dry"
    /\ ReportAndContinue(r, "PLANNED")
    /\ UNCHANGED <<ledgerVars, effect>>

Applying(r) == Eligible(r) /\ mode[r] = "apply"

(* Connector selection or the egress binding raises before any claim. *)
SelectionFails(r) ==
    /\ Applying(r)
    /\ Key(r) \in Effectful
    /\ ReportAndCompensate(r, "FAILED", executed[r])
    /\ UNCHANGED <<ledgerVars, effect>>

(* Reads and local generations keep no ledger row and leave no effect. *)
ReadOrGenerate(r) ==
    /\ Applying(r)
    /\ Key(r) \notin Effectful
    /\ \/ ReportAndContinue(r, "VERIFIED")
       \/ \E s \in {"FAILED", "CONFLICTED", "INDETERMINATE"} :
             ReportAndCompensate(r, s, executed[r])
    /\ UNCHANGED <<ledgerVars, effect>>

-----------------------------------------------------------------------------
(* claim_action and the branch on its answer. *)
ClaimGranted(r) ==
    /\ Applying(r)
    /\ Key(r) \in Effectful
    /\ ClaimAction(Key(r), Fp(r), Token(r))
    /\ Move(r, "guard")
    /\ UNCHANGED effect

(* Faulty variant: an action somebody else has in hand counts as done. *)
ClaimTrustsOthers(r) ==
    /\ Applying(r)
    /\ Key(r) \in Effectful
    /\ ClaimState(Key(r), Fp(r)) = "IN_PROGRESS"
    /\ ReportAndContinue(r, "REUSED")
    /\ UNCHANGED <<ledgerVars, effect>>

ClaimRefused(r) ==
    /\ Applying(r)
    /\ Key(r) \in Effectful
    /\ \/ ClaimState(Key(r), Fp(r)) \in {"CONFLICT", "IN_PROGRESS"}
       \/ /\ ClaimState(Key(r), Fp(r)) = "INDETERMINATE"
          /\ rows[Key(r)].result = NoResult
    /\ ReportAndCompensate(r, "CONFLICTED", executed[r])
    /\ UNCHANGED <<ledgerVars, effect>>

ClaimFindsOutcome(r) ==
    /\ Applying(r)
    /\ Key(r) \in Effectful
    /\ \/ ClaimState(Key(r), Fp(r)) = "COMPLETED" /\ pc' = [pc EXCEPT ![r] = "reuse"]
       \/ /\ ClaimState(Key(r), Fp(r)) = "INDETERMINATE"
          /\ rows[Key(r)].result # NoResult
          /\ pc' = [pc EXCEPT ![r] = "reconcile"]
    /\ result' = [result EXCEPT ![r] = rows[Key(r)].result]
    /\ UNCHANGED <<ledgerVars, effect, mode, at, report, executed, stopped,
                   cause>>

(* What a truthful provider read can confirm: the effect stands. *)
CanConfirm(k) == effect[k] > 0

(* A completed row is reused only after verify_completed confirms it. *)
ReuseCompleted(r) ==
    /\ pc[r] = "reuse"
    /\ CanConfirm(Key(r))
    /\ ReportAndContinue(r, "REUSED")
    /\ UNCHANGED <<ledgerVars, effect>>

(* The prior outcome does not verify, cannot be read, or has changed by    *)
(* the time it is to be promoted.                                          *)
ReuseUnconfirmed(r) ==
    /\ pc[r] \in {"reuse", "reconcile", "resolve"}
    /\ \E s \in {"CONFLICTED", "FAILED"} :
          ReportAndCompensate(r, s, executed[r])
    /\ UNCHANGED <<ledgerVars, effect>>

(* An indeterminate row with a result record is verified, then promoted    *)
(* in a second transaction.                                                *)
ReconcileConfirmed(r) ==
    /\ pc[r] = "reconcile"
    /\ CanConfirm(Key(r))
    /\ Move(r, "resolve")
    /\ UNCHANGED <<ledgerVars, effect>>

(* The promotion is on disk when the report is recorded: a record that     *)
(* cannot be written is caught with it, and the action counts as a         *)
(* conflict although its row is completed.                                 *)
ResolveIndeterminate(r) ==
    /\ pc[r] = "resolve"
    /\ ResolveIndeterminateAction(Key(r), Fp(r), result[r])
    /\ \/ ReportAndContinue(r, "REUSED")
       \/ ReportAndCompensate(r, "CONFLICTED", executed[r])
    /\ UNCHANGED effect

-----------------------------------------------------------------------------
(* pre_effect_guard: called with the claim held; its refusal is an         *)
(* ordinary exception of the loop.                                         *)
GuardPasses(r) ==
    /\ pc[r] = "guard"
    /\ Move(r, "dispatch")
    /\ UNCHANGED <<ledgerVars, effect>>

GuardRefuses(r) ==
    /\ pc[r] = "guard"
    /\ Raise(r, "uncertain", NoResult)
    /\ UNCHANGED <<ledgerVars, effect>>

(* connector.execute: returns a result, certifies that nothing happened,   *)
(* or raises with the effect made or not.                                  *)
DispatchReturns(r) ==
    /\ pc[r] = "dispatch"
    /\ effect' = [effect EXCEPT ![Key(r)] = @ + 1]
    /\ \E res \in Results : result' = [result EXCEPT ![r] = res]
    /\ pc' = [pc EXCEPT ![r] = "returned"]
    /\ UNCHANGED <<ledgerVars, mode, at, report, executed, stopped, cause>>

DispatchCertifiesNothing(r) ==
    /\ pc[r] = "dispatch"
    /\ \E why \in {"version_conflict", "pre_effect"} : Raise(r, why, NoResult)
    /\ UNCHANGED <<ledgerVars, effect>>

DispatchRaises(r) ==
    /\ pc[r] = "dispatch"
    /\ effect' \in {effect, [effect EXCEPT ![Key(r)] = @ + 1]}
    /\ Raise(r, "uncertain", NoResult)
    /\ UNCHANGED ledgerVars

(* The side_effect_may_have_occurred event is written, then a reversible   *)
(* effect is put on the list of effects to undo.                           *)
TrackEffect(r) ==
    /\ pc[r] = "returned"
    /\ executed' = IF Key(r) \in Reversible
                   THEN [executed EXCEPT ![r] = Append(@, Key(r))]
                   ELSE executed
    /\ pc' = [pc EXCEPT ![r] = "verify"]
    /\ UNCHANGED <<ledgerVars, effect, mode, at, report, stopped, result,
                   cause>>

TrackFails(r) ==
    /\ pc[r] = "returned"
    /\ Raise(r, "uncertain", result[r])
    /\ UNCHANGED <<ledgerVars, effect>>

(* _validate_execution_result and connector.verify. *)
VerifyConfirms(r) ==
    /\ pc[r] = "verify"
    /\ CanConfirm(Key(r))
    /\ Move(r, "complete")
    /\ UNCHANGED <<ledgerVars, effect>>

VerifyFails(r) ==
    /\ pc[r] = "verify"
    /\ \E why \in {"version_conflict", "pre_effect", "uncertain"} :
          Raise(r, why, result[r])
    /\ UNCHANGED <<ledgerVars, effect>>

Complete(r) ==
    /\ pc[r] = "complete"
    /\ CompleteAction(Key(r), Fp(r), Token(r), result[r])
    /\ ReportAndContinue(r, "VERIFIED")
    /\ UNCHANGED effect

(* Faulty variant: a completion that cannot be recorded is reported as     *)
(* VERIFIED all the same.                                                  *)
CompleteIgnored(r) ==
    /\ pc[r] = "complete"
    /\ ReportAndContinue(r, "VERIFIED")
    /\ UNCHANGED <<ledgerVars, effect>>

CompleteFails(r) ==
    /\ pc[r] = "complete"
    /\ Raise(r, "uncertain", result[r])
    /\ UNCHANGED <<ledgerVars, effect>>

(* What the handlers ask _persist_idempotency_outcome to record: a         *)
(* certified failure only if the connector returned no result.             *)
SettledStatus(r) ==
    IF cause[r] \in {"version_conflict", "pre_effect"} /\ result[r] = NoResult
    THEN "failed" ELSE "indeterminate"

(* The ActionState the handlers report once the outcome is on disk. *)
SettledReport(r) ==
    IF SettledStatus(r) = "indeterminate" THEN "INDETERMINATE"
    ELSE IF cause[r] = "version_conflict" THEN "CONFLICTED" ELSE "FAILED"

Settle(r) ==
    /\ pc[r] = "settle"
    /\ FinishActionClaim(Key(r), Fp(r), Token(r), SettledStatus(r), result[r])
    /\ ReportAndCompensate(r, SettledReport(r), executed[r])
    /\ UNCHANGED effect

(* The outcome cannot be written: the row stays pending. *)
SettleFails(r) ==
    /\ pc[r] = "settle"
    /\ ReportAndCompensate(r, "INDETERMINATE", executed[r])
    /\ UNCHANGED <<ledgerVars, effect>>

-----------------------------------------------------------------------------
(* Faulty variant: the first tracked effect first. *)
FirstTracked(r) == executed[r][1]

(* _maybe_compensate: the last tracked effect first. *)
LastTracked(r) == executed[r][Len(executed[r])]
Untracked(r) == [executed EXCEPT ![r] = SubSeq(@, 1, Len(@) - 1)]

(* Faulty variant: a failed compensation makes its key available again.    *)
FailureClears(r) ==
    /\ pc[r] = "rollback"
    /\ executed[r] # <<>>
    /\ ClearCompleted(LastTracked(r), EffectFp[r][LastTracked(r)])
    /\ report' = [report EXCEPT ![r][LastTracked(r)] = "COMPENSATION_FAILED"]
    /\ executed' = Untracked(r)
    /\ UNCHANGED <<effect, pc, mode, at, stopped, result, cause>>

(* No descriptor, manual mode, a target that no longer verifies, or an     *)
(* exception on the way: the effect is undone or not.                      *)
CompensationFails(r) ==
    /\ pc[r] = "rollback"
    /\ executed[r] # <<>>
    /\ effect' \in {effect, [effect EXCEPT ![LastTracked(r)] = 0]}
    /\ report' = [report EXCEPT ![r][LastTracked(r)] = "COMPENSATION_FAILED"]
    /\ executed' = Untracked(r)
    /\ UNCHANGED <<ledgerVars, pc, mode, at, stopped, result, cause>>

(* verify, compensate and verify_compensation all succeed. *)
Compensate(r) ==
    /\ pc[r] = "rollback"
    /\ executed[r] # <<>>
    /\ CanConfirm(LastTracked(r))
    /\ effect' = [effect EXCEPT ![LastTracked(r)] = 0]
    /\ Move(r, "clear")
    /\ UNCHANGED ledgerVars

(* clear_completed makes the compensated action available again. *)
ClearCompensated(r) ==
    /\ pc[r] = "clear"
    /\ ClearCompleted(LastTracked(r), EffectFp[r][LastTracked(r)])
    /\ report' = [report EXCEPT ![r][LastTracked(r)] = "COMPENSATED"]
    /\ executed' = Untracked(r)
    /\ pc' = [pc EXCEPT ![r] = "rollback"]
    /\ UNCHANGED <<effect, mode, at, stopped, result, cause>>

ClearFails(r) ==
    /\ pc[r] = "clear"
    /\ report' = [report EXCEPT ![r][LastTracked(r)] = "COMPENSATION_FAILED"]
    /\ executed' = Untracked(r)
    /\ pc' = [pc EXCEPT ![r] = "rollback"]
    /\ UNCHANGED <<ledgerVars, effect, mode, at, stopped, result, cause>>

EndRollback(r) ==
    /\ pc[r] = "rollback"
    /\ executed[r] = <<>>
    /\ stopped' = [stopped EXCEPT ![r] = TRUE]
    /\ at' = [at EXCEPT ![r] = @ + 1]
    /\ pc' = [pc EXCEPT ![r] = "loop"]
    /\ UNCHANGED <<ledgerVars, effect, mode, report, executed, result, cause>>

Finish(r) ==
    /\ pc[r] = "loop"
    /\ at[r] > Len(Plan)
    /\ Move(r, "done")
    /\ UNCHANGED <<ledgerVars, effect>>

Live(r) == pc[r] \notin {"idle", "done", "crashed"}

(* The run stops where it is: its process dies, or an audit write fails    *)
(* outside the loop's try (or with an sqlite3.Error, which no handler of   *)
(* run names). A write that fails inside the try with a caught exception   *)
(* is reported by the handler, with the same effect as SelectionFails,     *)
(* ReadOrGenerate, ReuseUnconfirmed, ResolveIndeterminate or TrackFails.   *)
(* One case is cut short here: when it fails inside a rollback that was    *)
(* called from the try, the handler starts that rollback again over the    *)
(* whole list.                                                             *)
Crash(r) ==
    /\ Live(r)
    /\ Move(r, "crashed")
    /\ UNCHANGED <<ledgerVars, effect>>

-----------------------------------------------------------------------------
Gate(r) ==
    \/ SkipRemaining(r) \/ RefuseCapability(r) \/ AwaitCoherenceReview(r)
    \/ SkipForDependency(r) \/ RefuseByPolicy(r) \/ PlanOnly(r)
    \/ SelectionFails(r) \/ ReadOrGenerate(r)

Claim(r) ==
    \/ ClaimGranted(r) \/ ClaimRefused(r) \/ ClaimFindsOutcome(r)
    \/ ReuseCompleted(r) \/ ReuseUnconfirmed(r)
    \/ ReconcileConfirmed(r) \/ ResolveIndeterminate(r)

Execute(r) ==
    \/ GuardPasses(r) \/ GuardRefuses(r)
    \/ DispatchReturns(r) \/ DispatchCertifiesNothing(r) \/ DispatchRaises(r)
    \/ TrackEffect(r) \/ TrackFails(r)
    \/ VerifyConfirms(r) \/ VerifyFails(r)
    \/ Complete(r) \/ CompleteFails(r) \/ Settle(r) \/ SettleFails(r)

Rollback(r) ==
    \/ CompensationFails(r) \/ Compensate(r)
    \/ ClearCompensated(r) \/ ClearFails(r) \/ EndRollback(r)

Step(r) == Start(r) \/ Gate(r) \/ Claim(r) \/ Execute(r) \/ Rollback(r) \/ Finish(r)

Next == \E r \in Runs : Step(r) \/ Crash(r)

Spec == Init /\ [][Next]_vars

FairSpec == Spec /\ \A r \in Runs : WF_vars(Step(r))

-----------------------------------------------------------------------------
(* Properties *)

(* Run r is between its claim and the outcome of it. *)
Holding(r) ==
    pc[r] \in {"guard", "dispatch", "returned", "verify", "complete", "settle"}

(* Run r is inside the attempt that holds the claim of key k. *)
Attempting(r, k) == Holding(r) /\ Key(r) = k

(* Key k is on run r's list of effects to undo. *)
Tracked(r, k) == \E i \in 1..Len(executed[r]) : executed[r][i] = k

(* However many runs attempt, crash, retry and roll back the same plan, a  *)
(* key never has two effects standing at the provider.                     *)
AtMostOneEffect == \A k \in Keys : effect[k] <= 1

(* A key the ledger offers for another attempt (no row, or the certified   *)
(* pre-effect failure that fail_action records) has no effect standing.    *)
RetryableMeansNoEffect ==
    \A k \in Keys : rows[k].status \in {"absent", "failed"} => effect[k] = 0

(* One effect has one owner: no two runs are at the same time between      *)
(* claim and outcome, or between outcome and rollback, of the same key.    *)
SingleOwner ==
    \A r, s \in Runs : r # s => \A k \in Keys :
        ~ /\ Attempting(r, k) \/ Tracked(r, k)
          /\ Attempting(s, k) \/ Tracked(s, k)

(* A reservation left behind is always explained: its run is still at      *)
(* work on it, has stopped, or has reported that it could not record the   *)
(* outcome.                                                                *)
StuckClaimExplained ==
    \A k \in Keys : rows[k].status = "pending" =>
        \E r \in Runs :
            /\ rows[k].token = <<r, k>>
            /\ \/ Attempting(r, k)
               \/ pc[r] = "crashed"
               \/ report[r][k] \in {"INDETERMINATE", "COMPENSATION_FAILED"}

(* Run s has undone or tried to undo its effect of key k, or stopped while *)
(* it might have.                                                          *)
RolledBack(s, k) ==
    \/ report[s][k] \in {"COMPENSATED", "COMPENSATION_FAILED"}
    \/ Tracked(s, k) /\ pc[s] \in {"clear", "crashed"}

(* A finished run whose report says VERIFIED or REUSED for an effect that  *)
(* no longer stands relied on an effect another run made and rolled back:  *)
(* nothing else, and never the run's own work, falsifies its report.       *)
OnlyRollbackRevokesSuccess ==
    \A r \in Runs, k \in Effectful :
        pc[r] = "done" /\ Succeeded(report[r][k]) /\ effect[k] = 0 =>
            report[r][k] = "REUSED" /\ \E s \in Runs \ {r} : RolledBack(s, k)

(* The provider is only asked for an action while the effects it depends   *)
(* on stand, except for one that another run made and has rolled back      *)
(* since this run verified it.                                             *)
DependenciesStandAtDispatch ==
    \A r \in Runs : pc[r] = "dispatch" =>
        \A d \in Deps[Key(r)] \cap Effectful :
            effect[d] = 1 \/ \E s \in Runs \ {r} : RolledBack(s, d)

BindingOutlivesFailureStep ==
    \A k \in Keys :
       rows[k].status # "absent" /\ rows'[k].fp # rows[k].fp =>
           \E r \in Runs : /\ pc[r] = "clear"
                            /\ LastTracked(r) = k
                            /\ EffectFp[r][k] = rows[k].fp

(* A key that is bound to an effect is only given to a different effect    *)
(* after a run with the first effect has undone it and verified that: a    *)
(* failed or uncertain attempt never frees a key for another change        *)
(* (action_fingerprint in claim_action and clear_completed).               *)
BindingOutlivesFailure == [][BindingOutlivesFailureStep]_vars

UndoneInReverseOrderStep ==
    \A r \in Runs, i, j \in Positions :
       effect'[Plan[i]] < effect[Plan[i]] /\ Tracked(r, Plan[i]) /\ i < j =>
           ~Tracked(r, Plan[j])

(* Within a run an effect is undone only after the tracked effects of all  *)
(* later actions, those that depend on it among them, have been dealt with *)
(* (_maybe_compensate, reversed(executed)).                                *)
UndoneInReverseOrder == [][UndoneInReverseOrderStep]_vars

(* Every run that is started reaches its report unless its process stops.  *)
RunsTerminate == \A r \in Runs : Live(r) ~> ~Live(r)

(* Under this mapping every step of every run is a step of EffectOnce. *)
PhaseOf(status) ==
    IF status \in {"absent", "failed"} THEN "open"
    ELSE IF status = "pending" THEN "attempt"
    ELSE IF status = "completed" THEN "settled" ELSE "unknown"

Promise == INSTANCE EffectOnce WITH
    phase <- [k \in Keys |-> PhaseOf(rows[k].status)],
    standing <- effect

(* The orchestrator with its ledger implements EffectOnce. *)
ImplementsEffectOnce == Promise!EffectOnceSpec

-----------------------------------------------------------------------------
(* The inductive invariant behind the safety properties. *)

(* What the position of a run says about its local state. *)
ProgramOrder ==
    \A r \in Runs :
        /\ pc[r] \notin {"idle", "loop", "done", "crashed"} => at[r] <= Len(Plan)
        /\ pc[r] = "clear" => executed[r] # <<>>
        /\ pc[r] \in {"returned", "verify", "complete", "reconcile", "resolve"}
             => result[r] # NoResult

(* A run inside an attempt owns the ledger row of its key. *)
ClaimHeld ==
    \A r \in Runs : Holding(r) => OwnsClaim(Key(r), Fp(r), Token(r))

(* The row of an effect that may have to be undone is never given away. *)
TrackedRow ==
    \A r \in Runs, k \in Keys : Tracked(r, k) =>
        /\ rows[k].fp = EffectFp[r][k]
        /\ \/ rows[k].status \in {"completed", "indeterminate"}
           \/ rows[k].status = "pending" /\ rows[k].token = <<r, k>>

(* An effect is on one list of effects to undo, and only once. *)
TrackedOnce ==
    /\ \A r, s \in Runs, k \in Keys : Tracked(r, k) /\ Tracked(s, k) => r = s
    /\ \A r \in Runs : \A i, j \in 1..Len(executed[r]) :
          executed[r][i] = executed[r][j] => i = j

NotYetTracked ==
    \A r \in Runs :
        \/ pc[r] \in {"guard", "dispatch", "returned"}
        \/ pc[r] = "settle" /\ result[r] = NoResult
        => ~Tracked(r, Key(r))

(* What a run knows of the provider without asking it again. *)
EffectKnown ==
    \A r \in Runs :
        /\ pc[r] \in {"guard", "dispatch"} => effect[Key(r)] = 0
        /\ pc[r] = "complete" => effect[Key(r)] = 1
        /\ pc[r] = "settle" /\ SettledStatus(r) = "failed" => effect[Key(r)] = 0
        /\ pc[r] = "clear" => effect[LastTracked(r)] = 0

(* Between claim and outcome a run owns the row and knows whether its      *)
(* effect can stand; between outcome and rollback the row cannot be given  *)
(* to anyone else.  Every safety property above rests on this.             *)
OwnershipInv ==
    /\ ProgramOrder
    /\ ClaimHeld
    /\ TrackedRow
    /\ TrackedOnce
    /\ NotYetTracked
    /\ EffectKnown
    /\ AtMostOneEffect
    /\ RetryableMeansNoEffect

-----------------------------------------------------------------------------
(* What the report of a run says about the provider: the strengthening     *)
(* behind the properties that relate a report to effects.                  *)

(* Key k comes before key j in the plan. *)
Precedes(k, j) ==
    \E m, n \in Positions : m < n /\ Plan[m] = k /\ Plan[n] = j

(* Run s has reported the rollback of its effect of key k, has undone it   *)
(* and not reported that yet, or has stopped with it on its list.          *)
Undone(s, k) ==
    \/ report[s][k] \in {"COMPENSATED", "COMPENSATION_FAILED"}
    \/ /\ Tracked(s, k)
       /\ pc[s] = "crashed" \/ (pc[s] = "clear" /\ LastTracked(s) = k)

(* Reports are written in the order of the plan, each of them once before  *)
(* a rollback changes it.                                                  *)
ReportsInOrder ==
    \A r \in Runs, i \in Positions :
        \/ i > at[r]
        \/ i = at[r] /\ pc[r] \notin {"rollback", "clear", "crashed"}
        => report[r][Plan[i]] = "none"

(* Effects to undo are those of earlier reversible actions, or of the      *)
(* action in hand once its dispatch has returned; they are listed in the   *)
(* order of the plan, and none of them is another run's.                   *)
TrackedInOrder ==
    /\ \A r \in Runs, k \in Keys : Tracked(r, k) =>
          /\ k \in Reversible
          /\ report[r][k] # "REUSED"
          /\ \E m \in Positions :
                /\ Plan[m] = k
                /\ \/ m < at[r]
                   \/ m = at[r] /\ pc[r] \in {"verify", "complete", "settle",
                                              "rollback", "clear", "crashed"}
    /\ \A r \in Runs : \A i, j \in 1..Len(executed[r]) :
          i < j => Precedes(executed[r][i], executed[r][j])

(* The effect of key k is made and recorded. *)
Standing(k) == effect[k] = 1 /\ rows[k].status = "completed"

(* What a run has seen before it goes on with the action in hand. *)
SeenSoFar ==
    \A r \in Runs :
        /\ pc[r] \in {"guard", "dispatch"} =>
              \A d \in Deps[Key(r)] : Succeeded(report[r][d])
        /\ pc[r] \in {"verify", "complete"} /\ Key(r) \in Reversible =>
              Tracked(r, Key(r))
        /\ pc[r] = "reuse" => rows[Key(r)].status = "completed"
              \/ \E s \in Runs \ {r} : Undone(s, Key(r))
        /\ pc[r] = "resolve" => effect[Key(r)] = 1
              \/ \E s \in Runs \ {r} : Undone(s, Key(r))

(* An effect reported VERIFIED stands, recorded as completed, unless its   *)
(* own run undoes it.                                                      *)
VerifiedStands ==
    \A r \in Runs, k \in Effectful : report[r][k] = "VERIFIED" =>
        \/ Standing(k) /\ (k \in Reversible => Tracked(r, k))
        \/ Undone(r, k)

(* An effect reported REUSED stands, recorded as completed, unless another *)
(* run undoes it.                                                          *)
ReusedStands ==
    \A r \in Runs, k \in Effectful : report[r][k] = "REUSED" =>
        Standing(k) \/ \E s \in Runs \ {r} : Undone(s, k)

(* A report says what stands, and what has been undone is explained by the *)
(* run that undid it.                                                      *)
ReportInv ==
    /\ ReportsInOrder
    /\ TrackedInOrder
    /\ SeenSoFar
    /\ VerifiedStands
    /\ ReusedStands
    /\ StuckClaimExplained

(* Every row has its owner, and every report is true of the provider or    *)
(* explained by the run that rolled back: the inductive invariant of the   *)
(* orchestrator.                                                           *)
SafetyInv == OwnershipInv /\ ReportInv
=============================================================================
