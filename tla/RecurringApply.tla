--------------------------- MODULE RecurringApply ---------------------------
(***************************************************************************)
(* `recurring apply`, `resume-approval`, `recurring reconcile`, `recover`  *)
(* and `cancel` (master_agent/cli.py) on one occurrence: attempts reserve  *)
(* it in the OccurrenceStore, run its plan in the Orchestrator behind a    *)
(* pre-effect guard, renew their lease from a heartbeat thread and close   *)
(* the occurrence from the run report.                                     *)
(***************************************************************************)
EXTENDS Orchestrator, OccurrenceStore

CONSTANTS
    Expires,          \* occurrence.expires_at
    LocalGeneration,  \* keys of actions of risk LOCAL_GENERATION
    NoOutcomes        \* reconcile has not read the ledger

(* Every attempt runs the one plan bound into the occurrence artifact. *)
ASSUME ApplyAssumption ==
    /\ Attempts = Runs
    /\ Expires \in Nat
    /\ LocalGeneration \subseteq Keys \ Effectful
    /\ \A r, s \in Runs : EffectFp[r] = EffectFp[s]

VARIABLES
    registered,  \* the workflow is enabled, not revoked and unchanged
    heartbeat,   \* "off", "on", or "lost" (heartbeat_errors is not empty)
    started,     \* effect_started
    open,        \* the attempt has not closed the occurrence yet
    seen,        \* what recurring reconcile has read and decided
    made         \* observation: keys the attempt has had an effect on

applyVars == <<registered, heartbeat, started, open, seen, made>>
allVars == <<vars, storeVars, applyVars>>

ApplyTypeOK ==
    /\ TypeOK
    /\ StoreTypeOK
    /\ registered \in BOOLEAN
    /\ heartbeat \in [Runs -> {"off", "on", "lost"}]
    /\ started \in [Runs -> BOOLEAN]
    /\ open \in [Runs -> BOOLEAN]
    /\ seen \in {"RECOVERABLE", "INDETERMINATE", NoOutcomes}
    /\ made \in [Runs -> SUBSET Keys]

ApplyInit ==
    /\ Init
    /\ StoreInit
    /\ registered = TRUE
    /\ heartbeat = [r \in Runs |-> "off"]
    /\ started = [r \in Runs |-> FALSE]
    /\ open = [r \in Runs |-> FALSE]
    /\ seen = NoOutcomes
    /\ made = [r \in Runs |-> {}]

-----------------------------------------------------------------------------
(* authenticate_occurrence: the registration is unchanged, the occurrence  *)
(* is in its time window and its artifact is the registered one.           *)
Authenticated(deadline) ==
    registered /\ clock <= deadline /\ occ.status # "UNBOUND"

(* The attempt has reserved the occurrence and starts its heartbeat. *)
BeginAttempt(r) ==
    /\ pc[r] = "idle"
    /\ Start(r)
    /\ mode'[r] # "dry"
    /\ heartbeat' = [heartbeat EXCEPT ![r] = "on"]
    /\ open' = [open EXCEPT ![r] = TRUE]
    /\ UNCHANGED <<registered, started, seen, made>>

ReserveAttempt(r) ==
    /\ Authenticated(Expires)
    /\ ReserveOccurrence(r)
    /\ BeginAttempt(r)

ResumeAttempt(r) ==
    /\ Authenticated(ResumeDeadline)
    /\ \E g \in 1..occ.generation : ResumeApprovalBlocked(r, g)
    /\ BeginAttempt(r)

(* The heartbeat thread: the first renewal that is refused or fails ends   *)
(* it and is remembered.                                                   *)
Heartbeat(r) ==
    /\ heartbeat[r] = "on"
    /\ \/ RenewFence(r) /\ UNCHANGED heartbeat
       \/ /\ heartbeat' = [heartbeat EXCEPT ![r] = "lost"]
          /\ UNCHANGED storeVars
    /\ UNCHANGED <<vars, registered, started, open, seen, made>>

(* pre_effect_guard of _recurring_apply. *)
GuardHolds(r) ==
    /\ heartbeat[r] # "lost"
    /\ registered
    /\ clock <= ResumeDeadline
    /\ FenceValid(r)

(* Faulty variant: the guard forgets to set effect_started. *)
PassUnmarked(r) ==
    /\ GuardHolds(r)
    /\ GuardPasses(r)
    /\ UNCHANGED <<storeVars, applyVars>>

GuardedPass(r) ==
    /\ GuardHolds(r)
    /\ GuardPasses(r)
    /\ started' = [started EXCEPT ![r] = TRUE]
    /\ UNCHANGED <<storeVars, registered, heartbeat, open, seen, made>>

GuardedRefusal(r) ==
    /\ ~GuardHolds(r)
    /\ GuardRefuses(r)
    /\ UNCHANGED <<storeVars, applyVars>>

(* Every other step of the run, provider dispatch and rollback included,   *)
(* is taken as in the orchestrator: the guard is not consulted again.      *)
RunStep(r) ==
    /\ open[r]
    /\ Gate(r) \/ Claim(r) \/ Rollback(r) \/ Finish(r)
       \/ (Execute(r) /\ pc[r] # "guard")
    /\ made' = [made EXCEPT ![r] = @ \cup {k \in Keys : effect'[k] > effect[k]}]
    /\ UNCHANGED <<storeVars, registered, heartbeat, started, open, seen>>

-----------------------------------------------------------------------------
(* The run is abandoned where it stands. *)
Abandon(r) == IF pc[r] = "done" THEN UNCHANGED runVars ELSE Move(r, "crashed")

(* The attempt ends: the heartbeat is stopped and joined first. *)
CloseAttempt(r) ==
    /\ open' = [open EXCEPT ![r] = FALSE]
    /\ heartbeat' = [heartbeat EXCEPT ![r] = "off"]
    /\ UNCHANGED <<registered, started, seen, made>>

Reported(r, s) == \E i \in Positions : report[r][Plan[i]] = s

(* Faulty variant: a run without failures counts as successful. *)
NothingFailed(r) == ~Reported(r, "FAILED") /\ ~Reported(r, "INDETERMINATE")

(* RunReport.successful. *)
Successful(r) ==
    \A i \in Positions : report[r][Plan[i]] \in {"PLANNED", "VERIFIED", "REUSED"}

(* A local generation that the run reported as verified. *)
LocalOutputStarted(r) ==
    \E i \in Positions : Plan[i] \in LocalGeneration
                         /\ report[r][Plan[i]] = "VERIFIED"

(* The status observe_report chooses for a run without pending approval. *)
ObservedStatus(r) ==
    IF Successful(r) THEN "SUCCEEDED"
    ELSE IF Reported(r, "INDETERMINATE") \/ started[r] \/ LocalOutputStarted(r)
         THEN "INDETERMINATE" ELSE "FAILED_PRE_EFFECT"

(* observe_report: approval wins over every other outcome. *)
ObserveBlocked(r) ==
    /\ pc[r] = "done" /\ open[r]
    /\ Reported(r, "APPROVAL_REQUIRED")
    /\ BlockForApproval(r)
    /\ CloseAttempt(r)
    /\ UNCHANGED vars

ObserveFinal(r) ==
    /\ pc[r] = "done" /\ open[r]
    /\ ~Reported(r, "APPROVAL_REQUIRED")
    /\ registered
    /\ FinalizeOccurrence(r, ObservedStatus(r))
    /\ CloseAttempt(r)
    /\ UNCHANGED vars

(* The exception path of _recurring_apply, from any point of the run: an   *)
(* uncaught error, a request that could not be published, a changed        *)
(* registration, a rendered review whose success could not be recorded.    *)
(* A lost fence leaves the occurrence alone.                               *)
EscapeStatuses(r) ==
    (IF started[r] THEN {"INDETERMINATE"} ELSE {"FAILED_PRE_EFFECT"})
      \cup (IF pc[r] = "done" /\ (LocalOutputStarted(r) \/ Successful(r))
            THEN {"INDETERMINATE"} ELSE {})

(* Faulty variant: the occurrence is finalized without the fence. *)
EscapeUnfenced(r) ==
    /\ open[r]
    /\ \E s \in EscapeStatuses(r) :
          occ' = [occ EXCEPT !.status = s, !.token = NoAttempt,
                             !.lease = 0, !.request = 0]
    /\ Abandon(r)
    /\ CloseAttempt(r)
    /\ UNCHANGED <<ledgerVars, effect, clock, fence>>

(* Faulty variant: the exception path takes its claims out of the ledger. *)
EscapeReleasesClaims(r) ==
    /\ open[r]
    /\ rows' = [k \in Keys |-> IF rows[k].token = <<r, k>> THEN NoRow ELSE rows[k]]
    /\ Abandon(r)
    /\ CloseAttempt(r)
    /\ UNCHANGED <<verdict, effect, storeVars>>

Escape(r) ==
    /\ open[r]
    /\ \/ \E s \in EscapeStatuses(r) : FinalizeOccurrence(r, s)
       \/ ~OwnsFence(r) /\ UNCHANGED storeVars
    /\ Abandon(r)
    /\ CloseAttempt(r)
    /\ UNCHANGED <<ledgerVars, effect>>

(* The process dies: nothing is finalized, the lease runs out. *)
Die(r) ==
    /\ open[r]
    /\ Abandon(r)
    /\ CloseAttempt(r)
    /\ UNCHANGED <<ledgerVars, effect, storeVars>>

-----------------------------------------------------------------------------
(* recurring reconcile: the ledger is read first, the expired lease is     *)
(* checked by the later update.  A missing audit file or a broken chain    *)
(* counts as uncertain.                                                    *)
EffectKeys == {Plan[i] : i \in Positions} \cap Effectful

UncertainOutcomes == {"IN_PROGRESS", "INDETERMINATE", "CONFLICT"}

ReconcileVerdict(r) ==
    IF \E k \in EffectKeys :
          IdempotencyOutcome(k, EffectFp[r][k]) \in UncertainOutcomes
    THEN "INDETERMINATE" ELSE "RECOVERABLE"

ReconcileReads ==
    /\ seen = NoOutcomes
    /\ Authenticated(ResumeDeadline)
    /\ \E r \in Runs : seen' \in {ReconcileVerdict(r), "INDETERMINATE"}
    /\ UNCHANGED <<vars, storeVars, registered, heartbeat, started, open, made>>

ReconcileUpdates ==
    /\ seen # NoOutcomes
    /\ \/ ReconcileExpired(seen)
       \/ ~LeaseExpired /\ UNCHANGED storeVars   \* refused
    /\ seen' = NoOutcomes
    /\ UNCHANGED <<vars, registered, heartbeat, started, open, made>>

Operate ==
    /\ \/ RegisterOccurrence
       \/ Authenticated(Expires) /\ MarkRecoverable
       \/ CancelOccurrence
       \/ Tick
    /\ UNCHANGED <<vars, applyVars>>

Revoke ==
    /\ registered
    /\ registered' = FALSE
    /\ UNCHANGED <<vars, storeVars, heartbeat, started, open, seen, made>>

ApplyNext ==
    \/ Operate \/ Revoke \/ ReconcileReads \/ ReconcileUpdates
    \/ \E r \in Runs :
          \/ ReserveAttempt(r) \/ ResumeAttempt(r) \/ Heartbeat(r)
          \/ GuardedPass(r) \/ GuardedRefusal(r) \/ RunStep(r)
          \/ ObserveBlocked(r) \/ ObserveFinal(r) \/ Escape(r) \/ Die(r)

ApplySpec == ApplyInit /\ [][ApplyNext]_allVars

-----------------------------------------------------------------------------
(* Properties *)

(* The composition adds no behaviour to its parts: every step is a step of *)
(* the orchestrator and of the store, so what holds for them holds here.   *)
ImplementsOrchestrator == Spec
ImplementsStore == StoreSpec

CertificateCoversAttemptStep ==
    \A r \in Runs :
       open[r] /\ ~open'[r] /\ OwnsFence(r)
         /\ occ'.status = "FAILED_PRE_EFFECT" => made[r] = {}

(* FAILED_PRE_EFFECT certifies the attempt that wrote it: that attempt had *)
(* no effect, so recovering it repeats nothing it did (effect_started is   *)
(* set by the guard before every dispatch).                                *)
CertificateCoversAttempt == [][CertificateCoversAttemptStep]_allVars

SuccessIsRecordedStep ==
    occ'.status = "SUCCEEDED" /\ occ.status # "SUCCEEDED" =>
       \A k \in EffectKeys :
          \/ rows[k].status = "completed"
          \/ \E s \in Runs : ~OwnsFence(s) /\ RolledBack(s, k)

(* When an occurrence is closed as SUCCEEDED, every effect of its plan is  *)
(* recorded as completed, or was rolled back by an attempt that had lost   *)
(* its fence.                                                              *)
SuccessIsRecorded == [][SuccessIsRecordedStep]_allVars

-----------------------------------------------------------------------------
(* What the repository's documents say of the occurrence protocol. *)

(* MA-RECURRING-001: "Claim loss before dispatch is a certified pre-effect *)
(* failure": before any attempt has passed its guard no ledger row can be  *)
(* indeterminate.                                                          *)
ClaimLossBeforeDispatchIsCertified ==
    (\A r \in Runs : ~started[r]) =>
        \A k \in Keys : rows[k].status # "indeterminate"

(* Attempt r has a provider call out, or its outcome not yet recorded. *)
InFlight(r) == pc[r] \in {"dispatch", "returned", "verify", "complete"}

(* MA-RECURRING-001: "claim loss while an effect may be in flight is       *)
(* indeterminate": an occurrence offered for another run has nothing in    *)
(* flight.                                                                 *)
RecoverableMeansNothingInFlight ==
    occ.status = "RECOVERABLE" =>
        \A r \in Runs : ~InFlight(r)

(* MA-RECURRING-001: "revalidate the exact context, registration,          *)
(* deadline, and claim generation immediately before every effect": the    *)
(* provider is changed by a rollback only while the fence is owned.        *)
RollbackIsFenced ==
    [][\A r \in Runs :
          pc[r] = "rollback" /\ pc'[r] = "clear" => OwnsFence(r)]_allVars

(* AUTONOMY.md: "Only certified pre-effect outcomes may enter explicit     *)
(* recovery; indeterminate effects stay blocked".                          *)
RecoveryNeedsCertainty ==
    occ.status = "RECOVERABLE" =>
        \A k \in Keys : ~(rows[k].status = "indeterminate" /\ effect[k] > 0)
=============================================================================
