--------------------------- MODULE OccurrenceStore ---------------------------
(***************************************************************************)
(* RecurringStateStore (master_agent/recurring.py), the part that keeps    *)
(* exact occurrences: one row of the table recurring_occurrences, with its *)
(* status, claim generation, claim token, lease and approval request.      *)
(* Every operation is one BEGIN IMMEDIATE transaction, one atomic step.    *)
(*                                                                         *)
(* The module follows one occurrence and the attempts (processes of        *)
(* `recurring apply` and `resume-approval`) that compete for it.  A claim  *)
(* token is drawn per reservation, so it is modelled by the attempt that   *)
(* drew it.  An approval request is identified by the claim generation it  *)
(* was published under (ApprovalRunInvocation.recurring_claim_generation). *)
(***************************************************************************)
EXTENDS Naturals

CONSTANTS
    Attempts,         \* processes that may reserve the occurrence
    NoAttempt,
    LeaseDuration,    \* lease length, in clock ticks
    ResumeDeadline,   \* resume_deadline of the row
    MaxClock          \* bound: the last instant that is explored

ASSUME StoreAssumption ==
    /\ NoAttempt \notin Attempts
    /\ LeaseDuration \in Nat \ {0}
    /\ ResumeDeadline \in Nat
    /\ MaxClock \in Nat \ {0}

VARIABLES
    occ,     \* the row of the occurrence
    clock,   \* now, in ticks; starts at 1
    fence    \* fence[a]: generation handed to attempt a, 0 if none

storeVars == <<occ, clock, fence>>

-----------------------------------------------------------------------------
OccurrenceStatus ==
    {"UNBOUND", "BOUND", "RUNNING", "APPROVAL_BLOCKED", "SUCCEEDED",
     "FAILED_PRE_EFFECT", "RECOVERABLE", "CANCELLED", "INDETERMINATE",
     "REVOKED"}

(* What finalize_occurrence accepts. *)
FinalStatus == {"SUCCEEDED", "FAILED_PRE_EFFECT", "INDETERMINATE", "REVOKED"}

StoreTypeOK ==
    /\ occ \in [status     : OccurrenceStatus,
                generation : Nat,
                token      : Attempts \cup {NoAttempt},
                lease      : Nat,       \* 0: no lease
                request    : Nat]       \* 0: no approval request
    /\ clock \in Nat \ {0}
    /\ fence \in [Attempts -> Nat]

StoreInit ==
    /\ occ = [status |-> "UNBOUND", generation |-> 0, token |-> NoAttempt,
              lease |-> 0, request |-> 0]
    /\ clock = 1
    /\ fence = [a \in Attempts |-> 0]

-----------------------------------------------------------------------------
(* register_occurrence_artifact, called once the artifact is published. *)
RegisterOccurrence ==
    /\ occ.status = "UNBOUND"
    /\ occ' = [occ EXCEPT !.status = "BOUND"]
    /\ UNCHANGED <<clock, fence>>

(* A reservation: the next generation, a new token and a full lease. *)
GrantFence(a) ==
    /\ occ' = [status |-> "RUNNING", generation |-> occ.generation + 1,
               token |-> a, lease |-> clock + LeaseDuration,
               request |-> occ.request]
    /\ fence' = [fence EXCEPT ![a] = occ.generation + 1]
    /\ UNCHANGED clock

(* reserve_occurrence. *)
ReserveOccurrence(a) ==
    /\ fence[a] = 0
    /\ occ.status \in {"BOUND", "RECOVERABLE"}
    /\ clock <= ResumeDeadline
    /\ GrantFence(a)

(* Faulty variant: the resumed run continues under the old generation. *)
ResumeSameGeneration(a, g) ==
    /\ fence[a] = 0
    /\ occ.status = "APPROVAL_BLOCKED"
    /\ occ.request = g
    /\ occ' = [occ EXCEPT !.status = "RUNNING", !.token = a,
                          !.lease = clock + LeaseDuration]
    /\ fence' = [fence EXCEPT ![a] = occ.generation]
    /\ UNCHANGED clock

(* resume_approval_blocked_occurrence with the request of generation g. *)
ResumeApprovalBlocked(a, g) ==
    /\ fence[a] = 0
    /\ occ.status = "APPROVAL_BLOCKED"
    /\ occ.generation = g
    /\ occ.request = g
    /\ clock <= ResumeDeadline
    /\ GrantFence(a)

(* The WHERE clause of _transition_running_occurrence and of the renewal. *)
OwnsFence(a) ==
    /\ occ.status = "RUNNING"
    /\ occ.generation = fence[a]
    /\ occ.token = a

(* validate_occurrence_fence: the fence is owned and its lease is alive. *)
FenceValid(a) == OwnsFence(a) /\ occ.lease > clock

(* renew_occurrence_fence by the heartbeat thread. *)
RenewFence(a) ==
    /\ FenceValid(a)
    /\ occ' = [occ EXCEPT !.lease = clock + LeaseDuration]
    /\ UNCHANGED <<clock, fence>>

(* _transition_running_occurrence: the lease is released, not checked. *)
TransitionRunning(a, status, request) ==
    /\ OwnsFence(a)
    /\ occ' = [occ EXCEPT !.status = status, !.token = NoAttempt,
                          !.lease = 0, !.request = request]
    /\ UNCHANGED <<clock, fence>>

BlockForApproval(a) == TransitionRunning(a, "APPROVAL_BLOCKED", fence[a])

FinalizeOccurrence(a, status) == TransitionRunning(a, status, 0)

(* Faulty variant: an indeterminate occurrence is recovered as well. *)
RecoverUncertain ==
    /\ occ.status \in {"FAILED_PRE_EFFECT", "INDETERMINATE"}
    /\ occ' = [occ EXCEPT !.status = "RECOVERABLE", !.request = 0]
    /\ UNCHANGED <<clock, fence>>

(* mark_occurrence_recoverable. *)
MarkRecoverable ==
    /\ occ.status = "FAILED_PRE_EFFECT"
    /\ occ' = [occ EXCEPT !.status = "RECOVERABLE", !.request = 0]
    /\ UNCHANGED <<clock, fence>>

(* reconcile_expired_occurrence. *)
LeaseExpired == occ.status = "RUNNING" /\ occ.lease # 0 /\ occ.lease <= clock

ReconcileExpired(status) ==
    /\ LeaseExpired
    /\ occ' = [occ EXCEPT !.status = status, !.token = NoAttempt, !.lease = 0]
    /\ UNCHANGED <<clock, fence>>

(* cancel_occurrence: an active attempt is fenced as indeterminate. *)
CancelOccurrence ==
    /\ occ.status \notin {"UNBOUND", "SUCCEEDED", "INDETERMINATE", "REVOKED",
                          "CANCELLED"}
    /\ occ' = [occ EXCEPT
                 !.status = IF @ = "RUNNING" THEN "INDETERMINATE"
                                             ELSE "CANCELLED",
                 !.token = NoAttempt, !.lease = 0]
    /\ UNCHANGED <<clock, fence>>

Tick ==
    /\ clock < MaxClock
    /\ clock' = clock + 1
    /\ UNCHANGED <<occ, fence>>

-----------------------------------------------------------------------------
StoreNext ==
    \/ RegisterOccurrence \/ MarkRecoverable \/ CancelOccurrence \/ Tick
    \/ \E status \in {"RECOVERABLE", "INDETERMINATE"} : ReconcileExpired(status)
    \/ \E a \in Attempts :
          \/ ReserveOccurrence(a)
          \/ \E g \in 1..occ.generation : ResumeApprovalBlocked(a, g)
          \/ RenewFence(a)
          \/ BlockForApproval(a)
          \/ \E status \in FinalStatus : FinalizeOccurrence(a, status)

StoreSpec == StoreInit /\ [][StoreNext]_storeVars

-----------------------------------------------------------------------------
(* Properties *)

(* Generations are never handed out twice, so at any instant at most one   *)
(* attempt owns the fence, and it is the one reserved last: a stale        *)
(* generation cannot renew, block, finalize or pass the pre-effect guard.  *)
OneFenceOwner ==
    /\ \A a, b \in Attempts : fence[a] = fence[b] /\ fence[a] # 0 => a = b
    /\ \A a \in Attempts : fence[a] <= occ.generation
    /\ occ.status = "RUNNING" => OwnsFence(occ.token)

(* A lease and a token exist exactly while the occurrence is running: an  *)
(* approval block holds no live lease, and a running row always expires.  *)
LeaseIffRunning ==
    /\ (occ.status = "RUNNING") <=> (occ.lease # 0)
    /\ (occ.status = "RUNNING") <=> (occ.token # NoAttempt)

TerminalIsFinalStep ==
    occ.status \in {"SUCCEEDED", "INDETERMINATE", "REVOKED", "CANCELLED"}
       => occ' = occ

(* A settled, uncertain or cancelled occurrence never runs again: no       *)
(* sequence of recover, reconcile, resume and late finalize calls reopens  *)
(* it.                                                                     *)
TerminalIsFinal == [][TerminalIsFinalStep]_storeVars

GenerationAdvancesFromRestStep ==
    occ'.generation # occ.generation =>
       /\ occ'.generation = occ.generation + 1
       /\ occ.token = NoAttempt
       /\ occ.status \in {"BOUND", "RECOVERABLE", "APPROVAL_BLOCKED"}

(* Only a certified pre-effect failure, an expired lease or an approval    *)
(* block leads from one generation to the next: between two reservations   *)
(* somebody released the first one.                                        *)
GenerationAdvancesFromRest == [][GenerationAdvancesFromRestStep]_storeVars
=============================================================================
