------------------------- MODULE IdempotencyLedger -------------------------
(***************************************************************************)
(* The durable idempotency ledger of master_agent/audit.py: the SQLite     *)
(* table completed_actions, one row per idempotency key.  Every operation  *)
(* below is one BEGIN IMMEDIATE transaction of the class AuditLog, so it   *)
(* is one atomic step here.                                                *)
(*                                                                         *)
(* A claim token is a fresh uuid4 drawn by claim_action; tokens are        *)
(* abstract values that are never drawn twice.  A stored result_json is    *)
(* abstracted to NoResult (it carries no "result" member: the empty object *)
(* of a new claim, or an error-only outcome) or to a member of Results.    *)
(***************************************************************************)
CONSTANTS
    Keys,            \* idempotency keys
    Fingerprints,    \* effect fingerprints of actions
    Tokens,          \* claim tokens (uuid4 values)
    Results,         \* content-free result records
    NoFp, NoToken, NoResult

ASSUME LedgerSentinels ==
    /\ NoFp \notin Fingerprints
    /\ NoToken \notin Tokens
    /\ NoResult \notin Results

VARIABLES
    rows,     \* the table completed_actions
    verdict   \* observation: what became of each claim token

ledgerVars == <<rows, verdict>>

-----------------------------------------------------------------------------
RowStatus == {"absent", "pending", "completed", "failed", "indeterminate"}

Row == [status : RowStatus,
        fp     : Fingerprints \cup {NoFp},
        token  : Tokens \cup {NoToken},
        result : Results \cup {NoResult}]

NoRow == [status |-> "absent", fp |-> NoFp,
          token |-> NoToken, result |-> NoResult]

Verdicts == {"undrawn", "open", "completed", "failed", "indeterminate"}

LedgerTypeOK ==
    /\ rows \in [Keys -> Row]
    /\ verdict \in [Tokens -> Verdicts]

LedgerInit ==
    /\ rows = [k \in Keys |-> NoRow]
    /\ verdict = [t \in Tokens |-> "undrawn"]

-----------------------------------------------------------------------------
(* Faulty variant: an indeterminate outcome is granted to the caller. *)
ClaimRetriesUnknown(k, fp) ==
    IF rows[k].status = "indeterminate" THEN "CLAIMED"
    ELSE IF rows[k].status = "pending" THEN "IN_PROGRESS"
    ELSE IF rows[k].status = "completed" THEN "COMPLETED" ELSE "CLAIMED"

(* What claim_action answers for key k and fingerprint fp. *)
ClaimState(k, fp) ==
    IF rows[k].status = "absent" THEN "CLAIMED"
    ELSE IF rows[k].fp # fp THEN "CONFLICT"
    ELSE IF rows[k].status = "completed" THEN "COMPLETED"
    ELSE IF rows[k].status = "failed" THEN "CLAIMED"
    ELSE IF rows[k].status = "indeterminate" THEN "INDETERMINATE"
    ELSE "IN_PROGRESS"

(* claim_action granting the reservation: a new row, or a certified        *)
(* pre-effect failure opened again under a new token.                      *)
ClaimAction(k, fp, t) ==
    /\ ClaimState(k, fp) = "CLAIMED"
    /\ verdict[t] = "undrawn"
    /\ rows' = [rows EXCEPT ![k] = [status |-> "pending", fp |-> fp,
                                    token |-> t, result |-> NoResult]]
    /\ verdict' = [verdict EXCEPT ![t] = "open"]

(* Faulty variant: the settling WHERE clause without status = 'pending'. *)
OwnsClaimAnyStatus(k, fp, t) == rows[k].fp = fp /\ rows[k].token = t

(* The WHERE clause of every operation that settles a claim. *)
OwnsClaim(k, fp, t) ==
    /\ rows[k].status = "pending"
    /\ rows[k].fp = fp
    /\ rows[k].token = t

CompleteAction(k, fp, t, res) ==
    /\ OwnsClaim(k, fp, t)
    /\ rows' = [rows EXCEPT ![k] = [status |-> "completed", fp |-> fp,
                                    token |-> t, result |-> res]]
    /\ verdict' = [verdict EXCEPT ![t] = "completed"]

(* fail_action (status "failed") and mark_action_indeterminate. *)
FinishActionClaim(k, fp, t, status, res) ==
    /\ OwnsClaim(k, fp, t)
    /\ rows' = [rows EXCEPT ![k] = [status |-> status, fp |-> fp,
                                    token |-> NoToken, result |-> res]]
    /\ verdict' = [verdict EXCEPT ![t] = status]

(* release_action_claim, kept in the code for old callers. *)
ReleaseActionClaim(k, fp, t) ==
    FinishActionClaim(k, fp, t, "failed", NoResult)

(* resolve_indeterminate_action: a compare-and-swap on the exact stored    *)
(* outcome, which holds the result record `seen` the caller verified.      *)
CanResolve(k, fp, seen) ==
    /\ rows[k].status = "indeterminate"
    /\ rows[k].fp = fp
    /\ rows[k].result = seen

ResolveIndeterminateAction(k, fp, seen) ==
    /\ CanResolve(k, fp, seen)
    /\ rows' = [rows EXCEPT ![k] = [status |-> "completed", fp |-> fp,
                                    token |-> @.token, result |-> seen]]
    /\ UNCHANGED verdict

(* clear_completed: deletes by key and fingerprint, whatever the status. *)
ClearCompleted(k, fp) ==
    /\ rows' = [rows EXCEPT ![k] = IF @.fp = fp THEN NoRow ELSE @]
    /\ UNCHANGED verdict

(* save_completed, INSERT OR IGNORE, kept in the code for old callers. *)
SaveCompleted(k, fp, res) ==
    /\ rows' = [rows EXCEPT ![k] =
                  IF @.status = "absent"
                  THEN [status |-> "completed", fp |-> fp,
                        token |-> NoToken, result |-> res]
                  ELSE @]
    /\ UNCHANGED verdict

(* idempotency_outcome: the read-only view used to reconcile occurrences. *)
IdempotencyOutcome(k, fp) ==
    CASE rows[k].status = "absent"                    -> "NONE"
      [] rows[k].status # "absent" /\ rows[k].fp # fp -> "CONFLICT"
      [] rows[k].fp = fp /\ rows[k].status = "pending"       -> "IN_PROGRESS"
      [] rows[k].fp = fp /\ rows[k].status = "completed"     -> "COMPLETED"
      [] rows[k].fp = fp /\ rows[k].status = "failed"        -> "FAILED"
      [] rows[k].fp = fp /\ rows[k].status = "indeterminate" -> "INDETERMINATE"

-----------------------------------------------------------------------------
(***************************************************************************)
(* The ledger on its own, under callers that may issue any operation with  *)
(* any token at any time: late, repeated and misdirected calls included.   *)
(***************************************************************************)
CallClaim == \E k \in Keys, fp \in Fingerprints, t \in Tokens :
                ClaimAction(k, fp, t)
CallComplete == \E k \in Keys, fp \in Fingerprints, t \in Tokens,
                   res \in Results : CompleteAction(k, fp, t, res)
CallFinish == \E k \in Keys, fp \in Fingerprints, t \in Tokens,
                 status \in {"failed", "indeterminate"},
                 res \in Results \cup {NoResult} :
                    FinishActionClaim(k, fp, t, status, res)
CallRelease == \E k \in Keys, fp \in Fingerprints, t \in Tokens :
                  ReleaseActionClaim(k, fp, t)
CallResolve == \E k \in Keys, fp \in Fingerprints, seen \in Results :
                  ResolveIndeterminateAction(k, fp, seen)
CallClear == \E k \in Keys, fp \in Fingerprints : ClearCompleted(k, fp)
CallSave == \E k \in Keys, fp \in Fingerprints, res \in Results :
               SaveCompleted(k, fp, res)

LedgerNext ==
    \/ CallClaim \/ CallComplete \/ CallFinish \/ CallRelease
    \/ CallResolve \/ CallClear \/ CallSave

LedgerSpec == LedgerInit /\ [][LedgerNext]_ledgerVars

(* A row that is still reserved is reserved by a claim nobody has settled, *)
(* and one claim never reserves two keys: the fencing that the WHERE       *)
(* clause on status and claim_token gives complete_action, fail_action and *)
(* mark_action_indeterminate.                                              *)
ReservationIsOpenClaim ==
    /\ \A k \in Keys : rows[k].status = "pending" =>
          rows[k].token \in Tokens /\ verdict[rows[k].token] = "open"
    /\ \A k, j \in Keys : rows[k].token = rows[j].token
          /\ rows[k].token # NoToken => k = j

VerdictIsFinalStep ==
    \A t \in Tokens : verdict[t] \notin {"undrawn", "open"} =>
       verdict'[t] = verdict[t]

(* A claim is settled once: no later or repeated call of a stale holder    *)
(* changes the recorded outcome of an attempt (complete_action "exactly    *)
(* the reservation held by one execution attempt").                        *)
VerdictIsFinal == [][VerdictIsFinalStep]_ledgerVars

CompletionIsStableStep ==
    \A k \in Keys : rows[k].status = "completed" =>
       rows'[k] = rows[k] \/ rows'[k] = NoRow

(* A completed effect is never turned back into something retryable: its   *)
(* row keeps its fingerprint and result until it is deleted as a whole.    *)
CompletionIsStable == [][CompletionIsStableStep]_ledgerVars
=============================================================================
