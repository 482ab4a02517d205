----------------------------- MODULE AuditChain -----------------------------
(***************************************************************************)
(* The hash-linked event table of audit.py: AuditLog.record appends one    *)
(* event and moves the durable checkpoint (audit_state) in one             *)
(* transaction, verify_chain recomputes every link.                        *)
(*                                                                         *)
(* SHA-256 is taken to be injective: a hash is the pair it was made from.  *)
(* The fault model is damage to the file: single rows altered or lost      *)
(* without the rest being recomputed, at any time between records.         *)
(***************************************************************************)
EXTENDS Integers, Sequences, FiniteSets, SequencesExt

CONSTANTS Events,     \* run, plan, action, type and payload of an event
          MaxEvents,  \* bound on recorded events
          MaxDamage   \* bound on damaged rows

\* What the constants are.
AuditAssumption == MaxEvents \in Nat /\ MaxDamage \in Nat

VARIABLES rows,    \* table audit_events, by id
          head,    \* audit_state.head_hash
          count,   \* audit_state.event_count
          truth,   \* the events record has acknowledged
          version, \* PRAGMA user_version
          damage   \* how many rows were damaged

auditVars == <<rows, head, count, truth, version, damage>>

Genesis == <<>>
NoState == <<"audit_state has no row">>
Hash(previous, event) == <<previous, event>>

AuditInit ==
    /\ rows = <<>>
    /\ head = NoState
    /\ count = 0
    /\ truth = <<>>
    /\ version = 0
    /\ damage = 0

LatestHash == IF rows = <<>> THEN Genesis ELSE Last(rows).hash

\* _initialize: the checkpoint is made once, for a database that never had one.
Open ==
    /\ head = NoState /\ version = 0
    /\ head' = LatestHash
    /\ count' = Len(rows)
    /\ version' = 1
    /\ UNCHANGED <<rows, truth, damage>>

\* record: refused when the table does not end where the checkpoint says.
Record(event) ==
    /\ Len(truth) < MaxEvents
    /\ head # NoState /\ LatestHash = head
    /\ rows' = Append(rows, [event |-> event, previous |-> head, hash |-> Hash(head, event)])
    /\ head' = Hash(head, event)
    /\ count' = count + 1
    /\ truth' = Append(truth, event)
    /\ UNCHANGED <<version, damage>>

\* Damage: one row's content changes, one row is lost, or the checkpoint is.
Damaged(newRows) ==
    /\ damage < MaxDamage
    /\ damage' = damage + 1
    /\ rows' = newRows
    /\ UNCHANGED <<head, count, truth, version>>
Alter(i, event) == Damaged([rows EXCEPT ![i].event = event])
Lose(i) == Damaged(RemoveAt(rows, i))
LoseState ==
    /\ head # NoState /\ damage < MaxDamage
    /\ damage' = damage + 1
    /\ head' = NoState
    /\ UNCHANGED <<rows, count, truth, version>>

AuditNext ==
    \/ Open \/ LoseState
    \/ \E e \in Events : Record(e)
    \/ \E i \in DOMAIN rows, e \in Events : rows[i].event # e /\ Alter(i, e)
    \/ \E i \in DOMAIN rows : Lose(i)

AuditSpec == AuditInit /\ [][AuditNext]_auditVars

-----------------------------------------------------------------------------
(* _verify_connection *)

\* One turn of the loop over the rows.
RowHolds(i) ==
    /\ rows[i].previous = (IF i = 1 THEN Genesis ELSE rows[i - 1].hash)
    /\ rows[i].hash = Hash(rows[i].previous, rows[i].event)

VerifyChain ==
    /\ rows # <<>> /\ head # NoState
    /\ \A i \in DOMAIN rows : RowHolds(i)
    /\ count = Len(rows)
    /\ head = Last(rows).hash

-----------------------------------------------------------------------------
(* Properties *)

AuditTypeOK ==
    /\ \A i \in DOMAIN rows : rows[i].event \in Events
    /\ count \in 0..MaxEvents
    /\ Len(rows) <= count
    /\ Len(truth) = count
    /\ version \in {0, 1} /\ damage \in 0..MaxDamage

\* A chain that verifies holds exactly the events record acknowledged, in order:
\* no damage before, between or after records escapes verify_chain.
VerifiedMeansFaithful ==
    VerifyChain => [i \in DOMAIN rows |-> rows[i].event] = truth

RecordNeverLaundersStep ==
    rows # <<>> /\ ~VerifyChain /\ damage' = damage => ~VerifyChain'

\* Neither a record nor opening the log again makes a damaged chain verify: record
\* compares the checkpoint with the table before it appends, and _initialize never
\* makes a second checkpoint.
RecordNeverLaunders == [][RecordNeverLaundersStep]_auditVars

=============================================================================
