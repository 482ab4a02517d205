----------------------------- MODULE CapsuleRun -----------------------------
(***************************************************************************)
(* CapsuleRunCoordinator.run (capsule_operations.py): several processes    *)
(* start or resume one coordinator run.  Every state change is a           *)
(* compare-and-swap on the run's checkpoint (AuditLog.checkpoint_run),     *)
(* followed by an audit event in a transaction of its own.  The run ends   *)
(* in a receipt (receipts.py), anchored in the audit chain and exported.   *)
(*                                                                         *)
(* The plan and its capsule bindings are the same in every call, so        *)
(* _validate_resume passes.  The orchestrator's run is one started and one *)
(* finished report; its inside is module Orchestrator.                     *)
(***************************************************************************)
EXTENDS Integers, Sequences, FiniteSets

CONSTANTS Procs,             \* processes that call run
          NeedsConnection,   \* the plan binds a credential
          WantsApproval,     \* its actions need approval
          RequireExternal,   \* require_external_audit
          HasSink,           \* an external sink is configured
          DryRuns,           \* the values of dry_run the callers use
          MaxSteps           \* bound on the checkpoint's sequence

\* What the constants are.
RunAssumption ==
    /\ {NeedsConnection, WantsApproval, RequireExternal, HasSink} \subseteq BOOLEAN
    /\ DryRuns \subseteq BOOLEAN
    /\ MaxSteps \in Nat

VARIABLES
    checkpoint,  \* the row of run_checkpoints
    events,      \* anchor and receipt events of this run
    exported,    \* receipts the external sink accepted
    healthy,     \* the sink is reachable
    started,     \* processes whose applying orchestrator run was started
    proc         \* the call each process is in

runVars == <<checkpoint, events, exported, healthy, started, proc>>

NoRow == [state |-> "none", sequence |-> 0, result |-> {}]
Idle == [pc |-> "idle", then |-> "idle", seen |-> NoRow, dry |-> FALSE, report |-> "none"]

RunInit ==
    /\ checkpoint = NoRow
    /\ events = {}
    /\ exported = {}
    /\ healthy = TRUE
    /\ started = {}
    /\ proc = [p \in Procs |-> Idle]

-----------------------------------------------------------------------------
(* _TRANSITIONS and the compare-and-swap *)

Transitions(state) ==
    CASE state = "planned" ->
            {"awaiting_connection", "awaiting_approval", "executing", "verifying"}
      [] state = "awaiting_connection" ->
            {"awaiting_connection", "awaiting_approval", "executing"}
      [] state = "awaiting_approval" -> {"awaiting_approval", "executing"}
      [] state = "executing" -> {"executing", "verifying"}
      [] state = "verifying" -> {"executing", "compensating", "terminal"}
      [] state = "compensating" -> {"executing", "compensating", "terminal"}
      [] state = "terminal" -> {}

Raised(p) == proc' = [proc EXCEPT ![p] = Idle]

\* Faulty variant: the row is advanced whatever state it is in.
MatchesAnything(p) == TRUE

\* checkpoint_run's comparison with the stored row: the state only, not the
\* sequence the caller has seen.
Matches(p) == checkpoint.state = proc[p].seen.state

\* _transition: refused by the table, refused by the row, or made; then the
\* event is recorded and the call goes on at pc `then`.
Advance(p, target, then, result) ==
    IF target \in Transitions(proc[p].seen.state) /\ Matches(p)
    THEN LET row == [state |-> target, sequence |-> checkpoint.sequence + 1,
                     result |-> result] IN
         /\ checkpoint.sequence < MaxSteps
         /\ checkpoint' = row
         /\ proc' = [proc EXCEPT ![p].pc = "record", ![p].then = then, ![p].seen = row]
    ELSE Raised(p) /\ UNCHANGED checkpoint

\* _record_state: the event, in a transaction after the checkpoint's; no property
\* looks at its content.
RecordState(p) ==
    /\ proc[p].pc = "record"
    /\ IF proc[p].then = "idle" THEN Raised(p)
       ELSE proc' = [proc EXCEPT ![p].pc = proc[p].then]
    /\ UNCHANGED <<checkpoint, events, exported, healthy, started>>

-----------------------------------------------------------------------------
(* run *)

\* The checkpoint is read; a terminal run is refused.
ReadCheckpoint(p) ==
    /\ proc[p].pc = "idle"
    /\ checkpoint.state # "terminal"
    /\ \E dry \in DryRuns :
          proc' = [proc EXCEPT ![p] =
              [Idle EXCEPT !.pc = IF checkpoint = NoRow THEN "create" ELSE "connect",
                           !.seen = checkpoint, !.dry = dry]]
    /\ UNCHANGED <<checkpoint, events, exported, healthy, started>>

Create(p) ==
    /\ proc[p].pc = "create"
    /\ LET row == [state |-> "planned", sequence |-> 0, result |-> {}] IN
       IF checkpoint = NoRow
       THEN /\ checkpoint' = row
            /\ proc' = [proc EXCEPT ![p].pc = "record", ![p].then = "connect", ![p].seen = row]
       ELSE Raised(p) /\ UNCHANGED checkpoint
    /\ UNCHANGED <<events, exported, healthy, started>>

\* Connections, the required sink, the policy preview and the approvals; what
\* the caller brings is not known beforehand.
AwaitConnection(p) ==
    /\ proc[p].pc = "connect"
    /\ NeedsConnection
    /\ Advance(p, "awaiting_connection", "idle", {})
    /\ UNCHANGED <<events, exported, healthy, started>>
ConnectionsReady(p) ==
    /\ proc[p].pc = "connect"
    /\ IF RequireExternal /\ (~HasSink \/ ~healthy) THEN Raised(p)
       ELSE proc' = [proc EXCEPT ![p].pc = "approve"]
    /\ UNCHANGED <<checkpoint, events, exported, healthy, started>>
AwaitApproval(p) ==
    /\ proc[p].pc = "approve"
    /\ WantsApproval
    /\ Advance(p, "awaiting_approval", "idle", {})
    /\ UNCHANGED <<events, exported, healthy, started>>

\* A dry run ends in the preview's report.
Previewed(p) ==
    /\ proc[p].pc = "approve" /\ proc[p].dry
    /\ Advance(p, "verifying", "anchor", {})
    /\ UNCHANGED <<events, exported, healthy, started>>

BeginExecution(p) ==
    /\ proc[p].pc = "approve" /\ ~proc[p].dry
    /\ Advance(p, "executing", "execute", {})
    /\ UNCHANGED <<events, exported, healthy, started>>

\* WorkflowOrchestrator.run starts its first action, and returns.
StartActions(p) ==
    /\ proc[p].pc = "execute"
    /\ started' = started \cup {p}
    /\ proc' = [proc EXCEPT ![p].pc = "executing"]
    /\ UNCHANGED <<checkpoint, events, exported, healthy>>
FinishActions(p) ==
    /\ proc[p].pc = "executing"
    /\ \E outcome \in {"finished", "compensated"} :
          proc' = [proc EXCEPT ![p].pc = "verify", ![p].report = outcome]
    /\ UNCHANGED <<checkpoint, events, exported, healthy, started>>

BeginVerifying(p) ==
    /\ proc[p].pc = "verify"
    /\ Advance(p, "verifying", IF proc[p].report = "compensated" THEN "undo" ELSE "anchor", {})
    /\ UNCHANGED <<events, exported, healthy, started>>
BeginCompensating(p) ==
    /\ proc[p].pc = "undo"
    /\ Advance(p, "compensating", "anchor", {})
    /\ UNCHANGED <<events, exported, healthy, started>>

\* The receipt of this call: whose report, and whether it was a dry run.
Receipt(p) == [by |-> p, dry |-> proc[p].dry, report |-> proc[p].report]

\* audit.record("capsule_receipt_anchor"): what build_execution_receipt signs.
AnchorReceipt(p) ==
    /\ proc[p].pc = "anchor"
    /\ events' = events \cup {[type |-> "anchor", receipt |-> Receipt(p)]}
    /\ proc' = [proc EXCEPT ![p].pc = "export"]
    /\ UNCHANGED <<checkpoint, exported, healthy, started>>

\* export_execution_receipt: an unhealthy sink raises, so does a lost answer.
ExportReceipt(p) ==
    /\ proc[p].pc = "export"
    /\ \/ /\ HasSink => healthy
          /\ exported' = IF HasSink THEN exported \cup {Receipt(p)} ELSE exported
          /\ proc' = [proc EXCEPT ![p].pc = "end"]
       \/ /\ HasSink
          /\ exported' \in {exported, exported \cup {Receipt(p)}}
          /\ Raised(p)
    /\ UNCHANGED <<checkpoint, events, healthy, started>>

End(p) ==
    /\ proc[p].pc = "end"
    /\ Advance(p, "terminal", "receipt", {Receipt(p)})
    /\ UNCHANGED <<events, exported, healthy, started>>

RecordReceipt(p) ==
    /\ proc[p].pc = "receipt"
    /\ events' = events \cup {[type |-> "receipt", receipt |-> Receipt(p)]}
    /\ Raised(p)
    /\ UNCHANGED <<checkpoint, exported, healthy, started>>

\* A process dies anywhere in the call; the sink comes and goes.
Die(p) ==
    /\ proc[p].pc # "idle"
    /\ Raised(p)
    /\ UNCHANGED <<checkpoint, events, exported, healthy, started>>
SinkChanges ==
    /\ HasSink
    /\ healthy' = ~healthy
    /\ UNCHANGED <<checkpoint, events, exported, started, proc>>

Begin(p) == ReadCheckpoint(p) \/ Create(p) \/ RecordState(p)
Gates(p) == AwaitConnection(p) \/ ConnectionsReady(p) \/ AwaitApproval(p) \/ Previewed(p)
Apply(p) ==
    BeginExecution(p) \/ StartActions(p) \/ FinishActions(p) \/ BeginVerifying(p)
    \/ BeginCompensating(p)
Evidence(p) == AnchorReceipt(p) \/ ExportReceipt(p) \/ End(p) \/ RecordReceipt(p)

RunNext ==
    \/ \E p \in Procs : Begin(p) \/ Gates(p) \/ Apply(p) \/ Evidence(p) \/ Die(p)
    \/ SinkChanges

RunSpec == RunInit /\ [][RunNext]_runVars

-----------------------------------------------------------------------------
(* Properties *)

RunTypeOK ==
    /\ checkpoint.state \in {"none", "planned", "awaiting_connection", "awaiting_approval",
                             "executing", "verifying", "compensating", "terminal"}
    /\ checkpoint.sequence \in 0..MaxSteps
    /\ Cardinality(checkpoint.result) = (IF checkpoint.state = "terminal" THEN 1 ELSE 0)
    /\ healthy \in BOOLEAN /\ started \subseteq Procs

\* A terminal run's result is a receipt that was anchored in the audit chain and,
\* where a sink is configured, accepted by it, before the run became terminal;
\* a crash at any point leaves a run that can be resumed instead
\* (run, docs/capability-capsules.md "Terminal runs produce ...").
TerminalIsEvidenced ==
    checkpoint.state = "terminal" =>
        \A r \in checkpoint.result :
            /\ [type |-> "anchor", receipt |-> r] \in events
            /\ HasSink => r \in exported

TerminalIsFinalStep ==
    checkpoint.state = "terminal" => checkpoint' = checkpoint

\* A terminal checkpoint never changes again, whoever still runs.
TerminalIsFinal == [][TerminalIsFinalStep]_runVars

TerminalWasVerifiedStep ==
    checkpoint'.state = "terminal" /\ checkpoint.state # "terminal" =>
       /\ checkpoint.state \in {"verifying", "compensating"}
       /\ \A r \in checkpoint'.result : r.dry \/ r.by \in started

\* The receipt of an applying call comes from a call that did start the
\* orchestrator, and no step of the run was skipped on the way: a terminal run was
\* verified first.
TerminalWasVerified == [][TerminalWasVerifiedStep]_runVars

TerminalNotReplayedStep ==
    checkpoint.state = "terminal" => started' = started

\* "A terminal coordinator run cannot be replayed"
\* (docs/capability-capsules.md:332): no orchestrator run starts once the
\* checkpoint is terminal.
TerminalNotReplayed == [][TerminalNotReplayedStep]_runVars

\* "Terminal runs produce an HMAC-signed, content-free receipt containing the plan
\* ... action/readback/compensation digests" (docs/capability-capsules.md:334):
\* a run whose actions were started does not end in the receipt of a dry run.
ReceiptCoversActions ==
    checkpoint.state = "terminal" /\ started # {} => \A r \in checkpoint.result : ~r.dry

=============================================================================
