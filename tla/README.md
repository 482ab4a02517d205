# A TLA+ verification of the MasterAgent runtime

MasterAgent takes a *bound plan* (a list of actions with dependencies, risks,
idempotency keys and fingerprints) and applies it to external providers such as
Jira, GitHub or Confluence, under policy, approvals and independent
verification. What makes it hard is not any single action but what lies between
them: processes that stop half way, retries of a plan whose first run is still
alive, rollbacks that race other runs, a lease that runs out under a live
process, files and policies that change between the check and the use, an
operator who reconciles at the wrong moment. This project models that part.

The central promise, proved here for every plan and every number of runs:

> However many runs attempt, crash, retry and roll back the same plan, a key
> never has two effects standing at the provider, a key the ledger offers for
> another attempt has none, and what a finished run reports is true of the
> provider unless the run that made an effect has rolled it back.

Four modules form the proved core (ledger, orchestrator, occurrence store,
recurring commands); twenty-one more model what surrounds it. Of these eleven are
proved as well: approvals, execution context, provider reads, bound occurrences,
the legacy runner, the coordinator run of capsules, the engineering review, the
state database, pinned directories, supervised processes and the advisory
delegation. The others are model-checked.

## 1. Inventory

Paths are relative to `src/master_agent/` in the repository unless they start
with `simple/` or `scripts/`. `PROJECT.json` has the full list with sources.

| Component | State it keeps | Operations | Correct when |
|---|---|---|---|
| Idempotency ledger, `audit.py` | table `completed_actions`, a row per key: fingerprint, status, claim token, result | claim, complete, fail, mark indeterminate, release, resolve, clear, save | a reservation has one holder, is settled once, and a completion is never weakened |
| Orchestrator, `orchestrator.py` | per run: reports, tracked effects, `abort_remaining`, the action in hand | the loop of `run`: gates, claim, guard, execute, verify, complete, the exception handlers, compensation | effects are single, retry is safe, rollback follows dependencies, reports are true |
| Occurrence store, `recurring.py` | table `recurring_occurrences`: status, generation, token, lease, approval request, deadline | register, reserve, resume, validate, renew, block, finalize, recover, reconcile, cancel | one owner of the fence, terminal rows stay terminal |
| Recurring commands, `cli.py`, `recurring_occurrence.py` | per attempt: heartbeat thread, `effect_started`, `local_output_started`, `transitioned`; bound artifacts | bind, inspect, apply, resume-approval, reconcile, recover, cancel | certificates are true, success is on record, what runs is what was bound |
| Legacy recurring runner, `recurring.py` | table `recurring_runs`, a lock file per workflow | claim, renew, expire, mark recoverable, complete, fail | an occurrence has one callback, a killed one can be recovered |
| Audit chain and run checkpoints, `audit.py`, `capsule_operations.py` | hash-chained events, a checkpoint per capsule run | `record`, `verify_chain`, `checkpoint_run` | a chain that verifies is the one recorded; a terminal run has its evidence and never changes |
| Approvals and handoff, `approvals.py`, `approval_handoff.py`, `policy.py` | request files, approvals, authorities | publish, list, review, sign on a request or on the plan, resume, evaluate | an effect had the people behind it that policy asks for when it was permitted |
| Capsules, `capsule*.py`, `capability_import.py` | capsule directory, manifest chain | preview, install, promote, disable, revoke, run | enabled code has passed every rung, a retired capsule never starts |
| Plugins, `plugins.py` | lock file, installed files, module table | inventory, load, register | a connector runs what the lock names |
| Execution context, `execution_context.py` | captured endpoints, principals, roots | bind-context, capture, two gates, use | effects go where and as whom was approved |
| Advisory delegation, `advisory*.py`, `copilot_advisory.py` | budget rows, key file, scans | reserve, validate, serve, report | the budget is never exceeded, what is served is authorised |
| Credentials, OAuth, `credential_broker.py`, `oauth.py`, `platform_runtime/windows/credentials.py` | token file and cache, stored entries, leases | login, refresh, store, remove, issue, invoke | a failed update restores, a handle is used once, no token is left behind |
| Work memory, `work_memory.py` | journal, output files | append, tell, export | no event is lost, the lifecycle is in order |
| Evidence retention, `retention.py` | evidence and manifest pairs, staged transactions, lock files | publish, prune, recover, repair | what was committed is lost only when expired, and as a pair |
| State databases, `sqlite_safety.py`, `windows/atomic.py` | database file, generations, ledger of replacements | connect, commit, replace, recover | acknowledged data survives kills and power failures |
| Pinned directories, `directory_safety.py` | descriptors of a path | pin, operate, duplicate, close | results come from the approved directory, descriptors do not leak |
| Connectors, `connectors/` | the provider's resources, the worktree, draft files | execute, verify, compensate, read, page | no edit by another is lost, conflict means no effect, lists are snapshots |
| Egress and direct reads, `provider_egress.py`, `direct_read.py` | bindings, audit | bind, classify, read, verify, return | nothing is asked or returned that policy does not permit |
| Review workflow, `workflows/engineering_work_item_review.py` | readings of issue, pull request, pages | two passes of reads | a complete review is about one state |
| Operating profile, `operating.py`, `cli.py` | profile, configuration files, run directories | setup, doctor, admit, execute | runs act under one configuration they were admitted by |
| Process supervision, `platform_runtime/windows/process.py` | job, pipes, threads | run, run_appcontainer | no process outlives its call |
| Sandbox harness, `scripts/confluence_sandbox.py` | pages and spaces of a test site | job, cleanup, reap | it deletes what it made and nothing else |
| Simple runtime, `simple/masteragent/` | task store, evidence, publication | develop, checks, publish, resume, resolve | a task writes once |

**Interaction.** The components meet in files, in three databases and in one
process:

- a *run* is one CLI process; two runs share only the audit database (the
  ledger) and the provider;
- an *attempt* is a run of `recurring apply` or of a resumed approval; attempts
  also share the recurring database. The orchestrator calls back into the
  attempt through `pre_effect_guard` before a dispatch, and the CLI through
  `report_observer` after the run;
- the heartbeat thread of an attempt shares its process, the store and a list
  of errors with it;
- the operator's commands are processes of their own: they read the ledger and
  update the occurrence in separate transactions;
- plan, policy, authorities, profile, configuration and repository are files
  that people edit while processes read them one after another.

**Hard behaviours.** Interleaving of processes between any two transactions; a
stop at any step, by a kill or by an exception the loop does not catch
(`sqlite3.Error`); outcomes that cannot be written; providers that act and lose
the answer; rollback of an effect another run relies on; expiry of a lease under
a live attempt; checks that are stale when the step they justify is made; one
write of several failing. `PROJECT.json` lists each of them at its line under
`hazards`, with the properties that cover it.

## 2. Modules

### The core

```
IdempotencyLedger   OccurrenceStore          EffectOnce
        |                  |                     ^
   Orchestrator  ---------------------- implements
        |                  |
        +--- RecurringApply+   (implements Orchestrator and OccurrenceStore)
```

**IdempotencyLedger.** `rows` is the table, one record per key, `"absent"`
standing for no row. Each operation is one `BEGIN IMMEDIATE` transaction and so
one step; its guard is the `WHERE` clause. `ClaimState` is the decision list of
`claim_action`; `ResolveIndeterminateAction` is the compare-and-swap on the
stored outcome; `ClearCompleted` deletes by key and fingerprint and, as in the
code, looks at neither status nor token. `verdict` observes what became of each
claim and is read by no operation. A token is an abstract value drawn once
(`uuid4`). The stored JSON is `NoResult` or a member of `Results`: the code only
asks whether it carries a result record. On its own the ledger is checked under
callers that may issue any call with any token at any time.

**Orchestrator.** One process per member of `Runs`, all over one ledger and one
provider. `pc` is the place in the loop, `at` the action in hand, `report` the
`ActionState`s, `executed` the list `side_effects_may_have_occurred`, `stopped`
is `abort_remaining`, `cause` and `result` are what the exception handlers look
at.

| Actions | Code |
|---|---|
| `Start` | governance decision and `plan_started` |
| `SkipRemaining`, `RefuseCapability`, `AwaitCoherenceReview`, `SkipForDependency`, `RefuseByPolicy`, `PlanOnly`, `SelectionFails` | the gates before the claim; what policy, catalogue, sources, connector contract and egress decide is a free choice |
| `ReadOrGenerate` | reads and local generations, which keep no row |
| `ClaimGranted`, `ClaimRefused`, `ClaimFindsOutcome` | the answers of `claim_action` |
| `ReuseCompleted`, `ReuseUnconfirmed`, `ReconcileConfirmed`, `ResolveIndeterminate` | reuse of a prior outcome; the provider is read in one step and the ledger written in another |
| `GuardPasses`, `GuardRefuses` | `pre_effect_guard`, after the claim |
| `DispatchReturns`, `DispatchCertifiesNothing`, `DispatchRaises` | `connector.execute` |
| `TrackEffect`, `TrackFails`, `VerifyConfirms`, `VerifyFails`, `Complete`, `CompleteFails` | from the returned result to the completed row |
| `Settle`, `SettleFails` | the exception handlers with `_persist_idempotency_outcome` |
| `CompensationFails`, `Compensate`, `ClearCompensated`, `ClearFails`, `EndRollback` | `_maybe_compensate` |
| `Finish`, `Crash` | `plan_finished`; the process stops anywhere |

A retry of a plan is another run. The provider is external: `effect[k]` counts
the effects of key `k` that stand. Connectors are taken at their word: an
exception that certifies "no effect" is true, and a verification only confirms
what is so, though it may always fail to confirm; `ProviderWrite` and
`GitWorkspace` model where that word comes from. An audit event that cannot be
written stops the run (`Crash`) outside the loop's `try`, and inside it when the
error is an `sqlite3.Error`, which none of the handlers names. What a handler
does catch there (a damaged checkpoint, an `OSError`) ends as the failure that the
step already has: FAILED with a rollback before the claim or at a reuse
(`SelectionFails`, `ReadOrGenerate`, `ReuseUnconfirmed`), a conflict over a row
that was just completed (`ResolveIndeterminate`), an uncertain outcome after the
dispatch (`TrackFails`). One path is cut short at `Crash`: a record that fails
inside a rollback called from the `try` makes the handler start the same rollback
once more, each effect being verified again before anything is undone.

**EffectOnce.** What the runtime promises about one key, without ledger, runs or
plans: an effect is made only under a reservation and only while none stands; a
key is given back only when none stands. `Orchestrator` implements it under the
mapping row status to phase and provider effect to `standing`.

**OccurrenceStore.** `occ` is the row of one occurrence, `fence[a]` the
generation handed to attempt `a`, `clock` the time in ticks. Each action is one
transaction with the guard of its `WHERE` clause. Finalizing checks generation
and token, not the lease; renewing and validating check the lease as well. The
approval request is identified by the claim generation it was published under,
which the request carries. `UNBOUND` stands for no row; the status `EXPIRED` is
never written to this table.

**RecurringApply.** Composes the two: an attempt reserves or resumes, runs the
plan with its guard, renews from a heartbeat, and closes the occurrence from the
report or from the exception path. `ObserveBlocked` and `ObserveFinal` are
`observe_report`, `Escape` is the `except BaseException` path, `Die` a killed
process. `ReconcileReads` and `ReconcileUpdates` are the two transactions of
`recurring reconcile`. `made` observes which keys an attempt has had an effect
on. `authenticate_occurrence` is taken in one step with the reservation that
follows it (`OccurrenceBinding` takes it apart); the guard checks registration,
deadline and fence again before each dispatch, so a change in between shows
there. Retries of an attempt are other attempts.

### What surrounds the core

Each module has its own state and actions; its head says what is abstracted.

| Module | Code | State and actions |
|---|---|---|
| `OccurrenceBinding` | bind, inspect, authentication and guard of `cli.py`, `recurring_occurrence.py` | artifacts on disk, registered rows and the captured inputs of each binder; inputs are read, checked and rechecked one at a time while people edit them |
| `LegacyRunner` | `RecurringRunner`, `RecurringStateStore` | rows, lock file and processes; leases count ticks that are left, so no clock is bounded |
| `AuditChain` | `record`, `verify_chain` | rows, head and count under single damages; SHA-256 is injective: a hash is the pair it was made from |
| `CapsuleRun` | `CapsuleRunCoordinator.run`, `checkpoint_run`, receipts | checkpoint, events and sink; several processes start, preview, resume |
| `CapsuleLifecycle` | `capability_import.py`, `capsules.py`, `capsule_promotion.py`, `capsule_runtime.py` | source, directory, bundle, manifest chain; importers, promoters, retirers and runners that may be killed |
| `PluginLoader` | `plugins.py` | installed files, lock, snapshots and `sys.modules`; files replaced one at a time during a load |
| `ApprovalFlow` | `approval_handoff.py`, `policy.py`, `_execute_approval_resume` | plan and authorities file, requests on disk, approvals, invocations stage by stage |
| `ExecutionContext` | `execution_context.py`, `config.py`, `connectors/factory.py` | configuration, trust, tokens, directories that drift; capture, two gates, effects |
| `EvidenceRetention` | `retention.py` on POSIX | names, inodes, staged transactions and lock files; publish, prune, recover, repair with deaths and failing calls |
| `StateDatabase` | `sqlite_safety.py`, `windows/atomic.py` | named and unflushed files, ledger, connections; kill and power failure |
| `PinnedDirectory` | `directory_safety.py` | descriptor table, pins and their users; moves, reuse of descriptor numbers |
| `WorkMemory` | `work_memory.py`, `cli._work_memory` | journal, outputs, commands with contention, death and damage |
| `Drafts` | `connectors/drafts.py` | files by identity, the artifact budget, failing calls, a person's files |
| `ProviderWrite` | `connectors/*_write.py`, `compensation.py`, `http.py` | resource with versions and authors, the connector's requests, lost answers |
| `PagedReads` | read connectors with pages | collection, pages, next links, second read |
| `ProviderReads` | `provider_egress.py`, `direct_read.py` | policy, bindings, reads and returns |
| `EngineeringReview` | `workflows/engineering_work_item_review.py` | sources that move between two passes |
| `ConfluenceSandbox` | `scripts/confluence_sandbox.py` | pages, index, jobs, people and the reaper |
| `Operating` | `operating.py`, setup, doctor and execute of `cli.py` | files by content, processes, run directories |
| `OAuthTokens` | `oauth.py` | token file by directory, logins, cache and its lock |
| `CredentialCustody` | `windows/credentials.py`, `credential_broker.py` | entries, updaters, leases |
| `SupervisedProcess` | `windows/process.py` | processes, job, pipes, reader and feeder threads, handles |
| `AdvisoryDelegation` | `scripts/advisory_subagent.py`, `copilot_advisory.py`, `advisory_budget.py` | repository items with stamps, budget row, key file, runs |
| `GitWorkspace` | `connectors/git_workspace.py`, `git_sandbox.py` | refs, index, worktree, locks; every Git command is a step beside a person's |
| `SimpleTasks` | `simple/masteragent/` | task and step rows, workers, worktree, providers |

### Instances and suites

`MCOrchestrator` and `MCRecurringApply` give the core's constants their values.
The other MC modules are *suites* of several components, as *parts*. Every
behaviour is one of one part (`part` is chosen in the initial state and never
changes), so a suite explores the sum of its parts, not their product.

A suite of safety properties EXTENDS the components that are proved, so that its
run checks the very definitions the theorems are about; a second part of such a
component restricts its steps or its initial states. While another part runs,
their variables keep the values of one of their initial states (`OnlyUses`). The
components that are only model-checked are instantiated, once or several times
with different constants; outside their parts their variables are `Off`, and a
suite's property about them is a conjunction "while this part runs, these
properties of its module hold". The suites of liveness properties instantiate
all of their components. The conjuncts are defined, with their own comments, in
the component modules; a composite property is named for what they say together.

Definitions called *Faulty variant* are not part of any specification: each is a
plausible bug that breaks the property it is paired with in `PROJECT.json`, which
shows that the property depends on the code it is about.

`map` in `PROJECT.json` names, for each stretch of source, the definition that
translates it; a helper that models part of the same lines is not listed again.

## 3. Runs

| Run | Instance | Shows |
|---|---|---|
| `orchestrator` | 2 runs, 2 dependent reversible writes and a read that depends on them, crash anywhere | the inductive invariant `SafetyInv`, single effects, stuck claims explained, reports revoked only by another run's rollback, dependencies standing at dispatch, reverse order of undo, `EffectOnce` |
| `recurring_apply` | 2 attempts, a write, all commands | pre-effect certificates are true of their attempt; success is on record; one owner of the fence; each step is one of the orchestrator and of the store |
| `recurring` | ledger under any caller; a key rebound to another effect; store with 3 attempts; apply with a local generation; legacy runner; bound occurrences with two binders, and with every input edited | `ClaimsAreKept`, `OccurrencesAreFenced`, `LegacyAttemptsAreFenced`, `GrantsAreCurrent` |
| `authority` | capsule promotion, import and runs; audit chain; plugins; context, with at most three runs and drifts; reads under a policy | `InstalledCodeIsReviewed`, `RecordsAreHonest`, `ContextIsPinned`, `EgressIsPermitted` |
| `files` | retention; state database on POSIX, with an interrupted cleanup and on Windows; pins; work memory; drafts | `EvidenceIsKept`, `StateIsDurable`, `OtherBackendsAreDurable`, `PinsHold`, `MemoryIsTheHistory`, `BundlesAreWhole` |
| `providers` | approvals with a replaced plan and with expiry; writes, paged reads, review, sandbox | `EffectsAreApproved`, `WritesAreGuarded`, `ListsAreSnapshots`, `ReviewsAreCoherent`, `SandboxIsLeftClean` |
| `hosts` | profiles, OAuth, credentials, processes, advisory, Git, tasks | `ProfilesGovernRuns`, `SecretsAreInCustody`, `ProcessesAreSupervised`, `AdviceIsBudgeted`, `WorkspaceIsKept`, `TasksPostOnce` |
| `progress` | fairness: orchestrator, legacy runner, killed attempts, promotion, plugin loads, handoff, context | `RunsSettle`, `RepetitionSucceeds` |
| `endings` | fairness: pruning, pins, journal, reaper, logins, processes, a task | `CallsEnd`: calls and commands end, and what interrupted ones left is cleared |
| `reconcile_race`, `approval_masks`, `capsule_run_replay` | as `recurring_apply` and `authority` | disagreements between document and code, section 6 |

**Bounds, and why they are enough.** Two processes give every pair of
conflicting steps; a third is needed only where an attempt loses its lease, one
blocks and one resumes (the store part of `recurring`). Two dependent writes are
the least plan with a rollback of several effects and a dispatch that relies on
an earlier one; the read behind them is an action that keeps no row. One result
record suffices, because records are only compared with the row they were read
from; it makes the compare-and-swap of `resolve_indeterminate_action` as weak as
it can be (an equal record may have come from a later attempt). A lease of one
tick and four instants put expiry, `expires_at` (2) and the resume deadline (3)
between any two steps. In the other components the bounds are on what the
environment does: edits, moves, damages, faults, kills and lost answers, one to
four of each, enough to disturb every check and the use that follows it, and in
most parts a second disturbance during the recovery from the first. Each part's
bounds stand, with a comment, where the suite instantiates it.

`x1` and `x2` are processes nothing tells apart, which makes the symmetry of a
suite sound; only safety properties are checked under it.

Deadlock checking is off where the system may rest: all runs ended, an
occurrence in a terminal state, a bound on the environment used up.

**Idealisations chosen by a constant.** Some constants select whether a
misfortune of the environment, or a known weakness of the code, is part of an
instance. In the passing runs: `FaultyCleanup = FALSE` in the "durable" part of
`files`, where section 6 says what fails with the other value, and `Careful = TRUE`
for the task that must end, because otherwise the person may simply never give the
command that helps. Everywhere else a weakness of the code is in the instance and
named in the property as its exception.

**Fairness.** Weak fairness of each process's own steps: a process that is not
killed continues, and connector calls end because the HTTP layer bounds them by
timeouts and a request budget; weak fairness of clocks and of the provider's
index. People and schedulers who repeat a command (the poll of the legacy
runner, the operator who reconciles, prunes or reaps, the approvers, the person
at the task) are assumed to repeat it, with strong fairness where the chance to
do so comes and goes. Nothing is assumed of the other runs, of heartbeats, of
children of a supervised process or of faults. Because one part is active in a
behaviour, leads-to properties of several parts are checked as one, over the
disjunction of their premises. "A run ends" admits a run that was stopped.

## 4. Proofs

`tlapm` checks every theorem. Its hypotheses on the constants, which TLC evaluates
in the runs, are:

- `LedgerSentinels`, `PlanAssumption`, `StoreAssumption`, `ApplyAssumption`: the
  sentinels are not ordinary values, the plan is in an order that respects its
  dependencies with one action per key, reversible actions use the ledger, a token
  belongs to one run and key, leases are positive;
- `FlowAssumption`, `LegacyAssumption`, `RunAssumption`, `DelegationAssumption`:
  attempts, limits and validity windows are positive, every configured key has a
  person, a snapshot reads the file of the scope;
- `ContextAssumption`: systems and roots are listed once and have a kind of
  credential; `ReadAssumption`: a policy has finitely many rules with integer limits, a
  plan of reads is a list that is not empty and names capability, class and limit;
- `BindingAssumption`: scheduled instants are positive, the start window is within
  the resume window, appliers and reconcilers are different processes;
- `StateAssumption`, `PinAssumption`, `ReviewAssumption`, `SupervisionAssumption`:
  bounds are natural numbers (the pipe's positive), sentinels are distinct, the approved
  directory is a possible one, page ids are none of the review's own action
  names and the world a review starts in is one its operators are defined on.

| Module | Proves |
|---|---|
| `OrchestratorProofs` | of the ledger, under any caller: types, `ReservationIsOpenClaim`, `VerdictIsFinal`, `CompletionIsStable`. Of the orchestrator, for any plan and runs: types; each step uses the ledger by its operations (`Spec => LedgerSpec`); `OwnershipInv`, and from it `AtMostOneEffect`, `RetryableMeansNoEffect`, `SingleOwner`, and that it implements `EffectOnce`; `SafetyInv`, and from it `StuckClaimExplained`, `OnlyRollbackRevokesSuccess`, `DependenciesStandAtDispatch`, `UndoneInReverseOrder`; `BindingOutlivesFailure` |
| `RecurringApplyProofs` | of the occurrence store, for any attempts and deadlines: types, `OneFenceOwner`, `LeaseIffRunning`, `TerminalIsFinal`, `GenerationAdvancesFromRest`. Of the recurring commands: they implement orchestrator and store; `AtMostOneEffect`, `OneFenceOwner` and `SafetyInv` hold for them; `CertificateCoversAttempt`, `SuccessIsRecorded` |
| `RecurringProofs` | `LegacyAttemptsAreFenced`, for any processes, occurrences, attempts and lease; `GrantsAreCurrent`, for any registrations, plans, schedules, binders and jobs |
| `AuthorityProofs` | `EffectsAreApproved`, for any processes, plans, actions, keys and people; `ContextIsPinned`, for any systems, roots, drifts and runs; `EgressIsPermitted`, for any policies, plans of reads and contents |
| `StorageProofs` | `StateIsDurable` on POSIX and Windows, for any processes, files and power failures; `PinsHold`, for any directories, descriptors, moves and edits, until a second close hits a number in use |
| `WorkflowProofs` | of the coordinator run: types, `TerminalIsEvidenced`, `TerminalIsFinal`, `TerminalWasVerified`, for any number of processes and steps; `ReviewsAreCoherent`, for any configuration, pages, edits and outages |
| `HostProofs` | `AdviceIsBudgeted`, for any runners, limits, edits, key losses and order of the snapshot; `ProcessesAreSupervised`, for any budget, input, pipe size and faults |

So every safety property of the runs `orchestrator` and `recurring_apply` is a
theorem, and so are ten composite properties of the suites, types included:
`LegacyAttemptsAreFenced`, `GrantsAreCurrent`, `EffectsAreApproved`,
`ContextIsPinned`, `EgressIsPermitted`, `StateIsDurable`, `PinsHold`,
`ReviewsAreCoherent`, `ProcessesAreSupervised` and `AdviceIsBudgeted`. Of
`ClaimsAreKept` and `OccurrencesAreFenced`, which speak of several parts, the
conjuncts about ledger and store are theorems, of `RecordsAreHonest` those about
the coordinator run; `OtherBackendsAreDurable` repeats `StateIsDurable` for the
backends the theorem covers and the suite does not extend. The
orchestrator's types are proved (`TypeCorrect`) and not checked again by a run.

**The ledger.** `LedgerInv` adds to `ReservationIsOpenClaim` that every token
found in a row has been drawn, so that a fresh claim never meets it.

**Who owns an effect.** `AtMostOneEffect` is not inductive: it says nothing of
who may dispatch. `OwnershipInv` adds what every run knows and owns.

1. `ClaimHeld`: from claim to outcome a run owns the pending row with its own
   token, so no other run is between claim and outcome of that key.
2. `TrackedRow`: from outcome to rollback the row of an effect that may have to
   be undone is completed, indeterminate or still pending under the run's own
   token. None of these is ever granted, so the unconditional delete of
   `clear_completed` can only hit the row of the run that calls it. This is the
   step on which the safety of that delete rests.
3. `TrackedOnce`, `NotYetTracked`: an effect is on one list, once, and is put
   there by the attempt that made it.
4. `EffectKnown`: a run about to dispatch knows that no effect stands, one about
   to complete that one does, one about to record a certified failure or to clear
   that none does.
5. `RetryableMeansNoEffect` closes the circle: what may be granted has no effect,
   hence (4) after a claim.

**What a report is worth.** That a report stays true needs a second layer,
`ReportInv`, proved over the first.

1. `ReportsInOrder`: a report is written once and in plan order, so an action's
   report does not change while a later one relies on it, except by a rollback.
2. `TrackedInOrder`: what a run may undo are effects of its own earlier
   reversible actions, in plan order. The last of the list is therefore the last
   in the plan, which is `UndoneInReverseOrder`; and it is never one the run only
   reused.
3. `SeenSoFar`: what the run has seen on its way to the place it is at; the
   dependencies of an action about to be dispatched have succeeded.
4. `VerifiedStands`, `ReusedStands`: a success stands, recorded as completed, or
   somebody has undone it. For VERIFIED that can only be the run itself, for
   REUSED only another.
5. The excuse "has been rolled back" must be stable, or another run's next step
   would take it away. `RolledBack` of the properties is not: a run at `clear`
   has on its list effects it has not touched. `Undone` therefore names the one
   effect just undone (`LastTracked`) and covers the time until the report says
   so; it is stable and implies `RolledBack`.
6. `StuckClaimExplained` is inductive once (1) is known: a report that says
   INDETERMINATE is not overwritten.

**What an attempt certifies.** `AttemptInv` adds to the invariants of the two
components `GuardMarks`, that an attempt at a dispatch or with an effect has
`effect_started` set, and `NeverDry`, that an attempt's report has no PLANNED
entry. `CertificateCoversAttempt` follows from the first. For `SuccessIsRecorded`
the report of a finished run (all VERIFIED or REUSED) is turned by `ReportInv`
into "completed, or undone by some run"; that run does not own the fence, since
the owner is the attempt that just finished, and of those there is one
(`OneFenceOwner`, through `StoreInv`).

**Who stands behind an effect.** `FlowInv` has, besides the three properties,
`ComparedFirst` (a run that acts has compared its authorities with the bound
ones, so nothing it carries was revoked then), `OneWriter` (a torn request has one
writer, so a failed write never removes a request somebody has signed) and
`KeepsRequest`; and what is due to be performed is typed by `DueActions`, an action
with the people it needs, because the policy decides and the connector acts in two
steps. The lemma `ApproversAreEndorsers` says that the set the policy
counts is the set of people with an approval for this plan, action and time.

**Why a legacy callback is alone.** `LegacyInv` ties a run's place to the files:
`RunsHoldTokens`, the lock file exists and is the run's own around its callback, so
two callbacks would be two owners of one file; `RowsAreClaims`, the token of a
running row is its attempt number, so a run superseded by a later claim holds a
smaller one and its completion matches no row.

**Why a terminal run is evidenced.** The coordinator's compare-and-swap looks at
the state of the row and not at the sequence the call has read, so a stale call may
move the row. `AdvanceKeeps` and `RowStep` show that it still moves it along
`_TRANSITIONS` from what the row is now, which leads nowhere from `terminal`.
`CoordinatorInv` adds what a call has behind it at each place: it has read a row,
started the orchestrator or is a dry run, anchored its receipt, had it accepted.
That knowledge is the call's own and no other call can undo it, which is why only
the order within one call matters.

**Why the budget holds.** `BudgetNeverExceeded` says nothing of runs between their
reservation and their call. `UsesAreReserved` counts them: calls made and calls
pending are within the uses of the row, and these within the limit. That the row
never starts again from zero is `UntaggedIsEmpty` with `Readable`: the only row a
different key may read is one that was never written. For `ServedIsAuthorised`,
`StampIsContent` says that a file with the stamp the scope was bound to has the
content it had then, since no edit brings a stamp back; `ScanSawFile` that the scan
before the session, once past the file, has seen that content unless the file was
edited since. Hence at the session the file is the authorised one or will be
refused. This is why the order of scope, scan and session in `run` matters: the
file may change and change back between any two of them.

**Why a context stays pinned.** `ContextInv` follows the one command through its
stages (`CommandOK`). `PinsAreKept` says that an applied run holds the directories it
captured and opens duplicates of those, so a path that moves later leads nowhere;
`Compared`, that past the first gate what it holds is the approved context;
`GateHolds`, what the second gate saw. A check there reads one input at a time, and
its result would be stale at the next, but versions only grow: the version a run
captured is no newer than the one at the gate, so equality with the approved one
means that nothing drifted in between.

**Why nothing leaves unpermitted.** A session loads policy and governance once, and
what is permitted is a fact about those; what moves under it are the provider's
content and endpoint. `ReadInv` keeps what the session has established at each place: `AdmittedFirst` before anything is asked,
`AskedFirst` before each request, `AnswersFit` between an answer and its verification,
and `ReportsHold` for what has been collected. The lemmas about `Permits` and
redaction say that the most specific rule exists and that what is shown is within it.

**Why a grant is current.** "Current" cannot mean equal to the world now. `since`
records the values an input has had since a job's comparison began, and `BindingInv`
says how far each comparison has come (`Compared`): an input that has been
compared had the bound value at some moment since, whatever it is now. `RowOK` ties a
registered row to the binder that captured it, for good; `GrantOK` a granted
artifact to its row and its scheduled instant.

**Why acknowledged data survives.** After a power failure the file system may
return to any state between the last flush and now. `Safe` must therefore hold of the
current file and ledger and of every entry of the journal `jnl`; `SafeAfter` and
`Journalled` reduce a step to the one entry it adds. `HolderOK` is what the
instance with the lock knows at each stage, above all that at `done` every state
a power failure may bring back holds its transaction, which is when it may be
acknowledged. `Reopens`, the half of `Safe` about the next open, is suspended while a
POSIX creator is between the two removals of its cleanup.

**Why a pin holds.** A descriptor number says nothing of what it names. `OneOwner`
partitions the numbers in use between pins, the operation and the rest of the process, so
that a close never closes what another has reopened; `GuardIsHeld` names the places
at which the pin's lock keeps a close out. `EdgesAreSeen` relates each comparison to
`held`, the edges that were in place at some moment of the operation; `DirIsPinned` says
when the directory that was read must be the approved one: while the pin is alive, or once
the closing check has gone past the place where a closed pin shows. All of it holds until
`FinalizeLost` hits a number in use (item 19 below): `HeldUntilHit` is the invariant, and
a second close that hits nothing changes no descriptor.

**Why a review is about one state.** `VerifiedWasRead` keeps with each verified
action the two worlds in which it was answered alike, after the actions it depends
on; what a complete review says follows from these pairs and not from the world at
the end. `BundleIsRendered` says that nothing is added between the report and what
is published.

**Why no process is left.** `LaunchInOrder` says what exists at each step of a call that
may fail at any of them; `ThreadsOwnHandles` who closes which handle. For
`ReportedIsWhole`, `OutputIsAccounted` counts chunks: what was written is in the
budget or still in a pipe unless it was cut, and by `DoneMeansOver` a reader that ended
without failing has seen the tree over and its pipe empty.

Each action has one lemma, with one step per conjunct it can disturb; steps that
leave a part of the state alone share a stuttering lemma.

**Only model-checked.** `RunsSettle`, `RepetitionSucceeds` and `CallsEnd`: liveness
under fairness is beyond the prover. `EvidenceIsKept`, `MemoryIsTheHistory`,
`BundlesAreWhole`, `ListsAreSnapshots`, `WritesAreGuarded`, `SandboxIsLeftClean`,
`InstalledCodeIsReviewed`, the audit chain in `RecordsAreHonest`, `ProfilesGovernRuns`,
`SecretsAreInCustody`, `WorkspaceIsKept` and `TasksPostOnce`: inductive invariants
for them have not been found or not been proved. Several of them compare whole
histories (the journal of `WorkMemory`, the chain of `AuditChain`, the pages of
`PagedReads`), which needs induction over data. What the sequence and set operators
compute is used by definition or by the library's theorems. No module uses a
RECURSIVE operator.

## 5. What the properties do not say

Core:

- A `REUSED` report can be overtaken by another run's rollback;
  `OnlyRollbackRevokesSuccess` says that nothing else revokes it.
- An action may be dispatched on a dependency another run has undone since
  (`DependenciesStandAtDispatch` names the exception).
- A pending row whose run stopped stays pending: no code path of this runtime
  releases it. `StuckClaimExplained` says this is the only way it comes about,
  together with an outcome that could not be written.
- `FAILED_PRE_EFFECT` is a statement about one attempt
  (`CertificateCoversAttempt`), not about the occurrence; see `approval_masks`.

Around it:

- `ApprovalFlow`: a torn request file blocks its publication for good (it fails
  closed); an action whose risk is in none of the policy's lists waits for ever;
  a run past its last comparison uses the authorities it has read; the approvals
  are judged when the policy decides, so one may expire before the effect; `approve`
  signs any actions of the plan for `run --approval`, without a request, so only of
  `approve-request` is it claimed that a published request was signed.
- `OccurrenceBinding`: the guard does not read time zone or roots again; a killed
  bind leaves an artifact that is not registered.
- `LegacyRunner`, `PluginLoader`: the command line refuses both
  (`_reject_non_manifest_execution`); they are used as a library.
- `CapsuleRun`: the plan and its bindings are the same in every call.
- `ExecutionContext`: versions of an input only increase; what drifts between the
  second gate and the effect is not claimed to be noticed.
- `EvidenceRetention`: `EvidenceIsCovered` is not claimed of roots under repair;
  a writer's crash leaves names with two links; the order in which a power
  failure keeps directory entries, previews and Windows are not modelled.
- `StateDatabase`: a `connect()` that raises after its preparation may still be
  applied later; a power failure keeps a prefix of unflushed renames.
- `PinnedDirectory`: path components are validated one at a time; a number handed
  out by `fileno()` is the caller's concern; Windows pins are not modelled; a
  close that waits for a contended lock is not claimed to end.
- `WorkMemory`: a creator killed between the empty file and its schema leaves a
  journal nobody initialises; one damage at a time.
- `Drafts`: a killed process leaves half a bundle; `unlink` failing in the
  rollback and the Windows bundle are left out; an inode number that the file system
  uses again counts as the same file.
- `ProviderWrite`: GitHub collaborators, Reddit deletion and comments are left
  out. `PagedReads`: an item that leaves a list defeats a snapshot, and so does a
  GitHub limit over the page size that is no multiple of it; a SharePoint text read ignores the expected
  version. `ProviderReads`: reads with local credentials are left out, and the
  endpoint of a second action is checked again only before the return.
- `EngineeringReview`: a connector's read is one step.
- `ConfluenceSandbox`: an edit between the compensation's read and its delete is
  lost.
- `Operating`: `OneConfiguration` is about applied runs; a setup killed in a write
  leaves part of a profile; the support bundle is left out.
- `OAuthTokens`: a killed login leaves its temporary file; a write may return
  success although the token was withdrawn. `CredentialCustody`: Credential
  Manager has no lock between processes, so restoring is claimed of updates that
  do not overlap.
- `SupervisedProcess`: `HandlesAreClosed` is about calls that created a child
  (failures before the `try` leak); a supervisor killed before the assignment
  leaves a suspended process that never runs; POSIX supervision is left out.
- `AdvisoryDelegation`: a torn key file fails closed for ever; two equal scans are
  not a whole snapshot, which `ServedIsAuthorised` does not need.
- `GitWorkspace`: the connector is quarantined in the shipped configuration
  (`docs/live-connectors.md:132`); `reset --mixed` drops staging; a killed
  connector leaves lock files.
- `SimpleTasks`: an operator who declares a write absent while its process is
  still at it can have it made twice; review, status, note, demo and setup are
  left out.

## 6. Disagreements between documents and code

With a run that shows them:

1. `reconcile_race`: `recurring reconcile` reads the ledger before the lease
   expiry is checked (`cli.py:6197`), so an occurrence can become RECOVERABLE with
   an effect in flight. The ledger still prevents a second effect.
2. `approval_masks`: an approval block hides an indeterminate effect of the same
   attempt (`cli.py:6403`); a resumed attempt that fails early then certifies the
   occurrence for recovery. AUTONOMY.md says indeterminate effects stay blocked.
3. `capsule_run_replay`: a process moves a capsule run to EXECUTING; a second one
   resumes it, in the trace as a dry run, passes `checkpoint_run` (`audit.py:258`)
   and ends it; the first then starts the orchestrator on a terminal run
   (`capsule_operations.py:219`), which `docs/capability-capsules.md:332` excludes.

Found while modelling. Each is either a definition of its module that no run
checks, and is reproduced by checking it, with the constants named, on an instance
of the module; or it is named as the exception of a property a run checks, and is
reproduced by taking the exception out:

4. `RecurringApply`, `ClaimLossBeforeDispatchIsCertified`: a guard that refuses
   leaves an *indeterminate* row, because it raises `ConfigurationError` and not
   `PreEffectError`; MA-RECURRING-001 calls claim loss before dispatch a certified
   pre-effect failure.
5. `RecurringApply`, `RollbackIsFenced`: compensation is not behind the guard, so
   an attempt that lost its fence still changes the provider; MA-RECURRING-001
   asks for revalidation before every effect.
6. `CapsuleLifecycle`: `_write_private_at` (`capsules.py:1964`) creates the file and
   then writes in place; a promoter or a revoker killed in between leaves a torn
   manifest and the chain never resumes (`docs/capability-capsules.md:107` says it
   does). `PromotionResumes` and `RepetitionSucceeds` except exactly this (`torn`).
7. `CapsuleRun`, `ReceiptCoversActions`: a dry resume of an EXECUTING run ends it
   with the preview's receipt (`capsule_operations.py:206`, doc line 334).
8. `EvidenceRetention`, `InterruptedPruneIsRecoverable`: publishing the same name
   while a staged transaction pends makes it unrecoverable (`retention.py:2431`,
   `docs/operations.md:344`); `EvidenceIsCovered` under repair: the link count
   checked at line 4638 against the comment at 5123.
9. `StateDatabase`, `Openable` with `FaultyCleanup = TRUE`: a creator killed
   between the two removals of its cleanup (`sqlite_safety.py:393`) strands a
   ledger without a database on POSIX.
10. `OccurrenceBinding`, `ExpiredIsReconciled`: reconcile authenticates against
    the resume deadline (`cli.py:6184`), so a crashed occurrence past it can only
    be cancelled.
11. `ExecutionContext`, `UndriftedRunActs` with a user name from a credentials
    file: the second gate captures again with `os.environ`, which does not have the
    name (`cli.py:4329`), and refuses a run under which nothing drifted
    (`docs/configuration.md:994`).
12. `PagedReads`, `ListedOnce` with a limit over the page size that is no multiple
    of it: the last page is asked for with a smaller size, which moves its offset
    (`connectors/github.py:424`), so that an item comes twice and one is missed
    though nothing changed. The suite reads with such limits, and
    `VerifiedIsASnapshot` excepts them by name (`PagesShift`).
13. `EngineeringReview`, `UnavailablePageIsPartial`: a page that answers once and
    not again makes the review `stale` (`engineering_work_item_review.py:951`);
    MA-TIER1-EWIR-001 says `partial`.
14. `ConfluenceSandbox`: a cleanup that finds nothing in three searches reports a
    clean site while the index does not know the page yet, or before a create takes
    effect whose command was given up (`confluence_sandbox.py:1416`); and older pages
    that are no candidates fill the reaper's search limit and hide a leftover (line
    1674). `CleanMeansGone` and `LeftoversAreReaped` except exactly these cases
    (`missed`, `Hidden`).
15. `Operating`: a profile a person puts in place between the identity check and the
    removal of a rollback is removed (`operating.py:2206`, `2221`; the docstring at
    2203 says only the inode created by the call is), and a setup that fails after the
    last byte (2152, 2182, 2184) removes the profile another setup has already found
    and reported ready (2141-2146). `OnlyOwnProfileTouched` and `ReadyStays` except
    exactly these cases. A setup that fails before 2150 leaves its empty file behind.
16. `Drafts`, `RemovedIsCompared`: a file replaced between the identity check and the
    unlink is removed (`connectors/drafts.py:1281`, `1286`; the docstring at 1070 says
    only files of the transaction are), and a creation that fails in `fchmod` or
    `fstat` leaves its file, because `created_identity` is not set yet (1106, 1151).
    `BundlesAreWhole` names both exceptions.
17. `GitWorkspace`: the lost answer of the publishing `update-ref` becomes a conflict,
    which is recorded as without effect (`git_workspace.py:1323`); and `compensate`
    reads HEAD again after its verification (`686`, `697`) and gives that value to
    `update-ref` as the expected one (`735`), so that a commit a person makes in
    between is taken off the branch, although "Git state changed after execution;
    automatic compensation is refused" (688).
    `ConflictLeavesNoTrace` and `HumanWorkIsKept` except exactly these cases.
18. `SimpleTasks`: two publishers that cross can send different parameters
    (`workflows.py:428`), and a host that keeps committing can have an unchecked
    commit pushed on top of the checked one, and named as checked
    (`workflows.py:492`; the docstring at 406 says "Push tested commits").
    `ParametersStay` and `PushedWasChecked` except exactly these cases, and the
    suite runs two publishers and a committing host.
19. `PinnedDirectory`, `SecondCloseIsHarmless`: a new pin's finalizer is armed in the
    constructor (`directory_safety.py:101`) and not detached when `validate()` fails
    and the `except` closes the descriptors (`196`, `373`): the numbers are closed
    again when the object goes, and may be another thread's by then.

## 7. Plan

Done: the core with all its safety properties proved; eleven of the surrounding
components with their proofs; the models of the others. Next:

1. proofs for the components whose invariants are closest to these: the promotion
   ladder of `CapsuleLifecycle` (`EnabledIsEarned`), the handles of
   `CredentialCustody`, the lock file and staged pairs of `EvidenceRetention`
   (`OneMutator`);
2. the approval handoff composed with `OccurrenceStore`, in place of the request
   number there.

**Not modelled.** Parsing, validation and rendering (`models.py`, most of
`config.py`, `cli.py`'s arguments and output, weekly workflows): functions without
protocol state. The Windows variants of file system, capsule and retention code,
and POSIX supervision. `performance.py` only measures. The repository's scripts
(semantic router, release validation, specs, bootstrap) other than the sandbox
harness and the advisory runner are build tools. The largest parts of otherwise
modelled files that are left out are previews, listings and repair reports of
`retention.py`, argument handling of `cli.py` and manifest parsing of
`capsules.py`.
