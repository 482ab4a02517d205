---- MODULE MCProgress -------------------------------------------------------
(* What is to happen in the end, part by part, under the fairness each      *)
(* part's module states: runs end, an abandoned claim expires, a killed     *)
(* occurrence is settled, a promotion resumes, a failed load is repeated, a *)
(* handoff completes and an undrifted run acts.                             *)
EXTENDS Naturals, Sequences, FiniteSets, TLC

CONSTANTS k1, k2, r1, r2, p1, p2, i1, e1, b1, o1, n1, v1, v2, wide, planA, Jira,
          Hub, Ann, Bob, Here, There1, Alone, NoFp, NoToken, NoResult, None

------------------------------------------------------------------------------
KindOf(tier, write, from, need) ==
    [tier |-> tier, write |-> write, from |-> from, fits |-> TRUE, asks |-> FALSE, need |-> need]

------------------------------------------------------------------------------
\* Every behaviour is one of one part; the variables of the others are Off.
VARIABLES
    part,
    rows, verdict,
    effect, runPc, runMode, runAt, runReport, executed, stopped, runResult,
    runCause,
    slot, legacyLate, legacyRow, legacyLock, legacyProc, ran,
    boundClock, boundWorld, boundFiles, boundRow, binder, boundJob, reviewed, since,
    granted, boundSpent,
    capsuleSource, catalog, capsuleWorker, capsuleDir, bundle, chain, torn,
    capsuleProc, crashes,
    pluginDisk, pluginLock, hasher, loader, snapshots, modules, registry, served,
    pluginSpent,
    planFile, authFile, revoked, flowNow, approvals, flowDisk, flowRun, flowEffects,
    ctxConf, ctxCa, ctxToken, ctxStore, ctxDir, approved, ctxProc, sent, ctxEffects,
    atGate, drifts, ctxRuns

ledgerVars == <<rows, verdict>>
orchestratorVars == <<effect, runPc, runMode, runAt, runReport, executed, stopped,
    runResult, runCause>>
legacyVars == <<slot, legacyLate, legacyRow, legacyLock, legacyProc, ran>>
bindingVars == <<boundClock, boundWorld, boundFiles, boundRow, binder, boundJob,
    reviewed, since, granted, boundSpent>>
capsuleVars == <<capsuleSource, catalog, capsuleWorker, capsuleDir, bundle, chain,
    torn, capsuleProc, crashes>>
pluginVars == <<pluginDisk, pluginLock, hasher, loader, snapshots, modules,
    registry, served, pluginSpent>>
flowVars == <<planFile, authFile, revoked, flowNow, approvals, flowDisk, flowRun,
    flowEffects>>
contextVars == <<ctxConf, ctxCa, ctxToken, ctxStore, ctxDir, approved, ctxProc,
    sent, ctxEffects, atGate, drifts, ctxRuns>>
suiteVars == <<part, ledgerVars, orchestratorVars, legacyVars, bindingVars,
    capsuleVars, pluginVars, flowVars, contextVars>>

Off == "off"
\* The groups of variables a part uses are in play, the others off and left alone.
OnlyUses(used) ==
    /\ "ledger" \notin used =>
           /\ rows = Off /\ verdict = Off
    /\ "orchestrator" \notin used =>
           /\ effect = Off /\ runPc = Off /\ runMode = Off /\ runAt = Off
           /\ runReport = Off /\ executed = Off /\ stopped = Off /\ runResult = Off
           /\ runCause = Off
    /\ "legacy" \notin used =>
           /\ slot = Off /\ legacyLate = Off /\ legacyRow = Off /\ legacyLock = Off
           /\ legacyProc = Off /\ ran = Off
    /\ "binding" \notin used =>
           /\ boundClock = Off /\ boundWorld = Off /\ boundFiles = Off
           /\ boundRow = Off /\ binder = Off /\ boundJob = Off /\ reviewed = Off
           /\ since = Off /\ granted = Off /\ boundSpent = Off
    /\ "capsule" \notin used =>
           /\ capsuleSource = Off /\ catalog = Off /\ capsuleWorker = Off
           /\ capsuleDir = Off /\ bundle = Off /\ chain = Off /\ torn = Off
           /\ capsuleProc = Off /\ crashes = Off
    /\ "plugin" \notin used =>
           /\ pluginDisk = Off /\ pluginLock = Off /\ hasher = Off /\ loader = Off
           /\ snapshots = Off /\ modules = Off /\ registry = Off /\ served = Off
           /\ pluginSpent = Off
    /\ "flow" \notin used =>
           /\ planFile = Off /\ authFile = Off /\ revoked = Off /\ flowNow = Off
           /\ approvals = Off /\ flowDisk = Off /\ flowRun = Off
           /\ flowEffects = Off
    /\ "context" \notin used =>
           /\ ctxConf = Off /\ ctxCa = Off /\ ctxToken = Off /\ ctxStore = Off
           /\ ctxDir = Off /\ approved = Off /\ ctxProc = Off /\ sent = Off
           /\ ctxEffects = Off /\ atGate = Off /\ drifts = Off /\ ctxRuns = Off
Untouched(used) ==
    /\ UNCHANGED part
    /\ "ledger" \notin used => UNCHANGED ledgerVars
    /\ "orchestrator" \notin used => UNCHANGED orchestratorVars
    /\ "legacy" \notin used => UNCHANGED legacyVars
    /\ "binding" \notin used => UNCHANGED bindingVars
    /\ "capsule" \notin used => UNCHANGED capsuleVars
    /\ "plugin" \notin used => UNCHANGED pluginVars
    /\ "flow" \notin used => UNCHANGED flowVars
    /\ "context" \notin used => UNCHANGED contextVars

------------------------------------------------------------------------------
\* Two runs of a reversible write and a read that depends on it.
Orchestrated == INSTANCE Orchestrator WITH
    Keys <- {k1, k2}, Runs <- {r1, r2}, Fingerprints <- {"f1"}, Results <- {"v1"},
    Tokens <- ({r1, r2} \X {k1, k2}), Plan <- <<k1, k2>>,
    Deps <- [k \in {k1, k2} |-> IF k = k2 THEN {k1} ELSE {}],
    EffectFp <- [r \in {r1, r2} |-> [k \in {k1, k2} |-> "f1"]], Effectful <- {k1},
    Reversible <- {k1}, CompensateOnFailure <- TRUE, pc <- runPc, mode <- runMode,
    at <- runAt, report <- runReport, result <- runResult, cause <- runCause

\* Two runners of one occurrence.
Legacy == INSTANCE LegacyRunner WITH
    Procs <- {p1, p2}, Occurrences <- 1, Lease <- 1, MaxLateness <- 1,
    MaxAttempts <- 2, late <- legacyLate, row <- legacyRow, lock <- legacyLock,
    proc <- legacyProc

\* One bound occurrence whose apply may be killed, and a reconciler.
Killed == INSTANCE OccurrenceBinding WITH
    Binders <- {b1}, Appliers <- {p1}, Reconcilers <- {o1}, Names <- {n1},
    Plans <- {wide}, WidePlans <- {wide}, Instants <- {1}, Scheduled <- {1},
    Lateness <- 1, ResumeWindow <- 3, ReservationLease <- 1, Edited <- {"reg", "roots"},
    MaxClock <- 4, MaxEdits <- 1, MaxKills <- 1, MaxReplaced <- 0,
    clock <- boundClock, world <- boundWorld, files <- boundFiles, rows <- boundRow,
    job <- boundJob, spent <- boundSpent

\* Two promoters of one capsule and one crash.
Resumed == INSTANCE CapsuleLifecycle WITH
    Importers <- {i1}, Promoters <- {p1, p2}, Retirers <- {e1}, Runners <- {},
    Abilities <- {[kind |-> "capability", defects |-> {}, version |-> 1]},
    MaxWorker <- 2, MaxCrashes <- 1, source <- capsuleSource,
    worker <- capsuleWorker, dir <- capsuleDir, proc <- capsuleProc

\* Three loads of one version, two of which meet a fault.
Reloaded == INSTANCE PluginLoader WITH
    Files <- <<"plug", "plug_helper">>, Entry <- "plug", Versions <- {v1, v2},
    Connectors <- 2, MaxInstalls <- 0, MaxFaults <- 2, MaxLoads <- 3,
    disk <- pluginDisk, lock <- pluginLock, spent <- pluginSpent

\* Two processes and two people hand a plan of three actions over,
\* undisturbed.
Handoff == INSTANCE ApprovalFlow WITH
    Procs <- {p1, p2}, Actions <- {"write", "read", "echo"},
    Kind <- [read |-> KindOf("auto", FALSE, "user", 0), write |-> KindOf("approval", TRUE, "user", 2), echo |-> KindOf("approval", TRUE, "retrieved", 0)],
    Keys <- {"ann1", "bob"}, Principal <- [ann1 |-> "ann", bob |-> "bob"],
    Plans <- {planA}, Ttl <- 1, MaxTime <- 0, MaxApprovals <- 2, now <- flowNow,
    disk <- flowDisk, run <- flowRun, effects <- flowEffects

\* Two runs of a bound plan against two systems, one drift.
Undrifted == INSTANCE ExecutionContext WITH
    Systems <- <<Jira, Hub>>, AuthOf <- (Jira :> "basic" @@ Hub :> "attested"),
    SourceOf <- (Jira :> "environment" @@ Hub :> "environment"),
    Roots <- <<"audit.parent", "artifact.root">>,
    RootChoices <- {"audit.parent" :> Here @@ "artifact.root" :> Alone, "audit.parent" :> Here @@ "artifact.root" :> There1},
    Origins <- {"one", "two"}, People <- {Ann, Bob}, MaxDrifts <- 1, MaxRuns <- 2,
    conf <- ctxConf, ca <- ctxCa, token <- ctxToken, store <- ctxStore,
    dir <- ctxDir, proc <- ctxProc, performed <- ctxEffects, runs <- ctxRuns

------------------------------------------------------------------------------
\* The constants of every part are as its module says.
ASSUME ProgressAssumption ==
    /\ Orchestrated!PlanAssumption
    /\ Legacy!LegacyAssumption
    /\ Killed!BindingAssumption
    /\ Resumed!CapsuleAssumption
    /\ Reloaded!PluginAssumption
    /\ Handoff!FlowAssumption
    /\ Undrifted!ContextAssumption

SuiteInit ==
    \/ part = "runs" /\ Orchestrated!Init /\ OnlyUses({"ledger", "orchestrator"})
    \/ part = "legacy" /\ Legacy!LegacyInit /\ OnlyUses({"legacy"})
    \/ part = "killed" /\ Killed!BindingInit /\ OnlyUses({"binding"})
    \/ part = "resume" /\ Resumed!CapsuleInit /\ OnlyUses({"capsule"})
    \/ part = "reload" /\ Reloaded!PluginInit /\ OnlyUses({"plugin"})
    \/ part = "handoff" /\ Handoff!FlowInit /\ OnlyUses({"flow"})
    \/ part = "context" /\ Undrifted!ContextInit /\ OnlyUses({"context"})

OrchestratedStep == part = "runs" /\ Orchestrated!Next /\ Untouched({"ledger", "orchestrator"})
LegacyStep == part = "legacy" /\ Legacy!Next /\ Untouched({"legacy"})
KilledStep == part = "killed" /\ Killed!BindingNext /\ Untouched({"binding"})
ResumedStep == part = "resume" /\ Resumed!Next /\ Untouched({"capsule"})
ReloadedStep == part = "reload" /\ Reloaded!PluginNext /\ Untouched({"plugin"})
HandoffStep == part = "handoff" /\ Handoff!HandoffNext /\ Untouched({"flow"})
UndriftedStep == part = "context" /\ Undrifted!ContextNext /\ Untouched({"context"})

SuiteNext == OrchestratedStep \/ LegacyStep \/ KilledStep \/ ResumedStep
    \/ ReloadedStep \/ HandoffStep \/ UndriftedStep

SuiteSpec == SuiteInit /\ [][SuiteNext]_suiteVars

runVars == <<ledgerVars, orchestratorVars>>

\* A started process runs on unless it is killed, time passes, and whoever repeats a command (the
\* scheduler, the operator, the people who approve) repeats it.
Fairness ==
    /\ \A r \in {r1, r2} : WF_runVars(part = "runs" /\ Orchestrated!Step(r))
    /\ \A p \in {p1, p2} : WF_legacyVars(part = "legacy" /\ Legacy!Worker(p))
    /\ WF_legacyVars(part = "legacy" /\ Legacy!Tick)
    /\ WF_legacyVars(part = "legacy" /\ Legacy!Poll)
    /\ WF_bindingVars(part = "killed" /\ Killed!ClockTicks)
    /\ \A j \in {p1, o1} : WF_bindingVars(part = "killed" /\ Killed!JobStep(j))
    /\ \A p \in {p1, p2} : WF_capsuleVars(part = "resume" /\ Resumed!Promote(p))
    /\ WF_pluginVars(part = "reload" /\ Reloaded!LoadStep)
    /\ WF_flowVars(part = "handoff" /\ \E p \in {p1, p2} : Handoff!StartWith(p, {}))
    /\ \A p \in {p1, p2} : WF_flowVars(part = "handoff" /\ Handoff!Step(p))
    /\ SF_flowVars(part = "handoff" /\ \E p \in {p1, p2} : Handoff!ResumeFurthest(p))
    /\ SF_flowVars(part = "handoff" /\ \E k \in {"ann1", "bob"} : Handoff!SignsOnce(k))
    /\ WF_contextVars(part = "context" /\ Undrifted!ContextStep)

FairSuiteSpec == SuiteSpec /\ Fairness

------------------------------------------------------------------------------
\* A run ends and its claims do not outlive it. Every run of the orchestrator
\* comes to its report or stops, whatever its connectors do and whoever else
\* works on its keys: no run waits for another (WorkflowOrchestrator.run; the
\* two runs are alike). Legacy: a running row whose process was killed is
\* expired by a later poll once its lease is over (expire_claims). Bound: an
\* occurrence whose attempt was killed does not stay RUNNING if its lease ends
\* before the resume deadline, the deadline is not over and nothing it was
\* bound to has changed, since the operator keeps reconciling.
RunsSettle ==
    (\/ part = "runs" /\ Orchestrated!Live(r1)
     \/ part = "legacy" /\ Legacy!Abandoned(1)
     \/ part = "killed" /\ Killed!RunningNow(1)) ~>
    /\ part = "runs" => ~Orchestrated!Live(r1)
    /\ part = "legacy" => ~Legacy!Running(1)
    /\ part = "killed" => ~Killed!RunningNow(1) \/ Killed!OutOfReach(1)

\* A command that was interrupted or refused and is repeated succeeds. A chain
\* that can be promoted ends enabled or retired, unless the runtime changed or a
\* process died inside the write of a manifest and left it torn (capsules.py); a
\* plugin whose installed files are the locked ones is loaded after a failed
\* load (plugins.py); an undisturbed handoff performs every action that enough
\* people can approve (approval_handoff.py); an applied run in the environment
\* it was bound in performs its effects (execution_context.py).
RepetitionSucceeds ==
    (\/ part = "resume" /\ Resumed!Promotable
     \/ part = "reload" /\ Reloaded!Wanted
     \/ part = "handoff"
     \/ part = "context" /\ Undrifted!Applying) ~>
    /\ part = "resume" => Resumed!Settled \/ torn
    /\ part = "reload" => served # {} \/ ~Reloaded!Installed
    /\ part = "handoff" => \A a \in Handoff!Approvable : Handoff!Performed(a)
    /\ part = "context" => Undrifted!Drifted \/ Undrifted!Acted
==============================================================================
