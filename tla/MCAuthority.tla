---- MODULE MCAuthority ------------------------------------------------------
(* What gives a step its authority, part by part: the life of a capsule and *)
(* its runs, the audit chain, the plugin loader, the execution context an   *)
(* approved plan is bound to, and the reads a model-context policy lets     *)
(* out.                                                                     *)
EXTENDS ExecutionContext, ProviderReads, TLC

CONSTANTS x1, x2, e1, e2, e3, v1, v2, Jira, Hub, Ann, Bob, Here, There1, Alone

------------------------------------------------------------------------------
Safe(version) == [kind |-> "capability", defects |-> {}, version |-> version]
\* Two safe versions, one of every defect, a reference, a skill and an agent.
EveryAbility ==
    {Safe(1), Safe(2)}
    \cup {[Safe(1) EXCEPT !.defects = {d}] : d \in
            {"export", "authority", "contract", "deps", "impure", "tests"}}
    \cup {[Safe(1) EXCEPT !.kind = k] : k \in {"reference", "skill", "agent"}}
Untested == [Safe(1) EXCEPT !.defects = {"tests"}]

TheSystems == <<Jira, Hub>>
MixedAuth == Jira :> "basic" @@ Hub :> "attested"
NativeSource == Jira :> "native" @@ Hub :> "environment"
TheRoots == <<"audit.parent", "artifact.root">>
SameRoots == "audit.parent" :> Here @@ "artifact.root" :> Alone
OtherRoots == "audit.parent" :> Here @@ "artifact.root" :> There1
TwoRoots == {SameRoots, OtherRoots}

(* One or two reads of one or two providers under policies of one or two rules. *)
Caps == {"issues.search", "issue.get", "page.get", "issues.probe"}
Def(list, model, probe) == [list |-> list, model |-> model, probe |-> probe, enabled |-> TRUE]
TheCatalog == ("issues.search" :> Def(TRUE, FALSE, FALSE)) @@ ("issue.get" :> Def(FALSE, FALSE, FALSE))
              @@ ("page.get" :> Def(FALSE, TRUE, FALSE)) @@ ("issues.probe" :> Def(FALSE, FALSE, TRUE))

AnyName == [matches |-> Caps \cup {"jira", "confluence"}, exact |-> FALSE, literal |-> 0, wild |-> 1]
Issues == [matches |-> {"issues.search", "issues.probe"}, exact |-> FALSE, literal |-> 7, wild |-> 1]
Only(n, l) == [matches |-> {n}, exact |-> TRUE, literal |-> l, wild |-> 0]

Rule(name, caps, cls, routes, handling, recorded, redacted, allowed, items) ==
    [name |-> name, providers |-> <<AnyName>>, capabilities |-> caps, cls |-> cls, routes |-> routes,
     handling |-> handling, audit |-> recorded, dlp |-> FALSE, redacted |-> redacted,
     allowed |-> allowed, maxItems |-> items, maxBytes |-> 4, destinations |-> {"here"},
     tenancies |-> {Wild}]
Both == {"ephemeral", "audited"}
RuleSets ==
    {{Rule("open", <<AnyName>>, {"internal"}, Both, "allow", FALSE, {}, {Wild}, 2)},
     {Rule("open", <<AnyName>>, {"internal"}, Both, "allow", FALSE, {"author"}, {Wild}, 2),
      Rule("no-search", <<Issues>>, {"internal"}, Both, "deny", FALSE, {}, {Wild}, 2)},
     {Rule("fields", <<AnyName>>, {"internal", "confidential"}, {"audited"}, "redact", TRUE, {"email"},
           {"status", "author"}, 1),
      Rule("open", <<AnyName>>, {"internal"}, {"ephemeral"}, "allow", FALSE, {}, {Wild}, 2)},
     {Rule("open", <<AnyName>>, {"internal", "confidential"}, Both, "allow", FALSE, {}, {Wild}, 2)},
     {Rule("twice", <<Only("issue.get", 9)>>, {"internal"}, Both, "allow", FALSE, {}, {Wild}, 2),
      Rule("again", <<Only("issue.get", 9)>>, {"internal"}, Both, "allow", FALSE, {}, {"status"}, 1)},
     {[Rule("open", <<AnyName>>, {"internal"}, Both, "allow", FALSE, {}, {Wild}, 2) EXCEPT !.dlp = TRUE]}}
ThePolicies ==
    {[destination |-> "here", tenancy |-> "t", source |-> sd[1], default |-> sd[2], rules |-> rs] :
        sd \in {<<"nonproduction", "none">>, <<"production", "internal">>}, rs \in RuleSets}

GovRule(tier, cls) == [pattern |-> AnyName, enabled |-> TRUE, environments |-> {"development", "production"},
                       cls |-> cls, tier |-> tier]
Permissive == <<GovRule("automatic", {"internal", "confidential"})>>
NoSearches == <<GovRule("automatic", {"internal"}),
                [GovRule("prohibited", {"internal"}) EXCEPT !.pattern = Issues]>>
Gov(optIn, environment, rules) ==
    [optIn |-> optIn, auditSink |-> TRUE, environment |-> environment, external |-> {}, rules |-> rules]
TheGovernance == {Gov(TRUE, "development", Permissive), Gov(FALSE, "development", Permissive),
                  Gov(TRUE, "development", NoSearches), Gov(TRUE, "production", NoSearches)}

Asked(name, cls, fields, limit) ==
    [provider |-> "jira", cap |-> name, cls |-> cls, chosen |-> cls, fields |-> fields, limit |-> limit,
     authority |-> "direct_user", approval |-> FALSE]
Reads == {Asked("issue.get", "internal", {}, 0), Asked("issue.get", "confidential", {"status", "author"}, 0),
          Asked("issues.search", "internal", {"status"}, 1), Asked("issues.search", "internal", {}, 0),
          Asked("issue.get", "confidential", {}, 0), Asked("issue.get", "internal", {"raw"}, 0),
          Asked("page.get", "internal", {}, 0)}
Probes == {Asked("issues.probe", c, {}, 0) : c \in {"none", "internal", "confidential"}}
Second == {a \in Reads : a.cap # "page.get" /\ "raw" \notin a.fields}
ThePlans == {<<a>> : a \in Reads \cup Probes}
            \cup {<<Asked("issue.get", "internal", {}, 0), a>> : a \in Second}
            \cup {<<Asked("issue.get", "internal", {}, 0),
                    [Asked("issue.get", "internal", {}, 0) EXCEPT !.provider = "confluence"]>>}

Fields1 == {<<"status">>, <<"author", "email">>, <<"author", "raw">>, <<"token">>}
Fields2 == {<<"status_category">>, <<"html_url">>, <<"raw">>, <<"author", "name">>}
Body(schema, extra, items, cites) ==
    [schema |-> schema, extra |-> extra, items |-> items, citations |-> cites, metadata |-> TRUE]
TheContents == {Body("bound", FALSE, <<Fields1>>, 0), Body("bound", FALSE, <<Fields2>>, 1),
                Body("bound", FALSE, <<Fields1, Fields2>>, 0), Body("other", FALSE, <<Fields1>>, 0),
                Body("bound", TRUE, <<Fields1>>, 0),
                [Body("bound", FALSE, <<Fields2>>, 1) EXCEPT !.metadata = FALSE]}
TheAliases == "status" :> {"status_category"}

------------------------------------------------------------------------------
\* Every behaviour is one of one part; the variables of the others are Off, or as
\* they are at first.
VARIABLES
    part,
    capsuleSource, capsuleCatalog, worker, capsuleDir, bundle, chain, torn,
    capsuleProc, crashes,
    checkpoint, events, exported, healthy, started, runProc,
    auditRows, head, count, truth, auditVersion, damage,
    pluginDisk, pluginLock, hasher, loader, snapshots, modules, registry, served,
    pluginSpent

capsuleVars == <<capsuleSource, capsuleCatalog, worker, capsuleDir, bundle, chain,
    torn, capsuleProc, crashes>>
runVars == <<checkpoint, events, exported, healthy, started, runProc>>
auditVars == <<auditRows, head, count, truth, auditVersion, damage>>
pluginVars == <<pluginDisk, pluginLock, hasher, loader, snapshots, modules,
    registry, served, pluginSpent>>
suiteVars == <<part, contextVars, readVars, capsuleVars, runVars,
    auditVars, pluginVars>>

Off == "off"
\* The read session of the other parts: one read, never begun.
OneSession ==
    /\ kind = "direct" /\ policy = CHOOSE p \in Policies : TRUE
    /\ gov = CHOOSE g \in Governance : TRUE
    /\ plan = <<Asked("issue.get", "internal", {}, 0)>>
    /\ content = [c \in {"issue.get"} |-> CHOOSE b \in Contents : TRUE]
\* The groups of variables a part uses are in play, the others left alone.
OnlyUses(used) ==
    /\ "capsule" \notin used =>
           /\ capsuleSource = Off /\ capsuleCatalog = Off /\ worker = Off
           /\ capsuleDir = Off /\ bundle = Off /\ chain = Off /\ torn = Off
           /\ capsuleProc = Off /\ crashes = Off
    /\ "run" \notin used =>
           /\ checkpoint = Off /\ events = Off /\ exported = Off /\ healthy = Off
           /\ started = Off /\ runProc = Off
    /\ "audit" \notin used =>
           /\ auditRows = Off /\ head = Off /\ count = Off /\ truth = Off
           /\ auditVersion = Off /\ damage = Off
    /\ "plugin" \notin used =>
           /\ pluginDisk = Off /\ pluginLock = Off /\ hasher = Off /\ loader = Off
           /\ snapshots = Off /\ modules = Off /\ registry = Off /\ served = Off
           /\ pluginSpent = Off
    /\ "context" \notin used => ContextInit
    /\ "egress" \notin used => OneSession /\ ReadInit
Untouched(used) ==
    /\ UNCHANGED part
    /\ "capsule" \notin used => UNCHANGED capsuleVars
    /\ "run" \notin used => UNCHANGED runVars
    /\ "audit" \notin used => UNCHANGED auditVars
    /\ "plugin" \notin used => UNCHANGED pluginVars
    /\ "context" \notin used => UNCHANGED contextVars
    /\ "egress" \notin used => UNCHANGED readVars

------------------------------------------------------------------------------
\* Two promoters, a retirer and a runner of one imported ability, tested or
\* not; each may be killed.
Promotion == INSTANCE CapsuleLifecycle WITH
    Importers <- {"i1"}, Promoters <- {x1, x2}, Retirers <- {"r1"},
    Runners <- {"u1"}, Abilities <- {Safe(1), Untested},
    MaxWorker <- 2, MaxCrashes <- 1, source <- capsuleSource,
    catalog <- capsuleCatalog, dir <- capsuleDir, proc <- capsuleProc

\* Two importers of every kind of ability against one promoter.
Importing == INSTANCE CapsuleLifecycle WITH
    Importers <- {x1, x2}, Promoters <- {"p1"}, Retirers <- {}, Runners <- {},
    Abilities <- EveryAbility, MaxWorker <- 1,
    MaxCrashes <- 1, source <- capsuleSource, catalog <- capsuleCatalog,
    dir <- capsuleDir, proc <- capsuleProc

\* Two processes that start, apply or preview, and resume one capsule run with
\* an external audit sink.
Running == INSTANCE CapsuleRun WITH
    Procs <- {x1, x2}, NeedsConnection <- TRUE, WantsApproval <- TRUE,
    RequireExternal <- TRUE, HasSink <- TRUE, DryRuns <- {TRUE, FALSE},
    MaxSteps <- 5, proc <- runProc

\* A chain of up to four events of which three are damaged.
Audit == INSTANCE AuditChain WITH
    Events <- {e1, e2, e3}, MaxEvents <- 4, MaxDamage <- 3, rows <- auditRows,
    version <- auditVersion

\* Two versions of a plugin of two files installed over one another while it
\* is loaded.
Plugins == INSTANCE PluginLoader WITH
    Files <- <<"plug", "plug_helper">>, Entry <- "plug", Versions <- {v1, v2},
    Connectors <- 2, MaxInstalls <- 2, MaxFaults <- 1, MaxLoads <- 2,
    disk <- pluginDisk, lock <- pluginLock, spent <- pluginSpent

------------------------------------------------------------------------------
\* The constants of every part are as its module says.
ASSUME AuthorityAssumption ==
    /\ Promotion!CapsuleAssumption
    /\ Importing!CapsuleAssumption
    /\ Running!RunAssumption
    /\ Audit!AuditAssumption
    /\ Plugins!PluginAssumption
    /\ ContextAssumption
    /\ ReadAssumption

SuiteInit ==
    \/ part = "promote" /\ Promotion!CapsuleInit /\ OnlyUses({"capsule"})
    \/ part = "import" /\ Importing!CapsuleInit /\ OnlyUses({"capsule"})
    \/ part = "run" /\ Running!RunInit /\ OnlyUses({"run"})
    \/ part = "audit" /\ Audit!AuditInit /\ OnlyUses({"audit"})
    \/ part = "plugin" /\ Plugins!PluginInit /\ OnlyUses({"plugin"})
    \/ part = "context" /\ ContextInit /\ OnlyUses({"context"})
    \/ part = "egress" /\ ReadInit /\ OnlyUses({"egress"})

\* The export changes until it is installed; afterwards nobody but a second
\* import reads it.
PromotionStep ==
    /\ part = "promote" /\ Promotion!Next /\ Untouched({"capsule"})
    /\ capsuleDir = "absent" \/ capsuleSource' = capsuleSource
ImportingStep == part = "import" /\ Importing!Next /\ Untouched({"capsule"})
RunningStep == part = "run" /\ Running!RunNext /\ Untouched({"run"})
AuditStep == part = "audit" /\ Audit!AuditNext /\ Untouched({"audit"})
PluginsStep == part = "plugin" /\ Plugins!PluginNext /\ Untouched({"plugin"})
\* Two runs of the approved plan with one drift, or one run with two.
ContextualStep ==
    /\ part = "context" /\ ContextNext /\ Untouched({"context"})
    /\ runs' + drifts' <= 3
EgressStep == part = "egress" /\ ReadNext /\ Untouched({"egress"})

SuiteNext == PromotionStep \/ ImportingStep \/ RunningStep \/ AuditStep
    \/ PluginsStep \/ ContextualStep \/ EgressStep

SuiteSpec == SuiteInit /\ [][SuiteNext]_suiteVars

\* x1 and x2 are the two promoters, importers or processes of a part.
Interchangeable == Permutations({x1, x2})

------------------------------------------------------------------------------
\* Code that serves has earned it. An enabled capsule went through every rung
\* of the ladder once, in order, with evidence of the one worker its
\* quarantine names; what is installed is what its importer previewed; a
\* verified result comes from the worker that validated the capsule; and no
\* activation starts from a chain that has ended, although importers,
\* promoters, retirers and runners overlap and die (capsules.py,
\* capability_import.py, capsule_runtime.py). The entry module of a
\* registered connector, and every module it imports that was not cached from
\* elsewhere before, has the content of the lock its load was given, and one
\* process never serves two versions, although the distribution is upgraded
\* during a load (plugins.py).
InstalledCodeIsReviewed ==
    /\ [](/\ part = "promote" => Promotion!CapsuleTypeOK /\ Promotion!EnabledIsEarned
                              /\ Promotion!InstalledWasPreviewed
                              /\ Promotion!ResultsCarryTheirEvidence
          /\ part = "import" => Importing!CapsuleTypeOK /\ Importing!EnabledIsEarned
                             /\ Importing!InstalledWasPreviewed
          /\ part = "plugin" => Plugins!PluginTypeOK /\ Plugins!RegisteredIsLocked
                             /\ Plugins!OneVersionServes)
    /\ [][part = "promote" => Promotion!RetiredNeverActivatesStep]_capsuleVars

\* The audit database tells the truth. A chain that verifies is the chain that
\* was recorded, although rows and checkpoint are damaged under the file, and
\* an append never makes a damaged chain verify (record, verify_chain). A
\* terminal run has a receipt that was anchored before, and accepted by the
\* sink; it was verified first, by a call that did start the orchestrator; and
\* it never changes again, although two processes start, preview, apply and
\* resume it (checkpoint_run, capsule_operations.py).
RecordsAreHonest ==
    /\ [](/\ part = "audit" => Audit!AuditTypeOK /\ Audit!VerifiedMeansFaithful
          /\ part = "run" => Running!RunTypeOK /\ Running!TerminalIsEvidenced)
    /\ [][part = "audit" => Audit!RecordNeverLaundersStep]_auditVars
    /\ [][part = "run" => Running!TerminalIsFinalStep
                       /\ Running!TerminalWasVerifiedStep]_runVars

\* "A terminal coordinator run cannot be replayed" (docs/capability-
\* capsules.md:332): no orchestrator run starts once the checkpoint is
\* terminal.
TerminalNotReplayed == [][part = "run" => Running!TerminalNotReplayedStep]_runVars
==============================================================================
