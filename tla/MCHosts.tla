---- MODULE MCHosts ----------------------------------------------------------
(* What runs on the user's host, part by part: commands under a profile,    *)
(* logins and credentials, supervised processes, advisory delegations, the  *)
(* Git workspace and the simple runtime's tasks.                            *)
EXTENDS AdvisoryDelegation, SupervisedProcess, TLC

CONSTANTS x1, x2, l1, b1, h1, h2, Nobody, NoToken, NoRef

------------------------------------------------------------------------------
(* Operating: capabilities, and the contents of the files runs read. *)
TheCapabilities == [read |-> [risk |-> "read", enabled |-> TRUE, authn |-> "configured"],
                   list |-> [risk |-> "read", enabled |-> TRUE, authn |-> "anonymous"],
                   draft |-> [risk |-> "draft", enabled |-> TRUE, authn |-> "local"],
                   write |-> [risk |-> "write", enabled |-> TRUE, authn |-> "configured"],
                   send |-> [risk |-> "message", enabled |-> TRUE, authn |-> "configured"],
                   admin |-> [risk |-> "admin", enabled |-> TRUE, authn |-> "configured"]]
Caps == DOMAIN TheCapabilities

Policy(auto, require, prohibit) == [valid |-> TRUE, auto |-> auto, require |-> require, prohibit |-> prohibit]
Gov(direct, model, tiers) == [valid |-> TRUE, direct |-> direct, model |-> model,
                              tier |-> [c \in Caps |-> IF c \in DOMAIN tiers THEN tiers[c]
                                                       ELSE IF TheCapabilities[c].risk \in {"read", "draft"} THEN "automatic"
                                                       ELSE "single"]]
Integ(enabled, feature, endpoint, secret) ==
    [valid |-> TRUE, enabled |-> enabled, feature |-> feature, endpoint |-> endpoint, secret |-> secret]
Profile(mode, connectors, writes, messages, caps, authorities) ==
    [mode |-> mode, connectors |-> connectors, writes |-> writes, messages |-> messages,
     caps |-> caps, authorities |-> authorities]
Valid == [valid |-> TRUE]
Broken == [valid |-> FALSE]

\* Runs: files edited at most once each.
RunContents ==
    [capabilities |-> <<TheCapabilities, [TheCapabilities EXCEPT !["draft"].enabled = FALSE]>>,
     policy |-> <<Policy({"read", "draft"}, {"write", "message", "admin"}, {}),
                  Policy({"read"}, {"draft", "write", "message", "admin"}, {})>>,
     governance |-> <<Gov(TRUE, TRUE, <<>>), Gov(FALSE, TRUE, <<>>)>>,
     sources |-> <<Valid, Broken>>,
     evidence |-> <<Valid>>,
     integrations |-> <<Integ(TRUE, TRUE, "set", "present"), Integ(TRUE, TRUE, "set", "token_file")>>]
RunStarts == {[f \in DOMAIN RunContents |-> 1]}
RunProfiles == {Profile("employee", "live", FALSE, FALSE, {"read", "draft"}, "none"),
                Profile("developer", "live", TRUE, FALSE, Caps, "valid")}
RunPackaged == Profile("employee", "live", FALSE, FALSE, {"read", "draft"}, "none")
DraftPlan == {{[cap |-> "draft", risk |-> "draft"]}}
AllPlans == {{[cap |-> c, risk |-> r]} : c \in {"read", "send"}, r \in {"read", "message"}}
              \cup {{[cap |-> "draft", risk |-> "draft"]}, {[cap |-> "admin", risk |-> "admin"]},
                    {[cap |-> "draft", risk |-> "draft"], [cap |-> "write", risk |-> "write"]}}
\* The doctor: every combination of contents.
DoctorContents ==
    [capabilities |-> <<TheCapabilities, [TheCapabilities EXCEPT !["read"].enabled = FALSE]>>,
     policy |-> <<Policy({"read", "draft"}, {"write", "message", "admin"}, {}),
                  Policy({"draft"}, {"write", "message"}, {"admin"}), Policy({}, {"read", "write"}, {"message"}), Broken>>,
     governance |-> <<Gov(TRUE, TRUE, <<>>), Gov(FALSE, TRUE, [list |-> "single", send |-> "automatic"]),
                      Gov(TRUE, FALSE, [read |-> "dual", draft |-> "prohibited"]), Broken>>,
     sources |-> <<Valid, Broken>>, evidence |-> <<Valid, Broken>>,
     integrations |-> <<Integ(TRUE, TRUE, "set", "present"), Integ(TRUE, FALSE, "set", "token_file"),
                        Integ(TRUE, TRUE, "set", "missing"), Integ(TRUE, TRUE, "placeholder", "present"),
                        Integ(FALSE, TRUE, "set", "present"), Broken>>]
DoctorStarts == {s \in [DOMAIN DoctorContents -> 1 .. 6] : \A f \in DOMAIN DoctorContents : s[f] <= Len(DoctorContents[f])}
DoctorProfiles ==
    {Profile("employee", "live", FALSE, TRUE, Caps, "valid"), Profile("employee", "mock", TRUE, TRUE, Caps, "none"),
     Profile("developer", "live", TRUE, FALSE, Caps, "none"), Profile("developer", "live", TRUE, TRUE, Caps, "valid"),
     Profile("developer", "mock", TRUE, TRUE, Caps, "broken")}
DoctorPackaged == Profile("employee", "live", FALSE, TRUE, Caps, "valid")

------------------------------------------------------------------------------
(* A budget of one for each role and a snapshot of every item.  A child and  *)
(* its descendant write to full pipes, with one failing call.                *)
OneEach == [o \in Roles |-> 1]
EveryItem == <<"head", "in", "out">>

------------------------------------------------------------------------------
\* Every behaviour is one of one part; the variables of the others are Off, or as
\* they are at first.
VARIABLES
    part,
    profileFile, opFiles, stateReady, opProc, runDir, opEffects, opSeen, opReport,
    opTouched, opEdits,
    oauthClock, oauthNamed, oauthFile, oauthLogin, oauthCache, oauthLock,
    oauthThread,
    custodyEntry, custodyLock, custodyUpd, custodyClock, custodyLease,
    custodyIssued, custodyUses, lastHeld,
    gitRefs, gitHead, gitIndex, gitWork, gitConfig, gitLocks, gitRemote, gitAgent,
    gitHuman, gitNamed,
    simpleTask, simpleSteps, simpleWorker, simpleTarget, simplePub, simpleEvidence,
    simpleTree, simpleEffects, simpleStray, simplePassed, simpleCount

operatingVars == <<profileFile, opFiles, stateReady, opProc, runDir, opEffects,
    opSeen, opReport, opTouched, opEdits>>
oauthVars == <<oauthClock, oauthNamed, oauthFile, oauthLogin, oauthCache, oauthLock,
    oauthThread>>
custodyVars == <<custodyEntry, custodyLock, custodyUpd, custodyClock, custodyLease,
    custodyIssued, custodyUses, lastHeld>>
gitVars == <<gitRefs, gitHead, gitIndex, gitWork, gitConfig, gitLocks, gitRemote,
    gitAgent, gitHuman, gitNamed>>
simpleVars == <<simpleTask, simpleSteps, simpleWorker, simpleTarget, simplePub,
    simpleEvidence, simpleTree, simpleEffects, simpleStray, simplePassed,
    simpleCount>>
suiteVars == <<part, supervisionVars, delegationVars, operatingVars, oauthVars, custodyVars,
    gitVars, simpleVars>>

Off == "off"
\* The groups of variables a part uses are in play, the others left alone.
OnlyUses(used) ==
    /\ "operating" \notin used =>
           /\ profileFile = Off /\ opFiles = Off /\ stateReady = Off /\ opProc = Off
           /\ runDir = Off /\ opEffects = Off /\ opSeen = Off /\ opReport = Off
           /\ opTouched = Off /\ opEdits = Off
    /\ "oauth" \notin used =>
           /\ oauthClock = Off /\ oauthNamed = Off /\ oauthFile = Off
           /\ oauthLogin = Off /\ oauthCache = Off /\ oauthLock = Off
           /\ oauthThread = Off
    /\ "custody" \notin used =>
           /\ custodyEntry = Off /\ custodyLock = Off /\ custodyUpd = Off
           /\ custodyClock = Off /\ custodyLease = Off /\ custodyIssued = Off
           /\ custodyUses = Off /\ lastHeld = Off
    /\ "process" \notin used => SupervisionInit
    /\ "advisory" \notin used => DelegationInit /\ \A r \in Runs : run[r].role = "research"
    /\ "git" \notin used =>
           /\ gitRefs = Off /\ gitHead = Off /\ gitIndex = Off /\ gitWork = Off
           /\ gitConfig = Off /\ gitLocks = Off /\ gitRemote = Off /\ gitAgent = Off
           /\ gitHuman = Off /\ gitNamed = Off
    /\ "simple" \notin used =>
           /\ simpleTask = Off /\ simpleSteps = Off /\ simpleWorker = Off
           /\ simpleTarget = Off /\ simplePub = Off /\ simpleEvidence = Off
           /\ simpleTree = Off /\ simpleEffects = Off /\ simpleStray = Off
           /\ simplePassed = Off /\ simpleCount = Off
Untouched(used) ==
    /\ UNCHANGED part
    /\ "operating" \notin used => UNCHANGED operatingVars
    /\ "oauth" \notin used => UNCHANGED oauthVars
    /\ "custody" \notin used => UNCHANGED custodyVars
    /\ "process" \notin used => UNCHANGED supervisionVars
    /\ "advisory" \notin used => UNCHANGED delegationVars
    /\ "git" \notin used => UNCHANGED gitVars
    /\ "simple" \notin used => UNCHANGED simpleVars

------------------------------------------------------------------------------
\* Runs while their files are edited twice.
Running == INSTANCE Operating WITH
    Procs <- {"a"}, Commands <- {"execute"}, Plans <- AllPlans,
    Profiles <- RunProfiles, Packaged <- RunPackaged, Contents <- RunContents,
    Starts <- RunStarts, Installed <- Caps, RunIds <- {"r1"}, MaxTries <- 2,
    MaxEdits <- 2, files <- opFiles, proc <- opProc,
    effects <- opEffects, seen <- opSeen, report <- opReport, touched <- opTouched,
    edits <- opEdits

\* Two processes that set up a profile or run, with one edit.
SettingUp == INSTANCE Operating WITH
    Procs <- {"a", "b"}, Commands <- {"execute", "setup"}, Plans <- DraftPlan,
    Profiles <- RunProfiles, Packaged <- RunPackaged, Contents <- RunContents,
    Starts <- RunStarts, Installed <- Caps, RunIds <- {"r1", "r2"}, MaxTries <- 2,
    MaxEdits <- 1, files <- opFiles, proc <- opProc,
    effects <- opEffects, seen <- opSeen, report <- opReport, touched <- opTouched,
    edits <- opEdits

\* The doctor over every combination of contents.
Doctor == INSTANCE Operating WITH
    Procs <- {"a"}, Commands <- {"doctor", "setup"}, Plans <- AllPlans,
    Profiles <- DoctorProfiles, Packaged <- DoctorPackaged,
    Contents <- DoctorContents, Starts <- DoctorStarts, Installed <- Caps,
    RunIds <- {"r1"}, MaxTries <- 2, MaxEdits <- 0,
    files <- opFiles, proc <- opProc, effects <- opEffects, seen <- opSeen,
    report <- opReport, touched <- opTouched, edits <- opEdits

\* Two threads that use a token while one login replaces it.
Refreshing == INSTANCE OAuthTokens WITH
    Logins <- {l1}, Threads <- {x1, x2}, Skew <- 1, Lifetime <- 2,
    ChallengeLife <- 2, LastStart <- 1, MaxClock <- 3, clock <- oauthClock,
    named <- oauthNamed, file <- oauthFile, login <- oauthLogin,
    cache <- oauthCache, lock <- oauthLock, thread <- oauthThread

\* Two logins to one token file.
LoggingIn == INSTANCE OAuthTokens WITH
    Logins <- {x1, x2}, Threads <- {}, Skew <- 1, Lifetime <- 2, ChallengeLife <- 2,
    LastStart <- 0, MaxClock <- 2, clock <- oauthClock, named <- oauthNamed,
    file <- oauthFile, login <- oauthLogin, cache <- oauthCache, lock <- oauthLock,
    thread <- oauthThread

\* Two updates of a Credential Manager entry of two values.
Manager == INSTANCE CredentialCustody WITH
    Provider <- "manager", Names <- <<"user", "secret">>, Updaters <- {x1, x2},
    Handles <- {}, Bindings <- {b1}, Ttl <- 2, MaxActive <- 1, MaxClock <- 0,
    None <- Nobody, entry <- custodyEntry, lock <- custodyLock, upd <- custodyUpd,
    clock <- custodyClock, lease <- custodyLease, issued <- custodyIssued,
    uses <- custodyUses

\* The same of a DPAPI file, with one lease.
Dpapi == INSTANCE CredentialCustody WITH
    Provider <- "dpapi", Names <- <<"user", "secret">>, Updaters <- {x1, x2},
    Handles <- {h1}, Bindings <- {b1}, Ttl <- 2, MaxActive <- 1, MaxClock <- 1,
    None <- Nobody, entry <- custodyEntry, lock <- custodyLock, upd <- custodyUpd,
    clock <- custodyClock, lease <- custodyLease, issued <- custodyIssued,
    uses <- custodyUses

\* Two leases while the entry is rotated.
Broker == INSTANCE CredentialCustody WITH
    Provider <- "manager", Names <- <<"user", "secret">>, Updaters <- {x1},
    Handles <- {h1, h2}, Bindings <- {b1}, Ttl <- 2, MaxActive <- 1, MaxClock <- 3,
    None <- Nobody, entry <- custodyEntry, lock <- custodyLock, upd <- custodyUpd,
    clock <- custodyClock, lease <- custodyLease, issued <- custodyIssued,
    uses <- custodyUses

\* Every operation against four actions of a person.
Git == INSTANCE GitWorkspace WITH
    Ops <- {"branch", "patch", "commit", "push"}, MaxHuman <- 4,
    refs <- gitRefs, head <- gitHead, index <- gitIndex,
    work <- gitWork, config <- gitConfig, locks <- gitLocks, remote <- gitRemote,
    agent <- gitAgent, human <- gitHuman, named <- gitNamed

\* Two workers on one task of the simple runtime with one fault: four commands,
\* or three and an act of a person (TasksStep).
Tasks == INSTANCE SimpleTasks WITH
    Workers <- {x1, x2}, Targets <- {1, 2}, Params <- {1}, MaxRuns <- 4,
    MaxCommits <- 1, MaxPerson <- 1, MaxFaults <- 1,
    Careful <- FALSE, task <- simpleTask, steps <- simpleSteps,
    worker <- simpleWorker, target <- simpleTarget, pub <- simplePub,
    evidence <- simpleEvidence, tree <- simpleTree, effects <- simpleEffects,
    stray <- simpleStray, passed <- simplePassed, count <- simpleCount

\* One worker with two parameter choices and two faults, while the host commits.
Restarted == INSTANCE SimpleTasks WITH
    Workers <- {x1}, Targets <- {1}, Params <- {1, 2}, MaxRuns <- 4,
    MaxCommits <- 2, MaxPerson <- 0, MaxFaults <- 2,
    Careful <- FALSE, task <- simpleTask, steps <- simpleSteps,
    worker <- simpleWorker, target <- simpleTarget, pub <- simplePub,
    evidence <- simpleEvidence, tree <- simpleTree, effects <- simpleEffects,
    stray <- simpleStray, passed <- simplePassed, count <- simpleCount

\* Two publishers with parameters of their own, while the host commits.
Crossing == INSTANCE SimpleTasks WITH
    Workers <- {x1, x2}, Targets <- {1}, Params <- {1, 2}, MaxRuns <- 4,
    MaxCommits <- 2, MaxPerson <- 0, MaxFaults <- 0,
    Careful <- FALSE, task <- simpleTask, steps <- simpleSteps,
    worker <- simpleWorker, target <- simpleTarget, pub <- simplePub,
    evidence <- simpleEvidence, tree <- simpleTree, effects <- simpleEffects,
    stray <- simpleStray, passed <- simplePassed, count <- simpleCount

------------------------------------------------------------------------------
\* The constants of every part are as its module says.
ASSUME HostsAssumption ==
    /\ Refreshing!OAuthAssumption
    /\ LoggingIn!OAuthAssumption
    /\ Manager!CustodyAssumption
    /\ Dpapi!CustodyAssumption
    /\ Broker!CustodyAssumption
    /\ SupervisionAssumption
    /\ DelegationAssumption
    /\ Git!GitAssumption
    /\ Tasks!SimpleAssumption
    /\ Restarted!SimpleAssumption
    /\ Crossing!SimpleAssumption

SuiteInit ==
    \/ part = "run" /\ Running!OperatingInit /\ OnlyUses({"operating"})
    \/ part = "setup" /\ SettingUp!OperatingInit /\ OnlyUses({"operating"})
    \/ part = "doctor" /\ Doctor!OperatingInit /\ OnlyUses({"operating"})
    \/ part = "refresh" /\ Refreshing!OAuthInit /\ OnlyUses({"oauth"})
    \/ part = "logins" /\ LoggingIn!OAuthInit /\ OnlyUses({"oauth"})
    \/ part = "manager" /\ Manager!CustodyInit /\ OnlyUses({"custody"})
    \/ part = "dpapi" /\ Dpapi!CustodyInit /\ OnlyUses({"custody"})
    \/ part = "broker" /\ Broker!CustodyInit /\ OnlyUses({"custody"})
    \/ part = "process" /\ SupervisionInit /\ OnlyUses({"process"})
    \/ part = "evidence" /\ DelegationInit /\ OnlyUses({"advisory"})
    \/ part = "budget" /\ DelegationInit /\ OnlyUses({"advisory"})
    \/ part = "git" /\ Git!GitInit /\ OnlyUses({"git"})
    \/ part = "tasks" /\ Tasks!SimpleInit /\ OnlyUses({"simple"})
    \/ part = "restart" /\ Restarted!SimpleInit /\ OnlyUses({"simple"})
    \/ part = "crossing" /\ Crossing!SimpleInit /\ OnlyUses({"simple"})

RunningStep == part = "run" /\ Running!OperatingNext /\ Untouched({"operating"})
SettingUpStep == part = "setup" /\ SettingUp!OperatingNext /\ Untouched({"operating"})
DoctorStep == part = "doctor" /\ Doctor!OperatingNext /\ Untouched({"operating"})
RefreshingStep == part = "refresh" /\ Refreshing!Next /\ Untouched({"oauth"})
LoggingInStep == part = "logins" /\ LoggingIn!Next /\ Untouched({"oauth"})
ManagerStep == part = "manager" /\ Manager!Next /\ Untouched({"custody"})
DpapiStep == part = "dpapi" /\ Dpapi!Next /\ Untouched({"custody"})
BrokerStep == part = "broker" /\ Broker!Next /\ Untouched({"custody"})
SupervisedStep == part = "process" /\ SupervisionNext /\ Untouched({"process"})
\* One delegation while the repository is edited three times.
EvidenceStep ==
    /\ part = "evidence" /\ DelegationNext /\ Untouched({"advisory"})
    /\ losses' = 0 /\ \E r \in Runs : run'[r].pc = "start"
\* Two delegations for a budget of one, while the key is lost once.
BudgetedStep ==
    /\ part = "budget" /\ DelegationNext /\ Untouched({"advisory"})
    /\ edits' = 0
GitStep == part = "git" /\ Git!Next /\ Untouched({"git"})
TasksStep ==
    /\ part = "tasks" /\ Tasks!Next /\ Untouched({"simple"})
    /\ simpleCount'.runs <= 3 \/ simpleCount'.person = 0
RestartedStep == part = "restart" /\ Restarted!Next /\ Untouched({"simple"})
\* A third command, and commits, only once the checks have passed.
CrossingStep ==
    /\ part = "crossing" /\ Crossing!Next /\ Untouched({"simple"})
    /\ simplePassed' = {} => simpleCount'.runs <= 2 /\ ~simpleTree'.dirty

SuiteNext == RunningStep \/ SettingUpStep \/ DoctorStep \/ RefreshingStep
    \/ LoggingInStep \/ ManagerStep \/ DpapiStep \/ BrokerStep \/ SupervisedStep
    \/ EvidenceStep \/ BudgetedStep \/ GitStep \/ TasksStep \/ RestartedStep
    \/ CrossingStep

SuiteSpec == SuiteInit /\ [][SuiteNext]_suiteVars

\* x1 and x2 are the two threads, logins, updates, delegations or workers of a part.
Interchangeable == Permutations({x1, x2})

------------------------------------------------------------------------------
\* An applied run acts under a profile and files that were all on disk at one
\* moment; whatever is done is on the profile's list and behind its gates;
\* every capability the doctor reports ready is one that execute admits; two
\* executions never share a run directory; no setup, wherever it fails or is
\* killed, takes away a profile its writer has reported ready, though a setup
\* that only found the bytes loses them when their writer fails after the last
\* one; nor does a setup touch a file it did not create, unless a person edits
\* between the look and the unlink of its rollback: while files are edited
\* between any two reads (operating.py, cli.py).
ProfilesGovernRuns ==
    /\ [](/\ part = "run" => Running!OperatingTypeOK /\ Running!OneConfiguration
                          /\ Running!EffectIsAdmitted
          /\ part = "setup" => SettingUp!OneRunOneRoot /\ SettingUp!ReadyStays
          /\ part = "doctor" => Doctor!ReadyIsAdmitted)
    /\ [][part = "setup" => SettingUp!OnlyOwnProfileTouchedStep]_operatingVars

\* A login that was not killed, and whose unlink was not refused, leaves no
\* token in a directory moved away meanwhile, one that reports success is what the token path holds, and the
\* provider is asked only for a token that is inside its refresh skew
\* (oauth.py). A failed update of several entries restores them, a removed
\* secret does not come back with an update that read it before, a handle
\* gives out its secret at most once and for its binding, and a rotated secret
\* is used less than a handle's lifetime afterwards (windows/credentials.py,
\* credential_broker.py).
SecretsAreInCustody ==
    /\ [](/\ part = "refresh" => Refreshing!OAuthTypeOK
                              /\ Refreshing!NoTokenLeftBehind
                              /\ Refreshing!SuccessIsPublished
          /\ part = "logins" => LoggingIn!OAuthTypeOK /\ LoggingIn!NoTokenLeftBehind
                             /\ LoggingIn!SuccessIsPublished
          /\ part = "manager" => Manager!FailedUpdateRestores
          /\ part = "dpapi" => Dpapi!CustodyTypeOK
          /\ part = "broker" => Broker!UsesAreExact /\ Broker!RotatedSecretsExpire)
    /\ [][part = "refresh" => Refreshing!OneRefreshAtATimeStep]_oauthVars
    /\ [][part = "dpapi" => Dpapi!RemovedStaysRemovedStep]_custodyVars

\* A commit of the connector holds the approved content and nothing else on
\* the approved parent, and a push sends it; a conflict leaves neither branch
\* nor commit behind, unless the answer of the publishing update-ref was lost; a
\* verified compensation has taken them away; and the connector never writes
\* over a person's edit nor takes a person's commit off a branch, except one
\* made between a compensation's verification and its second look at HEAD: at
\* the same worktree, while commands time out (connectors/git_workspace.py).
WorkspaceIsKept ==
    /\ [](part = "git" => Git!GitTypeOK /\ Git!PublishedIsApproved
                       /\ Git!ConflictLeavesNoTrace /\ Git!RestoredMeansUndone)
    /\ [][part = "git" => Git!HumanWorkIsKeptStep]_gitVars

\* The pull request is opened once and the comment posted once, unless a write
\* was declared absent while its process was still at it; what counts as
\* completed was made; all of it went to the saved target and, once a write
\* was made, with the same parameters, unless two publish commands crossed; and
\* what is pushed is a commit whose checks passed, with nothing on it but what
\* the host committed after they were compared: through kills between record,
\* write and outcome, lost answers, edited configuration and a host that keeps
\* committing (simple/masteragent/state.py, workflows.py).
TasksPostOnce ==
    /\ part = "tasks" => Tasks!SimpleTypeOK /\ Tasks!PostedOnce
                      /\ Tasks!CompletedIsReal /\ Tasks!TargetIsKept
    /\ part \in {"restart", "crossing"} =>
         /\ Restarted!PostedOnce /\ Restarted!CompletedIsReal
         /\ Restarted!PushedWasChecked /\ Restarted!ParametersStay
==============================================================================
