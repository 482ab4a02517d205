---- MODULE MCEndings --------------------------------------------------------
(* More of what is to happen in the end, part by part, under the fairness   *)
(* each part's module states: what an interrupted command left behind is    *)
(* cleared, and operations, commands, logins, supervised processes and      *)
(* tasks come to an end.                                                    *)
EXTENDS Integers, Sequences, FiniteSets, TLC

CONSTANTS p1, p2, w1, o1, j1, r1, l1, l2, A1, A2, B1, B2, Unused, Nobody, NoOut,
          NoToken

------------------------------------------------------------------------------
\* Every behaviour is one of one part; the variables of the others are Off.
VARIABLES
    part,
    lockfile, excl, share, keepProc, keepPub, temp, stage, quar, expired, committed,
    keepFaults,
    pinAt, pinFiles, fds, pin, pinLock, pinUser, closer, foreign, pinLost,
    pinHeld, pinResult, pinSpent,
    journal, memoryProc, memoryOut, told, hist, serial, memoryDamage, memoryFaults,
    boxPages, boxSpaces, boxGuests, boxLate, boxWork, boxDeleted, boxClock,
    boxFaults, boxKills, boxPeople,
    oauthClock, oauthNamed, oauthFile, oauthLogin, oauthCache, oauthLock,
    oauthThread,
    supOs, supJob, supPipe, inpipe, supHandles, supPc, supFlags, supReader,
    supFeeder, supBudget, wrote, supResult, supFaults,
    simpleTask, simpleSteps, simpleWorker, simpleTarget, simplePub, simpleEvidence,
    simpleTree, simpleEffects, simpleStray, simplePassed, simpleCount

retentionVars == <<lockfile, excl, share, keepProc, keepPub, temp, stage, quar,
    expired, committed, keepFaults>>
pinVars == <<pinAt, pinFiles, fds, pin, pinLock, pinUser, closer, foreign, pinLost,
    pinHeld, pinResult, pinSpent>>
memoryVars == <<journal, memoryProc, memoryOut, told, hist, serial, memoryDamage,
    memoryFaults>>
sandboxVars == <<boxPages, boxSpaces, boxGuests, boxLate, boxWork, boxDeleted,
    boxClock, boxFaults, boxKills, boxPeople>>
oauthVars == <<oauthClock, oauthNamed, oauthFile, oauthLogin, oauthCache, oauthLock,
    oauthThread>>
processVars == <<supOs, supJob, supPipe, inpipe, supHandles, supPc, supFlags,
    supReader, supFeeder, supBudget, wrote, supResult, supFaults>>
simpleVars == <<simpleTask, simpleSteps, simpleWorker, simpleTarget, simplePub,
    simpleEvidence, simpleTree, simpleEffects, simpleStray, simplePassed,
    simpleCount>>
suiteVars == <<part, retentionVars, pinVars, memoryVars, sandboxVars, oauthVars,
    processVars, simpleVars>>

Off == "off"
\* The groups of variables a part uses are in play, the others off and left alone.
OnlyUses(used) ==
    /\ "retention" \notin used =>
           /\ lockfile = Off /\ excl = Off /\ share = Off /\ keepProc = Off
           /\ keepPub = Off /\ temp = Off /\ stage = Off /\ quar = Off
           /\ expired = Off /\ committed = Off /\ keepFaults = Off
    /\ "pin" \notin used =>
           /\ pinAt = Off /\ pinFiles = Off /\ fds = Off /\ pin = Off
           /\ pinLock = Off /\ pinUser = Off /\ closer = Off /\ foreign = Off
           /\ pinLost = Off /\ pinHeld = Off /\ pinResult = Off /\ pinSpent = Off
    /\ "memory" \notin used =>
           /\ journal = Off /\ memoryProc = Off /\ memoryOut = Off /\ told = Off
           /\ hist = Off /\ serial = Off /\ memoryDamage = Off /\ memoryFaults = Off
    /\ "sandbox" \notin used =>
           /\ boxPages = Off /\ boxSpaces = Off /\ boxGuests = Off /\ boxLate = Off
           /\ boxWork = Off /\ boxDeleted = Off /\ boxClock = Off /\ boxFaults = Off
           /\ boxKills = Off /\ boxPeople = Off
    /\ "oauth" \notin used =>
           /\ oauthClock = Off /\ oauthNamed = Off /\ oauthFile = Off
           /\ oauthLogin = Off /\ oauthCache = Off /\ oauthLock = Off
           /\ oauthThread = Off
    /\ "process" \notin used =>
           /\ supOs = Off /\ supJob = Off /\ supPipe = Off /\ inpipe = Off
           /\ supHandles = Off /\ supPc = Off /\ supFlags = Off /\ supReader = Off
           /\ supFeeder = Off /\ supBudget = Off /\ wrote = Off /\ supResult = Off
           /\ supFaults = Off
    /\ "simple" \notin used =>
           /\ simpleTask = Off /\ simpleSteps = Off /\ simpleWorker = Off
           /\ simpleTarget = Off /\ simplePub = Off /\ simpleEvidence = Off
           /\ simpleTree = Off /\ simpleEffects = Off /\ simpleStray = Off
           /\ simplePassed = Off /\ simpleCount = Off
Untouched(used) ==
    /\ UNCHANGED part
    /\ "retention" \notin used => UNCHANGED retentionVars
    /\ "pin" \notin used => UNCHANGED pinVars
    /\ "memory" \notin used => UNCHANGED memoryVars
    /\ "sandbox" \notin used => UNCHANGED sandboxVars
    /\ "oauth" \notin used => UNCHANGED oauthVars
    /\ "process" \notin used => UNCHANGED processVars
    /\ "simple" \notin used => UNCHANGED simpleVars

------------------------------------------------------------------------------
\* A process that publishes and prunes evidence of one generation, with three
\* deaths or failing calls.
Recovered == INSTANCE EvidenceRetention WITH
    Procs <- {p1}, Operations <- {"write", "prune"}, MaxGen <- 1, MaxFaults <- 3,
    None <- Nobody, proc <- keepProc, pub <- keepPub, faults <- keepFaults

\* Operations on a pin against a close, a move and a foreign descriptor.
Pins == INSTANCE PinnedDirectory WITH
    TopDirs <- {A1, A2}, LeafDirs <- {B1, B2}, Approved <- <<A1, B1>>,
    Operations <- {"open", "child", "read", "list"}, MaxFd <- 9, MaxMoves <- 1,
    MaxEdits <- 0, MaxForeign <- 1, Nothing <- Nobody, Free <- Unused, at <- pinAt,
    stamps <- pinFiles, locks <- pinLock, user <- pinUser, lost <- pinLost,
    held <- pinHeld, result <- pinResult, spent <- pinSpent

\* Two commands of two processes on one journal, one death.
Memory == INSTANCE WorkMemory WITH
    Procs <- {p1, p2}, Works <- {w1}, Outs <- {o1}, LastStage <- 2, MaxEvents <- 3,
    MaxShown <- 2, Attempts <- 2, MaxCommands <- 2, MaxDamage <- 0, MaxFaults <- 1,
    proc <- memoryProc, out <- memoryOut, damage <- memoryDamage,
    faults <- memoryFaults

\* A page job that is killed, a person who edits or writes a page, and a reaper
\* that examines one page and is dispatched again and again.
Reaped == INSTANCE ConfluenceSandbox WITH
    PageJobs <- {j1}, SpaceJobs <- {}, Reapers <- {r1}, PageIds <- {1, 2}, MinAge <- 2,
    JobLimit <- 1, MaxResources <- 1, SearchAttempts <- 2, LastStart <- 1,
    MaxClock <- 4, IndexLags <- TRUE, LateEffects <- TRUE, MaxFaults <- 1,
    MaxKills <- 2, MaxPeople <- 1, pages <- boxPages, spaces <- boxSpaces,
    guests <- boxGuests, late <- boxLate, work <- boxWork, deleted <- boxDeleted,
    clock <- boxClock, faults <- boxFaults, kills <- boxKills, people <- boxPeople

\* Two logins that poll.
LoggingIn == INSTANCE OAuthTokens WITH
    Logins <- {l1, l2}, Threads <- {}, Skew <- 1, Lifetime <- 2, ChallengeLife <- 2,
    LastStart <- 0, MaxClock <- 3, clock <- oauthClock, named <- oauthNamed,
    file <- oauthFile, login <- oauthLogin, cache <- oauthCache, lock <- oauthLock,
    thread <- oauthThread

\* A child and a descendant that keeps the pipes open, no failing call.
Supervised == INSTANCE SupervisedProcess WITH
    Budget <- 1, PipeCap <- 1, Input <- 1, Descendant <- TRUE, MaxWrites <- 1,
    MaxFaults <- 0, os <- supOs, job <- supJob, pipe <- supPipe,
    handles <- supHandles, pc <- supPc, flags <- supFlags, reader <- supReader,
    feeder <- supFeeder, budget <- supBudget, result <- supResult,
    faults <- supFaults

\* One task, one fault and a careful person.
Task == INSTANCE SimpleTasks WITH
    Workers <- {w1}, Targets <- {1}, Params <- {1}, MaxRuns <- 12, MaxCommits <- 2,
    MaxPerson <- 1, MaxFaults <- 1, Careful <- TRUE,
    task <- simpleTask, steps <- simpleSteps, worker <- simpleWorker,
    target <- simpleTarget, pub <- simplePub, evidence <- simpleEvidence,
    tree <- simpleTree, effects <- simpleEffects, stray <- simpleStray,
    passed <- simplePassed, count <- simpleCount

------------------------------------------------------------------------------
\* The constants of every part are as its module says.
ASSUME EndingsAssumption ==
    /\ Recovered!RetentionAssumption
    /\ Pins!PinAssumption
    /\ Memory!MemoryAssumption
    /\ Reaped!SandboxAssumption
    /\ LoggingIn!OAuthAssumption
    /\ Supervised!SupervisionAssumption
    /\ Task!SimpleAssumption

SuiteInit ==
    \/ part = "recover" /\ Recovered!Init /\ OnlyUses({"retention"})
    \/ part = "pins" /\ Pins!PinInit /\ OnlyUses({"pin"})
    \/ part = "memory" /\ Memory!MemoryInit /\ OnlyUses({"memory"})
    \/ part = "reap" /\ Reaped!SandboxInit /\ OnlyUses({"sandbox"})
    \/ part = "logins" /\ LoggingIn!OAuthInit /\ OnlyUses({"oauth"})
    \/ part = "process" /\ Supervised!SupervisionInit /\ OnlyUses({"process"})
    \/ part = "task" /\ Task!SimpleInit /\ OnlyUses({"simple"})

RecoveredStep == part = "recover" /\ Recovered!Next /\ Untouched({"retention"})
PinsStep == part = "pins" /\ Pins!PinNext /\ Untouched({"pin"})
MemoryStep == part = "memory" /\ Memory!MemoryNext /\ Untouched({"memory"})
ReapedStep == part = "reap" /\ Reaped!SandboxNext /\ Untouched({"sandbox"})
LoggingInStep == part = "logins" /\ LoggingIn!Next /\ Untouched({"oauth"})
SupervisedStep == part = "process" /\ Supervised!SupervisionNext /\ Untouched({"process"})
TaskStep == part = "task" /\ Task!Next /\ Untouched({"simple"})

SuiteNext == RecoveredStep \/ PinsStep \/ MemoryStep \/ ReapedStep \/ LoggingInStep
    \/ SupervisedStep \/ TaskStep

SuiteSpec == SuiteInit /\ [][SuiteNext]_suiteVars

\* A started process, thread or command runs on unless it is killed, time passes and the provider's
\* index catches up; the operator repeats the prune at each root and the reaper's dispatch, and the
\* person at the task settles open writes, commits and gives the next command.
Fairness ==
    /\ WF_retentionVars(part = "recover" /\ Recovered!Step(p1))
    /\ \A d \in Recovered!Dirs : SF_retentionVars(part = "recover" /\ Recovered!OpenLock(p1, "prune", d))
    /\ WF_pinVars(part = "pins" /\ Pins!UserStep)
    /\ WF_pinVars(part = "pins" /\ Pins!CloseEnd)
    /\ \A p \in {p1, p2} : WF_memoryVars(part = "memory" /\ Memory!Step(p))
    /\ WF_sandboxVars(part = "reap" /\ Reaped!Tick)
    /\ \A p \in {1, 2} : WF_sandboxVars(part = "reap" /\ Reaped!Index(p))
    /\ WF_sandboxVars(part = "reap" /\ (Reaped!LifecycleStep(j1) \/ Reaped!CleanupStep(j1)
                                        \/ Reaped!RefuseUpdate(j1) \/ Reaped!DeleteStep(j1)))
    /\ WF_sandboxVars(part = "reap" /\ (Reaped!Reap(r1) \/ Reaped!ReapAgain(r1) \/ Reaped!DeleteStep(r1)))
    /\ WF_oauthVars(part = "logins" /\ LoggingIn!Tick)
    /\ \A l \in {l1, l2} : WF_oauthVars(part = "logins" /\ LoggingIn!LoginStep(l))
    /\ WF_processVars(part = "process" /\ Supervised!CallStep)
    /\ WF_processVars(part = "process" /\ Supervised!FeederStep)
    /\ \A s \in {"out", "err"} : WF_processVars(part = "process" /\ Supervised!ReaderStep(s))
    /\ \A p \in {"root", "kid"} : WF_processVars(part = "process" /\ Supervised!Reap(p))
    /\ WF_simpleVars(part = "task" /\ Task!Work(w1))
    /\ WF_simpleVars(part = "task" /\ Task!Commands(w1))
    /\ \A s \in Task!Writes : WF_simpleVars(part = "task" /\ (Task!ResolveStep(s) \/ Task!RetryStep(s)))
    /\ WF_simpleVars(part = "task" /\ Task!Commit)

FairSuiteSpec == SuiteSpec /\ Fairness

------------------------------------------------------------------------------
\* What was begun ends: an operation on a pin whose descriptor is closed
\* meanwhile (directory_safety.py), a work memory command though the journal
\* is contended (work_memory.py), a login whatever the service answers
\* (oauth.py poll), a supervised call with its threads and its process tree,
\* though the child never exits, never reads or leaves a process that keeps
\* the pipes open (windows/process.py), and a task of the simple runtime,
\* through crashes and unknown outcomes, when the person settles open writes
\* and repeats the command (simple/workflows.py). Meanwhile a full pipe is
\* emptied, also when nothing more of it is kept. And what an interrupted
\* command left behind is cleared when it is repeated: a prune that died
\* between staging and its last removal is finished or rolled back
\* (retention.py recovery), and a page a terminated runner left, that nobody
\* touches, ends in the trash, unless older pages that people edited or wrote
\* fill the reaper's bounded search (confluence_sandbox.py _reap;
\* docs/confluence-sandbox-tests.md).
CallsEnd ==
    /\ (\/ part = "pins" /\ pinUser.op # Nobody
        \/ part = "memory" /\ ~Memory!At(p1, "idle")
        \/ part = "logins" /\ LoggingIn!PollingLogin(l1)
        \/ part = "process" /\ Supervised!Waiting
        \/ part = "recover" /\ \E d \in Recovered!Dirs : Recovered!Pending(d)
        \/ part = "reap" /\ \E p \in {1, 2} : Reaped!Leftover(p)) ~>
       /\ part = "pins" => pinUser.op = Nobody
       /\ part = "memory" => Memory!At(p1, "idle")
       /\ part = "logins" => LoggingIn!LoginOver(l1)
       /\ part = "process" => Supervised!AllOver
       /\ part = "recover" => \A d \in Recovered!Dirs : ~Recovered!Pending(d)
       /\ part = "reap" => \A p \in {1, 2} : Reaped!Leftover(p) => Reaped!Hidden(p)
    /\ (part = "process" /\ Supervised!Filled("out")) ~> (part = "process" => Supervised!Emptied("out"))
    /\ <>(part = "task" => simpleTask.status = "completed")
==============================================================================
