---- MODULE MCFiles ----------------------------------------------------------
(* What is kept in files, part by part: retained evidence, the state        *)
(* database, pinned directories, the work memory journal and drafts.        *)
EXTENDS StateDatabase, PinnedDirectory, TLC

CONSTANTS x1, x2, w1, w2, o1, A1, A2, B1, B2, Nobody, NoOut, NoName

------------------------------------------------------------------------------
\* A stem somebody asks for by name.
Requested(ext) == {[stem |-> <<"named", "">>, ext |-> ext]}
TheApproved == <<A1, B1>>
EveryDraft == {"jira", "confluence", "reddit", "outlook", "teams", "powerpoint", "patch", "branch"}

------------------------------------------------------------------------------
\* Every behaviour is one of one part; the variables of the others are Off, or as
\* they are at first.
VARIABLES
    part,
    lockfile, excl, share, keepProc, pub, temp, stage, quar, expired, committed,
    keepFaults,
    otherDb, otherLedger, otherLock, otherHolder, otherJnl, otherProc, otherFiles,
    otherLosses, otherAcked,
    journal, memoryProc, memoryOut, told, hist, serial, memoryDamage, memoryFaults,
    draftFiles, moved, draftUsed, draftWork, kept, stray, inos, actions, meddle,
    draftFaults

retentionVars == <<lockfile, excl, share, keepProc, pub, temp, stage, quar, expired,
    committed, keepFaults>>
otherVars == <<otherDb, otherLedger, otherLock, otherHolder, otherJnl, otherProc,
    otherFiles, otherLosses, otherAcked>>
memoryVars == <<journal, memoryProc, memoryOut, told, hist, serial, memoryDamage,
    memoryFaults>>
draftsVars == <<draftFiles, moved, draftUsed, draftWork, kept, stray, inos, actions,
    meddle, draftFaults>>
suiteVars == <<part, stateVars, pinVars, retentionVars, otherVars, memoryVars,
    draftsVars>>

Off == "off"
\* The groups of variables a part uses are in play, the others left alone.
OnlyUses(used) ==
    /\ "retention" \notin used =>
           /\ lockfile = Off /\ excl = Off /\ share = Off /\ keepProc = Off
           /\ pub = Off /\ temp = Off /\ stage = Off /\ quar = Off /\ expired = Off
           /\ committed = Off /\ keepFaults = Off
    /\ "state" \notin used => StateInit
    /\ "other" \notin used =>
           /\ otherDb = Off /\ otherLedger = Off /\ otherLock = Off
           /\ otherHolder = Off /\ otherJnl = Off /\ otherProc = Off
           /\ otherFiles = Off /\ otherLosses = Off /\ otherAcked = Off
    /\ "pin" \notin used => PinInit
    /\ "memory" \notin used =>
           /\ journal = Off /\ memoryProc = Off /\ memoryOut = Off /\ told = Off
           /\ hist = Off /\ serial = Off /\ memoryDamage = Off /\ memoryFaults = Off
    /\ "drafts" \notin used =>
           /\ draftFiles = Off /\ moved = Off /\ draftUsed = Off /\ draftWork = Off
           /\ kept = Off /\ stray = Off /\ inos = Off /\ actions = Off /\ meddle = Off
           /\ draftFaults = Off
Untouched(used) ==
    /\ UNCHANGED part
    /\ "retention" \notin used => UNCHANGED retentionVars
    /\ "state" \notin used => UNCHANGED stateVars
    /\ "other" \notin used => UNCHANGED otherVars
    /\ "pin" \notin used => UNCHANGED pinVars
    /\ "memory" \notin used => UNCHANGED memoryVars
    /\ "drafts" \notin used => UNCHANGED draftsVars

------------------------------------------------------------------------------
\* Two processes that publish, expire and prune evidence, with two deaths or
\* failing calls.
Pruning == INSTANCE EvidenceRetention WITH
    Procs <- {x1, x2}, Operations <- {"write", "prune"}, MaxGen <- 2,
    MaxFaults <- 2, None <- Nobody, proc <- keepProc, faults <- keepFaults

\* The same with repairs, for one publication.
Repairing == INSTANCE EvidenceRetention WITH
    Procs <- {x1, x2}, Operations <- {"write", "prune", "repair"}, MaxGen <- 1,
    MaxFaults <- 2, None <- Nobody, proc <- keepProc, faults <- keepFaults

\* Two processes over one POSIX state file, a creator killed in its cleanup,
\* one power failure.
Interrupted == INSTANCE StateDatabase WITH
    Procs <- {x1, x2}, Windows <- FALSE, FaultyCleanup <- TRUE, MaxFiles <- 5,
    MaxPowerLoss <- 1, db <- otherDb, ledger <- otherLedger, lock <- otherLock,
    holder <- otherHolder, jnl <- otherJnl, proc <- otherProc, files <- otherFiles,
    losses <- otherLosses, acked <- otherAcked

\* The Windows backend.
OnWindows == INSTANCE StateDatabase WITH
    Procs <- {x1, x2}, Windows <- TRUE, FaultyCleanup <- TRUE, MaxFiles <- 5,
    MaxPowerLoss <- 1, db <- otherDb, ledger <- otherLedger, lock <- otherLock,
    holder <- otherHolder, jnl <- otherJnl, proc <- otherProc, files <- otherFiles,
    losses <- otherLosses, acked <- otherAcked

\* Three commands of two processes on two works of one journal, one of which
\* dies.
Memory == INSTANCE WorkMemory WITH
    Procs <- {x1, x2}, Works <- {w1, w2}, Outs <- {o1}, LastStage <- 2,
    MaxEvents <- 3, MaxShown <- 2, Attempts <- 2, MaxCommands <- 3, MaxDamage <- 0,
    MaxFaults <- 1, proc <- memoryProc, out <- memoryOut, damage <- memoryDamage,
    faults <- memoryFaults

\* The same with one damage to the journal.
Damaged == INSTANCE WorkMemory WITH
    Procs <- {x1, x2}, Works <- {w1, w2}, Outs <- {}, LastStage <- 2,
    MaxEvents <- 3, MaxShown <- 2, Attempts <- 2, MaxCommands <- 3, MaxDamage <- 1,
    MaxFaults <- 0, proc <- memoryProc, out <- memoryOut, damage <- memoryDamage,
    faults <- memoryFaults

\* Two drafts of every kind by two connectors of one run, with a failing call,
\* and the directory moved away once.
Drafting == INSTANCE Drafts WITH
    Workers <- {x1, x2}, RunOf <- [w \in {x1, x2} |-> 1],
    Capabilities <- EveryDraft, Targets <- {"t1"}, OutputNames <- {},
    MaxSize <- 1, Quota <- 2, Budget <- 3, MaxActions <- 2, MaxMeddle <- 0,
    MaxMoves <- 1, MaxFaults <- 1, files <- draftFiles, used <- draftUsed,
    work <- draftWork, faults <- draftFaults

\* Two connectors of two runs, at their own or at a requested name, while a person
\* removes, edits or adds a file twice: enough to replace one in a window.
Meddled == INSTANCE Drafts WITH
    Workers <- {"a", "b"}, RunOf <- [a |-> 1, b |-> 2],
    Capabilities <- {"outlook"}, Targets <- {"t1"},
    OutputNames <- Requested("json"), MaxSize <- 1, Quota <- 3, Budget <- 3,
    MaxActions <- 2, MaxMeddle <- 2, MaxMoves <- 0, MaxFaults <- 0,
    files <- draftFiles, used <- draftUsed, work <- draftWork, faults <- draftFaults

------------------------------------------------------------------------------
\* The constants of every part are as its module says.
ASSUME FilesAssumption ==
    /\ Pruning!RetentionAssumption
    /\ Repairing!RetentionAssumption
    /\ StateAssumption
    /\ Interrupted!StateAssumption
    /\ OnWindows!StateAssumption
    /\ PinAssumption
    /\ Memory!MemoryAssumption
    /\ Damaged!MemoryAssumption
    /\ Drafting!DraftAssumption
    /\ Meddled!DraftAssumption

SuiteInit ==
    \/ part = "prune" /\ Pruning!Init /\ OnlyUses({"retention"})
    \/ part = "repair" /\ Repairing!Init /\ OnlyUses({"retention"})
    \/ part = "durable" /\ StateInit /\ OnlyUses({"state"})
    \/ part = "interrupted" /\ Interrupted!StateInit /\ OnlyUses({"other"})
    \/ part = "windows" /\ OnWindows!StateInit /\ OnlyUses({"other"})
    \/ part = "pins" /\ PinInit /\ OnlyUses({"pin"})
    \/ part = "copies" /\ PinInit /\ OnlyUses({"pin"})
    \/ part = "memory" /\ Memory!MemoryInit /\ OnlyUses({"memory"})
    \/ part = "damage" /\ Damaged!MemoryInit /\ OnlyUses({"memory"})
    \/ part = "drafts" /\ Drafting!DraftInit /\ OnlyUses({"drafts"})
    \/ part = "person" /\ Meddled!DraftInit /\ OnlyUses({"drafts"})

PruningStep == part = "prune" /\ Pruning!Next /\ Untouched({"retention"})
RepairingStep == part = "repair" /\ Repairing!Next /\ Untouched({"retention"})
\* Two processes over one POSIX state file, with kills and one power failure,
\* but none between the two removals of a creator's cleanup.
DurableStep == part = "durable" /\ StateNext /\ Untouched({"state"})
InterruptedStep == part = "interrupted" /\ Interrupted!StateNext /\ Untouched({"other"})
OnWindowsStep == part = "windows" /\ OnWindows!StateNext /\ Untouched({"other"})
\* An operation on a pin of two directories against a close of the pin, two
\* moves, an edit and a foreign descriptor; a hit, after which PinsHold claims
\* nothing, ends it.
PinsStep ==
    /\ part = "pins" /\ ~lost.hit /\ PinNext /\ Untouched({"pin"})
    /\ user'.op # "copy"
\* Duplicates of a pin and listings of them.
CopiesStep ==
    /\ part = "copies" /\ ~lost.hit /\ PinNext /\ Untouched({"pin"})
    /\ user'.op \notin {"read", "inspect"}
    /\ spent'.moves = 0 /\ spent'.edits = 0 /\ spent'.foreign = 0
MemoryStep == part = "memory" /\ Memory!MemoryNext /\ Untouched({"memory"})
DamagedStep == part = "damage" /\ Damaged!MemoryNext /\ Untouched({"memory"})
DraftingStep == part = "drafts" /\ Drafting!DraftNext /\ Untouched({"drafts"})
MeddledStep == part = "person" /\ Meddled!DraftNext /\ Untouched({"drafts"})

SuiteNext == PruningStep \/ RepairingStep \/ DurableStep \/ InterruptedStep
    \/ OnWindowsStep \/ PinsStep \/ CopiesStep \/ MemoryStep \/ DamagedStep
    \/ DraftingStep \/ MeddledStep

SuiteSpec == SuiteInit /\ [][SuiteNext]_suiteVars

\* x1 and x2 are the two processes or connectors of a part.
Interchangeable == Permutations({x1, x2})

------------------------------------------------------------------------------
\* Of the processes that publish, prune and repair a pair of evidence and
\* manifest, at most one changes its names, although a writer locks an
\* ancestor only if its lock file exists; public evidence always has its
\* manifest, beside it or staged with it; and what a publication committed is
\* gone only once it expired, and then as a pair, through deaths and failing
\* calls at any step (retention.py; the manifest is not claimed of roots under
\* repair, see the README).
EvidenceIsKept ==
    /\ part = "prune" => Pruning!RetentionTypeOK /\ Pruning!OneMutator
                      /\ Pruning!EvidenceIsCovered /\ Pruning!LossIsWholeAndExpired
    /\ part = "repair" => Repairing!RetentionTypeOK /\ Repairing!OneMutator
                       /\ Repairing!LossIsWholeAndExpired

\* The other backends keep the same promise: a transaction whose connect()
\* returned is in the database for ever, on POSIX also when a creator is killed
\* between the two removals of its cleanup, and on Windows, where the next open
\* succeeds after every interruption (sqlite_safety.py; windows/atomic.py).
OtherBackendsAreDurable ==
    /\ part = "interrupted" => Interrupted!StateIsDurable
    /\ part = "windows" => OnWindows!StateIsDurable

\* Commands that overlap, create the journal together, are killed or fail lose
\* or reorder no committed event; the lifecycle of a work starts once,
\* advances a stage at a time and ends at the merge; an output file is one
\* command's and holds its event; and what is told, also after one damage to
\* the journal, is the committed history up to some event (work_memory.py,
\* cli._work_memory).
MemoryIsTheHistory ==
    /\ part = "memory" => Memory!MemoryTypeOK /\ Memory!NoEventIsLost
                       /\ Memory!LifecycleInOrder /\ Memory!OutputIsItsCommands
    /\ part = "damage" => Damaged!ToldIsTheHistory

\* A worker that is not in the middle of a bundle has left all files of it or
\* none, but for a file whose creation failed before its identity was taken; the budget of a run holds exactly the bytes of its bundles, written
\* and under way, and never more than its limit; and a step of a worker
\* changes or removes no file but its own, with other workers at the same
\* names, failing calls, a directory that is moved away and a person who
\* removes, edits and adds files, unless the file was replaced between the
\* comparison of its identity and its removal; an inode number that is used
\* again counts as the same file (connectors/drafts.py _write_bundle,
\* _create_bytes, _unlink_if_identity, ArtifactBudget).
BundlesAreWhole ==
    /\ [](/\ part = "drafts" => Drafting!DraftTypeOK /\ Drafting!NoHalfBundle
                             /\ Drafting!BudgetIsExact
          /\ part = "person" => Meddled!NoHalfBundle)
    /\ [][/\ part = "drafts" => Drafting!OnlyOwnFilesTouchedStep
         /\ part = "person" => Meddled!OnlyOwnFilesTouchedStep]_draftsVars
==============================================================================
