---- MODULE MCProviders ------------------------------------------------------
(* The providers' side, part by part: the approvals a write needs, the      *)
(* write connectors, paged reads, the engineering review and the Confluence *)
(* sandbox.                                                                 *)
EXTENDS ApprovalFlow, EngineeringReview, TLC

CONSTANTS j1, j2, s1, r1, c1, c2

------------------------------------------------------------------------------
\* An action that one, and one that two people have to approve, and a read.
KindOf == [a \in {"read", "single", "dual"} |->
    [tier |-> IF a = "read" THEN "auto" ELSE "approval", write |-> a # "read",
     from |-> "user", fits |-> TRUE, asks |-> FALSE,
     need |-> CASE a = "read" -> 0 [] a = "single" -> 1 [] a = "dual" -> 2]]
\* Two keys of one person and one of another.
HolderOf == [k \in {"ann1", "ann2", "bob"} |-> IF k = "bob" THEN "bob" ELSE "ann"]

(* The write capabilities. *)
Writes == {"confluence.page.update", "confluence.page.create", "confluence.space.create", "jira.issue.update",
           "jira.issue.comment.create", "jira.issue.transition", "github.issue.create",
           "github.repository.settings.update", "bitbucket.pull_request.create", "sharepoint.file.upload",
           "reddit.post.create", "reddit.content.edit"}

(* Lists one request can read in whole or not, with and without further pages. *)
ShortLists == [c \in {0} |-> {<<1, 2>>, <<1, 2, 3>>}]
LongList == [c \in {0} |-> {<<1, 2, 3>>}]
CommitLists == [c \in 0..1 |-> IF c = 0 THEN {<<1, 2, 3>>} ELSE {<<4>>}]

(* One issue under review, its commits and up to two pages. *)
Review(workspace, diff, documents) ==
    [case |-> "T1-EWIR-001", classification |-> "internal", deployment |-> "cloud",
     workspace |-> workspace, project |-> "", buildLimit |-> 2, diffLimit |-> 2, diffstat |-> diff,
     origin |-> "bitbucket.org", confluenceOrigin |-> "wiki", space |-> "docs", pages |-> documents]
Connector(base, web) ==
    [enabled |-> TRUE, native |-> TRUE, deployment |-> "cloud", maxItems |-> 2,
     base |-> base, web |-> web]
Connectors == [jira |-> Connector("jira", ""), bitbucket |-> Connector("api.bitbucket.org", ""),
               confluence |-> Connector("wiki-api", "wiki")]
FullConfiguration == {Review("team", TRUE, <<"p1">>)}
EveryConfiguration ==
    FullConfiguration \cup
        {Review("team", FALSE, <<"p1", "p2">>), Review("team", FALSE, <<>>),
         [Review("", FALSE, <<>>) EXCEPT !.deployment = "data_center", !.project = "team"],
         [Review("team", FALSE, <<>>) EXCEPT !.case = "other"],
         [Review("team", FALSE, <<>>) EXCEPT !.buildLimit = 0],
         Review("team", FALSE, <<"p1", "p1">>)}
EveryIntegration ==
    {Connectors, [Connectors EXCEPT !["confluence"].web = ""],
     [Connectors EXCEPT !["bitbucket"].maxItems = 1],
     [Connectors EXCEPT !["bitbucket"].deployment = "data_center", !["bitbucket"].base = "bitbucket.org"],
     [Connectors EXCEPT !["jira"].native = FALSE]}
PullRelation(id) == [provider |-> "bitbucket", target |-> <<"team", id>>]
PageRelation(id) == [provider |-> "confluence", target |-> <<"docs", id>>]
Providers(relations, criteria, mentions, failed) ==
    [key |-> "KEY-1", relations |-> relations, criteria |-> criteria, owner |-> "team",
     head |-> c1, base |-> c2, mentions |-> mentions, failed |-> failed,
     space |-> [p \in {"p1", "p2"} |-> "docs"], version |-> [p \in {"p1", "p2"} |-> 0]]
OneWorld == {Providers({PullRelation("7")}, TRUE, TRUE, {c2})}
Worlds ==
    {Providers({PullRelation("7")}, TRUE, TRUE, {}),
     Providers({PullRelation("7"), PageRelation("p1")}, FALSE, FALSE, {c1}),
     Providers({PullRelation("8")}, TRUE, TRUE, {}), Providers({PageRelation("p9")}, TRUE, TRUE, {}),
     [Providers({}, TRUE, TRUE, {}) EXCEPT !.key = "MOVED-1"]}
EveryWorld == OneWorld \cup Worlds

------------------------------------------------------------------------------
\* Every behaviour is one of one part; the variables of the others are Off, or as
\* they are at first.
VARIABLES
    part,
    writeCap, writePinned, writePlanned, writeItem, pver, writePc, writeAtt,
    writeUsed, writeBefore, writeAfter, cafter, writeOut, writeVer, cout, cver,
    writeOwn, writeUndo, writeBlind, writeSeen, writeEdits,
    pagedWorld, pagedSeen, pagedLeft, pagedHollow, pagedChanges, pagedRead,
    boxPages, boxSpaces, boxGuests, boxLate, boxWork, boxDeleted, boxClock,
    boxFaults, boxKills, boxPeople

writeVars == <<writeCap, writePinned, writePlanned, writeItem, pver, writePc,
    writeAtt, writeUsed, writeBefore, writeAfter, cafter, writeOut, writeVer, cout,
    cver, writeOwn, writeUndo, writeBlind, writeSeen, writeEdits>>
pagedVars == <<pagedWorld, pagedSeen, pagedLeft, pagedHollow, pagedChanges,
    pagedRead>>
sandboxVars == <<boxPages, boxSpaces, boxGuests, boxLate, boxWork, boxDeleted,
    boxClock, boxFaults, boxKills, boxPeople>>
suiteVars == <<part, flowVars, writeVars, pagedVars, reviewVars, sandboxVars>>

Off == "off"
\* The groups of variables a part uses are in play, the others left alone.
OnlyUses(used) ==
    /\ "write" \notin used =>
           /\ writeCap = Off /\ writePinned = Off /\ writePlanned = Off
           /\ writeItem = Off /\ pver = Off /\ writePc = Off /\ writeAtt = Off
           /\ writeUsed = Off /\ writeBefore = Off /\ writeAfter = Off
           /\ cafter = Off /\ writeOut = Off /\ writeVer = Off /\ cout = Off
           /\ cver = Off /\ writeOwn = Off /\ writeUndo = Off /\ writeBlind = Off
           /\ writeSeen = Off /\ writeEdits = Off
    /\ "paged" \notin used =>
           /\ pagedWorld = Off /\ pagedSeen = Off /\ pagedLeft = Off
           /\ pagedHollow = Off /\ pagedChanges = Off /\ pagedRead = Off
    /\ "approval" \notin used => planFile = "P" /\ FlowInit
    /\ "review" \notin used => world \in OneWorld /\ ReviewInit
    /\ "sandbox" \notin used =>
           /\ boxPages = Off /\ boxSpaces = Off /\ boxGuests = Off /\ boxLate = Off
           /\ boxWork = Off /\ boxDeleted = Off /\ boxClock = Off /\ boxFaults = Off
           /\ boxKills = Off /\ boxPeople = Off
Untouched(used) ==
    /\ UNCHANGED part
    /\ "write" \notin used => UNCHANGED writeVars
    /\ "paged" \notin used => UNCHANGED pagedVars
    /\ "approval" \notin used => UNCHANGED flowVars
    /\ "review" \notin used => UNCHANGED reviewVars
    /\ "sandbox" \notin used => UNCHANGED sandboxVars

------------------------------------------------------------------------------
\* Every write capability, with one retry and two edits by others.
Writing == INSTANCE ProviderWrite WITH
    Capabilities <- Writes, RetryAttempts <- 1, MaxPages <- 12, MaxEdits <- 2,
    cap <- writeCap, pinned <- writePinned, planned <- writePlanned,
    item <- writeItem, pc <- writePc, att <- writeAtt, used <- writeUsed,
    before <- writeBefore, after <- writeAfter, out <- writeOut, ver <- writeVer,
    own <- writeOwn, undo <- writeUndo, blind <- writeBlind, seen <- writeSeen,
    edits <- writeEdits

\* Lists of which something changes while they are read, with every limit around
\* one and two full pages.
Listed == INSTANCE PagedReads WITH
    Family <- "lists", Lists <- LongList, Matching <- {1, 3, 10, 11},
    Limits <- {2, 3, 4}, ScanLimit <- 3, PageCap <- 2, ServerCaps <- {1, 2},
    MaxPages <- 6, RetryAttempts <- 1, Hollow <- TRUE, Stray <- FALSE,
    MaxChanges <- 1, world <- pagedWorld, seen <- pagedSeen, left <- pagedLeft,
    hollow <- pagedHollow, changes <- pagedChanges, read <- pagedRead

\* Lists that change twice, with prompt and full answers.
Moved == INSTANCE PagedReads WITH
    Family <- "lists", Lists <- LongList, Matching <- {1, 3, 10, 11},
    Limits <- {3, 4}, ScanLimit <- 3, PageCap <- 2, ServerCaps <- {2},
    MaxPages <- 6, RetryAttempts <- 0, Hollow <- FALSE, Stray <- FALSE,
    MaxChanges <- 2, world <- pagedWorld, seen <- pagedSeen, left <- pagedLeft,
    hollow <- pagedHollow, changes <- pagedChanges, read <- pagedRead

\* Lists of a commit, while the head moves or the list changes.
OfCommits == INSTANCE PagedReads WITH
    Family <- "commits", Lists <- CommitLists, Matching <- {}, Limits <- {3, 4},
    ScanLimit <- 0, PageCap <- 2, ServerCaps <- {1, 2}, MaxPages <- 8,
    RetryAttempts <- 1, Hollow <- TRUE, Stray <- FALSE, MaxChanges <- 1,
    world <- pagedWorld, seen <- pagedSeen, left <- pagedLeft,
    hollow <- pagedHollow, changes <- pagedChanges, read <- pagedRead

\* Reads put together from several requests, with two changes.
Combined == INSTANCE PagedReads WITH
    Family <- "combined", Lists <- ShortLists, Matching <- {1, 3, 10, 11},
    Limits <- {2}, ScanLimit <- 3, PageCap <- 2, ServerCaps <- {2},
    MaxPages <- 8, RetryAttempts <- 1, Hollow <- TRUE, Stray <- FALSE,
    MaxChanges <- 2, world <- pagedWorld, seen <- pagedSeen, left <- pagedLeft,
    hollow <- pagedHollow, changes <- pagedChanges, read <- pagedRead

\* Links and answers that lead elsewhere.
Exact == INSTANCE PagedReads WITH
    Family <- "exact", Lists <- ShortLists, Matching <- {}, Limits <- {2, 3},
    ScanLimit <- 0, PageCap <- 2, ServerCaps <- {1, 2}, MaxPages <- 8,
    RetryAttempts <- 1, Hollow <- FALSE, Stray <- TRUE, MaxChanges <- 1,
    world <- pagedWorld, seen <- pagedSeen, left <- pagedLeft,
    hollow <- pagedHollow, changes <- pagedChanges, read <- pagedRead

\* Two page jobs and a reaper, of which one fails and one is killed.
Pages == INSTANCE ConfluenceSandbox WITH
    PageJobs <- {j1, j2}, SpaceJobs <- {}, Reapers <- {r1}, PageIds <- {1, 2},
    IndexLags <- TRUE, LateEffects <- TRUE, MaxKills <- 1, MaxPeople <- 0,
    MinAge <- 2, JobLimit <- 1, MaxResources <- 2, SearchAttempts <- 1,
    LastStart <- 0, MaxClock <- 3, MaxFaults <- 1, pages <- boxPages,
    spaces <- boxSpaces, guests <- boxGuests, late <- boxLate, work <- boxWork,
    deleted <- boxDeleted, clock <- boxClock, faults <- boxFaults,
    kills <- boxKills, people <- boxPeople

\* One page job and a reaper, while a person edits twice.
People == INSTANCE ConfluenceSandbox WITH
    PageJobs <- {j1}, SpaceJobs <- {}, Reapers <- {r1}, PageIds <- {1, 2, 3},
    IndexLags <- TRUE, LateEffects <- TRUE, MaxKills <- 1, MaxPeople <- 2,
    MinAge <- 2, JobLimit <- 1, MaxResources <- 2, SearchAttempts <- 2,
    LastStart <- 0, MaxClock <- 3, MaxFaults <- 1, pages <- boxPages,
    spaces <- boxSpaces, guests <- boxGuests, late <- boxLate, work <- boxWork,
    deleted <- boxDeleted, clock <- boxClock, faults <- boxFaults,
    kills <- boxKills, people <- boxPeople

\* A space job, of which two steps fail, while a person edits twice.
Space == INSTANCE ConfluenceSandbox WITH
    PageJobs <- {}, SpaceJobs <- {s1}, Reapers <- {r1}, PageIds <- {1, 2},
    IndexLags <- TRUE, LateEffects <- TRUE, MaxKills <- 1, MaxPeople <- 2,
    MinAge <- 2, JobLimit <- 1, MaxResources <- 2, SearchAttempts <- 2,
    LastStart <- 0, MaxClock <- 3, MaxFaults <- 2, pages <- boxPages,
    spaces <- boxSpaces, guests <- boxGuests, late <- boxLate, work <- boxWork,
    deleted <- boxDeleted, clock <- boxClock, faults <- boxFaults,
    kills <- boxKills, people <- boxPeople

------------------------------------------------------------------------------
\* The constants of every part are as its module says.
ASSUME ProviderAssumption ==
    /\ FlowAssumption
    /\ Writing!WriteAssumption
    /\ Listed!PagedAssumption
    /\ Moved!PagedAssumption
    /\ OfCommits!PagedAssumption
    /\ Combined!PagedAssumption
    /\ Exact!PagedAssumption
    /\ ReviewAssumption
    /\ Pages!SandboxAssumption
    /\ People!SandboxAssumption
    /\ Space!SandboxAssumption

SuiteInit ==
    \/ part = "replaced" /\ FlowInit /\ OnlyUses({"approval"})
    \/ part = "expiry" /\ planFile = "P" /\ FlowInit /\ OnlyUses({"approval"})
    \/ part = "write" /\ Writing!WriteInit /\ OnlyUses({"write"})
    \/ part = "lists" /\ Listed!PagedInit /\ OnlyUses({"paged"})
    \/ part = "moved" /\ Moved!PagedInit /\ OnlyUses({"paged"})
    \/ part = "commits" /\ OfCommits!PagedInit /\ OnlyUses({"paged"})
    \/ part = "combined" /\ Combined!PagedInit /\ OnlyUses({"paged"})
    \/ part = "exact" /\ Exact!PagedInit /\ OnlyUses({"paged"})
    \/ part = "moving" /\ world \in OneWorld /\ ReviewInit /\ OnlyUses({"review"})
    \/ part = "outcomes" /\ world \in Worlds /\ ReviewInit /\ OnlyUses({"review"})
    \/ part = "pages" /\ Pages!SandboxInit /\ OnlyUses({"sandbox"})
    \/ part = "people" /\ People!SandboxInit /\ OnlyUses({"sandbox"})
    \/ part = "space" /\ Space!SandboxInit /\ OnlyUses({"sandbox"})

\* Only a request without approvals is left torn by a crash.
TornIsEarly == \A r \in Requests : disk'[r] = "torn" /\ r.with # {} => run'["p1"].at = "write"
\* A plan replaced by another between request, signature and resume: two people
\* sign, the second also without a request; nothing expires or is revoked.
ReviewedStep ==
    /\ part = "replaced" /\ FlowNext /\ Untouched({"approval"})
    /\ now' = 0 /\ authFile' = "bound" /\ TornIsEarly
    /\ \A ap \in approvals' : /\ ap.key = (IF ap.id = 1 THEN "ann1" ELSE "bob")
                              /\ ap.via = "plan" => ap.id = 2 /\ ap.plan = "Q"
\* One plan, three keys of two people, approvals that expire or are revoked.
ExpiringStep ==
    /\ part = "expiry" /\ FlowNext /\ Untouched({"approval"})
    /\ planFile' = "P" /\ TornIsEarly
    /\ \A ap \in approvals' : ap.key = "ann2" => ap.id = 2
WritingStep == part = "write" /\ Writing!WriteNext /\ Untouched({"write"})
ListedStep == part = "lists" /\ Listed!PagedNext /\ Untouched({"paged"})
MovedStep == part = "moved" /\ Moved!PagedNext /\ Untouched({"paged"})
OfCommitsStep == part = "commits" /\ OfCommits!PagedNext /\ Untouched({"paged"})
CombinedStep == part = "combined" /\ Combined!PagedNext /\ Untouched({"paged"})
ExactStep == part = "exact" /\ Exact!PagedNext /\ Untouched({"paged"})
\* A review of two commits and a page, with two edits at the providers and one
\* outage.
MovingStep ==
    /\ part = "moving" /\ ReviewNext /\ Untouched({"review"})
    /\ settings' \in FullConfiguration /\ integrations' = Connectors /\ outages' <= 1
    /\ world'.version["p2"] = 0 /\ world'.space["p2"] = "docs"
\* Every configuration and outcome, with one edit and two outages.
OutcomesStep ==
    /\ part = "outcomes" /\ ReviewNext /\ Untouched({"review"})
    /\ edits' <= 1
PagesStep == part = "pages" /\ Pages!SandboxNext /\ Untouched({"sandbox"})
PeopleStep == part = "people" /\ People!SandboxNext /\ Untouched({"sandbox"})
SpaceStep == part = "space" /\ Space!SandboxNext /\ Untouched({"sandbox"})

SuiteNext == ReviewedStep \/ ExpiringStep \/ WritingStep \/ ListedStep \/ MovedStep \/ OfCommitsStep
    \/ CombinedStep \/ ExactStep \/ MovingStep \/ OutcomesStep \/ PagesStep \/ PeopleStep
    \/ SpaceStep

SuiteSpec == SuiteInit /\ [][SuiteNext]_suiteVars

------------------------------------------------------------------------------
\* A reported conflict means the provider did not take the write; the compare-
\* and-swap capability never writes over an edit it did not read; a write that
\* binds a version is verified only if nobody touched the resource since its
\* read-back; a rollback sends nothing after an edit it has seen, and one that
\* is verified gives back what execute found with no edit lost on the way:
\* with answers lost after the provider acted and people who edit between any
\* two requests (connectors/*_write.py, compensation.py, http.py).
WritesAreGuarded ==
    /\ [](part = "write" => Writing!WriteTypeOK /\ Writing!ConflictMeansNoEffect
                         /\ Writing!NoBlindOverwrite /\ Writing!RollbackRestores)
    /\ [][part = "write" => Writing!VerifiedMeansUndisturbedStep
                         /\ Writing!RollbackSparesSeenEditsStep]_writeVars

\* A read that several requests put together, and that the second read
\* confirmed, is what the provider held at one moment of it, unless an item left
\* the list, an empty page with a next link ended a list that is not strict, or
\* a GitHub list was asked for with a limit over the page size that is no
\* multiple of it; a strict read has everything or is refused, and when
\* verified lacks nothing that was there all the time; a read planned for a
\* version gives that version, with the same exceptions; and a next link never
\* brings in another collection (connectors/read_only.py, bitbucket.py,
\* github.py, microsoft_graph.py, onenote.py).
ListsAreSnapshots ==
    /\ part = "lists" => Listed!PagedTypeOK /\ Listed!VerifiedIsASnapshot
    /\ part = "moved" => Moved!VerifiedIsASnapshot
    /\ part = "commits" => OfCommits!PagedTypeOK /\ OfCommits!VerifiedIsASnapshot
                        /\ OfCommits!StrictIsWhole /\ OfCommits!StrictMissesNothing
                        /\ OfCommits!ExpectedVersionHolds
    /\ part = "combined" => Combined!PagedTypeOK /\ Combined!VerifiedIsASnapshot
                         /\ Combined!ExpectedVersionHolds
    /\ part = "exact" => Exact!PagedTypeOK /\ Exact!OwnCollectionOnly

\* A job creates its page at most once, whatever answers are lost; what the
\* harness deletes was, at the read just before, as a job had left and signed
\* it; the reaper takes no page from a job at work; a cleanup step fails only
\* when a request of it fails, its search missed the page, somebody touched the
\* page or the space, or the provider still shows a space it was told to delete;
\* and one that ends well leaves nothing of its job behind that is still as the
\* job made it, unless its search came before the index knew the page or before
\* a create took effect whose command had been given up: with late effects,
\* killed runners, people and lookalikes (scripts/confluence_sandbox.py,
\* connectors/confluence_write.py compensate and verify_compensation).
SandboxIsLeftClean ==
    /\ part = "pages" => Pages!SandboxTypeOK /\ Pages!CreatedOnce
                      /\ Pages!DeletedWasOwn /\ Pages!ReaperSparesRunning
                      /\ Pages!CleanupFailsForAReason /\ Pages!CleanMeansGone
    /\ part = "people" => People!DeletedWasOwn /\ People!ReaperSparesRunning
                       /\ People!CleanupFailsForAReason /\ People!CleanMeansGone
    /\ part = "space" => Space!DeletedWasOwn /\ Space!CleanupFailsForAReason
                      /\ Space!CleanMeansGone
==============================================================================
