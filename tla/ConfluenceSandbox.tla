------------------------- MODULE ConfluenceSandbox -------------------------
(***************************************************************************)
(* scripts/confluence_sandbox.py: the live test harness that creates,      *)
(* updates and removes its own pages and spaces at a real provider.  A job *)
(* runs a lifecycle and then its cleanup step; a reaper removes what       *)
(* killed jobs left.  The provider's search index lags, its answers get    *)
(* lost, and people edit what they find.                                   *)
(***************************************************************************)
EXTENDS Integers, Sequences, FiniteSets, SequencesExt

CONSTANTS PageJobs, SpaceJobs, Reapers,   \* jobs of the three kinds
          PageIds,          \* ids the provider may give to pages, 1..n
          MinAge,           \* the reaper's age threshold
          JobLimit,         \* the hosted runner's timeout
          MaxResources,     \* pages one reaper run examines
          SearchAttempts,   \* searches one lookup makes
          LastStart,        \* no job starts later
          IndexLags,        \* a new page is searchable only later
          LateEffects,      \* a create may take effect after its caller was told of a failure
          MaxClock, MaxFaults, MaxKills, MaxPeople   \* bounds of the model

\* What the constants are.
SandboxAssumption ==
    /\ JobLimit < MinAge /\ LastStart + JobLimit + MinAge <= MaxClock
    /\ MaxResources \in Nat \ {0} /\ SearchAttempts \in Nat \ {0}
    /\ LateEffects \in BOOLEAN /\ IndexLags \in BOOLEAN
    /\ MaxFaults \in Nat /\ MaxKills \in Nat /\ MaxPeople \in Nat

VARIABLES pages,     \* page id -> the provider's page
          spaces,    \* space job -> its created space: "none", "current", "going" or "gone"
          guests,    \* space job -> somebody else's page is in its space
          late,      \* creates the provider has yet to apply
          work,      \* job -> what it is doing, and the private files of its runner; ghosts: a
                     \* search of its cleanup missed what the provider was still to show, a
                     \* request of its cleanup failed
          deleted,   \* ghost: what was deleted, and what its deleter had read last
          clock, faults, kills, people

sandboxVars == <<pages, spaces, guests, late, work, deleted, clock, faults, kills, people>>

None == [none |-> TRUE]
Jobs == PageJobs \cup SpaceJobs
Workers == Jobs \cup Reapers
Idle == [pc |-> "idle", files |-> {}, created |-> 0, started |-> 0, tries |-> 0, id |-> 0,
         phase |-> "create", stateId |-> 0, saw |-> None, todo |-> <<>>, cutoff |-> 0, exit |-> -1,
         then |-> "done", missed |-> FALSE, hurt |-> FALSE]

SandboxInit ==
    /\ pages = [p \in PageIds |-> None]
    /\ spaces = [w \in SpaceJobs |-> "none"]
    /\ guests = [w \in SpaceJobs |-> FALSE]
    /\ late = {}
    /\ work = [w \in Workers |-> Idle]
    /\ deleted = {}
    /\ clock = 0 /\ faults = 0 /\ kills = 0 /\ people = 0

Now(w, pc) == work' = [work EXCEPT ![w].pc = pc]
With(w, pc, file) == work' = [work EXCEPT ![w].pc = pc, ![w].files = @ \cup {file}]
Has(w, file) == file \in work[w].files
Running(w) == work[w].pc \notin {"idle", "done", "killed"}
Untouched == <<deleted, clock, faults, kills, people>>
Provider == <<pages, spaces, guests, late>>

\* The version a page has in each phase of its lifecycle.
VersionOf(phase) == IF phase = "create" THEN 1 ELSE 2
\* _page_create_action: the page the job creates, marked and signed as its own.
NewPage(w, created) ==
    [owner |-> w, auth |-> TRUE, created |-> created, updated |-> clock, phase |-> "create",
     version |-> 1, status |-> "current", indexed |-> ~IndexLags]
\* _owned_page_without_age: a page whose whole content authenticates as a job's.
Owned(page) ==
    /\ page # None
    /\ page.auth
    /\ page.phase \in {"create", "update"}
    /\ page.status = "current"
    /\ page.version = VersionOf(page.phase)
\* _verify_page: a fresh read that finds the page in the expected phase.
Matches(page, phase) == Owned(page) /\ page.phase = phase
\* is_stale_candidate
StaleCandidate(page, cutoff) ==
    Owned(page) /\ page.created <= cutoff /\ page.updated <= cutoff

\* _page_lifecycle, _space_lifecycle: the runner's private root is set up, the ownership written.
Start(w) ==
    /\ w \in Jobs /\ work[w].pc = "idle" /\ clock <= LastStart
    /\ work' = [work EXCEPT ![w].pc = IF w \in SpaceJobs THEN "space_meta" ELSE "page_meta",
                            ![w].started = clock, ![w].files = {"target"}]
    /\ UNCHANGED <<Provider, Untouched>>

SpaceMetadata(w) == work[w].pc = "space_meta" /\ With(w, "space_request", "space_meta")
                    /\ UNCHANGED <<Provider, Untouched>>
\* build_page_ownership
PageMetadata(w) ==
    /\ work[w].pc = "page_meta"
    /\ work' = [work EXCEPT ![w].pc = "page_request", ![w].created = clock,
                            ![w].files = @ \cup {"page_meta"}]
    /\ UNCHANGED <<Provider, Untouched>>

\* Faulty variant: the uncertainty flag is written after the resume.
RequestUnflagged(w) ==
    /\ work[w].pc \in {"space_request", "page_request", "update_request"}
    /\ CASE work[w].pc = "space_request" -> Now(w, "space_resume")
         [] work[w].pc = "page_request" -> Now(w, "page_resume")
         [] OTHER -> Now(w, "update_resume")
    /\ UNCHANGED <<Provider, Untouched>>
\* _connect, then _run_governed_plan up to the resume: bound, requested, inspected and approved; the uncertainty
\* flag is written just before a create is resumed.
Request(w) ==
    /\ work[w].pc \in {"space_request", "page_request", "update_request"}
    /\ CASE work[w].pc = "space_request" -> With(w, "space_resume", "space_attempted")
         [] work[w].pc = "page_request" -> With(w, "page_resume", "page_attempted")
         [] OTHER -> Now(w, "update_resume")
    /\ UNCHANGED <<Provider, Untouched>>

FreeIds == {p \in PageIds : pages[p] = None}
Created(w, created) == \E p \in FreeIds : /\ \A q \in FreeIds : p <= q
                                          /\ pages' = [pages EXCEPT ![p] = NewPage(w, created)]
Find(w, then) == work' = [work EXCEPT ![w].pc = "find", ![w].tries = 0, ![w].then = then]

\* _run_governed_plan, the resume: the provider applies the create or the update.
ResumeSpace(w) ==
    /\ work[w].pc = "space_resume"
    /\ spaces' = [spaces EXCEPT ![w] = "current"]
    /\ Now(w, "find_space")
    /\ UNCHANGED <<pages, guests, late, Untouched>>
ResumeCreate(w) ==
    /\ work[w].pc = "page_resume"
    /\ Created(w, work[w].created) /\ Find(w, "verify")
    /\ UNCHANGED <<spaces, guests, late, Untouched>>
ResumeUpdate(w) ==
    /\ work[w].pc = "update_resume"
    /\ Matches(pages[work[w].id], "create")
    /\ pages' = [pages EXCEPT ![work[w].id].phase = "update", ![work[w].id].version = 2,
                              ![work[w].id].updated = clock]
    /\ work' = [work EXCEPT ![w].pc = "verify", ![w].phase = "update"]
    /\ UNCHANGED <<spaces, guests, late, Untouched>>

\* The step of a lifecycle fails and the cleanup step of the job follows.
Failed(w) == Now(w, IF w \in SpaceJobs THEN "clean_space" ELSE "clean_page")
FailStep(w) ==
    /\ w \in Jobs /\ faults < MaxFaults
    /\ \/ work[w].pc \in {"space_meta", "page_meta", "space_request", "page_request", "update_request",
                          "space_resume", "page_resume", "update_resume", "find_space", "verify",
                          "persist"}
       \/ work[w].pc = "find" /\ work[w].then = "verify"
    /\ faults' = faults + 1
    /\ Failed(w)
    /\ UNCHANGED <<Provider, deleted, clock, kills, people>>
\* A resume takes effect and its answer is lost: the step fails all the same.
LoseAnswer(w) ==
    /\ w \in Jobs /\ faults < MaxFaults
    /\ \/ work[w].pc = "page_resume" /\ Created(w, work[w].created) /\ UNCHANGED spaces
       \/ /\ work[w].pc = "update_resume" /\ Matches(pages[work[w].id], "create")
          /\ pages' = [pages EXCEPT ![work[w].id].phase = "update", ![work[w].id].version = 2,
                                    ![work[w].id].updated = clock]
          /\ UNCHANGED spaces
       \/ work[w].pc = "space_resume" /\ spaces' = [spaces EXCEPT ![w] = "current"] /\ UNCHANGED pages
    /\ faults' = faults + 1
    /\ Failed(w)
    /\ UNCHANGED <<guests, late, deleted, clock, kills, people>>
\* The command was stopped at its time limit; the provider applies the create later.
SendLate(w) ==
    /\ LateEffects /\ work[w].pc \in {"space_resume", "page_resume"} /\ faults < MaxFaults
    /\ late' = late \cup {[job |-> w, created |-> work[w].created,
                          what |-> IF work[w].pc = "page_resume" THEN "page" ELSE "space"]}
    /\ faults' = faults + 1
    /\ Failed(w)
    /\ UNCHANGED <<pages, spaces, guests, deleted, clock, kills, people>>
ApplyLate(w) ==
    /\ clock + MinAge <= MaxClock
    /\ \E l \in late :
         /\ l.job = w /\ late' = late \ {l}
         /\ \/ /\ l.what = "page" /\ (w \in SpaceJobs => spaces[w] = "current")
               /\ Created(w, l.created) /\ UNCHANGED spaces
            \/ l.what = "space" /\ spaces' = [spaces EXCEPT ![w] = "current"] /\ UNCHANGED pages
    /\ UNCHANGED <<guests, work, Untouched>>

\* _find_exact_page: the pages a search for the job's marker returns, authenticated.
ExactPages(w) == {p \in PageIds : Owned(pages[p]) /\ pages[p].indexed /\ pages[p].owner = w}
\* Ghost: the provider has, or will have, a page of the job that this search does not show.
Misses(w) == \/ \E p \in PageIds : Owned(pages[p]) /\ pages[p].owner = w /\ ~pages[p].indexed
             \/ \E l \in late : l.job = w /\ l.what = "page"
FindPage(w) ==
    /\ work[w].pc = "find"
    /\ \/ \E p \in ExactPages(w) :
            /\ Cardinality(ExactPages(w)) = 1
            /\ work[w].then = "verify" => pages[p].phase = "create"
            /\ work[w].stateId \in {0, p}
            /\ work' = [work EXCEPT ![w].pc = work[w].then, ![w].id = p, ![w].phase = pages[p].phase]
       \/ /\ ExactPages(w) = {} /\ work[w].tries + 1 < SearchAttempts
          /\ work' = [work EXCEPT ![w].tries = @ + 1]
       \/ /\ ExactPages(w) = {} /\ work[w].tries + 1 = SearchAttempts
          /\ CASE work[w].then = "verify" -> Failed(w)
               [] work[w].stateId # 0 -> work' = [work EXCEPT ![w].pc = work[w].then, ![w].id = work[w].stateId]
               [] OTHER -> work' = [work EXCEPT ![w].pc = "page_clean", ![w].exit = 0, ![w].missed = Misses(w)]
    /\ UNCHANGED <<Provider, Untouched>>

\* _verify_page after a create or an update, and _persist_page_state.
VerifyPage(w) ==
    /\ w \in Jobs /\ work[w].pc = "verify"
    /\ IF Matches(pages[work[w].id], work[w].phase) THEN Now(w, "persist") ELSE Failed(w)
    /\ UNCHANGED <<Provider, Untouched>>
PersistPage(w) ==
    /\ work[w].pc = "persist"
    /\ work' = [work EXCEPT
          ![w].files = @ \cup {IF work[w].phase = "create" THEN "state_create" ELSE "state_update"},
          ![w].pc = IF work[w].phase = "create" /\ w \in PageJobs THEN "update_request"
                    ELSE IF w \in SpaceJobs THEN "clean_space" ELSE "clean_page"]
    /\ UNCHANGED <<Provider, Untouched>>
\* _find_exact_space, _verify_space and _persist_space_state
FindSpace(w) ==
    /\ work[w].pc = "find_space"
    /\ IF spaces[w] = "current" THEN With(w, "page_meta", "state_space") ELSE Failed(w)
    /\ UNCHANGED <<Provider, Untouched>>

-----------------------------------------------------------------------------
\* main: the exit status of a command.
Exit(w, status) == work' = [work EXCEPT ![w].pc = "done", ![w].exit = status]
\* How a cleanup of the page ends: for a space job the space is next.
PageClean(w, status) ==
    work' = [work EXCEPT ![w].pc = IF status # 0 THEN "done" ELSE "page_clean", ![w].exit = status]

\* _cleanup_page: what the runner's files say was attempted.
CleanupPage(w) ==
    /\ w \in Jobs /\ work[w].pc = "clean_page"
    /\ CASE ~Has(w, "page_meta") -> PageClean(w, 0)
         [] Has(w, "state_update") \/ Has(w, "state_create") ->
               work' = [work EXCEPT ![w].pc = "find", ![w].tries = 0, ![w].then = "terminal",
                          ![w].stateId = work[w].id,
                          ![w].phase = IF Has(w, "state_update") THEN "update" ELSE "create"]
         [] Has(w, "page_attempted") -> Find(w, "terminal")
         [] OTHER -> PageClean(w, 0)
    /\ UNCHANGED <<Provider, Untouched>>
\* Two pages of one marker, or another page than the recorded one.
FindConflict(w) ==
    /\ work[w].pc = "find"
    /\ \/ Cardinality(ExactPages(w)) > 1
       \/ ExactPages(w) # {} /\ work[w].stateId # 0 /\ work[w].stateId \notin ExactPages(w)
       \/ work[w].then = "verify" /\ \E p \in ExactPages(w) : pages[p].phase # "create"
    /\ IF work[w].then = "verify" THEN Failed(w) ELSE Exit(w, 1)
    /\ UNCHANGED <<Provider, Untouched>>
\* _page_is_terminal
PageIsTerminal(w) ==
    /\ work[w].pc = "terminal"
    /\ IF pages[work[w].id].status = "trashed" THEN PageClean(w, 0) ELSE Now(w, "delete_verify")
    /\ UNCHANGED <<Provider, Untouched>>

Target(w) == IF w \in Reapers THEN Head(work[w].todo) ELSE [id |-> work[w].id, phase |-> work[w].phase]
\* _delete_verified_page: a fresh read, the compensation's own read, the delete, and the read after.
DeleteVerify(w) ==
    /\ work[w].pc = "delete_verify"
    /\ IF Matches(pages[Target(w).id], Target(w).phase) THEN Now(w, "delete_read") ELSE Exit(w, 1)
    /\ UNCHANGED <<Provider, Untouched>>
DeleteRead(w) ==
    /\ work[w].pc = "delete_read"
    /\ IF Matches(pages[Target(w).id], Target(w).phase)
       THEN work' = [work EXCEPT ![w].pc = "delete", ![w].saw = pages[Target(w).id]]
       ELSE Exit(w, 1)
    /\ UNCHANGED <<Provider, Untouched>>
Delete(w) ==
    /\ work[w].pc = "delete"
    /\ IF pages[Target(w).id].status = "current"
       THEN /\ pages' = [pages EXCEPT ![Target(w).id].status = "trashed"]
            /\ deleted' = deleted \cup {[saw |-> work[w].saw, by |-> w,
                                         ownerRuns |-> Running(work[w].saw.owner)]}
       ELSE UNCHANGED <<pages, deleted>>
    /\ Now(w, "confirm")
    /\ UNCHANGED <<spaces, guests, late, clock, faults, kills, people>>
\* verify_compensation: the page is in the trash.
ConfirmDeleted(w) ==
    /\ work[w].pc = "confirm"
    /\ CASE pages[Target(w).id].status # "trashed" -> Exit(w, 1)
         [] w \in Jobs -> PageClean(w, 0)
         [] Len(work[w].todo) > 1 ->
               work' = [work EXCEPT ![w].pc = "delete_verify", ![w].todo = Tail(@)]
         [] OTHER -> work' = [work EXCEPT ![w] = Idle]
    /\ UNCHANGED <<Provider, Untouched>>

\* The page's cleanup has ended: a page job is done, a space job removes its space.
CleanedPage(w) ==
    /\ work[w].pc = "page_clean"
    /\ IF w \in SpaceJobs THEN Now(w, "clean_space_itself") ELSE Exit(w, 0)
    /\ UNCHANGED <<Provider, Untouched>>
\* _cleanup_space, up to the page.
CleanupSpace(w) ==
    /\ work[w].pc = "clean_space"
    /\ CASE ~Has(w, "space_meta") -> Exit(w, 0)
         [] Has(w, "page_meta") -> Now(w, "clean_page")
         [] OTHER -> Now(w, "clean_space_itself")
    /\ UNCHANGED <<Provider, Untouched>>
\* _cleanup_space after its page: the space that was attempted is looked up by its key.
LookupSpace(w) ==
    /\ work[w].pc = "clean_space_itself"
    /\ IF (Has(w, "state_space") \/ Has(w, "space_attempted")) /\ spaces[w] = "current"
       THEN Now(w, "space_read")
       ELSE work' = [work EXCEPT ![w].pc = "done", ![w].exit = 0,
                                 ![w].missed = @ \/ \E l \in late : l.job = w /\ l.what = "space"]
    /\ UNCHANGED <<Provider, Untouched>>
\* _delete_created_space: a space that holds another page than its homepage is refused.
SpaceRead(w) ==
    /\ work[w].pc = "space_read"
    /\ IF /\ ~guests[w] /\ spaces[w] = "current"
          /\ \A p \in PageIds : pages[p] # None /\ pages[p].owner = w => pages[p].status = "trashed"
       THEN work' = [work EXCEPT ![w].pc = "space_delete", ![w].saw = [guest |-> FALSE]]
       ELSE Exit(w, 1)
    /\ UNCHANGED <<Provider, Untouched>>
\* Ghost: what a job deletes and had read.
Gone(w) == deleted \cup {[saw |-> work[w].saw, by |-> w, ownerRuns |-> TRUE]}
\* The pages of a space go with it.
WithoutSpace(w) == [p \in PageIds |-> IF pages[p] # None /\ pages[p].owner = w
                                       THEN [pages[p] EXCEPT !.status = "trashed"] ELSE pages[p]]
\* The provider takes the delete and removes the space at once or later.
SpaceDelete(w) ==
    /\ work[w].pc = "space_delete"
    /\ \/ spaces' = [spaces EXCEPT ![w] = "gone"] /\ pages' = WithoutSpace(w)
       \/ spaces' = [spaces EXCEPT ![w] = "going"] /\ UNCHANGED pages
    /\ deleted' = Gone(w)
    /\ Now(w, "space_confirm")
    /\ UNCHANGED <<guests, late, clock, faults, kills, people>>
SpaceGoes(w) ==
    /\ spaces[w] = "going"
    /\ spaces' = [spaces EXCEPT ![w] = "gone"] /\ pages' = WithoutSpace(w)
    /\ UNCHANGED <<guests, late, work, Untouched>>
\* verify_compensation: a space that can still be read makes the cleanup fail.
SpaceConfirm(w) ==
    /\ work[w].pc = "space_confirm"
    /\ Exit(w, IF spaces[w] = "gone" THEN 0 ELSE 1)
    /\ UNCHANGED <<Provider, Untouched>>

\* A request of a cleanup or of the reaper fails, a delete perhaps after it took effect.
FailCleanup(w) ==
    /\ faults < MaxFaults /\ faults' = faults + 1
    /\ \/ work[w].pc \in {"terminal", "delete_verify", "delete_read", "delete", "confirm",
                          "clean_space_itself", "space_read", "space_delete", "space_confirm"}
       \/ work[w].pc = "find" /\ work[w].then = "terminal"
    /\ \/ UNCHANGED <<pages, spaces, deleted>>
       \/ /\ work[w].pc = "delete" /\ pages[Target(w).id].status = "current"
          /\ pages' = [pages EXCEPT ![Target(w).id].status = "trashed"]
          /\ deleted' = deleted \cup {[saw |-> work[w].saw, by |-> w,
                                       ownerRuns |-> Running(work[w].saw.owner)]}
          /\ UNCHANGED spaces
       \/ /\ work[w].pc = "space_delete" /\ spaces' = [spaces EXCEPT ![w] = "gone"]
          /\ pages' = WithoutSpace(w) /\ deleted' = Gone(w)
    /\ work' = [work EXCEPT ![w].pc = "done", ![w].exit = 1, ![w].hurt = TRUE]
    /\ UNCHANGED <<guests, late, clock, kills, people>>

\* _reap: the oldest pages whose title has the prefix, the candidates among them.
Searched == {p \in PageIds : pages[p] # None /\ pages[p].indexed /\ pages[p].status = "current"
                             /\ pages[p].owner \notin SpaceJobs}
Oldest == SetToSortSeq(Searched, LAMBDA p, q : \/ pages[p].updated < pages[q].updated
                                               \/ pages[p].updated = pages[q].updated /\ p < q)
Reap(w) ==
    /\ w \in Reapers /\ work[w].pc = "idle"
    /\ LET cutoff == clock - MinAge
           top == SubSeq(Oldest, 1, IF Len(Oldest) < MaxResources THEN Len(Oldest) ELSE MaxResources)
           found == SelectSeq(top, LAMBDA p : StaleCandidate(pages[p], cutoff))
       IN  /\ found # <<>>
           /\ work' = [work EXCEPT ![w].pc = "delete_verify", ![w].cutoff = cutoff,
                         ![w].todo = [i \in 1..Len(found) |-> [id |-> found[i],
                                                                phase |-> pages[found[i]].phase]]]
    /\ UNCHANGED <<Provider, Untouched>>
\* A reaper that stopped is dispatched again.
ReapAgain(w) ==
    /\ w \in Reapers /\ work[w].pc = "done"
    /\ work' = [work EXCEPT ![w] = Idle]
    /\ UNCHANGED <<Provider, Untouched>>

-----------------------------------------------------------------------------
\* The hosted runner is terminated; its private files are gone with it.
Kill(w) ==
    /\ Running(w) /\ kills < MaxKills
    /\ kills' = kills + 1
    /\ work' = [work EXCEPT ![w] = [Idle EXCEPT !.pc = IF w \in Reapers THEN "done" ELSE "killed"]]
    /\ UNCHANGED <<Provider, deleted, clock, faults, people>>
\* The provider's index catches up with a page.
Index(p) ==
    /\ pages[p] # None /\ ~pages[p].indexed
    /\ pages' = [pages EXCEPT ![p].indexed = TRUE]
    /\ UNCHANGED <<spaces, guests, late, work, Untouched>>
\* A person edits a page, writes a page of the same title prefix, or a page in a created space.
Person ==
    /\ people < MaxPeople /\ people' = people + 1
    /\ \/ \E p \in PageIds :
            /\ pages[p] # None /\ pages[p].status = "current"
            /\ pages' = [pages EXCEPT ![p].phase = "edited", ![p].version = @ + 1,
                                      ![p].updated = clock]
            /\ UNCHANGED guests
       \/ \E p \in FreeIds :
            /\ \A q \in FreeIds : p <= q
            /\ pages' = [pages EXCEPT ![p] =
                  [owner |-> CHOOSE w \in Reapers : TRUE, auth |-> FALSE, created |-> clock,
                   updated |-> clock, phase |-> "create", version |-> 1, status |-> "current",
                   indexed |-> TRUE]]
            /\ UNCHANGED guests
       \/ \E w \in SpaceJobs :
            /\ spaces[w] = "current" /\ ~guests[w]
            /\ guests' = [guests EXCEPT ![w] = TRUE] /\ UNCHANGED pages
    /\ UNCHANGED <<spaces, late, work, deleted, clock, faults, kills>>
\* Time passes; a runner is never older than its timeout.
Tick ==
    /\ clock < MaxClock
    /\ \A w \in Jobs : Running(w) => clock - work[w].started < JobLimit
    /\ clock' = clock + 1
    /\ UNCHANGED <<Provider, work, deleted, faults, kills, people>>

\* _space_lifecycle up to the page in its space, and _page_lifecycle.
SpaceStep(w) == SpaceMetadata(w) \/ ResumeSpace(w) \/ FindSpace(w)
PageStep(w) ==
    \/ PageMetadata(w) \/ ResumeCreate(w) \/ ResumeUpdate(w)
    \/ FindPage(w) \/ VerifyPage(w) \/ PersistPage(w)
LifecycleStep(w) == Start(w) \/ Request(w) \/ SpaceStep(w) \/ PageStep(w)
CleanupStep(w) ==
    \/ CleanupPage(w) \/ FindConflict(w) \/ PageIsTerminal(w) \/ CleanedPage(w)
    \/ CleanupSpace(w) \/ LookupSpace(w) \/ SpaceRead(w) \/ SpaceDelete(w) \/ SpaceConfirm(w)
DeleteStep(w) == DeleteVerify(w) \/ DeleteRead(w) \/ Delete(w) \/ ConfirmDeleted(w)
\* An update whose page is not as the run left it is refused by its version.
RefuseUpdate(w) ==
    /\ work[w].pc = "update_resume" /\ ~Matches(pages[work[w].id], "create")
    /\ Failed(w)
    /\ UNCHANGED <<Provider, Untouched>>

SandboxNext ==
    \/ \E w \in Jobs : LifecycleStep(w) \/ CleanupStep(w) \/ RefuseUpdate(w) \/ FailStep(w)
                       \/ LoseAnswer(w) \/ SendLate(w) \/ ApplyLate(w)
    \/ \E w \in SpaceJobs : SpaceGoes(w)
    \/ \E w \in Reapers : Reap(w) \/ ReapAgain(w)
    \/ \E w \in Workers : DeleteStep(w) \/ FailCleanup(w) \/ Kill(w)
    \/ \E p \in PageIds : Index(p)
    \/ Person \/ Tick
    \/ (clock = MaxClock /\ \A w \in Jobs : ~Running(w)) /\ UNCHANGED sandboxVars

SandboxSpec == SandboxInit /\ [][SandboxNext]_sandboxVars

\* The index catches up, time passes, jobs go on until they end, and the reaper is dispatched again
\* and again.
SandboxFairness ==
    /\ WF_sandboxVars(Tick)
    /\ \A p \in PageIds : WF_sandboxVars(Index(p))
    /\ \A w \in Jobs : WF_sandboxVars(LifecycleStep(w) \/ CleanupStep(w) \/ RefuseUpdate(w) \/ DeleteStep(w))
    /\ \A w \in Reapers : WF_sandboxVars(Reap(w) \/ ReapAgain(w) \/ DeleteStep(w))
SandboxFairSpec == SandboxSpec /\ SandboxFairness

-----------------------------------------------------------------------------
\* The shape of the state.
SandboxTypeOK ==
    /\ \A p \in PageIds : pages[p] # None =>
        /\ pages[p].phase \in {"create", "update", "edited"}
        /\ pages[p].status \in {"current", "trashed"}
        /\ pages[p].updated \in 0..clock /\ pages[p].created \in 0..clock
    /\ \A w \in Workers : work[w].exit \in {-1, 0, 1}
    /\ \A w \in Workers : work[w].pc = "done" => work[w].exit # -1 \/ w \in Reapers

\* A job creates its page at most once, whatever answers are lost: a mutation is never retried
\* (_run_governed_plan).
CreatedOnce ==
    \A p, q \in PageIds :
        pages[p] # None /\ pages[q] # None /\ pages[p].auth /\ pages[q].auth
            /\ pages[p].owner = pages[q].owner => p = q

\* Whatever the harness deletes was, at the read just before the delete, exactly as a job had left it
\* and signed by it: a page a person edited, a lookalike and a space with somebody's page in it are
\* spared unless the edit falls between that read and the delete (_delete_verified_page,
\* _delete_created_space).
DeletedWasOwn ==
    \A d \in deleted : IF "guest" \in DOMAIN d.saw THEN ~d.saw.guest ELSE Owned(d.saw)

\* The reaper never takes a page from a job that is still at work: what it deletes is older than any
\* job may run (is_stale_candidate).
ReaperSparesRunning == \A d \in deleted : d.by \in Reapers => ~d.ownerRuns

\* A cleanup step that ends well leaves no page or space of its job behind that is still as the job
\* made it (_cleanup_page, _cleanup_space; "fresh bounded search confirms no active owned sandbox
\* page"), unless its search came before the provider's index knew the page, or before a create took
\* effect whose command had been given up.
CleanMeansGone ==
    \A w \in Jobs : work[w].pc = "done" /\ work[w].exit = 0 /\ ~work[w].missed =>
        /\ \A p \in PageIds : Owned(pages[p]) => pages[p].owner # w
        /\ w \in SpaceJobs => spaces[w] \in {"none", "gone"}

\* A cleanup step fails only for what it is to refuse: when nobody touched the job's page or its
\* space, no request of the cleanup failed and the provider does not take its time to remove a space,
\* it ends well, wherever the lifecycle stopped (_cleanup_page prefers what the provider says over its
\* stale state files), unless its search missed the page.
CleanupFailsForAReason ==
    \A w \in Jobs : work[w].pc = "done" /\ work[w].exit = 1 =>
        \/ work[w].hurt \/ work[w].missed
        \/ \E p \in PageIds : pages[p] # None /\ pages[p].owner = w /\ pages[p].phase = "edited"
        \/ w \in SpaceJobs /\ (guests[w] \/ "guest" \in DOMAIN work[w].saw)

Leftover(p) == /\ pages[p] # None /\ Owned(pages[p]) /\ pages[p].owner \in PageJobs
               /\ work[pages[p].owner].pc = "killed"

\* The reaper's search is full before it comes to page p: of pages that are older and never will be
\* candidates, because people edited or wrote them.
Hidden(p) == Cardinality({q \in Searched :
                 /\ ~Owned(pages[q])
                 /\ \/ pages[q].updated < pages[p].updated
                    \/ pages[q].updated = pages[p].updated /\ q < p}) >= MaxResources

\* A page that a terminated runner left, and nobody touches, is in the trash in the end when the
\* reaper is dispatched again and again, unless older pages that are no candidates fill its search
\* (_reap; docs/confluence-sandbox-tests.md, "Stale cleanup and recovery").
LeftoversAreReaped == \A p \in PageIds : Leftover(p) ~> ~Leftover(p) \/ Hidden(p)
=============================================================================
