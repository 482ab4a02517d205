------------------------- MODULE AdvisoryDelegation -------------------------
(***************************************************************************)
(* Read-only advisory delegation: scripts/advisory_subagent.py run(), the  *)
(* repository binding and path scope of copilot_advisory.py, the session   *)
(* of advisory.py and the durable budget of advisory_budget.py.  Several   *)
(* runner processes serve one operator goal while somebody edits the       *)
(* repository and processes die.  The repository is three items: "head"    *)
(* (HEAD, the index and the routing files), "in" (a file of the requested  *)
(* scope) and "out" (any other file).  An item has a content version and a *)
(* stamp (inode and times) that every edit moves, so an edit may bring old *)
(* content back but never an old stamp.                                    *)
(***************************************************************************)
EXTENDS Integers, Sequences, FiniteSets

CONSTANTS Runs,          \* runner processes
          Limit,         \* Limit[role]: MAX_RESEARCH_TASKS, MAX_PLAN_REVIEWS
          Order,         \* the items a snapshot reads, in order
          MaxEdits,      \* bound on edits of the repository
          MaxKeyLosses   \* bound on deletions of the key file

Roles == {"research", "review"}
Items == {"head", "in", "out"}

\* What the constants are.
DelegationAssumption ==
    /\ "none" \notin Runs
    /\ Order \in Seq(Items) \ {<<>>} /\ \E k \in 1..Len(Order) : Order[k] = "in"
    /\ Limit \in [Roles -> Nat \ {0}] /\ MaxEdits \in Nat /\ MaxKeyLosses \in Nat

VARIABLES repo,      \* item -> [ver, stamp]
          key,       \* .budget.hmac-key: Absent, Torn or the number of a key
          lock,      \* holder of the lock on the state directory
          row,       \* the goal's budget row, or NoRow
          run,       \* run -> its locals
          calls,     \* ghost: SDK sessions opened, per role
          served,    \* ghost: contents of "in" a tool returned, per run
          edits, losses

delegationVars == <<repo, key, lock, row, run, calls, served, edits, losses>>

None == "none"
Absent == 0
Torn == -1
NoRow == [used |-> [o \in Roles |-> 0], tag |-> 0]
Unread == [i \in Items |-> 0]
Steps == {"start", "scan", "route", "scope", "open", "write", "reserve", "check",
          "sdk", "cite", "done", "fallback", "dead"}
Ended == {"done", "fallback", "dead"}

DelegationInit ==
    /\ repo = [i \in Items |-> [ver |-> 1, stamp |-> 1]]
    /\ key = Absent /\ lock = None /\ row = NoRow
    /\ run \in [Runs -> {[pc |-> "start", role |-> o, why |-> None, n |-> 0,
                          one |-> Unread, bound |-> Unread, file |-> [ver |-> 0, stamp |-> 0],
                          key |-> 0] : o \in Roles}]
    /\ calls = [o \in Roles |-> 0] /\ served = [r \in Runs |-> {}]
    /\ edits = 0 /\ losses = 0

-----------------------------------------------------------------------------
At(r, pc) == run[r].pc = pc
Goto(r, pc) == run' = [run EXCEPT ![r].pc = pc]
StartScan(r, why) ==
    run' = [run EXCEPT ![r].pc = "scan", ![r].why = why, ![r].n = 0, ![r].one = Unread]

\* main: one validated route and the role of this runner.
Start(r) ==
    /\ At(r, "start") /\ StartScan(r, "bind")
    /\ UNCHANGED <<repo, key, lock, row, calls, served, edits, losses>>

\* _binding and its callers: a later binding must equal the one that authorised
\* the route.
Authorised(r, seen) == seen = run[r].bound

\* Where a completed scan leads.  The digest of the first binding authorises the
\* route; every later one must equal it.
ScanDone(r, seen) ==
    LET s == run[r] IN
    CASE s.why = "bind" -> [s EXCEPT !.pc = "route", !.bound = seen]
      [] s.why = "rebind" -> [s EXCEPT !.pc = IF Authorised(r, seen) THEN "scope" ELSE "fallback"]
      [] s.why = "before" -> [s EXCEPT !.pc = IF Authorised(r, seen) THEN "sdk" ELSE "fallback"]
      [] s.why = "after" -> [s EXCEPT !.pc = IF Authorised(r, seen) THEN "cite" ELSE "fallback"]

\* What a snapshot records of one item: its content, never its stamp.  "out"
\* stands for an untracked file.
TrackedState(i) == repo[i].ver
UntrackedState(i) == repo[i].ver
State(i) == IF i = "out" THEN UntrackedState(i) ELSE TrackedState(i)

\* repository_state_binding: two snapshots, item by item, that must agree.  A
\* difference is acted on when it is met; the code acts at the second one's end.
Scan(r) ==
    /\ At(r, "scan")
    /\ LET s == run[r]
           first == s.n < Len(Order)
           i == Order[IF first THEN s.n + 1 ELSE s.n + 1 - Len(Order)]
           last == s.n = 2 * Len(Order) - 1
           next == IF first THEN [s EXCEPT !.n = @ + 1, !.one[i] = State(i)]
                   ELSE IF s.one[i] # State(i) THEN [s EXCEPT !.pc = "fallback"]
                   ELSE IF last THEN ScanDone(r, s.one)
                   ELSE [s EXCEPT !.n = @ + 1]
       IN run' = [run EXCEPT ![r] = next]
    /\ UNCHANGED <<repo, key, lock, row, calls, served, edits, losses>>

\* _require_index_and_worktree_blob: index and worktree hold the routing files of
\* the bound revision.
RevisionHeld(r) == repo["head"].ver = run[r].bound["head"]

\* The manifest and the agent profiles are read from the bound revision.
LoadRoute(r) ==
    /\ At(r, "route")
    /\ IF RevisionHeld(r) THEN StartScan(r, "rebind")
       ELSE Goto(r, "fallback")
    /\ UNCHANGED <<repo, key, lock, row, calls, served, edits, losses>>

\* AdvisoryPathScope.bind
BindScope(r) ==
    /\ At(r, "scope")
    /\ run' = [run EXCEPT ![r].pc = "open", ![r].file = repo["in"]]
    /\ UNCHANGED <<repo, key, lock, row, calls, served, edits, losses>>

\* _load_or_create_key takes the directory's lock.  An absent key is created
\* empty and then written; one of the wrong length is refused.
OpenBudget(r) ==
    /\ At(r, "open") /\ lock = None
    /\ \/ key = Absent /\ key' = Torn /\ lock' = r /\ Goto(r, "write")
       \/ key = Torn /\ Goto(r, "fallback") /\ UNCHANGED <<key, lock>>
       \/ key > 0 /\ run' = [run EXCEPT ![r].pc = "reserve", ![r].key = key]
          /\ UNCHANGED <<key, lock>>
    /\ UNCHANGED <<repo, row, calls, served, edits, losses>>

WriteKey(r) ==
    /\ At(r, "write") /\ key' = losses + 1 /\ lock' = None
    /\ run' = [run EXCEPT ![r].pc = "reserve", ![r].key = losses + 1]
    /\ UNCHANGED <<repo, row, calls, served, edits, losses>>

\* A write that raises removes the key file it created.
WriteKeyFails(r) ==
    /\ At(r, "write") /\ key' = Absent /\ lock' = None /\ Goto(r, "fallback")
    /\ UNCHANGED <<repo, row, calls, served, edits, losses>>

\* Faulty variant: a row whose tag does not verify counts as a fresh one.
ReadableForgiving(r) == TRUE

\* _verified_counts: a row exists only with a tag made under the key in use.
Readable(r) == row.tag \in {0, run[r].key}

Counts(r) == IF row.tag = run[r].key THEN row.used ELSE NoRow.used

Allowed(r) == Counts(r)[run[r].role] < Limit[run[r].role]

\* AdvisorySession.delegate and AdvisoryBudgetStore.reserve: one transaction.
Reserve(r) ==
    /\ At(r, "reserve")
    /\ IF Readable(r) /\ Allowed(r)
       THEN /\ row' = [used |-> [Counts(r) EXCEPT ![run[r].role] = @ + 1], tag |-> run[r].key]
            /\ run' = [run EXCEPT ![r].pc = "check", ![r].why = "before"]
       ELSE Goto(r, "fallback") /\ row' = row
    /\ UNCHANGED <<repo, key, lock, calls, served, edits, losses>>

\* resolve_file and _matches_file_binding: inode, size, mode and times.
SameFile(r) == repo["in"].stamp = run[r].file.stamp

\* _read_stable_regular_file: the same file all along, with the bound digest.
Matches(r) == SameFile(r) /\ repo["in"].ver = run[r].file.ver

\* _binding: the scope is validated first, then the repository is scanned.
Validate(r) ==
    /\ At(r, "check")
    /\ IF Matches(r) THEN StartScan(r, run[r].why) ELSE Goto(r, "fallback")
    /\ UNCHANGED <<repo, key, lock, row, calls, served, edits, losses>>

\* CopilotSdkAdvisoryWorker._run opens a session; its tools read the scope.
OpenSession(r) ==
    /\ At(r, "sdk") /\ run[r].why = "before"
    /\ calls' = [calls EXCEPT ![run[r].role] = @ + 1]
    /\ run' = [run EXCEPT ![r].why = "session"]
    /\ UNCHANGED <<repo, key, lock, row, served, edits, losses>>

\* ScopedRepositoryTools.invoke: a changed file fails the whole delegation.
ToolRead(r) ==
    /\ At(r, "sdk") /\ run[r].why = "session"
    /\ IF Matches(r)
       THEN served' = [served EXCEPT ![r] = @ \cup {repo["in"].ver}] /\ run' = run
       ELSE Goto(r, "fallback") /\ UNCHANGED served
    /\ UNCHANGED <<repo, key, lock, row, calls, edits, losses>>

\* The report parses; the same bindings are taken again.
Report(r) ==
    /\ At(r, "sdk") /\ run[r].why = "session"
    /\ run' = [run EXCEPT ![r].pc = "check", ![r].why = "after"]
    /\ UNCHANGED <<repo, key, lock, row, calls, served, edits, losses>>

\* The parent reads every citation again under the scope before it prints.
Recheck(r) ==
    /\ At(r, "cite") /\ Goto(r, IF Matches(r) THEN "done" ELSE "fallback")
    /\ UNCHANGED <<repo, key, lock, row, calls, served, edits, losses>>

\* A rejected scan, an unavailable SDK, a refused report, a budget error.
Fail(r) ==
    /\ run[r].pc \in Steps \ (Ended \cup {"start", "write"}) /\ Goto(r, "fallback")
    /\ UNCHANGED <<repo, key, lock, row, calls, served, edits, losses>>

\* The process dies: its lock is released by the kernel, its files stay.
Crash(r) ==
    /\ run[r].pc \notin Ended \cup {"start"} /\ Goto(r, "dead")
    /\ lock' = IF lock = r THEN None ELSE lock
    /\ UNCHANGED <<repo, key, row, calls, served, edits, losses>>

\* Somebody edits an item; content may return to what it was.
Edit(i) ==
    /\ edits < MaxEdits /\ edits' = edits + 1
    /\ repo' = [repo EXCEPT ![i] = [ver |-> 3 - @.ver, stamp |-> edits + 2]]
    /\ UNCHANGED <<key, lock, row, run, calls, served, losses>>

\* Somebody deletes the key file, keeping the database.
LoseKey ==
    /\ losses < MaxKeyLosses /\ lock = None /\ key # Absent
    /\ key' = Absent /\ losses' = losses + 1
    /\ UNCHANGED <<repo, lock, row, run, calls, served, edits>>

DelegationNext ==
    \/ \E r \in Runs :
          \/ Start(r) \/ Scan(r) \/ LoadRoute(r) \/ BindScope(r) \/ OpenBudget(r)
          \/ WriteKey(r) \/ WriteKeyFails(r) \/ Reserve(r) \/ Validate(r)
          \/ OpenSession(r) \/ ToolRead(r) \/ Report(r) \/ Recheck(r)
          \/ Fail(r) \/ Crash(r)
    \/ \E i \in Items : Edit(i)
    \/ LoseKey

DelegationSpec == DelegationInit /\ [][DelegationNext]_delegationVars

-----------------------------------------------------------------------------
(* Properties *)

\* Types of the state; the lock is held exactly by the run that writes the key.
DelegationTypeOK ==
    /\ \A r \in Runs : run[r].pc \in Steps /\ run[r].n \in 0..(2 * Len(Order))
    /\ \A r \in Runs : At(r, "write") <=> lock = r
    /\ key \in {Torn, Absent} \cup 1..(losses + 1)

\* Across every process, crash and retry of one operator goal, and even when the
\* key file is lost and made again, the SDK is never called more often than the
\* role's limit: the attempt is consumed before the call and never returned, and
\* a row that does not authenticate is refused, not restarted
\* (AdvisoryBudgetStore.reserve, _verified_counts).
BudgetNeverExceeded == \A o \in Roles : calls[o] <= Limit[o]

\* Every content a tool served to the model is the content of the repository
\* state that authorised the route, although the scope is bound after the route
\* and either may be edited and edited back between any two reads
\* (AdvisoryPathScope.resolve_file, _matches_file_binding, _binding).
ServedIsAuthorised == \A r \in Runs : served[r] \subseteq {run[r].bound["in"]}

\* Every content served to the model is of the repository state that
\* authorised the route, although files are edited and edited back between any
\* two reads; and across processes, crashes, retries and a lost key file the
\* SDK is never called more often than the role's limit (copilot_advisory.py,
\* advisory_budget.py).
AdviceIsBudgeted == DelegationTypeOK /\ BudgetNeverExceeded /\ ServedIsAuthorised
=============================================================================
