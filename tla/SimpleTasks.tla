---------------------------- MODULE SimpleTasks -----------------------------
(***************************************************************************)
(* The simple runtime (simple/masteragent): one development task kept in   *)
(* the TaskStore, the commands develop, checks, publish, resume, cancel    *)
(* and resolve run against it by several processes, the worktree the host  *)
(* assistant edits and commits in, and the providers, whose answers may be *)
(* lost.  Every transaction of the store is one step, as is every request. *)
(* The other reads of a review are represented by the read of its issue.   *)
(***************************************************************************)
EXTENDS Integers, Sequences, FiniteSets

CONSTANTS
  Workers,       \* processes
  Targets,       \* account targets the configuration may name
  Params,        \* publication parameters
  MaxRuns,       \* bound: commands started
  MaxCommits,    \* bound: commits in the worktree
  MaxPerson,     \* bound: cancel and setup commands
  MaxFaults,     \* bound: lost or refused requests, failed checks and kills
  Careful        \* commands are given one at a time, and where they help

\* What the constants are.
SimpleAssumption ==
  /\ Targets \subseteq Nat \ {0} /\ Params \subseteq Nat \ {0}
  /\ {MaxRuns, MaxCommits, MaxPerson, MaxFaults} \subseteq Nat
  /\ Careful \in BOOLEAN

Writes == {"push", "pr", "comment"}
Reads == {"issue", "prepare", "connJ", "connB"}
Steps == Writes \cup Reads
None == -1

VARIABLES
  task,      \* row of tasks: status, generation, whether a workspace was saved
  steps,     \* rows of steps
  worker,    \* the processes
  target,    \* account targets in config.json
  pub,       \* publication.json (0: absent)
  evidence,  \* checks.json: head 0 when absent
  tree,      \* the worktree: commit and whether it is dirty
  effects,   \* what the remotes accepted, in order
  stray,     \* writes declared absent while a process was still at them; also
             \* "params" when two publications crossed
  passed,    \* commits some evidence was written for
  count      \* commands, person commands and faults so far

vars == <<task, steps, worker, target, pub, evidence, tree, effects, stray, passed, count>>
world == <<target, pub, evidence, tree, effects, stray, passed>>

Idle == [pc |-> "idle", cmd |-> "none", cfg |-> 0, par |-> 0, gen |-> None,
         claim |-> [s \in Steps |-> 0], step |-> "issue", seen |-> 0, base |-> 0, clean |-> TRUE,
         pushDone |-> FALSE, reread |-> FALSE, bad |-> FALSE]

\* _connect: the tables are created and no task has a row yet.
SimpleInit ==
  /\ task = [status |-> "none", gen |-> 0, ws |-> FALSE]
  /\ steps = [s \in Steps |-> [status |-> "none", attempt |-> 0, claim |-> 0, res |-> 0]]
  /\ worker = [w \in Workers |-> Idle]
  /\ target \in Targets
  /\ pub = 0
  /\ evidence = [head |-> 0, ok |-> FALSE]
  /\ tree = [head |-> 1, dirty |-> FALSE]
  /\ effects = <<>>
  /\ stray = {}
  /\ passed = {}
  /\ count = [runs |-> 0, person |-> 0, faults |-> 0]

Made(kind) == {i \in 1..Len(effects) : effects[i].kind = kind}
Set(w, r) == worker' = [worker EXCEPT ![w] = r]
Goto(w, pc) == Set(w, [worker[w] EXCEPT !.pc = pc])
At(w, pc) == worker[w].pc = pc
End(w) == Set(w, Idle)
Fault == count.faults < MaxFaults /\ count' = [count EXCEPT !.faults = @ + 1]

-----------------------------------------------------------------------------
(* TaskStore *)

\* _active: the task is running and this process was not superseded.
Active(w) ==
  /\ task.status = "running"
  /\ worker[w].gen \in {None, task.gen}

Conn(s) == IF s = "pr" THEN "connB" ELSE "connJ"
HasConnection(s) == s \in {"issue", "pr", "comment"}

\* What follows a step, of the reads and of a publication.
After(w, s) ==
  CASE s = "issue"   -> IF worker[w].reread THEN "evidence" ELSE "begin"
    [] s = "prepare" -> "wait"
    [] s = "comment" -> "finish"
    [] OTHER         -> "begin"
Following(w, s) ==
  CASE s = "issue" -> IF worker[w].reread THEN "push" ELSE "prepare"
    [] s = "push"  -> "pr"
    [] s = "pr"    -> "comment"
    [] OTHER       -> s

Proceed(w, r, s) ==
  Set(w, [r EXCEPT !.pc = After(w, s), !.step = Following(w, s)])

\* Faulty variant: a write that is running or uncertain is claimed again.
ReclaimsAny(s) == TRUE

\* A row that is failed, or a running read, may be claimed again.
Claimable(s) == ~(s \in Writes /\ steps[s].status \in {"running", "uncertain"})

Claim(s) == [steps EXCEPT ![s].status = "running", ![s].attempt = @ + 1,
                          ![s].claim = steps[s].attempt + 1, ![s].res = 0]

\* begin_step: the row is claimed, or its completed result returned.
BeginStep(w) ==
  LET s == worker[w].step IN
  /\ At(w, "begin")
  /\ IF ~Active(w) \/ (steps[s].status # "completed" /\ ~Claimable(s))
       THEN Goto(w, "fail") /\ steps' = steps
     ELSE IF steps[s].status = "completed"
       THEN Proceed(w, [worker[w] EXCEPT !.gen = task.gen], s) /\ steps' = steps
     ELSE /\ steps' = Claim(s)
          /\ Set(w, [worker[w] EXCEPT !.gen = task.gen, !.claim[s] = steps[s].attempt + 1,
                       !.pc = IF HasConnection(s) THEN "conn" ELSE s])
  /\ UNCHANGED <<task, world, count>>

\* _provider: the connection step nested in the action of a step.  Its result
\* is the target this process uses, or the one saved before.
BeginConnection(w) ==
  LET c == Conn(worker[w].step) IN
  /\ At(w, "conn")
  /\ IF ~Active(w)
       THEN Goto(w, "failstep") /\ steps' = steps
     ELSE IF steps[c].status = "completed"
       THEN /\ Goto(w, IF steps[c].res = worker[w].cfg THEN worker[w].step ELSE "failstep")
            /\ steps' = steps
     ELSE /\ steps' = Claim(c)
          /\ Set(w, [worker[w] EXCEPT !.claim[c] = steps[c].attempt + 1, !.pc = "saveconn"])
  /\ UNCHANGED <<task, world, count>>

\* _save_step updates the row only under this process's claim.
Owns(w, s) == steps[s].status = "running" /\ steps[s].claim = worker[w].claim[s]

SaveConnection(w) ==
  LET c == Conn(worker[w].step) IN
  /\ At(w, "saveconn")
  /\ IF Active(w) /\ Owns(w, c)
       THEN /\ steps' = [steps EXCEPT ![c] = [@ EXCEPT !.status = "completed", !.claim = 0,
                                               !.res = worker[w].cfg]]
            /\ Set(w, [worker[w] EXCEPT !.claim[c] = 0, !.pc = worker[w].step])
       ELSE Goto(w, "failstep") /\ steps' = steps
  /\ UNCHANGED <<task, world, count>>

\* complete_step; its error is not the step's but the run's.
CompleteStep(w) ==
  LET s == worker[w].step IN
  /\ At(w, "save")
  /\ IF Active(w) /\ Owns(w, s)
       THEN /\ steps' = [steps EXCEPT ![s] = [@ EXCEPT !.status = "completed", !.claim = 0,
                                               !.res = worker[w].seen]]
            /\ Proceed(w, [worker[w] EXCEPT !.claim[s] = 0], s)
       ELSE Goto(w, "fail") /\ steps' = steps
  /\ UNCHANGED <<task, world, count>>

\* fail_step: an unknown outcome of a write is uncertain.
FailedStatus(w) == IF worker[w].bad THEN "uncertain" ELSE "failed"

FailStep(w) ==
  LET s == worker[w].step IN
  /\ At(w, "failstep")
  /\ steps' = IF Active(w) /\ Owns(w, s)
                THEN [steps EXCEPT ![s].status = FailedStatus(w), ![s].claim = 0]
                ELSE steps
  /\ Set(w, [worker[w] EXCEPT !.pc = "fail", !.bad = FALSE])
  /\ UNCHANGED <<task, world, count>>

\* fail: the run's handler marks the task failed, if it still may.
FailTask(w) ==
  /\ At(w, "fail")
  /\ task' = IF Active(w) THEN [task EXCEPT !.status = "failed"] ELSE task
  /\ End(w)
  /\ UNCHANGED <<steps, world, count>>

\* wait: the prepared workspace is the task's result.
Wait(w) ==
  /\ At(w, "wait")
  /\ IF Active(w)
       THEN task' = [task EXCEPT !.status = "waiting", !.ws = TRUE] /\ End(w)
       ELSE task' = task /\ Goto(w, "fail")
  /\ UNCHANGED <<steps, world, count>>

\* finish: every row that was begun is completed.
Finish(w) ==
  /\ At(w, "finish")
  /\ IF Active(w) /\ \A s \in Steps : steps[s].status \in {"none", "completed"}
       THEN task' = [task EXCEPT !.status = "completed"] /\ End(w)
       ELSE task' = task /\ Goto(w, "fail")
  /\ UNCHANGED <<steps, world, count>>

Quiescent == \A w \in Workers : At(w, "idle")
Interrupted(s) == s \in Writes /\ steps[s].status \in {"running", "uncertain"}

\* cancel: running writes become uncertain, running reads failed.
Cancel ==
  /\ count.person < MaxPerson /\ count' = [count EXCEPT !.person = @ + 1]
  /\ task.status \notin {"none", "completed", "cancelled"}
  /\ task' = [task EXCEPT !.status = "cancelled", !.gen = @ + 1]
  /\ steps' = [s \in Steps |->
       IF steps[s].status # "running" THEN steps[s]
       ELSE [steps[s] EXCEPT !.status = IF s \in Writes THEN "uncertain" ELSE "failed",
                             !.claim = 0]]
  /\ UNCHANGED <<worker, world>>

\* resolve --result-file: the person saw the write at the provider.
ResolveStep(s) ==
  /\ Interrupted(s) /\ Made(s) # {} /\ (Careful => Quiescent)
  /\ steps' = [steps EXCEPT ![s].status = "completed", ![s].claim = 0,
                            ![s].res = effects[CHOOSE i \in Made(s) : TRUE].commit]
  /\ UNCHANGED <<task, worker, world, count>>

\* resolve --not-applied: the person saw that it is absent.
RetryStep(s) ==
  /\ Interrupted(s) /\ Made(s) = {} /\ (Careful => Quiescent)
  /\ steps' = [steps EXCEPT ![s].status = "failed", ![s].claim = 0]
  /\ task' = [task EXCEPT !.gen = @ + 1]
  /\ stray' = stray \cup IF \E w \in Workers : worker[w].claim[s] # 0 THEN {s} ELSE {}
  /\ UNCHANGED <<worker, target, pub, evidence, tree, effects, passed, count>>

-----------------------------------------------------------------------------
(* Commands *)

MayStart == count.runs < MaxRuns

Checked == evidence = [head |-> tree.head, ok |-> TRUE] /\ ~tree.dirty

\* A careful person settles interrupted writes first, checks what is not
\* checked, and continues what was started.
Sensible(cmd) ==
  Careful =>
    /\ Quiescent /\ \A s \in Writes : ~Interrupted(s)
    /\ cmd = "checks" => ~Checked /\ ~tree.dirty
    /\ cmd = "publish" => Checked /\ task.status = "waiting"
    /\ cmd = "resume" =>
         \/ task.status = "cancelled"
         \/ task.status \in {"running", "failed"}
            /\ (pub # 0 => Checked \/ steps["push"].status = "completed")

Started == count' = [count EXCEPT !.runs = @ + 1]
Fresh(w, cmd, pc) == [Idle EXCEPT !.pc = pc, !.cmd = cmd, !.cfg = target]

\* develop creates the task.
Develop(w) ==
  /\ At(w, "idle") /\ MayStart /\ task.status = "none"
  /\ task' = [task EXCEPT !.status = "running"]
  /\ Set(w, [Fresh(w, "develop", "begin") EXCEPT !.gen = 0])
  /\ Started
  /\ UNCHANGED <<steps, world>>

\* publish reads the task: a workspace is saved and it is not cancelled.
Publish(w, p) ==
  /\ At(w, "idle") /\ MayStart
  /\ task.ws /\ task.status \notin {"cancelled", "completed"}
  /\ Sensible("publish")
  /\ Set(w, [Fresh(w, "publish", "params") EXCEPT !.par = p,
               !.clean = \A s \in Writes : steps[s].status = "none"])
  /\ Started
  /\ UNCHANGED <<task, steps, world>>

\* The parameters may change until the first write has a row.
MayReplace(w) == worker[w].clean

ReadParams(w) ==
  /\ At(w, "params")
  /\ IF pub = worker[w].par THEN Goto(w, "get")
     ELSE IF pub = 0 \/ MayReplace(w) THEN Goto(w, "saveparams")
     ELSE End(w)
  /\ UNCHANGED <<task, steps, world, count>>

\* Another publication took its parameters, or began to write, after this
\* process had read the task.
Crosses(w) ==
  \/ worker[w].clean /\ \E s \in Writes : steps[s].status # "none"
  \/ \E v \in Workers : /\ worker[v].pc \notin {"params", "saveparams"}
                        /\ worker[v].par \notin {0, worker[w].par}

SaveParams(w) ==
  /\ At(w, "saveparams")
  /\ pub' = worker[w].par
  /\ Goto(w, "get")
  /\ stray' = stray \cup IF Crosses(w) THEN {"params"} ELSE {}
  /\ UNCHANGED <<task, steps, target, evidence, tree, effects, passed, count>>

\* _run_publish reads the task before it resumes it.
GetTask(w) ==
  /\ At(w, "get")
  /\ Set(w, [worker[w] EXCEPT !.pc = "resume", !.pushDone = steps["push"].status = "completed",
               !.reread = TRUE,
               !.step = IF \E s \in Reads : steps[s].status \notin {"none", "completed"}
                          THEN "issue" ELSE "push"])
  /\ UNCHANGED <<task, steps, world, count>>

\* resume takes the task over from any process that is still at it.
NewGeneration == task.gen + 1

\* TaskStore.resume; then the reads that failed, or the evidence, or, when no
\* publication was started, the development run.
ResumeTask(w) ==
  /\ At(w, "resume")
  /\ IF task.status = "completed" THEN End(w) /\ task' = task
     ELSE /\ task' = [task EXCEPT !.status = "running", !.gen = NewGeneration]
          /\ Set(w, [worker[w] EXCEPT !.gen = NewGeneration,
               !.pc = IF ~worker[w].reread THEN "route"
                      ELSE IF worker[w].step = "issue" THEN "begin" ELSE "evidence"])
  /\ UNCHANGED <<steps, world, count>>

Resume(w) ==
  /\ At(w, "idle") /\ MayStart /\ task.status \notin {"none", "completed"}
  /\ Sensible("resume")
  /\ Set(w, Fresh(w, "resume", "resume"))
  /\ Started
  /\ UNCHANGED <<task, steps, world>>

\* Workflows.resume: the saved publication is continued, else the development.
Route(w) ==
  /\ At(w, "route")
  /\ Set(w, [worker[w] EXCEPT !.pc = IF pub # 0 THEN "get" ELSE "begin", !.par = pub])
  /\ UNCHANGED <<task, steps, world, count>>

\* inspect_worktree: HEAD, and whether anything is changed or untracked.
Inspected == tree

\* Passing checks for the current clean commit.
EvidenceHolds == evidence.ok /\ ~Inspected.dirty /\ evidence.head = Inspected.head

CheckEvidence(w) ==
  /\ At(w, "evidence")
  /\ IF worker[w].pushDone \/ EvidenceHolds
       THEN Set(w, [worker[w] EXCEPT !.pc = "begin", !.step = "push",
                                     !.base = IF worker[w].pushDone THEN 0 ELSE Inspected.head])
       ELSE Goto(w, "fail")
  /\ UNCHANGED <<task, steps, world, count>>

\* checks: the worktree before, the commands, the worktree after.
Checks(w) ==
  /\ At(w, "idle") /\ MayStart /\ task.ws /\ task.status # "cancelled"
  /\ Sensible("checks")
  /\ Set(w, [Fresh(w, "checks", "run") EXCEPT !.seen = Inspected.head, !.clean = ~Inspected.dirty])
  /\ Started
  /\ UNCHANGED <<task, steps, world>>

\* run_checks: all commands exit with 0, or one fails or times out.
CheckCommands(ok) == IF ok THEN count' = count ELSE Fault

WriteEvidence(w) ==
  /\ At(w, "run")
  /\ \E ok \in BOOLEAN :
       /\ CheckCommands(ok)
       /\ LET good == /\ ok /\ worker[w].clean /\ ~Inspected.dirty
                      /\ Inspected.head = worker[w].seen
          IN
            /\ evidence' = [head |-> worker[w].seen, ok |-> good]
            /\ passed' = passed \cup IF good THEN {worker[w].seen} ELSE {}
  /\ End(w)
  /\ UNCHANGED <<task, steps, target, pub, tree, effects, stray>>

-----------------------------------------------------------------------------
(* Requests *)

\* base: the commit a push was allowed for.
Effect(kind, w, commit) == [kind |-> kind, target |-> worker[w].cfg, par |-> worker[w].par,
                            commit |-> commit, base |-> worker[w].base]
Accept(e) == effects' = Append(effects, e)

Repeatable(w) ==
  /\ \/ Goto(w, "save") /\ count' = count
     \/ Goto(w, "failstep") /\ Fault
  /\ UNCHANGED <<task, steps, world>>

\* The reads of a review, of which the issue must succeed.
ReadIssue(w) == At(w, "issue") /\ Repeatable(w)

\* prepare_worktree adopts the worktree an interrupted attempt has made.
PrepareWorktree(w) == At(w, "prepare") /\ Repeatable(w)

\* publish_branch inspects the worktree again, then pushes the branch by name.
InspectBeforePush(w) ==
  /\ At(w, "push")
  /\ IF Inspected.dirty THEN Goto(w, "failstep")
     ELSE Set(w, [worker[w] EXCEPT !.pc = "send", !.seen = Inspected.head])
  /\ UNCHANGED <<task, steps, world, count>>

\* A push that timed out is an ordinary failure: pushing again is harmless.
SendPush(w) ==
  /\ At(w, "send")
  /\ \/ Accept(Effect("push", w, tree.head)) /\ Goto(w, "save") /\ count' = count
     \/ Accept(Effect("push", w, tree.head)) /\ Goto(w, "failstep") /\ Fault
     \/ effects' = effects /\ Goto(w, "failstep") /\ Fault
  /\ UNCHANGED <<task, steps, target, pub, evidence, tree, stray, passed>>

\* The account this process is configured for: open pull requests of the same
\* branches, and comments with the marker of the task.
OpenPullRequests(w) ==
  {i \in Made("pr") : effects[i].target = worker[w].cfg /\ effects[i].par = worker[w].par}
MarkedComments(w) == {i \in Made("comment") : effects[i].target = worker[w].cfg}

\* What is there already is taken for the result; a listing that cannot be read
\* to its end is an error.
Lookup(w) ==
  /\ worker[w].pc \in {"pr", "comment"}
  /\ \/ /\ IF (IF At(w, "pr") THEN OpenPullRequests(w) ELSE MarkedComments(w)) # {}
             THEN Goto(w, "save") ELSE Goto(w, "post")
        /\ count' = count
     \/ Goto(w, "failstep") /\ Fault
  /\ UNCHANGED <<task, steps, world>>

\* One POST, never repeated: accepted, accepted with the answer lost, lost
\* before it arrived, or refused.
Post(w) ==
  LET s == worker[w].step
      e == [Effect(s, w, steps["push"].res) EXCEPT !.base = 0]
      lost == [worker[w] EXCEPT !.pc = "failstep", !.bad = TRUE] IN
  /\ At(w, "post")
  /\ \/ Accept(e) /\ Goto(w, "save") /\ count' = count
     \/ Accept(e) /\ Set(w, lost) /\ Fault
     \/ effects' = effects /\ Set(w, lost) /\ Fault
     \/ effects' = effects /\ Goto(w, "failstep") /\ Fault
  /\ UNCHANGED <<task, steps, target, pub, evidence, tree, stray, passed>>

-----------------------------------------------------------------------------
(* The surroundings *)

Kill(w) == ~At(w, "idle") /\ End(w) /\ Fault /\ UNCHANGED <<task, steps, world>>

Setup(t) ==
  /\ count.person < MaxPerson /\ count' = [count EXCEPT !.person = @ + 1]
  /\ target # t /\ target' = t
  /\ UNCHANGED <<task, steps, worker, pub, evidence, tree, effects, stray, passed>>

\* The host assistant works in the prepared worktree, whatever runs meanwhile.
Edit ==
  /\ task.ws /\ ~tree.dirty /\ tree.head < MaxCommits
  /\ tree' = [tree EXCEPT !.dirty = TRUE]
  /\ UNCHANGED <<task, steps, worker, target, pub, evidence, effects, stray, passed, count>>

Commit ==
  /\ task.ws /\ tree.dirty
  /\ tree' = [head |-> tree.head + 1, dirty |-> FALSE]
  /\ UNCHANGED <<task, steps, worker, target, pub, evidence, effects, stray, passed, count>>

Work(w) ==
  \/ BeginStep(w) \/ BeginConnection(w) \/ SaveConnection(w) \/ CompleteStep(w)
  \/ FailStep(w) \/ FailTask(w) \/ Wait(w) \/ Finish(w)
  \/ ReadParams(w) \/ SaveParams(w) \/ GetTask(w) \/ ResumeTask(w) \/ Route(w)
  \/ CheckEvidence(w) \/ WriteEvidence(w)
  \/ ReadIssue(w) \/ PrepareWorktree(w) \/ InspectBeforePush(w) \/ SendPush(w) \/ Lookup(w) \/ Post(w)

Commands(w) == Develop(w) \/ (\E p \in Params : Publish(w, p)) \/ Resume(w) \/ Checks(w)

Next ==
  \/ \E w \in Workers : Work(w) \/ Commands(w) \/ Kill(w)
  \/ Cancel
  \/ \E s \in Writes : ResolveStep(s) \/ RetryStep(s)
  \/ \E t \in Targets : Setup(t)
  \/ Edit \/ Commit

SimpleSpec == SimpleInit /\ [][Next]_vars

\* A started process runs on; the person settles open writes and gives the next
\* command, and the host commits what it edited.
FairSpec ==
  /\ SimpleSpec
  /\ \A w \in Workers : WF_vars(Work(w)) /\ WF_vars(Commands(w))
  /\ \A s \in Writes : WF_vars(ResolveStep(s) \/ RetryStep(s))
  /\ WF_vars(Commit)

-----------------------------------------------------------------------------
(* Types; a row holds a claim exactly while it is running, so that no late
   process saves a result into a row that was settled without it. *)
SimpleTypeOK ==
  /\ task.status \in {"none", "running", "waiting", "failed", "cancelled", "completed"}
  /\ \A s \in Steps :
       /\ steps[s].status \in {"none", "running", "completed", "failed", "uncertain"}
       /\ steps[s].claim # 0 <=> steps[s].status = "running"
  /\ \A s \in Steps \ Writes : steps[s].status # "uncertain"

(* The pull request is opened once and the comment posted once, whatever is
   lost, killed, resumed or run twice, unless a write was declared absent while
   its process was still at it (begin_step, _save_step, retry_step). *)
PostedOnce ==
  \A s \in {"pr", "comment"} \ stray : Cardinality(Made(s)) <= 1

(* A write the task counts as completed was made, a completed push holds the
   commit it is recorded with, and a completed task has made all three
   (complete_step under its claim, resolve_step, finish). *)
CompletedIsReal ==
  /\ \A s \in Writes : steps[s].status = "completed" => Made(s) # {}
  /\ steps["push"].status = "completed" =>
       \E i \in Made("push") : effects[i].commit >= steps["push"].res
  /\ task.status = "completed" => \A s \in Writes : Made(s) # {}

(* Every pull request and comment of a task went to the account target the task
   saved when it first used that account, also when the configuration changes
   under running or resumed commands (_provider). *)
TargetIsKept ==
  \A s \in {"pr", "comment"} : \A i \in Made(s) : effects[i].target = steps[Conn(s)].res

(* What is pushed ends in a commit for which passing checks of the clean
   worktree were recorded, or in commits the host made on top of it after that
   comparison: publish_branch pushes the branch by its name.  The commit the
   comment calls checked lies between the two (_run_publish, checks). *)
PushedWasChecked ==
  /\ \A i \in Made("push") :
       effects[i].base \in passed /\ effects[i].base <= effects[i].commit
  /\ \A i \in Made("comment") : \E j \in Made("push") :
       effects[j].base <= effects[i].commit /\ effects[i].commit <= effects[j].commit

(* A task whose faults are over is completed: nothing a kill, a lost answer or a
   cancellation leaves behind blocks the careful person for good (begin_step,
   resolve_step, retry_step, resume). *)
TaskCompletes == <>(task.status = "completed")

(* Once a write was made, the parameters of the publication stay: everything a
   task publishes, it publishes with the same ones, unless two publish commands
   crossed, one of them saving its parameters after the other had taken its own
   on the strength of a task in which no write was begun (publish). *)
ParametersStay ==
  "params" \notin stray =>
    \A i, j \in 1..Len(effects) : effects[i].par = effects[j].par
=============================================================================
