---------------------------- MODULE GitWorkspace ----------------------------
(***************************************************************************)
(* The local Git connector (connectors/git_workspace.py over               *)
(* connectors/git_sandbox.py): branch creation, patch, commit and push of  *)
(* one approved action, and their compensation, in a workspace where a     *)
(* person edits, stages, commits, branches and switches at the same time.  *)
(* Git is external: each of its commands is one step, which may time out   *)
(* after it took effect, and a person's commands respect the lock files    *)
(* the connector holds.                                                    *)
(***************************************************************************)
EXTENDS Integers, Sequences, SequencesExt

CONSTANTS
  Ops,           \* the capabilities exercised
  MaxHuman,      \* bound: steps of the person
  NoRef

\* What the constants are.
GitAssumption ==
  /\ Ops \subseteq {"branch", "patch", "commit", "push"}
  /\ MaxHuman \in Nat

Branches == {"main", "work", "other"}
Content == {"base", "patch", "human"}
\* A commit is its history; each entry says who made it and what it holds.
Base == <<[who |-> "base", content |-> "base"]>>
Files(commit) == IF commit = NoRef THEN "none" ELSE Last(commit).content

VARIABLES
  refs,     \* refs/heads
  head,     \* the branch HEAD names
  index,    \* content in the shared index
  work,     \* content of the worktree
  config,   \* version of the repository config
  locks,    \* lock files the connector holds
  remote,   \* the remote's refs/heads
  agent,    \* the connector
  human,    \* steps of the person so far
  named     \* branches the person created

vars == <<refs, head, index, work, config, locks, remote, agent, human, named>>
repo == <<refs, head, index, work, remote>>

Pending == [pc |-> "idle", op |-> "branch", phase |-> "do", approved |-> Base, head |-> Base,
            branch |-> "main", status |-> <<FALSE, FALSE>>, config |-> 0, isolated |-> "base",
            commit |-> Base, after |-> <<FALSE, FALSE>>, diff |-> "base",
            current |-> Base, onto |-> "main",    \* HEAD as compensate reads it
            outcome |-> "none", lost |-> FALSE]

GitInit ==
  /\ refs = [b \in Branches |-> IF b = "main" THEN Base ELSE NoRef]
  /\ head = "main"
  /\ index = "base"
  /\ work \in {"base", "patch"}
  /\ config = 0
  /\ locks = {}
  /\ remote = [b \in Branches |-> IF b = "main" THEN Base ELSE NoRef]
  /\ agent = Pending
  /\ human = 0
  /\ named = {}

HeadCommit == refs[head]
\* git status --porcelain says which files differ, not how.
Status == <<index # Files(HeadCommit), work # index>>
Clean == Status = <<FALSE, FALSE>>
New == "work"

-----------------------------------------------------------------------------
(* Steps of the connector.  Fail releases every lock it holds. *)

Go(pc) == agent' = [agent EXCEPT !.pc = pc]

\* The with blocks close: only the locks of this connector are unlinked.
Fail(outcome) ==
  /\ agent' = [agent EXCEPT !.pc = "ended", !.outcome = outcome]
  /\ locks' = {}

\* The answer to a command that took effect is lost.
Lose(outcome) ==
  /\ agent' = [agent EXCEPT !.pc = "ended", !.outcome = outcome, !.lost = TRUE]
  /\ locks' = {}

At(op, pc) == agent.op = op /\ agent.pc = pc /\ agent.phase = "do"
Undoing(op, pc) == agent.op = op /\ agent.pc = pc /\ agent.phase = "undo"

\* The action was approved for the commit its author saw.
Begin(op) ==
  /\ agent.pc = "idle" /\ HeadCommit # NoRef
  /\ agent' = [agent EXCEPT !.pc = "head", !.op = op, !.approved = HeadCommit]
  /\ UNCHANGED <<repo, config, locks, human, named>>

\* Each operation compares HEAD with the approved version first.
ReadHead ==
  /\ agent.pc = "head" /\ agent.phase = "do"
  /\ IF HeadCommit # agent.approved
       THEN Fail("conflict")
       ELSE agent' = [agent EXCEPT !.pc = "branch", !.head = HeadCommit] /\ locks' = locks
  /\ UNCHANGED <<repo, config, human, named>>

\* Branch creation and a patch need a clean worktree; a commit needs an index
\* without staged changes; only a branch that is not protected is pushed.
Admitted ==
  CASE agent.op \in {"branch", "patch"} -> Clean
    [] agent.op = "commit" -> index = Files(agent.head)
    [] agent.op = "push" -> head # "main"

ReadBranch ==
  /\ agent.pc = "branch" /\ agent.phase = "do"
  /\ IF ~Admitted
       THEN Fail("error")
       ELSE /\ agent' = [agent EXCEPT !.branch = head, !.status = Status,
                           !.pc = IF agent.op = "patch" THEN "apply" ELSE "config"]
            /\ locks' = locks
  /\ UNCHANGED <<repo, config, human, named>>

\* LockedGitConfig: config.lock is created and the config pinned.
LockConfig ==
  /\ agent.pc = "config"
  /\ \/ /\ agent' = [agent EXCEPT !.config = config,
                       !.pc = IF agent.op = "push" THEN "send" ELSE "locks"]
        /\ locks' = locks \cup {"config"}
     \/ Fail("error")                                   \* config.lock exists
  /\ UNCHANGED <<repo, config, human, named>>

ConfigHeld == config = agent.config

\* The branch HEAD must name when the locks are taken.
ExpectedBranch == IF agent.phase = "undo" THEN New ELSE agent.branch

\* _LockedRepositoryIndex: index.lock, HEAD.lock, then the symbolic HEAD.
LockIndexAndHead ==
  /\ agent.pc = "locks"
  /\ \/ /\ head = ExpectedBranch
        /\ locks' = locks \cup {"index", "head"}
        /\ Go("recheck")
     \/ Fail("conflict")                                \* busy, or another branch
  /\ UNCHANGED <<repo, config, human, named>>

\* Under the locks everything read before them is read again.
StillObserved ==
  /\ HeadCommit = agent.head
  /\ head = agent.branch
  /\ IF agent.op = "commit" THEN index = Files(agent.head) ELSE Status = agent.status

Recheck ==
  /\ agent.pc = "recheck" /\ agent.phase = "do"
  /\ IF StillObserved
       THEN Go(IF agent.op = "commit" THEN "stage" ELSE "create") /\ locks' = locks
       ELSE Fail("conflict")
  /\ UNCHANGED <<repo, config, human, named>>

-----------------------------------------------------------------------------
(* _create_branch *)

\* update-ref with an all-zero old value; its answer may be lost.
CreateRef ==
  /\ At("branch", "create")
  /\ \/ /\ refs[New] = NoRef
        /\ refs' = [refs EXCEPT ![New] = agent.head]
        /\ \/ agent' = [agent EXCEPT !.pc = "pin"] /\ locks' = locks
           \/ Lose("error")
     \/ /\ refs[New] # NoRef
        /\ Fail("error")
        /\ refs' = refs
  /\ UNCHANGED <<head, index, work, remote, config, human, named>>

\* _LockedLooseBranchRef: the new ref is locked and must still be what was made.
PinRef ==
  /\ At("branch", "pin")
  /\ IF refs[New] = agent.head
       THEN locks' = locks \cup {"ref"} /\ Go("validate")
       ELSE Go("withdraw") /\ locks' = locks
  /\ UNCHANGED <<repo, config, human, named>>

\* Config, HEAD and ref are pinned and the worktree is unchanged.
ValidatesAll == ConfigHeld /\ StillObserved

\* The symbolic HEAD is replaced: the branch is checked out without a checkout.
InstallHead ==
  /\ At("branch", "validate")
  /\ IF ValidatesAll
       THEN /\ head' = New
            /\ agent' = [agent EXCEPT !.pc = "ended", !.outcome = "ok", !.after = agent.status]
            /\ locks' = {}
       ELSE /\ Go("withdraw")
            /\ locks' = locks \ {"ref"}
            /\ head' = head
  /\ UNCHANGED <<refs, index, work, remote, config, human, named>>

\* The branch is deleted again if it is still what was made.
WithdrawRef ==
  /\ At("branch", "withdraw")
  /\ IF refs[New] = agent.head
       THEN refs' = [refs EXCEPT ![New] = NoRef] /\ (Fail("conflict") \/ Lose("unconfirmed"))
       ELSE refs' = refs /\ Fail("unconfirmed")
  /\ UNCHANGED <<head, index, work, remote, config, human, named>>

-----------------------------------------------------------------------------
(* _apply_patch *)

\* git apply, checked and then applied, fits only the content it was made for.
ApplyPatch ==
  /\ At("patch", "apply")
  /\ IF work = "base"
       THEN work' = "patch" /\ ((Go("observe") /\ locks' = locks) \/ Lose("error"))
       ELSE work' = work /\ Fail("error")
  /\ UNCHANGED <<refs, head, index, remote, config, human, named>>

\* The result records the worktree as it is now.
ObservePatch ==
  /\ At("patch", "observe")
  /\ agent' = [agent EXCEPT !.pc = "ended", !.outcome = "ok", !.after = Status, !.diff = work]
  /\ UNCHANGED <<repo, config, locks, human, named>>

-----------------------------------------------------------------------------
(* _create_commit *)

\* Faulty variant: the approved digest is compared with the worktree before staging.
StageUnchecked ==
  /\ At("commit", "stage")
  /\ agent' = [agent EXCEPT !.pc = "publish", !.isolated = work,
                 !.commit = Append(agent.head, [who |-> "agent", content |-> work])]
  /\ UNCHANGED <<repo, config, locks, human, named>>

\* The paths are staged into an isolated index, whose diff must be the approved
\* one; the commit is built from that index.
StageAndBuild ==
  /\ At("commit", "stage")
  /\ IF work = "patch"
       THEN /\ agent' = [agent EXCEPT !.pc = "publish", !.isolated = work,
                           !.commit = Append(agent.head, [who |-> "agent", content |-> work])]
            /\ locks' = locks
       ELSE Fail("conflict")
  /\ UNCHANGED <<repo, config, human, named>>

\* update-ref from the approved to the new commit.  Any failure of the command
\* is reported as a branch that advanced.
PublishCommit ==
  /\ At("commit", "publish")
  /\ \/ /\ ConfigHeld
        /\ refs[agent.branch] = agent.head
        /\ refs' = [refs EXCEPT ![agent.branch] = agent.commit]
        /\ \/ Go("index") /\ locks' = locks
           \/ Lose("conflict")
     \/ /\ ~ConfigHeld \/ refs[agent.branch] # agent.head
        /\ Fail(IF ConfigHeld THEN "conflict" ELSE "error")
        /\ refs' = refs
  /\ UNCHANGED <<head, index, work, remote, config, human, named>>

\* The reviewed index replaces the shared one, which releases index.lock.
InstallIndex ==
  /\ At("commit", "index")
  /\ IF ConfigHeld
       THEN /\ index' = agent.isolated
            /\ agent' = [agent EXCEPT !.pc = "status"]
            /\ locks' = {"config"}
       ELSE Go("restore") /\ UNCHANGED <<index, locks>>
  /\ UNCHANGED <<refs, head, work, remote, config, human, named>>

ReadStatus ==
  /\ At("commit", "status")
  /\ agent' = [agent EXCEPT !.pc = "ended", !.outcome = IF ConfigHeld THEN "ok" ELSE "error",
                            !.after = Status]
  /\ locks' = {}
  /\ UNCHANGED <<repo, config, human, named>>

RestoreRef ==
  /\ At("commit", "restore")
  /\ IF refs[agent.branch] = agent.commit
       THEN /\ refs' = [refs EXCEPT ![agent.branch] = agent.head]
            /\ Fail("conflict") \/ Lose("unconfirmed")
       ELSE refs' = refs /\ Fail("unconfirmed")
  /\ UNCHANGED <<head, index, work, remote, config, human, named>>

-----------------------------------------------------------------------------
(* _push_branch *)

\* A ref may be created, or moved to a commit that has it in its history.
FastForward(old, new) == IF old = NoRef THEN TRUE ELSE IsPrefix(old, new)

\* A push without force is refused unless it extends what is there.
PushCommit ==
  /\ At("push", "send")
  /\ IF ConfigHeld /\ FastForward(remote[agent.branch], agent.head)
       THEN /\ remote' = [remote EXCEPT ![agent.branch] = agent.head]
            /\ \/ Go("remote") /\ locks' = locks
               \/ Lose("error")
       ELSE remote' = remote /\ Fail("error")
  /\ UNCHANGED <<refs, head, index, work, config, human, named>>

ReadRemote ==
  /\ At("push", "remote")
  /\ Fail(IF ConfigHeld /\ remote[agent.branch] = agent.head THEN "ok" ELSE "error")
  /\ UNCHANGED <<repo, config, human, named>>

-----------------------------------------------------------------------------
(* compensate; verify reads branch, HEAD and status of one moment. *)

VerifiedNow ==
  CASE agent.op = "branch" -> head = New /\ HeadCommit = agent.head /\ Status = agent.after
    [] agent.op = "commit" -> head = agent.branch /\ HeadCommit = agent.commit /\ Status = agent.after
    [] agent.op = "patch"  -> work = agent.diff /\ Status = agent.after
    [] OTHER -> FALSE                                   \* a push is not undone

Compensate ==
  /\ agent.pc = "ended" /\ agent.phase = "do" /\ agent.outcome = "ok"
  /\ VerifiedNow
  /\ agent' = [agent EXCEPT !.phase = "undo", !.outcome = "none",
                 !.pc = CASE agent.op = "branch" -> "config" [] agent.op = "commit" -> "reread"
                          [] OTHER -> "unref"]
  /\ UNCHANGED <<repo, config, locks, human, named>>

\* The created branch is checked out and unchanged, and so is the previous one.
RecheckCreated ==
  /\ agent.phase = "undo" /\ agent.pc = "recheck"
  /\ IF /\ head = New /\ HeadCommit = agent.head /\ Status = agent.status
        /\ refs[agent.branch] = agent.head
       THEN Go("unref") /\ locks' = locks
       ELSE Fail("conflict")
  /\ UNCHANGED <<repo, config, human, named>>

\* Everything is compared once more; update-ref -d names the created commit.
DeleteCreatedRef ==
  /\ Undoing("branch", "unref")
  /\ IF ConfigHeld /\ head = New /\ Status = agent.status /\ refs[New] = agent.head
       THEN /\ refs' = [refs EXCEPT ![New] = NoRef]
            /\ (Go("rehead") /\ locks' = locks) \/ Lose("error")
       ELSE refs' = refs /\ Fail("error")
  /\ UNCHANGED <<head, index, work, remote, config, human, named>>

\* HEAD goes back to the previous branch; if the config changed, the deleted
\* branch is made again.
RestoreHead ==
  /\ Undoing("branch", "rehead")
  /\ IF ConfigHeld
       THEN head' = agent.branch /\ refs' = refs /\ Go("confirm") /\ locks' = {}
       ELSE /\ head' = head
            /\ \/ refs[New] = NoRef /\ refs' = [refs EXCEPT ![New] = agent.head] /\ Fail("error")
               \/ refs[New] # NoRef /\ refs' = refs /\ Fail("unconfirmed")
  /\ UNCHANGED <<index, work, remote, config, human, named>>

ReversePatch ==
  /\ Undoing("patch", "unref")
  /\ IF work = "patch"
       THEN work' = "base" /\ ((Go("confirm") /\ locks' = locks) \/ Lose("error"))
       ELSE work' = work /\ Fail("error")
  /\ UNCHANGED <<refs, head, index, remote, config, human, named>>

\* The verification over, HEAD is read again: its commit first, ...
ReadCurrentHead ==
  /\ Undoing("commit", "reread")
  /\ IF HeadCommit = NoRef THEN Fail("error")
     ELSE agent' = [agent EXCEPT !.pc = "rebranch", !.current = HeadCommit] /\ locks' = locks
  /\ UNCHANGED <<repo, config, human, named>>

\* ... and later its branch.
ReadCurrentBranch ==
  /\ Undoing("commit", "rebranch")
  /\ agent' = [agent EXCEPT !.pc = "unref", !.onto = head]
  /\ UNCHANGED <<repo, config, locks, human, named>>

\* update-ref on that branch, from that commit to the one before the action.
UnpublishCommit ==
  /\ Undoing("commit", "unref")
  /\ IF refs[agent.onto] = agent.current
       THEN /\ refs' = [refs EXCEPT ![agent.onto] = agent.head]
            /\ (Go("unindex") /\ locks' = locks) \/ Lose("error")
       ELSE refs' = refs /\ Fail("error")
  /\ UNCHANGED <<head, index, work, remote, config, human, named>>

\* git reset --mixed: the index only.
ResetIndex ==
  /\ Undoing("commit", "unindex")
  /\ index' = Files(HeadCommit)
  /\ Go("confirm")
  /\ UNCHANGED <<refs, head, work, remote, config, locks, human, named>>

\* The status must be what it was, and verify_compensation compares the rest.
ConfirmUndone ==
  /\ agent.pc = "confirm" /\ agent.phase = "undo"
  /\ Fail(IF HeadCommit = NoRef THEN "error"
          ELSE IF Status # agent.status THEN "conflict"
          ELSE IF HeadCommit = agent.head /\ head = agent.branch THEN "restored" ELSE "unverified")
  /\ UNCHANGED <<repo, config, human, named>>

\* The process is killed: its lock files stay.
Kill ==
  /\ agent.pc \notin {"idle", "ended", "killed"}
  /\ agent' = [agent EXCEPT !.pc = "killed"]
  /\ UNCHANGED <<repo, config, locks, human, named>>

Connector ==
  \/ \E op \in Ops : Begin(op)
  \/ ReadHead \/ ReadBranch \/ LockConfig \/ LockIndexAndHead \/ Recheck
  \/ CreateRef \/ PinRef \/ InstallHead \/ WithdrawRef
  \/ ApplyPatch \/ ObservePatch
  \/ StageAndBuild \/ PublishCommit \/ InstallIndex \/ ReadStatus \/ RestoreRef
  \/ PushCommit \/ ReadRemote
  \/ Compensate \/ RecheckCreated \/ DeleteCreatedRef \/ RestoreHead
  \/ ReversePatch \/ ReadCurrentHead \/ ReadCurrentBranch \/ UnpublishCommit \/ ResetIndex \/ ConfirmUndone

-----------------------------------------------------------------------------
(* The person. *)

Free(names) == locks \cap names = {}

EditFile(c) == work' = c /\ work # c /\ UNCHANGED <<refs, head, index, remote, config, named>>

StageFile ==
  /\ Free({"index"})
  /\ index # work
  /\ index' = work
  /\ UNCHANGED <<refs, head, work, remote, config, named>>

CommitIndex ==
  /\ Free({"index", "head"}) /\ (head = New => Free({"ref"}))
  /\ HeadCommit # NoRef /\ index # Files(HeadCommit)
  /\ refs' = [refs EXCEPT ![head] = Append(@, [who |-> "human", content |-> index])]
  /\ UNCHANGED <<head, index, work, remote, config, named>>

Checkout(b) ==
  /\ Free({"index", "head"}) /\ b # head /\ refs[b] # NoRef /\ Clean
  /\ head' = b
  /\ index' = Files(refs[b])
  /\ work' = Files(refs[b])
  /\ UNCHANGED <<refs, remote, config, named>>

MakeBranch(b) ==
  /\ refs[b] = NoRef /\ HeadCommit # NoRef /\ (b = New => Free({"ref"}))
  /\ refs' = [refs EXCEPT ![b] = HeadCommit]
  /\ named' = named \cup {b}
  /\ UNCHANGED <<head, index, work, remote, config>>

DeleteBranch(b) ==
  /\ refs[b] # NoRef /\ b \notin {head, "main"} /\ (b = New => Free({"ref"}))
  /\ refs' = [refs EXCEPT ![b] = NoRef]
  /\ UNCHANGED <<head, index, work, remote, config, named>>

\* A branch that is not checked out here is advanced, as from another worktree.
AdvanceBranch(b) ==
  /\ refs[b] # NoRef /\ b # head /\ (b = New => Free({"ref"}))
  /\ refs' = [refs EXCEPT ![b] = Append(@, [who |-> "human", content |-> "human"])]
  /\ UNCHANGED <<head, index, work, remote, config, named>>

\* An editor writes the config file without taking config.lock.
EditConfig == config' = config + 1 /\ UNCHANGED <<repo, named>>

PublishBranch(b) ==
  /\ refs[b] # NoRef /\ FastForward(remote[b], refs[b])
  /\ remote[b] # refs[b]
  /\ remote' = [remote EXCEPT ![b] = refs[b]]
  /\ UNCHANGED <<refs, head, index, work, config, named>>

Person ==
  /\ human < MaxHuman
  /\ human' = human + 1
  /\ UNCHANGED <<agent, locks>>
  /\ \/ \E c \in Content : EditFile(c)
     \/ StageFile \/ CommitIndex \/ EditConfig
     \/ \E b \in Branches :
          Checkout(b) \/ MakeBranch(b) \/ DeleteBranch(b) \/ AdvanceBranch(b) \/ PublishBranch(b)

Next == Connector \/ Kill \/ Person

GitSpec == GitInit /\ [][Next]_vars

-----------------------------------------------------------------------------
Made(b, who) == IF refs[b] = NoRef THEN {} ELSE {i \in 1..Len(refs[b]) : refs[b][i].who = who}

(* Types; a connector that has ended holds no lock (the close methods of the
   three lock guards). *)
GitTypeOK ==
  /\ index \in Content /\ work \in Content
  /\ head \in Branches
  /\ agent.pc \in {"idle", "ended"} => locks = {}

\* Every commit of a person in the old history is in the new one, at its place.
PersonsCommitsStay(old, new) ==
  \A i \in 1..Len(old) : old[i].who = "human" =>
    IF new = NoRef THEN FALSE ELSE IsPrefix(SubSeq(old, 1, i), new)

\* The update-ref of a compensation expects a HEAD that a person moved after
\* it was verified.
MovedBeforeUndo == Undoing("commit", "unref") /\ agent.current # agent.commit

HumanWorkIsKeptStep ==
    Connector =>
      /\ \A b \in Branches : refs[b] # NoRef =>
           \/ PersonsCommitsStay(refs[b], refs'[b])
           \/ b = New /\ refs[b] = agent.head
           \/ b = agent.onto /\ MovedBeforeUndo
      /\ work = "human" => work' = "human"

(* The connector never writes over an edit of a person, as only the approved
   patch changes the worktree, and never takes a person's commit off a branch:
   only update-ref with the commit it expects moves a branch back.  The one
   exception is the compensation of a commit, which expects the HEAD it reads
   after the verification and so drops what a person committed in between. *)
HumanWorkIsKept == [][HumanWorkIsKeptStep]_vars

(* Whatever is edited, staged or committed meanwhile, a commit of the connector
   holds the approved content and nothing else, on the approved parent, and a
   push sends the approved commit (_create_commit, _push_branch). *)
PublishedIsApproved ==
  /\ \A b \in Branches : \A i \in Made(b, "agent") :
       refs[b][i].content = "patch" /\ SubSeq(refs[b], 1, i - 1) = agent.approved
  /\ (agent.op = "push" /\ agent.outcome = "ok") => agent.head = agent.approved

(* A conflict is recorded as a failure without effect: the branch the action
   asked for was not left behind and no branch holds its commit, unless a person
   took it up, or the answer of the publishing update-ref was lost, which is
   reported as a branch that advanced (VersionConflictError in _create_branch and
   _create_commit). *)
ConflictLeavesNoTrace ==
  (agent.outcome = "conflict" /\ agent.phase = "do" /\ ~agent.lost) =>
    /\ agent.op = "branch" => (refs[New] = NoRef \/ New \in named)
    /\ agent.op = "commit" => \A b \in Branches \ named : Made(b, "agent") = {}

(* A verified compensation has taken the created branch away and the commit off
   the approved branch, unless a person made or advanced them since. *)
RestoredMeansUndone ==
  (agent.outcome = "restored") =>
    /\ agent.op = "branch" => (refs[New] = NoRef \/ New \in named)
    /\ agent.op = "commit" => Made(agent.branch, "agent") = {}
=============================================================================
