------------------------------- MODULE Drafts -------------------------------
(***************************************************************************)
(* connectors/drafts.py: the draft connectors and the artifact bundles     *)
(* they write under one pinned output directory.  A bundle creates its     *)
(* files exclusively, one after the other, and on a failure removes those  *)
(* it made, each while it is still the same file.  The bytes of a bundle   *)
(* are reserved in the budget of its run.  A file name is a stem and an    *)
(* extension; contents matter only as the writer's or somebody else's.     *)
(***************************************************************************)
EXTENDS Integers, Sequences, FiniteSets, FiniteSetsExt

CONSTANTS Workers,        \* connectors at work on an action each
          RunOf,          \* worker -> its run, which shares a budget
          Capabilities,   \* draft kinds used
          Targets, OutputNames, NoName,   \* resources; requested output names, or none
          MaxSize,        \* size of one file
          Quota, Budget,  \* the capability's and the run's limit
          MaxActions, MaxMeddle, MaxMoves, MaxFaults   \* bounds of the model

\* What the constants are.
DraftAssumption ==
    /\ MaxSize \in Nat /\ Quota \in Nat /\ Budget \in Nat /\ MaxActions \in Nat
    /\ MaxMeddle \in Nat /\ MaxMoves \in Nat /\ MaxFaults \in Nat
    /\ Capabilities \subseteq {"jira", "confluence", "reddit", "outlook", "teams", "powerpoint",
                               "patch", "branch"}

VARIABLES files,     \* name -> file in the pinned directory
          moved,     \* the path no longer names the pinned directory
          used,      \* run -> bytes of its budget in use
          work,      \* worker -> its action
          kept,      \* ghost: worker -> the bundles it reported as written
          stray,     \* ghost: files left by a creation that failed before it knew them
          inos, actions, meddle, faults

draftVars == <<files, moved, used, work, kept, stray, inos, actions, meddle, faults>>

Runs == {RunOf[w] : w \in Workers}

\* _artifact_path: the requested name, or the resource with the connector's suffix.
Primary(a, tag, ext) ==
    IF a.name = NoName THEN [stem |-> <<a.target, tag>>, ext |-> ext] ELSE a.name
WithSuffix(n, ext) == [n EXCEPT !.ext = ext]
Companion(n, ext) == <<n, WithSuffix(n, ext)>>

\* The files each connector's execute writes.
JiraDraft(a) == Companion(Primary(a, "jira-draft", "json"), "md")
ConfluenceDraft(a) == Companion(Primary(a, "confluence-draft", "json"), "md")
RedditDraft(a) == <<Primary(a, "reddit-draft", "md")>>
OutlookDraft(a) == Companion(Primary(a, "", "eml"), "json")
TeamsDraft(a) == Companion(Primary(a, "teams-draft", "md"), "json")
PowerPointDraft(a) == <<WithSuffix(Primary(a, "", "pptx"), "pptx")>>
PatchDraft(a) == <<Primary(a, "", "patch")>>
BranchPlan(a) == <<Primary(a, "branch-plan", "json")>>
Bundle(a) ==
    CASE a.cap = "jira" -> JiraDraft(a)
      [] a.cap = "confluence" -> ConfluenceDraft(a)
      [] a.cap = "reddit" -> RedditDraft(a)
      [] a.cap = "outlook" -> OutlookDraft(a)
      [] a.cap = "teams" -> TeamsDraft(a)
      [] a.cap = "powerpoint" -> PowerPointDraft(a)
      [] a.cap = "patch" -> PatchDraft(a)
      [] a.cap = "branch" -> BranchPlan(a)

Drafted == [cap : Capabilities, target : Targets, name : OutputNames \cup {NoName}, size : 1 .. MaxSize]
Names == UNION {{Bundle(a)[i] : i \in DOMAIN Bundle(a)} : a \in Drafted}
NoFile == [ino |-> 0, by |-> "nobody", data |-> "none"]
Idle == [pc |-> "idle", todo |-> <<>>, size |-> 0, made |-> <<>>, cur |-> 0, seen |-> 0]

DraftInit ==
    /\ files = [n \in Names |-> NoFile] /\ moved = FALSE /\ used = [r \in Runs |-> 0]
    /\ work = [w \in Workers |-> Idle] /\ kept = [w \in Workers |-> {}] /\ stray = {}
    /\ inos = 0 /\ actions = 0 /\ meddle = 0 /\ faults = 0

-----------------------------------------------------------------------------
At(w, pc) == work[w].pc = pc
Total(w) == work[w].size * Len(work[w].todo)
Name(w) == work[w].todo[Len(work[w].made) + 1]
Still == UNCHANGED <<moved, stray, actions, meddle, faults>>

\* execute: the capability, the parameters, the output name and the output quota are checked.
Execute(w, a) ==
    /\ At(w, "idle") /\ actions < MaxActions /\ actions' = actions + 1
    /\ IF moved \/ a.size * Len(Bundle(a)) > Quota THEN UNCHANGED work
       ELSE work' = [work EXCEPT ![w] = [Idle EXCEPT !.pc = "reserve", !.todo = Bundle(a),
                                                     !.size = a.size]]
    /\ UNCHANGED <<files, moved, used, kept, stray, inos, meddle, faults>>

\* ArtifactBudget.reserve
Reserve(w) ==
    /\ At(w, "reserve")
    /\ IF used[RunOf[w]] + Total(w) > Budget
       THEN work' = [work EXCEPT ![w] = Idle] /\ UNCHANGED used
       ELSE /\ used' = [used EXCEPT ![RunOf[w]] = @ + Total(w)]
            /\ work' = [work EXCEPT ![w].pc = "create"]
    /\ Still /\ UNCHANGED <<files, kept, inos>>

\* _pinned_name, then _create_bytes: exclusive creation.
Create(w) ==
    /\ At(w, "create")
    /\ IF moved \/ files[Name(w)] # NoFile
       THEN work' = [work EXCEPT ![w].pc = "undo"] /\ UNCHANGED <<files, inos>>
       ELSE /\ files' = [files EXCEPT ![Name(w)] = [ino |-> inos + 1, by |-> w, data |-> "part"]]
            /\ inos' = inos + 1
            /\ work' = [work EXCEPT ![w].pc = "capture", ![w].cur = inos + 1]
    /\ Still /\ UNCHANGED <<used, kept>>

\* _create_bytes: the mode is set and the identity taken from the descriptor; a file that has lost
\* its name is refused.
Capture(w) ==
    /\ At(w, "capture")
    /\ work' = [work EXCEPT ![w].pc = IF files[Name(w)].ino = work[w].cur THEN "write" ELSE "undo"]
    /\ Still /\ UNCHANGED <<files, used, kept, inos>>
\* fchmod or fstat fails: created_identity is still None, and the file is left.
CaptureFails(w) ==
    /\ At(w, "capture") /\ faults < MaxFaults /\ faults' = faults + 1
    /\ stray' = stray \cup {work[w].cur}
    /\ work' = [work EXCEPT ![w].pc = "undo"]
    /\ UNCHANGED <<files, moved, used, kept, inos, actions, meddle>>

\* _create_bytes: the payload goes to the open descriptor, whatever its name is now.
Write(w) ==
    /\ At(w, "write")
    /\ files' = [n \in Names |-> IF files[n].ino = work[w].cur /\ files[n].data = "part"
                                 THEN [files[n] EXCEPT !.data = "whole"] ELSE files[n]]
    /\ work' = [work EXCEPT ![w].pc = "check"]
    /\ Still /\ UNCHANGED <<used, kept, inos>>

\* The write fails.
WriteFails(w) ==
    /\ At(w, "write") /\ faults < MaxFaults /\ faults' = faults + 1
    /\ work' = [work EXCEPT ![w].pc = "drop"]
    /\ UNCHANGED <<files, moved, used, kept, stray, inos, actions, meddle>>

\* _create_bytes: the directory, the name's identity and the bytes are checked.
Published(w) == ~moved /\ files[Name(w)].ino = work[w].cur /\ files[Name(w)].data = "whole"
Check(w) ==
    /\ At(w, "check")
    /\ IF ~Published(w) THEN work' = [work EXCEPT ![w].pc = "drop"] /\ UNCHANGED kept
       ELSE IF Len(work[w].made) + 1 < Len(work[w].todo)
       THEN /\ work' = [work EXCEPT ![w].pc = "create", ![w].made = Append(@, work[w].cur)]
            /\ UNCHANGED kept
       ELSE /\ work' = [work EXCEPT ![w].pc = "done", ![w].made = Append(@, work[w].cur)]
            /\ kept' = [kept EXCEPT ![w] = @ \cup {[names |-> work[w].todo, inos |-> work'[w].made,
                                                   bytes |-> Total(w)]}]
    /\ Still /\ UNCHANGED <<files, used, inos>>

-----------------------------------------------------------------------------
(* Rollback: each removal looks at the name, then removes it. *)

\* _unlink_if_identity (stat)
Same(w, n, ino) == files[n].ino = ino

\* Faulty variant: the file whose write failed is left.
DropLookNever(w) ==
    /\ At(w, "drop") /\ work' = [work EXCEPT ![w].pc = "undo"]
    /\ Still /\ UNCHANGED <<files, used, kept, inos>>
DropLook(w) ==
    /\ At(w, "drop")
    /\ work' = [work EXCEPT ![w].pc = IF Same(w, Name(w), work[w].cur) THEN "dropnow" ELSE "undo",
                           ![w].seen = files[Name(w)].ino]
    /\ Still /\ UNCHANGED <<files, used, kept, inos>>
\* _unlink_if_identity (unlink)
Drop(w) ==
    /\ At(w, "dropnow") /\ files' = [files EXCEPT ![Name(w)] = NoFile]
    /\ work' = [work EXCEPT ![w].pc = "undo"]
    /\ Still /\ UNCHANGED <<used, kept, inos>>

\* _write_bundle: the files already made, the last one first.
UndoLook(w) ==
    /\ At(w, "undo") /\ work[w].made # <<>>
    /\ LET i == Len(work[w].made)
       IN  work' = [work EXCEPT ![w] =
              IF Same(w, work[w].todo[i], work[w].made[i]) 
              THEN [@ EXCEPT !.pc = "undonow", !.seen = files[work[w].todo[i]].ino]
              ELSE [@ EXCEPT !.made = SubSeq(@, 1, i - 1)]]
    /\ Still /\ UNCHANGED <<files, used, kept, inos>>
Undo(w) ==
    /\ At(w, "undonow")
    /\ LET i == Len(work[w].made)
       IN  /\ files' = [files EXCEPT ![work[w].todo[i]] = NoFile]
           /\ work' = [work EXCEPT ![w].pc = "undo", ![w].made = SubSeq(@, 1, i - 1)]
    /\ Still /\ UNCHANGED <<used, kept, inos>>

\* ArtifactBudget.release, then the error is raised.
Release(w) ==
    /\ At(w, "undo") /\ work[w].made = <<>>
    /\ used' = [used EXCEPT ![RunOf[w]] = @ - Total(w)]
    /\ work' = [work EXCEPT ![w] = Idle]
    /\ Still /\ UNCHANGED <<files, kept, inos>>

\* verify: the first file is read again, its name and identity compared afterwards.
Verify(w) ==
    /\ At(w, "done")
    /\ work' = [work EXCEPT ![w] = Idle]
    /\ Still /\ UNCHANGED <<files, used, kept, inos>>

\* The process is killed: all workers of the run end.
Kill(r) ==
    /\ faults < MaxFaults /\ faults' = faults + 1
    /\ \E w \in Workers : RunOf[w] = r /\ ~At(w, "idle")
    /\ work' = [w \in Workers |-> IF RunOf[w] = r THEN [work[w] EXCEPT !.pc = "dead"] ELSE work[w]]
    /\ UNCHANGED <<files, moved, used, kept, stray, inos, actions, meddle>>

-----------------------------------------------------------------------------
(* The person whose directory it is (external) *)

Meddle == meddle < MaxMeddle /\ meddle' = meddle + 1
Remove(n) ==
    /\ Meddle /\ files[n] # NoFile /\ files' = [files EXCEPT ![n] = NoFile]
    /\ UNCHANGED <<moved, used, work, kept, stray, inos, actions, faults>>
Edit(n) ==
    /\ Meddle /\ files[n] # NoFile /\ files' = [files EXCEPT ![n].data = "other"]
    /\ UNCHANGED <<moved, used, work, kept, stray, inos, actions, faults>>
Own(n) ==
    /\ Meddle /\ files[n] = NoFile /\ inos' = inos + 1
    /\ files' = [files EXCEPT ![n] = [ino |-> inos + 1, by |-> "person", data |-> "other"]]
    /\ UNCHANGED <<moved, used, work, kept, stray, actions, faults>>
MoveDirectory ==
    /\ meddle < MaxMoves /\ ~moved /\ moved' = TRUE
    /\ UNCHANGED <<files, used, work, kept, stray, inos, actions, meddle, faults>>

DraftNext ==
    \/ \E w \in Workers, a \in Drafted : Execute(w, a)
    \/ \E w \in Workers :
          \/ Reserve(w) \/ Create(w) \/ Capture(w) \/ CaptureFails(w) \/ Write(w) \/ WriteFails(w) \/ Check(w) \/ DropLook(w)
          \/ Drop(w) \/ UndoLook(w) \/ Undo(w) \/ Release(w) \/ Verify(w)
    \/ \E r \in Runs : Kill(r)
    \/ \E n \in Names : Remove(n) \/ Edit(n) \/ Own(n)
    \/ MoveDirectory

DraftSpec == DraftInit /\ [][DraftNext]_draftVars

-----------------------------------------------------------------------------
(* Type invariant of the directory, the budgets and the workers. *)
DraftTypeOK ==
    /\ \A n \in Names : files[n].ino \in 0 .. inos /\ files[n].data \in {"none", "part", "whole", "other"}
    /\ moved \in BOOLEAN
    /\ \A w \in Workers : Len(work[w].made) <= Len(work[w].todo)
    /\ \A r \in Runs : used[r] \in Nat

AtRest(w) == work[w].pc \in {"idle", "reserve", "done"}
Written(w) == UNION {{<<b.names[i], b.inos[i]>> : i \in DOMAIN b.names} : b \in kept[w]}
Left(w) == {<<n, files[n].ino>> : n \in {m \in Names : files[m].by = w /\ files[m].ino \notin stray}}

(* A worker that is not in the middle of a bundle has left all files of it or none, also when a
   write failed or another worker took a name; a file whose creation failed before its identity was
   taken (CaptureFails) is the exception: _write_bundle, _create_bytes. *)
NoHalfBundle ==
    \A w \in Workers : AtRest(w) =>
        /\ Left(w) \subseteq Written(w)
        /\ meddle = 0 => /\ Left(w) = Written(w)
                         /\ \A x \in Written(w) : files[x[1]].data = "whole"

(* The budget of a run holds exactly the bytes of its bundles written and under way, and never more
   than its limit: ArtifactBudget, _write_bundle. *)
BudgetIsExact ==
    \A r \in Runs :
        /\ used[r] <= Budget
        /\ (\A w \in Workers : RunOf[w] = r => ~At(w, "dead")) =>
           used[r] = MapThenSumSet(LAMBDA w : MapThenSumSet(LAMBDA b : b.bytes, kept[w])
                                              + (IF AtRest(w) THEN 0 ELSE Total(w)),
                                   {w \in Workers : RunOf[w] = r})

\* The name a worker is about to remove leads to another file than the one it compared.
ReplacedSinceLook(w) ==
    \/ At(w, "dropnow") /\ files[Name(w)].ino # work[w].seen
    \/ At(w, "undonow") /\ files[work[w].todo[Len(work[w].made)]].ino # work[w].seen

OnlyOwnFilesTouchedStep ==
    meddle' = meddle => \A n \in Names :
       files[n] # NoFile /\ files'[n] # files[n] =>
           \E w \in Workers : work'[w] # work[w] /\ (files[n].by = w \/ ReplacedSinceLook(w))

(* A step of a worker changes or removes no file but its own, with other workers at the same names
   and with a person's files in the way, unless the file was replaced between the comparison of its
   identity and its removal: _create_bytes, _unlink_if_identity. *)
OnlyOwnFilesTouched == [][OnlyOwnFilesTouchedStep]_draftVars

(* Not so: no file is replaced in that window. *)
RemovedIsCompared == \A w \in Workers : ~ReplacedSinceLook(w)
=============================================================================
