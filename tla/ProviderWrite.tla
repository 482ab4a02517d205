--------------------------- MODULE ProviderWrite ---------------------------
(***************************************************************************)
(* The live write connectors (Confluence, Jira, GitHub, Bitbucket,         *)
(* SharePoint, Reddit) and the HTTP client under them.  One approved       *)
(* action of one capability is executed, verified, compensated and its     *)
(* compensation verified, against a provider whose resource other people   *)
(* edit at any moment and whose answers may be lost.  A resource is        *)
(* [live, ver, val]; "new" is the approved content.  Every HTTP attempt is *)
(* a step, so every read-check-write of the connectors is exposed to the   *)
(* edits that can fall inside it.                                          *)
(***************************************************************************)
EXTENDS Integers, FiniteSets

CONSTANTS Capabilities,   \* the capabilities this instance runs
          RetryAttempts,  \* SafeHttpClient retry_attempts
          MaxPages,       \* the action's request budget
          MaxEdits        \* bound on edits by others

\* What the constants are.
WriteAssumption ==
    RetryAttempts \in Nat /\ MaxPages \in Nat /\ MaxEdits \in Nat

VARIABLES cap,      \* the action's capability
          pinned,   \* the action carries an expected_version
          planned,  \* the version seen at planning time
          item,     \* the provider's resource
          pver,     \* version of its parent (an issue, a space)
          pc, att, used,
          before, after, cafter,  \* what the connector captured
          out, ver, cout, cver,   \* results of the four calls
          own, undo,              \* ghost: own writes and restores applied
          blind,                  \* ghost: an edit was overwritten unread
          seen,                   \* ghost: version execute's read-back saw
          edits

vars == <<cap, pinned, planned, item, pver, pc, att, used, before, after, cafter,
          out, ver, cout, cver, own, undo, blind, seen, edits>>

Vals == {"old", "new", "other"}
Nothing == [live |-> FALSE, ver |-> 0, val |-> "old"]
Original == [live |-> TRUE, ver |-> 1, val |-> "old"]

-----------------------------------------------------------------------------
(* What each connector's four methods check.  pre: the reads before the write *)
(* ("item", "parent", "lookup", "none"); cas: the provider refuses a stale    *)
(* write; back: the version test of the read-back ("next", "changed", "none").*)

Row(create, pre, cas, back) == [create |-> create, pre |-> pre, cas |-> cas, back |-> back]

ConfluencePage == [c \in {"confluence.page.update"} |-> Row(FALSE, "item", TRUE, "next")]
ConfluenceCreate == [c \in {"confluence.page.create"} |-> Row(TRUE, "lookup", FALSE, "next")]
ConfluenceSpace == [c \in {"confluence.space.create"} |-> Row(TRUE, "none", FALSE, "none")]
JiraUpdate == [c \in {"jira.issue.update"} |-> Row(FALSE, "item", FALSE, "changed")]
JiraComment == [c \in {"jira.issue.comment.create"} |-> Row(TRUE, "parent", FALSE, "unread")]
JiraTransition == [c \in {"jira.issue.transition"} |-> Row(FALSE, "item", FALSE, "changed")]
GitHubCreate == [c \in {"github.issue.create"} |-> Row(TRUE, "none", FALSE, "none")]
GitHubSettings == [c \in {"github.repository.settings.update"} |-> Row(FALSE, "item", FALSE, "none")]
BitbucketCreate == [c \in {"bitbucket.pull_request.create"} |-> Row(TRUE, "none", FALSE, "none")]
SharePointUpload == [c \in {"sharepoint.file.upload"} |-> Row(FALSE, "item", FALSE, "changed")]
RedditCreate == [c \in {"reddit.post.create"} |-> Row(TRUE, "none", FALSE, "none")]
RedditEdit == [c \in {"reddit.content.edit"} |-> Row(FALSE, "item", FALSE, "none")]

Tables == {ConfluencePage, ConfluenceCreate, ConfluenceSpace, JiraUpdate, JiraComment,
           JiraTransition, GitHubCreate, GitHubSettings, BitbucketCreate,
           SharePointUpload, RedditCreate, RedditEdit}
Profile(c) == (CHOOSE t \in Tables : c \in DOMAIN t)[c]

\* verify: does it compare the version execute returned?
ConfluenceVerify == [c \in {"confluence.page.update", "confluence.page.create",
                            "confluence.space.create"} |-> c # "confluence.space.create"]
JiraVerify == [c \in {"jira.issue.update", "jira.issue.transition",
                      "jira.issue.comment.create"} |-> c # "jira.issue.comment.create"]
GitHubVerify == [c \in {"github.issue.create"} |-> FALSE]
GitHubAdminVerify == [c \in {"github.repository.settings.update"} |-> FALSE]
BitbucketVerify == [c \in {"bitbucket.pull_request.create"} |-> FALSE]
SharePointVerify == [c \in {"sharepoint.file.upload"} |-> FALSE]
RedditVerify == [c \in {"reddit.post.create", "reddit.content.edit"} |-> FALSE]

VerifyTables == {ConfluenceVerify, JiraVerify, GitHubVerify, GitHubAdminVerify,
                 BitbucketVerify, SharePointVerify, RedditVerify}
VerifiesVersion(c) == (CHOOSE t \in VerifyTables : c \in DOMAIN t)[c]

\* compensate: what it does, and whether its first read must show the version
\* execute returned.
ConfluenceCompensates == [c \in {"confluence.page.update", "confluence.page.create",
                                 "confluence.space.create"} |->
    IF c = "confluence.page.update" THEN [how |-> "restore", version |-> TRUE]
    ELSE [how |-> "delete", version |-> c = "confluence.page.create"]]
JiraCompensates == [c \in {"jira.issue.update", "jira.issue.transition",
                           "jira.issue.comment.create"} |->
    IF c = "jira.issue.comment.create" THEN [how |-> "delete", version |-> FALSE]
    ELSE [how |-> "restore", version |-> TRUE]]
GitHubCompensates == [c \in {"github.issue.create"} |-> [how |-> "delete", version |-> TRUE]]
GitHubAdminCompensates == [c \in {"github.repository.settings.update"} |->
    [how |-> "restore", version |-> FALSE]]
BitbucketCompensates == [c \in {"bitbucket.pull_request.create"} |->
    [how |-> "delete", version |-> TRUE]]
SharePointCompensates == [c \in {"sharepoint.file.upload"} |->
    [how |-> "restore", version |-> TRUE]]
RedditCompensates == [c \in {"reddit.post.create", "reddit.content.edit"} |->
    [how |-> "none", version |-> FALSE]]

CompensationTables == {ConfluenceCompensates, JiraCompensates, GitHubCompensates,
    GitHubAdminCompensates, BitbucketCompensates, SharePointCompensates, RedditCompensates}
Compensation(c) == (CHOOSE t \in CompensationTables : c \in DOMAIN t)[c]

\* A restore that reads the resource a second time and enforces that version
\* before it writes (ConfluenceWriteConnector._update, JiraWriteConnector._compensate).
RereadsBeforeRestore == {"confluence.page.update", "jira.issue.update"}

\* A restore whose result is checked in compensate itself; GitHub settings are
\* only checked by verify_compensation.
ChecksRestore == {"confluence.page.update", "jira.issue.update",
                  "jira.issue.transition", "sharepoint.file.upload"}

\* verify_compensation: what it wants to see.  "version": the captured content at
\* the version compensate returned; "prior": the captured content; "closed": the
\* created resource closed with the approved content; "gone": deleted.
ConfluenceVerifyUndo == [c \in DOMAIN ConfluenceCompensates |->
    IF c = "confluence.page.update" THEN "version" ELSE "gone"]
JiraVerifyUndo == [c \in DOMAIN JiraCompensates |->
    IF c = "jira.issue.comment.create" THEN "gone" ELSE "version"]
GitHubVerifyUndo == [c \in DOMAIN GitHubCompensates |-> "closed"]
GitHubAdminVerifyUndo == [c \in DOMAIN GitHubAdminCompensates |-> "prior"]
BitbucketVerifyUndo == [c \in DOMAIN BitbucketCompensates |-> "closed"]
SharePointVerifyUndo == [c \in DOMAIN SharePointCompensates |-> "prior"]

UndoTables == {ConfluenceVerifyUndo, JiraVerifyUndo, GitHubVerifyUndo,
               GitHubAdminVerifyUndo, BitbucketVerifyUndo, SharePointVerifyUndo}
UndoEvidence(c) == (CHOOSE t \in UndoTables : c \in DOMAIN t)[c]

-----------------------------------------------------------------------------
WriteInit ==
    /\ cap \in Capabilities
    /\ pinned \in (IF Profile(cap).cas THEN {TRUE} ELSE BOOLEAN)
    /\ item = IF Profile(cap).create THEN Nothing ELSE Original
    /\ planned = IF Profile(cap).create THEN 1 ELSE item.ver
    /\ pver = 1 /\ pc = "start" /\ att = 0 /\ used = 0
    /\ before = Nothing /\ after = Nothing /\ cafter = Nothing
    /\ out = "none" /\ ver = "none" /\ cout = "none" /\ cver = "none"
    /\ own = 0 /\ undo = 0 /\ blind = FALSE /\ seen = 0 /\ edits = 0

-----------------------------------------------------------------------------
(* SafeHttpClient.request_bytes *)

\* Faulty variant: any method is retried.
CanRetryAny(mutating) == att < RetryAttempts

\* A retryable status is retried for GET only: no mutation is safe_to_retry.
CanRetry(mutating) == ~mutating /\ att < RetryAttempts

\* HttpActionBudget.reserve_request: one action's calls share the budget.
InBudget == used < MaxPages

\* An exception leaves the call it was raised in.
Raise(kind) ==
    /\ pc' = "idle" /\ att' = 0
    /\ CASE pc \in {"pre", "write", "back"} -> out' = kind /\ UNCHANGED <<ver, cout, cver>>
         [] pc = "verify" -> ver' = kind /\ UNCHANGED <<out, cout, cver>>
         [] pc \in {"cread", "creread", "undo", "cback"} ->
              cout' = kind /\ UNCHANGED <<out, ver, cver>>
         [] OTHER -> cver' = kind /\ UNCHANGED <<out, ver, cout>>

Results == <<out, ver, cout, cver>>
Captured == <<before, after, cafter>>
Fixed == <<cap, pinned, planned>>

\* A request without a usable answer: sent again where that is allowed (a
\* retryable status), raised otherwise.
Unanswered(mutating) ==
    \/ CanRetry(mutating) /\ att' = att + 1 /\ UNCHANGED <<pc, Results>>
    \/ Raise("failed")

\* No budget left: the request is not sent.
Exhausted ==
    /\ pc \notin {"start", "idle"} /\ ~InBudget /\ Raise("failed")
    /\ UNCHANGED <<Fixed, item, pver, used, Captured, own, undo, blind, seen, edits>>

\* A GET that fails: retried on a retryable status, raised otherwise.
ReadFails ==
    /\ pc \in {"pre", "back", "verify", "cread", "creread", "cback", "vundo"}
    /\ InBudget /\ used' = used + 1 /\ Unanswered(FALSE)
    /\ UNCHANGED <<Fixed, item, pver, Captured, own, undo, blind, seen, edits>>

\* A GET that answers, with what it leads to.
Answered(next) ==
    /\ InBudget /\ used' = used + 1 /\ att' = 0 /\ pc' = next
    /\ UNCHANGED <<Fixed, item, pver, own, undo, blind, edits>>

Refused(kind) ==
    /\ InBudget /\ used' = used + 1 /\ Raise(kind)
    /\ UNCHANGED <<Fixed, item, pver, Captured, own, undo, blind, seen, edits>>

-----------------------------------------------------------------------------
(* execute *)

BeginExecute ==
    /\ pc = "start"
    /\ pc' = IF Profile(cap).pre = "none" THEN "write" ELSE "pre"
    /\ UNCHANGED <<Fixed, item, pver, att, used, Captured, Results, own, undo, blind, seen, edits>>

\* enforce_expected_version on the version the pre-write read shows.
VersionAsPlanned ==
    pinned => planned = IF Profile(cap).pre = "parent" THEN pver
                        ELSE IF Profile(cap).pre = "item" THEN item.ver ELSE planned

ReadBefore ==
    /\ pc = "pre"
    /\ \/ /\ VersionAsPlanned /\ Answered("write")
          /\ before' = IF Profile(cap).create THEN Nothing ELSE item
          /\ UNCHANGED <<after, cafter, Results, seen>>
       \/ ~VersionAsPlanned /\ Refused("conflict")

\* The provider's compare-and-swap: Confluence takes version number expected + 1
\* only over the version expected.
Accepts(sent) == Profile(cap).cas => item.ver = sent

\* _expected_updated_version: the request succeeds the version that was compared.
SentVersion(expected) == expected

\* The provider applies a write over whatever it holds.
Applied(val) == [live |-> TRUE, ver |-> item.ver + 1, val |-> val]

\* The mutating request: refused, applied, or applied and the answer lost.
\* next: where an answered write continues.
Mutate(result, expected, next, count, other) ==
    /\ InBudget /\ used' = used + 1
    /\ \/ /\ Accepts(SentVersion(expected))
          /\ item' = result /\ count' = count + 1
          /\ blind' = (blind \/ (item.live /\ item.ver # expected))
          /\ \/ att' = 0 /\ pc' = next /\ UNCHANGED Results   \* answered
             \/ Unanswered(TRUE)                              \* answer lost
       \/ /\ ~Accepts(SentVersion(expected)) /\ Raise("conflict") /\ UNCHANGED <<item, count, blind>>
       \/ Unanswered(TRUE) /\ UNCHANGED <<item, count, blind>>  \* never arrived
    /\ UNCHANGED <<Fixed, pver, Captured, other, seen, edits>>

\* The connectors of a create put a new resource; the others write over the item.
SendWrite ==
    /\ pc = "write"
    /\ Mutate(Applied("new"), IF Profile(cap).cas THEN planned ELSE before.ver,
              "back", own, undo)

\* The read-back contract of execute: approved content, and the version test.
BackMatches ==
    /\ item.live /\ item.val = "new"
    /\ CASE Profile(cap).back = "next" -> item.ver = before.ver + 1
         [] Profile(cap).back = "changed" -> item.ver # before.ver
         [] OTHER -> TRUE

ReadBack ==
    /\ pc = "back"
    /\ IF Profile(cap).back = "unread"   \* Jira comment: the response is the result
       THEN /\ pc' = "idle" /\ out' = "succeeded" /\ after' = [item EXCEPT !.val = "new"]
            /\ seen' = item.ver
            /\ UNCHANGED <<Fixed, item, pver, att, used, before, cafter, ver, cout, cver,
                           own, undo, blind, edits>>
       ELSE \/ /\ BackMatches /\ Answered("idle")
               /\ after' = item /\ seen' = item.ver /\ out' = "succeeded"
               /\ UNCHANGED <<before, cafter, ver, cout, cver>>
            \/ ~BackMatches /\ Refused("failed")

-----------------------------------------------------------------------------
(* verify *)

BeginVerify ==
    /\ pc = "idle" /\ out = "succeeded" /\ ver = "none" /\ pc' = "verify"
    /\ UNCHANGED <<Fixed, item, pver, att, used, Captured, Results, own, undo, blind, seen, edits>>

VerifyMatches ==
    /\ item.live /\ item.val = "new"
    /\ VerifiesVersion(cap) => item.ver = after.ver

Verify ==
    /\ pc = "verify" /\ Answered("idle")
    /\ ver' = IF VerifyMatches THEN "verified" ELSE "mismatch"
    /\ UNCHANGED <<Captured, out, cout, cver, seen>>

-----------------------------------------------------------------------------
(* compensate *)

\* The orchestrator (or an operator) asks for the rollback of a success.
BeginCompensate ==
    /\ pc = "idle" /\ out = "succeeded" /\ cout = "none"
    /\ IF Compensation(cap).how = "none"
       THEN cout' = "failed" /\ UNCHANGED <<pc, out, ver, cver>>
       ELSE pc' = "cread" /\ UNCHANGED Results
    /\ UNCHANGED <<Fixed, item, pver, att, used, Captured, own, undo, blind, seen, edits>>

\* The resource must still be what execute left.
CompensateMatches ==
    /\ item.live /\ item.val = after.val
    /\ Compensation(cap).version => item.ver = after.ver

ReadCurrent ==
    /\ pc = "cread"
    /\ \/ /\ CompensateMatches
          /\ Answered(IF cap \in RereadsBeforeRestore THEN "creread" ELSE "undo")
          /\ cafter' = item /\ UNCHANGED <<before, after, Results, seen>>
       \/ ~CompensateMatches /\ Refused("conflict")

\* The restoring update enforces the version ReadCurrent saw.
RereadCurrent ==
    /\ pc = "creread"
    /\ \/ item.ver = cafter.ver /\ Answered("undo") /\ UNCHANGED <<Captured, Results, seen>>
       \/ item.ver # cafter.ver /\ Refused("conflict")

SendUndo ==
    /\ pc = "undo"
    /\ Mutate(IF Compensation(cap).how = "delete"
              THEN [item EXCEPT !.live = FALSE, !.ver = @ + 1]
              ELSE Applied(before.val),
              cafter.ver, "cback", undo, own)

UndoMatches == /\ item.live /\ item.val = before.val /\ item.ver # cafter.ver
               /\ Profile(cap).cas => item.ver = cafter.ver + 1

ReadUndone ==
    /\ pc = "cback"
    /\ IF Compensation(cap).how = "restore" /\ cap \in ChecksRestore
       THEN \/ /\ UndoMatches /\ Answered("idle") /\ cafter' = item /\ cout' = "succeeded"
               /\ UNCHANGED <<before, after, out, ver, cver, seen>>
            \/ ~UndoMatches /\ Refused("failed")
       ELSE /\ Answered("idle") /\ cafter' = item /\ cout' = "succeeded"
            /\ UNCHANGED <<before, after, out, ver, cver, seen>>

-----------------------------------------------------------------------------
(* verify_compensation *)

BeginVerifyUndo ==
    /\ pc = "idle" /\ cout = "succeeded" /\ cver = "none" /\ pc' = "vundo"
    /\ UNCHANGED <<Fixed, item, pver, att, used, Captured, Results, own, undo, blind, seen, edits>>

UndoVerified ==
    LET want == UndoEvidence(cap)
    IN  /\ item.live = (want \in {"version", "prior"})
        /\ item.live => item.val = before.val
        /\ want = "version" => item.ver = cafter.ver
        /\ want = "closed" => item.val = "new"

VerifyUndo ==
    /\ pc = "vundo" /\ Answered("idle")
    /\ cver' = IF UndoVerified THEN "verified" ELSE "mismatch"
    /\ UNCHANGED <<Captured, out, ver, cout, seen>>

-----------------------------------------------------------------------------
\* Somebody else edits the resource, or its parent.
Edit ==
    /\ edits < MaxEdits /\ edits' = edits + 1
    /\ \/ /\ item.live /\ \E v \in Vals : item' = Applied(v)
          /\ UNCHANGED pver
       \/ /\ Profile(cap).pre = "parent" /\ pver' = pver + 1 /\ UNCHANGED item
    /\ UNCHANGED <<Fixed, pc, att, used, Captured, Results, own, undo, blind, seen>>

WriteNext ==
    \/ BeginExecute \/ ReadBefore \/ SendWrite \/ ReadBack
    \/ BeginVerify \/ Verify \/ BeginCompensate \/ ReadCurrent \/ RereadCurrent
    \/ SendUndo \/ ReadUndone \/ BeginVerifyUndo \/ VerifyUndo
    \/ ReadFails \/ Exhausted \/ Edit

WriteSpec == WriteInit /\ [][WriteNext]_vars

-----------------------------------------------------------------------------
(* Properties *)

\* Types.
WriteTypeOK ==
    /\ item.ver \in 0..(MaxEdits + 2 * (RetryAttempts + 1) + 1)
    /\ item.val \in Vals /\ used \in 0..MaxPages /\ att \in 0..RetryAttempts
    /\ {out, cout} \subseteq {"none", "succeeded", "failed", "conflict"}
    /\ {ver, cver} \subseteq {"none", "verified", "mismatch", "failed"}

\* A reported version conflict means the provider did not take the write: the
\* orchestrator may treat it as an effect that never happened.  It would not be
\* so if a write whose answer was lost were sent again.
ConflictMeansNoEffect ==
    (out = "conflict" => own = 0) /\ (cout = "conflict" => undo = 0)

\* The compare-and-swap capability never writes over an edit it did not read,
\* neither when it executes nor when it rolls back.
NoBlindOverwrite == Profile(cap).cas => ~blind

VerifiedMeansUndisturbedStep ==
    ver # "verified" /\ ver' = "verified" =>
     item.live /\ item.val = "new"
     /\ (VerifiesVersion(cap) => item.ver = seen)

\* verified, for a capability that binds the version, means that nobody touched
\* the resource between execute's read-back and the verification; for every
\* capability the provider held the approved content.
VerifiedMeansUndisturbed == [][VerifiedMeansUndisturbedStep]_vars

\* A verified automatic rollback gives back what execute found, with no edit
\* lost on the way: the content is the captured one, and own write, restore and
\* edits account for every version.
RollbackRestores ==
    (Profile(cap).cas /\ cver = "verified")
        => /\ cafter.val = before.val /\ cafter.ver = before.ver + 2
           /\ own = 1 /\ undo = 1

RollbackSparesSeenEditsStep ==
    undo' # undo => cafter.val = after.val
                    /\ (Compensation(cap).version => cafter.ver = seen)

\* A rollback is refused when its first read shows that somebody changed what
\* execute left: no restore or deletion is sent after an edit it has seen.
RollbackSparesSeenEdits == [][RollbackSparesSeenEditsStep]_vars
=============================================================================
