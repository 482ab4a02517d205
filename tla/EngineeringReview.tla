------------------------- MODULE EngineeringReview -------------------------
(***************************************************************************)
(* workflows/engineering_work_item_review.py and the command that runs it: *)
(* one Jira issue, one repository, one pull request, its builds, its       *)
(* diffstat and some Confluence pages are read, each read twice, while     *)
(* people keep working on all of them; the report is then classified and   *)
(* published as one private bundle.                                        *)
(***************************************************************************)
EXTENDS Integers, Sequences, FiniteSets, SequencesExt

CONSTANTS Commits,          \* commits a branch may point at
          PageIds,          \* page ids a configuration may name
          Configurations,   \* workflow configurations a profile may select
          Integrations,     \* connector configurations a profile may select
          WorldInits,       \* what the providers hold when the review starts
          MaxEdits, MaxOutages   \* bounds of the model

\* What the constants are: a page id is a number, a relation is of one of the two providers.
WorldKnown(w) ==
    /\ {"key", "relations", "head", "base", "failed", "version", "space", "owner"} \subseteq DOMAIN w
    /\ \A r \in w.relations : r.provider \in {"bitbucket", "confluence"}
ReviewAssumption ==
    /\ MaxEdits \in Nat /\ MaxOutages \in Nat
    /\ PageIds \cap {"jira", "repository", "pull_request", "build", "diffstat"} = {}
    /\ \A s \in Configurations : s.pages \in Seq(PageIds) /\ s.diffstat \in BOOLEAN
    /\ \A w \in WorldInits : WorldKnown(w)

VARIABLES world,     \* what the providers hold
          phase,     \* where the command is
          settings, integrations,
          todo,      \* actions not yet run, in plan order
          held,      \* the result of the action between its two reads
          state,     \* action -> its state in the report
          payload,   \* action -> its verified result
          bundle,    \* the published review
          exit,      \* the command's exit status
          seen,      \* ghost: action -> the provider's states at its two reads
          lost,      \* ghost: actions a provider did not answer
          edits, outages

reviewVars == <<world, phase, settings, integrations, todo, held, state, payload, bundle, exit,
                seen, lost, edits, outages>>

None == [none |-> TRUE]
Core == {"jira", "repository", "pull_request", "build"}
MaxPages == 3
MaxLimit == 100
IssueKey == "KEY-1"
PullRequestId == "7"

\* EngineeringWorkItemReviewSettings: which configurations load.
SettingsLoad(s) ==
    /\ s.case = "T1-EWIR-001"
    /\ s.classification # "unknown"
    /\ IF s.deployment = "cloud" THEN s.workspace # "" /\ s.project = ""
                                 ELSE s.project # "" /\ s.workspace = ""
    /\ s.buildLimit \in 1..MaxLimit
    /\ s.diffLimit \in 1..MaxLimit
    /\ Len(s.pages) <= MaxPages
    /\ IsInjective(s.pages)
\* bitbucket_owner
Owner(s) == IF s.deployment = "cloud" THEN s.workspace ELSE s.project

\* _connector_origins: the origins a connector may be at.
ConnectorOrigins(c) == {o \in {c.base, c.web} : o # ""}
BitbucketOrigins(c) ==
    ConnectorOrigins(c) \cup
        (IF c.deployment = "cloud" /\ "api.bitbucket.org" \in ConnectorOrigins(c)
         THEN {"bitbucket.org"} ELSE {})

\* _validate_engineering_review_integrations
IntegrationsMatch(s, i) ==
    LET Selected == {"jira", "bitbucket"} \cup (IF s.pages = <<>> THEN {} ELSE {"confluence"})
    IN  /\ \A c \in Selected : c \in DOMAIN i /\ i[c].enabled /\ i[c].native
        /\ i["bitbucket"].deployment = s.deployment
        /\ s.buildLimit <= i["bitbucket"].maxItems
        /\ s.diffstat => s.diffLimit <= i["bitbucket"].maxItems
        /\ s.origin \in BitbucketOrigins(i["bitbucket"])
        /\ "confluence" \in Selected => s.confluenceOrigin \in ConnectorOrigins(i["confluence"])

\* _workflow_actions: the plan's actions in order, and what each depends on.
WorkflowActions(s) ==
    <<"jira", "repository", "pull_request", "build">>
        \o (IF s.diffstat THEN <<"diffstat">> ELSE <<>>) \o s.pages
Planned == Range(WorkflowActions(settings))
Dependency(a) ==
    CASE a = "jira" -> {}
      [] a = "repository" -> {"jira"}
      [] a = "pull_request" -> {"repository"}
      [] a \in {"build", "diffstat"} -> {"pull_request"}
      [] OTHER -> {"build"}

\* What the connectors return for each action.
Answer(a, w) ==
    CASE a = "jira" -> [key |-> w.key, relations |-> w.relations, criteria |-> w.criteria]
      [] a = "repository" -> [owner |-> w.owner]
      [] a = "pull_request" -> [id |-> PullRequestId, source |-> w.head, destination |-> w.base,
                                mentions |-> w.mentions]
      [] a = "build" -> [id |-> PullRequestId, commit |-> w.head, failed |-> w.head \in w.failed]
      [] a = "diffstat" -> [id |-> PullRequestId, source |-> w.head, destination |-> w.base]
      [] OTHER -> [id |-> a, space |-> w.space[a], version |-> w.version[a]]

ReviewInit ==
    /\ world \in WorldInits
    /\ phase = "load"
    /\ settings = None /\ integrations = None
    /\ todo = <<>> /\ held = None
    /\ state = <<>> /\ payload = <<>>
    /\ bundle = None /\ exit = -1
    /\ seen = <<>> /\ lost = {}
    /\ edits = 0 /\ outages = 0

Stop(status) == phase' = "done" /\ exit' = status

\* _engineering_work_item_review up to the plan: the workflow configuration is read, then the
\* integrations, and they must agree before a provider is asked.
Load ==
    /\ phase = "load"
    /\ \E s \in Configurations, i \in Integrations :
        /\ settings' = s /\ integrations' = i
        /\ IF SettingsLoad(s) /\ IntegrationsMatch(s, i)
           THEN /\ todo' = WorkflowActions(s)
                /\ state' = [a \in Range(WorkflowActions(s)) |-> "PLANNED"]
                /\ payload' = [a \in Range(WorkflowActions(s)) |-> None]
                /\ seen' = [a \in Range(WorkflowActions(s)) |-> <<>>]
                /\ phase' = "run" /\ UNCHANGED exit
           ELSE Stop(2) /\ UNCHANGED <<todo, state, payload, seen>>
    /\ UNCHANGED <<world, held, bundle, lost, edits, outages>>

Action == Head(todo)
\* The report of the action at hand.
Report(st, result) ==
    /\ state' = [state EXCEPT ![Action] = st]
    /\ payload' = [payload EXCEPT ![Action] = result]
    /\ held' = None
    /\ todo' = Tail(todo)
    /\ phase' = IF Len(todo) = 1 THEN "render" ELSE "run"

\* Orchestrator.execute: an action whose dependency is not verified does not run.
Skip ==
    /\ phase = "run" /\ held = None
    /\ \E d \in Dependency(Action) : state[d] # "VERIFIED"
    /\ Report("SKIPPED", None)
    /\ UNCHANGED <<world, settings, integrations, bundle, exit, seen, lost, edits, outages>>

\* ReadOnlyConnector.execute: the first read of an action.
Execute ==
    /\ phase = "run" /\ held = None
    /\ \A d \in Dependency(Action) : state[d] = "VERIFIED"
    /\ held' = Answer(Action, world)
    /\ seen' = [seen EXCEPT ![Action] = <<world>>]
    /\ UNCHANGED <<world, phase, settings, integrations, todo, state, payload, bundle, exit,
                   lost, edits, outages>>

\* The first read raises: nothing was retrieved, the action has failed.
ExecuteFails ==
    /\ phase = "run" /\ held = None /\ outages < MaxOutages
    /\ \A d \in Dependency(Action) : state[d] = "VERIFIED"
    /\ Report("FAILED", None)
    /\ lost' = lost \cup {Action} /\ outages' = outages + 1
    /\ UNCHANGED <<world, settings, integrations, bundle, exit, seen, edits>>

\* ReadOnlyConnector.verify: the second read must give what the first gave.  An answer that
\* differs leaves the action indeterminate, without a result.
Verify ==
    /\ phase = "run" /\ held # None
    /\ IF Answer(Action, world) = held THEN Report("VERIFIED", held)
                                       ELSE Report("INDETERMINATE", None)
    /\ seen' = [seen EXCEPT ![Action] = Append(@, world)]
    /\ UNCHANGED <<world, settings, integrations, bundle, exit, lost, edits, outages>>

\* The second read raises, after a result was held: the action is indeterminate.
VerifyFails ==
    /\ phase = "run" /\ held # None /\ outages < MaxOutages
    /\ Report("INDETERMINATE", None)
    /\ lost' = lost \cup {Action} /\ outages' = outages + 1
    /\ UNCHANGED <<world, settings, integrations, bundle, exit, seen, edits>>

-----------------------------------------------------------------------------
\* _verified_payloads
Verified == {a \in Planned : state[a] = "VERIFIED"}
PageActions == Range(settings.pages)

IssueIsExact == payload["jira"].key = IssueKey
RepositoryIsExact == payload["repository"].owner = Owner(settings)
PullRequestIsExact == "pull_request" \in Verified /\ payload["pull_request"].id = PullRequestId
BuildIsExact == payload["build"].id = PullRequestId
DiffstatIsExact == payload["diffstat"].id = PullRequestId
PageIsExact(p) == payload[p].id = p /\ payload[p].space = settings.space
BuildIsOfHead == payload["build"].commit = payload["pull_request"].source
DiffstatIsOfRange ==
    /\ payload["diffstat"].source = payload["pull_request"].source
    /\ payload["diffstat"].destination = payload["pull_request"].destination

\* Faulty variant: the build is not compared with the pull request's head.
StaleWithoutHead ==
    {a \in Verified :
        \/ a = "jira" /\ ~IssueIsExact
        \/ a = "repository" /\ ~RepositoryIsExact
        \/ a = "diffstat" /\ (~DiffstatIsExact \/ ~PullRequestIsExact \/ ~DiffstatIsOfRange)
        \/ a \in PageActions /\ ~PageIsExact(a)}
\* _evidence_staleness: the verified evidence that is not of the configured resource, or not of
\* the pull request's own commits.
EvidenceStaleness ==
    {a \in Verified :
        \/ a = "jira" /\ ~IssueIsExact
        \/ a = "repository" /\ ~RepositoryIsExact
        \/ a = "pull_request" /\ ~PullRequestIsExact
        \/ a = "build" /\ (~BuildIsExact \/ (PullRequestIsExact /\ ~BuildIsOfHead))
        \/ a = "diffstat" /\ (~DiffstatIsExact \/ ~PullRequestIsExact \/ ~DiffstatIsOfRange)
        \/ a \in PageActions /\ ~PageIsExact(a)}

\* _reportable_verified_payloads: what is stale is quarantined.
Reportable == Verified \ EvidenceStaleness

\* _relation_ambiguities: the kinds of relation that name another resource.
RelationAmbiguities ==
    LET Relations == IF "jira" \in Reportable THEN payload["jira"].relations ELSE {}
    IN  {r.provider : r \in {q \in Relations :
            \/ q.provider = "bitbucket" /\ q.target # <<Owner(settings), PullRequestId>>
            \/ q.provider = "confluence" /\ ~(/\ q.target[1] = settings.space
                                              /\ q.target[2] \in PageActions)}}

\* _failure_records
FailureRecords ==
    {[action |-> a, state |-> state[a]] : a \in Planned \ Verified}
        \cup {[action |-> a, state |-> "quarantined"] : a \in EvidenceStaleness}

\* _is_stale: the report's message tells only the state.
IsStale(a) == state[a] \in {"INDETERMINATE", "CONFLICTED"}

\* _classify_outcome
ClassifyOutcome ==
    IF EvidenceStaleness # {} \/ \E a \in Planned : IsStale(a) THEN "stale"
    ELSE IF RelationAmbiguities # {} THEN "ambiguous"
    ELSE IF Core \ Verified # {} THEN "failed"
    ELSE IF Planned \ Verified # {} THEN "partial"
    ELSE "complete"

Finding(kind, citations) == [kind |-> kind, citations |-> citations]
\* _findings: what the review says of the evidence, each with the evidence it cites.
Findings ==
    LET Has(a) == a \in Reportable
    IN  {f \in {Finding("missing_acceptance_criteria", {"jira"})} :
            Has("jira") /\ ~payload["jira"].criteria}
        \cup {f \in {Finding("pull_request_traceability", {"jira", "pull_request"})} :
            Has("jira") /\ Has("pull_request") /\ ~payload["pull_request"].mentions}
        \cup {f \in {Finding("failing_build", {"build"})} :
            Has("build") /\ payload["build"].failed}
        \cup {f \in {Finding("missing_confluence_evidence", {})} :
            PageActions # {} /\ PageActions \cap Reportable = {}}
        \cup {Finding("ambiguous_relation", {"jira"}) : r \in RelationAmbiguities}
        \cup {Finding("stale", {}) : a \in EvidenceStaleness}

\* _render_markdown: the sections with facts, each marked with its citation.
RenderMarkdown == {[section |-> a, citation |-> a] : a \in Reportable}

\* render_engineering_work_item_review: the bundle of the report.
Rendered ==
    [outcome |-> ClassifyOutcome, complete |-> ClassifyOutcome = "complete",
     evidence |-> [a \in Reportable |-> payload[a]],
     failures |-> FailureRecords, ambiguities |-> RelationAmbiguities,
     findings |-> Findings, markdown |-> RenderMarkdown]

\* The status _engineering_work_item_review returns.
ExitStatus(b, ok) == IF ok /\ b.outcome = "complete" THEN 0 ELSE 2

\* RunReport.successful
Successful == \A a \in Planned : state[a] = "VERIFIED"

\* observe_artifacts: the bundle is written create-only, once.
Publish ==
    /\ phase = "render"
    /\ bundle' = Rendered
    /\ Stop(ExitStatus(Rendered, Successful))
    /\ UNCHANGED <<world, settings, integrations, todo, held, state, payload, seen, lost,
                   edits, outages>>

\* write_artifact_bundle fails: the command ends with an error and no bundle.
PublishFails ==
    /\ phase = "render" /\ outages < MaxOutages
    /\ outages' = outages + 1
    /\ Stop(1)
    /\ UNCHANGED <<world, settings, integrations, todo, held, state, payload, bundle, seen, lost,
                   edits>>

\* People at work on the issue, the branches, the builds and the pages.
Edit ==
    /\ edits < MaxEdits /\ phase = "run"
    /\ edits' = edits + 1
    /\ \/ world' = [world EXCEPT !.key = "MOVED-1"]
       \/ \E c \in Commits \ {world.head} : world' = [world EXCEPT !.head = c]
       \/ \E c \in Commits \ {world.base} : world' = [world EXCEPT !.base = c]
       \/ \E c \in Commits \ world.failed : world' = [world EXCEPT !.failed = @ \cup {c}]
       \/ \E p \in PageIds : world' = [world EXCEPT !.version[p] = 1 - @]
       \/ \E p \in PageIds : world' = [world EXCEPT !.space[p] = "other"]
       \/ world' = [world EXCEPT !.owner = "renamed"]
    /\ world' # world
    /\ UNCHANGED <<phase, settings, integrations, todo, held, state, payload, bundle, exit, seen,
                   lost, outages>>

Done == phase = "done" /\ UNCHANGED reviewVars

ReviewNext ==
    \/ Load \/ Skip \/ Execute \/ ExecuteFails \/ Verify \/ VerifyFails
    \/ Publish \/ PublishFails \/ Edit \/ Done

ReviewSpec == ReviewInit /\ [][ReviewNext]_reviewVars

-----------------------------------------------------------------------------
\* The shape of the state.
ReviewTypeOK ==
    /\ phase \in {"load", "run", "render", "done"}
    /\ exit \in {-1, 0, 1, 2}
    /\ (phase = "done") = (exit # -1)
    /\ DOMAIN payload = DOMAIN state /\ DOMAIN seen = DOMAIN state
    /\ (phase = "run") = (todo # <<>>)
    /\ \A a \in DOMAIN state :
        state[a] \in {"PLANNED", "VERIFIED", "FAILED", "INDETERMINATE", "SKIPPED"}

\* A review that is complete is about one state of the work item: the builds it reports are those
\* of the commit its pull request stands at, the diffstat is of the same two commits, and every
\* configured page is in it from the configured space, although all of them were read one after the
\* other while the branches moved (_evidence_staleness, _classify_outcome).
CompleteIsOneReview ==
    bundle # None /\ bundle.complete =>
        LET e == bundle.evidence
        IN  /\ DOMAIN e = Planned
            /\ e["jira"].key = IssueKey
            /\ e["repository"].owner = Owner(settings)
            /\ e["build"].commit = e["pull_request"].source
            /\ settings.diffstat => /\ e["diffstat"].source = e["pull_request"].source
                                    /\ e["diffstat"].destination = e["pull_request"].destination
            /\ \A p \in PageActions : e[p].space = settings.space
            /\ \A r \in e["jira"].relations :
                \/ r.target = <<Owner(settings), PullRequestId>>
                \/ r.target[2] \in PageActions

\* Whatever a review reports, cites or finds was true of the provider at both reads of its action:
\* evidence that moved in between, that was never confirmed, or that is of another resource supports
\* no section and no finding (_reportable_verified_payloads, _findings, _render_markdown).
ReportedWasTrueTwice ==
    bundle # None =>
        /\ \A a \in DOMAIN bundle.evidence :
            /\ Len(seen[a]) = 2
            /\ \A i \in 1..2 : Answer(a, seen[a][i]) = bundle.evidence[a]
            /\ a = "jira" => bundle.evidence[a].key = IssueKey
            /\ a \in PageActions => bundle.evidence[a].space = settings.space
            /\ a = "build" => bundle.evidence[a].commit = payload["pull_request"].source
        /\ \A f \in bundle.findings : f.citations \subseteq DOMAIN bundle.evidence
        /\ \A s \in bundle.markdown : s.citation \in DOMAIN bundle.evidence
        /\ (\E f \in bundle.findings : f.kind = "failing_build") =>
                seen["pull_request"][2].head \in seen["build"][1].failed

\* Nothing configured goes missing silently: each configured read is evidence of the bundle or has a
\* failure record in it, never both, and a bundle with a failure, an ambiguity or a gap is not called
\* complete (_failure_records, _classify_outcome).
GapsAreVisible ==
    bundle # None =>
        /\ \A a \in Planned : (a \in DOMAIN bundle.evidence) # (\E f \in bundle.failures : f.action = a)
        /\ bundle.complete => bundle.failures = {} /\ bundle.ambiguities = {}
        /\ bundle.outcome = "partial" => Core \subseteq DOMAIN bundle.evidence

\* The command answers success only for a published bundle that is complete
\* (_engineering_work_item_review).
SuccessIsComplete == exit = 0 => bundle # None /\ bundle.complete

\* A review that is complete is about one state of the work item, although
\* issue, pull request and pages were read one after the other while they
\* moved; whatever a review reports was true at both reads of its action;
\* nothing configured goes missing silently; and the command answers success
\* only for a published bundle that is complete
\* (engineering_work_item_review.py).
ReviewsAreCoherent ==
    /\ ReviewTypeOK /\ CompleteIsOneReview /\ ReportedWasTrueTwice /\ GapsAreVisible
    /\ SuccessIsComplete

\* An optional page that its provider stops answering for leaves a partial review, with the core
\* evidence verified (MA-TIER1-EWIR-001, "Optional page is unavailable").
UnavailablePageIsPartial ==
    (/\ bundle # None /\ bundle.ambiguities = {}
     /\ Core \subseteq DOMAIN bundle.evidence
     /\ Planned \ DOMAIN bundle.evidence # {}
     /\ Planned \ DOMAIN bundle.evidence \subseteq lost \cap PageActions)
        => bundle.outcome = "partial"
=============================================================================
