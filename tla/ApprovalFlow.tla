---------------------------- MODULE ApprovalFlow ----------------------------
(***************************************************************************)
(* The approval handoff of `run --apply`: an applied run that meets actions *)
(* needing approval publishes a request, humans sign it with               *)
(* `approve-request`, and `resume-approval` repeats the captured run with   *)
(* the signed approvals.  Without a request, `approve` signs any actions of *)
(* the plan in the plan file, and `run --apply --approval` starts with such *)
(* approvals.  The plan file and the approval-authorities file              *)
(* are re-read at every step and may be edited between any two of them;    *)
(* a run may be killed while it publishes.                                  *)
(*                                                                         *)
(* A request is its content [plan, pend, with]: the file name is the        *)
(* fingerprint of the content.  What is on disk under that name is nothing, *)
(* a torn prefix, or the whole request.                                     *)
(***************************************************************************)
EXTENDS Naturals, FiniteSets, FiniteSetsExt

CONSTANTS Procs,      \* concurrent invocations of run or resume-approval
          Actions,    \* actions of a plan, with their attributes in Kind
          Kind,       \* action -> [tier, write, from, fits, asks, need]
          Keys,       \* configured approval authorities
          Principal,  \* key -> the identity behind it (_principal_id)
          Plans,      \* plans the plan file may hold
          Ttl, MaxTime, MaxApprovals

Tiers == {"auto", "approval", "prohibited", "unruled"}

\* What the constants are.
FlowAssumption ==
    /\ Keys \subseteq DOMAIN Principal
    /\ \A a \in Actions : Kind[a].tier \in Tiers /\ Kind[a].need \in Nat
    /\ Ttl \in Nat \ {0} /\ MaxTime \in Nat /\ MaxApprovals \in Nat

VARIABLES planFile,   \* what the plan path holds now
          authFile,   \* the authorities file: "bound", or "edited" with revoked ids
          revoked,    \* approvals the edited file revokes
          now,
          approvals,  \* signed artifacts
          disk,       \* request -> "absent" | "torn" | "whole"
          run,        \* process -> the state of its invocation
          effects     \* performed: [plan, act, req, people]

flowVars == <<planFile, authFile, revoked, now, approvals, disk, run, effects>>

Requests == {r \in [plan : Plans, pend : SUBSET Actions, with : SUBSET (1..MaxApprovals)] :
                r.pend # {}}

\* An invocation: at, the plan it loaded, the approvals it carries, the
\* authorities snapshot it took, the actions left, the permitted one that is due
\* and those pending.  Ghosts: the people counted for the one that is due, the plan
\* of the request it resumes, the approvals revoked at its last comparison.
Idle == [at |-> "idle", plan |-> CHOOSE p \in Plans : TRUE, with |-> {}, snap |-> "none",
         todo |-> {}, due |-> {}, pend |-> {}, req |-> {}, dead |-> {}]

FlowInit ==
    /\ planFile \in Plans /\ authFile = "bound" /\ revoked = {} /\ now = 0
    /\ approvals = {} /\ disk = [r \in Requests |-> "absent"]
    /\ run = [p \in Procs |-> Idle] /\ effects = {}

World == <<planFile, authFile, revoked, now>>
Go(p, r) == run' = [run EXCEPT ![p] = r]
Refuse(p) == Go(p, Idle) /\ UNCHANGED <<World, approvals, disk, effects>>

-----------------------------------------------------------------------------
(* Approvals and policy *)

\* authenticated_subject: the principal of a key, or none for an approval the
\* snapshot revokes.  Signatures are perfect: only issued approvals exist.
Authenticated(ap, snap) == snap = "bound" \/ ap.id \notin revoked

\* Faulty variant: an approval of another plan counts.
CoversAnyPlan(ap, plan, a) ==
    a \in ap.acts /\ ap.issued <= now /\ now < ap.issued + Ttl

\* Approval.covers
Covers(ap, plan, a) ==
    ap.plan = plan /\ a \in ap.acts /\ ap.issued <= now /\ now < ap.issued + Ttl

\* The distinct principals behind the valid approvals (covered_by).
Approvers(with, plan, a, snap) ==
    {Principal[ap.key] : ap \in {x \in approvals :
        x.id \in with /\ Authenticated(x, snap) /\ Covers(x, plan, a)}}

\* ContextualPolicyConstraints.validate and the capsule binding comparison.
Fits(a) == Kind[a].fits

\* PolicyEngine._is_write, for an action whose authority is retrieved content.
RetrievedWrite(a) == Kind[a].write /\ Kind[a].from = "retrieved"

NeedsApproval(a) == Kind[a].asks \/ Kind[a].tier = "approval" \/ Kind[a].need > 0

\* PolicyEngine.evaluate: deny, permit or pend, in the order of the code.
Evaluate(with, plan, a, snap) ==
    IF ~Fits(a) \/ Kind[a].tier = "prohibited" \/ RetrievedWrite(a) THEN "deny"
    ELSE IF NeedsApproval(a)
         THEN IF Cardinality(Approvers(with, plan, a, snap)) >= Max({1, Kind[a].need})
              THEN "permit" ELSE "pend"
    ELSE IF Kind[a].tier = "auto" THEN "permit" ELSE "pend"

\* Ghost: the people who stand behind action a at this moment, told from the
\* artifacts alone: of this plan and action, in their validity window, and not
\* revoked when the run last compared its inputs.
Endorsers(r, a) ==
    {who \in {Principal[k] : k \in Keys} : \E ap \in approvals :
        /\ Principal[ap.key] = who /\ ap.id \in r.with \ r.dead
        /\ ap.plan = r.plan /\ a \in ap.acts /\ now \in ap.issued..(ap.issued + Ttl - 1)}

-----------------------------------------------------------------------------
(* run --apply and resume-approval *)

\* run: the plan of the file, with the approvals of --approval.
StartWith(p, with) ==
    /\ run[p].at = "idle"
    /\ Go(p, [Idle EXCEPT !.at = "capture", !.plan = planFile, !.with = with])
    /\ UNCHANGED <<World, approvals, disk, effects>>
Start(p) == \E with \in SUBSET {ap.id : ap \in approvals} : StartWith(p, with)

\* load_approval_request gives the request only when the file is whole.
Loadable(r) == disk[r] = "whole"

\* ApprovalRequest.validate_plan against the plan file.
PlanMatches(r) == planFile = r.plan

\* with_approvals: the captured approvals and the ones given now.
Combine(r, extra) == r.with \cup extra

\* resume-approval restores the captured invocation.
Resume(p) ==
    /\ run[p].at = "idle"
    /\ \E r \in {q \in Requests : Loadable(q)} :
         /\ PlanMatches(r)
         /\ \E extra \in SUBSET {ap.id : ap \in approvals} :
              Go(p, [Idle EXCEPT !.at = "load", !.plan = r.plan, !.with = Combine(r, extra),
                              !.req = {r.plan}])
    /\ UNCHANGED <<World, approvals, disk, effects>>

\* _require_plan_fingerprint: _run loads the plan again and compares.
ExpectedPlan(p) == planFile = run[p].plan

Reload(p) ==
    /\ run[p].at = "load"
    /\ \/ /\ ExpectedPlan(p)
          /\ Go(p, [run[p] EXCEPT !.at = "capture", !.plan = planFile])
          /\ UNCHANGED <<World, approvals, disk, effects>>
       \/ ~ExpectedPlan(p) /\ Refuse(p)

\* _enforce_approved_configuration_inputs: every plan is bound to "bound".
InputsApproved == authFile = "bound"

\* The configuration is read once and compared; the bytes read are the ones used.
Capture(p) ==
    /\ run[p].at = "capture"
    /\ \/ /\ InputsApproved
          /\ Go(p, [run[p] EXCEPT !.at = "recheck", !.snap = authFile])
          /\ UNCHANGED <<World, approvals, disk, effects>>
       \/ ~InputsApproved /\ Refuse(p)

\* The files are compared again after every path and connector was opened.
Recheck(p) ==
    /\ run[p].at = "recheck"
    /\ \/ /\ InputsApproved
          /\ Go(p, [run[p] EXCEPT !.at = "act", !.todo = Actions,
                                  !.dead = revoked])
          /\ UNCHANGED <<World, approvals, disk, effects>>
       \/ ~InputsApproved /\ Refuse(p)

\* One action of WorkflowOrchestrator.run: the policy is evaluated.
Decide(p) ==
    /\ run[p].at = "act"
    /\ \E a \in run[p].todo :
        LET r == run[p]
            verdict == Evaluate(r.with, r.plan, a, r.snap)
            left == [r EXCEPT !.todo = @ \ {a}]
        IN  Go(p, IF verdict = "pend" THEN [left EXCEPT !.pend = @ \cup {a}]
                  ELSE IF verdict = "permit"
                  THEN [left EXCEPT !.at = "effect",
                            !.due = {[act |-> a, people |-> Cardinality(Endorsers(r, a))]}]
                  ELSE left)
    /\ UNCHANGED <<World, approvals, disk, effects>>

\* The connector is called later, without another look at approvals, authorities
\* or time; an effect that stands is not repeated.
Perform(p) ==
    /\ run[p].at = "effect"
    /\ effects' = effects \cup
         {[plan |-> run[p].plan, act |-> d.act, req |-> run[p].req, people |-> d.people] :
            d \in {x \in run[p].due : \A e \in effects : e.plan # run[p].plan \/ e.act # x.act}}
    /\ Go(p, [run[p] EXCEPT !.at = "act", !.due = {}])
    /\ UNCHANGED <<World, approvals, disk>>

\* The request this run has to publish: ApprovalRequest.build.
Built(p) == [plan |-> run[p].plan, pend |-> run[p].pend, with |-> run[p].with]

Finish(p) ==
    /\ run[p].at = "act" /\ run[p].todo = {}
    /\ Go(p, IF run[p].pend = {} THEN Idle ELSE [run[p] EXCEPT !.at = "publish"])
    /\ UNCHANGED <<World, approvals, disk, effects>>

\* _publish_restricted_bytes: O_EXCL create, then write; an existing file is
\* accepted when it holds the same bytes and is an error otherwise.
Create(p) ==
    /\ run[p].at = "publish" /\ disk[Built(p)] = "absent"
    /\ disk' = [disk EXCEPT ![Built(p)] = "torn"]
    /\ Go(p, [run[p] EXCEPT !.at = "write"])
    /\ UNCHANGED <<World, approvals, effects>>

Existing(p) ==
    /\ run[p].at = "publish" /\ disk[Built(p)] # "absent"
    /\ Refuse(p)

Write(p) ==
    /\ run[p].at = "write"
    /\ disk' = [disk EXCEPT ![Built(p)] = "whole"]
    /\ Go(p, Idle) /\ UNCHANGED <<World, approvals, effects>>

\* A failed write removes the file this run created (_unlink_if_owned).
WriteFails(p) ==
    /\ run[p].at = "write"
    /\ disk' = [disk EXCEPT ![Built(p)] = "absent"]
    /\ Go(p, Idle) /\ UNCHANGED <<World, approvals, effects>>

Crash(p) == run[p].at # "idle" /\ Refuse(p)

-----------------------------------------------------------------------------
(* approve-request, by the holder of a key *)

Signable(r) == Loadable(r) /\ PlanMatches(r) /\ InputsApproved

\* HmacApprovalAuthenticator.issue; via is a ghost.
Issue(k, plan, acts, via) ==
    approvals' = approvals \cup {[id |-> Cardinality(approvals) + 1, key |-> k, plan |-> plan,
                                  acts |-> acts, issued |-> now, signed |-> planFile, via |-> via]}

Approve(k) ==
    /\ Cardinality(approvals) < MaxApprovals
    /\ \E r \in {q \in Requests : Loadable(q)} :
         Signable(r) /\ Issue(k, r.plan, r.pend, "request")
    /\ UNCHANGED <<World, disk, run, effects>>

\* approve: any actions of the plan, which the file still holds when it is
\* compared with the fingerprint the key holder gives; no request, no policy and
\* no comparison of the authorities file.
ApprovePlan(k) ==
    /\ Cardinality(approvals) < MaxApprovals
    /\ \E acts \in SUBSET Actions \ {{}} : Issue(k, planFile, acts, "plan")
    /\ UNCHANGED <<World, disk, run, effects>>

-----------------------------------------------------------------------------
(* The world *)

EditPlan == /\ \E q \in Plans \ {planFile} : planFile' = q
            /\ UNCHANGED <<authFile, revoked, now, approvals, disk, run, effects>>

\* The operator revokes approvals: the file changes, whatever it revokes.
Revoke == /\ authFile = "bound" /\ authFile' = "edited"
          /\ \E ids \in SUBSET {ap.id : ap \in approvals} : revoked' = ids
          /\ UNCHANGED <<planFile, now, approvals, disk, run, effects>>

Tick == now < MaxTime /\ now' = now + 1
        /\ UNCHANGED <<planFile, authFile, revoked, approvals, disk, run, effects>>

Step(p) == \/ Reload(p) \/ Capture(p) \/ Recheck(p) \/ Decide(p) \/ Perform(p) \/ Finish(p)
           \/ Create(p) \/ Existing(p) \/ Write(p)

FlowNext ==
    \/ \E p \in Procs : Start(p) \/ Resume(p) \/ Step(p) \/ WriteFails(p) \/ Crash(p)
    \/ \E k \in Keys : Approve(k) \/ ApprovePlan(k)
    \/ EditPlan \/ Revoke \/ Tick

FlowSpec == FlowInit /\ [][FlowNext]_flowVars

\* The undisturbed handoff: nobody edits, nothing crashes and nothing expires;
\* every key holder signs one request, and the agent resumes the furthest
\* request with one approval it does not carry yet.
SignsOnce(k) == /\ \A ap \in approvals : ap.key # k
                /\ Approve(k)

ResumeFurthest(p) ==
    /\ run[p].at = "idle"
    /\ \E r \in {q \in Requests : Loadable(q)} :
         /\ \A q \in Requests : Loadable(q) => Cardinality(q.with) <= Cardinality(r.with)
         /\ PlanMatches(r)
         /\ \E ap \in {x \in approvals : x.id \notin r.with} :
              Go(p, [Idle EXCEPT !.at = "load", !.plan = r.plan, !.with = Combine(r, {ap.id}),
                                 !.req = {r.plan}])
    /\ UNCHANGED <<World, approvals, disk, effects>>

HandoffNext == \/ \E p \in Procs : StartWith(p, {}) \/ ResumeFurthest(p) \/ Step(p)
               \/ \E k \in Keys : SignsOnce(k)

HandoffSpec ==
    /\ FlowInit /\ [][HandoffNext]_flowVars
    /\ WF_flowVars(\E p \in Procs : StartWith(p, {})) /\ \A p \in Procs : WF_flowVars(Step(p))
    /\ SF_flowVars(\E p \in Procs : ResumeFurthest(p)) /\ SF_flowVars(\E k \in Keys : SignsOnce(k))

-----------------------------------------------------------------------------
(* Properties *)

\* Types.
FlowTypeOK ==
    /\ planFile \in Plans /\ authFile \in {"bound", "edited"} /\ now \in 0..MaxTime
    /\ \A ap \in approvals : ap.id \in 1..MaxApprovals /\ ap.key \in Keys
    /\ \A r \in Requests : disk[r] \in {"absent", "torn", "whole"}
    /\ \A p \in Procs : /\ run[p].at \in {"publish", "write"} => run[p].todo = {}
                        /\ run[p].at = "effect" <=> run[p].due # {}

\* Every effect of an action that needs approval had enough distinct people
\* behind it when the policy permitted it, each by an approval of this plan and
\* action, then in its validity window, and not revoked when the run last compared
\* its inputs; approvals of a request and of `approve` count alike.
EffectIsAuthorized ==
    \A e \in effects : NeedsApproval(e.act) => e.people >= Max({1, Kind[e.act].need})

\* A resumed run performs only effects of the plan its request was made for,
\* whatever happens to the plan file meanwhile.
ResumeRunsItsRequest == \A e \in effects : e.req \subseteq {e.plan}

\* The plan file held the plan of an approval when it was signed; and who signs
\* with approve-request signs what a run evaluated and published: the plan and
\* the actions of one whole request, which is still there.
SignedWasReviewed ==
    \A ap \in approvals :
        /\ ap.signed = ap.plan
        /\ ap.via = "request" =>
             \E r \in Requests : Loadable(r) /\ r.plan = ap.plan /\ r.pend = ap.acts

\* Every effect that needs approval had enough distinct people behind it when the
\* policy permitted it, each by an approval of this plan and action, then in its
\* validity window and not revoked when the run last compared its inputs, whether
\* `approve` or `approve-request` signed it; what approve-request signed is one
\* whole request that a run had published, of the plan then in the plan file; and
\* a resumed run performs only effects of the plan its request was made for.
\* Requests, plans, authorities and time change between any two steps, also
\* between the permission and the effect, which may come after an approval has
\* expired (policy.py evaluate, approval_handoff.py, cli._approve,
\* cli._execute_approval_resume).
EffectsAreApproved ==
    /\ FlowTypeOK /\ EffectIsAuthorized
    /\ SignedWasReviewed /\ ResumeRunsItsRequest

Approvable == {a \in Actions : Fits(a) /\ Kind[a].tier \in {"auto", "approval"} /\ ~RetrievedWrite(a)
                   /\ Cardinality({Principal[k] : k \in Keys}) >= Kind[a].need}
Performed(a) == \E e \in effects : e.act = a

\* The undisturbed handoff completes: every action that enough of the configured
\* people can approve is performed.
HandoffCompletes == \A a \in Approvable : <>Performed(a)
=============================================================================
