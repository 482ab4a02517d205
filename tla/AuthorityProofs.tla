-------------------------- MODULE AuthorityProofs --------------------------
(***************************************************************************)
(* What may be done, by whom and where.  The approval handoff, for any     *)
(* number of invocations, keys, people, plans and actions: no effect was   *)
(* permitted without the people it needs, no resumed run leaves its        *)
(* request, approve-request signs only what was published.  The approved execution context, for any  *)
(* connectors, credentials, directories and people, and any number of runs *)
(* and of changes to files, logins and directories between any two steps.  *)
(* Reads under a model-context policy, for any policies, plans and answers.*)
(***************************************************************************)
EXTENDS ApprovalFlow, ExecutionContext, ProviderReads, FiniteSetTheorems, TLAPS

Stages == {"idle", "load", "capture", "recheck", "act", "effect", "publish", "write"}

(* What the policy permits: an action with the people it needs behind it. *)
DueActions ==
    {d \in [act : Actions, people : {Cardinality(who) : who \in SUBSET {Principal[k] : k \in Keys}}] :
        NeedsApproval(d.act) => d.people >= Max({1, Kind[d.act].need})}

Invocation ==
    [at : Stages, plan : Plans, with : SUBSET (1..MaxApprovals),
     snap : {"none", "bound"}, todo : SUBSET Actions, due : SUBSET DueActions,
     pend : SUBSET Actions, req : SUBSET Plans, dead : {{}}]

(* No invocation gets past a comparison with an edited authorities file,   *)
(* so what it carries was not revoked when it compared (dead is empty).    *)
FlowTypes ==
    /\ planFile \in Plans /\ authFile \in {"bound", "edited"}
    /\ now \in 0..MaxTime
    /\ IsFiniteSet(approvals)
    /\ \A ap \in approvals :
          ap.id \in 1..MaxApprovals /\ ap.key \in Keys /\ ap.issued \in Nat
    /\ disk \in [Requests -> {"absent", "torn", "whole"}]
    /\ run \in [Procs -> Invocation]

ComparedFirst ==
    /\ authFile = "bound" => revoked = {}
    /\ \A p \in Procs : run[p].at \in {"recheck", "act", "effect"} => run[p].snap = "bound"

(* A torn request belongs to the one invocation that is writing it, so a   *)
(* failed write never takes a request away that somebody has signed.       *)
OneWriter ==
    /\ \A p \in Procs :
          /\ run[p].at \in {"publish", "write"} => run[p].pend # {} /\ run[p].todo = {}
          /\ run[p].at = "write" => disk[Built(p)] = "torn"
    /\ \A p, q \in Procs :
          run[p].at = "write" /\ run[q].at = "write" /\ Built(p) = Built(q) => p = q

KeepsRequest == \A p \in Procs : run[p].req \subseteq {run[p].plan}

(* Something is due exactly between a permission and its effect. *)
DueOnce == \A p \in Procs : run[p].at = "effect" <=> run[p].due # {}

FlowInv ==
    /\ FlowTypes /\ ComparedFirst /\ OneWriter /\ KeepsRequest /\ DueOnce
    /\ EffectIsAuthorized /\ ResumeRunsItsRequest /\ SignedWasReviewed

-----------------------------------------------------------------------------
(* The people the policy counts are the people who stand behind the action *)
(* when nothing the run carries was revoked at its last comparison.        *)
LEMMA ApproversAreEndorsers ==
    ASSUME FlowAssumption, FlowTypes, NEW r \in Invocation, r.snap = "bound", NEW a
    PROVE  Approvers(r.with, r.plan, a, r.snap) = Endorsers(r, a)
<1>0. Ttl \in Nat \ {0} /\ now \in Nat
  BY DEF FlowAssumption, FlowTypes
<1>1. ASSUME NEW ap \in approvals
      PROVE  /\ ap.key \in Keys
             /\ Authenticated(ap, r.snap)
             /\ ap.id \in r.with \ r.dead <=> ap.id \in r.with
             /\ Covers(ap, r.plan, a) <=>
                  /\ ap.plan = r.plan /\ a \in ap.acts
                  /\ now \in ap.issued..(ap.issued + Ttl - 1)
  <2>1. ap.issued \in Nat /\ ap.key \in Keys
    BY DEF FlowTypes
  <2>2. now \in ap.issued..(ap.issued + Ttl - 1)
          <=> ap.issued <= now /\ now < ap.issued + Ttl
    BY <1>0, <2>1
  <2>3. r.dead = {}
    BY DEF Invocation
  <2> QED
    BY <2>1, <2>2, <2>3 DEF Authenticated, Covers
<1>2. ASSUME NEW who \in Approvers(r.with, r.plan, a, r.snap)
      PROVE  who \in Endorsers(r, a)
  BY <1>1 DEF Approvers, Endorsers
<1>3. ASSUME NEW who \in Endorsers(r, a)
      PROVE  who \in Approvers(r.with, r.plan, a, r.snap)
  BY <1>1 DEF Approvers, Endorsers
<1> QED
  BY <1>2, <1>3

LEMMA IdleIsInvocation ==
    ASSUME planFile \in Plans
    PROVE  Idle \in Invocation /\ Idle.at = "idle" /\ Idle.req = {} /\ Idle.due = {}
<1>1. (CHOOSE p \in Plans : TRUE) \in Plans
  OBVIOUS
<1> QED
  BY <1>1 DEF Idle, Invocation, Stages

(* One invocation moves and nothing else changes. *)
LEMMA Moves ==
    ASSUME FlowInv, NEW p \in Procs, NEW r \in Invocation, Go(p, r),
           UNCHANGED <<World, approvals, disk>>,
           r.at \in {"recheck", "act", "effect"} => r.snap = "bound",
           r.at = "publish" => r.pend # {} /\ r.todo = {},
           r.at # "write",
           r.req \subseteq {r.plan},
           r.at = "effect" <=> r.due # {}
    PROVE  FlowTypes' /\ ComparedFirst' /\ OneWriter' /\ KeepsRequest' /\ DueOnce'
<1>1. /\ run'[p] = r /\ \A q \in Procs \ {p} : run'[q] = run[q]
      /\ run' \in [Procs -> Invocation]
  BY DEF FlowInv, FlowTypes, Go
<1>2. \A q \in Procs \ {p} : Built(q)' = Built(q)
  BY <1>1 DEF Built
<1>3. FlowTypes'
  BY <1>1 DEF FlowInv, FlowTypes, World
<1>4. ComparedFirst'
  BY <1>1 DEF FlowInv, ComparedFirst, World
<1>5. OneWriter'
  BY <1>1, <1>2 DEF FlowInv, OneWriter
<1>6. KeepsRequest' /\ DueOnce'
  BY <1>1 DEF FlowInv, KeepsRequest, DueOnce
<1> QED
  BY <1>3, <1>4, <1>5, <1>6

(* What was signed stays reviewed while no request disappears. *)
LEMMA StillReviewed ==
    ASSUME SignedWasReviewed, approvals' = approvals,
           \A r \in Requests : disk[r] = "whole" => disk'[r] = "whole"
    PROVE  SignedWasReviewed'
  BY DEF SignedWasReviewed, Loadable

(* Steps of an invocation that leave the disk and the effects alone. *)
LEMMA QuietSteps ==
    ASSUME FlowAssumption, FlowInv, NEW p \in Procs,
           Start(p) \/ Resume(p) \/ Reload(p) \/ Capture(p) \/ Recheck(p)
             \/ Finish(p) \/ Existing(p) \/ Crash(p)
    PROVE  FlowInv'
<1>0. /\ run[p] \in Invocation /\ planFile \in Plans
      /\ Idle \in Invocation /\ Idle.at = "idle" /\ Idle.req = {}
      /\ Idle.due = {}
  BY IdleIsInvocation DEF FlowInv, FlowTypes
<1>1. UNCHANGED <<World, approvals, disk, effects>>
  BY DEF Start, StartWith, Resume, Reload, Capture, Recheck, Finish, Existing, Crash, Refuse
<1>2. EffectIsAuthorized' /\ ResumeRunsItsRequest' /\ SignedWasReviewed'
  BY <1>1, StillReviewed DEF FlowInv, EffectIsAuthorized, ResumeRunsItsRequest
<1>3. ASSUME NEW r \in Invocation, Go(p, r),
             r.at \in {"recheck", "act", "effect"} => r.snap = "bound",
             r.at = "publish" => r.pend # {} /\ r.todo = {},
             r.at # "write", r.req \subseteq {r.plan}, r.at = "effect" <=> r.due # {}
      PROVE  FlowInv'
  BY <1>1, <1>2, <1>3, Moves DEF FlowInv
<1>4. CASE Go(p, Idle)
  BY <1>0, <1>3, <1>4
<1>5. CASE Start(p)
  <2>1. PICK with \in SUBSET {ap.id : ap \in approvals} :
           Go(p, [Idle EXCEPT !.at = "capture", !.plan = planFile, !.with = with])
    BY <1>5 DEF Start, StartWith
  <2> DEFINE r == [Idle EXCEPT !.at = "capture", !.plan = planFile, !.with = with]
  <2>2. with \subseteq 1..MaxApprovals
    BY DEF FlowInv, FlowTypes
  <2>3. r \in Invocation /\ r.at = "capture" /\ r.req = {} /\ r.due = {}
    BY <1>0, <2>2 DEF Invocation, Stages
  <2> QED
    BY <1>3, <2>1, <2>3
<1>6. CASE Resume(p)
  <2>1. PICK q \in Requests, extra \in SUBSET {ap.id : ap \in approvals} :
           Go(p, [Idle EXCEPT !.at = "load", !.plan = q.plan,
                              !.with = Combine(q, extra), !.req = {q.plan}])
    BY <1>6 DEF Resume
  <2> DEFINE r == [Idle EXCEPT !.at = "load", !.plan = q.plan,
                               !.with = Combine(q, extra), !.req = {q.plan}]
  <2>2. q.plan \in Plans /\ Combine(q, extra) \subseteq 1..MaxApprovals
    BY DEF Requests, Combine, FlowInv, FlowTypes
  <2>3. r \in Invocation /\ r.at = "load" /\ r.req = {r.plan} /\ r.due = {}
    BY <1>0, <2>2 DEF Invocation, Stages
  <2> QED
    BY <1>3, <2>1, <2>3
<1>7. CASE Reload(p) /\ ExpectedPlan(p)
  <2> DEFINE r == [run[p] EXCEPT !.at = "capture", !.plan = planFile]
  <2>1. r \in Invocation /\ r.at = "capture" /\ r.req = run[p].req
          /\ r.plan = run[p].plan /\ r.due = {}
    BY <1>0, <1>7 DEF Invocation, Stages, ExpectedPlan, Reload, FlowInv, DueOnce
  <2> QED
    BY <1>3, <1>7, <2>1 DEF Reload, FlowInv, KeepsRequest
<1>8. CASE Capture(p) /\ InputsApproved
  <2> DEFINE r == [run[p] EXCEPT !.at = "recheck", !.snap = authFile]
  <2>1. r \in Invocation /\ r.at = "recheck" /\ r.snap = "bound"
          /\ r.req = run[p].req /\ r.plan = run[p].plan /\ r.due = {}
    BY <1>0, <1>8 DEF Invocation, Stages, InputsApproved, Capture, FlowInv, DueOnce
  <2> QED
    BY <1>3, <1>8, <2>1 DEF Capture, FlowInv, KeepsRequest
<1>9. CASE Recheck(p) /\ InputsApproved
  <2> DEFINE r == [run[p] EXCEPT !.at = "act", !.todo = Actions, !.dead = revoked]
  <2>1. revoked = {} /\ run[p].snap = "bound"
    BY <1>9 DEF Recheck, InputsApproved, FlowInv, ComparedFirst
  <2>2. r \in Invocation /\ r.at = "act" /\ r.snap = "bound"
          /\ r.req = run[p].req /\ r.plan = run[p].plan /\ r.due = {}
    BY <1>0, <1>9, <2>1 DEF Invocation, Stages, Recheck, FlowInv, DueOnce
  <2> QED
    BY <1>3, <1>9, <2>2 DEF Recheck, FlowInv, KeepsRequest
<1>10. CASE Finish(p) /\ run[p].pend # {}
  <2> DEFINE r == [run[p] EXCEPT !.at = "publish"]
  <2>1. r \in Invocation /\ r.at = "publish" /\ r.pend # {} /\ r.todo = {}
          /\ r.req = run[p].req /\ r.plan = run[p].plan /\ r.due = {}
    BY <1>0, <1>10 DEF Invocation, Stages, Finish, FlowInv, DueOnce
  <2> QED
    BY <1>3, <1>10, <2>1 DEF Finish, FlowInv, KeepsRequest
<1> QED
  BY <1>4, <1>5, <1>6, <1>7, <1>8, <1>9, <1>10
  DEF Reload, Capture, Recheck, Finish, Existing, Crash, Refuse

(* An action becomes due only with the people it needs behind it. *)
LEMMA DecideStep ==
    ASSUME FlowAssumption, FlowInv, NEW p \in Procs, Decide(p)
    PROVE  FlowInv'
<1> DEFINE r == run[p]
<1>0. /\ r \in Invocation /\ r.at = "act" /\ r.snap = "bound" /\ r.due = {}
      /\ r.req \subseteq {r.plan}
  BY DEF Decide, FlowInv, FlowTypes, ComparedFirst, KeepsRequest, DueOnce
<1>1. PICK a \in r.todo :
        LET verdict == Evaluate(r.with, r.plan, a, r.snap)
            left == [r EXCEPT !.todo = @ \ {a}]
        IN  Go(p, IF verdict = "pend" THEN [left EXCEPT !.pend = @ \cup {a}]
                  ELSE IF verdict = "permit"
                  THEN [left EXCEPT !.at = "effect",
                            !.due = {[act |-> a, people |-> Cardinality(Endorsers(r, a))]}]
                  ELSE left)
  BY DEF Decide
<1> DEFINE left == [r EXCEPT !.todo = @ \ {a}]
           asks == [left EXCEPT !.pend = @ \cup {a}]
           permit == [act |-> a, people |-> Cardinality(Endorsers(r, a))]
           does == [left EXCEPT !.at = "effect", !.due = {permit}]
<1>2. UNCHANGED <<World, approvals, disk, effects>>
  BY DEF Decide
<1>3. a \in Actions
  BY <1>0 DEF Invocation
<1>4. /\ left \in Invocation /\ left.at = "act" /\ left.snap = "bound"
      /\ left.req = r.req /\ left.plan = r.plan /\ left.due = {}
  BY <1>0 DEF Invocation
<1>5. /\ asks \in Invocation /\ asks.at = "act" /\ asks.snap = "bound"
      /\ asks.req = r.req /\ asks.plan = r.plan /\ asks.due = {}
  BY <1>0, <1>3 DEF Invocation
<1>6. ASSUME Evaluate(r.with, r.plan, a, r.snap) = "permit"
      PROVE  /\ does \in Invocation /\ does.at = "effect" /\ does.due # {}
             /\ does.snap = "bound" /\ does.req = r.req /\ does.plan = r.plan
  <2>1. Approvers(r.with, r.plan, a, r.snap) = Endorsers(r, a)
    BY <1>0, ApproversAreEndorsers DEF FlowInv
  <2>2. NeedsApproval(a) => Cardinality(Endorsers(r, a)) >= Max({1, Kind[a].need})
    BY <1>6, <2>1 DEF Evaluate
  <2>3. Endorsers(r, a) \in SUBSET {Principal[k] : k \in Keys}
    BY DEF Endorsers
  <2>4. permit \in DueActions
    BY <1>3, <2>2, <2>3 DEF DueActions
  <2> HIDE DEF permit
  <2> QED
    BY <1>0, <2>4 DEF Invocation, Stages
<1>7. PICK s \in Invocation :
        /\ Go(p, s) /\ s.at \in {"act", "effect"} /\ s.snap = "bound"
        /\ s.at = "effect" <=> s.due # {}
        /\ s.req = r.req /\ s.plan = r.plan
  <2>1. \/ Go(p, left) \/ Go(p, asks)
        \/ Go(p, does) /\ Evaluate(r.with, r.plan, a, r.snap) = "permit"
    BY <1>1
  <2> HIDE DEF left, asks, does
  <2> QED
    BY <1>4, <1>5, <1>6, <2>1
<1>8. FlowTypes' /\ ComparedFirst' /\ OneWriter' /\ KeepsRequest' /\ DueOnce'
  BY <1>0, <1>2, <1>7, Moves
<1>9. EffectIsAuthorized' /\ ResumeRunsItsRequest' /\ SignedWasReviewed'
  BY <1>2, StillReviewed DEF FlowInv, EffectIsAuthorized, ResumeRunsItsRequest
<1> QED
  BY <1>8, <1>9 DEF FlowInv

(* Only what is due is performed. *)
LEMMA PerformStep ==
    ASSUME FlowAssumption, FlowInv, NEW p \in Procs, Perform(p)
    PROVE  FlowInv'
<1> DEFINE r == run[p]
           s == [r EXCEPT !.at = "act", !.due = {}]
<1>0. r \in Invocation /\ r.at = "effect" /\ r.snap = "bound" /\ r.req \subseteq {r.plan}
  BY DEF Perform, FlowInv, FlowTypes, ComparedFirst, KeepsRequest
<1>1. UNCHANGED <<World, approvals, disk>> /\ Go(p, s)
  BY DEF Perform
<1>2. \A e \in effects' : \/ e \in effects
                         \/ \E d \in r.due : e.act = d.act /\ e.people = d.people
                                           /\ e.req = r.req /\ e.plan = r.plan
  BY DEF Perform
<1>3. \A d \in r.due : NeedsApproval(d.act) => d.people >= Max({1, Kind[d.act].need})
  BY <1>0 DEF Invocation, DueActions
<1>4. EffectIsAuthorized'
  BY <1>2, <1>3 DEF FlowInv, EffectIsAuthorized, NeedsApproval
<1>5. ResumeRunsItsRequest'
  BY <1>0, <1>2 DEF FlowInv, ResumeRunsItsRequest
<1>6. SignedWasReviewed'
  BY <1>1, StillReviewed DEF FlowInv
<1>7. /\ s \in Invocation /\ s.at = "act" /\ s.snap = "bound" /\ s.due = {}
      /\ s.req = r.req /\ s.plan = r.plan
  BY <1>0 DEF Invocation, Stages
<1>8. FlowTypes' /\ ComparedFirst' /\ OneWriter' /\ KeepsRequest' /\ DueOnce'
  BY <1>0, <1>1, <1>7, Moves
<1> QED
  BY <1>4, <1>5, <1>6, <1>8 DEF FlowInv

(* The one invocation that writes a request makes it whole or removes it. *)
LEMMA PublishSteps ==
    ASSUME FlowAssumption, FlowInv, NEW p \in Procs,
           Create(p) \/ Write(p) \/ WriteFails(p)
    PROVE  FlowInv'
<1> DEFINE b == Built(p)
<1>0. /\ run[p] \in Invocation /\ Idle \in Invocation
      /\ Idle.at = "idle" /\ Idle.req = {} /\ Idle.due = {}
  BY IdleIsInvocation DEF FlowInv, FlowTypes
<1>1. b \in Requests
  <2>1. run[p].pend # {}
    BY DEF Create, Write, WriteFails, FlowInv, OneWriter
  <2> QED
    BY <1>0, <2>1 DEF Built, Requests, Invocation
<1>2. PICK s \in {"absent", "torn", "whole"}, r \in Invocation :
        /\ disk' = [disk EXCEPT ![b] = s] /\ Go(p, r)
        /\ \/ /\ run[p].at = "publish" /\ disk[b] = "absent" /\ s = "torn"
              /\ r = [run[p] EXCEPT !.at = "write"] /\ r.at = "write"
           \/ run[p].at = "write" /\ r = Idle
  <2>1. CASE Create(p)
    <3>1. /\ [run[p] EXCEPT !.at = "write"] \in Invocation
          /\ [run[p] EXCEPT !.at = "write"].at = "write"
      BY <1>0 DEF Invocation, Stages
    <3>2. /\ disk' = [disk EXCEPT ![b] = "torn"] /\ disk[b] = "absent"
          /\ Go(p, [run[p] EXCEPT !.at = "write"]) /\ run[p].at = "publish"
      BY <2>1 DEF Create
    <3> QED
      BY <3>1, <3>2
  <2>2. CASE Write(p) \/ WriteFails(p)
    BY <1>0, <2>2 DEF Write, WriteFails
  <2> QED
    BY <2>1, <2>2
<1>3. /\ run'[p] = r /\ \A q \in Procs \ {p} : run'[q] = run[q]
      /\ run' \in [Procs -> Invocation]
      /\ disk'[b] = s /\ \A q \in Requests \ {b} : disk'[q] = disk[q]
      /\ disk' \in [Requests -> {"absent", "torn", "whole"}]
  BY <1>1, <1>2 DEF FlowInv, FlowTypes, Go
<1>4. UNCHANGED <<World, approvals, effects>>
  BY DEF Create, Write, WriteFails
<1>5. FlowTypes'
  BY <1>3, <1>4 DEF FlowInv, FlowTypes, World
<1>6. r.at \in {"write", "idle"} /\ r.req \subseteq {r.plan} /\ r.due = {}
  BY <1>0, <1>2 DEF FlowInv, KeepsRequest, DueOnce, Invocation
<1>7. ComparedFirst' /\ KeepsRequest' /\ DueOnce'
  BY <1>3, <1>4, <1>6 DEF FlowInv, ComparedFirst, KeepsRequest, DueOnce, World
<1>8. disk[b] \in {"absent", "torn"}
  BY <1>2 DEF FlowInv, OneWriter
<1>9. ASSUME NEW q \in Procs \ {p}, run[q].at = "write"
      PROVE  Built(q) # b
  BY <1>2, <1>9 DEF FlowInv, OneWriter
<1>10. /\ \A q \in Procs \ {p} : Built(q)' = Built(q)
       /\ r.at = "write" => Built(p)' = b /\ r.pend # {} /\ r.todo = {}
  <2>1. \A q \in Procs \ {p} : Built(q)' = Built(q)
    BY <1>3 DEF Built
  <2>2. ASSUME r.at = "write"
        PROVE  Built(p)' = b /\ r.pend # {} /\ r.todo = {}
    <3>1. r.plan = run[p].plan /\ r.pend = run[p].pend /\ r.with = run[p].with
            /\ r.todo = run[p].todo /\ run[p].at = "publish"
      BY <1>0, <1>2, <2>2 DEF Invocation
    <3> QED
      BY <1>3, <3>1 DEF Built, FlowInv, OneWriter
  <2> QED
    BY <2>1, <2>2
<1>11. OneWriter'
  <2>1. ASSUME NEW q \in Procs
        PROVE  /\ run'[q].at \in {"publish", "write"} =>
                     run'[q].pend # {} /\ run'[q].todo = {}
               /\ run'[q].at = "write" => disk'[Built(q)'] = "torn"
    <3>1. CASE q = p
      BY <1>0, <1>2, <1>3, <1>6, <1>10, <3>1
    <3>2. CASE q # p
      <4>1. run[q].at = "write" => Built(q) \in Requests
        BY <3>2 DEF Built, Requests, FlowInv, FlowTypes, OneWriter, Invocation
      <4> QED
        BY <1>3, <1>9, <1>10, <3>2, <4>1 DEF FlowInv, OneWriter
    <3> QED
      BY <3>1, <3>2
  <2>2. ASSUME NEW q \in Procs, NEW w \in Procs, run'[q].at = "write",
               run'[w].at = "write", Built(q)' = Built(w)'
        PROVE  q = w
    BY <1>3, <1>9, <1>10, <2>2 DEF FlowInv, OneWriter
  <2> QED
    BY <2>1, <2>2 DEF OneWriter
<1>12. SignedWasReviewed'
  <2>1. \A q \in Requests : disk[q] = "whole" => disk'[q] = "whole"
    BY <1>3, <1>8
  <2> QED
    BY <1>4, <2>1, StillReviewed DEF FlowInv
<1>13. EffectIsAuthorized' /\ ResumeRunsItsRequest'
  BY <1>4 DEF FlowInv, EffectIsAuthorized, ResumeRunsItsRequest
<1> QED
  BY <1>5, <1>7, <1>11, <1>12, <1>13 DEF FlowInv

(* A key holder signs a whole request of the plan in the plan file, or,    *)
(* without a request, actions of that plan.                                *)
LEMMA ApproveSteps ==
    ASSUME FlowAssumption, FlowInv, NEW k \in Keys, Approve(k) \/ ApprovePlan(k)
    PROVE  FlowInv'
<1>1. PICK pl \in Plans, acts \in SUBSET Actions, via \in {"request", "plan"} :
        /\ Issue(k, pl, acts, via) /\ pl = planFile
        /\ via = "request" => \E r \in Requests : Loadable(r) /\ r.plan = pl /\ r.pend = acts
  <2>1. CASE Approve(k)
    <3>1. PICK r \in Requests :
            Loadable(r) /\ Signable(r) /\ Issue(k, r.plan, r.pend, "request")
      BY <2>1 DEF Approve
    <3>2. r.plan \in Plans /\ r.pend \in SUBSET Actions /\ r.plan = planFile
      BY <3>1 DEF Requests, Signable, PlanMatches
    <3> QED
      BY <3>1, <3>2
  <2>2. CASE ApprovePlan(k)
    <3>1. PICK acts \in SUBSET Actions : Issue(k, planFile, acts, "plan")
      BY <2>2 DEF ApprovePlan
    <3> QED
      BY <3>1 DEF FlowInv, FlowTypes
  <2> QED
    BY <2>1, <2>2
<1> DEFINE new == [id |-> Cardinality(approvals) + 1, key |-> k, plan |-> pl,
                   acts |-> acts, issued |-> now, signed |-> planFile, via |-> via]
<1>2. /\ approvals' = approvals \cup {new}
      /\ UNCHANGED <<World, disk, run, effects>>
  BY <1>1 DEF Approve, ApprovePlan, Issue
<1>3. /\ IsFiniteSet(approvals') /\ new.id \in 1..MaxApprovals
  <2>1. IsFiniteSet(approvals) /\ MaxApprovals \in Nat
    BY DEF FlowInv, FlowTypes, FlowAssumption
  <2>2. Cardinality(approvals) \in Nat
    BY <2>1, FS_CardinalityType
  <2>3. IsFiniteSet(approvals')
    BY <1>2, <2>1, FS_AddElement
  <2> QED
    BY <2>1, <2>2, <2>3 DEF Approve, ApprovePlan
<1>4. FlowTypes'
  <2>1. new.key \in Keys /\ new.issued \in Nat
    BY DEF FlowInv, FlowTypes
  <2> QED
    BY <1>2, <1>3, <2>1 DEF FlowInv, FlowTypes, World
<1>5. ComparedFirst' /\ KeepsRequest' /\ DueOnce'
  BY <1>2 DEF FlowInv, ComparedFirst, KeepsRequest, DueOnce, World
<1>6. OneWriter'
  BY <1>2 DEF FlowInv, OneWriter, Built
<1>7. SignedWasReviewed'
  <2>1. ASSUME NEW ap \in approvals'
        PROVE  /\ ap.signed = ap.plan
               /\ ap.via = "request" =>
                    \E r \in Requests : disk'[r] = "whole" /\ r.plan = ap.plan /\ r.pend = ap.acts
    <3>1. CASE ap \in approvals
      BY <1>2, <3>1 DEF FlowInv, SignedWasReviewed, Loadable
    <3>2. CASE ap = new
      BY <1>1, <1>2, <3>2 DEF Loadable
    <3> QED
      BY <1>2, <3>1, <3>2
  <2> QED
    BY <2>1 DEF SignedWasReviewed, Loadable
<1>8. EffectIsAuthorized' /\ ResumeRunsItsRequest'
  BY <1>2 DEF FlowInv, EffectIsAuthorized, ResumeRunsItsRequest
<1> QED
  BY <1>4, <1>5, <1>6, <1>7, <1>8 DEF FlowInv

(* Editing the plan, revoking approvals and time change no invocation. *)
LEMMA WorldSteps ==
    ASSUME FlowAssumption, FlowInv,
           EditPlan \/ Revoke \/ Tick \/ UNCHANGED flowVars
    PROVE  FlowInv'
<1>1. UNCHANGED <<approvals, disk, run, effects>>
  BY DEF EditPlan, Revoke, Tick, flowVars
<1>2. planFile' \in Plans /\ authFile' \in {"bound", "edited"} /\ now' \in 0..MaxTime
  BY DEF EditPlan, Revoke, Tick, flowVars, FlowInv, FlowTypes, FlowAssumption
<1>3. FlowTypes'
  BY <1>1, <1>2 DEF FlowInv, FlowTypes
<1>4. authFile' = "bound" => revoked' = {}
  BY DEF EditPlan, Revoke, Tick, flowVars, FlowInv, ComparedFirst
<1>5. ComparedFirst' /\ KeepsRequest' /\ DueOnce'
  BY <1>1, <1>4 DEF FlowInv, ComparedFirst, KeepsRequest, DueOnce
<1>6. OneWriter'
  BY <1>1 DEF FlowInv, OneWriter, Built
<1>7. EffectIsAuthorized' /\ ResumeRunsItsRequest' /\ SignedWasReviewed'
  BY <1>1, StillReviewed DEF FlowInv, EffectIsAuthorized, ResumeRunsItsRequest
<1> QED
  BY <1>3, <1>5, <1>6, <1>7 DEF FlowInv

LEMMA FlowInvHolds ==
    ASSUME FlowAssumption
    PROVE  FlowSpec => []FlowInv
<1>1. FlowInit => FlowInv
  <2> SUFFICES ASSUME FlowInit
               PROVE  FlowInv
    OBVIOUS
  <2>1. Idle \in Invocation /\ Idle.at = "idle" /\ Idle.req = {} /\ Idle.due = {}
    BY IdleIsInvocation DEF FlowInit
  <2>2. FlowTypes
    BY <2>1, FS_EmptySet DEF FlowInit, FlowTypes, FlowAssumption
  <2>3. ComparedFirst /\ OneWriter /\ KeepsRequest /\ DueOnce
    BY <2>1 DEF FlowInit, ComparedFirst, OneWriter, KeepsRequest, DueOnce
  <2>4. EffectIsAuthorized /\ ResumeRunsItsRequest /\ SignedWasReviewed
    BY DEF FlowInit, EffectIsAuthorized, ResumeRunsItsRequest, SignedWasReviewed
  <2> QED
    BY <2>2, <2>3, <2>4 DEF FlowInv
<1>2. FlowInv /\ [FlowNext]_flowVars => FlowInv'
  BY QuietSteps, DecideStep, PerformStep, PublishSteps, ApproveSteps, WorldSteps
  DEF FlowNext, Step
<1> QED
  BY <1>1, <1>2, PTL DEF FlowSpec

-----------------------------------------------------------------------------
(* For any policy, keys and people: an action that needs approval is only  *)
(* performed if enough distinct people were behind it when the policy      *)
(* permitted it, each by an approval of this plan and action, then in its  *)
(* validity window and not revoked at the last comparison of the run,      *)
(* signed on a request or by `approve`; at the effect itself, later, the   *)
(* window may be over (PolicyEngine.evaluate, Approval.covers).            *)
THEOREM EffectsAreAuthorized ==
    ASSUME FlowAssumption
    PROVE  FlowSpec => []EffectIsAuthorized
<1>1. FlowInv => EffectIsAuthorized
  BY DEF FlowInv
<1> QED
  BY <1>1, FlowInvHolds, PTL

(* However often the plan file is edited, a resumed run performs only      *)
(* effects of the plan its request was made for (_require_plan_fingerprint). *)
THEOREM ResumedRunsKeepTheirRequest ==
    ASSUME FlowAssumption
    PROVE  FlowSpec => []ResumeRunsItsRequest
<1>1. FlowInv => ResumeRunsItsRequest
  BY DEF FlowInv
<1> QED
  BY <1>1, FlowInvHolds, PTL

(* Whatever concurrent invocations publish, fail to write or are killed    *)
(* at, every approval that approve-request signed is of a whole request    *)
(* still on disk, and every approval, also one of `approve`, of the plan   *)
(* then in the plan file (_publish_restricted_bytes, _unlink_if_owned).    *)
THEOREM SignaturesAreReviewed ==
    ASSUME FlowAssumption
    PROVE  FlowSpec => []SignedWasReviewed
<1>1. FlowInv => SignedWasReviewed
  BY DEF FlowInv
<1> QED
  BY <1>1, FlowInvHolds, PTL

(* What the suite checks of the handoff, at every step and for all values  *)
(* of the constants. A run that publishes has nothing left to perform.     *)
THEOREM EffectsStayApproved ==
    ASSUME FlowAssumption
    PROVE  FlowSpec => []EffectsAreApproved
<1>1. FlowInv => FlowTypeOK
  BY DEF FlowInv, FlowTypes, OneWriter, DueOnce, FlowTypeOK
<1>2. FlowInv => EffectsAreApproved
  BY <1>1 DEF FlowInv, EffectsAreApproved
<1> QED
  BY <1>2, FlowInvHolds, PTL

-----------------------------------------------------------------------------
(* The approved execution context.                                         *)

R == ToSet(Roots)
Someone == People \cup {None}
Targets == [origin : Origins, ca : Nat, conf : Nat]
Captures == [target : Targets \cup {None}, credential : Someone, principal : Someone]
Environments == [origin : [S -> Origins], user : [S -> Someone], roots : RootChoices]
Pcs == {"ended", "credentials", "paths", "target", "credential", "attest", "open",
        "gate", "recapture", "validate", "run"}
Commands ==
    [mode : {None, "bind", "apply"}, pc : Pcs, env : Environments, conf : Nat,
     user : [S -> Someone], at : Nat, got : [S -> Captures], pins : [R -> Nat],
     opened : [R -> Nat], bound : [R -> Nat],
     outcome : {None, "ok", "refused", "provider"}]

WorldTypes ==
    /\ conf \in Nat /\ ca \in [S -> Nat] /\ dir \in [Locations -> Nat]
    /\ token \in [S -> People] /\ store \in [S -> People]

(* The index of a step that goes through the systems or the directories. *)
Indexed(q) ==
    /\ q.pc \in {"paths", "open"} => q.at \in 1..(Len(Roots) + 1)
    /\ q.pc \in {"target", "recapture", "run"} => q.at \in 1..(Len(Systems) + 1)
    /\ q.pc \in {"credential", "attest"} => q.at \in 1..Len(Systems)

(* bind-context pins nothing it keeps, run --apply keeps what it pinned    *)
(* and opens duplicates of that.                                           *)
Admitted == {"open", "gate", "recapture", "validate", "run"}
PinsAreKept(q) ==
    /\ q.pc = "ended" => q.pins = Released
    /\ q.pc \notin Admitted => q.opened = Released
    /\ q.pc \in {"target", "credential", "attest"} /\ q.mode # "apply" => q.pins = Released
    /\ q.pc # "ended" /\ q.mode = "apply" => q.pins = q.bound
    /\ q.pc = "open" => \A k \in 1..(q.at - 1) : q.opened[Roots[k]] = q.pins[Roots[k]]
    /\ q.pc \in Admitted \ {"open"} => q.opened = q.pins

(* A connector speaks as the principal its credential was attested for; a  *)
(* captured target is never newer than the file it was read from.          *)
Caught(q, s) == q.got[s].target \in Targets /\ q.got[s].target.ca <= ca[s]
CapturesAreOwn(q) ==
    /\ \A s \in S : \/ q.got[s].credential = q.got[s].principal
                    \/ q.pc = "attest" /\ s = Systems[q.at]
                    \/ q.pc = "ended"
    /\ q.conf <= conf
    /\ q.pc \in {"target", "credential", "attest"} =>
          \A k \in 1..(q.at - 1) : Caught(q, Systems[k])
    /\ q.pc \in {"credential", "attest"} => Caught(q, Systems[q.at])
    /\ q.pc \in Admitted => \A s \in S : Caught(q, s)

(* What an applied run has compared with the approved context. *)
ContextOf(q) ==
    [conf |-> q.conf,
     paths |-> [r \in R |-> [path |-> q.env.roots[r], object |-> q.bound[r]]],
     connectors |-> [s \in S |-> [target |-> q.got[s].target, principal |-> q.got[s].principal]]]
Compared(q) ==
    /\ q.pc # "ended" => q.mode \in {"bind", "apply"}
    /\ q.pc # "ended" /\ q.mode = "apply" => approved # None
    /\ q.pc \in {"credential", "attest"} /\ q.mode = "apply" =>
          q.got[Systems[q.at]].target = approved.connectors[Systems[q.at]].target
    /\ q.pc \in Admitted => q.mode = "apply" /\ ContextOf(q) = approved

(* What the second gate has seen. Versions only grow, so a version that is *)
(* the approved one now was it when the connectors were built.             *)
GateHolds(q) ==
    /\ q.pc \in Admitted \ {"open"} =>
          /\ atGate \in [conf : Nat, ca : [S -> Nat]]
          /\ q.conf <= atGate.conf /\ atGate.conf <= conf
          /\ \A s \in S : q.got[s].target.ca <= atGate.ca[s] /\ atGate.ca[s] <= ca[s]
    /\ q.pc \in {"recapture", "validate", "run"} => atGate.conf = approved.conf
    /\ q.pc = "recapture" =>
          \A k \in 1..(q.at - 1) :
             atGate.ca[Systems[k]] = approved.connectors[Systems[k]].target.ca
    /\ q.pc \in {"validate", "run"} =>
          \A s \in S : atGate.ca[s] = approved.connectors[s].target.ca

CommandOK(q) ==
    /\ q \in Commands
    /\ Indexed(q) /\ PinsAreKept(q) /\ CapturesAreOwn(q) /\ Compared(q) /\ GateHolds(q)

(* Nothing leaves before there is an approved context, which never changes *)
(* once an applied run has started.                                        *)
ApprovedFirst ==
    approved = None \/ (proc.pc # "ended" /\ proc.mode # "apply")
        => sent = {} /\ performed = {}

ContextInv ==
    /\ WorldTypes /\ CommandOK(proc) /\ ApprovedFirst
    /\ EffectUsesApproved /\ SecretsGoWhereApproved
    /\ WritesStayInApprovedObjects /\ LateDriftStops

-----------------------------------------------------------------------------
(* Constants, and the command in general *)

LEMMA Constants ==
    ASSUME ContextAssumption
    PROVE  /\ Len(Systems) \in Nat /\ Len(Roots) \in Nat
           /\ \A k \in 1..Len(Systems) : Systems[k] \in S
           /\ \A s \in S : \E k \in 1..Len(Systems) : s = Systems[k]
           /\ \A k \in 1..Len(Roots) : Roots[k] \in R
           /\ \A r \in R : \E k \in 1..Len(Roots) : r = Roots[k]
           /\ \A k, j \in 1..Len(Roots) : Roots[k] = Roots[j] => k = j
           /\ \A c \in RootChoices, r \in R : c[r] \in Locations
           /\ Home \in Origins /\ Owner \in People /\ BoundRoots \in RootChoices
           /\ None \notin People
<1>1. /\ Systems \in Seq(S) /\ Roots \in Seq(R)
      /\ Origins # {} /\ People # {} /\ RootChoices # {} /\ None \notin People
  BY DEF ContextAssumption, S, R
<1>2. /\ Len(Systems) \in Nat /\ DOMAIN Systems = 1..Len(Systems)
      /\ Len(Roots) \in Nat /\ DOMAIN Roots = 1..Len(Roots)
  BY <1>1
<1>3. /\ \A k \in 1..Len(Systems) : Systems[k] \in S
      /\ \A s \in S : \E k \in 1..Len(Systems) : s = Systems[k]
  BY <1>2 DEF S, ToSet
<1>4. /\ \A k \in 1..Len(Roots) : Roots[k] \in R
      /\ \A r \in R : \E k \in 1..Len(Roots) : r = Roots[k]
  BY <1>2 DEF R, ToSet
<1>5. \A k, j \in 1..Len(Roots) : Roots[k] = Roots[j] => k = j
  BY <1>2 DEF ContextAssumption, IsInjective
<1>6. ASSUME NEW c \in RootChoices, NEW r \in R PROVE c[r] \in Locations
  <2> DEFINE f == [k \in 1..Len(Roots) |-> c[Roots[k]]]
  <2>1. PICK k \in 1..Len(Roots) : r = Roots[k]
    BY <1>4
  <2>2. k \in DOMAIN f /\ f[k] = c[r]
    BY <2>1
  <2>3. c[r] \in ToSet(f)
    BY <2>2 DEF ToSet
  <2> QED
    BY <2>3 DEF Locations
<1>7. Home \in Origins /\ Owner \in People /\ BoundRoots \in RootChoices
  BY <1>1 DEF Home, Owner, BoundRoots
<1> QED
  BY <1>1, <1>2, <1>3, <1>4, <1>5, <1>6, <1>7

LEMMA ReleasedType ==
    /\ Released \in [R -> Nat]
    /\ \A r \in R : Released[r] = 0
  BY DEF Released, R

LEMMA IdleFacts ==
    ASSUME ContextAssumption
    PROVE  /\ NoRun \in Commands
           /\ NoRun.mode = None /\ NoRun.pc = "ended" /\ NoRun.conf = 0
           /\ NoRun.pins = Released /\ NoRun.opened = Released /\ NoRun.bound = Released
           /\ NoRun.got = [s \in S |-> NoCapture]
<1>1. NoCapture \in Captures
  BY DEF NoCapture, Captures, Someone
<1>2. BindEnvironment \in Environments
  BY Constants DEF BindEnvironment, Environments, Someone
<1>3. [s \in S |-> None] \in [S -> Someone] /\ [s \in S |-> NoCapture] \in [S -> Captures]
  BY <1>1 DEF Someone
<1>4. "ended" \in Pcs /\ 0 \in Nat
  BY DEF Pcs
<1> QED
  BY <1>2, <1>3, <1>4, ReleasedType DEF NoRun, Commands, Released, R

(* A step that only moves the command. *)
LEMMA QuietCommand ==
    ASSUME ContextInv, UNCHANGED <<world, approved, sent, performed, atGate>>,
           NEW q, proc' = q, CommandOK(q),
           q.pc # "ended" /\ q.mode # "apply" =>
              approved = None \/ (proc.pc # "ended" /\ proc.mode # "apply")
    PROVE  ContextInv'
<1>1. /\ conf' = conf /\ ca' = ca /\ token' = token /\ store' = store /\ dir' = dir
      /\ approved' = approved /\ sent' = sent /\ performed' = performed /\ atGate' = atGate
  BY DEF world
<1>2. CommandOK(proc)'
  BY <1>1 DEF CommandOK, Indexed, PinsAreKept, CapturesAreOwn, Caught, Compared, GateHolds,
     ContextOf
<1>3. ApprovedFirst'
  BY <1>1 DEF ContextInv, ApprovedFirst
<1>4. WorldTypes' /\ EffectUsesApproved' /\ SecretsGoWhereApproved'
      /\ WritesStayInApprovedObjects' /\ LateDriftStops'
  BY <1>1 DEF ContextInv, WorldTypes, EffectUsesApproved, SecretsGoWhereApproved,
     WritesStayInApprovedObjects, LateDriftStops
<1> QED
  BY <1>2, <1>3, <1>4 DEF ContextInv

(* However a command fails, it has let go of every directory. *)
LEMMA FailedCommand ==
    ASSUME ContextInv, NEW why \in {"ok", "refused", "provider"}, Fail(why)
    PROVE  CommandOK(proc') /\ proc'.pc = "ended"
<1> DEFINE q == [proc EXCEPT !.pc = "ended", !.outcome = why, !.pins = Released, !.opened = Released]
<1>0. proc \in Commands /\ CommandOK(proc)
  BY DEF ContextInv, CommandOK
<1>1. proc' = q
  BY DEF Fail, ClosedOnFailure
<1>2. "ended" \in Pcs
  BY DEF Pcs
<1>3. /\ q \in Commands /\ q.pc = "ended" /\ q.pins = Released /\ q.opened = Released
      /\ q.got = proc.got /\ q.conf = proc.conf /\ q.mode = proc.mode
  BY <1>0, <1>2, ReleasedType DEF Commands
<1> HIDE DEF q
<1>4. Indexed(q) /\ PinsAreKept(q)
  BY <1>3 DEF Indexed, PinsAreKept, Admitted
<1>5. CapturesAreOwn(q)
  BY <1>0, <1>3 DEF CommandOK, CapturesAreOwn, Admitted
<1>6. Compared(q) /\ GateHolds(q)
  BY <1>3 DEF Compared, GateHolds, Admitted
<1> QED
  BY <1>1, <1>3, <1>4, <1>5, <1>6 DEF CommandOK

LEMMA FailKeeps ==
    ASSUME ContextInv, NEW why \in {"ok", "refused", "provider"}, Fail(why), Quiet
    PROVE  ContextInv'
<1>1. PICK q : q = proc'
  OBVIOUS
<1> QED
  BY <1>1, FailedCommand, QuietCommand DEF Quiet

-----------------------------------------------------------------------------
(* Starting and the captures *)

LEMMA BindContextKeeps ==
    ASSUME ContextAssumption, ContextInv, BindContext
    PROVE  ContextInv'
<1> DEFINE q == [NoRun EXCEPT !.mode = "bind", !.pc = "credentials", !.conf = conf, !.at = 1]
<1>1. proc' = q /\ Quiet /\ approved = None
  BY DEF BindContext
<1>2. "credentials" \in Pcs /\ conf \in Nat
  BY DEF Pcs, ContextInv, WorldTypes
<1>3. /\ q \in Commands /\ q.pc = "credentials" /\ q.mode = "bind" /\ q.conf = conf
      /\ q.pins = Released /\ q.opened = Released /\ q.got = [s \in S |-> NoCapture]
  BY <1>2, IdleFacts DEF Commands
<1> HIDE DEF q
<1>4. Indexed(q) /\ PinsAreKept(q) /\ Compared(q) /\ GateHolds(q)
  BY <1>3 DEF Indexed, PinsAreKept, Compared, GateHolds, Admitted
<1>5. CapturesAreOwn(q)
  BY <1>2, <1>3 DEF CapturesAreOwn, NoCapture, Admitted
<1> QED
  BY <1>1, <1>3, <1>4, <1>5, QuietCommand DEF CommandOK, Quiet

LEMMA RunApplyKeeps ==
    ASSUME ContextAssumption, ContextInv, NEW origin \in [S -> Origins],
           NEW user \in [S -> People \cup {None}], NEW roots \in RootChoices,
           RunApply(origin, user, roots)
    PROVE  ContextInv'
<1> DEFINE env == [origin |-> origin, user |-> user, roots |-> roots]
           then == IF conf = approved.conf THEN "credentials" ELSE "ended"
           why == IF conf = approved.conf THEN None ELSE "refused"
           q == [NoRun EXCEPT !.mode = "apply", !.env = env, !.conf = conf, !.at = 1,
                             !.pc = then, !.outcome = why]
<1>1. proc' = q /\ approved # None
  BY DEF RunApply
<1>2. /\ then \in {"credentials", "ended"} /\ then \in Pcs
      /\ why \in {None, "ok", "refused", "provider"}
      /\ env \in Environments /\ conf \in Nat
  BY DEF Pcs, Environments, Someone, ContextInv, WorldTypes
<1> HIDE DEF then, why, env
<1>3. /\ q \in Commands /\ q.pc \in {"credentials", "ended"} /\ q.mode = "apply" /\ q.conf = conf
      /\ q.pins = Released /\ q.opened = Released /\ q.bound = Released
      /\ q.got = [s \in S |-> NoCapture]
  BY <1>2, IdleFacts DEF Commands
<1> HIDE DEF q
<1>4. Indexed(q) /\ PinsAreKept(q) /\ Compared(q) /\ GateHolds(q)
  BY <1>1, <1>3 DEF Indexed, PinsAreKept, Compared, GateHolds, Admitted
<1>5. CapturesAreOwn(q)
  BY <1>2, <1>3 DEF CapturesAreOwn, NoCapture, Admitted
<1> QED
  BY <1>1, <1>3, <1>4, <1>5, QuietCommand DEF CommandOK, RunApply

LEMMA LoadCredentialsKeeps ==
    ASSUME ContextAssumption, ContextInv, LoadCredentials
    PROVE  ContextInv'
<1> DEFINE users == [s \in S |-> IF SourceOf[s] = "environment" THEN proc.env.user[s] ELSE store[s]]
           q == [proc EXCEPT !.pc = "paths", !.at = 1, !.user = users]
<1>1. CASE Fail("refused")
  BY <1>1, FailKeeps DEF LoadCredentials
<1>2. CASE proc' = q
  <2>0. proc \in Commands /\ CommandOK(proc) /\ proc.pc = "credentials" /\ Quiet
    BY DEF ContextInv, CommandOK, LoadCredentials
  <2>1. users \in [S -> Someone] /\ "paths" \in Pcs
    BY <2>0 DEF Commands, Environments, Someone, ContextInv, WorldTypes, Pcs
  <2> HIDE DEF users
  <2>2. /\ q \in Commands /\ q.pc = "paths" /\ q.at = 1 /\ q.mode = proc.mode /\ q.conf = proc.conf
        /\ q.got = proc.got /\ q.pins = proc.pins /\ q.opened = proc.opened /\ q.bound = proc.bound
    BY <2>0, <2>1 DEF Commands
  <2> HIDE DEF q
  <2>3. Indexed(q)
    BY <2>2, Constants DEF Indexed
  <2>4. PinsAreKept(q) /\ CapturesAreOwn(q) /\ Compared(q) /\ GateHolds(q)
    BY <2>0, <2>2 DEF CommandOK, PinsAreKept, CapturesAreOwn, Caught, Compared, GateHolds, Admitted
  <2> QED
    BY <1>2, <2>0, <2>2, <2>3, <2>4, QuietCommand DEF CommandOK, Quiet
<1> QED
  BY <1>1, <1>2 DEF LoadCredentials

LEMMA CapturePathKeeps ==
    ASSUME ContextAssumption, ContextInv, CapturePath
    PROVE  ContextInv'
<1> DEFINE here == There(Root)
           pinned == [proc.pins EXCEPT ![Root] = here]
           captured == [proc.bound EXCEPT ![Root] = here]
           q == [proc EXCEPT !.pins = pinned, !.bound = captured, !.at = proc.at + 1]
<1>1. CASE Fail("refused")
  BY <1>1, FailKeeps DEF CapturePath
<1>2. CASE proc' = q
  <2>0. /\ proc \in Commands /\ CommandOK(proc) /\ proc.pc = "paths" /\ Quiet
        /\ proc.at \in 1..Len(Roots) /\ proc.at \in Nat
    BY Constants DEF ContextInv, CommandOK, Indexed, CapturePath
  <2>1. Root \in R /\ here \in Nat
    <3>1. Root \in R
      BY <2>0, Constants DEF Root
    <3>2. proc.env.roots[Root] \in Locations
      BY <2>0, <3>1, Constants DEF Commands, Environments
    <3> QED
      BY <3>1, <3>2 DEF There, ContextInv, WorldTypes
  <2>2. pinned \in [R -> Nat] /\ captured \in [R -> Nat] /\ proc.at + 1 \in Nat
    BY <2>0, <2>1 DEF Commands
  <2> HIDE DEF pinned, captured
  <2>3. /\ q \in Commands /\ q.pins = pinned /\ q.bound = captured
        /\ q.pc = "paths" /\ q.at = proc.at + 1 /\ q.mode = proc.mode /\ q.conf = proc.conf
        /\ q.got = proc.got /\ q.opened = proc.opened
    BY <2>0, <2>2 DEF Commands
  <2> HIDE DEF q
  <2>4. Indexed(q)
    BY <2>0, <2>3, Constants DEF Indexed
  <2>5. PinsAreKept(q)
    BY <2>0, <2>3 DEF CommandOK, PinsAreKept, Admitted, pinned, captured
  <2>6. CapturesAreOwn(q) /\ Compared(q) /\ GateHolds(q)
    BY <2>0, <2>3 DEF CommandOK, CapturesAreOwn, Caught, Compared, GateHolds, Admitted
  <2> QED
    BY <1>2, <2>0, <2>3, <2>4, <2>5, <2>6, QuietCommand DEF CommandOK, Quiet
<1> QED
  BY <1>1, <1>2 DEF CapturePath

LEMMA PathsCapturedKeeps ==
    ASSUME ContextAssumption, ContextInv, PathsCaptured
    PROVE  ContextInv'
<1> DEFINE kept == IF proc.mode = "apply" THEN proc.pins ELSE Released
           q == [proc EXCEPT !.pc = "target", !.at = 1, !.pins = kept]
<1>0. proc \in Commands /\ CommandOK(proc) /\ proc.pc = "paths" /\ Quiet /\ proc' = q
  BY DEF ContextInv, CommandOK, PathsCaptured, Applied
<1>1. "target" \in Pcs /\ kept \in [R -> Nat]
  BY <1>0, ReleasedType DEF Pcs, Commands
<1>2. /\ q \in Commands /\ q.pc = "target" /\ q.at = 1 /\ q.mode = proc.mode /\ q.conf = proc.conf
      /\ q.got = proc.got /\ q.pins = kept /\ q.opened = proc.opened /\ q.bound = proc.bound
  BY <1>0, <1>1 DEF Commands
<1> HIDE DEF q
<1>3. Indexed(q)
  BY <1>2, Constants DEF Indexed
<1>4. PinsAreKept(q)
  BY <1>0, <1>2 DEF CommandOK, PinsAreKept, Admitted
<1>5. CapturesAreOwn(q) /\ Compared(q) /\ GateHolds(q)
  BY <1>0, <1>2 DEF CommandOK, CapturesAreOwn, Caught, Compared, GateHolds, Admitted
<1> QED
  BY <1>0, <1>2, <1>3, <1>4, <1>5, QuietCommand DEF CommandOK, Quiet

LEMMA CaptureTargetKeeps ==
    ASSUME ContextAssumption, ContextInv, CaptureTarget
    PROVE  ContextInv'
<1> DEFINE target == TargetNow(Sys, proc.conf)
           one == [proc.got[Sys] EXCEPT !.target = target]
           all == [proc.got EXCEPT ![Sys] = one]
           q == [proc EXCEPT !.pc = "credential", !.got = all]
<1>1. CASE Fail("refused")
  BY <1>1, FailKeeps DEF CaptureTarget
<1>2. CASE /\ proc' = q
           /\ Applied => TargetApproved(Sys, target)
  <2>0. /\ proc \in Commands /\ CommandOK(proc) /\ proc.pc = "target" /\ Quiet
        /\ proc.at \in 1..Len(Systems) /\ proc.conf \in Nat
    BY Constants DEF ContextInv, CommandOK, Indexed, CaptureTarget, Commands
  <2>1. Sys \in S /\ Sys = Systems[proc.at]
    BY <2>0, Constants DEF Sys
  <2>2. target \in Targets /\ target.ca = ca[Sys]
    BY <2>0, <2>1 DEF TargetNow, Targets, Commands, Environments, ContextInv, WorldTypes
  <2>3. Applied => target = approved.connectors[Sys].target
    BY <1>2 DEF TargetApproved
  <2> HIDE DEF target
  <2>4. /\ one \in Captures /\ one.target = target
        /\ one.credential = proc.got[Sys].credential /\ one.principal = proc.got[Sys].principal
    BY <2>0, <2>1, <2>2 DEF Commands, Captures
  <2> HIDE DEF one
  <2>5. /\ all \in [S -> Captures] /\ all[Sys] = one
        /\ \A s \in S : s # Sys => all[s] = proc.got[s]
    BY <2>0, <2>1, <2>4 DEF Commands
  <2>6. "credential" \in Pcs
    BY DEF Pcs
  <2> HIDE DEF all
  <2>7. /\ q \in Commands /\ q.pc = "credential" /\ q.at = proc.at /\ q.mode = proc.mode
        /\ q.conf = proc.conf /\ q.got = all /\ q.pins = proc.pins
        /\ q.opened = proc.opened /\ q.bound = proc.bound
    BY <2>0, <2>5, <2>6 DEF Commands
  <2> HIDE DEF q
  <2>8. Indexed(q) /\ PinsAreKept(q) /\ GateHolds(q)
    BY <2>0, <2>7 DEF CommandOK, Indexed, PinsAreKept, GateHolds, Admitted
  <2>9. CapturesAreOwn(q)
    <3>1. \A s \in S : q.got[s].credential = q.got[s].principal
      BY <2>0, <2>1, <2>4, <2>5, <2>7 DEF CommandOK, CapturesAreOwn
    <3>2. Caught(q, Sys)
      <4>1. ca[Sys] \in Nat
        BY <2>1 DEF ContextInv, WorldTypes
      <4> QED
        BY <4>1, <2>2, <2>4, <2>5, <2>7 DEF Caught
    <3>3. ASSUME NEW k \in 1..(q.at - 1) PROVE Caught(q, Systems[k])
      <4>1. k \in 1..(proc.at - 1) /\ Systems[k] \in S
        BY <2>0, <2>7, Constants
      <4>2. Caught(proc, Systems[k])
        BY <4>1, <2>0 DEF CommandOK, CapturesAreOwn
      <4> QED
        BY <4>1, <4>2, <3>2, <2>5, <2>7 DEF Caught
    <3> QED
      BY <3>1, <3>2, <3>3, <2>0, <2>1, <2>7 DEF CommandOK, CapturesAreOwn, Admitted
  <2>10. Compared(q)
    BY <2>0, <2>1, <2>3, <2>4, <2>5, <2>7 DEF CommandOK, Compared, Applied, Admitted
  <2> QED
    BY <1>2, <2>0, <2>7, <2>8, <2>9, <2>10, QuietCommand DEF CommandOK, Quiet
<1> QED
  BY <1>1, <1>2 DEF CaptureTarget

LEMMA ResolveCredentialKeeps ==
    ASSUME ContextAssumption, ContextInv, ResolveCredential
    PROVE  ContextInv'
<1> DEFINE credential == IF AuthOf[Sys] = "basic" THEN proc.user[Sys] ELSE token[Sys]
           one == [proc.got[Sys] EXCEPT !.credential = credential]
           all == [proc.got EXCEPT ![Sys] = one]
           q == [proc EXCEPT !.pc = "attest", !.got = all]
<1>1. CASE Fail("refused")
  BY <1>1, FailKeeps DEF ResolveCredential
<1>2. CASE proc' = q
  <2>0. /\ proc \in Commands /\ CommandOK(proc) /\ proc.pc = "credential" /\ Quiet
        /\ proc.at \in 1..Len(Systems)
    BY Constants DEF ContextInv, CommandOK, Indexed, ResolveCredential
  <2>1. Sys \in S /\ Sys = Systems[proc.at]
    BY <2>0, Constants DEF Sys
  <2>2. credential \in Someone
    BY <2>0, <2>1 DEF Commands, ContextInv, WorldTypes, Someone
  <2> HIDE DEF credential
  <2>3. /\ one \in Captures /\ one.target = proc.got[Sys].target
        /\ one.credential = credential /\ one.principal = proc.got[Sys].principal
    BY <2>0, <2>1, <2>2 DEF Commands, Captures
  <2> HIDE DEF one
  <2>4. /\ all \in [S -> Captures] /\ all[Sys] = one
        /\ \A s \in S : s # Sys => all[s] = proc.got[s]
    BY <2>0, <2>1, <2>3 DEF Commands
  <2>5. \A s \in S : all[s].target = proc.got[s].target
    BY <2>3, <2>4
  <2>6. "attest" \in Pcs
    BY DEF Pcs
  <2> HIDE DEF all
  <2>7. /\ q \in Commands /\ q.pc = "attest" /\ q.at = proc.at /\ q.mode = proc.mode
        /\ q.conf = proc.conf /\ q.got = all /\ q.pins = proc.pins
        /\ q.opened = proc.opened /\ q.bound = proc.bound
    BY <2>0, <2>4, <2>6 DEF Commands
  <2> HIDE DEF q
  <2>8. Indexed(q) /\ PinsAreKept(q) /\ GateHolds(q)
    BY <2>0, <2>7 DEF CommandOK, Indexed, PinsAreKept, GateHolds, Admitted
  <2>9. CapturesAreOwn(q)
    <3>1. \A s \in S : q.got[s].credential = q.got[s].principal \/ s = Systems[q.at]
      BY <2>0, <2>1, <2>4, <2>7 DEF CommandOK, CapturesAreOwn
    <3>2. \A s \in S : Caught(proc, s) => Caught(q, s)
      BY <2>5, <2>7 DEF Caught
    <3>3. ASSUME NEW k \in 1..(q.at - 1) PROVE Caught(q, Systems[k])
      <4>1. k \in 1..(proc.at - 1) /\ Systems[k] \in S
        BY <2>0, <2>7, Constants
      <4> QED
        BY <4>1, <3>2, <2>0 DEF CommandOK, CapturesAreOwn
    <3>4. Caught(q, Systems[q.at])
      BY <3>2, <2>0, <2>1, <2>7 DEF CommandOK, CapturesAreOwn
    <3> QED
      BY <3>1, <3>3, <3>4, <2>0, <2>7 DEF CommandOK, CapturesAreOwn, Admitted
  <2>10. Compared(q)
    BY <2>0, <2>1, <2>5, <2>7 DEF CommandOK, Compared, Admitted
  <2> QED
    BY <1>2, <2>0, <2>7, <2>8, <2>9, <2>10, QuietCommand DEF CommandOK, Quiet
<1> QED
  BY <1>1, <1>2 DEF ResolveCredential

(* The command after the provider has named the principal. *)
LEMMA AttestedCommand ==
    ASSUME ContextAssumption, ContextInv, proc.pc = "attest",
           NextSystem(proc.got[Sys].credential)
    PROVE  CommandOK(proc') /\ proc'.pc = "target" /\ proc'.mode = proc.mode
<1> DEFINE one == [proc.got[Sys] EXCEPT !.principal = proc.got[Sys].credential]
           all == [proc.got EXCEPT ![Sys] = one]
           q == [proc EXCEPT !.pc = "target", !.at = proc.at + 1, !.got = all]
<1>0. /\ proc \in Commands /\ CommandOK(proc) /\ proc.at \in 1..Len(Systems)
      /\ proc.at \in Nat /\ Len(Systems) \in Nat
  BY Constants DEF ContextInv, CommandOK, Indexed
<1>1. Sys \in S /\ Sys = Systems[proc.at] /\ proc' = q
  BY <1>0, Constants DEF Sys, NextSystem
<1>2. /\ one \in Captures /\ one.target = proc.got[Sys].target
      /\ one.credential = one.principal
  BY <1>0, <1>1 DEF Commands, Captures
<1> HIDE DEF one
<1>3. /\ all \in [S -> Captures] /\ all[Sys] = one
      /\ \A s \in S : s # Sys => all[s] = proc.got[s]
  BY <1>0, <1>1, <1>2 DEF Commands
<1>4. \A s \in S : all[s].target = proc.got[s].target
  BY <1>2, <1>3
<1>5. "target" \in Pcs /\ proc.at + 1 \in Nat
  BY <1>0 DEF Pcs
<1> HIDE DEF all
<1>6. /\ q \in Commands /\ q.pc = "target" /\ q.at = proc.at + 1 /\ q.mode = proc.mode
      /\ q.conf = proc.conf /\ q.got = all /\ q.pins = proc.pins
      /\ q.opened = proc.opened /\ q.bound = proc.bound
  BY <1>0, <1>3, <1>5 DEF Commands
<1> HIDE DEF q
<1>7. Indexed(q)
  BY <1>0, <1>6 DEF Indexed
<1>8. PinsAreKept(q) /\ GateHolds(q)
  BY <1>0, <1>6 DEF CommandOK, PinsAreKept, GateHolds, Admitted
<1>9. CapturesAreOwn(q)
  <2>1. \A s \in S : q.got[s].credential = q.got[s].principal
    BY <1>0, <1>1, <1>2, <1>3, <1>6 DEF CommandOK, CapturesAreOwn
  <2>2. \A s \in S : Caught(proc, s) => Caught(q, s)
    BY <1>4, <1>6 DEF Caught
  <2>3. ASSUME NEW k \in 1..(q.at - 1) PROVE Caught(q, Systems[k])
    <3>1. (k \in 1..(proc.at - 1) \/ k = proc.at) /\ Systems[k] \in S
      BY <1>0, <1>6, Constants
    <3>2. Caught(proc, Systems[k])
      BY <3>1, <1>0 DEF CommandOK, CapturesAreOwn
    <3> QED
      BY <3>1, <3>2, <2>2
  <2> QED
    BY <2>1, <2>3, <1>0, <1>6 DEF CommandOK, CapturesAreOwn, Admitted
<1>10. Compared(q)
  BY <1>0, <1>6 DEF CommandOK, Compared, Admitted
<1> QED
  BY <1>1, <1>6, <1>7, <1>8, <1>9, <1>10 DEF CommandOK

(* A step that moves the command and sends its credential to the endpoint  *)
(* it captured, or sends nothing.                                          *)
LEMMA AskedCommand ==
    ASSUME ContextAssumption, ContextInv, proc.pc = "attest",
           UNCHANGED <<world, approved, performed, atGate>>,
           NEW q, proc' = q, CommandOK(q), q.mode = proc.mode,
           \/ sent' = sent
           \/ Applied /\ sent' = sent \cup {[system |-> Sys, target |-> proc.got[Sys].target]}
    PROVE  ContextInv'
<1>1. /\ conf' = conf /\ ca' = ca /\ token' = token /\ store' = store /\ dir' = dir
      /\ approved' = approved /\ performed' = performed /\ atGate' = atGate
  BY DEF world
<1>2. CommandOK(proc)'
  BY <1>1 DEF CommandOK, Indexed, PinsAreKept, CapturesAreOwn, Caught, Compared, GateHolds,
     ContextOf
<1>3. /\ Applied => proc.got[Sys].target = approved.connectors[Sys].target /\ approved # None
  BY DEF ContextInv, CommandOK, Compared, Applied, Sys
<1>4. SecretsGoWhereApproved'
  BY <1>1, <1>3 DEF ContextInv, SecretsGoWhereApproved
<1>5. ApprovedFirst'
  BY <1>1, <1>3 DEF ContextInv, ApprovedFirst, Applied
<1>6. WorldTypes' /\ EffectUsesApproved' /\ WritesStayInApprovedObjects' /\ LateDriftStops'
  BY <1>1 DEF ContextInv, WorldTypes, EffectUsesApproved,
     WritesStayInApprovedObjects, LateDriftStops
<1> QED
  BY <1>2, <1>4, <1>5, <1>6 DEF ContextInv

LEMMA AttestKeeps ==
    ASSUME ContextAssumption, ContextInv, Attest
    PROVE  ContextInv'
<1>1. PICK q : q = proc'
  OBVIOUS
<1>2. CommandOK(q) /\ q.mode = proc.mode
  BY <1>1, AttestedCommand DEF Attest
<1>3. \/ sent' = sent
      \/ Applied /\ sent' = sent \cup {[system |-> Sys, target |-> proc.got[Sys].target]}
  BY DEF Attest
<1> QED
  BY <1>1, <1>2, <1>3, AskedCommand DEF Attest

LEMMA AttestFailsKeeps ==
    ASSUME ContextAssumption, ContextInv, AttestFails
    PROVE  ContextInv'
<1>1. PICK q : q = proc'
  OBVIOUS
<1>2. CommandOK(q)
  BY <1>1, FailedCommand DEF AttestFails
<1>3. q.mode = proc.mode
  BY <1>1 DEF AttestFails, Fail, ContextInv, CommandOK, Commands
<1>4. \/ sent' = sent
      \/ Applied /\ sent' = sent \cup {[system |-> Sys, target |-> proc.got[Sys].target]}
  BY DEF AttestFails
<1> QED
  BY <1>1, <1>2, <1>3, <1>4, AskedCommand DEF AttestFails

(* bind-context writes its context while nothing was sent under another. *)
LEMMA WriteBoundPlanKeeps ==
    ASSUME ContextAssumption, ContextInv, WriteBoundPlan
    PROVE  ContextInv'
<1> DEFINE q == [proc EXCEPT !.pc = "ended", !.outcome = "ok"]
<1>0. /\ proc \in Commands /\ CommandOK(proc) /\ proc.pc = "target" /\ proc.mode # "apply"
      /\ proc' = q
      /\ conf' = conf /\ ca' = ca /\ token' = token /\ store' = store /\ dir' = dir
      /\ sent' = sent /\ performed' = performed /\ atGate' = atGate
  BY DEF ContextInv, CommandOK, WriteBoundPlan, Applied, world
<1>1. sent = {} /\ performed = {}
  BY <1>0 DEF ContextInv, ApprovedFirst
<1>2. "ended" \in Pcs
  BY DEF Pcs
<1>3. /\ q \in Commands /\ q.pc = "ended" /\ q.mode = proc.mode /\ q.conf = proc.conf
      /\ q.got = proc.got /\ q.pins = proc.pins /\ q.opened = proc.opened
  BY <1>0, <1>2 DEF Commands
<1> HIDE DEF q
<1>4. CommandOK(proc)'
  BY <1>0, <1>3 DEF CommandOK, Indexed, PinsAreKept, CapturesAreOwn, Caught, Compared, GateHolds, Admitted
<1>5. ApprovedFirst' /\ EffectUsesApproved' /\ SecretsGoWhereApproved'
      /\ WritesStayInApprovedObjects' /\ LateDriftStops'
  BY <1>0, <1>1 DEF ApprovedFirst, EffectUsesApproved, SecretsGoWhereApproved,
     WritesStayInApprovedObjects, LateDriftStops
<1>6. WorldTypes'
  BY <1>0 DEF ContextInv, WorldTypes
<1> QED
  BY <1>4, <1>5, <1>6 DEF ContextInv

-----------------------------------------------------------------------------
(* The comparison, the duplicates and the second gate *)

(* The next stage of a command, with everything it holds. *)
Advances(q, to) ==
    /\ q \in Commands /\ q.pc = to /\ q.at = 1 /\ q.mode = proc.mode /\ q.conf = proc.conf
    /\ q.env = proc.env /\ q.got = proc.got /\ q.pins = proc.pins
    /\ q.opened = proc.opened /\ q.bound = proc.bound

LEMMA GoToFacts ==
    ASSUME ContextInv, NEW to \in Pcs, GoTo(to)
    PROVE  Advances(proc', to)
<1> DEFINE q == [proc EXCEPT !.pc = to, !.at = 1]
<1>1. proc \in Commands /\ proc' = q
  BY DEF ContextInv, CommandOK, GoTo
<1> QED
  BY <1>1 DEF Commands, Advances

LEMMA EnforceKeeps ==
    ASSUME ContextAssumption, ContextInv, Enforce
    PROVE  ContextInv'
<1>1. CASE Fail("refused")
  BY <1>1, FailKeeps DEF Enforce
<1>2. CASE GoTo("open") /\ Context = approved
  <2>0. /\ CommandOK(proc) /\ proc.pc = "target" /\ proc.at = Len(Systems) + 1
        /\ proc.mode = "apply" /\ Quiet /\ Len(Systems) \in Nat
    BY Constants DEF ContextInv, Enforce, Applied
  <2>1. PICK q : q = proc'
    OBVIOUS
  <2>2. Advances(q, "open")
    BY <1>2, <2>1, GoToFacts DEF Pcs
  <2>3. Indexed(q)
    BY <2>2, Constants DEF Advances, Indexed
  <2>4. PinsAreKept(q) /\ GateHolds(q)
    BY <2>0, <2>2 DEF Advances, CommandOK, PinsAreKept, GateHolds, Admitted
  <2>5. ASSUME NEW s \in S PROVE Caught(q, s)
    <3>1. PICK k \in 1..Len(Systems) : s = Systems[k]
      BY Constants
    <3>2. k \in 1..(proc.at - 1)
      BY <2>0, <3>1
    <3> QED
      BY <3>1, <3>2, <2>0, <2>2 DEF Advances, CommandOK, CapturesAreOwn, Caught
  <2>6. CapturesAreOwn(q)
    BY <2>0, <2>2, <2>5 DEF Advances, CommandOK, CapturesAreOwn, Admitted
  <2>7. ContextOf(q) = approved
    BY <1>2, <2>2 DEF Context, ContextOf, Advances, R
  <2>8. Compared(q)
    BY <2>0, <2>2, <2>7 DEF Advances, CommandOK, Compared, Admitted
  <2> QED
    BY <2>0, <2>1, <2>2, <2>3, <2>4, <2>6, <2>8, QuietCommand DEF Advances, CommandOK, Quiet
<1> QED
  BY <1>1, <1>2 DEF Enforce

LEMMA OpenTargetKeeps ==
    ASSUME ContextAssumption, ContextInv, OpenTarget
    PROVE  ContextInv'
<1> DEFINE owned == [proc.opened EXCEPT ![Root] = Duplicate(Root)]
           q == [proc EXCEPT !.opened = owned, !.at = proc.at + 1]
<1>1. CASE Fail("refused")
  BY <1>1, FailKeeps DEF OpenTarget
<1>2. CASE proc' = q
  <2>0. /\ proc \in Commands /\ CommandOK(proc) /\ proc.pc = "open" /\ Quiet
        /\ proc.at \in 1..Len(Roots) /\ proc.at \in Nat /\ Len(Roots) \in Nat
    BY Constants DEF ContextInv, CommandOK, Indexed, OpenTarget
  <2>1. Root \in R /\ Root = Roots[proc.at]
    BY <2>0, Constants DEF Root
  <2>2. /\ owned \in [R -> Nat] /\ proc.at + 1 \in Nat /\ owned[Root] = proc.pins[Root]
        /\ \A r \in R : r # Root => owned[r] = proc.opened[r]
    BY <2>0, <2>1 DEF Commands, Duplicate
  <2> HIDE DEF owned
  <2>3. /\ q \in Commands /\ q.pc = "open" /\ q.at = proc.at + 1 /\ q.mode = proc.mode
        /\ q.conf = proc.conf /\ q.env = proc.env /\ q.got = proc.got /\ q.pins = proc.pins
        /\ q.opened = owned /\ q.bound = proc.bound
    BY <2>0, <2>2 DEF Commands
  <2> HIDE DEF q
  <2>4. Indexed(q)
    BY <2>0, <2>3 DEF Indexed
  <2>5. ASSUME NEW k \in 1..(q.at - 1) PROVE q.opened[Roots[k]] = q.pins[Roots[k]]
    <3>1. (k \in 1..(proc.at - 1) \/ k = proc.at) /\ Roots[k] \in R
      BY <2>0, <2>3, Constants
    <3>2. CASE Roots[k] = Root
      BY <3>2, <2>2, <2>3
    <3>3. CASE Roots[k] # Root
      <4>1. k \in 1..(proc.at - 1)
        BY <3>1, <3>3, <2>1
      <4> QED
        BY <4>1, <3>1, <3>3, <2>0, <2>2, <2>3 DEF CommandOK, PinsAreKept
    <3> QED
      BY <3>2, <3>3
  <2>6. PinsAreKept(q)
    BY <2>0, <2>3, <2>5 DEF CommandOK, PinsAreKept, Admitted
  <2>7. CapturesAreOwn(q) /\ GateHolds(q)
    BY <2>0, <2>3 DEF CommandOK, CapturesAreOwn, Caught, GateHolds, Admitted
  <2>8. Compared(q)
    BY <2>0, <2>3 DEF CommandOK, Compared, Admitted, ContextOf
  <2> QED
    BY <1>2, <2>0, <2>3, <2>4, <2>6, <2>7, <2>8, QuietCommand DEF CommandOK, Quiet
<1> QED
  BY <1>1, <1>2 DEF OpenTarget

(* The connectors are built with what the gate compares next still at hand. *)
LEMMA BuildRegistryKeeps ==
    ASSUME ContextAssumption, ContextInv, BuildRegistry
    PROVE  ContextInv'
<1>0. /\ CommandOK(proc) /\ proc.pc = "open" /\ proc.at = Len(Roots) + 1 /\ Len(Roots) \in Nat
      /\ conf' = conf /\ ca' = ca /\ token' = token /\ store' = store /\ dir' = dir
      /\ approved' = approved /\ sent' = sent /\ performed' = performed
  BY Constants DEF ContextInv, BuildRegistry, world
<1>1. CASE Fail("refused") /\ UNCHANGED atGate
  <2>1. PICK q : q = proc'
    OBVIOUS
  <2>2. CommandOK(q) /\ q.pc = "ended"
    BY <1>1, <2>1, FailedCommand
  <2> QED
    BY <1>0, <1>1, <2>1, <2>2, QuietCommand DEF world
<1>2. CASE GoTo("gate") /\ atGate' = [conf |-> conf, ca |-> ca]
  <2>1. PICK q : q = proc'
    OBVIOUS
  <2>2. Advances(q, "gate")
    BY <1>2, <2>1, GoToFacts DEF Pcs
  <2>3. q.opened = q.pins
    <3>1. q.opened \in [R -> Nat] /\ q.pins \in [R -> Nat]
      BY <2>2 DEF Advances, Commands
    <3>2. ASSUME NEW r \in R PROVE q.opened[r] = q.pins[r]
      <4>1. PICK k \in 1..Len(Roots) : r = Roots[k]
        BY Constants
      <4>2. k \in 1..(proc.at - 1)
        BY <1>0, <4>1
      <4> QED
        BY <4>1, <4>2, <1>0, <2>2 DEF Advances, CommandOK, PinsAreKept
    <3> QED
      BY <3>1, <3>2
  <2>4. Indexed(q) /\ PinsAreKept(q)
    BY <1>0, <2>2, <2>3 DEF Advances, CommandOK, Indexed, PinsAreKept, Admitted
  <2>5. CapturesAreOwn(q) /\ Compared(q)
    BY <1>0, <2>2 DEF Advances, CommandOK, CapturesAreOwn, Caught, Compared, Admitted, ContextOf
  <2>6. /\ conf \in Nat /\ ca \in [S -> Nat] /\ \A s \in S : Caught(q, s)
    BY <2>2, <2>5 DEF ContextInv, WorldTypes, Advances, CapturesAreOwn, Admitted
  <2>8. GateHolds(proc)'
    <3>1. /\ atGate' \in [conf : Nat, ca : [S -> Nat]]
          /\ atGate'.conf = conf /\ atGate'.ca = ca
      BY <1>2, <2>6
    <3>2. q.conf <= conf
      BY <2>5 DEF CapturesAreOwn
    <3> QED
      BY <1>0, <2>1, <2>2, <2>6, <3>1, <3>2 DEF Advances, GateHolds, Admitted, Caught
  <2>9. CommandOK(proc)'
    BY <1>0, <2>1, <2>2, <2>4, <2>5, <2>8
    DEF Advances, CommandOK, Indexed, PinsAreKept, CapturesAreOwn, Caught, Compared, ContextOf
  <2>10. ApprovedFirst'
    BY <1>0, <2>1, <2>2 DEF ContextInv, ApprovedFirst, Advances
  <2>11. WorldTypes' /\ EffectUsesApproved' /\ SecretsGoWhereApproved'
         /\ WritesStayInApprovedObjects' /\ LateDriftStops'
    BY <1>0 DEF ContextInv, WorldTypes, EffectUsesApproved, SecretsGoWhereApproved,
       WritesStayInApprovedObjects, LateDriftStops
  <2> QED
    BY <2>9, <2>10, <2>11 DEF ContextInv
<1> QED
  BY <1>1, <1>2 DEF BuildRegistry

LEMMA GateKeeps ==
    ASSUME ContextAssumption, ContextInv, Gate
    PROVE  ContextInv'
<1>1. CASE Fail("refused")
  BY <1>1, FailKeeps DEF Gate
<1>2. CASE GoTo("recapture") /\ conf = approved.conf
  <2>0. CommandOK(proc) /\ proc.pc = "gate" /\ Quiet /\ conf \in Nat
    BY DEF ContextInv, Gate, WorldTypes
  <2>1. PICK q : q = proc'
    OBVIOUS
  <2>2. Advances(q, "recapture")
    BY <1>2, <2>1, GoToFacts DEF Pcs
  <2>3. Indexed(q)
    BY <2>2, Constants DEF Advances, Indexed
  <2>4. PinsAreKept(q) /\ CapturesAreOwn(q) /\ Compared(q)
    BY <2>0, <2>2 DEF Advances, CommandOK, PinsAreKept, CapturesAreOwn, Caught, Compared,
       ContextOf, Admitted
  <2>5. atGate.conf = approved.conf
    <3>1. /\ atGate.conf \in Nat /\ proc.conf \in Nat
          /\ proc.conf <= atGate.conf /\ atGate.conf <= conf
      BY <2>0 DEF CommandOK, GateHolds, Admitted, Commands
    <3>2. approved.conf = proc.conf
      BY <2>0 DEF CommandOK, Compared, ContextOf, Admitted
    <3> QED
      BY <1>2, <2>0, <3>1, <3>2
  <2>6. GateHolds(q)
    BY <2>0, <2>2, <2>5 DEF Advances, CommandOK, GateHolds, Admitted
  <2> QED
    BY <2>0, <2>1, <2>2, <2>3, <2>4, <2>6, QuietCommand DEF Advances, CommandOK, Quiet, Compared, Admitted
<1> QED
  BY <1>1, <1>2 DEF Gate

(* The approved bundle is there now, so it was there at the gate. *)
LEMMA RecaptureKeeps ==
    ASSUME ContextAssumption, ContextInv, Recapture
    PROVE  ContextInv'
<1> DEFINE q == [proc EXCEPT !.at = proc.at + 1]
<1>1. CASE Fail("refused")
  BY <1>1, FailKeeps DEF Recapture
<1>2. CASE proc' = q /\ TargetApproved(Sys, TargetNow(Sys, approved.conf))
  <2>0. /\ proc \in Commands /\ CommandOK(proc) /\ proc.pc = "recapture" /\ Quiet
        /\ proc.at \in 1..Len(Systems) /\ proc.at \in Nat /\ Len(Systems) \in Nat
    BY Constants DEF ContextInv, CommandOK, Indexed, Recapture
  <2>1. Sys \in S /\ Sys = Systems[proc.at]
    BY <2>0, Constants DEF Sys
  <2>2. /\ q \in Commands /\ q.pc = "recapture" /\ q.at = proc.at + 1 /\ q.mode = proc.mode
        /\ q.conf = proc.conf /\ q.env = proc.env /\ q.got = proc.got /\ q.pins = proc.pins
        /\ q.opened = proc.opened /\ q.bound = proc.bound
    <3>1. proc.at + 1 \in Nat
      BY <2>0
    <3> QED
      BY <2>0, <3>1 DEF Commands
  <2> HIDE DEF q
  <2>3. Indexed(q)
    BY <2>0, <2>2 DEF Indexed
  <2>4. PinsAreKept(q) /\ CapturesAreOwn(q) /\ Compared(q)
    BY <2>0, <2>2 DEF CommandOK, PinsAreKept, CapturesAreOwn, Caught, Compared,
       ContextOf, Admitted
  <2>5. atGate.ca[Sys] = approved.connectors[Sys].target.ca
    <3>1. ca[Sys] = approved.connectors[Sys].target.ca
      BY <1>2 DEF TargetApproved, TargetNow
    <3>2. approved.connectors[Sys].target = proc.got[Sys].target
      BY <2>0, <2>1 DEF CommandOK, Compared, ContextOf, Admitted
    <3>3. /\ proc.got[Sys].target.ca \in Nat /\ atGate.ca[Sys] \in Nat /\ ca[Sys] \in Nat
          /\ proc.got[Sys].target.ca <= atGate.ca[Sys] /\ atGate.ca[Sys] <= ca[Sys]
      BY <2>0, <2>1 DEF CommandOK, CapturesAreOwn, Caught, Targets, GateHolds, Admitted,
         ContextInv, WorldTypes
    <3> QED
      BY <3>1, <3>2, <3>3
  <2>6. ASSUME NEW k \in 1..(q.at - 1)
        PROVE  atGate.ca[Systems[k]] = approved.connectors[Systems[k]].target.ca
    <3>1. k \in 1..(proc.at - 1) \/ k = proc.at
      BY <2>0, <2>2
    <3> QED
      BY <3>1, <2>0, <2>1, <2>5 DEF CommandOK, GateHolds
  <2>7. GateHolds(q)
    BY <2>0, <2>2, <2>6 DEF CommandOK, GateHolds, Admitted
  <2> QED
    BY <1>2, <2>0, <2>2, <2>3, <2>4, <2>7, QuietCommand DEF CommandOK, Quiet
<1> QED
  BY <1>1, <1>2 DEF Recapture

LEMMA RecapturedKeeps ==
    ASSUME ContextAssumption, ContextInv, Recaptured
    PROVE  ContextInv'
<1>0. /\ CommandOK(proc) /\ proc.pc = "recapture" /\ Quiet /\ GoTo("validate")
      /\ proc.at = Len(Systems) + 1 /\ Len(Systems) \in Nat
  BY Constants DEF ContextInv, Recaptured
<1>1. PICK q : q = proc'
  OBVIOUS
<1>2. Advances(q, "validate")
  BY <1>0, <1>1, GoToFacts DEF Pcs
<1>3. Indexed(q) /\ PinsAreKept(q) /\ CapturesAreOwn(q) /\ Compared(q)
  BY <1>0, <1>2 DEF Advances, CommandOK, Indexed, PinsAreKept, CapturesAreOwn, Caught, Compared,
     ContextOf, Admitted
<1>4. ASSUME NEW s \in S PROVE atGate.ca[s] = approved.connectors[s].target.ca
  <2>1. PICK k \in 1..Len(Systems) : s = Systems[k]
    BY Constants
  <2>2. k \in 1..(proc.at - 1)
    BY <1>0, <2>1
  <2> QED
    BY <1>0, <2>1, <2>2 DEF CommandOK, GateHolds
<1>5. GateHolds(q)
  BY <1>0, <1>2, <1>4 DEF Advances, CommandOK, GateHolds, Admitted
<1> QED
  BY <1>0, <1>1, <1>2, <1>3, <1>5, QuietCommand DEF Advances, CommandOK, Quiet, Compared, Admitted

LEMMA ValidatePinsKeeps ==
    ASSUME ContextAssumption, ContextInv, ValidatePins
    PROVE  ContextInv'
<1>1. CASE Fail("refused")
  BY <1>1, FailKeeps DEF ValidatePins
<1>2. CASE GoTo("run")
  <2>0. CommandOK(proc) /\ proc.pc = "validate" /\ Quiet
    BY DEF ContextInv, ValidatePins
  <2>1. PICK q : q = proc'
    OBVIOUS
  <2>2. Advances(q, "run")
    BY <1>2, <2>1, GoToFacts DEF Pcs
  <2>3. Indexed(q)
    BY <2>2, Constants DEF Advances, Indexed
  <2>4. PinsAreKept(q) /\ CapturesAreOwn(q) /\ Compared(q) /\ GateHolds(q)
    BY <2>0, <2>2 DEF Advances, CommandOK, PinsAreKept, CapturesAreOwn, Caught, Compared,
       GateHolds, ContextOf, Admitted
  <2> QED
    BY <2>0, <2>1, <2>2, <2>3, <2>4, QuietCommand DEF Advances, CommandOK, Quiet, Compared, Admitted
<1> QED
  BY <1>1, <1>2 DEF ValidatePins

-----------------------------------------------------------------------------
(* Effects *)

LEMMA EffectKeeps ==
    ASSUME ContextAssumption, ContextInv, Effect
    PROVE  ContextInv'
<1> DEFINE q == [proc EXCEPT !.at = proc.at + 1]
           e == [system |-> Sys, target |-> proc.got[Sys].target,
                 principal |-> proc.got[Sys].credential,
                 roots |-> [r \in R |-> proc.opened[r]], seen |-> atGate]
           m == [system |-> Sys, target |-> proc.got[Sys].target]
<1>0. /\ proc \in Commands /\ CommandOK(proc) /\ proc.pc = "run"
      /\ proc.at \in 1..Len(Systems) /\ proc.at \in Nat /\ Len(Systems) \in Nat
      /\ proc' = q /\ performed' = performed \cup {e} /\ sent' = sent \cup {m}
      /\ conf' = conf /\ ca' = ca /\ token' = token /\ store' = store /\ dir' = dir
      /\ approved' = approved /\ atGate' = atGate
  BY Constants DEF ContextInv, CommandOK, Indexed, Effect, RequestCredential, WriteRoot, world, R
<1>1. Sys \in S
  BY <1>0, Constants DEF Sys
<1>2. /\ proc.mode = "apply" /\ approved # None
      /\ approved = ContextOf(proc)
      /\ proc.got[Sys].credential = proc.got[Sys].principal
      /\ proc.opened = proc.pins /\ proc.pins = proc.bound
  BY <1>0, <1>1 DEF CommandOK, Compared, CapturesAreOwn, PinsAreKept, Admitted
<1>3. /\ e.target = approved.connectors[e.system].target
      /\ e.principal = approved.connectors[e.system].principal
      /\ m.target = approved.connectors[m.system].target
  BY <1>1, <1>2 DEF ContextOf
<1>4. \A r \in R : e.roots[r] = approved.paths[r].object
  BY <1>2 DEF ContextOf
<1>5. /\ e.seen.conf = approved.conf
      /\ \A s \in S : e.seen.ca[s] = approved.connectors[s].target.ca
  BY <1>0 DEF CommandOK, GateHolds
<1> HIDE DEF e, m
<1>6. EffectUsesApproved'
  BY <1>0, <1>3 DEF ContextInv, EffectUsesApproved
<1>7. SecretsGoWhereApproved'
  BY <1>0, <1>3 DEF ContextInv, SecretsGoWhereApproved
<1>8. WritesStayInApprovedObjects'
  BY <1>0, <1>4 DEF ContextInv, WritesStayInApprovedObjects, R
<1>9. LateDriftStops'
  BY <1>0, <1>5 DEF ContextInv, LateDriftStops
<1>10. /\ q \in Commands /\ q.pc = "run" /\ q.at = proc.at + 1 /\ q.mode = proc.mode
       /\ q.conf = proc.conf /\ q.env = proc.env /\ q.got = proc.got /\ q.pins = proc.pins
       /\ q.opened = proc.opened /\ q.bound = proc.bound
  <2>1. proc.at + 1 \in Nat
    BY <1>0
  <2> QED
    BY <1>0, <2>1 DEF Commands
<1> HIDE DEF q
<1>11. CommandOK(q)
  <2>1. Indexed(q)
    BY <1>0, <1>10 DEF Indexed
  <2>2. PinsAreKept(q) /\ CapturesAreOwn(q) /\ Compared(q) /\ GateHolds(q)
    BY <1>0, <1>10 DEF CommandOK, PinsAreKept, CapturesAreOwn, Caught, Compared,
       GateHolds, ContextOf, Admitted
  <2> QED
    BY <1>10, <2>1, <2>2 DEF CommandOK
<1>12. CommandOK(proc)'
  BY <1>0, <1>11 DEF CommandOK, Indexed, PinsAreKept, CapturesAreOwn, Caught, Compared, GateHolds,
     ContextOf
<1>13. ApprovedFirst'
  BY <1>0, <1>2, <1>10 DEF ApprovedFirst
<1>14. WorldTypes'
  BY <1>0 DEF ContextInv, WorldTypes
<1> QED
  BY <1>6, <1>7, <1>8, <1>9, <1>12, <1>13, <1>14 DEF ContextInv

-----------------------------------------------------------------------------
(* What others change *)

LEMMA DriftKeeps ==
    ASSUME ContextAssumption, ContextInv, Drift
    PROVE  ContextInv'
<1>1. /\ approved' = approved /\ proc' = proc /\ sent' = sent /\ performed' = performed
      /\ atGate' = atGate
  BY DEF Drift
<1>2. /\ WorldTypes' /\ conf <= conf' /\ \A s \in S : ca[s] <= ca'[s]
      /\ conf \in Nat /\ conf' \in Nat /\ ca \in [S -> Nat] /\ ca' \in [S -> Nat]
  <2>0. WorldTypes
    BY DEF ContextInv
  <2>1. CASE conf' = conf + 1 /\ UNCHANGED <<ca, token, store, dir>>
    BY <2>0, <2>1 DEF WorldTypes
  <2>2. CASE \E s \in S : ca' = [ca EXCEPT ![s] = @ + 1] /\ UNCHANGED <<conf, token, store, dir>>
    BY <2>0, <2>2 DEF WorldTypes
  <2>3. CASE \E s \in S, p \in People :
               token' = [token EXCEPT ![s] = p] /\ UNCHANGED <<conf, ca, store, dir>>
    BY <2>0, <2>3 DEF WorldTypes
  <2>4. CASE \E s \in S, p \in People :
               store' = [store EXCEPT ![s] = p] /\ UNCHANGED <<conf, ca, token, dir>>
    BY <2>0, <2>4 DEF WorldTypes
  <2>5. CASE \E l \in Locations :
               dir' = [dir EXCEPT ![l] = @ + 1] /\ UNCHANGED <<conf, ca, token, store>>
    BY <2>0, <2>5 DEF WorldTypes
  <2> QED
    BY <2>1, <2>2, <2>3, <2>4, <2>5 DEF Drift
<1>3. proc \in Commands /\ CommandOK(proc)
  BY DEF ContextInv, CommandOK
<1>4. CapturesAreOwn(proc)'
  <2>1. ASSUME NEW s \in S, Caught(proc, s) PROVE Caught(proc, s)'
    <3>1. proc.got[s].target.ca \in Nat
      BY <2>1 DEF Caught, Targets
    <3> QED
      BY <1>1, <1>2, <2>1, <3>1 DEF Caught
  <2>2. (proc.conf <= conf)'
    BY <1>1, <1>2, <1>3 DEF Commands, CommandOK, CapturesAreOwn
  <2>3. proc.pc \in {"target", "credential", "attest"} =>
          \A k \in 1..(proc.at - 1) : Caught(proc, Systems[k])'
    BY <2>1, <1>3, Constants DEF CommandOK, CapturesAreOwn, Indexed
  <2>4. proc.pc \in {"credential", "attest"} => Caught(proc, Systems[proc.at])'
    BY <2>1, <1>1, <1>3, Constants DEF CommandOK, CapturesAreOwn, Indexed
  <2>5. proc.pc \in Admitted => \A s \in S : Caught(proc, s)'
    BY <2>1, <1>3 DEF CommandOK, CapturesAreOwn
  <2> QED
    BY <1>1, <1>3, <2>2, <2>3, <2>4, <2>5 DEF CommandOK, CapturesAreOwn
<1>5. GateHolds(proc)'
  <2>1. ASSUME proc.pc \in Admitted \ {"open"}
        PROVE  /\ atGate.conf <= conf'
               /\ \A s \in S : atGate.ca[s] <= ca'[s]
    <3>1. /\ atGate \in [conf : Nat, ca : [S -> Nat]] /\ atGate.conf <= conf
          /\ \A s \in S : atGate.ca[s] <= ca[s]
      BY <1>3, <2>1 DEF CommandOK, GateHolds
    <3> QED
      BY <1>2, <3>1
  <2> QED
    BY <1>1, <1>3, <2>1 DEF CommandOK, GateHolds
<1>6. Indexed(proc)' /\ PinsAreKept(proc)' /\ Compared(proc)'
  BY <1>1, <1>3 DEF CommandOK, Indexed, PinsAreKept, Compared, ContextOf
<1>7. CommandOK(proc)'
  BY <1>1, <1>3, <1>4, <1>5, <1>6 DEF CommandOK
<1>8. ApprovedFirst' /\ EffectUsesApproved' /\ SecretsGoWhereApproved'
      /\ WritesStayInApprovedObjects' /\ LateDriftStops'
  BY <1>1 DEF ContextInv, ApprovedFirst, EffectUsesApproved, SecretsGoWhereApproved,
     WritesStayInApprovedObjects, LateDriftStops
<1> QED
  BY <1>2, <1>7, <1>8 DEF ContextInv

-----------------------------------------------------------------------------
(* Results *)

LEMMA InitHolds ==
    ASSUME ContextAssumption, ContextInit
    PROVE  ContextInv
<1>1. WorldTypes
  BY Constants DEF ContextInit, WorldTypes
<1>2. CommandOK(NoRun)
  BY <1>1, IdleFacts DEF CommandOK, Indexed, PinsAreKept, CapturesAreOwn, Compared, GateHolds,
     Admitted, WorldTypes
<1> QED
  BY <1>1, <1>2 DEF ContextInit, ContextInv, ApprovedFirst, EffectUsesApproved,
     SecretsGoWhereApproved, WritesStayInApprovedObjects, LateDriftStops

LEMMA StepKeeps ==
    ASSUME ContextAssumption, ContextInv, ContextStep
    PROVE  ContextInv'
<1>1. FinishRun => ContextInv'
  BY FailKeeps DEF FinishRun
<1> QED
  BY <1>1, LoadCredentialsKeeps, CapturePathKeeps, PathsCapturedKeeps, CaptureTargetKeeps,
     ResolveCredentialKeeps, AttestKeeps, AttestFailsKeeps, WriteBoundPlanKeeps, EnforceKeeps,
     OpenTargetKeeps, BuildRegistryKeeps, GateKeeps, RecaptureKeeps, RecapturedKeeps,
     ValidatePinsKeeps, EffectKeeps DEF ContextStep

LEMMA ContextInvHolds ==
    ASSUME ContextAssumption
    PROVE  ContextSpec => []ContextInv
<1>1. ContextInit => ContextInv
  BY InitHolds
<1>2. ContextInv /\ [ContextNext]_contextVars => ContextInv'
  <2>1. ASSUME ContextInv, ContextNext PROVE ContextInv'
    BY <2>1, DriftKeeps, BindContextKeeps, StepKeeps, RunApplyKeeps DEF ContextNext
  <2>2. ASSUME ContextInv, UNCHANGED contextVars PROVE ContextInv'
    <3>1. PICK q : q = proc'
      OBVIOUS
    <3> QED
      BY <2>2, <3>1, QuietCommand DEF contextVars, ContextInv, world
  <2> QED
    BY <2>1, <2>2
<1> QED
  BY <1>1, <1>2, PTL DEF ContextSpec

(* For any connectors, directories and people, and however configuration,  *)
(* trust bundles, logins, stores and directories change under it, a run of *)
(* a bound plan acts in the approved context: origin, trust, principal and *)
(* directory objects of every effect and every credential sent, and it     *)
(* holds no pin once it has ended (enforce_execution_context, the two      *)
(* gates of run --apply).                                                  *)
THEOREM ContextStaysPinned ==
    ASSUME ContextAssumption
    PROVE  ContextSpec => []ContextIsPinned
<1>1. ContextInv => ContextTypeOK
  BY DEF ContextInv, WorldTypes, CommandOK, Commands, Pcs, PinsAreKept, Admitted, ContextTypeOK
<1>2. ContextInv => ContextIsPinned
  BY <1>1 DEF ContextInv, ContextIsPinned
<1> QED
  BY <1>2, ContextInvHolds, PTL

-----------------------------------------------------------------------------
(* Provider reads.                                                          *)
ReadSteps == {"start", "attest", "bind", "authorize", "execute", "verify", "return", "done"}

\* The policy permits the action and its shape.
Permitted(a) == \E r \in Permits(a) : ShapeAllowed(r, a)

\* What a session has established when it leaves its start.
SessionIsAdmitted ==
    /\ PolicyValid(policy)
    /\ (kind = "probe" /\ plan[1].chosen = "none") =>
          (gov.environment = "development" /\ policy.source = "nonproduction")
    /\ kind = "direct" => \A k \in DOMAIN plan : Permitted(plan[k]) /\ GovernanceAllows(plan[k])

\* What is known of an action whose provider may be asked.
MayAsk(k) == Permitted(plan[k]) /\ (kind = "audited" => k \in audit)

\* What is known of a report with a result.
ShownIsPermitted(a, shown) ==
    \E r \in Permits(a) :
        /\ Len(shown) <= (IF Definition(a).list THEN a.limit ELSE 1) /\ Len(shown) <= r.maxItems
        /\ \A n \in DOMAIN shown : \A leaf \in shown[n] :
              /\ Wild \in r.allowed \/ (a.fields \subseteq r.allowed /\ a.fields # {})
              /\ a.fields # {} => leaf[1][1] \in Requested(a.fields)
              /\ NamesOf(leaf[1]) \cap Reserved = {}
              /\ NamesOf(leaf[1]) \cap (Secrets \cup r.redacted) # {} => leaf[2] = "redacted"
ReportHolds(rep, k) ==
    /\ ShownIsPermitted(plan[k], rep.result.shown)
    /\ plan[k].cls \in High => kind = "audited" /\ k \in audit
    /\ rep.raw.from = rep.binding.endpoint
    /\ kind # "probe" => rep.seen.body = rep.raw.body /\ rep.seen.from = rep.raw.from

PlanTypes ==
    /\ IsList(plan) /\ plan # <<>>
    /\ \A k \in DOMAIN plan :
          {"cap", "cls", "chosen", "limit"} \subseteq DOMAIN plan[k] /\ plan[k].limit \in Nat
\* The reports so far are those of the actions before i.
InStep ==
    /\ i \in DOMAIN plan /\ IsList(reports) /\ Len(reports) \in {i - 1, i}
    /\ pc # "done" => Len(reports) = i - 1 /\ returned = <<>>
    /\ returned # <<>> => returned = reports /\ Len(reports) = Len(plan)
ReadTypes ==
    /\ kind \in {"direct", "audited", "probe"} /\ policy \in Policies
    /\ PlanTypes
    /\ content \in [{plan[k].cap : k \in DOMAIN plan} -> Contents]
    /\ endpoint \in {"bound", "other"} /\ pc \in ReadSteps /\ edits \in 0 .. MaxEdits
    /\ contacts \subseteq DOMAIN plan /\ audit \subseteq DOMAIN plan /\ attested \subseteq DOMAIN plan
RouteOf ==
    /\ pc \in {"attest", "bind"} => kind = "direct"
    /\ pc = "authorize" => kind # "direct"
    /\ pc = "verify" => kind # "probe"
    /\ pc = "start" => contacts \cup attested = {} /\ reports = <<>> /\ bound = <<>>
AdmittedFirst ==
    /\ pc \notin {"start", "done"} => SessionIsAdmitted
    /\ contacts \cup attested # {} => SessionIsAdmitted
AskedFirst ==
    /\ \A k \in contacts \cup attested : Permitted(plan[k])
    /\ \A k \in contacts : kind = "audited" => k \in audit
    /\ kind = "audited" => attested = {}
    /\ pc \in {"execute", "verify", "return"} =>
          /\ MayAsk(i)
          /\ i \in DOMAIN bound
          /\ kind = "direct" => DOMAIN bound = DOMAIN plan
AnswerFits(ans) ==
    /\ ans.body \in Contents
    /\ endpoint = "bound" => ans.from = "bound"
AnswersFit ==
    /\ pc \in {"verify", "return"} => AnswerFits(snapshot)
    /\ (pc = "return" /\ kind # "probe") => AnswerFits(observed) /\ observed.body = snapshot.body
ReportsHold ==
    \A k \in DOMAIN reports :
        /\ "result" \in DOMAIN reports[k] => ReportHolds(reports[k], k)
        /\ kind = "direct" => "result" \in DOMAIN reports[k]

ReadInv == ReadTypes /\ InStep /\ RouteOf /\ AdmittedFirst /\ AskedFirst /\ AnswersFit /\ ReportsHold

LEMMA ListAppends ==
    ASSUME NEW s, IsList(s), NEW x
    PROVE  /\ IsList(Append(s, x)) /\ Len(Append(s, x)) = Len(s) + 1 /\ Len(s) \in Nat
           /\ DOMAIN s = 1 .. Len(s) /\ DOMAIN Append(s, x) = 1 .. (Len(s) + 1)
           /\ \A k \in DOMAIN s : Append(s, x)[k] = s[k]
           /\ Append(s, x)[Len(s) + 1] = x
<1> DEFINE Members == {s[k] : k \in DOMAIN s}
           t == Append(s, x)
<1>1. s \in Seq(Members) BY DEF IsList
<1>2. /\ Len(s) \in Nat /\ DOMAIN s = 1 .. Len(s) BY <1>1
<1>3. /\ Len(t) = Len(s) + 1 /\ DOMAIN t = 1 .. (Len(s) + 1)
      /\ \A k \in DOMAIN s : t[k] = s[k]
      /\ t[Len(s) + 1] = x
  <2>1. s \in Seq(Members \cup {x}) BY <1>1
  <2> HIDE DEF Members
  <2> QED BY <2>1, <1>2
<1>4. t \in Seq({t[k] : k \in DOMAIN t})
  <2> DEFINE T == {t[k] : k \in DOMAIN t}
  <2>1. t \in Seq(Members \cup {x}) BY <1>1
  <2> HIDE DEF t, Members
  <2>2. t \in [1 .. Len(t) -> Members \cup {x}] /\ Len(t) \in Nat BY <2>1
  <2>3. \A k \in 1 .. Len(t) : t[k] \in T BY <1>3
  <2> HIDE DEF T
  <2>4. t \in [1 .. Len(t) -> T] BY <2>2, <2>3
  <2>5. t \in Seq(T) BY <2>2, <2>4
  <2> QED BY <2>5 DEF T
<1> QED BY <1>2, <1>3, <1>4 DEF IsList

LEMMA ListIs ==
    ASSUME NEW s, IsList(s)
    PROVE  Len(s) \in Nat /\ DOMAIN s = 1 .. Len(s) /\ (s # <<>> => Len(s) > 0)
BY DEF IsList

\* The rule evaluate chooses is the one above all others that match.
LEMMA BelowIsTotal ==
    ASSUME NEW s, NEW t, \A n \in 1 .. 4 : s[n] \in Int /\ t[n] \in Int
    PROVE  Below(s, t) \/ Below(t, s) \/ \A n \in 1 .. 4 : s[n] = t[n]
<1> USE DEF Below
<1>1. CASE s[1] # t[1] BY <1>1
<1>2. CASE s[1] = t[1] /\ s[2] # t[2] BY <1>2
<1>3. CASE s[1] = t[1] /\ s[2] = t[2] /\ s[3] # t[3] BY <1>3
<1>4. CASE s[1] = t[1] /\ s[2] = t[2] /\ s[3] = t[3] /\ s[4] # t[4] BY <1>4
<1>5. CASE s[1] = t[1] /\ s[2] = t[2] /\ s[3] = t[3] /\ s[4] = t[4] BY <1>5
<1> QED BY <1>1, <1>2, <1>3, <1>4, <1>5

LEMMA BelowIsCongruent ==
    ASSUME NEW s, NEW t, NEW u, \A n \in 1 .. 4 : s[n] = t[n], Below(t, u)
    PROVE  Below(s, u)
BY DEF Below

LEMMA EvaluatedIsPermitted ==
    ASSUME ReadAssumption, policy \in Policies, NEW a,
           NEW r \in EvaluateRules(policy, a, Route, AuditAvailable)
    PROVE  /\ r \in Permits(a) /\ r \in policy.rules /\ r.maxItems \in Int
           /\ Matches(r, policy, a, Route)
<1> DEFINE matching == {s \in policy.rules : Matches(s, policy, a, Route)}
           best == {s \in matching : \A t \in matching : ~Below(Specificity(s), Specificity(t))}
<1>1. /\ r \in best /\ Cardinality(best) = 1 /\ r.handling # "deny" BY DEF EvaluateRules
<1>2. IsFiniteSet(best)
  <2>1. IsFiniteSet(policy.rules) BY DEF ReadAssumption
  <2>2. best \subseteq policy.rules OBVIOUS
  <2> QED BY <2>1, <2>2, FS_Subset
<1>3. PICK x : best = {x} BY <1>1, <1>2, FS_Singleton
<1>4. \A s \in matching : \A n \in 1 .. 4 : Specificity(s)[n] \in Int BY DEF ReadAssumption
<1>5. ASSUME NEW s \in matching \ {r} PROVE Below(Specificity(s), Specificity(r))
  <2>1. s \notin best BY <1>1, <1>3, <1>5
  <2>2. PICK t \in matching : Below(Specificity(s), Specificity(t)) BY <2>1
  <2>3. ~Below(Specificity(r), Specificity(s)) /\ ~Below(Specificity(r), Specificity(t)) BY <1>1
  <2>4. CASE \A n \in 1 .. 4 : Specificity(r)[n] = Specificity(s)[n]
    <3> HIDE DEF matching, best
    <3> QED BY <2>2, <2>3, <2>4, BelowIsCongruent
  <2>5. r \in matching BY <1>1
  <2> HIDE DEF matching, best
  <2> QED BY <1>4, <2>3, <2>4, <2>5, BelowIsTotal
<1>6. r \in policy.rules /\ Matches(r, policy, a, Route) BY <1>1
<1>7. r.maxItems \in Int BY <1>6 DEF ReadAssumption
<1>8. r \in Permits(a) BY <1>1, <1>5 DEF Permits
<1> QED BY <1>6, <1>7, <1>8

LEMMA PreflightPermits ==
    ASSUME ReadAssumption, policy \in Policies, NEW a
    PROVE  /\ Preflight(a) # {} => Permitted(a)
           /\ Bindings(a) # {} => Permitted(a)
           /\ \A r \in Preflight(a) : /\ r \in Permits(a) /\ r \in policy.rules /\ r.maxItems \in Int
                                      /\ Matches(r, policy, a, Route) /\ ShapeAllowed(r, a)
<1>1. \A r \in Preflight(a) : /\ r \in Permits(a) /\ r \in policy.rules /\ r.maxItems \in Int
                              /\ Matches(r, policy, a, Route) /\ ShapeAllowed(r, a)
  BY EvaluatedIsPermitted DEF Preflight
<1>2. Bindings(a) # {} => Preflight(a) # {} BY DEF Bindings
<1> QED BY <1>1, <1>2 DEF Permitted

LEMMA SameSession ==
    ASSUME kind' = kind, policy' = policy, gov' = gov
    PROVE  /\ \A a : Permits(a)' = Permits(a)
           /\ \A a : Permitted(a)' <=> Permitted(a)
           /\ \A a : GovernanceAllows(a)' <=> GovernanceAllows(a)
           /\ plan' = plan => (SessionIsAdmitted' <=> SessionIsAdmitted)
<1>1. \A a : Permits(a)' = Permits(a) BY DEF Permits, Route
<1>2. \A a : Permitted(a)' <=> Permitted(a) BY <1>1 DEF Permitted
<1>3. \A a : RulesFor(a)' = RulesFor(a) BY DEF RulesFor
<1>4. \A a : GovernanceAllows(a)' <=> GovernanceAllows(a) BY <1>3 DEF GovernanceAllows
<1>5. plan' = plan => (SessionIsAdmitted' <=> SessionIsAdmitted)
  BY <1>2, <1>4 DEF SessionIsAdmitted
<1> QED BY <1>1, <1>2, <1>4, <1>5

LEMMA SameReports ==
    ASSUME UNCHANGED Session, audit \subseteq audit'
    PROVE  \A rep, k : ReportHolds(rep, k) => ReportHolds(rep, k)'
<1>1. kind' = kind /\ policy' = policy /\ gov' = gov /\ plan' = plan BY DEF Session
<1>2. \A a : Permits(a)' = Permits(a) BY <1>1, SameSession
<1>3. \A a, shown : ShownIsPermitted(a, shown) => ShownIsPermitted(a, shown)'
  BY <1>2 DEF ShownIsPermitted
<1> QED BY <1>1, <1>3 DEF ReportHolds

LEMMA StayKeeps ==
    ASSUME InStep, ReportsHold, pc # "done", UNCHANGED Session, UNCHANGED <<i, reports, returned>>,
           audit \subseteq audit'
    PROVE  InStep' /\ ReportsHold'
<1>1. InStep' BY DEF InStep, Session
<1>2. ReportsHold' BY SameReports DEF ReportsHold, Session
<1> QED BY <1>1, <1>2

LEMMA ReportKeeps ==
    ASSUME PlanTypes, InStep, ReportsHold, pc # "done", UNCHANGED Session, UNCHANGED audit,
           NEW rec, Report(rec), "result" \in DOMAIN rec => ReportHolds(rec, i),
           kind = "direct" => "result" \in DOMAIN rec
    PROVE  /\ InStep' /\ ReportsHold'
           /\ pc' \in {"done", "execute", "authorize"}
           /\ pc' = "execute" => kind = "direct"
           /\ pc' = "authorize" => kind # "direct"
<1>0. kind' = kind /\ policy' = policy /\ gov' = gov /\ plan' = plan BY DEF Session
<1>1. Len(plan) \in Nat /\ DOMAIN plan = 1 .. Len(plan) BY ListIs DEF PlanTypes
<1>2. /\ IsList(reports) /\ Len(reports) = i - 1 /\ returned = <<>> /\ i \in 1 .. Len(plan)
  BY <1>1 DEF InStep
<1>3. reports' = Append(reports, rec) BY DEF Report
<1>4. /\ IsList(reports') /\ Len(reports') = i /\ DOMAIN reports' = 1 .. i
      /\ DOMAIN reports = 1 .. (i - 1)
      /\ \A k \in DOMAIN reports : reports'[k] = reports[k]
      /\ reports'[i] = rec
  <2>1. /\ IsList(reports') /\ Len(reports') = Len(reports) + 1 /\ Len(reports) \in Nat
        /\ DOMAIN reports = 1 .. Len(reports) /\ DOMAIN reports' = 1 .. (Len(reports) + 1)
        /\ \A k \in DOMAIN reports : reports'[k] = reports[k]
        /\ reports'[Len(reports) + 1] = rec
    BY <1>2, <1>3, ListAppends
  <2> QED BY <1>2, <2>1
<1>5. InStep' BY <1>0, <1>1, <1>2, <1>4 DEF InStep, Report
<1>6. \A rep, k : ReportHolds(rep, k) => ReportHolds(rep, k)' BY SameReports
<1>7. ReportsHold'
  <2>1. ASSUME NEW k \in 1 .. i, NEW rep, rep = reports'[k]
        PROVE  /\ "result" \in DOMAIN rep => ReportHolds(rep, k)'
               /\ kind = "direct" => "result" \in DOMAIN rep
    <3>1. CASE k = i
      <4>1. rep = rec /\ ("result" \in DOMAIN rec => ReportHolds(rec, k)) BY <1>4, <2>1, <3>1
      <4> QED BY <1>6, <4>1
    <3>2. CASE k \in DOMAIN reports BY <1>4, <1>6, <2>1, <3>2 DEF ReportsHold
    <3> QED BY <1>2, <1>4, <3>1, <3>2
  <2> QED BY <1>0, <1>4, <2>1 DEF ReportsHold
<1>8. /\ pc' \in {"done", "execute", "authorize"}
      /\ pc' = "execute" => kind = "direct"
      /\ pc' = "authorize" => kind # "direct"
  BY DEF Report
<1> QED BY <1>5, <1>7, <1>8

\* A step that ends the reading of an action, with a report or by raising, keeps the invariant.
LEMMA EndingKeeps ==
    ASSUME ReadAssumption, ReadInv, UNCHANGED <<Session, ProviderWorld, audit, bound>>,
           pc \in {"authorize", "execute", "verify", "return"},
           NEW rec, "result" \in DOMAIN rec => ReportHolds(rec, i),
           Raise \/ (Report(rec) /\ (kind = "direct" => "result" \in DOMAIN rec)),
           contacts' \subseteq contacts \cup {i}, contacts' # contacts => MayAsk(i),
           attested' \subseteq attested \cup {i},
           attested' # attested => kind = "probe" /\ Permitted(plan[i])
    PROVE  ReadInv'
<1>0. /\ kind' = kind /\ policy' = policy /\ gov' = gov /\ plan' = plan
      /\ content' = content /\ endpoint' = endpoint /\ edits' = edits
      /\ audit' = audit /\ bound' = bound
  BY DEF Session, ProviderWorld
<1>1. /\ InStep' /\ ReportsHold'
      /\ pc' \in {"done", "execute", "authorize"}
      /\ pc' = "execute" => kind = "direct"
      /\ pc' = "authorize" => kind # "direct"
  <2>1. CASE Raise BY <1>0, <2>1, StayKeeps DEF ReadInv, Raise, Session
  <2>2. CASE Report(rec) /\ (kind = "direct" => "result" \in DOMAIN rec)
    BY <1>0, <2>2, ReportKeeps DEF ReadInv, Session, ReadTypes
  <2> QED BY <2>1, <2>2
<1>2. i \in DOMAIN plan BY DEF ReadInv, InStep
<1>3. ReadTypes' BY <1>0, <1>1, <1>2 DEF ReadInv, ReadTypes, ReadSteps, PlanTypes
<1>4. RouteOf' BY <1>1, <1>0 DEF RouteOf
<1>5. SessionIsAdmitted /\ SessionIsAdmitted' /\ \A a : Permitted(a)' <=> Permitted(a)
  BY <1>0, SameSession DEF ReadInv, AdmittedFirst
<1>6. AdmittedFirst' BY <1>5 DEF AdmittedFirst
<1>7. AskedFirst'
  <2>1. /\ \A k \in (contacts \cup attested)' : Permitted(plan[k])
        /\ \A k \in contacts' : kind = "audited" => k \in audit
        /\ kind = "audited" => attested' = {}
    BY DEF ReadInv, AskedFirst, MayAsk
  <2>2. ASSUME pc' = "execute"
        PROVE  MayAsk(i)' /\ (i \in DOMAIN bound)' /\ (DOMAIN bound = DOMAIN plan)'
    <3>1. kind = "direct" /\ pc \in {"execute", "verify", "return"} BY <1>1, <2>2 DEF ReadInv, RouteOf
    <3>2. DOMAIN bound = DOMAIN plan BY <3>1 DEF ReadInv, AskedFirst
    <3>3. i' \in DOMAIN plan BY <1>0, <1>1 DEF InStep
    <3>4. Permitted(plan[i'])  BY <1>5, <3>1, <3>3 DEF SessionIsAdmitted
    <3>5. MayAsk(i)' BY <1>0, <1>5, <3>1, <3>4 DEF MayAsk
    <3> QED BY <1>0, <3>2, <3>3, <3>5
  <2> QED BY <1>0, <1>1, <1>5, <2>1, <2>2 DEF AskedFirst
<1>8. AnswersFit' BY <1>1 DEF AnswersFit
<1> QED BY <1>1, <1>3, <1>4, <1>6, <1>7, <1>8 DEF ReadInv

\* A step to the next call for the same action keeps the invariant.
LEMMA GoingOnKeeps ==
    ASSUME ReadAssumption, ReadInv, UNCHANGED <<Session, ProviderWorld, i, reports, returned>>,
           pc # "done", pc' \in ReadSteps \ {"start", "done"},
           audit \subseteq audit', audit' \subseteq audit \cup {i},
           contacts' \subseteq contacts \cup {i}, attested' \subseteq DOMAIN plan,
           RouteOf', SessionIsAdmitted, AnswersFit',
           \A k \in contacts' \cup attested' : Permitted(plan[k]),
           \A k \in contacts' : kind = "audited" => k \in audit',
           kind = "audited" => attested' = {},
           pc' \in {"execute", "verify", "return"} =>
              /\ Permitted(plan[i]) /\ (kind = "audited" => i \in audit') /\ i \in DOMAIN bound'
              /\ kind = "direct" => DOMAIN bound' = DOMAIN plan
    PROVE  ReadInv'
<1>0. /\ kind' = kind /\ policy' = policy /\ gov' = gov /\ plan' = plan
      /\ content' = content /\ endpoint' = endpoint /\ edits' = edits
      /\ i' = i /\ reports' = reports /\ returned' = returned
  BY DEF Session, ProviderWorld
<1>1. InStep' /\ ReportsHold' BY StayKeeps DEF ReadInv
<1>2. i \in DOMAIN plan BY DEF ReadInv, InStep
<1>3. ReadTypes' BY <1>0, <1>1, <1>2 DEF ReadInv, ReadTypes, ReadSteps, PlanTypes
<1>5. SessionIsAdmitted' /\ \A a : Permitted(a)' <=> Permitted(a) BY <1>0, SameSession
<1>6. AdmittedFirst' BY <1>5 DEF AdmittedFirst
<1>7. AskedFirst' BY <1>0, <1>5 DEF AskedFirst, MayAsk
<1> QED BY <1>1, <1>3, <1>6, <1>7 DEF ReadInv

LEMMA RaisingKeeps ==
    ASSUME ReadAssumption, ReadInv, UNCHANGED <<Session, ProviderWorld, audit, bound, contacts>>,
           pc # "done", Raise, attested' \subseteq DOMAIN plan,
           attested' # attested => kind = "direct" /\ SessionIsAdmitted
    PROVE  ReadInv'
<1>0. /\ kind' = kind /\ policy' = policy /\ gov' = gov /\ plan' = plan
      /\ content' = content /\ endpoint' = endpoint /\ edits' = edits
      /\ audit' = audit /\ bound' = bound /\ contacts' = contacts
      /\ i' = i /\ reports' = reports /\ returned' = returned /\ pc' = "done"
  BY DEF Session, ProviderWorld, Raise
<1>1. InStep' /\ ReportsHold' BY <1>0, StayKeeps DEF ReadInv
<1>2. ReadTypes' BY <1>0 DEF ReadInv, ReadTypes, ReadSteps, PlanTypes
<1>3. RouteOf' /\ AnswersFit' BY <1>0 DEF RouteOf, AnswersFit
<1>4. /\ SessionIsAdmitted' <=> SessionIsAdmitted
      /\ \A a : Permitted(a)' <=> Permitted(a)
  BY <1>0, SameSession
<1>5. AdmittedFirst' BY <1>0, <1>4 DEF ReadInv, AdmittedFirst
<1>6. AskedFirst'
  <2>1. \A k \in contacts \cup attested' : Permitted(plan[k])
    BY DEF ReadInv, AskedFirst, SessionIsAdmitted
  <2>2. kind = "audited" => attested' = {} BY DEF ReadInv, AskedFirst
  <2> QED BY <1>0, <1>4, <2>1, <2>2 DEF ReadInv, AskedFirst
<1> QED BY <1>1, <1>2, <1>3, <1>5, <1>6 DEF ReadInv

LEMMA InitIsRead == ASSUME ReadAssumption, ReadInit PROVE ReadInv
<1>1. PlanTypes BY DEF ReadInit, ReadAssumption, PlanTypes
<1>2. Len(plan) \in Nat /\ DOMAIN plan = 1 .. Len(plan) /\ Len(plan) > 0 BY <1>1, ListIs DEF PlanTypes
<1>3. IsList(<<>>) /\ Len(<<>>) = 0 BY DEF IsList
<1>4. ReadTypes BY <1>1 DEF ReadInit, ReadAssumption, ReadTypes, ReadSteps
<1>5. InStep BY <1>2, <1>3 DEF ReadInit, InStep
<1>6. RouteOf /\ AdmittedFirst /\ AskedFirst /\ AnswersFit /\ ReportsHold
  BY DEF ReadInit, RouteOf, AdmittedFirst, AskedFirst, AnswersFit, ReportsHold
<1> QED BY <1>4, <1>5, <1>6 DEF ReadInv

LEMMA PreflightDirectKeeps == ASSUME ReadAssumption, ReadInv, PreflightDirect PROVE ReadInv'
<1> USE DEF PreflightDirect, At
<1>1. CASE Raise BY <1>1, RaisingKeeps DEF ReadInv, ReadTypes
<1>2. CASE ~Raise
  <2>1. /\ pc = "start" /\ kind = "direct" /\ pc' = "attest" /\ UNCHANGED <<i, reports, returned>>
        /\ PolicyValid(policy)
        /\ \A k \in DOMAIN plan : GovernanceAllows(plan[k]) /\ Preflight(plan[k]) # {}
    BY <1>2
  <2>2. \A k \in DOMAIN plan : Permitted(plan[k]) BY <2>1, PreflightPermits DEF ReadInv, ReadTypes
  <2>3. SessionIsAdmitted BY <2>1, <2>2 DEF SessionIsAdmitted
  <2>4. contacts = {} /\ attested = {} BY <2>1 DEF ReadInv, RouteOf
  <2>5. RouteOf' /\ AnswersFit' BY <2>1 DEF RouteOf, AnswersFit, Session
  <2> QED BY <2>1, <2>3, <2>4, <2>5, GoingOnKeeps DEF ReadSteps
<1> QED BY <1>1, <1>2

LEMMA AttestAccountKeeps == ASSUME ReadAssumption, ReadInv, AttestAccount PROVE ReadInv'
<1> USE DEF AttestAccount, At
<1>1. kind = "direct" /\ SessionIsAdmitted BY DEF ReadInv, RouteOf, AdmittedFirst
<1>2. CASE Raise BY <1>1, <1>2, RaisingKeeps
<1>3. CASE ~Raise
  <2>1. pc = "attest" /\ pc' = "bind" /\ UNCHANGED <<i, reports, returned>> /\ attested' = DOMAIN plan
    BY <1>3
  <2>2. \A k \in DOMAIN plan : Permitted(plan[k]) BY <1>1 DEF SessionIsAdmitted
  <2>3. RouteOf' /\ AnswersFit' BY <1>1, <2>1 DEF RouteOf, AnswersFit, Session
  <2>4. contacts \subseteq DOMAIN plan BY DEF ReadInv, ReadTypes
  <2> QED BY <1>1, <2>1, <2>2, <2>3, <2>4, GoingOnKeeps DEF ReadSteps
<1> QED BY <1>2, <1>3

LEMMA BindDirectKeeps == ASSUME ReadAssumption, ReadInv, BindDirect PROVE ReadInv'
<1> USE DEF BindDirect, At
<1>1. kind = "direct" /\ SessionIsAdmitted BY DEF ReadInv, RouteOf, AdmittedFirst
<1>2. CASE Raise /\ UNCHANGED bound BY <1>2, RaisingKeeps DEF ReadInv, ReadTypes
<1>3. CASE ~(Raise /\ UNCHANGED bound)
  <2>1. /\ pc = "bind" /\ pc' = "execute" /\ UNCHANGED <<i, reports, returned>>
        /\ DOMAIN bound' = DOMAIN plan
    BY <1>3
  <2>2. \A k \in DOMAIN plan : Permitted(plan[k]) BY <1>1 DEF SessionIsAdmitted
  <2>3. RouteOf' /\ AnswersFit' BY <1>1, <2>1 DEF RouteOf, AnswersFit, Session
  <2>4. contacts \subseteq DOMAIN plan /\ attested \subseteq DOMAIN plan /\ i \in DOMAIN plan
    BY DEF ReadInv, ReadTypes, InStep
  <2> QED BY <1>1, <2>1, <2>2, <2>3, <2>4, GoingOnKeeps DEF ReadSteps
<1> QED BY <1>2, <1>3

LEMMA ListMaps ==
    ASSUME NEW s, IsList(s), NEW t, t = [k \in DOMAIN s |-> t[k]]
    PROVE  IsList(t) /\ Len(t) = Len(s)
<1> DEFINE T == {t[k] : k \in DOMAIN t}
<1>1. Len(s) \in Nat /\ DOMAIN s = 1 .. Len(s) BY ListIs
<1>2. DOMAIN t = 1 .. Len(s) BY <1>1
<1>3. \A k \in 1 .. Len(s) : t[k] \in T BY <1>2
<1> HIDE DEF T
<1>4. t \in [1 .. Len(s) -> T] BY <1>1, <1>3
<1>5. t \in Seq(T) /\ Len(t) = Len(s) BY <1>1, <1>4
<1> QED BY <1>5 DEF IsList, T

LEMMA BeginKeeps == ASSUME ReadAssumption, ReadInv, Begin PROVE ReadInv'
<1> USE DEF Begin, At
<1>1. CASE Raise /\ UNCHANGED plan BY <1>1, RaisingKeeps DEF ReadInv, ReadTypes, Session
<1>2. CASE ~(Raise /\ UNCHANGED plan)
  <2>1. /\ pc = "start" /\ kind # "direct" /\ pc' = "authorize" /\ UNCHANGED <<i, reports, returned>>
        /\ PolicyValid(policy) /\ (kind = "probe" => ProbeClass(policy, gov, plan[1].chosen) # {})
        /\ kind' = kind /\ policy' = policy /\ gov' = gov /\ bound' = bound /\ audit' = audit
        /\ contacts' = contacts /\ attested' = attested
    BY <1>2
  <2>2. content' = content /\ endpoint' = endpoint /\ edits' = edits BY DEF ProviderWorld
  <2>3. contacts = {} /\ attested = {} /\ reports = <<>> /\ bound = <<>>
    BY <2>1 DEF ReadInv, RouteOf
  <2>4. IsList(plan) /\ plan # <<>> BY DEF ReadInv, ReadTypes, PlanTypes
  <2>5. Len(plan) \in Nat /\ DOMAIN plan = 1 .. Len(plan) /\ Len(plan) > 0 BY <2>4, ListIs
  <2>6. \E c : \/ plan' = plan
               \/ plan' = [k \in DOMAIN plan |-> [plan[k] EXCEPT !.cls = c]]
    <3> DEFINE c == CHOOSE c \in ProbeClass(policy, gov, plan[1].chosen) : TRUE
    <3>1. plan' = plan \/ plan' = [k \in DOMAIN plan |-> [plan[k] EXCEPT !.cls = c]] BY <1>2
    <3> QED BY <3>1
  <2>7. PICK c : \/ plan' = plan
                 \/ plan' = [k \in DOMAIN plan |-> [plan[k] EXCEPT !.cls = c]]
    BY <2>6
  <2>8. \A k \in DOMAIN plan : /\ {"cap", "cls", "chosen", "limit"} \subseteq DOMAIN plan[k]
                               /\ plan[k].limit \in Nat
    BY DEF ReadInv, ReadTypes, PlanTypes
  <2>9. /\ DOMAIN plan' = DOMAIN plan
        /\ \A k \in DOMAIN plan : /\ DOMAIN plan'[k] = DOMAIN plan[k]
                                  /\ plan'[k].limit = plan[k].limit
                                  /\ plan'[k].cap = plan[k].cap
                                  /\ plan'[k].chosen = plan[k].chosen
    BY <2>7, <2>8
  <2>10. IsList(plan') /\ Len(plan') = Len(plan)
    <3>1. CASE plan' = plan BY <2>4, <3>1
    <3>2. CASE plan' = [k \in DOMAIN plan |-> [plan[k] EXCEPT !.cls = c]]
      <4>1. plan' = [k \in DOMAIN plan |-> plan'[k]] BY <3>2
      <4> QED BY <2>4, <4>1, ListMaps
    <3> QED BY <2>7, <3>1, <3>2
  <2>11. plan' # <<>> BY <2>5, <2>10
  <2>12. PlanTypes' BY <2>8, <2>9, <2>10, <2>11 DEF PlanTypes
  <2>13. {plan'[k].cap : k \in DOMAIN plan'} = {plan[k].cap : k \in DOMAIN plan} BY <2>9
  <2>14. ReadTypes'
    BY <2>1, <2>2, <2>3, <2>9, <2>12, <2>13 DEF ReadInv, ReadTypes, ReadSteps
  <2>15. InStep' BY <2>1, <2>9, <2>10 DEF ReadInv, InStep
  <2>16. RouteOf' /\ AnswersFit' /\ AskedFirst' /\ ReportsHold'
    BY <2>1, <2>3 DEF ReadInv, RouteOf, AnswersFit, AskedFirst, ReportsHold
  <2>17. SessionIsAdmitted'
    <3>1. plan'[1].chosen = plan[1].chosen BY <2>5, <2>9
    <3> QED BY <2>1, <3>1 DEF SessionIsAdmitted, ProbeClass
  <2>18. AdmittedFirst' BY <2>17 DEF AdmittedFirst
  <2> QED BY <2>14, <2>15, <2>16, <2>18 DEF ReadInv
<1> QED BY <1>1, <1>2

LEMMA NothingReported == "result" \notin DOMAIN NoResult
BY DEF NoResult

LEMMA RefusingKeeps ==
    ASSUME ReadAssumption, ReadInv, UNCHANGED <<Session, ProviderWorld, audit, bound, attested>>,
           pc \in {"execute", "verify", "return"}, RefuseRead,
           contacts' \in {contacts, contacts \cup {i}}
    PROVE  ReadInv'
<1>1. MayAsk(i) BY DEF ReadInv, AskedFirst
<1>2. Raise \/ (Report(NoResult) /\ kind # "direct")
  <2>1. CASE kind = "direct" BY <2>1 DEF RefuseRead
  <2>2. CASE kind # "direct" BY <2>2 DEF RefuseRead
  <2> QED BY <2>1, <2>2
<1>3. /\ UNCHANGED <<Session, ProviderWorld, audit, bound>>
      /\ contacts' \subseteq contacts \cup {i} /\ attested' = attested
  OBVIOUS
<1>4. Raise \/ (Report(NoResult) /\ (kind = "direct" => "result" \in DOMAIN NoResult)) BY <1>2
<1> QED BY <1>1, <1>3, <1>4, EndingKeeps, NothingReported

LEMMA AuthorizeKeeps == ASSUME ReadAssumption, ReadInv, Authorize PROVE ReadInv'
<1> USE DEF Authorize, At
<1>1. kind # "direct" /\ SessionIsAdmitted /\ policy \in Policies /\ i \in DOMAIN plan
  BY DEF ReadInv, RouteOf, AdmittedFirst, ReadTypes, InStep
<1>2. Preflight(plan[i]) # {} => Permitted(plan[i]) BY <1>1, PreflightPermits
<1>3. CASE Report(NoResult) /\ UNCHANGED <<bound, audit>>
  BY <1>1, <1>2, <1>3, EndingKeeps, NothingReported
<1>4. CASE ~(Report(NoResult) /\ UNCHANGED <<bound, audit>>)
  <2>1. /\ Bindings(plan[i]) # {} /\ pc = "authorize" /\ pc' = "execute"
        /\ UNCHANGED <<i, reports, returned>> /\ contacts' = contacts
        /\ audit' = IF kind = "audited" THEN audit \cup {i} ELSE audit
    BY <1>4
  <2>2. i \in DOMAIN bound'
    <3>1. \E b : Bound(b) BY <1>4
    <3>2. i \in 1 .. i BY <1>1, ListIs DEF ReadInv, ReadTypes, PlanTypes
    <3> QED BY <3>1, <3>2 DEF Bound
  <2>3. Permitted(plan[i]) BY <1>1, <2>1, PreflightPermits
  <2>4. RouteOf' /\ AnswersFit' BY <1>1, <2>1 DEF RouteOf, AnswersFit, Session
  <2>5. /\ contacts \subseteq DOMAIN plan /\ attested \subseteq DOMAIN plan
        /\ \A k \in contacts \cup attested : Permitted(plan[k])
        /\ \A k \in contacts : kind = "audited" => k \in audit
        /\ kind = "audited" => attested = {}
    BY DEF ReadInv, ReadTypes, AskedFirst
  <2>6. /\ attested' \subseteq DOMAIN plan /\ \A k \in attested' : Permitted(plan[k])
        /\ kind = "audited" => attested' = {}
    BY <1>1, <1>2, <2>5
  <2> QED BY <1>1, <2>1, <2>2, <2>3, <2>4, <2>5, <2>6, GoingOnKeeps DEF ReadSteps
<1> QED BY <1>3, <1>4

LEMMA AnswerHolds ==
    ASSUME ReadAssumption, ReadInv
    PROVE  AnswerFits(Answer)
<1>1. i \in DOMAIN plan BY DEF ReadInv, InStep
<1>2. content[plan[i].cap] \in Contents BY <1>1 DEF ReadInv, ReadTypes
<1> QED BY <1>2 DEF AnswerFits, Answer

LEMMA ExecuteKeeps == ASSUME ReadAssumption, ReadInv, Execute PROVE ReadInv'
<1> USE DEF Execute, At
<1>1. CASE kind = "probe" /\ ~EndpointHolds BY <1>1, RefusingKeeps
<1>2. CASE ~(kind = "probe" /\ ~EndpointHolds)
  <2>1. /\ snapshot' = Answer /\ contacts' = contacts \cup {i}
        /\ pc' = (IF kind = "probe" THEN "return" ELSE "verify")
        /\ UNCHANGED <<i, reports, returned>>
        /\ kind' = kind /\ endpoint' = endpoint /\ plan' = plan
    BY <1>2 DEF Session, ProviderWorld
  <2>2. AnswersFit'
    <3>1. AnswerFits(Answer) BY AnswerHolds
    <3> QED BY <2>1, <3>1 DEF AnswersFit, AnswerFits
  <2>3. MayAsk(i) /\ SessionIsAdmitted BY DEF ReadInv, AskedFirst, AdmittedFirst
  <2>4. RouteOf' BY <2>1 DEF RouteOf
  <2>5. /\ \A k \in contacts \cup attested : Permitted(plan[k])
        /\ \A k \in contacts : kind = "audited" => k \in audit
        /\ kind = "audited" => attested = {} /\ attested \subseteq DOMAIN plan
        /\ i \in DOMAIN bound /\ (kind = "direct" => DOMAIN bound = DOMAIN plan)
    BY DEF ReadInv, ReadTypes, AskedFirst
  <2>6. attested \subseteq DOMAIN plan BY DEF ReadInv, ReadTypes
  <2> QED BY <2>1, <2>2, <2>3, <2>4, <2>5, <2>6, GoingOnKeeps DEF ReadSteps, MayAsk
<1> QED BY <1>1, <1>2

LEMMA CallFailsKeeps == ASSUME ReadAssumption, ReadInv, CallFails PROVE ReadInv'
BY RefusingKeeps DEF CallFails

LEMMA VerifyKeeps == ASSUME ReadAssumption, ReadInv, Verify PROVE ReadInv'
<1> USE DEF Verify, At
<1>1. CASE RefuseRead BY <1>1, RefusingKeeps
<1>2. CASE ~RefuseRead
  <2>1. /\ Answer.body = snapshot.body /\ observed' = Answer /\ snapshot' = snapshot
        /\ pc = "verify" /\ pc' = "return" /\ UNCHANGED <<i, reports, returned>>
        /\ kind' = kind /\ endpoint' = endpoint /\ plan' = plan
    BY <1>2 DEF Session, ProviderWorld
  <2>2. AnswersFit'
    <3>1. AnswerFits(Answer) /\ AnswerFits(snapshot) BY <2>1, AnswerHolds DEF ReadInv, AnswersFit
    <3> QED BY <2>1, <3>1 DEF AnswersFit, AnswerFits
  <2>3. MayAsk(i) /\ SessionIsAdmitted BY DEF ReadInv, AskedFirst, AdmittedFirst
  <2>4. RouteOf' BY <2>1 DEF RouteOf
  <2>5. /\ \A k \in contacts \cup attested : Permitted(plan[k])
        /\ \A k \in contacts : kind = "audited" => k \in audit
        /\ kind = "audited" => attested = {}
        /\ i \in DOMAIN bound /\ (kind = "direct" => DOMAIN bound = DOMAIN plan)
    BY DEF ReadInv, AskedFirst
  <2>6. attested \subseteq DOMAIN plan BY DEF ReadInv, ReadTypes
  <2> QED BY <2>1, <2>2, <2>3, <2>4, <2>5, <2>6, GoingOnKeeps DEF ReadSteps, MayAsk
<1> QED BY <1>1, <1>2

\* The copy sanitize_provider_mapping makes shows what the rule of its binding permits.
LEMMA SanitizedIsPermitted ==
    ASSUME ReadAssumption, policy \in Policies, PolicyValid(policy), NEW a, a.limit \in Nat,
           NEW r \in Preflight(a), NEW c \in Contents, NEW b, b = Bind(a, r),
           ~Sanitize(c, b).none
    PROVE  ShownIsPermitted(a, Sanitize(c, b).shown)
<1> DEFINE shown == [k \in DOMAIN c.items |-> Project(c.items[k], b)]
<1>1. /\ r \in Permits(a) /\ r \in policy.rules /\ r.maxItems \in Int /\ ShapeAllowed(r, a)
  BY PreflightPermits
<1>2. /\ b.action = a /\ b.rule = r /\ b.limit = IF a.limit > 0 THEN a.limit ELSE r.maxItems
  BY DEF Bind
<1>3. /\ EnvelopeFits(c, b) /\ LimitsHold(c, b) /\ Sanitize(c, b).shown = shown
  BY DEF Sanitize, NoResult
<1>4. Len(shown) = Len(c.items) /\ Len(c.items) \in Nat
  <2>1. IsList(c.items) BY DEF ReadAssumption
  <2>2. shown = [k \in DOMAIN c.items |-> shown[k]] OBVIOUS
  <2> HIDE DEF shown
  <2> QED BY <2>1, <2>2, ListMaps, ListIs
<1>5. r.maxItems > 0 BY <1>1 DEF PolicyValid, RuleValid
<1>6. Len(shown) <= (IF Definition(a).list THEN a.limit ELSE 1) /\ Len(shown) <= r.maxItems
  <2>1. CASE Definition(a).list
    <3>1. Len(c.items) <= b.limit BY <1>2, <1>3, <2>1 DEF LimitsHold
    <3>2. a.limit > 0 /\ a.limit <= r.maxItems BY <1>1, <2>1 DEF ShapeAllowed
    <3> HIDE DEF shown
    <3> QED BY <1>1, <1>2, <1>4, <2>1, <3>1, <3>2
  <2>2. CASE ~Definition(a).list
    <3>1. Len(c.items) = 1 BY <1>2, <1>3, <2>2 DEF EnvelopeFits
    <3> HIDE DEF shown
    <3> QED BY <1>1, <1>4, <1>5, <2>2, <3>1
  <2> QED BY <2>1, <2>2
<1>7. Wild \in r.allowed \/ (a.fields \subseteq r.allowed /\ a.fields # {})
  BY <1>1 DEF ShapeAllowed
<1>8. ASSUME NEW n \in DOMAIN shown, NEW leaf \in shown[n]
      PROVE  /\ a.fields # {} => leaf[1][1] \in Requested(a.fields)
             /\ NamesOf(leaf[1]) \cap Reserved = {}
             /\ NamesOf(leaf[1]) \cap (Secrets \cup r.redacted) # {} => leaf[2] = "redacted"
  <2>1. leaf \in Project(c.items[n], b) BY <1>8
  <2>2. PICK path : /\ leaf = <<path, ShownAs(path, b)>>
                    /\ NamesOf(path) \cap Reserved = {}
                    /\ a.fields = {} \/ path[1] \in Requested(a.fields)
    BY <1>2, <2>1 DEF Project
  <2>3. NamesOf(path) \cap (Secrets \cup r.redacted) # {} => ShownAs(path, b) = "redacted"
    BY <1>2 DEF ShownAs, Redacted
  <2> QED BY <2>2, <2>3
<1> HIDE DEF shown
<1> QED BY <1>1, <1>3, <1>6, <1>7, <1>8 DEF ShownIsPermitted

LEMMA ProbeIsPermitted ==
    ASSUME ReadAssumption, policy \in Policies, PolicyValid(policy), NEW a, a.limit \in Nat,
           NEW r \in Preflight(a)
    PROVE  ShownIsPermitted(a, ProbeResult.shown)
<1>1. r \in Permits(a) /\ r \in policy.rules /\ r.maxItems \in Int BY PreflightPermits
<1>2. r.maxItems > 0 BY <1>1 DEF PolicyValid, RuleValid
<1>3. ProbeResult.shown = <<>> /\ Len(<<>>) = 0 /\ DOMAIN <<>> = {} BY DEF ProbeResult
<1> QED BY <1>1, <1>2, <1>3 DEF ShownIsPermitted

\* A rule that returns sensitive content is of the audited route.
LEMMA SensitiveIsRecorded ==
    ASSUME ReadAssumption, policy \in Policies, PolicyValid(policy), NEW a,
           NEW r \in Preflight(a), a.cls \in High
    PROVE  kind = "audited"
<1>1. /\ r \in Permits(a) /\ r \in policy.rules /\ Matches(r, policy, a, Route) BY PreflightPermits
<1>2. r.handling # "deny" BY <1>1 DEF Permits
<1>3. a.cls \in r.cls /\ Route \in r.routes BY <1>1 DEF Matches
<1>4. r.routes = {"audited"} BY <1>1, <1>2, <1>3 DEF PolicyValid, RuleValid
<1> QED BY <1>3, <1>4 DEF Route

LEMMA ReturnKeeps == ASSUME ReadAssumption, ReadInv, Return PROVE ReadInv'
<1> USE DEF Return, At
<1> DEFINE b == bound[i]
           res == IF kind = "probe" THEN ProbeResult ELSE Sanitize(snapshot.body, b)
           rec == [result |-> res, raw |-> snapshot, seen |-> observed, binding |-> b]
<1>1. CASE RefuseRead BY <1>1, RefusingKeeps
<1>2. CASE ~RefuseRead
  <2>1. /\ pc = "return" /\ Report(rec) /\ Bindings(plan[i]) = {b}
        /\ kind # "probe" => ~Sanitize(snapshot.body, b).none
        /\ contacts' = contacts /\ attested' = attested
    BY <1>2
  <2>2. EndpointHolds /\ \E r \in Preflight(plan[i]) : b = Bind(plan[i], r)
    <3> HIDE DEF b
    <3> QED BY <2>1 DEF Bindings
  <2>3. PICK r \in Preflight(plan[i]) : b = Bind(plan[i], r) BY <2>2
  <2>4. /\ policy \in Policies /\ i \in DOMAIN plan /\ plan[i].limit \in Nat
        /\ SessionIsAdmitted /\ PolicyValid(policy) /\ MayAsk(i)
    BY <2>1 DEF ReadInv, ReadTypes, PlanTypes, InStep, AdmittedFirst, AskedFirst, SessionIsAdmitted
  <2>5. /\ snapshot.body \in Contents /\ snapshot.from = "bound"
        /\ kind # "probe" => observed.from = "bound" /\ observed.body = snapshot.body
    BY <2>1, <2>2 DEF ReadInv, AnswersFit, AnswerFits, EndpointHolds
  <2>6. b.endpoint = "bound" BY <2>2, <2>3 DEF Bind, ConnectorDigests, EndpointHolds
  <2>7. ShownIsPermitted(plan[i], res.shown)
    <3>1. CASE kind = "probe" BY <2>3, <2>4, <3>1, ProbeIsPermitted
    <3>2. CASE kind # "probe"
      <4> HIDE DEF b
      <4> QED BY <2>1, <2>3, <2>4, <2>5, <3>2, SanitizedIsPermitted
    <3> QED BY <3>1, <3>2
  <2>8. plan[i].cls \in High => kind = "audited" /\ i \in audit
    BY <2>3, <2>4, SensitiveIsRecorded DEF MayAsk
  <2> HIDE DEF b, res
  <2>9. ReportHolds(rec, i) BY <2>5, <2>6, <2>7, <2>8 DEF ReportHolds
  <2>10. "result" \in DOMAIN rec OBVIOUS
  <2> HIDE DEF rec
  <2> QED BY <2>1, <2>9, <2>10, EndingKeeps
<1> QED BY <1>1, <1>2

LEMMA ProvidersMoveKeeps == ASSUME ReadAssumption, ReadInv, Edit \/ EndpointDrifts PROVE ReadInv'
<1>1. /\ UNCHANGED <<pc, i, bound, snapshot, observed, audit, reports, returned, contacts, attested>>
      /\ kind' = kind /\ policy' = policy /\ gov' = gov /\ plan' = plan
      /\ edits' \in 0 .. MaxEdits /\ pc # "done"
      /\ endpoint' \in {endpoint, "other"}
  BY DEF ReadInv, ReadTypes, ReadAssumption, Edit, EndpointDrifts, Session
<1>2. content' \in [{plan[k].cap : k \in DOMAIN plan} -> Contents]
  <2> DEFINE caps == {plan[k].cap : k \in DOMAIN plan}
  <2>1. content \in [caps -> Contents] BY DEF ReadInv, ReadTypes
  <2> HIDE DEF caps
  <2>2. content' \in [caps -> Contents] BY <2>1 DEF Edit, EndpointDrifts
  <2> QED BY <2>2 DEF caps
<1>3. InStep' /\ ReportsHold' BY <1>1, StayKeeps DEF ReadInv, Session
<1>4. ReadTypes' BY <1>1, <1>2 DEF ReadInv, ReadTypes, ReadSteps, PlanTypes
<1>5. RouteOf' /\ AnswersFit' BY <1>1 DEF ReadInv, ReadTypes, RouteOf, AnswersFit, AnswerFits
<1>6. /\ SessionIsAdmitted' <=> SessionIsAdmitted
      /\ \A a : Permitted(a)' <=> Permitted(a)
  BY <1>1, SameSession
<1>7. AdmittedFirst' /\ AskedFirst' BY <1>1, <1>6 DEF ReadInv, AdmittedFirst, AskedFirst, MayAsk
<1> QED BY <1>3, <1>4, <1>5, <1>7 DEF ReadInv

LEMMA StutterReads == ASSUME ReadInv, UNCHANGED readVars PROVE ReadInv'
<1>1. /\ UNCHANGED <<pc, i, bound, snapshot, observed, audit, reports, returned, contacts, attested>>
      /\ kind' = kind /\ policy' = policy /\ gov' = gov /\ plan' = plan
      /\ edits' = edits /\ endpoint' = endpoint /\ content' = content
  BY DEF readVars
<1>2. /\ SessionIsAdmitted' <=> SessionIsAdmitted
      /\ \A a : Permitted(a)' <=> Permitted(a)
  BY <1>1, SameSession
<1>3. ReportsHold' BY <1>1, SameReports DEF ReadInv, ReportsHold, Session
<1>4. InStep' /\ ReadTypes' BY <1>1 DEF ReadInv, InStep, ReadTypes, ReadSteps, PlanTypes
<1>5. RouteOf' /\ AnswersFit' BY <1>1 DEF ReadInv, RouteOf, AnswersFit, AnswerFits
<1>6. AdmittedFirst' /\ AskedFirst' BY <1>1, <1>2 DEF ReadInv, AdmittedFirst, AskedFirst, MayAsk
<1> QED BY <1>3, <1>4, <1>5, <1>6 DEF ReadInv

LEMMA ReadInvIsEnough == ASSUME ReadInv PROVE EgressIsPermitted
<1>0. /\ DOMAIN reports = 1 .. Len(reports) /\ DOMAIN plan = 1 .. Len(plan)
      /\ Len(reports) \in Nat /\ Len(plan) \in Nat
  BY ListIs DEF ReadInv, InStep, ReadTypes, PlanTypes
<1>1. EgressTypeOK
  <2>1. i \in 1 .. Len(plan) /\ Len(reports) \in {i - 1, i} BY <1>0 DEF ReadInv, InStep
  <2>2. \A l, m \in Nat : \A n : n \in 1 .. l /\ m \in {n - 1, n} => m <= l OBVIOUS
  <2>3. Len(reports) <= Len(plan) BY <1>0, <2>1, <2>2, Zenon
  <2> QED BY <1>0, <2>1, <2>3 DEF ReadInv, ReadTypes, ReadSteps, AskedFirst, EgressTypeOK
<1>2. AskedIsPermitted
  BY DEF ReadInv, AdmittedFirst, AskedFirst, SessionIsAdmitted, Permitted, AskedIsPermitted
<1>3. returned = <<>> \/ returned = reports BY DEF ReadInv, InStep
<1>4. \A k \in DOMAIN returned : "result" \in DOMAIN returned[k] => ReportHolds(returned[k], k)
  BY <1>3 DEF ReadInv, ReportsHold
<1>5. ReturnedIsPermitted BY <1>4 DEF ReturnedIsPermitted, ReportHolds, ShownIsPermitted
<1>6. SensitiveIsAudited BY <1>4 DEF SensitiveIsAudited, ReportHolds
<1>7. ReturnedIsVerified BY <1>4 DEF ReturnedIsVerified, ReportHolds
<1>8. WholeReport BY DEF ReadInv, InStep, ReportsHold, WholeReport
<1>9. ClassIsChosen BY DEF ReadInv, AdmittedFirst, SessionIsAdmitted, ClassIsChosen
<1> QED BY <1>1, <1>2, <1>5, <1>6, <1>7, <1>8, <1>9 DEF EgressIsPermitted

\* Whatever policies, plans and answers there are, and however the providers' content and the
\* connector's endpoint change during a session: a provider is asked, and an account identified,
\* only where the policy permits the read and its shape; what is returned is what the one rule
\* above all others that match permits, verified and, where it is sensitive, recorded
\* (provider_egress.py, direct_read.py, discovery.py and the read branch of orchestrator.py).
THEOREM EgressStaysPermitted ==
    ASSUME ReadAssumption
    PROVE  ReadSpec => []EgressIsPermitted
<1>1. ReadInit => ReadInv BY InitIsRead
<1>2. ReadInv /\ [ReadNext]_readVars => ReadInv'
  BY PreflightDirectKeeps, AttestAccountKeeps, BindDirectKeeps, BeginKeeps, AuthorizeKeeps, ExecuteKeeps,
     CallFailsKeeps, VerifyKeeps, ReturnKeeps, ProvidersMoveKeeps, StutterReads
  DEF ReadNext
<1>3. ReadInv => EgressIsPermitted BY ReadInvIsEnough
<1> QED BY <1>1, <1>2, <1>3, PTL DEF ReadSpec
=============================================================================
