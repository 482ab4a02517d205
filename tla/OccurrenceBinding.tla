-------------------------- MODULE OccurrenceBinding --------------------------
(***************************************************************************)
(* From a registered weekly workflow to an applied occurrence:             *)
(* `recurring-bind` (master_agent/cli.py) captures the registration, the   *)
(* configuration files, time zone rules, roots and runtime one after the   *)
(* other, publishes an artifact and registers it in the claim store;       *)
(* `recurring-inspect` shows it; `recurring-run --apply` and               *)
(* `recurring-reconcile` authenticate it (master_agent/                    *)
(* recurring_occurrence.py) while people edit what it was bound to.        *)
(***************************************************************************)
EXTENDS Naturals, FiniteSets, Sequences

CONSTANTS
    Binders,         \* recurring-bind processes
    Appliers,        \* recurring-run --apply processes
    Reconcilers,     \* operators who repeat recurring-reconcile
    Names,           \* file names in occurrence_root
    Plans,           \* bound plans; the one in WidePlans needs a wide scope
    WidePlans,
    Instants,        \* wall times a binder may ask for
    Scheduled,       \* the ones the weekly schedule names
    Lateness,        \* max_lateness_minutes
    ResumeWindow,    \* approval_resume_minutes
    ReservationLease, \* lease of a reservation
    None,
    Edited,          \* the inputs people edit
    MaxClock, MaxEdits, MaxKills, MaxReplaced  \* bounds

Jobs == Appliers \cup Reconcilers

\* What the constants are.
BindingAssumption ==
    /\ Scheduled \subseteq Instants /\ Instants \subseteq Nat \ {0}
    /\ Lateness \in Nat /\ ResumeWindow \in Nat /\ Lateness <= ResumeWindow
    /\ ReservationLease \in Nat \ {0} /\ MaxClock \in Nat
    /\ Appliers \cap Reconcilers = {}
    /\ WidePlans \subseteq Plans
    /\ Edited \subseteq {"reg", "config", "zone", "roots", "runtime"}

VARIABLES
    clock,
    world,     \* what the registration and the machine are now
    files,     \* occurrence_root: artifact, "torn" contents or nothing
    rows,      \* recurring_occurrences: instant -> registered row
    binder,    \* binder -> step, request, captured inputs
    job,       \* job -> step, artifact in memory, position in the checks
    reviewed,  \* artifacts recurring-inspect has shown
    since,     \* observation: values each input had since the checks began
    granted,   \* observation: artifacts that were authenticated and reserved
    spent      \* bounded counts of edits, kills and replaced files

bindingVars == <<clock, world, files, rows, binder, job, reviewed, since, granted, spent>>

-----------------------------------------------------------------------------
(* The inputs an occurrence is bound to.  "reg" is the workflow's table in *)
(* recurring.toml, "config" the digests of the configuration files.        *)
Inputs == {"reg", "config", "zone", "roots", "runtime"}
Values(i) == IF i = "reg" THEN {"wide", "narrow", "revoked"} ELSE {0, 1}

Torn == [torn |-> TRUE]
NoArtifact == [torn |-> FALSE]

(* A RecurringOccurrence: created_at is different in every bind. *)
Artifact == [created : Binders, at : Instants, plan : Plans, reg : Values("reg"),
             config : {0, 1}, zone : {0, 1}, roots : {0, 1}, runtime : {0, 1}]

(* execution_key: it namespaces every write's idempotency key and every    *)
(* local output name of the occurrence.                                    *)
ExecutionKey(a) == <<a.reg, a.config, a.at, a.plan>>

(* The whole window of an occurrence follows from its instant. *)
NotBefore(a) == a.at
ExpiresAt(a) == a.at + Lateness
ResumeDeadlineOf(a) == a.at + ResumeWindow

(* WeeklySchedule.scheduled_at_or_before, 0 when nothing was due yet. *)
ScheduledAtOrBefore(t) ==
    LET due == {s \in Scheduled : s <= t}
    IN IF due = {} THEN 0 ELSE CHOOSE s \in due : \A u \in due : u <= s

BindingInit ==
    /\ clock = 0
    /\ world = [i \in Inputs |-> IF i = "reg" THEN "wide" ELSE 0]
    /\ files = [n \in Names |-> NoArtifact]
    /\ rows = [s \in Instants |-> [art |-> NoArtifact, status |-> "UNBOUND",
                                  holder |-> None, lease |-> 0]]
    /\ binder = [b \in Binders |->
                   [pc |-> "idle", name |-> None, art |-> NoArtifact, next |-> 0]]
    /\ job = [j \in Jobs |->
                [pc |-> "idle", name |-> None, art |-> NoArtifact, next |-> 0]]
    /\ reviewed = {}
    /\ since = [j \in Jobs |-> [i \in Inputs |-> {}]]
    /\ granted = {}
    /\ spent = [edits |-> 0, kills |-> 0, replaced |-> 0]

-----------------------------------------------------------------------------
(* recurring-bind.                                                         *)

Enabled(reg) == reg # "revoked"

(* _validate_plan_scope: capabilities, sources and recipients of every     *)
(* action are registered.                                                  *)
PlanInScope(p, reg) == p \in WidePlans => reg = "wide"

(* The configuration and the plan are loaded and compared.  The requested  *)
(* wall time need not be one of the schedule's.                            *)
BindStart(b) ==
    /\ binder[b].pc = "idle"
    /\ \E n \in Names, s \in Instants, p \in Plans :
         LET a == [created |-> b, at |-> s, plan |-> p, reg |-> world["reg"],
                   config |-> 0, zone |-> 0, roots |-> 0, runtime |-> 0]
         IN binder' = [binder EXCEPT ![b] =
              IF Enabled(a.reg) /\ PlanInScope(p, a.reg)
              THEN [pc |-> "capture", name |-> n, art |-> a, next |-> 1]
              ELSE [@ EXCEPT !.pc = "refused"]]
    /\ UNCHANGED <<clock, world, files, rows, job, reviewed, since, granted, spent>>

(* registration_snapshot, timezone_identity, _capture_root_identities and  *)
(* current_runtime_identity read in this order.                            *)
CaptureOrder == <<"config", "zone", "roots", "runtime">>

BindCapture(b) ==
    /\ binder[b].pc = "capture"
    /\ LET i == CaptureOrder[binder[b].next]
       IN binder' = [binder EXCEPT
            ![b].art = [@ EXCEPT ![i] = world[i]],
            ![b].next = @ + 1,
            ![b].pc = IF binder[b].next = Len(CaptureOrder) THEN "publish" ELSE @]
    /\ UNCHANGED <<clock, world, files, rows, job, reviewed, since, granted, spent>>

(* _validate_bound_roots reads the roots again; write_restricted_json      *)
(* never replaces a name.                                                  *)
BindPublish(b) ==
    /\ binder[b].pc = "publish"
    /\ IF world["roots"] = binder[b].art.roots /\ files[binder[b].name] = NoArtifact
       THEN /\ files' = [files EXCEPT ![binder[b].name] = binder[b].art]
            /\ binder' = [binder EXCEPT ![b].pc = "register"]
       ELSE /\ binder' = [binder EXCEPT ![b].pc = "refused"]
            /\ UNCHANGED files
    /\ UNCHANGED <<clock, world, rows, job, reviewed, since, granted, spent>>

(* The INSERT of register_occurrence_artifact. *)
RegisterArtifact(s, a) ==
    /\ rows[s].status = "UNBOUND"
    /\ rows' = [rows EXCEPT ![s].art = a, ![s].status = "BOUND"]

(* register_occurrence_artifact: every artifact has its own created_at, so *)
(* an occupied row always holds a different one.                           *)
BindRegister(b) ==
    /\ binder[b].pc = "register"
    /\ LET a == binder[b].art
       IN \/ /\ RegisterArtifact(a.at, a)
             /\ binder' = [binder EXCEPT ![b].pc = "bound"]
          \/ /\ rows[a.at].status # "UNBOUND"
             /\ binder' = [binder EXCEPT ![b].pc = "refused"]
             /\ UNCHANGED rows
    /\ UNCHANGED <<clock, world, files, job, reviewed, since, granted, spent>>

(* The binder is killed; while it publishes, its file may be half written. *)
BindKilled(b) ==
    /\ binder[b].pc \in {"capture", "publish", "register"}
    /\ spent.kills < MaxKills
    /\ spent' = [spent EXCEPT !.kills = @ + 1]
    /\ binder' = [binder EXCEPT ![b].pc = "killed"]
    /\ \/ UNCHANGED files
       \/ /\ binder[b].pc = "publish" /\ files[binder[b].name] = NoArtifact
          /\ files' = [files EXCEPT ![binder[b].name] = Torn]
    /\ UNCHANGED <<clock, world, rows, job, reviewed, since, granted>>

-----------------------------------------------------------------------------
(* People: they edit what occurrences are bound to, and move, restore or   *)
(* edit artifact files (a self-consistent edit recomputes the digests).    *)
EditInput(i) ==
    /\ spent.edits < MaxEdits
    /\ spent' = [spent EXCEPT !.edits = @ + 1]
    /\ \E v \in Values(i) \ {world[i]} : world' = [world EXCEPT ![i] = v]
    /\ since' = [j \in Jobs |-> IF job[j].pc \in {"check", "time", "store", "run", "guard"}
                             THEN [since[j] EXCEPT ![i] = @ \cup {world'[i]}]
                             ELSE since[j]]
    /\ UNCHANGED <<clock, files, rows, binder, job, reviewed, granted>>

ReplaceFile(n) ==
    /\ spent.replaced < MaxReplaced
    /\ spent' = [spent EXCEPT !.replaced = @ + 1]
    /\ \E m \in Names, p \in Plans :
         /\ files[m] \notin {NoArtifact, Torn}
         /\ files' = [files EXCEPT ![n] = [files[m] EXCEPT !.plan = p]]
         /\ files' # files
    /\ UNCHANGED <<clock, world, rows, binder, job, reviewed, since, granted>>

(* recurring-inspect and the dry run: load_occurrence and the summary. *)
Inspect(n) ==
    /\ files[n] \notin {NoArtifact, Torn}
    /\ reviewed' = reviewed \cup {files[n]}
    /\ UNCHANGED <<clock, world, files, rows, binder, job, since, granted, spent>>

ClockTicks ==
    /\ clock < MaxClock
    /\ clock' = clock + 1
    /\ UNCHANGED <<world, files, rows, binder, job, reviewed, since, granted, spent>>

-----------------------------------------------------------------------------
(* Loading and authenticating.                                             *)

(* An applier runs once; an operator reconciles again after a refusal. *)
Refuse(j) ==
    job' = [job EXCEPT ![j] =
      [pc |-> IF j \in Reconcilers THEN "idle" ELSE "refused", name |-> None,
       art |-> NoArtifact, next |-> 0]]

(* _require_occurrence_fingerprint: recurring-reconcile demands the         *)
(* fingerprint a reviewer saw; recurring-run may be started without one    *)
(* and then takes any artifact.                                            *)
ExpectedFingerprint(j, a) == j \in Reconcilers => a \in reviewed

(* load_occurrence: a torn or non-canonical file does not parse. *)
LoadOccurrence(j) ==
    /\ job[j].pc = "idle"
    /\ \E n \in Names :
         /\ files[n] \notin {NoArtifact, Torn}
         /\ ExpectedFingerprint(j, files[n])
         /\ job' = [job EXCEPT ![j] =
              [pc |-> "check", name |-> n, art |-> files[n], next |-> 1]]
         /\ since' = [since EXCEPT ![j] = [i \in Inputs |-> {world[i]}]]
    /\ UNCHANGED <<clock, world, files, rows, binder, reviewed, granted, spent>>

(* The order in which authenticate_occurrence reads. *)
CheckOrder == <<"reg", "config", "zone", "runtime", "roots">>

(* One comparison of the machine with the artifact. *)
Matches(i, a) == world[i] = a[i] /\ (i = "reg" => Enabled(world[i]))

CheckInput(j) ==
    /\ job[j].pc = "check"
    /\ IF Matches(CheckOrder[job[j].next], job[j].art)
       THEN job' = [job EXCEPT ![j].next = @ + 1,
                      ![j].pc = IF job[j].next = Len(CheckOrder) THEN "time" ELSE @]
       ELSE Refuse(j)
    /\ UNCHANGED <<clock, world, files, rows, binder, reviewed, since, granted, spent>>

(* The window, and for an apply the latest-only catch-up. *)
InTime(j, a) ==
    /\ NotBefore(a) <= clock
    /\ IF j \in Reconcilers THEN clock <= ResumeDeadlineOf(a)
       ELSE clock <= ExpiresAt(a) /\ ScheduledAtOrBefore(clock) = a.at

CheckTime(j) ==
    /\ job[j].pc = "time"
    /\ IF InTime(j, job[j].art)
       THEN job' = [job EXCEPT ![j].pc = "store"]
       ELSE Refuse(j)
    /\ UNCHANGED <<clock, world, files, rows, binder, reviewed, since, granted, spent>>

(* authenticate_occurrence_artifact. *)
Registered(a) == rows[a.at].art = a

(* authenticate_occurrence_artifact, then reserve_occurrence. *)
Reserve(j) ==
    /\ job[j].pc = "store" /\ j \in Appliers
    /\ LET a == job[j].art
       IN IF Registered(a) /\ rows[a.at].status \in {"BOUND", "RECOVERABLE"}
          THEN /\ rows' = [rows EXCEPT ![a.at].status = "RUNNING",
                            ![a.at].holder = j, ![a.at].lease = clock + ReservationLease]
               /\ job' = [job EXCEPT ![j].pc = "run"]
               /\ granted' = granted \cup {a}
               /\ since' = [since EXCEPT ![j] = [i \in Inputs |-> {world[i]}]]
          ELSE Refuse(j) /\ UNCHANGED <<rows, granted, since>>
    /\ UNCHANGED <<clock, world, files, binder, reviewed, spent>>

(* The run has loaded everything it needs and claims its action in the     *)
(* ledger; the guard comes after the claim.                                *)
ClaimAction(j) ==
    /\ job[j].pc = "run"
    /\ job' = [job EXCEPT ![j].pc = "guard", ![j].next = 1]
    /\ UNCHANGED <<clock, world, files, rows, binder, reviewed, since, granted, spent>>

(* pre_effect_guard: recurring.toml, the configuration digests and the     *)
(* runtime are read again, then the deadline and the fence.                *)
GuardOrder == <<"reg", "config", "runtime">>

FenceHolds(j, a) ==
    rows[a.at].status = "RUNNING" /\ rows[a.at].holder = j /\ clock < rows[a.at].lease

(* Faulty variant: the guard only checks the fence. *)
GuardFenceOnly(j) ==
    /\ job[j].pc = "guard"
    /\ job' = [job EXCEPT ![j].pc = IF FenceHolds(j, job[j].art) THEN "effect" ELSE "close"]
    /\ UNCHANGED <<clock, world, files, rows, binder, reviewed, since, granted, spent>>

Guard(j) ==
    /\ job[j].pc = "guard"
    /\ LET a == job[j].art
           k == job[j].next
       IN job' = [job EXCEPT ![j] =
            IF k <= Len(GuardOrder)
            THEN IF Matches(GuardOrder[k], a) THEN [@ EXCEPT !.next = k + 1]
                 ELSE [@ EXCEPT !.pc = "close"]
            ELSE [@ EXCEPT !.pc = IF clock <= ResumeDeadlineOf(a) /\ FenceHolds(j, a)
                                  THEN "effect" ELSE "close"]]
    /\ UNCHANGED <<clock, world, files, rows, binder, reviewed, since, granted, spent>>

(* What the attempt certifies.  A run that fails before its claim has had  *)
(* no effect.  A refused guard leaves an indeterminate claim, and after    *)
(* an effect the report is a success or not; but a registration that has   *)
(* changed by then raises before the status is chosen, and the handler     *)
(* only asks whether an effect was started.                                *)
Certified(j) ==
    LET a == job[j].art
        unmoved == world["reg"] = a.reg /\ world["config"] = a.config
    IN CASE job[j].pc = "run" -> {"FAILED_PRE_EFFECT"}
         [] job[j].pc = "close" -> IF unmoved THEN {"INDETERMINATE"} ELSE {"FAILED_PRE_EFFECT"}
         [] job[j].pc = "effect" -> IF unmoved THEN {"SUCCEEDED", "INDETERMINATE"}
                                    ELSE {"INDETERMINATE"}

(* observe_report and finalize_occurrence; the effect itself is one of the *)
(* Orchestrator's.                                                         *)
Close(j) ==
    /\ job[j].pc \in {"run", "effect", "close"}
    /\ LET s == job[j].art.at
       IN \E st \in Certified(j) :
            rows' = IF rows[s].status = "RUNNING" /\ rows[s].holder = j
                    THEN [rows EXCEPT ![s].holder = None, ![s].lease = 0, ![s].status = st]
                    ELSE rows
    /\ job' = [job EXCEPT ![j].pc = "done"]
    /\ UNCHANGED <<clock, world, files, binder, reviewed, since, granted, spent>>

ApplyKilled(j) ==
    /\ job[j].pc \in {"run", "guard", "close", "effect"} /\ spent.kills < MaxKills
    /\ spent' = [spent EXCEPT !.kills = @ + 1]
    /\ job' = [job EXCEPT ![j].pc = CASE @ = "run" -> "killed"
                                      [] @ = "effect" -> "killed_at_effect"
                                      [] OTHER -> "killed_at_guard"]
    /\ UNCHANGED <<clock, world, files, rows, binder, reviewed, since, granted>>

(* What the ledger says of an attempt: nothing was claimed, a claim is     *)
(* uncertain, or an effect was made, whose outcome may be recorded.        *)
LedgerSays(j) ==
    CASE job[j].pc \in {"run", "killed"} -> {"RECOVERABLE"}
      [] job[j].pc \in {"effect", "killed_at_effect"} -> {"RECOVERABLE", "INDETERMINATE"}
      [] OTHER -> {"INDETERMINATE"}

(* recurring-reconcile of an attempt whose lease is over. *)
Reconcile(j) ==
    /\ job[j].pc = "store" /\ j \in Reconcilers
    /\ LET s == job[j].art.at
       IN IF /\ Registered(job[j].art)
             /\ rows[s].status = "RUNNING" /\ rows[s].lease <= clock
          THEN \E st \in LedgerSays(rows[s].holder) :
                 rows' = [rows EXCEPT ![s].holder = None, ![s].lease = 0, ![s].status = st]
          ELSE UNCHANGED rows
    /\ Refuse(j)
    /\ UNCHANGED <<clock, world, files, binder, reviewed, since, granted, spent>>

BindStep(b) ==
    BindStart(b) \/ BindCapture(b) \/ BindPublish(b) \/ BindRegister(b)

JobStep(j) ==
    \/ LoadOccurrence(j) \/ CheckInput(j) \/ CheckTime(j)
    \/ Reserve(j) \/ ClaimAction(j) \/ Guard(j) \/ Close(j) \/ Reconcile(j)

BindingNext ==
    \/ ClockTicks
    \/ \E b \in Binders : BindStep(b) \/ BindKilled(b)
    \/ \E i \in Edited : EditInput(i)
    \/ \E n \in Names : ReplaceFile(n) \/ Inspect(n)
    \/ \E j \in Jobs : JobStep(j) \/ ApplyKilled(j)

BindingSpec == BindingInit /\ [][BindingNext]_bindingVars

(* Time passes, started commands are not suspended for ever, and the       *)
(* operator keeps reconciling.                                             *)
FairBindingSpec ==
    /\ BindingSpec
    /\ WF_bindingVars(ClockTicks)
    /\ \A j \in Jobs : WF_bindingVars(JobStep(j))

-----------------------------------------------------------------------------
RowStatus == {"UNBOUND", "BOUND", "RUNNING", "SUCCEEDED", "FAILED_PRE_EFFECT",
              "RECOVERABLE", "INDETERMINATE"}

(* Every variable keeps the shape the code gives it. *)
BindingTypeOK ==
    /\ clock \in 0..MaxClock
    /\ \A i \in Inputs : world[i] \in Values(i)
    /\ files \in [Names -> Artifact \cup {Torn, NoArtifact}]
    /\ \A s \in Instants : /\ rows[s].art \in Artifact \cup {NoArtifact}
                           /\ rows[s].status \in RowStatus
                           /\ rows[s].holder \in Appliers \cup {None}
    /\ reviewed \subseteq Artifact /\ granted \subseteq Artifact

(* Attempts of one occurrence always work under one execution key and      *)
(* attempts of different occurrences never do, whatever was bound, bound   *)
(* again after a change of the registration, replaced or recovered in      *)
(* between: a retry is suppressed by its own effects and by no one else's  *)
(* (_scope_effect_idempotency, register_occurrence_artifact).              *)
KeysAreOwn ==
    \A a, b \in granted : (a.at = b.at) <=> (ExecutionKey(a) = ExecutionKey(b))

(* What runs was bound by recurring-bind from a plan inside the scope of   *)
(* a registration that was still the current one, enabled, while it was    *)
(* being checked; an edited, copied or unregistered artifact never runs.   *)
GrantedIsBound ==
    \A a \in granted :
      /\ PlanInScope(a.plan, a.reg)
      /\ Enabled(a.reg)
      /\ binder[a.created].pc = "bound" /\ binder[a.created].art = a

(* An occurrence that runs is one of the weekly schedule, though bind      *)
(* accepts any wall time.                                                  *)
GrantedIsScheduled == \A a \in granted : a.at \in Scheduled

(* At the effect, every input the guard reads had its bound value at some  *)
(* moment since the occurrence was reserved: a change that lasted from     *)
(* before the reservation is always noticed.                               *)
EffectIsCurrent ==
    \A j \in Appliers : job[j].pc = "effect" =>
      \A k \in 1..Len(GuardOrder) :
        job[j].art[GuardOrder[k]] \in since[j][GuardOrder[k]]

(* At the reservation, each of the five inputs had its bound value at some *)
(* moment since the artifact was loaded.                                   *)
CheckedIsCurrent ==
    \A j \in Jobs : job[j].pc = "store" =>
      \A i \in Inputs : job[j].art[i] \in since[j][i]

\* What runs as an occurrence, started with an expected fingerprint or
\* without one, was bound by recurring-bind from a plan inside the scope of a
\* registration that was current while it was checked, and is one of the
\* weekly schedule; each input had its bound value at some moment between the
\* load of the artifact and the reservation, and those the guard reads again
\* between the reservation and the effect. Attempts of one occurrence share an
\* execution key and attempts of different ones never do, whatever was bound
\* again, replaced or recovered in between (_scope_effect_idempotency,
\* authenticate_occurrence, pre_effect_guard of cli._recurring_apply).
GrantsAreCurrent ==
    /\ BindingTypeOK /\ KeysAreOwn /\ GrantedIsBound /\ GrantedIsScheduled
    /\ CheckedIsCurrent /\ EffectIsCurrent

RunningNow(s) == rows[s].status = "RUNNING"
OutOfReach(s) ==
    \/ rows[s].art \notin {files[n] : n \in Names} \cap reviewed
    \/ \E i \in Inputs : world[i] # rows[s].art[i]
    \/ rows[s].lease > ResumeDeadlineOf(rows[s].art)
    \/ clock > ResumeDeadlineOf(rows[s].art)

(* An occurrence whose attempt was killed does not stay RUNNING: if its    *)
(* lease ends before the resume deadline, the deadline is not over and     *)
(* nothing it was bound to has changed, an operator who keeps reconciling  *)
(* settles it.                                                             *)
KilledIsSettled == \A s \in Instants : RunningNow(s) ~> (~RunningNow(s) \/ OutOfReach(s))

(* MA-RECURRING-001 and architecture.md: an expired attempt is reconciled  *)
(* from its audit state.                                                   *)
ExpiredIsReconciled ==
    \A s \in Instants :
      (rows[s].status = "RUNNING") ~>
        \/ rows[s].status # "RUNNING"
        \/ rows[s].art \notin {files[n] : n \in Names} \cap reviewed
        \/ \E i \in Inputs : world[i] # rows[s].art[i]
=============================================================================
