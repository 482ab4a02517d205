------------------------------ MODULE Operating ------------------------------
(***************************************************************************)
(* The commands setup, doctor and execute: operating.py and the part of    *)
(* cli.py that takes a plan from the installed organization profile to the *)
(* run that acts.  Each configuration file goes through a fixed sequence   *)
(* of contents (Contents), so that an edit never brings an old content     *)
(* back.  What the connectors, the approvals and the egress rules do in    *)
(* the run is in other modules.                                            *)
(***************************************************************************)
EXTENDS Integers, Sequences, FiniteSets

CONSTANTS Procs, Commands,   \* processes, and the commands they may run
          Plans,             \* sets of [cap, risk]
          Profiles, Packaged,   \* profiles, and the one the package installs
          Contents,          \* file -> sequence of contents
          Starts,            \* initial indices into Contents
          Installed,         \* capabilities with a runtime implementation
          RunIds, MaxTries,  \* run identifiers, and draws before giving up
          MaxEdits           \* bound of the model: edits by a person

VARIABLES profileFile,  \* the installed profile: [by, content]
          files,        \* file -> index of its content
          stateReady,   \* state_root and state_root/runs exist
          proc,         \* process -> its command
          runDir,       \* run identifier -> [owner, plan, bound]
          effects,      \* ghost: what was done, and under which inputs
          seen,         \* ghost: every [profile, files] that was on disk together
          report,       \* what the doctor told: the ready capabilities, per level
          touched,      \* ghost: a person changed the installed profile
          edits

opVars == <<profileFile, files, stateReady, proc, runDir, effects, seen, report, touched, edits>>

None == [none |-> TRUE]
Partial == [partial |-> TRUE]
Empty == [valid |-> TRUE, enabled |-> FALSE, feature |-> FALSE, endpoint |-> "placeholder", secret |-> "missing"]

Local == {"local"}
EmployeeRisks == {"read", "draft", "write", "message"}
Quiet == {"read", "draft"}

Idle == [cmd |-> "none", pc |-> "idle", plan |-> {}, profile |-> None, got |-> <<>>, applied |-> FALSE,
         k |-> 1, looks |-> 1, root |-> "none", tries |-> 0, existed |-> FALSE, approved |-> FALSE,
         whole |-> FALSE,   \* this setup wrote the profile it created to the end
         at |-> 0,          \* edits when its rollback looked
         took |-> None]     \* ghost: the file its rollback removed

OperatingInit ==
    /\ profileFile \in [by : {"person"}, content : Profiles \cup {None}]
    /\ files \in Starts /\ stateReady = FALSE
    /\ proc = [p \in Procs |-> Idle]
    /\ runDir = [r \in RunIds |-> [owner |-> "none", plan |-> {}, bound |-> None]]
    /\ effects = {} /\ report = None /\ touched = FALSE /\ edits = 0
    /\ seen = {[profile |-> profileFile.content, files |-> files]}

On(f) == Contents[f][files[f]]
Now == seen' = seen \cup {[profile |-> profileFile'.content, files |-> files']}
Go(p, rec) == proc' = [proc EXCEPT ![p] = rec]
Fail(p) == Go(p, [proc[p] EXCEPT !.pc = "failed"])
World == <<profileFile, files, stateReady, runDir, effects, seen, report, touched, edits>>

-----------------------------------------------------------------------------
(* What a profile admits.                                                   *)
\* The connector of a provider capability has an endpoint and a way to authenticate.
ProviderReady(authn, integ, unverified) ==
    /\ integ.enabled /\ integ.endpoint = "set"
    /\ \/ authn = "anonymous"
       \/ integ.secret = "present"
       \/ integ.secret = "token_file" /\ ~unverified

\* _definition_availability_issues: there are none
Available(c, def, profile, integ, blocked, unverified) ==
    /\ def.enabled /\ c \in Installed /\ c \notin blocked
    /\ profile.mode = "employee" => def.risk \in EmployeeRisks
    /\ (profile.mode = "employee" /\ profile.connectors = "mock") => def.authn \in Local
    /\ IF def.risk = "message" THEN profile.messages ELSE def.risk \in Quiet \/ profile.writes
    /\ \/ def.authn \in Local \/ profile.connectors = "mock"
       \/ ProviderReady(def.authn, integ, unverified)

\* configured_builtin_capabilities
Configured(c, def, profile, integ) ==
    \/ def.authn \in Local \/ profile.connectors = "mock"
    \/ /\ integ.enabled
       /\ def.risk \in Quiet \/ (integ.feature /\ IF def.risk = "message" THEN profile.messages ELSE profile.writes)

\* The governance rule of a capability lets it run: validate_action
Governed(gov, a) ==
    /\ gov.tier[a.cap] \notin {"none", "prohibited"}
    /\ gov.tier[a.cap] = "automatic" => a.risk \in Quiet

\* _operating_policy_blocked_capabilities
Blocked(profile, catalog, integ, withPolicy, pol, gov) ==
    {c \in profile.caps \cap DOMAIN catalog :
        \/ c \in Installed /\ ~Configured(c, catalog[c], profile, integ)
        \/ /\ withPolicy
           /\ \/ catalog[c].risk \in pol.prohibit
              \/ ~Governed(gov, [cap |-> c, risk |-> catalog[c].risk])}

\* catalog.validate_action
InCatalog(catalog, a) == a.cap \in DOMAIN catalog /\ catalog[a.cap].enabled /\ catalog[a.cap].risk = a.risk

\* require_operating_plan
Admits(profile, got, plan) ==
    LET catalog == got["capabilities"]
        blocked == Blocked(profile, catalog, got["integrations"], TRUE, got["policy"], got["governance"])
    IN \A a \in plan :
          /\ a.cap \in profile.caps /\ InCatalog(catalog, a)
          /\ Available(a.cap, catalog[a.cap], profile, got["integrations"], blocked, FALSE)

\* PolicyEngine.evaluate, before any approval
Decision(pol, gov, a) ==
    IF a.risk \in pol.prohibit THEN "deny"
    ELSE IF a.risk \in pol.require \/ gov.tier[a.cap] \in {"single", "dual"} THEN "pend"
    ELSE IF a.risk \in pol.auto THEN "permit" ELSE "pend"

\* _plan_requires_authenticated_approval
NeedsApproval(got, plan) ==
    \E a \in plan : Governed(got["governance"], a) /\ Decision(got["policy"], got["governance"], a) = "pend"

\* _require_operating_policy_preflight
PolicyPreflight(got, plan) ==
    \A a \in plan : /\ InCatalog(got["capabilities"], a) /\ Governed(got["governance"], a)
                    /\ Decision(got["policy"], got["governance"], a) # "deny"

\* _preflight_applied_provider_reads
ReadsPreflight(got, plan) ==
    \A a \in plan : (a.risk = "read" /\ got["capabilities"][a.cap].authn \notin Local) => got["governance"].model

-----------------------------------------------------------------------------
(* setup.                                                                   *)
Begin(p, cmd) ==
    /\ proc[p].pc = "idle" /\ cmd \in Commands
    /\ \E plan \in IF cmd = "execute" THEN Plans ELSE {{}} :
          Go(p, [Idle EXCEPT !.cmd = cmd, !.plan = plan,
                 !.pc = CASE cmd = "setup" -> "look" [] cmd = "execute" -> "profile" [] OTHER -> "doctor"])
    /\ UNCHANGED World

\* _setup: the existing profile is its own source, else the packaged one.
SetupLook(p) ==
    /\ proc[p].pc = "look" /\ UNCHANGED World
    /\ IF profileFile.content = Partial THEN Fail(p)
       ELSE Go(p, [proc[p] EXCEPT !.pc = "exists",
                   !.profile = IF profileFile.content = None THEN Packaged ELSE profileFile.content])

\* install_organization_profile: an existing file must have the bytes to install.
SetupExists(p) ==
    /\ proc[p].pc = "exists" /\ UNCHANGED World
    /\ IF profileFile.content \in {None, proc[p].profile}
       THEN Go(p, [proc[p] EXCEPT !.pc = "provision", !.existed = profileFile.content # None])
       ELSE Fail(p)

\* provision_organization_state
SetupProvision(p) ==
    /\ proc[p].pc = "provision" /\ stateReady' = TRUE
    /\ Go(p, [proc[p] EXCEPT !.pc = IF proc[p].existed THEN "confirm" ELSE "create"])
    /\ UNCHANGED <<profileFile, files, runDir, effects, seen, report, touched, edits>>

SetupConfirm(p) ==
    /\ proc[p].pc = "confirm" /\ UNCHANGED World
    /\ IF profileFile.content = proc[p].profile THEN Go(p, [proc[p] EXCEPT !.pc = "ready"]) ELSE Fail(p)

Place(p, content) ==
    /\ profileFile' = [by |-> p, content |-> content]
    /\ UNCHANGED <<files, stateReady, runDir, effects, report, touched, edits>> /\ Now

\* _install_private_file: O_CREAT | O_EXCL.  A failure before the file's identity
\* is known leaves the empty file behind.
SetupCreate(p) ==
    /\ proc[p].pc = "create"
    /\ IF profileFile.content = None
       THEN Place(p, Partial) /\ (Go(p, [proc[p] EXCEPT !.pc = "write"]) \/ Fail(p))
       ELSE /\ UNCHANGED World
            /\ IF profileFile.content = proc[p].profile THEN Go(p, [proc[p] EXCEPT !.pc = "ready"]) ELSE Fail(p)

\* The bytes go to the file that was opened, which may have lost its name.
SetupWrite(p) ==
    /\ proc[p].pc = "write"
    /\ IF profileFile.by = p THEN Place(p, proc[p].profile) ELSE UNCHANGED World
    /\ Go(p, [proc[p] EXCEPT !.pc = "check", !.whole = TRUE])
SetupWriteFails(p) == proc[p].pc = "write" /\ Go(p, [proc[p] EXCEPT !.pc = "undo"]) /\ UNCHANGED World

\* The name and the bytes are looked at again; that, the synchronisation of the
\* file and of its directory, and the comparison of the directory may fail.
SetupCheck(p) ==
    /\ proc[p].pc = "check" /\ UNCHANGED World
    /\ \/ /\ profileFile.by = p /\ profileFile.content = proc[p].profile
          /\ Go(p, [proc[p] EXCEPT !.pc = "ready"])
       \/ Go(p, [proc[p] EXCEPT !.pc = "undo"])

\* _unlink_private_file_if_owned: the look
SetupUndo(p) ==
    /\ proc[p].pc = "undo" /\ UNCHANGED World
    /\ IF profileFile.content # None /\ profileFile.by = p
       THEN Go(p, [proc[p] EXCEPT !.pc = "unlink", !.at = edits]) ELSE Fail(p)

\* ... and the removal of the name, whatever it names by then.
SetupUnlink(p) ==
    /\ proc[p].pc = "unlink"
    /\ Go(p, [proc[p] EXCEPT !.pc = "failed", !.took = profileFile.content])
    /\ profileFile' = [by |-> "none", content |-> None]
    /\ UNCHANGED <<files, stateReady, runDir, effects, report, touched, edits>> /\ Now

Setup(p) == \/ SetupLook(p) \/ SetupExists(p) \/ SetupProvision(p) \/ SetupConfirm(p) \/ SetupCreate(p)
            \/ SetupWrite(p) \/ SetupWriteFails(p) \/ SetupCheck(p) \/ SetupUndo(p) \/ SetupUnlink(p)

-----------------------------------------------------------------------------
(* execute.                                                                 *)
CaptureOrder == <<"capabilities", "policy", "governance", "sources", "evidence", "integrations">>
RecheckOrder == <<"policy", "sources", "capabilities", "governance", "evidence", "profile", "integrations">>

\* _capture_active_organization_profile
CaptureProfile(p) ==
    /\ proc[p].pc = "profile" /\ UNCHANGED World
    /\ IF profileFile.content \notin Profiles THEN Fail(p)
       ELSE LET me == [proc[p] EXCEPT !.profile = profileFile.content]
            IN Go(p, [me EXCEPT !.pc = "capture",
                      \* _eligible_direct_operating_read
                      !.applied = ~(/\ me.profile.connectors = "live"
                                    /\ \A a \in me.plan : a.risk = "read")])

\* _plan_requires_provider_integrations
NeedsProvider(catalog, plan) == \E a \in plan : a.cap \in DOMAIN catalog /\ catalog[a.cap].authn \notin Local

\* What a run uses of file f: nothing of the integrations when no provider is needed, nothing of
\* the identities and the retention rules in a direct read.
Uses(rec, f, content) ==
    CASE f = "integrations" /\ ~NeedsProvider(rec.got["capabilities"], rec.plan) -> Empty
      [] f = "evidence" /\ ~rec.applied -> [valid |-> TRUE]
      [] OTHER -> content

\* _capture_operating_execution_sources: one file after the other
Capture(p) ==
    /\ proc[p].pc = "capture" /\ UNCHANGED World
    /\ LET f == CaptureOrder[proc[p].k]
           content == Uses(proc[p], f, On(f))
           got == [g \in DOMAIN proc[p].got \cup {f} |-> IF g = f THEN content ELSE proc[p].got[g]]
       IN IF f # "capabilities" /\ ~content.valid THEN Fail(p)
          ELSE IF proc[p].k < Len(CaptureOrder) THEN Go(p, [proc[p] EXCEPT !.got = got, !.k = @ + 1])
          ELSE Go(p, [proc[p] EXCEPT !.got = got, !.k = 1, !.pc = "route"])

\* The read stays direct only where governance allows it and no approval is needed; otherwise
\* everything is captured again for the applied run.
Route(p) ==
    /\ proc[p].pc = "route" /\ UNCHANGED World
    /\ IF ~proc[p].applied /\ (~proc[p].got["governance"].direct \/ NeedsApproval(proc[p].got, proc[p].plan))
       THEN Go(p, [proc[p] EXCEPT !.applied = TRUE, !.got = <<>>, !.pc = "capture"])
       ELSE Go(p, [proc[p] EXCEPT !.pc = "validate"])

\* _execute_prepared_operating_plan, up to the allocation of the run
Validate(p) ==
    /\ proc[p].pc = "validate" /\ UNCHANGED World
    /\ LET me == proc[p]
       IN IF /\ Admits(me.profile, me.got, me.plan) /\ PolicyPreflight(me.got, me.plan)
             /\ me.applied => /\ ReadsPreflight(me.got, me.plan)
                              /\ NeedsApproval(me.got, me.plan) => me.profile.authorities = "valid"
          THEN Go(p, [me EXCEPT !.pc = IF me.applied THEN "allocate" ELSE "direct"])
          ELSE Fail(p)

Hold(p, id) ==
    /\ runDir' = [runDir EXCEPT ![id].owner = p] /\ stateReady' = TRUE
    /\ Go(p, [proc[p] EXCEPT !.root = id, !.pc = "plan"])
    /\ UNCHANGED <<profileFile, files, effects, seen, report, touched, edits>>

\* allocate_operating_run: the identifier is drawn again while its directory exists.
Allocate(p) ==
    /\ proc[p].pc = "allocate"
    /\ \E id \in RunIds :
          IF runDir[id].owner = "none" THEN Hold(p, id)
          ELSE /\ UNCHANGED World
               /\ IF proc[p].tries + 1 < MaxTries THEN Go(p, [proc[p] EXCEPT !.tries = @ + 1]) ELSE Fail(p)

WritePlan(p) ==
    /\ proc[p].pc = "plan"
    /\ runDir' = [runDir EXCEPT ![proc[p].root].plan = proc[p].plan]
    /\ Go(p, [proc[p] EXCEPT !.pc = "bind"])
    /\ UNCHANGED <<profileFile, files, stateReady, effects, seen, report, touched, edits>>

\* _require_organization_selection: the profile on disk is the one admitted, and still admits the plan.
Selected(p, plan) == profileFile.content = proc[p].profile /\ Admits(proc[p].profile, proc[p].got, plan)

\* _bind_context: the plan on disk is the admitted one; the bound plan names every input.
Bind(p) ==
    /\ proc[p].pc = "bind"
    /\ IF runDir[proc[p].root].plan = proc[p].plan /\ Selected(p, proc[p].plan)
       THEN /\ runDir' = [runDir EXCEPT ![proc[p].root].bound =
                             [plan |-> proc[p].plan, profile |-> proc[p].profile, got |-> proc[p].got]]
            /\ Go(p, [proc[p] EXCEPT !.pc = "load"])
            /\ UNCHANGED <<profileFile, files, stateReady, effects, seen, report, touched, edits>>
       ELSE Fail(p) /\ UNCHANGED World

\* The bound plan is loaded: its fingerprint is the one the run expects.
Load(p) ==
    /\ proc[p].pc = "load" /\ UNCHANGED World
    /\ Go(p, [proc[p] EXCEPT !.plan = runDir[proc[p].root].bound.plan, !.pc = "run"])

\* _run, up to the construction of the connectors
Run(p) ==
    /\ proc[p].pc = "run" /\ UNCHANGED World
    /\ IF /\ runDir[proc[p].root].bound.plan = proc[p].plan
          /\ Selected(p, proc[p].plan)
          \* _enforce_approved_configuration_inputs
          /\ runDir[proc[p].root].bound.got = proc[p].got
       THEN Go(p, [proc[p] EXCEPT !.pc = "recheck"]) ELSE Fail(p)

Current(p, f) == IF f = "profile" THEN profileFile.content = proc[p].profile
                 ELSE proc[p].got[f] = Uses(proc[p], f, On(f))

\* Every input was compared: once more in a resumed run, whose first look is at the files too.
NextLook(p) ==
    IF proc[p].k < Len(RecheckOrder) THEN Go(p, [proc[p] EXCEPT !.k = @ + 1])
    ELSE IF proc[p].looks > 1 THEN Go(p, [proc[p] EXCEPT !.k = 1, !.looks = @ - 1])
    ELSE Go(p, [proc[p] EXCEPT !.pc = "act"])

\* Faulty variant: the second look leaves the catalog out, which is parsed already.
RecheckSome(p) ==
    /\ proc[p].pc = "recheck" /\ UNCHANGED World
    /\ LET f == RecheckOrder[proc[p].k]
       IN IF f # "capabilities" /\ ~Current(p, f) THEN Fail(p) ELSE NextLook(p)

\* The second look at every input, after the connectors are built
Recheck(p) ==
    /\ proc[p].pc = "recheck" /\ UNCHANGED World
    /\ IF Current(p, RecheckOrder[proc[p].k]) THEN NextLook(p) ELSE Fail(p)

Done(p, acts, direct) ==
    effects' = effects \cup {[by |-> p, act |-> a, profile |-> proc[p].profile, got |-> proc[p].got,
                              direct |-> direct, root |-> proc[p].root, approved |-> proc[p].approved] : a \in acts}

\* The orchestrator: what policy permits is done, what needs approval waits for it in a request.
Act(p) ==
    /\ proc[p].pc = "act"
    /\ LET may(a) == /\ Governed(proc[p].got["governance"], a)
                     /\ Decision(proc[p].got["policy"], proc[p].got["governance"], a)
                           \in IF proc[p].approved THEN {"permit", "pend"} ELSE {"permit"}
           acts == {a \in proc[p].plan : may(a)}
       IN /\ Done(p, acts, FALSE)
          /\ Go(p, [proc[p] EXCEPT !.pc = IF acts = proc[p].plan \/ proc[p].approved \/ ~NeedsApproval(proc[p].got, proc[p].plan)
                                          THEN "ended"
                                          ELSE IF proc[p].profile.authorities = "valid" THEN "pending" ELSE "failed"])
    /\ UNCHANGED <<profileFile, files, stateReady, runDir, seen, report, touched, edits>>

\* _execute_approval_resume, once the request is signed: the profile and the bound plan are those
\* of the request, and the profile still admits the plan under the files as they are.
Resume(p) ==
    /\ proc[p].pc = "pending" /\ UNCHANGED World
    /\ LET fresh == [f \in DOMAIN proc[p].got |-> Uses(proc[p], f, On(f))]
       IN IF /\ profileFile.content = proc[p].profile
             /\ runDir[proc[p].root].bound.plan = proc[p].plan
             /\ fresh["integrations"].valid /\ fresh["policy"].valid /\ fresh["governance"].valid
             /\ Admits(proc[p].profile, fresh, proc[p].plan)
          THEN Go(p, [proc[p] EXCEPT !.pc = "recheck", !.k = 1, !.looks = 2, !.approved = TRUE])
          ELSE Fail(p)

\* _run_direct_read: no run directory, the plan is the one in memory
DirectRead(p) ==
    /\ proc[p].pc = "direct"
    /\ IF Selected(p, proc[p].plan)
       THEN /\ Done(p, proc[p].plan, TRUE) /\ Go(p, [proc[p] EXCEPT !.pc = "ended"])
            /\ UNCHANGED <<profileFile, files, stateReady, runDir, seen, report, touched, edits>>
       ELSE Fail(p) /\ UNCHANGED World

Execute(p) == \/ CaptureProfile(p) \/ Capture(p) \/ Route(p) \/ Validate(p) \/ Allocate(p) \/ WritePlan(p)
              \/ Bind(p) \/ Load(p) \/ Run(p) \/ Recheck(p) \/ Act(p) \/ Resume(p)
              \/ DirectRead(p)

-----------------------------------------------------------------------------
(* doctor: offline, and all of it read at one moment.                       *)
Level(risk) == IF risk \in Quiet THEN risk ELSE "effect"
OfLevel(catalog, profile, level) == {c \in profile.caps \cap DOMAIN catalog : Level(catalog[c].risk) = level}

\* _doctor_approval_required_read_capabilities
ApprovalReads(profile, catalog, pol, gov) ==
    LET reads == OfLevel(catalog, profile, "read")
    IN IF ~pol.valid \/ ~gov.valid THEN {}
       ELSE IF "read" \in pol.require \/ "read" \notin pol.auto THEN reads
       ELSE {c \in reads : gov.tier[c] \in {"single", "dual"}}

\* Reads that use the applied runtime, and so its state, identities and retention
AppliedReads(profile, catalog, pol, gov) ==
    ApprovalReads(profile, catalog, pol, gov)
      \cup IF gov.valid /\ ~gov.direct THEN OfLevel(catalog, profile, "read") ELSE {}

\* _doctor_readiness_catalog
ReadinessCatalog(catalog, applied) ==
    [c \in DOMAIN catalog |->
        IF c \in applied /\ catalog[c].authn = "anonymous" THEN [catalog[c] EXCEPT !.authn = "configured"]
        ELSE catalog[c]]

\* _apply_doctor_configuration_readiness, for an invalid file: which capabilities it touches
InvalidFileTouches(c, level, applied) ==
    \/ \E f \in {"policy", "governance", "sources"} : ~On(f).valid
    \/ ~On("evidence").valid /\ (level # "read" \/ c \in applied)

\* _apply_doctor_approval_readiness
ApprovalMissing(profile, c, level, approvalReads) ==
    profile.authorities # "valid" /\ (level = "effect" \/ (level = "read" /\ c \in approvalReads))

\* _doctor_assessment
Ready(profile) ==
    LET catalog == On("capabilities")
        pol == On("policy")
        gov == On("governance")
        integ == IF On("integrations").valid THEN On("integrations") ELSE Empty
        approvalReads == ApprovalReads(profile, catalog, pol, gov)
        applied == AppliedReads(profile, catalog, pol, gov)
        readiness == ReadinessCatalog(catalog, applied)
        gates == IF On("integrations").valid
                 THEN Blocked(profile, catalog, integ, FALSE, pol, gov) ELSE {}
        policyBlocks == IF pol.valid /\ gov.valid
                        THEN {c \in profile.caps \cap DOMAIN catalog :
                                 \/ c \in gates
                                 \/ catalog[c].risk \in pol.prohibit
                                 \/ ~Governed(gov, [cap |-> c, risk |-> catalog[c].risk])}
                        ELSE {}
    IN {c \in profile.caps \cap DOMAIN catalog :
          LET level == Level(catalog[c].risk)
          IN /\ Available(c, readiness[c], profile, integ, gates, TRUE)
             \* _offline_operating_state_issue
             /\ stateReady \/ (level = "read" /\ c \notin applied)
             /\ ~InvalidFileTouches(c, level, applied)
             /\ c \notin policyBlocks
             \* _apply_doctor_integrations_issue
             /\ On("integrations").valid \/ catalog[c].authn \in Local
             /\ ~ApprovalMissing(profile, c, level, approvalReads)}

Doctor(p) ==
    /\ proc[p].pc = "doctor" /\ Go(p, [proc[p] EXCEPT !.pc = "ended"])
    /\ report' = IF profileFile.content \in Profiles
                 THEN [profile |-> profileFile.content, files |-> files, ready |-> Ready(profileFile.content)]
                 ELSE None
    /\ UNCHANGED <<profileFile, files, stateReady, runDir, effects, seen, touched, edits>>

-----------------------------------------------------------------------------
(* What the processes do not control.                                       *)
Kill(p) ==
    /\ proc[p].pc \notin {"idle", "ready", "failed", "ended", "killed"}
    /\ Go(p, [proc[p] EXCEPT !.pc = "killed"]) /\ UNCHANGED World

EditFile(f) ==
    /\ files[f] < Len(Contents[f]) /\ files' = [files EXCEPT ![f] = @ + 1]
    /\ UNCHANGED <<profileFile, stateReady, proc, runDir, effects, report, touched>> /\ Now
EditProfile ==
    /\ touched' = TRUE
    /\ \E c \in {None} \cup (Profiles \ {s.profile : s \in seen}) :
          c # profileFile.content /\ profileFile' = [by |-> "person", content |-> c]
    /\ UNCHANGED <<files, stateReady, proc, runDir, effects, report>> /\ Now
EditPlan(id) ==
    /\ runDir[id].owner # "none"
    /\ \E plan \in Plans \ {runDir[id].plan} :
          runDir' = [runDir EXCEPT ![id].plan = plan]
    /\ UNCHANGED <<profileFile, files, stateReady, proc, effects, seen, report, touched>>
EditBound(id) ==
    /\ runDir[id].bound # None
    /\ \E plan \in Plans \ {runDir[id].bound.plan} : runDir' = [runDir EXCEPT ![id].bound.plan = plan]
    /\ UNCHANGED <<profileFile, files, stateReady, proc, effects, seen, report, touched>>
Edit ==
    /\ edits < MaxEdits /\ edits' = edits + 1
    /\ \/ \E f \in DOMAIN Contents : EditFile(f)
       \/ EditProfile
       \/ \E id \in RunIds : EditPlan(id) \/ EditBound(id)

OperatingNext ==
    \/ \E p \in Procs : \/ \E cmd \in {"setup", "execute", "doctor"} : Begin(p, cmd)
                        \/ Setup(p) \/ Execute(p) \/ Doctor(p) \/ Kill(p)
    \/ Edit
OperatingSpec == OperatingInit /\ [][OperatingNext]_opVars

-----------------------------------------------------------------------------
OperatingTypeOK ==
    /\ profileFile.content \in Profiles \cup {None, Partial} /\ profileFile.by \in Procs \cup {"person", "none"}
    /\ \A f \in DOMAIN Contents : files[f] \in DOMAIN Contents[f]
    /\ \A p \in Procs : /\ proc[p].k \in 1 .. Len(RecheckOrder) /\ proc[p].tries \in 0 .. MaxTries - 1
                        /\ proc[p].root # "none" => proc[p].root \in RunIds
    /\ stateReady \in BOOLEAN /\ edits \in 0 .. MaxEdits

(* What an applied run does, it does under a profile and configuration     *)
(* files that were all on disk at one moment, although it read them one    *)
(* after the other while a person was editing them (cli.py, the second     *)
(* look of _run).                                                          *)
OneConfiguration ==
    \A e \in effects : e.direct \/
        \E d \in seen : /\ d.profile = e.profile
                        /\ \A f \in DOMAIN Contents :
                              \/ e.got[f] = Contents[f][d.files[f]]
                              \/ f = "integrations" /\ e.got[f] = Empty

(* Whatever is done is on the profile's list, behind the profile's gates,  *)
(* of the risk the catalog gives it and within employee mode, also when    *)
(* the plan or the bound plan in the run directory was edited; an action   *)
(* that needs approval is not done, and a direct read only reads and       *)
(* leaves no run directory.                                                *)
EffectIsAdmitted ==
    \A e \in effects :
        /\ e.act.cap \in e.profile.caps
        /\ e.got["capabilities"][e.act.cap].risk = e.act.risk
        /\ e.act.risk = "message" => e.profile.messages
        /\ e.act.risk \in {"write", "admin"} => e.profile.writes
        /\ e.profile.mode = "employee" => e.act.risk # "admin"
        /\ e.act.risk \notin e.got["policy"].prohibit
        /\ e.act.risk \in e.got["policy"].require \/ e.got["governance"].tier[e.act.cap] # "automatic" => e.approved
        /\ e.direct => e.act.risk = "read" /\ e.got["governance"].direct /\ e.root = "none"

(* Two executions never work in one run directory: no database, result or  *)
(* artifact of one is another's (allocate_operating_run).                  *)
OneRunOneRoot ==
    \A p, q \in Procs : p # q /\ proc[p].root # "none" => proc[p].root # proc[q].root

(* Once a setup that wrote the profile has reported ready and nobody        *)
(* touched the profile, the profile is there, whole, with its state         *)
(* directories, in whatever order the steps of setups fall and wherever one *)
(* fails or is killed.  A setup that reported ready because it found the    *)
(* bytes in place can rely on them unless their writer, failing after the   *)
(* last byte, has removed them again (_install_private_file).               *)
ReadyStays ==
    \A p \in Procs : proc[p].pc = "ready" /\ ~touched =>
        /\ stateReady
        /\ \/ profileFile.content \in Profiles
           \/ ~proc[p].whole /\ \E q \in Procs : proc[q].whole /\ proc[q].took \in Profiles

OnlyOwnProfileTouchedStep ==
    (profileFile' # profileFile /\ edits' = edits) =>
       \/ profileFile.content = None
       \/ \E p \in Procs : /\ profileFile.by = p \/ (proc[p].pc = "unlink" /\ proc[p].at < edits)
                           /\ proc[p].pc \in {"write", "check", "undo", "unlink"}

(* A setup changes or removes only the file it created itself ("Remove     *)
(* only the exact private profile inode created by this call"), unless a   *)
(* person edited after its rollback had looked at the name and before the  *)
(* unlink (_unlink_private_file_if_owned).                                 *)
OnlyOwnProfileTouched == [][OnlyOwnProfileTouchedStep]_opVars

(* Every capability the doctor reports ready is one execute would admit on *)
(* the same files: the plan of that capability alone passes                *)
(* require_operating_plan and, for reads and effects, has the approval     *)
(* authorities it needs.                                                   *)
ReadyIsAdmitted ==
    report # None =>
        \A c \in report.ready :
            LET at(f) == Contents[f][report.files[f]]
                got == [f \in DOMAIN Contents |->
                           IF f = "integrations" /\ at("capabilities")[c].authn \in Local THEN Empty ELSE at(f)]
                plan == {[cap |-> c, risk |-> at("capabilities")[c].risk]}
            IN /\ \A f \in DOMAIN Contents \ {"capabilities", "evidence"} : got[f].valid
               /\ Admits(report.profile, got, plan)
               /\ (at("capabilities")[c].risk # "draft" /\ NeedsApproval(got, plan)) =>
                     report.profile.authorities = "valid"
=============================================================================
