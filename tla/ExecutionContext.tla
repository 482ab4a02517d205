-------------------------- MODULE ExecutionContext --------------------------
(***************************************************************************)
(* The approval-bound execution context (master_agent/execution_context.py,*)
(* config.py, connectors/factory.py, and bind-context and run --apply of   *)
(* cli.py).  bind-context captures where each connector goes, whom its     *)
(* credential speaks for and which directory objects a run writes; the     *)
(* captured context is part of the plan people approve.  run --apply       *)
(* captures everything again, one input after the other, while files,      *)
(* directories, credential stores and logins change under it.              *)
(***************************************************************************)
EXTENDS Naturals, Sequences, SequencesExt

CONSTANTS
    Systems,     \* selected connectors, in the order they are captured
    AuthOf,      \* system -> "basic" or "attested" (the provider is asked)
    SourceOf,    \* system -> "environment", "file" or "native"
    Roots,       \* names of writable runtime directories, in order
    RootChoices, \* directories a command may select: [Roots -> locations]
    Origins,     \* provider origins an environment can name
    People,      \* principals, with their scopes
    None,
    MaxDrifts, MaxRuns   \* bounds

\* What the constants are.
ContextAssumption ==
    /\ Systems \in Seq(ToSet(Systems)) /\ IsInjective(Systems)
    /\ Roots \in Seq(ToSet(Roots)) /\ IsInjective(Roots)
    /\ AuthOf \in [ToSet(Systems) -> {"basic", "attested"}]
    /\ SourceOf \in [ToSet(Systems) -> {"environment", "file", "native"}]
    /\ Origins # {} /\ People # {} /\ RootChoices # {}
    /\ None \notin People
    /\ MaxDrifts \in Nat /\ MaxRuns \in Nat

S == ToSet(Systems)
Locations == UNION {ToSet([i \in 1..Len(Roots) |-> c[Roots[i]]]) : c \in RootChoices}

VARIABLES
    conf,      \* version of the configuration files
    ca,        \* system -> version of its CA bundle file
    token,     \* attested system -> principal of the token in its token file
    store,     \* system -> user name kept in the credential store
    dir,       \* location -> the directory object there
    approved,  \* the execution context of the approved plan, or None
    proc,      \* the running command
    sent,      \* observation: credentials an applied run sent to an endpoint
    performed, \* observation: effects of applied runs
    atGate,    \* observation: inputs as they were when the second gate began
    drifts, runs

world == <<conf, ca, token, store, dir>>
contextVars == <<conf, ca, token, store, dir, approved, proc, sent, performed, atGate, drifts, runs>>

(* The environment the operator binds in. *)
Home == CHOOSE o \in Origins : TRUE
Owner == CHOOSE p \in People : TRUE
BoundRoots == CHOOSE c \in RootChoices : TRUE
BindEnvironment ==
    [origin |-> [s \in S |-> Home],
     user |-> [s \in S |-> IF SourceOf[s] = "environment" THEN Owner ELSE None],
     roots |-> BoundRoots]

NoCapture == [target |-> None, credential |-> None, principal |-> None]
NoRun == [mode |-> None, pc |-> "ended", env |-> BindEnvironment, conf |-> 0,
         user |-> [s \in S |-> None], at |-> 0,
         got |-> [s \in S |-> NoCapture],
         pins |-> [r \in ToSet(Roots) |-> 0], opened |-> [r \in ToSet(Roots) |-> 0],
         bound |-> [r \in ToSet(Roots) |-> 0], outcome |-> None]

ContextInit ==
    /\ conf = 1 /\ ca = [s \in S |-> 1]
    /\ token = [s \in S |-> Owner] /\ store = [s \in S |-> Owner]
    /\ dir = [l \in Locations |-> 1]
    /\ approved = None /\ proc = NoRun
    /\ sent = {} /\ performed = {} /\ atGate = None
    /\ drifts = 0 /\ runs = 0

(* What other people and programs change, for good: configuration, trust   *)
(* bundle, the login in a token file, the stored user, a directory.        *)
Drift ==
    /\ drifts < MaxDrifts
    /\ drifts' = drifts + 1
    /\ \/ conf' = conf + 1 /\ UNCHANGED <<ca, token, store, dir>>
       \/ \E s \in S : ca' = [ca EXCEPT ![s] = @ + 1] /\ UNCHANGED <<conf, token, store, dir>>
       \/ \E s \in S, p \in People :
            /\ AuthOf[s] = "attested" /\ p # token[s]
            /\ token' = [token EXCEPT ![s] = p] /\ UNCHANGED <<conf, ca, store, dir>>
       \/ \E s \in S, p \in People :
            /\ AuthOf[s] = "basic" /\ SourceOf[s] # "environment" /\ p # store[s]
            /\ store' = [store EXCEPT ![s] = p] /\ UNCHANGED <<conf, ca, token, dir>>
       \/ \E l \in Locations : dir' = [dir EXCEPT ![l] = @ + 1] /\ UNCHANGED <<conf, ca, token, store>>
    /\ UNCHANGED <<approved, proc, sent, performed, atGate, runs>>

-----------------------------------------------------------------------------
(* Ends of a command.  The two exit stacks close every pin they own.       *)

Released == [r \in ToSet(Roots) |-> 0]

(* Pins captured before the failing one, closed by the capture itself.     *)
ClosedOnFailure == Released

Fail(why) == proc' = [proc EXCEPT !.pc = "ended", !.outcome = why,
                                  !.pins = IF proc.pc = "paths" THEN ClosedOnFailure ELSE Released,
                                  !.opened = Released]

GoTo(pc) == proc' = [proc EXCEPT !.pc = pc, !.at = 1]
Applied == proc.mode = "apply"
Quiet == UNCHANGED <<world, approved, sent, performed, atGate, drifts, runs>>

(* bind-context, once. *)
BindContext ==
    /\ approved = None /\ proc.pc = "ended" /\ proc.mode = None
    /\ proc' = [NoRun EXCEPT !.mode = "bind", !.pc = "credentials", !.conf = conf, !.at = 1]
    /\ Quiet

(* run --apply of the approved plan, in an environment of its own.  The    *)
(* configuration is captured and compared before any credential is read.   *)
RunApply(origin, user, roots) ==
    /\ approved # None /\ proc.pc = "ended" /\ runs < MaxRuns
    /\ runs' = runs + 1
    /\ LET env == [origin |-> origin, user |-> user, roots |-> roots]
       IN  proc' = [NoRun EXCEPT !.mode = "apply", !.env = env, !.conf = conf, !.at = 1,
                                !.pc = IF conf = approved.conf THEN "credentials" ELSE "ended",
                                !.outcome = IF conf = approved.conf THEN None ELSE "refused"]
    /\ UNCHANGED <<world, approved, sent, performed, atGate, drifts>>

(* _load_credential_store and _credential_environment: a name in both the  *)
(* file and the environment is refused, a native store hides the ambient   *)
(* name.  The stores are read once.                                        *)
Collides(s) == SourceOf[s] = "file" /\ AuthOf[s] = "basic" /\ proc.env.user[s] # None
LoadCredentials ==
    /\ proc.pc = "credentials"
    /\ IF \E s \in S : Collides(s) THEN Fail("refused")
       ELSE proc' = [proc EXCEPT !.pc = "paths", !.at = 1,
                                 !.user = [s \in S |-> IF SourceOf[s] = "environment"
                                                       THEN proc.env.user[s] ELSE store[s]]]
    /\ Quiet

-----------------------------------------------------------------------------
(* Runtime directories.                                                    *)

Root == Roots[proc.at]
There(r) == dir[proc.env.roots[r]]

(* _capture_runtime_path pins what the path leads to now;                  *)
(* _capture_approved_runtime_path pins the approved object at the approved *)
(* path or fails.                                                          *)
PathAdmitted(r) ==
    Applied => /\ proc.env.roots[r] = approved.paths[r].path
               /\ There(r) = approved.paths[r].object
CapturePath ==
    /\ proc.pc = "paths" /\ proc.at <= Len(Roots)
    /\ IF PathAdmitted(Root)
       THEN proc' = [proc EXCEPT !.pins[Root] = There(Root), !.bound[Root] = There(Root), !.at = @ + 1]
       ELSE Fail("refused")
    /\ Quiet

(* bind-context keeps the identities and closes the pins, run --apply      *)
(* keeps the pins.                                                         *)
PathsCaptured ==
    /\ proc.pc = "paths" /\ proc.at = Len(Roots) + 1
    /\ proc' = [proc EXCEPT !.pc = "target", !.at = 1,
                            !.pins = IF Applied THEN @ ELSE Released]
    /\ Quiet

-----------------------------------------------------------------------------
(* Connectors: target, then credential, then principal, one system at a    *)
(* time.                                                                   *)

Sys == Systems[proc.at]
TargetNow(s, configuration) ==
    [origin |-> proc.env.origin[s], ca |-> ca[s], conf |-> configuration]

(* _verify_approved_connector_target, and for a connector whose flow fixes *)
(* the principal _verify_approved_connector_credential_identity.           *)
TargetApproved(s, target) == target = approved.connectors[s].target

IdentityApproved(s, users) ==
    AuthOf[s] = "basic" => users[s] = approved.connectors[s].principal

CaptureTarget ==
    /\ proc.pc = "target" /\ proc.at <= Len(Systems)
    /\ LET target == TargetNow(Sys, proc.conf)
       IN  IF Applied => TargetApproved(Sys, target) /\ IdentityApproved(Sys, proc.user)
           THEN proc' = [proc EXCEPT !.pc = "credential", !.got[Sys].target = target]
           ELSE Fail("refused")
    /\ Quiet

(* config.resolve and _pin_resolved_authentication: the token is read once *)
(* and that value is what attestation and every later request use.  A      *)
(* missing user name is refused.                                           *)
ResolveCredential ==
    /\ proc.pc = "credential"
    /\ LET credential == IF AuthOf[Sys] = "basic" THEN proc.user[Sys] ELSE token[Sys]
       IN  IF credential = None THEN Fail("refused")
           ELSE proc' = [proc EXCEPT !.pc = "attest", !.got[Sys].credential = credential]
    /\ Quiet

NextSystem(principal) ==
    proc' = [proc EXCEPT !.pc = "target", !.at = @ + 1, !.got[Sys].principal = principal]

(* _credential_attestation: the provider names the token's principal, over *)
(* the captured target; a fixed flow names its own.                        *)
Attest ==
    /\ proc.pc = "attest"
    /\ NextSystem(proc.got[Sys].credential)
    /\ sent' = IF Applied /\ AuthOf[Sys] = "attested"
               THEN sent \cup {[system |-> Sys, target |-> proc.got[Sys].target]} ELSE sent
    /\ UNCHANGED <<world, approved, performed, atGate, drifts, runs>>
AttestFails ==
    /\ proc.pc = "attest" /\ AuthOf[Sys] = "attested"
    /\ sent' = IF Applied THEN sent \cup {[system |-> Sys, target |-> proc.got[Sys].target]} ELSE sent
    /\ Fail("provider")
    /\ UNCHANGED <<world, approved, performed, atGate, drifts, runs>>

(* build_execution_context. *)
Context ==
    [conf |-> proc.conf,
     paths |-> [r \in ToSet(Roots) |-> [path |-> proc.env.roots[r], object |-> proc.bound[r]]],
     connectors |-> [s \in S |-> [target |-> proc.got[s].target, principal |-> proc.got[s].principal]]]

(* The bound plan is written; people approve exactly it.                   *)
WriteBoundPlan ==
    /\ proc.pc = "target" /\ proc.at = Len(Systems) + 1 /\ ~Applied
    /\ approved' = Context
    /\ proc' = [proc EXCEPT !.pc = "ended", !.outcome = "ok"]
    /\ UNCHANGED <<world, sent, performed, atGate, drifts, runs>>

-----------------------------------------------------------------------------
(* run --apply, after the captures.                                        *)

(* enforce_execution_context. *)
Enforce ==
    /\ proc.pc = "target" /\ proc.at = Len(Systems) + 1 /\ Applied
    /\ IF Context = approved THEN GoTo("open") ELSE Fail("refused")
    /\ Quiet

Stands(r) == There(r) = proc.pins[r]

(* CapturedRuntimePath.open_target: an owned duplicate of the pin.         *)
Duplicate(r) == proc.pins[r]
OpenTarget ==
    /\ proc.pc = "open" /\ proc.at <= Len(Roots)
    /\ IF Stands(Root)
       THEN proc' = [proc EXCEPT !.opened[Root] = Duplicate(Root), !.at = @ + 1]
       ELSE Fail("refused")
    /\ Quiet

(* _verify_supplied_captured_executions and                                *)
(* _verify_approved_execution_context: connectors are built from the       *)
(* captured targets and credentials.                                       *)
BuildRegistry ==
    /\ proc.pc = "open" /\ proc.at = Len(Roots) + 1
    /\ IF /\ \A r \in ToSet(Roots) : Stands(r)
          /\ \A s \in S : /\ proc.got[s].target.conf = proc.conf
                          /\ Context.connectors[s] = approved.connectors[s]
       THEN /\ GoTo("gate") /\ atGate' = [conf |-> conf, ca |-> ca]
       ELSE Fail("refused") /\ UNCHANGED atGate
    /\ UNCHANGED <<world, approved, sent, performed, drifts, runs>>

(* The second gate: configuration first (one read of the files) ...        *)
Gate ==
    /\ proc.pc = "gate"
    /\ IF conf = approved.conf THEN GoTo("recapture") ELSE Fail("refused")
    /\ Quiet

(* ... then each target and fixed principal again, from os.environ.        *)
Recapture ==
    /\ proc.pc = "recapture" /\ proc.at <= Len(Systems)
    /\ IF TargetApproved(Sys, TargetNow(Sys, approved.conf)) /\ IdentityApproved(Sys, proc.env.user)
       THEN proc' = [proc EXCEPT !.at = @ + 1] ELSE Fail("refused")
    /\ Quiet
Recaptured ==
    /\ proc.pc = "recapture" /\ proc.at = Len(Systems) + 1
    /\ GoTo("validate") /\ Quiet
ValidatePins ==
    /\ proc.pc = "validate"
    /\ IF \A r \in ToSet(Roots) : Stands(r) THEN GoTo("run") ELSE Fail("refused")
    /\ Quiet

\* Faulty variant: a token provider asked again for every request.
FreshCredential(s) == IF AuthOf[s] = "basic" THEN proc.got[s].credential ELSE token[s]
(* What a connector built from the captured execution authenticates with.  *)
RequestCredential(s) == proc.got[s].credential

(* Where an artifact, audit row or result goes: through the duplicated pin.*)
WriteRoot(r) == proc.opened[r]

(* One provider effect and the artifact it leaves.                         *)
Effect ==
    /\ proc.pc = "run" /\ proc.at <= Len(Systems)
    /\ performed' = performed \cup {[system |-> Sys, target |-> proc.got[Sys].target,
                                 principal |-> RequestCredential(Sys),
                                 roots |-> [r \in ToSet(Roots) |-> WriteRoot(r)], seen |-> atGate]}
    /\ sent' = sent \cup {[system |-> Sys, target |-> proc.got[Sys].target]}
    /\ proc' = [proc EXCEPT !.at = @ + 1]
    /\ UNCHANGED <<world, approved, atGate, drifts, runs>>

(* The exit stacks close pins and duplicates.                              *)
FinishRun ==
    /\ proc.pc = "run" /\ proc.at = Len(Systems) + 1
    /\ Fail("ok")
    /\ Quiet

ContextStep ==
    \/ LoadCredentials \/ CapturePath \/ PathsCaptured
    \/ CaptureTarget \/ ResolveCredential \/ Attest \/ AttestFails \/ WriteBoundPlan
    \/ Enforce \/ OpenTarget \/ BuildRegistry
    \/ Gate \/ Recapture \/ Recaptured \/ ValidatePins \/ Effect \/ FinishRun

ContextNext ==
    \/ Drift \/ BindContext \/ ContextStep
    \/ \E origin \in [S -> Origins], user \in [S -> People \cup {None}], roots \in RootChoices :
         RunApply(origin, user, roots)

ContextSpec == ContextInit /\ [][ContextNext]_contextVars

(* A command that is running goes on: nothing in it waits for another      *)
(* process, and provider requests are bounded by a timeout.                *)
FairContextSpec == ContextSpec /\ WF_contextVars(ContextStep)

-----------------------------------------------------------------------------
(* Types; a command that has ended holds no directory pin, whichever step  *)
(* failed.                                                                 *)
ContextTypeOK ==
    /\ conf \in Nat /\ ca \in [S -> Nat] /\ dir \in [Locations -> Nat]
    /\ token \in [S -> People] /\ store \in [S -> People]
    /\ proc.mode \in {None, "bind", "apply"}
    /\ proc.pc \in {"ended", "credentials", "paths", "target", "credential", "attest", "open",
                    "gate", "recapture", "validate", "run"}
    /\ proc.outcome \in {None, "ok", "refused", "provider"}
    /\ proc.pc = "ended" => proc.pins = Released /\ proc.opened = Released

(* Every effect of an applied run reaches the approved origin under the    *)
(* approved trust and configuration, as the approved principal, although   *)
(* the login in the token file, the credential store or the environment    *)
(* change between binding, capture, attestation and use.                   *)
EffectUsesApproved ==
    \A e \in performed : /\ e.target = approved.connectors[e.system].target
                       /\ e.principal = approved.connectors[e.system].principal

(* An applied run sends no credential, not even to ask for its principal,  *)
(* to an endpoint other than the approved one.                             *)
SecretsGoWhereApproved ==
    \A m \in sent : m.target = approved.connectors[m.system].target

(* Artifacts, audit rows and results land in the approved directory        *)
(* objects, although the paths are moved at any moment.                    *)
WritesStayInApprovedObjects ==
    \A e \in performed : \A r \in ToSet(Roots) : e.roots[r] = approved.paths[r].object

(* A configuration file or trust bundle that was replaced before the       *)
(* connectors were built stops the run before its first effect.            *)
LateDriftStops ==
    \A e \in performed : /\ e.seen.conf = approved.conf
                       /\ \A s \in S : e.seen.ca[s] = approved.connectors[s].target.ca

\* A run of a bound plan acts in the context that was approved with it: its
\* effects reach the approved origin under the approved configuration as the
\* approved principal, no credential is sent to another endpoint, its files
\* land in the approved directory objects, and a configuration file or trust
\* bundle replaced before the connectors were built stops it before its first
\* effect. Logins, stores, environment, files and directories change between
\* binding, capture, gates and use (execution_context.py, cli.py).
ContextIsPinned ==
    /\ ContextTypeOK /\ EffectUsesApproved /\ SecretsGoWhereApproved
    /\ WritesStayInApprovedObjects /\ LateDriftStops

Drifted ==
    \/ drifts > 0
    \/ proc.env.origin # BindEnvironment.origin \/ proc.env.roots # BoundRoots
    \/ \E s \in S : AuthOf[s] = "basic" /\ proc.env.user[s] # BindEnvironment.user[s]
Applying == proc.mode = "apply" /\ proc.pc = "credentials"
Acted == proc.outcome \in {"ok", "provider"}

(* An applied run of the bound plan in the environment it was bound in,    *)
(* with nothing changed since, performs its effects: the captures and the  *)
(* second gate refuse drift only.                                          *)
UndriftedRunActs == Applying ~> (Drifted \/ Acted)
=============================================================================
