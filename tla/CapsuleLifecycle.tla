-------------------------- MODULE CapsuleLifecycle --------------------------
(***************************************************************************)
(* One capability capsule version from custom-agent import to execution:   *)
(* capability_import.py (preview, quarantine), capsules.py (CapsuleStore,  *)
(* the signed manifest chain), capsule_promotion.py (promote, disable,     *)
(* revoke) and capsule_runtime.py (validation, activation, execution), as  *)
(* the capability-* commands of cli.py call them.                          *)
(*                                                                         *)
(* A manifest's digest covers its predecessor's, so "same last manifest"   *)
(* means "same chain": a process remembers the chain it read.  Signatures  *)
(* verify; authorities hold their roles.  Store operations run under the   *)
(* capsule's exclusive or shared lock and are single steps; a process that *)
(* dies inside a write leaves a torn file (the Windows backend, which      *)
(* publishes files whole, has fewer outcomes).                             *)
(***************************************************************************)
EXTENDS Integers, Sequences, FiniteSets, SequencesExt

CONSTANTS Importers, Promoters, Retirers, Runners,  \* processes by command
          Abilities,    \* the versions the source export may have
          MaxWorker,    \* bound on worker identities (upgrades of the runtime)
          MaxCrashes    \* bound on process deaths

Procs == Importers \cup Promoters \cup Retirers \cup Runners

\* What the constants are.
CapsuleAssumption ==
    /\ MaxWorker \in Nat \ {0}
    /\ MaxCrashes \in Nat
    /\ \A a \in Abilities :
          a \in [kind : {"capability", "reference", "agent", "skill"},
                 defects : SUBSET {"export", "spec", "authority", "contract", "license",
                                   "source", "deps", "impure", "tests"},
                 version : Nat]

VARIABLES
    source,   \* the custom-agent export on disk
    catalog,  \* TRUE: the catalog already defines the proposed capability
    worker,   \* identity_sha256 of the installed worker
    dir,      \* the capsule directory: absent, partial or installed
    bundle,   \* its artifacts, one of Abilities
    chain,    \* its manifests, in sequence order
    torn,     \* the last manifest file is incomplete
    proc,     \* the command each process is in
    crashes

vars == <<source, catalog, worker, dir, bundle, chain, torn, proc, crashes>>

Idle == [pc |-> "idle", seen |-> <<>>, digest |-> CHOOSE a \in Abilities : TRUE,
         worker |-> 0]

CapsuleInit ==
    /\ source \in Abilities
    /\ catalog = FALSE
    /\ worker = 1
    /\ dir = "absent"
    /\ bundle = CHOOSE a \in Abilities : TRUE
    /\ chain = <<>>
    /\ torn = FALSE
    /\ proc = [p \in Procs |-> Idle]
    /\ crashes = 0

-----------------------------------------------------------------------------
(* Decisions *)

\* _ALLOWED_TRANSITIONS
Ladder == <<"quarantined", "tested", "sandbox_validated", "reviewed", "published",
            "enabled", "deprecated">>
Rung(state) == CHOOSE i \in DOMAIN Ladder : Ladder[i] = state
AllowedTransitions(state) ==
    CASE state = "revoked"    -> {}
      [] state = "deprecated" -> {"revoked"}
      [] OTHER                -> {Ladder[Rung(state) + 1], "revoked"}

\* _load_package, _parse_ability and the constructors they call raise on these.
Parses(a) == a.defects \cap {"export", "spec"} = {}

\* validate_dependency_metadata under the license policy, and
\* validate_bundle_contracts: documents that agree with each other.
MetadataHolds(a) == "license" \notin a.defects
ContractsHold(a) == "contract" \notin a.defects

\* _static_source_rejection, made again by the worker before it runs a program.
StaticallySafe(a) == "source" \notin a.defects

\* The two lists of _classify_ability.
Unsafe(a) ==
    \/ "authority" \in a.defects
    \/ a.kind = "agent"
    \/ ~MetadataHolds(a) \/ ~ContractsHold(a) \/ ~StaticallySafe(a)
Unsupported(a) == a.defects \cap {"deps", "impure"} # {}

\* _classify_ability.
Classify(a) ==
    CASE Unsafe(a)            -> "unsafe"
      [] ~Unsafe(a) /\ a.kind = "reference" ->
            IF catalog THEN "already_supported" ELSE "unsupported"
      [] ~Unsafe(a) /\ a.kind = "skill" -> "unsupported"
      [] ~Unsafe(a) /\ a.kind = "capability" ->
            CASE catalog        -> "conflicting"
              [] ~catalog /\ Unsupported(a) -> "unsupported"
              [] OTHER          -> "safely_importable"

\* CapsuleValidator.validate: metadata, contracts, no dependency, and every
\* declared case replayed by the worker.
Validates(a) ==
    /\ MetadataHolds(a) /\ ContractsHold(a)
    /\ a.defects \cap {"deps", "source", "tests"} = {}

\* create_quarantined_manifest; evidence 0 is ZERO_SHA256.
Quarantined(w) == [state |-> "quarantined", worker |-> w, validation |-> 0, sandbox |-> 0]

\* advance_manifest: evidence is set once, by the transition it belongs to.
AdvanceManifest(m, target, evidence) ==
    [m EXCEPT !.state = target,
              !.validation = IF target = "tested" THEN evidence ELSE @,
              !.sandbox = IF target = "sandbox_validated" THEN evidence ELSE @]

\* Faulty variant: a repeated promotion starts from the first manifest again.
ExtendsFirst(m, seen) == ~torn /\ Len(seen) = 1 /\ chain = seen

\* append_manifest: under the lock, the chain still ends where it was read and
\* every file of it still parses.
Extends(m, seen) == ~torn /\ chain = seen /\ m.state \in AllowedTransitions(Last(chain).state)

-----------------------------------------------------------------------------
(* capability-import *)

\* Without --select: the operator sees the source and its digest.
Preview(p) ==
    /\ proc[p].pc = "idle"
    /\ Parses(source)
    /\ proc' = [proc EXCEPT ![p].pc = "previewed", ![p].digest = source]
    /\ UNCHANGED <<source, catalog, worker, dir, bundle, chain, torn, crashes>>

\* quarantine_selected_ability: the source is read and classified again.
SelectionHolds(p) ==
    /\ Parses(source)
    /\ source = proc[p].digest
    /\ Classify(source) = "safely_importable"

\* CapsuleStore.install: mkdir fails on an existing directory, whatever it
\* holds; the artifacts are written before the first manifest.
BeginInstall(p) ==
    /\ proc[p].pc = "previewed"
    /\ IF SelectionHolds(p) /\ dir = "absent"
       THEN /\ dir' = "partial"
            /\ bundle' = source
            /\ \E w \in 1..MaxWorker :   \* --worker-sha256, or the installed one
                  proc' = [proc EXCEPT ![p].pc = "installing", ![p].worker = w]
       ELSE proc' = [proc EXCEPT ![p] = Idle] /\ UNCHANGED <<dir, bundle>>
    /\ UNCHANGED <<source, catalog, worker, chain, torn, crashes>>

FinishInstall(p) ==
    /\ proc[p].pc = "installing"
    /\ dir' = "installed"
    /\ chain' = <<Quarantined(proc[p].worker)>>
    /\ proc' = [proc EXCEPT ![p] = Idle]
    /\ UNCHANGED <<source, catalog, worker, bundle, torn, crashes>>

-----------------------------------------------------------------------------
(* capability-promote *)

\* _current_capsule_manifest: the chain must parse and have a manifest.
Readable == chain # <<>> /\ ~torn
ReadCurrent(p) ==
    /\ proc[p].pc = "idle"
    /\ Readable
    /\ proc' = [proc EXCEPT ![p].pc = "read", ![p].seen = chain]
    /\ UNCHANGED <<source, catalog, worker, dir, bundle, chain, torn, crashes>>

\* Evidence names the worker that produced it: already-recorded evidence must
\* be the one a fresh validation produces.
EvidenceMatches(m) ==
    /\ m.worker = worker
    /\ m.validation \in {0, worker}
    /\ m.sandbox \in {0, worker}

\* promote_installed up to its loop: the service binds one worker identity, the
\* chain is read again and must still end in the selected manifest.
CheckPromotable(p) ==
    /\ proc[p].pc = "read"
    /\ IF /\ Readable /\ chain = proc[p].seen
          /\ Last(chain).state \notin {"deprecated", "revoked"}
          /\ EvidenceMatches(Last(chain))
          /\ Validates(bundle)
       THEN proc' = [proc EXCEPT ![p].pc = "promoting", ![p].worker = worker]
       ELSE proc' = [proc EXCEPT ![p] = Idle]
    /\ UNCHANGED <<source, catalog, worker, dir, bundle, chain, torn, crashes>>

NextManifest(p) ==
    LET m == Last(proc[p].seen) IN
    AdvanceManifest(m, Ladder[Rung(m.state) + 1], proc[p].worker)

\* One turn of the promotion loop: append_manifest, or its refusal.
AppendNext(p) ==
    /\ proc[p].pc = "promoting"
    /\ IF Last(proc[p].seen).state # "enabled" /\ Extends(NextManifest(p), proc[p].seen)
       THEN /\ chain' = Append(chain, NextManifest(p))
            /\ proc' = [proc EXCEPT ![p].seen = Append(@, NextManifest(p))]
       ELSE proc' = [proc EXCEPT ![p] = Idle] /\ UNCHANGED chain
    /\ UNCHANGED <<source, catalog, worker, dir, bundle, torn, crashes>>

-----------------------------------------------------------------------------
(* capability-disable, capability-revoke *)

\* _capability_transition after _current_capsule_manifest.
Transition(p, target) ==
    /\ proc[p].pc = "read"
    /\ LET m == AdvanceManifest(Last(proc[p].seen), target, 0) IN
       IF target \in AllowedTransitions(Last(proc[p].seen).state) /\ Extends(m, proc[p].seen)
       THEN chain' = Append(chain, m)
       ELSE UNCHANGED chain
    /\ proc' = [proc EXCEPT ![p] = Idle]
    /\ UNCHANGED <<source, catalog, worker, dir, bundle, torn, crashes>>

-----------------------------------------------------------------------------
(* capability-run *)

\* _enabled_capsule_manifests and _resolve_capsule_intent: a policy-permitted
\* route to the latest, enabled manifest; a refusal leaves the command.
Route(p) ==
    /\ proc[p].pc = "idle"
    /\ Readable /\ Last(chain).state = "enabled"
    /\ proc' = [proc EXCEPT ![p].pc = "routed", ![p].seen = chain]
    /\ UNCHANGED <<source, catalog, worker, dir, bundle, chain, torn, crashes>>

\* Faulty variant: the manifest the route was made from is trusted at activation.
ResolvesRouted(p) == Last(proc[p].seen).state = "enabled"

\* CapsuleStore.resolve_enabled: exactly the routed manifest, latest, enabled.
ResolvesEnabled(p) ==
    /\ Readable
    /\ chain = proc[p].seen
    /\ Last(chain).state = "enabled"

\* CapsuleConnector.__init__: no origin, credential or side effect.
Pure(a) == "impure" \notin a.defects

\* activate_capsule: the worker of the promotion, a pure capability, no catalog
\* capability of the same name (catalog_with_capsule).
Activate(p) ==
    /\ proc[p].pc = "routed"
    /\ IF /\ ResolvesEnabled(p)
          /\ Last(proc[p].seen).worker = worker
          /\ Pure(bundle)
          /\ ~catalog
       THEN proc' = [proc EXCEPT ![p].pc = "active"]
       ELSE proc' = [proc EXCEPT ![p] = Idle]
    /\ UNCHANGED <<source, catalog, worker, dir, bundle, chain, torn, crashes>>

\* CapsuleConnector._validate_action: the worker has not drifted since.
WorkerUnchanged(p) == Last(proc[p].seen).worker = worker

\* execute and the independent replay of verify; proc.worker is the worker that
\* produced the result.  A refused or failed replay ends the command.
Execute(p) ==
    /\ proc[p].pc = "active"
    /\ \/ /\ WorkerUnchanged(p)
          /\ proc' = [proc EXCEPT ![p].pc = "executed", ![p].worker = worker]
       \/ proc' = [proc EXCEPT ![p] = Idle]
    /\ UNCHANGED <<source, catalog, worker, dir, bundle, chain, torn, crashes>>

Verify(p) ==
    /\ proc[p].pc = "executed"
    /\ \/ WorkerUnchanged(p) /\ proc' = [proc EXCEPT ![p].pc = "verified"]
       \/ proc' = [proc EXCEPT ![p] = Idle]
    /\ UNCHANGED <<source, catalog, worker, dir, bundle, chain, torn, crashes>>

Report(p) ==
    /\ proc[p].pc = "verified"
    /\ proc' = [proc EXCEPT ![p] = Idle]
    /\ UNCHANGED <<source, catalog, worker, dir, bundle, chain, torn, crashes>>

-----------------------------------------------------------------------------
(* Environment *)

\* The export is edited, the catalog gains the capability, the runtime is
\* upgraded.
EditSource ==
    /\ source' \in Abilities \ {source}
    /\ UNCHANGED <<catalog, worker, dir, bundle, chain, torn, proc, crashes>>
ExtendCatalog ==
    /\ ~catalog
    /\ catalog' = TRUE
    /\ UNCHANGED <<source, worker, dir, bundle, chain, torn, proc, crashes>>
UpgradeWorker ==
    /\ worker < MaxWorker
    /\ worker' = worker + 1
    /\ UNCHANGED <<source, catalog, dir, bundle, chain, torn, proc, crashes>>

\* append_manifest of a promotion, or of a retirement, has come to the write.
Writing(p) ==
    /\ chain = proc[p].seen
    /\ \/ proc[p].pc = "promoting" /\ Last(chain).state # "enabled"
       \/ p \in Retirers /\ proc[p].pc = "read" /\ Last(chain).state # "revoked"

\* A process dies; inside _write_private_at it leaves the file incomplete.
Crash(p) ==
    /\ proc[p].pc # "idle"
    /\ crashes < MaxCrashes
    /\ crashes' = crashes + 1
    /\ torn' \in {torn} \cup IF Writing(p) THEN {TRUE} ELSE {}
    /\ proc' = [proc EXCEPT ![p] = Idle]
    /\ UNCHANGED <<source, catalog, worker, dir, bundle, chain>>

Import(p) == Preview(p) \/ BeginInstall(p) \/ FinishInstall(p)
Promote(p) == ReadCurrent(p) \/ CheckPromotable(p) \/ AppendNext(p)
Retire(p) == ReadCurrent(p) \/ \E target \in {"deprecated", "revoked"} : Transition(p, target)
Run(p) == Route(p) \/ Activate(p) \/ Execute(p) \/ Verify(p) \/ Report(p)

Next ==
    \/ \E p \in Importers : Import(p)
    \/ \E p \in Promoters : Promote(p)
    \/ \E p \in Retirers : Retire(p)
    \/ \E p \in Runners : Run(p)
    \/ \E p \in Procs : Crash(p)
    \/ EditSource \/ ExtendCatalog \/ UpgradeWorker

CapsuleSpec == CapsuleInit /\ [][Next]_vars

\* An operator repeats capability-promote until it is through, and a started
\* command goes on unless its process dies.
FairCapsuleSpec == CapsuleSpec /\ \A p \in Promoters : WF_vars(Promote(p))

-----------------------------------------------------------------------------
(* Properties *)

States == {"quarantined", "tested", "sandbox_validated", "reviewed", "published",
           "enabled", "deprecated", "revoked"}

CapsuleTypeOK ==
    /\ source \in Abilities /\ bundle \in Abilities
    /\ catalog \in BOOLEAN /\ torn \in BOOLEAN
    /\ worker \in 1..MaxWorker
    /\ dir \in {"absent", "partial", "installed"}
    /\ Len(chain) <= 8
    /\ \A i \in DOMAIN chain :
          chain[i] \in [state : States, worker : 1..MaxWorker,
                        validation : 0..MaxWorker, sandbox : 0..MaxWorker]
    /\ \A p \in Procs : proc[p].pc \in {"idle", "previewed", "installing", "read",
          "promoting", "routed", "active", "executed", "verified"}
    /\ crashes \in 0..MaxCrashes

\* An enabled capsule went through every rung of the ladder once, in order, and
\* all its evidence was produced by the one worker its quarantine names, however
\* many promoters, revokers, upgrades and crashes took part
\* (CapsuleStore.append_manifest, promote_installed).
EnabledIsEarned ==
    chain # <<>> /\ Last(chain).state = "enabled" =>
        /\ bundle.defects = {}
        /\ [i \in DOMAIN chain |-> chain[i].state] = SubSeq(Ladder, 1, 6)
        /\ \A i \in DOMAIN chain : chain[i].worker = chain[1].worker
        /\ Last(chain).validation = chain[1].worker
        /\ Last(chain).sandbox = chain[1].worker

\* What is installed is the source its importer previewed, and its only possible
\* defect is one that shows when it runs: an export edited between preview and
\* selection, or one that asks for authority, is never written to the store
\* (quarantine_selected_ability, _classify_ability).
InstalledWasPreviewed ==
    /\ dir # "absent" => bundle.kind = "capability" /\ bundle.defects \subseteq {"tests"}
    /\ \A p \in Importers : proc[p].pc = "installing" => bundle = proc[p].digest

RetiredNeverActivatesStep ==
    \A p \in Runners :
       proc'[p].pc = "active" /\ proc[p].pc # "active" =>
           Last(chain).state = "enabled"

\* "Deprecation and revocation immediately stop future resolution and routing":
\* no activation starts from a chain that has ended, also not one whose route
\* was made before (docs/capability-capsules.md, CapsuleStore.resolve_enabled).
RetiredNeverActivates == [][RetiredNeverActivatesStep]_vars

\* A verified result was produced by the worker that validated the capsule:
\* upgrades between promotion, activation, execution and replay are noticed
\* (CapsuleConnector._validate_action).
ResultsCarryTheirEvidence ==
    \A p \in Runners : proc[p].pc = "verified" =>
        proc[p].worker = Last(proc[p].seen).validation

Promotable ==
    /\ chain # <<>>
    /\ Validates(bundle)
    /\ chain[1].worker = worker
Settled ==
    chain # <<>> /\
       (chain[1].worker # worker \/ Last(chain).state \in {"enabled", "deprecated", "revoked"})

\* "safely resumes an authenticated partial chain after an interruption": with
\* an operator who repeats the command, a chain that can be promoted ends
\* enabled or retired, unless the runtime changed under it, or a process died
\* inside the write of a manifest, whose torn file no command reads past
\* (docs/capability-capsules.md:108, _write_private_at).
PromotionResumes == Promotable ~> Settled \/ torn

=============================================================================
