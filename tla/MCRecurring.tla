---- MODULE MCRecurring ------------------------------------------------------
(* The recurring machinery, part by part: the idempotency ledger and the    *)
(* occurrence store under any caller, runs that disagree about an effect,   *)
(* an apply whose plan has a local generation, the legacy runner, and the   *)
(* bound occurrences the commands accept.                                   *)
EXTENDS OccurrenceBinding, LegacyRunner, TLC

CONSTANTS k1, k2, f1, f2, t1, t2, t3, r1, r2, x1, x2, v1, NoFp, NoToken, NoResult,
          NoAttempt, NoOutcomes

------------------------------------------------------------------------------
\* Every behaviour is one of one part; the variables of the others are Off, or as
\* they are at first.
VARIABLES
    part,
    ledgerRows, verdict,
    effect, pc, mode, at, report, executed, stopped, result, cause,
    occ, storeClock, fence,
    registered, heartbeat, started, open, seen, made

ledgerVars == <<ledgerRows, verdict>>
orchestratorVars == <<effect, pc, mode, at, report, executed, stopped, result,
    cause>>
storeVars == <<occ, storeClock, fence>>
applyVars == <<registered, heartbeat, started, open, seen, made>>
suiteVars == <<part, ledgerVars, orchestratorVars, storeVars, applyVars, vars,
    bindingVars>>

Off == "off"
\* The groups of variables a part uses are in play, the others left alone.
OnlyUses(used) ==
    /\ "ledger" \notin used =>
           /\ ledgerRows = Off /\ verdict = Off
    /\ "orchestrator" \notin used =>
           /\ effect = Off /\ pc = Off /\ mode = Off /\ at = Off /\ report = Off
           /\ executed = Off /\ stopped = Off /\ result = Off /\ cause = Off
    /\ "store" \notin used =>
           /\ occ = Off /\ storeClock = Off /\ fence = Off
    /\ "apply" \notin used =>
           /\ registered = Off /\ heartbeat = Off /\ started = Off /\ open = Off
           /\ seen = Off /\ made = Off
    /\ "legacy" \notin used => LegacyInit
    /\ "binding" \notin used => BindingInit
Untouched(used) ==
    /\ UNCHANGED part
    /\ "ledger" \notin used => UNCHANGED ledgerVars
    /\ "orchestrator" \notin used => UNCHANGED orchestratorVars
    /\ "store" \notin used => UNCHANGED storeVars
    /\ "apply" \notin used => UNCHANGED applyVars
    /\ "legacy" \notin used => UNCHANGED vars
    /\ "binding" \notin used => UNCHANGED bindingVars

------------------------------------------------------------------------------
\* Two keys, two fingerprints, three claim tokens: claims superseded after a
\* certified failure and after a deletion.
Ledger == INSTANCE IdempotencyLedger WITH
    Keys <- {k1, k2}, Fingerprints <- {f1, f2}, Tokens <- {t1, t2, t3},
    Results <- {v1}, rows <- ledgerRows

\* Two runs of which one has rebound the key to another effect.
Conflict == INSTANCE Orchestrator WITH
    Keys <- {k1}, Runs <- {r1, r2}, Fingerprints <- {f1, f2}, Results <- {v1},
    Tokens <- {r1, r2} \X {k1}, Plan <- <<k1>>, Deps <- (k1 :> {}),
    EffectFp <- (r1 :> (k1 :> f1) @@ r2 :> (k1 :> f2)), Effectful <- {k1},
    Reversible <- {k1}, CompensateOnFailure <- TRUE, rows <- ledgerRows

\* Three attempts: one that loses its lease, one that blocks for approval and
\* one that resumes.
Store == INSTANCE OccurrenceStore WITH
    Attempts <- {"s1", "s2", "s3"}, LeaseDuration <- 2, ResumeDeadline <- 7,
    MaxClock <- 9, clock <- storeClock

\* An apply whose plan ends in a generation of local text, which the
\* certificate of a failure passes over.
Local == INSTANCE RecurringApply WITH
    Keys <- {k1, k2}, Runs <- {x1, x2}, Attempts <- {x1, x2},
    LocalGeneration <- {k2}, Fingerprints <- {f1}, Results <- {v1},
    Tokens <- {x1, x2} \X {k1, k2}, Plan <- <<k1, k2>>,
    Deps <- [k \in {k1, k2} |-> {}],
    EffectFp <- [a \in {x1, x2} |-> [k \in {k1, k2} |-> f1]], Effectful <- {k1},
    Reversible <- {}, CompensateOnFailure <- TRUE, LeaseDuration <- 1, Expires <- 2,
    ResumeDeadline <- 3, MaxClock <- 1, rows <- ledgerRows, clock <- storeClock

------------------------------------------------------------------------------
\* The constants of every part are as its module says.
ASSUME RecurringAssumption ==
    /\ LegacyAssumption
    /\ BindingAssumption

SuiteInit ==
    \/ part = "ledger" /\ Ledger!LedgerInit /\ OnlyUses({"ledger"})
    \/ part = "conflict" /\ Conflict!Init /\ OnlyUses({"ledger", "orchestrator"})
    \/ part = "store" /\ Store!StoreInit /\ OnlyUses({"store"})
    \/ part = "local" /\ Local!ApplyInit /\ OnlyUses({"ledger", "orchestrator", "store", "apply"})
    \/ part = "legacy" /\ LegacyInit /\ OnlyUses({"legacy"})
    \/ part = "keys" /\ BindingInit /\ OnlyUses({"binding"})
    \/ part = "drift" /\ BindingInit /\ OnlyUses({"binding"})

LedgerStep == part = "ledger" /\ Ledger!LedgerNext /\ Untouched({"ledger"})
ConflictStep == part = "conflict" /\ Conflict!Next /\ Untouched({"ledger", "orchestrator"})
StoreStep == part = "store" /\ Store!StoreNext /\ Untouched({"store"})
\* Nothing reconciles, for which the lease would have to run out first.
LocalStep ==
    /\ part = "local" /\ Local!ApplyNext
    /\ Untouched({"ledger", "orchestrator", "store", "apply"})
    /\ seen' = NoOutcomes
\* Two runners over two occurrences, each of which an operator may recover
\* once.
LegacyStep == part = "legacy" /\ Next /\ Untouched({"legacy"})
\* What the commands under way were asked to bind. Nothing is reviewed here:
\* only a reconciler must name what a reviewer saw, and there is none.
Asked == {binder'[b].art : b \in Binders} \ {NoArtifact}
\* Two occurrences bound by two commands and applied by two: whose execution
\* keys are whose.
KeyedStep ==
    /\ part = "keys" /\ BindingNext /\ Untouched({"binding"})
    /\ \A a \in Asked : a.at \in Scheduled /\ a.plan \in WidePlans
    /\ spent'.edits = 0 /\ spent'.replaced = 0 /\ reviewed' = {}
\* One occurrence while the registration, the configuration, the time zone,
\* the roots and the runtime change under it.
DriftingStep ==
    /\ part = "drift" /\ BindingNext /\ Untouched({"binding"})
    /\ binder'["b2"].pc = "idle" /\ job'["p2"].pc = "idle"
    /\ \A a \in Asked : a.at \in {1, 2}
    /\ Cardinality({n \in Names : files'[n] # NoArtifact}) <= 1
    /\ spent'.kills = 0 /\ reviewed' = {}

SuiteNext == LedgerStep \/ ConflictStep \/ StoreStep \/ LocalStep \/ LegacyStep
    \/ KeyedStep \/ DriftingStep

SuiteSpec == SuiteInit /\ [][SuiteNext]_suiteVars

\* x1 and x2 are the two attempts, runners or artifact names of a part, which
\* nothing in it tells apart.
Interchangeable == Permutations({x1, x2})

------------------------------------------------------------------------------
\* The ledger keeps a claim whatever its callers do, with any token at any
\* time. A row that is reserved is reserved by a claim nobody has settled, and
\* one claim never reserves two keys; a claim is settled once; a completed row
\* is never weakened before it is deleted as a whole (the WHERE clauses on
\* status and claim_token). And no failed or uncertain attempt frees a key for
\* another effect: only a verified rollback does (action_fingerprint in
\* claim_action and clear_completed).
ClaimsAreKept ==
    /\ [](part = "ledger" => Ledger!LedgerTypeOK /\ Ledger!ReservationIsOpenClaim)
    /\ [][part = "ledger" => Ledger!VerdictIsFinalStep
                          /\ Ledger!CompletionIsStableStep]_ledgerVars
    /\ [][part = "conflict" => Conflict!BindingOutlivesFailureStep]_<<ledgerVars, orchestratorVars>>

\* At any instant at most one attempt owns the fence of an occurrence, the one
\* reserved last, and lease and token exist exactly while it runs; a settled,
\* uncertain or cancelled occurrence never runs again, and a new generation
\* starts only from an approval block, an expired lease or a certified failure
\* (reserve, renew, finalize, recover, reconcile). With local generations in
\* the plan, FAILED_PRE_EFFECT is true of the attempt that wrote it and
\* SUCCEEDED means that every effect is on record (effect_started and
\* local_output_started of cli._recurring_apply).
OccurrencesAreFenced ==
    /\ [](/\ part = "store" => Store!StoreTypeOK /\ Store!OneFenceOwner
                            /\ Store!LeaseIffRunning
          /\ part = "local" => Local!ApplyTypeOK)
    /\ [][part = "store" => Store!TerminalIsFinalStep
                         /\ Store!GenerationAdvancesFromRestStep]_storeVars
    /\ [][part = "local" => Local!CertificateCoversAttemptStep
                         /\ Local!SuccessIsRecordedStep]_suiteVars
==============================================================================
