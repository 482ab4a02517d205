---------------------------- MODULE ProviderReads ----------------------------
(***************************************************************************)
(* provider_egress.py, direct_read.py, discovery.py and the read branch of *)
(* orchestrator.py: what provider content may be returned, and when the    *)
(* provider may be asked for it.  A name pattern is the set of names it    *)
(* matches with its literal length; a resource is the set of the paths of  *)
(* its leaves (one or two field names each), and a returned leaf is shown  *)
(* plain, redacted or, a reference, cut to its origin and path.            *)
(***************************************************************************)
EXTENDS Integers, Sequences, FiniteSets, SequencesExt

CONSTANTS Policies,      \* model-context policies
          Governance,    \* governance profiles
          Catalog,       \* capability -> definition
          ReadPlans,     \* sequences of read actions
          Contents,      \* what a provider may answer
          Secrets, Reserved, References,   \* field identities the code knows by name
          Aliases,       \* requested field -> further result names
          MaxEdits       \* bound of the model: changes of a provider's content

High == {"confidential", "restricted"}

VARIABLES kind,       \* "direct", "audited" or "probe"
          policy, gov, plan,
          content,    \* capability -> what the provider answers now
          endpoint,   \* the endpoint the connector is configured for
          pc, i,      \* the session's step and its action
          bound,      \* action -> its egress binding
          snapshot, observed,   \* the answers to execute and to verify
          audit,      \* events recorded: <<"authorized", i>>, <<"state", i, shown>>
          reports,    \* what was returned for each action so far
          returned,   \* what reached the caller
          contacts,   \* ghost: the actions for which the provider was asked for content
          attested,   \* ghost: the actions for which credentials were used to identify the account
          edits

readVars == <<kind, policy, gov, plan, content, endpoint, pc, i, bound, snapshot, observed, audit,
              reports, returned, contacts, attested, edits>>

NoResult == [none |-> TRUE]

-----------------------------------------------------------------------------
(* The policy.                                                              *)
Wild == "*"

\* ModelContextRule.__post_init__
RuleValid(r) ==
    /\ r.routes # {} /\ r.cls # {} /\ r.allowed # {} /\ r.maxItems > 0
    /\ ~(r.audit /\ "ephemeral" \in r.routes)
    /\ r.handling = "redact" => (r.redacted # {} \/ r.dlp)
    /\ Wild \in r.allowed => r.allowed = {Wild}
    /\ (r.handling # "deny" /\ r.cls \cap High # {}) =>
          (r.routes = {"audited"} /\ r.audit /\ Wild \notin r.allowed)

\* from_mapping, with ProviderDataEgressPolicy.__post_init__
PolicyValid(p) ==
    /\ p.rules # {} /\ \A r \in p.rules : RuleValid(r)
    /\ \A r, s \in p.rules : r.name = s.name => r = s

Patterns(r) == r.providers \o r.capabilities
SumOf(f(_), s) == FoldLeft(LAMBDA acc, x : acc + f(x), 0, s)

\* specificity: a tuple, compared from the left.
Specificity(r) ==
    LET Exact(p) == IF p.exact THEN 1 ELSE 0
        Literal(p) == p.literal
    IN <<SumOf(Exact, Patterns(r)), SumOf(Literal, Patterns(r)),
         (IF Wild \in r.destinations THEN 0 ELSE 1) + (IF Wild \in r.tenancies THEN 0 ELSE 1),
         0 - Len(Patterns(r))>>
Below(s, t) == \E k \in 1 .. 4 : s[k] < t[k] /\ \A j \in 1 .. (k - 1) : s[j] = t[j]

\* A policy has finitely many rules, which are compared by tuples of four integers; a plan has
\* an action, whose limit is not negative; an answer is a list of items.
IsList(s) == s \in Seq({s[k] : k \in DOMAIN s})
ReadAssumption ==
    /\ MaxEdits \in Nat
    /\ \A p \in Policies :
          /\ IsFiniteSet(p.rules)
          /\ \A r \in p.rules : r.maxItems \in Int /\ \A n \in 1 .. 4 : Specificity(r)[n] \in Int
    /\ \A p \in ReadPlans :
          /\ IsList(p) /\ p # <<>>
          /\ \A k \in DOMAIN p :
                /\ {"cap", "cls", "chosen", "limit"} \subseteq DOMAIN p[k] /\ p[k].limit \in Nat
    /\ \A c \in Contents : IsList(c.items)

Matches(r, p, a, route) ==
    /\ \E k \in DOMAIN r.providers : a.provider \in r.providers[k].matches
    /\ \E k \in DOMAIN r.capabilities : a.cap \in r.capabilities[k].matches
    /\ a.cls \in r.cls /\ route \in r.routes
    /\ {p.destination, Wild} \cap r.destinations # {}
    /\ {p.tenancy, Wild} \cap r.tenancies # {}

\* evaluate: the rule that permits, if one does.  No DLP adapter is implemented.
EvaluateRules(p, a, route, auditAvailable) ==
    LET matching == {r \in p.rules : Matches(r, p, a, route)}
        best == {r \in matching : \A s \in matching : ~Below(Specificity(r), Specificity(s))}
    IN {r \in best : /\ Cardinality(best) = 1 /\ r.handling # "deny"
                     /\ (r.audit => auditAvailable) /\ ~r.dlp}

\* resolve_probe_classification
ProbeClass(p, g, selected) ==
    IF selected # "none" THEN {selected}
    ELSE IF g.environment = "development" /\ p.source = "nonproduction" THEN {p.default} \ {"none"}
    ELSE {}

-----------------------------------------------------------------------------
(* The shape of a read and its binding.                                     *)
Definition(a) == Catalog[a.cap]
Route == IF kind = "audited" THEN "audited" ELSE "ephemeral"
AuditAvailable == kind = "audited" /\ gov.auditSink

\* _requested_field_binding
FieldsBind(a) == a.fields \cap Reserved = {}

\* _provider_data_shape_preflight
ShapeAllowed(r, a) ==
    /\ FieldsBind(a)
    /\ IF a.fields = {} THEN Wild \in r.allowed
       ELSE Wild \in r.allowed \/ a.fields \subseteq r.allowed
    /\ a.limit <= r.maxItems
    /\ Definition(a).list => a.limit > 0
Preflight(a) == {r \in EvaluateRules(policy, a, Route, AuditAvailable) : ShapeAllowed(r, a)}

\* _connector_digests: the configuration, origin and account, here the endpoint they name.
ConnectorDigests == endpoint

\* bind_provider_data_egress
Bind(a, r) == [action |-> a, rule |-> r, policy |-> policy, endpoint |-> ConnectorDigests,
               limit |-> IF a.limit > 0 THEN a.limit ELSE r.maxItems]

\* The live connector still answers for the endpoint it was bound to.
EndpointHolds == endpoint = "bound"
Bindings(a) == IF EndpointHolds THEN {Bind(a, r) : r \in Preflight(a)} ELSE {}

-----------------------------------------------------------------------------
(* What of an answer is returned.                                           *)
\* _normalized_requested_fields
Requested(fields) == fields \cup UNION {Aliases[f] : f \in fields \cap DOMAIN Aliases}
NamesOf(path) == {path[k] : k \in DOMAIN path}

\* _redact_provider_secret_variants and _redact_configured_fields, at every depth
Redacted(path, b) == NamesOf(path) \cap (Secrets \cup b.rule.redacted) # {}
\* _safe_reference: no query, and no path where the rule redacts
SafeReference(b) == IF b.rule.handling = "redact" THEN "origin" ELSE "path"
\* The redactions come first, then _minimize_references.
ShownAs(path, b) ==
    IF Redacted(path, b) THEN "redacted"
    ELSE IF Last(path) \in References THEN SafeReference(b)
    ELSE "plain"

\* _project_resource_object, _omit_reserved_resource_fields
Project(item, b) ==
    {<<path, ShownAs(path, b)>> : path \in
        {q \in item : NamesOf(q) \cap Reserved = {}
                      /\ (b.action.fields = {} \/ q[1] \in Requested(b.action.fields))}}

\* _copy_output_metadata and _sanitize_citations
MetadataFits(c) == c.metadata
CitationsFit(c, b) == b.action.fields = {} => c.citations <= b.limit
\* _apply_output_contract accepts the envelope; a resource cannot be redacted as a whole.
EnvelopeFits(c, b) ==
    /\ c.schema = "bound" /\ ~c.extra
    /\ Definition(b.action).list \/ Len(c.items) = 1
    /\ MetadataFits(c) /\ CitationsFit(c, b)
\* _enforce_item_limit and the byte limit, a leaf counting one.
LimitsHold(c, b) ==
    /\ Definition(b.action).list => Len(c.items) <= b.limit
    /\ SumOf(LAMBDA item : Cardinality(Project(item, b)), c.items) <= b.rule.maxBytes

\* sanitize_provider_mapping: the returned copy, or NoResult where it raises.
Sanitize(c, b) ==
    IF EnvelopeFits(c, b) /\ LimitsHold(c, b)
    THEN [none |-> FALSE, shown |-> [k \in DOMAIN c.items |-> Project(c.items[k], b)],
          citations |-> IF b.action.fields = {} THEN c.citations ELSE 0]
    ELSE NoResult

\* minimize_probe_result: reachability and a digest.
ProbeResult == [none |-> FALSE, shown |-> <<>>, citations |-> 0]

-----------------------------------------------------------------------------
(* The sessions.                                                            *)
ReadInit ==
    /\ kind \in {"direct", "audited", "probe"} /\ policy \in Policies /\ gov \in Governance
    /\ plan \in {p \in ReadPlans : \A k \in DOMAIN p : Catalog[p[k].cap].probe <=> kind = "probe"}
    /\ content \in [{plan[k].cap : k \in DOMAIN plan} -> Contents]
    /\ endpoint = "bound" /\ pc = "start" /\ i = 1 /\ bound = <<>>
    /\ snapshot = NoResult /\ observed = NoResult /\ audit = {} /\ reports = <<>> /\ returned = <<>>
    /\ contacts = {} /\ attested = {} /\ edits = 0

Session == <<kind, policy, gov, plan>>
ProviderWorld == <<content, endpoint, edits>>
At(step) == pc = step

\* The session raises: nothing is returned.
Raise == pc' = "done" /\ UNCHANGED <<i, reports, returned>>

\* The next record of the report.
Report(record) ==
    /\ reports' = Append(reports, record)
    /\ IF i = Len(plan) THEN pc' = "done" /\ returned' = reports' /\ UNCHANGED i
       ELSE /\ pc' = IF kind = "direct" THEN "execute" ELSE "authorize"
            /\ i' = i + 1 /\ UNCHANGED returned

\* A failed action: a direct session raises, the other routes report it without content.
RefuseRead == IF kind = "direct" THEN Raise ELSE Report(NoResult)

\* rule_for, then validate_action: the most specific rule of the capability decides.
RulesFor(cap) ==
    LET matching == {k \in DOMAIN gov.rules : cap \in gov.rules[k].pattern.matches}
        Above(k, j) == LET p == gov.rules[k].pattern  q == gov.rules[j].pattern IN
                       \/ p.literal > q.literal
                       \/ p.literal = q.literal /\ p.wild < q.wild
                       \/ p.literal = q.literal /\ p.wild = q.wild /\ k < j
    IN {gov.rules[k] : k \in {k \in matching : \A j \in matching \ {k} : Above(k, j)}}
GovernanceAllows(a) ==
    \E r \in RulesFor(a.cap) : /\ r.enabled /\ gov.environment \in r.environments
                               /\ a.cls \in r.cls /\ r.tier # "prohibited"
\* minimum_approvers: a direct read cannot wait for an approval.
Automatic(a) == \A r \in RulesFor(a.cap) : r.tier = "automatic"
ExternalModelAllows(a) == Definition(a).model => a.cls \in gov.external

\* _validate_unbound_session_shape and allows_direct_read_session
SessionShape ==
    /\ gov.optIn
    /\ \A k \in DOMAIN plan : /\ plan[k].provider = plan[1].provider
                              /\ plan[k].authority = "direct_user" /\ ~plan[k].approval

\* preflight_direct_read_plan: every action, before credentials or a connector.
PreflightDirect ==
    /\ At("start") /\ kind = "direct"
    /\ IF /\ PolicyValid(policy) /\ SessionShape
          /\ \A k \in DOMAIN plan : /\ GovernanceAllows(plan[k]) /\ Preflight(plan[k]) # {}
                                    /\ ExternalModelAllows(plan[k])
                                    /\ Definition(plan[k]).enabled /\ Automatic(plan[k])
       THEN pc' = "attest" /\ UNCHANGED <<i, reports, returned>> ELSE Raise
    /\ UNCHANGED <<Session, ProviderWorld, bound, snapshot, observed, audit, contacts, attested>>

\* _run_direct_read: the credentials are loaded, the account is attested, the connector is built.
AttestAccount ==
    /\ At("attest") /\ attested' = DOMAIN plan
    /\ \/ pc' = "bind" /\ UNCHANGED <<i, reports, returned>>
       \/ Raise
    /\ UNCHANGED <<Session, ProviderWorld, bound, snapshot, observed, audit, contacts>>

\* _validate_connector_shape and _validate_execution_contract of every action
BindDirect ==
    /\ At("bind")
    /\ IF \A k \in DOMAIN plan : Bindings(plan[k]) # {}
       THEN /\ bound' = [k \in DOMAIN plan |-> CHOOSE b \in Bindings(plan[k]) : TRUE]
            /\ pc' = "execute" /\ UNCHANGED <<i, reports, returned>>
       ELSE Raise /\ UNCHANGED bound
    /\ UNCHANGED <<Session, ProviderWorld, snapshot, observed, audit, contacts, attested>>

\* The applied run and the probes load the policy, then take one action after the other;
\* a probe first resolves the classification of what it reads.
Begin ==
    /\ At("start") /\ kind # "direct"
    /\ IF PolicyValid(policy) /\ (kind = "probe" => ProbeClass(policy, gov, plan[1].chosen) # {})
       THEN /\ pc' = "authorize" /\ UNCHANGED <<i, reports, returned>>
            /\ plan' = IF kind # "probe" THEN plan
                       ELSE [k \in DOMAIN plan |-> [plan[k] EXCEPT !.cls =
                                CHOOSE c \in ProbeClass(policy, gov, plan[1].chosen) : TRUE]]
       ELSE Raise /\ UNCHANGED plan
    /\ UNCHANGED <<kind, policy, gov, ProviderWorld, bound, snapshot, observed, audit, contacts,
                   attested>>

Bound(b) == bound' = [k \in 1 .. i |-> IF k = i THEN b
                                       ELSE IF k \in DOMAIN bound THEN bound[k] ELSE NoResult]
\* _provider_data_egress_binding and its event; for a probe, the denials of _probe_policy_state
\* before the account is attested and the binding made.
Authorize ==
    /\ At("authorize")
    /\ attested' = IF kind = "probe" /\ Preflight(plan[i]) # {} THEN attested \cup {i} ELSE attested
    /\ IF Bindings(plan[i]) # {} /\ (kind = "audited" => GovernanceAllows(plan[i])
                                                         /\ ExternalModelAllows(plan[i])
                                                         /\ Definition(plan[i]).enabled)
       THEN /\ Bound(CHOOSE b \in Bindings(plan[i]) : TRUE)
            /\ audit' = IF kind = "audited" THEN audit \cup {i} ELSE audit
            /\ pc' = "execute" /\ UNCHANGED <<i, reports, returned>>
       ELSE Report(NoResult) /\ UNCHANGED <<bound, audit>>
    /\ UNCHANGED <<Session, ProviderWorld, snapshot, observed, contacts>>

Answer == [from |-> endpoint, body |-> content[plan[i].cap]]

\* connector.execute, or probe (whose endpoint is compared first)
Execute ==
    /\ At("execute")
    /\ IF kind = "probe" /\ ~EndpointHolds THEN RefuseRead /\ UNCHANGED <<snapshot, contacts>>
       ELSE /\ snapshot' = Answer /\ contacts' = contacts \cup {i}
            /\ pc' = IF kind = "probe" THEN "return" ELSE "verify"
            /\ UNCHANGED <<i, reports, returned>>
    /\ UNCHANGED <<Session, ProviderWorld, bound, observed, audit, attested>>

\* The call raises.
CallFails ==
    /\ pc \in {"execute", "verify"} /\ RefuseRead
    /\ contacts' = contacts \cup {i}
    /\ UNCHANGED <<Session, ProviderWorld, bound, snapshot, observed, audit, attested>>

\* connector.verify: an independent read has to find the same.
Verify ==
    /\ At("verify") /\ observed' = Answer
    /\ IF Answer.body = snapshot.body THEN pc' = "return" /\ UNCHANGED <<i, reports, returned>>
       ELSE RefuseRead
    /\ UNCHANGED <<Session, ProviderWorld, bound, snapshot, audit, contacts, attested>>

\* Faulty variant: the binding is not made again before the result is returned.
ReturnUnchecked ==
    /\ At("return")
    /\ LET b == bound[i] IN
       IF kind # "probe" /\ Sanitize(snapshot.body, b).none THEN RefuseRead
       ELSE Report([result |-> IF kind = "probe" THEN ProbeResult ELSE Sanitize(snapshot.body, b),
                    raw |-> snapshot, seen |-> observed, binding |-> b])
    /\ snapshot' = NoResult /\ observed' = NoResult
    /\ UNCHANGED <<Session, ProviderWorld, bound, audit, contacts, attested>>

\* The binding is made again and has to be the same; the copy is sanitized.
Return ==
    /\ At("return")
    /\ LET b == bound[i] IN
       IF \/ Bindings(plan[i]) # {b}
          \/ IF kind = "probe" THEN SumOf(Cardinality, snapshot.body.items) > b.rule.maxBytes
             ELSE Sanitize(snapshot.body, b).none
       THEN RefuseRead
       ELSE Report([result |-> IF kind = "probe" THEN ProbeResult ELSE Sanitize(snapshot.body, b),
                    raw |-> snapshot, seen |-> observed, binding |-> b])
    /\ snapshot' = NoResult /\ observed' = NoResult
    /\ UNCHANGED <<Session, ProviderWorld, bound, audit, contacts, attested>>

\* Somebody changes what the provider answers; the connector's configuration drifts.
Edit ==
    /\ pc # "done" /\ edits < MaxEdits /\ edits' = edits + 1
    /\ \E cap \in DOMAIN content, c \in Contents : content' = [content EXCEPT ![cap] = c]
    /\ UNCHANGED <<Session, endpoint, pc, i, bound, snapshot, observed, audit, reports, returned,
                   contacts, attested>>
EndpointDrifts ==
    /\ pc # "done" /\ edits < MaxEdits /\ edits' = edits + 1
    /\ endpoint = "bound" /\ endpoint' = "other"
    /\ UNCHANGED <<Session, content, pc, i, bound, snapshot, observed, audit, reports, returned,
                   contacts, attested>>

ReadNext == \/ PreflightDirect \/ AttestAccount \/ BindDirect \/ Begin \/ Authorize \/ Execute
            \/ CallFails \/ Verify \/ Return \/ Edit \/ EndpointDrifts

ReadSpec == ReadInit /\ [][ReadNext]_readVars

-----------------------------------------------------------------------------
(* Properties.                                                              *)
\* The state of a session is well formed.
EgressTypeOK ==
    /\ pc \in {"start", "attest", "bind", "authorize", "execute", "verify", "return", "done"}
    /\ i \in DOMAIN plan /\ contacts \subseteq DOMAIN plan /\ audit \subseteq DOMAIN plan
    /\ Len(reports) <= Len(plan) /\ Len(reports) \in {i - 1, i} /\ edits \in 0 .. MaxEdits
    /\ pc \in {"execute", "verify", "return"} => i \in DOMAIN bound

\* The rules that permit a read: the one rule above every other that matches does, and is no denial.
Permits(a) ==
    LET matching == {r \in policy.rules : Matches(r, policy, a, Route)}
    IN {r \in matching : /\ \A s \in matching \ {r} : Below(Specificity(s), Specificity(r))
                         /\ r.handling # "deny"}

\* What provider_egress.py returns is what the policy of the organisation permits: of a field only
\* what was requested or stands for it, nothing reserved at any depth, no value under a secret or
\* redacted name, no more items than asked for and permitted.
ReturnedIsPermitted ==
    \A k \in {n \in DOMAIN returned : "result" \in DOMAIN returned[n]} :
        LET a == plan[k]  shown == returned[k].result.shown IN
        \E r \in Permits(a) :
            /\ Len(shown) <= (IF Definition(a).list THEN a.limit ELSE 1) /\ Len(shown) <= r.maxItems
            /\ \A n \in DOMAIN shown : \A leaf \in shown[n] :
                  /\ Wild \in r.allowed \/ (a.fields \subseteq r.allowed /\ a.fields # {})
                  /\ a.fields # {} => leaf[1][1] \in Requested(a.fields)
                  /\ NamesOf(leaf[1]) \cap Reserved = {}
                  /\ NamesOf(leaf[1]) \cap (Secrets \cup r.redacted) # {} => leaf[2] = "redacted"

\* Confidential and restricted content is returned by the audited route only, after its
\* authorisation has been recorded (direct_read.py, orchestrator.py).
SensitiveIsAudited ==
    \A k \in DOMAIN returned :
        ("result" \in DOMAIN returned[k] /\ plan[k].cls \in High) => (kind = "audited" /\ k \in audit)

\* No provider is asked for content, and no account is identified, before the policy permits the
\* read and its shape: in a direct session the whole plan, on the audited route with the
\* authorisation in the audit chain.
AskedIsPermitted ==
    /\ \A k \in contacts \cup attested :
          /\ \E r \in Permits(plan[k]) : ShapeAllowed(r, plan[k])
          /\ kind = "audited" => k \in audit
    /\ (kind = "direct" /\ contacts \cup attested # {}) =>
          \A k \in DOMAIN plan : Permits(plan[k]) # {} /\ GovernanceAllows(plan[k])

\* A returned result was read twice alike from the endpoint its binding names.
ReturnedIsVerified ==
    \A k \in {n \in DOMAIN returned : "result" \in DOMAIN returned[n]} :
        LET rep == returned[k] IN
        /\ rep.raw.from = rep.binding.endpoint
        /\ kind # "probe" => rep.seen.body = rep.raw.body /\ rep.seen.from = rep.raw.from

\* A direct session returns a report of the whole plan or nothing.
WholeReport ==
    kind = "direct" => (returned = <<>> \/ (Len(returned) = Len(plan)
                        /\ \A k \in DOMAIN returned : "result" \in DOMAIN returned[k]))

\* A probe whose classification nobody chose asks a provider only in development, about data that
\* is configured as nonproduction (resolve_probe_classification).
ClassIsChosen ==
    (kind = "probe" /\ contacts # {} /\ plan[1].chosen = "none") =>
        (gov.environment = "development" /\ policy.source = "nonproduction")

\* No provider is asked before the policy permits the read and its shape, and
\* what is returned is what the policy permits of the fields asked for; a
\* probe whose class nobody chose asks only in development; sensitive content
\* is returned by the audited route only, after its authorisation was
\* recorded; and what is returned was read twice alike from the endpoint it is
\* bound to and, in a direct session, is the whole plan's: under whatever
\* policy and governance the session has loaded, while content and endpoint
\* change at the provider and one of several reads may fail
\* (provider_egress.py, direct_read.py, orchestrator.py).
EgressIsPermitted ==
    /\ EgressTypeOK /\ AskedIsPermitted /\ ReturnedIsPermitted /\ ClassIsChosen
    /\ SensitiveIsAudited /\ ReturnedIsVerified /\ WholeReport
=============================================================================
