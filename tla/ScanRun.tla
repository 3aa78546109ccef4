------------------------------ MODULE ScanRun ------------------------------
(***************************************************************************)
(* One scan of a tenant (engine/runner.py): the Azure probes decide which  *)
(* consumption capabilities are owned, the evidence planner collects, each *)
(* selected check is evaluated behind the entitlement and evidence gates   *)
(* and the quality policy, and the findings are rolled up per capability.  *)
(* Collection is what EvidenceCollection promises of it.                   *)
(*                                                                         *)
(* An evaluator is any function of its evidence: it may return any verdict *)
(* or raise.  The rules of the profile are then applied to the findings.   *)
(* Wording, ranking and the profile's annotations are left out.            *)
(***************************************************************************)
EXTENDS FiniteSets, EvidenceHealth, CustomRules

CONSTANTS Key, CheckId, Profile, Configs,  \* as in EvidenceGraph
          LicenseCapability,   \* capability that SKUs unlock -> the [parts, names, ids] it is
                               \* known by: of SKUs, and of service plans
          Subscriptions,       \* sets of SKUs, [part, status, plans], a tenant may have; a
                               \* plan: [name, id, status, gives], the capabilities it gives
          Catalog,             \* check id -> [requires, mode, inPack, implemented, severity]
          OptionalMissing,     \* keys whose absence the gate forgives
          Defaulted,           \* keys that get an empty value when they fail
          ExchangeKey,         \* evidence that may replace the email proxy
          Policies,            \* the [strictProxy, emailProxy, profile] options to scan
                               \* with; profile: [rules, severities, domains]
          Scopes               \* what Azure scope the scan was given

Consumption == {"microsoft_sentinel", "log_analytics",
                "defender_for_cloud_cspm", "defender_for_cloud_servers"}
Defender == {"defender_for_cloud_cspm", "defender_for_cloud_servers"}
Demo == {"microsoft_sentinel", "log_analytics"}
Licensed == DOMAIN LicenseCapability
Capability == Licensed \cup Consumption
StatusPriority == [gap |-> 0, partial |-> 1, skipped |-> 2, error |-> 3, ok |-> 4, not_licensed |-> 5]
SeverityRank == [critical |-> 0, high |-> 1, medium |-> 2, low |-> 3, info |-> 4]

ASSUME CatalogIsComplete ==
  /\ Catalog \in [CheckId -> [requires : SUBSET Capability,
                              mode : {"direct", "proxy", "email"},
                              inPack : BOOLEAN, implemented : BOOLEAN,
                              severity : DOMAIN SeverityRank]]
  /\ \A p \in Policies : /\ p.strictProxy \in BOOLEAN /\ p.emailProxy \in BOOLEAN
                         /\ DOMAIN p.profile.severities \subseteq CheckId
                         /\ \A rule \in Range(p.profile.rules) : IsRule(rule)
                         /\ p.profile.domains \in Seq(STRING)
  /\ Scopes \subseteq {"dry_run", "none", "workspace", "no_subscription"}

VARIABLES policy,      \* the quality options of this scan
          scope,       \* its Azure scope
          subscribed,  \* the SKUs the tenant subscribes to
          tenant,      \* the capabilities it really has
          probes,      \* probes still to run, in order
          owned,       \* capabilities the scan takes for owned
          unknown,     \* consumption capabilities that could not be observed
          config, collection, health,  \* evidence collection
          silent,      \* keys that failed without a reason
          finding,     \* check -> status of its finding
          outcome,     \* capability -> its status in the report
          rollup,      \* the headline counts
          custom,      \* what became of each rule of the profile, in order
          phase

azure == <<policy, scope, subscribed, tenant, probes, owned, unknown>>
evidence == <<config, collection, health, silent>>
report == <<outcome, rollup, custom>>
vars == <<azure, evidence, finding, report, phase>>

Collection == INSTANCE EvidenceCollection WITH status <- collection

\* the checks of a scan, as EvidenceGraph has them
ASSUME ChecksAreInputs ==
  \A c \in Configs : c.checks \in Seq(Collection!CheckEvidenceRequirement)

Verdicts == {"ok", "partial", "gap"}
NotYet == "not_yet"
EmptyRollup == [needs_attention |-> 0, partly_set_up |-> 0, assessment_incomplete |-> 0,
                fully_working |-> 0, not_licensed |-> 0, entitlement_unknown |-> 0,
                you_own |-> 0, realized_percent |-> 0]

\* resolve_owned_capabilities: an active SKU is known by its part number, an active
\* plan of one by its id, which outlives a change of name, or by its name.
ActiveSkus(skus) ==
  {s \in skus : s.status \notin {"disabled", "deleted", "suspended", "lockedout"}}
ActivePlans(skus) ==
  {p \in UNION {s.plans : s \in ActiveSkus(skus)} : p.status \in {"success", "enabled", ""}}
ByPlan(skus) ==
  {cap \in Licensed : \E p \in ActivePlans(skus) : \/ p.id \in LicenseCapability[cap].ids
                                                  \/ p.name \in LicenseCapability[cap].names}

\* The part number of a suite speaks for all its plans, those switched off included.
BySku(skus) ==
  {cap \in Licensed : \E s \in ActiveSkus(skus) : s.part \in LicenseCapability[cap].parts}
OwnedBySkus(skus) == ByPlan(skus) \cup BySku(skus)

Given(skus) == UNION {p.gives : p \in ActivePlans(skus)}

\* What the catalog says of a plan is so, and a capability that an active plan gives
\* is known by that plan or by its SKU.  What it says of a SKU need not be so.  What
\* Azure sells by use comes with no SKU.
ASSUME CatalogKnowsPlans ==
  /\ Licensed \cap Consumption = {}
  /\ \A skus \in Subscriptions : ByPlan(skus) \subseteq Given(skus)
                                /\ Given(skus) \subseteq OwnedBySkus(skus)

\* The capabilities of a catalog are few; see Percent.
ASSUME CapabilitiesAreFew == IsFiniteSet(Capability) /\ Cardinality(Capability) < 200

Init == /\ policy \in Policies
        /\ scope \in Scopes
        /\ probes = <<"sentinel", "log_analytics", "defender">>
        /\ subscribed \in Subscriptions
        /\ \E azure_owned \in SUBSET Consumption : tenant = azure_owned \cup Given(subscribed)
        /\ owned = OwnedBySkus(subscribed)
        /\ scope = "dry_run" => tenant \cap Consumption = Demo
        /\ unknown = {}
        /\ Collection!Init
        /\ silent = {}
        /\ finding = [c \in CheckId |-> NotYet]
        /\ outcome = [c \in Capability |-> NotYet]
        /\ rollup = EmptyRollup
        /\ custom = <<>>
        /\ phase = "probing"

-----------------------------------------------------------------------------
(* observe_consumption_entitlements and merge_consumption                    *)

Observed(o, u) == owned' = owned \cup o /\ unknown' = unknown \cup u

\* a demo tenant owns Sentinel and Log Analytics
ObserveDryRun == /\ phase = "probing" /\ scope = "dry_run"
                 /\ Observed(Demo, {})
                 /\ phase' = "collecting"
                 /\ UNCHANGED <<policy, scope, subscribed, tenant, probes, evidence, finding,
                                report>>

ObserveNoScope == /\ phase = "probing" /\ scope = "none"
                  /\ Observed({}, Consumption)
                  /\ phase' = "collecting"
                  /\ UNCHANGED <<policy, scope, subscribed, tenant, probes, evidence, finding,
                                 report>>

Probing(p) == /\ phase = "probing" /\ scope \in {"workspace", "no_subscription"}
              /\ probes # <<>> /\ Head(probes) = p
              /\ probes' = Tail(probes)
              /\ UNCHANGED <<policy, scope, subscribed, tenant, evidence, finding, report, phase>>

\* Mutant of ProbeWorkspace: a refused probe counts as "not there"
ProbeWorkspaceLoosely(p, cap) == /\ Probing(p)
                                 /\ \/ Observed({cap} \cap tenant, {})
                                    \/ Observed({}, {})

\* 200 owns, 404 does not, any other Graph error leaves the capability unknown
ProbeWorkspace(p, cap) ==
  /\ Probing(p)
  /\ \/ Observed({cap} \cap tenant, {})
     \/ Observed({}, {cap})

ProbeSentinel == ProbeWorkspace("sentinel", "microsoft_sentinel")
ProbeLogAnalytics == ProbeWorkspace("log_analytics", "log_analytics")

\* the plans are read from the subscription named in the workspace id; an id
\* that names none skips the probe without a word
ProbeDefender ==
  /\ Probing("defender")
  /\ \/ /\ scope = "workspace"
        /\ \/ Observed(Defender \cap tenant, {})
           \/ Observed({}, Defender)
     \/ /\ scope = "no_subscription"
        /\ Observed({}, {})

\* no ARM token: what was observed before is dropped with the rest
AuthFails == /\ phase = "probing" /\ scope \in {"workspace", "no_subscription"}
             /\ probes # <<>>
             /\ owned' = owned \ Consumption
             /\ unknown' = Consumption
             /\ probes' = <<>>
             /\ UNCHANGED <<policy, scope, subscribed, tenant, evidence, finding, report, phase>>

\* a 200 whose body is not JSON: ArmClient.get lets the decoder's ValueError out
ProbeRaises == /\ phase = "probing" /\ scope \in {"workspace", "no_subscription"}
               /\ probes # <<>>
               /\ Head(probes) = "defender" => scope = "workspace"
               /\ phase' = "raised"
               /\ UNCHANGED <<azure, evidence, finding, report>>

ProbesDone == /\ phase = "probing" /\ probes = <<>>
              /\ phase' = "collecting"
              /\ UNCHANGED <<azure, evidence, finding, report>>

-----------------------------------------------------------------------------
(* EvidencePlanner.collect, as EvidenceCollection promises it.  An exception  *)
(* may have no text (planner.py:201): the envelope then has no reason.        *)

Collect == /\ phase = "collecting"
           /\ Collection!Next
           /\ phase' = CASE collection' = "done" -> "evaluating"
                         [] collection' \in {"refused", "aborted"} -> "raised"
                         [] OTHER -> phase
           /\ \/ silent' = {}
              \/ \E k \in DOMAIN health : /\ collection' = "done" /\ health[k] = "error"
                                         /\ silent' = {k}
           /\ UNCHANGED <<azure, finding, report>>

-----------------------------------------------------------------------------
(* evaluate_check                                                            *)

SelectedIds == {config.checks[i].id : i \in DOMAIN config.checks}
RequiredKeys(c) == UNION {config.checks[i].keys : i \in {j \in DOMAIN config.checks :
                                                            config.checks[j].id = c}}
Requires(c) == Catalog[c].requires

\* Mutant of Eligible: every required capability must be owned
EligibleForAll(c) == Requires(c) \subseteq owned

\* any one of the required capabilities makes the check apply
Eligible(c) == Requires(c) = {} \/ Requires(c) \cap owned # {}

\* Mutant of Lacking: evidence nobody produced is forgiven
LackingIgnoresUnavailable(c) ==
  {k \in RequiredKeys(c) \ OptionalMissing : health[k] \notin {"ok", "truncated", "unavailable"}}

\* envelopes_to_evidence: the value of what was read, or else the reason why it
\* was not, if there is one, and for some keys an empty value.
HasValue(k) == health[k] \in {"ok", "truncated"} \/ k \in Defaulted
HasError(k) == health[k] \notin {"ok", "truncated"} /\ k \notin silent

\* the required keys that left an error, or nothing at all, in the evidence
Lacking(c) == {k \in RequiredKeys(c) \ OptionalMissing : HasError(k) \/ ~HasValue(k)}

\* the email policy may be read directly when Exchange evidence is healthy
MayBeDirect(c) == Catalog[c].mode = "email" /\ ExchangeKey \in DOMAIN health
                    /\ IsUsable(health[ExchangeKey])

\* apply_quality_policy: a proxy under the strict policy and an incomplete
\* surface lose a clean pass; nothing is ever promoted
Demoted(v, proxy, incomplete) ==
  IF v = "ok" /\ ((proxy /\ policy.strictProxy) \/ incomplete) THEN "partial" ELSE v

\* the status the gates settle by themselves, before any evaluator runs
Gate(c, direct) ==
  IF ~Eligible(c) THEN IF Requires(c) \cap unknown # {} THEN {"error"} ELSE {"not_licensed"}
  ELSE IF \/ ~Catalog[c].implemented
          \/ Catalog[c].mode = "email" /\ ~direct /\ ~policy.emailProxy
  THEN {"skipped"}
  ELSE IF Lacking(c) # {} /\ ~direct THEN {"error"}
  ELSE {}

\* what evaluate_check may return; an evaluator that raises is an error
Findings(c) ==
  UNION {LET proxy == Catalog[c].mode = "proxy" \/ (Catalog[c].mode = "email" /\ ~direct)
         IN IF Gate(c, direct) # {} THEN Gate(c, direct)
            ELSE {"error"} \cup {Demoted(v, proxy, i) : v \in Verdicts, i \in BOOLEAN} :
         direct \in IF MayBeDirect(c) THEN BOOLEAN ELSE {FALSE}}

Position(c) == CHOOSE i \in DOMAIN config.checks : config.checks[i].id = c

\* in the order of the checks
Evaluate(c) ==
  /\ phase = "evaluating"
  /\ c \in SelectedIds /\ finding[c] = NotYet
  /\ \A d \in SelectedIds : Position(d) < Position(c) => finding[d] # NotYet
  /\ \E s \in Findings(c) : finding' = [finding EXCEPT ![c] = s]
  /\ UNCHANGED <<azure, evidence, report, phase>>

-----------------------------------------------------------------------------
(* The profile's rules see the findings by status, severity and id, with the  *)
(* severities it overrides, before any finding of a rule is added.            *)

Before(status, c, d) ==
  LET key(e) == <<StatusPriority[status[e]], SeverityRank[Catalog[e].severity], e>>
      differ == {i \in 1..3 : key(c)[i] # key(d)[i]}
  IN  differ # {} /\ LET i == CHOOSE i \in differ : \A j \in differ : i <= j
                     IN  key(c)[i] < key(d)[i]

Sorted(status, checks) == SetToSortSeq(checks, LAMBDA c, d : Before(status, c, d))
SortedKeys(h) == SetToSortSeq(DOMAIN h, <)

Severity(profile, c) == IF c \in DOMAIN profile.severities
                        THEN profile.severities[c] ELSE Catalog[c].severity

\* what the selectors of the rules select
SelectorContext(profile, checks, status, h) ==
  LET ids == Sorted(status, checks)
      keys == SortedKeys(h)
      findings == 1..Cardinality(checks)
  IN  [status |-> [i \in findings |-> status[ids[i]]],
       severity |-> [i \in findings |-> Severity(profile, ids[i])],
       check_id |-> [i \in findings |-> ids[i]],
       evaluation_mode |-> [i \in findings |-> Catalog[ids[i]].mode],
       domains |-> profile.domains,
       collection |-> [i \in 1..Cardinality(DOMAIN h) |-> CollectionStatus(h[keys[i]])]]

RuleContext == SelectorContext(policy.profile, SelectedIds, finding, health)

-----------------------------------------------------------------------------
(* capability_rollup: over every check of the catalog, selected or not; a    *)
(* check that did not run has no finding and no say.                         *)

Related(cap) == {c \in CheckId : cap \in Requires(c)}
InPack == {c \in CheckId : Catalog[c].inPack}
Statuses(checks) == {finding[c] : c \in checks} \ {NotYet}

\* Mutant of StatusOf: errors beside a clean pass are overlooked
StatusOfAssessed(ss) ==
  IF "gap" \in ss          THEN "needs_attention"
  ELSE IF "partial" \in ss THEN "partly_set_up"
  ELSE IF "ok" \in ss      THEN "fully_working"
  ELSE IF ss \cap {"error", "skipped"} # {} THEN "assessment_incomplete"
  ELSE NotYet

StatusOf(ss) ==
  IF "gap" \in ss          THEN "needs_attention"
  ELSE IF "partial" \in ss THEN "partly_set_up"
  ELSE IF ss \cap {"error", "skipped"} # {} THEN "assessment_incomplete"
  ELSE IF ss = {"ok"}      THEN "fully_working"
  ELSE NotYet

CapabilityOutcome(cap) ==
  IF cap \notin owned THEN NotYet
  ELSE IF StatusOf(Statuses(Related(cap) \cap InPack)) # NotYet
  THEN StatusOf(Statuses(Related(cap) \cap InPack))
  ELSE StatusOf(Statuses(Related(cap)))

Referenced == UNION {Requires(c) : c \in InPack}
Counted(status) ==
  Cardinality({cap \in owned : StatusOf(Statuses(Related(cap) \cap InPack)) = status})

\* round(100 * part / whole), ties to the even number
Percent(part, whole) ==
  LET q == (100 * part) \div whole
      r == (100 * part) % whole
  IN IF 2 * r > whole \/ (2 * r = whole /\ q % 2 = 1) THEN q + 1 ELSE q

RollUp ==
  LET working == Counted("fully_working")
      youOwn == working + Counted("needs_attention") + Counted("partly_set_up")
  IN [needs_attention |-> Counted("needs_attention"),
      partly_set_up |-> Counted("partly_set_up"),
      assessment_incomplete |-> Counted("assessment_incomplete"),
      fully_working |-> working,
      not_licensed |-> Cardinality((Referenced \ owned) \ unknown),
      entitlement_unknown |-> Cardinality(Referenced \cap unknown),
      you_own |-> youOwn,
      realized_percent |-> IF youOwn = 0 THEN 0 ELSE Percent(working, youOwn)]

Report == /\ phase = "evaluating"
          /\ \A c \in SelectedIds : finding[c] # NotYet
          /\ outcome' = [cap \in Capability |-> CapabilityOutcome(cap)]
          /\ rollup' = RollUp
          /\ LET context == RuleContext IN
               \E late \in 1..Len(policy.profile.rules) + 1 :
                 custom' = RulesApplied(policy.profile.rules, context, late)
          /\ phase' = "done"
          /\ UNCHANGED <<azure, evidence, finding>>

Next == \/ ObserveDryRun \/ ObserveNoScope
        \/ ProbeSentinel \/ ProbeLogAnalytics \/ ProbeDefender
        \/ AuthFails \/ ProbeRaises \/ ProbesDone
        \/ Collect
        \/ \E c \in CheckId : Evaluate(c)
        \/ Report

Spec == Init /\ [][Next]_vars

-----------------------------------------------------------------------------
(* "Missing evidence stays missing": a capability the tenant has is never    *)
(* reported as not licensed, whatever the probes ran into, if the Azure      *)
(* scope named its subscription.                                             *)
NotLicensedIsTrue ==
  scope # "no_subscription" =>
    \A c \in CheckId : finding[c] = "not_licensed" => Requires(c) \cap tenant = {}

\* what the catalog maps an active plan or SKU of the tenant to, and what is in Azure
Entitlements == tenant \cup BySku(subscribed)

(* A verdict rests on an entitlement and on evidence that was collected.  The *)
(* entitlement is there: an active plan gives it, Azure has it, or the        *)
(* catalog maps an active SKU to it, whatever became of the SKU's plans.      *)
(* Neither a failed collector nor one that was blocked by another lets a      *)
(* check through, unless it failed without a word and has an empty value by   *)
(* default (runtime_envelopes.py:167).  A proxy never passes cleanly under    *)
(* strict policy.  A rule of the profile has a finding if it holds of the     *)
(* findings, and none if it does not: where the budget runs out it is an      *)
(* error.                                                                     *)
VerdictIsGrounded ==
  /\ \A c \in CheckId :
       /\ finding[c] \in Verdicts =>
            /\ Requires(c) = {} \/ Requires(c) \cap Entitlements # {}
            /\ \/ \A k \in RequiredKeys(c) \ OptionalMissing :
                    health[k] \in {"ok", "truncated"} \/ k \in silent \cap Defaulted
               \/ MayBeDirect(c)
       /\ finding[c] = "ok" /\ policy.strictProxy =>
            Catalog[c].mode = "direct" \/ MayBeDirect(c)
  /\ Len(policy.profile.rules) <= MaxRules =>
       LET context == RuleContext IN
         \A i \in DOMAIN custom :
           custom[i] # "error" =>
             (custom[i] = "matched" <=> RuleHolds(policy.profile.rules[i], context))

(* A capability shown as fully working is an entitlement with a clean pass   *)
(* of every check of it that ran in the scanned packs, or of every one that  *)
(* ran when the packs hold none: an error or a skipped check beside a clean  *)
(* pass is not overlooked.  Checks that were not selected have no say.       *)
FullyWorkingIsEarned ==
  \A cap \in Capability : outcome[cap] = "fully_working" =>
    LET ran == Related(cap) \cap SelectedIds
    IN  /\ cap \in Entitlements
        /\ ran # {}
        /\ \/ \A c \in ran : finding[c] = "ok"
           \/ ran \cap InPack # {} /\ \A c \in ran \cap InPack : finding[c] = "ok"

(* The headline leaves no capability out: each one the packs refer to, and   *)
(* that ran a check if it is owned, is counted exactly once, and 100 percent *)
(* means that every assessed one is fully working.                           *)
EveryCapabilityIsCounted ==
  phase = "done" =>
    /\ rollup.you_own + rollup.assessment_incomplete + rollup.not_licensed
         + rollup.entitlement_unknown
       = Cardinality({cap \in Referenced :
                        cap \in owned => Related(cap) \cap InPack \cap SelectedIds # {}})
    /\ rollup.realized_percent = 100 => rollup.fully_working = rollup.you_own
=============================================================================
