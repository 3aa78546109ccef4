--------------------------- MODULE ScanRun_proof ---------------------------
(***************************************************************************)
(* No verdict without an entitlement and evidence, no capability lost from *)
(* the headline, and no rule misread, for any catalog, any tenant and any  *)
(* outcome of the probes, the collectors and the evaluators.               *)
(***************************************************************************)
EXTENDS ScanRun, FiniteSetTheorems, SequenceTheorems, TLAPS

-----------------------------------------------------------------------------
(* The rules of a profile: what their evaluation up to the first condition   *)
(* that decides has to do with what they say.                                *)

Outcomes == {"true", "false", "error"}

\* A set of naturals that is not empty has a least element.
LEMMA LeastIsMember ==
  ASSUME NEW S \in SUBSET Nat, S # {}
  PROVE  Min(S) \in S
<1> DEFINE Less == {p \in Nat \X Nat : p[1] < p[2]}
<1>1. IsWellFoundedOn(Less, Nat)
  <2>1. OpToRel(<, Nat) = Less
    BY DEF OpToRel
  <2> QED
    BY <2>1, NatLessThanWellFounded
<1>2. PICK x \in S : \A y \in S : <<y, x>> \notin Less
  BY <1>1, WFMin
<1>3. ASSUME NEW y \in S PROVE x =< y
  <2>1. <<y, x>> \in Nat \X Nat /\ <<y, x>>[1] = y /\ <<y, x>>[2] = x
    OBVIOUS
  <2>2. ~(y < x)
    BY <1>2, <2>1
  <2> QED
    BY <2>2
<1> QED
  BY <1>3 DEF Min

\* A comparison has one of three outcomes.
LEMMA CompareHasAnOutcome ==
  ASSUME NEW op \in Operators, NEW actual, NEW expected
  PROVE  Compare(op, actual, expected) \in Outcomes
<1>1. \A b : Truth(b) \in Outcomes
  BY DEF Truth, Outcomes
<1>2. CASE op \in {"eq", "ne"}
  BY <1>1, <1>2 DEF Compare, Outcomes
<1>3. CASE op \in {"in", "not_in"}
  BY <1>1, <1>3 DEF Compare, Outcomes
<1>4. CASE op \in {"gt", "gte", "lt", "lte"}
  BY <1>1, <1>4 DEF Compare, Outcomes
<1>5. CASE op = "exists"
  BY <1>5 DEF Compare, Outcomes
<1> QED
  BY <1>2, <1>3, <1>4, <1>5 DEF Operators

\* A condition that can be evaluated is true exactly if it holds: the selected
\* values behind the one that decided do not matter.
LEMMA ConditionIsDecided ==
  ASSUME NEW context, NEW c, IsCondition(c), NEW S, context[c.selector] \in Seq(S)
  PROVE  LET match == ConditionResult(c, context).match
         IN  /\ match \in Outcomes
             /\ match # "error" => (match = "true" <=> ConditionHolds(c, context))
<1> DEFINE values == context[c.selector]
           results == [i \in DOMAIN values |-> Compare(c.operator, Text(values[i]), c.value)]
           deciding == {i \in 1..Len(results) : results[i] # Undecided(c.collection)}
           decisive == SelectInSeq(results, LAMBDA r : r # Undecided(c.collection))
<1>1. /\ DOMAIN values = 1..Len(values) /\ Len(values) \in Nat
      /\ DOMAIN results = 1..Len(values) /\ Len(results) = Len(values)
  <2>1. DOMAIN values = 1..Len(values) /\ Len(values) \in Nat
    OBVIOUS
  <2>2. results \in Seq(Outcomes)
    BY <2>1, CompareHasAnOutcome DEF IsCondition
  <2> QED
    BY <2>1, <2>2
<1>2. \A i \in DOMAIN values : results[i] \in Outcomes
  BY CompareHasAnOutcome DEF IsCondition
<1>3. decisive = IF deciding # {} THEN Min(deciding) ELSE 0
  BY DEF SelectInSeq
<1>4. deciding # {} => decisive \in deciding
  <2>1. deciding \in SUBSET Nat
    BY <1>1
  <2> HIDE DEF deciding
  <2> QED
    BY <1>3, <2>1, LeastIsMember
<1>5. CASE c.collection = "count"
  <2>1. ConditionResult(c, context).match = Compare(c.operator, Number(Len(values)), c.value)
    BY <1>5 DEF ConditionResult
  <2>2. ConditionHolds(c, context)
          <=> Compare(c.operator, Number(Len(values)), c.value) = "true"
    BY <1>5 DEF ConditionHolds
  <2> QED
    BY <2>1, <2>2, CompareHasAnOutcome DEF IsCondition
<1>6. CASE c.collection = "any"
  <2>1. Undecided(c.collection) = "false"
    BY <1>6 DEF Undecided
  <2>2. ConditionHolds(c, context) <=> \E i \in DOMAIN values : results[i] = "true"
    BY <1>6 DEF ConditionHolds, Range
  <2>3. CASE deciding = {}
    <3>1. decisive = 0
      BY <1>3, <2>3
    <3>2. ConditionResult(c, context).match = "false"
      BY <1>6, <2>1, <3>1 DEF ConditionResult
    <3>3. \A i \in DOMAIN values : results[i] = "false"
      BY <1>1, <2>1, <2>3
    <3> QED
      BY <2>2, <3>2, <3>3 DEF Outcomes
  <2>4. CASE deciding # {}
    <3>1. decisive \in DOMAIN values /\ results[decisive] # "false"
      BY <1>1, <1>4, <2>1, <2>4
    <3>2. decisive # 0
      BY <1>1, <3>1
    <3> HIDE DEF decisive
    <3>3. ConditionResult(c, context).match = results[decisive]
      BY <1>6, <3>2 DEF ConditionResult, decisive
    <3> HIDE DEF results
    <3> QED
      BY <1>2, <2>2, <3>1, <3>3 DEF Outcomes
  <2> QED
    BY <2>3, <2>4
<1>7. CASE c.collection = "all"
  <2>1. Undecided(c.collection) = "true"
    BY <1>7 DEF Undecided
  <2>2. ConditionHolds(c, context)
          <=> DOMAIN values # {} /\ \A i \in DOMAIN values : results[i] = "true"
    BY <1>7 DEF ConditionHolds, Range
  <2>3. CASE values = <<>>
    <3>1. ConditionResult(c, context).match = "false"
      BY <1>7, <2>3 DEF ConditionResult
    <3>2. DOMAIN values = {}
      BY <2>3
    <3> QED
      BY <2>2, <3>1, <3>2 DEF Outcomes
  <2>4. CASE values # <<>> /\ deciding = {}
    <3>1. decisive = 0
      BY <1>3, <2>4
    <3>2. ConditionResult(c, context).match = "true"
      BY <1>7, <2>1, <2>4, <3>1 DEF ConditionResult
    <3>3. \A i \in DOMAIN values : results[i] = "true"
      BY <1>1, <2>1, <2>4
    <3>4. DOMAIN values # {}
      <4>1. Len(values) # 0
        BY <2>4, EmptySeq
      <4>2. DOMAIN values = 1..Len(values) /\ Len(values) \in Nat
        BY <1>1
      <4> HIDE DEF values
      <4>3. 1 \in 1..Len(values)
        BY <4>1, <4>2
      <4> QED
        BY <4>2, <4>3
    <3> QED
      BY <2>2, <3>2, <3>3, <3>4 DEF Outcomes
  <2>5. CASE values # <<>> /\ deciding # {}
    <3>1. decisive \in DOMAIN values /\ results[decisive] # "true"
      BY <1>1, <1>4, <2>1, <2>5
    <3>2. decisive # 0
      BY <1>1, <3>1
    <3> HIDE DEF decisive
    <3>3. ConditionResult(c, context).match = results[decisive]
      BY <1>7, <2>5, <3>2 DEF ConditionResult, decisive
    <3> HIDE DEF results
    <3> QED
      BY <1>2, <2>2, <3>1, <3>3 DEF Outcomes
  <2> QED
    BY <2>3, <2>4, <2>5
<1> QED
  BY <1>5, <1>6, <1>7 DEF IsCondition

\* A rule that can be evaluated is true exactly if all it says holds.
LEMMA RuleIsDecided ==
  ASSUME NEW context, NEW rule, IsRule(rule),
         \A selector \in Selectors : \E S : context[selector] \in Seq(S)
  PROVE  LET match == RuleResult(rule, context).match
         IN  match # "error" => (match = "true" <=> RuleHolds(rule, context))
<1> DEFINE parts == Parts(rule)
           results == [i \in DOMAIN parts |-> ConditionResult(parts[i], context)]
           failing == {i \in 1..Len(results) : results[i].match # "true"}
           first == SelectInSeq(results, LAMBDA r : r.match # "true")
           last == IF first = 0 THEN Len(results) ELSE first
<1>1. /\ DOMAIN parts = 1..Len(parts) /\ Len(parts) \in Nat \ {0}
      /\ DOMAIN results = 1..Len(parts) /\ Len(results) = Len(parts)
  <2>1. rule.conditions \in Seq(Range(rule.conditions) \cup {rule})
    BY DEF IsRule
  <2>2. parts \in Seq(Range(rule.conditions) \cup {rule})
    BY <2>1 DEF Parts
  <2>3. Len(parts) = Len(rule.conditions) + 1
    BY <2>1 DEF Parts
  <2>4. DOMAIN parts = 1..Len(parts) /\ Len(parts) \in Nat \ {0}
    BY <2>1, <2>2, <2>3
  <2>5. results \in Seq({results[i] : i \in DOMAIN parts})
    BY <2>4
  <2> QED
    BY <2>4, <2>5
<1>2. ASSUME NEW i \in DOMAIN parts
      PROVE  /\ results[i].match \in Outcomes
             /\ results[i].match # "error" =>
                  (results[i].match = "true" <=> ConditionHolds(parts[i], context))
  <2>1. IsCondition(parts[i])
    BY DEF IsRule, Range
  <2>2. PICK S : context[parts[i].selector] \in Seq(S)
    BY <2>1 DEF IsCondition
  <2> QED
    BY <2>1, <2>2, ConditionIsDecided
<1>3. first = IF failing # {} THEN Min(failing) ELSE 0
  BY DEF SelectInSeq
<1>4. RuleResult(rule, context).match = results[last].match
  BY DEF RuleResult
<1>5. RuleHolds(rule, context) <=> \A i \in DOMAIN parts : ConditionHolds(parts[i], context)
  BY DEF RuleHolds, Range
<1>6. CASE failing = {}
  <2>1. last = Len(parts)
    BY <1>1, <1>3, <1>6
  <2>2. \A i \in DOMAIN parts : results[i].match = "true"
    BY <1>1, <1>6
  <2> HIDE DEF results, parts, last
  <2> QED
    BY <1>1, <1>2, <1>4, <1>5, <2>1, <2>2 DEF Outcomes
<1>7. CASE failing # {}
  <2>1. Min(failing) \in failing
    <3>1. failing \in SUBSET Nat
      BY <1>1
    <3> HIDE DEF failing
    <3> QED
      BY <1>7, <3>1, LeastIsMember
  <2>2. last \in DOMAIN parts /\ results[last].match # "true"
    BY <1>1, <1>3, <1>7, <2>1
  <2> HIDE DEF results, parts, last
  <2> QED
    BY <1>2, <1>4, <1>5, <2>2 DEF Outcomes
<1> QED
  BY <1>6, <1>7

-----------------------------------------------------------------------------
(* The gates: what the status of a finding says.                            *)

\* A finding is a verdict, or what a gate says, or an error.
LEMMA AllowedFindings ==
  ASSUME NEW c, NEW s \in Findings(c)
  PROVE  s \in Verdicts \cup {"error", "skipped", "not_licensed"}
<1> DEFINE proxy(direct) == Catalog[c].mode = "proxy" \/ (Catalog[c].mode = "email" /\ ~direct)
           verdicts(direct) == {Demoted(v, proxy(direct), i) : v \in Verdicts, i \in BOOLEAN}
           allowed(direct) == IF Gate(c, direct) # {} THEN Gate(c, direct)
                              ELSE {"error"} \cup verdicts(direct)
           ways == IF MayBeDirect(c) THEN BOOLEAN ELSE {FALSE}
<1>1. PICK direct \in ways : s \in allowed(direct)
  <2>1. Findings(c) = UNION {allowed(direct) : direct \in ways}
    BY DEF Findings
  <2> HIDE DEF allowed, ways
  <2> QED
    BY <2>1
<1>2. Gate(c, direct) \subseteq {"error", "skipped", "not_licensed"}
  BY DEF Gate
<1>3. verdicts(direct) \subseteq Verdicts
  BY DEF Demoted, Verdicts
<1> HIDE DEF verdicts
<1> QED
  BY <1>1, <1>2, <1>3

\* A verdict has passed both gates, a clean pass the quality policy as well; a
\* check that is not licensed lacks nothing that might be there unseen.
LEMMA WhatAFindingSays ==
  ASSUME NEW c \in CheckId, finding[c] \in Findings(c)
  PROVE  /\ finding[c] \in Verdicts =>
              Eligible(c) /\ (Lacking(c) = {} \/ MayBeDirect(c))
         /\ finding[c] = "ok" /\ policy.strictProxy =>
              Catalog[c].mode = "direct" \/ MayBeDirect(c)
         /\ finding[c] = "not_licensed" => ~Eligible(c) /\ Requires(c) \cap unknown = {}
         /\ finding[c] \in Verdicts \cup {"error", "skipped", "not_licensed"}
<1> DEFINE proxy(direct) == Catalog[c].mode = "proxy" \/ (Catalog[c].mode = "email" /\ ~direct)
           verdicts(direct) == {Demoted(v, proxy(direct), i) : v \in Verdicts, i \in BOOLEAN}
           allowed(direct) == IF Gate(c, direct) # {} THEN Gate(c, direct)
                              ELSE {"error"} \cup verdicts(direct)
           ways == IF MayBeDirect(c) THEN BOOLEAN ELSE {FALSE}
<1>1. PICK direct \in ways : finding[c] \in allowed(direct)
  <2>1. Findings(c) = UNION {allowed(direct) : direct \in ways}
    BY DEF Findings
  <2> HIDE DEF allowed, ways
  <2> QED
    BY <2>1
<1>2. ~direct \/ MayBeDirect(c)
  BY <1>1
<1>3. CASE Gate(c, direct) # {}
  <2>1. finding[c] \in Gate(c, direct)
    BY <1>1, <1>3
  <2>2. /\ finding[c] \in {"error", "not_licensed", "skipped"}
        /\ finding[c] = "not_licensed" => ~Eligible(c) /\ Requires(c) \cap unknown = {}
    BY <2>1 DEF Gate
  <2> QED
    BY <2>2 DEF Verdicts
<1>4. CASE Gate(c, direct) = {}
  <2>1. finding[c] \in {"error"} \cup verdicts(direct)
    BY <1>1, <1>4
  <2>2. Eligible(c) /\ (Lacking(c) = {} \/ direct)
    BY <1>4 DEF Gate
  <2>3. verdicts(direct) \subseteq Verdicts
    BY DEF Demoted, Verdicts
  <2>4. ASSUME "ok" \in verdicts(direct), policy.strictProxy PROVE ~proxy(direct)
    BY <2>4 DEF Demoted
  <2>5. ~proxy(direct) => Catalog[c].mode = "direct" \/ direct
    BY CatalogIsComplete
  <2> HIDE DEF verdicts, proxy
  <2> QED
    BY <1>2, <2>1, <2>2, <2>3, <2>4, <2>5 DEF Verdicts
<1> QED
  BY <1>3, <1>4

-----------------------------------------------------------------------------
(* The inductive invariant.                                                 *)

FullProbes == <<"sentinel", "log_analytics", "defender">>

\* What the probes still to run will say something of.
Pending == CASE probes = FullProbes -> Consumption
             [] probes = <<"log_analytics", "defender">> -> {"log_analytics"} \cup Defender
             [] probes = <<"defender">> -> Defender
             [] probes = <<>> -> {}

\* The shape of the state.
Shape == /\ policy \in Policies
         /\ scope \in {"dry_run", "none", "workspace", "no_subscription"}
         /\ probes \in {FullProbes, <<"log_analytics", "defender">>, <<"defender">>, <<>>}
         /\ config \in Configs
         /\ IsFiniteSet(DOMAIN health)
         /\ finding \in [CheckId -> Verdicts \cup {"error", "skipped", "not_licensed", NotYet}]
         /\ phase \in {"probing", "collecting", "evaluating", "done", "raised"}

\* What is taken for owned is there, or the catalog maps a SKU to it; a probe leaves nothing it was to look at
\* both unowned and unsaid, unless the workspace id named no subscription.
EntitlementsAreTrue ==
  /\ tenant \subseteq Capability /\ unknown \subseteq Consumption
  /\ owned \subseteq Entitlements /\ owned \cap unknown = {}
  /\ tenant \cap Licensed \subseteq owned
  /\ scope = "dry_run" => tenant \cap Consumption = Demo
  /\ phase = "probing" =>
       /\ Pending \cap (owned \cup unknown) = {}
       /\ scope \in {"dry_run", "none"} => probes = FullProbes
       /\ scope # "no_subscription" => tenant \subseteq owned \cup unknown \cup Pending
  /\ phase \in {"collecting", "evaluating", "done"} /\ scope # "no_subscription" =>
       tenant \subseteq owned \cup unknown

\* A finding is one that the gates and the quality policy allow.
FindingsAreAllowed ==
  \A c \in CheckId : finding[c] # NotYet =>
    phase \in {"evaluating", "done"} /\ c \in SelectedIds /\ finding[c] \in Findings(c)

\* The report is made of all the findings.
ReportIsComplete ==
  /\ phase = "done" =>
       /\ \A c \in SelectedIds : finding[c] # NotYet
       /\ outcome = [cap \in Capability |-> CapabilityOutcome(cap)]
       /\ rollup = RollUp
       /\ \E late \in 1..Len(policy.profile.rules) + 1 :
            custom = RulesApplied(policy.profile.rules, RuleContext, late)
  /\ phase # "done" => outcome = [cap \in Capability |-> NotYet] /\ custom = <<>>

ScanInv == Shape /\ EntitlementsAreTrue /\ FindingsAreAllowed /\ ReportIsComplete

-----------------------------------------------------------------------------
(* What the invariant says of the findings and of the report.               *)

\* The properties of the gates follow from the invariant.
LEMMA EntitlementsAreRespected ==
  ASSUME ScanInv
  PROVE  NotLicensedIsTrue
<1> SUFFICES ASSUME scope # "no_subscription", NEW c \in CheckId, finding[c] = "not_licensed"
             PROVE  Requires(c) \cap tenant = {}
  BY DEF NotLicensedIsTrue
<1>1. finding[c] # NotYet
  BY DEF NotYet
<1>2. phase \in {"evaluating", "done"} /\ finding[c] \in Findings(c)
  BY <1>1 DEF ScanInv, FindingsAreAllowed
<1>3. ~Eligible(c) /\ Requires(c) \cap unknown = {}
  BY <1>2, WhatAFindingSays
<1>4. tenant \subseteq owned \cup unknown
  BY <1>2 DEF ScanInv, EntitlementsAreTrue
<1> QED
  BY <1>3, <1>4 DEF Eligible

\* Every finding that a check can have.
LEMMA VerdictsAreGrounded ==
  ASSUME ScanInv, NEW c \in CheckId
  PROVE  /\ finding[c] \in Verdicts =>
              /\ Requires(c) = {} \/ Requires(c) \cap Entitlements # {}
              /\ \/ \A k \in RequiredKeys(c) \ OptionalMissing :
                      health[k] \in {"ok", "truncated"} \/ k \in silent \cap Defaulted
                 \/ MayBeDirect(c)
         /\ finding[c] = "ok" /\ policy.strictProxy =>
              Catalog[c].mode = "direct" \/ MayBeDirect(c)
<1>1. CASE finding[c] \notin Verdicts
  BY <1>1 DEF Verdicts
<1>2. CASE finding[c] \in Verdicts
  <2>1. finding[c] \in Findings(c)
    BY <1>2 DEF ScanInv, FindingsAreAllowed, Verdicts, NotYet
  <2>2. /\ Eligible(c)
        /\ Lacking(c) = {} \/ MayBeDirect(c)
        /\ finding[c] = "ok" /\ policy.strictProxy =>
             Catalog[c].mode = "direct" \/ MayBeDirect(c)
    BY <1>2, <2>1, WhatAFindingSays
  <2>3. Requires(c) = {} \/ Requires(c) \cap Entitlements # {}
    BY <2>2 DEF Eligible, ScanInv, EntitlementsAreTrue
  <2>4. ASSUME Lacking(c) = {}, NEW k \in RequiredKeys(c) \ OptionalMissing
        PROVE  health[k] \in {"ok", "truncated"} \/ k \in silent \cap Defaulted
    <3>1. ~HasError(k) /\ HasValue(k)
      BY <2>4 DEF Lacking
    <3> QED
      BY <3>1 DEF HasError, HasValue
  <2> QED
    BY <2>2, <2>3, <2>4
<1> QED
  BY <1>1, <1>2

\* What the rules select is a sequence.
LEMMA SelectionsAreSequences ==
  ASSUME Shape, NEW selector \in Selectors
  PROVE  \E S : RuleContext[selector] \in Seq(S)
<1> DEFINE ids == Sorted(finding, SelectedIds)
           keys == SortedKeys(health)
           m == Cardinality(SelectedIds)
           n == Cardinality(DOMAIN health)
<1>1. m \in Nat
  <2>1. config.checks \in Seq(Collection!CheckEvidenceRequirement)
    BY ChecksAreInputs DEF Shape
  <2>2. DOMAIN config.checks = 1..Len(config.checks) /\ Len(config.checks) \in Nat
    BY <2>1
  <2>3. IsFiniteSet(DOMAIN config.checks)
    BY <2>2, FS_Interval
  <2>4. IsFiniteSet(SelectedIds)
    <3> DEFINE f == [i \in DOMAIN config.checks |-> config.checks[i].id]
    <3>1. f \in Surjection(DOMAIN config.checks, SelectedIds)
      BY DEF Surjection, SelectedIds
    <3> QED
      BY <2>3, <3>1, FS_Surjection
  <2> QED
    BY <2>4, FS_CardinalityType
<1>2. n \in Nat
  BY FS_CardinalityType DEF Shape
<1>3. /\ RuleContext.status = [i \in 1..m |-> finding[ids[i]]]
      /\ RuleContext.severity = [i \in 1..m |-> Severity(policy.profile, ids[i])]
      /\ RuleContext.check_id = [i \in 1..m |-> ids[i]]
      /\ RuleContext.evaluation_mode = [i \in 1..m |-> Catalog[ids[i]].mode]
      /\ RuleContext.domains = policy.profile.domains
      /\ RuleContext.collection = [i \in 1..n |-> CollectionStatus(health[keys[i]])]
  BY DEF RuleContext, SelectorContext
<1>4. ASSUME NEW l \in Nat, NEW f, f = [i \in 1..l |-> f[i]]
      PROVE  f \in Seq({f[i] : i \in 1..l})
  BY <1>4
<1>5. policy.profile.domains \in Seq(STRING)
  BY CatalogIsComplete DEF Shape
<1> HIDE DEF ids, keys, m, n
<1>6. CASE selector = "status"
  BY <1>1, <1>3, <1>4, <1>6
<1>7. CASE selector = "severity"
  BY <1>1, <1>3, <1>4, <1>7
<1>8. CASE selector = "check_id"
  BY <1>1, <1>3, <1>4, <1>8
<1>9. CASE selector = "evaluation_mode"
  BY <1>1, <1>3, <1>4, <1>9
<1>10. CASE selector = "domains"
  BY <1>3, <1>5, <1>10
<1>11. CASE selector = "collection"
  BY <1>2, <1>3, <1>4, <1>11
<1> QED
  BY <1>6, <1>7, <1>8, <1>9, <1>10, <1>11 DEF Selectors

\* What became of a rule, if it could be evaluated, is what it says.
LEMMA RulesAreGrounded ==
  ASSUME ScanInv, Len(policy.profile.rules) <= MaxRules, NEW i \in DOMAIN custom,
         custom[i] # "error"
  PROVE  custom[i] = "matched" <=> RuleHolds(policy.profile.rules[i], RuleContext)
<1> DEFINE rules == policy.profile.rules
<1>1. phase = "done"
  <2>1. custom # <<>>
    OBVIOUS
  <2> QED
    BY <2>1 DEF ScanInv, ReportIsComplete
<1>2. PICK late \in 1..Len(rules) + 1 : custom = RulesApplied(rules, RuleContext, late)
  BY <1>1 DEF ScanInv, ReportIsComplete
<1> DEFINE used == StepsBefore(rules, RuleContext, late)
           result(j) == RuleResult(rules[j], RuleContext)
           raises(j) == Raises(j, rules[j], result(j), used[j], late)
<1>3. custom = [j \in DOMAIN rules |-> CustomFinding(raises(j), result(j).match)]
  <2>1. Len(rules) \in Int /\ Len(rules) <= MaxRules => ~(Len(rules) > MaxRules)
    BY LimitsAssumption
  <2> QED
    BY <1>2, <2>1 DEF RulesApplied
<1>4. i \in DOMAIN rules /\ custom[i] = CustomFinding(raises(i), result(i).match)
  BY <1>3
<1>5. ~raises(i) /\ (custom[i] = "matched" <=> result(i).match = "true")
  BY <1>4 DEF CustomFinding
<1>6. result(i).match # "error"
  BY <1>5 DEF Raises
<1>7. IsRule(rules[i])
  BY <1>4, CatalogIsComplete DEF ScanInv, Shape, Range
<1>8. result(i).match = "true" <=> RuleHolds(rules[i], RuleContext)
  BY <1>6, <1>7, RuleIsDecided, SelectionsAreSequences DEF ScanInv
<1> QED
  BY <1>5, <1>8

\* A verdict is grounded in every state of the invariant.
LEMMA InvariantGroundsVerdicts ==
  ASSUME ScanInv
  PROVE  VerdictIsGrounded
BY VerdictsAreGrounded, RulesAreGrounded DEF VerdictIsGrounded

\* What is found of an owned capability: nothing at all if no check of it ran.
LEMMA StatusesOfAnOwned ==
  ASSUME ScanInv, phase = "done", NEW cap \in owned, NEW checks \in SUBSET Related(cap)
  PROVE  /\ Statuses(checks) = {finding[c] : c \in checks \cap SelectedIds}
         /\ Statuses(checks) \subseteq Verdicts \cup {"error", "skipped"}
<1>1. ASSUME NEW c \in checks
      PROVE  /\ c \in CheckId
             /\ finding[c] # NotYet <=> c \in SelectedIds
             /\ finding[c] # NotYet => finding[c] \in Verdicts \cup {"error", "skipped"}
  <2>1. c \in CheckId /\ Eligible(c)
    BY DEF Related, Eligible
  <2>2. finding[c] # NotYet => c \in SelectedIds /\ finding[c] \in Findings(c)
    BY <2>1 DEF ScanInv, FindingsAreAllowed
  <2>3. c \in SelectedIds => finding[c] # NotYet
    BY DEF ScanInv, ReportIsComplete
  <2>4. finding[c] # NotYet => finding[c] \in Verdicts \cup {"error", "skipped"}
    BY <2>1, <2>2, WhatAFindingSays
  <2> QED
    BY <2>1, <2>2, <2>3, <2>4
<1> QED
  BY <1>1 DEF Statuses

\* The status of a capability is one of four, or none if nothing was found.
LEMMA StatusOfFound ==
  ASSUME NEW ss, ss \subseteq Verdicts \cup {"error", "skipped"}
  PROVE  /\ StatusOf(ss) \in {"needs_attention", "partly_set_up", "assessment_incomplete",
                             "fully_working", NotYet}
         /\ StatusOf(ss) = NotYet <=> ss = {}
         /\ StatusOf(ss) = "fully_working" <=> ss = {"ok"}
<1>1. ss # {} /\ "gap" \notin ss /\ "partial" \notin ss /\ ss \cap {"error", "skipped"} = {}
        => ss = {"ok"}
  BY DEF Verdicts
<1> QED
  BY <1>1 DEF StatusOf, NotYet

\* A capability that is shown as fully working has earned it.
LEMMA InvariantEarns ==
  ASSUME ScanInv
  PROVE  FullyWorkingIsEarned
<1> SUFFICES ASSUME NEW cap \in Capability, outcome[cap] = "fully_working"
             PROVE  LET ran == Related(cap) \cap SelectedIds
                    IN  /\ cap \in Entitlements
                        /\ ran # {}
                        /\ \/ \A c \in ran : finding[c] = "ok"
                           \/ ran \cap InPack # {} /\ \A c \in ran \cap InPack : finding[c] = "ok"
  BY DEF FullyWorkingIsEarned
<1> DEFINE some == Related(cap) \cap InPack
<1>1. phase = "done"
  BY DEF ScanInv, ReportIsComplete, NotYet
<1>2. CapabilityOutcome(cap) = "fully_working"
  BY <1>1 DEF ScanInv, ReportIsComplete
<1>3. cap \in owned
  BY <1>2 DEF CapabilityOutcome, NotYet
<1>4. cap \in Entitlements
  BY <1>3 DEF ScanInv, EntitlementsAreTrue
<1>5. CASE StatusOf(Statuses(some)) = "fully_working"
  <2>1. /\ Statuses(some) = {finding[c] : c \in some \cap SelectedIds}
        /\ Statuses(some) = {"ok"}
    BY <1>1, <1>3, <1>5, StatusesOfAnOwned, StatusOfFound
  <2> QED
    BY <1>4, <2>1
<1>6. CASE StatusOf(Statuses(Related(cap))) = "fully_working"
  <2>1. /\ Statuses(Related(cap)) = {finding[c] : c \in Related(cap) \cap SelectedIds}
        /\ Statuses(Related(cap)) = {"ok"}
    BY <1>1, <1>3, <1>6, StatusesOfAnOwned, StatusOfFound
  <2> QED
    BY <1>4, <2>1
<1> QED
  BY <1>2, <1>3, <1>5, <1>6 DEF CapabilityOutcome

-----------------------------------------------------------------------------
(* The headline.                                                            *)

\* Rounding makes no hundred percent of less, up to 200 capabilities.
LEMMA LessIsNotAll ==
  ASSUME NEW part \in Nat, NEW whole \in Nat, part < whole, whole < 200
  PROVE  Percent(part, whole) # 100
<1> DEFINE q == (100 * part) \div whole
           r == (100 * part) % whole
<1>1. q \in Int /\ r \in 0..(whole - 1) /\ 100 * part = q * whole + r
  OBVIOUS
<1>2. r < whole /\ r >= 0
  BY <1>1
<1>3. Percent(part, whole) = 100 => q = 100 \/ (q = 99 /\ 2 * r >= whole)
  BY <1>1 DEF Percent
<1>4. q # 100
  BY <1>1, <1>2
<1>5. q = 99 => 2 * r < whole
  BY <1>1, <1>2
<1> QED
  BY <1>1, <1>3, <1>4, <1>5

\* Two sets of capabilities that share none add up.
LEMMA DisjointAddUp ==
  ASSUME NEW S \in SUBSET Capability, NEW T \in SUBSET Capability, S \cap T = {}
  PROVE  /\ Cardinality(S) \in Nat /\ Cardinality(T) \in Nat
         /\ Cardinality(S \cup T) = Cardinality(S) + Cardinality(T)
<1>1. IsFiniteSet(S) /\ IsFiniteSet(T)
  BY CapabilitiesAreFew, FS_Subset
<1>2. Cardinality(S) \in Nat /\ Cardinality(T) \in Nat
  BY <1>1, FS_CardinalityType
<1>3. Cardinality(S \cup T) = Cardinality(S) + Cardinality(T) - Cardinality(S \cap T)
  BY <1>1, FS_Union
<1>4. Cardinality(S \cap T) = 0
  BY FS_EmptySet
<1> QED
  BY <1>2, <1>3, <1>4

\* The headline leaves out no capability that has a status, and its percentage
\* is earned.
LEMMA InvariantCounts ==
  ASSUME ScanInv
  PROVE  EveryCapabilityIsCounted
<1> SUFFICES ASSUME phase = "done"
             PROVE  /\ rollup.you_own + rollup.assessment_incomplete + rollup.not_licensed
                         + rollup.entitlement_unknown
                       = Cardinality({cap \in Referenced :
                           cap \in owned => Related(cap) \cap InPack \cap SelectedIds # {}})
                    /\ rollup.realized_percent = 100 => rollup.fully_working = rollup.you_own
  BY DEF EveryCapabilityIsCounted
<1> DEFINE statuses(cap) == Statuses(Related(cap) \cap InPack)
           shown(status) == {cap \in owned : StatusOf(statuses(cap)) = status}
           gaps == shown("needs_attention")
           partials == shown("partly_set_up")
           working == shown("fully_working")
           incomplete == shown("assessment_incomplete")
           lacking == (Referenced \ owned) \ unknown
           unseen == Referenced \cap unknown
           yours == (working \cup gaps) \cup partials
           counted == ((yours \cup incomplete) \cup lacking) \cup unseen
<1>1. /\ owned \subseteq Capability /\ owned \cap unknown = {}
      /\ Referenced \subseteq Capability
  <2>1. \A c \in CheckId : Requires(c) \subseteq Capability
    BY CatalogIsComplete DEF Requires
  <2> QED
    BY <2>1 DEF ScanInv, EntitlementsAreTrue, Entitlements, BySku, Capability,
                Referenced, InPack
<1>2. /\ working \in SUBSET Capability /\ gaps \in SUBSET Capability
      /\ partials \in SUBSET Capability /\ incomplete \in SUBSET Capability
      /\ lacking \in SUBSET Capability /\ unseen \in SUBSET Capability
  BY <1>1
<1>3. /\ working \cap gaps = {} /\ (working \cup gaps) \cap partials = {}
      /\ yours \cap incomplete = {} /\ (yours \cup incomplete) \cap lacking = {}
      /\ ((yours \cup incomplete) \cup lacking) \cap unseen = {}
  BY <1>1
<1>4. counted = {cap \in Referenced :
                   cap \in owned => Related(cap) \cap InPack \cap SelectedIds # {}}
  <2>1. ASSUME NEW cap \in owned
        PROVE  /\ cap \in yours \cup incomplete
                     <=> Related(cap) \cap InPack \cap SelectedIds # {}
               /\ Related(cap) \cap InPack # {} => cap \in Referenced
    <3>1. /\ statuses(cap) = {finding[c] : c \in Related(cap) \cap InPack \cap SelectedIds}
          /\ statuses(cap) \subseteq Verdicts \cup {"error", "skipped"}
      BY StatusesOfAnOwned
    <3>2. /\ StatusOf(statuses(cap)) \in {"needs_attention", "partly_set_up",
                                "assessment_incomplete", "fully_working", NotYet}
          /\ StatusOf(statuses(cap)) = NotYet <=> statuses(cap) = {}
      BY <3>1, StatusOfFound
    <3>3. cap \in yours \cup incomplete <=> StatusOf(statuses(cap)) # NotYet
      BY <3>2 DEF NotYet
    <3>4. Related(cap) \cap InPack # {} => cap \in Referenced
      BY DEF Related, InPack, Referenced
    <3> QED
      BY <3>1, <3>2, <3>3, <3>4
  <2>2. yours \cup incomplete \subseteq owned
    OBVIOUS
  <2> HIDE DEF yours, incomplete
  <2> QED
    BY <1>1, <2>1, <2>2
<1> HIDE DEF working, gaps, partials, incomplete, lacking, unseen
<1>5. /\ Cardinality(working \cup gaps) = Cardinality(working) + Cardinality(gaps)
      /\ Cardinality(working) \in Nat /\ Cardinality(gaps) \in Nat
  BY <1>2, <1>3, DisjointAddUp
<1>6. /\ Cardinality(yours) = Cardinality(working \cup gaps) + Cardinality(partials)
      /\ Cardinality(partials) \in Nat
  BY <1>2, <1>3, DisjointAddUp
<1>7. /\ Cardinality(yours \cup incomplete) = Cardinality(yours) + Cardinality(incomplete)
      /\ Cardinality(incomplete) \in Nat
  BY <1>2, <1>3, DisjointAddUp
<1>8. /\ Cardinality((yours \cup incomplete) \cup lacking)
            = Cardinality(yours \cup incomplete) + Cardinality(lacking)
      /\ Cardinality(lacking) \in Nat
  BY <1>2, <1>3, DisjointAddUp
<1>9. /\ Cardinality(counted)
            = Cardinality((yours \cup incomplete) \cup lacking) + Cardinality(unseen)
      /\ Cardinality(unseen) \in Nat
  BY <1>2, <1>3, DisjointAddUp
<1>10. Cardinality(yours) < 200
  <2>1. yours \in SUBSET Capability
    BY <1>2
  <2>2. Cardinality(yours) <= Cardinality(Capability)
    BY <2>1, CapabilitiesAreFew, FS_Subset
  <2>3. Cardinality(yours) \in Nat /\ Cardinality(Capability) \in Nat
    BY <1>5, <1>6, CapabilitiesAreFew, FS_CardinalityType
  <2> QED
    BY <2>2, <2>3, CapabilitiesAreFew
<1>11. rollup = RollUp
  BY DEF ScanInv, ReportIsComplete
<1>12. /\ Counted("needs_attention") = Cardinality(gaps)
       /\ Counted("partly_set_up") = Cardinality(partials)
       /\ Counted("fully_working") = Cardinality(working)
       /\ Counted("assessment_incomplete") = Cardinality(incomplete)
  BY DEF Counted, gaps, partials, working, incomplete
<1> DEFINE g == Cardinality(gaps)
           p == Cardinality(partials)
           w == Cardinality(working)
           all == w + g + p
<1>13. /\ rollup.you_own = all /\ rollup.fully_working = w
       /\ rollup.assessment_incomplete = Cardinality(incomplete)
       /\ rollup.not_licensed = Cardinality(lacking)
       /\ rollup.entitlement_unknown = Cardinality(unseen)
       /\ rollup.realized_percent = IF all = 0 THEN 0 ELSE Percent(w, all)
  BY <1>11, <1>12 DEF RollUp, lacking, unseen
<1>14. rollup.realized_percent = 100 => w = all
  <2>1. w \in Nat /\ all \in Nat /\ w <= all /\ all < 200
    BY <1>5, <1>6, <1>10
  <2> HIDE DEF w, all
  <2> QED
    BY <1>13, <2>1, LessIsNotAll
<1> QED
  BY <1>4, <1>5, <1>6, <1>7, <1>8, <1>9, <1>13, <1>14

-----------------------------------------------------------------------------
(* Every step keeps the invariant.                                          *)

\* Findings depend on nothing that an evaluation or the report changes.
LEMMA SameFindings ==
  ASSUME UNCHANGED <<policy, owned, unknown, config, health, silent>>, NEW c
  PROVE  Findings(c)' = Findings(c)
BY DEF Findings, Gate, Eligible, Requires, Lacking, HasError, HasValue, RequiredKeys,
       MayBeDirect, Demoted

\* The report depends on nothing but the findings, entitlements and evidence.
LEMMA SameReport ==
  ASSUME UNCHANGED <<policy, owned, unknown, config, health, finding>>
  PROVE  /\ RollUp' = RollUp
         /\ \A cap : CapabilityOutcome(cap)' = CapabilityOutcome(cap)
         /\ RuleContext' = RuleContext
         /\ SelectedIds' = SelectedIds
<1>1. SelectedIds' = SelectedIds
  BY DEF SelectedIds
<1>2. \A checks : Statuses(checks)' = Statuses(checks)
  BY DEF Statuses
<1>3. \A cap : CapabilityOutcome(cap)' = CapabilityOutcome(cap)
  BY <1>2 DEF CapabilityOutcome
<1>4. \A status : Counted(status)' = Counted(status)
  BY <1>2 DEF Counted
<1>5. RollUp' = RollUp
  BY <1>4 DEF RollUp
<1>6. RuleContext' = RuleContext
  BY <1>1 DEF RuleContext
<1> QED
  BY <1>1, <1>3, <1>5, <1>6

\* Before the first probe all of consumption is pending.
LEMMA AllPending == probes = FullProbes => Pending = Consumption
<1>1. FullProbes # <<"log_analytics", "defender">> /\ FullProbes # <<"defender">>
        /\ FullProbes # <<>>
  BY DEF FullProbes
<1> QED
  BY <1>1 DEF Pending

\* After the last probe nothing is pending.
LEMMA NonePending ==
  /\ probes = <<>> => Pending = {}
  /\ probes' = <<>> => Pending' = {}
<1>1. <<>> # <<"log_analytics", "defender">> /\ <<>> # <<"defender">> /\ <<>> # FullProbes
  BY DEF FullProbes
<1> QED
  BY <1>1 DEF Pending

\* Which probe comes next, and what is pending behind it.
LEMMA NextProbe ==
  ASSUME Shape, probes # <<>>, probes' = Tail(probes)
  PROVE  /\ probes' \in {FullProbes, <<"log_analytics", "defender">>, <<"defender">>, <<>>}
         /\ Head(probes) = "sentinel" =>
              Pending = Consumption /\ Pending' = Consumption \ {"microsoft_sentinel"}
         /\ Head(probes) = "log_analytics" =>
              Pending = {"log_analytics"} \cup Defender /\ Pending' = Defender
         /\ Head(probes) = "defender" => Pending = Defender /\ Pending' = {}
<1> DEFINE two == <<"log_analytics", "defender">>
           one == <<"defender">>
<1>1. /\ FullProbes # two /\ FullProbes # one /\ FullProbes # <<>>
      /\ two # one /\ two # <<>> /\ one # <<>>
  BY DEF FullProbes
<1>2. CASE probes = FullProbes
  <2>1. probes' = two /\ Head(probes) = "sentinel"
    BY <1>2 DEF FullProbes
  <2>2. Pending = Consumption /\ Pending' = {"log_analytics"} \cup Defender
    BY <1>1, <1>2, <2>1 DEF Pending
  <2> QED
    BY <2>1, <2>2 DEF Consumption, Defender
<1>3. CASE probes = two
  <2>1. probes' = one /\ Head(probes) = "log_analytics"
    BY <1>3
  <2>2. Pending = {"log_analytics"} \cup Defender /\ Pending' = Defender
    BY <1>1, <1>3, <2>1 DEF Pending
  <2> QED
    BY <2>1, <2>2
<1>4. CASE probes = one
  <2>1. probes' = <<>> /\ Head(probes) = "defender"
    BY <1>4
  <2>2. Pending = Defender /\ Pending' = {}
    BY <1>1, <1>4, <2>1 DEF Pending
  <2> QED
    BY <2>1, <2>2
<1> QED
  BY <1>2, <1>3, <1>4 DEF Shape

\* The first state.
LEMMA InitEstablishesScanInv ==
  ASSUME Init
  PROVE  ScanInv
<1>1. PICK azure_owned \in SUBSET Consumption :
        /\ subscribed \in Subscriptions
        /\ tenant = azure_owned \cup Given(subscribed)
        /\ owned = OwnedBySkus(subscribed)
  BY DEF Init
<1>2. /\ owned \subseteq Licensed /\ Given(subscribed) \subseteq owned
      /\ owned \subseteq Entitlements
  <2>1. ByPlan(subscribed) \subseteq Given(subscribed) /\ Given(subscribed) \subseteq owned
    BY <1>1, CatalogKnowsPlans
  <2> QED
    BY <1>1, <2>1 DEF OwnedBySkus, ByPlan, BySku, Entitlements
<1>3. Pending = Consumption
  BY AllPending DEF Init, FullProbes
<1>4. Shape
  <2>1. config \in Configs /\ DOMAIN health = {}
    BY DEF Init, Collection!Init
  <2>2. IsFiniteSet(DOMAIN health)
    BY <2>1, FS_EmptySet
  <2>3. finding \in [CheckId -> Verdicts \cup {"error", "skipped", "not_licensed", NotYet}]
    BY DEF Init
  <2> QED
    BY <2>1, <2>2, <2>3, CatalogIsComplete DEF Shape, Init, FullProbes
<1>5. EntitlementsAreTrue
  BY <1>1, <1>2, <1>3, CatalogKnowsPlans DEF EntitlementsAreTrue, Init, Capability, FullProbes
<1>6. FindingsAreAllowed
  BY DEF FindingsAreAllowed, Init
<1>7. ReportIsComplete
  BY DEF ReportIsComplete, Init
<1> QED
  BY <1>4, <1>5, <1>6, <1>7 DEF ScanInv

\* As long as nothing is evaluated there are no findings and there is no report.
LEMMA NothingFoundYet ==
  ASSUME ScanInv, phase \in {"probing", "collecting"},
         phase' \in {"probing", "collecting", "evaluating", "raised"},
         UNCHANGED <<finding, report>>
  PROVE  FindingsAreAllowed' /\ ReportIsComplete'
BY DEF ScanInv, FindingsAreAllowed, ReportIsComplete, report

\* One probe, whatever it says.
LEMMA ProbeKeepsScanInv ==
  ASSUME ScanInv, NEW p, Probing(p), NEW seen, NEW o, NEW u, Observed(o, u),
         Pending = seen \cup Pending', seen \cap Pending' = {},
         \/ o = seen \cap tenant /\ u = {}
         \/ o = {} /\ u = seen
         \/ o = {} /\ u = {} /\ scope = "no_subscription",
         seen \subseteq Consumption
  PROVE  ScanInv'
<1>1. /\ probes' = Tail(probes) /\ phase = "probing" /\ probes # <<>>
      /\ owned' = owned \cup o /\ unknown' = unknown \cup u
      /\ scope \in {"workspace", "no_subscription"}
      /\ UNCHANGED <<policy, scope, subscribed, tenant, evidence, finding, report, phase>>
      /\ Entitlements' = Entitlements
  BY DEF Probing, Observed, Entitlements
<1>2. Shape'
  <2>1. probes' \in {FullProbes, <<"log_analytics", "defender">>, <<"defender">>, <<>>}
    BY <1>1, NextProbe DEF ScanInv
  <2> QED
    BY <1>1, <2>1 DEF ScanInv, Shape, evidence
<1>3. EntitlementsAreTrue'
  <2>1. /\ tenant \subseteq Capability /\ unknown \subseteq Consumption
        /\ owned \subseteq Entitlements /\ owned \cap unknown = {}
        /\ tenant \cap Licensed \subseteq owned
        /\ Pending \cap (owned \cup unknown) = {}
        /\ scope # "no_subscription" => tenant \subseteq owned \cup unknown \cup Pending
    BY <1>1 DEF ScanInv, EntitlementsAreTrue
  <2>2. /\ owned' \subseteq Entitlements /\ unknown' \subseteq Consumption
        /\ owned' \cap unknown' = {}
        /\ Pending' \cap (owned' \cup unknown') = {}
        /\ scope # "no_subscription" => tenant \subseteq owned' \cup unknown' \cup Pending'
    BY <1>1, <2>1 DEF Entitlements
  <2> QED
    BY <1>1, <2>1, <2>2 DEF EntitlementsAreTrue
<1>4. FindingsAreAllowed' /\ ReportIsComplete'
  BY <1>1, NothingFoundYet
<1> QED
  BY <1>2, <1>3, <1>4 DEF ScanInv

\* The probes, and what stands in for them.
LEMMA ProbingKeepsScanInv ==
  ASSUME ScanInv,
         \/ ObserveDryRun \/ ObserveNoScope \/ ProbeSentinel \/ ProbeLogAnalytics
         \/ ProbeDefender \/ AuthFails \/ ProbeRaises \/ ProbesDone
  PROVE  ScanInv'
<1> USE DEF ScanInv
<1>1. CASE ObserveDryRun
  <2>1. Shape'
    BY <1>1 DEF ObserveDryRun, Shape, evidence
  <2>2. Pending = Consumption
    BY <1>1, AllPending DEF ObserveDryRun, EntitlementsAreTrue
  <2>3. EntitlementsAreTrue'
    <3>1. /\ tenant \subseteq Capability /\ unknown \subseteq Consumption
          /\ owned \subseteq Entitlements /\ tenant \cap Licensed \subseteq owned
          /\ Pending \cap (owned \cup unknown) = {}
          /\ tenant \cap Consumption = Demo
      BY <1>1 DEF ObserveDryRun, EntitlementsAreTrue
    <3>2. owned' = owned \cup Demo /\ unknown' = unknown /\ tenant' = tenant
            /\ scope' = scope /\ phase' = "collecting" /\ Entitlements' = Entitlements
      BY <1>1 DEF ObserveDryRun, Observed, Entitlements
    <3>3. unknown = {}
      BY <2>2, <3>1
    <3> QED
      BY <3>1, <3>2, <3>3 DEF EntitlementsAreTrue, Capability, Entitlements
  <2>4. FindingsAreAllowed' /\ ReportIsComplete'
    BY <1>1, NothingFoundYet DEF ObserveDryRun
  <2> QED
    BY <2>1, <2>3, <2>4
<1>2. CASE ObserveNoScope
  <2>1. Shape'
    BY <1>2 DEF ObserveNoScope, Shape, evidence
  <2>2. Pending = Consumption
    BY <1>2, AllPending DEF ObserveNoScope, EntitlementsAreTrue
  <2>3. EntitlementsAreTrue'
    BY <1>2, <2>2 DEF ObserveNoScope, Observed, EntitlementsAreTrue, Entitlements
  <2>4. FindingsAreAllowed' /\ ReportIsComplete'
    BY <1>2, NothingFoundYet DEF ObserveNoScope
  <2> QED
    BY <2>1, <2>3, <2>4
<1>3. ASSUME NEW p, NEW cap, ProbeWorkspace(p, cap), cap \in Consumption,
             Pending = {cap} \cup Pending', cap \notin Pending'
      PROVE  ScanInv'
  BY <1>3, ProbeKeepsScanInv DEF ProbeWorkspace
<1>4. CASE ProbeSentinel
  <2>1. Probing("sentinel")
    BY <1>4 DEF ProbeSentinel, ProbeWorkspace
  <2>2. Pending = Consumption /\ Pending' = Consumption \ {"microsoft_sentinel"}
    BY <2>1, NextProbe DEF Probing
  <2> QED
    BY <1>3, <1>4, <2>2 DEF ProbeSentinel, Consumption
<1>5. CASE ProbeLogAnalytics
  <2>1. Probing("log_analytics")
    BY <1>5 DEF ProbeLogAnalytics, ProbeWorkspace
  <2>2. Pending = {"log_analytics"} \cup Defender /\ Pending' = Defender
    BY <2>1, NextProbe DEF Probing
  <2> QED
    BY <1>3, <1>5, <2>2 DEF ProbeLogAnalytics, Consumption, Defender
<1>6. CASE ProbeDefender
  <2>1. Probing("defender")
    BY <1>6 DEF ProbeDefender
  <2>2. Pending = Defender /\ Pending' = {} /\ Defender \subseteq Consumption
    BY <2>1, NextProbe DEF Probing, Defender, Consumption
  <2>3. \/ Observed(Defender \cap tenant, {})
        \/ Observed({}, Defender)
        \/ Observed({}, {}) /\ scope = "no_subscription"
    BY <1>6 DEF ProbeDefender
  <2> QED
    BY <2>1, <2>2, <2>3, ProbeKeepsScanInv
<1>7. CASE AuthFails
  <2>1. Shape'
    BY <1>7 DEF AuthFails, Shape, evidence
  <2>2. Pending' = {}
    BY <1>7, NonePending DEF AuthFails
  <2>3. EntitlementsAreTrue'
    BY <1>7, <2>2, CatalogKnowsPlans
    DEF AuthFails, EntitlementsAreTrue, Entitlements, Capability
  <2>4. FindingsAreAllowed' /\ ReportIsComplete'
    BY <1>7, NothingFoundYet DEF AuthFails
  <2> QED
    BY <2>1, <2>3, <2>4
<1>8. CASE ProbeRaises
  <2>1. Shape' /\ EntitlementsAreTrue'
    BY <1>8 DEF ProbeRaises, Shape, EntitlementsAreTrue, Entitlements, azure, evidence
  <2>2. FindingsAreAllowed' /\ ReportIsComplete'
    BY <1>8, NothingFoundYet DEF ProbeRaises
  <2> QED
    BY <2>1, <2>2
<1>9. CASE ProbesDone
  <2>1. Shape'
    BY <1>9 DEF ProbesDone, Shape, azure, evidence
  <2>2. Pending = {}
    BY <1>9, NonePending DEF ProbesDone
  <2>3. EntitlementsAreTrue'
    BY <1>9, <2>2 DEF ProbesDone, EntitlementsAreTrue, Entitlements, azure
  <2>4. FindingsAreAllowed' /\ ReportIsComplete'
    BY <1>9, NothingFoundYet DEF ProbesDone
  <2> QED
    BY <2>1, <2>3, <2>4
<1> QED
  BY <1>1, <1>2, <1>4, <1>5, <1>6, <1>7, <1>8, <1>9

\* Collection adds to the evidence and leaves the rest alone.
LEMMA CollectKeepsScanInv ==
  ASSUME ScanInv, Collect
  PROVE  ScanInv'
<1>1. phase = "collecting" /\ phase' \in {"collecting", "evaluating", "raised"}
  BY DEF Collect
<1>2. config' = config
  BY DEF Collect, Collection!Next, Collection!Refuse, Collection!Accept, Collection!Finish,
         Collection!Abort, Collection!Observe
<1>3. IsFiniteSet(DOMAIN health')
  <2>1. CASE health' = health
    BY <2>1 DEF ScanInv, Shape
  <2>2. ASSUME NEW k \in Key, Collection!Observe(k)
        PROVE  IsFiniteSet(DOMAIN health')
    <3>1. DOMAIN health' = DOMAIN health \cup {k}
      BY <2>2 DEF Collection!Observe
    <3> QED
      BY <3>1, FS_AddElement DEF ScanInv, Shape
  <2> QED
    BY <2>1, <2>2 DEF Collect, Collection!Next, Collection!Refuse, Collection!Accept,
                      Collection!Finish, Collection!Abort
<1>4. Shape'
  BY <1>1, <1>2, <1>3 DEF ScanInv, Shape, Collect, azure
<1>5. EntitlementsAreTrue'
  BY <1>1 DEF ScanInv, EntitlementsAreTrue, Entitlements, Collect, azure
<1>6. FindingsAreAllowed' /\ ReportIsComplete'
  BY <1>1, NothingFoundYet DEF Collect
<1> QED
  BY <1>4, <1>5, <1>6 DEF ScanInv

\* A check gets a finding that the gates allow.
LEMMA EvaluateKeepsScanInv ==
  ASSUME ScanInv, NEW c \in CheckId, Evaluate(c)
  PROVE  ScanInv'
<1>1. /\ phase = "evaluating" /\ c \in SelectedIds
      /\ UNCHANGED <<azure, evidence, report, phase>>
  BY DEF Evaluate
<1>2. PICK s \in Findings(c) : finding' = [finding EXCEPT ![c] = s]
  BY DEF Evaluate
<1>3. \A d \in CheckId : finding'[d] = IF d = c THEN s ELSE finding[d]
  BY <1>2 DEF ScanInv, Shape
<1>4. \A d : Findings(d)' = Findings(d)
  BY <1>1, SameFindings DEF azure, evidence
<1>5. FindingsAreAllowed'
  BY <1>1, <1>3, <1>4 DEF ScanInv, FindingsAreAllowed, SelectedIds, evidence
<1>6. Shape'
  <2>1. s \in Verdicts \cup {"error", "skipped", "not_licensed"}
    BY AllowedFindings
  <2> QED
    BY <1>1, <1>2, <2>1 DEF ScanInv, Shape, azure, evidence
<1>7. EntitlementsAreTrue'
  BY <1>1 DEF ScanInv, EntitlementsAreTrue, Entitlements, azure
<1>8. ReportIsComplete'
  BY <1>1 DEF ScanInv, ReportIsComplete, report
<1> QED
  BY <1>5, <1>6, <1>7, <1>8 DEF ScanInv

\* The report, and a step that changes nothing.
LEMMA ReportKeepsScanInv ==
  ASSUME ScanInv, Report \/ UNCHANGED vars
  PROVE  ScanInv'
<1>1. UNCHANGED <<azure, evidence, finding>>
  BY DEF Report, vars
<1>2. \A d : Findings(d)' = Findings(d)
  BY <1>1, SameFindings DEF azure, evidence
<1>3. /\ RollUp' = RollUp /\ RuleContext' = RuleContext /\ SelectedIds' = SelectedIds
      /\ \A cap : CapabilityOutcome(cap)' = CapabilityOutcome(cap)
  BY <1>1, SameReport DEF azure, evidence
<1>4. \/ phase = "evaluating" /\ phase' = "done"
      \/ phase' = phase
  BY DEF Report, vars
<1>5. Shape' /\ EntitlementsAreTrue'
  BY <1>1, <1>4 DEF ScanInv, Shape, EntitlementsAreTrue, Entitlements, Pending, azure, evidence
<1>6. FindingsAreAllowed'
  BY <1>1, <1>2, <1>3, <1>4 DEF ScanInv, FindingsAreAllowed
<1>7. ReportIsComplete'
  <2>1. CASE Report
    <3>1. /\ \A c \in SelectedIds : finding[c] # NotYet
          /\ outcome' = [cap \in Capability |-> CapabilityOutcome(cap)]
          /\ rollup' = RollUp
          /\ \E late \in 1..Len(policy.profile.rules) + 1 :
               custom' = RulesApplied(policy.profile.rules, RuleContext, late)
          /\ phase' = "done"
      BY <2>1 DEF Report
    <3> QED
      BY <1>1, <1>3, <3>1 DEF ReportIsComplete, azure
  <2>2. CASE UNCHANGED vars
    BY <1>3, <2>2 DEF ScanInv, ReportIsComplete, vars, azure, report
  <2> QED
    BY <2>1, <2>2
<1> QED
  BY <1>5, <1>6, <1>7 DEF ScanInv

-----------------------------------------------------------------------------
(* The theorems.                                                            *)

\* The entitlements, findings and report of a scan are consistent all along.
THEOREM ScanInvariant == Spec => []ScanInv
<1>1. Init => ScanInv
  BY InitEstablishesScanInv
<1>2. ScanInv /\ [Next]_vars => ScanInv'
  BY ProbingKeepsScanInv, CollectKeepsScanInv, EvaluateKeepsScanInv, ReportKeepsScanInv DEF Next
<1> QED
  BY <1>1, <1>2, PTL DEF Spec

\* A verdict rests on an entitlement and on collected evidence, a clean pass of a
\* proxy is no clean pass under strict policy, and a rule that is evaluated is
\* read right.
THEOREM VerdictIsGroundedHolds == Spec => []VerdictIsGrounded
BY ScanInvariant, InvariantGroundsVerdicts, PTL

\* A capability the tenant has is never reported as not licensed.
THEOREM NotLicensedIsTrueHolds == Spec => []NotLicensedIsTrue
BY ScanInvariant, EntitlementsAreRespected, PTL

\* What is shown as fully working passed every check that ran.
THEOREM FullyWorkingIsEarnedHolds == Spec => []FullyWorkingIsEarned
BY ScanInvariant, InvariantEarns, PTL

\* The headline counts every capability once and rounds none away.
THEOREM EveryCapabilityIsCountedHolds == Spec => []EveryCapabilityIsCounted
BY ScanInvariant, InvariantCounts, PTL
=============================================================================
