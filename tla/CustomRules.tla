---------------------------- MODULE CustomRules ----------------------------
(***************************************************************************)
(* The rules a profile may bring (engine/custom_rules.py, selectors.py):   *)
(* predicates over what a scan has found, evaluated one after another      *)
(* under a common budget of steps and of time.  A rule that holds leaves a *)
(* finding, a rule that cannot be evaluated an error, any other nothing.   *)
(*                                                                         *)
(* A rule is its own last condition.  What it selects is a sequence of     *)
(* strings; what it compares with is a string, a number or a list of       *)
(* those.  The limits on the size of texts and values are one flag.        *)
(***************************************************************************)
EXTENDS Integers, SequencesExt

CONSTANTS MaxRules,       \* rules a profile may have (64)
          MaxConditions,  \* conditions beside a rule's own (12)
          MaxSteps        \* steps that all rules together may take (10,000)

ASSUME LimitsAssumption == MaxRules \in Nat /\ MaxConditions \in Nat /\ MaxSteps \in Nat

Text(s) == [type |-> "string", value |-> s]
Number(n) == [type |-> "number", value |-> n]
List(items) == [type |-> "list", value |-> items]

\* CustomRule: its own condition and those before it
Selectors == {"status", "severity", "check_id", "evaluation_mode", "domains", "collection"}
Operators == {"eq", "ne", "in", "not_in", "gt", "gte", "lt", "lte", "exists"}
IsCondition(c) ==
  c.selector \in Selectors /\ c.operator \in Operators /\ c.collection \in {"any", "all", "count"}
Parts(rule) == Append(rule.conditions, rule)
IsRule(rule) == /\ rule.conditions \in Seq(Range(rule.conditions))
                /\ \A part \in Range(Parts(rule)) : IsCondition(part)

Truth(b) == IF b THEN "true" ELSE "false"
Same(v, w) == v.type = w.type /\ v.value = w.value

\* compare_rule_values, of an operator, a selected string or count, and the
\* rule's value: a comparison that the types do not allow is an error.
Compare(op, actual, expected) ==
  CASE op \in {"eq", "ne"} ->
         IF expected.type = "list" THEN "error" ELSE Truth(Same(actual, expected) = (op = "eq"))
    [] op \in {"in", "not_in"} ->
         IF expected.type # "list" THEN "error"
         ELSE Truth((\E item \in expected.value : Same(actual, item)) = (op = "in"))
    [] op \in {"gt", "gte", "lt", "lte"} ->
         IF actual.type # "number" \/ expected.type # "number" THEN "error"
         ELSE Truth(\/ actual.value > expected.value /\ op \in {"gt", "gte"}
                    \/ actual.value < expected.value /\ op \in {"lt", "lte"}
                    \/ actual.value = expected.value /\ op \in {"gte", "lte"})
    [] op = "exists" -> "true"

\* _condition_matches: the selected values one by one, up to the first that
\* decides; every value looked at is a step.
Undecided(collection) == IF collection = "all" THEN "true" ELSE "false"
ConditionResult(c, context) ==
  LET values == context[c.selector]
      results == [i \in DOMAIN values |-> Compare(c.operator, Text(values[i]), c.value)]
      decisive == SelectInSeq(results, LAMBDA r : r # Undecided(c.collection))
  IN  IF c.collection = "count"
      THEN [match |-> Compare(c.operator, Number(Len(values)), c.value), steps |-> 1]
      ELSE IF c.collection = "all" /\ values = <<>> THEN [match |-> "false", steps |-> 0]
      ELSE IF decisive = 0 THEN [match |-> Undecided(c.collection), steps |-> Len(values)]
      ELSE [match |-> results[decisive], steps |-> decisive]

\* _rule_matches: the conditions in their order and the rule itself, up to the
\* first that does not hold; each is a step besides its own.
RuleResult(rule, context) ==
  LET results == [i \in DOMAIN Parts(rule) |-> ConditionResult(Parts(rule)[i], context)]
      failing == SelectInSeq(results, LAMBDA r : r.match # "true")
      last == IF failing = 0 THEN Len(results) ELSE failing
  IN  [match |-> results[last].match,
       steps |-> FoldFunctionOnSet(LAMBDA r, n : n + 1 + r.steps, 0, results, 1..last)]

\* matched_custom_finding (a gap), errored_custom_finding, or no finding.
CustomFinding(raises, match) ==
  IF raises THEN "error" ELSE IF match = "true" THEN "matched" ELSE "silent"

\* What makes a rule raise: time is up, with the rule `late`; the rule is out of
\* bounds or cannot be evaluated; the steps taken before it leave too few.
Raises(i, rule, result, used, late) ==
  \/ i >= late
  \/ rule.tooLarge \/ Len(rule.conditions) > MaxConditions
  \/ result.match = "error" \/ used + 1 + result.steps > MaxSteps

\* the steps taken before each rule: one that raises is charged for itself only
StepsBefore(rules, context, late) ==
  LET charge(used, rule) ==
        LET result == RuleResult(rule, context)
            before == used[Len(used)]
        IN  Append(used, IF ~Raises(Len(used), rule, result, before, late)
                         THEN before + 1 + result.steps
                         ELSE IF before < MaxSteps THEN before + 1 ELSE before)
  IN  FoldLeft(charge, <<0>>, rules)

\* evaluate_custom_rules
RulesApplied(rules, context, late) ==
  LET used == StepsBefore(rules, context, late)
      outcome(i) ==
        LET result == RuleResult(rules[i], context)
        IN  CustomFinding(Raises(i, rules[i], result, used[i], late), result.match)
  IN  IF Len(rules) > MaxRules THEN <<"error">> ELSE [i \in DOMAIN rules |-> outcome(i)]

-----------------------------------------------------------------------------
(* The reference: what a rule says, without an order or a budget.  A value   *)
(* that cannot be compared does not fulfil a condition.                      *)

ConditionHolds(c, context) ==
  LET values == Range(context[c.selector])
      fulfils(v) == Compare(c.operator, v, c.value) = "true"
  IN  CASE c.collection = "any" -> \E v \in values : fulfils(Text(v))
        [] c.collection = "all" -> values # {} /\ \A v \in values : fulfils(Text(v))
        [] c.collection = "count" -> fulfils(Number(Len(context[c.selector])))
RuleHolds(rule, context) == \A part \in Range(Parts(rule)) : ConditionHolds(part, context)
=============================================================================
