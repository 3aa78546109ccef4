----------------------------- MODULE MCScanRun ------------------------------
(***************************************************************************)
(* A catalog with one check of every kind, over two keys of evidence, the  *)
(* second of which depends on the first.                                   *)
(***************************************************************************)
EXTENDS ScanRun, TLC

Entry(requires, mode, inPack, implemented) ==
  [requires |-> requires, mode |-> mode, inPack |-> inPack, implemented |-> implemented,
   severity |-> IF mode = "direct" THEN "high" ELSE "low"]

\* 1 and 2 share a capability; 2 has an alternative; 6 is not implemented and
\* outside the packs
SmallCatalog ==
  << Entry({"microsoft_sentinel"}, "direct", TRUE, TRUE),
     Entry({"microsoft_sentinel", "entra"}, "proxy", TRUE, TRUE),
     Entry({"defender_for_cloud_cspm"}, "direct", TRUE, TRUE),
     Entry({"mdo"}, "email", TRUE, TRUE),
     Entry({}, "direct", TRUE, TRUE),
     Entry({"entra"}, "direct", FALSE, FALSE) >>

Check(id, keys) == [id |-> id, keys |-> keys, enabled |-> TRUE, profiles |-> {}]

Collectors == << [produces |-> 1, dependsOn |-> {}, supported |-> TRUE],
                 [produces |-> 2, dependsOn |-> {1}, supported |-> TRUE] >>

Input(checks) == [collectors |-> Collectors, checks |-> checks, profiles |-> {}]

\* shared capabilities and both keys; the other kinds of check; a dependency
\* that no collector produces
Selections == {Input(<<Check(1, {2}), Check(2, {1})>>),
               Input(<<Check(3, {}), Check(4, {1}), Check(5, {2}), Check(6, {})>>),
               Input(<<Check(1, {3})>>)}

Keys == 1..3
Checks == 1..6
NoProfiles == {}
\* entra comes with a plan or the suite E5, mdo with an add-on whose plan the catalog
\* does not know; a plan that was renamed, one switched off in E5 and in a suite that
\* is not mapped, a subscription suspended
Licenses == "entra" :> [parts |-> {"E5"}, names |-> {"AAD_P2"}, ids |-> {"eec0eb4f"}]
              @@ "mdo" :> [parts |-> {"ATP"}, names |-> {}, ids |-> {}]
Plan(name, id, status, gives) == [name |-> name, id |-> id, status |-> status, gives |-> gives]
Sku(part, status, plans) == [part |-> part, status |-> status, plans |-> plans]
Atp(status) == Sku("ATP", status, {Plan("ATP_2", "8e0c0a52", "success", {"mdo"})})
SwitchedOff == {Plan("AAD_P2", "eec0eb4f", "disabled", {"entra"})}
Tenants ==
  {{Sku("E5", "enabled", SwitchedOff)},
   {Sku("SUITE", "enabled", {Plan("ENTRA_P2", "eec0eb4f", "success", {"entra"})}),
    Atp("suspended")},
   {Sku("SUITE", "enabled", SwitchedOff), Atp("enabled")},
   {Sku("SUITE", "warning", {Plan("AAD_P2", "", "", {"entra"})}), Atp("enabled")}}
WithDefault == {1}
AllScopes == {"dry_run", "none", "workspace", "no_subscription"}

\* A gap of a severity that the profile raised; every collection read and two
\* checks not clean; a comparison that cannot be made, behind one that may hide
\* it; a selection that may be empty.
Condition(selector, operator, value, over) ==
  [selector |-> selector, operator |-> operator, value |-> value, collection |-> over]
Rule(conditions, own) == own @@ [conditions |-> conditions, tooLarge |-> FALSE]
SomeRules ==
  << Rule(<<Condition("severity", "in", List({Text("critical")}), "any")>>,
          Condition("status", "eq", Text("gap"), "any")),
     Rule(<<Condition("status", "ne", Text("ok"), "count")>>,
          Condition("collection", "eq", Text("success"), "all")),
     Rule(<<Condition("check_id", "gte", Number(2), "count")>>,
          Condition("status", "not_in", List({Text("gap"), Text("error")}), "all")),
     Rule(<<Condition("status", "eq", Text("partial"), "any")>>,
          Condition("status", "gt", Number(0), "any")),
     Rule(<<>>, Condition("domains", "ne", Text("partner"), "all")) >>
NoProfile == [rules |-> <<>>, severities |-> <<>>, domains |-> <<>>]
WithRules == [rules |-> SomeRules, severities |-> 5 :> "critical" @@ 1 :> "critical",
              domains |-> <<>>]
\* rules change nothing before the report: one pair of options has them
AllPolicies ==
  {[strictProxy |-> s, emailProxy |-> e, profile |-> IF e /\ ~s THEN WithRules ELSE NoProfile] :
     s \in BOOLEAN, e \in BOOLEAN}
Optional == {}
=============================================================================
