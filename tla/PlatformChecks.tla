--------------------------- MODULE PlatformChecks ---------------------------
(***************************************************************************)
(* The evaluators of Sentinel, Defender for Cloud, Purview on Graph and    *)
(* the Power BI capacities (evaluators/sentinel*.py, azure_selective.py,   *)
(* purview.py, power_bi.py).  A detection rule is a row that names the one *)
(* table its query reads; "parser" stands for a query over parsers alone.  *)
(***************************************************************************)
EXTENDS PolicySurfaces

CONSTANTS
  MinRules,      \* enabled rules of the baseline (10)
  MinTactics,    \* tactics of the baseline (3)
  MinConnected,  \* connectors of the baseline (3)
  MinEvaluable,  \* rules below which parity is not judged (3)
  DeadCap,       \* dead rules that are listed (25)
  CoreTables     \* the catalog: capability -> its core tables

ASSUME PlatformAssumption ==
  {MinRules, MinTactics, MinConnected, MinEvaluable, DeadCap} \subseteq Nat \ {0}

LOCAL Values(items, n) == {Prop(items[k], n) : k \in DOMAIN items} \ {None}

-----------------------------------------------------------------------------
\* The usage of the tables.  Without it no table is known to ingest; with the
\* list of tables in its place every listed one counts as ingesting.

ListMode(b) == FirstValue(Items(b, "la_usage_by_table", "mode"), "query") = "false"
UsedTables(b) == Items(b, "la_usage_by_table", "tables")
Ingesting(b, t) ==
  Some(UsedTables(b), LAMBDA i : /\ Prop(i, "table") = t
                                 /\ ListMode(b) \/ PropBool(i, "ingesting"))
\* Without the whole of the evidence the best is partial.
Complete(b, verdict) == IF ListMode(b) /\ verdict = "ok" THEN "partial" ELSE verdict

-----------------------------------------------------------------------------
\* Detection rules

DetectionRules(b) == Items(b, "sentinel_rules", "rules")
On(i) == PropBool(i, "Enabled")
Queried(i) == On(i) /\ Prop(i, "kind") \in {"scheduled", "nrt"}

\* _known_tables: of the catalog, when it was collected, and of the usage.
Known(b) ==
  (IF "telemetry_expectations" \in DOMAIN b THEN UNION Range(CoreTables) ELSE {})
    \cup Values(UsedTables(b), "table")
\* extract_table_refs: an unknown name cannot be judged; a parser is no table.
Evaluable(b, i) == Prop(i, "table") \in Known(b) \cup {"parser"}
Dead(b, i) == Prop(i, "table") # "parser" /\ ~Ingesting(b, Prop(i, "table"))
Evaluated(b) == SelectSeq(DetectionRules(b), LAMBDA i : Queried(i) /\ Evaluable(b, i))
DeadRules(b) == SelectSeq(Evaluated(b), LAMBDA i : Dead(b, i))
AQuarter(dead, evaluable) == evaluable > 0 /\ 4 * dead >= evaluable

sen_analytics_rule_coverage(b) ==
  LET on == SelectSeq(DetectionRules(b), On)
      queried == Len(SelectSeq(on, Queried))
      enabled == IF queried = 0 THEN Len(on) ELSE queried
      dead == /\ Len(Evaluated(b)) >= MinEvaluable
              /\ AQuarter(Len(DeadRules(b)), Len(Evaluated(b)))
  IN  IF on = <<>> THEN "gap"
      ELSE IF /\ enabled >= MinRules /\ Cardinality(Values(on, "tactic")) >= MinTactics /\ ~dead
           THEN "ok" ELSE "partial"

\* The ratio is taken of the dead rules that are listed, up to the cap.
sen_rule_telemetry_parity(b, o) ==
  LET live == SelectSeq(Evaluated(b), LAMBDA i : ~Dead(b, i))
      dead == IF Len(DeadRules(b)) > DeadCap THEN DeadCap ELSE Len(DeadRules(b))
      evaluable == Len(live) + dead
      unwatched == \E capability \in DOMAIN CoreTables \cap o, t \in UNION Range(CoreTables) :
                     t \in CoreTables[capability] /\ Ingesting(b, t) /\ t \notin Values(live, "table")
  IN  IF AQuarter(dead, evaluable) \/ (unwatched /\ evaluable >= MinEvaluable) THEN "gap"
      ELSE IF evaluable < MinEvaluable \/ dead > 0 \/ unwatched THEN "partial"
      ELSE Complete(b, "ok")

\* Capabilities that are owned and of which a core table is expected.
sen_telemetry_ingestion_coverage(b, o) ==
  LET expected == {capability \in DOMAIN CoreTables \cap o : CoreTables[capability] # {}}
      seen(capability) == {t \in CoreTables[capability] : Ingesting(b, t)}
  IN  IF DOMAIN CoreTables \cap o = {} THEN "partial"
      ELSE IF \E capability \in expected : seen(capability) = {} THEN "gap"
      ELSE IF \E capability \in expected : seen(capability) # CoreTables[capability] THEN "partial"
      ELSE Complete(b, "ok")

\* A proxy is never better than partial.
sen_entra_diagnostics_routed(b, o) ==
  IF /\ "identity_protection" \in o
     /\ ~Ingesting(b, "AADUserRiskEvents") /\ ~Ingesting(b, "AADRiskyUsers")
  THEN "gap" ELSE "partial"

-----------------------------------------------------------------------------
\* The workspace

\* Entity analytics or UEBA; the last setting of a name counts.
sen_ueba(b) ==
  LET on(name) == LastItemsValue(SelectSeq(Items(b, "sentinel_ueba", "settings"),
                                           LAMBDA i : Prop(i, "name") = name), "isEnabled")
  IN  IF ~Usable(b, "sentinel_ueba", "settings") THEN "error"
      ELSE OkIf("true" \in {on("EntityAnalytics"), on("Ueba")})

\* Connectors that say nothing of their state are connectors, not connections.
sen_data_connectors(b) ==
  LET all == Items(b, "sentinel_data_connectors", "connectors")
      connected == SelectSeq(all, LAMBDA i : Prop(i, "dataTypes") = "enabled")
      idle == /\ Items(b, "la_usage_by_table", "mode") # <<>> /\ ~ListMode(b)
              /\ UsedTables(b) # <<>> /\ ~Some(UsedTables(b), LAMBDA i : PropBool(i, "ingesting"))
  IN  IF all = <<>> THEN "gap"
      ELSE IF Every(all, LAMBDA i : Prop(i, "dataTypes") = None) THEN "partial"
      ELSE IF /\ Len(connected) >= MinConnected
              /\ Cardinality(Values(connected, "kind") \ {"other"}) >= 2 /\ ~idle
           THEN "ok" ELSE "partial"

sen_automation_rules(b) ==
  LET rules == Items(b, "sentinel_automation_rules", "automationRules")
  IN  IF rules = <<>> THEN "gap"
      ELSE IF Some(rules, LAMBDA i : Prop(i, "action") = "RunPlaybook") THEN "ok" ELSE "partial"

sen_log_analytics_retention(b) ==
  LET days == FirstValue(Items(b, "sentinel_workspace", "workspace"), "retentionInDays")
  IN  CASE days = None -> "error" [] days = "90" -> "ok" [] days = "60" -> "partial" [] OTHER -> "gap"

az_defender_plan_enabled(b) ==
  OkIf(Some(Items(b, "defender_for_cloud_pricings", "pricings"),
            LAMBDA i : Prop(i, "pricingTier") = "Standard"))

-----------------------------------------------------------------------------
\* Purview, Power BI

\* The policies when they could be read; Secure Score stands in, and never passes.
DlpProxy(b) ==
  LET controls == Items(b, "purview_dlp", "dlp_secure_score")
  IN  IF controls = <<>> \/ 10 * ScorePoints(controls) >= 4 * Len(controls) THEN "partial" ELSE "gap"
pur_dlp_not_enforced(b) ==
  IF Usable(b, "purview_dlp", "dlp_graph")
  THEN OkIf(Some(Items(b, "purview_dlp", "dlp_graph"), LAMBDA i : Prop(i, "mode") = "enforce"))
  ELSE DlpProxy(b)
pur_ediscovery_readiness(b) ==
  IF Items(b, "purview_ediscovery", "cases") # <<>> THEN "ok" ELSE "partial"
pur_insider_risk_readiness(b) == OkIf(Items(b, "purview_insider_risk", "policies") # <<>>)
pbi_premium_capacity_governance(b) ==
  IF Items(b, "pbi_capacity_bundle", "capacities") # <<>> THEN "ok" ELSE "partial"
=============================================================================
