---------------------------- MODULE GraphEvidence ----------------------------
(***************************************************************************)
(* The collector runtimes that read Microsoft Graph, Azure Resource        *)
(* Manager, Log Analytics, Defender for Endpoint and Power BI: what each   *)
(* makes of the answers of its requests (collectors/intune_policy.py,      *)
(* runtime_collect_endpoint.py, _identity_core.py, _identity_apps.py,      *)
(* _sentinel.py and the collectors they call).                              *)
(*                                                                         *)
(* A request names what it asks for; its answer is "rows" or "refused".    *)
(* Requests no check reads are left out.  A property that takes a request  *)
(* of its own (the assignments of a policy) is absent from its row when    *)
(* that request was refused.                                               *)
(***************************************************************************)
EXTENDS PolicyAdapters

CONSTANTS
  MaxPolicyDetail,   \* policies whose assignments are asked for (15)
  MaxTamperDevices   \* Windows devices asked for tamper protection (10)

ASSUME DetailAssumption == MaxPolicyDetail \in Nat \ {0} /\ MaxTamperDevices \in Nat \ {0}

EndpointRuntimes == {"intune_bundle", "mde_health", "mde_summary", "security_alerts_bundle", "mdi_health",
                     "secure_score_controls"}
IdentityRuntimes ==
  {"security_defaults_policy", "ca_policies", "access_review_definitions",
   "access_review_instances", "access_packages", "auth_methods_bundle", "authorization_policy",
   "admin_consent_request_policy", "applications_bundle", "guests_bundle",
   "approved_guest_domains", "pim_policies_bundle", "role_assignments", "role_eligibilities",
   "principal_directory", "domains", "license_assignment", "risky_service_principals"}
PlatformRuntimes ==
  {"sentinel_rules", "sentinel_ueba", "sentinel_data_connectors", "sentinel_automation_rules",
   "sentinel_workspace", "la_usage_by_table", "telemetry_expectations",
   "defender_for_cloud_pricings", "purview_dlp", "purview_ediscovery", "purview_insider_risk",
   "pbi_capacity_bundle"}
GraphRuntimes == EndpointRuntimes \cup IdentityRuntimes \cup PlatformRuntimes

GraphItem(row) == [enabled |-> None, kind |-> "row", props |-> row]
GraphItems(rows) == [i \in DOMAIN rows |-> GraphItem(rows[i])]
FirstOf(s, n) == IF Len(s) > n THEN SubSeq(s, 1, n) ELSE s

\* The requests of a runtime run one after another; the first that is refused
\* ends it, and what was read before is lost with it.
Bundle(ans) ==
  IF \E r \in DOMAIN ans : Refused(ans, r) THEN Failed("error")
  ELSE [r \in DOMAIN ans |-> Ok(GraphItems(Rows(ans, r)))]

-----------------------------------------------------------------------------
\* Intune: every list fails on its own.

IntuneList(ans, r) ==
  IF Refused(ans, r) THEN Unread("error") ELSE Ok(GraphItems(Rows(ans, r)))
Detailed(surface) == [surface EXCEPT !.items = FirstOf(@, MaxPolicyDetail)]

\* The endpoint security list first.  When it is refused or empty, the
\* configuration policies of that family stand in; when there is none of them
\* either, it was refused or it is empty.
AsrPolicies(ans) ==
  LET family == SelectSeq(Rows(ans, "configurationPolicies"),
                          LAMBDA r : Exposed(r, "family") = "attack surface reduction")
  IN  IF Rows(ans, "asrPolicies") # <<>> THEN IntuneList(ans, "asrPolicies")
      ELSE IF family # <<>> THEN Ok(GraphItems(family))
      ELSE IntuneList(ans, "asrPolicies")

\* Of the first Windows devices; a device that does not answer is unknown.
TamperState(ans) ==
  Ok(GraphItems(FirstOf(SelectSeq(Rows(ans, "managedDevices"),
                                  LAMBDA r : Exposed(r, "operatingSystem") = "windows"),
                        MaxTamperDevices)))

IntuneBundle(ans) ==
  [managed_devices |-> IntuneList(ans, "managedDevices"),
   compliance_policies |-> Detailed(IntuneList(ans, "compliancePolicies")),
   configuration_policies |-> IntuneList(ans, "configurationPolicies"),
   device_configurations |-> Detailed(IntuneList(ans, "deviceConfigurations")),
   atp_onboarding_state |-> IntuneList(ans, "atpOnboarding"),
   asr_policies |-> Detailed(AsrPolicies(ans)),
   compliance_state_summary |-> IntuneList(ans, "stateSummary"),
   app_protection_policies |-> Detailed(IntuneList(ans, "appProtections")),
   tamper |-> TamperState(ans)]

-----------------------------------------------------------------------------
\* Defender

\* _row_unhealthy: by its health, or by its deployment.
SensorUnhealthy(row) ==
  \/ Exposed(row, "healthStatus") \notin {"healthy", None}
  \/ Exposed(row, "deploymentStatus") \in {"disconnected", "unreachable", "startFailure"}
MdiHealth(ans) ==
  IF Refused(ans, "sensors") THEN Failed("error")
  ELSE [sensors |-> Ok([i \in DOMAIN Rows(ans, "sensors") |->
          GraphItem([unhealthy |-> Tri(SensorUnhealthy(Rows(ans, "sensors")[i]))])])]

\* The count of the service; refused or not given, the machines are counted
\* page by page.  Either is a number of onboarded machines.
MdeSummary(ans) ==
  IF ~Refused(ans, "machineCount") /\ Exposed(TheRow(ans, "machineCount"), "count") # None
  THEN [summary |-> Ok(<<GraphItem([onboarded |-> TheRow(ans, "machineCount")["count"]])>>)]
  ELSE IF Refused(ans, "machines") THEN Failed("error")
  ELSE [summary |-> Ok(<<GraphItem([onboarded |-> IF Rows(ans, "machines") = <<>> THEN "0" ELSE "1"])>>)]

-----------------------------------------------------------------------------
\* Identity

\* Eligibility may be forbidden without a P2 plan: refused is none.
RoleEligibilities(ans) == [eligibilities |-> Ok(GraphItems(Rows(ans, "eligibilities")))]

\* The number of users with a plan; when that filter is refused, the licences
\* that hold the plan are counted, those that can be counted.
Users == [zero |-> 0, half |-> 1, all |-> 2]
CountOf(ans, r) == Users[TheRow(ans, r)["users"]]
PlanUsers(ans) ==
  LET counted == {r \in {"firstSku", "secondSku"} : ~Refused(ans, r)}
  IN  IF ~Refused(ans, "plan") THEN CountOf(ans, "plan")
      ELSE IF counted = {} THEN -1   \* null: could not be counted
      ELSE FoldSet(LAMBDA r, n : n + CountOf(ans, r), 0, counted)
LicenseAssignment(ans) ==
  [enabled_member_users |->
     IF Refused(ans, "members") THEN Unread("error")
     ELSE Ok(<<GraphItem(TheRow(ans, "members"))>>),
   by_capability |-> Ok(<<GraphItem([assigned_users |-> PlanUsers(ans)])>>)]

-----------------------------------------------------------------------------
\* Sentinel and Log Analytics

\* The usage query; refused, the list of tables, which says nothing of their
\* flow.  Both need the workspace: its id is the address of the query.
UsageByTable(ans) ==
  IF Refused(ans, "workspace") \/ Exposed(TheRow(ans, "workspace"), "customerId") = None
  THEN Failed("unavailable")
  ELSE IF ~Refused(ans, "usage")
  THEN [tables |-> Ok(GraphItems(Rows(ans, "usage"))), mode |-> Written("true", [query |-> "true"])]
  ELSE IF ~Refused(ans, "tableList")
  THEN [tables |-> Ok(GraphItems(Rows(ans, "tableList"))),
        mode |-> Written("true", [query |-> "false"])]
  ELSE Failed("error")

\* The settings fail on their own, beside the rules.
SentinelUeba(ans) ==
  IF Refused(ans, "alertRules") THEN Failed("error")
  ELSE [settings |-> IF Refused(ans, "settings") THEN Unread("error")
                     ELSE Ok(GraphItems(Rows(ans, "settings")))]

-----------------------------------------------------------------------------
\* Purview.  The runtime waits for Secure Score: without it the planner blocks it.
PurviewDlp(ans) ==
  IF Refused(ans, "secureScores") THEN Failed("unavailable")
  ELSE [dlp_graph |-> IF Refused(ans, "dlpPolicies") THEN Unread("error")
                      ELSE Ok(GraphItems(Rows(ans, "dlpPolicies"))),
        dlp_secure_score |-> Ok(GraphItems(Rows(ans, "secureScores")))]

-----------------------------------------------------------------------------
GraphPayload(a, ans) ==
  CASE a = "intune_bundle" -> IntuneBundle(ans)
    [] a = "mdi_health" -> MdiHealth(ans)
    [] a = "mde_summary" -> MdeSummary(ans)
    [] a = "role_eligibilities" -> RoleEligibilities(ans)
    [] a = "license_assignment" -> LicenseAssignment(ans)
    [] a = "la_usage_by_table" -> UsageByTable(ans)
    [] a = "sentinel_ueba" -> SentinelUeba(ans)
    [] a = "purview_dlp" -> PurviewDlp(ans)
    [] OTHER -> Bundle(ans)
=============================================================================
