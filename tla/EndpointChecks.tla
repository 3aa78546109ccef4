--------------------------- MODULE EndpointChecks ---------------------------
(***************************************************************************)
(* The evaluators of Intune and Defender (evaluators/endpoint_*.py,        *)
(* defender.py): bundle b and options o to the status of a finding.        *)
(***************************************************************************)
EXTENDS PolicySurfaces

IntuneItems(b, s) == Items(b, "intune_bundle", s)
IntuneUnknown(b, s) == ~Usable(b, "intune_bundle", s)

\* assignments_error, assigned: the request that asks for them was refused, or
\* named somebody.
AssignmentsUnread(i) == "assignments" \notin DOMAIN i.props
Assigned(i) == Prop(i, "assignments") = "some"

\* What the evaluators of assigned policies begin with.
ByAssignment(policies, verdict) ==
  IF policies = <<>> THEN "gap"
  ELSE IF Some(policies, AssignmentsUnread) THEN "partial"
  ELSE IF Some(policies, Assigned) THEN verdict ELSE "gap"

-----------------------------------------------------------------------------
\* Intune policies

endpoint_asr_rules(b) ==
  LET assigned == SelectSeq(IntuneItems(b, "asr_policies"), Assigned)
      allRead == Every(assigned, LAMBDA i : "rules" \in DOMAIN i.props)
      allHaveRules == Every(assigned, LAMBDA i : Prop(i, "rules") = "some")
  IN  IF IntuneUnknown(b, "asr_policies") THEN "partial"
      ELSE ByAssignment(IntuneItems(b, "asr_policies"),
                        IF allRead /\ allHaveRules THEN "ok" ELSE "partial")

endpoint_bitlocker_policy(b) ==
  LET configs == SelectSeq(IntuneItems(b, "device_configurations"),
                           LAMBDA i : \/ Prop(i, "type") = "bitlocker"
                                      \/ /\ Prop(i, "type") = "endpointProtection"
                                         /\ PropBool(i, "bitLockerEncryptDevice"))
  IN  IF IntuneUnknown(b, "device_configurations") THEN "partial" ELSE ByAssignment(configs, "ok")

\* One sampled device with protection on, and none with it off, is enough.
endpoint_tamper_protection(b) ==
  LET configs == SelectSeq(IntuneItems(b, "device_configurations"),
                           LAMBDA i : Prop(i, "type") = "defenderAtp")
      devices == IntuneItems(b, "tamper")
      enabled == Some(devices, LAMBDA i : Prop(i, "tamper") = "true")
      disabled == Some(devices, LAMBDA i : Prop(i, "tamper") = "false")
  IN  IF IntuneUnknown(b, "device_configurations") \/ Some(configs, AssignmentsUnread) THEN "partial"
      ELSE IF enabled /\ ~disabled
      THEN (IF Some(configs, Assigned) THEN "ok" ELSE "partial")
      ELSE (IF Some(configs, Assigned) THEN "partial" ELSE "gap")

\* The counts of the tenant-wide summary; null is none.
endpoint_compliance_enforcement(b) ==
  LET any(n) == FirstValue(IntuneItems(b, "compliance_state_summary"), n) = "1"
  IN  IF IntuneUnknown(b, "compliance_state_summary") THEN "partial"
      ELSE IF any("nonCompliantDeviceCount")
      THEN (IF any("compliantDeviceCount") THEN "partial" ELSE "gap")
      ELSE IF any("compliantDeviceCount") THEN "ok" ELSE "partial"

\* Default policies are assigned to everybody; a type the collector does not
\* know has no assignments it could ask for.
endpoint_mam_app_protection(b) ==
  LET policies == IntuneItems(b, "app_protection_policies")
      targeted == SelectSeq(policies, LAMBDA i : Prop(i, "type") = "targeted")
      default(i) == Prop(i, "type") = "default"
  IN  IF IntuneUnknown(b, "app_protection_policies") THEN "partial"
      ELSE IF policies = <<>> THEN "gap"
      ELSE IF Some(targeted, AssignmentsUnread) THEN "partial"
      ELSE IF Some(targeted, Assigned) \/ Some(policies, default) THEN "ok"
      ELSE IF Len(targeted) < Len(policies) THEN "partial" ELSE "gap"

\* By the family of the template; whether it is assigned is not asked.
Families(b) ==
  LET policies == IntuneItems(b, "configuration_policies")
  IN  {Prop(policies[k], "family") : k \in DOMAIN policies}
endpoint_security_baseline(b) ==
  IF IntuneUnknown(b, "configuration_policies") THEN "partial"
  ELSE OkIf("baseline" \in Families(b))
ExpectedFamilies == {"antivirus", "firewall", "disk encryption", "attack surface reduction"}
endpoint_security_policy_coverage(b) ==
  IF IntuneUnknown(b, "configuration_policies") THEN "partial"
  ELSE IF ExpectedFamilies \subseteq Families(b) THEN "ok"
  ELSE IF ExpectedFamilies \cap Families(b) # {} THEN "partial" ELSE "gap"

endpoint_mde_connector(b) ==
  LET any(n) == FirstValue(IntuneItems(b, "atp_onboarding_state"), n) = "1"
  IN  IF IntuneUnknown(b, "atp_onboarding_state") THEN "partial"
      ELSE IF any("onboardedDeviceCount") THEN "ok"
      ELSE IF any("unknownDeviceCount") THEN "gap" ELSE "partial"

\* _platform_matches: one name is part of the other, so that a policy that names
\* no platform covers each.
Covers(policy, platform) == Prop(policy, "platforms") \in {platform, "", None}
endpoint_compliance_policy_assigned(b) ==
  LET assigned == SelectSeq(IntuneItems(b, "compliance_policies"), Assigned)
      platform(i) == Prop(i, "operatingSystem")
      uncovered(i) == platform(i) # None /\ ~Some(assigned, LAMBDA p : Covers(p, platform(i)))
  IN  IF IntuneUnknown(b, "compliance_policies") THEN "partial"
      ELSE ByAssignment(IntuneItems(b, "compliance_policies"),
                        IF Some(IntuneItems(b, "managed_devices"), uncovered) THEN "partial" ELSE "ok")

\* Every policy, assigned or not.
endpoint_compliance_noncompliance_action(b) ==
  LET policies == IntuneItems(b, "compliance_policies")
      acts(i) == Prop(i, "actions") = "some"
  IN  IF IntuneUnknown(b, "compliance_policies") THEN "partial"
      ELSE IF policies = <<>> THEN "gap"
      ELSE IF Some(policies, LAMBDA i : "actions" \notin DOMAIN i.props) THEN "partial"
      ELSE IF Every(policies, acts) THEN "ok"
      ELSE IF Some(policies, acts) THEN "partial" ELSE "gap"

\* No collector of a scan gives the number of devices that should be enrolled:
\* without it the check cannot pass.
endpoint_enrollment_coverage(b, o) ==
  IF IntuneUnknown(b, "managed_devices") THEN "partial"
  ELSE IF IntuneItems(b, "managed_devices") = <<>> /\ "intune_licensed" \in o THEN "gap" ELSE "partial"

-----------------------------------------------------------------------------
\* Defender

\* Without the devices that should be onboarded, which no scan collects, the
\* number of machines and of purchased seats is no more than a hint.
mde_onboard_gap(b) ==
  IF FirstValue(Items(b, "mde_summary", "summary"), "onboarded") = None THEN "error" ELSE "partial"

\* A quarter of the sampled machines may not be unhealthy.
mde_sensor_health(b) ==
  LET machines == Items(b, "mde_health", "machines")
      unhealthy == SelectSeq(machines, LAMBDA i : Prop(i, "healthStatus") # "Active")
  IN  IF machines = <<>> THEN "partial"
      ELSE IF unhealthy = <<>> THEN "ok"
      ELSE IF 4 * Len(unhealthy) < Len(machines) THEN "partial" ELSE "gap"

xdr_incident_readiness(b) ==
  LET alerts == Items(b, "security_alerts_bundle", "alerts")
      sources == {Prop(alerts[k], "serviceSource") : k \in DOMAIN alerts} \ {None}
  IN  IF Cardinality(sources) >= 2 THEN "ok" ELSE "partial"

\* score_status, of points out of as many controls.
ScoreStatus(points, controls) ==
  IF controls = 0 THEN "partial"
  ELSE IF 100 * points >= 85 * controls THEN "ok"
  ELSE IF 100 * points >= 45 * controls THEN "partial" ELSE "gap"

MdiProxy(b) ==
  LET controls == Items(b, "secure_score_controls", "controls")
  IN  ScoreStatus(ScorePoints(controls), Len(controls))
\* The sensors when they could be read; Secure Score stands in, and a proxy
\* never earns better than partial.
mdi_sensors_missing(b) ==
  LET sensors == Items(b, "mdi_health", "sensors")
      unhealthy(i) == PropBool(i, "unhealthy")
  IN  IF Usable(b, "mdi_health", "sensors")
      THEN GapIf(sensors = <<>> \/ Some(sensors, unhealthy))
      ELSE IF MdiProxy(b) = "ok" THEN "partial" ELSE MdiProxy(b)
=============================================================================
