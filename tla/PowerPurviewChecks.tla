------------------------- MODULE PowerPurviewChecks -------------------------
(***************************************************************************)
(* The evaluators of Power Platform, Power BI and Purview governance       *)
(* (evaluators/power_*.py, purview_governance.py): bundle b to the status  *)
(* of a finding.                                                           *)
(***************************************************************************)
EXTENDS PolicySurfaces

\* Mutant of Expect: null is the expected value.
NullIsExpected(value, expected) == OkIf(value \in {None, expected})
\* A setting that must have a value; null is never a verdict.
Expect(value, expected) == IF value = None THEN "partial" ELSE OkIf(value = expected)

-----------------------------------------------------------------------------
\* Tenant settings

pp_tenant_setting(b, surface, n) == Expect(FirstValue(Items(b, "pp_tenant", surface), n), "true")

\* "enabled" of the properties, else the flag of the item, which is the same.
PbiEnabled(b, s) == FirstValue(Items(b, "pbi_tenant", s), "enabled")
pbi_setting(b, s, expected) == Expect(PbiEnabled(b, s), expected)
pbi_sp_api_restricted(b) ==
  LET groups == FirstValue(Items(b, "pbi_tenant", "service_principal_api"), "securityGroups")
  IN  CASE PbiEnabled(b, "service_principal_api") = None -> "partial"
        [] PbiEnabled(b, "service_principal_api") = "false" -> "ok"
        [] OTHER -> OkIf(groups # None)

\* Checks of one switch: the surface it is on and its name, or the value that passes.
PowerPlatformSwitches ==
  [pp_env_creation_admin_only |->
     <<"environment_creation", "disableEnvironmentCreationByNonAdminUsers">>,
   pp_trial_creation_admin_only |->
     <<"environment_creation", "disableTrialEnvironmentCreationByNonAdminUsers">>,
   pp_pages_creation_admin_only |-> <<"power_pages", "disablePortalsCreationByNonAdminUsers">>,
   pp_share_with_everyone_disabled |-> <<"share_with_everyone", "disableShareWithEveryone">>]
PowerBiSharing ==
  [pbi_publish_to_web_disabled |-> <<"publish_to_web", "false">>,
   pbi_guest_access_disabled |-> <<"guest_access", "false">>,
   pbi_external_invite_disabled |-> <<"external_invite", "false">>]
PowerBiFeatures ==
  [pbi_sp_profiles_disabled |-> <<"service_principal_profiles", "false">>,
   pbi_resource_key_auth_blocked |-> <<"resource_key_auth", "true">>,
   pbi_python_r_visuals_disabled |-> <<"python_r_visuals", "false">>,
   pbi_sensitivity_labels_enabled |-> <<"sensitivity_labels", "true">>,
   pbi_export_controls |-> <<"export_data", "false">>]
PowerBiSwitches == Joined(PowerBiSharing, PowerBiFeatures)

IsolationValue(b, n) == FirstValue(Items(b, "pp_isolation", "tenant_isolation"), n)
pp_tenant_isolation_enabled(b) == Expect(IsolationValue(b, "isolationEnabled"), "true")
pp_tenant_isolation_allowlist(b) ==
  LET on == IsolationValue(b, "isolationEnabled")
  IN  IF on = None THEN "partial"
      ELSE OkIf(on = "true" /\ IsolationValue(b, "allowedTenants") # None)

-----------------------------------------------------------------------------
\* Data policies against environments: two lists of two adapters.

Environments(b) ==
  LET items == Items(b, "pp_environments", "environments")
  IN  {Prop(items[k], "EnvironmentName") : k \in DOMAIN items}
NonDefault(b) ==
  LET items == Items(b, "pp_environments", "environments")
  IN  {Prop(items[k], "EnvironmentName") : k \in {j \in DOMAIN items : ~PropBool(items[j], "IsDefault")}}

\* Environments of a policy: a name, or None for an empty list.  Any other type,
\* an unexposed one included, is read as a list of the environments it covers.
Coverage(policy, all) ==
  LET listed == {Prop(policy, "Environments")} \ {None}
      type == Prop(policy, "EnvironmentType")
  IN  CASE type = "AllEnvironments" -> all
        [] type = "ExceptEnvironments" -> all \ listed
        [] OTHER -> listed \cap all
Covered(b) ==
  LET policies == Items(b, "pp_dlp", "dlp_policies")
  IN  UNION {Coverage(policies[k], Environments(b)) : k \in DOMAIN policies}

DlpVerdict(b, needed) ==
  IF ~Usable(b, "pp_dlp", "dlp_policies") THEN "partial"
  ELSE OkIf(Items(b, "pp_dlp", "dlp_policies") # <<>> /\ needed \subseteq Covered(b))
pp_dlp_all_environments(b) ==
  IF Environments(b) = {} THEN "partial" ELSE DlpVerdict(b, Environments(b))
pp_dlp_nondefault_environments(b) ==
  IF ~Usable(b, "pp_environments", "environments") THEN "partial"
  ELSE IF NonDefault(b) = {} THEN "ok"
  ELSE DlpVerdict(b, NonDefault(b))

-----------------------------------------------------------------------------
\* Purview governance

\* read_surface: the purview_governance adapter when it has the surface at all,
\* whatever its status; the compliance session otherwise.
ReadSurface(b, s) ==
  IF Found(b, "purview_governance", s) THEN b["purview_governance"][s]
  ELSE IF Found(b, "scc_compliance", s) THEN b["scc_compliance"][s]
  ELSE Unread("unavailable")
Readable(b, s) == ReadSurface(b, s).status = "ok"
NotDisabled(b, s) == SelectSeq(ReadSurface(b, s).items, LAMBDA i : i.enabled # "false")

pur_sensitivity_labels_published(b) ==
  IF ~(Readable(b, "sensitivity_labels") /\ Readable(b, "label_policies")) THEN "partial"
  ELSE OkIf(/\ ReadSurface(b, "sensitivity_labels").items # <<>>
            /\ NotDisabled(b, "label_policies") # <<>>)

\* The key is enough, whatever its value.
pur_sensitivity_auto_labeling(b) ==
  IF ~Readable(b, "label_policies") THEN "partial"
  ELSE OkIf(Some(NotDisabled(b, "label_policies"), LAMBDA i : "DefaultLabelId" \in DOMAIN i.props))

pur_default_and_mandatory_labels(b) ==
  LET default(i) == Prop(i, "Settings") = "default" \/ Prop(i, "DefaultLabelId") \notin {None, ""}
      mandatory(i) == Prop(i, "Settings") = "mandatory" \/ PropBool(i, "Mandatory")
      has(P(_)) == Some(NotDisabled(b, "label_policies"), P)
  IN  IF ~Readable(b, "label_policies") THEN "partial"
      ELSE IF has(default) /\ has(mandatory) THEN "ok"
      ELSE IF has(default) \/ has(mandatory) THEN "partial" ELSE "gap"

pur_retention_policy_coverage(b) ==
  IF ~(Readable(b, "retention_policies") /\ Readable(b, "retention_rules")) THEN "partial"
  ELSE IF ReadSurface(b, "retention_policies").items = <<>> THEN "gap"
  ELSE IF ReadSurface(b, "retention_rules").items = <<>> THEN "partial" ELSE "ok"
=============================================================================
