---------------------------- MODULE MCPolicyScan ----------------------------
(***************************************************************************)
(* The checks of settings over small tenants: lists of up to two rows, a   *)
(* few of them longer, and of every property the values its evaluator      *)
(* tells apart.  A policy that can be switched off says so in Enabled.     *)
(***************************************************************************)
EXTENDS PolicyScan

Bool == {"true", "false"}
Reading(adapter, reads) == <<[adapter |-> adapter, reads |-> reads]>>

\* A threat policy: one property of a list, the list of its rules besides.
Policies(policy, fields) == policy :> ("Enabled" :> Bool @@ fields)
Pair(policy, rule, fields) ==
  Reading("exo_threat_policies", Policies(policy, fields) @@ rule :> ("State" :> {"Enabled"}))
Plain(policy, fields) == Reading("exo_threat_policies", Policies(policy, fields))
Scc(cmdlet, fields) == Reading("scc_compliance", cmdlet :> fields)
Spo(fields) == Reading("spo_tenant", "Get-SPOTenant" :> fields)
PowerTenantRead(n) == Reading("pp_tenant", "Get-TenantSettings" :> (n :> Bool))
PowerBiRead(s, fields) ==
  Reading("pbi_tenant", "Get-PowerBITenantSetting" :> ("settingName" :> {s, "any other"} @@ fields))
MeetingRead(n, values) == Reading("teams_meeting", "Get-CsTeamsMeetingPolicy" :> (n :> values))
DnsRead == Reading("dns", "domains" :> [spf |-> {"-all", "+all", None},
                                        dmarc |-> {"reject", None}, rua |-> {"agency", None}])

Actions(varied) == [n \in SpamActions |-> IF n \in varied THEN {"Quarantine", "Inbox"} ELSE {"Quarantine"}]
Tips(varied) == [n \in SafetyTips |-> IF n \in varied THEN Bool ELSE {"true"}]
RuleFields == [State |-> {"Enabled", "Disabled"}, Mode |-> {"Enforce"}]
Capability == {"Disabled", "ExistingExternalUserSharingOnly", "ExternalUserAndGuestSharing"}
Retention == "Get-RetentionCompliancePolicy" :> [Enabled |-> Bool]
             @@ "Get-RetentionComplianceRule" :> [Disabled |-> {"false"}]
LabelPolicy(fields) == "Get-LabelPolicy" :> ("Enabled" :> Bool @@ fields)
BothSessions(reads) == Reading("scc_compliance", reads) \o Reading("purview_governance", reads)
Audit == "Get-AdminAuditLogConfig" :> [UnifiedAuditLogIngestionEnabled |-> Bool]
Environment == Reading("pp_environments",
  "Get-AdminPowerAppEnvironment" :> [EnvironmentName |-> {"e1", "e2"}, IsDefault |-> Bool])
DataPolicies == Reading("pp_dlp",
  "Get-DlpPolicy" :> [EnvironmentType |-> {"AllEnvironments", "ExceptEnvironments", "OnlyEnvironments"},
                      Environments |-> {"e1", None}])

MailChecks ==
  [exo_forwarding_external_disabled |-> Reading("exo_remote_domains",
     "Get-RemoteDomain" :> [DomainName |-> {"*", "partner"}, AutoForwardEnabled |-> Bool]),
   exo_smtp_auth_disabled |-> Reading("exo_smtp_auth",
     "Get-TransportConfig" :> [SmtpClientAuthenticationDisabled |-> Bool]),
   exo_sharing_contact_not_all_domains |-> Reading("exo_sharing",
     "Get-SharingPolicy" :> [Enabled |-> Bool, Domains |-> {"anonymous", "named"}]),
   exo_external_sender_warnings |-> Reading("exo_transport",
     "Get-TransportRule" :> (RuleFields @@
        [FromScope |-> {"NotInOrganization", None}, PrependSubject |-> {"[External]", None}])
     @@ "Get-OrganizationConfig" :> [MailTipsExternalRecipientsTipsEnabled |-> Bool]),
   exo_mailbox_audit_enabled |-> Reading("exo_audit",
     "Get-OrganizationConfig" :> [AuditDisabled |-> Bool]),
   exo_dkim_enabled |-> Reading("exo_dkim", "Get-DkimSigningConfig" :> [Enabled |-> Bool]),
   exo_spf_published |-> DnsRead, exo_dmarc_published |-> DnsRead, exo_dmarc_reject |-> DnsRead,
   exo_dmarc_agency_contact |-> DnsRead,
   mdo_outbound_spam_forwarding_block |-> Pair("Get-HostedOutboundSpamFilterPolicy",
     "Get-HostedOutboundSpamFilterRule", [AutoForwardingEnabled |-> Bool]),
   mdo_transport_rule_external_forward |->
     Reading("exo_transport", "Get-TransportRule" :>
        (RuleFields @@ [RedirectMessageTo |-> {"own", "other", None}]))
     \o Reading("exo_accepted_domains", "Get-AcceptedDomain" :> [DomainName |-> {"own"}])]

ThreatChecks ==
  LET antiPhish(fields) == Pair("Get-AntiPhishPolicy", "Get-AntiPhishRule", fields)
      safeLinks(fields) == Pair("Get-SafeLinksPolicy", "Get-SafeLinksRule", fields)
      antiSpam(fields) == Pair("Get-HostedContentFilterPolicy", "Get-HostedContentFilterRule", fields)
      connection(fields) == Pair("Get-HostedConnectionFilterPolicy",
                                 "Get-HostedConnectionFilterRule", fields)
      antiMalware(fields) == Pair("Get-MalwareFilterPolicy", "Get-MalwareFilterRule", fields)
  IN
  [mdo_impersonation_users_protected |->
     Plain("Get-AntiPhishPolicy", [EnableTargetedUserProtection |-> Bool]),
   mdo_impersonation_partner_domains |->
     Plain("Get-AntiPhishPolicy", [EnableTargetedDomainsProtection |-> Bool]),
   mdo_impersonation_domains_owned |->
     Plain("Get-AntiPhishPolicy", [EnableOrganizationDomainsProtection |-> Bool]),
   mdo_safety_tips_enabled |-> antiPhish(Tips({"EnableFirstContactSafetyTips"})),
   mdo_mailbox_intelligence |-> antiPhish([EnableMailboxIntelligence |-> Bool]),
   mdo_malware_file_filter |-> antiMalware([EnableFileFilter |-> Bool]),
   mdo_malware_zap |-> antiMalware([ZapEnabled |-> Bool]),
   mdo_safe_attachments_block |-> Pair("Get-SafeAttachmentPolicy", "Get-SafeAttachmentRule",
                                       [Action |-> {"Block", "Allow"}]),
   mdo_safe_links_block_list |-> safeLinks([EnableSafeLinksForEmail |-> Bool,
     EnableSafeLinksForTeams |-> Bool, EnableSafeLinksForOffice |-> {"true"}]),
   mdo_safe_links_real_time_scan |-> safeLinks([ScanUrls |-> Bool]),
   mdo_safe_links_click_tracking |-> safeLinks([TrackClicks |-> Bool]),
   mdo_safe_links_click_through |-> safeLinks([AllowClickThrough |-> Bool]),
   mdo_quarantine_policy |-> Plain("Get-QuarantinePolicy",
     [EndUserQuarantinePermissionsValue |-> {"FullAccess", "LimitedAccess"},
      RetentionDurationInDays |-> {"15", "30"}]),
   mdo_spam_phish_not_inbox |-> antiSpam(Actions({"SpamAction", "HighConfidencePhishAction"})),
   mdo_anti_spam_no_allowed_domains |-> antiSpam([AllowedSenders |-> {"some", None},
                                                  AllowedSenderDomains |-> {"some", None}]),
   mdo_connection_filter_no_ip_allow |-> connection([IPAllowList |-> {"some", None}]),
   mdo_connection_filter_no_safe_list |-> connection([EnableSafeList |-> Bool]),
   mdo_safe_attachments_spo_teams |-> Plain("Get-AtpPolicyForO365",
     [EnableATPForSPOTeamsODB |-> Bool]),
   mdo_safe_documents |-> Plain("Get-AtpPolicyForO365", [EnableSafeDocs |-> Bool]),
   mdo_p2_policies |-> Reading("exo_threat_policies",
     Policies("Get-SafeLinksPolicy", [IsDefault |-> Bool])
     @@ Policies("Get-SafeAttachmentPolicy", <<>>)
     @@ "Get-ATPProtectionPolicyRule" :> [State |-> {"Enabled", "Disabled"}])]

ComplianceChecks ==
  LET dlp(workloads) == Scc("Get-DlpCompliancePolicy", [Mode |-> {"Enable", "TestWithNotifications"},
                                                        Workload |-> workloads])
      rule(n) == Scc("Get-DlpComplianceRule", ("Disabled" :> Bool @@ n :> Bool))
  IN
  [mdo_unified_audit_enabled |-> Reading("scc_compliance", Audit) \o Reading("exo_audit", Audit),
   pur_dlp_policy_present |-> dlp({"Exchange"}),
   pur_dlp_locations_complete |-> dlp({"Exchange", "Text", "List"}),
   pur_endpoint_dlp |-> dlp({"Exchange", "Devices", "Text"}),
   pur_dlp_enforcement_block |-> rule("BlockAccess"),
   pur_dlp_notifications |-> rule("NotifyUser"),
   pur_sensitivity_labels_published |->
     BothSessions("Get-Label" :> [Disabled |-> {"false"}] @@ LabelPolicy(<<>>)),
   pur_sensitivity_auto_labeling |-> BothSessions(LabelPolicy([DefaultLabelId |-> {"id", ""}])),
   pur_default_and_mandatory_labels |->
     BothSessions(LabelPolicy([DefaultLabelId |-> {"id", ""}, Mandatory |-> Bool])),
   pur_retention_policy_coverage |-> Reading("purview_governance", Retention)]

CollaborationTable ==
  LET sharing == "SharingCapability" :> Capability
      federation(cmdlet, fields) == Reading("teams_federation", cmdlet :> fields)
  IN
  [spo_sharing_capability_limited |-> Spo(sharing),
   spo_onedrive_sharing_limited |-> Spo("OneDriveSharingCapability" :> Capability),
   spo_unmanaged_device_access |-> Spo([ConditionalAccessPolicy |-> {"BlockAccess", "AllowFullAccess"}]),
   spo_domain_restrictions |-> Spo(sharing @@
     [SharingDomainRestrictionMode |-> {"AllowList", None},
      SharingAllowedDomainList |-> {"partner", "stranger", None}]),
   spo_default_link_specific |-> Spo([DefaultSharingLinkType |-> {"Direct", "Internal", "AnonymousAccess"}]),
   spo_default_link_view |-> Spo([DefaultLinkPermission |-> {"View", "Edit"}]),
   spo_anyone_link_expiration |-> Spo(sharing @@ [RequireAnonymousLinksExpireInDays |-> {"30", "90", "-1"}]),
   spo_anyone_link_view |-> Spo(sharing @@ [FileAnonymousLinkType |-> {"View", "Edit"},
                                            FolderAnonymousLinkType |-> {"View", "Edit"}]),
   spo_verification_reauth |-> Spo(sharing @@ [EmailAttestationRequired |-> Bool,
                                               EmailAttestationReAuthDays |-> {"30", "60"}]),
   teams_external_access_per_domain |-> federation("Get-CsTenantFederationConfiguration",
     [AllowFederatedUsers |-> Bool, AllowedDomains |-> {"*", "partner", "stranger"}]),
   teams_unmanaged_inbound_blocked |-> federation("Get-CsExternalAccessPolicy",
     [EnableTeamsConsumerInbound |-> Bool]),
   teams_unmanaged_outbound_blocked |-> federation("Get-CsExternalAccessPolicy",
     [EnableTeamsConsumerAccess |-> Bool]),
   teams_email_integration_disabled |-> Reading("teams_client",
     "Get-CsTeamsClientConfiguration" :> [AllowEmailIntoChannel |-> Bool]),
   teams_guest_access_restricted |-> Reading("teams_client",
     [m \in Range(GuestCmdlets) |-> GuestProps[CHOOSE i \in 1..3 : GuestCmdlets[i] = m] :> Bool]),
   teams_anonymous_lobby |-> MeetingRead("AutoAdmittedUsers", {"Everyone", "EveryoneInCompany"}),
   teams_internal_auto_admit |-> MeetingRead("AutoAdmittedUsers", {"Everyone", "EveryoneInCompany"}),
   teams_broadcast_not_always_record |-> Reading("teams_meeting",
     "Get-CsTeamsMeetingBroadcastPolicy" :> [BroadcastRecordingMode |-> {"AlwaysEnabled", "UserOverride"}])]
  @@ [c \in DOMAIN MeetingFlags |-> MeetingRead(MeetingFlags[c], Bool)]
  @@ [c \in DOMAIN AppCatalogs |-> Reading("teams_apps",
        "Get-CsTeamsAppPermissionPolicy" :> (AppCatalogs[c] :> {"AllowedAppList", "BlockedAppList"})
        @@ "Get-M365UnifiedTenantSettings" :> [Value |-> {"set"}])]

PowerTable ==
  [pp_tenant_isolation_enabled |-> Reading("pp_isolation",
     "Get-PowerAppTenantIsolationPolicy" :> [isDisabled |-> Bool]),
   pp_tenant_isolation_allowlist |-> Reading("pp_isolation",
     "Get-PowerAppTenantIsolationPolicy" :> [isDisabled |-> Bool, allowedTenants |-> {"some", None}]),
   pp_dlp_all_environments |-> Environment \o DataPolicies,
   pp_dlp_nondefault_environments |-> Environment \o DataPolicies,
   pbi_sp_api_restricted |-> PowerBiRead("service_principal_api",
     [enabled |-> Bool, securityGroups |-> {"some", None}])]
  @@ [c \in DOMAIN PowerPlatformSwitches |-> PowerTenantRead(PowerPlatformSwitches[c][2])]
  @@ [c \in DOMAIN PowerBiSwitches |-> PowerBiRead(PowerBiSwitches[c][1], [enabled |-> Bool])]

-----------------------------------------------------------------------------
\* Checks of Graph evidence

SomeOrNo == {"some", "no"}
Assignments == "assignments" :> SomeOrNo
Intune(reads) == Reading("intune_bundle", reads)

IntuneChecks ==
  LET configurations(types) == "deviceConfigurations" :> (Assignments @@ "type" :> types)
      families(values) == "configurationPolicies" :> [family |-> values]
      devices == "managedDevices" :> [operatingSystem |-> {"windows", "ios"}]
  IN
  [endpoint_asr_rules |-> Intune("asrPolicies" :> (Assignments @@ "rules" :> SomeOrNo)
     @@ "configurationPolicies" :> [family |-> {"attack surface reduction", "firewall"},
                                    assignments |-> {"some"}, rules |-> {"some"}]),
   endpoint_bitlocker_policy |-> Intune("deviceConfigurations" :> (Assignments
     @@ [type |-> {"bitlocker", "endpointProtection"}, bitLockerEncryptDevice |-> Bool])),
   endpoint_tamper_protection |-> Intune(configurations({"defenderAtp", "other"})
     @@ "managedDevices" :> [operatingSystem |-> {"windows", "ios"}, tamper |-> Bool]),
   endpoint_compliance_enforcement |-> Intune("stateSummary" :>
     [compliantDeviceCount |-> {"0", "1"}, nonCompliantDeviceCount |-> {"0", "1"}]),
   endpoint_mam_app_protection |-> Intune("appProtections" :> (Assignments
     @@ "type" :> {"targeted", "default", "unknown"})),
   endpoint_security_baseline |-> Intune(families({"baseline", "firewall"})),
   endpoint_security_policy_coverage |-> Intune(families(ExpectedFamilies)),
   endpoint_mde_connector |-> Intune("atpOnboarding" :>
     [onboardedDeviceCount |-> {"0", "1"}, unknownDeviceCount |-> {"0", "1"}]),
   endpoint_compliance_policy_assigned |-> Intune(devices @@
     "compliancePolicies" :> (Assignments @@ "platforms" :> {"windows", "ios"})),
   endpoint_compliance_noncompliance_action |->
     Intune("compliancePolicies" :> (Assignments @@ "actions" :> SomeOrNo)),
   endpoint_enrollment_coverage |-> Intune(devices),
   mde_onboard_gap |-> Reading("mde_summary",
     "machineCount" :> [count |-> {"0", "1"}] @@ "machines" :> [healthStatus |-> {"Active"}]),
   mde_sensor_health |-> Reading("mde_health", "machines" :> [healthStatus |-> {"Active", "Inactive"}]),
   xdr_incident_readiness |-> Reading("security_alerts_bundle",
     "alerts" :> [serviceSource |-> {"endpoint", "identity"}]),
   mdi_sensors_missing |->
     Reading("mdi_health", "sensors" :> [healthStatus |-> {"healthy", "notHealthy"},
                                         deploymentStatus |-> {"upToDate", "disconnected"}])
     \o Reading("secure_score_controls", "controls" :> [score |-> {"0", "1"}])]

OnOff == {"enabled", "disabled"}
CaPoliciesRead(fields) == Reading("ca_policies", "policies" :> ("state" :> OnOff @@ fields))
Policy(runtime, fields) == Reading(runtime, "policy" :> fields)
Authentication(fields) == Reading("auth_methods_bundle", "configurations" :> fields)
Applications(fields) == Reading("applications_bundle", "applications" :> fields)
PimPolicies(fields) == Reading("pim_policies_bundle", "policies" :> fields)
RoleAssignments(fields) == Reading("role_assignments", "roleAssignments" :> fields)

GovernanceChecks ==
  LET definitions(fields) == Reading("access_review_definitions",
                                     "definitions" :> ([privileged |-> Bool, recurring |-> Bool] @@ fields))
      authenticator == [id |-> {"MicrosoftAuthenticator"}, state |-> OnOff]
      guests(fields) == Reading("guests_bundle", "default" :> fields)
  IN
  [id_security_defaults_on |->
     Policy("security_defaults_policy", [isEnabled |-> Bool])
     \o Reading("ca_policies", "policies" :> [state |-> OnOff \cup {"reportOnly"}]),
   id_access_reviews_unused |-> definitions(<<>>),
   id_access_reviews_scope |->
     definitions("review" :> {"r1", "r2"})
     \o Reading("access_review_instances",
                "instances" :> [review |-> {"r1", "r2"}, status |-> {"Completed", "InProgress"}]),
   id_entitlement_access_packages |-> Reading("access_packages", "packages" :> [isHidden |-> Bool]),
   id_auth_methods_migration |-> Policy("auth_methods_bundle",
     [policyMigrationState |-> {"migrationComplete", "migrationInProgress", "preMigration"}]),
   id_auth_weak_methods_disabled |->
     Authentication([id |-> {"Sms", "MicrosoftAuthenticator"}, state |-> OnOff]),
   id_auth_authenticator_context |-> Authentication(authenticator @@
     [displayAppInformation |-> OnOff, displayLocation |-> OnOff, numberMatchingRequiredState |-> OnOff]),
   id_auth_number_matching |-> Authentication(authenticator @@
     [numberMatchingRequiredState |-> OnOff \cup {"default"}]),
   id_guest_directory_access |-> Policy("authorization_policy",
     [guestUserRoleId |-> {"guest", "restricted", "member"}]),
   id_guest_inviter_restricted |-> Policy("authorization_policy",
     [allowInvitesFrom |-> {"adminsAndGuestInviters", "adminsGuestInvitersAndAllMembers", "everyone"}]),
   id_guest_invite_domains |-> guests([inboundAccess |-> {"blocked"}])
                               \o Reading("approved_guest_domains", <<>>),
   id_cross_tenant_defaults |-> guests([inboundAccess |-> {"blocked", "allowed"}]),
   id_cross_tenant_mfa_trust |-> guests([inboundMfaAccepted |-> Bool]),
   id_app_registration_admin_only |-> Policy("authorization_policy", [allowedToCreateApps |-> Bool]),
   id_app_user_consent_restricted |-> Policy("authorization_policy",
     [grantPolicies |-> {"legacy", "lowRisk"}]),
   id_app_admin_consent_workflow |-> Policy("admin_consent_request_policy", [isEnabled |-> Bool])]

DirectoryChecks ==
  LET rule == [policy |-> {"p1", "p2"}, type |-> {"approval", "notification"}]
      globalAdmin == "assignments" :> [role |-> {"globalAdmin", "other"}, policy |-> {"p1", "p2"}]
      holders == [role |-> HighlyPrivileged, holders |-> {"one", "twoToEight", "more"}]
      standing == RoleAssignments([role |-> {"globalAdmin", "reader"}])
      users == "users" :> DOMAIN Users
  IN
  [id_app_password_addition_blocked |->
     CaPoliciesRead([blocks |-> Bool, displayName |-> {"app password", "other"}]),
   id_ai_agents_risky_block |-> CaPoliciesRead([mentionsAgents |-> Bool]),
   id_app_risky_delegated_consent |-> Reading("applications_bundle",
     "grants" :> [scope |-> {"risky", "low"}, consentType |-> {"AllPrincipals", "Principal"}]),
   id_app_certificate_lifetime |-> Applications([lifetime |-> {"long", "short"}]),
   id_app_expiring_credentials |-> Applications([ends |-> {"expired", "soon", "later"}]),
   id_app_ownerless_or_stale |-> Applications([ends |-> {"longExpired", "later"}, old |-> Bool]),
   id_pim_ga_activation_approval |-> Reading("pim_policies_bundle",
     "policies" :> (rule @@ "required" :> Bool) @@ globalAdmin),
   id_pim_ga_activation_alert |-> Reading("pim_policies_bundle", "policies" :> rule @@ globalAdmin),
   id_pim_privileged_assignment_alert |-> PimPolicies(rule),
   id_pim_other_activation_alert |-> PimPolicies(rule),
   id_pim_activation_controls |-> PimPolicies(
     [type |-> {"expiration", "authenticationContext", "justification"}, required |-> Bool,
      maximumDuration |-> {"PT8H", "PT24H"}]),
   id_pim_no_permanent_privileged |-> standing,
   id_pim_no_outside_pam |-> standing \o Reading("role_eligibilities", "eligibilities" :> [role |-> {"globalAdmin"}]),
   id_ga_count_bounds |-> RoleAssignments(holders),
   id_ga_finer_roles |-> RoleAssignments(holders),
   id_priv_cloud_only |-> RoleAssignments([principal |-> {"a", "b"}])
     \o Reading("principal_directory", "objects" :>
          [principal |-> {"a", "b"}, onPremisesSyncEnabled |-> Bool \cup {None},
           userPrincipalName |-> {"upn", None}]),
   id_password_never_expire |-> Reading("domains",
     "domains" :> [isVerified |-> Bool, passwordValidityPeriodInDays |-> {"90", "never"}]),
   id_protective_plan_assignment |-> Reading("license_assignment",
     [r \in {"members", "plan", "firstSku", "secondSku"} |-> users]),
   id_identity_protection_workload |-> Reading("risky_service_principals",
     "principals" :> [riskState |-> {"atRisk", "dismissed"}]),
   id_ca_workload_identity |-> CaPoliciesRead([servicePrincipalRisk |-> Bool])]

RiskTables == {"AADRiskyUsers", "AADUserRiskEvents"}
Catalog == [entra_id |-> {"SigninLogs"}, identity_protection |-> RiskTables]
PlatformTable ==
  LET detections(fields) == Reading("sentinel_rules",
                                    "rules" :> ("table" :> {"SigninLogs", "parser"} @@ fields))
      usage(tables, flow) == Reading("la_usage_by_table",
        "workspace" :> [customerId |-> {"w"}] @@ "usage" :> [table |-> tables, ingesting |-> flow]
        @@ "tableList" :> [table |-> tables])
      catalog == Reading("telemetry_expectations", <<>>)
      present(r) == r :> [id |-> {"1"}]
  IN
  [sen_analytics_rule_coverage |->
     detections([Enabled |-> Bool, kind |-> {"scheduled", "fusion"}, tactic |-> {"access"}])
     \o usage({"SigninLogs"}, Bool) \o catalog,
   sen_rule_telemetry_parity |->
     detections([Enabled |-> {"true"}, kind |-> {"scheduled"}])
     \o usage({"SigninLogs", "AADRiskyUsers"}, {"true"}) \o catalog,
   sen_telemetry_ingestion_coverage |-> usage(RiskTables \cup {"SigninLogs"}, {"true"}) \o catalog,
   sen_entra_diagnostics_routed |-> usage(RiskTables, Bool),
   sen_ueba |-> Reading("sentinel_ueba", present("alertRules")
     @@ "settings" :> [name |-> {"EntityAnalytics", "Ueba"}, isEnabled |-> Bool]),
   sen_data_connectors |->
     Reading("sentinel_data_connectors", "connectors" :>
       [kind |-> {"entra", "defender", "other"}, dataTypes |-> OnOff]) \o usage({"SigninLogs"}, Bool),
   sen_automation_rules |-> Reading("sentinel_automation_rules",
     "automationRules" :> [action |-> {"RunPlaybook", "ModifyProperties"}]),
   sen_log_analytics_retention |-> Reading("sentinel_workspace",
     "workspace" :> [retentionInDays |-> {"90", "60", "30"}]),
   az_defender_plan_enabled |-> Reading("defender_for_cloud_pricings",
     "pricings" :> [pricingTier |-> {"Standard", "Free"}]),
   pur_dlp_not_enforced |-> Reading("purview_dlp",
     "secureScores" :> [score |-> {"0", "1"}] @@ "dlpPolicies" :> [mode |-> {"enforce", "test"}]),
   pur_ediscovery_readiness |-> Reading("purview_ediscovery", present("cases")),
   pur_insider_risk_readiness |-> Reading("purview_insider_risk", present("policies")),
   pbi_premium_capacity_governance |-> Reading("pbi_capacity_bundle", present("capacities"))]

-----------------------------------------------------------------------------
\* Checks that share an evaluator with another one, and checks without evidence.
TwinChecks ==
  [exo_sharing_calendar_not_all_domains |-> MailChecks.exo_sharing_contact_not_all_domains,
   exo_dmarc_federal_contact |-> DnsRead,
   id_app_password_lifetime |-> DirectoryChecks.id_app_certificate_lifetime]
ManualChecks ==
  [c \in {"mdo_alert_policies_enabled", "mdo_audit_retention", "az_cspm_out_of_scope",
          "pur_communication_compliance_readiness", "id_idprotect_notify_high_risk",
          "id_logs_to_soc"} |-> <<>>]

AllChecks == MailChecks @@ ThreatChecks @@ ComplianceChecks @@ CollaborationTable @@ PowerTable
             @@ IntuneChecks @@ GovernanceChecks @@ DirectoryChecks @@ PlatformTable
             @@ TwinChecks @@ ManualChecks
AllOptions ==
  [exo_forwarding_external_disabled |-> {{}, {"partner"}},
   exo_dmarc_agency_contact |-> {{}, {"dmarc_contact"}},
   exo_dmarc_federal_contact |-> {{}, {"dmarc_contact"}},
   mdo_impersonation_users_protected |-> {{}, {"sensitive_users"}},
   mdo_impersonation_partner_domains |-> {{}, {"sensitive_domains"}},
   mdo_p2_policies |-> {{}, {"low_secure_score"}},
   spo_domain_restrictions |-> {{}, {"approved_partners"}},
   teams_external_access_per_domain |-> {{}, {"approved_partners"}},
   endpoint_enrollment_coverage |-> {{}, {"intune_licensed"}},
   id_guest_invite_domains |-> {{}, {"approved_guest_domains"}},
   sen_rule_telemetry_parity |-> {{}, {"identity_protection"}},
   sen_telemetry_ingestion_coverage |-> SUBSET DOMAIN Catalog,
   sen_entra_diagnostics_routed |-> {{}, {"identity_protection"}}]
  @@ [c \in DOMAIN AllChecks |-> {{}}]

\* Every check of the run is bound, and bound once: add_evaluator refuses a second
\* binding, and a check without one would be skipped.
ASSUME RegisteredOnce == \A c \in DOMAIN AllChecks : Cardinality(Registered(Bindings(c, <<>>, {}))) = 1

SingleObjects ==
  {"Get-TransportConfig", "Get-OrganizationConfig", "Get-AdminAuditLogConfig", "Get-SPOTenant",
   "Get-CsTenantFederationConfiguration", "Get-TenantSettings",
   "Get-PowerAppTenantIsolationPolicy"} \cup Range(GuestCmdlets)
  \cup {"policy", "default", "atpOnboarding", "stateSummary", "members", "plan", "firstSku",
        "secondSku", "workspace", "machineCount"}
PagedAdapters == {"purview_governance", "pp_environments", "pp_dlp", "pbi_tenant"}
RowNames ==
  {<<"Get-AdminPowerAppEnvironment", "EnvironmentName">>,
   <<"Get-PowerBITenantSetting", "settingName">>, <<"configurations", "id">>, <<"definitions", "review">>,
   <<"objects", "principal">>, <<"roleAssignments", "role">>, <<"usage", "table">>, <<"tableList", "table">>, <<"settings", "name">>}
GivenProperties ==
  {"id", "type", "kind", "role", "policy", "principal", "review", "users", "table", "ingesting",
   "customerId", "holders", "score", "state"}
PerRowRequests == {"assignments", "rules", "actions", "tamper"}
RowBounds ==
  [endpoint_asr_rules |-> 3, endpoint_security_policy_coverage |-> 4, mde_sensor_health |-> 5,
   id_pim_activation_controls |-> 3, sen_rule_telemetry_parity |-> 5,
   sen_telemetry_ingestion_coverage |-> 3, sen_data_connectors |-> 3]
  @@ [c \in DOMAIN AllChecks |-> 2]
=============================================================================
