---------------------------- MODULE CheckEvidence ----------------------------
(***************************************************************************)
(* What the checks of settings rest on, and what takes it away: the        *)
(* reference for "an API failure never becomes a clean pass or a false     *)
(* gap" (README.md).  It says which checks are not judged without which    *)
(* surfaces, and which lost reads cost a surface.  A check that is judged  *)
(* on the rest by design (PolicyScan) is not listed where it is.           *)
(***************************************************************************)
EXTENDS EvaluatorBindings

\* A runtime of Graph as a whole.
Whole == "whole"
Missing(b, a, s) == IF s = Whole THEN FailedRuntime(b, a) ELSE ~Usable(b, a, s)

\* A check has lost what it rests on, when gone says which surfaces are gone: one
\* that it cannot be judged without, or all of those that do for one another.
MailLost(c, gone(_, _)) ==
  \/ /\ c = "exo_external_sender_warnings"
     /\ gone("exo_transport", "external_warning") /\ gone("exo_transport", "transport_rules")
  \/ /\ c = "mdo_unified_audit_enabled"
     /\ gone("exo_audit", "mailbox_audit") /\ gone("scc_compliance", "audit_config")
  \/ c = "exo_forwarding_external_disabled" /\ gone("exo_remote_domains", "remote_domains")
  \/ c = "exo_mailbox_audit_enabled" /\ gone("exo_audit", "organization_audit")
  \/ c = "exo_smtp_auth_disabled" /\ gone("exo_smtp_auth", "smtp_auth")
  \/ c = "exo_dkim_enabled" /\ gone("exo_dkim", "dkim")
  \/ /\ c \in {"exo_dmarc_agency_contact", "exo_dmarc_federal_contact", "exo_dmarc_published",
               "exo_dmarc_reject", "exo_spf_published"}
     /\ gone("dns", "domains")
  \/ c = "mdo_transport_rule_external_forward" /\ gone("exo_transport", "transport_rules")
  \/ /\ c \in {"exo_sharing_calendar_not_all_domains", "exo_sharing_contact_not_all_domains"}
     /\ gone("exo_sharing", "sharing_policies")
ThreatLost(c, gone(_, _)) ==
  \/ c = "mdo_outbound_spam_forwarding_block" /\ gone("exo_threat_policies", "outbound_spam")
  \/ /\ c \in {"mdo_mailbox_intelligence", "mdo_safety_tips_enabled"}
     /\ gone("exo_threat_policies", "anti_phish")
  \/ /\ c \in {"mdo_impersonation_domains_owned", "mdo_impersonation_partner_domains",
               "mdo_impersonation_users_protected"}
     /\ gone("exo_threat_policies", "impersonation")
  \/ c = "mdo_safe_attachments_block" /\ gone("exo_threat_policies", "safe_attachments")
  \/ /\ c \in {"mdo_safe_links_block_list", "mdo_safe_links_click_through",
               "mdo_safe_links_click_tracking", "mdo_safe_links_real_time_scan"}
     /\ gone("exo_threat_policies", "safe_links")
  \/ c = "mdo_quarantine_policy" /\ gone("exo_threat_policies", "quarantine")
  \/ /\ c \in {"mdo_anti_spam_no_allowed_domains", "mdo_spam_phish_not_inbox"}
     /\ gone("exo_threat_policies", "anti_spam")
  \/ /\ c \in {"mdo_connection_filter_no_ip_allow", "mdo_connection_filter_no_safe_list"}
     /\ gone("exo_threat_policies", "connection_filter")
  \/ /\ c \in {"mdo_safe_attachments_spo_teams", "mdo_safe_documents"}
     /\ gone("exo_threat_policies", "atp_global")
  \/ /\ c \in {"mdo_malware_file_filter", "mdo_malware_zap"}
     /\ gone("exo_threat_policies", "anti_malware")
ComplianceLost(c, gone(_, _)) ==
  \/ /\ c = "pur_sensitivity_labels_published"
     /\ gone("scc_compliance", "sensitivity_labels")
     /\ gone("purview_governance", "sensitivity_labels")
  \/ /\ c \in {"pur_default_and_mandatory_labels", "pur_sensitivity_auto_labeling",
               "pur_sensitivity_labels_published"}
     /\ gone("scc_compliance", "label_policies") /\ gone("purview_governance", "label_policies")
  \/ /\ c = "pur_retention_policy_coverage"
     /\ gone("scc_compliance", "retention_policies")
     /\ gone("purview_governance", "retention_policies")
  \/ /\ c = "pur_retention_policy_coverage"
     /\ gone("scc_compliance", "retention_rules") /\ gone("purview_governance", "retention_rules")
  \/ /\ c \in {"pur_dlp_locations_complete", "pur_dlp_policy_present", "pur_endpoint_dlp"}
     /\ gone("scc_compliance", "dlp_policies")
  \/ /\ c \in {"pur_dlp_enforcement_block", "pur_dlp_notifications"}
     /\ gone("scc_compliance", "dlp_rules")
SharingLost(c, gone(_, _)) ==
  \/ /\ c \in {"spo_domain_restrictions", "spo_sharing_capability_limited"}
     /\ gone("spo_tenant", "sharing_capability")
  \/ c = "spo_onedrive_sharing_limited" /\ gone("spo_tenant", "onedrive_sharing")
  \/ c = "spo_unmanaged_device_access" /\ gone("spo_tenant", "unmanaged_device_policy")
  \/ c = "spo_anyone_link_expiration" /\ gone("spo_tenant", "anyone_link_expiration")
  \/ c = "spo_anyone_link_view" /\ gone("spo_tenant", "anyone_link_permissions")
  \/ /\ c \in {"spo_default_link_specific", "spo_default_link_view"}
     /\ gone("spo_tenant", "default_link")
  \/ c = "spo_verification_reauth" /\ gone("spo_tenant", "reauth_days")
TeamsLost(c, gone(_, _)) ==
  \/ c = "teams_email_integration_disabled" /\ gone("teams_client", "email_integration")
  \/ c = "teams_external_access_per_domain" /\ gone("teams_federation", "federation")
  \/ c = "teams_guest_access_restricted" /\ gone("teams_client", "guest_access")
  \/ /\ c \in {"teams_anonymous_lobby", "teams_anonymous_start_disabled", "teams_dialin_lobby",
               "teams_external_control_disabled", "teams_internal_auto_admit",
               "teams_recording_disabled"}
     /\ gone("teams_meeting", "meeting_policies")
  \/ c = "teams_broadcast_not_always_record" /\ gone("teams_meeting", "broadcast_policies")
  \/ /\ c \in {"teams_custom_apps_governed", "teams_microsoft_apps_governed",
               "teams_third_party_apps_governed"}
     /\ gone("teams_apps", "app_permission_policies")
  \/ /\ c \in {"teams_unmanaged_inbound_blocked", "teams_unmanaged_outbound_blocked"}
     /\ gone("teams_federation", "unmanaged_users")
PowerLost(c, gone(_, _)) ==
  \/ /\ c \in {"pp_dlp_all_environments", "pp_dlp_nondefault_environments"}
     /\ gone("pp_environments", "environments")
  \/ c = "pp_dlp_all_environments" /\ gone("pp_dlp", "dlp_policies")
  \/ /\ c \in {"pp_tenant_isolation_allowlist", "pp_tenant_isolation_enabled"}
     /\ gone("pp_isolation", "tenant_isolation")
  \/ c = "pbi_sp_api_restricted" /\ gone("pbi_tenant", "service_principal_api")
  \/ /\ c \in {"pp_env_creation_admin_only", "pp_trial_creation_admin_only"}
     /\ gone("pp_tenant", "environment_creation")
  \/ c = "pp_pages_creation_admin_only" /\ gone("pp_tenant", "power_pages")
  \/ c = "pp_share_with_everyone_disabled" /\ gone("pp_tenant", "share_with_everyone")
  \/ c = "pbi_publish_to_web_disabled" /\ gone("pbi_tenant", "publish_to_web")
  \/ c = "pbi_guest_access_disabled" /\ gone("pbi_tenant", "guest_access")
  \/ c = "pbi_external_invite_disabled" /\ gone("pbi_tenant", "external_invite")
  \/ c = "pbi_sp_profiles_disabled" /\ gone("pbi_tenant", "service_principal_profiles")
  \/ c = "pbi_resource_key_auth_blocked" /\ gone("pbi_tenant", "resource_key_auth")
  \/ c = "pbi_python_r_visuals_disabled" /\ gone("pbi_tenant", "python_r_visuals")
  \/ c = "pbi_sensitivity_labels_enabled" /\ gone("pbi_tenant", "sensitivity_labels")
  \/ c = "pbi_export_controls" /\ gone("pbi_tenant", "export_data")
EndpointLost(c, gone(_, _)) ==
  \/ /\ c \in {"endpoint_compliance_noncompliance_action", "endpoint_compliance_policy_assigned"}
     /\ gone("intune_bundle", "compliance_policies")
  \/ c = "endpoint_enrollment_coverage" /\ gone("intune_bundle", "managed_devices")
  \/ c = "endpoint_asr_rules" /\ gone("intune_bundle", Whole)
  \/ /\ c \in {"endpoint_bitlocker_policy", "endpoint_tamper_protection"}
     /\ gone("intune_bundle", "device_configurations")
  \/ c = "endpoint_compliance_enforcement" /\ gone("intune_bundle", "compliance_state_summary")
  \/ c = "endpoint_mam_app_protection" /\ gone("intune_bundle", "app_protection_policies")
  \/ c = "endpoint_mde_connector" /\ gone("intune_bundle", "atp_onboarding_state")
  \/ /\ c \in {"endpoint_security_baseline", "endpoint_security_policy_coverage"}
     /\ gone("intune_bundle", "configuration_policies")
  \/ c = "mde_sensor_health" /\ gone("mde_health", Whole)
  \/ c = "xdr_incident_readiness" /\ gone("security_alerts_bundle", Whole)
  \/ c = "mdi_sensors_missing" /\ gone("secure_score_controls", Whole)
  \/ c = "mde_onboard_gap" /\ gone("mde_summary", Whole)
IdentityLost(c, gone(_, _)) ==
  \/ /\ c \in {"id_ai_agents_risky_block", "id_app_password_addition_blocked",
               "id_ca_workload_identity", "id_security_defaults_on"}
     /\ gone("ca_policies", Whole)
  \/ c = "id_app_admin_consent_workflow" /\ gone("admin_consent_request_policy", Whole)
  \/ /\ c \in {"id_app_registration_admin_only", "id_app_user_consent_restricted",
               "id_guest_directory_access", "id_guest_inviter_restricted"}
     /\ gone("authorization_policy", Whole)
  \/ /\ c \in {"id_app_certificate_lifetime", "id_app_expiring_credentials",
               "id_app_ownerless_or_stale", "id_app_password_lifetime",
               "id_app_risky_delegated_consent"}
     /\ gone("applications_bundle", Whole)
  \/ c = "id_protective_plan_assignment" /\ gone("license_assignment", "enabled_member_users")
  \/ /\ c \in {"id_auth_authenticator_context", "id_auth_methods_migration",
               "id_auth_number_matching", "id_auth_weak_methods_disabled"}
     /\ gone("auth_methods_bundle", Whole)
  \/ /\ c \in {"id_access_reviews_scope", "id_access_reviews_unused"}
     /\ gone("access_review_definitions", Whole)
  \/ c = "id_access_reviews_scope" /\ gone("access_review_instances", Whole)
  \/ c = "id_security_defaults_on" /\ gone("security_defaults_policy", "policy")
  \/ c = "id_entitlement_access_packages" /\ gone("access_packages", Whole)
  \/ /\ c \in {"id_cross_tenant_defaults", "id_cross_tenant_mfa_trust", "id_guest_invite_domains"}
     /\ gone("guests_bundle", Whole)
  \/ /\ c \in {"id_pim_activation_controls", "id_pim_ga_activation_alert",
               "id_pim_ga_activation_approval", "id_pim_other_activation_alert",
               "id_pim_privileged_assignment_alert"}
     /\ gone("pim_policies_bundle", Whole)
  \/ /\ c \in {"id_ga_count_bounds", "id_ga_finer_roles", "id_pim_no_outside_pam",
               "id_pim_no_permanent_privileged", "id_priv_cloud_only"}
     /\ gone("role_assignments", Whole)
  \/ c = "id_password_never_expire" /\ gone("domains", Whole)
  \/ c = "id_priv_cloud_only" /\ gone("principal_directory", Whole)
  \/ c = "id_identity_protection_workload" /\ gone("risky_service_principals", Whole)
PlatformLost(c, gone(_, _)) ==
  \/ c = "pbi_premium_capacity_governance" /\ gone("pbi_capacity_bundle", Whole)
  \/ c = "pur_dlp_not_enforced" /\ gone("purview_dlp", Whole)
  \/ c = "pur_ediscovery_readiness" /\ gone("purview_ediscovery", Whole)
  \/ c = "pur_insider_risk_readiness" /\ gone("purview_insider_risk", Whole)
  \/ c = "az_defender_plan_enabled" /\ gone("defender_for_cloud_pricings", Whole)
  \/ /\ c \in {"sen_analytics_rule_coverage", "sen_rule_telemetry_parity"}
     /\ gone("sentinel_rules", Whole)
  \/ c = "sen_ueba" /\ gone("sentinel_ueba", "settings")
  \/ c = "sen_automation_rules" /\ gone("sentinel_automation_rules", Whole)
  \/ c = "sen_data_connectors" /\ gone("sentinel_data_connectors", Whole)
  \/ c = "sen_log_analytics_retention" /\ gone("sentinel_workspace", Whole)
  \/ /\ c \in {"sen_entra_diagnostics_routed", "sen_rule_telemetry_parity",
               "sen_telemetry_ingestion_coverage"}
     /\ gone("la_usage_by_table", Whole)
  \/ /\ c \in {"sen_rule_telemetry_parity", "sen_telemetry_ingestion_coverage"}
     /\ gone("telemetry_expectations", Whole)
EvidenceLost(c, gone(_, _)) ==
  \/ MailLost(c, gone) \/ ThreatLost(c, gone) \/ ComplianceLost(c, gone) \/ SharingLost(c, gone)
  \/ TeamsLost(c, gone) \/ PowerLost(c, gone) \/ EndpointLost(c, gone)
  \/ IdentityLost(c, gone) \/ PlatformLost(c, gone)

-----------------------------------------------------------------------------
\* A read that cost a surface: the surface, the read and what became of it.
Cost(a, s, losses) == {<<a, s>>} \X losses
Gone(cmdlet) == {<<cmdlet, "absent">>, <<cmdlet, "refused">>}
Fails(request) == {<<request, "refused">>}

MailCost ==
  Cost("exo_audit", "organization_audit", Gone("Get-OrganizationConfig"))
  \cup Cost("exo_audit", "mailbox_audit", Fails("Get-AdminAuditLogConfig"))
  \cup Cost("exo_transport", "transport_rules", Gone("Get-TransportRule"))
  \cup Cost("exo_transport", "external_warning", Gone("Get-OrganizationConfig"))
\* Policies are read with their rules.
PairCost(s, policy, rule) == Cost("exo_threat_policies", s, Gone(policy) \cup Fails(rule))
ThreatCost ==
  PairCost("anti_malware", "Get-MalwareFilterPolicy", "Get-MalwareFilterRule")
  \cup PairCost("anti_phish", "Get-AntiPhishPolicy", "Get-AntiPhishRule")
  \cup PairCost("safe_links", "Get-SafeLinksPolicy", "Get-SafeLinksRule")
  \cup PairCost("safe_attachments", "Get-SafeAttachmentPolicy", "Get-SafeAttachmentRule")
  \cup PairCost("anti_spam", "Get-HostedContentFilterPolicy", "Get-HostedContentFilterRule")
  \cup PairCost("connection_filter", "Get-HostedConnectionFilterPolicy",
                "Get-HostedConnectionFilterRule")
  \cup PairCost("outbound_spam", "Get-HostedOutboundSpamFilterPolicy",
                "Get-HostedOutboundSpamFilterRule")
  \cup Cost("exo_threat_policies", "impersonation", Gone("Get-AntiPhishPolicy"))
  \cup Cost("exo_threat_policies", "quarantine", Gone("Get-QuarantinePolicy"))
  \cup Cost("exo_threat_policies", "atp_global", Gone("Get-AtpPolicyForO365"))
ComplianceCost(a) ==
  Cost(a, "dlp_policies", Gone("Get-DlpCompliancePolicy"))
  \cup Cost(a, "dlp_rules", Gone("Get-DlpComplianceRule"))
  \cup Cost(a, "sensitivity_labels", Gone("Get-Label"))
  \cup Cost(a, "label_policies", Gone("Get-LabelPolicy"))
  \cup Cost(a, "audit_config", Gone("Get-AdminAuditLogConfig"))
GovernanceCost(a) ==
  ComplianceCost(a)
  \cup Cost(a, "retention_policies", Gone("Get-RetentionCompliancePolicy"))
  \cup Cost(a, "retention_rules", Gone("Get-RetentionComplianceRule"))
TeamsCost ==
  Cost("teams_federation", "federation", Gone("Get-CsTenantFederationConfiguration"))
  \cup Cost("teams_federation", "unmanaged_users", Gone("Get-CsExternalAccessPolicy"))
  \cup Cost("teams_client", "email_integration", Gone("Get-CsTeamsClientConfiguration"))
  \cup Cost("teams_client", "guest_access", Gone("Get-CsTeamsClientConfiguration")
                                            \cup Fails("Get-CsTeamsGuestCallingConfiguration")
                                            \cup Fails("Get-CsTeamsGuestMessagingConfiguration"))
  \cup Cost("teams_meeting", "meeting_policies", Gone("Get-CsTeamsMeetingPolicy"))
  \cup Cost("teams_meeting", "broadcast_policies", Fails("Get-CsTeamsMeetingBroadcastPolicy"))
  \cup Cost("teams_apps", "app_permission_policies", Gone("Get-CsTeamsAppPermissionPolicy"))
PowerCost ==
  Cost("pp_environments", "environments", Gone("Get-AdminPowerAppEnvironment"))
  \cup Cost("pp_dlp", "dlp_policies", Gone("Get-DlpPolicy"))
  \cup Cost("pp_isolation", "tenant_isolation", Gone("Get-PowerAppTenantIsolationPolicy"))
GraphCost ==
  Cost("intune_bundle", "managed_devices", Fails("managedDevices"))
  \cup Cost("intune_bundle", "compliance_policies", Fails("compliancePolicies"))
  \cup Cost("intune_bundle", "configuration_policies", Fails("configurationPolicies"))
  \cup Cost("intune_bundle", "device_configurations", Fails("deviceConfigurations"))
  \cup Cost("intune_bundle", "atp_onboarding_state", Fails("atpOnboarding"))
  \cup Cost("intune_bundle", "compliance_state_summary", Fails("stateSummary"))
  \cup Cost("intune_bundle", "app_protection_policies", Fails("appProtections"))
  \cup Cost("license_assignment", "enabled_member_users", Fails("members"))
  \cup Cost("sentinel_ueba", "settings", Fails("settings"))

TakenBy == MailCost \cup ThreatCost \cup ComplianceCost("scc_compliance")
           \cup GovernanceCost("purview_governance") \cup TeamsCost \cup PowerCost \cup GraphCost

\* Adapters and runtimes that lose everything with one of their reads, and those
\* that do with any.
TakenWhole ==
  {"exo_remote_domains"} \X Gone("Get-RemoteDomain")
  \cup {"exo_smtp_auth"} \X Gone("Get-TransportConfig")
  \cup {"exo_sharing"} \X Gone("Get-SharingPolicy")
  \cup {"exo_dkim"} \X Gone("Get-DkimSigningConfig")
  \cup {"spo_tenant"} \X Gone("Get-SPOTenant")
  \cup {"pp_tenant"} \X Gone("Get-TenantSettings")
  \cup {"pbi_tenant"} \X Fails("Get-PowerBITenantSetting")
  \cup {"la_usage_by_table"} \X Fails("workspace")
  \cup {"sentinel_ueba"} \X Fails("alertRules")
  \cup {"purview_dlp"} \X Fails("secureScores")
AllOrNothing ==
  GraphRuntimes \ {"intune_bundle", "mdi_health", "mde_summary", "role_eligibilities",
                   "license_assignment", "la_usage_by_table", "sentinel_ueba", "purview_dlp"}

\* A loss is a record of the adapter that was called, the read and what became of
\* it; the loss of a whole call costs every surface.
Takes(loss, a, s) ==
  /\ loss.adapter = a
  /\ \/ loss.loss = "failed"
     \/ loss.loss = "refused" /\ a \in AllOrNothing
     \/ <<a, <<loss.read, loss.loss>>>> \in TakenWhole
     \/ <<<<a, s>>, <<loss.read, loss.loss>>>> \in TakenBy
=============================================================================
