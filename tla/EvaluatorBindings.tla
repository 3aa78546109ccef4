-------------------------- MODULE EvaluatorBindings --------------------------
(***************************************************************************)
(* The register of the evaluators: one operator for each register_*        *)
(* function of evaluators/bindings/*.py, which binds checks to their       *)
(* evaluators and to the evidence these need, and the gate that asks for   *)
(* that evidence first (engine/runner_evaluate.py).                        *)
(*                                                                         *)
(* A check is named as its evaluator is.  The bundles of the PowerShell    *)
(* adapters and the lookup of the domains are always there: what failed    *)
(* is told by their surfaces, so no binding asks for them.  The checks of  *)
(* Conditional Access and of privileged access are in ConditionalAccess    *)
(* and PrivilegedAccess.                                                   *)
(***************************************************************************)
EXTENDS ExchangeChecks, CollaborationChecks, PowerPurviewChecks, DnsChecks, GraphEvidence,
        EndpointChecks, IdentityChecks, PlatformChecks

Unregistered == "unregistered"
\* Checks that no evidence decides: the reader is told where to look.
Manual == "skipped"

\* Evidence whose failure the gate lets through; the evaluator decides.
OptionalEvidence == {"approved_guest_domains", "role_eligibilities",
                     "security_defaults_policy", "mdi_health"}

\* Mutant of FailedRuntime: a runtime that failed is taken for an answer.
NotCalled(b, key) == key \notin DOMAIN b

FailedRuntime(b, key) == key \notin DOMAIN b \/ DOMAIN b[key] = {"adapter"}

\* evaluate_check: a required runtime that failed, or was not called, is an error
\* before any verdict; what no input model names is not asked for.
Needs(b, input_models, evaluate) ==
  IF \E key \in input_models \ OptionalEvidence : FailedRuntime(b, key) THEN "error"
  ELSE evaluate

-----------------------------------------------------------------------------
\* Exchange Online, Defender for Office 365

exchange_mailflow(c, b, o) ==
  CASE c = "exo_external_sender_warnings" -> exo_external_sender_warnings(b)
    [] c = "exo_forwarding_external_disabled" -> exo_forwarding_external_disabled(b, o)
    [] c = "exo_mailbox_audit_enabled" -> exo_mailbox_audit_enabled(b)
    [] c \in {"exo_sharing_calendar_not_all_domains", "exo_sharing_contact_not_all_domains"} ->
         exo_sharing_not_all_domains(b)
    [] c = "exo_smtp_auth_disabled" -> exo_smtp_auth_disabled(b)
    [] OTHER -> Unregistered

exchange_email_auth(c, b, o) ==
  CASE c = "exo_dkim_enabled" -> exo_dkim_enabled(b)
    [] c \in {"exo_dmarc_agency_contact", "exo_dmarc_federal_contact"} -> exo_dmarc_contact(b, o)
    [] c = "exo_dmarc_published" -> exo_dmarc_published(b)
    [] c = "exo_dmarc_reject" -> exo_dmarc_reject(b)
    [] c = "exo_spf_published" -> exo_spf_published(b)
    [] OTHER -> Unregistered

\* Secure Score, which the first may stand on, is an option here.
defender_mdo(c, b, o) ==
  CASE c = "mdo_p2_policies" -> mdo_p2_policies(b, o)
    [] c = "mdo_outbound_spam_forwarding_block" -> mdo_outbound_spam_forwarding_block(b)
    [] c = "mdo_mailbox_intelligence" -> mdo_mailbox_intelligence(b)
    [] c = "mdo_transport_rule_external_forward" -> mdo_transport_rule_external_forward(b)
    [] OTHER -> Unregistered

security_suite_threat(c, b, o) ==
  CASE c \in DOMAIN ThreatFlags -> mdo_flag(b, ThreatFlags[c][1], ThreatFlags[c][2])
    [] c = "mdo_impersonation_partner_domains" -> mdo_impersonation_partner_domains(b, o)
    [] c = "mdo_impersonation_users_protected" -> mdo_impersonation_users_protected(b, o)
    [] c = "mdo_safe_attachments_block" -> mdo_safe_attachments_block(b)
    [] c = "mdo_safe_links_block_list" -> mdo_safe_links_block_list(b)
    [] c = "mdo_safe_links_click_through" -> mdo_safe_links_click_through(b)
    [] c = "mdo_quarantine_policy" -> mdo_quarantine_policy(b)
    [] c = "mdo_safety_tips_enabled" -> mdo_safety_tips_enabled(b)
    [] OTHER -> Unregistered

security_suite_spam(c, b, o) ==
  CASE c = "mdo_anti_spam_no_allowed_domains" -> mdo_anti_spam_no_allowed_domains(b)
    [] c = "mdo_connection_filter_no_ip_allow" -> mdo_connection_filter_no_ip_allow(b)
    [] c = "mdo_connection_filter_no_safe_list" -> mdo_connection_filter_no_safe_list(b)
    [] c = "mdo_safe_attachments_spo_teams" -> mdo_safe_attachments_spo_teams(b)
    [] c = "mdo_safe_documents" -> mdo_safe_documents(b)
    [] c = "mdo_spam_phish_not_inbox" -> mdo_spam_phish_not_inbox(b)
    [] c \in {"mdo_alert_policies_enabled", "mdo_audit_retention"} -> Manual
    [] OTHER -> Unregistered

security_suite_dlp(c, b, o) ==
  CASE c = "mdo_unified_audit_enabled" -> mdo_unified_audit_enabled(b)
    [] c = "pur_dlp_enforcement_block" -> pur_dlp_rule(b, "BlockAccess")
    [] c = "pur_dlp_locations_complete" -> pur_dlp_locations_complete(b)
    [] c = "pur_dlp_notifications" -> pur_dlp_rule(b, "NotifyUser")
    [] c = "pur_dlp_policy_present" -> pur_dlp_policy_present(b)
    [] c = "pur_endpoint_dlp" -> pur_endpoint_dlp(b)
    [] OTHER -> Unregistered

-----------------------------------------------------------------------------
\* SharePoint, OneDrive and Teams

collaboration_sharing(c, b, o) ==
  CASE c = "spo_domain_restrictions" -> spo_domain_restrictions(b, o)
    [] c = "spo_onedrive_sharing_limited" -> spo_onedrive_sharing_limited(b)
    [] c = "spo_sharing_capability_limited" -> spo_sharing_capability_limited(b)
    [] c = "spo_unmanaged_device_access" -> spo_unmanaged_device_access(b)
    [] OTHER -> Unregistered

collaboration_sharing_links(c, b, o) ==
  CASE c = "spo_anyone_link_expiration" -> spo_anyone_link_expiration(b)
    [] c = "spo_anyone_link_view" -> spo_anyone_link_view(b)
    [] c = "spo_default_link_specific" -> spo_default_link_specific(b)
    [] c = "spo_default_link_view" -> spo_default_link_view(b)
    [] c = "spo_verification_reauth" -> spo_verification_reauth(b)
    [] OTHER -> Unregistered

collaboration_teams_access(c, b, o) ==
  CASE c = "teams_email_integration_disabled" -> teams_email_integration_disabled(b)
    [] c = "teams_external_access_per_domain" -> teams_external_access_per_domain(b, o)
    [] c = "teams_guest_access_restricted" -> teams_guest_access_restricted(b)
    [] c = "teams_unmanaged_inbound_blocked" -> UnmanagedConsumer(b, "EnableTeamsConsumerInbound")
    [] c = "teams_unmanaged_outbound_blocked" -> UnmanagedConsumer(b, "EnableTeamsConsumerAccess")
    [] OTHER -> Unregistered

collaboration_teams_apps(c, b, o) ==
  CASE c \in DOMAIN AppCatalogs -> AppsGoverned(b, AppCatalogs[c])
    [] OTHER -> Unregistered

collaboration_teams_meeting(c, b, o) ==
  CASE c = "teams_anonymous_lobby" -> teams_anonymous_lobby(b)
    [] c = "teams_broadcast_not_always_record" -> teams_broadcast_not_always_record(b)
    [] c = "teams_internal_auto_admit" -> teams_internal_auto_admit(b)
    [] c \in DOMAIN MeetingFlags -> MeetingFlag(b, MeetingFlags[c])
    [] OTHER -> Unregistered

-----------------------------------------------------------------------------
\* Power Platform, Power BI and Purview

power_platform_env(c, b, o) ==
  CASE c = "pp_dlp_all_environments" -> pp_dlp_all_environments(b)
    [] c = "pp_dlp_nondefault_environments" -> pp_dlp_nondefault_environments(b)
    [] c = "pp_tenant_isolation_enabled" -> pp_tenant_isolation_enabled(b)
    [] c = "pp_tenant_isolation_allowlist" -> pp_tenant_isolation_allowlist(b)
    [] OTHER -> Unregistered

power_platform_tenant(c, b, o) ==
  CASE c \in DOMAIN PowerPlatformSwitches ->
         pp_tenant_setting(b, PowerPlatformSwitches[c][1], PowerPlatformSwitches[c][2])
    [] OTHER -> Unregistered

power_bi(c, b, o) ==
  CASE c = "pbi_premium_capacity_governance" ->
         Needs(b, {"pbi_capacity_bundle"}, pbi_premium_capacity_governance(b))
    [] c = "pbi_sp_api_restricted" -> pbi_sp_api_restricted(b)
    [] c \in DOMAIN PowerBiSwitches -> pbi_setting(b, PowerBiSwitches[c][1], PowerBiSwitches[c][2])
    [] OTHER -> Unregistered

purview_governance(c, b, o) ==
  CASE c = "pur_default_and_mandatory_labels" -> pur_default_and_mandatory_labels(b)
    [] c = "pur_retention_policy_coverage" -> pur_retention_policy_coverage(b)
    [] c = "pur_sensitivity_auto_labeling" -> pur_sensitivity_auto_labeling(b)
    [] c = "pur_sensitivity_labels_published" -> pur_sensitivity_labels_published(b)
    [] OTHER -> Unregistered

purview(c, b, o) ==
  CASE c = "pur_dlp_not_enforced" -> Needs(b, {"purview_dlp"}, pur_dlp_not_enforced(b))
    [] c = "pur_ediscovery_readiness" ->
         Needs(b, {"purview_ediscovery"}, pur_ediscovery_readiness(b))
    [] c = "pur_insider_risk_readiness" ->
         Needs(b, {"purview_insider_risk"}, pur_insider_risk_readiness(b))
    [] OTHER -> Unregistered

purview_manual(c, b, o) ==
  CASE c = "pur_communication_compliance_readiness" -> Manual
    [] OTHER -> Unregistered

-----------------------------------------------------------------------------
\* Intune and Defender

endpoint_intune(c, b, o) ==
  CASE c = "endpoint_compliance_noncompliance_action" ->
         Needs(b, {"intune_bundle"}, endpoint_compliance_noncompliance_action(b))
    [] c = "endpoint_compliance_policy_assigned" ->
         Needs(b, {"intune_bundle"}, endpoint_compliance_policy_assigned(b))
    [] c = "endpoint_enrollment_coverage" ->
         Needs(b, {"intune_bundle"}, endpoint_enrollment_coverage(b, o))
    [] OTHER -> Unregistered

endpoint_intune_depth(c, b, o) ==
  CASE c = "endpoint_asr_rules" -> Needs(b, {"intune_bundle"}, endpoint_asr_rules(b))
    [] c = "endpoint_bitlocker_policy" -> Needs(b, {"intune_bundle"}, endpoint_bitlocker_policy(b))
    [] c = "endpoint_tamper_protection" ->
         Needs(b, {"intune_bundle"}, endpoint_tamper_protection(b))
    [] c = "endpoint_compliance_enforcement" ->
         Needs(b, {"intune_bundle"}, endpoint_compliance_enforcement(b))
    [] c = "endpoint_mam_app_protection" ->
         Needs(b, {"intune_bundle"}, endpoint_mam_app_protection(b))
    [] OTHER -> Unregistered

endpoint_intune_policy(c, b, o) ==
  CASE c = "endpoint_mde_connector" -> Needs(b, {"intune_bundle"}, endpoint_mde_connector(b))
    [] c = "endpoint_security_baseline" ->
         Needs(b, {"intune_bundle"}, endpoint_security_baseline(b))
    [] c = "endpoint_security_policy_coverage" ->
         Needs(b, {"intune_bundle"}, endpoint_security_policy_coverage(b))
    [] OTHER -> Unregistered

endpoint_mde_xdr(c, b, o) ==
  CASE c = "mde_sensor_health" -> Needs(b, {"mde_health"}, mde_sensor_health(b))
    [] c = "xdr_incident_readiness" ->
         Needs(b, {"security_alerts_bundle"}, xdr_incident_readiness(b))
    [] OTHER -> Unregistered

defender(c, b, o) ==
  CASE c = "mdi_sensors_missing" ->
         Needs(b, {"mdi_health", "secure_score_controls"}, mdi_sensors_missing(b))
    [] OTHER -> Unregistered

defender_endpoint(c, b, o) ==
  CASE c = "mde_onboard_gap" -> Needs(b, {"mde_summary"}, mde_onboard_gap(b))
    [] OTHER -> Unregistered

-----------------------------------------------------------------------------
\* Entra ID

\* The other check of this file is one of ConditionalAccess.
identity_access(c, b, o) ==
  CASE c = "id_ca_workload_identity" -> Needs(b, {"ca_policies"}, id_ca_workload_identity(b))
    [] OTHER -> Unregistered

identity_apps_consent(c, b, o) ==
  CASE c = "id_app_admin_consent_workflow" ->
         Needs(b, {"admin_consent_request_policy"}, id_app_admin_consent_workflow(b))
    [] c = "id_app_password_addition_blocked" ->
         Needs(b, {"ca_policies"}, id_app_password_addition_blocked(b))
    [] c = "id_app_registration_admin_only" ->
         Needs(b, {"authorization_policy"}, id_app_registration_admin_only(b))
    [] c = "id_app_risky_delegated_consent" ->
         Needs(b, {"applications_bundle"}, id_app_risky_delegated_consent(b))
    [] c = "id_app_user_consent_restricted" ->
         Needs(b, {"authorization_policy"}, id_app_user_consent_restricted(b))
    [] OTHER -> Unregistered

identity_apps_credentials(c, b, o) ==
  CASE c \in {"id_app_certificate_lifetime", "id_app_password_lifetime"} ->
         Needs(b, {"applications_bundle"}, id_app_credential_lifetime(b))
    [] c = "id_app_expiring_credentials" ->
         Needs(b, {"applications_bundle"}, id_app_expiring_credentials(b))
    [] c = "id_app_ownerless_or_stale" ->
         Needs(b, {"applications_bundle"}, id_app_ownerless_or_stale(b))
    [] OTHER -> Unregistered

identity_assignment(c, b, o) ==
  CASE c = "id_protective_plan_assignment" ->
         Needs(b, {"license_assignment"}, id_protective_plan_assignment(b))
    [] OTHER -> Unregistered

identity_auth_methods(c, b, o) ==
  CASE c = "id_auth_number_matching" ->
         Needs(b, {"auth_methods_bundle"}, id_auth_number_matching(b))
    [] c = "id_auth_authenticator_context" ->
         Needs(b, {"auth_methods_bundle"}, id_auth_authenticator_context(b))
    [] c = "id_auth_methods_migration" ->
         Needs(b, {"auth_methods_bundle"}, id_auth_methods_migration(b))
    [] c = "id_auth_weak_methods_disabled" ->
         Needs(b, {"auth_methods_bundle"}, id_auth_weak_methods_disabled(b))
    [] OTHER -> Unregistered

identity_governance(c, b, o) ==
  CASE c = "id_access_reviews_unused" ->
         Needs(b, {"access_review_definitions"}, id_access_reviews_unused(b))
    [] c = "id_access_reviews_scope" ->
         Needs(b, {"access_review_definitions", "access_review_instances"}, id_access_reviews_scope(b))
    [] c = "id_security_defaults_on" ->
         Needs(b, {"security_defaults_policy", "ca_policies"}, id_security_defaults_on(b))
    [] c = "id_entitlement_access_packages" ->
         Needs(b, {"access_packages"}, id_entitlement_access_packages(b))
    [] OTHER -> Unregistered

identity_guests(c, b, o) ==
  CASE c = "id_cross_tenant_mfa_trust" -> Needs(b, {"guests_bundle"}, id_cross_tenant_mfa_trust(b))
    [] c = "id_cross_tenant_defaults" -> Needs(b, {"guests_bundle"}, id_cross_tenant_defaults(b))
    [] c = "id_guest_directory_access" ->
         Needs(b, {"authorization_policy"}, id_guest_directory_access(b))
    [] c = "id_guest_invite_domains" ->
         Needs(b, {"approved_guest_domains", "guests_bundle"}, id_guest_invite_domains(o))
    [] c = "id_guest_inviter_restricted" ->
         Needs(b, {"authorization_policy"}, id_guest_inviter_restricted(b))
    [] OTHER -> Unregistered

identity_manual(c, b, o) ==
  CASE c = "id_ai_agents_risky_block" -> Needs(b, {"ca_policies"}, id_ai_agents_risky_block(b))
    [] c \in {"id_idprotect_notify_high_risk", "id_logs_to_soc"} -> Manual
    [] OTHER -> Unregistered

identity_pim_rules(c, b, o) ==
  CASE c = "id_pim_activation_controls" ->
         Needs(b, {"pim_policies_bundle"}, id_pim_activation_controls(b))
    [] c = "id_pim_ga_activation_alert" ->
         Needs(b, {"pim_policies_bundle"}, id_pim_ga_activation_alert(b))
    [] c = "id_pim_ga_activation_approval" ->
         Needs(b, {"pim_policies_bundle"}, id_pim_ga_activation_approval(b))
    [] c = "id_pim_no_outside_pam" ->
         Needs(b, {"role_assignments", "role_eligibilities"}, id_pim_no_outside_pam(b))
    [] c = "id_pim_no_permanent_privileged" ->
         Needs(b, {"role_assignments", "role_eligibilities"}, id_pim_no_permanent_privileged(b))
    [] c = "id_pim_other_activation_alert" ->
         Needs(b, {"pim_policies_bundle"}, id_pim_other_activation_alert(b))
    [] c = "id_pim_privileged_assignment_alert" ->
         Needs(b, {"pim_policies_bundle"}, id_pim_privileged_assignment_alert(b))
    [] OTHER -> Unregistered

identity_privileged_extra(c, b, o) ==
  CASE c = "id_ga_count_bounds" -> Needs(b, {"role_assignments"}, id_ga_count_bounds(b))
    [] c = "id_ga_finer_roles" -> Needs(b, {"role_assignments"}, id_ga_finer_roles(b))
    [] c = "id_password_never_expire" -> Needs(b, {"domains"}, id_password_never_expire(b))
    [] c = "id_priv_cloud_only" ->
         Needs(b, {"role_assignments", "principal_directory"}, id_priv_cloud_only(b))
    [] OTHER -> Unregistered

\* The other check of this file is one of ConditionalAccess.
identity_risk(c, b, o) ==
  CASE c = "id_identity_protection_workload" ->
         Needs(b, {"risky_service_principals"}, id_identity_protection_workload(b))
    [] OTHER -> Unregistered

-----------------------------------------------------------------------------
\* Sentinel and Defender for Cloud

azure_selective(c, b, o) ==
  CASE c = "az_defender_plan_enabled" ->
         Needs(b, {"defender_for_cloud_pricings"}, az_defender_plan_enabled(b))
    [] c = "az_cspm_out_of_scope" -> Manual
    [] OTHER -> Unregistered

sentinel(c, b, o) ==
  CASE c = "sen_analytics_rule_coverage" ->
         Needs(b, {"sentinel_rules"}, sen_analytics_rule_coverage(b))
    [] c = "sen_ueba" -> Needs(b, {"sentinel_ueba"}, sen_ueba(b))
    [] OTHER -> Unregistered

sentinel_extended(c, b, o) ==
  CASE c = "sen_automation_rules" ->
         Needs(b, {"sentinel_automation_rules"}, sen_automation_rules(b))
    [] c = "sen_data_connectors" -> Needs(b, {"sentinel_data_connectors"}, sen_data_connectors(b))
    [] c = "sen_log_analytics_retention" ->
         Needs(b, {"sentinel_workspace"}, sen_log_analytics_retention(b))
    [] OTHER -> Unregistered

sentinel_parity(c, b, o) ==
  CASE c = "sen_rule_telemetry_parity" ->
         Needs(b, {"sentinel_rules", "la_usage_by_table", "telemetry_expectations"}, sen_rule_telemetry_parity(b, o))
    [] OTHER -> Unregistered

sentinel_telemetry(c, b, o) ==
  CASE c = "sen_telemetry_ingestion_coverage" ->
         Needs(b, {"la_usage_by_table", "telemetry_expectations"}, sen_telemetry_ingestion_coverage(b, o))
    [] c = "sen_entra_diagnostics_routed" ->
         Needs(b, {"la_usage_by_table"}, sen_entra_diagnostics_routed(b, o))
    [] OTHER -> Unregistered

-----------------------------------------------------------------------------
\* What each group has for a check.
Bindings(c, b, o) ==
  <<exchange_mailflow(c, b, o), exchange_email_auth(c, b, o), defender_mdo(c, b, o),
    security_suite_threat(c, b, o), security_suite_spam(c, b, o), security_suite_dlp(c, b, o),
    collaboration_sharing(c, b, o), collaboration_sharing_links(c, b, o),
    collaboration_teams_access(c, b, o), collaboration_teams_apps(c, b, o),
    collaboration_teams_meeting(c, b, o), power_platform_env(c, b, o),
    power_platform_tenant(c, b, o), power_bi(c, b, o), purview_governance(c, b, o),
    purview(c, b, o), purview_manual(c, b, o), endpoint_intune(c, b, o),
    endpoint_intune_depth(c, b, o), endpoint_intune_policy(c, b, o), endpoint_mde_xdr(c, b, o),
    defender(c, b, o), defender_endpoint(c, b, o), identity_access(c, b, o),
    identity_apps_consent(c, b, o), identity_apps_credentials(c, b, o),
    identity_assignment(c, b, o), identity_auth_methods(c, b, o), identity_governance(c, b, o),
    identity_guests(c, b, o), identity_manual(c, b, o), identity_pim_rules(c, b, o),
    identity_privileged_extra(c, b, o), identity_risk(c, b, o), azure_selective(c, b, o),
    sentinel(c, b, o), sentinel_extended(c, b, o), sentinel_parity(c, b, o),
    sentinel_telemetry(c, b, o)>>
\* The groups that bind a check.  The register is one table of checks: a second
\* entry is refused.
Registered(bindings) == {g \in DOMAIN bindings : bindings[g] # Unregistered}
=============================================================================
