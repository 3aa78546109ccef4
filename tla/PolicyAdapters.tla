--------------------------- MODULE PolicyAdapters ---------------------------
(***************************************************************************)
(* The checked-in adapters (src/powershell/.../adapters/*.ps1): what each  *)
(* makes of the answers of its Get- cmdlets.                               *)
(*                                                                         *)
(* An answer is "absent" (this module version has no such cmdlet),         *)
(* "refused" (it ended with an error) or "rows".  Both modules of the      *)
(* bridge run under Set-StrictMode -Version Latest: a property read without *)
(* asking whether it is there ends the read.  Properties and surfaces no   *)
(* check reads are left out, and so are assignments.                       *)
(***************************************************************************)
EXTENDS PolicySurfaces

NoAnswer == [kind |-> "absent", rows |-> <<>>]
Answer(ans, cmdlet) == IF cmdlet \in DOMAIN ans THEN ans[cmdlet] ELSE NoAnswer
There(ans, cmdlet) == Answer(ans, cmdlet).kind # "absent"
Refused(ans, cmdlet) == Answer(ans, cmdlet).kind = "refused"
Rows(ans, cmdlet) == Answer(ans, cmdlet).rows
TheRow(ans, cmdlet) == Head(Rows(ans, cmdlet))

\* Mutant of ListSurface: a refusal is an empty list.
RefusedIsEmpty(ans, cmdlet, names) ==
  IF ~There(ans, cmdlet) THEN Unread("unsupported") ELSE Ok(ItemsOf(Rows(ans, cmdlet), names))
\* The cmdlet is optional: without it the surface says so.
ListSurface(ans, cmdlet, names) ==
  IF ~There(ans, cmdlet) THEN Unread("unsupported")
  ELSE IF Refused(ans, cmdlet) THEN Unread("denied")
  ELSE Ok(ItemsOf(Rows(ans, cmdlet), names))

\* The cmdlet is called at once: without it, or refused, the adapter throws.
NeededSurface(ans, cmdlet, surface, names) ==
  IF ~There(ans, cmdlet) \/ Refused(ans, cmdlet) THEN Failed("denied")
  ELSE [s \in {surface} |-> Ok(ItemsOf(Rows(ans, cmdlet), names))]

\* One object whose properties are read without asking.
StrictSurface(ans, cmdlet, names, flag) ==
  IF ~There(ans, cmdlet) \/ Refused(ans, cmdlet) \/ ~(names \subseteq DOMAIN TheRow(ans, cmdlet))
  THEN Unread("denied")
  ELSE Written(TheRow(ans, cmdlet)[flag], [n \in names |-> TheRow(ans, cmdlet)[n]])

-----------------------------------------------------------------------------
\* Exchange Online

\* Read-PolicyPair: the rows of the rule cmdlet follow those of the policies.
\* No check reads a property that the rules are asked for.
PolicyPair(ans, policy, rule, names) ==
  IF ~There(ans, policy) THEN Unread("unsupported")
  ELSE IF Refused(ans, policy) \/ Refused(ans, rule) THEN Unread("denied")
  ELSE Ok(ItemsOf(Rows(ans, policy), names) \o ItemsOf(Rows(ans, rule), {}))

SafetyTips == {"EnableFirstContactSafetyTips", "EnableSimilarUsersSafetyTips",
               "EnableSimilarDomainsSafetyTips", "EnableUnusualCharactersSafetyTips"}
SpamActions == {"SpamAction", "HighConfidenceSpamAction", "PhishSpamAction",
                "HighConfidencePhishAction"}
PresetRules(ans) ==
  IF There(ans, "Get-ATPProtectionPolicyRule") \/ ~There(ans, "Get-EOPProtectionPolicyRule")
  THEN ListSurface(ans, "Get-ATPProtectionPolicyRule", {"State"})
  ELSE ListSurface(ans, "Get-EOPProtectionPolicyRule", {"State"})

ThreatPolicies(ans) ==
  [anti_malware |-> PolicyPair(ans, "Get-MalwareFilterPolicy", "Get-MalwareFilterRule",
                               {"EnableFileFilter", "ZapEnabled"}),
   anti_phish |-> PolicyPair(ans, "Get-AntiPhishPolicy", "Get-AntiPhishRule",
                             SafetyTips \cup {"EnableMailboxIntelligence"}),
   impersonation |-> ListSurface(ans, "Get-AntiPhishPolicy",
                                 {"EnableTargetedUserProtection", "EnableTargetedDomainsProtection",
                                  "EnableOrganizationDomainsProtection"}),
   safe_links |-> PolicyPair(ans, "Get-SafeLinksPolicy", "Get-SafeLinksRule",
                             {"EnableSafeLinksForEmail", "EnableSafeLinksForTeams",
                              "EnableSafeLinksForOffice", "ScanUrls", "TrackClicks",
                              "AllowClickThrough"}),
   safe_attachments |-> PolicyPair(ans, "Get-SafeAttachmentPolicy", "Get-SafeAttachmentRule",
                                   {"Action"}),
   preset_security |-> PresetRules(ans),
   quarantine |-> ListSurface(ans, "Get-QuarantinePolicy",
                              {"EndUserQuarantinePermissionsValue", "RetentionDurationInDays"}),
   anti_spam |-> PolicyPair(ans, "Get-HostedContentFilterPolicy", "Get-HostedContentFilterRule",
                            SpamActions \cup {"AllowedSenders", "AllowedSenderDomains"}),
   connection_filter |-> PolicyPair(ans, "Get-HostedConnectionFilterPolicy",
                                    "Get-HostedConnectionFilterRule",
                                    {"IPAllowList", "EnableSafeList"}),
   outbound_spam |-> PolicyPair(ans, "Get-HostedOutboundSpamFilterPolicy",
                                "Get-HostedOutboundSpamFilterRule", {"AutoForwardingEnabled"}),
   atp_global |-> ListSurface(ans, "Get-AtpPolicyForO365",
                              {"EnableATPForSPOTeamsODB", "EnableSafeDocs",
                               "EnableSafeAttachmentsForSPOTeamsODB"})]

AuditFlags == {"UnifiedAuditLogIngestionEnabled"}
OrganizationAudit(ans) ==
  [organization_audit |-> StrictSurface(ans, "Get-OrganizationConfig", {"AuditDisabled"},
                                        "AuditDisabled"),
   mailbox_audit |-> IF ~There(ans, "Get-AdminAuditLogConfig") THEN Ok(<<>>)
                     ELSE StrictSurface(ans, "Get-AdminAuditLogConfig", AuditFlags,
                                        "UnifiedAuditLogIngestionEnabled")]

TransportRules(ans) ==
  [transport_rules |->
     IF ~There(ans, "Get-TransportRule") THEN Unread("denied")
     ELSE ListSurface(ans, "Get-TransportRule",
                      {"Mode", "FromScope", "PrependSubject", "RedirectMessageTo"}),
   external_warning |-> StrictSurface(ans, "Get-OrganizationConfig",
                                      {"MailTipsExternalRecipientsTipsEnabled"},
                                      "MailTipsExternalRecipientsTipsEnabled")]

\* The property is asked for, and null when this version does not expose it.
SmtpAuth(ans) ==
  IF ~There(ans, "Get-TransportConfig") \/ Refused(ans, "Get-TransportConfig")
  THEN Failed("denied")
  ELSE LET off == Exposed(TheRow(ans, "Get-TransportConfig"), "SmtpClientAuthenticationDisabled")
       IN  [smtp_auth |-> Written(IF off = None THEN None ELSE Tri(off = "false"),
                                  [SmtpClientAuthenticationDisabled |-> off])]

-----------------------------------------------------------------------------
\* Security and Compliance, Purview

AuditConfig(ans) ==
  IF ~There(ans, "Get-AdminAuditLogConfig") THEN Unread("unsupported")
  ELSE StrictSurface(ans, "Get-AdminAuditLogConfig", AuditFlags,
                     "UnifiedAuditLogIngestionEnabled")

Compliance(ans) ==
  [dlp_policies |-> ListSurface(ans, "Get-DlpCompliancePolicy", {"Mode", "Workload"}),
   dlp_rules |-> ListSurface(ans, "Get-DlpComplianceRule", {"Disabled", "BlockAccess", "NotifyUser"}),
   sensitivity_labels |-> ListSurface(ans, "Get-Label", {"Disabled"}),
   label_policies |-> ListSurface(ans, "Get-LabelPolicy",
                                  {"Enabled", "Settings", "DefaultLabelId", "Mandatory"}),
   audit_config |-> AuditConfig(ans)]

\* purview_governance reads the same lists page by page, and retention besides.
Governance(ans) ==
  Joined(Compliance(ans),
    [retention_policies |-> ListSurface(ans, "Get-RetentionCompliancePolicy", {"Enabled", "Mode"}),
     retention_rules |-> ListSurface(ans, "Get-RetentionComplianceRule",
                                     {"Disabled", "RetentionComplianceAction"})])

-----------------------------------------------------------------------------
\* SharePoint Online: every surface is written from the one Get-SPOTenant row.

SpoSurfaces ==
  [sharing_capability |-> {"SharingCapability"},
   onedrive_sharing |-> {"OneDriveSharingCapability"},
   domain_restrictions |-> {"SharingDomainRestrictionMode", "SharingAllowedDomainList"},
   default_link |-> {"DefaultSharingLinkType", "DefaultLinkPermission"},
   anyone_link_expiration |-> {"RequireAnonymousLinksExpireInDays"},
   anyone_link_permissions |-> {"FileAnonymousLinkType", "FolderAnonymousLinkType"},
   reauth_days |-> {"EmailAttestationRequired", "EmailAttestationReAuthDays"},
   unmanaged_device_policy |-> {"ConditionalAccessPolicy"}]

Asked(row, names) == [n \in names |-> Exposed(row, n)]
SpoTenant(ans) ==
  IF ~There(ans, "Get-SPOTenant") \/ Refused(ans, "Get-SPOTenant") THEN Failed("denied")
  ELSE [s \in DOMAIN SpoSurfaces |->
          Written("true", Asked(TheRow(ans, "Get-SPOTenant"), SpoSurfaces[s]))]

-----------------------------------------------------------------------------
\* Teams

Federation(ans) ==
  IF ~There(ans, "Get-CsTenantFederationConfiguration") THEN Unread("unsupported")
  ELSE IF Refused(ans, "Get-CsTenantFederationConfiguration") THEN Unread("denied")
  ELSE Written("true", Asked(TheRow(ans, "Get-CsTenantFederationConfiguration"),
                             {"AllowFederatedUsers", "AllowedDomains"}))

EmailIntegration(ans) ==
  IF ~There(ans, "Get-CsTeamsClientConfiguration") THEN Unread("unsupported")
  ELSE IF Refused(ans, "Get-CsTeamsClientConfiguration") THEN Unread("denied")
  ELSE LET p == Asked(TheRow(ans, "Get-CsTeamsClientConfiguration"), {"AllowEmailIntoChannel"})
       IN  Written(p["AllowEmailIntoChannel"], p)

\* One item from up to three cmdlets: an absent one leaves its property null,
\* a refused one loses the whole surface.
GuestCmdlets == <<"Get-CsTeamsClientConfiguration", "Get-CsTeamsGuestCallingConfiguration",
                  "Get-CsTeamsGuestMessagingConfiguration">>
GuestProps == <<"AllowGuestUser", "AllowGuestCalling", "AllowGuestChat">>
GuestAccess(ans) ==
  IF ~There(ans, GuestCmdlets[1]) THEN Unread("unsupported")
  ELSE IF \E i \in 1..3 : Refused(ans, GuestCmdlets[i]) THEN Unread("denied")
  ELSE LET value(i) == IF There(ans, GuestCmdlets[i])
                       THEN Exposed(TheRow(ans, GuestCmdlets[i]), GuestProps[i]) ELSE None
       IN  Written(value(1), [n \in Range(GuestProps) |->
                                value(CHOOSE i \in 1..3 : GuestProps[i] = n)])

TeamsMeetings(ans) ==
  [meeting_policies |-> ListSurface(ans, "Get-CsTeamsMeetingPolicy",
                                    {"AllowExternalParticipantGiveRequestControl",
                                     "AllowAnonymousUsersToStartMeeting", "AutoAdmittedUsers",
                                     "AllowPSTNUsersToBypassLobby", "AllowCloudRecording"}),
   broadcast_policies |-> ListSurface(ans, IF There(ans, "Get-CsTeamsMeetingBroadcastPolicy")
                                           THEN "Get-CsTeamsMeetingBroadcastPolicy"
                                           ELSE "Get-CsTeamsEventsPolicy",
                                      {"BroadcastRecordingMode"})]

\* The org-wide v2 settings: an empty answer is no answer.
TeamsApps(ans) ==
  LET v2 == ListSurface(ans, "Get-M365UnifiedTenantSettings", {})
  IN  [app_permission_policies |-> ListSurface(ans, "Get-CsTeamsAppPermissionPolicy",
                                               {"DefaultCatalogAppsType", "GlobalCatalogAppsType",
                                                "PrivateCatalogAppsType"}),
       app_settings_v2 |-> IF v2.status = "ok" /\ v2.items = <<>>
                           THEN Unread("unsupported") ELSE v2]

-----------------------------------------------------------------------------
\* Power Platform and Power BI

\* Without its cmdlet the adapter throws; a refusal costs the surface.
PagedSurface(ans, cmdlet, surface, names) ==
  IF ~There(ans, cmdlet) THEN Failed("unavailable")
  ELSE [s \in {surface} |->
          IF Refused(ans, cmdlet) THEN Unread("denied")
          ELSE Ok([i \in DOMAIN Rows(ans, cmdlet) |->
                     [enabled |-> "true", kind |-> "custom",
                      props |-> Asked(Rows(ans, cmdlet)[i], names)]])]

Isolation(ans) ==
  IF ~There(ans, "Get-PowerAppTenantIsolationPolicy") THEN Failed("unavailable")
  ELSE IF Refused(ans, "Get-PowerAppTenantIsolationPolicy")
  THEN [tenant_isolation |-> Unread("denied")]
  ELSE LET row == TheRow(ans, "Get-PowerAppTenantIsolationPolicy")
           off == Exposed(row, "isDisabled")
           on == IF off = None THEN None ELSE Tri(off = "false")
       IN  [tenant_isolation |-> Written(on, [isolationEnabled |-> on,
                                              allowedTenants |-> Exposed(row, "allowedTenants")])]

PowerTenantSurfaces ==
  [environment_creation |-> {"disableEnvironmentCreationByNonAdminUsers",
                             "disableTrialEnvironmentCreationByNonAdminUsers"},
   power_pages |-> {"disablePortalsCreationByNonAdminUsers"},
   share_with_everyone |-> {"disableShareWithEveryone"}]
PowerTenant(ans) ==
  IF ~There(ans, "Get-TenantSettings") THEN Failed("unavailable")
  ELSE IF Refused(ans, "Get-TenantSettings") THEN Failed("denied")
  ELSE [s \in DOMAIN PowerTenantSurfaces |->
          Written("true", Asked(TheRow(ans, "Get-TenantSettings"), PowerTenantSurfaces[s]))]

\* One row per setting; the last row of a name counts, and a setting that the
\* rows do not name is unsupported.
PowerBiSettings == {"publish_to_web", "guest_access", "external_invite", "service_principal_api",
                    "service_principal_profiles", "resource_key_auth", "python_r_visuals",
                    "sensitivity_labels", "export_data"}
PowerBi(ans) ==
  LET cmdlet == IF There(ans, "Get-PowerBITenantSetting") THEN "Get-PowerBITenantSetting"
                ELSE "Get-FabricTenantSetting"
      named(s) == SelectSeq(Rows(ans, cmdlet), LAMBDA r : r["settingName"] = s)
      setting(s) == LET row == Last(named(s))
                        names == {"enabled", "securityGroups"} \cap DOMAIN row
                    IN  Written(Exposed(row, "enabled"), [n \in names |-> row[n]])
  IN  IF Refused(ans, cmdlet) THEN Failed("denied")
      ELSE [s \in PowerBiSettings |->
              IF ~There(ans, cmdlet) \/ named(s) = <<>> THEN Unread("unsupported") ELSE setting(s)]

-----------------------------------------------------------------------------
AdapterPayload(a, ans) ==
  CASE a = "exo_audit" -> OrganizationAudit(ans)
    [] a = "exo_remote_domains" -> NeededSurface(ans, "Get-RemoteDomain", "remote_domains",
                                                 {"DomainName", "AutoForwardEnabled"})
    [] a = "exo_transport" -> TransportRules(ans)
    [] a = "exo_smtp_auth" -> SmtpAuth(ans)
    [] a = "exo_sharing" -> NeededSurface(ans, "Get-SharingPolicy", "sharing_policies", {"Domains"})
    [] a = "exo_accepted_domains" -> NeededSurface(ans, "Get-AcceptedDomain", "accepted_domains",
                                                   {"DomainName"})
    [] a = "exo_dkim" -> NeededSurface(ans, "Get-DkimSigningConfig", "dkim", {"Enabled"})
    [] a = "exo_threat_policies" -> ThreatPolicies(ans)
    [] a = "scc_compliance" -> Compliance(ans)
    [] a = "purview_governance" -> Governance(ans)
    [] a = "spo_tenant" -> SpoTenant(ans)
    [] a = "teams_federation" -> [federation |-> Federation(ans),
                                  unmanaged_users |-> ListSurface(ans, "Get-CsExternalAccessPolicy",
                                    {"EnableTeamsConsumerInbound", "EnableTeamsConsumerAccess"})]
    [] a = "teams_client" -> [email_integration |-> EmailIntegration(ans),
                              guest_access |-> GuestAccess(ans)]
    [] a = "teams_meeting" -> TeamsMeetings(ans)
    [] a = "teams_apps" -> TeamsApps(ans)
    [] a = "pp_environments" -> PagedSurface(ans, "Get-AdminPowerAppEnvironment", "environments",
                                             {"EnvironmentName", "IsDefault"})
    [] a = "pp_dlp" -> PagedSurface(ans, "Get-DlpPolicy", "dlp_policies",
                                    {"EnvironmentType", "Environments"})
    [] a = "pp_isolation" -> Isolation(ans)
    [] a = "pp_tenant" -> PowerTenant(ans)
    [] a = "pbi_tenant" -> PowerBi(ans)
=============================================================================
