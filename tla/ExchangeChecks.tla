--------------------------- MODULE ExchangeChecks ---------------------------
(***************************************************************************)
(* The evaluators of Exchange Online, Defender for Office 365 and data     *)
(* loss prevention: bundle b (what the adapters read) and options o (what  *)
(* the scan's profile gives) to the status of the finding.                 *)
(***************************************************************************)
EXTENDS PolicySurfaces

ThreatAdapter == "exo_threat_policies"
ComplianceAdapter == "scc_compliance"

\* bool_flag_result
FlagResult(v) == CASE v = "unread" -> "partial" [] v = "true" -> "ok" [] v = "false" -> "gap"
Flag(b, s, n) == AnyEnabledWith(b, ThreatAdapter, s, LAMBDA i : PropBool(i, n))

-----------------------------------------------------------------------------
\* Mail flow

exo_forwarding_external_disabled(b, o) ==
  IF ~Usable(b, "exo_remote_domains", "remote_domains") THEN "partial"
  ELSE GapIf(Some(Items(b, "exo_remote_domains", "remote_domains"),
                  LAMBDA i : /\ PropBool(i, "AutoForwardEnabled")
                             /\ Prop(i, "DomainName") \notin {None} \cup o))

exo_smtp_auth_disabled(b) ==
  LET off == FirstValue(Items(b, "exo_smtp_auth", "smtp_auth"), "SmtpClientAuthenticationDisabled")
  IN  IF off = None THEN "partial" ELSE OkIf(off = "true")

exo_sharing_not_all_domains(b) ==
  IF ~Usable(b, "exo_sharing", "sharing_policies") THEN "partial"
  ELSE GapIf(Some(Items(b, "exo_sharing", "sharing_policies"),
                  LAMBDA i : Prop(i, "Domains") = "anonymous"))

\* A rule counts whatever its state; an unread list of rules is not a rule.
exo_external_sender_warnings(b) ==
  LET mailtips == AnyEnabledWith(b, "exo_transport", "external_warning",
                    LAMBDA i : PropBool(i, "MailTipsExternalRecipientsTipsEnabled"))
      rule == Some(Items(b, "exo_transport", "transport_rules"),
                   LAMBDA i : Prop(i, "FromScope") = "NotInOrganization"
                              /\ Prop(i, "PrependSubject") # None)
  IN  IF mailtips = "true" \/ rule THEN "ok"
      ELSE IF mailtips = "unread" /\ ~Usable(b, "exo_transport", "transport_rules")
      THEN "partial" ELSE "gap"

exo_mailbox_audit_enabled(b) ==
  LET off == FirstValue(Items(b, "exo_audit", "organization_audit"), "AuditDisabled")
  IN  IF off = None THEN "partial" ELSE OkIf(off = "false")

\* Mutant of exo_dkim_enabled: only the first domain is looked at.
FirstDomainSigns(b) ==
  LET configs == Items(b, "exo_dkim", "dkim")
  IN  IF configs = <<>> THEN "partial" ELSE OkIf(PropBool(Head(configs), "Enabled"))
exo_dkim_enabled(b) ==
  LET configs == Items(b, "exo_dkim", "dkim")
  IN  IF configs = <<>> THEN "partial"
      ELSE OkIf(Every(configs, LAMBDA i : PropBool(i, "Enabled")))

mdo_outbound_spam_forwarding_block(b) ==
  LET selected == EnabledItems(b, ThreatAdapter, "outbound_spam")
  IN  IF selected = <<>> THEN "partial"
      ELSE GapIf(Some(selected, LAMBDA i : PropBool(i, "AutoForwardingEnabled")))

\* Without the accepted domains a target may be inside or outside.
mdo_transport_rule_external_forward(b) ==
  LET forwards == SelectSeq(EnabledItems(b, "exo_transport", "transport_rules"),
                            LAMBDA i : Prop(i, "RedirectMessageTo") # None)
      own == Items(b, "exo_accepted_domains", "accepted_domains")
      accepted == {Prop(own[k], "DomainName") : k \in DOMAIN own} \ {None}
  IN  IF ~Usable(b, "exo_transport", "transport_rules") THEN "partial"
      ELSE IF accepted = {} /\ forwards # <<>> THEN "partial"
      ELSE GapIf(Some(forwards, LAMBDA i : Prop(i, "RedirectMessageTo") \notin accepted))

-----------------------------------------------------------------------------
\* Threat policies

mdo_flag(b, s, n) == FlagResult(Flag(b, s, n))
\* Checks of one flag: the policies it is on, and its name.
ThreatFlags ==
  [mdo_impersonation_domains_owned |-> <<"impersonation", "EnableOrganizationDomainsProtection">>,
   mdo_malware_file_filter |-> <<"anti_malware", "EnableFileFilter">>,
   mdo_malware_zap |-> <<"anti_malware", "ZapEnabled">>,
   mdo_safe_links_real_time_scan |-> <<"safe_links", "ScanUrls">>,
   mdo_safe_links_click_tracking |-> <<"safe_links", "TrackClicks">>]

mdo_impersonation_users_protected(b, o) ==
  IF "sensitive_users" \notin o THEN "skipped"
  ELSE mdo_flag(b, "impersonation", "EnableTargetedUserProtection")
mdo_impersonation_partner_domains(b, o) ==
  IF "sensitive_domains" \notin o THEN "skipped"
  ELSE mdo_flag(b, "impersonation", "EnableTargetedDomainsProtection")

\* Only the first policy that is not disabled is looked at.
mdo_safety_tips_enabled(b) ==
  LET selected == EnabledItems(b, ThreatAdapter, "anti_phish")
      tips == {n \in DOMAIN Head(selected).props :
                 /\ n \in {"EnableFirstContactSafetyTips", "EnableSimilarUsersSafetyTips",
                           "EnableSimilarDomainsSafetyTips", "EnableUnusualCharactersSafetyTips"}
                 /\ PropBool(Head(selected), n)}
  IN  IF selected = <<>> THEN "partial"
      ELSE IF Cardinality(tips) = 4 THEN "ok"
      ELSE IF tips # {} THEN "partial" ELSE "gap"

mdo_mailbox_intelligence(b) ==
  LET selected == EnabledItems(b, ThreatAdapter, "anti_phish")
      on(i) == PropBool(i, "EnableMailboxIntelligence")
  IN  IF selected = <<>> THEN "partial"
      ELSE IF Every(selected, on) THEN "ok"
      ELSE IF Some(selected, on) THEN "partial" ELSE "gap"

mdo_safe_attachments_block(b) ==
  LET selected == EnabledItems(b, ThreatAdapter, "safe_attachments")
  IN  IF selected = <<>> THEN "partial"
      ELSE OkIf(Some(selected, LAMBDA i : Prop(i, "Action") \in
                       {"Block", "DynamicDelivery", "Replace", "Remove"}))

mdo_safe_links_block_list(b) ==
  LET on(n) == Flag(b, "safe_links", n)
  IN  IF ~Usable(b, ThreatAdapter, "safe_links") THEN "partial"
      ELSE IF \A n \in {"EnableSafeLinksForEmail", "EnableSafeLinksForTeams",
                        "EnableSafeLinksForOffice"} : on(n) = "true" THEN "ok"
      ELSE IF on("EnableSafeLinksForEmail") = "true" THEN "partial" ELSE "gap"

mdo_safe_links_click_through(b) ==
  LET selected == EnabledItems(b, ThreatAdapter, "safe_links")
  IN  IF selected = <<>> THEN "partial"
      ELSE GapIf(Some(selected, LAMBDA i : PropBool(i, "AllowClickThrough")))

mdo_quarantine_policy(b) ==
  LET selected == EnabledItems(b, ThreatAdapter, "quarantine")
  IN  IF selected = <<>> THEN "partial"
      ELSE IF Some(selected, LAMBDA i : Prop(i, "EndUserQuarantinePermissionsValue") = "FullAccess")
      THEN "gap"
      ELSE IF Some(selected, LAMBDA i : Prop(i, "RetentionDurationInDays") = "15")
      THEN "partial" ELSE "ok"

\* An action that is empty, or not there, is taken to deliver to the inbox.
mdo_spam_phish_not_inbox(b) ==
  IF ~Usable(b, ThreatAdapter, "anti_spam") THEN "partial"
  ELSE GapIf(Some(EnabledItems(b, ThreatAdapter, "anti_spam"),
                  LAMBDA i : \E n \in {"SpamAction", "HighConfidenceSpamAction",
                                       "PhishSpamAction", "HighConfidencePhishAction"} :
                    Prop(i, n) \notin {"MoveToJmf", "Quarantine", "Delete", "Redirect"}))

mdo_anti_spam_no_allowed_domains(b) ==
  IF ~Usable(b, ThreatAdapter, "anti_spam") THEN "partial"
  ELSE GapIf(Some(EnabledItems(b, ThreatAdapter, "anti_spam"),
                  LAMBDA i : \E n \in {"AllowedSenderDomains", "AllowedSenders"} :
                    Prop(i, n) # None))

mdo_connection_filter_no_ip_allow(b) ==
  IF ~Usable(b, ThreatAdapter, "connection_filter") THEN "partial"
  ELSE GapIf(Some(EnabledItems(b, ThreatAdapter, "connection_filter"),
                  LAMBDA i : Prop(i, "IPAllowList") # None))

mdo_connection_filter_no_safe_list(b) ==
  IF ~Usable(b, ThreatAdapter, "connection_filter") THEN "partial"
  ELSE GapIf(Some(EnabledItems(b, ThreatAdapter, "connection_filter"),
                  LAMBDA i : PropBool(i, "EnableSafeList")))

mdo_safe_attachments_spo_teams(b) ==
  IF ~Usable(b, ThreatAdapter, "atp_global") THEN "partial"
  ELSE OkIf(Some(EnabledItems(b, ThreatAdapter, "atp_global"),
                 LAMBDA i : PropBool(i, "EnableATPForSPOTeamsODB")
                            \/ PropBool(i, "EnableSafeAttachmentsForSPOTeamsODB")))

mdo_safe_documents(b) ==
  IF ~Usable(b, ThreatAdapter, "atp_global") THEN "partial"
  ELSE OkIf(Some(EnabledItems(b, ThreatAdapter, "atp_global"), LAMBDA i : PropBool(i, "EnableSafeDocs")))

\* A proxy never earns better than partial.
MdoProxy(o) == IF "low_secure_score" \in o THEN "gap" ELSE "partial"

\* The direct path needs the three surfaces; otherwise Secure Score stands in.
mdo_p2_policies(b, o) ==
  LET on(s) == SelectSeq(Items(b, ThreatAdapter, s), LAMBDA i : i.enabled = "true")
      presets == SelectSeq(Items(b, ThreatAdapter, "preset_security"),
                           LAMBDA i : i.enabled = "true" \/ Prop(i, "State") = "Enabled")
      direct == \A s \in {"safe_links", "safe_attachments", "preset_security"} :
                  Usable(b, ThreatAdapter, s)
  IN  IF ~direct THEN MdoProxy(o)
      ELSE IF on("safe_links") = <<>> /\ on("safe_attachments") = <<>> /\ presets = <<>> THEN "gap"
      ELSE IF /\ on("safe_links") # <<>> /\ on("safe_attachments") # <<>>
              /\ presets # <<>> \/ Some(on("safe_links") \o on("safe_attachments"),
                                       LAMBDA i : i.kind = "default")
      THEN "ok" ELSE "partial"

-----------------------------------------------------------------------------
\* Data loss prevention

\* Workload is one text, or a list of names.
WorkloadNames ==
  [Exchange |-> {"exchange"}, Devices |-> {"devices"},
   Text |-> {"exchange, sharepoint, devices"},
   List |-> {"exchange", "sharepoint", "teams"}]
WorkloadsOf(i) == IF Prop(i, "Workload") = None THEN {} ELSE WorkloadNames[Prop(i, "Workload")]
EnforcedDlp(b) == SelectSeq(Items(b, ComplianceAdapter, "dlp_policies"), LAMBDA i : Prop(i, "Mode") = "Enable")

pur_dlp_policy_present(b) ==
  IF ~Usable(b, ComplianceAdapter, "dlp_policies") THEN "partial" ELSE OkIf(EnforcedDlp(b) # <<>>)

pur_dlp_locations_complete(b) ==
  LET covered == UNION {WorkloadsOf(EnforcedDlp(b)[k]) : k \in DOMAIN EnforcedDlp(b)}
                   \cap {"exchange", "sharepoint", "teams", "devices"}
  IN  IF ~Usable(b, ComplianceAdapter, "dlp_policies") THEN "partial"
      ELSE IF Cardinality(covered) >= 3 THEN "ok"
      ELSE IF covered # {} THEN "partial" ELSE "gap"

pur_endpoint_dlp(b) ==
  IF ~Usable(b, ComplianceAdapter, "dlp_policies") THEN "partial"
  ELSE OkIf(Some(EnforcedDlp(b), LAMBDA i : Prop(i, "Workload") \in {"Devices", "Text"}))

\* Rules that are not marked disabled: a rule that does not say is enabled.
pur_dlp_rule(b, n) ==
  IF ~Usable(b, ComplianceAdapter, "dlp_rules") THEN "partial"
  ELSE OkIf(Some(Items(b, ComplianceAdapter, "dlp_rules"),
                 LAMBDA i : ~PropBool(i, "Disabled") /\ PropBool(i, n)))

\* The compliance session first, the Exchange session when it cannot say.
AuditIngestion(b, a, s) == FirstValue(Items(b, a, s), "UnifiedAuditLogIngestionEnabled")
mdo_unified_audit_enabled(b) ==
  LET first == AuditIngestion(b, ComplianceAdapter, "audit_config")
      value == IF first # None THEN first ELSE AuditIngestion(b, "exo_audit", "mailbox_audit")
  IN  IF value = None THEN "partial" ELSE OkIf(value = "true")
=============================================================================
