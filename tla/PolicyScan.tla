----------------------------- MODULE PolicyScan -----------------------------
(***************************************************************************)
(* One check of settings from the tenant to its verdict: the adapters and  *)
(* runtimes it rests on are called in the order of the collectors (a       *)
(* PowerShell adapter in a process of its own, PowerShellBridge), and the  *)
(* evaluator judges the bundle.  On the way a read may be lost in every    *)
(* way the collectors allow for: a cmdlet that is absent, a cmdlet or a    *)
(* request that is refused, a list cut at its page limit, a property that  *)
(* this version does not expose, a request per row that fails for one row  *)
(* or for all, a call that fails as a whole.                               *)
(***************************************************************************)
EXTENDS CheckEvidence, PowerShellCollectors

CONSTANTS
  Checks,   \* check -> the calls it rests on, in order: [adapter, reads],
            \* reads: cmdlet -> property -> the values it may have
  Single,   \* cmdlets and requests that return one object
  Paged,    \* adapters that read page by page, up to a limit
  Options,  \* check -> the sets of options to try
  Names,    \* <<cmdlet, property that names its rows>>: no two rows share one
  Given,    \* properties every answer has, under whatever name
  Details,  \* properties that take a request per row
  MaxRows   \* check -> rows its lists may have

\* The planner calls a runtime once (EvidencePlanner), the bridge an adapter once.
ASSUME CalledOnce ==
  \A c \in DOMAIN Checks :
    /\ Checks[c] \in Seq(Range(Checks[c]))
    /\ \A i, j \in DOMAIN Checks[c] : Checks[c][i].adapter = Checks[c][j].adapter => i = j

VARIABLES check, options,
          tenant,   \* cmdlet -> its rows, as they are
          calls,    \* calls still to make
          losses,   \* what was lost so far: [adapter, read, loss]
          bundle, verdict

policyVars == <<check, options, tenant, calls, losses, bundle, verdict>>

NotYet == "not_yet"

\* Every choice of a value for each key.
ValuesFor(sets) ==
  FoldSet(LAMBDA k, chosen : {(k :> v) @@ f : v \in sets[k], f \in chosen}, {<<>>}, DOMAIN sets)
RowsOf(cmdlet, fields, max) ==
  IF cmdlet \in Single THEN {<<r>> : r \in ValuesFor(fields)}
  ELSE {rows \in UNION {[1..k -> ValuesFor(fields)] : k \in 0..max} :
          \A n \in DOMAIN fields, i, j \in DOMAIN rows :
            <<cmdlet, n>> \in Names /\ i # j => rows[i][n] # rows[j][n]}

\* What a check reads, over all its calls.
Reads(c) == FoldFunction(LAMBDA call, reads : call.reads @@ reads, <<>>, Checks[c])
Tenants(c) == ValuesFor([cmdlet \in DOMAIN Reads(c) |-> RowsOf(cmdlet, Reads(c)[cmdlet], MaxRows[c])])

Payload(a, ans) ==
  IF a = "dns" THEN DnsPayload(ans)
  ELSE IF a \in GraphRuntimes THEN GraphPayload(a, ans)
  ELSE CollectedPayload(a, OkEnvelope(ans))
\* A runtime that failed has one status, whatever the cause.
FailedPayloads(a) ==
  IF a \in PowerShellAdapters THEN {CollectedPayload(a, e) : e \in FailedEnvelopes}
  ELSE {Failed("error")}

\* What is left of an answer.  The installed module may not have the cmdlet, or
\* not expose one of its properties; the account may be refused; a list that is
\* read page by page ends at its last page without a word.  A record of a domain
\* that could not be looked up is hidden too.  A request per row fails for every
\* row, or for the first.
Hidden(n) == "hidden " \o n
OfFirst(n) == "of first " \o n
Losses(call, cmdlet) ==
  LET fields == DOMAIN call.reads[cmdlet]
  IN  {"whole", "refused"}
        \cup (IF call.adapter \in GraphRuntimes THEN {} ELSE {"absent"})
        \cup (IF call.adapter \in Paged /\ cmdlet \notin Single THEN {"cut"} ELSE {})
        \cup {Hidden(n) : n \in {f \in fields \ Given : <<cmdlet, f>> \notin Names}}
        \cup {OfFirst(n) : n \in fields \cap Details}
\* One of them for each read of the call.
LossesOf(call) == {loss \in [DOMAIN call.reads -> UNION {Losses(call, m) : m \in DOMAIN call.reads}] :
                     \A m \in DOMAIN call.reads : loss[m] \in Losses(call, m)}
\* Only a call is lost as "failed".
ASSUME ReadsAreNamed ==
  \A c \in DOMAIN Checks : \A call \in Range(Checks[c]) :
    \A m \in DOMAIN call.reads : "failed" \notin Losses(call, m)
Left(rows, loss) ==
  CASE loss = "whole" -> [kind |-> "rows", rows |-> rows]
    [] loss = "absent" -> NoAnswer
    [] loss = "refused" -> [kind |-> "refused", rows |-> <<>>]
    [] loss = "cut" -> [kind |-> "rows", rows |-> SubSeq(rows, 1, Len(rows) - 1)]
    [] OTHER -> [kind |-> "rows",
                 rows |-> [i \in DOMAIN rows |->
                             Restrict(rows[i], {n \in DOMAIN rows[i] :
                                                  /\ loss # Hidden(n)
                                                  /\ ~(i = 1 /\ loss = OfFirst(n))})]]
Answers(call, t, loss) == [cmdlet \in DOMAIN call.reads |-> Left(t[cmdlet], loss[cmdlet])]

\* A check that nothing is bound to is skipped.
Verdict(c, b, o) ==
  LET bindings == Bindings(c, b, o)
      registered == Registered(bindings)
  IN  IF registered = {} THEN "skipped" ELSE bindings[CHOOSE g \in registered : TRUE]

-----------------------------------------------------------------------------
PolicyInit ==
  /\ check \in DOMAIN Checks
  /\ options \in Options[check]
  /\ tenant \in Tenants(check)
  /\ calls = Checks[check]
  /\ losses = {} /\ bundle = <<>> /\ verdict = NotYet

\* The bundle with the payload of the call that is made now.
Filed(payload) == Joined(bundle, [a \in {Head(calls).adapter} |-> payload])

\* The adapter runs; each of its reads is whole or lost in some way.
CallAdapter ==
  /\ calls # <<>>
  /\ \E loss \in LossesOf(Head(calls)) :
       /\ bundle' = Filed(Payload(Head(calls).adapter, Answers(Head(calls), tenant, loss)))
       /\ losses' = losses \cup {[adapter |-> Head(calls).adapter, read |-> m, loss |-> loss[m]] :
                                   m \in {m \in DOMAIN loss : loss[m] # "whole"}}
  /\ calls' = Tail(calls)
  /\ UNCHANGED <<check, options, tenant, verdict>>

\* The call fails as a whole: no session, no module, a timeout, a bad answer.
BridgeFails ==
  /\ calls # <<>>
  /\ \E payload \in FailedPayloads(Head(calls).adapter) :
       bundle' = Filed(payload)
  /\ losses' = losses \cup {[adapter |-> Head(calls).adapter, read |-> "all", loss |-> "failed"]}
  /\ calls' = Tail(calls)
  /\ UNCHANGED <<check, options, tenant, verdict>>

Judge ==
  /\ calls = <<>> /\ verdict = NotYet
  /\ verdict' = Verdict(check, bundle, options)
  /\ UNCHANGED <<check, options, tenant, calls, losses, bundle>>

PolicyNext == CallAdapter \/ BridgeFails \/ Judge
PolicySpec == PolicyInit /\ [][PolicyNext]_policyVars

-----------------------------------------------------------------------------
\* The verdict that reads which lose nothing lead to, on tenant t.
WholeVerdict(c, t, o) ==
  LET payload(call) == Payload(call.adapter, Answers(call, t, [m \in DOMAIN call.reads |-> "whole"]))
      whole == FoldFunction(LAMBDA call, b : (call.adapter :> payload(call)) @@ b, <<>>, Checks[c])
  IN  Verdict(c, whole, o)

Definite == {"ok", "gap"}
Unchanged(t) == WholeVerdict(check, t, options) = WholeVerdict(check, tenant, options)
Fresh == calls = Checks[check]

-----------------------------------------------------------------------------
(* Properties *)

\* Checks that are judged on what is left of their evidence.
\*   A failed mail tips read counts as "off" beside a readable list of rules, and
\*   a failed list of rules as "no rule" beside readable mail tips
\*   (exchange_mailflow_sharing.py:94).
\*   Secure Score stands in for unread policies, by design (defender_mdo.py:132).
\*   Rules are judged as if they were policies, so losing them changes the verdict
\*   (security_suite_spam.py:60, defender_mdo_forward.py:88 and the others).
\*   Guest calling and chat are "not off" when their cmdlets are missing.
\*   Of the Intune lists, each fails alone: configuration policies stand in for
\*   those of attack surface reduction, refused or empty (intune_policy.py:258); no
\*   device, no uncovered platform and no device without tamper protection.
\*   Eligibilities that are refused are none, and a licence that cannot be counted
\*   has no users (runtime_collect_identity_core.py:88, license_assignment.py:29).
\*   Secure Score stands in for unread sensors and data loss policies.
\*   Without the usage of the tables no rule is dead and no connector idle; in its
\*   place comes the first page of the list of tables
\*   (runtime_collect_sentinel.py:279), where every table ingests.
\*   A list that is cut at its page limit does not say so (psm1:312); the lists of
\*   Graph, which stop as silently (GraphClient), are not cut here.
JudgedOnTheRest ==
  {"exo_external_sender_warnings", "mdo_p2_policies", "mdo_spam_phish_not_inbox",
   "mdo_mailbox_intelligence", "mdo_outbound_spam_forwarding_block",
   "mdo_safe_links_click_through", "teams_guest_access_restricted",
   "endpoint_asr_rules", "endpoint_compliance_policy_assigned", "endpoint_tamper_protection",
   "id_pim_no_outside_pam", "id_protective_plan_assignment", "mdi_sensors_missing",
   "pur_dlp_not_enforced", "sen_analytics_rule_coverage", "sen_data_connectors",
   "sen_entra_diagnostics_routed", "sen_rule_telemetry_parity",
   "sen_telemetry_ingestion_coverage"}
JudgedOnACutList ==
  {"pp_dlp_all_environments", "pp_dlp_nondefault_environments",
   "pur_sensitivity_labels_published", "pur_sensitivity_auto_labeling",
   "pur_default_and_mandatory_labels", "pur_retention_policy_coverage"}

\* Not a property that is unexposed, but a read that did not happen.
OfARead(loss) == \/ loss \in {"absent", "refused", "cut", "failed"}
                 \/ \E n \in Details : loss \in {Hidden(n), OfFirst(n)}

\* "An API failure, a missing permission, or an unknown entitlement never becomes
\* a clean pass or a false gap" (README.md): whichever cmdlets or requests are
\* absent or refused, and whichever calls fail, a check that passes or fails does so
\* as it would have on the whole evidence, but for the checks listed above.
LostReadsOnlyHide ==
  (verdict \in Definite /\ (\A l \in losses : OfARead(l.loss)))
    => \/ verdict = WholeVerdict(check, tenant, options)
       \/ check \in JudgedOnTheRest
       \/ check \in JudgedOnACutList /\ \E l \in losses : l.loss = "cut"

\* "An API failure [..] never becomes a clean pass or a false gap" (README.md), said
\* of the evidence and not of the tenant: a check that passes or fails has lost none
\* of the surfaces it rests on, nor all of those that do for one another.
\* It takes a refusal from the cmdlet through the adapter, the normalisation of its
\* collector and the evaluator: an empty list there would be an answer.
LostEvidenceIsNeverJudged ==
  verdict \in Definite => ~EvidenceLost(check, LAMBDA a, s : \E l \in losses : Takes(l, a, s))

\* Checks for a setting that must not be there: not exposed is not there.  On Graph
\* a null is a false, a zero, or the default that Microsoft documents for it: a
\* directory object without onPremisesSyncEnabled is a cloud account.
SilencePasses ==
  {"exo_forwarding_external_disabled", "exo_sharing_calendar_not_all_domains",
   "exo_sharing_contact_not_all_domains",
   "mdo_outbound_spam_forwarding_block", "mdo_transport_rule_external_forward",
   "mdo_anti_spam_no_allowed_domains", "mdo_connection_filter_no_ip_allow",
   "mdo_connection_filter_no_safe_list", "mdo_quarantine_policy", "mdo_safe_links_click_through",
   "pp_dlp_all_environments", "pp_dlp_nondefault_environments",
   "spo_anyone_link_expiration", "spo_anyone_link_view", "spo_domain_restrictions",
   "spo_verification_reauth", "teams_anonymous_lobby", "teams_anonymous_start_disabled",
   "teams_broadcast_not_always_record", "teams_dialin_lobby", "teams_email_integration_disabled",
   "teams_external_control_disabled", "teams_microsoft_apps_governed", "teams_recording_disabled",
   "teams_third_party_apps_governed", "teams_custom_apps_governed",
   "teams_unmanaged_inbound_blocked", "teams_unmanaged_outbound_blocked",
   "endpoint_compliance_enforcement", "endpoint_compliance_policy_assigned",
   "id_app_certificate_lifetime", "id_app_password_lifetime",
   "id_app_expiring_credentials", "id_app_ownerless_or_stale",
   "id_app_registration_admin_only", "id_app_risky_delegated_consent",
   "id_auth_authenticator_context", "id_entitlement_access_packages",
   "id_password_never_expire", "id_priv_cloud_only", "id_security_defaults_on",
   "mdi_sensors_missing"}
Switches == {"Enabled", "Mode", "State", "Disabled"}

\* A setting this version of a module does not expose is not a safe setting: no
\* check outside the list above passes for want of one, when it does not pass with
\* it (the None of prop and prop_bool in exchange_lib.py, and of its twins).
UnexposedNeverPasses ==
  (/\ verdict = "ok" /\ check \notin SilencePasses
   /\ \A l \in losses : \E r \in Range(Checks[check]) :
        l.read \in DOMAIN r.reads
          /\ \E n \in DOMAIN r.reads[l.read] \ Switches : l.loss = Hidden(n))
  => WholeVerdict(check, tenant, options) = "ok"

\* Cmdlets return policies in no promised order, and the verdict does not depend on
\* it, but for the checks that look at the first policy (security_suite_impersonation
\* .py:163), are left with what the last one says (collaboration_teams_access.py:135),
\* or look at the first devices and policies only (intune_policy.py:299 and :456).
RowOrderIsIrrelevant ==
  Fresh /\ check \notin {"mdo_safety_tips_enabled", "teams_unmanaged_inbound_blocked",
                         "teams_unmanaged_outbound_blocked", "endpoint_asr_rules",
                         "endpoint_tamper_protection"}
    => Unchanged([m \in DOMAIN tenant |-> Reverse(tenant[m])])

\* A policy or rule that is switched off, or that is assigned to nobody, neither
\* passes nor fails a check, but for those that read their list whole, and the
\* transport rules: they say State, which is not among the flags of
\* ConvertTo-LicenseLensPolicyItem, so a rule that is off still warns about external
\* senders and still forwards mail.  Unassigned compliance policies need actions as
\* the others do (endpoint_intune_compliance.py:128); unassigned policies of attack
\* surface reduction take the place of assigned ones; default app protection has no
\* assignments; an authentication method that is off is an answer, not a policy; and
\* what a policy says of agents is read from its text (identity_manual.py:61).
DisabledPoliciesDoNotCount ==
  LET off(r) == \/ EnabledOf(r) = "false"
                \/ Exposed(r, "assignments") = "no" \/ Exposed(r, "state") = "disabled"
                \/ "State" \in DOMAIN r /\ r["State"] = "Disabled"
                \/ "Disabled" \in DOMAIN r /\ r["Disabled"] = "true"
  IN  Fresh /\ check \notin {"exo_dkim_enabled", "exo_sharing_calendar_not_all_domains",
                             "exo_sharing_contact_not_all_domains",
                             "exo_external_sender_warnings", "mdo_transport_rule_external_forward",
                             "pur_retention_policy_coverage", "endpoint_asr_rules",
                             "endpoint_compliance_noncompliance_action",
                             "endpoint_mam_app_protection", "id_auth_authenticator_context",
                             "id_auth_weak_methods_disabled", "id_ai_agents_risky_block"}
        => Unchanged([m \in DOMAIN tenant |->
                        IF m \in Single THEN tenant[m]
                        ELSE SelectSeq(tenant[m], LAMBDA r : ~off(r))])
=============================================================================
