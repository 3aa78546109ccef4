---------------------- MODULE ConditionalAccess_proof ----------------------
(***************************************************************************)
(* A check that passes has found the tenant enforcing what it is about, a  *)
(* gap is real, and turning a policy off gains no pass: for every tenant,  *)
(* any number of policies and every sign-in.                               *)
(***************************************************************************)
EXTENDS ConditionalAccess, FiniteSetTheorems, TLAPS

-----------------------------------------------------------------------------
(* The grants: whoever passes the policy has met one of the controls. *)

LEMMA MfaIsExacted ==
  ASSUME NEW p \in Policy, requires_mfa(p)
  PROVE  ExactsAsRead(p, AnyMfa)
  BY DEF requires_mfa, _grant_enforces, ExactsAsRead, Exacts, Demands, AnyMfa, Policy, None

LEMMA PhishingResistantIsExacted ==
  ASSUME NEW p \in Policy, requires_phishing_resistant(p)
  PROVE  ExactsAsRead(p, PhishingResistant)
  BY DEF requires_phishing_resistant, _grant_enforces, ExactsAsRead, Exacts, Demands,
         PhishingResistant, Policy

LEMMA ManagedIsExacted ==
  ASSUME NEW p \in Policy, requires_managed_device(p)
  PROVE  ExactsAsRead(p, Managed)
  BY DEF requires_managed_device, _grant_enforces, ExactsAsRead, Exacts, Demands, Managed, Policy

LEMMA BlockIsExacted ==
  ASSUME NEW p, is_block_policy(p)
  PROVE  ExactsAsRead(p, {})
  BY DEF is_block_policy, ExactsAsRead, Exacts

-----------------------------------------------------------------------------
(* The scope: a policy without a scope gap applies to every sign-in the     *)
(* check is about.                                                          *)

\* Every gap a policy does not have is a condition every sign-in meets.
LEMMA GapsMet ==
  ASSUME NEW p \in Policy, NEW s \in SignIn
  PROVE  /\ "not_all_users" \notin gaps(p) => p.allUsers
         /\ {"user_actions_only", "not_all_cloud_apps"} \cap gaps(p) = {} =>
              p.target = "all_apps"
         /\ "client_app_subset" \notin gaps(p) => Meets(p, s, "clients")
         /\ "platform_subset" \notin gaps(p) => Meets(p, s, "platforms")
         /\ "location_bypass" \notin gaps(p) => Meets(p, s, "excluded_locations")
         /\ "device_filter" \notin gaps(p) => Meets(p, s, "device_filter")
         /\ "risk_conditioned" \notin gaps(p) =>
              Meets(p, s, "user_risk") /\ Meets(p, s, "sign_in_risk")
<1>1. "not_all_users" \notin gaps(p) => p.allUsers
  BY DEF gaps
<1>2. {"user_actions_only", "not_all_cloud_apps"} \cap gaps(p) = {} => p.target = "all_apps"
  BY DEF gaps, Policy
<1>3. "client_app_subset" \notin gaps(p) => Meets(p, s, "clients")
  BY DEF gaps, Meets, Names, _all_client_apps
<1>4. "platform_subset" \notin gaps(p) => Meets(p, s, "platforms")
  BY DEF gaps, Meets, Names, _all_platforms
<1>5. "location_bypass" \notin gaps(p) => Meets(p, s, "excluded_locations")
  BY DEF gaps, Meets
<1>6. "device_filter" \notin gaps(p) => Meets(p, s, "device_filter")
  BY DEF gaps, Meets
<1>7. "risk_conditioned" \notin gaps(p) =>
        Meets(p, s, "user_risk") /\ Meets(p, s, "sign_in_risk")
  BY DEF gaps, Meets, has_risk_conditions
<1> QED
  BY <1>1, <1>2, <1>3, <1>4, <1>5, <1>6, <1>7

\* What every check asks: nobody who signs in is excluded, and no gap but those that
\* are the point of the check.
LEMMA AppliesFrom ==
  ASSUME NEW p \in Policy, NEW s \in SignIn, NEW kind,
         s.user \notin p.excludes,
         gaps(p) \cap {"platform_subset", "location_bypass", "device_filter"} = {},
         Meets(p, s, "users") \/ "users" \in NotRead(p, kind),
         Meets(p, s, "target"),
         Meets(p, s, "clients") \/ "clients" \in NotRead(p, kind),
         Meets(p, s, "flow") \/ "flow" \in NotRead(p, kind),
         Meets(p, s, "user_risk") \/ "user_risk" \in NotRead(p, kind),
         Meets(p, s, "sign_in_risk") \/ "sign_in_risk" \in NotRead(p, kind)
  PROVE  AppliesAsRead(p, s, kind)
<1>1. /\ Meets(p, s, "platforms")
      /\ Meets(p, s, "excluded_locations")
      /\ Meets(p, s, "device_filter")
  BY GapsMet
<1>2. Meets(p, s, "exclusions")
  BY DEF Meets
<1>3. {"locations", "excluded_apps"} \subseteq NotRead(p, kind)
  BY DEF NotRead
<1> QED
  BY <1>1, <1>2, <1>3 DEF AppliesAsRead, Conditions

\* The same for a policy found in the tenant, check by check.
LEMMA AppliesToAll ==
  ASSUME NEW p \in Policy, NEW s \in SignIn, NEW kind \in {"apps", "privileged"},
         IsKind(s, kind), s.user \notin p.excludes,
         \/ gaps(p) = {}
         \/ /\ kind = "privileged" /\ p.includeRoles # {}
            /\ gaps(p) \subseteq {"not_all_users"}
  PROVE  AppliesAsRead(p, s, kind)
<1>1. s.target \in App
  BY DEF IsKind, SignIn
<1>2. Meets(p, s, "target")
  BY <1>1, GapsMet DEF Meets
<1>3. Meets(p, s, "users") \/ "users" \in NotRead(p, kind)
  BY GapsMet DEF Meets, NotRead
<1>4. "flow" \in NotRead(p, kind)
  BY DEF NotRead
<1> QED
  BY <1>2, <1>3, <1>4, GapsMet, AppliesFrom

LEMMA AppliesToRegistration ==
  ASSUME NEW p \in Policy, NEW s \in SignIn,
         IsKind(s, "registration"), s.user \notin p.excludes,
         p.target = "register_security_info", p.allUsers, RegistrationPurpose(p) = {}
  PROVE  AppliesAsRead(p, s, "registration")
<1>1. Meets(p, s, "target")
  BY DEF Meets, IsKind
<1>2. Meets(p, s, "users")
  BY DEF Meets
<1>3. "flow" \in NotRead(p, "registration")
  BY DEF NotRead
<1>4. gaps(p) \subseteq {"user_actions_only", "not_all_cloud_apps"}
  BY DEF RegistrationPurpose
<1> QED
  BY <1>1, <1>2, <1>3, <1>4, GapsMet, AppliesFrom

LEMMA AppliesToLegacy ==
  ASSUME NEW p \in Policy, NEW s \in SignIn,
         IsKind(s, "legacy"), s.user \notin p.excludes,
         is_legacy_auth_block(p), LegacyScope(p) = {}
  PROVE  AppliesAsRead(p, s, "legacy")
<1>1. s.target \in App
  BY DEF IsKind, SignIn
<1>2. gaps(p) \subseteq {"client_app_subset"}
  BY DEF LegacyScope, scope_for_block
<1>3. Meets(p, s, "target")
  BY <1>1, <1>2, GapsMet DEF Meets
<1>4. Meets(p, s, "users")
  BY <1>2, GapsMet DEF Meets
<1>5. Meets(p, s, "clients") \/ "clients" \in NotRead(p, "legacy")
  BY DEF is_legacy_auth_block, Meets, Names, NotRead
<1>6. "flow" \in NotRead(p, "legacy")
  BY DEF NotRead
<1> QED
  BY <1>2, <1>3, <1>4, <1>5, <1>6, GapsMet, AppliesFrom

LEMMA AppliesToDeviceCode ==
  ASSUME NEW p \in Policy, NEW s \in SignIn,
         IsKind(s, "device_code"), s.user \notin p.excludes, DeviceCodeScope(p) = {}
  PROVE  AppliesAsRead(p, s, "device_code")
<1>1. s.target \in App
  BY DEF IsKind, SignIn
<1>2. gaps(p) = {}
  BY DEF DeviceCodeScope, scope_for_block, gaps, _all_client_apps
<1>3. Meets(p, s, "target")
  BY <1>1, <1>2, GapsMet DEF Meets
<1>4. Meets(p, s, "users")
  BY <1>2, GapsMet DEF Meets
<1>5. Meets(p, s, "flow")
  BY DEF Meets, IsKind
<1> QED
  BY <1>2, <1>3, <1>4, <1>5, GapsMet, AppliesFrom

LEMMA AppliesToRisk ==
  ASSUME NEW p \in Policy, NEW s \in SignIn, NEW kind \in {"risky_user", "risky_sign_in"},
         IsKind(s, kind), s.user \notin p.excludes, p.allUsers, RiskPurpose(p) = {},
         IF kind = "risky_user" THEN "high" \in p.userRisk ELSE "high" \in p.signInRisk
  PROVE  AppliesAsRead(p, s, kind)
<1>1. s.target \in App
  BY DEF IsKind, SignIn
<1>2. gaps(p) \subseteq {"risk_conditioned"}
  BY DEF RiskPurpose
<1>3. Meets(p, s, "target")
  BY <1>1, <1>2, GapsMet DEF Meets
<1>4. Meets(p, s, "users")
  BY DEF Meets
<1>5. "flow" \in NotRead(p, kind)
  BY DEF NotRead
<1>6. /\ Meets(p, s, "user_risk") \/ "user_risk" \in NotRead(p, kind)
      /\ Meets(p, s, "sign_in_risk") \/ "sign_in_risk" \in NotRead(p, kind)
  BY DEF Meets, NotRead, IsKind
<1> QED
  BY <1>2, <1>3, <1>4, <1>5, <1>6, GapsMet, AppliesFrom

-----------------------------------------------------------------------------
(* The verdicts: a check that passes has found such a policy.               *)

\* What the scan has found.
Tenant == policies \in [PolicyId -> Policy]

LEMMA FoundPolicy ==
  ASSUME Tenant, NEW p \in Found(policies)
  PROVE  p \in Policy /\ \E i \in PolicyId : policies[i] = p
  BY DEF Tenant, Found

\* A policy that leaves out nobody but the break-glass accounts, and applies to
\* every other sign-in of the kind, covers the kind.
LEMMA CoversFrom ==
  ASSUME Tenant, NEW p \in Found(policies), NEW kind, NEW controls,
         is_enabled(p), unjustified_exclusions(p, profile) = {}, ExactsAsRead(p, controls),
         \A s \in SignIn : IsKind(s, kind) /\ s.user \notin p.excludes =>
           AppliesAsRead(p, s, kind)
  PROVE  \E i \in PolicyId : CoversAsRead(policies[i], kind, controls)
<1>1. \A s \in Meant(kind) : s \in SignIn /\ IsKind(s, kind) /\ s.user \notin p.excludes
  BY SignInsAssumption DEF Meant, MeantFor, unjustified_exclusions
<1>2. CoversAsRead(p, kind, controls)
  BY <1>1 DEF CoversAsRead
<1> QED
  BY <1>2, FoundPolicy

LEMMA MfaAllUsersOk ==
  ASSUME Tenant, evaluate_ca_mfa_all_users(policies, profile) = "ok"
  PROVE  \E i \in PolicyId : CoversAsRead(policies[i], "apps", AnyMfa)
<1>1. PICK p \in Found(policies) : /\ requires_mfa(p) /\ gaps(p) = {} /\ is_enabled(p)
                                   /\ unjustified_exclusions(p, profile) = {}
  BY DEF evaluate_ca_mfa_all_users, ca_coverage_result, policy_scope
<1>2. p \in Policy
  BY FoundPolicy
<1> QED
  BY <1>1, <1>2, MfaIsExacted, AppliesToAll, CoversFrom

LEMMA LegacyAuthBlockOk ==
  ASSUME Tenant, evaluate_ca_legacy_auth_block(policies, profile) = "ok"
  PROVE  \E i \in PolicyId : CoversAsRead(policies[i], "legacy", {})
<1>1. PICK p \in Found(policies) : /\ is_legacy_auth_block(p) /\ LegacyScope(p) = {}
                                   /\ is_enabled(p)
                                   /\ unjustified_exclusions(p, profile) = {}
  BY DEF evaluate_ca_legacy_auth_block, ca_coverage_result
<1>2. p \in Policy /\ is_block_policy(p)
  BY <1>1, FoundPolicy DEF is_legacy_auth_block
<1> QED
  BY <1>1, <1>2, BlockIsExacted, AppliesToLegacy, CoversFrom

LEMMA PhishingResistantAllOk ==
  ASSUME Tenant, evaluate_ca_phishing_resistant_all(policies, profile) = "ok"
  PROVE  \E i \in PolicyId : CoversAsRead(policies[i], "apps", PhishingResistant)
<1>1. PICK p \in Found(policies) : /\ requires_phishing_resistant(p) /\ gaps(p) = {}
                                   /\ is_enabled(p)
                                   /\ unjustified_exclusions(p, profile) = {}
  BY DEF evaluate_ca_phishing_resistant_all, ca_coverage_result, policy_scope
<1>2. p \in Policy
  BY FoundPolicy
<1> QED
  BY <1>1, <1>2, PhishingResistantIsExacted, AppliesToAll, CoversFrom

LEMMA ManagedDevicesOk ==
  ASSUME Tenant, evaluate_ca_managed_devices(policies, profile) = "ok"
  PROVE  \E i \in PolicyId : CoversAsRead(policies[i], "apps", Managed)
<1>1. PICK p \in Found(policies) : /\ requires_managed_device(p) /\ gaps(p) = {}
                                   /\ is_enabled(p)
                                   /\ unjustified_exclusions(p, profile) = {}
  BY DEF evaluate_ca_managed_devices, ca_coverage_result, policy_scope
<1>2. p \in Policy
  BY FoundPolicy
<1> QED
  BY <1>1, <1>2, ManagedIsExacted, AppliesToAll, CoversFrom

LEMMA RegistrationManagedOk ==
  ASSUME Tenant, evaluate_ca_mfa_registration_managed(policies, profile) = "ok"
  PROVE  \E i \in PolicyId : CoversAsRead(policies[i], "registration", Managed)
<1>1. PICK p \in Found(policies) : /\ requires_managed_device(p) /\ p.allUsers
                                   /\ p.target = "register_security_info"
                                   /\ RegistrationPurpose(p) = {} /\ is_enabled(p)
                                   /\ unjustified_exclusions(p, profile) = {}
  BY DEF evaluate_ca_mfa_registration_managed, ca_coverage_result
<1>2. p \in Policy
  BY FoundPolicy
<1> QED
  BY <1>1, <1>2, ManagedIsExacted, AppliesToRegistration, CoversFrom

LEMMA DeviceCodeBlockOk ==
  ASSUME Tenant, evaluate_ca_device_code_block(policies, profile) = "ok"
  PROVE  \E i \in PolicyId : CoversAsRead(policies[i], "device_code", {})
<1>1. PICK p \in Found(policies) : /\ is_device_code_block(p) /\ DeviceCodeScope(p) = {}
                                   /\ is_enabled(p)
                                   /\ unjustified_exclusions(p, profile) = {}
  BY DEF evaluate_ca_device_code_block, ca_coverage_result
<1>2. p \in Policy /\ is_block_policy(p)
  BY <1>1, FoundPolicy DEF is_device_code_block
<1> QED
  BY <1>1, <1>2, BlockIsExacted, AppliesToDeviceCode, CoversFrom

LEMMA HighRiskUsersOk ==
  ASSUME Tenant, evaluate_ca_high_risk_users(policies, profile) = "ok"
  PROVE  \E i \in PolicyId : CoversAsRead(policies[i], "risky_user", {})
<1>1. PICK p \in Found(policies) : /\ blocks_high_user_risk(p) /\ p.allUsers
                                   /\ RiskPurpose(p) = {} /\ is_enabled(p)
                                   /\ unjustified_exclusions(p, profile) = {}
  BY DEF evaluate_ca_high_risk_users, ca_coverage_result
<1>2. p \in Policy /\ is_block_policy(p) /\ "high" \in p.userRisk
  BY <1>1, FoundPolicy DEF blocks_high_user_risk
<1> QED
  BY <1>1, <1>2, BlockIsExacted, AppliesToRisk, CoversFrom

LEMMA HighRiskSignInsOk ==
  ASSUME Tenant, evaluate_ca_high_risk_signins(policies, profile) = "ok"
  PROVE  \E i \in PolicyId : CoversAsRead(policies[i], "risky_sign_in", {})
<1>1. PICK p \in Found(policies) : /\ blocks_high_sign_in_risk(p) /\ p.allUsers
                                   /\ RiskPurpose(p) = {} /\ is_enabled(p)
                                   /\ unjustified_exclusions(p, profile) = {}
  BY DEF evaluate_ca_high_risk_signins, ca_coverage_result
<1>2. p \in Policy /\ is_block_policy(p) /\ "high" \in p.signInRisk
  BY <1>1, FoundPolicy DEF blocks_high_sign_in_risk
<1> QED
  BY <1>1, <1>2, BlockIsExacted, AppliesToRisk, CoversFrom

LEMMA PhishingResistantPrivilegedOk ==
  ASSUME Tenant, evaluate_ca_phishing_resistant_privileged(policies, profile) = "ok"
  PROVE  \E i \in PolicyId : CoversAsRead(policies[i], "privileged", PhishingResistant)
<1>1. PICK p \in Found(policies) : /\ requires_phishing_resistant(p)
                                   /\ p.allUsers \/ p.includeRoles # {}
                                   /\ RolePurpose(p) = {} /\ is_enabled(p)
                                   /\ unjustified_exclusions(p, profile) = {}
  BY DEF evaluate_ca_phishing_resistant_privileged, ca_coverage_result
<1>2. p \in Policy
  BY FoundPolicy
<1>3. gaps(p) = {} \/ (p.includeRoles # {} /\ gaps(p) \subseteq {"not_all_users"})
  BY <1>1 DEF RolePurpose, gaps
<1> QED
  BY <1>1, <1>2, <1>3, PhishingResistantIsExacted, AppliesToAll, CoversFrom

LEMMA PrivGapsOk ==
  ASSUME Tenant, evaluate_ca_priv_gaps(policies, profile) = "ok"
  PROVE  /\ \E i \in PolicyId : CoversAsRead(policies[i], "privileged", AnyMfa)
         /\ \E i \in PolicyId : CoversAsRead(policies[i], "legacy", {})
<1>1. /\ \E p \in Found(policies) : /\ is_enabled(p) /\ _mfa_covers_privileged(p)
                                    /\ unjustified_exclusions(p, profile) = {}
      /\ \E p \in Found(policies) : /\ is_enabled(p) /\ _legacy_covers(p)
                                    /\ unjustified_exclusions(p, profile) = {}
  BY DEF evaluate_ca_priv_gaps
<1>2. \E i \in PolicyId : CoversAsRead(policies[i], "privileged", AnyMfa)
  <2>1. PICK p \in Found(policies) : /\ is_enabled(p) /\ _mfa_covers_privileged(p)
                                     /\ unjustified_exclusions(p, profile) = {}
    BY <1>1
  <2>2. /\ p \in Policy /\ requires_mfa(p)
        /\ gaps(p) = {} \/ (p.includeRoles # {} /\ gaps(p) \subseteq {"not_all_users"})
    BY <2>1, FoundPolicy DEF _mfa_covers_privileged
  <2> QED
    BY <2>1, <2>2, MfaIsExacted, AppliesToAll, CoversFrom
<1>3. \E i \in PolicyId : CoversAsRead(policies[i], "legacy", {})
  <2>1. PICK p \in Found(policies) : /\ is_enabled(p) /\ _legacy_covers(p)
                                     /\ unjustified_exclusions(p, profile) = {}
    BY <1>1
  <2>2. /\ p \in Policy /\ is_block_policy(p)
        /\ is_legacy_auth_block(p) /\ LegacyScope(p) = {}
    BY <2>1, FoundPolicy DEF _legacy_covers, is_legacy_auth_block
  <2> QED
    BY <2>1, <2>2, BlockIsExacted, AppliesToLegacy, CoversFrom
<1> QED
  BY <1>2, <1>3

-----------------------------------------------------------------------------
(* Every reachable state holds the verdicts of a scan of its policies.      *)

Enforced(c) ==
  \A o \in Obligations(c) : \E i \in PolicyId : CoversAsRead(policies[i], o[1], o[2])
Scanned == Tenant /\ verdict = Scan(policies, profile)

LEMMA OkIsEnforced ==
  ASSUME Tenant, NEW c \in Covering, Evaluate(c, policies, profile) = "ok"
  PROVE  Enforced(c)
<1>1. ASSUME Tenant, Evaluate("mfa_all_users", policies, profile) = "ok"
      PROVE  Enforced("mfa_all_users")
  <2>1. evaluate_ca_mfa_all_users(policies, profile) = "ok"
    BY <1>1 DEF Evaluate
  <2>2. Obligations("mfa_all_users") = {<<"apps", AnyMfa>>}
    BY DEF Obligations
  <2> QED
    BY <1>1, <2>1, <2>2, MfaAllUsersOk DEF Enforced
<1>2. ASSUME Tenant, Evaluate("legacy_auth_block", policies, profile) = "ok"
      PROVE  Enforced("legacy_auth_block")
  <2>1. evaluate_ca_legacy_auth_block(policies, profile) = "ok"
    BY <1>2 DEF Evaluate
  <2>2. Obligations("legacy_auth_block") = {<<"legacy", {}>>}
    BY DEF Obligations
  <2> QED
    BY <1>2, <2>1, <2>2, LegacyAuthBlockOk DEF Enforced
<1>3. ASSUME Tenant, Evaluate("phishing_resistant_all", policies, profile) = "ok"
      PROVE  Enforced("phishing_resistant_all")
  <2>1. evaluate_ca_phishing_resistant_all(policies, profile) = "ok"
    BY <1>3 DEF Evaluate
  <2>2. Obligations("phishing_resistant_all") = {<<"apps", PhishingResistant>>}
    BY DEF Obligations
  <2> QED
    BY <1>3, <2>1, <2>2, PhishingResistantAllOk DEF Enforced
<1>4. ASSUME Tenant, Evaluate("managed_devices", policies, profile) = "ok"
      PROVE  Enforced("managed_devices")
  <2>1. evaluate_ca_managed_devices(policies, profile) = "ok"
    BY <1>4 DEF Evaluate
  <2>2. Obligations("managed_devices") = {<<"apps", Managed>>}
    BY DEF Obligations
  <2> QED
    BY <1>4, <2>1, <2>2, ManagedDevicesOk DEF Enforced
<1>5. ASSUME Tenant, Evaluate("mfa_registration_managed", policies, profile) = "ok"
      PROVE  Enforced("mfa_registration_managed")
  <2>1. evaluate_ca_mfa_registration_managed(policies, profile) = "ok"
    BY <1>5 DEF Evaluate
  <2>2. Obligations("mfa_registration_managed") = {<<"registration", Managed>>}
    BY DEF Obligations
  <2> QED
    BY <1>5, <2>1, <2>2, RegistrationManagedOk DEF Enforced
<1>6. ASSUME Tenant, Evaluate("device_code_block", policies, profile) = "ok"
      PROVE  Enforced("device_code_block")
  <2>1. evaluate_ca_device_code_block(policies, profile) = "ok"
    BY <1>6 DEF Evaluate
  <2>2. Obligations("device_code_block") = {<<"device_code", {}>>}
    BY DEF Obligations
  <2> QED
    BY <1>6, <2>1, <2>2, DeviceCodeBlockOk DEF Enforced
<1>7. ASSUME Tenant, Evaluate("high_risk_users", policies, profile) = "ok"
      PROVE  Enforced("high_risk_users")
  <2>1. evaluate_ca_high_risk_users(policies, profile) = "ok"
    BY <1>7 DEF Evaluate
  <2>2. Obligations("high_risk_users") = {<<"risky_user", {}>>}
    BY DEF Obligations
  <2> QED
    BY <1>7, <2>1, <2>2, HighRiskUsersOk DEF Enforced
<1>8. ASSUME Tenant, Evaluate("high_risk_signins", policies, profile) = "ok"
      PROVE  Enforced("high_risk_signins")
  <2>1. evaluate_ca_high_risk_signins(policies, profile) = "ok"
    BY <1>8 DEF Evaluate
  <2>2. Obligations("high_risk_signins") = {<<"risky_sign_in", {}>>}
    BY DEF Obligations
  <2> QED
    BY <1>8, <2>1, <2>2, HighRiskSignInsOk DEF Enforced
<1>9. ASSUME Tenant, Evaluate("phishing_resistant_privileged", policies, profile) = "ok"
      PROVE  Enforced("phishing_resistant_privileged")
  <2>1. evaluate_ca_phishing_resistant_privileged(policies, profile) = "ok"
    BY <1>9 DEF Evaluate
  <2>2. Obligations("phishing_resistant_privileged") = {<<"privileged", PhishingResistant>>}
    BY DEF Obligations
  <2> QED
    BY <1>9, <2>1, <2>2, PhishingResistantPrivilegedOk DEF Enforced
<1>10. ASSUME Tenant, Evaluate("ca_priv_gaps", policies, profile) = "ok"
      PROVE  Enforced("ca_priv_gaps")
  <2>1. evaluate_ca_priv_gaps(policies, profile) = "ok"
    BY <1>10 DEF Evaluate
  <2>2. Obligations("ca_priv_gaps") = {<<"privileged", AnyMfa>>, <<"legacy", {}>>}
    BY DEF Obligations
  <2> QED
    BY <1>10, <2>1, <2>2, PrivGapsOk DEF Enforced
<1> QED
  BY <1>1, <1>2, <1>3, <1>4, <1>5, <1>6, <1>7, <1>8, <1>9, <1>10 DEF Covering, Checks

LEMMA InitScanned == Init => Scanned
  BY StartsAssumption DEF Init, Scanned, Tenant

LEMMA NextScanned == Scanned /\ [Next]_vars => Scanned'
<1> SUFFICES ASSUME Scanned, [Next]_vars PROVE Scanned'
  OBVIOUS
<1>1. ASSUME NEW i \in PolicyId, NEW c \in Changes, ChangeAndScan(i, c[1], c[2])
      PROVE  Scanned'
  BY <1>1 DEF ChangeAndScan, Scanned, Tenant
<1>2. CASE UNCHANGED vars
  BY <1>2 DEF vars, Scanned, Tenant, Scan
<1> QED
  BY <1>1, <1>2 DEF Next

LEMMA ScannedMeansEnforced == Scanned => PassMeansEnforced
<1> SUFFICES ASSUME Scanned, NEW c \in Covering, verdict[c] = "ok" PROVE Enforced(c)
  BY DEF PassMeansEnforced, Enforced
<1>1. Evaluate(c, policies, profile) = "ok"
  BY DEF Scanned, Scan, Covering
<1> QED
  BY <1>1, OkIsEnforced DEF Scanned

\* A check that passes has found the tenant enforcing what it is about, whatever
\* the policies, the changes made to them and the sign-ins (ca_coverage_result,
\* role_targeted_result, evaluate_ca_priv_gaps and the classifiers under them).
THEOREM PassMeansEnforcedAlways == Spec => []PassMeansEnforced
  BY InitScanned, NextScanned, ScannedMeansEnforced, PTL DEF Spec

-----------------------------------------------------------------------------
(* A gap is real: whatever does all that is asked, and is not excepted, is   *)
(* among the policies the check finds.                                      *)

\* A set of grants of which any one will do proves a grant when it has only one.
LEMMA OneDemand ==
  ASSUME NEW p \in Policy, ~(p.operator = "or" /\ Cardinality(Demands(p)) > 1)
  PROVE  p.operator = "and" \/ Demands(p) = {} \/ \E d : Demands(p) = {d}
<1>1. IsFiniteSet(Demands(p))
  <2>1. IsFiniteSet({"mfa", "phishingResistantMfa", "compliantDevice", "domainJoinedDevice",
                     "passwordChange", "block", None, "phishing_resistant", "other"})
    <3> DEFINE Three(a, b, c) == {} \cup {a} \cup {b} \cup {c}
    <3>1. \A a, b, c : IsFiniteSet(Three(a, b, c))
      BY FS_EmptySet, FS_AddElement, Zenon
    <3>2. IsFiniteSet(Three("mfa", "phishingResistantMfa", "compliantDevice")
                        \cup Three("domainJoinedDevice", "passwordChange", "block")
                        \cup Three(None, "phishing_resistant", "other"))
      BY <3>1, FS_Union, Zenon
    <3> QED
      BY <3>2
  <2>2. Demands(p) \subseteq {"mfa", "phishingResistantMfa", "compliantDevice",
                               "domainJoinedDevice", "passwordChange", "block", None,
                               "phishing_resistant", "other"}
    BY DEF Demands, Policy
  <2> QED
    BY <2>1, <2>2, FS_Subset
<1>2. CASE p.operator = "or"
  <2>1. Cardinality(Demands(p)) \in Nat
    BY <1>1, FS_CardinalityType
  <2>2. Cardinality(Demands(p)) = 0 \/ Cardinality(Demands(p)) = 1
    BY <1>2, <2>1
  <2> QED
    BY <1>1, <2>2, FS_EmptySet, FS_Singleton
<1> QED
  BY <1>2 DEF Policy

LEMMA NothingIsBlocked ==
  ASSUME NEW p, Exacts(p, {})
  PROVE  is_block_policy(p)
  BY DEF Exacts, is_block_policy

LEMMA ExactedMfa ==
  ASSUME NEW p \in Policy, Exacts(p, AnyMfa), ~is_block_policy(p),
         ~(p.operator = "or" /\ Cardinality(Demands(p)) > 1)
  PROVE  requires_mfa(p)
<1>1. CASE p.operator = "and"
  <2>1. Demands(p) \cap AnyMfa # {}
    BY <1>1 DEF Exacts, is_block_policy
  <2> QED
    BY <1>1, <2>1 DEF Demands, AnyMfa, requires_mfa, _grant_enforces, Policy, None
<1>2. CASE p.operator # "and" /\ \E d : Demands(p) = {d}
  <2>1. PICK d : Demands(p) = {d}
    BY <1>2
  <2>2. d \in AnyMfa
    BY <1>2, <2>1 DEF Exacts, is_block_policy
  <2> QED
    BY <2>1, <2>2 DEF Demands, AnyMfa, requires_mfa, _grant_enforces, Policy, None
<1> QED
  BY <1>1, <1>2, OneDemand DEF Exacts, is_block_policy

LEMMA ExactedPhishingResistant ==
  ASSUME NEW p \in Policy, Exacts(p, PhishingResistant), ~is_block_policy(p),
         ~(p.operator = "or" /\ Cardinality(Demands(p)) > 1)
  PROVE  requires_phishing_resistant(p)
<1>1. CASE p.operator = "and"
  <2>1. Demands(p) \cap PhishingResistant # {}
    BY <1>1 DEF Exacts, is_block_policy
  <2> QED
    BY <1>1, <2>1
       DEF Demands, PhishingResistant, requires_phishing_resistant, _grant_enforces, Policy, None
<1>2. CASE p.operator # "and" /\ \E d : Demands(p) = {d}
  <2>1. PICK d : Demands(p) = {d}
    BY <1>2
  <2>2. d \in PhishingResistant
    BY <1>2, <2>1 DEF Exacts, is_block_policy
  <2> QED
    BY <2>1, <2>2
       DEF Demands, PhishingResistant, requires_phishing_resistant, _grant_enforces, Policy, None
<1> QED
  BY <1>1, <1>2, OneDemand DEF Exacts, is_block_policy

LEMMA ExactedManaged ==
  ASSUME NEW p \in Policy, Exacts(p, Managed), ~is_block_policy(p),
         ~(p.operator = "or" /\ Cardinality(Demands(p)) > 1)
  PROVE  requires_managed_device(p)
<1>1. CASE p.operator = "and"
  <2>1. Demands(p) \cap Managed # {}
    BY <1>1 DEF Exacts, is_block_policy
  <2> QED
    BY <1>1, <2>1 DEF Demands, Managed, requires_managed_device, _grant_enforces, Policy, None
<1>2. CASE p.operator # "and" /\ \E d : Demands(p) = {d}
  <2>1. PICK d : Demands(p) = {d}
    BY <1>2
  <2>2. d \in Managed
    BY <1>2, <2>1 DEF Exacts, is_block_policy
  <2> QED
    BY <2>1, <2>2 DEF Demands, Managed, requires_managed_device, _grant_enforces, Policy, None
<1> QED
  BY <1>1, <1>2, OneDemand DEF Exacts, is_block_policy

-----------------------------------------------------------------------------
(* What the sign-ins say of a policy that covers a half of ca_priv_gaps.     *)

\* The profile is the one the tenant began with.
Kept == \E start \in Starts : profile = start.profile

LEMMA Varied ==
  ASSUME Kept, NEW kind \in {"privileged", "legacy"}
  PROVE  /\ \A v \in Platform : \E s \in Meant(kind) : s.platform = v
         /\ \A v \in Location : \E s \in Meant(kind) : s.location = v
         /\ \E s \in Meant(kind) : s.filtered = FALSE
         /\ \A v \in App : \E s \in Meant(kind) : s.target = v
         /\ \E s \in Meant(kind) : s.userRisk = None
         /\ \E s \in Meant(kind) : s.signInRisk = None
<1>1. PICK start \in Starts : profile = start.profile
  BY DEF Kept
<1>2. \A field \in DOMAIN Respects : \A value \in Respects[field] :
        \E s \in Meant(kind) : s[field] = value
  BY <1>1, SignInsAreVaried DEF Meant
<1>3. /\ DOMAIN Respects = {"platform", "location", "filtered", "target", "userRisk",
                            "signInRisk"}
      /\ Respects["platform"] = Platform /\ Respects["location"] = Location
      /\ FALSE \in Respects["filtered"] /\ Respects["target"] = App
      /\ None \in Respects["userRisk"] /\ None \in Respects["signInRisk"]
  BY DEF Respects
<1>4. \A v \in Platform : \E s \in Meant(kind) : s.platform = v
  BY <1>2, <1>3
<1>5. \A v \in Location : \E s \in Meant(kind) : s.location = v
  BY <1>2, <1>3
<1>6. \E s \in Meant(kind) : s.filtered = FALSE
  BY <1>2, <1>3
<1>7. \A v \in App : \E s \in Meant(kind) : s.target = v
  BY <1>2, <1>3
<1>8. \E s \in Meant(kind) : s.userRisk = None
  BY <1>2, <1>3
<1>9. \E s \in Meant(kind) : s.signInRisk = None
  BY <1>2, <1>3
<1> QED
  BY <1>4, <1>5, <1>6, <1>7, <1>8, <1>9

\* A policy that applies to sign-ins from anywhere has none of the scope gaps but those
\* of whom and which clients it names.
LEMMA NoHiddenGap ==
  ASSUME Kept, NEW p \in Policy, NEW kind \in {"privileged", "legacy"},
         \A s \in Meant(kind) : AppliesTo(p, s),
         ~(p.platforms # {} /\ Platform \subseteq p.platforms)
  PROVE  gaps(p) \subseteq {"not_all_users", "client_app_subset"}
<1>1. \A s \in Meant(kind), condition \in Conditions : Meets(p, s, condition)
  BY DEF AppliesTo
<1>2. p.target = "all_apps"
  <2>1. PICK s \in Meant(kind) : s.target = "app"
    BY Varied DEF App
  <2>2. PICK t \in Meant(kind) : t.target = "other_app"
    BY Varied DEF App
  <2>3. Meets(p, s, "target") /\ Meets(p, t, "target")
    BY <1>1 DEF Conditions
  <2> QED
    BY <2>1, <2>2, <2>3 DEF Meets, Policy
<1>3. p.userRisk = {} /\ p.signInRisk = {}
  <2>1. PICK s \in Meant(kind) : s.userRisk = None
    BY Varied
  <2>2. PICK t \in Meant(kind) : t.signInRisk = None
    BY Varied
  <2>3. Meets(p, s, "user_risk") /\ Meets(p, t, "sign_in_risk")
    BY <1>1 DEF Conditions
  <2>4. p.userRisk \subseteq Levels /\ p.signInRisk \subseteq Levels
    BY DEF Policy
  <2> QED
    BY <2>1, <2>2, <2>3, <2>4 DEF Meets, Levels, None
<1>4. p.platforms = {} \/ "all" \in p.platforms
  <2>1. SUFFICES ASSUME p.platforms # {}, "all" \notin p.platforms PROVE FALSE
    OBVIOUS
  <2>2. PICK v \in Platform : v \notin p.platforms
    BY <2>1
  <2>3. PICK s \in Meant(kind) : s.platform = v
    BY Varied
  <2>4. Meets(p, s, "platforms")
    BY <1>1 DEF Conditions
  <2> QED
    BY <2>1, <2>2, <2>3, <2>4 DEF Meets, Names
<1>5. p.exceptPlatforms = {}
  <2>1. SUFFICES ASSUME NEW v \in p.exceptPlatforms PROVE FALSE
    OBVIOUS
  <2>2. v \in Platform
    BY <2>1 DEF Policy
  <2>3. PICK s \in Meant(kind) : s.platform = v
    BY <2>2, Varied
  <2>4. Meets(p, s, "platforms")
    BY <1>1 DEF Conditions
  <2> QED
    BY <2>1, <2>3, <2>4 DEF Meets
<1>6. p.exceptLocations = {}
  <2>1. SUFFICES ASSUME NEW v \in p.exceptLocations PROVE FALSE
    OBVIOUS
  <2>2. v \in Location
    BY <2>1 DEF Policy
  <2>3. PICK s \in Meant(kind) : s.location = v
    BY <2>2, Varied
  <2>4. Meets(p, s, "excluded_locations")
    BY <1>1 DEF Conditions
  <2> QED
    BY <2>1, <2>3, <2>4 DEF Meets
<1>7. ~p.deviceFilter
  <2>1. PICK s \in Meant(kind) : s.filtered = FALSE
    BY Varied
  <2>2. Meets(p, s, "device_filter")
    BY <1>1 DEF Conditions
  <2> QED
    BY <2>1, <2>2 DEF Meets
<1> QED
  BY <1>2, <1>3, <1>4, <1>5, <1>6, <1>7 DEF gaps, has_risk_conditions, _all_platforms

LEMMA NobodyExcluded ==
  ASSUME Kept, NEW p \in Policy, NEW u \in unjustified_exclusions(p, profile),
         NEW kind \in {"privileged", "legacy"}, kind = "privileged" => RolesOf[u] # {},
         \A s \in Meant(kind) : AppliesTo(p, s)
  PROVE  FALSE
<1>1. u \in User \ profile.justified /\ u \in p.excludes
  BY DEF unjustified_exclusions, Policy
<1>2. PICK start \in Starts : profile = start.profile
  BY DEF Kept
<1>3. PICK s \in Meant(kind) : s.user = u
  BY <1>1, <1>2, SignInsAreVaried DEF Meant
<1>4. Meets(p, s, "exclusions")
  BY DEF AppliesTo, Conditions
<1> QED
  BY <1>1, <1>3, <1>4 DEF Meets

\* A policy that names clients, but not each of them, lets a privileged user by.
LEMMA ClientsAreAll ==
  ASSUME Kept, NEW p \in Policy, \A s \in Meant("privileged") : AppliesTo(p, s),
         ~(p.clients # {} /\ Client \subseteq p.clients)
  PROVE  _all_client_apps(p)
<1>1. SUFFICES ASSUME p.clients # {}, "all" \notin p.clients PROVE FALSE
  BY DEF _all_client_apps
<1>2. PICK v \in Client : v \notin p.clients
  BY <1>1
<1>3. PICK start \in Starts : profile = start.profile
  BY DEF Kept
<1>4. PICK s \in Meant("privileged") : s.client = v
  BY <1>3, SignInsAreVaried DEF Meant
<1>5. Meets(p, s, "clients")
  BY DEF AppliesTo, Conditions
<1> QED
  BY <1>1, <1>2, <1>4, <1>5 DEF Meets, Names

LEMMA PrivGapsGap ==
  ASSUME Tenant, evaluate_ca_priv_gaps(policies, profile) = "gap"
  PROVE  \A p \in Found(policies) : is_enabled(p) /\ unjustified_exclusions(p, profile) = {} =>
           ~_mfa_covers_privileged(p) /\ ~_legacy_covers(p)
  BY DEF evaluate_ca_priv_gaps

LEMMA MfaHalfOpen ==
  ASSUME Tenant, Kept, evaluate_ca_priv_gaps(policies, profile) = "gap", NEW i \in PolicyId,
         Covers(policies[i], "privileged", AnyMfa)
  PROVE  NotRecognised(policies[i], "ca_priv_gaps", "privileged")
<1> DEFINE p == policies[i]
<1>1. SUFFICES ASSUME ~NotRecognised(p, "ca_priv_gaps", "privileged") PROVE FALSE
  OBVIOUS
<1>2. /\ p \in Policy /\ p \in Found(policies) /\ is_enabled(p) /\ Exacts(p, AnyMfa)
      /\ \A s \in Meant("privileged") : AppliesTo(p, s)
  BY DEF Tenant, Found, Covers
<1>3. /\ ~(p.operator = "or" /\ Cardinality(Demands(p)) > 1)
      /\ p.allUsers \/ p.includeRoles # {}
      /\ ~is_block_policy(p)
      /\ ~(p.platforms # {} /\ Platform \subseteq p.platforms)
      /\ ~(p.clients # {} /\ Client \subseteq p.clients)
      /\ \A u \in unjustified_exclusions(p, profile) : RolesOf[u] # {}
  BY <1>1 DEF NotRecognised
<1> HIDE DEF p
<1>4. requires_mfa(p)
  BY <1>2, <1>3, ExactedMfa
<1>5. gaps(p) \subseteq {"not_all_users", "client_app_subset"}
  BY <1>2, <1>3, NoHiddenGap
<1>6. _all_client_apps(p)
  BY <1>2, <1>3, ClientsAreAll
<1>7. unjustified_exclusions(p, profile) = {}
  BY <1>2, <1>3, NobodyExcluded
<1>8. gaps(p) = {} \/ (p.includeRoles # {} /\ gaps(p) = {"not_all_users"})
  BY <1>2, <1>3, <1>5, <1>6 DEF gaps
<1> QED
  BY <1>2, <1>4, <1>7, <1>8, PrivGapsGap DEF _mfa_covers_privileged

LEMMA LegacyHalfOpen ==
  ASSUME Tenant, Kept, evaluate_ca_priv_gaps(policies, profile) = "gap", NEW i \in PolicyId,
         Covers(policies[i], "legacy", {})
  PROVE  NotRecognised(policies[i], "ca_priv_gaps", "legacy")
<1> DEFINE p == policies[i]
<1>1. SUFFICES ASSUME ~NotRecognised(p, "ca_priv_gaps", "legacy") PROVE FALSE
  OBVIOUS
<1>2. /\ p \in Policy /\ p \in Found(policies) /\ is_enabled(p) /\ Exacts(p, {})
      /\ \A s \in Meant("legacy") : AppliesTo(p, s)
  BY DEF Tenant, Found, Covers
<1>3. /\ p.allUsers
      /\ _all_client_apps(p) \/ p.clients \subseteq Legacy
      /\ ~(p.platforms # {} /\ Platform \subseteq p.platforms)
  BY <1>1 DEF NotRecognised
<1> HIDE DEF p
<1>4. is_legacy_auth_block(p)
  BY <1>2, <1>3, NothingIsBlocked DEF is_legacy_auth_block, _all_client_apps
<1>5. gaps(p) \subseteq {"not_all_users", "client_app_subset"}
  BY <1>2, <1>3, NoHiddenGap
<1>6. LegacyScope(p) = {}
  <2>1. "not_all_users" \notin gaps(p)
    BY <1>3 DEF gaps
  <2>2. _all_client_apps(p) => "client_app_subset" \notin gaps(p)
    BY DEF gaps
  <2> QED
    BY <1>3, <1>5, <2>1, <2>2 DEF LegacyScope, scope_for_block
<1>7. unjustified_exclusions(p, profile) = {}
  BY <1>2, NobodyExcluded
<1> QED
  BY <1>2, <1>4, <1>6, <1>7, PrivGapsGap DEF _legacy_covers

\* What a policy that is not excepted, and does what a check asks for, is to the check.
LEMMA IsMatched ==
  ASSUME Tenant, Kept, NEW c \in Covering \ {"ca_priv_gaps"}, NEW o \in Obligations(c),
         NEW i \in PolicyId,
         ~NotRecognised(policies[i], c, o[1]), Covers(policies[i], o[1], o[2])
  PROVE  /\ policies[i] \in Policy /\ policies[i] \in Found(policies) /\ is_enabled(policies[i])
         /\ policies[i].allUsers \/ (o[1] = "privileged" /\ policies[i].includeRoles # {})
         /\ o[1] \in {"apps", "privileged", "registration"} => ~is_block_policy(policies[i])
         /\ o[1] = "device_code" => policies[i].deviceCode
         /\ o[1] = "risky_user" => "high" \in policies[i].userRisk
         /\ o[1] = "risky_sign_in" => "high" \in policies[i].signInRisk
         /\ o[1] = "legacy" => (_all_client_apps(policies[i]) \/ policies[i].clients \subseteq Legacy)
         /\ ~(policies[i].operator = "or" /\ Cardinality(Demands(policies[i])) > 1)
         /\ Exacts(policies[i], o[2])
         /\ \A s \in Meant(o[1]) : AppliesTo(policies[i], s)
  BY DEF Tenant, Found, Covers, NotRecognised

\* The verdict on one kind of sign-in that a gap stands for.
Open(c) == \A o \in Obligations(c), i \in PolicyId :
             NotRecognised(policies[i], c, o[1]) \/ ~Covers(policies[i], o[1], o[2])

\* Whoever registers security information is not told to by a policy for applications.
LEMMA RegistrationIsTheTarget ==
  ASSUME Kept, NEW p \in Policy, \A s \in Meant("registration") : AppliesTo(p, s)
  PROVE  p.target = "register_security_info"
<1>1. PICK start \in Starts : profile = start.profile
  BY DEF Kept
<1>2. PICK s \in Meant("registration") : TRUE
  BY <1>1, SignInsAreVaried DEF Meant
<1>3. Meets(p, s, "target") /\ s.target = "register_security_info"
  BY <1>2 DEF AppliesTo, Conditions, Meant, MeantFor, IsKind
<1> QED
  BY <1>3 DEF Meets, App

LEMMA GapIsOpen ==
  ASSUME Tenant, Kept, NEW c \in Covering, Evaluate(c, policies, profile) = "gap"
  PROVE  Open(c)
<1>1. CASE c = "mfa_all_users"
  <2>1. evaluate_ca_mfa_all_users(policies, profile) = "gap"
    BY <1>1 DEF Evaluate
  <2> SUFFICES ASSUME NEW o \in Obligations(c), NEW i \in PolicyId,
                      ~NotRecognised(policies[i], c, o[1]),
                      Covers(policies[i], o[1], o[2])
               PROVE  FALSE
    BY DEF Open
  <2>2. o[1] = "apps" /\ o[2] = AnyMfa
    BY <1>1 DEF Obligations
  <2>3. requires_mfa(policies[i])
    BY <1>1, <2>2, IsMatched, ExactedMfa
  <2>4. /\ policies[i] \in Found(policies) /\ is_enabled(policies[i])
        /\ policies[i].allUsers
    BY <1>1, <2>2, IsMatched
  <2> QED
    BY <2>1, <2>3, <2>4 DEF evaluate_ca_mfa_all_users, ca_coverage_result
<1>2. CASE c = "phishing_resistant_all"
  <2>1. evaluate_ca_phishing_resistant_all(policies, profile) = "gap"
    BY <1>2 DEF Evaluate
  <2> SUFFICES ASSUME NEW o \in Obligations(c), NEW i \in PolicyId,
                      ~NotRecognised(policies[i], c, o[1]),
                      Covers(policies[i], o[1], o[2])
               PROVE  FALSE
    BY DEF Open
  <2>2. o[1] = "apps" /\ o[2] = PhishingResistant
    BY <1>2 DEF Obligations
  <2>3. requires_phishing_resistant(policies[i])
    BY <1>2, <2>2, IsMatched, ExactedPhishingResistant
  <2>4. /\ policies[i] \in Found(policies) /\ is_enabled(policies[i])
        /\ policies[i].allUsers
    BY <1>2, <2>2, IsMatched
  <2> QED
    BY <2>1, <2>3, <2>4 DEF evaluate_ca_phishing_resistant_all, ca_coverage_result
<1>3. CASE c = "managed_devices"
  <2>1. evaluate_ca_managed_devices(policies, profile) = "gap"
    BY <1>3 DEF Evaluate
  <2> SUFFICES ASSUME NEW o \in Obligations(c), NEW i \in PolicyId,
                      ~NotRecognised(policies[i], c, o[1]),
                      Covers(policies[i], o[1], o[2])
               PROVE  FALSE
    BY DEF Open
  <2>2. o[1] = "apps" /\ o[2] = Managed
    BY <1>3 DEF Obligations
  <2>3. requires_managed_device(policies[i])
    BY <1>3, <2>2, IsMatched, ExactedManaged
  <2>4. /\ policies[i] \in Found(policies) /\ is_enabled(policies[i])
        /\ policies[i].allUsers
    BY <1>3, <2>2, IsMatched
  <2> QED
    BY <2>1, <2>3, <2>4 DEF evaluate_ca_managed_devices, ca_coverage_result
<1>4. CASE c = "legacy_auth_block"
  <2>1. evaluate_ca_legacy_auth_block(policies, profile) = "gap"
    BY <1>4 DEF Evaluate
  <2> SUFFICES ASSUME NEW o \in Obligations(c), NEW i \in PolicyId,
                      ~NotRecognised(policies[i], c, o[1]),
                      Covers(policies[i], o[1], o[2])
               PROVE  FALSE
    BY DEF Open
  <2>2. o[1] = "legacy" /\ o[2] = {}
    BY <1>4 DEF Obligations
  <2>3. is_legacy_auth_block(policies[i])
    BY <1>4, <2>2, IsMatched, NothingIsBlocked DEF is_legacy_auth_block, _all_client_apps
  <2>4. /\ policies[i] \in Found(policies) /\ is_enabled(policies[i])
        /\ policies[i].allUsers
    BY <1>4, <2>2, IsMatched
  <2> QED
    BY <2>1, <2>3, <2>4 DEF evaluate_ca_legacy_auth_block, ca_coverage_result
<1>5. CASE c = "device_code_block"
  <2>1. evaluate_ca_device_code_block(policies, profile) = "gap"
    BY <1>5 DEF Evaluate
  <2> SUFFICES ASSUME NEW o \in Obligations(c), NEW i \in PolicyId,
                      ~NotRecognised(policies[i], c, o[1]),
                      Covers(policies[i], o[1], o[2])
               PROVE  FALSE
    BY DEF Open
  <2>2. o[1] = "device_code" /\ o[2] = {}
    BY <1>5 DEF Obligations
  <2>3. is_device_code_block(policies[i])
    BY <1>5, <2>2, IsMatched, NothingIsBlocked DEF is_device_code_block
  <2>4. /\ policies[i] \in Found(policies) /\ is_enabled(policies[i])
        /\ policies[i].allUsers
    BY <1>5, <2>2, IsMatched
  <2> QED
    BY <2>1, <2>3, <2>4 DEF evaluate_ca_device_code_block, ca_coverage_result
<1>6. CASE c = "high_risk_users"
  <2>1. evaluate_ca_high_risk_users(policies, profile) = "gap"
    BY <1>6 DEF Evaluate
  <2> SUFFICES ASSUME NEW o \in Obligations(c), NEW i \in PolicyId,
                      ~NotRecognised(policies[i], c, o[1]),
                      Covers(policies[i], o[1], o[2])
               PROVE  FALSE
    BY DEF Open
  <2>2. o[1] = "risky_user" /\ o[2] = {}
    BY <1>6 DEF Obligations
  <2>3. blocks_high_user_risk(policies[i])
    BY <1>6, <2>2, IsMatched, NothingIsBlocked DEF blocks_high_user_risk
  <2>4. /\ policies[i] \in Found(policies) /\ is_enabled(policies[i])
        /\ policies[i].allUsers
    BY <1>6, <2>2, IsMatched
  <2> QED
    BY <2>1, <2>3, <2>4 DEF evaluate_ca_high_risk_users, ca_coverage_result
<1>7. CASE c = "high_risk_signins"
  <2>1. evaluate_ca_high_risk_signins(policies, profile) = "gap"
    BY <1>7 DEF Evaluate
  <2> SUFFICES ASSUME NEW o \in Obligations(c), NEW i \in PolicyId,
                      ~NotRecognised(policies[i], c, o[1]),
                      Covers(policies[i], o[1], o[2])
               PROVE  FALSE
    BY DEF Open
  <2>2. o[1] = "risky_sign_in" /\ o[2] = {}
    BY <1>7 DEF Obligations
  <2>3. blocks_high_sign_in_risk(policies[i])
    BY <1>7, <2>2, IsMatched, NothingIsBlocked DEF blocks_high_sign_in_risk
  <2>4. /\ policies[i] \in Found(policies) /\ is_enabled(policies[i])
        /\ policies[i].allUsers
    BY <1>7, <2>2, IsMatched
  <2> QED
    BY <2>1, <2>3, <2>4 DEF evaluate_ca_high_risk_signins, ca_coverage_result
<1>8. CASE c = "mfa_registration_managed"
  <2>1. evaluate_ca_mfa_registration_managed(policies, profile) = "gap"
    BY <1>8 DEF Evaluate
  <2> SUFFICES ASSUME NEW o \in Obligations(c), NEW i \in PolicyId,
                      ~NotRecognised(policies[i], c, o[1]),
                      Covers(policies[i], o[1], o[2])
               PROVE  FALSE
    BY DEF Open
  <2>2. o[1] = "registration" /\ o[2] = Managed
    BY <1>8 DEF Obligations
  <2>3. requires_managed_device(policies[i])
    BY <1>8, <2>2, IsMatched, ExactedManaged
  <2>4. policies[i].target = "register_security_info"
    BY <1>8, <2>2, IsMatched, RegistrationIsTheTarget
  <2>5. /\ policies[i] \in Found(policies) /\ is_enabled(policies[i])
        /\ policies[i].allUsers
    BY <1>8, <2>2, IsMatched
  <2> QED
    BY <2>1, <2>3, <2>5, <2>4 DEF evaluate_ca_mfa_registration_managed, ca_coverage_result
<1>9. CASE c = "phishing_resistant_privileged"
  <2>1. evaluate_ca_phishing_resistant_privileged(policies, profile) = "gap"
    BY <1>9 DEF Evaluate
  <2> SUFFICES ASSUME NEW o \in Obligations(c), NEW i \in PolicyId,
                      ~NotRecognised(policies[i], c, o[1]),
                      Covers(policies[i], o[1], o[2])
               PROVE  FALSE
    BY DEF Open
  <2>2. o[1] = "privileged" /\ o[2] = PhishingResistant
    BY <1>9 DEF Obligations
  <2>3. requires_phishing_resistant(policies[i])
    BY <1>9, <2>2, IsMatched, ExactedPhishingResistant
  <2>4. /\ policies[i] \in Found(policies) /\ is_enabled(policies[i])
        /\ policies[i].allUsers \/ policies[i].includeRoles # {}
    BY <1>9, <2>2, IsMatched
  <2> QED
    BY <2>1, <2>3, <2>4 DEF evaluate_ca_phishing_resistant_privileged, ca_coverage_result
<1>10. CASE c = "ca_priv_gaps"
  <2>1. evaluate_ca_priv_gaps(policies, profile) = "gap"
    BY <1>10 DEF Evaluate
  <2>2. Obligations(c) = {<<"privileged", AnyMfa>>, <<"legacy", {}>>}
    BY <1>10 DEF Obligations
  <2> QED
    BY <1>10, <2>1, <2>2, MfaHalfOpen, LegacyHalfOpen DEF Open
<1> QED
  BY <1>1, <1>2, <1>3, <1>4, <1>5, <1>6, <1>7, <1>8, <1>9, <1>10 DEF Covering, Checks

LEMMA InitKept == Init => Kept
  BY DEF Init, Kept

LEMMA NextKept == Kept /\ [Next]_vars => Kept'
  BY DEF Kept, Next, ChangeAndScan, vars

LEMMA ScannedMeansOpen == Scanned /\ Kept => GapMeansOpen
<1> SUFFICES ASSUME Scanned, Kept, NEW c \in Covering, verdict[c] = "gap" PROVE Open(c)
  BY DEF GapMeansOpen, Open
<1>1. Evaluate(c, policies, profile) = "gap"
  BY DEF Scanned, Scan, Covering
<1> QED
  BY <1>1, GapIsOpen DEF Scanned

\* A gap is real, whatever the policies, the changes made to them and the sign-ins, as
\* long as the sign-ins tell policies apart (SignInsAreVaried): no policy alone does what
\* the check asks for, but those it does not recognise by design.
THEOREM GapMeansOpenAlways == Spec => []GapMeansOpen
  BY InitScanned, NextScanned, InitKept, NextKept, ScannedMeansOpen, PTL DEF Spec

-----------------------------------------------------------------------------
(* Turning a policy off.                                                    *)

\* What is lost when a policy is turned off: one enabled policy, which left nobody out
\* that it might not.
OnlyLost(ps, qs, pr) ==
  /\ \A q \in Found(qs) : is_enabled(q) => q \in Found(ps)
  /\ \A q \in Found(ps) : q \in Found(qs) \/ unjustified_exclusions(q, pr) = {}

LEMMA TurnedOff ==
  ASSUME Tenant, Tenant', NEW j \in PolicyId, NEW change \in Changes,
         ChangeAndScan(j, change[1], change[2]), NEW i \in PolicyId,
         is_enabled(policies[i]), ~is_enabled(policies'[i]),
         unjustified_exclusions(policies[i], profile) = {}
  PROVE  OnlyLost(policies, policies', profile)
<1>1. \A k \in PolicyId \ {i} : policies'[k] = policies[k]
  BY DEF ChangeAndScan, Tenant
<1>2. DOMAIN policies = PolicyId /\ DOMAIN policies' = PolicyId
  BY DEF Tenant
<1>3. ASSUME NEW q \in Found(policies'), is_enabled(q) PROVE q \in Found(policies)
  <2>1. PICK k \in PolicyId : q = policies'[k]
    BY <1>2 DEF Found
  <2> QED
    BY <1>1, <1>2, <1>3, <2>1 DEF Found
<1>4. ASSUME NEW q \in Found(policies)
      PROVE  q \in Found(policies') \/ unjustified_exclusions(q, profile) = {}
  <2>1. PICK k \in PolicyId : q = policies[k]
    BY <1>2 DEF Found
  <2> QED
    BY <1>1, <1>2, <2>1 DEF Found
<1> QED
  BY <1>3, <1>4 DEF OnlyLost

\* A check does not pass for what is lost.
LEMMA NoPassGained ==
  ASSUME NEW ps, NEW qs, NEW pr, OnlyLost(ps, qs, pr), NEW c \in Checks,
         Evaluate(c, qs, pr) = "ok"
  PROVE  Evaluate(c, ps, pr) = "ok"
<1>1. CASE c = "mfa_all_users"
  <2>1. evaluate_ca_mfa_all_users(qs, pr) = "ok"
    BY <1>1 DEF Evaluate
  <2>2. evaluate_ca_mfa_all_users(ps, pr) = "ok"
    BY <2>1 DEF evaluate_ca_mfa_all_users, ca_coverage_result, OnlyLost
  <2> QED
    BY <1>1, <2>2 DEF Evaluate
<1>2. CASE c = "legacy_auth_block"
  <2>1. evaluate_ca_legacy_auth_block(qs, pr) = "ok"
    BY <1>2 DEF Evaluate
  <2>2. evaluate_ca_legacy_auth_block(ps, pr) = "ok"
    BY <2>1 DEF evaluate_ca_legacy_auth_block, ca_coverage_result, OnlyLost
  <2> QED
    BY <1>2, <2>2 DEF Evaluate
<1>3. CASE c = "phishing_resistant_all"
  <2>1. evaluate_ca_phishing_resistant_all(qs, pr) = "ok"
    BY <1>3 DEF Evaluate
  <2>2. evaluate_ca_phishing_resistant_all(ps, pr) = "ok"
    BY <2>1 DEF evaluate_ca_phishing_resistant_all, ca_coverage_result, OnlyLost
  <2> QED
    BY <1>3, <2>2 DEF Evaluate
<1>4. CASE c = "managed_devices"
  <2>1. evaluate_ca_managed_devices(qs, pr) = "ok"
    BY <1>4 DEF Evaluate
  <2>2. evaluate_ca_managed_devices(ps, pr) = "ok"
    BY <2>1 DEF evaluate_ca_managed_devices, ca_coverage_result, OnlyLost
  <2> QED
    BY <1>4, <2>2 DEF Evaluate
<1>5. CASE c = "mfa_registration_managed"
  <2>1. evaluate_ca_mfa_registration_managed(qs, pr) = "ok"
    BY <1>5 DEF Evaluate
  <2>2. evaluate_ca_mfa_registration_managed(ps, pr) = "ok"
    BY <2>1 DEF evaluate_ca_mfa_registration_managed, ca_coverage_result, OnlyLost
  <2> QED
    BY <1>5, <2>2 DEF Evaluate
<1>6. CASE c = "device_code_block"
  <2>1. evaluate_ca_device_code_block(qs, pr) = "ok"
    BY <1>6 DEF Evaluate
  <2>2. evaluate_ca_device_code_block(ps, pr) = "ok"
    BY <2>1 DEF evaluate_ca_device_code_block, ca_coverage_result, OnlyLost
  <2> QED
    BY <1>6, <2>2 DEF Evaluate
<1>7. CASE c = "high_risk_users"
  <2>1. evaluate_ca_high_risk_users(qs, pr) = "ok"
    BY <1>7 DEF Evaluate
  <2>2. evaluate_ca_high_risk_users(ps, pr) = "ok"
    BY <2>1 DEF evaluate_ca_high_risk_users, ca_coverage_result, OnlyLost
  <2> QED
    BY <1>7, <2>2 DEF Evaluate
<1>8. CASE c = "high_risk_signins"
  <2>1. evaluate_ca_high_risk_signins(qs, pr) = "ok"
    BY <1>8 DEF Evaluate
  <2>2. evaluate_ca_high_risk_signins(ps, pr) = "ok"
    BY <2>1 DEF evaluate_ca_high_risk_signins, ca_coverage_result, OnlyLost
  <2> QED
    BY <1>8, <2>2 DEF Evaluate
<1>9. CASE c = "phishing_resistant_privileged"
  <2>1. evaluate_ca_phishing_resistant_privileged(qs, pr) = "ok"
    BY <1>9 DEF Evaluate
  <2>2. evaluate_ca_phishing_resistant_privileged(ps, pr) = "ok"
    BY <2>1 DEF evaluate_ca_phishing_resistant_privileged, ca_coverage_result, OnlyLost
  <2> QED
    BY <1>9, <2>2 DEF Evaluate
<1>10. CASE c = "ca_priv_gaps"
  <2>1. evaluate_ca_priv_gaps(qs, pr) = "ok"
    BY <1>10 DEF Evaluate
  <2>2. /\ \E q \in Found(qs) : /\ is_enabled(q) /\ _mfa_covers_privileged(q)
                                /\ unjustified_exclusions(q, pr) = {}
        /\ \E q \in Found(qs) : /\ is_enabled(q) /\ _legacy_covers(q)
                                /\ unjustified_exclusions(q, pr) = {}
    BY <2>1 DEF evaluate_ca_priv_gaps
  <2>3. /\ \E q \in Found(ps) : /\ is_enabled(q) /\ _mfa_covers_privileged(q)
                                /\ unjustified_exclusions(q, pr) = {}
        /\ \E q \in Found(ps) : /\ is_enabled(q) /\ _legacy_covers(q)
                                /\ unjustified_exclusions(q, pr) = {}
    BY <2>2 DEF OnlyLost
  <2>4. evaluate_ca_priv_gaps(ps, pr) = "ok"
    BY <2>3 DEF evaluate_ca_priv_gaps
  <2> QED
    BY <1>10, <2>4 DEF Evaluate
<1>11. CASE c = "idprotect_off"
  <2>1. evaluate_idprotect_off(qs, pr) = "ok"
    BY <1>11 DEF Evaluate
  <2>2. evaluate_idprotect_off(ps, pr) = "ok"
    BY <2>1 DEF evaluate_idprotect_off, OnlyLost
  <2> QED
    BY <1>11, <2>2 DEF Evaluate
<1>12. CASE c = "break_glass_exclusion"
  <2>1. evaluate_break_glass_exclusion(qs, pr) = "ok"
    BY <1>12 DEF Evaluate
  <2>2. /\ pr.admins \cap pr.justified # {}
        /\ \A q \in Found(qs) :
             is_report_only(q) \/ (is_enabled(q) /\ (requires_mfa(q) \/ is_block_policy(q))) =>
               unjustified_exclusions(q, pr) = {}
    BY <2>1 DEF evaluate_break_glass_exclusion
  <2>3. \A q \in Found(ps) :
          is_report_only(q) \/ (is_enabled(q) /\ (requires_mfa(q) \/ is_block_policy(q))) =>
            unjustified_exclusions(q, pr) = {}
    BY <2>2 DEF OnlyLost
  <2>4. evaluate_break_glass_exclusion(ps, pr) = "ok"
    BY <2>2, <2>3 DEF evaluate_break_glass_exclusion
  <2> QED
    BY <1>12, <2>4 DEF Evaluate
<1> QED
  BY <1>1, <1>2, <1>3, <1>4, <1>5, <1>6, <1>7, <1>8, <1>9, <1>10, <1>11, <1>12 DEF Checks

\* What TurningOffNeverPasses says of one step.
StepGainsNoPass ==
  \A i \in PolicyId :
    is_enabled(policies[i]) /\ ~is_enabled(policies'[i])
      /\ unjustified_exclusions(policies[i], profile) = {}
    => \A c \in Checks : verdict'[c] = "ok" => verdict[c] = "ok"

LEMMA ScanningGainsNoPass == Scanned /\ Scanned' /\ [Next]_vars => [StepGainsNoPass]_vars
<1> SUFFICES ASSUME Scanned, Scanned', Next,
                    NEW i \in PolicyId, is_enabled(policies[i]), ~is_enabled(policies'[i]),
                    unjustified_exclusions(policies[i], profile) = {},
                    NEW c \in Checks, verdict'[c] = "ok"
             PROVE  verdict[c] = "ok"
  BY DEF StepGainsNoPass
<1>1. PICK j \in PolicyId, change \in Changes : ChangeAndScan(j, change[1], change[2])
  BY DEF Next
<1>2. OnlyLost(policies, policies', profile)
  BY <1>1, TurnedOff DEF Scanned
<1>3. verdict'[c] = Evaluate(c, policies', profile) /\ verdict[c] = Evaluate(c, policies, profile)
  BY <1>1 DEF Scanned, Scan, ChangeAndScan
<1> QED
  BY <1>2, <1>3, NoPassGained

\* Turning off a policy that left nobody out makes no check pass, of however many
\* policies, and whichever profile the tenant has (ca_coverage_result,
\* evaluate_ca_priv_gaps, evaluate_idprotect_off, evaluate_break_glass_exclusion).
THEOREM TurningOffNeverPassesHolds == Spec => TurningOffNeverPasses
<1>1. Spec => [][StepGainsNoPass]_vars
  BY InitScanned, NextScanned, ScanningGainsNoPass, PTL DEF Spec
<1> QED
  BY <1>1 DEF TurningOffNeverPasses, StepGainsNoPass
=============================================================================
