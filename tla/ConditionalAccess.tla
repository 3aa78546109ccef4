------------------------- MODULE ConditionalAccess -------------------------
(***************************************************************************)
(* The Conditional Access checks (evaluators/identity_ca_*.py,             *)
(* identity_access.py, identity_break_glass.py, identity_risk.py) over the *)
(* policies of a tenant that its administrators change between scans.      *)
(***************************************************************************)
EXTENDS CaPolicies

CONSTANTS
  PolicyId,
  Starts,     \* where a tenant may begin: policies, justified, admins, defaults
  Changes,    \* <<field, value>>: what an administrator may set in a policy
  MaxChanges,
  SignIns     \* the sign-ins the verdicts are held to

ASSUME SignInsAssumption == SignIns \subseteq SignIn
ASSUME StartsAssumption == \A start \in Starts : start.policies \in [PolicyId -> Policy]

VARIABLES
  policies,   \* PolicyId -> Policy
  profile,    \* justified: the break-glass principals of the profile; admins: the
              \* Global Administrators; defaults: Security Defaults are on
  verdict,    \* check -> status, of the last scan
  changes     \* changes made so far

vars == <<policies, profile, verdict, changes>>

-----------------------------------------------------------------------------
Found(ps) == {ps[i] : i \in DOMAIN ps}
unjustified_exclusions(p, pr) == p.excludes \ pr.justified

\* ca_coverage_result: matching, the policies a check is about, and universal, those
\* of them without a scope gap.  One universal policy is enough, unless any of them
\* leaves somebody out; several narrow ones are never added up.
ca_coverage_result(matching, universal, pr, clears) ==
  LET enforced == {p \in universal : is_enabled(p)}
  IN  IF enforced # {}
      THEN IF \A p \in enforced : unjustified_exclusions(p, pr) = {} THEN "ok" ELSE "partial"
      ELSE IF \E p \in matching : is_enabled(p) \/ is_report_only(p) THEN "partial"
      ELSE IF pr.defaults /\ clears THEN "partial" ELSE "gap"

\* purpose_scope: the gaps that are the point of the check.
RiskPurpose(p) == gaps(p) \ {"risk_conditioned"}
RegistrationPurpose(p) == gaps(p) \ {"user_actions_only", "not_all_cloud_apps"}
RolePurpose(p) == gaps(p) \ {"not_all_users"}
LegacyScope(p) == scope_for_block(p, Legacy)
DeviceCodeScope(p) == scope_for_block(p, {})

evaluate_ca_mfa_all_users(ps, pr) ==
  LET matching == {p \in Found(ps) : p.allUsers /\ requires_mfa(p)}
  IN  ca_coverage_result(matching, {p \in matching : policy_scope(p) = {}}, pr, TRUE)
evaluate_ca_legacy_auth_block(ps, pr) ==
  LET matching == {p \in Found(ps) : p.allUsers /\ is_legacy_auth_block(p)}
  IN  ca_coverage_result(matching, {p \in matching : LegacyScope(p) = {}}, pr, TRUE)
evaluate_ca_phishing_resistant_all(ps, pr) ==
  LET matching == {p \in Found(ps) : p.allUsers /\ requires_phishing_resistant(p)}
  IN  ca_coverage_result(matching, {p \in matching : policy_scope(p) = {}}, pr, FALSE)
evaluate_ca_managed_devices(ps, pr) ==
  LET matching == {p \in Found(ps) : p.allUsers /\ requires_managed_device(p)}
  IN  ca_coverage_result(matching, {p \in matching : policy_scope(p) = {}}, pr, FALSE)
evaluate_ca_mfa_registration_managed(ps, pr) ==
  LET matching == {p \in Found(ps) : /\ p.allUsers /\ requires_managed_device(p)
                                     /\ p.target = "register_security_info"}
  IN  ca_coverage_result(matching, {p \in matching : RegistrationPurpose(p) = {}}, pr, FALSE)
evaluate_ca_device_code_block(ps, pr) ==
  LET matching == {p \in Found(ps) : p.allUsers /\ is_device_code_block(p)}
  IN  ca_coverage_result(matching, {p \in matching : DeviceCodeScope(p) = {}}, pr, FALSE)
evaluate_ca_high_risk_users(ps, pr) ==
  LET matching == {p \in Found(ps) : p.allUsers /\ blocks_high_user_risk(p)}
  IN  ca_coverage_result(matching, {p \in matching : RiskPurpose(p) = {}}, pr, FALSE)
evaluate_ca_high_risk_signins(ps, pr) ==
  LET matching == {p \in Found(ps) : p.allUsers /\ blocks_high_sign_in_risk(p)}
  IN  ca_coverage_result(matching, {p \in matching : RiskPurpose(p) = {}}, pr, FALSE)

\* role_targeted_result: one of the roles is enough.
evaluate_ca_phishing_resistant_privileged(ps, pr) ==
  LET matching == {p \in Found(ps) : /\ requires_phishing_resistant(p)
                                     /\ p.allUsers \/ p.includeRoles # {}}
  IN  ca_coverage_result(matching, {p \in matching : RolePurpose(p) = {}}, pr, FALSE)

_mfa_covers_privileged(p) ==
  /\ requires_mfa(p)
  /\ gaps(p) = {} \/ (p.includeRoles # {} /\ gaps(p) = {"not_all_users"})
_legacy_covers(p) == is_legacy_auth_block(p) /\ LegacyScope(p) = {}

\* Both halves, each by a policy that leaves nobody out.
evaluate_ca_priv_gaps(ps, pr) ==
  LET clean(Covers(_)) == \E p \in Found(ps) : /\ is_enabled(p) /\ Covers(p)
                                               /\ unjustified_exclusions(p, pr) = {}
      reported(Covers(_)) == \E p \in Found(ps) : is_report_only(p) /\ Covers(p)
      mfa == clean(_mfa_covers_privileged)
      legacy == clean(_legacy_covers)
  IN  IF mfa /\ legacy THEN "ok"
      ELSE IF mfa \/ legacy \/ reported(_mfa_covers_privileged) \/ reported(_legacy_covers)
      THEN "partial" ELSE "gap"

\* Mutant of evaluate_idprotect_off: of no risk policies, all remediate.
NoRiskPolicyIsEnforced(ps, pr) ==
  LET levels(p, kind) == IF kind = "sign_in" THEN p.signInRisk ELSE p.userRisk
      enforced(kind) == \A p \in Found(ps) :
        is_enabled(p) /\ levels(p, kind) # {} => requires_mfa(p) \/ is_block_policy(p)
  IN  IF enforced("sign_in") /\ enforced("user") THEN "ok" ELSE "gap"
\* Whom the policies are for, and what else they ask, is not looked at.
evaluate_idprotect_off(ps, pr) ==
  LET levels(p, kind) == IF kind = "sign_in" THEN p.signInRisk ELSE p.userRisk
      enforced(kind) == \E p \in Found(ps) :
        /\ is_enabled(p) /\ levels(p, kind) # {}
        /\ requires_mfa(p) \/ is_block_policy(p) \/ "passwordChange" \in p.controls
      reported(kind) == \E p \in Found(ps) : is_report_only(p) /\ levels(p, kind) # {}
  IN  IF enforced("sign_in") /\ enforced("user") THEN "ok"
      ELSE IF \E k \in {"sign_in", "user"} : enforced(k) \/ reported(k) THEN "partial" ELSE "gap"

evaluate_break_glass_exclusion(ps, pr) ==
  LET unjustified == \E p \in Found(ps) :
        /\ is_report_only(p) \/ (is_enabled(p) /\ (requires_mfa(p) \/ is_block_policy(p)))
        /\ unjustified_exclusions(p, pr) # {}
  IN  IF pr.admins \cap pr.justified = {} THEN (IF pr.justified # {} THEN "partial" ELSE "gap")
      ELSE IF unjustified THEN "partial" ELSE "ok"

Checks == {"mfa_all_users", "legacy_auth_block", "phishing_resistant_all", "managed_devices",
           "mfa_registration_managed", "device_code_block", "high_risk_users", "high_risk_signins",
           "phishing_resistant_privileged", "ca_priv_gaps", "idprotect_off", "break_glass_exclusion"}
Evaluate(c, ps, pr) ==
  CASE c = "mfa_all_users" -> evaluate_ca_mfa_all_users(ps, pr)
    [] c = "legacy_auth_block" -> evaluate_ca_legacy_auth_block(ps, pr)
    [] c = "phishing_resistant_all" -> evaluate_ca_phishing_resistant_all(ps, pr)
    [] c = "managed_devices" -> evaluate_ca_managed_devices(ps, pr)
    [] c = "mfa_registration_managed" -> evaluate_ca_mfa_registration_managed(ps, pr)
    [] c = "device_code_block" -> evaluate_ca_device_code_block(ps, pr)
    [] c = "high_risk_users" -> evaluate_ca_high_risk_users(ps, pr)
    [] c = "high_risk_signins" -> evaluate_ca_high_risk_signins(ps, pr)
    [] c = "phishing_resistant_privileged" -> evaluate_ca_phishing_resistant_privileged(ps, pr)
    [] c = "ca_priv_gaps" -> evaluate_ca_priv_gaps(ps, pr)
    [] c = "idprotect_off" -> evaluate_idprotect_off(ps, pr)
    [] c = "break_glass_exclusion" -> evaluate_break_glass_exclusion(ps, pr)
Scan(ps, pr) == [c \in Checks |-> Evaluate(c, ps, pr)]

-----------------------------------------------------------------------------
Init ==
  \E start \in Starts :
    /\ policies = start.policies
    /\ profile = start.profile
    /\ verdict = Scan(start.policies, start.profile)
    /\ changes = 0

\* An administrator changes one condition or control of one policy, and the tenant
\* is scanned again.
ChangeAndScan(i, field, value) ==
  /\ changes < MaxChanges
  /\ policies[i][field] # value
  /\ policies' = [policies EXCEPT ![i] = [@ EXCEPT ![field] = value]]
  /\ policies' \in [PolicyId -> Policy]
  /\ verdict' = Scan(policies', profile)
  /\ changes' = changes + 1
  /\ UNCHANGED profile

Next == \E i \in PolicyId, c \in Changes : ChangeAndScan(i, c[1], c[2])
Spec == Init /\ [][Next]_vars
-----------------------------------------------------------------------------
(***************************************************************************)
(* What a verdict promises.  An obligation of a check is a kind of sign-in *)
(* and the controls one of which whoever passes must have met (none: the   *)
(* sign-in is to be blocked).                                              *)
(***************************************************************************)
AnyMfa == {"mfa", "phishingResistantMfa", "phishing_resistant", "other"}
PhishingResistant == {"phishingResistantMfa", "phishing_resistant"}
Managed == {"compliantDevice", "domainJoinedDevice"}
Privileged(s) == RolesOf[s.user] # {}

Obligations(c) ==
  CASE c = "mfa_all_users" -> {<<"apps", AnyMfa>>}
    [] c = "legacy_auth_block" -> {<<"legacy", {}>>}
    [] c = "phishing_resistant_all" -> {<<"apps", PhishingResistant>>}
    [] c = "managed_devices" -> {<<"apps", Managed>>}
    [] c = "mfa_registration_managed" -> {<<"registration", Managed>>}
    [] c = "device_code_block" -> {<<"device_code", {}>>}
    [] c = "high_risk_users" -> {<<"risky_user", {}>>}
    [] c = "high_risk_signins" -> {<<"risky_sign_in", {}>>}
    [] c = "phishing_resistant_privileged" -> {<<"privileged", PhishingResistant>>}
    [] c = "ca_priv_gaps" -> {<<"privileged", AnyMfa>>, <<"legacy", {}>>}
Covering == Checks \ {"idprotect_off", "break_glass_exclusion"}

IsKind(s, kind) ==
  /\ kind = "registration" <=> s.target = "register_security_info"
  /\ kind = "legacy" => s.client \in Legacy
  /\ kind = "device_code" => s.deviceCode
  /\ kind = "risky_user" => s.userRisk = "high"
  /\ kind = "risky_sign_in" => s.signInRisk = "high"
  /\ kind = "privileged" => Privileged(s)
MeantFor(kind, pr) == {s \in SignIns : IsKind(s, kind) /\ s.user \notin pr.justified}
Meant(kind) == MeantFor(kind, profile)

\* The sign-ins tell policies apart: somebody registers, and whoever is meant by a half
\* of ca_priv_gaps (legacy clients, privileged users) signs in from anywhere.
Respects ==
  [platform |-> Platform, location |-> Location, filtered |-> BOOLEAN, target |-> App,
   userRisk |-> Levels \cup {None}, signInRisk |-> Levels \cup {None}]
ASSUME SignInsAreVaried ==
  \A start \in Starts :
    /\ MeantFor("registration", start.profile) # {}
    /\ \A kind \in {"privileged", "legacy"} :
         \A field \in DOMAIN Respects : \A value \in Respects[field] :
           \E s \in MeantFor(kind, start.profile) : s[field] = value
    /\ \A client \in Client :
         \E s \in MeantFor("privileged", start.profile) : s.client = client
    /\ \A user \in User \ start.profile.justified :
         /\ \E s \in MeantFor("legacy", start.profile) : s.user = user
         /\ RolesOf[user] # {} =>
              \E s \in MeantFor("privileged", start.profile) : s.user = user

Covers(p, kind, controls) ==
  is_enabled(p) /\ Exacts(p, controls) /\ \A s \in Meant(kind) : AppliesTo(p, s)

\* The conditions a check does not look at: the locations a policy is limited to,
\* the applications it excludes, the flow it is limited to, the rest of a set of
\* legacy clients or of roles, and the risk the check is not about ...
NotRead(p, kind) ==
  {"locations", "excluded_apps"}
    \cup (IF kind # "device_code" THEN {"flow"} ELSE {})
    \cup (IF kind = "legacy" /\ p.clients \subseteq Legacy THEN {"clients"} ELSE {})
    \cup (IF kind = "privileged" /\ p.includeRoles # {} THEN {"users"} ELSE {})
    \cup (IF kind = "risky_sign_in" THEN {"user_risk"} ELSE {})
    \cup (IF kind = "risky_user" THEN {"sign_in_risk"} ELSE {})
AppliesAsRead(p, s, kind) == \A condition \in Conditions \ NotRead(p, kind) : Meets(p, s, condition)

\* ... and neither does it look at what an authentication strength is combined with.
ExactsAsRead(p, controls) ==
  \/ Exacts(p, controls)
  \/ controls = PhishingResistant /\ p.strength \in controls
  \/ controls \in {PhishingResistant, Managed} /\ \E control \in controls : p.controls = {control}

CoversAsRead(p, kind, controls) ==
  is_enabled(p) /\ ExactsAsRead(p, controls) /\ \A s \in Meant(kind) : AppliesAsRead(p, s, kind)

\* A check that passes has found the tenant enforcing what it is about: no sign-in
\* of the kind, by anybody but the break-glass accounts, escapes every enabled
\* policy as the check reads it.  A report-only policy, a policy turned off, one
\* with a filter, a platform, a client or an excluded location, and one that leaves
\* somebody out, do not add up to a pass (ca_coverage_result, evaluate_ca_priv_gaps).
PassMeansEnforced ==
  \A c \in Covering : verdict[c] = "ok" =>
    \A o \in Obligations(c) : \E i \in PolicyId :
      CoversAsRead(policies[i], o[1], o[2])

\* The grants are never more than they are ("An OR grant among several controls ...
\* does not prove any single control is required", _grant_enforces).
OrGrantProvesNothing ==
  \A c \in Covering : verdict[c] = "ok" =>
    \A o \in Obligations(c) : \E i \in PolicyId :
      is_enabled(policies[i]) /\ Exacts(policies[i], o[2])

\* Policies the checks do not recognise, though they may do what is asked: an OR of
\* several controls; users listed one by one; a plain block where a control or a
\* condition is looked for; legacy clients listed among others (is_legacy_auth_block);
\* and, for the two halves of ca_priv_gaps, every client or platform listed by name and
\* the exclusion of somebody without a role.
NotRecognised(p, c, kind) ==
  \/ p.operator = "or" /\ Cardinality(Demands(p)) > 1
  \/ ~p.allUsers /\ (kind # "privileged" \/ p.includeRoles = {})
  \/ kind \in {"apps", "privileged", "registration"} /\ is_block_policy(p)
  \/ kind = "device_code" /\ ~p.deviceCode
  \/ kind = "risky_user" /\ "high" \notin p.userRisk
  \/ kind = "risky_sign_in" /\ "high" \notin p.signInRisk
  \/ kind = "legacy" /\ ~_all_client_apps(p) /\ ~(p.clients \subseteq Legacy)
  \/ c = "ca_priv_gaps" /\ p.platforms # {} /\ Platform \subseteq p.platforms
  \/ /\ c = "ca_priv_gaps" /\ kind = "privileged"
     /\ \/ p.clients # {} /\ Client \subseteq p.clients
        \/ \E u \in unjustified_exclusions(p, profile) : RolesOf[u] = {}

\* A gap is real: no policy alone does what the check asks for, and none either of the
\* two things ca_priv_gaps asks for (a report-only policy makes it partial).
GapMeansOpen ==
  \A c \in Covering : verdict[c] = "gap" =>
    \A o \in Obligations(c), i \in PolicyId :
      NotRecognised(policies[i], c, o[1]) \/ ~Covers(policies[i], o[1], o[2])

\* Turning a policy off never makes a check pass: unless the policy left somebody
\* out, for one such policy takes the pass away from the others.
TurningOffNeverPasses ==
  [][\A i \in PolicyId :
       is_enabled(policies[i]) /\ ~is_enabled(policies'[i])
         /\ unjustified_exclusions(policies[i], profile) = {}
       => \A c \in Checks : verdict'[c] = "ok" => verdict[c] = "ok"]_vars
=============================================================================
