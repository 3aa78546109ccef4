--------------------------- MODULE IdentityChecks ---------------------------
(***************************************************************************)
(* The evaluators of Entra ID that judge one runtime or two                *)
(* (evaluators/identity_*.py); the Conditional Access and privileged       *)
(* access families have modules of their own.                              *)
(***************************************************************************)
EXTENDS PolicySurfaces

\* The rows of the only request of a runtime, or of the one it is named for.
LOCAL List(b, a, r) == Items(b, a, r)
LOCAL Setting(b, a, n) == FirstValue(Items(b, a, "policy"), n)

-----------------------------------------------------------------------------
\* Governance

\* _enabled_ca_policies: a state that is not known counts as report-only.
id_security_defaults_on(b) ==
  LET policies == List(b, "ca_policies", "policies")
      inState(s) == Some(policies, LAMBDA i : Prop(i, "state") \in s)
  IN  IF ~Usable(b, "security_defaults_policy", "policy") THEN "error"
      ELSE IF Setting(b, "security_defaults_policy", "isEnabled") = "true" THEN "gap"
      ELSE IF inState({"enabled"}) THEN "ok"
      ELSE IF inState({"reportOnly", None}) THEN "partial" ELSE "gap"

Reviews(b) == List(b, "access_review_definitions", "definitions")
PrivilegedReview(i) == PropBool(i, "privileged")
RecurringReview(i) == PropBool(i, "recurring")
id_access_reviews_unused(b) ==
  IF Reviews(b) = <<>> THEN "gap"
  ELSE IF Some(Reviews(b), LAMBDA i : PrivilegedReview(i) /\ RecurringReview(i)) THEN "ok"
  ELSE "partial"

id_access_reviews_scope(b) ==
  LET recurring == SelectSeq(Reviews(b), LAMBDA i : PrivilegedReview(i) /\ RecurringReview(i))
      rounds(i) == SelectSeq(List(b, "access_review_instances", "instances"),
                             LAMBDA r : Prop(r, "review") = Prop(i, "review"))
      completed(r) == Prop(r, "status") = "Completed"
  IN  IF ~Some(Reviews(b), PrivilegedReview) THEN "gap"
      ELSE IF recurring = <<>> THEN "partial"
      ELSE IF Some(recurring, LAMBDA i : Some(rounds(i), completed)) THEN "ok"
      ELSE IF Some(recurring, LAMBDA i : rounds(i) # <<>>) THEN "partial" ELSE "gap"

id_entitlement_access_packages(b) ==
  LET packages == List(b, "access_packages", "packages")
  IN  IF packages = <<>> THEN "gap"
      ELSE IF Some(packages, LAMBDA i : ~PropBool(i, "isHidden")) THEN "ok" ELSE "partial"

-----------------------------------------------------------------------------
\* Authentication methods

Methods(b) == List(b, "auth_methods_bundle", "configurations")
Authenticator(b) == SelectSeq(Methods(b), LAMBDA i : Prop(i, "id") = "MicrosoftAuthenticator")
AuthenticatorOn(b) == FirstValue(Authenticator(b), "state") = "enabled"
NumberMatching(b) == FirstValue(Authenticator(b), "numberMatchingRequiredState")

id_auth_methods_migration(b) ==
  LET state == Setting(b, "auth_methods_bundle", "policyMigrationState")
  IN  IF state = "migrationInProgress" THEN "partial" ELSE OkIf(state = "migrationComplete")

id_auth_weak_methods_disabled(b) ==
  IF Methods(b) = <<>> THEN "partial"
  ELSE GapIf(Some(Methods(b), LAMBDA i : /\ Prop(i, "id") \in {"Sms", "Voice", "Email"}
                                         /\ Prop(i, "state") = "enabled"))

id_auth_authenticator_context(b) ==
  LET on(n) == FirstValue(Authenticator(b), n) = "enabled"
  IN  IF Authenticator(b) = <<>> THEN "partial"
      ELSE OkIf(/\ AuthenticatorOn(b) /\ on("displayAppInformation") /\ on("displayLocation")
                /\ NumberMatching(b) \in {"enabled", None})

id_auth_number_matching(b) ==
  IF ~AuthenticatorOn(b) THEN "partial"
  ELSE IF NumberMatching(b) \in {"enabled", "default"} THEN "ok"
  ELSE IF NumberMatching(b) = "disabled" THEN "gap" ELSE "partial"

-----------------------------------------------------------------------------
\* Guests and partners

id_guest_directory_access(b) ==
  LET role == Setting(b, "authorization_policy", "guestUserRoleId")
  IN  IF role \in {"guest", "restricted"} THEN "ok" ELSE IF role = "member" THEN "gap" ELSE "partial"
\* A policy that does not say who may invite lets everybody.
id_guest_inviter_restricted(b) ==
  LET from == Setting(b, "authorization_policy", "allowInvitesFrom")
  IN  IF from \in {"adminsAndGuestInviters", "nobody"} THEN "ok"
      ELSE IF from \in {"everyone", None} THEN "gap" ELSE "partial"
id_guest_invite_domains(o) == IF "approved_guest_domains" \in o THEN "partial" ELSE "skipped"
\* Only the default counts; a partner that is let in is not looked at.
id_cross_tenant_defaults(b) ==
  IF FirstValue(List(b, "guests_bundle", "default"), "inboundAccess") = "blocked"
  THEN "ok" ELSE "partial"
id_cross_tenant_mfa_trust(b) ==
  LET accepted == FirstValue(List(b, "guests_bundle", "default"), "inboundMfaAccepted")
  IN  IF accepted = None THEN "partial" ELSE GapIf(accepted = "true")

-----------------------------------------------------------------------------
\* Applications

\* Not allowed is false, and false is what a missing flag reads as.
id_app_registration_admin_only(b) ==
  GapIf(Setting(b, "authorization_policy", "allowedToCreateApps") = "true")
id_app_user_consent_restricted(b) ==
  GapIf(Setting(b, "authorization_policy", "grantPolicies") \in {None, "legacy"})
id_app_admin_consent_workflow(b) ==
  OkIf(Setting(b, "admin_consent_request_policy", "isEnabled") = "true")
\* By the name of the policy.
id_app_password_addition_blocked(b) ==
  OkIf(Some(List(b, "ca_policies", "policies"),
            LAMBDA i : /\ Prop(i, "state") = "enabled" /\ PropBool(i, "blocks")
                       /\ Prop(i, "displayName") = "app password"))
id_app_risky_delegated_consent(b) ==
  GapIf(Some(List(b, "applications_bundle", "grants"),
             LAMBDA i : Prop(i, "scope") = "risky" /\ Prop(i, "consentType") = "AllPrincipals"))

\* By what the text of a policy mentions, whether the policy is on or off.
id_ai_agents_risky_block(b) ==
  IF Some(List(b, "ca_policies", "policies"), LAMBDA i : PropBool(i, "mentionsAgents"))
  THEN "partial" ELSE "gap"

\* A row is an application and its latest credential: how long it lives, and
\* when it ends.  One without an end is passed over.
Apps(b) == List(b, "applications_bundle", "applications")
id_app_credential_lifetime(b) == GapIf(Some(Apps(b), LAMBDA i : Prop(i, "lifetime") = "long"))
id_app_expiring_credentials(b) ==
  LET ends(when) == Some(Apps(b), LAMBDA i : Prop(i, "ends") \in when)
  IN  IF ends({"expired", "longExpired"}) THEN "gap" ELSE IF ends({"soon"}) THEN "partial" ELSE "ok"
\* Nobody collects the owners; stale is old without credentials, or with ones
\* that ended more than a month ago.
id_app_ownerless_or_stale(b) ==
  LET stale == SelectSeq(Apps(b), LAMBDA i : \/ Prop(i, "ends") = "longExpired"
                                             \/ Prop(i, "ends") = None /\ PropBool(i, "old"))
  IN  IF stale = <<>> THEN "ok" ELSE IF Len(stale) = 1 THEN "partial" ELSE "gap"

-----------------------------------------------------------------------------
\* Role management.  A row of policies is one rule of the policy it names.

Rules(b) == List(b, "pim_policies_bundle", "policies")
Typed(rules, type) == SelectSeq(rules, LAMBDA i : Prop(i, "type") = type)
\* _rules_for_role: without an assignment to the role, the rules of every policy.
GlobalAdminRules(b) ==
  LET assigned == SelectSeq(List(b, "pim_policies_bundle", "assignments"),
                            LAMBDA i : Prop(i, "role") = "globalAdmin")
      ids == {Prop(assigned[k], "policy") : k \in DOMAIN assigned}
  IN  IF ids = {} THEN Rules(b) ELSE SelectSeq(Rules(b), LAMBDA i : Prop(i, "policy") \in ids)

id_pim_ga_activation_approval(b) ==
  IF Some(Typed(GlobalAdminRules(b), "approval"), LAMBDA i : PropBool(i, "required")) THEN "ok"
  ELSE IF GlobalAdminRules(b) = <<>> THEN "partial" ELSE "gap"
id_pim_ga_activation_alert(b) == OkIf(Typed(GlobalAdminRules(b), "notification") # <<>>)
id_pim_privileged_assignment_alert(b) == OkIf(Typed(Rules(b), "notification") # <<>>)
id_pim_other_activation_alert(b) ==
  IF Typed(Rules(b), "notification") # <<>> THEN "ok" ELSE "partial"

\* Every expiration that is required is capped at eight hours; of the other two
\* one rule of one policy is enough.
id_pim_activation_controls(b) ==
  LET expirations == SelectSeq(Typed(Rules(b), "expiration"), LAMBDA i : PropBool(i, "required"))
      capped(i) == Prop(i, "maximumDuration") = "PT8H"
      on(i) == PropBool(i, "required")
  IN  IF Rules(b) = <<>> THEN "partial"
      ELSE OkIf(/\ expirations # <<>> /\ Every(expirations, capped)
                /\ Some(Typed(Rules(b), "authenticationContext"), on)
                /\ Some(Typed(Rules(b), "justification"), on))

-----------------------------------------------------------------------------
\* Standing assignments.  A row is a role and how many principals hold it.

Roles(b) == List(b, "role_assignments", "roleAssignments")
HighlyPrivileged == {"globalAdmin", "privilegedRoleAdmin"}
Standing(b) == SelectSeq(Roles(b), LAMBDA i : Prop(i, "role") \in HighlyPrivileged)
GlobalAdmins(b) ==
  FirstValue(SelectSeq(Roles(b), LAMBDA i : Prop(i, "role") = "globalAdmin"), "holders")

id_pim_no_permanent_privileged(b) == OkIf(Standing(b) = <<>>)
\* Eligibilities that could not be read are none.
id_pim_no_outside_pam(b) ==
  IF Standing(b) = <<>> THEN "ok"
  ELSE IF List(b, "role_eligibilities", "eligibilities") = <<>> THEN "gap" ELSE "partial"
id_ga_count_bounds(b) == OkIf(GlobalAdmins(b) = "twoToEight")
id_ga_finer_roles(b) ==
  LET other == Some(Standing(b), LAMBDA i : Prop(i, "role") # "globalAdmin")
  IN  IF GlobalAdmins(b) # "more" /\ other THEN "ok"
      ELSE IF GlobalAdmins(b) = "more" /\ ~other THEN "gap" ELSE "partial"

\* One cloud account is enough to leave the unknown ones out.
id_priv_cloud_only(b) ==
  LET holders == Roles(b)
      directory(i) == SelectSeq(List(b, "principal_directory", "objects"),
                                LAMBDA d : Prop(d, "principal") = Prop(i, "principal"))
      synced(i) == FirstValue(directory(i), "onPremisesSyncEnabled") = "true"
      cloud(i) == \/ FirstValue(directory(i), "onPremisesSyncEnabled") = "false"
                  \/ FirstValue(directory(i), "userPrincipalName") # None
  IN  IF Some(holders, synced) THEN "gap"
      ELSE IF holders # <<>> /\ ~Some(holders, cloud) THEN "partial" ELSE "ok"

\* A domain that does not say passes, as long as there is one.
id_password_never_expire(b) ==
  LET domains == List(b, "domains", "domains")
  IN  IF domains = <<>> THEN "partial"
      ELSE GapIf(Some(domains, LAMBDA i : /\ Prop(i, "isVerified") # "false"
                                          /\ Prop(i, "passwordValidityPeriodInDays") = "90"))

-----------------------------------------------------------------------------
\* Licences and workload identities

\* Of two enabled members: fewer than half is a gap, fewer than 85 % partial.
id_protective_plan_assignment(b) ==
  LET members == FirstValue(List(b, "license_assignment", "enabled_member_users"), "users")
      assigned == List(b, "license_assignment", "by_capability")[1].props["assigned_users"]
  IN  IF ~Usable(b, "license_assignment", "enabled_member_users") THEN "error"
      ELSE IF members = "zero" THEN "partial"
      ELSE IF assigned = -1 THEN "error"
      ELSE IF assigned = 0 THEN "gap" ELSE IF assigned = 1 THEN "partial" ELSE "ok"

id_identity_protection_workload(b) ==
  LET items == List(b, "risky_service_principals", "principals")
      inState(s) == Some(items, LAMBDA i : Prop(i, "riskState") \in s)
  IN  IF inState({"atRisk", "confirmedCompromised"}) THEN "gap"
      ELSE IF inState({None}) THEN "partial" ELSE "ok"

id_ca_workload_identity(b) ==
  OkIf(Some(List(b, "ca_policies", "policies"),
            LAMBDA i : Prop(i, "state") = "enabled" /\ PropBool(i, "servicePrincipalRisk")))
=============================================================================
