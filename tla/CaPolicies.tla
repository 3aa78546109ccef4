----------------------------- MODULE CaPolicies -----------------------------
(***************************************************************************)
(* Conditional Access policies as the evaluators read them                 *)
(* (collectors/conditional_access.py), and, as the reference they are held *)
(* to, what a policy does to a sign-in.                                    *)
(*                                                                         *)
(* A policy is a record.  An empty set of clients, included platforms,     *)
(* included locations or risk levels is no condition; "all" is a value of  *)
(* its own.  Groups and roles are excluded like users.                     *)
(***************************************************************************)
EXTENDS Integers, FiniteSets

CONSTANTS User, Role, RolesOf,   \* who signs in, with which highly privileged roles
          Client, Platform, Location

ASSUME RolesAssumption == RolesOf \in [User -> SUBSET Role]

None == "none"
App == {"app", "other_app"}
Legacy == {"exchangeActiveSync", "other"}
Levels == {"low", "high"}
Policy ==
  [state : {"enabled", "report_only", "disabled"},
   allUsers : BOOLEAN, includeUsers : SUBSET User, includeRoles : SUBSET Role,
   excludes : SUBSET User,
   \* all cloud apps, one app, or registering security information
   target : {"all_apps", "app", "register_security_info"}, excludeApps : SUBSET App,
   clients : SUBSET (Client \cup {"all"}),
   platforms : SUBSET (Platform \cup {"all"}), exceptPlatforms : SUBSET Platform,
   locations : SUBSET (Location \cup {"all"}), exceptLocations : SUBSET Location,
   deviceFilter : BOOLEAN, deviceCode : BOOLEAN,
   userRisk : SUBSET Levels, signInRisk : SUBSET Levels,
   controls : SUBSET {"mfa", "phishingResistantMfa", "compliantDevice", "domainJoinedDevice",
                      "passwordChange", "block"},
   operator : {"and", "or"}, strength : {None, "phishing_resistant", "other"}]

is_enabled(p) == p.state = "enabled"
is_report_only(p) == p.state = "report_only"

\* An OR of several controls proves none of them.
_grant_enforces(p, kind) ==
  /\ kind \in p.controls
  /\ p.controls = {kind} \/ p.operator = "and"

requires_mfa(p) ==
  \/ _grant_enforces(p, "mfa") \/ _grant_enforces(p, "phishingResistantMfa")
  \/ p.strength # None /\ (p.controls = {} \/ p.operator = "and")
\* The strength counts whatever it is combined with.
requires_phishing_resistant(p) ==
  _grant_enforces(p, "phishingResistantMfa") \/ p.strength = "phishing_resistant"
requires_managed_device(p) ==
  _grant_enforces(p, "compliantDevice") \/ _grant_enforces(p, "domainJoinedDevice")
is_block_policy(p) == "block" \in p.controls

\* Mutant of is_legacy_auth_block: no client condition is no client.
NamedLegacyClientsOnly(p) ==
  is_block_policy(p) /\ p.clients # {} /\ p.clients \subseteq Legacy
is_legacy_auth_block(p) ==
  /\ is_block_policy(p)
  /\ p.clients = {} \/ "all" \in p.clients \/ p.clients \subseteq Legacy
is_device_code_block(p) == is_block_policy(p) /\ p.deviceCode
blocks_high_user_risk(p) == is_block_policy(p) /\ "high" \in p.userRisk
blocks_high_sign_in_risk(p) == is_block_policy(p) /\ "high" \in p.signInRisk
has_risk_conditions(p) == p.userRisk # {} \/ p.signInRisk # {}

_all_client_apps(p) == p.clients = {} \/ "all" \in p.clients
\* Mutant of _all_platforms: excluded platforms are forgotten.
IncludedPlatformsOnly(p) == p.platforms = {} \/ "all" \in p.platforms
_all_platforms(p) == (p.platforms = {} \/ "all" \in p.platforms) /\ p.exceptPlatforms = {}

\* PolicyScope.gaps; one token for trusted and for named locations.  Excluded
\* applications, included locations and authentication flows give none.
gaps(p) ==
  { t \in {"not_all_users", "user_actions_only", "not_all_cloud_apps", "risk_conditioned",
           "client_app_subset", "platform_subset", "location_bypass", "device_filter"} :
      \/ t = "not_all_users" /\ ~p.allUsers
      \/ t = "user_actions_only" /\ p.target = "register_security_info"
      \/ t = "not_all_cloud_apps" /\ p.target = "app"
      \/ t = "risk_conditioned" /\ has_risk_conditions(p)
      \/ t = "client_app_subset" /\ ~_all_client_apps(p)
      \/ t = "platform_subset" /\ ~_all_platforms(p)
      \/ t = "location_bypass" /\ p.exceptLocations # {}
      \/ t = "device_filter" /\ p.deviceFilter }

policy_scope(p) == gaps(p)
scope_for_block(p, allowed) ==
  IF p.clients \subseteq allowed THEN gaps(p) \ {"client_app_subset"} ELSE gaps(p)

-----------------------------------------------------------------------------
\* A sign-in, and what the enabled policies that apply to it ask.

SignIn ==
  [user : User, target : App \cup {"register_security_info"}, client : Client,
   platform : Platform, location : Location, filtered : BOOLEAN, deviceCode : BOOLEAN,
   userRisk : Levels \cup {None}, signInRisk : Levels \cup {None}]

Names(values, value) == values = {} \/ "all" \in values \/ value \in values
Conditions == {"users", "exclusions", "target", "excluded_apps", "clients", "platforms",
               "locations", "excluded_locations", "device_filter", "flow", "user_risk",
               "sign_in_risk"}
Meets(p, s, condition) ==
  \/ condition = "users" /\ (p.allUsers \/ s.user \in p.includeUsers
                               \/ RolesOf[s.user] \cap p.includeRoles # {})
  \/ condition = "exclusions" /\ s.user \notin p.excludes
  \/ condition = "target" /\ (s.target = p.target
                                \/ (s.target \in App /\ p.target = "all_apps"))
  \/ condition = "excluded_apps" /\ s.target \notin p.excludeApps
  \/ condition = "clients" /\ Names(p.clients, s.client)
  \/ condition = "platforms" /\ Names(p.platforms, s.platform)
                              /\ s.platform \notin p.exceptPlatforms
  \/ condition = "locations" /\ Names(p.locations, s.location)
  \/ condition = "excluded_locations" /\ s.location \notin p.exceptLocations
  \/ condition = "device_filter" /\ (p.deviceFilter => s.filtered)
  \/ condition = "flow" /\ (p.deviceCode => s.deviceCode)
  \/ condition = "user_risk" /\ (p.userRisk = {} \/ s.userRisk \in p.userRisk)
  \/ condition = "sign_in_risk" /\ (p.signInRisk = {} \/ s.signInRisk \in p.signInRisk)
AppliesTo(p, s) == \A condition \in Conditions : Meets(p, s, condition)

\* Whoever passes the policy has met one of the controls: all of them with "and",
\* any one with "or".  A strength is one more control.
Demands(p) == p.controls \cup (IF p.strength = None THEN {} ELSE {p.strength})
Exacts(p, controls) ==
  \/ "block" \in p.controls
  \/ Demands(p) # {} /\ IF p.operator = "and" THEN Demands(p) \cap controls # {}
                        ELSE Demands(p) \subseteq controls
=============================================================================
