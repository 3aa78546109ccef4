------------------------ MODULE MCConditionalAccess -------------------------
(***************************************************************************)
(* A tenant with two policies: each one a usual policy to begin with, then *)
(* changed field by field.                                                 *)
(***************************************************************************)
EXTENDS ConditionalAccess

Users == {"admin", "helpdesk", "member", "emergency"}
AllRoles == {"global_admin", "user_admin"}
Holds == [u \in Users |-> CASE u \in {"admin", "emergency"} -> {"global_admin"}
                            [] u = "helpdesk" -> {"user_admin"}
                            [] OTHER -> {}]
Clients == {"browser", "exchangeActiveSync", "other"}
Systems == {"windows", "linux"}
Places == {"office", "abroad"}

\* The sign-ins that differ from an ordinary one in at most two respects: the one a
\* check is about, and one that a policy may make a condition of.
Ordinary ==
  [user |-> "member", target |-> "app", client |-> "browser", platform |-> "windows",
   location |-> "abroad", filtered |-> TRUE, deviceCode |-> FALSE,
   userRisk |-> None, signInRisk |-> None]
OneApart(S) == UNION {
  {[s EXCEPT !.user = u] : s \in S, u \in Users},
  {[s EXCEPT !.target = t] : s \in S, t \in App \cup {"register_security_info"}},
  {[s EXCEPT !.client = c] : s \in S, c \in Clients},
  {[s EXCEPT !.platform = f] : s \in S, f \in Systems},
  {[s EXCEPT !.location = l] : s \in S, l \in Places},
  {[s EXCEPT !.filtered = b] : s \in S, b \in BOOLEAN},
  {[s EXCEPT !.deviceCode = b] : s \in S, b \in BOOLEAN},
  {[s EXCEPT !.userRisk = r] : s \in S, r \in Levels \cup {None}},
  {[s EXCEPT !.signInRisk = r] : s \in S, r \in Levels \cup {None}}}
TwoApart == OneApart(OneApart({Ordinary}))

Usual ==
  [state |-> "enabled", allUsers |-> TRUE, includeUsers |-> {}, includeRoles |-> {},
   excludes |-> {"emergency"}, target |-> "all_apps", excludeApps |-> {},
   clients |-> {}, platforms |-> {}, exceptPlatforms |-> {}, locations |-> {},
   exceptLocations |-> {}, deviceFilter |-> FALSE, deviceCode |-> FALSE,
   userRisk |-> {}, signInRisk |-> {}, controls |-> {"mfa"}, operator |-> "or",
   strength |-> None]
Blocking == [Usual EXCEPT !.controls = {"block"}]
Templates == <<
  Usual,
  [Usual EXCEPT !.allUsers = FALSE, !.includeRoles = AllRoles, !.controls = {},
                !.strength = "phishing_resistant"],
  [Usual EXCEPT !.controls = {"compliantDevice"}],
  [Usual EXCEPT !.controls = {"compliantDevice"}, !.target = "register_security_info"],
  [Blocking EXCEPT !.clients = Legacy],
  [Blocking EXCEPT !.deviceCode = TRUE],
  [Blocking EXCEPT !.userRisk = {"high"}],
  [Blocking EXCEPT !.signInRisk = {"high"}]>>
Careful == [justified |-> {"emergency"}, admins |-> {"admin", "emergency"}, defaults |-> FALSE]
Careless == [justified |-> {}, admins |-> {"admin"}, defaults |-> TRUE]
Tenants ==
  {[policies |-> [i \in {1, 2} |-> Templates[t[i]]], profile |-> pr] :
     t \in {u \in (1 .. 8) \X (1 .. 8) : u[1] <= u[2]}, pr \in {Careful, Careless}}

FieldChanges ==
  {<<"state", v>> : v \in {"enabled", "report_only", "disabled"}} \cup
  {<<f, b>> : f \in {"allUsers", "deviceFilter", "deviceCode"}, b \in BOOLEAN} \cup
  {<<"includeUsers", {"member"}>>, <<"includeUsers", Users>>} \cup
  {<<"includeRoles", {"global_admin"}>>, <<"includeRoles", AllRoles>>} \cup
  {<<"excludes", {}>>, <<"excludes", {"emergency"}>>, <<"excludes", {"emergency", "member"}>>} \cup
  {<<"target", "app">>, <<"target", "all_apps">>, <<"excludeApps", {"other_app"}>>} \cup
  {<<"clients", Legacy>>, <<"clients", {"exchangeActiveSync"}>>, <<"clients", {"browser"}>>,
   <<"clients", {"all"}>>, <<"clients", Clients>>} \cup
  {<<"platforms", {"windows"}>>, <<"platforms", Systems>>, <<"platforms", {"all"}>>, <<"exceptPlatforms", {"linux"}>>} \cup
  {<<"locations", {"abroad"}>>, <<"exceptLocations", {"office"}>>} \cup
  {<<f, r>> : f \in {"userRisk", "signInRisk"}, r \in {{}, {"high"}, {"low"}}} \cup
  {<<"controls", c>> : c \in {{}, {"mfa"}, {"compliantDevice", "domainJoinedDevice"},
                             {"mfa", "compliantDevice"}, {"mfa", "passwordChange"}}} \cup
  {<<"operator", "and">>, <<"strength", None>>, <<"strength", "phishing_resistant">>,
   <<"strength", "other">>}
=============================================================================
