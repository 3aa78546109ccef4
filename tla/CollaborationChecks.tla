------------------------ MODULE CollaborationChecks ------------------------
(***************************************************************************)
(* The evaluators of SharePoint, OneDrive and Teams (evaluators/           *)
(* collaboration_*.py): bundle b and options o to the status of a finding. *)
(* Capabilities and link types are the values the code tells apart.        *)
(***************************************************************************)
EXTENDS PolicySurfaces

SpoAdapter == "spo_tenant"

-----------------------------------------------------------------------------
\* SharePoint.  Each surface has the one item of its adapter.

SpoValue(b, s, n) == LastItemsValue(Items(b, SpoAdapter, s), n)
spo_sharing_capability(b) == SpoValue(b, "sharing_capability", "SharingCapability")
WithinAMonth(days) == days = "30"

SharingLimited(capability) ==
  IF capability = None THEN "partial"
  ELSE OkIf(capability \in {"Disabled", "ExistingExternalUserSharingOnly"})
spo_sharing_capability_limited(b) == SharingLimited(spo_sharing_capability(b))
spo_onedrive_sharing_limited(b) ==
  SharingLimited(SpoValue(b, "onedrive_sharing", "OneDriveSharingCapability"))

spo_unmanaged_device_access(b) ==
  LET policy == SpoValue(b, "unmanaged_device_policy", "ConditionalAccessPolicy")
  IN  IF policy = None THEN "partial" ELSE OkIf(policy = "BlockAccess")

spo_domain_restrictions(b, o) ==
  LET sharing == spo_sharing_capability(b)
  IN  IF sharing = "Disabled" THEN "skipped"
      ELSE IF sharing = None THEN "partial"
      ELSE OkIf(/\ SpoValue(b, "domain_restrictions", "SharingDomainRestrictionMode") = "AllowList"
                /\ "approved_partners" \in o =>
                     SpoValue(b, "domain_restrictions", "SharingAllowedDomainList") # "stranger")

spo_default_link_specific(b) ==
  LET type == SpoValue(b, "default_link", "DefaultSharingLinkType")
  IN  IF ~Usable(b, SpoAdapter, "default_link") THEN "partial"
      ELSE CASE type = "Direct" -> "ok" [] type = "Internal" -> "partial" [] OTHER -> "gap"

spo_default_link_view(b) ==
  IF ~Usable(b, SpoAdapter, "default_link") THEN "partial"
  ELSE OkIf(SpoValue(b, "default_link", "DefaultLinkPermission") = "View")

\* An unread sharing capability is no reason to skip.
AnyoneLinkCheck(b, surface, strong) ==
  IF spo_sharing_capability(b) \notin {None, "ExternalUserAndGuestSharing"} THEN "skipped"
  ELSE IF ~Usable(b, SpoAdapter, surface) THEN "partial" ELSE OkIf(strong)
spo_anyone_link_expiration(b) ==
  AnyoneLinkCheck(b, "anyone_link_expiration",
    WithinAMonth(SpoValue(b, "anyone_link_expiration", "RequireAnonymousLinksExpireInDays")))
spo_anyone_link_view(b) ==
  AnyoneLinkCheck(b, "anyone_link_permissions",
    /\ SpoValue(b, "anyone_link_permissions", "FileAnonymousLinkType") = "View"
    /\ SpoValue(b, "anyone_link_permissions", "FolderAnonymousLinkType") = "View")

spo_verification_reauth(b) ==
  IF spo_sharing_capability(b) = "Disabled" THEN "skipped"
  ELSE IF ~Usable(b, SpoAdapter, "reauth_days") THEN "partial"
  ELSE OkIf(/\ SpoValue(b, "reauth_days", "EmailAttestationRequired") = "true"
            /\ WithinAMonth(SpoValue(b, "reauth_days", "EmailAttestationReAuthDays")))

-----------------------------------------------------------------------------
\* Teams access

\* _surface_resolution: an unsupported surface does not apply.
Resolved(b, a, s, verdict) ==
  IF ~Found(b, a, s) THEN "partial"
  ELSE IF b[a][s].status = "unsupported" THEN "skipped"
  ELSE IF b[a][s].status # "ok" THEN "partial" ELSE verdict

teams_external_access_per_domain(b, o) ==
  LET items == Items(b, "teams_federation", "federation")
      allowed == LastItemsValue(items, "AllowedDomains")
  IN  Resolved(b, "teams_federation", "federation",
        IF LastValue(items, "AllowFederatedUsers") = "false" THEN "ok"
        ELSE GapIf(\/ allowed \in {None, "*"}
                   \/ "approved_partners" \in o /\ allowed = "stranger"))

\* enabled is what the last policy says of it; False when none says anything.
UnmanagedConsumer(b, n) ==
  Resolved(b, "teams_federation", "unmanaged_users",
           GapIf(LastValue(Items(b, "teams_federation", "unmanaged_users"), n) = "true"))

teams_email_integration_disabled(b) ==
  Resolved(b, "teams_client", "email_integration",
           GapIf(LastValue(Items(b, "teams_client", "email_integration"),
                           "AllowEmailIntoChannel") = "true"))

teams_guest_access_restricted(b) ==
  LET said(n) == LastValue(Items(b, "teams_client", "guest_access"), n)
  IN  Resolved(b, "teams_client", "guest_access",
        CASE said("AllowGuestUser") = None -> "partial"
          [] said("AllowGuestUser") = "false" -> "ok"
          [] OTHER -> IF said("AllowGuestCalling") = "false" /\ said("AllowGuestChat") = "false"
                      THEN "partial" ELSE "gap")

-----------------------------------------------------------------------------
\* Teams meetings and apps

\* One weak policy is enough, whether anybody has it or not.
Meeting(b, s, Weak(_)) ==
  IF Items(b, "teams_meeting", s) = <<>> THEN "partial"
  ELSE GapIf(Some(Items(b, "teams_meeting", s), Weak))
MeetingFlag(b, n) == Meeting(b, "meeting_policies", LAMBDA i : PropBool(i, n))
MeetingFlags ==
  [teams_external_control_disabled |-> "AllowExternalParticipantGiveRequestControl",
   teams_anonymous_start_disabled |-> "AllowAnonymousUsersToStartMeeting",
   teams_dialin_lobby |-> "AllowPSTNUsersToBypassLobby",
   teams_recording_disabled |-> "AllowCloudRecording"]
teams_anonymous_lobby(b) ==
  Meeting(b, "meeting_policies", LAMBDA i : Prop(i, "AutoAdmittedUsers") = "Everyone")
teams_internal_auto_admit(b) ==
  Meeting(b, "meeting_policies", LAMBDA i : Prop(i, "AutoAdmittedUsers") # "EveryoneInCompany")
teams_broadcast_not_always_record(b) ==
  Meeting(b, "broadcast_policies", LAMBDA i : Prop(i, "BroadcastRecordingMode") = "AlwaysEnabled")

\* An unreadable v2 surface turns a pass into a partial, and leaves a gap one.
AppsGoverned(b, catalog) ==
  LET items == Items(b, "teams_apps", "app_permission_policies")
  IN  IF items = <<>> THEN "partial"
      ELSE IF Some(items, LAMBDA i : Prop(i, catalog) = "AllowedAppList") THEN "gap"
      ELSE IF Usable(b, "teams_apps", "app_settings_v2") THEN "ok" ELSE "partial"
AppCatalogs ==
  [teams_microsoft_apps_governed |-> "DefaultCatalogAppsType",
   teams_third_party_apps_governed |-> "GlobalCatalogAppsType",
   teams_custom_apps_governed |-> "PrivateCatalogAppsType"]
=============================================================================
