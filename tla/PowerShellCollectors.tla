------------------------ MODULE PowerShellCollectors ------------------------
(***************************************************************************)
(* What the collectors of Exchange, of SharePoint and Teams, and of the    *)
(* Power Platform make of the answer of the bridge for one of their        *)
(* adapters.  The three were written one after the other on one plan;      *)
(* the two later ones also read "global" as a kind of policy.              *)
(***************************************************************************)
EXTENDS PolicyAdapters

ExchangeAdapters == {"exo_audit", "exo_remote_domains", "exo_transport", "exo_smtp_auth",
                     "exo_sharing", "exo_accepted_domains", "exo_dkim", "exo_threat_policies",
                     "scc_compliance"}
CollaborationAdapters == {"spo_tenant", "teams_meeting", "teams_federation", "teams_client",
                          "teams_apps"}
PowerDataAdapters == {"pp_tenant", "pp_environments", "pp_dlp", "pp_isolation", "pbi_tenant",
                      "purview_governance"}

\* An envelope that carries no value: its health, and of the words in its reason
\* those that are looked for.
FailedEnvelopes ==
  [health : {"denied", "unavailable", "unsupported", "error", "truncated", "missing"},
   reason : SUBSET {"disconnect", "module"}]
OkEnvelope(answers) == [health |-> "ok", answers |-> answers]

-----------------------------------------------------------------------------
\* A word that is not known is an error, or a custom policy.
ParsedStatus(word) == IF word \in {"ok"} \cup Unreadable THEN word ELSE "error"
ParsedKind(word, defaults) ==
  IF word \in defaults THEN "default"
  ELSE IF word \in {"preset_standard", "preset_strict", "effective"} THEN word ELSE "custom"

\* Every item has a name: the adapters write "unknown" when there is none.
NormalItem(raw, defaults) ==
  [enabled |-> IF raw.enabled \in {"true", "false"} THEN raw.enabled ELSE None,
   kind |-> ParsedKind(raw.kind, defaults), props |-> raw.props]
NormalSurface(raw, defaults) ==
  Surface(ParsedStatus(raw.status), [i \in DOMAIN raw.items |-> NormalItem(raw.items[i], defaults)])

ExchangePayload(raw) == [s \in DOMAIN raw |-> NormalSurface(raw[s], {"default"})]
DefaultOrGlobal == {"default", "global"}
CollaborationSurface(raw) == NormalSurface(raw, DefaultOrGlobal)
CollaborationPayload(raw) == [s \in DOMAIN raw |-> CollaborationSurface(raw[s])]
PowerDataSurface(raw) == NormalSurface(raw, DefaultOrGlobal)
PowerDataPayload(raw) == [s \in DOMAIN raw |-> PowerDataSurface(raw[s])]

-----------------------------------------------------------------------------
\* A lost session is told from a module that is not installed by the reason.
EnvelopeStatus(e) ==
  IF e.health = "unavailable"
  THEN IF "disconnect" \in e.reason /\ "module" \notin e.reason THEN "disconnected" ELSE "unavailable"
  ELSE IF e.health \in {"denied", "unsupported"} THEN e.health ELSE "error"

ExchangeCollected(a, e) ==
  IF e.health = "ok" THEN ExchangePayload(AdapterPayload(a, e.answers))
  ELSE Failed(EnvelopeStatus(e))
CollaborationCollected(a, e) ==
  IF e.health = "ok" THEN CollaborationPayload(AdapterPayload(a, e.answers))
  ELSE Failed(EnvelopeStatus(e))
PowerDataCollected(a, e) ==
  IF e.health = "ok" THEN PowerDataPayload(AdapterPayload(a, e.answers))
  ELSE Failed(EnvelopeStatus(e))

\* The payload of one adapter, from the collector that calls it.
CollectedPayload(a, e) ==
  CASE a \in ExchangeAdapters -> ExchangeCollected(a, e)
    [] a \in CollaborationAdapters -> CollaborationCollected(a, e)
    [] a \in PowerDataAdapters -> PowerDataCollected(a, e)
PowerShellAdapters == ExchangeAdapters \cup CollaborationAdapters \cup PowerDataAdapters
=============================================================================
