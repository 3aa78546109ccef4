--------------------------- MODULE PolicySurfaces ---------------------------
(***************************************************************************)
(* The data that PowerShell evidence is made of, and the accessors the     *)
(* evaluators read it with (collectors/exchange_models.py and its twins,   *)
(* evaluators/exchange_lib.py, collaboration_lib.py and power_lib.py).     *)
(*                                                                         *)
(* A row is what a cmdlet returns for one policy: a function from the      *)
(* names of the properties this module version exposes to their values,    *)
(* all strings ("true" and "false" for booleans).  A surface is one read   *)
(* list of policies with the status of the read; the surfaces of one       *)
(* adapter are its payload, and the payloads are the bundle.               *)
(***************************************************************************)
EXTENDS Integers, Sequences, FiniteSets, Functions, SequencesExt

None == "none"   \* null, an absent key, an unexposed property
Unreadable == {"denied", "unavailable", "unsupported", "error", "disconnected"}

Surface(status, items) == [status |-> status, items |-> items]
Ok(items) == Surface("ok", items)
Unread(status) == Surface(status, <<>>)

\* ConvertTo-LicenseLensPolicyItem: the first flag the row exposes decides.
EnabledFlags == <<"Enabled", "IsEnabled", "Enable", "Mode">>
EnabledOf(row) ==
  LET flags == SelectSeq(EnabledFlags, LAMBDA f : f \in DOMAIN row)
  IN  IF flags = <<>> THEN None
      ELSE IF Head(flags) # "Mode" THEN row[Head(flags)]
      ELSE IF row["Mode"] \in {"Disabled", "Off", None} THEN "false" ELSE "true"

\* Get-LicenseLensPolicyKind, told by the flag; names are left out.
KindOf(row) ==
  IF "IsDefault" \in DOMAIN row /\ row["IsDefault"] = "true" THEN "default" ELSE "custom"

Item(row, names) == [enabled |-> EnabledOf(row), kind |-> KindOf(row),
                     props |-> [n \in names \cap DOMAIN row |-> row[n]]]
ItemsOf(rows, names) == [i \in DOMAIN rows |-> Item(rows[i], names)]

\* The one item of a surface whose adapter writes it itself.
Written(enabled, props) == Ok(<<[enabled |-> enabled, kind |-> "effective", props |-> props]>>)
Exposed(row, n) == IF n \in DOMAIN row THEN row[n] ELSE None

\* A payload that could not be had is the single surface "adapter".
Failed(status) == [s \in {"adapter"} |-> Unread(status)]

\* Two functions in one; the first decides where both do.
Joined(f, g) == [k \in DOMAIN f \cup DOMAIN g |-> IF k \in DOMAIN f THEN f[k] ELSE g[k]]

-----------------------------------------------------------------------------
\* Reading a bundle: adapter -> surface -> Surface.

Found(b, a, s) == a \in DOMAIN b /\ s \in DOMAIN b[a]
Usable(b, a, s) == Found(b, a, s) /\ b[a][s].status = "ok"
Items(b, a, s) == IF Usable(b, a, s) THEN b[a][s].items ELSE <<>>
\* Mutant of EnabledItems: disabled policies are kept.
DisabledItemsKept(b, a, s) == Items(b, a, s)
EnabledItems(b, a, s) ==
  IF Items(b, a, s) = <<>> THEN <<>>
  ELSE SelectSeq(Items(b, a, s), LAMBDA i : i.enabled # "false")

Prop(i, n) == IF n \in DOMAIN i.props THEN i.props[n] ELSE None
PropBool(i, n) == Prop(i, n) = "true"

Some(items, P(_)) == \E k \in DOMAIN items : P(items[k])
Every(items, P(_)) == \A k \in DOMAIN items : P(items[k])

\* The value a loop over the items is left with: of the last one that has it.
LastValue(items, n) ==
  LET said == SelectSeq(items, LAMBDA i : Prop(i, n) # None)
  IN  IF said = <<>> THEN None ELSE Prop(Last(said), n)
LastItemsValue(items, n) == IF items = <<>> THEN None ELSE Prop(Last(items), n)
FirstValue(items, n) == IF items = <<>> THEN None ELSE Prop(Head(items), n)

\* any_enabled_with: "unread" when the surface is not usable.
Tri(p) == IF p THEN "true" ELSE "false"
AnyEnabledWith(b, a, s, P(_)) ==
  IF ~Usable(b, a, s) THEN "unread" ELSE Tri(Some(EnabledItems(b, a, s), P))

\* What most evaluators end with.
OkIf(p) == IF p THEN "ok" ELSE "gap"
GapIf(p) == IF p THEN "gap" ELSE "ok"

\* summarize_controls: of the Secure Score controls that match, the points; a
\* control is out of one point.
ScorePoints(items) == Cardinality({k \in DOMAIN items : Prop(items[k], "score") = "1"})
=============================================================================
