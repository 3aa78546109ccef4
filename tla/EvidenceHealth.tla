--------------------------- MODULE EvidenceHealth ---------------------------
(***************************************************************************)
(* The vocabulary of collectors/contracts.py: how healthy one piece of     *)
(* tenant evidence is after collection, and what the rest of the scanner   *)
(* derives from that.                                                      *)
(***************************************************************************)
EXTENDS Naturals

\* EvidenceHealth
Health == {"ok", "denied", "unavailable", "unsupported", "error",
           "truncated", "missing"}

\* Mutant of IsUsable: a truncated sample counts as usable
IsUsableTruncated(h) == h \in {"ok", "truncated"}

\* EvidenceEnvelope.is_usable: a truncated sample is not usable
IsUsable(h) == h = "ok"

\* EvidenceEnvelope.collection_status
CollectionStatus(h) ==
  CASE h = "ok"          -> "success"
    [] h = "truncated"   -> "partial"
    [] h \in {"denied", "error", "missing"} -> "failed"
    [] h = "unavailable" -> "skipped"
    [] h = "unsupported" -> "unsupported"

\* _health_rank: the lower the rank, the worse the evidence
HealthRank == [denied |-> 0, error |-> 1, truncated |-> 2, unsupported |-> 3,
               unavailable |-> 4, missing |-> 5, ok |-> 6]

\* sorted(..., key=_health_rank)[0]
Worst(hs) == CHOOSE h \in hs : \A g \in hs : HealthRank[h] <= HealthRank[g]
=============================================================================
