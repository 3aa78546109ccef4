----------------------------- MODULE DnsChecks -----------------------------
(***************************************************************************)
(* Mail authentication records (collectors/dns_records.py and evaluators/  *)
(* exchange_email_auth_dns.py).  The verified domains of the tenant are    *)
(* looked up one by one; a lookup that times out leaves the record as      *)
(* absent as one that is not there, beside an error no evaluator reads.    *)
(* A domain is a row with its spf and dmarc records and the dmarc contact. *)
(***************************************************************************)
EXTENDS PolicyAdapters

\* Without the list of domains there is nothing to look up.
DnsPayload(ans) ==
  [domains |-> IF Answer(ans, "domains").kind = "rows"
               THEN Ok(ItemsOf(Rows(ans, "domains"), {"spf", "dmarc", "rua"})) ELSE Ok(<<>>)]

Domains(b) == Items(b, "dns", "domains")
DnsVerdict(b, Missing(_)) ==
  IF Domains(b) = <<>> THEN "skipped"
  ELSE IF Some(Domains(b), Missing) THEN "gap" ELSE "ok"

\* Both -all and ~all are taken for a hard fail.
exo_spf_published(b) == DnsVerdict(b, LAMBDA d : Prop(d, "spf") \notin {"-all", "~all"})
exo_dmarc_published(b) == DnsVerdict(b, LAMBDA d : Prop(d, "dmarc") = None)
exo_dmarc_reject(b) == DnsVerdict(b, LAMBDA d : Prop(d, "dmarc") # "reject")
exo_dmarc_contact(b, o) ==
  IF "dmarc_contact" \notin o THEN "skipped"
  ELSE DnsVerdict(b, LAMBDA d : Prop(d, "dmarc") = None \/ Prop(d, "rua") # "agency")
=============================================================================
