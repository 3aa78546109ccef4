---------------------------- MODULE MCGraphClient ---------------------------
(***************************************************************************)
(* Instances of GraphClient.  Collections of none to four pages against a  *)
(* budget of three: cut, exactly full, partly full and empty.  Clients     *)
(* with no retries, one and two; two reads share the cached token, so a    *)
(* read may begin with a fresh token, an expired one or none.              *)
(***************************************************************************)
EXTENDS GraphClient

MCRetries == 0 .. 2
MCPageCounts == 0 .. 4
=============================================================================
