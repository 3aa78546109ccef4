----------------------------- MODULE GraphClient ----------------------------
(***************************************************************************)
(* graph.py: GraphClient reads collections page by page with a token it    *)
(* caches for its whole life.  Each page is one request with a bounded     *)
(* number of attempts.  ArmClient.get and MdeClient.get have the same      *)
(* loop.  A scan makes one read after the other; a failed read does not    *)
(* stop the next.                                                          *)
(***************************************************************************)
EXTENDS Naturals, Sequences

CONSTANTS Retries,     \* the values of max_retries considered
          MaxPages,    \* max_pages of a read
          PageCounts,  \* pages the service may hold for a collection
          Reads        \* bound: reads of one scan

ASSUME BoundsAreNaturals ==
  /\ Retries \subseteq Nat
  /\ MaxPages \in Nat \ {0}
  /\ PageCounts \subseteq Nat
  /\ Reads \in Nat

VARIABLES
  maxRetries,  \* self._max_retries
  token,       \* self._token: "none", "valid" or "expired" at the service
  total,       \* pages the service holds for this collection
  phase,       \* "idle", "request", "done" or "failed"
  pages,       \* pages read so far, the next one is pages + 1
  items,       \* the pages collected
  more,        \* a nextLink was left when the loop ended
  attempt,     \* attempt of the request for the next page
  answer,      \* history: what the last attempt met
  error,       \* what the read raised
  sent,        \* history: attempts sent for the next page, up to one beyond the allowed
  reads        \* reads begun

vars == <<maxRetries, token, total, phase, pages, items, more, attempt,
          answer, error, sent, reads>>

Init == /\ maxRetries \in Retries
        /\ token = "none"
        /\ total \in PageCounts
        /\ phase = "idle"
        /\ pages = 0 /\ items = <<>> /\ more = FALSE
        /\ attempt = 0 /\ answer = "none" /\ error = "none"
        /\ sent = 0
        /\ reads = 0

\* get_list_result is called
Begin ==
  /\ phase # "request"
  /\ reads < Reads
  /\ reads' = reads + 1
  /\ total' \in PageCounts
  /\ phase' = "request"
  /\ pages' = 0 /\ items' = <<>> /\ more' = FALSE
  /\ attempt' = 0 /\ answer' = "none" /\ error' = "none"
  /\ sent' = 0
  /\ UNCHANGED <<maxRetries, token>>

\* the access token runs out while it is cached
Expire == /\ token = "valid"
          /\ token' = "expired"
          /\ UNCHANGED <<maxRetries, total, phase, pages, items, more, attempt,
                         answer, error, sent, reads>>

-----------------------------------------------------------------------------
InLoop == phase = "request" /\ attempt <= maxRetries

\* _get_token with an empty cache
AcquireToken ==
  /\ InLoop
  /\ token = "none"
  /\ token' = "valid"
  /\ UNCHANGED <<maxRetries, total, phase, pages, items, more, attempt,
                 answer, error, sent, reads>>

Raise(e) ==
  /\ phase' = "failed"
  /\ error' = e
  /\ UNCHANGED <<maxRetries, total, pages, items, more, attempt, reads>>

CredentialFails ==
  /\ InLoop
  /\ token = "none"
  /\ Raise("credential")
  /\ UNCHANGED <<token, answer, sent>>

Send(a) == /\ InLoop
           /\ token # "none"
           /\ answer' = a
           /\ sent' = IF sent <= maxRetries + 1 THEN sent + 1 ELSE sent

NextAttempt ==
  /\ attempt' = attempt + 1
  /\ UNCHANGED <<maxRetries, total, phase, pages, items, more, error, reads>>

\* an error worth another attempt, until the attempts are used up
TryAgain(e) ==
  IF attempt >= maxRetries THEN Raise(e) /\ UNCHANGED token
  ELSE NextAttempt /\ UNCHANGED token

\* Mutant of NetworkError: the error is only remembered for the end of the loop
NetworkErrorRemembered == Send("network") /\ NextAttempt /\ UNCHANGED token

\* httpx.HTTPError
NetworkError == Send("network") /\ TryAgain("network")

\* 429 or 5xx
Throttled == Send("throttled") /\ TryAgain("throttled")

\* the two reasons of a 401: the token is no longer valid, or is not accepted at all
Rejection == IF token = "expired" THEN "expired" ELSE "unauthorized"

\* Mutant of Unauthorized: every 401 forces a refresh and a fresh start
UnauthorizedUncounted ==
  /\ Send(Rejection)
  /\ token' = "none"
  /\ UNCHANGED <<maxRetries, total, phase, pages, items, more, attempt, error, reads>>

\* 401: the cached token is dropped at the first attempt only
Unauthorized ==
  /\ Send(Rejection)
  /\ \/ attempt = 0 /\ NextAttempt /\ token' = "none"
     \/ attempt > 0 /\ Raise("unauthorized") /\ UNCHANGED token

\* any other status from 400 on
Refused == Send("refused") /\ Raise("refused") /\ UNCHANGED token

\* a success whose body is no JSON object: get() or response.json() raises
Malformed == /\ token = "valid"
             /\ Send("malformed")
             /\ Raise("malformed")
             /\ UNCHANGED token

\* the for loop ends without a return: the last raise of request()
Exhausted == /\ phase = "request"
             /\ attempt > maxRetries
             /\ Raise("exhausted")
             /\ UNCHANGED <<token, answer, sent>>

\* Mutant of Page: a full budget is taken for a cut collection
PageBudgetIsCut ==
  /\ InLoop
  /\ token = "valid"
  /\ answer' = "page"
  /\ sent' = 0
  /\ pages' = pages + 1
  /\ items' = Append(items, pages + 1)
  /\ more' = (pages + 1 = MaxPages)
  /\ phase' = IF pages + 1 < total /\ pages + 1 < MaxPages THEN "request" ELSE "done"
  /\ attempt' = 0
  /\ UNCHANGED <<maxRetries, token, total, error, reads>>

\* a page of the collection: the walk follows @odata.nextLink within the budget.
\* An empty collection answers with no content, read as one page of no items.
Page ==
  /\ InLoop
  /\ token = "valid"
  /\ answer' = "page"
  /\ sent' = 0
  /\ pages' = pages + 1
  /\ items' = IF total = 0 THEN items ELSE Append(items, pages + 1)
  /\ LET linked == pages + 1 < total
     IN IF linked /\ pages + 1 < MaxPages
        THEN phase' = "request" /\ more' = FALSE
        ELSE phase' = "done" /\ more' = linked
  /\ attempt' = 0
  /\ UNCHANGED <<maxRetries, token, total, error, reads>>

Step == \/ AcquireToken \/ CredentialFails \/ NetworkError \/ Throttled
        \/ Unauthorized \/ Refused \/ Malformed \/ Page \/ Exhausted

Next == Begin \/ Step \/ Expire

Spec == Init /\ [][Next]_vars

\* every request carries a timeout and the client runs on one thread; no caller
\* is obliged to read and no token to expire
FairSpec == Spec /\ WF_vars(Step)

-----------------------------------------------------------------------------
(***************************************************************************)
(* Properties.                                                             *)
(***************************************************************************)

\* A read that fails says why: the error names what the last attempt met, an error
\* worth a retry is raised only after every attempt was used, and the raise after
\* the loop ("failed after retries") is met only by a client allowed no retries.
ErrorNamesItsCause ==
  phase = "failed" =>
    /\ error = "unauthorized" => answer \in {"unauthorized", "expired"}
    /\ error \in {"network", "throttled", "refused", "malformed"} => error = answer
    /\ error \in {"network", "throttled"} => sent = maxRetries + 1
    /\ error = "exhausted" => maxRetries = 0 /\ answer \in {"unauthorized", "expired"}

\* Reading with retries, refreshes and a page budget gives what PagedRead promises.
Paged == INSTANCE PagedRead WITH
  status <- IF phase = "request" THEN "reading" ELSE phase,
  delivered <- IF phase = "done" THEN items ELSE <<>>,
  truncated <- phase = "done" /\ more

Implements == Paged!Spec

\* Every read ends, with pages or with an error.
ReadsEnd == phase = "request" ~> phase # "request"
=============================================================================
