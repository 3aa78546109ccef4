-------------------------- MODULE GraphClient_proof -------------------------
(***************************************************************************)
(* What a paged read hands over and what it says when it fails, for every  *)
(* page budget, number of retries, size of collection and number of reads. *)
(***************************************************************************)
EXTENDS GraphClient, SequenceTheorems, TLAPS

Rejections == {"unauthorized", "expired"}

\* The shape of the state.
Shape == /\ maxRetries \in Nat
         /\ total \in PageCounts
         /\ phase \in {"idle", "request", "done", "failed"}
         /\ pages \in Nat /\ attempt \in Nat /\ sent \in Nat

\* An attempt is sent for each that is counted.  Only a rejection at the first
\* attempt is followed by one more than a client without retries allows.
AttemptsAreCounted ==
  phase = "request" =>
    /\ sent = attempt
    /\ attempt <= maxRetries \/ (maxRetries = 0 /\ attempt = 1 /\ answer \in Rejections)

\* The first n pages of a collection.
FirstPages(n) == [i \in 1 .. n |-> i]

\* What has been read are the first pages, as many as the budget lets pass, and
\* another page is asked for only while there is one.
PagesAreTheFirst ==
  /\ phase = "request" => /\ items = FirstPages(pages)
                          /\ pages < MaxPages
                          /\ pages = 0 \/ pages < total
                          /\ ~more
  /\ phase = "done" => /\ items = FirstPages(IF total > MaxPages THEN MaxPages ELSE total)
                       /\ more <=> total > MaxPages

ReadInv == Shape /\ AttemptsAreCounted /\ PagesAreTheFirst /\ ErrorNamesItsCause

-----------------------------------------------------------------------------
(* Pages.                                                                   *)

LEMMA OnePageMore ==
  ASSUME NEW n \in Nat
  PROVE  Append(FirstPages(n), n + 1) = FirstPages(n + 1)
<1> DEFINE s == FirstPages(n)
           t == FirstPages(n + 1)
<1>1. s \in Seq(Nat) /\ Len(s) = n /\ \A i \in 1 .. n : s[i] = i
  BY DEF FirstPages
<1>2. t \in Seq(Nat) /\ Len(t) = n + 1 /\ \A i \in 1 .. n + 1 : t[i] = i
  BY DEF FirstPages
<1> HIDE DEF s, t
<1>3. /\ Append(s, n + 1) \in Seq(Nat)
      /\ Len(Append(s, n + 1)) = n + 1
      /\ \A i \in 1 .. n : Append(s, n + 1)[i] = i
      /\ Append(s, n + 1)[n + 1] = n + 1
  BY <1>1, AppendProperties
<1>4. \A i \in 1 .. n + 1 : Append(s, n + 1)[i] = t[i]
  BY <1>2, <1>3
<1>5. Append(s, n + 1) = t
  BY <1>2, <1>3, <1>4, SeqEqual
<1> QED
  BY <1>5 DEF s, t

LEMMA NoPages == FirstPages(0) = << >>
BY DEF FirstPages

-----------------------------------------------------------------------------
(* The invariant.                                                           *)

LEMMA Starts == Init => ReadInv
BY BoundsAreNaturals
   DEF Init, ReadInv, Shape, AttemptsAreCounted, PagesAreTheFirst, ErrorNamesItsCause

LEMMA ShapeKept ==
  ASSUME Shape, [Next]_vars
  PROVE  Shape'
<1>1. CASE Step
  BY <1>1 DEF Step, AcquireToken, CredentialFails, NetworkError, Throttled, Unauthorized,
              Refused, Malformed, Page, Exhausted, Send, TryAgain, NextAttempt, Raise, Shape
<1>2. CASE Begin
  BY <1>2 DEF Begin, Shape
<1>3. CASE Expire \/ UNCHANGED vars
  BY <1>3 DEF Expire, vars, Shape
<1> QED
  BY <1>1, <1>2, <1>3 DEF Next

LEMMA AttemptsKept ==
  ASSUME ReadInv, [Next]_vars
  PROVE  AttemptsAreCounted'
<1>1. CASE NetworkError \/ Throttled
  BY <1>1 DEF NetworkError, Throttled, Send, InLoop, TryAgain, NextAttempt, Raise, ReadInv,
              Shape, AttemptsAreCounted
<1>2. CASE Unauthorized
  BY <1>2 DEF Unauthorized, Send, InLoop, Rejection, Rejections, NextAttempt, Raise, ReadInv,
              Shape, AttemptsAreCounted
<1>3. CASE CredentialFails \/ Refused \/ Malformed \/ Exhausted
  BY <1>3 DEF CredentialFails, Refused, Malformed, Exhausted, Send, Raise, AttemptsAreCounted
<1>4. CASE AcquireToken \/ Page \/ Begin \/ Expire \/ UNCHANGED vars
  BY <1>4 DEF AcquireToken, Page, Begin, Expire, vars, ReadInv, Shape, AttemptsAreCounted
<1> QED
  BY <1>1, <1>2, <1>3, <1>4 DEF Next, Step

\* The page that ends the loop tells whether it had a link.
LEMMA LastPage ==
  ASSUME Page, ~(pages + 1 < total /\ pages + 1 < MaxPages)
  PROVE  phase' = "done" /\ (more' <=> pages + 1 < total)
BY Zenon DEF Page

LEMMA PagesKept ==
  ASSUME ReadInv, [Next]_vars
  PROVE  PagesAreTheFirst'
<1>1. CASE Page
  <2>1. /\ items = FirstPages(pages) /\ pages < MaxPages /\ pages \in Nat
        /\ pages = 0 \/ pages < total
        /\ total \in Nat /\ MaxPages \in Nat
    BY <1>1, BoundsAreNaturals DEF Page, InLoop, ReadInv, Shape, PagesAreTheFirst
  <2>2. CASE total = 0
    <3>1. pages = 0 /\ ~(pages + 1 < total)
      BY <2>1, <2>2
    <3>2. items' = items /\ phase' = "done" /\ ~more' /\ total' = total
      BY <1>1, <2>2, <3>1, LastPage DEF Page
    <3>3. ~(total > MaxPages) /\ ~(0 > MaxPages)
      BY <2>1, <2>2
    <3> QED
      BY <2>1, <2>2, <3>1, <3>2, <3>3 DEF PagesAreTheFirst
  <2>3. CASE total # 0
    <3>1. items' = FirstPages(pages') /\ pages' = pages + 1 /\ total' = total
      BY <1>1, <2>1, <2>3, OnePageMore DEF Page
    <3>2. CASE pages + 1 < total /\ pages + 1 < MaxPages
      BY <1>1, <2>1, <3>1, <3>2 DEF Page, PagesAreTheFirst
    <3>3. CASE ~(pages + 1 < total /\ pages + 1 < MaxPages)
      <4>1. phase' = "done" /\ (more' <=> pages + 1 < total)
        BY <1>1, <3>3, LastPage
      <4>2. pages + 1 = IF total > MaxPages THEN MaxPages ELSE total
        BY <2>1, <2>3, <3>3
      <4>3. pages + 1 < total <=> total > MaxPages
        BY <2>1, <2>3, <3>3
      <4> QED
        BY <3>1, <4>1, <4>2, <4>3 DEF PagesAreTheFirst
    <3> QED
      BY <3>2, <3>3
  <2> QED
    BY <2>2, <2>3
<1>2. CASE Begin
  BY <1>2, NoPages, BoundsAreNaturals DEF Begin, PagesAreTheFirst
<1>3. CASE NetworkError \/ Throttled \/ Unauthorized
  BY <1>3 DEF NetworkError, Throttled, Unauthorized, Send, InLoop, TryAgain, NextAttempt, Raise,
              ReadInv, PagesAreTheFirst
<1>4. CASE CredentialFails \/ Refused \/ Malformed \/ Exhausted
  BY <1>4 DEF CredentialFails, Refused, Malformed, Exhausted, Send, Raise, PagesAreTheFirst
<1>5. CASE AcquireToken \/ Expire \/ UNCHANGED vars
  BY <1>5 DEF AcquireToken, Expire, vars, ReadInv, PagesAreTheFirst
<1> QED
  BY <1>1, <1>2, <1>3, <1>4, <1>5 DEF Next, Step

\* The counts before the last attempt say how many there have been after it.
LEMMA ErrorKept ==
  ASSUME ReadInv, [Next]_vars
  PROVE  ErrorNamesItsCause'
<1>1. CASE NetworkError \/ Throttled
  <2>1. /\ sent = attempt /\ attempt <= maxRetries
        /\ attempt \in Nat /\ maxRetries \in Nat
    BY <1>1 DEF NetworkError, Throttled, Send, InLoop, ReadInv, Shape, AttemptsAreCounted
  <2>2. CASE attempt >= maxRetries
    BY <1>1, <2>1, <2>2 DEF NetworkError, Throttled, Send, InLoop, TryAgain, Raise,
                            ErrorNamesItsCause
  <2>3. CASE ~(attempt >= maxRetries)
    BY <1>1, <2>1, <2>3 DEF NetworkError, Throttled, Send, InLoop, TryAgain, NextAttempt,
                            ErrorNamesItsCause
  <2> QED
    BY <2>2, <2>3
<1>2. CASE Unauthorized
  BY <1>2 DEF Unauthorized, Send, InLoop, Rejection, NextAttempt, Raise, ErrorNamesItsCause
<1>3. CASE Exhausted
  BY <1>3 DEF Exhausted, Raise, ReadInv, Shape, AttemptsAreCounted, Rejections, ErrorNamesItsCause
<1>4. CASE CredentialFails \/ Refused \/ Malformed
  BY <1>4 DEF CredentialFails, Refused, Malformed, Send, Raise, ErrorNamesItsCause
<1>5. CASE AcquireToken \/ Page \/ Begin \/ Expire \/ UNCHANGED vars
  BY <1>5 DEF AcquireToken, InLoop, Page, Begin, Expire, vars, ReadInv, ErrorNamesItsCause
<1> QED
  BY <1>1, <1>2, <1>3, <1>4, <1>5 DEF Next, Step

LEMMA InvariantKept == ReadInv /\ [Next]_vars => ReadInv'
BY ShapeKept, AttemptsKept, PagesKept, ErrorKept DEF ReadInv

\* Every reachable state counts its attempts and holds the first pages.
THEOREM ReadInvariant == Spec => []ReadInv
BY Starts, InvariantKept, PTL DEF Spec

\* A read that fails names what its last attempt met, after as many attempts as the
\* client is allowed.
THEOREM ErrorNamesItsCauseHolds == Spec => []ErrorNamesItsCause
<1>1. ReadInv => ErrorNamesItsCause
  BY DEF ReadInv
<1> QED
  BY <1>1, ReadInvariant, PTL

-----------------------------------------------------------------------------
(* The refinement: attempts, refreshes and pages stutter, the last page      *)
(* delivers, a raise fails.                                                  *)

AbstractStep == [Paged!Next]_Paged!vars

LEMMA StepRefines ==
  ASSUME ReadInv, Step
  PROVE  AbstractStep
<1>1. phase = "request" /\ ~more /\ total' = total
  BY DEF Step, AcquireToken, CredentialFails, NetworkError, Throttled, Unauthorized, Refused,
         Malformed, Page, Exhausted, Send, InLoop, TryAgain, NextAttempt, Raise, ReadInv,
         PagesAreTheFirst
<1>2. CASE phase' = "request"
  BY <1>1, <1>2 DEF AbstractStep, Paged!vars
<1>3. CASE phase' = "failed"
  BY <1>1, <1>3 DEF AbstractStep, Paged!Next, Paged!Fail
<1>4. CASE phase' = "done"
  <2>1. /\ items' = FirstPages(IF total > MaxPages THEN MaxPages ELSE total)
        /\ (more' <=> total > MaxPages)
    BY <1>1, <1>4, PagesKept DEF Next, PagesAreTheFirst
  <2>2. Paged!Deliver
    BY <1>1, <1>4, <2>1 DEF Paged!Deliver, Paged!FirstPages, FirstPages
  <2> QED
    BY <2>2 DEF AbstractStep, Paged!Next
<1>5. phase' \in {"request", "failed", "done"}
  BY <1>1 DEF Step, AcquireToken, CredentialFails, NetworkError, Throttled, Unauthorized, Refused,
              Malformed, Page, Exhausted, Send, InLoop, TryAgain, NextAttempt, Raise
<1> QED
  BY <1>2, <1>3, <1>4, <1>5

\* Whatever the attempts meet, a read gives its caller the first pages up to the
\* budget and a flag that tells whether that is all, or an exception and nothing.
THEOREM ReadImplementsPagedRead == Spec => Implements
<1>1. Init => Paged!Init
  BY DEF Init, Paged!Init
<1>2. ReadInv /\ [Next]_vars => AbstractStep
  <2> SUFFICES ASSUME ReadInv, [Next]_vars PROVE AbstractStep
    OBVIOUS
  <2>1. CASE Step
    BY <2>1, StepRefines
  <2>2. CASE Begin
    BY <2>2 DEF Begin, ReadInv, Shape, AbstractStep, Paged!Next, Paged!Begin
  <2>3. CASE Expire \/ UNCHANGED vars
    BY <2>3 DEF Expire, vars, AbstractStep, Paged!vars
  <2> QED
    BY <2>1, <2>2, <2>3 DEF Next
<1> QED
  BY ReadInvariant, <1>1, <1>2, PTL DEF Spec, Implements, Paged!Spec, AbstractStep
=============================================================================
