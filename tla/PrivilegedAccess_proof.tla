------------------------ MODULE PrivilegedAccess_proof -----------------------
(* The findings on privileged access say what is there, as far as the lists  *)
(* of roles were read, for any tenant, any budget of pages and any order of  *)
(* the collectors.                                                           *)
EXTENDS PrivilegedAccess, FiniteSetTheorems, TLAPS

Verdicts == {"ok", "partial", "gap"}
SignIns == health["recent_signin_user_ids"]

(* The shape of the state.                                                   *)
Shape == /\ tenant \in Tenants
         /\ health \in [Keys -> {"pending", "ok", "failed", "truncated"}]
         /\ pages \in Nat
         /\ flagged \in BOOLEAN
         /\ finding \in [Checks -> Verdicts \cup {"none", "error"}]

(* The sample is all that was read, unless it is flagged.                    *)
SampleIsRead == /\ SignIns = "ok" => sample = UsersRead
                /\ SignIns = "truncated" => flagged
                /\ SignIns # "truncated" => ~flagged

(* The lists hold nothing but what the tenant has.  Assignments that are     *)
(* neither pending nor failed are what a read may return, and eligibilities  *)
(* that were not read are none.                                              *)
ListsAreRead ==
  /\ assignments \subseteq tenant.assigned
  /\ \/ health["role_assignments"] \in {"pending", "failed"}
     \/ assignments \in Listed(tenant.assigned, MaxAssignments)
  /\ eligibilities \subseteq tenant.eligible
  /\ health["role_eligibilities"] \in {"pending", "failed"} => eligibilities = {}

(* A check is judged once all is collected, by what was collected, and only  *)
(* if nothing it requires failed.                                            *)
JudgedByEvidence ==
  /\ \A c \in Checks : finding[c] # "none" => Ready
  /\ Evaluated("dormant") => /\ ~Blocked("dormant")
                             /\ finding["dormant"] = DormantStatus
                             /\ dormant = Dormant
  /\ Evaluated("pim") => ~Blocked("pim") /\ finding["pim"] = PimStatus

PrivilegedInv == Shape /\ SampleIsRead /\ ListsAreRead /\ JudgedByEvidence

----------------------------------------------------------------------------
(* What the invariant says.                                                  *)

(* What is read is in the log, and all of it if no page is left.             *)
LEMMA ReadIsLogged ==
  ASSUME Shape
  PROVE  /\ UsersRead \subseteq SignedIn
         /\ ~MorePages => UsersRead = SignedIn
<1>1. tenant.log \in Seq(Principals)
  BY TenantsAreDirectories DEF Shape
<1>2. DOMAIN tenant.log = 1..Len(tenant.log) /\ Len(tenant.log) \in Nat
  BY <1>1
<1>3. pages * PageSize \in Nat
  BY PrivilegedAssumption DEF Shape
<1>4. ~MorePages => \A j \in DOMAIN tenant.log : j <= pages * PageSize
  BY <1>2, <1>3 DEF MorePages
<1> QED
  BY <1>4 DEF UsersRead, SignedIn, Range

(* Nothing that is listed is made up, and what fits is listed.               *)
LEMMA ListedIsThere ==
  ASSUME NEW rows, IsFiniteSet(rows), NEW budget \in Nat, NEW page \in Listed(rows, budget)
  PROVE  /\ page \subseteq rows
         /\ ~(Cardinality(rows) > budget) => page = rows
<1>1. Cardinality(rows) \in Nat
  BY FS_CardinalityType
<1> QED
  BY <1>1 DEF Listed

(* A judgement of either check has read all the assignments that fit.        *)
LEMMA JudgedLists ==
  ASSUME PrivilegedInv, NEW c \in Checks, Evaluated(c), ~AssignmentsCut
  PROVE  assignments = tenant.assigned
<1>1. Ready /\ ~Blocked(c)
  BY DEF PrivilegedInv, JudgedByEvidence, Evaluated, Checks
<1>2. "role_assignments" \in Required[c] /\ "role_assignments" \in Keys
  BY DEF Required, Checks, Keys
<1>3. assignments \in Listed(tenant.assigned, MaxAssignments)
  BY <1>1, <1>2 DEF Ready, Blocked, PrivilegedInv, ListsAreRead
<1>4. IsFiniteSet(tenant.assigned)
  BY TenantsAreDirectories DEF PrivilegedInv, Shape
<1> QED
  BY <1>3, <1>4, ListedIsThere, PrivilegedAssumption DEF AssignmentsCut

(* A judgement of dormancy has a sample that was read, or is flagged.        *)
LEMMA JudgedSample ==
  ASSUME PrivilegedInv, Evaluated("dormant")
  PROVE  /\ finding["dormant"] = DormantStatus /\ dormant = Dormant
         /\ flagged \/ sample = UsersRead
<1>1. Ready /\ ~Blocked("dormant")
  BY DEF PrivilegedInv, JudgedByEvidence, Evaluated, Checks
<1>2. "recent_signin_user_ids" \in Required["dormant"]
  BY DEF Required, Checks
<1>3. SignIns \in {"ok", "truncated"}
  BY <1>1, <1>2 DEF Ready, Blocked, SignIns, PrivilegedInv, Shape, Keys
<1> QED
  BY <1>3 DEF PrivilegedInv, JudgedByEvidence, SampleIsRead

(* Nobody is forgotten and nobody is accused.                                *)
LEMMA InvariantIsExact ==
  ASSUME PrivilegedInv
  PROVE  WholeLogIsExact
<1> DEFINE unused(p) == \/ tenant.kind[p] = "user" /\ p \notin SignedIn
                        \/ tenant.kind[p] = "unused_sp"
<1> SUFFICES ASSUME Evaluated("dormant"), ~flagged, ~MorePages
             PROVE  dormant \subseteq Unused /\ (~AssignmentsCut => dormant = Unused)
  BY DEF WholeLogIsExact
<1>1. dormant = {p \in Holders : unused(p)}
  <2>1. dormant = Dormant /\ sample = SignedIn
    BY JudgedSample, ReadIsLogged DEF PrivilegedInv
  <2> QED
    BY <2>1 DEF Dormant, OfKind
<1>2. Unused = {p \in {a[1] : a \in PrivilegedOf(tenant.assigned)} : unused(p)}
  BY DEF Unused
<1>3. PrivilegedOf(assignments) \subseteq PrivilegedOf(tenant.assigned)
  BY DEF PrivilegedInv, ListsAreRead, PrivilegedOf
<1>4. ~AssignmentsCut => assignments = tenant.assigned
  BY JudgedLists DEF Checks
<1> HIDE DEF unused
<1> QED
  BY <1>1, <1>2, <1>3, <1>4 DEF Holders

(* A clean pass of each check.                                               *)
LEMMA InvariantGroundsCleanPass ==
  ASSUME PrivilegedInv
  PROVE  CleanPassIsGrounded
<1>1. ASSUME finding["dormant"] = "ok", NEW a \in PrivilegedOf(assignments)
      PROVE  /\ tenant.kind[a[1]] \notin {"sp", "unused_sp"}
             /\ tenant.kind[a[1]] = "user" => a[1] \in SignedIn
  <2>1. DormantStatus = "ok" /\ (flagged \/ sample = UsersRead)
    BY <1>1, JudgedSample DEF Evaluated
  <2>2. /\ ~(Cardinality(Dormant) > 1) /\ Cardinality(Dormant) # 1
        /\ Unverifiable = {} /\ ~flagged
    BY <2>1 DEF DormantStatus
  <2>3. IsFiniteSet(Dormant)
    <3>1. IsFiniteSet(PrivilegedOf(assignments))
      <4>1. IsFiniteSet(tenant.assigned)
        BY TenantsAreDirectories DEF PrivilegedInv, Shape
      <4>2. PrivilegedOf(assignments) \in SUBSET tenant.assigned
        BY DEF PrivilegedInv, ListsAreRead, PrivilegedOf
      <4> QED
        BY <4>1, <4>2, FS_Subset
    <3>2. IsFiniteSet(Holders)
      <4> DEFINE f == [b \in PrivilegedOf(assignments) |-> b[1]]
      <4>1. f \in Surjection(PrivilegedOf(assignments), Holders)
        BY DEF Surjection, Holders
      <4> QED
        BY <3>1, <4>1, FS_Surjection
    <3>3. Dormant \in SUBSET Holders
      BY DEF Dormant, OfKind
    <3> QED
      BY <3>2, <3>3, FS_Subset
  <2>4. Dormant = {}
    <3>1. Cardinality(Dormant) \in Nat
      BY <2>3, FS_CardinalityType
    <3>2. Cardinality(Dormant) = 0
      BY <2>2, <3>1
    <3> QED
      BY <2>3, <3>2, FS_EmptySet
  <2>5. sample \subseteq SignedIn
    BY <2>1, <2>2, ReadIsLogged DEF PrivilegedInv
  <2>6. \A q \in SignedIn : tenant.kind[q] # "sp"
    BY TenantsAreDirectories DEF PrivilegedInv, Shape, SignedIn
  <2>7. a[1] \in Holders
    BY DEF Holders
  <2> QED
    BY <2>2, <2>4, <2>5, <2>6, <2>7 DEF Dormant, Unverifiable, OfKind
<1>2. ASSUME finding["pim"] = "ok", NEW a \in PrivilegedOf(assignments)
      PROVE  /\ a[1] \in tenant.breakGlass
             /\ \E p \in Principals : <<p, a[2]>> \in tenant.eligible
  <2>1. PimStatus = "ok"
    BY <1>2 DEF PrivilegedInv, JudgedByEvidence, Evaluated
  <2>2. Eligible # {} /\ StandingBeyondBreakGlass = {} /\ Uncovered = {}
    BY <2>1 DEF PimStatus
  <2>3. a[1] \in tenant.breakGlass
    BY <2>2 DEF StandingBeyondBreakGlass, Holders
  <2>4. PICK e \in Eligible : e[2] = a[2]
    BY <2>2 DEF Uncovered
  <2>5. e \in tenant.eligible /\ e \in Principals \X Roles
    BY <2>4, TenantsAreDirectories DEF Eligible, PrivilegedOf, PrivilegedInv, ListsAreRead, Shape
  <2>6. e = <<e[1], a[2]>> /\ e[1] \in Principals
    BY <2>4, <2>5
  <2> QED
    BY <2>3, <2>5, <2>6
<1>3. ASSUME NEW c \in Checks, Evaluated(c), NEW a \in PrivilegedOf(tenant.assigned),
             ~Unlisted(a)
      PROVE  a \in PrivilegedOf(assignments)
  BY <1>3, JudgedLists DEF Unlisted, PrivilegedOf
<1>4. ASSUME NEW c \in Checks, finding[c] = "ok", NEW a \in PrivilegedOf(tenant.assigned),
             ~Unlisted(a)
      PROVE  a \in PrivilegedOf(assignments)
  BY <1>3, <1>4 DEF Evaluated
<1> QED
  BY <1>1, <1>2, <1>4 DEF CleanPassIsGrounded, Checks

(* What failed is not judged, or not found to be in order.                   *)
LEMMA InvariantJudgesNoFailure ==
  ASSUME PrivilegedInv
  PROVE  FailedReadIsNeverJudged
<1>1. /\ "role_assignments" \in Required["dormant"] /\ "role_assignments" \in Required["pim"]
      /\ "recent_signin_user_ids" \in Required["dormant"]
      /\ "principal_directory" \in Required["dormant"]
  BY DEF Required, Checks
<1>2. health["role_eligibilities"] = "failed" => finding["pim"] # "ok"
  <2> SUFFICES ASSUME health["role_eligibilities"] = "failed", finding["pim"] = "ok"
               PROVE  FALSE
    OBVIOUS
  <2>1. Eligible = {}
    BY DEF PrivilegedInv, ListsAreRead, Eligible, PrivilegedOf
  <2>2. PimStatus = "ok"
    BY DEF PrivilegedInv, JudgedByEvidence, Evaluated
  <2> QED
    BY <2>1, <2>2 DEF PimStatus
<1> QED
  BY <1>1, <1>2 DEF FailedReadIsNeverJudged, PrivilegedInv, JudgedByEvidence, Blocked, Checks

----------------------------------------------------------------------------
(* Every step keeps the invariant.                                           *)

(* While something is still to be collected, nothing has been judged.        *)
LEMMA NothingJudgedYet ==
  ASSUME PrivilegedInv, NEW k \in Keys, health[k] = "pending", UNCHANGED finding
  PROVE  JudgedByEvidence'
<1>1. \A c \in Checks : finding[c] = "none"
  BY DEF PrivilegedInv, JudgedByEvidence, Ready
<1> QED
  BY <1>1 DEF JudgedByEvidence, Evaluated, Checks

(* The outcome of another collector than that of the sign-ins, if the lists  *)
(* are as they should be after it.                                           *)
LEMMA OtherOutcome ==
  ASSUME PrivilegedInv, NEW k \in Keys \ {"recent_signin_user_ids"},
         NEW h \in {"ok", "failed"}, Outcome(k, h), ListsAreRead',
         UNCHANGED <<tenant, signins, results>>
  PROVE  PrivilegedInv'
<1>1. /\ health[k] = "pending" /\ health' = [health EXCEPT ![k] = h]
      /\ health \in [Keys -> {"pending", "ok", "failed", "truncated"}]
  BY DEF Outcome, PrivilegedInv, Shape
<1>2. Shape'
  BY <1>1 DEF PrivilegedInv, Shape, signins, results
<1>3. SignIns' = SignIns
  BY <1>1 DEF SignIns
<1>4. SampleIsRead'
  BY <1>3 DEF PrivilegedInv, SampleIsRead, UsersRead, signins
<1>5. JudgedByEvidence'
  BY <1>1, NothingJudgedYet DEF results
<1> QED
  BY <1>2, <1>4, <1>5 DEF PrivilegedInv

(* The two lists of roles, and the directory, which leaves them alone.       *)
LEMMA ReadsKeepLists ==
  ASSUME PrivilegedInv, ReadAssignments \/ ReadEligibilities \/ LookUpDirectory
  PROVE  ListsAreRead'
<1>1. /\ health \in [Keys -> {"pending", "ok", "failed", "truncated"}]
      /\ IsFiniteSet(tenant.assigned) /\ IsFiniteSet(tenant.eligible)
      /\ "role_assignments" \in Keys /\ "role_eligibilities" \in Keys
  BY TenantsAreDirectories DEF PrivilegedInv, Shape, Keys
<1>2. CASE ReadAssignments
  <2>1. tenant' = tenant /\ eligibilities' = eligibilities
    BY <1>2 DEF ReadAssignments
  <2>2. PICK h \in {"ok", "failed"} :
          /\ health' = [health EXCEPT !["role_assignments"] = h]
          /\ h = "ok" => assignments' \in Listed(tenant.assigned, MaxAssignments)
          /\ h = "failed" => assignments' = assignments
    BY <1>2 DEF ReadAssignments, Outcome
  <2>3. assignments' \subseteq tenant.assigned
    BY <1>1, <2>2, ListedIsThere, PrivilegedAssumption DEF PrivilegedInv, ListsAreRead
  <2>4. /\ health'["role_assignments"] = h
        /\ health'["role_eligibilities"] = health["role_eligibilities"]
    BY <1>1, <2>2
  <2> QED
    BY <2>1, <2>2, <2>3, <2>4 DEF PrivilegedInv, ListsAreRead, Listed
<1>3. CASE ReadEligibilities
  <2>1. tenant' = tenant /\ assignments' = assignments
    BY <1>3 DEF ReadEligibilities
  <2>2. PICK h \in {"ok", "failed"} :
          /\ health' = [health EXCEPT !["role_eligibilities"] = h]
          /\ h = "ok" => eligibilities' \in Listed(tenant.eligible, MaxEligibilities)
          /\ h = "failed" => eligibilities' = {}
    BY <1>3 DEF ReadEligibilities, Outcome
  <2>3. eligibilities' \subseteq tenant.eligible
    BY <1>1, <2>2, ListedIsThere, PrivilegedAssumption
  <2>4. /\ health'["role_eligibilities"] = h
        /\ health'["role_assignments"] = health["role_assignments"]
    BY <1>1, <2>2
  <2> QED
    BY <2>1, <2>2, <2>3, <2>4 DEF PrivilegedInv, ListsAreRead, Listed
<1>4. CASE LookUpDirectory
  <2>1. UNCHANGED <<tenant, assignments, eligibilities>>
    BY <1>4 DEF LookUpDirectory, lists
  <2>2. PICK h : health' = [health EXCEPT !["principal_directory"] = h]
    BY <1>4 DEF LookUpDirectory, Outcome
  <2>3. /\ health'["role_assignments"] = health["role_assignments"]
        /\ health'["role_eligibilities"] = health["role_eligibilities"]
    BY <1>1, <2>2
  <2> QED
    BY <2>1, <2>3 DEF PrivilegedInv, ListsAreRead, Listed
<1> QED
  BY <1>2, <1>3, <1>4

(* The pages of the log and the sample made of them.                         *)
LEMMA SignInsKeepInv ==
  ASSUME PrivilegedInv, ReadSignInPage \/ FailSignIns \/ SampleSignIns
  PROVE  PrivilegedInv'
<1> DEFINE key == "recent_signin_user_ids"
<1>1. health[key] = "pending" /\ key \in Keys /\ UNCHANGED finding
  BY DEF ReadSignInPage, FailSignIns, SampleSignIns, Outcome, Keys, results
<1>2. JudgedByEvidence'
  BY <1>1, NothingJudgedYet
<1>3. health \in [Keys -> {"pending", "ok", "failed", "truncated"}] /\ ~flagged
  BY <1>1 DEF PrivilegedInv, Shape, SampleIsRead, SignIns
<1>4. ListsAreRead'
  <2>1. UNCHANGED <<tenant, assignments, eligibilities>>
    BY DEF ReadSignInPage, FailSignIns, SampleSignIns, lists
  <2>2. /\ health'["role_assignments"] = health["role_assignments"]
        /\ health'["role_eligibilities"] = health["role_eligibilities"]
    BY <1>3 DEF ReadSignInPage, FailSignIns, SampleSignIns, Outcome, Keys
  <2> QED
    BY <2>1, <2>2 DEF PrivilegedInv, ListsAreRead, Listed
<1>5. CASE ReadSignInPage
  BY <1>1, <1>2, <1>4, <1>5 DEF ReadSignInPage, PrivilegedInv, Shape, SampleIsRead, SignIns
<1>6. CASE FailSignIns
  <2>1. health' = [health EXCEPT ![key] = "failed"]
          /\ UNCHANGED <<tenant, pages, sample, flagged, finding>>
    BY <1>6 DEF FailSignIns, Outcome, signins, results
  <2>2. SignIns' = "failed"
    BY <1>1, <1>3, <2>1 DEF SignIns
  <2>3. Shape'
    BY <1>3, <2>1 DEF PrivilegedInv, Shape
  <2>4. SampleIsRead'
    BY <1>3, <2>1, <2>2 DEF SampleIsRead
  <2> QED
    BY <1>2, <1>4, <2>3, <2>4 DEF PrivilegedInv
<1>7. CASE SampleSignIns
  <2>1. UNCHANGED <<tenant, pages, finding>> /\ UsersRead' = UsersRead
    BY <1>7 DEF SampleSignIns, UsersRead, results
  <2>2. CASE health' = [health EXCEPT ![key] = "ok"] /\ sample' = UsersRead /\ flagged' = flagged
    <3>1. SignIns' = "ok"
      BY <1>1, <1>3, <2>2 DEF SignIns
    <3>2. Shape'
      BY <1>3, <2>1, <2>2 DEF PrivilegedInv, Shape
    <3>3. SampleIsRead'
      BY <1>3, <2>1, <2>2, <3>1 DEF SampleIsRead
    <3> QED
      BY <1>2, <1>4, <3>2, <3>3 DEF PrivilegedInv
  <2>3. CASE health' = [health EXCEPT ![key] = "truncated"] /\ flagged' = TRUE
    <3>1. SignIns' = "truncated"
      BY <1>1, <1>3, <2>3 DEF SignIns
    <3>2. Shape'
      BY <1>3, <2>1, <2>3 DEF PrivilegedInv, Shape
    <3>3. SampleIsRead'
      BY <2>3, <3>1 DEF SampleIsRead
    <3> QED
      BY <1>2, <1>4, <3>2, <3>3 DEF PrivilegedInv
  <2> QED
    BY <1>7, <2>2, <2>3 DEF SampleSignIns, Outcome
<1> QED
  BY <1>5, <1>6, <1>7

(* What a judgement is made of stays, if evidence and sample do.             *)
LEMMA SameEvidence ==
  ASSUME UNCHANGED <<tenant, health, lists, signins>>
  PROVE  /\ Ready' <=> Ready
         /\ DormantStatus' = DormantStatus /\ Dormant' = Dormant /\ PimStatus' = PimStatus
         /\ SignIns' = SignIns /\ UsersRead' = UsersRead
         /\ \A c : Blocked(c)' <=> Blocked(c)
         /\ ListsAreRead' <=> ListsAreRead
<1> USE DEF lists, signins
<1>1. \A kind : OfKind(kind)' = OfKind(kind)
  BY DEF OfKind, Holders
<1>2. Dormant' = Dormant /\ Unverifiable' = Unverifiable /\ Holders' = Holders
  BY <1>1 DEF Dormant, Unverifiable, Holders
<1>3. DormantStatus' = DormantStatus
  BY <1>2 DEF DormantStatus
<1>4. PimStatus' = PimStatus
  BY <1>2 DEF PimStatus, Eligible, StandingBeyondBreakGlass, Uncovered
<1>5. /\ (Ready' <=> Ready) /\ SignIns' = SignIns /\ UsersRead' = UsersRead
      /\ \A c : Blocked(c)' <=> Blocked(c)
  BY DEF Ready, SignIns, UsersRead, Blocked
<1>6. ListsAreRead' <=> ListsAreRead
  BY DEF ListsAreRead, Listed
<1> QED
  BY <1>2, <1>3, <1>4, <1>5, <1>6

(* The two checks.                                                           *)
LEMMA EvaluationKeepsInv ==
  ASSUME PrivilegedInv, EvaluateDormant \/ EvaluatePim
  PROVE  PrivilegedInv'
<1>1. Ready /\ UNCHANGED <<tenant, health, lists, signins>>
  BY DEF EvaluateDormant, EvaluatePim
<1>2. /\ Ready' /\ DormantStatus' = DormantStatus /\ Dormant' = Dormant
      /\ PimStatus' = PimStatus /\ SignIns' = SignIns /\ UsersRead' = UsersRead
      /\ \A c : Blocked(c)' <=> Blocked(c)
      /\ ListsAreRead'
  BY <1>1, SameEvidence DEF PrivilegedInv
<1>3. finding \in [Checks -> Verdicts \cup {"none", "error"}]
  BY DEF PrivilegedInv, Shape
<1>4. DormantStatus \in Verdicts /\ PimStatus \in Verdicts
  BY DEF DormantStatus, PimStatus, Verdicts
<1>5. SampleIsRead'
  BY <1>1, <1>2 DEF PrivilegedInv, SampleIsRead, signins
<1>6. finding' \in [Checks -> Verdicts \cup {"none", "error"}] => Shape'
  BY <1>1 DEF PrivilegedInv, Shape, signins
<1>7. CASE EvaluateDormant
  <2>1. finding'["pim"] = finding["pim"]
    BY <1>3, <1>7 DEF EvaluateDormant, Checks
  <2>2. \/ finding'["dormant"] = "error"
        \/ /\ finding'["dormant"] = DormantStatus /\ dormant' = Dormant
           /\ ~Blocked("dormant")
    BY <1>3, <1>7 DEF EvaluateDormant, Checks
  <2>3. finding' \in [Checks -> Verdicts \cup {"none", "error"}]
    BY <1>3, <1>4, <1>7 DEF EvaluateDormant
  <2>4. JudgedByEvidence'
    BY <1>2, <2>1, <2>2 DEF PrivilegedInv, JudgedByEvidence, Evaluated
  <2> QED
    BY <1>2, <1>5, <1>6, <2>3, <2>4 DEF PrivilegedInv
<1>8. CASE EvaluatePim
  <2>1. finding'["dormant"] = finding["dormant"] /\ dormant' = dormant
    BY <1>3, <1>8 DEF EvaluatePim, Checks
  <2>2. \/ finding'["pim"] = "error"
        \/ finding'["pim"] = PimStatus /\ ~Blocked("pim")
    BY <1>3, <1>8 DEF EvaluatePim, Checks
  <2>3. finding' \in [Checks -> Verdicts \cup {"none", "error"}]
    BY <1>3, <1>4, <1>8 DEF EvaluatePim
  <2>4. JudgedByEvidence'
    BY <1>2, <2>1, <2>2 DEF PrivilegedInv, JudgedByEvidence, Evaluated
  <2> QED
    BY <1>2, <1>5, <1>6, <2>3, <2>4 DEF PrivilegedInv
<1> QED
  BY <1>7, <1>8

(* The first state.                                                          *)
LEMMA InitEstablishesInv ==
  ASSUME Init
  PROVE  PrivilegedInv
<1>1. Shape
  BY DEF Init, Shape
<1>2. SampleIsRead
  BY DEF Init, SampleIsRead, SignIns, Keys
<1>3. JudgedByEvidence
  BY DEF Init, JudgedByEvidence, Evaluated, Checks
<1>4. ListsAreRead
  BY DEF Init, ListsAreRead, Keys
<1> QED
  BY <1>1, <1>2, <1>3, <1>4 DEF PrivilegedInv

(* A step that changes nothing.                                              *)
LEMMA StutterKeepsInv ==
  ASSUME PrivilegedInv, UNCHANGED vars
  PROVE  PrivilegedInv'
<1>1. UNCHANGED <<tenant, health, lists, signins, results>>
  BY DEF vars
<1>2. /\ Ready' <=> Ready
      /\ DormantStatus' = DormantStatus /\ Dormant' = Dormant /\ PimStatus' = PimStatus
      /\ SignIns' = SignIns /\ UsersRead' = UsersRead
      /\ \A c : Blocked(c)' <=> Blocked(c)
      /\ ListsAreRead'
  BY <1>1, SameEvidence DEF PrivilegedInv
<1>3. Shape' /\ SampleIsRead'
  BY <1>1, <1>2 DEF PrivilegedInv, Shape, SampleIsRead, signins, results
<1>4. JudgedByEvidence'
  BY <1>1, <1>2 DEF PrivilegedInv, JudgedByEvidence, Evaluated, results
<1> QED
  BY <1>2, <1>3, <1>4 DEF PrivilegedInv

----------------------------------------------------------------------------
(* The theorems.                                                             *)

(* Evidence, sample and findings are consistent all along.                   *)
THEOREM PrivilegedInvariant == Spec => []PrivilegedInv
<1>1. PrivilegedInv /\ [Next]_vars => PrivilegedInv'
  <2> SUFFICES ASSUME PrivilegedInv, [Next]_vars PROVE PrivilegedInv'
    OBVIOUS
  <2>1. CASE ReadAssignments
    BY <2>1, ReadsKeepLists, OtherOutcome DEF ReadAssignments, Keys
  <2>2. CASE ReadEligibilities
    BY <2>2, ReadsKeepLists, OtherOutcome DEF ReadEligibilities, Keys
  <2>3. CASE LookUpDirectory
    BY <2>3, ReadsKeepLists, OtherOutcome DEF LookUpDirectory, Keys
  <2>4. CASE ReadSignInPage \/ FailSignIns \/ SampleSignIns
    BY <2>4, SignInsKeepInv
  <2>5. CASE EvaluateDormant \/ EvaluatePim
    BY <2>5, EvaluationKeepsInv
  <2>6. CASE UNCHANGED vars
    BY <2>6, StutterKeepsInv
  <2> QED
    BY <2>1, <2>2, <2>3, <2>4, <2>5, <2>6 DEF Next
<1> QED
  BY <1>1, InitEstablishesInv, PTL DEF Spec

(* The whole log, unflagged, makes the report exact, as far as the role      *)
(* assignments were read.                                                    *)
THEOREM WholeLogIsExactHolds == Spec => []WholeLogIsExact
BY PrivilegedInvariant, InvariantIsExact, PTL

(* A clean pass of either check is grounded in the tenant, but for the       *)
(* assignments that did not fit the pages read.                              *)
THEOREM CleanPassIsGroundedHolds == Spec => []CleanPassIsGrounded
BY PrivilegedInvariant, InvariantGroundsCleanPass, PTL

(* A failed read is never judged, and one of the PIM schedules never passes. *)
THEOREM FailedReadIsNeverJudgedHolds == Spec => []FailedReadIsNeverJudged
BY PrivilegedInvariant, InvariantJudgesNoFailure, PTL
=============================================================================
