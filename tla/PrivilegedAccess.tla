-------------------------- MODULE PrivilegedAccess -------------------------
(* The two privileged-identity checks, from the reads they rest on to their  *)
(* findings: directory role assignments, PIM eligibilities, the paged sample *)
(* of successful sign-ins and the directory lookup of the role holders, then *)
(* id-dormant-privileged and id-pim-unused behind the evaluation gate and    *)
(* the quality policy.                                                       *)
(*                                                                           *)
(* A tenant is a record: assigned and eligible are sets of <<principal,      *)
(* role>>, kind classifies the directory objects, log is the sequence of     *)
(* principals of the sign-in log.  A list of roles is read up to a budget of *)
(* pages, and what lies behind them is left out without a word.              *)
EXTENDS Integers, Sequences, FiniteSets, Functions

CONSTANTS Principals, Roles,
          PrivilegedRoles,     \* the roles that the checks are about
          Tenants,     \* the tenants a scan may meet
          PageSize,    \* rows of a sign-in page ($top=500)
          MaxPages,    \* page budget (15)
          FlagAt,      \* distinct users that flag the sample (max_pages * 400)
          MaxAssignments, MaxEligibilities  \* rows of the 30 and of the 20 pages read

ASSUME PrivilegedAssumption ==
  /\ PageSize \in Nat \ {0} /\ MaxPages \in Nat \ {0} /\ FlagAt \in Nat
  /\ MaxAssignments \in Nat /\ MaxEligibilities \in Nat

VARIABLES tenant,    \* what is there to be read
          health,    \* evidence key -> outcome of its collector
          assignments, eligibilities,  \* the lists as they were read
          pages,     \* sign-in pages read
          sample,    \* recent_signin_user_ids as evaluators see it
          flagged,   \* signin_sample_truncated
          finding,   \* check -> status
          dormant    \* the principals id-dormant-privileged reports

lists == <<assignments, eligibilities>>
signins == <<pages, sample, flagged>>
results == <<finding, dormant>>
vars == <<tenant, health, lists, signins, results>>

Keys == {"role_assignments", "role_eligibilities", "recent_signin_user_ids",
         "principal_directory"}
Checks == {"dormant", "pim"}
Kinds == {"user",        \* an enabled user
          "disabled",    \* a disabled user or service principal
          "group",       \* holds a role, cannot sign in
          "unresolved",  \* not returned by the directory
          "unused_sp",   \* an enabled service principal without credentials
          "sp"}          \* one with credentials: its use is not collected

(* Of what a directory may hold.  The sign-in log is that of interactive     *)
(* sign-ins: who is in it is, or was, a user.                                *)
ASSUME TenantsAreDirectories ==
  \A t \in Tenants :
    /\ t.assigned \subseteq Principals \X Roles /\ IsFiniteSet(t.assigned)
    /\ t.eligible \subseteq Principals \X Roles /\ IsFiniteSet(t.eligible)
    /\ t.kind \in [Principals -> Kinds] /\ t.log \in Seq(Principals)
    /\ \A p \in Range(t.log) : t.kind[p] \in {"user", "disabled", "unresolved"}

Init == /\ tenant \in Tenants
        /\ health = [k \in Keys |-> "pending"]
        /\ assignments = {} /\ eligibilities = {}
        /\ pages = 0
        /\ sample = {}
        /\ flagged = FALSE
        /\ finding = [c \in Checks |-> "none"]
        /\ dormant = {}

PrivilegedOf(rows) == {a \in rows : a[2] \in PrivilegedRoles}
Holders == {a[1] : a \in PrivilegedOf(assignments)}

(* Mutant of UsersRead: the last row of a page is dropped.                   *)
UsersReadButLast == {tenant.log[i] : i \in {j \in DOMAIN tenant.log : j < pages * PageSize}}

UsersRead == {tenant.log[i] : i \in {j \in DOMAIN tenant.log : j <= pages * PageSize}}
MorePages == Len(tenant.log) > pages * PageSize

Outcome(k, h) == /\ health[k] = "pending"
                 /\ health' = [health EXCEPT ![k] = h]

----------------------------------------------------------------------------
(* Collection.  The collectors share nothing but the assignments, which the  *)
(* directory lookup depends on: any order that respects this may be planned. *)
(* What get_list may return of rows: all of them, or those of its pages.  It *)
(* drops the mark that tells one from the other.                             *)
Listed(rows, budget) ==
  IF Cardinality(rows) <= budget THEN {rows}
  ELSE {page \in SUBSET rows : Cardinality(page) = budget}

ReadAssignments ==
  /\ \/ /\ Outcome("role_assignments", "ok")
        /\ assignments' \in Listed(tenant.assigned, MaxAssignments)
     \/ /\ Outcome("role_assignments", "failed")
        /\ UNCHANGED assignments
  /\ UNCHANGED <<tenant, eligibilities, signins, results>>

(* A refused read of the PIM schedules is taken for an empty one.            *)
ReadEligibilities ==
  /\ \/ /\ Outcome("role_eligibilities", "ok")
        /\ eligibilities' \in Listed(tenant.eligible, MaxEligibilities)
     \/ /\ Outcome("role_eligibilities", "failed")
        /\ eligibilities' = {}
  /\ UNCHANGED <<tenant, assignments, signins, results>>

(* The sign-ins are read by the same loop, one page of it at a time.         *)
ReadMore == pages = 0 \/ (MorePages /\ pages < MaxPages)

ReadSignInPage ==
  /\ health["recent_signin_user_ids"] = "pending"
  /\ ReadMore
  /\ pages' = pages + 1
  /\ UNCHANGED <<tenant, health, lists, sample, flagged, results>>

FailSignIns ==
  /\ ReadMore
  /\ Outcome("recent_signin_user_ids", "failed")
  /\ UNCHANGED <<tenant, lists, signins, results>>

(* The sample is judged by its distinct users, not by the pages left.        *)
SampleLooksCut(users) == Cardinality(users) >= FlagAt

(* A flagged sample becomes an envelope without a value.                     *)
SampleSignIns ==
  /\ ~ReadMore
  /\ \/ /\ ~SampleLooksCut(UsersRead)
        /\ Outcome("recent_signin_user_ids", "ok")
        /\ sample' = UsersRead
        /\ UNCHANGED flagged
     \/ /\ SampleLooksCut(UsersRead)
        /\ Outcome("recent_signin_user_ids", "truncated")
        /\ flagged' = TRUE
        /\ UNCHANGED sample
  /\ UNCHANGED <<tenant, lists, pages, results>>

(* The lookup runs once the assignments are healthy, without a request when  *)
(* nobody holds a role, and is blocked when they failed.                     *)
LookUpDirectory ==
  /\ health["role_assignments"] # "pending"
  /\ \/ health["role_assignments"] = "ok" /\ Outcome("principal_directory", "ok")
     \/ /\ health["role_assignments"] = "failed" \/ Holders # {}
        /\ Outcome("principal_directory", "failed")
  /\ UNCHANGED <<tenant, lists, signins, results>>

----------------------------------------------------------------------------
(* evaluate_check: the error of a required key ends the evaluation.          *)
(* role_eligibilities is optional, and its failure left no error behind.     *)
Required == [c \in Checks |->
  IF c = "dormant" THEN {"role_assignments", "recent_signin_user_ids", "principal_directory"}
                   ELSE {"role_assignments"}]

(* Mutant of Blocked: only the assignments are looked at.                    *)
BlockedByAssignments(c) == health["role_assignments"] = "failed"

Blocked(c) == \E k \in Required[c] : health[k] = "failed"

(* evaluate_dormant_privileged.                                              *)
OfKind(kind) == {p \in Holders : tenant.kind[p] = kind}
Dormant == (OfKind("user") \ sample) \cup OfKind("unused_sp")

(* Mutant of Unverifiable: credentials alone are taken for activity.         *)
NoneUnverifiable == {}

Unverifiable == OfKind("sp") \ sample

DormantStatus ==
  IF Holders = {}                  THEN "partial"
  ELSE IF Cardinality(Dormant) > 1 THEN "gap"
  ELSE IF Cardinality(Dormant) = 1 \/ Unverifiable # {} \/ flagged THEN "partial"
  ELSE "ok"

(* evaluate_pim_unused.                                                      *)
Eligible == PrivilegedOf(eligibilities)
Uncovered == {a[2] : a \in PrivilegedOf(assignments)} \ {e[2] : e \in Eligible}
StandingBeyondBreakGlass == Holders \ tenant.breakGlass

PimStatus ==
  CASE Holders # {} /\ Eligible = {} -> "gap"
    [] Eligible # {} /\ StandingBeyondBreakGlass = {} /\ Uncovered = {} -> "ok"
    [] OTHER -> "partial"

Ready == \A k \in Keys : health[k] # "pending"

(* run_scan evaluates once everything is collected.                          *)
EvaluateDormant ==
  /\ Ready /\ finding["dormant"] = "none"
  /\ \/ /\ Blocked("dormant")
        /\ finding' = [finding EXCEPT !["dormant"] = "error"]
        /\ UNCHANGED dormant
     \/ /\ ~Blocked("dormant")
        /\ finding' = [finding EXCEPT !["dormant"] = DormantStatus]
        /\ dormant' = Dormant
  /\ UNCHANGED <<tenant, health, lists, signins>>

EvaluatePim ==
  /\ Ready /\ finding["pim"] = "none"
  /\ \/ Blocked("pim") /\ finding' = [finding EXCEPT !["pim"] = "error"]
     \/ ~Blocked("pim") /\ finding' = [finding EXCEPT !["pim"] = PimStatus]
  /\ UNCHANGED <<tenant, health, lists, signins, dormant>>

Next == \/ ReadAssignments \/ ReadEligibilities
        \/ ReadSignInPage \/ FailSignIns \/ SampleSignIns
        \/ LookUpDirectory
        \/ EvaluateDormant \/ EvaluatePim

Spec == Init /\ [][Next]_vars

----------------------------------------------------------------------------
SignedIn == Range(tenant.log)
Evaluated(c) == finding[c] \in {"ok", "partial", "gap"}

(* The tenant's assignments did not fit the pages that were read.            *)
AssignmentsCut == Cardinality(tenant.assigned) > MaxAssignments
Unlisted(a) == AssignmentsCut /\ a \notin assignments

(* The enabled users who hold a privileged role and did not sign in, and the *)
(* service principals with one that nobody can sign in with.                 *)
Unused == {a[1] : a \in {b \in PrivilegedOf(tenant.assigned) :
                           \/ tenant.kind[b[1]] = "user" /\ b[1] \notin SignedIn
                           \/ tenant.kind[b[1]] = "unused_sp"}}

(* When the whole log was read and not flagged, the report accuses nobody    *)
(* but them, and it names all of them if the role assignments fit the pages  *)
(* that are read of them.                                                    *)
WholeLogIsExact ==
  Evaluated("dormant") /\ ~flagged /\ ~MorePages =>
    /\ dormant \subseteq Unused
    /\ ~AssignmentsCut => dormant = Unused

(* A clean pass is never a guess about an assignment that was read: every    *)
(* enabled user with a privileged role did sign in and no service principal  *)
(* is left unverified; standing access belongs to break-glass accounts alone *)
(* and an eligibility covers its every role.  Nothing of this can be said of *)
(* the assignments that the page budget cut off (privileged_roles.py:89),    *)
(* and there are none of these if the tenant's assignments fit.              *)
CleanPassIsGrounded ==
  /\ finding["dormant"] = "ok" =>
       \A a \in PrivilegedOf(tenant.assigned) :
         Unlisted(a) \/ /\ tenant.kind[a[1]] \notin {"sp", "unused_sp"}
                        /\ tenant.kind[a[1]] = "user" => a[1] \in SignedIn
  /\ finding["pim"] = "ok" =>
       \A a \in PrivilegedOf(tenant.assigned) :
         Unlisted(a) \/ /\ a[1] \in tenant.breakGlass
                        /\ \E p \in Principals : <<p, a[2]>> \in tenant.eligible

(* A read that failed is reported as an error, never as a verdict, whichever *)
(* of a check's required reads it was and whatever the others returned.  A   *)
(* failed read of the PIM schedules, which counts as an empty one, does not  *)
(* make a clean pass.                                                        *)
FailedReadIsNeverJudged ==
  /\ health["role_assignments"] = "failed" => \A c \in Checks : ~Evaluated(c)
  /\ "failed" \in {health["recent_signin_user_ids"], health["principal_directory"]} =>
       ~Evaluated("dormant")
  /\ health["role_eligibilities"] = "failed" => finding["pim"] # "ok"

(* "Find enabled privileged principals with no successful sign-in": a user   *)
(* whose sign-in the collector read is not reported.                         *)
SeenUsersAreNotDormant ==
  \A p \in dormant : p \in UsersRead => tenant.kind[p] # "user"
=============================================================================
