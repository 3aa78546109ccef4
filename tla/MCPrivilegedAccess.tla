------------------------- MODULE MCPrivilegedAccess ------------------------
(* Instances of PrivilegedAccess.  SignInTenants vary kinds of principals,   *)
(* sign-in logs up to one row past the budget of two pages of two rows, and  *)
(* assignments of an unprivileged role that may crowd out privileged ones;   *)
(* PimTenants vary standing and eligible access to two privileged roles.     *)
(* Four assignments, and three eligibilities, are one too many to be read.   *)
EXTENDS PrivilegedAccess

ThreeRoles == {"admin", "reader", "helpdesk"}
Logs == UNION {[1..n -> {"p1", "p2"}] : n \in 0..5}

SignInTenants ==
  {[assigned |-> (holders \X {"admin"}) \cup (helpers \X {"helpdesk"}), eligible |-> {},
    breakGlass |-> {}, kind |-> kind, log |-> log] :
     holders \in SUBSET {"p1", "p2"}, helpers \in {{}, {"p1", "p2"}},
     kind \in [{"p1", "p2"} -> Kinds],
     log \in Logs}

(* Only users sign in to the user log.                                       *)
Plausible(t) == \A p \in Range(t.log) : t.kind[p] \in {"user", "disabled", "unresolved"}

PimTenants ==
  {[assigned |-> assigned, eligible |-> eligible, breakGlass |-> breakGlass,
    kind |-> [p \in {"p1", "p2"} |-> "user"], log |-> <<>>] :
     assigned \in SUBSET ({"p1", "p2"} \X {"admin", "reader"}),
     eligible \in SUBSET ({"p1"} \X ThreeRoles),
     breakGlass \in SUBSET {"p1", "p2"}}

TwoPrincipals == {"p1", "p2"}
HighRoles == {"admin", "reader"}
AllTenants == {t \in SignInTenants : Plausible(t)} \cup PimTenants
ActiveUsers == {t \in SignInTenants : Range(t.kind) = {"user"}}
=============================================================================
