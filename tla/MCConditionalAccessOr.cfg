SPECIFICATION Spec
CONSTANTS
  User <- Users
  Role <- AllRoles
  RolesOf <- Holds
  Client <- Clients
  Platform <- Systems
  Location <- Places
  PolicyId = {1, 2}
  Starts <- Tenants
  Changes <- FieldChanges
  MaxChanges = 2
  SignIns <- TwoApart
CHECK_DEADLOCK FALSE
INVARIANT OrGrantProvesNothing
