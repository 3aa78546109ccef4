\* every dependency graph over three keys, and the shapes of the runtime graph;
\* every health a collector may report
CONSTANTS
  Key = {1, 2, 3, 4, 5, 6}
  CheckId = {1, 2, 3, 4}
  Profile = {"smb", "full"}
  Configs <- AllInputs
  Outcome <- AllHealths
SPECIFICATION FairSpec
INVARIANTS
  TypeOK
  PlanOrder
  PlanExact
  RefusedIffDefective
  CallsJustified
  BlockedOnlyByDependency
  HealthyCheckIsGrounded
PROPERTIES
  Terminates
  Implements
CHECK_DEADLOCK FALSE
