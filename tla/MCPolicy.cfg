\* every check, over short lists and every loss of every read
SPECIFICATION PolicySpec
CONSTANTS
  Checks <- AllChecks
  Single <- SingleObjects
  Paged <- PagedAdapters
  Options <- AllOptions
  Names <- RowNames
  Given <- GivenProperties
  Details <- PerRowRequests
  MaxRows <- RowBounds
  MaxPolicyDetail = 2
  MaxTamperDevices = 1
  MinRules = 2
  MinTactics = 1
  MinConnected = 2
  MinEvaluable = 2
  DeadCap = 1
  CoreTables <- Catalog
INVARIANTS
  LostEvidenceIsNeverJudged
  LostReadsOnlyHide
  UnexposedNeverPasses
  RowOrderIsIrrelevant
  DisabledPoliciesDoNotCount
CHECK_DEADLOCK FALSE
