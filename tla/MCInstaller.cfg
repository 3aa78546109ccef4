SPECIFICATION Spec
CONSTANTS v1 = v1
          v2 = v2
          None = None
          Version <- TwoVersions
          AllowForce = TRUE
          Foreign = TRUE
          MaxOps = 4
          MaxCrashes = 2
INVARIANTS MarkersAreRunnable MarkerAndRecordAgree UninstallLeavesNothing AddedEntryGoes
CHECK_DEADLOCK FALSE
