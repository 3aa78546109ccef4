SPECIFICATION Spec
CONSTANTS v1 = v1
          v2 = v2
          None = None
          Version <- TwoVersions
          AllowForce = TRUE
          Foreign = FALSE
          MaxOps = 3
          MaxCrashes = 1
INVARIANT OldOrNewVersionRuns
CHECK_DEADLOCK FALSE
