SPECIFICATION FairSpec
CONSTANTS DemoRequests <- TwoDemos
          DiffRequests <- OneDiff
          Profiles <- WithUnknown
          KnownProfiles <- BuiltIn
          LastSecond = 1
INVARIANTS AtMostOneWorker CompleteMeansReport DemoScansPreserved
PROPERTY ScanEnds
CHECK_DEADLOCK FALSE
