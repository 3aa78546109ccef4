SPECIFICATION Spec
CONSTANTS Key <- Keys
          CheckId <- Checks
          Profile <- NoProfiles
          Configs <- Selections
          LicenseCapability <- Licenses
          Subscriptions <- Tenants
          Defaulted <- WithDefault
          Catalog <- SmallCatalog
          OptionalMissing <- Optional
          ExchangeKey = 2
          Policies <- AllPolicies
          Scopes <- AllScopes
          MaxRules = 5
          MaxConditions = 1
          MaxSteps = 18
INVARIANTS VerdictIsGrounded FullyWorkingIsEarned EveryCapabilityIsCounted
           NotLicensedIsTrue
CHECK_DEADLOCK FALSE
