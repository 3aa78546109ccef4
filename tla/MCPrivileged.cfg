SPECIFICATION Spec
CONSTANTS Principals <- TwoPrincipals
          Roles <- ThreeRoles
          PrivilegedRoles <- HighRoles
          Tenants <- AllTenants
          PageSize = 2
          MaxPages = 2
          FlagAt = 2
          MaxAssignments = 3
          MaxEligibilities = 2
INVARIANTS WholeLogIsExact CleanPassIsGrounded FailedReadIsNeverJudged
CHECK_DEADLOCK FALSE
