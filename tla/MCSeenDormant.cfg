SPECIFICATION Spec
CONSTANTS Principals <- TwoPrincipals
          Roles <- ThreeRoles
          PrivilegedRoles <- HighRoles
          Tenants <- ActiveUsers
          PageSize = 2
          MaxPages = 2
          FlagAt = 2
          MaxAssignments = 3
          MaxEligibilities = 2
INVARIANTS SeenUsersAreNotDormant
CHECK_DEADLOCK FALSE
