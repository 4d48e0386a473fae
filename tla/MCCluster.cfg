CONSTANTS
    Nodes = {"a", "b"}
    Nobody = "nobody"
    AuthEnabled = TRUE
    TierOf <- MCTierOf
    RoleOf <- MCRoleOf
    CallerOf <- MCCallerOf
    Ops = {1, 2}
    KindsOf <- MCKindsOf
    NodeRole <- MCNodeRole
    Policies = {"bound"}
    MaxEvents = 3
    MaxVer = 3
    MaxFaults = 1
SPECIFICATION Spec
INVARIANT ReadyHasData
PROPERTIES SchemaForward PendingResolves
CHECK_DEADLOCK FALSE
