CONSTANTS
    Nodes = {"a"}
    Nobody = "nobody"
    AuthEnabled = TRUE
    TierOf <- MCTierOf
    RoleOf <- MCRoleOf
    CallerOf <- MCCallerOf
    Ops = {1, 2}
    KindsOf <- MCSchemaKindsOf
    NodeRole <- MCNodeRole
    Policies = {"bound"}
    MaxEvents = 4
    MaxVer = 2
    MaxFaults = 0
SPECIFICATION Spec
INVARIANT SchemaIsOwn
CHECK_DEADLOCK FALSE
