------------------------------- MODULE Access --------------------------------
(***************************************************************************)
(* Who may do what, and where (logpose-core/src/lib.rs): authentication    *)
(* against the bootstrap tokens and the stored principals, the operator    *)
(* tier, the roles that a database's access policy binds, and what the     *)
(* node that gets a request must be.  A caller is the principal its bearer *)
(* token stands for, with the tier the catalog stores for it.              *)
(***************************************************************************)
CONSTANTS
    AuthEnabled,    \* some bootstrap token is configured
    TierOf,         \* caller -> "operator", "member", or "unknown" for no valid token
    RoleOf          \* caller -> the role a stored policy binds it to, "none"

\* What a request needs: the permission on its database, the role of the node, and the
\* node's place: "leader" of the control plane, "owner" of the collection's shard, "serves"
\* it for reads, or "any".
Needs(permission, roles, place) == [permission |-> permission, roles |-> roles, place |-> place]

AnyRole == {"combined", "control", "data"}
DatabaseRoles == {"combined", "control"}    \* require_control_plane_database_mutation
LifecycleRoles == {"combined"}              \* require_control_plane_collection_mutation
DataRoles == {"combined", "data"}           \* require_data_plane

\* The handlers of AppState, `*_with_auth`, by the kind of request.
OperatorNeeds ==
    [put_database |-> Needs("operator", DatabaseRoles, "leader"),
     database |-> Needs("operator", AnyRole, "any"),
     databases |-> Needs("operator", AnyRole, "any"),
     status |-> Needs("operator", AnyRole, "any")]

CatalogNeeds ==
    [create |-> Needs("read_write", LifecycleRoles, "leader"),
     policy |-> Needs("owner", DatabaseRoles, "leader"),
     read_policy |-> Needs("owner", AnyRole, "any"),
     placement |-> Needs("operator", AnyRole, "any"),
     describe |-> Needs("read_only", AnyRole, "any"),
     list |-> Needs("read_only", AnyRole, "any"),
     alter |-> Needs("read_write", DataRoles, "owner"),
     drop |-> Needs("read_write", LifecycleRoles, "leader"),
     drop_database |-> Needs("operator", DatabaseRoles, "leader")]

RecordNeeds ==
    [schema |-> Needs("read_only", DataRoles, "serves"),
     get |-> Needs("read_only", DataRoles, "serves"),
     write |-> Needs("read_write", DataRoles, "owner"),
     by_filter |-> Needs("read_write", DataRoles, "owner")]

ReadNeeds ==
    [query |-> Needs("read_only", DataRoles, "serves"),
     count |-> Needs("read_only", DataRoles, "serves"),
     scroll |-> Needs("read_only", DataRoles, "serves"),
     stats |-> Needs("read_only", DataRoles, "serves")]

MaintenanceNeeds ==
    [flush |-> Needs("read_write", DataRoles, "owner"),
     compact |-> Needs("read_write", DataRoles, "owner"),
     inspect |-> Needs("read_only", DataRoles, "serves")]

NeedsOf(kind) ==
    CASE kind \in DOMAIN OperatorNeeds -> OperatorNeeds[kind]
      [] kind \in DOMAIN CatalogNeeds -> CatalogNeeds[kind]
      [] kind \in DOMAIN RecordNeeds -> RecordNeeds[kind]
      [] kind \in DOMAIN ReadNeeds -> ReadNeeds[kind]
      [] kind \in DOMAIN MaintenanceNeeds -> MaintenanceNeeds[kind]

\* database_role_satisfies.
Satisfies(role, permission) ==
    CASE permission = "read_only" -> role \in {"read_only", "read_write", "owner"}
      [] permission = "read_write" -> role \in {"read_write", "owner"}
      [] permission = "owner" -> role = "owner"

\* authenticate, which lets everyone through when no token is configured.
Authenticated(caller) == ~AuthEnabled \/ TierOf[caller] # "unknown"
Operator(caller) == ~AuthEnabled \/ TierOf[caller] = "operator"

\* require_database_permission_inner; the owner check never accepts a database that
\* has authentication disabled.
DatabaseAllows(policy, caller, permission) ==
    \/ permission # "owner" /\ policy = "disabled"
    \/ Operator(caller)
    \/ Authenticated(caller) /\ policy = "bound" /\ Satisfies(RoleOf[caller], permission)

Allowed(policy, caller, kind) ==
    LET permission == NeedsOf(kind).permission
    IN IF permission = "operator" THEN Operator(caller) ELSE DatabaseAllows(policy, caller, permission)

\* role_can_serve_assignment.
CanServe(role, assigned) ==
    CASE assigned = "combined" -> role = "combined"
      [] assigned = "control" -> role \in DatabaseRoles
      [] assigned = "data" -> role \in DataRoles
=============================================================================
