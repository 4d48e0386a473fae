------------------------------- MODULE Client --------------------------------
(***************************************************************************)
(* The gRPC client (logpose-client/src): its retry and redirect policies,  *)
(* what the loop of LogPoseClient::call does with an error, and the        *)
(* methods: whether each is a read or a write to the retry policy, the     *)
(* handler it reaches, and whether its reply's decoder may refuse it.      *)
(***************************************************************************)
EXTENDS Errors

CONSTANTS
    RetryOf,        \* caller -> its RetryPolicy
    MaxRedirectsOf, \* caller -> RedirectPolicy::max_redirects, 0 without a policy
    Resolvable      \* the nodes whose endpoint the resolver knows

ASSUME ResolvableAssumption == None \notin Resolvable

RetryPolicy(attempts, initial, most, factor, writes) ==
    [max_attempts |-> attempts, initial_backoff |-> initial, max_backoff |-> most,
     backoff_multiplier |-> factor, retry_writes |-> writes]
Disabled == RetryPolicy(1, 0, 0, 1, FALSE)

AppliesTo(policy, operation) ==
    policy.max_attempts > 1 /\ (operation = "Read" \/ policy.retry_writes)

Least(a, b) == IF a <= b THEN a ELSE b
Most(a, b) == IF a >= b THEN a ELSE b

Backoff(policy, retry) ==
    Least(policy.initial_backoff * Most(policy.backoff_multiplier, 1)^(retry - 1), policy.max_backoff)

\* delay_before_retry: whether there is one, and how long it is.
Retries(policy, operation, attempt, error) ==
    /\ AppliesTo(policy, operation)
    /\ attempt < policy.max_attempts
    /\ IsRetryable(error)
    /\ error.retry_after <= policy.max_backoff
DelayOf(policy, attempt, error) == Most(error.retry_after, Backoff(policy, attempt))

\* RedirectPolicy::target.
Redirects(caller, redirects, error) ==
    redirects < MaxRedirectsOf[caller] /\ RedirectNode(error) \in Resolvable

\* One turn of the loop in `call` after an error: a redirect at once, which is not an attempt, a
\* wait before a retry on the same node, or the error for the caller.
UncountedRedirect(call, operation, error) ==
    IF Redirects(call.by, call.redirects, error)
    THEN [call EXCEPT !.node = RedirectNode(error)]
    ELSE [call EXCEPT !.stage = "done", !.answer = error]

AfterError(call, operation, error) ==
    LET policy == RetryOf[call.by]
    IN CASE Redirects(call.by, call.redirects, error) ->
              [call EXCEPT !.node = RedirectNode(error), !.redirects = @ + 1]
         [] ~Redirects(call.by, call.redirects, error) /\ Retries(policy, operation, call.attempt, error) ->
              [call EXCEPT !.stage = "waiting", !.attempt = @ + 1,
                           !.wait = DelayOf(policy, call.attempt, error)]
         [] OTHER -> [call EXCEPT !.stage = "done", !.answer = error]

\* A method: its operation class, the request that AppState sees, what it changes ("record",
\* "schema", "catalog", "maintenance" or nothing), and whether its reply can fail to decode.
Method(operation, kind, changes, decodes) ==
    [operation |-> operation, kind |-> kind, changes |-> changes, decodes |-> decodes]

DatabaseMethods ==
    [metadata |-> Method("Read", "metadata", None, FALSE),
     runtime_status |-> Method("Read", "status", None, TRUE),
     put_database |-> Method("Write", "put_database", "catalog", TRUE),
     database |-> Method("Read", "database", None, TRUE),
     databases |-> Method("Read", "databases", None, TRUE),
     drop_database |-> Method("Write", "drop_database", "catalog", FALSE),
     set_database_policy |-> Method("Write", "policy", "catalog", TRUE),
     database_policy |-> Method("Read", "read_policy", None, TRUE)]

CollectionMethods ==
    [create_collection |-> Method("Write", "create", "catalog", TRUE),
     collection |-> Method("Read", "describe", None, TRUE),
     collections |-> Method("Read", "list", None, TRUE),
     alter_collection |-> Method("Write", "alter", "schema", TRUE),
     drop_collection |-> Method("Write", "drop", "catalog", FALSE),
     collection_placement |-> Method("Read", "placement", None, TRUE)]

WriteMethods ==
    [upsert |-> Method("Write", "write", "record", TRUE),
     update |-> Method("Write", "write", "record", TRUE),
     delete |-> Method("Write", "write", "record", TRUE),
     delete_by_filter |-> Method("Write", "by_filter", "record", TRUE),
     update_by_filter |-> Method("Write", "by_filter", "record", TRUE)]

ReadMethods ==
    [count |-> Method("Read", "count", None, TRUE),
     scroll |-> Method("Read", "scroll", None, TRUE),
     get |-> Method("Read", "get", None, TRUE)]

QueryMethods ==
    [query |-> Method("Read", "query", None, TRUE),
     stats |-> Method("Read", "stats", None, TRUE)]

MaintenanceMethods ==
    [flush |-> Method("Write", "flush", "maintenance", FALSE),
     compact |-> Method("Write", "compact", "maintenance", FALSE),
     inspect |-> Method("Read", "inspect", None, TRUE)]

\* The stream is not a method of the client: a caller of the raw service sends it.
BulkMethod == [bulk_upsert |-> Method("Write", "write", "record", FALSE)]

MethodTables ==
    {DatabaseMethods, CollectionMethods, WriteMethods, ReadMethods, QueryMethods, MaintenanceMethods, BulkMethod}
Methods ==
    [method \in UNION {DOMAIN table : table \in MethodTables} |->
        (CHOOSE table \in MethodTables : method \in DOMAIN table)[method]]

\* validate_read_constraints, bearer_metadata_value: what a method refuses before it sends.
RefusedLocally(method, flaw) == flaw = "two_constraints" /\ method \in {"query", "stats"}
=============================================================================
