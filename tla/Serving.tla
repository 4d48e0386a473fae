------------------------------ MODULE Serving --------------------------------
(***************************************************************************)
(* A request from the caller to the record it changes and back: the gRPC   *)
(* client's loop, the interactive session that uses it, the gRPC and REST  *)
(* handlers, AppState's gates, and the collection's writer, in a cluster   *)
(* whose ownership, leadership, metadata store and disk may change or fail *)
(* between any two of these steps.                                         *)
(*                                                                         *)
(* One call is outstanding at a time, and its caller goes on when nothing  *)
(* of it is left on a server.  The cluster's own protocols are the module  *)
(* Cluster's and the log's are Wal's and Commit's: here they are what a    *)
(* request meets.                                                          *)
(***************************************************************************)
EXTENDS Client, Grpc, Rest, Session, Access

CONSTANTS
    Nodes,
    NodeRole,       \* node -> its role
    Seat,           \* the node that leads and serves the collection at first
    Callers,
    Home,           \* caller -> the node it connects to
    TransportOf,    \* caller -> "grpc", "stream" (bulk upsert) or "rest"
    MethodsOf,      \* caller -> the methods it calls
    Console,        \* the caller the interactive session is
    Workflows,      \* the workflows its user runs
    MaxFaults,      \* bound: changes of the world and failures on the way
    MaxBatches      \* bound: batches of a bulk stream

\* A client calls the service's methods, a stream is a bulk upsert, and the session's client
\* speaks gRPC.
ASSUME CallersAssumption ==
    /\ \A by \in Callers : /\ TransportOf[by] \in {"grpc", "stream", "rest"}
                           /\ MethodsOf[by] \subseteq DOMAIN Methods
                           /\ TransportOf[by] = "stream" => MethodsOf[by] \subseteq {"bulk_upsert"}
    /\ Console \in Callers /\ TransportOf[Console] = "grpc"
    /\ Workflows \subseteq DOMAIN WorkflowKinds

VARIABLES
    world,      \* what a request finds: etcd, the catalog, the collection on each node
    faults,     \* how many changes and failures there were
    call,       \* the caller's side
    work,       \* the server's side
    effects,    \* how often the outstanding call was applied
    app,        \* the interactive session
    task        \* its running action

vars == <<world, faults, call, work, effects, app, task>>

(***************************************************************************)
(* State                                                                   *)
(***************************************************************************)
IdleCall ==
    [by |-> None, method |-> None, stage |-> "idle", node |-> None, attempt |-> 1, redirects |-> 0,
     wait |-> 0, answer |-> [kind |-> None]]
IdleWork ==
    [by |-> None, method |-> None, node |-> None, stage |-> "idle", committed |-> 0, cancelled |-> FALSE,
     reply |-> NoError]
IdleTask == [left |-> <<>>, stage |-> "idle", outcome |-> None, acked |-> 0, landed |-> 0]

Init ==
    /\ world = [etcd |-> TRUE, leader |-> Seat, view |-> [n \in Nodes |-> Seat], members |-> Nodes,
                listed |-> TRUE, assigned |-> Seat, owner |-> Seat, holds |-> {Seat},
                health |-> [n \in Nodes |-> "ok"]]
    /\ faults = 0 /\ effects = 0
    /\ call = IdleCall /\ work = IdleWork
    /\ app = Closed /\ task = IdleTask

Kind == Methods[work.method].kind
Changes(method) == Methods[method].changes

\* etcd_error: an unreachable etcd is worth a retry.
CatalogDown == UnavailableFor(ROUTING_RETRY_AFTER)

(***************************************************************************)
(* AppState: authorization and the node's place (logpose-core,             *)
(* logpose-service)                                                        *)
(***************************************************************************)
\* require_operator, and require_database_permission_inner, which reads the policy first.
Authorize(caller, kind) ==
    LET operator == NeedsOf(kind).permission = "operator"
        reads == ~operator \/ AuthEnabled
    IN IF ~operator /\ ~world.etcd THEN CatalogDown
       ELSE IF ~Authenticated(caller) THEN Error("Unauthenticated")
       ELSE IF reads /\ ~world.etcd THEN CatalogDown
       ELSE IF Allowed("bound", caller, kind) THEN NoError ELSE Error("PermissionDenied")

\* require_local_control_plane_leader: what this node last observed, never its own name.
Leading(n) == IF world.view[n] = n THEN NoError ELSE NotLeader(world.view[n])

\* local_placement: the owner serves, if it holds the collection and its membership is live;
\* without an owner the assigned node is named.
Local(n) == world.owner = n /\ n \in world.holds /\ n \in world.members
Routed(n) ==
    IF Local(n) THEN NoError ELSE NotOwner(IF world.owner = None THEN world.assigned ELSE world.owner)

Placed(n, place) ==
    CASE place = "any" -> NoError
      [] place = "leader" -> Leading(n)
      [] place \in {"owner", "serves"} ->
           IF ~world.etcd THEN CatalogDown
           ELSE IF ~world.listed THEN Error("NotFound")
           ELSE IF place = "owner" /\ world.owner = None THEN CatalogDown
           ELSE Routed(n)

Gated(n, caller, kind) ==
    LET denied == Authorize(caller, kind)
    IN IF denied # NoError THEN denied
       ELSE IF NodeRole[n] \notin NeedsOf(kind).roles THEN Error("WrongNodeRole")
       ELSE Placed(n, NeedsOf(kind).place)

\* LogPoseDataService::handle: the descriptor again, and the local collection of its id.
Handle(n) ==
    IF ~world.etcd THEN CatalogDown
    ELSE IF ~world.listed \/ n \notin world.holds THEN Error("NotFound") ELSE NoError

(***************************************************************************)
(* The server's steps                                                      *)
(***************************************************************************)
Reply(error) ==
    work' = [work EXCEPT !.stage = "replied",
                         !.reply = IF TransportOf[work.by] = "stream" /\ error # NoError
                                   THEN BulkBatchFailed(error, work.committed) ELSE error]
Proceed(error, stage) == IF error = NoError THEN work' = [work EXCEPT !.stage = stage] ELSE Reply(error)

Serve(stage) == work.stage = stage /\ UNCHANGED <<call, app, task>>
Still == UNCHANGED <<world, faults, effects>>

\* The extractors and conversions of a handler.  A resent request is the one sent before,
\* so only a first one may turn out malformed.
FirstTry == call.attempt = 1 /\ call.redirects = 0
Flaws(by, method) ==
    {"bad_token"} \union (CASE TransportOf[by] = "rest" -> RestFlaws(method) \ DocumentFlaws
                            [] TransportOf[by] = "grpc" -> GrpcParts(method) \union {"oversized"}
                            [] TransportOf[by] = "stream" -> {})

Arrive ==
    /\ Serve("arrived") /\ Still
    /\ \E flaw \in {None} \union (IF FirstTry THEN Flaws(work.by, work.method) ELSE {}) :
         CASE TransportOf[work.by] = "stream" ->
                work' = [work EXCEPT !.reply = GrpcRefusal(flaw), !.stage = IF flaw = None THEN "reading" ELSE "replied"]
           [] TransportOf[work.by] = "grpc" -> Proceed(GrpcRefusal(flaw), "gate")
           [] TransportOf[work.by] = "rest" ->
                Proceed(RestRefusal(flaw), IF work.method \in ReadsSchema THEN "schema" ELSE "gate")

\* collection_schema_with_auth, and the parse of the documents with that schema.
ParseDocuments ==
    /\ Serve("schema") /\ Still
    /\ LET gated == Gated(work.node, work.by, "schema")
           held == IF gated = NoError THEN Handle(work.node) ELSE gated
       IN IF held # NoError THEN Reply(held)
          ELSE \E flaw \in {None} \union DocumentFlaws : Proceed(DocumentRefusal(flaw), "gate")

Gate ==
    /\ Serve("gate") /\ Still
    /\ Proceed(IF Kind = "metadata" THEN NoError ELSE Gated(work.node, work.by, Kind), "run")

\* The reads that need only the catalog; a node's status does without.
CatalogReads == {"database", "databases", "read_policy", "describe", "list", "placement"}
ReadCatalog ==
    /\ Serve("run") /\ Still
    /\ Kind \in CatalogReads \union {"metadata", "status"}
    /\ Reply(IF Kind \in CatalogReads /\ ~world.etcd THEN CatalogDown
             ELSE IF Kind \in {"describe", "placement"} /\ ~world.listed THEN Error("NotFound") ELSE NoError)

\* The reads of the local collection, with what each may be refused for.
LocalReads == {"get", "count", "scroll", "query", "stats", "inspect"}
ReadRefusals(method) ==
    {NoError, Error("InvalidArgument"), Error("Corrupt")}
        \union (IF method \in {"query", "stats"} THEN {Error("ReadBarrierNotSatisfied")} ELSE {})
        \union (IF method \in {"query", "scroll"} THEN {Error("SnapshotExpired"), Error("TooManySnapshots")} ELSE {})
        \union (IF method \in BoundedReplies \union BoundedResponses THEN {Error("TooLarge")} ELSE {})

ReadLocal ==
    /\ Serve("run") /\ Still
    /\ Kind \in LocalReads
    /\ LET held == Handle(work.node)
       IN IF held # NoError THEN Reply(held)
          ELSE IF world.health[work.node] = "closing" THEN Reply(UnavailableFor(0))
          ELSE \E refusal \in ReadRefusals(work.method) : Reply(refusal)

\* A change of the catalog is one fenced transaction, which may be applied although its answer
\* is lost.  A create places the collection on this node; a drop leaves it there if another
\* node leads.
CatalogRefusal(n) ==
    IF ~world.etcd THEN CatalogDown
    ELSE CASE Kind = "create" /\ world.listed -> Error("AlreadyExists")
           [] Kind = "drop" /\ ~world.listed -> Error("NotFound")
           [] Kind = "drop_database" /\ world.listed -> Error("FailedPrecondition")
           [] OTHER -> IF world.leader = n THEN NoError ELSE NotLeader(None)

CatalogAfter(n) ==
    CASE Kind = "create" -> [world EXCEPT !.listed = TRUE, !.assigned = n, !.owner = n,
                                          !.holds = {n}, !.health[n] = "ok"]
      [] Kind = "drop" -> [world EXCEPT !.listed = FALSE, !.owner = None, !.holds = @ \ {n}]
      [] OTHER -> world

ChangeCatalog ==
    /\ Serve("run")
    /\ Changes(work.method) = "catalog"
    /\ LET n == work.node
           refusal == CatalogRefusal(n)
       IN IF refusal # NoError
          THEN Reply(refusal) /\ Still
          ELSE /\ world' = CatalogAfter(n) /\ effects' = effects + 1
               /\ \/ Reply(NoError) /\ UNCHANGED faults
                  \/ faults < MaxFaults /\ faults' = faults + 1 /\ Reply(CatalogDown)

\* CollectionHandle::submit and its control requests, up to the writer's queue.
Submits(method) == Changes(method) \in {"record", "schema", "maintenance"}
Enqueue ==
    /\ Serve("run") /\ Still
    /\ Submits(work.method)
    /\ LET held == Handle(work.node)
           health == world.health[work.node]
       IN Proceed(IF held # NoError THEN held
                  ELSE IF health = "poisoned" THEN Error("CollectionPoisoned")
                  ELSE IF health = "closing" THEN UnavailableFor(0) ELSE NoError, "queued")

\* What the writer may answer: how often the request was applied, the error, and whether the
\* collection is poisoned by it.
Outcome(applied, error, poisons) == [applied |-> applied, error |-> error, poisons |-> poisons]
FailedAppends == {Outcome(0, Error("WalNotApplied"), TRUE)}
                     \union {Outcome(k, Error(e), TRUE) : k \in 0..1, e \in {"WalUnknown", "Internal"}}

WriterOutcomes(n, method) ==
    LET health == world.health[n]
    IN IF n \notin world.holds THEN {Outcome(0, Error("NotFound"), FALSE)}
       ELSE CASE health = "poisoned" -> {Outcome(0, Error("CollectionPoisoned"), FALSE)}
              [] health = "closing" -> {Outcome(0, UnavailableFor(0), FALSE)}
              [] health = "stalled" /\ Changes(method) = "record" -> {Outcome(0, Error("WriteStalled"), FALSE)}
              [] health = "failing" -> FailedAppends
              [] OTHER -> {Outcome(1, NoError, FALSE), Outcome(0, Error("InvalidArgument"), FALSE)}

\* The writer takes the request whether or not somebody still waits for its answer.  A batch
\* of a stream is committed before the next is read, and an alter describes the collection
\* afterwards.
Commits ==
    /\ work.stage = "queued"
    /\ \E outcome \in WriterOutcomes(work.node, work.method) :
         /\ world' = IF outcome.poisons THEN [world EXCEPT !.health[work.node] = "poisoned"] ELSE world
         /\ effects' = effects + outcome.applied
         /\ CASE outcome.error # NoError -> Reply(outcome.error)
              [] outcome.error = NoError /\ TransportOf[work.by] = "stream" ->
                   work' = [work EXCEPT !.stage = "reading", !.committed = @ + 1]
              [] outcome.error = NoError /\ Changes(work.method) = "schema" ->
                   work' = [work EXCEPT !.stage = "after"]
              [] OTHER -> Reply(NoError)
    /\ UNCHANGED <<faults, call, app, task>>

\* alter_collection: the schema is published best effort, then described again.
DescribeAgain ==
    /\ Serve("after") /\ Still
    /\ Reply(IF ~world.etcd THEN CatalogDown ELSE IF ~world.listed THEN Error("NotFound") ELSE NoError)

\* ingest: the next item of a bulk stream.  One that was cancelled starts no other batch.
ReadStream ==
    /\ Serve("reading") /\ Still
    /\ \E item \in StreamItems :
         /\ item = "batch" => effects < MaxBatches
         /\ CASE item = "batch" /\ ~work.cancelled -> work' = [work EXCEPT !.stage = "gate"]
              [] item = "batch" /\ work.cancelled -> Reply(UnavailableFor(0))
              [] item = "end" -> IF work.committed = 0
                                 THEN work' = [work EXCEPT !.stage = "replied", !.reply = Error("InvalidArgument")]
                                 ELSE Reply(NoError)
              [] OTHER -> Reply(StreamError(item))

(***************************************************************************)
(* The connection                                                          *)
(***************************************************************************)
InFlight == work.stage \notin {"idle", "replied"}

\* What the caller sees of a broken connection.
Broken(by) ==
    IF TransportOf[by] = "rest" THEN {[kind |-> "Cut"]}
    ELSE {FromStatus(TransportStatus(code)) : code \in {"UNAVAILABLE", "UNKNOWN"}}

\* A call that failed for its caller; the client of a plain gRPC call decides what next.
Failed(error) ==
    IF TransportOf[call.by] = "grpc" THEN AfterError(call, Methods[call.method].operation, error)
    ELSE [call EXCEPT !.stage = "done", !.answer = error]

\* The connection breaks, or the call is cancelled.  The handler is dropped where it awaits;
\* what it had given to the writer stays there, and the task of a stream goes on, cancelled.
Abandoned ==
    CASE TransportOf[work.by] = "stream" -> [work EXCEPT !.cancelled = TRUE]
      [] TransportOf[work.by] # "stream" /\ work.stage = "queued" -> [work EXCEPT !.cancelled = TRUE]
      [] OTHER -> IdleWork

Cut ==
    /\ call.stage = "sent" /\ work.stage # "idle" /\ ~work.cancelled
    /\ faults < MaxFaults /\ faults' = faults + 1
    /\ \E answer \in Broken(call.by) : call' = Failed(answer)
    /\ work' = Abandoned
    /\ UNCHANGED <<world, effects, app, task>>

\* A reply nobody waits for is dropped with the rest.
Forget ==
    /\ work.stage = "replied" /\ work.cancelled
    /\ work' = IdleWork
    /\ UNCHANGED <<world, faults, call, effects, app, task>>

(***************************************************************************)
(* The caller's steps                                                      *)
(***************************************************************************)
NewCall(by, method) ==
    [IdleCall EXCEPT !.by = by, !.method = method, !.stage = "sent", !.node = Home[by]]

Send(by, method) ==
    /\ call = IdleCall /\ work = IdleWork
    /\ method \in MethodsOf[by]
    /\ \E flaw \in {None, "two_constraints"} :
         call' = IF flaw # None /\ TransportOf[by] = "grpc" /\ RefusedLocally(method, flaw)
                 THEN [NewCall(by, method) EXCEPT !.stage = "done", !.answer = [kind |-> "InvalidRequest"]]
                 ELSE NewCall(by, method)
    /\ effects' = 0
    /\ UNCHANGED <<world, faults, work>>

\* A program, rather than the session, calls.
ProgramCalls ==
    /\ app = Closed
    /\ \E by \in Callers \ {Console} : \E method \in MethodsOf[by] : Send(by, method)
    /\ UNCHANGED <<app, task>>

Deliver ==
    /\ call.stage = "sent" /\ work = IdleWork
    /\ work' = [IdleWork EXCEPT !.by = call.by, !.method = call.method, !.node = call.node, !.stage = "arrived"]
    /\ UNCHANGED <<world, faults, call, effects, app, task>>

\* The pause before a retry is over.  An orphan of the last try ends first: one at a time.
Resend ==
    /\ call.stage = "waiting" /\ work = IdleWork
    /\ call' = [call EXCEPT !.stage = "sent", !.wait = 0]
    /\ UNCHANGED <<world, faults, work, effects, app, task>>

\* The reply reaches its caller, who may fail to decode it; a proxy may have dropped the
\* details of a status.
Receive ==
    /\ call.stage = "sent" /\ work.stage = "replied" /\ ~work.cancelled
    /\ LET error == work.reply
           plain == TransportOf[call.by] = "grpc"
           rest == TransportOf[call.by] = "rest"
           spoilt == faults < MaxFaults /\ (IF error = NoError THEN plain /\ Methods[call.method].decodes
                                            ELSE plain)
           done(answer) == [call EXCEPT !.stage = "done", !.answer = answer]
       IN \E spoil \in {FALSE} \union (IF spoilt THEN {TRUE} ELSE {}) :
            /\ faults' = faults + (IF spoil THEN 1 ELSE 0)
            /\ call' = IF error = NoError
                       THEN done([kind |-> IF spoil THEN "InvalidResponse" ELSE "Ok", committed |-> work.committed])
                       ELSE IF rest THEN done(HttpOf(error))
                       ELSE Failed(FromStatus(IF spoil THEN Stripped(StatusOf(error)) ELSE StatusOf(error)))
    /\ work' = IdleWork
    /\ UNCHANGED <<world, effects, app, task>>

\* A program takes its answer.
Take ==
    /\ call.stage = "done" /\ work = IdleWork /\ task = IdleTask
    /\ call' = IdleCall /\ effects' = 0
    /\ UNCHANGED <<world, faults, work, app, task>>

(***************************************************************************)
(* The interactive session                                                 *)
(***************************************************************************)
\* run_tui starts, after load_session_context.
OpenSession ==
    /\ app = Closed /\ call = IdleCall /\ task = IdleTask
    /\ \E suggestions \in BOOLEAN : app' = [Closed EXCEPT !.screen = "Home", !.suggestions = suggestions]
    /\ UNCHANGED <<world, faults, call, work, effects, task>>

\* A key; a launch spawns the task that executes the action.
Key ==
    /\ app.screen # "closed"
    /\ \E after \in Keys(app, Workflows) :
         /\ app' = after
         /\ task' = IF after.launched # None /\ app.launched = None
                    THEN [IdleTask EXCEPT !.left = WorkflowKinds[after.launched], !.stage = "calls"]
                    ELSE task
    /\ UNCHANGED <<world, faults, call, work, effects>>

\* execute_action calls the next method; what it reads and converts itself may fail first.
TaskCalls ==
    /\ task.stage = "calls" /\ task.left # <<>>
    /\ \/ Send(Console, Head(task.left)) /\ UNCHANGED task
       \/ /\ call = IdleCall /\ work = IdleWork
          /\ task' = [task EXCEPT !.left = <<>>, !.outcome = "local"]
          /\ UNCHANGED <<world, faults, call, work, effects>>
    /\ UNCHANGED app

\* An answer to the task: the first failure ends the action.
Definite(answer) ==
    \/ answer.kind = "LogPose" /\ answer.code # "INTERNAL"
    \/ answer.kind = "Http" /\ answer.status # 500
    \/ answer.kind = "InvalidRequest"

TaskTakes ==
    /\ task.stage = "calls" /\ call.stage = "done" /\ work = IdleWork
    /\ LET ok == call.answer.kind = "Ok"
           writes == Changes(call.method) = "record"
       IN task' = [task EXCEPT !.left = IF ok THEN Tail(@) ELSE <<>>,
                               !.outcome = IF ok THEN @ ELSE IF Definite(call.answer) THEN "refused" ELSE "unknown",
                               !.acked = @ + (IF ok /\ writes THEN 1 ELSE 0),
                               !.landed = @ + (IF writes THEN effects ELSE 0)]
    /\ call' = IdleCall /\ effects' = 0
    /\ UNCHANGED <<world, faults, work, app>>

\* launch_action's task reloads the session's context with one more call, whatever it answers.
TaskReloads ==
    /\ task.stage = "calls" /\ task.left = <<>>
    /\ Send(Console, "runtime_status")
    /\ task' = [task EXCEPT !.stage = "context", !.outcome = IF @ = None THEN "ok" ELSE @]
    /\ UNCHANGED app

TaskCompletes ==
    /\ task.stage = "context" /\ call.stage = "done" /\ work = IdleWork
    /\ app' = Completed(app, task.outcome = "ok", call.answer.kind = "Ok")
    /\ task' = IdleTask /\ call' = IdleCall /\ effects' = 0
    /\ UNCHANGED <<world, faults, work>>

(***************************************************************************)
(* The world changes                                                       *)
(***************************************************************************)
Happens == faults < MaxFaults /\ faults' = faults + 1 /\ UNCHANGED <<call, work, effects, app, task>>

\* promote_shard_owner, or a reconciliation that has not written an owner yet.
OwnerMoves ==
    Happens /\ world.listed /\ \E n \in Nodes \union {None} :
        n # world.owner /\ world' = [world EXCEPT !.owner = n]

LeaderMoves ==
    Happens /\ \E n \in Nodes \union {None} :
        n # world.leader /\ world' = [world EXCEPT !.leader = n]

\* A tick of a node's coordination loop.
Observes ==
    /\ \E n \in Nodes : world.view[n] # world.leader /\ world' = [world EXCEPT !.view[n] = world.leader]
    /\ UNCHANGED <<faults, call, work, effects, app, task>>

MembershipLapses ==
    Happens /\ \E n \in world.members : world' = [world EXCEPT !.members = @ \ {n}]

EtcdTurns == Happens /\ world' = [world EXCEPT !.etcd = ~@]

\* Maintenance lags or catches up, the disk begins to fail, the node shuts down, or is started
\* again, with nothing of the old process left.
HealthTurns ==
    Happens /\ \E n \in world.holds, health \in {"ok", "stalled", "failing", "closing"} :
        /\ world.health[n] # health
        /\ health \in {"stalled", "failing"} => world.health[n] \in {"ok", "stalled"}
        /\ health = "ok" /\ world.health[n] # "stalled" => ~(InFlight /\ work.node = n)
        /\ world' = [world EXCEPT !.health[n] = health]

\* Another client drops the collection through the leader.
DroppedByAnother ==
    Happens /\ world.listed /\ world.leader # None
    /\ world' = [world EXCEPT !.listed = FALSE, !.owner = None, !.holds = @ \ {world.leader}]

(***************************************************************************)
(* Specification                                                           *)
(***************************************************************************)
ServerSteps == Arrive \/ ParseDocuments \/ Gate \/ ReadCatalog \/ ReadLocal \/ ChangeCatalog \/ Enqueue
               \/ Commits \/ DescribeAgain \/ ReadStream \/ Forget
CallerSteps == Deliver \/ Resend \/ Receive \/ Take \/ TaskCalls \/ TaskTakes \/ TaskReloads \/ TaskCompletes
WorldSteps == Cut \/ OwnerMoves \/ LeaderMoves \/ Observes \/ MembershipLapses \/ EtcdTurns \/ HealthTurns
              \/ DroppedByAnother

Next == ServerSteps \/ CallerSteps \/ WorldSteps \/ ProgramCalls \/ OpenSession \/ Key

\* Servers and callers go on by themselves; users, programs and faults need not.  In a state
\* that is not at rest one of their steps is enabled.
AtRest == call = IdleCall /\ work = IdleWork /\ task = IdleTask
Fairness == []<>AtRest \/ []<><<ServerSteps \/ CallerSteps>>_vars

Spec == Init /\ [][Next]_vars /\ Fairness

(***************************************************************************)
(* Properties                                                              *)
(***************************************************************************)
Done == call.stage = "done"
Says(kind) == Done /\ call.answer.kind = kind

\* How many batches the answer to a bulk stream says were committed.
Counted == IF Says("Ok") \/ Says("LogPose") THEN call.answer.committed ELSE 0
OfStream == call.stage # "idle" /\ TransportOf[call.by] = "stream"

\* What an answer says of the change is true, whatever failed, moved or was resent on the way.
\* A record write that is answered with success was applied exactly once, and one that is
\* answered with an error of LogPose's that is not INTERNAL was not applied at all, by any of
\* its tries (RetryPolicy::retry_writes rests on it); neither ever applies a write twice.  A
\* bulk stream's success or definite failure counts exactly the batches that were committed.
\* After an INTERNAL failure those before the failed one are committed and those after it are
\* not; of the failed one itself nothing is said here, see FailedBatchNotApplied.  A catalog or
\* schema change that succeeds was applied.
AnswersTrue ==
    LET record == call.stage # "idle" /\ Changes(call.method) = "record"
    IN /\ record /\ ~OfStream => effects <= 1
       /\ record /\ ~OfStream /\ Says("Ok") => effects = 1
       /\ record /\ ~OfStream /\ Done /\ Definite(call.answer) => effects = 0
       /\ OfStream /\ (Says("Ok") \/ (Done /\ Definite(call.answer))) => effects = Counted
       /\ OfStream /\ Says("LogPose") => effects \in {Counted, Counted + 1}
       /\ Says("Ok") /\ Changes(call.method) \in {"catalog", "schema"} => effects > 0

\* "Earlier batches are committed; this one and all later ones are not": the comment of
\* LogPoseError::BulkBatchFailed (logpose-types/src/error.rs), and the reason why a client may
\* resume from failed_batch_index (docs/src/api-overview.md).  The code wraps every error of a
\* batch alike, also one after which the log may have the batch, so that this fails.
FailedBatchNotApplied == OfStream /\ Says("LogPose") /\ call.answer.bulk => effects = Counted

\* A session never ends under a running action (interactive.rs holds a quit back for it), and
\* what the action tells of a put in several batches is what the collection holds: on success
\* every batch landed, after a refusal exactly the acknowledged ones did, and after a failure
\* of unknown outcome at most the batch in flight besides.
SessionSafe ==
    /\ app = Closed => task = IdleTask
    /\ task.stage # "idle" =>
         /\ app.screen = "Running"
         /\ task.landed \in {task.acked, task.acked + 1}
         /\ task.outcome \in {None, "ok", "local", "refused"} => task.landed = task.acked

\* Every call is answered and every action ends: redirects and retries are bounded, also when a
\* node that refuses a request names itself as the one to ask.
CallsEnd == []<>AtRest
=============================================================================
