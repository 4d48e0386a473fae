---------------------------- MODULE ServingProofs ----------------------------
(***************************************************************************)
(* What an answer says of a change is true, and what a session tells of    *)
(* its batches is true, for every set of callers, nodes, policies and      *)
(* bounds.  The argument follows a call through the tries of its client:   *)
(* as long as one may still be sent, and as long as its handler has not    *)
(* replied, nothing of it was applied; a reply is tied to what was applied *)
(* when it is made, and only errors that come with nothing applied carry a *)
(* hint to try again or a node to go to.                                   *)
(***************************************************************************)
EXTENDS Serving, TLAPS

(***************************************************************************)
(* The inductive invariant                                                 *)
(***************************************************************************)
CallFields == {"by", "method", "stage", "node", "attempt", "redirects", "wait", "answer"}
WorkFields == {"by", "method", "node", "stage", "committed", "cancelled", "reply"}
AppFields == {"screen", "form", "picker", "yes", "result", "suggestions", "exit_after_running", "launched"}
TaskFields == {"left", "stage", "outcome", "acked", "landed"}
CallStages == {"idle", "sent", "waiting", "done"}
WorkStages == {"idle", "arrived", "schema", "gate", "run", "queued", "after", "reading", "replied"}
Vague == {"WalUnknown", "Internal"}     \* the errors that may come with the change applied

IsError(error) == DOMAIN error = {"variant", "node", "hint", "bulk", "committed"}

\* The two sides of the connection are records, and one that is idle holds nothing.
ShapeInv ==
    /\ DOMAIN call = CallFields
    /\ call.stage \in CallStages
    /\ call.stage = "idle" => call = IdleCall
    /\ call.stage # "idle" => call.by \in Callers /\ call.method \in MethodsOf[call.by]
    /\ DOMAIN work = WorkFields
    /\ work.stage \in WorkStages
    /\ work.stage = "idle" => work = IdleWork
    /\ work.committed \in Nat /\ work.cancelled \in BOOLEAN
    /\ work.stage = "replied" => IsError(work.reply)
    /\ effects \in Nat

\* What a server works on is the outstanding call; once it was cut off, the caller has its answer,
\* which tells nothing.
LinkInv ==
    work.stage # "idle" =>
        /\ work.by = call.by /\ work.method = call.method
        /\ ~work.cancelled => call.stage = "sent"
        /\ work.cancelled => call.stage = "done" /\ call.answer.kind \in {"Unknown", "Cut"}

\* Some stages are those of some methods only.
StageInv ==
    /\ work.stage = "reading" => TransportOf[work.by] = "stream"
    /\ work.stage = "queued" => Submits(work.method)
    /\ work.stage = "after" => Changes(work.method) = "schema"
    /\ work.stage = "arrived" => work.committed = 0
    /\ call.stage = "waiting" => TransportOf[call.by] # "stream" /\ work.stage = "idle"

\* A record write in a single request.
RecordInv ==
    call.stage # "idle" /\ Changes(call.method) = "record" /\ TransportOf[call.by] # "stream" =>
        /\ effects <= 1
        /\ work.stage \notin {"idle", "replied"} => effects = 0
        /\ work.stage = "idle" /\ call.stage # "done" => effects = 0
        /\ work.stage = "replied" /\ work.reply = NoError => effects = 1
        /\ work.stage = "replied" /\ work.reply # NoError /\ work.reply.variant \notin Vague => effects = 0
        /\ Says("Ok") => effects = 1
        /\ Done /\ Definite(call.answer) => effects = 0

\* A bulk stream.
StreamInv ==
    call.stage # "idle" /\ TransportOf[call.by] = "stream" =>
        /\ work.stage \notin {"idle", "replied"} => effects = work.committed
        /\ work.stage = "idle" /\ call.stage # "done" => effects = 0
        /\ work.stage = "replied" /\ work.reply = NoError => effects = work.committed
        /\ work.stage = "replied" /\ work.reply # NoError =>
             effects \in {work.reply.committed, work.reply.committed + 1}
        /\ work.stage = "replied" /\ work.reply # NoError /\ work.reply.variant \notin Vague =>
             effects = work.reply.committed
        /\ Says("Ok") \/ Says("LogPose") => effects \in {call.answer.committed, call.answer.committed + 1}
        /\ Says("Ok") \/ (Done /\ Definite(call.answer)) => effects = call.answer.committed
        /\ Done => call.answer.kind # "Http" /\ call.answer.kind # "InvalidRequest"

\* A change of the catalog or of a schema.
CatalogInv ==
    call.stage # "idle" /\ Changes(call.method) \in {"catalog", "schema"} =>
        /\ work.stage = "after" => effects > 0
        /\ work.stage = "replied" /\ work.reply = NoError => effects > 0
        /\ Says("Ok") => effects > 0

\* The interactive session: its screen says whether an action runs, an action that waits for an
\* answer has met no failure, and a batch that failed was the last.
SessionInv ==
    /\ DOMAIN app = AppFields
    /\ DOMAIN task = TaskFields
    /\ task.stage \in {"idle", "calls", "context"}
    /\ task.stage = "idle" => task = IdleTask
    /\ app.launched = "none" <=> task.stage = "idle"
    /\ app.screen = "Running" <=> task.stage # "idle"
    /\ app.screen = "Confirm" => app.form # "none"
    /\ app.screen # "closed" /\ task.stage = "idle" => call.stage = "idle"
    /\ task.stage # "idle" /\ call.stage # "idle" => call.by = Console
    /\ task.stage = "calls" /\ call.stage # "idle" => task.outcome = None
    /\ task.outcome # None => task.left = <<>>
    /\ task.acked \in Nat /\ task.landed \in {task.acked, task.acked + 1}
    /\ task.outcome # "unknown" => task.landed = task.acked
    /\ task.outcome \in {None, "ok", "local", "refused", "unknown"}

CallInv == ShapeInv /\ LinkInv /\ StageInv /\ RecordInv /\ StreamInv /\ CatalogInv
IInv == CallInv /\ SessionInv

(***************************************************************************)
(* The tables                                                              *)
(***************************************************************************)
Reading == CatalogReads \union {"metadata", "status"} \union LocalReads

\* Client's methods: what only reads changes nothing, and a stream changes records.
LEMMA MethodTable ==
    /\ \A m \in DOMAIN Methods : Methods[m].kind \in Reading => Methods[m].changes = None
    /\ Changes("bulk_upsert") = "record"
<1>1. ASSUME NEW table \in MethodTables, NEW m \in DOMAIN table
      PROVE  table[m].kind \in Reading => table[m].changes = None
  <2>1. CASE table = DatabaseMethods
    BY <2>1 DEF DatabaseMethods, Method, Reading, CatalogReads, LocalReads, None
  <2>2. CASE table = CollectionMethods
    BY <2>2 DEF CollectionMethods, Method, Reading, CatalogReads, LocalReads, None
  <2>3. CASE table = WriteMethods
    BY <2>3 DEF WriteMethods, Method, Reading, CatalogReads, LocalReads, None
  <2>4. CASE table = ReadMethods
    BY <2>4 DEF ReadMethods, Method, Reading, CatalogReads, LocalReads, None
  <2>5. CASE table = QueryMethods
    BY <2>5 DEF QueryMethods, Method, Reading, CatalogReads, LocalReads, None
  <2>6. CASE table = MaintenanceMethods
    BY <2>6 DEF MaintenanceMethods, Method, Reading, CatalogReads, LocalReads, None
  <2>7. CASE table = BulkMethod
    BY <2>7 DEF BulkMethod, Method, Reading, CatalogReads, LocalReads, None
  <2>. QED BY <2>1, <2>2, <2>3, <2>4, <2>5, <2>6, <2>7 DEF MethodTables
<1>2. ASSUME NEW m \in DOMAIN Methods
      PROVE  \E table \in MethodTables : m \in DOMAIN table /\ Methods[m] = table[m]
  BY DEF Methods
<1>3. \A m \in DOMAIN Methods : Methods[m].kind \in Reading => Methods[m].changes = None
  BY <1>1, <1>2
<1>4. ASSUME NEW table \in MethodTables, "bulk_upsert" \in DOMAIN table
      PROVE  table = BulkMethod
  BY <1>4 DEF MethodTables, DatabaseMethods, CollectionMethods, WriteMethods, ReadMethods, QueryMethods,
     MaintenanceMethods, BulkMethod, Method
<1>5. "bulk_upsert" \in DOMAIN Methods
  BY DEF Methods, MethodTables, BulkMethod
<1>6. Changes("bulk_upsert") = "record"
  BY <1>2, <1>4, <1>5 DEF Changes, BulkMethod, Method
<1>. QED BY <1>3, <1>6

\* A workflow has a name.
LEMMA WorkflowNames == "none" \notin Workflows
<1>1. \A workflow \in DOMAIN WorkflowKinds : \E table \in WorkflowTables : workflow \in DOMAIN table
  BY DEF WorkflowKinds
<1>2. \A table \in WorkflowTables : "none" \notin DOMAIN table
  BY DEF WorkflowTables, CollectionWorkflows, RecordWorkflows, RuntimeWorkflows
<1>. QED BY <1>1, <1>2, CallersAssumption

(***************************************************************************)
(* Errors                                                                  *)
(***************************************************************************)
\* A change of one field of an error.
LEMMA UpdatedError ==
    ASSUME NEW error, IsError(error), NEW x
    PROVE  /\ IsError([error EXCEPT !.node = x]) /\ [error EXCEPT !.node = x].variant = error.variant
           /\ IsError([error EXCEPT !.hint = x]) /\ [error EXCEPT !.hint = x].variant = error.variant
           /\ LET bulk == BulkBatchFailed(error, x)
              IN IsError(bulk) /\ bulk.variant = error.variant /\ bulk.bulk = TRUE /\ bulk.committed = x
<1>1. IsError([error EXCEPT !.node = x]) /\ [error EXCEPT !.node = x].variant = error.variant
  BY DEF IsError
<1>2. IsError([error EXCEPT !.hint = x]) /\ [error EXCEPT !.hint = x].variant = error.variant
  BY DEF IsError
<1>3. LET bulk == BulkBatchFailed(error, x)
      IN IsError(bulk) /\ bulk.variant = error.variant /\ bulk.bulk = TRUE /\ bulk.committed = x
  BY DEF IsError, BulkBatchFailed
<1>. QED BY <1>1, <1>2, <1>3

\* Every error of LogPose's is a record of the same fields.
LEMMA ErrorsAre ==
    ASSUME NEW variant, NEW node, NEW hint
    PROVE  /\ IsError(Error(variant)) /\ IsError(NoError)
           /\ IsError(NotOwner(node)) /\ NotOwner(node) # NoError
           /\ IsError(NotLeader(node)) /\ NotLeader(node) # NoError
           /\ IsError(UnavailableFor(hint)) /\ UnavailableFor(hint) # NoError
           /\ variant # None => Error(variant) # NoError
<1>0. \A v : IsError(Error(v)) /\ Error(v).variant = v
  BY DEF IsError, Error
<1>1. IsError(Error(variant)) /\ IsError(NoError)
  BY <1>0 DEF NoError
<1>2. variant # None => Error(variant) # NoError
  BY DEF Error, NoError
<1>3. IsError(NotOwner(node)) /\ NotOwner(node).variant = "NotOwner"
  BY <1>0, UpdatedError DEF NotOwner
<1>4. IsError(NotLeader(node)) /\ NotLeader(node).variant = "NotLeader"
  BY <1>0, UpdatedError DEF NotLeader
<1>5. IsError(UnavailableFor(hint)) /\ UnavailableFor(hint).variant = "Unavailable"
  BY <1>0, UpdatedError DEF UnavailableFor
<1>6. NoError.variant = "none"
  BY DEF NoError, Error, None
<1>. QED BY <1>1, <1>2, <1>3, <1>4, <1>5, <1>6

Kinds ==
    DOMAIN OperatorNeeds \union DOMAIN CatalogNeeds \union DOMAIN RecordNeeds \union DOMAIN ReadNeeds
        \union DOMAIN MaintenanceNeeds

\* Access: every request has its place.
LEMMA NeedsTable ==
    ASSUME NEW kind \in Kinds
    PROVE  NeedsOf(kind).place \in {"any", "leader", "owner", "serves"}
<1>1. CASE kind \in DOMAIN OperatorNeeds
  BY <1>1 DEF NeedsOf, OperatorNeeds, CatalogNeeds, RecordNeeds, ReadNeeds, MaintenanceNeeds, Needs
<1>2. CASE kind \in DOMAIN CatalogNeeds
  BY <1>2 DEF NeedsOf, OperatorNeeds, CatalogNeeds, RecordNeeds, ReadNeeds, MaintenanceNeeds, Needs
<1>3. CASE kind \in DOMAIN RecordNeeds
  BY <1>3 DEF NeedsOf, OperatorNeeds, CatalogNeeds, RecordNeeds, ReadNeeds, MaintenanceNeeds, Needs
<1>4. CASE kind \in DOMAIN ReadNeeds
  BY <1>4 DEF NeedsOf, OperatorNeeds, CatalogNeeds, RecordNeeds, ReadNeeds, MaintenanceNeeds, Needs
<1>5. CASE kind \in DOMAIN MaintenanceNeeds
  BY <1>5 DEF NeedsOf, OperatorNeeds, CatalogNeeds, RecordNeeds, ReadNeeds, MaintenanceNeeds, Needs
<1>. QED BY <1>1, <1>2, <1>3, <1>4, <1>5 DEF Kinds

\* The gates of AppState answer with errors of LogPose's.
LEMMA GatedIsError ==
    ASSUME NEW n, NEW caller, NEW kind \in Kinds
    PROVE  IsError(Gated(n, caller, kind))
<1>1. IsError(Authorize(caller, kind))
  BY ErrorsAre DEF Authorize, CatalogDown
<1>2. IsError(Placed(n, NeedsOf(kind).place))
  BY NeedsTable, ErrorsAre DEF Placed, Leading, Routed, CatalogDown
<1>. QED BY <1>1, <1>2, ErrorsAre DEF Gated

\* Every method of the client has a handler that AppState knows, but metadata, which asks nothing.
LEMMA MethodKinds == \A m \in DOMAIN Methods : Methods[m].kind \in Kinds \union {"metadata"}
<1>1. ASSUME NEW table \in MethodTables, NEW m \in DOMAIN table
      PROVE  table[m].kind \in Kinds \union {"metadata"}
  <2>1. CASE table = DatabaseMethods
    BY <2>1 DEF DatabaseMethods, Method, Kinds, OperatorNeeds, CatalogNeeds
  <2>2. CASE table = CollectionMethods
    BY <2>2 DEF CollectionMethods, Method, Kinds, CatalogNeeds
  <2>3. CASE table = WriteMethods
    BY <2>3 DEF WriteMethods, Method, Kinds, RecordNeeds
  <2>4. CASE table = ReadMethods
    BY <2>4 DEF ReadMethods, Method, Kinds, RecordNeeds, ReadNeeds
  <2>5. CASE table = QueryMethods
    BY <2>5 DEF QueryMethods, Method, Kinds, ReadNeeds
  <2>6. CASE table = MaintenanceMethods
    BY <2>6 DEF MaintenanceMethods, Method, Kinds, MaintenanceNeeds
  <2>7. CASE table = BulkMethod
    BY <2>7 DEF BulkMethod, Method, Kinds, RecordNeeds
  <2>. QED BY <2>1, <2>2, <2>3, <2>4, <2>5, <2>6, <2>7 DEF MethodTables
<1>2. ASSUME NEW m \in DOMAIN Methods
      PROVE  \E table \in MethodTables : m \in DOMAIN table /\ Methods[m] = table[m]
  BY DEF Methods
<1>. QED BY <1>1, <1>2

(***************************************************************************)
(* The server's steps                                                      *)
(***************************************************************************)
Busy == work.stage \notin {"idle", "replied"}

\* A reply is the error it is made of, with the batches of a stream.
LEMMA ReplyIs ==
    ASSUME ShapeInv, NEW error, IsError(error), Reply(error)
    PROVE  /\ DOMAIN work' = WorkFields /\ work'.stage = "replied" /\ IsError(work'.reply)
           /\ work'.reply.variant = error.variant
           /\ work'.by = work.by /\ work'.method = work.method
           /\ work'.cancelled = work.cancelled /\ work'.committed = work.committed
           /\ error = NoError => work'.reply = NoError
           /\ error # NoError => work'.reply # NoError
           /\ error # NoError /\ TransportOf[work.by] = "stream" => work'.reply.committed = work.committed
<1>1. /\ DOMAIN work' = WorkFields /\ work'.stage = "replied"
      /\ work'.by = work.by /\ work'.method = work.method
      /\ work'.cancelled = work.cancelled /\ work'.committed = work.committed
      /\ work'.reply = IF TransportOf[work.by] = "stream" /\ error # NoError
                        THEN BulkBatchFailed(error, work.committed) ELSE error
  BY DEF Reply, ShapeInv, WorkFields
<1>2. LET bulk == BulkBatchFailed(error, work.committed)
      IN IsError(bulk) /\ bulk.variant = error.variant /\ bulk.committed = work.committed /\ bulk # NoError
  <2> DEFINE bulk == BulkBatchFailed(error, work.committed)
  <2>1. IsError(bulk) /\ bulk.variant = error.variant /\ bulk.bulk = TRUE /\ bulk.committed = work.committed
    BY UpdatedError
  <2>2. NoError.bulk = FALSE
    BY DEF NoError, Error
  <2>. HIDE DEF bulk
  <2>3. bulk # NoError
    BY <2>1, <2>2
  <2>. QED BY <2>1, <2>3 DEF bulk
<1>. QED BY <1>1, <1>2

\* A refusal from a stage where nothing more was applied than the stream's earlier batches.
LEMMA RefuseStep ==
    ASSUME CallInv, Busy, NEW error, IsError(error), error # NoError, Reply(error), UNCHANGED <<call, effects>>
    PROVE  CallInv'
<1>. USE ReplyIs DEF CallInv, Busy
<1>1. ShapeInv'
  BY DEF ShapeInv, WorkStages
<1>2. LinkInv' /\ StageInv'
  BY DEF LinkInv, StageInv
<1>3. RecordInv'
  BY DEF RecordInv, LinkInv, Says, Done
<1>4. StreamInv'
  BY DEF StreamInv, LinkInv, Says, Done
<1>5. CatalogInv'
  BY DEF CatalogInv, LinkInv, Says, Done
<1>. QED BY <1>1, <1>2, <1>3, <1>4, <1>5

\* A step to a later stage that is not an answer yet.
LEMMA ProceedStep ==
    ASSUME CallInv, Busy, UNCHANGED <<call, effects>>,
           NEW stage \in {"schema", "gate", "run", "queued", "reading"},
           stage = "queued" => Submits(work.method),
           stage = "reading" => TransportOf[work.by] = "stream",
           work' = [work EXCEPT !.stage = stage]
    PROVE  CallInv'
<1>1. /\ DOMAIN work' = WorkFields /\ work'.stage = stage
      /\ work'.by = work.by /\ work'.method = work.method
      /\ work'.cancelled = work.cancelled /\ work'.committed = work.committed
  BY DEF CallInv, ShapeInv, WorkFields
<1>. USE <1>1 DEF CallInv, Busy
<1>2. ShapeInv'
  BY DEF ShapeInv, WorkStages
<1>3. LinkInv' /\ StageInv'
  BY DEF LinkInv, StageInv, Submits, Changes
<1>4. RecordInv'
  BY DEF RecordInv, LinkInv, Says, Done
<1>5. StreamInv'
  BY DEF StreamInv, LinkInv, Says, Done
<1>6. CatalogInv'
  BY DEF CatalogInv, LinkInv, Says, Done
<1>. QED BY <1>2, <1>3, <1>4, <1>5, <1>6

\* An answer that says the change is made.
LEMMA SucceedStep ==
    ASSUME CallInv, Busy, Reply(NoError), UNCHANGED call, effects' \in Nat,
           Changes(work.method) = "record" /\ TransportOf[work.by] # "stream" => effects' = 1,
           TransportOf[work.by] = "stream" => effects' = work.committed,
           Changes(work.method) \in {"catalog", "schema"} => effects' > 0
    PROVE  CallInv'
<1>0. IsError(NoError)
  BY ErrorsAre
<1>. USE <1>0, ReplyIs DEF CallInv, Busy
<1>1. ShapeInv'
  BY DEF ShapeInv, WorkStages
<1>2. LinkInv' /\ StageInv'
  BY DEF LinkInv, StageInv
<1>3. RecordInv'
  BY DEF RecordInv, LinkInv, Says, Done, Definite
<1>4. StreamInv'
  BY DEF StreamInv, LinkInv, Says, Done, Definite
<1>5. CatalogInv'
  BY DEF CatalogInv, LinkInv, Says, Done
<1>. QED BY <1>1, <1>2, <1>3, <1>4, <1>5

LEMMA ProceedOrRefuse ==
    ASSUME CallInv, Busy, UNCHANGED <<call, effects>>, NEW error, IsError(error),
           NEW stage \in {"schema", "gate", "run", "queued", "reading"}, Proceed(error, stage),
           stage = "queued" => Submits(work.method),
           stage = "reading" => TransportOf[work.by] = "stream"
    PROVE  CallInv'
<1>1. CASE error = NoError
  <2>1. work' = [work EXCEPT !.stage = stage]
    BY <1>1 DEF Proceed
  <2>. QED BY <2>1, ProceedStep
<1>2. CASE error # NoError
  <2>1. Reply(error)
    BY <1>2 DEF Proceed
  <2>. QED BY <1>2, <2>1, RefuseStep
<1>. QED BY <1>1, <1>2

\* The work at hand is a caller's, for one of its methods.
LEMMA WorkOfCaller ==
    ASSUME CallInv, work.stage # "idle"
    PROVE  /\ work.by \in Callers /\ work.method \in DOMAIN Methods
           /\ TransportOf[work.by] \in {"grpc", "stream", "rest"}
           /\ TransportOf[work.by] = "stream" => Changes(work.method) = "record"
<1>1. work.by = call.by /\ work.method = call.method /\ call.stage # "idle"
  BY DEF CallInv, LinkInv, ShapeInv
<1>2. work.by \in Callers /\ work.method \in MethodsOf[work.by]
  BY <1>1 DEF CallInv, ShapeInv
<1>. QED BY <1>2, CallersAssumption, MethodTable

LEMMA ArriveStep == CallInv /\ Arrive => CallInv'
<1>. SUFFICES ASSUME CallInv, Arrive PROVE CallInv'
  OBVIOUS
<1>1. Busy /\ work.stage = "arrived" /\ UNCHANGED <<call, effects>>
  BY DEF Arrive, Serve, Still, Busy
<1>2. PICK flaw : CASE TransportOf[work.by] = "stream" ->
                work' = [work EXCEPT !.reply = GrpcRefusal(flaw), !.stage = IF flaw = None THEN "reading" ELSE "replied"]
           [] TransportOf[work.by] = "grpc" -> Proceed(GrpcRefusal(flaw), "gate")
           [] TransportOf[work.by] = "rest" ->
                Proceed(RestRefusal(flaw), IF work.method \in ReadsSchema THEN "schema" ELSE "gate")
  BY DEF Arrive
<1>3. IsError(GrpcRefusal(flaw)) /\ IsError(RestRefusal(flaw))
  BY ErrorsAre DEF GrpcRefusal, RestRefusal
<1>4. CASE TransportOf[work.by] = "grpc"
  BY <1>1, <1>2, <1>3, <1>4, ProceedOrRefuse
<1>5. CASE TransportOf[work.by] = "rest"
  BY <1>1, <1>2, <1>3, <1>5, ProceedOrRefuse
<1>6. CASE TransportOf[work.by] = "stream"
  <2>1. work' = [work EXCEPT !.reply = GrpcRefusal(flaw), !.stage = IF flaw = None THEN "reading" ELSE "replied"]
    BY <1>2, <1>6
  <2>2. /\ DOMAIN work' = WorkFields /\ work'.reply = GrpcRefusal(flaw)
        /\ work'.stage = IF flaw = None THEN "reading" ELSE "replied"
        /\ work'.by = work.by /\ work'.method = work.method
        /\ work'.cancelled = work.cancelled /\ work'.committed = work.committed
    BY <2>1 DEF CallInv, ShapeInv, WorkFields
  <2>3. GrpcRefusal(flaw).committed = 0 /\ (flaw # None => GrpcRefusal(flaw) # NoError)
    BY DEF GrpcRefusal, NoError, Error, None
  <2>4. ShapeInv'
    BY <1>1, <1>3, <2>2 DEF CallInv, ShapeInv, WorkStages
  <2>5. LinkInv' /\ StageInv'
    BY <1>1, <1>6, <2>2 DEF CallInv, LinkInv, StageInv
  <2>6. RecordInv'
    BY <1>1, <1>6, <2>2 DEF CallInv, RecordInv, LinkInv
  <2>7. StreamInv'
    BY <1>1, <2>2, <2>3 DEF CallInv, StreamInv, StageInv, LinkInv, Says, Done
  <2>8. CatalogInv'
    BY <1>1, <1>6, <2>2, WorkOfCaller DEF CallInv, CatalogInv, LinkInv
  <2>. QED BY <2>4, <2>5, <2>6, <2>7, <2>8 DEF CallInv
<1>. QED BY <1>1, <1>4, <1>5, <1>6, WorkOfCaller

\* What a node holds of the collection is refused with errors of LogPose's too.
LEMMA HandleIsError == ASSUME NEW n PROVE IsError(Handle(n))
BY ErrorsAre DEF Handle, CatalogDown

LEMMA ParseStep == CallInv /\ ParseDocuments => CallInv'
<1>. SUFFICES ASSUME CallInv, ParseDocuments PROVE CallInv'
  OBVIOUS
<1>1. Busy /\ UNCHANGED <<call, effects>>
  BY DEF ParseDocuments, Serve, Still, Busy
<1> DEFINE gated == Gated(work.node, work.by, "schema")
           held == IF gated = NoError THEN Handle(work.node) ELSE gated
<1>2. IsError(held)
  BY GatedIsError, HandleIsError DEF Kinds, RecordNeeds
<1>3. \A flaw : IsError(DocumentRefusal(flaw))
  BY ErrorsAre DEF DocumentRefusal
<1>4. \/ held # NoError /\ Reply(held)
      \/ \E flaw : Proceed(DocumentRefusal(flaw), "gate")
  BY DEF ParseDocuments
<1>. QED BY <1>1, <1>2, <1>3, <1>4, RefuseStep, ProceedOrRefuse

LEMMA GateStep == CallInv /\ Gate => CallInv'
<1>. SUFFICES ASSUME CallInv, Gate PROVE CallInv'
  OBVIOUS
<1>1. Busy /\ UNCHANGED <<call, effects>>
  BY DEF Gate, Serve, Still, Busy
<1>2. Kind \in Kinds \union {"metadata"}
  BY <1>1, WorkOfCaller, MethodKinds DEF Kind, Busy
<1> DEFINE error == IF Kind = "metadata" THEN NoError ELSE Gated(work.node, work.by, Kind)
<1>3. IsError(error)
  BY <1>2, GatedIsError, ErrorsAre
<1>4. Proceed(error, "run")
  BY DEF Gate
<1>. QED BY <1>1, <1>3, <1>4, ProceedOrRefuse

\* An answer of a method that changes nothing says nothing of a change.
LEMMA ReadStep ==
    ASSUME CallInv, Busy, UNCHANGED <<call, effects>>, Kind \in Reading,
           NEW error, IsError(error), Reply(error)
    PROVE  CallInv'
<1>1. Changes(work.method) = None
  BY WorkOfCaller, MethodTable DEF Busy, Kind, Changes
<1>2. TransportOf[work.by] # "stream"
  BY <1>1, WorkOfCaller DEF None, Busy
<1>3. effects \in Nat
  BY DEF CallInv, ShapeInv
<1>4. CASE error = NoError
  BY <1>1, <1>2, <1>3, <1>4, SucceedStep DEF None
<1>. QED BY <1>4, RefuseStep

LEMMA ReadCatalogStep == CallInv /\ ReadCatalog => CallInv'
<1>. SUFFICES ASSUME CallInv, ReadCatalog PROVE CallInv'
  OBVIOUS
<1>1. Busy /\ UNCHANGED <<call, effects>> /\ Kind \in Reading
  BY DEF ReadCatalog, Serve, Still, Busy, Reading
<1> DEFINE error == IF Kind \in CatalogReads /\ ~world.etcd THEN CatalogDown
                    ELSE IF Kind \in {"describe", "placement"} /\ ~world.listed THEN Error("NotFound") ELSE NoError
<1>2. IsError(error) /\ Reply(error)
  BY ErrorsAre DEF ReadCatalog, CatalogDown
<1>. QED BY <1>1, <1>2, ReadStep

LEMMA ReadLocalStep == CallInv /\ ReadLocal => CallInv'
<1>. SUFFICES ASSUME CallInv, ReadLocal PROVE CallInv'
  OBVIOUS
<1>1. Busy /\ UNCHANGED <<call, effects>> /\ Kind \in Reading
  BY DEF ReadLocal, Serve, Still, Busy, Reading
<1>2. \A error \in ReadRefusals(work.method) : IsError(error)
  BY ErrorsAre DEF ReadRefusals
<1>3. \E error : IsError(error) /\ Reply(error)
  BY <1>2, HandleIsError, ErrorsAre DEF ReadLocal
<1>. QED BY <1>1, <1>3, ReadStep

\* The catalog's transaction, also when its answer is lost: the reply of a change that was applied
\* is a success or an error, and a catalog change that fails promises nothing.
LEMMA ChangeCatalogStep == CallInv /\ ChangeCatalog => CallInv'
<1>. SUFFICES ASSUME CallInv, ChangeCatalog PROVE CallInv'
  OBVIOUS
<1>1. Busy /\ UNCHANGED call /\ Changes(work.method) = "catalog" /\ effects \in Nat
  BY DEF ChangeCatalog, Serve, Busy, CallInv, ShapeInv
<1>2. TransportOf[work.by] # "stream" /\ work.by = call.by /\ work.method = call.method
  BY <1>1, WorkOfCaller DEF Busy, CallInv, LinkInv
<1>3. IsError(CatalogRefusal(work.node))
  BY ErrorsAre DEF CatalogRefusal, CatalogDown
<1>4. CASE CatalogRefusal(work.node) # NoError
  BY <1>1, <1>3, <1>4, RefuseStep DEF ChangeCatalog, Still
<1>5. CASE CatalogRefusal(work.node) = NoError
  <2>1. effects' = effects + 1 /\ (Reply(NoError) \/ Reply(CatalogDown))
    BY <1>5 DEF ChangeCatalog
  <2>2. CASE Reply(NoError)
    BY <1>1, <1>2, <2>1, <2>2, SucceedStep
  <2>3. CASE Reply(CatalogDown)
    <3>1. IsError(CatalogDown) /\ CatalogDown # NoError
      BY ErrorsAre DEF CatalogDown
    <3>. USE <1>1, <1>2, <2>1, <2>3, <3>1, ReplyIs DEF CallInv, Busy
    <3>2. ShapeInv' /\ LinkInv' /\ StageInv'
      BY DEF ShapeInv, WorkStages, LinkInv, StageInv
    <3>3. RecordInv' /\ StreamInv'
      BY DEF RecordInv, StreamInv
    <3>4. CatalogInv'
      BY DEF CatalogInv, LinkInv, Says, Done
    <3>. QED BY <3>2, <3>3, <3>4
  <2>. QED BY <2>1, <2>2, <2>3
<1>. QED BY <1>4, <1>5

LEMMA EnqueueStep == CallInv /\ Enqueue => CallInv'
<1>. SUFFICES ASSUME CallInv, Enqueue PROVE CallInv'
  OBVIOUS
<1>1. Busy /\ UNCHANGED <<call, effects>> /\ Submits(work.method)
  BY DEF Enqueue, Serve, Still, Busy
<1> DEFINE held == Handle(work.node)
           health == world.health[work.node]
           error == IF held # NoError THEN held
                    ELSE IF health = "poisoned" THEN Error("CollectionPoisoned")
                    ELSE IF health = "closing" THEN UnavailableFor(0) ELSE NoError
<1>2. IsError(error) /\ Proceed(error, "queued")
  BY HandleIsError, ErrorsAre DEF Enqueue
<1>. QED BY <1>1, <1>2, ProceedOrRefuse

\* What the writer answers: success says the request was applied once, and only the two vague
\* errors may come with it applied.
LEMMA WriterOutcomesAre ==
    ASSUME NEW n, NEW method, NEW outcome \in WriterOutcomes(n, method)
    PROVE  /\ IsError(outcome.error) /\ outcome.applied \in {0, 1}
           /\ outcome.error = NoError => outcome.applied = 1
           /\ outcome.error # NoError /\ outcome.error.variant \notin Vague => outcome.applied = 0
<1>1. ASSUME outcome \in FailedAppends
      PROVE  /\ IsError(outcome.error) /\ outcome.error # NoError /\ outcome.applied \in {0, 1}
             /\ outcome.error.variant \notin Vague => outcome.applied = 0
  <2>1. CASE outcome = Outcome(0, Error("WalNotApplied"), TRUE)
    <3>1. outcome.applied = 0 /\ outcome.error = Error("WalNotApplied")
      BY <2>1 DEF Outcome
    <3>. QED BY <3>1, ErrorsAre DEF None
  <2>2. CASE \E k \in 0..1, e \in Vague : outcome = Outcome(k, Error(e), TRUE)
    <3>1. PICK k \in 0..1, e \in Vague : outcome = Outcome(k, Error(e), TRUE)
      BY <2>2
    <3>2. outcome.applied = k /\ outcome.error = Error(e)
      BY <3>1 DEF Outcome
    <3>3. Error(e).variant = e /\ e # None
      BY DEF Error, Vague, None
    <3>. QED BY <3>2, <3>3, ErrorsAre
  <2>3. \/ outcome = Outcome(0, Error("WalNotApplied"), TRUE)
        \/ \E k \in 0..1, e \in Vague : outcome = Outcome(k, Error(e), TRUE)
    BY <1>1, SMT DEF FailedAppends, Vague, Outcome
  <2>. QED BY <2>1, <2>2, <2>3
<1>2. \/ outcome \in FailedAppends
      \/ \E error \in {Error("NotFound"), Error("CollectionPoisoned"), UnavailableFor(0),
                       Error("WriteStalled"), Error("InvalidArgument")} : outcome = Outcome(0, error, FALSE)
      \/ outcome = Outcome(1, NoError, FALSE)
  BY DEF WriterOutcomes
<1>3. CASE outcome = Outcome(1, NoError, FALSE)
  <2>1. outcome.applied = 1 /\ outcome.error = NoError
    BY <1>3 DEF Outcome
  <2>. QED BY <2>1, ErrorsAre
<1>4. ASSUME NEW error \in {Error("NotFound"), Error("CollectionPoisoned"), UnavailableFor(0),
                            Error("WriteStalled"), Error("InvalidArgument")},
             outcome = Outcome(0, error, FALSE)
      PROVE  IsError(outcome.error) /\ outcome.error # NoError /\ outcome.applied = 0
  <2>1. outcome.applied = 0 /\ outcome.error = error
    BY <1>4 DEF Outcome
  <2>. QED BY <2>1, ErrorsAre DEF None
<1>. QED BY <1>1, <1>2, <1>3, <1>4

\* The writer takes the request: the step that applies it.
LEMMA CommitsStep == CallInv /\ Commits => CallInv'
<1>. SUFFICES ASSUME CallInv, Commits PROVE CallInv'
  OBVIOUS
<1>1. /\ Busy /\ work.stage = "queued" /\ UNCHANGED call /\ Submits(work.method)
      /\ effects \in Nat /\ work.committed \in Nat
  BY DEF Commits, Busy, CallInv, ShapeInv, StageInv
<1>2. /\ work.by = call.by /\ work.method = call.method /\ call.stage # "idle"
      /\ TransportOf[work.by] = "stream" => Changes(work.method) = "record"
  BY <1>1, WorkOfCaller DEF Busy, CallInv, LinkInv
<1>3. /\ TransportOf[work.by] # "stream" /\ Changes(work.method) = "record" => effects = 0
      /\ TransportOf[work.by] = "stream" => effects = work.committed
  BY <1>1, <1>2 DEF CallInv, RecordInv, StreamInv
<1>4. PICK outcome \in WriterOutcomes(work.node, work.method) :
         /\ effects' = effects + outcome.applied
         /\ CASE outcome.error # NoError -> Reply(outcome.error)
              [] outcome.error = NoError /\ TransportOf[work.by] = "stream" ->
                   work' = [work EXCEPT !.stage = "reading", !.committed = @ + 1]
              [] outcome.error = NoError /\ Changes(work.method) = "schema" ->
                   work' = [work EXCEPT !.stage = "after"]
              [] OTHER -> Reply(NoError)
  BY DEF Commits
<1>5. /\ IsError(outcome.error) /\ outcome.applied \in {0, 1}
      /\ outcome.error = NoError => outcome.applied = 1
      /\ outcome.error # NoError /\ outcome.error.variant \notin Vague => outcome.applied = 0
  BY WriterOutcomesAre
<1>6. CASE outcome.error # NoError
  <2>1. Reply(outcome.error)
    BY <1>4, <1>6
  <2>. USE <1>1, <1>2, <1>3, <1>4, <1>5, <1>6, <2>1, ReplyIs DEF CallInv, Busy
  <2>2. ShapeInv'
    BY DEF ShapeInv, WorkStages
  <2>3. LinkInv' /\ StageInv'
    BY DEF LinkInv, StageInv
  <2>4. RecordInv'
    BY DEF RecordInv, LinkInv, Says, Done, Definite
  <2>5. StreamInv'
    BY DEF StreamInv, LinkInv, Says, Done, Definite
  <2>6. CatalogInv'
    BY DEF CatalogInv, LinkInv, Says, Done
  <2>. QED BY <2>2, <2>3, <2>4, <2>5, <2>6
<1>7. CASE outcome.error = NoError /\ TransportOf[work.by] = "stream"
  <2>1. work' = [work EXCEPT !.stage = "reading", !.committed = @ + 1]
    BY <1>2, <1>4, <1>7
  <2>2. /\ DOMAIN work' = WorkFields /\ work'.stage = "reading" /\ work'.committed = work.committed + 1
        /\ work'.by = work.by /\ work'.method = work.method /\ work'.cancelled = work.cancelled
    BY <2>1 DEF CallInv, ShapeInv, WorkFields
  <2>. USE <1>1, <1>2, <1>3, <1>4, <1>5, <1>7, <2>2 DEF CallInv, Busy
  <2>3. ShapeInv'
    BY DEF ShapeInv, WorkStages
  <2>4. LinkInv' /\ StageInv'
    BY DEF LinkInv, StageInv
  <2>5. RecordInv'
    BY DEF RecordInv
  <2>6. StreamInv'
    BY DEF StreamInv, LinkInv, Says, Done, Definite
  <2>7. CatalogInv'
    BY DEF CatalogInv
  <2>. QED BY <2>3, <2>4, <2>5, <2>6, <2>7
<1>8. CASE outcome.error = NoError /\ TransportOf[work.by] # "stream" /\ Changes(work.method) = "schema"
  <2>1. work' = [work EXCEPT !.stage = "after"]
    BY <1>4, <1>8
  <2>2. /\ DOMAIN work' = WorkFields /\ work'.stage = "after" /\ work'.committed = work.committed
        /\ work'.by = work.by /\ work'.method = work.method /\ work'.cancelled = work.cancelled
    BY <2>1 DEF CallInv, ShapeInv, WorkFields
  <2>. USE <1>1, <1>2, <1>4, <1>5, <1>8, <2>2 DEF CallInv, Busy
  <2>3. ShapeInv'
    BY DEF ShapeInv, WorkStages
  <2>4. LinkInv' /\ StageInv'
    BY DEF LinkInv, StageInv, Changes
  <2>5. RecordInv' /\ StreamInv'
    BY DEF RecordInv, StreamInv, Changes
  <2>6. CatalogInv'
    BY DEF CatalogInv, LinkInv, Says, Done
  <2>. QED BY <2>3, <2>4, <2>5, <2>6
<1>9. CASE outcome.error = NoError /\ TransportOf[work.by] # "stream" /\ Changes(work.method) # "schema"
  <2>1. Reply(NoError) /\ effects' = effects + 1
    BY <1>4, <1>5, <1>9
  <2>. QED BY <1>1, <1>3, <1>9, <2>1, SucceedStep DEF Submits
<1>. QED BY <1>6, <1>7, <1>8, <1>9

LEMMA DescribeAgainStep == CallInv /\ DescribeAgain => CallInv'
<1>. SUFFICES ASSUME CallInv, DescribeAgain PROVE CallInv'
  OBVIOUS
<1>1. Busy /\ UNCHANGED <<call, effects>> /\ Changes(work.method) = "schema" /\ work.stage = "after"
  BY DEF DescribeAgain, Serve, Still, Busy, CallInv, StageInv
<1>2. TransportOf[work.by] # "stream" /\ effects > 0 /\ effects \in Nat
  BY <1>1, WorkOfCaller DEF CallInv, ShapeInv, LinkInv, CatalogInv, Changes
<1> DEFINE error == IF ~world.etcd THEN CatalogDown ELSE IF ~world.listed THEN Error("NotFound") ELSE NoError
<1>3. IsError(error) /\ Reply(error)
  BY ErrorsAre DEF DescribeAgain, CatalogDown
<1>4. CASE error = NoError
  BY <1>1, <1>2, <1>3, <1>4, SucceedStep
<1>. QED BY <1>1, <1>3, <1>4, RefuseStep

LEMMA ReadStreamStep == CallInv /\ ReadStream => CallInv'
<1>. SUFFICES ASSUME CallInv, ReadStream PROVE CallInv'
  OBVIOUS
<1>1. /\ Busy /\ UNCHANGED <<call, effects>> /\ work.stage = "reading" /\ TransportOf[work.by] = "stream"
      /\ effects \in Nat /\ work.by = call.by /\ work.method = call.method /\ call.stage # "idle"
  BY DEF ReadStream, Serve, Still, Busy, CallInv, StageInv, ShapeInv, LinkInv
<1>2. effects = work.committed /\ Changes(work.method) = "record"
  BY <1>1, WorkOfCaller DEF CallInv, StreamInv
<1>3. PICK item \in StreamItems :
         CASE item = "batch" /\ ~work.cancelled -> work' = [work EXCEPT !.stage = "gate"]
              [] item = "batch" /\ work.cancelled -> Reply(UnavailableFor(0))
              [] item = "end" -> IF work.committed = 0
                                 THEN work' = [work EXCEPT !.stage = "replied", !.reply = Error("InvalidArgument")]
                                 ELSE Reply(NoError)
              [] OTHER -> Reply(StreamError(item))
  BY DEF ReadStream
<1>4. CASE item = "batch" /\ ~work.cancelled
  <2>1. work' = [work EXCEPT !.stage = "gate"]
    BY <1>3, <1>4
  <2>. QED BY <1>1, <2>1, ProceedStep
<1>5. ASSUME NEW error, IsError(error), error # NoError, Reply(error)
      PROVE  CallInv'
  BY <1>1, <1>5, RefuseStep
<1>6. CASE item = "batch" /\ work.cancelled
  BY <1>3, <1>5, <1>6, ErrorsAre
<1>7. CASE item = "end" /\ work.committed # 0
  <2>1. Reply(NoError)
    BY <1>3, <1>7
  <2>. QED BY <1>1, <1>2, <2>1, SucceedStep
<1>8. CASE item = "end" /\ work.committed = 0
  <2>1. work' = [work EXCEPT !.stage = "replied", !.reply = Error("InvalidArgument")]
    BY <1>3, <1>8
  <2>2. /\ DOMAIN work' = WorkFields /\ work'.stage = "replied" /\ work'.reply = Error("InvalidArgument")
        /\ work'.committed = work.committed
        /\ work'.by = work.by /\ work'.method = work.method /\ work'.cancelled = work.cancelled
    BY <2>1 DEF CallInv, ShapeInv, WorkFields
  <2>3. /\ IsError(Error("InvalidArgument")) /\ Error("InvalidArgument") # NoError
        /\ Error("InvalidArgument").committed = 0
    BY ErrorsAre DEF None, Error
  <2>. USE <1>1, <1>2, <1>8, <2>2, <2>3 DEF CallInv, Busy
  <2>4. ShapeInv'
    BY DEF ShapeInv, WorkStages
  <2>5. LinkInv' /\ StageInv'
    BY DEF LinkInv, StageInv
  <2>6. RecordInv' /\ CatalogInv'
    BY DEF RecordInv, CatalogInv
  <2>7. StreamInv'
    BY DEF StreamInv, LinkInv, Says, Done, Definite
  <2>. QED BY <2>4, <2>5, <2>6, <2>7
<1>9. CASE item \notin {"batch", "end"}
  <2>1. Reply(StreamError(item))
    BY <1>3, <1>9
  <2>2. IsError(StreamError(item)) /\ StreamError(item) # NoError
    BY <1>9, ErrorsAre DEF StreamItems, StreamError, None
  <2>. QED BY <1>5, <2>1, <2>2
<1>. QED BY <1>4, <1>6, <1>7, <1>8, <1>9 DEF CallInv, ShapeInv

(***************************************************************************)
(* The connection and the caller                                           *)
(***************************************************************************)
\* An idle server has nothing of a call, and an idle caller asks nothing.
LEMMA IdleIs ==
    /\ DOMAIN IdleCall = CallFields /\ IdleCall.stage = "idle"
    /\ DOMAIN IdleWork = WorkFields /\ IdleWork.stage = "idle" /\ IdleWork.committed = 0
    /\ IdleWork.cancelled \in BOOLEAN /\ ~IdleWork.cancelled
BY DEF IdleCall, IdleWork, CallFields, WorkFields

LEMMA ForgetStep == CallInv /\ Forget => CallInv'
<1>. SUFFICES ASSUME CallInv, Forget PROVE CallInv'
  OBVIOUS
<1>1. /\ work.stage = "replied" /\ work.cancelled /\ work' = IdleWork /\ UNCHANGED <<call, effects>>
      /\ call.stage = "done"
  BY DEF Forget, CallInv, LinkInv
<1>. USE <1>1, IdleIs DEF CallInv
<1>2. ShapeInv'
  BY DEF ShapeInv, WorkStages
<1>3. LinkInv' /\ StageInv'
  BY DEF LinkInv, StageInv
<1>4. RecordInv' /\ CatalogInv'
  BY DEF RecordInv, CatalogInv, Says, Done
<1>5. StreamInv'
  BY DEF StreamInv, Says, Done
<1>. QED BY <1>2, <1>3, <1>4, <1>5

LEMMA DeliverStep == CallInv /\ Deliver => CallInv'
<1>. SUFFICES ASSUME CallInv, Deliver PROVE CallInv'
  OBVIOUS
<1>1. /\ call.stage = "sent" /\ work = IdleWork /\ UNCHANGED <<call, effects>>
      /\ work' = [IdleWork EXCEPT !.by = call.by, !.method = call.method, !.node = call.node, !.stage = "arrived"]
  BY DEF Deliver
<1>2. /\ DOMAIN work' = WorkFields /\ work'.stage = "arrived" /\ work'.committed = 0
      /\ work'.by = call.by /\ work'.method = call.method
      /\ work'.cancelled \in BOOLEAN /\ ~work'.cancelled
  BY <1>1 DEF IdleWork, WorkFields
<1>. USE <1>1, <1>2, IdleIs DEF CallInv
<1>3. ShapeInv'
  BY DEF ShapeInv, WorkStages
<1>4. LinkInv' /\ StageInv'
  BY DEF LinkInv, StageInv
<1>5. RecordInv' /\ CatalogInv'
  BY DEF RecordInv, CatalogInv, Says, Done
<1>6. StreamInv'
  BY DEF StreamInv, Says, Done
<1>. QED BY <1>3, <1>4, <1>5, <1>6

LEMMA ResendStep == CallInv /\ Resend => CallInv'
<1>. SUFFICES ASSUME CallInv, Resend PROVE CallInv'
  OBVIOUS
<1>1. /\ call.stage = "waiting" /\ work = IdleWork /\ UNCHANGED <<work, effects>>
      /\ call' = [call EXCEPT !.stage = "sent", !.wait = 0]
  BY DEF Resend
<1>2. DOMAIN call' = CallFields /\ call'.stage = "sent" /\ call'.by = call.by /\ call'.method = call.method
  BY <1>1 DEF CallInv, ShapeInv, CallFields
<1>. USE <1>1, <1>2, IdleIs DEF CallInv
<1>3. ShapeInv'
  BY DEF ShapeInv, CallStages
<1>4. LinkInv' /\ StageInv'
  BY DEF LinkInv, StageInv
<1>5. RecordInv' /\ CatalogInv'
  BY DEF RecordInv, CatalogInv, Says, Done
<1>6. StreamInv'
  BY DEF StreamInv, Says, Done
<1>. QED BY <1>3, <1>4, <1>5, <1>6

\* A call that its method refuses itself, or that is sent: nothing is applied.
LEMMA SendStep ==
    ASSUME CallInv, NEW by \in Callers, NEW method, Send(by, method)
    PROVE  CallInv' /\ call'.stage # "idle" /\ call'.by = by
<1>1. work = IdleWork /\ UNCHANGED work /\ effects' = 0 /\ method \in MethodsOf[by]
  BY DEF Send
<1>2. \/ call' = NewCall(by, method)
      \/ /\ TransportOf[by] = "grpc"
         /\ call' = [NewCall(by, method) EXCEPT !.stage = "done", !.answer = [kind |-> "InvalidRequest"]]
         /\ method \in {"query", "stats"}
  BY DEF Send, RefusedLocally
<1>3. DOMAIN call' = CallFields /\ call'.by = by /\ call'.method = method
  BY <1>2 DEF NewCall, IdleCall, CallFields
<1>4. \/ call'.stage = "sent"
      \/ call'.stage = "done" /\ call'.answer.kind = "InvalidRequest" /\ TransportOf[by] = "grpc"
  <2>1. CASE call' = NewCall(by, method)
    BY <2>1 DEF NewCall, IdleCall
  <2>2. CASE /\ TransportOf[by] = "grpc"
             /\ call' = [NewCall(by, method) EXCEPT !.stage = "done", !.answer = [kind |-> "InvalidRequest"]]
    BY <2>2 DEF NewCall, IdleCall
  <2>. QED BY <1>2, <2>1, <2>2
<1>. USE <1>1, <1>3, <1>4, IdleIs DEF CallInv
<1>5. ShapeInv'
  BY DEF ShapeInv, CallStages
<1>6. LinkInv' /\ StageInv'
  BY DEF LinkInv, StageInv
<1>7. RecordInv' /\ CatalogInv'
  BY DEF RecordInv, CatalogInv, Says, Done
<1>8. StreamInv'
  BY DEF StreamInv, Says, Done, Definite
<1>. QED BY <1>5, <1>6, <1>7, <1>8

\* The answer is taken, and the caller is free.
LEMMA TakenStep ==
    ASSUME CallInv, work = IdleWork, UNCHANGED work, call' = IdleCall, effects' = 0
    PROVE  CallInv'
<1>. USE IdleIs DEF CallInv
<1>1. ShapeInv'
  BY DEF ShapeInv, CallStages
<1>2. LinkInv' /\ StageInv'
  BY DEF LinkInv, StageInv
<1>3. RecordInv' /\ CatalogInv' /\ StreamInv'
  BY DEF RecordInv, CatalogInv, StreamInv
<1>. QED BY <1>1, <1>2, <1>3

\* What the client makes of an error: another try is made only of one that came with nothing applied.
LEMMA StatusIs ==
    ASSUME NEW error, IsError(error), NEW status,
           status = StatusOf(error) \/ status = Stripped(StatusOf(error))
    PROVE  LET answer == FromStatus(status)
           IN /\ answer.kind \in {"LogPose", "Unknown"}
              /\ answer.kind = "LogPose" => answer.committed = error.committed
              /\ Definite(answer) => error.variant \notin Vague
              /\ answer.retry_after # 0 => error.variant \notin Vague
              /\ RedirectNode(answer) # None => error.variant \notin Vague
<1> DEFINE answer == FromStatus(status)
<1>1. /\ status.code = CodeOf(error)
      /\ status.info = Details(error) \/ status.info = NoDetails
      /\ status.retryInfo \in {0, RetryAfter(error)} /\ status.trailer = RetryAfter(error)
  <2> DEFINE full == StatusOf(error)
  <2>1. /\ DOMAIN full = {"code", "info", "retryInfo", "trailer"}
        /\ full.code = CodeOf(error) /\ full.info = Details(error)
        /\ full.retryInfo = RetryAfter(error) /\ full.trailer = RetryAfter(error)
    BY DEF StatusOf, Status
  <2>. HIDE DEF full
  <2>2. CASE status = full
    BY <2>1, <2>2
  <2>3. CASE status = Stripped(full)
    BY <2>1, <2>3 DEF Stripped
  <2>. QED BY <2>2, <2>3 DEF full
<1>2. error.variant \in Vague => CodeOf(error) = "INTERNAL" /\ RetryAfter(error) = 0
  BY DEF Vague, CodeOf, RetryAfter
<1>3. /\ answer.code = status.code /\ answer.reason = status.info.reason /\ answer.committed = status.info.committed
      /\ answer.retry_after = IF status.retryInfo # 0 THEN status.retryInfo ELSE status.trailer
      /\ answer.kind \in {"LogPose", "Unknown"}
      /\ answer.kind = "LogPose" => status.info.domain = "logpose"
  BY DEF FromStatus
<1>. HIDE DEF answer
<1>4. answer.kind = "LogPose" => status.info = Details(error)
  BY <1>1, <1>3 DEF NoDetails, None
<1>5. Details(error).reason = ReasonOf(error) /\ Details(error).committed = error.committed
  BY DEF Details
<1>6. answer.kind = "LogPose" => answer.committed = error.committed
  BY <1>3, <1>4, <1>5
<1>7. Definite(answer) => error.variant \notin Vague
  BY <1>1, <1>2, <1>3 DEF Definite
<1>8. answer.retry_after # 0 => error.variant \notin Vague
  BY <1>1, <1>2, <1>3
<1>9. RedirectNode(answer) # None => error.variant \notin Vague
  BY <1>3, <1>4, <1>5 DEF RedirectNode, ReasonOf, Vague
<1>. QED BY <1>3, <1>6, <1>7, <1>8, <1>9 DEF answer

\* A broken connection tells nothing, and no policy tries again for it.
LEMMA BrokenIs ==
    ASSUME NEW by, NEW answer \in Broken(by)
    PROVE  /\ answer.kind \in {"Unknown", "Cut"}
           /\ TransportOf[by] # "rest" => answer.retry_after = 0 /\ RedirectNode(answer) = None
<1>1. CASE TransportOf[by] = "rest"
  BY <1>1 DEF Broken
<1>2. CASE TransportOf[by] # "rest"
  <2>1. PICK code : answer = FromStatus(TransportStatus(code))
    BY <1>2 DEF Broken
  <2>2. /\ TransportStatus(code).info = NoDetails
        /\ TransportStatus(code).retryInfo = 0 /\ TransportStatus(code).trailer = 0
    BY DEF TransportStatus, Status
  <2>3. NoDetails.domain # "logpose"
    BY DEF NoDetails, None
  <2>4. answer.kind = "Unknown" /\ answer.retry_after = 0
    BY <2>1, <2>2, <2>3 DEF FromStatus
  <2>. QED BY <2>4 DEF RedirectNode
<1>. QED BY <1>1, <1>2

\* The loop of the client after an error: the caller gets it, or the request is sent again.
LEMMA FailedIs ==
    ASSUME CallInv, call.stage = "sent", NEW error, call' = Failed(error)
    PROVE  /\ DOMAIN call' = CallFields /\ call'.by = call.by /\ call'.method = call.method
           /\ call'.stage \in {"sent", "waiting", "done"}
           /\ call'.stage = "done" => call'.answer = error
           /\ call'.stage = "sent" => RedirectNode(error) # None
           /\ call'.stage = "waiting" => error.retry_after # 0
           /\ call'.stage # "done" => TransportOf[call.by] = "grpc"
<1>1. DOMAIN call = CallFields
  BY DEF CallInv, ShapeInv
<1>2. CASE TransportOf[call.by] # "grpc"
  BY <1>1, <1>2 DEF Failed, CallFields
<1>3. CASE TransportOf[call.by] = "grpc"
  <2> DEFINE operation == Methods[call.method].operation
  <2>1. call' = AfterError(call, operation, error)
    BY <1>3 DEF Failed
  <2>2. CASE Redirects(call.by, call.redirects, error)
    <3>1. call' = [call EXCEPT !.node = RedirectNode(error), !.redirects = @ + 1]
      BY <2>1, <2>2 DEF AfterError
    <3>2. RedirectNode(error) # None
      BY <2>2, ResolvableAssumption DEF Redirects
    <3>. QED BY <1>1, <1>3, <3>1, <3>2 DEF CallFields
  <2>3. CASE /\ ~Redirects(call.by, call.redirects, error)
             /\ Retries(RetryOf[call.by], operation, call.attempt, error)
    <3>1. call' = [call EXCEPT !.stage = "waiting", !.attempt = @ + 1,
                               !.wait = DelayOf(RetryOf[call.by], call.attempt, error)]
      BY <2>1, <2>3 DEF AfterError
    <3>2. error.retry_after # 0
      BY <2>3 DEF Retries, IsRetryable
    <3>. QED BY <1>1, <1>3, <3>1, <3>2 DEF CallFields
  <2>4. CASE /\ ~Redirects(call.by, call.redirects, error)
             /\ ~Retries(RetryOf[call.by], operation, call.attempt, error)
    <3>1. call' = [call EXCEPT !.stage = "done", !.answer = error]
      BY <2>1, <2>4 DEF AfterError
    <3>. QED BY <1>1, <3>1 DEF CallFields
  <2>. QED BY <2>2, <2>3, <2>4
<1>. QED BY <1>2, <1>3

\* The connection breaks: the caller is told nothing, whatever the server still does.
LEMMA CutStep == CallInv /\ Cut => CallInv'
<1>. SUFFICES ASSUME CallInv, Cut PROVE CallInv'
  OBVIOUS
<1>1. /\ call.stage = "sent" /\ work.stage # "idle" /\ ~work.cancelled /\ work' = Abandoned /\ UNCHANGED effects
      /\ work.by = call.by /\ work.method = call.method
  BY DEF Cut, CallInv, LinkInv
<1>2. PICK answer \in Broken(call.by) : call' = Failed(answer)
  BY DEF Cut
<1>3. /\ DOMAIN call' = CallFields /\ call'.by = call.by /\ call'.method = call.method
      /\ call'.stage = "done" /\ call'.answer.kind \in {"Unknown", "Cut"}
  BY <1>1, <1>2, BrokenIs, FailedIs
<1>4. \/ work' = IdleWork
      \/ /\ work' = [work EXCEPT !.cancelled = TRUE]
         /\ TransportOf[work.by] = "stream" \/ work.stage = "queued"
  BY <1>1 DEF Abandoned
<1>5. CASE work' = IdleWork
  <2>. USE <1>1, <1>3, <1>5, IdleIs DEF CallInv
  <2>1. ShapeInv' /\ LinkInv' /\ StageInv'
    <3>1. ShapeInv'
      BY DEF ShapeInv, CallStages, WorkStages
    <3>. QED BY <3>1 DEF LinkInv, StageInv
  <2>2. RecordInv' /\ CatalogInv'
    BY DEF RecordInv, CatalogInv, Says, Done, Definite
  <2>3. StreamInv'
    BY DEF StreamInv, Says, Done, Definite
  <2>. QED BY <2>1, <2>2, <2>3
<1>6. CASE work' = [work EXCEPT !.cancelled = TRUE]
  <2>1. /\ DOMAIN work' = WorkFields /\ work'.stage = work.stage /\ work'.by = work.by
        /\ work'.method = work.method /\ work'.committed = work.committed /\ work'.reply = work.reply
        /\ work'.cancelled \in BOOLEAN /\ work'.cancelled
    BY <1>6 DEF CallInv, ShapeInv, WorkFields
  <2>. USE <1>1, <1>3, <2>1 DEF CallInv
  <2>2. ShapeInv'
    BY DEF ShapeInv, CallStages
  <2>3. LinkInv' /\ StageInv'
    BY DEF LinkInv, StageInv, Submits, Changes
  <2>4. RecordInv' /\ CatalogInv'
    BY DEF RecordInv, CatalogInv, Says, Done, Definite
  <2>5. StreamInv'
    BY DEF StreamInv, Says, Done, Definite
  <2>. QED BY <2>2, <2>3, <2>4, <2>5
<1>. QED BY <1>4, <1>5, <1>6

\* The reply reaches its caller.
LEMMA ReceiveStep == CallInv /\ Receive => CallInv'
<1>. SUFFICES ASSUME CallInv, Receive PROVE CallInv'
  OBVIOUS
<1> DEFINE error == work.reply
           done(answer) == [call EXCEPT !.stage = "done", !.answer = answer]
<1>1. /\ call.stage = "sent" /\ work.stage = "replied" /\ work' = IdleWork /\ UNCHANGED effects
      /\ work.by = call.by /\ work.method = call.method /\ IsError(error)
      /\ call.by \in Callers /\ DOMAIN call = CallFields
  BY DEF Receive, CallInv, LinkInv, ShapeInv
<1>2. /\ TransportOf[call.by] \in {"grpc", "stream", "rest"}
      /\ TransportOf[call.by] = "stream" => Changes(call.method) = "record"
  BY <1>1, WorkOfCaller
<1>3. ASSUME NEW kind \in {"InvalidResponse", "Ok"}, error = NoError,
             call' = done([kind |-> kind, committed |-> work.committed])
      PROVE  CallInv'
  <2>1. /\ DOMAIN call' = CallFields /\ call'.by = call.by /\ call'.method = call.method /\ call'.stage = "done"
        /\ call'.answer.kind = kind /\ call'.answer.committed = work.committed
    BY <1>1, <1>3 DEF CallFields
  <2>. USE <1>1, <1>3, <2>1, IdleIs DEF CallInv
  <2>2. ShapeInv' /\ LinkInv' /\ StageInv'
    <3>1. ShapeInv'
      BY DEF ShapeInv, CallStages, WorkStages
    <3>. QED BY <3>1 DEF LinkInv, StageInv
  <2>3. RecordInv' /\ CatalogInv'
    BY DEF RecordInv, CatalogInv, Says, Done, Definite
  <2>4. StreamInv'
    BY DEF StreamInv, Says, Done, Definite
  <2>. QED BY <2>2, <2>3, <2>4
<1>4. ASSUME error # NoError, TransportOf[call.by] = "rest", call' = done(HttpOf(error))
      PROVE  CallInv'
  <2>1. /\ DOMAIN call' = CallFields /\ call'.by = call.by /\ call'.method = call.method /\ call'.stage = "done"
        /\ call'.answer = HttpOf(error)
    BY <1>1, <1>4 DEF CallFields
  <2>2. HttpOf(error).kind = "Http" /\ (Definite(HttpOf(error)) => error.variant \notin Vague)
    <3>0. error.variant \in Vague => CodeOf(error) = "INTERNAL"
      BY DEF Vague, CodeOf
    <3>1. error.variant \in Vague => HttpStatus(error) = 500
      BY <3>0 DEF HttpStatus
    <3>2. HttpOf(error).kind = "Http" /\ HttpOf(error).status = HttpStatus(error)
      BY DEF HttpOf
    <3>. QED BY <3>1, <3>2 DEF Definite
  <2>. USE <1>1, <1>2, <1>4, <2>1, <2>2, IdleIs DEF CallInv
  <2>3. ShapeInv' /\ LinkInv' /\ StageInv'
    <3>1. ShapeInv'
      BY DEF ShapeInv, CallStages, WorkStages
    <3>. QED BY <3>1 DEF LinkInv, StageInv
  <2>4. RecordInv' /\ CatalogInv' /\ StreamInv'
    BY DEF RecordInv, CatalogInv, StreamInv, Says, Done
  <2>. QED BY <2>3, <2>4
<1>5. ASSUME error # NoError, TransportOf[call.by] # "rest",
             NEW status, status = StatusOf(error) \/ status = Stripped(StatusOf(error)),
             call' = Failed(FromStatus(status))
      PROVE  CallInv'
  <2> DEFINE answer == FromStatus(status)
  <2>1. /\ answer.kind \in {"LogPose", "Unknown"}
        /\ answer.kind = "LogPose" => answer.committed = error.committed
        /\ Definite(answer) => error.variant \notin Vague
        /\ answer.retry_after # 0 => error.variant \notin Vague
        /\ RedirectNode(answer) # None => error.variant \notin Vague
    BY <1>1, <1>5, StatusIs
  <2>2. /\ DOMAIN call' = CallFields /\ call'.by = call.by /\ call'.method = call.method
        /\ call'.stage \in {"sent", "waiting", "done"}
        /\ call'.stage = "done" => call'.answer = answer
        /\ call'.stage = "sent" => RedirectNode(answer) # None
        /\ call'.stage = "waiting" => answer.retry_after # 0
        /\ call'.stage # "done" => TransportOf[call.by] = "grpc"
    BY <1>1, <1>5, FailedIs
  <2>. HIDE DEF answer
  <2>. USE <1>1, <1>2, <1>5, <2>1, <2>2, IdleIs DEF CallInv
  <2>3. ShapeInv' /\ LinkInv' /\ StageInv'
    <3>1. ShapeInv'
      BY DEF ShapeInv, CallStages, WorkStages
    <3>. QED BY <3>1 DEF LinkInv, StageInv
  <2>4. RecordInv' /\ CatalogInv'
    BY DEF RecordInv, CatalogInv, Says, Done
  <2>5. StreamInv'
    BY DEF StreamInv, Says, Done, Definite
  <2>. QED BY <2>3, <2>4, <2>5
<1>6. \/ \E kind \in {"InvalidResponse", "Ok"} :
           error = NoError /\ call' = done([kind |-> kind, committed |-> work.committed])
      \/ error # NoError /\ TransportOf[call.by] = "rest" /\ call' = done(HttpOf(error))
      \/ \E status \in {StatusOf(error), Stripped(StatusOf(error))} :
           error # NoError /\ TransportOf[call.by] # "rest" /\ call' = Failed(FromStatus(status))
  <2>1. PICK spoil :
          call' = IF error = NoError
                  THEN done([kind |-> IF spoil THEN "InvalidResponse" ELSE "Ok", committed |-> work.committed])
                  ELSE IF TransportOf[call.by] = "rest" THEN done(HttpOf(error))
                  ELSE Failed(FromStatus(IF spoil THEN Stripped(StatusOf(error)) ELSE StatusOf(error)))
    BY DEF Receive
  <2>2. CASE spoil
    BY <2>1, <2>2
  <2>3. CASE ~spoil
    BY <2>1, <2>3
  <2>. QED BY <2>2, <2>3
<1>. QED BY <1>3, <1>4, <1>5, <1>6

(***************************************************************************)
(* The session                                                             *)
(***************************************************************************)
LEMMA ClosedIs ==
    /\ DOMAIN Closed = AppFields /\ Closed.screen = "closed" /\ Closed.launched = "none" /\ Closed.form = "none"
    /\ DOMAIN IdleTask = TaskFields /\ IdleTask.stage = "idle" /\ IdleTask.left = <<>> /\ IdleTask.outcome = None
    /\ IdleTask.acked = 0 /\ IdleTask.landed = 0
BY DEF Closed, IdleTask, AppFields, TaskFields

\* A key leads from a screen without a running action to another or launches an action, and while
\* one runs it only notes the wish to leave.
LEMMA KeysAre ==
    ASSUME DOMAIN app = AppFields, app.screen # "closed",
           app.launched = "none" <=> app.screen # "Running",
           app.screen = "Confirm" => app.form # "none",
           NEW after \in Keys(app, Workflows)
    PROVE  /\ DOMAIN after = AppFields
           /\ \/ /\ app.launched = "none" /\ after.launched = "none" /\ after.screen # "Running"
                 /\ after.screen = "Confirm" => after.form # "none"
              \/ app.launched = "none" /\ after.launched # "none" /\ after.screen = "Running"
              \/ app.launched # "none" /\ after.launched = app.launched /\ after.screen = "Running"
<1> DEFINE Good(x) ==
      /\ DOMAIN x = AppFields
      /\ \/ /\ app.launched = "none" /\ x.launched = "none" /\ x.screen # "Running"
            /\ x.screen = "Confirm" => x.form # "none"
         \/ app.launched = "none" /\ x.launched # "none" /\ x.screen = "Running"
         \/ app.launched # "none" /\ x.launched = app.launched /\ x.screen = "Running"
<1>. SUFFICES Good(after)
  OBVIOUS
<1>1. app.screen # "Running" => Good(Closed)
  BY ClosedIs
<1>2. ASSUME NEW screen \in {"Home", "Dashboard", "Form", "Result"}, app.screen # "Running"
      PROVE  Good(On(app, screen))
  BY <1>2 DEF On, AppFields
<1>3. ASSUME NEW workflow, workflow # "none", app.screen # "Running", NEW x, DOMAIN x = AppFields
      PROVE  Good(Launch(x, workflow))
  BY <1>3 DEF Launch, AppFields
<1>4. CASE app.picker
  <2>1. after = [app EXCEPT !.picker = FALSE]
    BY <1>4 DEF Keys, PickerKeys
  <2>. QED BY <2>1 DEF AppFields
<1>5. CASE ~app.picker /\ app.screen = "Home"
  BY <1>1, <1>2, <1>5 DEF Keys, HomeKeys
<1>6. CASE ~app.picker /\ app.screen = "Dashboard"
  <2>1. ASSUME NEW workflow \in Workflows
        PROVE  Good(OpenForm(app, workflow))
    <3>1. workflow # "none"
      BY WorkflowNames
    <3>2. CASE workflow \in Fieldless
      <4> DEFINE x == [app EXCEPT !.form = "none"]
      <4>1. DOMAIN x = AppFields
        BY DEF AppFields
      <4>. HIDE DEF x
      <4>2. Good(Launch(x, workflow))
        BY <1>3, <1>6, <3>1, <4>1
      <4>. QED BY <3>2, <4>2 DEF OpenForm, x
    <3>3. CASE workflow \notin Fieldless
      <4>1. OpenForm(app, workflow) = [app EXCEPT !.screen = "Form", !.form = workflow,
                     !.picker = workflow \in StartsOnCollection /\ app.suggestions]
        BY <3>3 DEF OpenForm
      <4>. HIDE DEF Good
      <4>2. /\ DOMAIN OpenForm(app, workflow) = AppFields
            /\ OpenForm(app, workflow).screen = "Form"
            /\ OpenForm(app, workflow).launched = app.launched
        BY <4>1 DEF AppFields
      <4>. QED BY <1>6, <4>2 DEF Good
    <3>. QED BY <3>2, <3>3
  <2>2. \/ after = Closed \/ after = On(app, "Home") \/ after = On(app, "Result")
        \/ \E workflow \in Workflows : after = OpenForm(app, workflow)
    BY <1>6 DEF Keys, DashboardKeys
  <2>. QED BY <1>1, <1>2, <1>6, <2>1, <2>2
<1>7. CASE ~app.picker /\ app.screen = "Form"
  <2>1. \A x \in OpenPicker(app) : Good(x)
    BY <1>7 DEF OpenPicker, AppFields
  <2>2. app.form # "none" => Good(Submit(app))
    <3>1. CASE app.form \in NeedsYes /\ app.form # "none"
      BY <1>7, <3>1 DEF Submit, AppFields
    <3>2. CASE app.form \notin NeedsYes /\ app.form # "none"
      <4>1. Good(Launch(app, app.form))
        BY <1>3, <1>7, <3>2
      <4>. QED BY <3>2, <4>1 DEF Submit
    <3>. QED BY <3>1, <3>2
  <2>3. \/ after = On(app, "Dashboard") \/ after = On(app, "Result") \/ after \in OpenPicker(app)
        \/ app.form # "none" /\ after = Submit(app)
    BY <1>7 DEF Keys, FormKeys
  <2>. QED BY <1>2, <1>7, <2>1, <2>2, <2>3
<1>8. CASE ~app.picker /\ app.screen = "Confirm"
  <2>1. \/ after = [app EXCEPT !.yes = TRUE] \/ after = [app EXCEPT !.yes = FALSE]
        \/ after = [app EXCEPT !.screen = "Form", !.yes = FALSE] \/ after = Launch(app, app.form)
    BY <1>8 DEF Keys, ConfirmKeys
  <2>2. Good(Launch(app, app.form))
    BY <1>3, <1>8
  <2>. QED BY <1>8, <2>1, <2>2 DEF AppFields
<1>9. CASE ~app.picker /\ app.screen = "Running"
  BY <1>9 DEF Keys, RunningKeys, AppFields
<1>10. CASE ~app.picker /\ app.screen = "Result"
  <2>1. Good(Back(app))
    BY <1>2, <1>10 DEF Back
  <2>2. \A x \in OpenPicker(Back(app)) : Good(x)
    BY <1>10, <2>1 DEF OpenPicker, AppFields, Back, On
  <2>3. after = Closed \/ after = On(app, "Home") \/ after = Back(app) \/ after \in OpenPicker(Back(app))
    BY <1>10 DEF Keys, ResultKeys
  <2>. QED BY <1>1, <1>2, <1>10, <2>1, <2>2, <2>3
<1>. QED BY <1>4, <1>5, <1>6, <1>7, <1>8, <1>9, <1>10 DEF Keys

LEMMA KeyStep == SessionInv /\ Key => SessionInv'
<1>. SUFFICES ASSUME SessionInv, Key PROVE SessionInv'
  OBVIOUS
<1>1. PICK after \in Keys(app, Workflows) :
         /\ app' = after
         /\ task' = IF after.launched # None /\ app.launched = None
                    THEN [IdleTask EXCEPT !.left = WorkflowKinds[after.launched], !.stage = "calls"]
                    ELSE task
  BY DEF Key
<1>2. app.screen # "closed" /\ UNCHANGED call
  BY DEF Key
<1>3. /\ DOMAIN after = AppFields
      /\ \/ /\ app.launched = "none" /\ after.launched = "none" /\ after.screen # "Running"
            /\ after.screen = "Confirm" => after.form # "none"
         \/ app.launched = "none" /\ after.launched # "none" /\ after.screen = "Running"
         \/ app.launched # "none" /\ after.launched = app.launched /\ after.screen = "Running"
  BY <1>2, KeysAre DEF SessionInv
<1>4. CASE after.launched # None /\ app.launched = None
  <2>1. /\ DOMAIN task' = TaskFields /\ task'.stage = "calls" /\ task'.outcome = None
        /\ task'.acked = 0 /\ task'.landed = 0
    BY <1>1, <1>4 DEF IdleTask, TaskFields
  <2>. QED BY <1>1, <1>2, <1>3, <1>4, <2>1 DEF SessionInv, None
<1>5. CASE ~(after.launched # None /\ app.launched = None)
  BY <1>1, <1>2, <1>3, <1>5 DEF SessionInv, None
<1>. QED BY <1>4, <1>5

LEMMA SessionKeeps ==
    ASSUME SessionInv, UNCHANGED <<app, task>>, call.stage # "idle", call'.by = call.by
    PROVE  SessionInv'
BY DEF SessionInv

\* The caller of an outstanding call stays its caller.
LEMMA CallerKeeps ==
    ASSUME CallInv, Cut \/ Resend \/ Receive
    PROVE  call.stage # "idle" /\ call'.by = call.by
<1>0. DOMAIN call = CallFields
  BY DEF CallInv, ShapeInv
<1>1. CASE Cut
  <2>1. PICK answer : call' = Failed(answer)
    BY <1>1 DEF Cut
  <2>2. call.stage = "sent"
    BY <1>1 DEF Cut
  <2>. QED BY <2>1, <2>2, FailedIs
<1>2. CASE Resend
  BY <1>0, <1>2 DEF Resend, CallFields
<1>3. CASE Receive
  <2>1. call.stage = "sent"
    BY <1>3 DEF Receive
  <2>2. \E answer : call' = [call EXCEPT !.stage = "done", !.answer = answer] \/ call' = Failed(answer)
    BY <1>3, Zenon DEF Receive
  <2>3. ASSUME NEW answer, call' = [call EXCEPT !.stage = "done", !.answer = answer]
        PROVE  call'.by = call.by
    BY <1>0, <2>3 DEF CallFields
  <2>. QED BY <2>1, <2>2, <2>3, FailedIs
<1>. QED BY <1>1, <1>2, <1>3

\* The batch that a task takes the answer of landed as the answer says.
LEMMA TaskTakesStep == CallInv /\ SessionInv /\ TaskTakes => SessionInv'
<1>. SUFFICES ASSUME CallInv, SessionInv, TaskTakes PROVE SessionInv'
  OBVIOUS
<1> DEFINE ok == call.answer.kind = "Ok"
           writes == Changes(call.method) = "record"
<1>1. /\ task.stage = "calls" /\ call.stage = "done" /\ UNCHANGED app /\ call' = IdleCall
      /\ call.by = Console /\ task.outcome = None /\ effects \in Nat
      /\ DOMAIN task = TaskFields /\ task.acked \in Nat /\ task.landed = task.acked
  BY DEF TaskTakes, SessionInv, CallInv, ShapeInv, None
<1>2. writes => /\ effects <= 1
                /\ ok => effects = 1
                /\ Definite(call.answer) => effects = 0
  BY <1>1, CallersAssumption DEF CallInv, RecordInv, Says, Done
<1>3. task' = [task EXCEPT !.left = IF ok THEN Tail(@) ELSE <<>>,
                           !.outcome = IF ok THEN @ ELSE IF Definite(call.answer) THEN "refused" ELSE "unknown",
                           !.acked = @ + (IF ok /\ writes THEN 1 ELSE 0),
                           !.landed = @ + (IF writes THEN effects ELSE 0)]
  BY DEF TaskTakes
<1>. HIDE DEF ok, writes
<1>4. /\ DOMAIN task' = TaskFields /\ task'.stage = "calls"
      /\ task'.left = IF ok THEN Tail(task.left) ELSE <<>>
      /\ task'.outcome = IF ok THEN None ELSE IF Definite(call.answer) THEN "refused" ELSE "unknown"
      /\ task'.acked = task.acked + (IF ok /\ writes THEN 1 ELSE 0)
      /\ task'.landed = task.landed + (IF writes THEN effects ELSE 0)
  BY <1>1, <1>3 DEF TaskFields
<1>5. /\ task'.acked \in Nat /\ task'.landed \in {task'.acked, task'.acked + 1}
      /\ task'.outcome # "unknown" => task'.landed = task'.acked
  BY <1>1, <1>2, <1>4
<1>. QED BY <1>1, <1>4, <1>5, IdleIs DEF SessionInv, None

(***************************************************************************)
(* The theorems                                                            *)
(***************************************************************************)
LEMMA InitInv == Init => IInv
<1>. SUFFICES ASSUME Init PROVE IInv
  OBVIOUS
<1>1. call = IdleCall /\ work = IdleWork /\ app = Closed /\ task = IdleTask /\ effects = 0
  BY DEF Init
<1>. USE <1>1, IdleIs, ClosedIs
<1>2. ShapeInv
  BY DEF ShapeInv, CallStages, WorkStages
<1>3. LinkInv /\ StageInv /\ RecordInv /\ StreamInv /\ CatalogInv
  BY DEF LinkInv, StageInv, RecordInv, StreamInv, CatalogInv
<1>4. SessionInv
  BY DEF SessionInv, None
<1>. QED BY <1>2, <1>3, <1>4 DEF IInv, CallInv

LEMMA NextInv == IInv /\ [Next]_vars => IInv'
<1>. SUFFICES ASSUME CallInv, SessionInv, [Next]_vars PROVE CallInv' /\ SessionInv'
  BY DEF IInv
<1>1. ASSUME UNCHANGED <<call, app, task>>
      PROVE  SessionInv'
  BY <1>1 DEF SessionInv
<1>2. ASSUME UNCHANGED <<call, work, effects>>
      PROVE  CallInv'
  BY <1>2 DEF CallInv, ShapeInv, LinkInv, StageInv, RecordInv, StreamInv, CatalogInv, Says, Done
<1>3. CASE ServerSteps
  <2>1. CallInv'
    BY <1>3, ArriveStep, ParseStep, GateStep, ReadCatalogStep, ReadLocalStep, ChangeCatalogStep, EnqueueStep,
       CommitsStep, DescribeAgainStep, ReadStreamStep, ForgetStep DEF ServerSteps
  <2>2. UNCHANGED <<call, app, task>>
    BY <1>3 DEF ServerSteps, Arrive, ParseDocuments, Gate, ReadCatalog, ReadLocal, ChangeCatalog, Enqueue,
       Commits, DescribeAgain, ReadStream, Forget, Serve
  <2>. QED BY <1>1, <2>1, <2>2
<1>4. CASE Deliver
  BY <1>1, <1>4, DeliverStep DEF Deliver
<1>5. CASE Cut \/ Resend \/ Receive
  <2>1. CallInv'
    BY <1>5, CutStep, ResendStep, ReceiveStep
  <2>2. UNCHANGED <<app, task>>
    BY <1>5 DEF Cut, Resend, Receive
  <2>. QED BY <1>5, <2>1, <2>2, CallerKeeps, SessionKeeps
<1>6. CASE Take
  <2>1. CallInv'
    BY <1>6, TakenStep DEF Take
  <2>2. SessionInv'
    BY <1>6, IdleIs DEF Take, SessionInv
  <2>. QED BY <2>1, <2>2
<1>7. CASE ProgramCalls
  <2>1. PICK by \in Callers : \E method : Send(by, method)
    BY <1>7 DEF ProgramCalls
  <2>2. CallInv'
    BY <2>1, SendStep
  <2>3. SessionInv'
    BY <1>7, ClosedIs DEF ProgramCalls, SessionInv
  <2>. QED BY <2>2, <2>3
<1>8. CASE TaskCalls
  <2>1. task.stage = "calls" /\ task.left # <<>> /\ UNCHANGED app /\ Console \in Callers
    BY <1>8, CallersAssumption DEF TaskCalls
  <2>2. CASE Send(Console, Head(task.left)) /\ UNCHANGED task
    <3>1. CallInv' /\ call'.stage # "idle" /\ call'.by = Console
      BY <2>1, <2>2, SendStep
    <3>. QED BY <2>1, <2>2, <3>1 DEF SessionInv
  <2>3. CASE /\ call = IdleCall /\ UNCHANGED <<call, work, effects>>
             /\ task' = [task EXCEPT !.left = <<>>, !.outcome = "local"]
    <3>1. /\ DOMAIN task' = TaskFields /\ task'.stage = "calls" /\ task'.outcome = "local" /\ task'.left = <<>>
          /\ task'.acked = task.acked /\ task'.landed = task.landed
      BY <2>1, <2>3 DEF SessionInv, TaskFields
    <3>2. SessionInv'
      BY <2>1, <2>3, <3>1, IdleIs DEF SessionInv, None
    <3>. QED BY <1>2, <2>3, <3>2
  <2>. QED BY <1>8, <2>2, <2>3 DEF TaskCalls
<1>9. CASE TaskTakes
  <2>1. CallInv'
    BY <1>9, TakenStep DEF TaskTakes
  <2>. QED BY <1>9, <2>1, TaskTakesStep
<1>10. CASE TaskReloads
  <2>1. /\ task.stage = "calls" /\ task.left = <<>> /\ UNCHANGED app /\ Send(Console, "runtime_status")
        /\ task' = [task EXCEPT !.stage = "context", !.outcome = IF @ = None THEN "ok" ELSE @]
    BY <1>10 DEF TaskReloads
  <2>2. CallInv' /\ call'.stage # "idle" /\ call'.by = Console
    BY <2>1, CallersAssumption, SendStep
  <2>3. /\ DOMAIN task' = TaskFields /\ task'.stage = "context" /\ task'.left = <<>>
        /\ task'.outcome = IF task.outcome = None THEN "ok" ELSE task.outcome
        /\ task'.acked = task.acked /\ task'.landed = task.landed
    BY <2>1 DEF SessionInv, TaskFields
  <2>. QED BY <2>1, <2>2, <2>3 DEF SessionInv, None
<1>11. CASE TaskCompletes
  <2>1. CallInv'
    BY <1>11, TakenStep DEF TaskCompletes
  <2>2. /\ app' = Completed(app, task.outcome = "ok", call.answer.kind = "Ok")
        /\ task' = IdleTask /\ call' = IdleCall
    BY <1>11 DEF TaskCompletes
  <2>3. /\ DOMAIN app' = AppFields /\ app'.launched = "none"
        /\ app'.screen \in {"closed", "Result", "Form"}
    <3>1. CASE app.exit_after_running
      BY <2>2, <3>1, ClosedIs DEF Completed
    <3>2. CASE ~app.exit_after_running
      BY <2>2, <3>2 DEF Completed, SessionInv, AppFields
    <3>. QED BY <3>1, <3>2
  <2>4. SessionInv'
    BY <2>2, <2>3, IdleIs, ClosedIs DEF SessionInv, None
  <2>. QED BY <2>1, <2>4
<1>12. CASE OpenSession
  <2>1. /\ app = Closed /\ call = IdleCall /\ task = IdleTask /\ UNCHANGED <<call, work, effects, task>>
    BY <1>12 DEF OpenSession
  <2>2. PICK suggestions \in BOOLEAN : app' = [Closed EXCEPT !.screen = "Home", !.suggestions = suggestions]
    BY <1>12 DEF OpenSession
  <2>3. DOMAIN app' = AppFields /\ app'.screen = "Home" /\ app'.launched = "none"
    BY <2>2, ClosedIs DEF AppFields
  <2>4. SessionInv'
    BY <2>1, <2>3, IdleIs, ClosedIs DEF SessionInv
  <2>. QED BY <1>2, <2>1, <2>4
<1>13. CASE Key
  BY <1>2, <1>13, KeyStep DEF Key
<1>14. CASE UNCHANGED vars \/ (WorldSteps /\ ~Cut)
  <2>1. UNCHANGED <<call, work, effects, app, task>>
    BY <1>14 DEF vars, WorldSteps, OwnerMoves, LeaderMoves, Observes, MembershipLapses, EtcdTurns, HealthTurns,
       DroppedByAnother, Happens
  <2>. QED BY <1>1, <1>2, <2>1
<1>. QED
  BY <1>3, <1>4, <1>5, <1>6, <1>7, <1>8, <1>9, <1>10, <1>11, <1>12, <1>13, <1>14 DEF Next, CallerSteps, WorldSteps

LEMMA Invariance == Spec => []IInv
BY InitInv, NextInv, PTL DEF Spec

\* An answer tells the truth about its change (the client's retry loop in logpose-client/src/lib.rs,
\* the bulk stream of logpose-api-grpc/src/bulk.rs): for every set of callers, retry policies,
\* redirects, faults and batches.
THEOREM AnswersAreTrue == Spec => []AnswersTrue
<1>1. IInv => AnswersTrue
  <2>. SUFFICES ASSUME IInv PROVE AnswersTrue
    OBVIOUS
  <2>1. call.stage # "idle" => call.by \in Callers /\ call.method \in DOMAIN Methods
    BY CallersAssumption DEF IInv, CallInv, ShapeInv
  <2>2. effects \in Nat
    BY DEF IInv, CallInv, ShapeInv
  <2>. QED
    BY <2>1, <2>2 DEF IInv, CallInv, RecordInv, StreamInv, CatalogInv, AnswersTrue, OfStream, Counted, Says, Done, Definite
<1>. QED BY <1>1, Invariance, PTL

\* A session does not end under its action, and what it tells of the batches of a put is what the
\* collection holds (interactive.rs, execute.rs of logpose-cli).
THEOREM SessionsAreSafe == Spec => []SessionSafe
<1>1. IInv => SessionSafe
  BY ClosedIs DEF IInv, SessionInv, SessionSafe, None
<1>. QED BY <1>1, Invariance, PTL
=============================================================================
