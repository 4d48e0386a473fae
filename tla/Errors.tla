------------------------------- MODULE Errors --------------------------------
(***************************************************************************)
(* How an error travels (logpose-types/src/error.rs, the error modules of  *)
(* logpose-api-grpc, logpose-api-rest and logpose-client): the class and   *)
(* the retry hint of a LogPoseError, the gRPC status and the HTTP response *)
(* it becomes, and what the client reads back from a status, which a proxy *)
(* may have stripped of its details.                                       *)
(***************************************************************************)
EXTENDS Naturals

None == "none"

\* Durations are tenths of a second; 0 stands for no hint.
ROUTING_RETRY_AFTER == 10
WRITE_STALL_RETRY_AFTER == 10

\* A LogPoseError: its variant, the node it names (`owner_node`, `leader_node`), the hint of an
\* Unavailable, and whether it is the source of a BulkBatchFailed, after how many batches.
\* WalWriteFailed is two variants, one per outcome.
Error(variant) == [variant |-> variant, node |-> None, hint |-> 0, bulk |-> FALSE, committed |-> 0]
NoError == Error(None)

NotOwner(node) == [Error("NotOwner") EXCEPT !.node = node]
NotLeader(node) == [Error("NotLeader") EXCEPT !.node = node]
UnavailableFor(hint) == [Error("Unavailable") EXCEPT !.hint = hint]
BulkBatchFailed(source, committed) == [source EXCEPT !.bulk = TRUE, !.committed = committed]

\* LogPoseError::code: the canonical class.
CodeOf(error) ==
    CASE error.variant \in {"InvalidArgument", "DimensionMismatch", "InvalidConfig"} -> "INVALID_ARGUMENT"
      [] error.variant \in {"TooLarge", "TooManySnapshots"} -> "RESOURCE_EXHAUSTED"
      [] error.variant = "NotFound" -> "NOT_FOUND"
      [] error.variant = "AlreadyExists" -> "ALREADY_EXISTS"
      [] error.variant \in {"FailedPrecondition", "WrongNodeRole", "ReconciliationRequired",
                            "StorageRootLocked", "ReadBarrierNotSatisfied", "SnapshotExpired",
                            "CollectionPoisoned"} -> "FAILED_PRECONDITION"
      [] error.variant = "Unauthenticated" -> "UNAUTHENTICATED"
      [] error.variant = "PermissionDenied" -> "PERMISSION_DENIED"
      [] error.variant \in {"NotOwner", "NotLeader", "Unavailable", "WriteStalled", "WalNotApplied"} -> "UNAVAILABLE"
      [] error.variant = "Corrupt" -> "DATA_LOSS"
      [] error.variant \in {"WalUnknown", "Io", "Internal"} -> "INTERNAL"

ErrorCodes ==
    {"INVALID_ARGUMENT", "RESOURCE_EXHAUSTED", "NOT_FOUND", "ALREADY_EXISTS", "FAILED_PRECONDITION",
     "UNAUTHENTICATED", "PERMISSION_DENIED", "UNAVAILABLE", "DATA_LOSS", "INTERNAL"}

\* error_reason: one reason per variant, the same for both outcomes of a WAL failure.
ReasonOf(error) ==
    IF error.variant \in {"WalNotApplied", "WalUnknown"} THEN "WalWriteFailed" ELSE error.variant

\* retry_after.
RetryAfter(error) ==
    CASE error.variant \in {"NotOwner", "NotLeader"} -> ROUTING_RETRY_AFTER
      [] error.variant = "WriteStalled" -> WRITE_STALL_RETRY_AFTER
      [] error.variant = "Unavailable" -> error.hint
      [] OTHER -> 0

\* details: the metadata that clients act on.
Details(error) ==
    [domain |-> "logpose", reason |-> ReasonOf(error), node |-> error.node,
     bulk |-> error.bulk, committed |-> error.committed]
NoDetails == [domain |-> None, reason |-> None, node |-> None, bulk |-> FALSE, committed |-> 0]

\* status_from_error, and the statuses the server did not write: a broken connection, and a
\* status whose details were lost on the way.
Status(code, info, retryInfo, trailer) ==
    [code |-> code, info |-> info, retryInfo |-> retryInfo, trailer |-> trailer]
StatusOf(error) == Status(CodeOf(error), Details(error), RetryAfter(error), RetryAfter(error))
TransportStatus(code) == Status(code, NoDetails, 0, 0)
Stripped(status) == [status EXCEPT !.info = NoDetails, !.retryInfo = 0]

\* code_from_grpc: the codes LogPose sends; the transport's own have no counterpart.
CodeFromGrpc(code) == IF code \in ErrorCodes THEN code ELSE None

\* ServerError::from_status.  A client of the same version knows every reason.
FromStatus(status) ==
    [kind |-> IF status.info.domain = "logpose" /\ CodeFromGrpc(status.code) # None
              THEN "LogPose" ELSE "Unknown",
     code |-> status.code, reason |-> status.info.reason, node |-> status.info.node,
     bulk |-> status.info.bulk, committed |-> status.info.committed,
     retry_after |-> IF status.retryInfo # 0 THEN status.retryInfo ELSE status.trailer]

\* is_retryable, and one that goes by the code alone.
RetryableByCode(error) == error.code \in {"UNAVAILABLE", "RESOURCE_EXHAUSTED"}

IsRetryable(error) == error.retry_after # 0 /\ error.code \in {"UNAVAILABLE", "RESOURCE_EXHAUSTED"}

\* redirect_node.
RedirectNode(error) ==
    IF error.kind = "LogPose" /\ error.reason \in {"NotOwner", "NotLeader"} THEN error.node ELSE None

\* http_status; an oversized batch is an oversized request.
HttpStatus(error) ==
    CASE CodeOf(error) = "INVALID_ARGUMENT" -> 400
      [] CodeOf(error) = "UNAUTHENTICATED" -> 401
      [] CodeOf(error) = "PERMISSION_DENIED" -> 403
      [] CodeOf(error) = "NOT_FOUND" -> 404
      [] CodeOf(error) \in {"ALREADY_EXISTS", "FAILED_PRECONDITION"} -> 409
      [] CodeOf(error) = "RESOURCE_EXHAUSTED" -> IF error.variant = "TooLarge" THEN 413 ELSE 429
      [] CodeOf(error) = "UNAVAILABLE" -> 503
      [] CodeOf(error) \in {"DATA_LOSS", "INTERNAL"} -> 500

\* ApiError::into_response: the status, the body's reason, and Retry-After in whole seconds.
HttpOf(error) ==
    [kind |-> "Http", status |-> HttpStatus(error), reason |-> ReasonOf(error), retry_after |-> (RetryAfter(error) + 9) \div 10]
=============================================================================
