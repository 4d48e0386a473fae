-------------------------------- MODULE Grpc ---------------------------------
(***************************************************************************)
(* The gRPC handlers (logpose-api-grpc/src): the parts of a request that a *)
(* handler converts before it asks AppState for anything, the ways each    *)
(* conversion refuses a part, and the limits on both messages.  A request  *)
(* is a well-formed one or one with a single flaw.                         *)
(***************************************************************************)
EXTENDS Errors

\* convert.rs, the `_from_proto` functions: how each part may be malformed.
NameFlaws == {"empty_name"}
EnumFlaws == {"unknown_enum"}
JsonFlaws == {"json_without_kind", "json_not_finite"}
ValueFlaws == {"value_without_kind", "not_finite", "timestamp_out_of_range"} \union JsonFlaws
KeyFlaws == {"key_without_kind"}
RecordFlaws == KeyFlaws \union ValueFlaws
PatchFlaws == ValueFlaws
FilterFlaws == {"filter_without_node", "filter_too_deep", "no_field_path", "no_operand"} \union ValueFlaws
OrderFlaws == {"unknown_direction"}
PolicyFlaws == NameFlaws \union {"unknown_mode", "unknown_role"}
SpecFlaws == NameFlaws \union EnumFlaws \union {"no_primary_key"}
ChangeFlaws == {"no_change"} \union EnumFlaws

\* A part is named by the flaws it may have.
CatalogParts ==
    [metadata |-> {}, runtime_status |-> {}, databases |-> {}, put_database |-> NameFlaws,
     database |-> NameFlaws, drop_database |-> NameFlaws, set_database_policy |-> PolicyFlaws,
     database_policy |-> NameFlaws]

CollectionParts ==
    [create_collection |-> SpecFlaws, collection |-> NameFlaws, collections |-> NameFlaws,
     alter_collection |-> NameFlaws \union ChangeFlaws, drop_collection |-> NameFlaws,
     collection_placement |-> NameFlaws]

RecordParts ==
    [upsert |-> NameFlaws \union RecordFlaws, update |-> NameFlaws \union RecordFlaws,
     delete |-> NameFlaws \union KeyFlaws,
     delete_by_filter |-> NameFlaws \union FilterFlaws \union {"keys_and_filter"},
     update_by_filter |-> NameFlaws \union FilterFlaws \union PatchFlaws
                          \union {"records_and_filter", "filter_without_patch", "patch_without_filter"}]

ReadParts ==
    [get |-> NameFlaws \union KeyFlaws, count |-> NameFlaws \union FilterFlaws,
     scroll |-> NameFlaws \union FilterFlaws \union OrderFlaws,
     query |-> NameFlaws \union FilterFlaws \union OrderFlaws \union EnumFlaws,
     stats |-> NameFlaws]

MaintenanceParts ==
    [flush |-> NameFlaws, compact |-> NameFlaws, inspect |-> NameFlaws \union {"unknown_target", "no_segment_id"}]

GrpcParts(method) ==
    CASE method \in DOMAIN CatalogParts -> CatalogParts[method]
      [] method \in DOMAIN CollectionParts -> CollectionParts[method]
      [] method \in DOMAIN RecordParts -> RecordParts[method]
      [] method \in DOMAIN ReadParts -> ReadParts[method]
      [] method \in DOMAIN MaintenanceParts -> MaintenanceParts[method]
      [] OTHER -> {}

\* MessageLimitLayer: a request above the decode limit never reaches its handler.
\* request_auth_from_metadata: an unreadable authorization header is the next thing refused.
GrpcRefusal(flaw) ==
    CASE flaw = None -> NoError
      [] flaw = "oversized" -> Error("TooLarge")
      [] flaw = "bad_token" -> Error("Unauthenticated")
      [] OTHER -> Error("InvalidArgument")

\* GrpcLogPoseService::bounded: replies that are refused above the message limit.
BoundedReplies == {"get", "scroll", "query"}

\* bulk.rs: what the stream may hand the ingest task, and the error for what is not a batch:
\* one that does not decode or convert or names another collection, one above the limit, and
\* a stream that breaks.
StreamItems == {"batch", "malformed", "oversized", "interrupted", "end"}
StreamError(item) ==
    CASE item = "malformed" -> Error("InvalidArgument")
      [] item = "oversized" -> Error("TooLarge")
      [] item = "interrupted" -> UnavailableFor(0)
=============================================================================
