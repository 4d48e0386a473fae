-------------------------------- MODULE Rest ---------------------------------
(***************************************************************************)
(* The REST handlers (logpose-api-rest/src): the extractors refuse a bad   *)
(* path, query string or body before the handler runs, the handler reads   *)
(* the collection's schema first where it parses natural JSON with it, and *)
(* a read's response is bounded like a request body.                       *)
(***************************************************************************)
EXTENDS Errors

\* ApiPath, ApiQuery and ApiJson, by route.
PathFlaws == {"bad_path"}
BodyFlaws == {"bad_body", "oversized"}
PairFlaws == {"half_a_pair", "two_constraints"}
TargetFlaws == {"unknown_target", "no_segment_id"}
KeyDocumentFlaws == {"bad_key"}

\* The documents that are parsed with the schema: records, updates, patches and filters, with
\* an update's choice between records and a filter.  A delete's choice is read before.
DocumentFlaws == {"bad_document"}

CatalogRoutes ==
    [metadata |-> {}, runtime_status |-> {}, databases |-> {}, put_database |-> PathFlaws,
     database |-> PathFlaws, drop_database |-> PathFlaws,
     set_database_policy |-> PathFlaws \union BodyFlaws, database_policy |-> PathFlaws]

CollectionRoutes ==
    [collections |-> PathFlaws, create_collection |-> PathFlaws \union BodyFlaws, collection |-> PathFlaws,
     alter_collection |-> PathFlaws \union BodyFlaws, drop_collection |-> PathFlaws,
     collection_placement |-> PathFlaws]

WriteRoutes ==
    [upsert |-> PathFlaws \union BodyFlaws, update |-> PathFlaws \union BodyFlaws,
     update_by_filter |-> PathFlaws \union BodyFlaws,
     delete |-> PathFlaws \union BodyFlaws \union KeyDocumentFlaws, delete_by_filter |-> PathFlaws \union BodyFlaws]

ReadRoutes ==
    [get |-> PathFlaws \union BodyFlaws \union KeyDocumentFlaws, count |-> PathFlaws \union BodyFlaws,
     scroll |-> PathFlaws \union BodyFlaws, query |-> PathFlaws \union BodyFlaws]

OperatorRoutes ==
    [stats |-> PathFlaws \union PairFlaws, flush |-> PathFlaws, compact |-> PathFlaws,
     inspect |-> PathFlaws \union TargetFlaws]

\* collection_schema_with_auth comes first; a read without a filter needs no schema.
ReadsSchema == {"upsert", "update", "update_by_filter", "delete_by_filter", "count", "scroll", "query"}

RestFlaws(method) ==
    LET early == CASE method \in DOMAIN CatalogRoutes -> CatalogRoutes[method]
                   [] method \in DOMAIN CollectionRoutes -> CollectionRoutes[method]
                   [] method \in DOMAIN WriteRoutes -> WriteRoutes[method]
                   [] method \in DOMAIN ReadRoutes -> ReadRoutes[method]
                   [] method \in DOMAIN OperatorRoutes -> OperatorRoutes[method]
    IN early \union (IF method \in ReadsSchema THEN DocumentFlaws ELSE {})

\* What the extractors, the header and the parameters refuse, before AppState is asked.
RestRefusal(flaw) ==
    CASE flaw \in {None} \union DocumentFlaws -> NoError
      [] flaw = "oversized" -> Error("TooLarge")
      [] flaw = "bad_token" -> Error("Unauthenticated")
      [] OTHER -> Error("InvalidArgument")

\* What the parse with the schema refuses.
DocumentRefusal(flaw) == IF flaw \in DocumentFlaws THEN Error("InvalidArgument") ELSE NoError

\* bounded_json.
BoundedResponses == {"get", "scroll", "query"}
=============================================================================
