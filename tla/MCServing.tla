----------------------------- MODULE MCServing -------------------------------
(***************************************************************************)
(* Two nodes and six callers: a client far from the collection that        *)
(* retries writes and follows redirects, one that waits less than a hint   *)
(* asks for, one without a valid token, a REST client, a bulk stream, and  *)
(* the interactive session, whose client does neither retry nor redirect.  *)
(***************************************************************************)
EXTENDS Serving

MCNodes == {"n1", "n2"}
MCNodeRole == [n \in MCNodes |-> "combined"]
MCCallers == {"app", "hasty", "guest", "web", "bulk", "console"}
MCHome == [app |-> "n2", hasty |-> "n1", guest |-> "n1", web |-> "n1", bulk |-> "n1", console |-> "n1"]
MCTransportOf == [app |-> "grpc", hasty |-> "grpc", guest |-> "grpc", web |-> "rest", bulk |-> "stream",
                  console |-> "grpc"]
MCMethodsOf ==
    [app |-> DOMAIN Methods \ {"bulk_upsert"}, hasty |-> {"upsert", "get"}, guest |-> {"count", "databases"},
     web |-> DOMAIN Methods \ {"bulk_upsert"}, bulk |-> {"bulk_upsert"}, console |-> DOMAIN Methods]
MCRetryOf ==
    [app |-> RetryPolicy(2, 1, 20, 2, TRUE), hasty |-> RetryPolicy(3, 1, 5, 2, TRUE), guest |-> Disabled,
     web |-> Disabled, bulk |-> Disabled, console |-> Disabled]
MCMaxRedirectsOf == [app |-> 2, hasty |-> 0, guest |-> 0, web |-> 0, bulk |-> 0, console |-> 0]
MCTierOf == [app |-> "operator", hasty |-> "member", guest |-> "unknown", web |-> "member", bulk |-> "member",
             console |-> "operator"]
MCRoleOf == [app |-> "none", hasty |-> "read_write", guest |-> "none", web |-> "read_write", bulk |-> "owner",
             console |-> "none"]
\* The inspections and the other forms of one read behave like CollectionShow.
MCWorkflows == DOMAIN WorkflowKinds \ {"InspectManifest", "InspectWal", "InspectMaintenance", "InspectSegment",
                                       "CollectionStats", "CollectionPlacement", "CollectionCompact"}
=============================================================================
