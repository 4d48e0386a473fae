------------------------------ MODULE MCCluster ------------------------------
(* Two nodes that may both lead, and two requests in progress at a time.    *)
EXTENDS Cluster, TLC

MCTierOf == "op" :> "operator" @@ "dev" :> "member"
MCRoleOf == "op" :> "none" @@ "dev" :> "read_write"
MCKindsOf == 1 :> {"create", "alter"} @@ 2 :> {"drop", "alter", "describe", "promote", "drop_database", "policy"}
MCSchemaKindsOf == 1 :> {"create", "drop"} @@ 2 :> {"alter"}
MCNodeRole == [n \in Nodes |-> "combined"]
MCCallerOf == 1 :> "op" @@ 2 :> "op"
=============================================================================
