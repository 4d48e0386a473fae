------------------------------ MODULE MCCommit ------------------------------
(* Instances of the commit pipeline: a put, a delete and a delete by filter *)
(* of the row, and a request that fails validation.                         *)
EXTENDS Commit

CONSTANTS p, d, f, b

MCReq == {p, d, f, b}

MCFewReq == {p, d, f}

MCKind ==
  [r \in Req |->
     CASE r = p -> "put" [] r = d -> "delete" [] r = f -> "filter" [] r = b -> "bad"]
=============================================================================
