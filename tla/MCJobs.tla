------------------------------- MODULE MCJobs --------------------------------
(* The instance of Jobs that TLC checks: pool and sizes such that a merge of *)
(* two segments fits, a third does not, and one other collection competes.  *)
EXTENDS Jobs

Foreign == {[job |-> -1, kind |-> "compact", bytes |-> 1100]}
Empty == <<>>
=============================================================================
