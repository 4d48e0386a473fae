----------------------------- MODULE DurableLog -----------------------------
(***************************************************************************)
(* What the write-ahead log promises its caller, with no files in sight.   *)
(*                                                                         *)
(* The log is a sequence of operations; operation number s sits at         *)
(* log[s].  A caller proposes one group at a time.  The log answers        *)
(* committed, rejected (the code's WriteOutcome::NotApplied), or nothing   *)
(* at all: the process dies, or the outcome is WriteOutcome::Unknown.  A   *)
(* group without an answer is decided by the next recovery, as a whole.    *)
(***************************************************************************)
EXTENDS Naturals, Sequences

CONSTANT Op    \* the operations a caller can log

VARIABLES
  log,         \* the operations the log holds, in sequence-number order
  pending,     \* the proposed group that has no answer yet, << >> if none
  rejected,    \* every operation whose group was answered NotApplied
  up           \* whether a process has the log open

vars == <<log, pending, rejected, up>>

TypeOK ==
  /\ log \in Seq(Op)
  /\ pending \in Seq(Op)
  /\ rejected \in SUBSET Op
  /\ up \in BOOLEAN

Ops(s) == {s[i] : i \in DOMAIN s}

Init == log = << >> /\ pending = << >> /\ rejected = {} /\ up = FALSE

(* A caller proposes a group of operations nobody proposed before. *)
Propose ==
  /\ up /\ pending = << >>
  /\ pending' \in Seq(Op)
  /\ Ops(pending') \cap (Ops(log) \cup rejected) = {}
  /\ UNCHANGED <<log, rejected, up>>

Commit ==
  /\ up
  /\ log' = log \o pending
  /\ pending' = << >>
  /\ UNCHANGED <<rejected, up>>

(* The proposal is answered NotApplied.  The process may stop with it. *)
Reject ==
  /\ up
  /\ rejected' = rejected \cup Ops(pending)
  /\ pending' = << >>
  /\ up' \in BOOLEAN
  /\ UNCHANGED log

(* The process dies, or stops using the log. *)
Stop ==
  /\ up
  /\ up' = FALSE
  /\ UNCHANGED <<log, pending, rejected>>

(* Recovery decides the unanswered group: all of it, or none of it. *)
Recover ==
  /\ ~up
  /\ up' = TRUE
  /\ log' \in {log, log \o pending}
  /\ pending' = << >>
  /\ UNCHANGED rejected

Next ==
  \/ Propose \/ Commit \/ Reject \/ Stop \/ Recover

Spec == Init /\ [][Next]_vars

-----------------------------------------------------------------------------
(* An operation answered NotApplied is not in the log and never will be:    *)
(* the contract of WriteOutcome::NotApplied.                                *)
NotAppliedStaysOut == Ops(log) \cap rejected = {}

(* No operation leaves the log and none is overwritten: recovery returns    *)
(* an extension of what was committed, invariants I2 and I6 of the design.  *)
OnlyExtends ==
  [][/\ Len(log) <= Len(log')
     /\ \A i \in 1..Len(log) : log'[i] = log[i]]_log
=============================================================================
