------------------------------- MODULE Commit -------------------------------
(***************************************************************************)
(* The group-commit pipeline of one collection (logpose-storage: writer/   *)
(* mod.rs, writer/prepare.rs, handle.rs), with the drop of the collection  *)
(* and the shutdown of the engine running against it.                      *)
(*                                                                         *)
(* Callers check the handle and send a request.  The writer task collects  *)
(* a group, prepares it against its private state while the group before   *)
(* it is still being written, and starts its I/O once that one is          *)
(* published.  An I/O thread appends the group to the log.  A dropper      *)
(* retires the collection's directory after the writer has quiesced.       *)
(*                                                                         *)
(* A request is one operation on one row.  Every accepted operation takes  *)
(* one sequence number, so a state is the sequence of operations applied   *)
(* to it and a sequence number is a position in it.  The request a stalled *)
(* or collecting writer holds back is the head of the request queue.       *)
(***************************************************************************)
EXTENDS Integers, Sequences, FiniteSets, SequencesExt

CONSTANTS
  Req,       \* the write requests callers make
  Kind,      \* what each one is: "put", "delete", "filter" or "bad"
  MaxGroup,  \* max_group_requests
  MaxDrops   \* bound: attempts to drop the collection

ASSUME KindAssumption == Kind \in [Req -> {"put", "delete", "filter", "bad"}]

ASSUME BoundsAssumption == MaxGroup \in Nat \ {0} /\ MaxDrops \in Nat

VARIABLES
  answer,    \* how far each request is, and then its answer
  requests,  \* the request channel, with the held request at its head
  pc,        \* "select" or "preparing" a group; "stopped"
  group,     \* the collected requests still to be prepared
  prepared,  \* the prepared requests, whose group has not started
  before,    \* the savepoint: the private state and next number before them
  private,   \* the operations of the writer's private state
  next,      \* next_seq_no
  inflight,  \* the group being written
  wal,       \* whether the writer holds the WAL writer (Some)
  durable,   \* the operations a recovery would find in the log
  published, \* the operations of the current version
  poison,    \* the handle's poison: "none", "read_only" or "failed"
  dropped,   \* the handle's state is STATE_DROPPED
  dropper,   \* how far a drop is: "idle", "quiescing" or "retiring"
  drops,     \* drops attempted so far
  dir,       \* the collection's directory: "present", "renamed", "removed"
  full,      \* the memtables are full, so that writes stall
  shutdown,  \* the engine's shutdown flag
  stop       \* a Shutdown message is in the writer's control channel

callerVars == <<answer, requests>>
groupVars == <<pc, group, prepared, before, private, next>>
ioVars == <<inflight, wal, durable, published>>
dropVars == <<dropped, dropper, drops, dir>>
engineVars == <<full, shutdown, stop>>
vars == <<callerVars, groupVars, ioVars, poison, dropVars, engineVars>>

Final ==
  {"ok", "nothing", "refused", "invalid", "internal", "not_applied",
   "unknown", "lost"}

Failures == {"not_applied", "unknown", "rotate_failed", "rotate_unknown", "lost"}

NoFlight == [reqs |-> << >>, version |-> << >>, first |-> 0, io |-> "none"]

TypeOK ==
  /\ answer \in [Req -> Final \cup {"new", "checked", "queued"}]
  /\ requests \in Seq(Req)
  /\ pc \in {"select", "preparing", "stopped"}
  /\ group \in Seq(Req) /\ prepared \in Seq(Req)
  /\ before \in [private : Seq(Req), next : Nat]
  /\ private \in Seq(Req) /\ next \in Nat
  /\ inflight \in [reqs : Seq(Req), version : Seq(Req), first : Nat,
                   io : Failures \cup {"none", "running", "ok", "published"}]
  /\ wal \in BOOLEAN
  /\ durable \in Seq(Req) /\ published \in Seq(Req)
  /\ poison \in {"none", "read_only", "failed"}
  /\ dropped \in BOOLEAN
  /\ dropper \in {"idle", "quiescing", "retiring"}
  /\ drops \in 0..MaxDrops
  /\ dir \in {"present", "renamed", "removed"}
  /\ full \in BOOLEAN /\ shutdown \in BOOLEAN /\ stop \in BOOLEAN

Init ==
  /\ answer = [r \in Req |-> "new"]
  /\ requests = << >>
  /\ pc = "select" /\ group = << >> /\ prepared = << >>
  /\ before = [private |-> << >>, next |-> 1]
  /\ private = << >> /\ next = 1
  /\ inflight = NoFlight /\ wal = TRUE
  /\ durable = << >> /\ published = << >>
  /\ poison = "none"
  /\ dropped = FALSE /\ dropper = "idle" /\ drops = 0 /\ dir = "present"
  /\ full = FALSE /\ shutdown = FALSE /\ stop = FALSE

Answered(reqs, a) ==
  [r \in Req |-> IF r \in ToSet(reqs) THEN a ELSE answer[r]]

(* The one row is live if the last operation on it wrote it. *)
Live(ops) == ops # << >> /\ Kind[ops[Len(ops)]] = "put"

-----------------------------------------------------------------------------
(* Callers. *)

EnsureWritable == ~dropped /\ poison = "none"

(* The first half of submit: the handle is checked before the send. *)
Check(r) ==
  /\ answer[r] = "new"
  /\ answer' = [answer EXCEPT ![r] = IF EnsureWritable THEN "checked" ELSE "refused"]
  /\ UNCHANGED <<requests, groupVars, ioVars, poison, dropVars, engineVars>>

Send(r) ==
  /\ answer[r] = "checked" /\ pc # "stopped"
  /\ answer' = [answer EXCEPT ![r] = "queued"]
  /\ requests' = Append(requests, r)
  /\ UNCHANGED <<groupVars, ioVars, poison, dropVars, engineVars>>

(* The send fails once the writer has closed its channel. *)
SendClosed(r) ==
  /\ answer[r] = "checked" /\ pc = "stopped"
  /\ answer' = [answer EXCEPT ![r] = "refused"]
  /\ UNCHANGED <<requests, groupVars, ioVars, poison, dropVars, engineVars>>

-----------------------------------------------------------------------------
(* The writer task: collecting a group. *)

Refusal == dropped \/ poison # "none" \/ shutdown

Stalled == full /\ ~Refusal

(* What collect may take: a filter request alone, otherwise requests up to *)
(* the first filter request or a group limit (of requests, or of bytes).   *)
Collects(n) ==
  /\ pc = "select" /\ ~Stalled
  /\ n \in 1..Len(requests)
  /\ n <= MaxGroup
  /\ n > 1 => \A i \in 1..n : Kind[requests[i]] # "filter"

Refuse(n) ==
  /\ Collects(n) /\ Refusal
  /\ answer' = Answered(SubSeq(requests, 1, n), "refused")
  /\ requests' = SubSeq(requests, n + 1, Len(requests))
  /\ UNCHANGED <<groupVars, ioVars, poison, dropVars, engineVars>>

(* A filter that matches no row of the private state is answered at once; *)
(* one whose resolution fails gets its error.                             *)
ResolveFilter(a) ==
  /\ Collects(1) /\ ~Refusal
  /\ Kind[Head(requests)] = "filter"
  /\ a = "nothing" => ~Live(private)
  /\ answer' = [answer EXCEPT ![Head(requests)] = a]
  /\ requests' = Tail(requests)
  /\ UNCHANGED <<groupVars, ioVars, poison, dropVars, engineVars>>

(* Mutant: the savepoint of an earlier group is kept. *)
CollectStaleSavepoint(n) ==
  /\ Collects(n) /\ ~Refusal
  /\ Kind[Head(requests)] = "filter" => Live(private)
  /\ group' = SubSeq(requests, 1, n)
  /\ requests' = SubSeq(requests, n + 1, Len(requests))
  /\ pc' = "preparing"
  /\ UNCHANGED <<answer, prepared, before, private, next, ioVars, poison, dropVars, engineVars>>

(* The savepoint is taken between collecting and preparing. *)
Collect(n) ==
  /\ Collects(n) /\ ~Refusal
  /\ Kind[Head(requests)] = "filter" => Live(private)
  /\ group' = SubSeq(requests, 1, n)
  /\ requests' = SubSeq(requests, n + 1, Len(requests))
  /\ before' = [private |-> private, next |-> next]
  /\ pc' = "preparing"
  /\ UNCHANGED <<answer, prepared, private, next, ioVars, poison, dropVars, engineVars>>

(* A tick fails the oldest request that waited through a stall too long. *)
ExpireStalled ==
  /\ pc = "select" /\ Stalled /\ requests # << >>
  /\ answer' = [answer EXCEPT ![Head(requests)] = "refused"]
  /\ requests' = Tail(requests)
  /\ UNCHANGED <<groupVars, ioVars, poison, dropVars, engineVars>>

-----------------------------------------------------------------------------
(* The writer task: preparing the group, one request after the other. *)

(* The first poison wins; either way the WAL writer is given up. *)
Poison(kind) ==
  /\ poison' = IF poison = "none" THEN kind ELSE poison
  /\ wal' = FALSE

(* A request that fails validation is answered and takes no number. *)
PrepareInvalid ==
  /\ pc = "preparing" /\ group # << >> /\ Kind[Head(group)] = "bad"
  /\ group' = Tail(group)
  /\ answer' = [answer EXCEPT ![Head(group)] = "invalid"]
  /\ UNCHANGED <<requests, pc, prepared, before, private, next, ioVars, poison,
                 dropVars, engineVars>>

Prepare ==
  /\ pc = "preparing" /\ group # << >> /\ Kind[Head(group)] # "bad"
  /\ group' = Tail(group)
  /\ private' = Append(private, Head(group))
  /\ prepared' = Append(prepared, Head(group))
  /\ next' = next + 1
  /\ UNCHANGED <<callerVars, pc, before, ioVars, poison, dropVars, engineVars>>

(* Applying an operation violates an engine invariant. *)
PrepareFatal ==
  /\ pc = "preparing" /\ group # << >> /\ Kind[Head(group)] # "bad"
  /\ answer' = [r \in Req |->
       IF r \in ToSet(group) THEN "internal" ELSE Answered(prepared, "not_applied")[r]]
  /\ group' = << >> /\ prepared' = << >>
  /\ Poison("read_only")
  /\ UNCHANGED <<requests, pc, before, private, next, inflight, durable,
                 published, dropVars, engineVars>>

(* Mutant: the collection is not poisoned, and goes on from nothing. *)
PreparePanicsUnpoisoned ==
  /\ pc = "preparing" /\ group # << >>
  /\ answer' = Answered(prepared \o group, "lost")
  /\ group' = << >> /\ prepared' = << >>
  /\ private' = << >>
  /\ next' = before.next
  /\ UNCHANGED <<requests, pc, before, ioVars, poison, dropVars, engineVars>>

(* The prepare panics on the query pool, and takes the private state and *)
(* the group's acknowledgements down with it.                            *)
PreparePanics ==
  /\ pc = "preparing" /\ group # << >>
  /\ answer' = Answered(prepared \o group, "lost")
  /\ group' = << >> /\ prepared' = << >>
  /\ private' = << >>
  /\ Poison("read_only")
  /\ UNCHANGED <<requests, pc, before, next, inflight, durable, published,
                 dropVars, engineVars>>

-----------------------------------------------------------------------------
(* The writer task: starting the prepared group, once none is in flight. *)

CanStart == pc = "preparing" /\ group = << >> /\ inflight = NoFlight

StartIo ==
  /\ CanStart /\ prepared # << >>
  /\ ~Refusal /\ wal
  /\ inflight' = [reqs |-> prepared, version |-> private, first |-> before.next,
                  io |-> "running"]
  /\ wal' = FALSE
  /\ prepared' = << >>
  /\ pc' = "select"
  /\ UNCHANGED <<callerVars, group, before, private, next, durable, published,
                 poison, dropVars, engineVars>>

(* Mutant: the sequence numbers are not given back. *)
StartRefusedKeepsNumbers ==
  /\ CanStart /\ prepared # << >>
  /\ Refusal \/ ~wal
  /\ answer' = Answered(prepared, IF poison # "none" THEN "not_applied" ELSE "refused")
  /\ private' = before.private
  /\ prepared' = << >>
  /\ pc' = "select"
  /\ UNCHANGED <<requests, group, before, next, ioVars, poison, dropVars, engineVars>>

(* Mutant: the operations are not taken back. *)
StartRefusedKeepsState ==
  /\ CanStart /\ prepared # << >>
  /\ Refusal \/ ~wal
  /\ answer' = Answered(prepared, IF poison # "none" THEN "not_applied" ELSE "refused")
  /\ next' = before.next
  /\ prepared' = << >>
  /\ pc' = "select"
  /\ UNCHANGED <<requests, group, before, private, ioVars, poison, dropVars, engineVars>>

(* The group is never appended: the private state goes back to before it. *)
StartRefused ==
  /\ CanStart /\ prepared # << >>
  /\ Refusal \/ ~wal
  /\ answer' = Answered(prepared, IF poison # "none" THEN "not_applied" ELSE "refused")
  /\ private' = before.private
  /\ next' = before.next
  /\ prepared' = << >>
  /\ pc' = "select"
  /\ UNCHANGED <<requests, group, before, ioVars, poison, dropVars, engineVars>>

NothingToStart ==
  /\ CanStart /\ prepared = << >>
  /\ pc' = "select"
  /\ UNCHANGED <<callerVars, group, prepared, before, private, next, ioVars,
                 poison, dropVars, engineVars>>

-----------------------------------------------------------------------------
(* The I/O thread.  The log accepts a group only at its next number. *)

AppendGroup ==
  /\ inflight.io = "running"
  /\ inflight.first = Len(durable) + 1
  /\ durable' = durable \o inflight.reqs
  /\ inflight' = [inflight EXCEPT !.io = "ok"]
  /\ UNCHANGED <<callerVars, groupVars, wal, published, poison, dropVars, engineVars>>

(* A group whose outcome is unknown is in the log as a whole or not at all; *)
(* one that failed in a rotation, or was rolled back, is not.               *)
AppendFails(failure) ==
  /\ inflight.io = "running"
  /\ durable' \in IF failure \in {"unknown", "lost"}
                    THEN {durable, durable \o inflight.reqs}
                    ELSE {durable}
  /\ inflight' = [inflight EXCEPT !.io = failure]
  /\ UNCHANGED <<callerVars, groupVars, wal, published, poison, dropVars, engineVars>>

-----------------------------------------------------------------------------
(* The writer task: completing the group in flight. *)

Publish ==
  /\ inflight.io = "ok"
  /\ published' = inflight.version
  /\ wal' = TRUE
  /\ inflight' = [inflight EXCEPT !.io = "published"]
  /\ UNCHANGED <<callerVars, groupVars, durable, poison, dropVars, engineVars>>

(* Mutant: the acknowledgements go out before the version is stored. *)
AcknowledgeFirst ==
  /\ inflight.io = "ok"
  /\ answer' = Answered(inflight.reqs, "ok")
  /\ UNCHANGED <<requests, groupVars, ioVars, poison, dropVars, engineVars>>

Acknowledge ==
  /\ inflight.io = "published"
  /\ answer' = Answered(inflight.reqs, "ok")
  /\ inflight' = NoFlight
  /\ UNCHANGED <<requests, groupVars, wal, durable, published, poison, dropVars,
                 engineVars>>

(* Mutant: every failed group is called NotApplied. *)
WalFailedNotApplied ==
  /\ inflight.io \in Failures
  /\ Poison(IF inflight.io \in {"not_applied", "rotate_failed"} THEN "read_only" ELSE "failed")
  /\ answer' = Answered(inflight.reqs, "not_applied")
  /\ inflight' = NoFlight
  /\ UNCHANGED <<requests, groupVars, durable, published, dropVars, engineVars>>

WalFailed ==
  /\ inflight.io \in Failures
  /\ Poison(IF inflight.io \in {"not_applied", "rotate_failed"} THEN "read_only" ELSE "failed")
  /\ answer' = Answered(inflight.reqs,
                        IF inflight.io \in {"unknown", "lost"} THEN "unknown" ELSE "not_applied")
  /\ inflight' = NoFlight
  /\ UNCHANGED <<requests, groupVars, durable, published, dropVars, engineVars>>

-----------------------------------------------------------------------------
(* Dropping the collection.  A drop that failed leaves the collection in    *)
(* the engine's map, so that it can be tried again.                         *)

MarkDropped ==
  /\ dropper = "idle" /\ dir # "removed" /\ drops < MaxDrops
  /\ dropped' = TRUE
  /\ dropper' = "quiescing"
  /\ drops' = drops + 1
  /\ UNCHANGED <<dir, callerVars, groupVars, ioVars, poison, engineVars>>

(* Mutant: the group in flight is not waited for. *)
DrainedButForIo == pc # "preparing"

(* The writer drains its pipeline before it answers a control message.  A *)
(* stopped writer answers at once.                                        *)
Drained == pc # "preparing" /\ inflight = NoFlight

Quiesce ==
  /\ dropper = "quiescing" /\ Drained
  /\ dropper' = "retiring"
  /\ UNCHANGED <<dropped, drops, dir, callerVars, groupVars, ioVars, poison, engineVars>>

Retire ==
  /\ dropper = "retiring" /\ dir = "present"
  /\ dir' = "removed"
  /\ dropper' = "idle"
  /\ stop' = TRUE
  /\ UNCHANGED <<dropped, drops, full, shutdown, callerVars, groupVars, ioVars, poison>>

(* The rename fails (it must, when an earlier drop already renamed the      *)
(* directory): the handle is opened again.                                  *)
RenameFails ==
  /\ dropper = "retiring"
  /\ dropped' = FALSE
  /\ dropper' = "idle"
  /\ UNCHANGED <<drops, dir, callerVars, groupVars, ioVars, poison, engineVars>>

(* The rename is done and its directory sync fails. *)
RenameUnsynced ==
  /\ dropper = "retiring" /\ dir = "present"
  /\ dir' = "renamed"
  /\ dropper' = "idle"
  /\ UNCHANGED <<dropped, drops, callerVars, groupVars, ioVars, poison, engineVars>>

-----------------------------------------------------------------------------
(* The engine. *)

(* Freezes and flushes (external to this module) fill and free memtables. *)
MemtablesChange ==
  /\ pc = "select"
  /\ full' = ~full
  /\ UNCHANGED <<shutdown, stop, callerVars, groupVars, ioVars, poison, dropVars>>

(* The engine's drop sets its flag, then messages the writers. *)
Shutdown ==
  /\ \/ ~shutdown /\ shutdown' = TRUE /\ UNCHANGED stop
     \/ shutdown /\ ~stop /\ stop' = TRUE /\ UNCHANGED shutdown
  /\ UNCHANGED <<full, callerVars, groupVars, ioVars, poison, dropVars>>

(* Mutant: what is left in the channel is dropped on the floor. *)
StopLeavesRequests ==
  /\ stop /\ pc = "select" /\ inflight = NoFlight
  /\ pc' = "stopped"
  /\ wal' = FALSE
  /\ UNCHANGED <<callerVars, group, prepared, before, private, next, inflight,
                 durable, published, poison, dropVars, engineVars>>

(* The writer closes its channels and answers what is left in them. *)
Stop ==
  /\ stop /\ pc = "select" /\ inflight = NoFlight
  /\ pc' = "stopped"
  /\ answer' = Answered(requests, "refused")
  /\ requests' = << >>
  /\ wal' = FALSE
  /\ UNCHANGED <<group, prepared, before, private, next, inflight, durable,
                 published, poison, dropVars, engineVars>>

-----------------------------------------------------------------------------
Io == AppendGroup \/ \E failure \in Failures : AppendFails(failure)

Complete == Publish \/ Acknowledge \/ WalFailed

Take ==
  \/ \E n \in 1..MaxGroup : Refuse(n) \/ Collect(n)
  \/ \E a \in {"nothing", "internal"} : ResolveFilter(a)
  \/ ExpireStalled

Writer ==
  \/ Take
  \/ Prepare \/ PrepareInvalid \/ PrepareFatal \/ PreparePanics
  \/ StartIo \/ StartRefused \/ NothingToStart
  \/ Complete \/ Stop

Dropper == Quiesce \/ Retire \/ RenameFails \/ RenameUnsynced

Next ==
  \/ \E r \in Req : Check(r) \/ Send(r) \/ SendClosed(r)
  \/ Writer \/ Io \/ Dropper
  \/ MarkDropped \/ MemtablesChange \/ Shutdown

Spec == Init /\ [][Next]_vars

(* A caller that checked the handle sends; the writer task, the I/O pool   *)
(* and the dropping thread keep running; the writer's ticker keeps ticking.*)
(* Nobody has to drop the collection, shut down, or flush a memtable.      *)
FairSpec ==
  /\ Spec
  /\ \A r \in Req : WF_vars(Send(r) \/ SendClosed(r))
  /\ WF_vars(Writer) /\ WF_vars(Io) /\ WF_vars(Dropper)

-----------------------------------------------------------------------------
(* What readers see is in the log, whatever failed since: a recovery never  *)
(* takes back a row that was shown (I14).                                   *)
PublishedDurable == IsPrefix(published, durable)

(* A write answered Ok is in the published version and in the log, so the   *)
(* next read finds it and a crash keeps it (I1, I2), even when the group    *)
(* behind it fails or poisons the collection.                               *)
AckedVisible ==
  \A r \in Req : answer[r] = "ok" => r \in ToSet(published) \cap ToSet(durable)

(* A request answered as refused, invalid or NotApplied is not in the log   *)
(* and its retry cannot be applied twice: the promise of fail_all's errors  *)
(* for the group prepared behind a failed one.                              *)
RefusedNotLogged ==
  \A r \in Req :
    answer[r] \in {"refused", "invalid", "internal", "not_applied", "lost", "nothing"}
      => r \notin ToSet(durable)

(* A group reaches the log at the number the log expects next: a group      *)
(* whose start was refused gave its numbers back.                           *)
GroupFitsLog == inflight.io = "running" => inflight.first = Len(durable) + 1

(* With the pipeline drained, the writer is exactly where the log is, also  *)
(* after a drop that did not commit: what a freeze, a job's begin or the    *)
(* next group builds from is neither ahead of the log nor behind it.        *)
DrainedAgrees ==
  pc = "select" /\ inflight = NoFlight /\ poison = "none"
    => private = published /\ published = durable /\ next = Len(durable) + 1

(* No operation is taken out of the version readers see.                    *)
PublishedExtends == [][IsPrefix(published, published')]_published

(* Nothing is written to the log from the moment a drop starts to retire    *)
(* the directory until it is over, nor after the drop committed.            *)
QuiescedIsQuiet ==
  [][dropper = "retiring" \/ dir = "removed" => durable' = durable]_vars

(* Every request that reaches the channel is answered, through failures,    *)
(* stalls, drops and shutdown: again and again none is waiting.  (A request *)
(* is sent once, so none can wait forever while others come and go.)        *)
EveryRequestAnswered == []<>(\A r \in Req : answer[r] # "queued")

(* A filter delete answered Ok leaves no row it matches for later reads.    *)
FilterAckVisible ==
  [][\A r \in Req :
       Kind[r] = "filter" /\ answer[r] = "queued" /\ answer'[r] \in {"ok", "nothing"}
         => ~Live(published')]_vars

(* While the directory carries its `.dropped` name, which the next engine   *)
(* open removes, the handle keeps refusing: no write is acknowledged.       *)
RenamedKeepsRefusing ==
  [][dir = "renamed" => \A r \in Req : answer'[r] = "ok" => answer[r] = "ok"]_vars
=============================================================================
