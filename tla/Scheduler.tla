------------------------------ MODULE Scheduler ------------------------------
(***************************************************************************)
(* The engine-wide maintenance scheduler (logpose-storage/src/scheduler.rs)*)
(* as operators on its state, each what one call does under the lock and   *)
(* the grants it makes after it:                                           *)
(*   queue     waiting requests in grant order: flushes, compactions,      *)
(*             index builds, each in request order                         *)
(*   permits   the permits granted and not dropped                         *)
(*   flushes, compactions, indexes, reserved, flushReserved                *)
(*             the counters it grants by                                   *)
(***************************************************************************)
EXTENDS Integers, Sequences, FiniteSets, SequencesExt, FiniteSetsExt

CONSTANTS
    Threads,        \* maintenance threads
    Pool            \* bytes of the maintenance-memory pool

ASSUME SchedulerAssumption == Threads \in Nat /\ Pool \in Nat

Slots == (IF Threads > 2 THEN Threads ELSE 2) + 1
CompactionSlots == Slots - 2
IndexSlots == 1

NewScheduler ==
    [queue |-> <<>>, permits |-> {}, flushes |-> 0, compactions |-> 0, indexes |-> 0,
     reserved |-> 0, flushReserved |-> 0]

Priority(kind) == CASE kind = "flush" -> 0 [] kind = "compact" -> 1 [] kind = "index" -> 2

\* A request larger than the whole pool is declined; a flush never is.
Declined(kind, bytes) == kind # "flush" /\ bytes > Pool

Enqueue(s, request) ==
    LET before == {i \in DOMAIN s.queue : Priority(s.queue[i].kind) <= Priority(request.kind)}
    IN [s EXCEPT !.queue = InsertAt(@, Cardinality(before) + 1, request)]

FitsNow(s, bytes) == s.reserved + s.flushReserved + bytes <= Pool

\* The first of some positions in the queue, 0 for none.
Foremost(positions) == IF positions = {} THEN 0 ELSE Min(positions)
FirstOf(queue, kind) == Foremost({i \in DOMAIN queue : queue[i].kind = kind})

\* grant_one: the position in the queue of the request to grant, 0 for none.
\* Only the first compaction and the first index build are candidates, and
\* index builds wait while any compaction does.
Grantable(s) ==
    LET f == FirstOf(s.queue, "flush")
        c == FirstOf(s.queue, "compact")
        i == FirstOf(s.queue, "index")
    IN IF s.flushes + s.compactions + s.indexes >= Slots THEN 0
       ELSE IF f # 0 THEN f
       ELSE IF c # 0
       THEN IF s.compactions < CompactionSlots /\ FitsNow(s, s.queue[c].bytes) THEN c ELSE 0
       ELSE IF i # 0 /\ s.indexes < IndexSlots /\ FitsNow(s, s.queue[i].bytes) THEN i ELSE 0

\* Mutant: the bytes of a flush are counted with those of the other kinds.
AccountPooled(s, permit, sign) ==
    [(CASE permit.kind = "flush" -> [s EXCEPT !.flushes = @ + sign]
        [] permit.kind = "compact" -> [s EXCEPT !.compactions = @ + sign]
        [] permit.kind = "index" -> [s EXCEPT !.indexes = @ + sign])
      EXCEPT !.reserved = @ + sign * permit.bytes]

Account(s, permit, sign) ==
    CASE permit.kind = "flush" ->
           [s EXCEPT !.flushes = @ + sign, !.flushReserved = @ + sign * permit.bytes]
      [] permit.kind = "compact" ->
           [s EXCEPT !.compactions = @ + sign, !.reserved = @ + sign * permit.bytes]
      [] permit.kind = "index" ->
           [s EXCEPT !.indexes = @ + sign, !.reserved = @ + sign * permit.bytes]

GrantOne(s) ==
    LET n == Grantable(s)
    IN IF n = 0 THEN s
       ELSE Account([s EXCEPT !.queue = RemoveAt(@, n), !.permits = @ \cup {s.queue[n]}],
                    s.queue[n], 1)

\* pump: grant until nothing more fits.
Pump(s) == FoldLeft(LAMBDA t, i : GrantOne(t), s, [i \in 1..Len(s.queue) |-> i])

Request(s, request) == Pump(Enqueue(s, request))

\* Mutant: a dropped permit wakes nobody.
ReleaseQuietly(s, permit) == Account([s EXCEPT !.permits = @ \ {permit}], permit, -1)

\* Permit::drop.
Release(s, permit) == Pump(Account([s EXCEPT !.permits = @ \ {permit}], permit, -1))

\* cancel withdraws a waiting request; it grants nothing.
Cancel(s, job) ==
    LET n == Foremost({i \in DOMAIN s.queue : s.queue[i].job = job})
    IN IF n = 0 THEN s ELSE [s EXCEPT !.queue = RemoveAt(@, n)]

-----------------------------------------------------------------------------
(* What the scheduler promises. *)

\* The permits of a kind that are out, and the bytes of some permits.
Out(s, kind) == {p \in s.permits : p.kind = kind}
AddBytes(p, n) == n + p.bytes
Bytes(permits) == FoldSet(AddBytes, 0, permits)
=============================================================================
