-------------------------------- MODULE Jobs --------------------------------
(***************************************************************************)
(* The maintenance of one collection (logpose-storage/src/writer/jobs.rs)  *)
(* on the shared scheduler: which jobs the writer task asks for, begins,   *)
(* commits and ends, and whom it answers when: explicit flushes and        *)
(* compactions, and a drop that waits for jobs to end.  What a job does to *)
(* rows and files is in Storage.                                           *)
(*                                                                         *)
(* `w` is the writer's maintenance state with the scheduler's in w.sched.  *)
(* A control message is handled in the step that it arrives in; permits on *)
(* their way are the ones whose job has not begun.                         *)
(***************************************************************************)
EXTENDS Policy, Scheduler

CONSTANTS
    FlushCalls,         \* explicit flushes clients may ask for
    CompactCalls,       \* explicit compactions
    Others,             \* requests of other collections: [job, kind, bytes], job < 0
    StartSegs,          \* the segments at open: unit -> rows
    MaxFrozen, FlushOps,        \* memtable.max_frozen; operations that trigger a flush
    MaxFlushFailures, MaxJobsPerCollection,
    MaxSeq, MaxFaults   \* bounds on writes and failures

ASSUME JobsAssumption ==
    /\ Pool = PoolBytes
    /\ FlushCalls \cap CompactCalls = {} /\ "budget" \notin FlushCalls \cup CompactCalls
    /\ MaxFrozen \in Nat \ {0} /\ FlushOps \in Nat \ {0} /\ MaxFlushFailures \in Nat \ {0}
    /\ MaxJobsPerCollection \in Nat /\ MaxSeq \in Nat /\ MaxFaults \in Nat
    /\ IsFiniteSet(DOMAIN StartSegs)
    /\ \A u \in DOMAIN StartSegs : u \in Nat \ {0} /\ StartSegs[u] \in Nat
    /\ \A r \in Others : /\ r \in [job : Int, kind : {"flush", "compact", "index"}, bytes : Nat]
                         /\ r.job < 0 /\ ~Declined(r.kind, r.bytes)
    /\ \A r, s \in Others : r.job = s.job => r = s

VARIABLES
    w,          \* the writer and the scheduler
    drop,       \* the dropper: "none", "marked", "waiting", "quiet", "dropped"
    others,     \* requests other collections have not made yet
    scope,      \* history: the segments present when each compaction was asked for
    faults

vars == <<w, drop, others, scope, faults>>

Budget == "budget"      \* the flush the memtable budget asks for, which nobody awaits
Calls == FlushCalls \cup CompactCalls
Kinds == {"flush", "compact", "index"}
NoExplicit == [waiters |-> {}, scope |-> {}, merges |-> 0, rewrote |-> FALSE]
BytesPerRow == 8        \* of a segment file and of a memtable's payload

Init ==
    /\ w = [poisoned |-> FALSE, dropped |-> FALSE, stopped |-> FALSE, armed |-> FALSE,
            quiet |-> FALSE, visible |-> 0, ckpt |-> 0, frozen |-> <<>>, freezePending |-> FALSE,
            segs |-> [u \in DOMAIN StartSegs |-> [rows |-> StartSegs[u], deleted |-> 0, index |-> FALSE]],
            jobs |-> <<>>, reserved |-> {}, flushWaiters |-> {}, explicit |-> NoExplicit,
            retry |-> [k \in Kinds |-> [failures |-> 0, wait |-> FALSE]],
            answer |-> [q \in Calls |-> "idle"], sched |-> NewScheduler]
    /\ drop = "none"
    /\ others = Others
    /\ scope = [q \in CompactCalls |-> {}]
    /\ faults = 0

-----------------------------------------------------------------------------
(* What the writer can see. *)

Refused(x) == x.poisoned \/ x.dropped

FrozenTo(x) == IF x.frozen = <<>> THEN x.ckpt ELSE Last(x.frozen)
HasOps(x) == x.visible > FrozenTo(x)
FlushTriggered(x) == x.visible - FrozenTo(x) >= FlushOps

Running(x) == {j \in DOMAIN x.jobs : x.jobs[j].running}
OfKind(x, kind) == {j \in DOMAIN x.jobs : x.jobs[j].kind = kind}
StepRunning(x) == \E j \in Running(x) : x.jobs[j].explicit
Explicit(x) == x.explicit.waiters # {}

FlushAllowed(x) == x.armed /\ ~x.retry["flush"].wait
CompactionAllowed(x) == x.armed /\ ~x.retry["compact"].wait
IndexAllowed(x) == x.armed /\ Background /\ ~x.retry["index"].wait

FreezeDue(x) ==
    /\ ~Refused(x) /\ HasOps(x) /\ Len(x.frozen) < MaxFrozen
    /\ \/ \E f \in x.flushWaiters : f[2] > FrozenTo(x)
       \/ FlushAllowed(x) /\ FlushTriggered(x)

Stalled(x) == ~Refused(x) /\ x.armed /\ Len(x.frozen) >= MaxFrozen /\ FlushTriggered(x)

Candidates(x) ==
    {[unit |-> u, rows |-> x.segs[u].rows, deleted |-> x.segs[u].deleted,
      len |-> x.segs[u].rows * BytesPerRow] : u \in DOMAIN x.segs}

\* A table with one entry more, or changed.
Put(f, key, value) == [k \in DOMAIN f \cup {key} |-> IF k = key THEN value ELSE f[k]]

Answer(x, calls, result) ==
    [x EXCEPT !.answer = [q \in Calls |-> IF q \in calls THEN result ELSE @[q]]]

\* A job id that nothing names any more, and a unit above every one named.
FreshJob(x) ==
    CHOOSE j \in 1..(Cardinality(DOMAIN x.jobs) + Cardinality(x.sched.permits) + 1) :
        j \notin DOMAIN x.jobs /\ \A p \in x.sched.permits : p.job # j

FreshUnit(x) ==
    1 + Max({0} \cup DOMAIN x.segs \cup x.explicit.scope
              \cup UNION {x.jobs[j].inputs \cup {x.jobs[j].target, x.jobs[j].unit}
                          : j \in DOMAIN x.jobs})

-----------------------------------------------------------------------------
(* Asking for permits and taking requests back. *)

CancelJob(job, s) == Cancel(s, job)
CancelAll(s, ids) == FoldSet(CancelJob, s, ids)

\* cancel_indexing: index builds of segments that a compaction takes.
CancelIndexing(x, units) ==
    LET doomed == {j \in DOMAIN x.jobs : x.jobs[j].target \in units}
        waiting == doomed \ Running(x)
    IN [x EXCEPT !.sched = CancelAll(@, waiting),
                 !.jobs = [j \in DOMAIN @ \ waiting |->
                             IF j \in doomed THEN [@[j] EXCEPT !.cancelled = TRUE] ELSE @[j]]]

RequestJob(x, kind, bytes, inputs, target, explicit) ==
    LET id == FreshJob(x)
        asked == [x EXCEPT !.sched = Request(@, [job |-> id, kind |-> kind, bytes |-> bytes])]
        freed == CancelIndexing(asked, inputs)
    IN [freed EXCEPT !.reserved = @ \cup inputs,
                     !.jobs = Put(@, id, [kind |-> kind, inputs |-> inputs, target |-> target,
                                      explicit |-> explicit, running |-> FALSE,
                                      cancelled |-> FALSE, unit |-> 0])]

CancelRunningIndexes(x) ==
    [x EXCEPT !.jobs = [j \in DOMAIN @ |->
        IF @[j].running /\ @[j].kind = "index" THEN [@[j] EXCEPT !.cancelled = TRUE] ELSE @[j]]]

\* Mutant: the inputs of a withdrawn compaction stay reserved.
CancelWaitingJobsReserved(x) ==
    LET waiting == DOMAIN x.jobs \ Running(x)
    IN [x EXCEPT !.sched = CancelAll(@, waiting),
                 !.jobs = Restrict(@, DOMAIN @ \ waiting)]

CancelWaitingJobs(x) ==
    LET waiting == DOMAIN x.jobs \ Running(x)
    IN [x EXCEPT !.sched = CancelAll(@, waiting),
                 !.reserved = @ \ UNION {x.jobs[j].inputs : j \in waiting},
                 !.jobs = Restrict(@, DOMAIN @ \ waiting)]

\* A permit that is dropped anywhere grants what then fits.
ReleasePermit(p, s) == Release(s, p)
ReleaseAll(s, permits) == FoldSet(ReleasePermit, s, permits)
DropPermit(x, job) == [x EXCEPT !.sched = ReleaseAll(@, {p \in @.permits : p.job = job})]

-----------------------------------------------------------------------------
(* Planning. *)

RequestFlush(x) ==
    IF Refused(x) \/ x.frozen = <<>> \/ OfKind(x, "flush") # {}
         \/ (~FlushAllowed(x) /\ x.flushWaiters = {})
    THEN x
    ELSE LET rows == Head(x.frozen) - x.ckpt
         IN RequestJob(x, "flush", FlushBuildBytes(rows, rows * BytesPerRow), {}, 0, FALSE)

Fail(x, kind) == [x EXCEPT !.retry[kind] = [failures |-> @.failures + 1, wait |-> TRUE]]

\* What the policy picks for the free job slots; a declined job backs off.
SlotsFor(x) ==
    LET busy == Cardinality(OfKind(x, "compact"))
    IN IF busy > MaxJobsPerCollection THEN 0 ELSE MaxJobsPerCollection - busy

QuietPlans(x, plans, slots) ==
    IF x.quiet /\ slots > 0
    THEN plans \o PlanQuiet(Candidates(x), x.reserved \cup UNION {plans[i].inputs : i \in DOMAIN plans},
                            slots - Len(plans))
    ELSE plans

AskOne(x, plan) == RequestJob(x, "compact", plan.bytes, plan.inputs, 0, FALSE)

AskFor(x, plans) ==
    LET n == Max({n \in 0..Len(plans) : \A i \in 1..n : ~Declined("compact", plans[i].bytes)})
        asked == FoldLeft(AskOne, x, SubSeq(plans, 1, n))
    IN IF n < Len(plans) THEN Fail(asked, "compact") ELSE asked

PlanBackground(x) ==
    IF ~CompactionAllowed(x) THEN x
    ELSE AskFor(x, QuietPlans(x, Plan(Candidates(x), x.reserved, SlotsFor(x)), SlotsFor(x)))

\* The largest segment without its graphs, 0 for none: with at least minRows
\* rows (and two), not being compacted or indexed, within the pool.
NextIndexTarget(x, units, minRows) ==
    LET Ready(u) == /\ u \in units \ x.reserved /\ ~x.segs[u].index
                    /\ x.segs[u].rows >= Max({minRows, 2})
                    /\ \A j \in DOMAIN x.jobs : x.jobs[j].target # u
                    /\ ~Declined("index", IndexBuildBytes(x.segs[u].rows))
        ready == {u \in DOMAIN x.segs : Ready(u)}
    IN IF ready = {} THEN 0
       ELSE CHOOSE u \in ready : \A v \in ready :
              x.segs[v].rows < x.segs[u].rows \/ (x.segs[v].rows = x.segs[u].rows /\ u <= v)

\* Mutant: answered once nothing more merges, before its graphs are built.
IndexScopeSkipped(x) == [Answer(x, x.explicit.waiters, "ok") EXCEPT !.explicit = NoExplicit]

\* The graphs an explicit compaction still needs, one at a time, then the
\* answers.
IndexScope(x) ==
    LET e == x.explicit
        target == NextIndexTarget(x, e.scope, 0)
        indexing == \E j \in DOMAIN x.jobs :
                       \/ x.jobs[j].explicit /\ x.jobs[j].kind = "index"
                       \/ x.jobs[j].target \in e.scope
    IN IF indexing THEN x
       ELSE IF target # 0
            THEN RequestJob(x, "index", IndexBuildBytes(x.segs[target].rows), {}, target, TRUE)
       ELSE [Answer(x, e.waiters, "ok") EXCEPT !.explicit = NoExplicit]

\* The next step of the explicit compaction.  The first merge asks for its
\* permit whatever it needs; later ones stop where the pool ends.
StepOf(x, plan) ==
    LET e == x.explicit
        lone == Cardinality(plan.inputs) = 1
        step == [x EXCEPT !.explicit.merges = 1, !.explicit.rewrote = @ \/ lone]
    IN IF (lone /\ e.rewrote) \/ ~((e.merges = 0 /\ plan.bytes > Pool) \/ FitsPool(plan))
       THEN IndexScope(x)
       ELSE IF Declined("compact", plan.bytes)
            THEN [Answer(x, e.waiters, "failed") EXCEPT !.explicit = NoExplicit]
       ELSE RequestJob(step, "compact", plan.bytes, plan.inputs, 0, TRUE)

StepIfAny(x, plans) == IF plans = <<>> THEN IndexScope(x) ELSE StepOf(x, plans[1])

ScheduleExplicit(x) ==
    StepIfAny(x, PlanExplicit({c \in Candidates(x) : c.unit \in x.explicit.scope}, x.reserved))

ScheduleCompactions(x) ==
    IF ~Explicit(x) THEN PlanBackground(x)
    ELSE IF OfKind(x, "compact") = {} THEN ScheduleExplicit(x) ELSE x

ScheduleIndexes(x) ==
    LET target == NextIndexTarget(x, DOMAIN x.segs, IF x.quiet THEN 0 ELSE GraphMinRows)
    IN IF ~IndexAllowed(x) \/ target = 0 \/ \E j \in OfKind(x, "index") : ~x.jobs[j].explicit
       THEN x
       ELSE RequestJob(x, "index", IndexBuildBytes(x.segs[target].rows), {}, target, FALSE)

Schedule(x) ==
    IF Refused(x) THEN x ELSE ScheduleIndexes(ScheduleCompactions(RequestFlush(x)))

-----------------------------------------------------------------------------
(* Failures and the end of a job. *)

\* fail_waiters: explicit requests get the refusal, unless a running job of
\* theirs will answer them.
FailFlushWaiters(x) ==
    IF OfKind(x, "flush") \cap Running(x) # {} THEN x
    ELSE [Answer(x, {f[1] : f \in x.flushWaiters}, "failed") EXCEPT !.flushWaiters = {}]
FailExplicit(x) ==
    IF StepRunning(x) THEN x
    ELSE [Answer(x, x.explicit.waiters, "failed") EXCEPT !.explicit = NoExplicit]
FailWaiters(x) == FailExplicit(FailFlushWaiters(CancelRunningIndexes(CancelWaitingJobs(x))))

Poison(x) == FailWaiters([x EXCEPT !.poisoned = TRUE])

\* job_failed.  The refusal of a poisoned or dropped collection is no failure.
JobFailed(x, kind, error) ==
    LET y == Fail(x, kind)
        lasting == error = "lasting" \/ y.retry[kind].failures >= MaxFlushFailures
    IN IF Refused(x) /\ error = "refusal" THEN x
       ELSE IF kind = "flush" /\ ~Refused(x) /\ lasting THEN Poison(y) ELSE y

JobSucceeded(x, kind) == [x EXCEPT !.retry[kind] = [failures |-> 0, wait |-> FALSE]]

\* settle_flush_waiters.
SettleFlushes(x, waiters, failed) ==
    LET covered == {f \in waiters : f[2] <= x.ckpt}
        rest == waiters \ covered
    IN IF failed THEN Answer(x, {f[1] : f \in waiters}, "failed")
       ELSE LET y == Answer(x, {f[1] : f \in covered}, "ok")
            IN IF Refused(x) THEN Answer(y, {f[1] : f \in rest}, "failed")
               ELSE [y EXCEPT !.flushWaiters = @ \cup rest]

\* Mutant: a step that ends without failing leaves a refused compaction as is.
SettleExplicitForgets(x, entry, outcome, output) ==
    LET failed == outcome = "failed" /\ entry.explicit
    IN IF failed THEN [Answer(x, x.explicit.waiters, "failed") EXCEPT !.explicit = NoExplicit]
       ELSE IF outcome = "committed" /\ entry.kind = "compact" /\ entry.inputs \cap x.explicit.scope # {}
       THEN [x EXCEPT !.explicit.scope = (@ \ entry.inputs) \cup {output}]
       ELSE x

\* The explicit compaction follows its segments into the output, and ends
\* with the first failure of one of its steps, or with the refusal.
SettleExplicit(x, entry, outcome, output) ==
    LET followed == IF outcome = "committed" /\ entry.kind = "compact"
                         /\ entry.inputs \cap x.explicit.scope # {}
                    THEN [x EXCEPT !.explicit.scope = (@ \ entry.inputs) \cup {output}] ELSE x
        failed == outcome = "failed" /\ entry.explicit
    IN IF Explicit(x) /\ (failed \/ (Refused(x) /\ ~StepRunning(x)))
       THEN [Answer(x, x.explicit.waiters, "failed") EXCEPT !.explicit = NoExplicit]
       ELSE IF Explicit(x) THEN followed ELSE x

\* end_job: outcome is "committed", "nothing", "failed" or "abandoned".
Told(x, kind, outcome, error) ==
    CASE outcome \in {"committed", "nothing"} -> JobSucceeded(x, kind)
      [] outcome = "failed" -> JobFailed(x, kind, error)
      [] OTHER -> x
Settle(x, entry, outcome, error) ==
    SettleExplicit(Told(x, entry.kind, outcome, error), entry, outcome, entry.unit)
SettleKind(x, entry, outcome, error) ==
    IF entry.kind = "flush"
    THEN SettleFlushes(Settle([x EXCEPT !.flushWaiters = {}], entry, outcome, error), x.flushWaiters, outcome = "failed")
    ELSE Settle(x, entry, outcome, error)
Reschedule(x) == Schedule([x EXCEPT !.freezePending = @ \/ FreezeDue(x)])

RemoveJob(x, job) ==
    [x EXCEPT !.jobs = Restrict(@, DOMAIN @ \ {job}), !.reserved = @ \ x.jobs[job].inputs]
EndJob(x, job, outcome, error) ==
    LET entry == x.jobs[job]
    IN Reschedule(SettleKind(IF entry.running THEN DropPermit(RemoveJob(x, job), job) ELSE RemoveJob(x, job),
                             entry, outcome, error))

-----------------------------------------------------------------------------
(* Freezing. *)

DoFreeze(x) == [x EXCEPT !.frozen = Append(@, x.visible)]

\* freeze_if_due: `ok` is how the log's rotation ended.
FreezeIfDue(x, ok) ==
    IF ~FreezeDue(x) THEN x
    ELSE IF ok THEN RequestFlush(DoFreeze(x))
    ELSE LET failed == JobFailed([x EXCEPT !.flushWaiters = {}], "flush", "transient")
         IN Answer(failed, {f[1] : f \in x.flushWaiters}, "failed")

\* A call of the code that may fail: one outcome for success, one per fault.
Outcome(ok) == IF ok THEN faults' = faults ELSE faults < MaxFaults /\ faults' = faults + 1

Alive == ~w.stopped

FreezePending ==
    /\ Alive /\ w.freezePending
    /\ \E ok \in BOOLEAN :
          /\ Outcome(ok)
          /\ w' = FreezeIfDue([w EXCEPT !.freezePending = FALSE], ok)
    /\ UNCHANGED <<drop, others, scope>>

-----------------------------------------------------------------------------
(* Messages. *)

\* A group is published (after_publish): a new row, which may supersede one
\* in a segment.  A stalled writer takes none.
Write ==
    /\ Alive /\ ~Refused(w) /\ ~Stalled(w) /\ w.visible < MaxSeq
    /\ \E u \in {0} \cup {u \in DOMAIN w.segs : w.segs[u].deleted < w.segs[u].rows} :
          w' = LET y == [w EXCEPT !.visible = @ + 1, !.armed = TRUE, !.quiet = FALSE,
                                  !.segs = IF u = 0 THEN @ ELSE [w.segs EXCEPT ![u].deleted = w.segs[u].deleted + 1]]
               IN RequestFlush([y EXCEPT !.freezePending = @ \/ FreezeDue(y)])
    /\ UNCHANGED <<drop, others, scope, faults>>

\* Mutant: acknowledged once what is frozen is flushed.
FlushCoveredFrozen(x) == x.ckpt >= FrozenTo(x)

FlushCovered(x) == x.ckpt >= x.visible

\* explicit_flush: wait until the checkpoint covers what is visible now.
ExplicitFlush(q) ==
    /\ Alive
    /\ IF q \in FlushCalls THEN w.answer[q] = "idle" ELSE q = Budget
    /\ \E ok \in BOOLEAN :
          LET armed == [w EXCEPT !.armed = TRUE]
              asked == [(IF q = Budget THEN armed ELSE Answer(armed, {q}, "waiting"))
                          EXCEPT !.flushWaiters = @ \cup {<<q, w.visible>>}]
          IN /\ ok \/ (FreezeDue(asked) /\ ~Refused(w) /\ ~FlushCovered(armed))
             /\ Outcome(ok)
             /\ w' = IF Refused(w) THEN Answer(w, {q}, "failed")
                     ELSE IF FlushCovered(armed) THEN Answer(armed, {q}, "ok")
                     ELSE IF q = Budget /\ \E f \in w.flushWaiters : f[1] = Budget THEN armed
                     ELSE RequestFlush(FreezeIfDue(asked, ok))
    /\ UNCHANGED <<drop, others, scope>>

ExplicitCompact(q) ==
    /\ Alive /\ w.answer[q] = "idle"
    /\ w' = IF Refused(w) THEN Answer(w, {q}, "failed")
            ELSE Schedule([Answer(w, {q}, "waiting") EXCEPT
                             !.armed = TRUE,
                             !.explicit.waiters = @ \cup {q},
                             !.explicit.scope = @ \cup DOMAIN w.segs])
    /\ scope' = [scope EXCEPT ![q] = DOMAIN w.segs]
    /\ UNCHANGED <<drop, others, faults>>

Ticked == Reschedule(w)

Tick ==
    /\ Alive
    /\ w' = Ticked
    /\ UNCHANGED <<drop, others, scope, faults>>

\* PermitGranted: the job begins, unless it was withdrawn meanwhile.
Begin(p) ==
    /\ Alive
    /\ p.job \notin Running(w)
    /\ \E ok \in BOOLEAN :
          LET entry == w.jobs[p.job]
              begun == [w EXCEPT !.jobs[p.job].running = TRUE, !.jobs[p.job].unit = FreshUnit(w)]
              freeze == entry.kind = "flush" /\ w.frozen = <<>> /\ HasOps(w)
              ready == CASE entry.kind = "flush" -> w.frozen # <<>> \/ HasOps(w)
                         [] entry.kind = "compact" -> entry.inputs # {}
                         [] entry.kind = "index" ->
                              entry.target \in DOMAIN w.segs /\ ~w.segs[entry.target].index
          IN /\ ok \/ (p.job \in DOMAIN w.jobs /\ ~Refused(w) /\ freeze)
             /\ Outcome(ok)
             /\ w' = CASE p.job \notin DOMAIN w.jobs -> DropPermit(w, p.job)
                       [] p.job \in DOMAIN w.jobs /\ ~Refused(w) /\ ok /\ ready ->
                            IF freeze THEN DoFreeze(begun) ELSE begun
                       [] OTHER -> EndJob(IF Refused(w) THEN DropPermit(w, p.job) ELSE begun, p.job,
                                          IF Refused(w) \/ ~ok THEN "failed" ELSE "nothing",
                                          IF Refused(w) THEN "refusal" ELSE "transient")
    /\ UNCHANGED <<drop, others, scope>>

\* What a durable commit changes.
NewSegment(segs, unit, rows) ==
    IF rows = 0 THEN segs ELSE Put(segs, unit, [rows |-> rows, deleted |-> 0, index |-> FALSE])

Committed(x, entry) ==
    LET left == LiveSum(ByUnit({c \in Candidates(x) : c.unit \in entry.inputs}))
    IN CASE entry.kind = "flush" ->
              [x EXCEPT !.ckpt = Head(x.frozen), !.frozen = Tail(@),
                        !.segs = NewSegment(@, entry.unit, Head(x.frozen) - x.ckpt)]
         [] entry.kind = "compact" ->
              [x EXCEPT !.segs = NewSegment(Restrict(@, DOMAIN @ \ entry.inputs), entry.unit, left)]
         [] entry.kind = "index" ->
              IF entry.target \in DOMAIN x.segs THEN [x EXCEPT !.segs[entry.target].index = TRUE]
              ELSE x

\* JobDone with a build that succeeded, and its commit.
JobDone(j) ==
    /\ Alive
    /\ LET entry == w.jobs[j]
           outcome == IF entry.cancelled THEN "abandoned" ELSE IF Refused(w) THEN "failed" ELSE "committed"
       IN w' = EndJob(IF outcome = "committed" THEN Committed(w, entry) ELSE w, j, outcome, "refusal")
    /\ UNCHANGED <<drop, others, scope, faults>>

\* The build or the publish failed; a publish that failed at its rename
\* poisons the collection first.
JobFails(j) ==
    /\ Alive /\ Outcome(FALSE)
    /\ \E error \in {"transient", "lasting", "rename"} :
          LET cancelled == w.jobs[j].cancelled
              poisons == error = "rename" /\ ~Refused(w) /\ ~cancelled
          IN w' = EndJob(IF poisons THEN Poison(w) ELSE w, j, IF cancelled THEN "abandoned" ELSE "failed",
                         IF poisons THEN "transient" ELSE error)
    /\ UNCHANGED <<drop, others, scope>>

\* JobTicket::drop without a result: the build panicked.
JobPanics(j) ==
    /\ Alive /\ Outcome(FALSE)
    /\ w' = EndJob(w, j, "abandoned", "none")
    /\ UNCHANGED <<drop, others, scope>>

\* The log failed: Writer::poison outside of a job.
LogFails ==
    /\ Alive /\ ~w.poisoned /\ Outcome(FALSE)
    /\ w' = Poison(w)
    /\ UNCHANGED <<drop, others, scope>>

-----------------------------------------------------------------------------
(* A drop: the handle refuses, then the writer is quiesced. *)

MarkDropped ==
    /\ Alive /\ drop = "none"
    /\ drop' = "marked"
    /\ w' = [w EXCEPT !.dropped = TRUE]
    /\ UNCHANGED <<others, scope, faults>>

\* A writer that stopped has nobody left to wait for.
Quiesce ==
    /\ drop = "marked"
    /\ w' = IF Alive THEN FailWaiters(w) ELSE w
    /\ drop' = "waiting"
    /\ UNCHANGED <<others, scope, faults>>

\* Answered once no job runs, in the step that ends the last one.
Quiet ==
    /\ drop = "waiting" /\ (Running(w) = {} \/ w.stopped)
    /\ drop' = "quiet"
    /\ UNCHANGED <<w, others, scope, faults>>

\* The directory is renamed, or it failed and the collection is open again.
DropEnds ==
    /\ drop = "quiet"
    /\ \/ drop' = "dropped" /\ UNCHANGED <<w, faults>>
       \/ drop' = "none" /\ Outcome(FALSE) /\ w' = [w EXCEPT !.dropped = FALSE]
    /\ UNCHANGED <<others, scope>>

\* stop: every permit and every waiter goes.
Stop ==
    /\ Alive
    /\ w' = LET y == CancelWaitingJobs(w)
                z == Answer(y, {q \in Calls : y.answer[q] = "waiting"}, "failed")
            IN [z EXCEPT !.sched = ReleaseAll(@, {p \in @.permits : p.job > 0}),
                         !.stopped = TRUE, !.jobs = <<>>, !.reserved = {},
                         !.flushWaiters = {}, !.explicit = NoExplicit, !.freezePending = FALSE]
    /\ UNCHANGED <<drop, others, scope, faults>>

-----------------------------------------------------------------------------
(* The clock and the other collections. *)

BackoffOver ==
    /\ Alive
    /\ \E k \in Kinds : w.retry[k].wait /\ w' = [w EXCEPT !.retry[k].wait = FALSE]
    /\ UNCHANGED <<drop, others, scope, faults>>

GoesQuiet ==
    /\ Alive /\ ~w.quiet
    /\ w' = [w EXCEPT !.quiet = TRUE]
    /\ UNCHANGED <<drop, others, scope, faults>>

OtherAsks ==
    /\ \E r \in others : others' = others \ {r} /\ w' = [w EXCEPT !.sched = Request(@, r)]
    /\ UNCHANGED <<drop, scope, faults>>

OtherEnds ==
    /\ \E p \in w.sched.permits : p.job < 0 /\ w' = DropPermit(w, p.job)
    /\ UNCHANGED <<drop, others, scope, faults>>

OwnPermits == {p \in w.sched.permits : p.job > 0}

Next ==
    \/ Write \/ FreezePending \/ Tick \/ BackoffOver \/ GoesQuiet
    \/ \E q \in FlushCalls \cup {Budget} : ExplicitFlush(q)
    \/ \E q \in CompactCalls : ExplicitCompact(q)
    \/ \E p \in OwnPermits : Begin(p)
    \/ \E j \in Running(w) : JobDone(j) \/ JobFails(j) \/ JobPanics(j)
    \/ LogFails \/ MarkDropped \/ Quiesce \/ Quiet \/ DropEnds \/ Stop
    \/ OtherAsks \/ OtherEnds

\* ENABLED <<A>>_vars of the writer task's own actions, written out: weak
\* fairness is stated for them as []<>~enabled \/ []<><<A>>_vars, which TLC
\* evaluates without searching for a successor in every state.
TickDue == Alive /\ Ticked # w
FreezeWaits == Alive /\ w.freezePending
PermitWaits == Alive /\ \E p \in OwnPermits : p.job \notin Running(w)
BuildRuns == Alive /\ Running(w) # {}

\* The writer task handles its messages and ticks, builds end, the clock
\* moves on, and so do the other collections.  Nothing forces a client, a
\* failure, a drop or a shutdown.
Fairness ==
    /\ []<>~TickDue \/ []<><<Tick>>_vars
    /\ []<>~FreezeWaits \/ []<><<FreezePending>>_vars
    /\ []<>~PermitWaits \/ []<><<\E p \in OwnPermits : Begin(p)>>_vars
    /\ []<>~BuildRuns \/ []<><<\E j \in Running(w) : JobDone(j)>>_vars
    /\ []<>(drop # "marked") \/ []<><<Quiesce>>_vars
    /\ WF_vars(BackoffOver) /\ WF_vars(OtherEnds) /\ WF_vars(Quiet) /\ WF_vars(DropEnds)

Spec == Init /\ [][Next]_vars /\ Fairness

-----------------------------------------------------------------------------
(* Properties. *)

\* No wakeup is lost: whenever a request waits for a permit, some permit is
\* out whose release will grant again, though cancelling grants nothing.
NoLostWakeup == w.sched.queue # <<>> => w.sched.permits # {}

\* The scheduler counts exactly the permits that are out, keeps a slot for
\* flushes (a flush waits only for flushes), and never gives more of the pool
\* to the other kinds than there is.
PermitsAccounted ==
    LET s == w.sched
    IN /\ s.flushes = Cardinality(Out(s, "flush"))
       /\ s.compactions = Cardinality(Out(s, "compact"))
       /\ s.indexes = Cardinality(Out(s, "index"))
       /\ s.flushReserved = Bytes(Out(s, "flush"))
       /\ s.reserved = Bytes(s.permits \ Out(s, "flush"))
       /\ (\E i \in DOMAIN s.queue : s.queue[i].kind = "flush") => Out(s, "flush") # {}
       /\ s.reserved <= Pool

\* The reserved segments are those of the compactions in the table, no
\* segment belongs to two, all are still segments; no running index build
\* that will commit reads one; there is one flush at most.
ReservationsExact ==
    LET Inputs == UNION {w.jobs[j].inputs : j \in DOMAIN w.jobs}
    IN /\ w.reserved = Inputs /\ Inputs \subseteq DOMAIN w.segs
       /\ \A i, j \in DOMAIN w.jobs : i # j => w.jobs[i].inputs \cap w.jobs[j].inputs = {}
       /\ \A j \in DOMAIN w.jobs : w.jobs[j].target \in Inputs => w.jobs[j].cancelled
       /\ Cardinality(OfKind(w, "flush")) <= 1

\* A flush is acknowledged only when the checkpoint covers all that was
\* visible when it was asked for.
FlushAckCovers ==
    [][\A q \in FlushCalls :
         w.answer[q] # "ok" /\ w'.answer[q] = "ok" =>
            w'.ckpt >= IF w.answer[q] = "idle" THEN w.visible
                       ELSE (CHOOSE f \in w.flushWaiters : f[1] = q)[2]]_vars

\* When a compaction is acknowledged, each segment it found is merged away
\* or has its graphs, unless it is too small or too large for them.
CompactAckIndexed ==
    [][\A q \in CompactCalls :
         w.answer[q] # "ok" /\ w'.answer[q] = "ok" =>
            \A u \in scope'[q] \cap DOMAIN w'.segs :
               \/ w'.segs[u].index
               \/ w'.segs[u].rows < 2
               \/ Declined("index", IndexBuildBytes(w'.segs[u].rows))]_vars

\* Every explicit flush and compaction is answered, and every drop gets its
\* writer quiet, through failures, backoffs, cancelled jobs, poisoning and
\* shutdown: again and again there is no call and no drop that waits.  (Each
\* call is made once, so none can wait forever while others come and go.)
EveryCallAnswered ==
    []<>(/\ \A q \in Calls : w.answer[q] # "waiting"
         /\ drop \notin {"marked", "waiting"})
=============================================================================
