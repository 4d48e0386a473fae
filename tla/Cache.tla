-------------------------------- MODULE Cache --------------------------------
(***************************************************************************)
(* The buffer cache of segment sections (logpose-storage/src/cache) and    *)
(* the segment readers that fetch through it: lookups, single-flight loads *)
(* on the I/O pool, CLOCK eviction down to a budget with class floors,     *)
(* pins, decoded forms, warm-up and the invalidation of a dropped file.    *)
(*                                                                         *)
(* Names: a load (a Flight), the bytes it reads and the Entry they become  *)
(* all carry the name of the fetch that started it.  A step of a thread is *)
(* what the code does under one lock (a shard or a ring).                  *)
(***************************************************************************)
EXTENDS Integers, Sequences, FiniteSets, SequencesExt, FiniteSetsExt, Functions

CONSTANTS
    Fetches,        \* fetches of a unit; each is made once
    KeyOf,          \* fetch -> unit; a unit is the only one of its file here
    Async,          \* the fetches that are made with get_or_load; the rest block
    Modes,          \* fetch -> the cache modes it may use
    ClassOf,        \* unit -> class, 1 the class with the highest priority
    Charge, Extra,  \* unit -> bytes charged for its buffer, for its decoded form
    Floor,          \* class -> bytes it keeps under pressure
    Budgets,        \* budgets the engine sets; the first is the initial one
    PoolThreads,    \* threads of the I/O pool
    Warm,           \* the fetches that warm-up makes, in its order
    MaxFailures     \* bound on loads that fail

None == "none"
Aux == "aux"        \* the engine or a compute thread: trims, charges, shuts down
Threads == PoolThreads \cup {Aux}
Keys == Range(KeyOf)
Classes == DOMAIN Floor
Margin(budget) == budget \div 64
WarmLimit(budget) == (budget * 9) \div 10

ASSUME CacheAssumption ==
    /\ Fetches # {} /\ IsFiniteSet(Fetches) /\ None \notin Fetches
    /\ PoolThreads # {} /\ IsFiniteSet(PoolThreads) /\ Aux \notin PoolThreads
    /\ DOMAIN KeyOf = Fetches /\ IsFiniteSet(Classes) /\ Classes = 1..Cardinality(Classes)
    /\ \A k \in Keys : ClassOf[k] \in Classes /\ Charge[k] \in Nat /\ Extra[k] \in Nat
    /\ Budgets # <<>> /\ Async \subseteq Fetches /\ Warm \in Seq(Async) /\ MaxFailures \in Nat

VARIABLES
    entries,    \* unit -> the resident entry, None
    loading,    \* unit -> the registered flight, None
    flight,     \* load -> [state: "none", "pending", "ok", "failed"; stored, registered]
    entry,      \* load -> [decoded, charged, referenced] of its bytes and entry
    fetch,      \* fetch -> [state, mode, bytes, on]
    ring,       \* class -> the CLOCK ring: entries, front first
    used,       \* class -> bytes charged
    budget, resumeAt,   \* budget, sweep_resume_at
    queue,      \* of the I/O pool: load jobs and blocking fetches
    th,         \* thread -> what it is doing
    warm,       \* warm-up: items considered so far
    files,      \* units whose file has a reader
    failures

vars == <<entries, loading, flight, entry, fetch, ring, used, budget, resumeAt, queue, th, warm,
          files, failures>>

FreeThread == [at |-> "free", fetch |-> None, load |-> None, result |-> None, class |-> 0,
               done |-> {}, lap |-> 0, visits |-> 0, cand |-> None, over |-> 0]

Init ==
    /\ entries = [k \in Keys |-> None] /\ loading = [k \in Keys |-> None]
    /\ flight = [f \in Fetches |-> [state |-> "none", stored |-> FALSE, registered |-> FALSE]]
    /\ entry = [f \in Fetches |-> [decoded |-> FALSE, charged |-> FALSE, referenced |-> FALSE]]
    /\ fetch = [f \in Fetches |-> [state |-> "idle", mode |-> None, bytes |-> None, on |-> None]]
    /\ ring = [c \in Classes |-> <<>>] /\ used = [c \in Classes |-> 0]
    /\ budget = Budgets[1] /\ resumeAt = 0
    /\ queue = <<>> /\ th = [t \in Threads |-> FreeThread]
    /\ warm = 0 /\ files = Keys /\ failures = 0

UsedTotal == FoldFunction(+, 0, used)

\* Entry::is_pinned: the bytes are held by a fetch that got them, or by a
\* flight that is done and still referenced by its waiters or its runner.
Pinned(e) ==
    \/ \E f \in Fetches : fetch[f].bytes = e
    \/ /\ flight[e].state = "ok"
       /\ \/ \E f \in Fetches : fetch[f].state = "waiting" /\ fetch[f].on = e
          \/ \E t \in Threads : th[t].load = e

ChargeOf(e) == Charge[KeyOf[e]] + IF entry[e].charged THEN Extra[KeyOf[e]] ELSE 0

\* A Weak in a ring upgrades while the entry is resident or being examined.
Alive(e) == entries[KeyOf[e]] = e \/ \E t \in Threads : th[t].cand = e

-----------------------------------------------------------------------------
(* Lookup and the start of a fetch. *)

\* Inner::lookup by fetch f: "hit", "join", "lead" or "private".
LookupOf(f, mode) ==
    LET k == KeyOf[f]
    IN IF entries[k] # None THEN "hit"
       ELSE IF loading[k] # None THEN "join"
       ELSE IF mode = "bypass" THEN "private" ELSE "lead"

\* What the lookup itself changes; `stored` says whether the loader waits in
\* the flight for an executor.
Lookup(f, mode, stored) ==
    LET k == KeyOf[f]  found == LookupOf(f, mode)
    IN /\ entry' = IF found = "hit" /\ mode = "normal"
                   THEN [entry EXCEPT ![entries[k]].referenced = TRUE] ELSE entry
       /\ loading' = IF found = "lead" THEN [loading EXCEPT ![k] = f] ELSE loading
       /\ flight' = IF found \in {"lead", "private"}
                    THEN [flight EXCEPT ![f] = [state |-> "pending", stored |-> stored,
                                                registered |-> found = "lead"]]
                    ELSE flight

\* get_or_load (SegmentReader::fetch): the lookup, the registration and the
\* hand-off of the job all happen before it returns.
StartAsync(f, mode) ==
    LET k == KeyOf[f]  found == LookupOf(f, mode)
    IN /\ fetch[f].state = "idle" /\ k \in files
       /\ Lookup(f, mode, TRUE)
       /\ queue' = IF found \in {"lead", "private"} THEN Append(queue, f) ELSE queue
       /\ fetch' = [fetch EXCEPT ![f] =
                      [state |-> IF found = "hit" THEN "holds" ELSE "waiting", mode |-> None,
                       bytes |-> IF found = "hit" THEN entries[k] ELSE None,
                       on |-> CASE found = "hit" -> None [] found = "join" -> loading[k]
                                [] OTHER -> f]]

FetchAsync(f) ==
    /\ f \in Async \ ToSet(Warm)
    /\ \E mode \in Modes[f] : StartAsync(f, mode)
    /\ UNCHANGED <<entries, ring, used, budget, resumeAt, th, warm, files, failures>>

\* warm_up: the next item, unless it is resident, two loads are in flight, or
\* it would fill the cache past nine tenths (then its class stops).
WarmUp ==
    LET f == Warm[warm + 1]
        inFlight == {g \in ToSet(Warm) : fetch[g].state = "waiting"}
        pending == FoldSet(LAMBDA g, n : n + Charge[KeyOf[g]], 0, inFlight)
        fits == UsedTotal + pending + Charge[KeyOf[f]] <= WarmLimit(budget)
        class == ClassOf[KeyOf[f]]
        next == IF fits THEN warm + 1
                ELSE Max({i \in (warm + 1)..Len(Warm) :
                            \A j \in (warm + 1)..i : ClassOf[KeyOf[Warm[j]]] = class})
    IN /\ warm < Len(Warm) /\ KeyOf[f] \in files
       /\ IF entries[KeyOf[f]] # None
          THEN warm' = warm + 1 /\ UNCHANGED <<entry, loading, flight, fetch, queue>>
          ELSE /\ Cardinality(inFlight) < 2
               /\ warm' = next
               /\ IF fits THEN StartAsync(f, "normal")
                  ELSE UNCHANGED <<entry, loading, flight, fetch, queue>>
       /\ UNCHANGED <<entries, ring, used, budget, resumeAt, th, files, failures>>

\* A blocking fetch runs on the I/O pool (SegmentReader::load).
FetchBlocking(f) ==
    /\ fetch[f].state = "idle" /\ KeyOf[f] \in files /\ f \notin Async
    /\ \E mode \in Modes[f] :
          fetch' = [fetch EXCEPT ![f].state = "queued", ![f].mode = mode]
    /\ queue' = Append(queue, f)
    /\ UNCHANGED <<entries, loading, flight, entry, ring, used, budget, resumeAt, th, warm, files,
                   failures>>

-----------------------------------------------------------------------------
(* The I/O pool. *)

\* Mutant: a blocking caller waits for a load that is still queued.
JoinBlockingWaits(t, f, g) ==
    /\ th' = [th EXCEPT ![t] = [FreeThread EXCEPT !.at = "waits", !.fetch = f, !.load = g]]
    /\ flight' = flight

\* wait_blocking: run the stored loader if nobody has taken it yet.
JoinBlocking(t, f, g) ==
    /\ th' = [th EXCEPT ![t] = [FreeThread EXCEPT !.at = IF flight[g].stored THEN "load" ELSE "waits",
                                                  !.fetch = f, !.load = g]]
    /\ flight' = [flight EXCEPT ![g].stored = FALSE]

\* LoadJob::run, or the lookup of a blocking fetch.
PoolTakes(t) ==
    LET f == Head(queue)  k == KeyOf[f]  mode == fetch[f].mode  found == LookupOf(f, mode)
    IN /\ th[t].at = "free" /\ queue # <<>>
       /\ queue' = Tail(queue)
       /\ IF fetch[f].state # "queued"
          THEN /\ th' = IF flight[f].stored
                        THEN [th EXCEPT ![t] = [FreeThread EXCEPT !.at = "load", !.load = f]] ELSE th
               /\ flight' = [flight EXCEPT ![f].stored = FALSE]
               /\ UNCHANGED <<entry, loading, fetch>>
          ELSE CASE found = "hit" ->
                      /\ Lookup(f, mode, FALSE)
                      /\ fetch' = [fetch EXCEPT ![f].state = "holds", ![f].mode = None,
                                               ![f].bytes = entries[k]]
                      /\ th' = th
                 [] found = "join" ->
                      /\ JoinBlocking(t, f, loading[k])
                      /\ fetch' = [fetch EXCEPT ![f].state = "waiting", ![f].mode = None,
                                               ![f].on = loading[k]]
                      /\ UNCHANGED <<entry, loading>>
                 [] OTHER ->
                      /\ Lookup(f, mode, FALSE)
                      /\ fetch' = [fetch EXCEPT ![f].state = "waiting", ![f].mode = None,
                                               ![f].on = f]
                      /\ th' = [th EXCEPT ![t] = [FreeThread EXCEPT !.at = "load", !.fetch = f,
                                                                   !.load = f]]
       /\ UNCHANGED <<entries, ring, used, budget, resumeAt, warm, files, failures>>

\* LoadJob::drop: the executor dropped a job; its load is aborted.
JobDropped ==
    /\ th[Aux].at = "free" /\ failures < MaxFailures
    /\ \E i \in DOMAIN queue :
          /\ fetch[queue[i]].state # "queued"
          /\ queue' = RemoveAt(queue, i)
          /\ flight' = [flight EXCEPT ![queue[i]].stored = FALSE]
          /\ th' = IF flight[queue[i]].stored
                   THEN [th EXCEPT ![Aux] = [FreeThread EXCEPT !.at = "finish", !.load = queue[i],
                                                               !.result = "failed"]]
                   ELSE th
    /\ failures' = failures + 1
    /\ UNCHANGED <<entries, loading, entry, fetch, ring, used, budget, resumeAt, warm, files>>

\* run: the read and its verification end; an error and a panic alike finish
\* the flight as failed (AbortOnDrop).
LoadEnds(t) ==
    /\ th[t].at = "load"
    /\ \/ /\ th' = [th EXCEPT ![t].at = "finish", ![t].result = "ok"]
          /\ failures' = failures
       \/ /\ th' = [th EXCEPT ![t].at = "finish", ![t].result = "failed"]
          /\ failures < MaxFailures /\ failures' = failures + 1
    /\ UNCHANGED <<entries, loading, flight, entry, fetch, ring, used, budget, resumeAt, queue,
                   warm, files>>

\* finish, under the shard lock: unregister, and insert what was read.  A
\* flight that was detached meanwhile does neither.
FinishShard(t) ==
    LET e == th[t].load  k == KeyOf[e]
        current == flight[e].registered /\ loading[k] = e
        inserts == current /\ th[t].result = "ok"
        \* entries.insert returns an old entry, whose charge is taken back.
        old == IF entries[k] = None THEN 0 ELSE ChargeOf(entries[k])
    IN /\ th[t].at = "finish"
       /\ loading' = IF current THEN [loading EXCEPT ![k] = None] ELSE loading
       /\ entries' = IF inserts THEN [entries EXCEPT ![k] = e] ELSE entries
       /\ entry' = IF inserts THEN [entry EXCEPT ![e].charged = entry[e].decoded] ELSE entry
       /\ used' = IF inserts
                  THEN [used EXCEPT ![ClassOf[k]] = @ + Charge[k] - old
                                      + IF entry[e].decoded THEN Extra[k] ELSE 0]
                  ELSE used
       /\ th' = [th EXCEPT ![t].at = IF inserts THEN "ring" ELSE "complete"]
       /\ UNCHANGED <<flight, fetch, ring, budget, resumeAt, queue, warm, files, failures>>

\* finish, under the ring's lock.
FinishRing(t) ==
    LET e == th[t].load
    IN /\ th[t].at = "ring"
       /\ ring' = [ring EXCEPT ![ClassOf[KeyOf[e]]] = Append(@, e)]
       /\ th' = [th EXCEPT ![t].at = "completeInserted"]
       /\ UNCHANGED <<entries, loading, flight, entry, fetch, used, budget, resumeAt, queue, warm,
                      files, failures>>

\* Flight::complete wakes every waiter; an insert is followed by a sweep.
Complete(t) ==
    /\ th[t].at \in {"complete", "completeInserted"}
    /\ flight' = [flight EXCEPT ![th[t].load].state = th[t].result]
    /\ th' = [th EXCEPT ![t].at = IF @ = "complete" THEN "return" ELSE "resume", ![t].result = None]
    /\ UNCHANGED <<entries, loading, entry, fetch, ring, used, budget, resumeAt, queue, warm, files,
                   failures>>

\* The thread is done with the load, or the load it waits for is done: a
\* blocking fetch gets the result, an async one is woken and polls it.
Got(f) ==
    LET e == fetch[f].on
    IN [fetch EXCEPT ![f].state = IF flight[e].state = "ok" THEN "holds" ELSE "ended",
                     ![f].bytes = IF flight[e].state = "ok" THEN e ELSE None, ![f].on = None]

Return(t) ==
    /\ \/ th[t].at = "return"
       \/ th[t].at = "waits" /\ flight[th[t].load].state \in {"ok", "failed"}
    /\ fetch' = IF th[t].fetch = None THEN fetch ELSE Got(th[t].fetch)
    /\ th' = [th EXCEPT ![t] = FreeThread]
    /\ UNCHANGED <<entries, loading, flight, entry, ring, used, budget, resumeAt, queue, warm,
                   files, failures>>

Poll(f) ==
    /\ fetch[f].state = "waiting" /\ \A t \in Threads : th[t].fetch # f
    /\ flight[fetch[f].on].state \in {"ok", "failed"}
    /\ fetch' = Got(f)
    /\ UNCHANGED <<entries, loading, flight, entry, ring, used, budget, resumeAt, queue, th, warm,
                   files, failures>>

\* A Fetch future is dropped: that cancels nothing.
DropFetch(f) ==
    /\ fetch[f].state = "waiting" /\ \A t \in Threads : th[t].fetch # f
    /\ fetch' = [fetch EXCEPT ![f].state = "ended", ![f].on = None]
    /\ UNCHANGED <<entries, loading, flight, entry, ring, used, budget, resumeAt, queue, th, warm,
                   files, failures>>

\* PinSet::release.
Release(f) ==
    /\ fetch[f].state = "holds"
    /\ fetch' = [fetch EXCEPT ![f].state = "ended", ![f].bytes = None]
    /\ UNCHANGED <<entries, loading, flight, entry, ring, used, budget, resumeAt, queue, th, warm,
                   files, failures>>

-----------------------------------------------------------------------------
(* Eviction. *)

\* victim_class, of the classes not exhausted; 0 for none.
VictimClass(done) ==
    LET over == {c \in Classes : used[c] > Floor[c]}
        from == IF over # {} THEN over \ done ELSE {c \in Classes \ done : used[c] > 0}
    IN IF from = {} THEN 0 ELSE Max(from)

\* evict_after_insert: inserts skip the sweep until usage has grown.
Resume(t) ==
    /\ th[t].at = "resume"
    /\ th' = [th EXCEPT ![t].at = IF UsedTotal < resumeAt THEN "return" ELSE "sweep",
                        ![t].done = {}]
    /\ UNCHANGED <<entries, loading, flight, entry, fetch, ring, used, budget, resumeAt, queue,
                   warm, files, failures>>

Returning(t) == [FreeThread EXCEPT !.at = "return", !.fetch = th[t].fetch, !.load = th[t].load]

\* evict_to_budget: one turn of its loop.
Sweep(t) ==
    LET class == VictimClass(th[t].done)
    IN /\ th[t].at = "sweep"
       /\ IF UsedTotal <= budget
          THEN resumeAt' = 0 /\ th' = [th EXCEPT ![t] = Returning(t)]
          ELSE /\ resumeAt' = resumeAt
               /\ th' = IF class = 0
                        THEN [th EXCEPT ![t].at = "over", ![t].over = UsedTotal + Margin(budget)]
                        ELSE [th EXCEPT ![t].at = "hand", ![t].class = class,
                                        ![t].lap = Len(ring[class]), ![t].visits = 0]
       /\ UNCHANGED <<entries, loading, flight, entry, fetch, ring, used, budget, queue, warm, files,
                      failures>>

Overcommit(t) ==
    /\ th[t].at = "over"
    /\ resumeAt' = th[t].over
    /\ th' = [th EXCEPT ![t] = Returning(t)]
    /\ UNCHANGED <<entries, loading, flight, entry, fetch, ring, used, budget, queue, warm, files,
                   failures>>

BackToSweep(t) ==
    [th EXCEPT ![t] = [@ EXCEPT !.at = "sweep", !.class = 0, !.lap = 0, !.visits = 0, !.cand = None]]

\* One visit of the hand, unless it has found a victim: a slot whose entry is
\* gone is dropped, a pinned entry and, on the first lap, a referenced one is
\* passed over.
Visit(alive, pinned, lap, s) ==
    LET e == Head(s.ring)
        second == s.visits + 1 > lap
        chance == ~second /\ e \in s.referenced
    IN IF s.found # None \/ s.ring = <<>> THEN s
       ELSE IF e \notin alive THEN [s EXCEPT !.ring = Tail(@), !.visits = @ + 1]
       ELSE IF chance \/ e \in pinned
            THEN [s EXCEPT !.ring = Append(Tail(@), e), !.visits = @ + 1,
                           !.referenced = IF second THEN @ ELSE @ \ {e}]
       ELSE [s EXCEPT !.ring = Tail(@), !.visits = @ + 1, !.found = e]

\* evict_one, under the ring's lock: visits until one finds a victim, two laps
\* at most.
Hand(t) ==
    LET c == th[t].class
        alive == {e \in Fetches : Alive(e)}
        pinned == {e \in Fetches : Pinned(e)}
        end == FoldLeft(LAMBDA s, i : Visit(alive, pinned, th[t].lap, s),
                        [ring |-> ring[c], visits |-> th[t].visits, found |-> None,
                         referenced |-> {e \in Fetches : entry[e].referenced}],
                        [i \in 1..(2 * th[t].lap - th[t].visits) |-> i])
    IN /\ th[t].at = "hand"
       /\ ring' = [ring EXCEPT ![c] = end.ring]
       /\ entry' = [e \in Fetches |-> [entry[e] EXCEPT !.referenced = e \in end.referenced]]
       /\ th' = IF end.found = None THEN [BackToSweep(t) EXCEPT ![t].done = @ \cup {c}]
                ELSE [th EXCEPT ![t].at = "check", ![t].visits = end.visits, ![t].cand = end.found]
       /\ UNCHANGED <<entries, loading, flight, fetch, used, budget, resumeAt, queue, warm, files,
                      failures>>

\* Mutant: a candidate that was pinned meanwhile is not put back.
CheckForgets(t) ==
    LET e == th[t].cand  k == KeyOf[e]
        evict == entries[k] = e /\ ~Pinned(e)
    IN /\ th[t].at = "check"
       /\ ring' = ring
       /\ entries' = IF evict THEN [entries EXCEPT ![k] = None] ELSE entries
       /\ used' = IF evict THEN [used EXCEPT ![ClassOf[k]] = @ - ChargeOf(e)] ELSE used
       /\ entry' = IF evict THEN [entry EXCEPT ![e].referenced = FALSE, ![e].charged = FALSE]
                   ELSE entry
       /\ th' = IF evict THEN BackToSweep(t) ELSE [th EXCEPT ![t].at = "hand", ![t].cand = None]
       /\ UNCHANGED <<loading, flight, fetch, budget, resumeAt, queue, warm, files, failures>>

\* evict_one, under the candidate's shard lock: it may be gone or pinned by now.
Check(t) ==
    LET e == th[t].cand  k == KeyOf[e]
        resident == entries[k] = e
        evict == resident /\ ~Pinned(e)
    IN /\ th[t].at = "check"
       /\ ring' = IF resident /\ ~evict THEN [ring EXCEPT ![ClassOf[k]] = Append(@, e)] ELSE ring
       /\ entries' = IF evict THEN [entries EXCEPT ![k] = None] ELSE entries
       /\ used' = IF evict THEN [used EXCEPT ![ClassOf[k]] = @ - ChargeOf(e)] ELSE used
       /\ entry' = IF evict THEN [entry EXCEPT ![e].referenced = FALSE, ![e].charged = FALSE]
                   ELSE entry
       /\ th' = IF evict THEN BackToSweep(t) ELSE [th EXCEPT ![t].at = "hand", ![t].cand = None]
       /\ UNCHANGED <<loading, flight, fetch, budget, resumeAt, queue, warm, files, failures>>

-----------------------------------------------------------------------------
(* The engine and the readers. *)

\* set_budget, or trim when the budget stays: always sweeps.
SetBudget ==
    /\ th[Aux].at = "free"
    /\ \E b \in ToSet(Budgets) : budget' = b /\ (b # budget \/ UsedTotal > b)
    /\ th' = [th EXCEPT ![Aux] = [FreeThread EXCEPT !.at = "sweep"]]
    /\ UNCHANGED <<entries, loading, flight, entry, fetch, ring, used, resumeAt, queue, warm, files,
                   failures>>

\* AlignedBytes::decoded, then charge_decoded of its key: whatever entry the
\* key has by now is charged once, if its bytes carry a decoded form.
Decode(f) ==
    LET k == KeyOf[f]
        decoded == [entry EXCEPT ![fetch[f].bytes].decoded = TRUE]
        e == entries[k]
        charges == e # None /\ decoded[e].decoded /\ ~decoded[e].charged
    IN /\ th[Aux].at = "free" /\ fetch[f].state = "holds" /\ ~entry[fetch[f].bytes].decoded
       /\ entry' = IF charges THEN [decoded EXCEPT ![e].charged = TRUE] ELSE decoded
       /\ used' = IF charges THEN [used EXCEPT ![ClassOf[k]] = @ + Extra[k]] ELSE used
       /\ th' = IF charges /\ Extra[k] > 0
                THEN [th EXCEPT ![Aux] = [FreeThread EXCEPT !.at = "resume"]] ELSE th
       /\ UNCHANGED <<entries, loading, flight, fetch, ring, budget, resumeAt, queue, warm, files,
                      failures>>

\* A ring without the slots of some entries.
Retained(slots, dead) ==
    FoldLeft(LAMBDA q, e : IF e \in dead THEN q ELSE Append(q, e), <<>>, slots)

\* invalidate_file, when the file's last reader is dropped (no blocking fetch
\* runs on it): its entries go, its loads are detached, dead slots are swept.
InvalidateFile(k) ==
    /\ k \in files
    /\ \A f \in Fetches : KeyOf[f] = k =>
          fetch[f].state # "queued" /\ \A t \in Threads : th[t].fetch # f
    /\ files' = files \ {k}
    /\ loading' = [loading EXCEPT ![k] = None]
    /\ entries' = [entries EXCEPT ![k] = None]
    /\ used' = IF entries[k] = None THEN used
               ELSE [used EXCEPT ![ClassOf[k]] = @ - ChargeOf(entries[k])]
    /\ ring' = IF entries[k] = None THEN ring
               ELSE [c \in Classes |->
                       Retained(ring[c], {e \in Fetches : entries'[KeyOf[e]] # e
                                            /\ \A t \in Threads : th[t].cand # e})]
    /\ UNCHANGED <<flight, entry, fetch, budget, resumeAt, queue, th, warm, failures>>

ThreadStep(t) ==
    \/ (t \in PoolThreads /\ PoolTakes(t))
    \/ LoadEnds(t) \/ FinishShard(t) \/ FinishRing(t) \/ Complete(t) \/ Return(t)
    \/ Resume(t) \/ Sweep(t) \/ Overcommit(t) \/ Hand(t) \/ Check(t)

Next ==
    \/ \E f \in Fetches : \/ FetchAsync(f) \/ FetchBlocking(f) \/ Poll(f)
                          \/ DropFetch(f) \/ Release(f) \/ Decode(f)
    \/ \E t \in Threads : ThreadStep(t)
    \/ WarmUp \/ JobDropped \/ SetBudget
    \/ \E k \in Keys : InvalidateFile(k)

\* A thread runs on, unless it waits for a load that is pending; a woken
\* future is polled.  Due(t) is ENABLED ThreadStep(t), written out for TLC.
Due(t) ==
    CASE th[t].at = "free" -> t \in PoolThreads /\ queue # <<>>
      [] th[t].at = "waits" -> flight[th[t].load].state # "pending"
      [] OTHER -> TRUE

Fairness ==
    /\ \A t \in Threads : []<>~Due(t) \/ []<><<ThreadStep(t)>>_vars
    /\ \A f \in Fetches : WF_vars(Poll(f))

Spec == Init /\ [][Next]_vars /\ Fairness

-----------------------------------------------------------------------------
Resident(c) == {entries[k] : k \in {k \in Keys : ClassOf[k] = c}} \ {None}
Total(charge, S) == FoldSet(LAMBDA e, n : n + charge[e], 0, S)
Slots(q, e) == Cardinality({i \in DOMAIN q : q[i] = e})

\* The threads that have taken the entry out of its ring, or have yet to put it there.
Handling(e) == {t \in Threads : th[t].cand = e \/ (th[t].load = e /\ th[t].at = "ring")}

\* Its loader waits for an executor, or a thread runs it.
Carried(e) ==
    \/ flight[e].stored /\ e \in ToSet(queue)
    \/ \E t \in Threads : th[t].load = e /\ th[t].at \in {"load", "finish"}

\* Nothing leaks.  The bytes charged to a class are those of its resident
\* entries; each resident entry has exactly one slot in its ring, or is in
\* the hands of the one thread that inserts or examines it, so eviction can
\* always find it; and each registered load is pending with a loader that is
\* queued or a thread that runs it.
NothingLeaks ==
    /\ \A c \in Classes : /\ used[c] = Total([e \in Fetches |-> ChargeOf(e)], Resident(c))
                          /\ \A e \in Resident(c) : Slots(ring[c], e) + Cardinality(Handling(e)) = 1
    /\ \A k \in Keys : loading[k] # None => flight[loading[k]].state = "pending" /\ Carried(loading[k])

\* Every fetch ends, through failed and panicking loads, dropped jobs,
\* invalidated files and blocking fetches that fill the pool their load is
\* queued on: again and again no fetch is queued or waiting.
EveryFetchEnds == []<>(\A f \in Fetches : fetch[f].state \notin {"queued", "waiting"})
=============================================================================
