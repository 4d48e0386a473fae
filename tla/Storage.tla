------------------------------ MODULE Storage -------------------------------
(***************************************************************************)
(* One collection of the storage engine: its rows (module Rows), the jobs  *)
(* that move them between memtables and segments, the files and manifests  *)
(* on disk, garbage collection against readers and snapshot tokens, and    *)
(* recovery (writer/jobs.rs, manifest.rs, gc.rs, recovery.rs, flush.rs,    *)
(* compaction.rs, index_build.rs, tokens.rs).                              *)
(*                                                                         *)
(* The log is what Wal promises: `ops`, the committed operations, with     *)
(* file boundaries and the checkpoint frames in it.  A group is one        *)
(* operation; Commit shows how groups overlap and fail.  Jobs begin and    *)
(* commit with the pipeline drained, as here.                              *)
(***************************************************************************)
EXTENDS Rows

CONSTANTS
    StartRows,      \* the flushed rows the collection opens with
    MaxOps,         \* bound on logged operations
    MaxUnits,       \* bound on unit ids
    MaxGens,        \* bound on manifest generations
    MaxFaults,      \* bound on crashes, kills and failed calls
    MaxFrozen,      \* memtable.max_frozen
    MaxJobs,        \* the permits jobs of this collection get at once
    MaxPins,        \* versions held by requests and tokens at once
    Kinds           \* the operations and jobs of an instance

ASSUME StorageAssumption ==
    /\ StartRows \in 0..Cardinality(Keys)
    /\ MaxOps \in Nat /\ MaxUnits \in Nat /\ MaxGens \in Nat /\ MaxFaults \in Nat
    /\ MaxFrozen \in Nat \ {0} /\ MaxJobs \in Nat /\ MaxPins \in Nat

VARIABLES
    phase,      \* "open", "poisoned", "closed", "cleaned" (recovery ran orphan cleanup)
    mem,        \* the writer's private state, published when no group is prepared
    group,      \* the prepared group: its operation, savepoint and undo log
    ops,        \* the committed operations of the log
    wal,        \* the log's files: first operation held, boundaries, checkpoint frames
    gen,        \* generation of the writer's durable manifest
    ids,        \* the writer's counters, and the manifest kept beside the durable one
    jobs,       \* the running jobs
    publish,    \* the manifest publish in progress
    store,      \* content of every file written whole
    present,    \* the names in the directories
    removed,    \* names removed since the last directory sync: a crash may undo it
    current,    \* the generation CURRENT names on the device
    cached,     \* the generation CURRENT names in the page cache
    trash,      \* the removal queue
    obsolete,   \* files to remove when their last holder is gone
    readers,    \* the versions that requests and snapshot tokens hold, by file
    faults

vars == <<phase, mem, group, ops, wal, gen, ids, jobs, publish, store, present, removed,
          current, cached, trash, obsolete, readers, faults>>
rowVars  == <<mem, group, ops, wal>>
jobVars  == <<gen, ids, jobs, publish>>
diskVars == <<store, present, removed, current, cached>>
gcVars   == <<trash, obsolete>>

NoGroup   == [kind |-> "none"]
NoPublish == [step |-> "none"]

Segment(u)  == <<"segment", u, 0>>
Dv(u, g)    == <<"dv", u, g>>
Index(u, i) == <<"index", u, i>>
Mf(g)       == <<"manifest", g, 0>>

(***************************************************************************)
(* Manifests: the checkpoint, the schema, the id counters and the          *)
(* segments, each with its deletion-vector file and index sidecar.         *)
(***************************************************************************)

Manifest(g) == store[Mf(g)]

FilesOf(man) ==
    {Segment(u) : u \in DOMAIN man.segs}
      \cup {Dv(u, man.segs[u].dv) : u \in {u \in DOMAIN man.segs : man.segs[u].dv # 0}}
      \cup {Index(u, man.segs[u].index) : u \in {u \in DOMAIN man.segs : man.segs[u].index # 0}}

DurableBits(man, u) == IF man.segs[u].dv = 0 THEN {} ELSE store[Dv(u, man.segs[u].dv)]

\* The names the counters of a fresh open are above.
UnitsIn(names) == {n[2] : n \in {n \in names : n[1] # "manifest"}}
                    \cup {n[3] : n \in {n \in names : n[1] = "index"}}
DvGensIn(names) == {n[3] : n \in {n \in names : n[1] = "dv"}}
GensIn(names) == {n[2] : n \in {n \in names : n[1] = "manifest"}}

\* A version: what a reader can reach, by file.
VersionOf(m) ==
    {Segment(u) : u \in DOMAIN m.segs}
      \cup {Index(u, m.segs[u].index) : u \in {u \in DOMAIN m.segs : m.segs[u].index # 0}}

\* The writer's state, published versions, requests, tokens and job builds
\* hold segment files and sidecars.
Holders ==
    UNION (readers \cup {j.holds : j \in jobs} \cup {VersionOf(mem)})

-----------------------------------------------------------------------------
(* A collection just opened, all of whose `start` operations are flushed:  *)
(* puts of distinct keys, one segment each.                                *)

Start(keys) ==
    LET n == Len(keys)
        rows(i) == <<[key |-> keys[i], seq |-> i]>>
        man == [ckpt |-> n, schema |-> 0, unit |-> n + 1, dv |-> 1,
                segs |-> [i \in 1..n |-> [dv |-> 0, index |-> 0]]]
    IN /\ ops = [i \in 1..n |-> [kind |-> "put", key |-> keys[i], schema |-> 0]]
       /\ wal = [from |-> n + 1, starts |-> {n + 1}, ckpt |-> n, pending |-> FALSE]
       /\ store = With([f \in {Segment(i) : i \in 1..n} |-> rows(f[2])], Mf(1), man)
       /\ mem = NewState(0, n + 1, n + 1, [i \in 1..n |-> [rows |-> rows(i), index |-> 0]], <<>>,
                         [k \in Keys |-> IF \E i \in 1..n : keys[i] = k
                                         THEN <<CHOOSE i \in 1..n : keys[i] = k, 1>> ELSE NoAddr])
       /\ ids = [prev |-> 0, gen |-> 2, unit |-> n + 2, dv |-> 1]

Init ==
    /\ \E keys \in [1..StartRows -> Keys] : IsInjective(keys) /\ Start(keys)
    /\ phase = "open"
    /\ group = NoGroup
    /\ gen = 1
    /\ jobs = {}
    /\ publish = NoPublish
    /\ present = DOMAIN store
    /\ removed = {}
    /\ current = 1
    /\ cached = 1
    /\ trash = {}
    /\ obsolete = {}
    /\ readers = {}
    /\ faults = 0

\* The writer task is between messages with its pipeline drained.
Drained == phase = "open" /\ group = NoGroup /\ publish = NoPublish

Fault == faults < MaxFaults /\ faults' = faults + 1

-----------------------------------------------------------------------------
(* Writes. *)

\* Writer::prepare: savepoint, then apply to the private state.
Prepare ==
    /\ Drained
    /\ Len(ops) < MaxOps
    /\ \E kind \in Kinds \cap {"put", "delete", "alter"}, k \in Keys :
          LET op == IF kind = "alter" THEN [kind |-> kind, schema |-> mem.schema + 1]
                    ELSE [kind |-> kind, key |-> k, schema |-> mem.schema]
          IN /\ group' = [kind |-> "prepared", op |-> op, save |-> mem,
                          journal |-> IF kind = "alter" THEN <<>> ELSE <<k, mem.pk[k]>>]
             /\ mem' = Apply(mem, Len(ops) + 1, op)
    /\ UNCHANGED <<phase, ops, wal, faults>>
    /\ UNCHANGED <<jobVars, diskVars, gcVars, readers>>

\* LogicalState::restore: the group is never appended.  The key index is
\* rolled back by its undo log; everything else is the savepoint's.
RestoreGroup ==
    /\ phase = "open" /\ group # NoGroup /\ Fault
    /\ mem' = [group.save EXCEPT
                 !.pk = IF group.journal = <<>> THEN mem.pk
                        ELSE [mem.pk EXCEPT ![group.journal[1]] = group.journal[2]],
                 !.forwards = mem.forwards, !.rewrites = mem.rewrites]
    /\ group' = NoGroup
    /\ UNCHANGED <<phase, ops, wal>>
    /\ UNCHANGED <<jobVars, diskVars, gcVars, readers>>

\* The group is in the log and its version published.
CommitGroup ==
    /\ phase = "open" /\ group # NoGroup
    /\ ops' = Append(ops, group.op)
    /\ wal' = [wal EXCEPT !.ckpt = IF wal.pending THEN Manifest(gen).ckpt ELSE @,
                          !.pending = FALSE]
    /\ group' = NoGroup
    /\ UNCHANGED <<phase, mem, faults>>
    /\ UNCHANGED <<jobVars, diskVars, gcVars, readers>>

\* Writer::rewrite_slice, between groups.
Rewrite ==
    /\ phase = "open" /\ group = NoGroup /\ mem.rewrites # <<>>
    /\ publish = NoPublish
    /\ mem' = RewriteSlice(mem)
    /\ UNCHANGED <<phase, group, ops, wal, faults>>
    /\ UNCHANGED <<jobVars, diskVars, gcVars, readers>>

-----------------------------------------------------------------------------
(* Jobs: freeze, begin. *)

AllocateUnit == ids.unit < MaxUnits

\* A job may begin: the scheduler's permits are bounded.
JobSlot == Drained /\ AllocateUnit /\ Cardinality(jobs) < MaxJobs

\* Writer::freeze: rotate the log, start a new memtable.
Freeze ==
    /\ Drained /\ AllocateUnit
    /\ HasOps(mem.active) /\ Len(mem.frozen) < MaxFrozen
    /\ mem' = FreezeState(mem, ids.unit)
    /\ ids' = [ids EXCEPT !.unit = @ + 1]
    /\ wal' = [wal EXCEPT !.starts = @ \cup {Len(ops) + 1}, !.ckpt = Manifest(gen).ckpt]
    /\ UNCHANGED <<phase, group, ops, gen, jobs, publish, faults>>
    /\ UNCHANGED <<diskVars, gcVars, readers>>

\* begin_flush: the oldest frozen memtable with its deleted slots, and a DV
\* file for every segment whose deletion vector grew since its durable one.
BeginFlush ==
    /\ JobSlot /\ mem.frozen # <<>>
    /\ \A j \in jobs : j.kind # "flush"
    /\ LET t == Head(mem.frozen)
           grown == {u \in DOMAIN mem.segs :
                        Cardinality(DeletesOf(mem, u))
                          # Cardinality(DurableBits(Manifest(gen), u))}
           GenOf(u) == ids.dv + Cardinality({v \in grown : v < u})
       IN /\ jobs' = jobs \cup
                {[kind |-> "flush", unit |-> ids.unit, built |-> FALSE,
                  holds |-> VersionOf(mem), memtable |-> t,
                  maps |-> [u \in {t.unit} |->
                              RowMap(Len(t.rows), (1..Len(t.rows)) \ DeletesOf(mem, u))],
                  dvs |-> [u \in grown |-> [gen |-> GenOf(u), bits |-> DeletesOf(mem, u)]]]}
          /\ ids' = [ids EXCEPT !.unit = @ + 1, !.dv = @ + Cardinality(grown)]
    /\ UNCHANGED <<phase, gen, publish, faults>>
    /\ UNCHANGED <<rowVars, diskVars, gcVars, readers>>

Reserved == UNION {IF j.kind = "compact" THEN DOMAIN j.maps ELSE {} : j \in jobs}

\* Row maps of a compaction: inputs in unit order, rows in row order.
MergeMaps(m, inputs) ==
    LET kept(u) == (1..Len(m.segs[u].rows)) \ DeletesOf(m, u)
        base(u) == FoldFunctionOnSet(+, 0, [v \in inputs |-> Cardinality(kept(v))],
                                     {v \in inputs : v < u})
    IN [u \in inputs |-> [r \in 1..Len(m.segs[u].rows) |->
            IF r \in kept(u) THEN base(u) + Cardinality({q \in kept(u) : q <= r}) ELSE Dropped]]

\* begin_compaction: unreserved segments with their deletion vectors now.
\* Index builds of the inputs are told to stop (cancel_indexing).
BeginCompaction ==
    /\ JobSlot
    /\ \E inputs \in (SUBSET (DOMAIN mem.segs \ Reserved)) \ {{}} :
          jobs' = {IF j.kind = "index" /\ j.target \in inputs THEN [j EXCEPT !.cancelled = TRUE]
                   ELSE j : j \in jobs}
                    \cup {[kind |-> "compact", unit |-> ids.unit, built |-> FALSE,
                           holds |-> VersionOf(mem), maps |-> MergeMaps(mem, inputs),
                           dvs |-> <<>>]}
    /\ ids' = [ids EXCEPT !.unit = @ + 1]
    /\ UNCHANGED <<phase, gen, publish, faults>>
    /\ UNCHANGED <<rowVars, diskVars, gcVars, readers>>

\* begin_index: a segment without a sidecar that no compaction holds.
BeginIndex ==
    /\ JobSlot /\ "index" \in Kinds
    /\ \A j \in jobs : j.kind # "index"
    /\ \E u \in DOMAIN mem.segs \ Reserved :
          /\ mem.segs[u].index = 0
          /\ jobs' = jobs \cup {[kind |-> "index", unit |-> ids.unit, built |-> FALSE,
                                 holds |-> VersionOf(mem), target |-> u,
                                 cancelled |-> FALSE, dvs |-> <<>>]}
    /\ ids' = [ids EXCEPT !.unit = @ + 1]
    /\ UNCHANGED <<phase, gen, publish, faults>>
    /\ UNCHANGED <<rowVars, diskVars, gcVars, readers>>

-----------------------------------------------------------------------------
(* Jobs: build.  The rows come from what the job holds, off the writer. *)

\* A flush writes the rows of the memtable that its map keeps.
FlushRows(rows, map) == SelectSeq(rows, LAMBDA row : \E r \in Kept(map) : rows[r] = row)

\* A compaction writes the rows its maps keep, each where its map says.
MergedCount(maps) ==
    FoldFunctionOnSet(+, 0, [u \in DOMAIN maps |-> Cardinality(Kept(maps[u]))], DOMAIN maps)
Origin(maps, o) ==
    CHOOSE a \in UNION {{u} \X Kept(maps[u]) : u \in DOMAIN maps} : maps[a[1]][a[2]] = o

OutputRows(j) ==
    CASE j.kind = "flush" -> FlushRows(j.memtable.rows, j.maps[j.memtable.unit])
      [] j.kind = "compact" ->
           [o \in 1..MergedCount(j.maps) |->
                store[Segment(Origin(j.maps, o)[1])][Origin(j.maps, o)[2]]]
      [] OTHER -> <<>>

\* Files that exist without their whole content are not in `store`.
Without(files, names) == Restrict(files, DOMAIN files \ names)

\* Content nothing can bring back is forgotten.
Only(files, names) == Restrict(files, DOMAIN files \cap names)

\* The files of a job (Running::files): its output and its DV files.
JobFiles(j) ==
    {IF j.kind = "index" THEN Index(j.target, j.unit) ELSE Segment(j.unit)}
      \cup {Dv(u, j.dvs[u].gen) : u \in DOMAIN j.dvs}

Written(j) ==
    LET dvs == [n \in {Dv(u, j.dvs[u].gen) : u \in DOMAIN j.dvs} |-> j.dvs[n[2]].bits]
    IN IF j.kind = "index" THEN With(dvs, Index(j.target, j.unit), "graph")
       ELSE IF OutputRows(j) = <<>> THEN dvs
       ELSE With(dvs, Segment(j.unit), OutputRows(j))

\* build_flush, build_compaction, build_index: the files and their directory
\* are synced.  The job lets go of its version before the commit.
Build ==
    /\ phase \in {"open", "poisoned"}
    /\ \E j \in jobs :
          /\ ~j.built
          /\ jobs' = (jobs \ {j}) \cup {[j EXCEPT !.built = TRUE, !.holds = {}]}
          /\ present' = present \cup DOMAIN Written(j)
          /\ removed' = {n \in removed : n[1] = "manifest"}
          /\ store' = Only(Extend(Written(j), store), present' \cup removed')
    /\ UNCHANGED <<phase, gen, ids, publish, current, cached, faults>>
    /\ UNCHANGED <<rowVars, gcVars, readers>>

\* A build that fails, or an index build that was cancelled: end_job removes
\* what it wrote.
BuildFails ==
    /\ phase \in {"open", "poisoned"} /\ publish = NoPublish
    /\ \E j \in jobs :
          /\ ~j.built
          /\ IF j.kind = "index" /\ j.cancelled THEN faults' = faults ELSE Fault
          /\ jobs' = jobs \ {j}
          /\ present' = present \cup JobFiles(j)
          /\ store' = Without(store, JobFiles(j))
          /\ trash' = trash \cup JobFiles(j)
    /\ UNCHANGED <<phase, gen, ids, publish, removed, current, cached, obsolete>>
    /\ UNCHANGED <<rowVars, readers>>

-----------------------------------------------------------------------------
(* Jobs: commit. *)

\* Deletions that reached the inputs while the job ran, on the output's rows.
Reconciled(j) == UNION {Mapped(mem, u, j.maps[u]) : u \in DOMAIN j.maps}

FlushManifest(j) ==
    LET man == Manifest(gen)
        old == [u \in DOMAIN man.segs |->
                  IF u \in DOMAIN j.dvs THEN [man.segs[u] EXCEPT !.dv = j.dvs[u].gen]
                  ELSE man.segs[u]]
    IN [man EXCEPT !.ckpt = j.memtable.last, !.schema = mem.schema,
                   !.segs = IF OutputRows(j) = <<>> THEN old
                            ELSE With(old, j.unit, [dv |-> 0, index |-> 0]),
                   !.unit = ids.unit, !.dv = ids.dv]

CompactManifest(j, dvGen) ==
    LET man == Manifest(gen)
        left == Restrict(man.segs, DOMAIN man.segs \ DOMAIN j.maps)
    IN [man EXCEPT !.schema = mem.schema,
                   !.segs = IF OutputRows(j) = <<>> THEN left
                            ELSE With(left, j.unit, [dv |-> dvGen, index |-> 0]),
                   !.unit = ids.unit, !.dv = IF dvGen = 0 THEN ids.dv ELSE ids.dv + 1]

IndexManifest(j) ==
    [Manifest(gen) EXCEPT !.schema = mem.schema, !.segs[j.target].index = j.unit,
                          !.unit = ids.unit, !.dv = ids.dv]

\* publish_manifest up to the rename: the manifest file is on disk.
StartPublish(j, man, files, content) ==
    /\ ids.gen < MaxGens
    /\ publish' = [step |-> "written", job |-> j, gen |-> ids.gen]
    /\ ids' = [ids EXCEPT !.gen = @ + 1, !.dv = man.dv]
    /\ present' = present \cup {Mf(ids.gen)} \cup files
    /\ removed' = {}
    /\ store' = Only(With(Extend(content, store), Mf(ids.gen), man), present')
    /\ UNCHANGED <<phase, mem, group, ops, wal, gen, jobs, current, cached, faults>>
    /\ UNCHANGED <<gcVars, readers>>

CommitFlush ==
    /\ Drained
    /\ \E j \in jobs :
          /\ j.built /\ j.kind = "flush"
          /\ mem.frozen # <<>> /\ Head(mem.frozen).unit = j.memtable.unit
          /\ StartPublish(j, FlushManifest(j), {}, <<>>)

\* A compaction first writes the reconciled deletions as a DV file.
CommitCompaction ==
    /\ Drained
    /\ \E j \in jobs :
          /\ j.built /\ j.kind = "compact"
          /\ LET bits == Reconciled(j)
                 g == IF bits = {} \/ OutputRows(j) = <<>> THEN 0 ELSE ids.dv
                 file == IF g = 0 THEN {} ELSE {Dv(j.unit, g)}
             IN StartPublish(j, CompactManifest(j, g), file, [n \in file |-> bits])

CommitIndex ==
    /\ Drained
    /\ \E j \in jobs :
          /\ j.built /\ j.kind = "index" /\ ~j.cancelled
          /\ j.target \in DOMAIN mem.segs /\ mem.segs[j.target].index = 0
          /\ StartPublish(j, IndexManifest(j), {}, <<>>)

\* A built index of a segment that a compaction took: abandoned.
AbandonIndex ==
    /\ Drained
    /\ \E j \in jobs :
          /\ j.built /\ j.kind = "index"
          /\ j.cancelled \/ j.target \notin DOMAIN mem.segs
          /\ jobs' = jobs \ {j}
          /\ trash' = trash \cup JobFiles(j)
    /\ UNCHANGED <<phase, gen, ids, publish, obsolete, faults>>
    /\ UNCHANGED <<rowVars, diskVars, readers>>

\* Mutant: the generation is given back.
PublishFailsReusing ==
    /\ phase = "open" /\ publish.step = "written" /\ Fault
    /\ jobs' = jobs \ {publish.job}
    /\ trash' = trash \cup JobFiles(publish.job) \cup {Mf(publish.gen)}
                  \cup {n \in present : n[1] = "dv" /\ n[2] = publish.job.unit}
    /\ ids' = [ids EXCEPT !.gen = publish.gen]
    /\ publish' = NoPublish
    /\ UNCHANGED <<phase, gen, obsolete>>
    /\ UNCHANGED <<rowVars, diskVars, readers>>

\* The publish failed before the rename: the job's files and the partial
\* manifest are removed, its generation is burned.
PublishFails ==
    /\ phase = "open" /\ publish.step = "written" /\ Fault
    /\ jobs' = jobs \ {publish.job}
    /\ trash' = trash \cup JobFiles(publish.job) \cup {Mf(publish.gen)}
                  \cup {n \in present : n[1] = "dv" /\ n[2] = publish.job.unit}
    /\ publish' = NoPublish
    /\ UNCHANGED <<phase, gen, ids, obsolete>>
    /\ UNCHANGED <<rowVars, diskVars, readers>>

Rename ==
    /\ phase = "open" /\ publish.step = "written"
    /\ cached' = publish.gen
    /\ publish' = [publish EXCEPT !.step = "renamed"]
    /\ UNCHANGED <<phase, gen, ids, jobs, store, present, removed, current, faults>>
    /\ UNCHANGED <<rowVars, gcVars, readers>>

\* A failed rename or directory sync: CURRENT may name either manifest, the
\* collection is poisoned and no file of either is removed.
PublishUnknown ==
    /\ phase = "open" /\ publish.step \in {"written", "renamed"} /\ Fault
    /\ phase' = "poisoned"
    /\ cached' \in IF publish.step = "written" THEN {cached, publish.gen} ELSE {cached}
    /\ jobs' = jobs \ {publish.job}
    /\ publish' = NoPublish
    /\ UNCHANGED <<gen, ids, store, present, removed, current>>
    /\ UNCHANGED <<rowVars, gcVars, readers>>

SupersededDvs(j) ==
    LET man == Manifest(gen)
        units == IF j.kind = "compact" THEN DOMAIN j.maps ELSE DOMAIN j.dvs
    IN {Dv(u, man.segs[u].dv) : u \in {u \in units \cap DOMAIN man.segs : man.segs[u].dv # 0}}
         \cup {Dv(u, j.dvs[u].gen) : u \in DOMAIN j.dvs \ DOMAIN man.segs}

\* The directory sync: the manifest is durable.  Install it, publish the
\* version, and release what the manifest superseded.
Install ==
    /\ phase = "open" /\ publish.step = "renamed"
    /\ LET j == publish.job IN
       /\ current' = cached
       /\ gen' = publish.gen
       /\ ids' = [ids EXCEPT !.prev = gen]
       /\ mem' = CASE j.kind = "flush" ->
                        InstallFlush(mem, j.unit, j.memtable.unit, j.maps[j.memtable.unit],
                                     OutputRows(j))
                   [] j.kind = "compact" ->
                        InstallCompaction(mem, j.unit, j.maps, OutputRows(j), Reconciled(j))
                   [] OTHER -> InstallIndex(mem, j.target, j.unit)
       /\ obsolete' = obsolete \cup
             (IF j.kind = "compact"
              THEN {n \in VersionOf(mem) : n[2] \in DOMAIN j.maps} ELSE {})
       /\ trash' = trash \cup (IF j.kind = "index" THEN {} ELSE SupersededDvs(j))
                     \cup (IF ids.prev = 0 THEN {} ELSE {Mf(ids.prev)})
       /\ jobs' = jobs \ {j}
       /\ publish' = IF j.kind = "flush" THEN [step |-> "truncate"] ELSE NoPublish
       /\ wal' = IF j.kind = "flush" THEN [wal EXCEPT !.pending = TRUE] ELSE wal
    /\ UNCHANGED <<phase, group, ops, store, present, removed, cached, faults>>
    /\ UNCHANGED readers

\* Mutant: off by one.
CoveredStartsPast(checkpoint) == {s \in wal.starts : s >= wal.from /\ s - 2 <= checkpoint}

\* The files after which everything older is below the checkpoint.
CoveredStarts(checkpoint) == {s \in wal.starts : s >= wal.from /\ s - 1 <= checkpoint}

\* remove_checkpointed_wal: whole files below the checkpoint, oldest first;
\* a failed removal ends it.
TruncateLog ==
    /\ phase = "open" /\ publish.step = "truncate"
    /\ \E s \in CoveredStarts(Manifest(gen).ckpt) \cup {wal.from} :
          wal' = [wal EXCEPT !.from = s, !.starts = {t \in @ : t >= s}]
    /\ publish' = NoPublish
    /\ UNCHANGED <<phase, mem, group, ops, gen, ids, jobs, faults>>
    /\ UNCHANGED <<diskVars, gcVars, readers>>

\* A job that ends once the writer refuses work.
JobRefused ==
    /\ phase = "poisoned"
    /\ \E j \in jobs :
          /\ j.built
          /\ jobs' = jobs \ {j}
          /\ trash' = trash \cup JobFiles(j)
    /\ UNCHANGED <<phase, gen, ids, publish, obsolete, faults>>
    /\ UNCHANGED <<rowVars, diskVars, readers>>

-----------------------------------------------------------------------------
(* Readers, tokens and garbage collection. *)

\* A request or a snapshot token takes hold of the published version
\* (handle.current, pin_version).  A version without files holds nothing here.
PublishedFiles == VersionOf(IF group = NoGroup THEN mem ELSE group.save)

HoldVersion ==
    /\ phase \in {"open", "poisoned"} /\ Cardinality(readers) < MaxPins
    /\ PublishedFiles # {}
    /\ readers' = readers \cup {PublishedFiles}
    /\ UNCHANGED <<phase, faults>>
    /\ UNCHANGED <<rowVars, jobVars, diskVars, gcVars>>

\* The request ends; the token is released, expires or is evicted.
DropVersion ==
    /\ \E v \in readers : readers' = readers \ {v}
    /\ UNCHANGED <<phase, faults>>
    /\ UNCHANGED <<rowVars, jobVars, diskVars, gcVars>>

\* Mutant: an obsolete file goes at once.
CollectableAtOnce == trash \cup obsolete

\* FileHandle::drop queues an obsolete file once nothing holds it.
Collectable == trash \cup {n \in obsolete : n \notin Holders}

\* GcQueue::drain: the queue in one batch.  A crash inside the batch is a
\* crash after it that undoes some of the removals.
GcDrain ==
    /\ phase \in {"open", "poisoned"} /\ Collectable # {}
    /\ present' = present \ Collectable
    /\ removed' = removed \cup (Collectable \cap present)
    /\ trash' = {}
    /\ obsolete' = obsolete \ Collectable
    /\ UNCHANGED <<phase, store, current, cached, faults>>
    /\ UNCHANGED <<rowVars, jobVars, readers>>

-----------------------------------------------------------------------------
(* Crashes and recovery. *)

\* The volatile state is gone.
Closed ==
    /\ phase' = "closed"
    /\ mem' = NewState(0, 0, 1, <<>>, <<>>, [k \in Keys |-> NoAddr])
    /\ group' = NoGroup
    /\ gen' = 0
    /\ ids' = [prev |-> 0, gen |-> 0, unit |-> 0, dv |-> 0]
    /\ jobs' = {}
    /\ publish' = NoPublish
    /\ trash' = {} /\ obsolete' = {}
    /\ readers' = {}
    /\ UNCHANGED ops

\* Files a job was writing are left behind incomplete; a crash may lose them.
Leftovers == UNION {IF j.built THEN {} ELSE JobFiles(j) : j \in jobs}

\* Power loss: unsynced directory changes are kept or undone.
Crash ==
    /\ Fault
    /\ current' \in {current, cached} /\ cached' = current'
    /\ \E back \in SUBSET removed, left \in {{}, Leftovers} :
          /\ present' = present \cup back \cup left
          /\ store' = Only(Without(store, left), present')
    /\ removed' = {}
    /\ wal' = [wal EXCEPT !.pending = FALSE]
    /\ Closed

\* The process dies, the page cache stays.
Kill ==
    /\ phase # "closed" /\ Fault
    /\ present' = present \cup Leftovers
    /\ store' = Without(store, Leftovers)
    /\ wal' = [wal EXCEPT !.pending = FALSE]
    /\ UNCHANGED <<removed, current, cached>>
    /\ Closed

\* Whether recovery from generation g finds what it needs.
Readable(g) ==
    /\ Mf(g) \in present
    /\ FilesOf(Manifest(g)) \subseteq present \cap DOMAIN store
    /\ wal.from <= Manifest(g).ckpt + 1
    /\ wal.ckpt <= Manifest(g).ckpt

\* recover_segments and recover_wal.
SegmentState(g, unit) ==
    LET man == Manifest(g)
        segs == [u \in DOMAIN man.segs |->
                    [rows |-> store[Segment(u)], index |-> man.segs[u].index]]
        dvd == {u \in DOMAIN man.segs : man.segs[u].dv # 0}
        bits == [u \in dvd |-> DurableBits(man, u)]
        pk == RebuildPk(segs, bits)
        fixed == [u \in dvd \cup {a[1] : a \in pk.repaired} |->
                    (IF u \in dvd THEN bits[u] ELSE {}) \cup {a[2] : a \in {b \in pk.repaired : b[1] = u}}]
    IN NewState(man.schema, unit, man.ckpt + 1, segs, fixed, pk.pk)

Recovered(g, unit) == Replayed(SegmentState(g, unit), ops, Manifest(g).ckpt)

\* The counters of a fresh open are above every name on disk.
FreshIds(man, g, prev) ==
    [prev |-> prev,
     gen |-> Max({g} \cup GensIn(present)) + 1,
     unit |-> Max({man.unit} \cup {u + 1 : u \in UnitsIn(present)}),
     dv |-> Max({man.dv} \cup {d + 1 : d \in DvGensIn(present)})]

\* recover_manifest: the durability barrier, CURRENT, orphan cleanup.  The
\* removals are synced before recovery goes on.
RecoverManifest ==
    /\ phase = "closed"
    /\ current' = cached
    /\ Mf(cached) \in present
    /\ LET man == Manifest(cached)
           others == GensIn(present) \ {cached}
           prevs == {g \in others : g < cached}
           prev == IF prevs = {} THEN 0 ELSE Max(prevs)
           live == FilesOf(man) \cup {Mf(cached)} \cup (IF prev = 0 THEN {} ELSE {Mf(prev)})
       IN /\ gen' = cached
          /\ ids' = FreshIds(man, cached, prev)
          /\ removed' = present \ live
          /\ present' = present \cap live
    /\ phase' = "cleaned"
    /\ UNCHANGED <<mem, group, ops, wal, jobs, publish, store, cached, faults>>
    /\ UNCHANGED <<gcVars, readers>>

\* recover_segments, recover_wal, start_collection.
RecoverCollection ==
    /\ phase = "cleaned" /\ Readable(gen) /\ ids.unit < MaxUnits
    /\ ReplayApplies(SegmentState(gen, ids.unit), ops, Manifest(gen).ckpt)
    /\ mem' = Recovered(gen, ids.unit)
    /\ ids' = [ids EXCEPT !.unit = @ + 1]
    /\ store' = Only(store, present)
    /\ removed' = {}
    /\ LET s == Max(CoveredStarts(Manifest(gen).ckpt) \cup {wal.from})
       IN wal' = [wal EXCEPT !.from = s, !.starts = {t \in @ : t >= s}]
    /\ phase' = "open"
    /\ UNCHANGED <<group, ops, gen, jobs, publish, present, current, cached, faults>>
    /\ UNCHANGED <<gcVars, readers>>

-----------------------------------------------------------------------------
Next ==
    \/ Prepare \/ RestoreGroup \/ CommitGroup \/ Rewrite
    \/ Freeze \/ BeginFlush \/ BeginCompaction \/ BeginIndex
    \/ Build \/ BuildFails
    \/ CommitFlush \/ CommitCompaction \/ CommitIndex \/ AbandonIndex
    \/ PublishFails \/ Rename \/ PublishUnknown \/ Install \/ TruncateLog \/ JobRefused
    \/ HoldVersion \/ DropVersion \/ GcDrain
    \/ Crash \/ Kill \/ RecoverManifest \/ RecoverCollection

Spec == Init /\ [][Next]_vars

-----------------------------------------------------------------------------
(* Properties. *)

\* Every key reads as the log says, and has at most one live row, while
\* memtables freeze and jobs move its row between units (I4, I5).
ReadsMatchLog ==
    phase = "open" =>
        LET log == IF group = NoGroup THEN ops ELSE Append(ops, group.op)
        IN /\ Reads(mem) = Meaning(log)
           /\ Cardinality({RowAt(mem, a).key : a \in LiveRows(mem)}) = Cardinality(LiveRows(mem))

\* Whatever moment the process or the host stops, the manifest CURRENT names
\* then, in the cache or on the device, and the log above its checkpoint
\* rebuild exactly the committed state (I8, I9).
CrashSafe ==
    \A g \in {current, cached} :
        /\ Readable(g)
        /\ LET start == SegmentState(g, MaxUnits + 1)
           IN /\ ReplayApplies(start, ops, Manifest(g).ckpt)
              /\ Reads(Replayed(start, ops, Manifest(g).ckpt)) = Meaning(ops)

\* A file that a reader, a token, a running build or the writer's state can
\* reach is on disk (I7).
HeldFilesExist == Holders \subseteq present

\* The key index leads every key to its live row through forwarding tables
\* and unfinished rewrites, and to nothing when it has none.
KeyIndexResolves ==
    phase = "open" =>
        LET live == LiveRows(mem)
            found == [k \in Keys |-> Resolve(mem, k)]
        IN /\ \A k \in Keys : found[k] # NoAddr => found[k] \in live /\ RowAt(mem, found[k]).key = k
           /\ \A a \in live : found[RowAt(mem, a).key] = a

\* The incremental counters of a version are what a recount finds.
CountersMatch ==
    phase = "open" => [total |-> mem.total, deleted |-> mem.deleted] = Recount(mem)

\* No name that is about to be written exists already: files are created with
\* CreateNew, so a collision would fail every later attempt.
NamesFresh ==
    /\ \A j \in jobs : ~j.built => JobFiles(j) \cap present = {}
    /\ Drained => Mf(ids.gen) \notin present
=============================================================================
