------------------------------- MODULE Query --------------------------------
(***************************************************************************)
(* A collection read while it changes: writes and schema changes land in   *)
(* the active memtable, memtables become segments, segments are merged and *)
(* given graphs, the medium garbles a region, and clients get, filter,     *)
(* search, pin a version and scroll over it.  How a version is made        *)
(* durable and published is Storage's subject; here a version is [schema,  *)
(* units], and each step publishes one.                                    *)
(*                                                                         *)
(* `truth` is the reference: the records by name, as a client would expect *)
(* them after every write and schema change.                               *)
(***************************************************************************)
EXTENDS Scroll

CONSTANTS
    BaseSchema,     \* the schema of create_collection
    Feeds,          \* the sequences of writes a run makes
    Filters,        \* filter expressions asked of every version
    Queries,        \* searches asked of every version: [vector, k, where]
    Plans,          \* what the cost model may do: [choice, abandon]
    Scrolls,        \* what is scrolled over: [where, order, limit]
    SeenCommits,    \* how far the plans of a parallel build may lag
    Ttl, MaxTime, MaxPins, MemoryLimit,     \* TokenConfig, and a bound on the clock
    MaxTokens, MaxFaults,                   \* bounds: tokens issued, regions garbled
    TokenTails, FaultTails                  \* bounds: the writes still to come when tokens are
                                            \* first taken, when a region is garbled

VARIABLES
    schema, units,  \* the current version
    truth,          \* what clients wrote
    feed,           \* the writes still to come
    seq,            \* the last sequence number
    pins,           \* TokenRegistry.pins: token to [view, truth, expires, order]
    issued,         \* tokens issued so far, numbered in order
    held,           \* the token a client pinned for itself, or 0
    scroll,         \* the client's scroll
    now,            \* the clock
    faults          \* regions garbled so far

version == <<schema, units>>
tokens == <<pins, issued, held, scroll>>
vars == <<version, truth, feed, seq, tokens, now, faults>>

CurrentView == [schema |-> schema, units |-> units]

NoScroll == [on |-> FALSE, done |-> FALSE]

\* Bounds on the exploration.  What a version answers does not depend on tokens, so regions are
\* garbled and graphs built before anyone pins or scrolls; a scroll reads no graph, so it starts on
\* a version without one; a client pins before it scrolls, if it does; the run ends when the
\* scroll is over and nothing is pinned.
Untouched == issued = 0 /\ scroll = NoScroll
Over == scroll.done /\ pins = <<>>
Late == /\ feed \in TokenTails /\ faults = 0
        /\ \A i \in DOMAIN units : units[i].kind = "segment" => ~ units[i].side.ok

\* MemtableData::new and apply_schema: indexes for the fields it does not know yet.
FieldIndexes(s, first) ==
    [at \in {<<f, "sorted">> : f \in s.index.sorted} \cup {<<f, "inverted">> : f \in s.index.inverted} |->
       MemNew(at[2] = "sorted", first)]
NewMemtable(unit, s) == [kind |-> "memtable", unit |-> unit, rows |-> <<>>, index |-> FieldIndexes(s, 0), deleted |-> {}]
ApplySchema(m, s) ==
    LET kept == Restrict(m.index, {at \in DOMAIN m.index : at[1] \in DOMAIN s.fields})
    IN [m EXCEPT !.index = kept @@ FieldIndexes(s, Len(m.rows)),
                 !.rows = [i \in DOMAIN m.rows |->
                             [m.rows[i] EXCEPT !.vals = Restrict(@, DOMAIN @ \cap DOMAIN s.fields)]]]

Init ==
    /\ schema = BaseSchema
    /\ units = <<NewMemtable(1, BaseSchema)>>
    /\ truth = <<>>
    /\ feed \in Feeds /\ seq = 0
    /\ pins = <<>> /\ issued = 0 /\ held = 0 /\ scroll = NoScroll
    /\ now = 0 /\ faults = 0

----------------------------------------------------------------------------
(* Writes.                                                                 *)

\* The live row of a key: at most one <<unit position, row>>.
LiveAt(key) ==
    {<<i, row>> \in UNION {{i} \X Live(units[i]) : i \in DOMAIN units} :
       (IF IsMemtable(units[i]) THEN units[i].rows[row + 1].pk ELSE units[i].file.sections[Section("pk_column", NoField)][row + 1]) = key}
Masked(key) ==
    [i \in DOMAIN units |-> [units[i] EXCEPT !.deleted = @ \cup {at[2] : at \in {a \in LiveAt(key) : a[1] = i}}]]

\* Memtable::push.
Push(m, image, number) ==
    LET slot == Len(m.rows)
        value(f) == IF f \in DOMAIN image.vals THEN image.vals[f] ELSE Null
    IN [m EXCEPT !.rows = Append(@, [pk |-> image.pk, seq |-> number, vec |-> image.vec,
                                     vals |-> image.vals, extra |-> image.extra]),
                 !.index = [at \in DOMAIN @ |-> MemInsert(@[at], slot, value(at[1]))]]

\* The row a partial update changes, read through the schema it is merged under.
StoredImage(key) ==
    LET at == CHOOSE a \in LiveAt(key) : TRUE
    IN IF LiveAt(key) = {} THEN Refused
       ELSE IF IsMemtable(units[at[1]]) THEN Ok(units[at[1]].rows[at[2] + 1])
       ELSE Then(WholeRows(units[at[1]].file), LAMBDA rows : Ok(rows[at[2] + 1]))

\* The reference's version of a write.
Expected(s, base, record) ==
    LET declared == DOMAIN s.names
        overlaid(old, change) == Restrict(change @@ old, {k \in DOMAIN change \cup DOMAIN old :
                                                            k \in DOMAIN change => ~ IsNull(change[k])})
        loose == [k \in DOMAIN record.fields \ declared |-> IntoJson(record.fields[k])]
    IN [pk |-> record.pk, vec |-> IF record.vec = <<>> THEN base.vec ELSE record.vec,
        vals |-> [n \in declared |-> IF n \in DOMAIN record.fields THEN record.fields[n] ELSE base.vals[n]],
        extra |-> IF record.whole THEN loose @@ record.extra ELSE overlaid(base.extra, loose @@ record.extra)]
Blank(s) == [vec |-> <<>>, vals |-> [n \in DOMAIN s.names |-> Null], extra |-> <<>>]

\* The reference's version of a schema change: a name once declared hides the dynamic key for good.
Altered(change, record) ==
    LET name == IF change.op = "rename" THEN change.to ELSE change.name
        hidden == Restrict(record.extra, DOMAIN record.extra \ {name})
    IN CASE change.op = "add" -> [record EXCEPT !.vals = change.name :> Null @@ @, !.extra = hidden]
         [] change.op = "drop" -> [record EXCEPT !.vals = Restrict(@, DOMAIN @ \ {change.name})]
         [] change.op = "rename" ->
              [record EXCEPT !.vals = change.to :> @[change.name] @@ Restrict(@, DOMAIN @ \ {change.name}), !.extra = hidden]

Commit(image) ==
    LET masked == Masked(image.pk)
    IN units' = [masked EXCEPT ![Len(units)] = Push(@, image, seq + 1)]

\* The next write of the feed; a refused one changes nothing.
Write(image, expected) ==
    /\ feed' = Tail(feed)
    /\ IF image.ok
       THEN /\ Commit(image.v) /\ seq' = seq + 1
            /\ truth' = image.v.pk :> expected @@ truth
       ELSE UNCHANGED <<units, seq, truth>>
    /\ UNCHANGED <<schema, tokens, now, faults>>

Put ==
    /\ feed # <<>> /\ Head(feed).op = "put"
    /\ LET record == Head(feed).record
       IN Write(FromRecord(schema, record), Expected(schema, Blank(schema), record))

Update ==
    /\ feed # <<>> /\ Head(feed).op = "update"
    /\ LET record == Head(feed).record
       IN Write(Then(StoredImage(record.pk), LAMBDA old : MergeUpdate(schema, old, record)),
                Expected(schema, truth[record.pk], record))

Delete ==
    /\ feed # <<>> /\ Head(feed).op = "delete"
    /\ feed' = Tail(feed) /\ seq' = seq + 1
    /\ units' = Masked(Head(feed).key)
    /\ truth' = Restrict(truth, DOMAIN truth \ {Head(feed).key})
    /\ UNCHANGED <<schema, tokens, now, faults>>

AlterSchema ==
    LET change == Head(feed).change
        next == ApplyChange(schema, change)
    IN /\ feed # <<>> /\ Head(feed).op = "alter"
       /\ feed' = Tail(feed)
       /\ IF next.ok
          THEN /\ schema' = next.v /\ seq' = seq + 1
               /\ units' = [units EXCEPT ![Len(units)] = ApplySchema(@, next.v)]
               /\ truth' = [k \in DOMAIN truth |-> Altered(change, truth[k])]
          ELSE UNCHANGED <<schema, seq, units, truth>>
       /\ UNCHANGED <<tokens, now, faults>>

----------------------------------------------------------------------------
(* Maintenance.                                                            *)

\* A fresh unit id: units are only told apart, so an id nothing refers to serves again.
NewUnit ==
    LET used == {u.unit : u \in Range(units) \cup UNION {Range(pins[t].view.units) : t \in DOMAIN pins}}
    IN Min((1..(Cardinality(used) + 1)) \ used)

Memtables == {i \in DOMAIN units : IsMemtable(units[i])}
Segments == DOMAIN units \ Memtables

\* Rotation: the active memtable becomes immutable.
Freeze ==
    /\ Cardinality(Memtables) = 1 /\ units[Len(units)].rows # <<>>
    /\ units' = Append(units, NewMemtable(NewUnit, schema))
    /\ UNCHANGED <<schema, truth, feed, seq, tokens, now, faults>>

\* SegmentBuilder over the live rows, with the zones of manifest_entry.
Registered(unit, file) ==
    [kind |-> "segment", unit |-> unit, file |-> file, side |-> NoSidecar, deleted |-> {},
     zones |-> file.sections[Section("stats", NoField)].fields]
NewSegment(unit, images) == Registered(unit, Build(unit, schema, images))
LiveImages(u, rows) == LET live == Ascending(Live(u)) IN [i \in DOMAIN live |-> rows[live[i] + 1]]

\* A flush of the immutable memtable; one without live rows leaves no segment.
Flush ==
    LET i == Min(Memtables)
        images == LiveImages(units[i], units[i].rows)
        output == IF images = <<>> THEN <<>> ELSE <<NewSegment(NewUnit, images)>>
    IN /\ Cardinality(Memtables) = 2
       /\ units' = SubSeq(units, 1, i - 1) \o output \o SubSeq(units, i + 1, Len(units))
       /\ UNCHANGED <<schema, truth, feed, seq, tokens, now, faults>>

\* A compaction of all the segments; it fails and changes nothing when it cannot read one.
Compact ==
    LET inputs == Ascending(Segments)
        rows == [i \in Segments |-> WholeRows(units[i].file)]
        images == FlattenSeq([j \in DOMAIN inputs |-> LiveImages(units[inputs[j]], rows[inputs[j]].v)])
        output == IF images = <<>> THEN <<>> ELSE <<NewSegment(NewUnit, images)>>
    IN /\ Cardinality(Segments) >= 2 \/ \E i \in Segments : units[i].deleted # {}
       /\ \A i \in Segments : rows[i].ok
       /\ units' = output \o SubSeq(units, Len(inputs) + 1, Len(units))
       /\ UNCHANGED <<schema, truth, feed, seq, tokens, now, faults>>

\* The index job of one segment.
BuildGraph(i, seen) ==
    LET rows == WholeRows(units[i].file)
    IN /\ Untouched /\ i \in Segments /\ ~ units[i].side.ok
       /\ rows.ok /\ HasGraph(rows.v)
       /\ units' = [units EXCEPT ![i].side = BuildSidecar(units[i].file, rows.v, seen)]
       /\ UNCHANGED <<schema, truth, feed, seq, tokens, now, faults>>

\* The medium garbles a region of a segment or of its sidecar.
Garble(i, region) ==
    /\ faults < MaxFaults /\ Untouched /\ feed \in FaultTails /\ i \in Segments
    /\ IF region \in Regions(units[i].file)
       THEN units' = [units EXCEPT ![i].file.bad = @ \cup {region}]
       ELSE units[i].side.ok /\ units' = [units EXCEPT ![i].side.bad = @ \cup {region}]
    /\ faults' = faults + 1
    /\ UNCHANGED <<schema, truth, feed, seq, tokens, now>>

----------------------------------------------------------------------------
(* Snapshot tokens.                                                        *)

\* retired_bytes: pinned memtables that the current version has left, each at its largest.
RetiredUnits(view) ==
    {u \in Range(view.units) : IsMemtable(u) /\ \A c \in Memtables : units[c].unit # u.unit}
RetiredBytes(ps) ==
    LET all == UNION {RetiredUnits(ps[t].view) : t \in DOMAIN ps}
    IN MapThenSumSet(LAMBDA id : Max({Len(u.rows) : u \in {v \in all : v.unit = id}}), {u.unit : u \in all})

Unexpired(ps) == {t \in DOMAIN ps : ps[t].expires > now}

\* TokenRegistry::pin, which first drops the expired pins.
CanPin ==
    /\ RetiredBytes(pins) <= MemoryLimit /\ Cardinality(Unexpired(pins)) < MaxPins
    /\ issued < MaxTokens
WithPin(view, record) ==
    (issued + 1) :> [view |-> view, truth |-> record, expires |-> now + Ttl] @@ Restrict(pins, Unexpired(pins))
\* resolve: the pin lives for another ttl; an expired one is removed.
Resolved(t) == t \in Unexpired(pins)
Extended(t) == IF Resolved(t) THEN [pins EXCEPT ![t].expires = now + Ttl] ELSE Restrict(pins, DOMAIN pins \ {t})

\* pin_snapshot and release_snapshot, for a client that keeps the token.
PinSnapshot ==
    /\ Untouched /\ CanPin /\ Late
    /\ pins' = WithPin(CurrentView, truth) /\ issued' = issued + 1 /\ held' = issued + 1
    /\ UNCHANGED <<version, truth, feed, seq, scroll, now, faults>>
ReleaseSnapshot ==
    /\ held # 0 /\ pins' = Restrict(pins, DOMAIN pins \ {held}) /\ held' = 0
    /\ UNCHANGED <<version, truth, feed, seq, issued, scroll, now, faults>>

\* reap_snapshots: the expired, then the oldest that hold retired memory until the rest fits.
RECURSIVE Evicted(_)
Evicted(ps) ==
    LET retired == {t \in DOMAIN ps : RetiredUnits(ps[t].view) # {}}
    IN IF RetiredBytes(ps) <= MemoryLimit \/ retired = {} THEN ps
       ELSE Evicted(Restrict(ps, DOMAIN ps \ {Min(retired)}))
Reap ==
    /\ pins' = Evicted(Restrict(pins, Unexpired(pins))) /\ pins' # pins
    /\ UNCHANGED <<version, truth, feed, seq, issued, held, scroll, now, faults>>

Tick ==
    /\ now < MaxTime /\ pins # <<>> /\ now' = now + 1
    /\ UNCHANGED <<version, truth, feed, seq, tokens, faults>>

----------------------------------------------------------------------------
(* Scrolling.                                                              *)

CompiledWhere(view, where) ==
    IF where = <<>> THEN Ok(<<>>) ELSE Then(Compile(view.schema, where[1]), LAMBDA node : Ok(<<node>>))
ReadPage(view, spec, after) ==
    Then(CompiledWhere(view, spec.where), LAMBDA where : ScrollPage(view, where, spec.order, spec.limit, after))

\* The reference's order: by the value's number, rows without one last, then by key.
WantedKeys(records, spec) ==
    LET matching == {k \in DOMAIN records : \A i \in DOMAIN spec.where : Means(spec.where[i], records[k])}
        by == spec.order.by
        item(k) == IF by = NoField \/ Items(records[k].vals[by]) = {} THEN <<>>
                   ELSE <<(CHOOSE x \in Items(records[k].vals[by]) : TRUE)[2]>>
        less(a, b) == IF item(a) = item(b) THEN a < b
                      ELSE IF <<>> \in {item(a), item(b)} THEN item(b) = <<>>
                      ELSE IF spec.order.ascending THEN item(a)[1] < item(b)[1] ELSE item(b)[1] < item(a)[1]
    IN SetToSortSeq(matching, less)

Keys(page) == [i \in DOMAIN page.rows |-> page.rows[i].pk]

\* scroll with no cursor over the current version: pinned only when there is a second page.
FirstPage(spec) ==
    /\ ~ scroll.on /\ ~ scroll.done /\ held = 0 /\ Late
    /\ \E page \in {ReadPage(CurrentView, spec, Start)} :
         /\ page.ok /\ (page.v.more => CanPin)
         /\ scroll' = [on |-> page.v.more, done |-> ~ page.v.more, token |-> IF page.v.more THEN issued + 1 ELSE 0,
                       owned |-> TRUE, spec |-> spec, after |-> page.v.next, got |-> Keys(page.v),
                       want |-> WantedKeys(truth, spec)]
         /\ IF page.v.more THEN pins' = WithPin(CurrentView, truth) /\ issued' = issued + 1
            ELSE UNCHANGED <<pins, issued>>
    /\ UNCHANGED <<version, truth, feed, seq, held, now, faults>>

\* scroll with no cursor over the token the client holds.
FirstPageOf(spec) ==
    /\ ~ scroll.on /\ ~ scroll.done /\ held \in DOMAIN pins /\ Resolved(held)
    /\ \E page \in {ReadPage(pins[held].view, spec, Start)} :
         /\ page.ok
         /\ scroll' = [on |-> page.v.more, done |-> ~ page.v.more, token |-> held, owned |-> FALSE, spec |-> spec,
                       after |-> page.v.next, got |-> Keys(page.v), want |-> WantedKeys(pins[held].truth, spec)]
    /\ pins' = Extended(held)
    /\ UNCHANGED <<version, truth, feed, seq, issued, held, now, faults>>

\* The last page of a scroll over its own pin releases it.
ReleasesAnyToken(t, owned, more) == IF more THEN Extended(t) ELSE Restrict(pins, DOMAIN pins \ {t})
PinsAfterPage(t, owned, more) == IF ~ more /\ owned THEN Restrict(pins, DOMAIN pins \ {t}) ELSE Extended(t)

\* scroll with the cursor of the last page.
NextPage ==
    /\ scroll.on
    /\ IF Resolved(scroll.token)
       THEN \E page \in {ReadPage(pins[scroll.token].view, scroll.spec, scroll.after)} :
              /\ page.ok
              /\ scroll' = [scroll EXCEPT !.on = page.v.more, !.done = ~ page.v.more,
                                          !.after = page.v.next, !.got = @ \o Keys(page.v)]
              /\ pins' = PinsAfterPage(scroll.token, scroll.owned, page.v.more)
       ELSE scroll' = [scroll EXCEPT !.on = FALSE] /\ pins' = Extended(scroll.token)
    /\ UNCHANGED <<version, truth, feed, seq, issued, held, now, faults>>

Next ==
    /\ ~ Over
    /\ \/ Put \/ Update \/ Delete \/ AlterSchema
       \/ Freeze \/ Flush \/ Compact
       \/ \E i \in DOMAIN units, seen \in SeenCommits : BuildGraph(i, seen)
       \/ \E i \in Segments : \E region \in Regions(units[i].file) \cup {Section("graph", NoField)} : Garble(i, region)
       \/ PinSnapshot \/ ReleaseSnapshot \/ Reap \/ Tick
       \/ \E spec \in Scrolls : FirstPage(spec) \/ FirstPageOf(spec)
       \/ NextPage

Spec == Init /\ [][Next]_vars

----------------------------------------------------------------------------
(* Properties.                                                             *)

Damaged == \E i \in Segments : units[i].file.bad \cup units[i].side.bad # {}

\* A record by field id as its client sees it, by name.
Named(s, record) == [record EXCEPT !.vals = [n \in DOMAIN s.names |-> record.vals[s.names[n]]]]

\* A read answers rightly, and fails only when something it needs is damaged.
Answers(result, Right(_)) == IF result.ok THEN Right(result.v) ELSE Damaged

\* Whatever mix of memtables, segments, indexes, schema versions and deletions holds the rows, a
\* get returns the record the client last wrote as its schema now reads it (read.rs get), and a
\* filter selects exactly the records it is true of (compile.rs): through an index, a column, a
\* dynamic block or a zone, with bounds at the ends of the integers, and for names that were
\* added, dropped, renamed or used dynamically before.  A damaged region is an error, never a
\* wrong answer.
ReadsAgree ==
    Untouched =>
      /\ \A k \in {op.record.pk : op \in {o \in UNION {Range(f) : f \in Feeds} : o.op = "put"}} :
           Answers(GetRecord(CurrentView, k),
                   LAMBDA got : IF k \in DOMAIN truth THEN got # <<>> /\ Named(schema, got) = truth[k] ELSE got = <<>>)
      /\ \A e \in Filters :
           LET compiled == Compile(schema, e)
               right(rows) ==
                 /\ {k \in DOMAIN truth : Means(e, truth[k])} =
                      UNION {{IF IsMemtable(units[i]) THEN units[i].rows[r + 1].pk
                              ELSE units[i].file.sections[Section("pk_column", NoField)][r + 1] : r \in rows[i]} : i \in DOMAIN units}
           IN compiled.ok => Answers(ResolveView(CurrentView, compiled.v), right)

\* However the cost model plans each segment, and however a parallel build interleaved, a search
\* returns live matching records once each, as they are now, nearest first and by key among equals
\* (search.rs).  Without a graph walk it returns k of them if there are k; each is then as near as
\* the one a full comparison puts in its place, up to one step of the coarse codes, and it is that
\* very one when no segment has more candidates than the rerank budget.
SearchAgrees ==
    Untouched =>
      \A q \in Queries : \A plan \in {[i \in Segments |-> p] : p \in Plans} :
        LET where == CompiledWhere(CurrentView, q.where)
            ctx == Context(schema, q.vector, q.k, where.v)
            matching == Restrict(truth, {k \in DOMAIN truth : \A i \in DOMAIN q.where : Means(q.where[i], truth[k])})
            nearest == NearestK(matching, q.vector, q.k)
            coarse == {i \in Segments : HasVectorIndex(units[i], FALSE)}
            crowded == {i \in coarse : Cardinality({k \in DOMAIN matching : \E at \in LiveAt(k) : at[1] = i}) > ctx.budget}
            spread(i) == LET p == units[i].file.sections[Section("sq8", NoField)].params IN p.high - p.low
            rank(k) == Rank(q.vector, truth[k].vec[1])
            right(hits) ==
              LET keys == [i \in DOMAIN hits |-> hits[i].record.pk]
              IN /\ IsInjective(keys) /\ Range(keys) \subseteq DOMAIN matching
                 /\ \A i \in DOMAIN hits : Named(schema, hits[i].record) = truth[keys[i]] /\ hits[i].rank = rank(keys[i])
                 /\ \A i \in 2..Len(hits) :
                      \/ hits[i - 1].rank < hits[i].rank
                      \/ hits[i - 1].rank = hits[i].rank /\ keys[i - 1] < keys[i]
                 /\ (\A i \in crowded : plan[i].choice = "exact") =>
                      /\ Len(keys) = Len(nearest)
                      /\ \A i \in DOMAIN keys : Levels * (rank(keys[i]) - rank(nearest[i])) <= Max({0} \cup {spread(j) : j \in crowded})
                 /\ crowded = {} => keys = nearest
        IN where.ok => Answers(SearchView(CurrentView, ctx, plan), right)

\* A scroll returns the records its snapshot held, each once and in order, whatever is written,
\* merged, evicted or released between its pages (ops.rs): what it has returned so far is a prefix
\* of them, and all of them once it reports no more.
ScrollOnce ==
    (scroll.on \/ scroll.done) =>
      /\ IsPrefix(scroll.got, scroll.want)
      /\ scroll.done => scroll.got = scroll.want

\* A pin that has not expired goes only by the hand of whoever made it, when its client releases
\* it or its own scroll returns the last page, or when pins hold more retired memory than allowed
\* and this one is among those that hold it (tokens.rs, engine.rs reap_snapshots); and a scroll
\* that returned its last page has left no pin of its own behind.
PinsOwned ==
    [][/\ \A t \in Unexpired(pins) \ DOMAIN pins' :
            \/ t = held /\ held' = 0
            \/ scroll.on /\ scroll.owned /\ t = scroll.token /\ scroll'.done
            \/ RetiredBytes(pins) > MemoryLimit /\ RetiredUnits(pins[t].view) # {}
       /\ scroll'.done /\ scroll'.owned => scroll'.token \notin DOMAIN pins'
       /\ Cardinality(Unexpired(pins)') <= MaxPins]_vars

\* What the builder writes, the reader opens and verify accepts (builder.rs, reader.rs); what the
\* medium has garbled, in whatever region, one of the two refuses.
Scrubbed ==
    \A i \in Segments : \A file \in {units[i].file} \cup (IF units[i].side.ok THEN {units[i].side} ELSE {}) :
      file.ok /\ ((file.bad = {}) <=> (Opens(file) /\ Verifies(file)))
=============================================================================
