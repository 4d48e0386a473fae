------------------------------ MODULE ReadView ------------------------------
(***************************************************************************)
(* What a read sees (logpose-storage/src/read.rs): the units of one        *)
(* version, segments then memtables, each oldest first, with the rows      *)
(* deleted from each.  A query first fetches the regions it will need      *)
(* (stage one: sections; stage two: the pages those name), then computes   *)
(* over what it pinned and nothing else: `pins` is a set of regions, and   *)
(* an accessor of a region outside it fails as "not fetched".              *)
(*                                                                         *)
(* A segment is [kind, unit, file, side, zones, deleted], `side` being its *)
(* graph sidecar or NoSidecar; a memtable is [kind, unit, rows, index,     *)
(* deleted], where index maps <<field, flavor>> to a memtable index.       *)
(***************************************************************************)
EXTENDS SegmentFile

NoSidecar == [ok |-> FALSE, bad |-> {}]

IsMemtable(u) == u.kind = "memtable"
RowCount(u) == IF IsMemtable(u) THEN Len(u.rows) ELSE u.file.header.rows
Live(u) == (0..(RowCount(u) - 1)) \ u.deleted

Flavor(sorted) == IF sorted THEN "sorted" ELSE "inverted"

HasScalarIndex(u, f, sorted) ==
    IF IsMemtable(u) THEN <<f, Flavor(sorted)>> \in DOMAIN u.index
    ELSE HasSection(u.file, Flavor(sorted), f)
HasVectorIndex(u, graph) ==
    /\ ~ IsMemtable(u)
    /\ IF graph THEN u.side.ok ELSE HasSection(u.file, "sq8", NoField)
HasDynamic(u) == IsMemtable(u) \/ HasSection(u.file, "dynamic", NoField)

\* zone: [min, max, nulls] as the manifest keeps them, for a field the segment was built with.
HasZone(u, f) == ~ IsMemtable(u) /\ f \in DOMAIN u.zones

----------------------------------------------------------------------------
(* Fetching.                                                               *)

Need(what, f, rows) == [what |-> what, field |-> f, rows |-> rows]
NeedPk == Need("pk", NoField, {})

Sections(u, kinds, f) == {Section(k, f) : k \in {kind \in kinds : HasSection(u.file, kind, f)}}

StageOne(u, need) ==
    CASE need.what = "pk"      -> Sections(u, {"pk_column", "pk_sorted", "pk_filter"}, NoField)
      [] need.what = "index"   -> Sections(u, {"inverted", "sorted"}, need.field)
      [] need.what = "column"  -> Sections(u, {"column"}, need.field)
      [] need.what = "vectors" -> Sections(u, {"vector"}, NoField)
      [] need.what = "dynamic" -> Sections(u, {"dynamic"}, NoField)
      [] need.what = "vector_index" ->
           Sections(u, {"sq8"}, NoField) \cup (IF u.side.ok THEN {Section("graph", NoField)} ELSE {})

StageTwo(u, need) ==
    CASE need.what = "vectors" -> {Page("vector", PageOf(row)) : row \in need.rows}
      [] need.what = "dynamic" /\ HasDynamic(u) -> {Page("dynamic", BlockOf(row)) : row \in need.rows}
      [] OTHER -> {}

\* fetch: every region of the plan, or the error of the first that does not load.
NeededRegions(u, needs) ==
    IF IsMemtable(u) THEN {} ELSE UNION {StageOne(u, need) \cup StageTwo(u, need) : need \in needs}
Fetch(u, needs) ==
    LET regions == NeededRegions(u, needs)
    IN IF IsMemtable(u) THEN Ok({}) ELSE Checked(regions \cap (u.file.bad \cup u.side.bad) = {}, regions)

\* pinned, pinned_key and not_fetched.
Pinned(pins, section, part) == IF section \in pins THEN part ELSE Corrupt

----------------------------------------------------------------------------
(* Computing over pinned regions.                                          *)

Pks(u, pins) ==
    IF IsMemtable(u) THEN Ok([i \in DOMAIN u.rows |-> u.rows[i].pk])
    ELSE IF {Section(k, NoField) : k \in {"pk_column", "pk_sorted", "pk_filter"}} \subseteq pins
            /\ PkSorted(u.file).ok /\ PkFilter(u.file).ok
         THEN PkColumn(u.file) ELSE Corrupt

\* MemtableData's key map: the newest slot of each key.
NewestSlots(u) ==
    {row \in RowsOf(u.rows) : \A later \in RowsOf(u.rows) : row < later => u.rows[later + 1].pk # u.rows[row + 1].pk}

\* PkRef::find.
FindIn(u, key, pins) ==
    IF IsMemtable(u) THEN Ok({row \in NewestSlots(u) : u.rows[row + 1].pk = key})
    ELSE IF Pks(u, pins).ok THEN FindRow(u.file, key) ELSE Corrupt

\* PkRef::ascending_after and MemtableData::keys_after: the rows whose key follows `after`, in key order.
KeysAfter(u, after, pins) ==
    LET newest(keys) == {row \in NewestSlots(u) : after < keys[row + 1]}
    IN Then(Pks(u, pins), LAMBDA keys :
            Ok(IF IsMemtable(u) THEN SetToSortSeq(newest(keys), LAMBDA a, b : keys[a + 1] < keys[b + 1])
               ELSE PkAfter(PkSorted(u.file).v, keys, after)))

\* UnitView::scalar_index; the index a caller finds absent is NoIndex.
NoIndex == Ok([kind |-> "absent"])
ScalarIndexOf(u, f, sorted, pins) ==
    IF ~ HasScalarIndex(u, f, sorted) THEN NoIndex
    ELSE IF IsMemtable(u) THEN Ok([kind |-> "memtable", index |-> u.index[<<f, Flavor(sorted)>>]])
    ELSE Pinned(pins, Section(Flavor(sorted), f),
                Then(IF sorted THEN ReadSorted(u.file, f) ELSE ReadInverted(u.file, f),
                     LAMBDA index : Ok([kind |-> Flavor(sorted), index |-> index])))

\* ScalarIndexRef::equals, range, nulls, exists and ordered.
Equals(ref, key) ==
    CASE ref.kind = "memtable" -> MemEquals(ref.index, key)
      [] ref.kind = "sorted"   -> SortedEquals(ref.index, key)
      [] ref.kind = "inverted" -> InvertedEquals(ref.index, key)
RangeOf(ref, low, high) ==
    CASE ref.kind = "memtable" -> MemRange(ref.index, low, high)
      [] ref.kind = "sorted"   -> SortedRange(ref.index, low, high)
      [] ref.kind = "inverted" -> {}
\* BTreeMap::range panics on crossed bounds; the memtable's index calls it unguarded.
RangePanics(ref, low, high) ==
    /\ ref.kind = "memtable" /\ low.b # "unbounded" /\ high.b # "unbounded"
    /\ \/ KeyLess(high.key, low.key)
       \/ low.key = high.key /\ low.b = "excluded" /\ high.b = "excluded"
NullsOf(ref) == IF ref.kind = "memtable" THEN MemNulls(ref.index) ELSE ref.index.nulls
ExistsOf(ref) == IF ref.kind = "memtable" THEN MemValues(ref.index) ELSE ref.index.present
Ordered(ref, start, ascending) ==
    IF ref.kind = "memtable" THEN MemScan(ref.index, start, ascending)
    ELSE SortedScan(ref.index, IF ascending THEN start ELSE Unbounded,
                    IF ascending THEN Unbounded ELSE start, ascending)

\* UnitView::column and ColumnRef::value: rows of a unit built before the field have no value.
ColumnOf(u, f, pins) ==
    LET all == 0..(RowCount(u) - 1)
    IN IF IsMemtable(u)
       THEN Ok([row \in all |-> IF f \in DOMAIN u.rows[row + 1].vals THEN u.rows[row + 1].vals[f] ELSE Null])
       ELSE IF ~ HasSection(u.file, "column", f) THEN Ok([row \in all |-> Null])
       ELSE Pinned(pins, Section("column", f),
                   Then(ReadColumn(u.file, f), LAMBDA column : Ok([row \in all |-> ColumnValue(column, row)])))

\* UnitView::dynamic with DynamicRef::object.
DynamicOf(u, row, pins) ==
    IF IsMemtable(u) THEN Ok(u.rows[row + 1].extra)
    ELSE IF ~ HasDynamic(u) THEN Ok(<<>>)
    ELSE IF {Section("dynamic", NoField), Page("dynamic", BlockOf(row))} \subseteq pins
         THEN DynamicObject(u.file, row) ELSE Corrupt

\* block_may_have.
BlockMayHave(u, row, key) ==
    IsMemtable(u) \/ MayHaveKey(u.file.sections[Section("dynamic", NoField)], BlockOf(row), key)

\* UnitView::vector_rows with VectorRowsRef::get.
VectorOf(u, row, pins) ==
    IF IsMemtable(u) THEN Ok(u.rows[row + 1].vec)
    ELSE IF {Section("vector", NoField), Page("vector", PageOf(row))} \subseteq pins
         THEN VectorRow(u.file, row) ELSE Corrupt

\* UnitView::vector_index.
Sq8Of(u, pins) == Pinned(pins, Section("sq8", NoField), ReadSq8(u.file))
GraphOf(u, pins) == Pinned(pins, Section("graph", NoField), ReadGraph(u.side))

----------------------------------------------------------------------------
(* Rows.                                                                   *)

\* projection_needs: all the columns the segment was built with, and the rows' pages.
ProjectionNeeds(u, rows) ==
    IF IsMemtable(u) THEN {}
    ELSE {NeedPk, Need("vectors", NoField, rows), Need("dynamic", NoField, rows)}
           \cup {Need("column", f, {}) : f \in DOMAIN u.file.header.schema.fields}

\* SegmentRows::image and to_record: the row under the version's schema; a dynamic value
\* under a declared name is hidden.
Record(schema, u, row, pins) ==
    Then(Pks(u, pins), LAMBDA keys :
    Then(Collect([f \in DOMAIN schema.fields |-> ColumnOf(u, f, pins)]), LAMBDA columns :
    Then(VectorOf(u, row, pins), LAMBDA vector :
    Then(DynamicOf(u, row, pins), LAMBDA extra :
         Ok([pk |-> keys[row + 1], vec |-> vector, vals |-> [f \in DOMAIN columns |-> columns[f][row]],
             extra |-> VisibleDynamic(schema, extra)])))))

\* project.
Project(schema, u, row) ==
    Then(Fetch(u, ProjectionNeeds(u, {row})), LAMBDA pins : Record(schema, u, row, pins))

\* The live rows of a unit under a key.
FindLive(u, key) ==
    Then(Fetch(u, {NeedPk}), LAMBDA pins :
    Then(FindIn(u, key, pins), LAMBDA rows : Ok(rows \cap Live(u))))
\* The newest unit that has one; <<>> when none has.
NewestWith(found) ==
    LET having == {i \in DOMAIN found : found[i] # {}}
    IN IF having = {} THEN <<>> ELSE <<Max(having), CHOOSE row \in found[Max(having)] : TRUE>>

\* locate: memtables newest first, and only when none has the key, segments newest first, the
\* keys of all of them fetched.
Locate(view, key) ==
    LET memtables == {i \in DOMAIN view.units : IsMemtable(view.units[i])}
        among(members) == Then(Collect([i \in members |-> FindLive(view.units[i], key)]),
                               LAMBDA found : Ok(NewestWith(found)))
    IN Then(among(memtables), LAMBDA at : IF at # <<>> THEN Ok(at) ELSE among(DOMAIN view.units \ memtables))

\* get.
GetRecord(view, key) ==
    Then(Locate(view, key), LAMBDA at :
         IF at = <<>> THEN Ok(<<>>) ELSE Project(view.schema, view.units[at[1]], at[2]))
=============================================================================
