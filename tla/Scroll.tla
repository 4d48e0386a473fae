------------------------------- MODULE Scroll -------------------------------
(***************************************************************************)
(* Reading a view in order, a page at a time (logpose-query/src/ops.rs).   *)
(* A page takes limit + 1 entries, so that it knows whether there is more, *)
(* and the cursor it returns holds the last entry's place.  An order is    *)
(* [by, ascending]: by a field, or NoField for the primary key.            *)
(***************************************************************************)
EXTENDS Search

PkOrderScroll == [by |-> NoField, ascending |-> TRUE]

\* Entry: the key of the ordering field, or NoKey.
Entry(key, pk, unit, row) == [key |-> key, pk |-> pk, unit |-> unit, row |-> row]

\* compare_ordered, compare_entries and Ord for Ordered: nulls come last either way.
Precedes(order, a, b) ==
    IF order.by = NoField \/ a.key = b.key THEN a.pk < b.pk
    ELSE IF NoKey \in {a.key, b.key} THEN b.key = NoKey
    ELSE IF order.ascending THEN KeyLess(a.key, b.key) ELSE KeyLess(b.key, a.key)
Sorted(order, entries) ==
    SetToSortSeq(entries, LAMBDA a, b : \/ Precedes(order, a, b)
                                        \/ a.key = b.key /\ a.pk = b.pk /\ (a.unit < b.unit \/ (a.unit = b.unit /\ a.row < b.row)))

\* A place in a scroll: [at, key, pk], `at` FALSE before the first page.
Start == [at |-> FALSE, key |-> NoKey, pk |-> 0]
After(order, after, entry) == after.at => Precedes(order, [key |-> after.key, pk |-> after.pk], entry)

\* key_value and put_value, then Reader::value and order_key: the key a cursor brings back.
CursorKey(key) ==
    IF key = NoKey THEN NoKey
    ELSE CHOOSE k \in IndexKeys(CASE key.k = "int" -> Int64(key.n) [] key.k = "float" -> Float64(key.n)
                                  [] key.k = "str" -> Str(key.n) [] key.k = "bool" -> Bool(key.n)) : TRUE

\* order_field: arrays, JSON and the primary key cannot be ordered by; an order then names a field id.
Orderable(schema, order) ==
    order.by = NoField \/ (order.by \in DOMAIN schema.names /\ schema.fields[schema.names[order.by]] \notin {"array", "json"})
OrderField(schema, order) == IF order.by = NoField THEN order ELSE [order EXCEPT !.by = schema.names[@]]

----------------------------------------------------------------------------
(* One unit.                                                               *)

ScrollNeeds(where, order, u) ==
    IF IsMemtable(u) THEN {}
    ELSE {NeedPk} \cup UNION {FilterNeeds(node, u) : node \in Range(where)}
           \cup (IF order.by = NoField THEN {}
                 ELSE {Need(IF HasScalarIndex(u, order.by, TRUE) THEN "index" ELSE "column", order.by, {})})

\* unit_by_key.
UnitByKey(u, pins, allowed, after, limit) ==
    LET entry(row) == Entry(NoKey, Pks(u, pins).v[row + 1], u.unit, row)
        entries(rows) == [i \in DOMAIN rows |-> entry(rows[i])]
    IN Then(KeysAfter(u, IF after.at THEN after.pk ELSE -1, pins), LAMBDA walked :
            Ok(entries(Prefix(SelectSeq(walked, LAMBDA row : row \in allowed), limit))))

\* group_after: the rows of a group past a key, in key order.
GroupFromCursor(keys, u, key, group, after, limit) ==
    LET entries == {Entry(key, keys[row + 1], u.unit, row) : row \in group}
    IN Prefix(Sorted(PkOrderScroll, {e \in entries : after.at => after.pk <= e.pk}), limit)
GroupAfter(keys, u, key, group, after, limit) ==
    LET entries == {Entry(key, keys[row + 1], u.unit, row) : row \in group}
    IN Prefix(Sorted(PkOrderScroll, {e \in entries : after.at => after.pk < e.pk}), limit)

\* The column heap of unit_by_field.
ColumnHeap(u, order, keys, column, allowed, after, limit) ==
    LET key(row) == IF IndexKeys(column[row]) = {} THEN NoKey ELSE CHOOSE k \in IndexKeys(column[row]) : TRUE
        entries == {Entry(key(row), keys[row + 1], u.unit, row) : row \in allowed}
    IN Prefix(Sorted(order, {e \in entries : After(order, after, e)}), limit)

\* The groups of an index walk after `out`, up to the limit.
WalkGroups(u, keys, walk, allowed, out, limit) ==
    LET groups == FoldLeft(LAMBDA seen, p : IF p[1] \in Range(seen) THEN seen ELSE Append(seen, p[1]), <<>>, walk)
        rows(key) == {p[2] : p \in {q \in Range(walk) : q[1] = key}}
    IN FoldLeft(LAMBDA got, key : got \o GroupAfter(keys, u, key, rows(key) \cap allowed, Start, limit - Len(got)),
                out, groups)

\* The index walk of unit_by_field: what is left of the cursor's group, the groups that follow
\* it, then the rows without a value.
IndexWalk(u, order, keys, ref, allowed, after, limit) ==
    LET inNulls == after.at /\ after.key = NoKey
        resumed == after.at /\ after.key # NoKey
        tail == IF resumed THEN GroupAfter(keys, u, after.key, Equals(ref, after.key) \cap allowed, after, limit) ELSE <<>>
        walk == Ordered(ref, IF resumed THEN Excluded(after.key) ELSE Unbounded, order.ascending)
        values == IF inNulls THEN <<>> ELSE WalkGroups(u, keys, walk, allowed, tail, limit)
        withNulls(got) == got \o GroupAfter(keys, u, NoKey, NullsOf(ref) \cap allowed, IF inNulls THEN after ELSE Start,
                                            Max({0, limit - Len(got)}))
    IN Prefix(withNulls(values), limit)

\* unit_by_field.
UnitByField(u, order, pins, allowed, after, limit) ==
    LET byColumn(keys) == Then(ColumnOf(u, order.by, pins), LAMBDA column :
                               Ok(ColumnHeap(u, order, keys, column, allowed, after, limit)))
    IN Then(Pks(u, pins), LAMBDA keys :
       Then(ScalarIndexOf(u, order.by, TRUE, pins), LAMBDA ref :
            IF ref.kind = "absent" THEN byColumn(keys)
            ELSE Ok(IndexWalk(u, order, keys, ref, allowed, after, limit))))

----------------------------------------------------------------------------
(* One page.                                                               *)

\* The sorted entries of one unit: its fetch, the filter, and the walk of the order.
UnitEntries(u, where, order, limit, after) ==
    Then(Fetch(u, ScrollNeeds(where, order, u)), LAMBDA pins :
    Then(AllowedRows(where, u, pins), LAMBDA allowed :
         IF order.by = NoField THEN UnitByKey(u, pins, allowed, after, limit)
         ELSE UnitByField(u, order, pins, allowed, after, limit)))

\* scroll_entries with merge_entries.
ScrollEntries(view, where, named, limit, after) ==
    LET order == OrderField(view.schema, named)
        units == {i \in DOMAIN view.units : \A node \in Range(where) : MayMatch(node, view.units[i], view.schema)}
    IN IF ~ Orderable(view.schema, named) THEN Refused
       ELSE Then(Collect([i \in units |-> UnitEntries(view.units[i], where, order, limit, after)]), LAMBDA lists :
                 Ok(Prefix(Sorted(order, UNION {Range(lists[i]) : i \in units}), limit)))

\* scroll_page: the rows, whether there is more, and the place of the last row.
ScrollPage(view, where, order, limit, after) ==
    LET at(unit) == CHOOSE i \in DOMAIN view.units : view.units[i].unit = unit
        row(entry) == Project(view.schema, view.units[at(entry.unit)], entry.row)
        place(entry) == [at |-> TRUE, key |-> CursorKey(entry.key), pk |-> entry.pk]
        next(page) == IF page = <<>> THEN Start ELSE place(page[Len(page)])
    IN Then(ScrollEntries(view, where, order, limit + 1, after), LAMBDA entries :
       Then(Collect([i \in DOMAIN Prefix(entries, limit) |-> row(entries[i])]), LAMBDA rows :
            Ok([rows |-> rows, more |-> Len(entries) > limit, next |-> next(Prefix(entries, limit))])))

\* resolve_view, which count_view and delete-by-filter sum or delete: [i] the rows of unit i.
ResolveView(view, node) ==
    Collect([i \in DOMAIN view.units |-> FilterRows(node, view.schema, view.units[i])])
=============================================================================
