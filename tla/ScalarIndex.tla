---------------------------- MODULE ScalarIndex ----------------------------
(***************************************************************************)
(* The indexes of a scalar field.  A segment stores a sorted index (keys,  *)
(* the offset each key's run starts at, and the rows of all the runs) and  *)
(* an inverted one (one row set per key); a memtable keeps one map of row  *)
(* sets that grows with every insert.  Rows count from 0, as do offsets.   *)
(***************************************************************************)
EXTENDS Schema

\* partition_point over an ascending sequence: how many leading entries pass.
PartitionPoint(s, Passes(_)) == Cardinality({i \in DOMAIN s : Passes(s[i])})
Slice(s, start, end) == SubSeq(s, start + 1, end)
Ascending(rows) == SetToSortSeq(rows, <)

----------------------------------------------------------------------------
(* Building and storing.                                                   *)

\* ScalarIndexBuilder::build_sorted and SortedIndex::from_parts.
BuildSorted(kind, pairs, nulls) ==
    LET keys == SetToSortSeq({p[1] : p \in pairs}, KeyLess)
        run(key) == Ascending({p[2] : p \in {q \in pairs : q[1] = key}})
        runs == [i \in DOMAIN keys |-> run(keys[i])]
    IN [kind |-> kind, keys |-> keys, rows |-> FlattenSeq(runs),
        offsets |-> [i \in 1..(Len(keys) + 1) |-> Len(FlattenSeq(SubSeq(runs, 1, i - 1)))],
        nulls |-> nulls, present |-> {p[2] : p \in pairs}]

\* InvertedIndex::from_sorted.
FromSorted(sorted) ==
    [kind |-> sorted.kind, keys |-> sorted.keys, nulls |-> sorted.nulls, present |-> sorted.present,
     bitmaps |-> [i \in DOMAIN sorted.keys |->
                    Range(Slice(sorted.rows, sorted.offsets[i], sorted.offsets[i + 1]))]]

\* scalar_builder: what one column gives to its index; an empty array counts as null.
ColumnPairs(values) ==
    UNION {{<<key, row>> : key \in IndexKeys(values[row + 1])} : row \in 0..(Len(values) - 1)}
ColumnNulls(values) == {row \in 0..(Len(values) - 1) : IndexKeys(values[row + 1]) = {}}
IndexColumn(kind, values) == BuildSorted(kind, ColumnPairs(values), ColumnNulls(values))

\* write_to: the stored form; present is not stored.
SealSorted(index) ==
    [type |-> "sorted", kind |-> index.kind, nulls |-> index.nulls, keys |-> index.keys,
     offsets |-> index.offsets, rows |-> index.rows]
SealInverted(index) ==
    [type |-> "inverted", kind |-> index.kind, nulls |-> index.nulls, keys |-> index.keys,
     bitmaps |-> index.bitmaps]

StrictlyAscending(s, Less(_, _)) == \A i \in 1..(Len(s) - 1) : Less(s[i], s[i + 1])

\* from_bytes: the checks on the stored parts, and present rebuilt from them.
OpenSorted(stored) ==
    LET runs == [i \in DOMAIN stored.keys |-> Slice(stored.rows, stored.offsets[i], stored.offsets[i + 1])]
        ok == /\ stored.type = "sorted"
              /\ StrictlyAscending(stored.keys, KeyLess)
              /\ stored.offsets[1] = 0 /\ Last(stored.offsets) = Len(stored.rows)
              /\ StrictlyAscending(stored.offsets, <)
              /\ \A i \in DOMAIN runs : StrictlyAscending(runs[i], <)
              /\ Range(stored.rows) \cap stored.nulls = {}
    IN IF ok THEN [kind |-> stored.kind, keys |-> stored.keys, offsets |-> stored.offsets,
                   rows |-> stored.rows, nulls |-> stored.nulls, present |-> Range(stored.rows)]
       ELSE [kind |-> "corrupt"]

OpenInverted(stored) ==
    LET present == UNION Range(stored.bitmaps)
        ok == /\ stored.type = "inverted"
              /\ StrictlyAscending(stored.keys, KeyLess)
              /\ \A i \in DOMAIN stored.bitmaps : stored.bitmaps[i] # {}
              /\ present \cap stored.nulls = {}
    IN IF ok THEN [kind |-> stored.kind, keys |-> stored.keys, bitmaps |-> stored.bitmaps,
                   nulls |-> stored.nulls, present |-> present]
       ELSE [kind |-> "corrupt"]

----------------------------------------------------------------------------
(* Looking up.                                                             *)

\* KeyColumn::find.
FindKey(index, key) == {i \in DOMAIN index.keys : index.keys[i] = key}

\* KeyColumn::range and typed_range: the keys from start up to end.
KeyRange(index, low, high) ==
    LET start == CASE low.b = "included" -> PartitionPoint(index.keys, LAMBDA k : KeyLess(k, low.key))
                   [] low.b = "excluded" -> PartitionPoint(index.keys, LAMBDA k : KeyLeq(k, low.key))
                   [] low.b = "unbounded" -> 0
        end == CASE high.b = "included" -> PartitionPoint(index.keys, LAMBDA k : KeyLeq(k, high.key))
                 [] high.b = "excluded" -> PartitionPoint(index.keys, LAMBDA k : KeyLess(k, high.key))
                 [] high.b = "unbounded" -> Len(index.keys)
    IN IF BoundsUsable(index.kind, low, high) /\ start < end THEN <<start, end>> ELSE <<0, 0>>

\* positions.
Positions(index, keys) ==
    IF keys[1] = keys[2] THEN <<0, 0>> ELSE <<index.offsets[keys[1] + 1], index.offsets[keys[2] + 1]>>

\* bitmap_for_keys: a range over most of a single-valued index is the complement of the rest.
BitmapForKeys(index, keys) ==
    LET p == Positions(index, keys)
        size == p[2] - p[1]
        single == Cardinality(index.present) = Len(index.rows)
        outside == Range(Slice(index.rows, 0, p[1])) \cup Range(Slice(index.rows, p[2], Len(index.rows)))
    IN IF keys[2] - keys[1] > 1 /\ single /\ size * 2 > Len(index.rows)
       THEN index.present \ outside ELSE Range(Slice(index.rows, p[1], p[2]))

SortedEquals(index, key) == UNION {BitmapForKeys(index, <<i - 1, i>>) : i \in FindKey(index, key)}
SortedRange(index, low, high) == BitmapForKeys(index, KeyRange(index, low, high))
InvertedEquals(index, key) == UNION {index.bitmaps[i] : i \in FindKey(index, key)}

\* OrderedIter: (key, row) pairs in the order of the positions.
ScanPositions(index, p, ascending) ==
    LET keyAt(pos) == index.keys[PartitionPoint(index.offsets, LAMBDA o : o <= pos)]
        pairs == [i \in 1..(p[2] - p[1]) |-> <<keyAt(p[1] + i - 1), index.rows[p[1] + i]>>]
    IN IF ascending THEN pairs ELSE Reverse(pairs)

\* iter_range_ordered.
SortedScan(index, low, high, ascending) ==
    ScanPositions(index, Positions(index, KeyRange(index, low, high)), ascending)

----------------------------------------------------------------------------
(* The memtable's index.                                                   *)

\* MemScalarIndex::new: slots before the first have no value of a field added later.
MemNew(sorted, first) == [sorted |-> sorted, first |-> first, keys |-> << >>, nulls |-> {}]

\* insert.
MemInsert(index, slot, value) ==
    LET keys == IndexKeys(value)
        posting(key) == IF key \in DOMAIN index.keys THEN index.keys[key] ELSE {}
    IN IF keys = {} THEN [index EXCEPT !.nulls = @ \cup {slot}]
       ELSE [index EXCEPT !.keys =
               [key \in DOMAIN index.keys \cup keys |-> posting(key) \cup (IF key \in keys THEN {slot} ELSE {})]]

MemEquals(index, key) == IF key \in DOMAIN index.keys THEN index.keys[key] ELSE {}
MemRange(index, low, high) ==
    UNION {index.keys[k] : k \in {key \in DOMAIN index.keys : Above(low, key) /\ Below(high, key)}}
MemNulls(index) == (0..(index.first - 1)) \cup index.nulls
MemValues(index) == UNION {index.keys[k] : k \in DOMAIN index.keys}

\* ordered: from start on, or from start backwards.
MemScan(index, start, ascending) ==
    LET inside(key) == IF ascending THEN Above(start, key) ELSE Below(start, key)
        keys == SetToSortSeq({key \in DOMAIN index.keys : inside(key)}, KeyLess)
        run(key) == LET rows == Ascending(index.keys[key]) IN [i \in DOMAIN rows |-> <<key, rows[i]>>]
        pairs == FlattenSeq([i \in DOMAIN keys |-> run(keys[i])])
    IN IF ascending THEN pairs ELSE Reverse(pairs)
=============================================================================
