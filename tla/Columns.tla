------------------------------ MODULE Columns -------------------------------
(***************************************************************************)
(* The columns of a segment (segment_v2/column.rs, pk.rs, dynamic.rs,      *)
(* vector.rs, stats.rs): each is encoded from the rows of a build, stored, *)
(* and decoded with checks when it is read.  A stored column keeps values  *)
(* for every row, a placeholder for null ones, and the set of null rows.   *)
(* A decoded part is [ok, v]: what a decoder returns, or a refusal.        *)
(***************************************************************************)
EXTENDS ScalarIndex, Folds

CONSTANTS
    BlockRows,      \* DYNAMIC_BLOCK_ROWS
    PageRows,       \* page_rows_for(dim)
    HashSlots       \* fingerprints the key filter can tell apart

ASSUME ColumnAssumption == BlockRows \in Nat \ {0} /\ PageRows \in Nat \ {0} /\ HashSlots \in Nat \ {0}

Ok(v) == [ok |-> TRUE, v |-> v]
Corrupt == [ok |-> FALSE, v |-> <<>>]
Checked(valid, v) == IF valid THEN Ok(v) ELSE Corrupt

\* The ? operator: go on with the value of a result, or pass its refusal on.
Then(result, Do(_)) == IF result.ok THEN Do(result.v) ELSE result

\* collect: all the values, or a refusal when one is refused.
AllOk(results) == \A i \in DOMAIN results : results[i].ok
Collect(results) == IF AllOk(results) THEN Ok([i \in DOMAIN results |-> results[i].v]) ELSE Corrupt

RowsOf(s) == 0..(Len(s) - 1)
DivCeil(a, b) == (a + b - 1) \div b

----------------------------------------------------------------------------
(* Scalar columns.                                                         *)

\* ColumnBuf::push_null and set_last: a null or a JSON null leaves the row null.
BufNulls(values) == {row \in RowsOf(values) : IsNull(values[row + 1])}

\* The number of a present value, 0 where the row is null.
Payload(value) == IF IsNull(value) \/ value.v = <<>> THEN 0 ELSE value.v[1]

Block(encoding, nulls, rows, data) == [encoding |-> encoding, nulls |-> nulls, rows |-> rows, data |-> data]

EncodeNumbers(encoding, nulls, values) ==
    Block(encoding, nulls, Len(values), [data |-> [i \in DOMAIN values |-> Payload(values[i])]])

EncodeBool(nulls, values) ==
    Block("bool_bitmap", nulls, Len(values),
          [trues |-> {row \in RowsOf(values) \ nulls : Payload(values[row + 1]) = 1}])

\* encode_strings: a dictionary unless more than half of the rows are distinct.
EncodeStrings(nulls, values) ==
    LET distinct == {Payload(values[row + 1]) : row \in RowsOf(values) \ nulls}
        dict == Ascending(distinct)
        code(row) == IF row \in nulls THEN 0 ELSE CHOOSE c \in 0..Len(dict) : dict[c + 1] = Payload(values[row + 1])
    IN IF Cardinality(distinct) * 2 > Len(values)
       THEN EncodeNumbers("string_plain", nulls, values)
       ELSE Block("string_dict", nulls, Len(values),
                  [dict |-> dict, codes |-> [i \in DOMAIN values |-> code(i - 1)]])

\* An array column: where each row's items end, and a child block of all the items.
EncodeArray(nulls, values) ==
    LET items == [i \in DOMAIN values |-> IF (i - 1) \in nulls THEN <<>> ELSE values[i].v]
    IN Block("array", nulls, Len(values),
             [offsets |-> [i \in 1..(Len(values) + 1) |-> Len(FlattenSeq(SubSeq(items, 1, i - 1)))],
              child |-> FlattenSeq(items)])

\* ColumnBuf::encode, by the field's type.
EncodeColumn(type, values) ==
    LET nulls == BufNulls(values)
    IN CASE type = "int64"   -> EncodeNumbers("int64_plain", nulls, values)
         [] type = "float64" -> EncodeNumbers("float64_plain", nulls, values)
         [] type = "bool"    -> EncodeBool(nulls, values)
         [] type = "string"  -> EncodeStrings(nulls, values)
         [] type = "array"   -> EncodeArray(nulls, values)
         [] type = "json"    -> Block("json_value", nulls, Len(values),
                                      [data |-> [i \in DOMAIN values |->
                                                   IF (i - 1) \in nulls THEN Absent ELSE values[i]]])

\* ColumnEncoding::fits.
Fits(type) ==
    [int64 |-> {"int64_plain"}, float64 |-> {"float64_plain"}, bool |-> {"bool_bitmap"},
     string |-> {"string_plain", "string_dict"}, array |-> {"array"}, json |-> {"json_value"}][type]

\* decode_block and check_null_ranges: what the decoder checks of each encoding.
BlockValid(type, rows, block) ==
    /\ block.encoding \in Fits(type) /\ block.rows = rows
    /\ block.nulls \subseteq 0..(rows - 1)
    /\ CASE block.encoding \in {"int64_plain", "float64_plain", "string_plain"} ->
              /\ Len(block.data.data) = rows
              /\ \A row \in block.nulls : block.data.data[row + 1] = 0
         [] block.encoding = "bool_bitmap" ->
              block.data.trues \subseteq (0..(rows - 1)) \ block.nulls
         [] block.encoding = "string_dict" ->
              /\ StrictlyAscending(block.data.dict, <)
              /\ \A row \in 0..(rows - 1) : IF row \in block.nulls THEN block.data.codes[row + 1] = 0
                                            ELSE block.data.codes[row + 1] < Len(block.data.dict)
         [] block.encoding = "array" ->
              /\ block.data.offsets[1] = 0 /\ Last(block.data.offsets) = Len(block.data.child)
              /\ \A i \in 1..rows : block.data.offsets[i] <= block.data.offsets[i + 1]
              /\ \A row \in block.nulls : block.data.offsets[row + 1] = block.data.offsets[row + 2]
         [] block.encoding = "json_value" ->
              \A row \in block.nulls : block.data.data[row + 1] = Absent

\* ScalarColumn::decode.
DecodeColumn(type, rows, block) == Checked(BlockValid(type, rows, block), block @@ [type |-> type])

\* ScalarColumn::value and element_value.
ColumnValue(column, row) ==
    CASE row \in column.nulls -> Null
      [] row \notin column.nulls /\ column.encoding = "string_dict" ->
           Str(column.data.dict[column.data.codes[row + 1] + 1])
      [] row \notin column.nulls /\ column.encoding = "bool_bitmap" ->
           Bool(IF row \in column.data.trues THEN 1 ELSE 0)
      [] row \notin column.nulls /\ column.encoding = "array" ->
           Arr(Slice(column.data.child, column.data.offsets[row + 1], column.data.offsets[row + 2]))
      [] row \notin column.nulls /\ column.encoding = "json_value" -> column.data.data[row + 1]
      [] OTHER -> Val(column.type, <<column.data.data[row + 1]>>)

----------------------------------------------------------------------------
(* Statistics and the zones made of them.                                  *)

\* column_stats: nulls, and the least and greatest key, of items for an array; none for JSON.
ColumnStats(values) ==
    LET keys == UNION {IndexKeys(v) : v \in Range(values)}
        sorted == SetToSortSeq(keys, KeyLess)
    IN [nulls |-> Cardinality(BufNulls(values)),
        min |-> IF keys = {} THEN NoKey ELSE Head(sorted),
        max |-> IF keys = {} THEN NoKey ELSE Last(sorted)]

\* compute: the stats section.
Stats(rows, fields) ==
    LET seqs == {rows[i].seq : i \in DOMAIN rows}
    IN [rows |-> Len(rows), minSeq |-> IF seqs = {} THEN 0 ELSE Min(seqs), maxSeq |-> IF seqs = {} THEN 0 ELSE Max(seqs),
        dynamic |-> Cardinality({i \in DOMAIN rows : rows[i].extra # <<>>}),
        fields |-> [f \in fields |-> ColumnStats([i \in DOMAIN rows |-> rows[i].vals[f]])]]

----------------------------------------------------------------------------
(* Primary keys.                                                           *)

\* encode_pk_sections: rows in key order; a repeated key fails the build.
PkOrder(keys) == SortSeq([i \in DOMAIN keys |-> i - 1], LAMBDA a, b : keys[a + 1] < keys[b + 1])
PkUnique(keys) == IsInjective(keys)

\* canonical_pk_hash and PkFilter::build: no key of the column is refused, others may pass.
PkHash(key) == key % HashSlots
BuildPkFilter(keys) == [count |-> Len(keys), hashes |-> {PkHash(k) : k \in Range(keys)}]
MayContain(filter, key) == filter.count # 0 /\ PkHash(key) \in filter.hashes

\* PkSorted::decode and check_against.
PkSortedValid(order, keys) ==
    /\ Len(order) = Len(keys)
    /\ Range(order) = RowsOf(keys)
    /\ StrictlyAscending([i \in DOMAIN order |-> keys[order[i] + 1]], <)
PkFilterValid(filter, keys) == \A k \in Range(keys) : MayContain(filter, k)

\* PkSorted::find, and ascending_after: the rows whose key follows `after`.
PkFind(order, keys, key) == {row \in Range(order) : keys[row + 1] = key}
PkAfter(order, keys, after) == SelectSeq(order, LAMBDA row : after < keys[row + 1])

----------------------------------------------------------------------------
(* Dynamic values, in blocks of rows.  An object is a function of its keys; *)
(* the empty one stands for a row without dynamic values.                  *)

BlockOf(row) == row \div BlockRows
BlockRange(block, count) == (block * BlockRows)..(Min({(block + 1) * BlockRows, count}) - 1)

EncodeDynamic(objects) ==
    [rows |-> Len(objects), blocks |-> DivCeil(Len(objects), BlockRows), objects |-> objects]

\* DynamicIndex::decode_verified.
DynamicValid(section, rows) == section.rows = rows /\ section.blocks = DivCeil(rows, BlockRows)

\* may_have_key and member.
MayHaveKey(section, block, key) ==
    \E row \in BlockRange(block, section.rows) : key \in DOMAIN section.objects[row + 1]
Member(object, key) == IF key \in DOMAIN object THEN object[key] ELSE Absent

----------------------------------------------------------------------------
(* Vectors, in pages of rows; <<>> is a null vector.                       *)

\* VectorBuf and encode_prefix: zeros where the row is null, a checksum per page.
EncodeVectors(vectors) ==
    [rows |-> Len(vectors), nulls |-> {row \in RowsOf(vectors) : vectors[row + 1] = <<>>},
     pages |-> DivCeil(Len(vectors), PageRows),
     data |-> [i \in DOMAIN vectors |-> IF vectors[i] = <<>> THEN 0 ELSE vectors[i][1]]]

\* VectorPrefix::decode_verified and check_data.
PrefixValid(section, rows) ==
    /\ section.rows = rows /\ section.pages = DivCeil(rows, PageRows)
    /\ section.nulls \subseteq 0..(rows - 1)
VectorDataValid(section) == \A row \in section.nulls : section.data[row + 1] = 0

PageOf(row) == row \div PageRows
=============================================================================
