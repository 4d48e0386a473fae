---------------------------- MODULE SegmentFile -----------------------------
(***************************************************************************)
(* A segment file and its index sidecar (segment_v2/builder.rs, format.rs, *)
(* reader.rs, unit.rs, index.rs and segment.rs): a header, the sections,   *)
(* a section table and a footer, each under a checksum.  The file is built *)
(* once from rows; afterwards the medium may garble any region of it.      *)
(*                                                                         *)
(* A row is [pk, seq, vec, vals, extra], vals by field id.  A region's     *)
(* bytes are its checksum, so a garbled region is one named in `bad`:      *)
(* reading it fails the checksum, at the granularity the reader checks:    *)
(* whole sections, vector pages, dynamic blocks.                           *)
(***************************************************************************)
EXTENDS Hnsw

CONSTANTS
    Sq8MinRows,     \* IndexPolicy.sq8_min_rows
    GraphMinNodes   \* min_nodes of build_graph_section

ASSUME IndexPolicy == Sq8MinRows \in Nat /\ GraphMinNodes \in Nat

----------------------------------------------------------------------------
(* Sections.                                                               *)

NoField == "-"
Section(kind, field) == <<kind, field, 0>>
Page(kind, n) == <<kind, NoField, n + 1>>

\* check_kinds: the sections every segment has.
Required == {Section(k, NoField) : k \in {"schema", "row_meta", "pk_column", "pk_sorted", "pk_filter", "stats"}}

Field(rows, f) == [i \in DOMAIN rows |-> rows[i].vals[f]]

\* Sq8Params::from_bounds and encode_into: a vector's place between the bounds, in Levels steps.
Levels == 2
Sq8Params(vectors) == [low |-> Min(vectors), high |-> Max(vectors)]
Sq8Code(params, v) ==
    IF params.high = params.low THEN 0
    ELSE ((v - params.low) * Levels * 2 + (params.high - params.low)) \div (2 * (params.high - params.low))
\* The decoded value, times Levels so that it stays a whole number.
Sq8Decode(params, code) == params.low * Levels + code * (params.high - params.low)

\* sq8_section: codes for the non-null vectors, when there are enough of them.
Sq8Codes(rows) ==
    LET present == {i \in DOMAIN rows : rows[i].vec # <<>>}
        params == Sq8Params({rows[i].vec[1] : i \in present})
    IN IF present = {} \/ Cardinality(present) < Sq8MinRows THEN [rows |-> 0]
       ELSE [rows |-> Len(rows), params |-> params,
             codes |-> [i \in DOMAIN rows |-> IF i \in present THEN Sq8Code(params, rows[i].vec[1]) ELSE 0]]

\* build_index_sections: every index the schema asks for.
IndexSections(schema, rows) ==
    LET indexed(f) == IndexColumn(KindOf[schema.fields[f]], Field(rows, f))
    IN [s \in {Section("sorted", f) : f \in schema.index.sorted} |-> SealSorted(indexed(s[2]))]
         @@ [s \in {Section("inverted", f) : f \in schema.index.inverted} |-> SealInverted(FromSorted(indexed(s[2])))]
         @@ IF Sq8Codes(rows).rows = 0 THEN <<>> ELSE Section("sq8", NoField) :> Sq8Codes(rows)

\* build_graph_section: one node per distinct vector, in the order rows first show it.
GraphNodes(rows) ==
    LET present == {i \in DOMAIN rows : rows[i].vec # <<>>}
        first == {i \in present : \A j \in present : j < i => rows[j].vec # rows[i].vec}
        order == Ascending(first)
    IN [n \in DOMAIN order |-> Ascending({i - 1 : i \in {j \in present : rows[j].vec = rows[order[n]].vec}})]
GraphSection(rows, seen) ==
    LET nodes == GraphNodes(rows)
        identity == nodes = [i \in DOMAIN rows |-> <<i - 1>>]
    IN [rows |-> Len(rows), nodes |-> Len(nodes), identity |-> identity,
        map |-> IF identity THEN <<>> ELSE nodes,
        graph |-> BuildParallel([n \in DOMAIN nodes |-> rows[nodes[n][1] + 1].vec[1]], seen)]
HasGraph(rows) == Len(GraphNodes(rows)) >= Max({GraphMinNodes, 2})

\* NodeMap::rows.
NodeRows(graph, node) == IF graph.identity THEN <<node - 1>> ELSE graph.map[node]

\* SegmentGraph::decode.
GraphValid(graph, rows) ==
    /\ graph.rows = rows /\ HnswValid(graph.graph)
    /\ IF graph.identity THEN graph.nodes = rows /\ graph.map = <<>>
       ELSE /\ Len(graph.map) = graph.nodes
            /\ \A n \in DOMAIN graph.map : graph.map[n] # <<>> /\ StrictlyAscending(graph.map[n], <)
            /\ IsInjective(FlattenSeq(graph.map)) /\ Range(FlattenSeq(graph.map)) \subseteq 0..(rows - 1)

----------------------------------------------------------------------------
(* Building.                                                               *)

\* SegmentBuilder::push_row_image keeps the fields its schema declares, absent ones null.
Declared(schema, row) ==
    [row EXCEPT !.vals = [f \in DOMAIN schema.fields |-> IF f \in DOMAIN row.vals THEN row.vals[f] ELSE Null]]

Header(unit, schema, rows, sidecar) ==
    [unit |-> unit, rows |-> Len(rows), schema |-> schema, sidecar |-> sidecar,
     minSeq |-> Stats(rows, {}).minSeq, maxSeq |-> Stats(rows, {}).maxSeq]

\* SegmentBuilder::finish: the sections of a new segment.
Build(unit, schema, images) ==
    LET rows == [i \in DOMAIN images |-> Declared(schema, images[i])]
        keys == [i \in DOMAIN rows |-> rows[i].pk]
        dynamic == [i \in DOMAIN rows |-> rows[i].extra]
        base == Section("schema", NoField) :> schema
                  @@ Section("row_meta", NoField) :> [i \in DOMAIN rows |-> rows[i].seq]
                  @@ Section("pk_column", NoField) :> keys
                  @@ Section("pk_sorted", NoField) :> PkOrder(keys)
                  @@ Section("pk_filter", NoField) :> BuildPkFilter(keys)
                  @@ Section("stats", NoField) :> Stats(rows, DOMAIN schema.fields)
                  @@ Section("vector", NoField) :> EncodeVectors([i \in DOMAIN rows |-> rows[i].vec])
        columns == [s \in {Section("column", f) : f \in DOMAIN schema.fields} |->
                      EncodeColumn(schema.fields[s[2]], Field(rows, s[2]))]
        extra == IF \A i \in DOMAIN rows : rows[i].extra = <<>> THEN <<>>
                 ELSE Section("dynamic", NoField) :> EncodeDynamic(dynamic)
    IN [ok |-> PkUnique(keys), header |-> Header(unit, schema, rows, FALSE), bad |-> {},
        sections |-> base @@ columns @@ extra @@ IndexSections(schema, rows)]

\* write_index_sidecar: the graph, under the segment's identity and schema snapshot.
BuildSidecar(file, rows, seen) ==
    [ok |-> TRUE, header |-> [file.header EXCEPT !.sidecar = TRUE], bad |-> {},
     sections |-> Section("schema", NoField) :> file.header.schema
                    @@ Section("graph", NoField) :> GraphSection(rows, seen)]

----------------------------------------------------------------------------
(* Reading.                                                                *)

\* What the medium can garble: the fixed parts, a whole section, a page or a block.
Regions(file) ==
    {Section(k, NoField) : k \in {"header", "footer", "table", "padding"}}
      \cup (DOMAIN file.sections \ {Section("vector", NoField), Section("dynamic", NoField)})
      \cup {Section("vector", NoField)} \cup {Page("vector", p) : p \in 0..(DivCeil(file.header.rows, PageRows) - 1)}
      \cup (IF Section("dynamic", NoField) \notin DOMAIN file.sections THEN {}
            ELSE {Section("dynamic", NoField)}
                   \cup {Page("dynamic", b) : b \in 0..(DivCeil(file.header.rows, BlockRows) - 1)})

\* check_layout and check_kinds: the table lists the required sections, each once.
KindsValid(file) ==
    IF file.header.sidecar
    THEN {s[1] : s \in DOMAIN file.sections} \subseteq {"schema", "graph"}
    ELSE Required \subseteq DOMAIN file.sections

\* check_fields: sections of declared fields, with the header's row count.
FieldsValid(file) ==
    \A s \in DOMAIN file.sections : s[2] # NoField => s[2] \in DOMAIN file.header.schema.fields

\* SegmentReader::open: header, footer, table and schema, nothing else.
Opens(file) ==
    /\ file.bad \cap {Section(k, NoField) : k \in {"header", "footer", "table", "schema"}} = {}
    /\ KindsValid(file) /\ FieldsValid(file)
    /\ file.sections[Section("schema", NoField)] = file.header.schema

\* SegmentUnit::load: the bytes of a section, or a checksum error; a whole read of a
\* paged section covers all of its pages.
Loads(file, section) == section \notin file.bad
LoadsFirstPage(file, section) == section \notin file.bad
LoadsWhole(file, section) == \A region \in file.bad : <<region[1], region[2]>> # <<section[1], section[2]>>

Get(file, section, valid(_)) ==
    IF section \notin DOMAIN file.sections \/ ~ Loads(file, section) THEN Corrupt
    ELSE Checked(valid(file.sections[section]), file.sections[section])

\* decode_row_meta, pk_column, pk_sorted, pk_filter, stats.
RowMeta(file) ==
    Get(file, Section("row_meta", NoField),
        LAMBDA seqs : /\ Len(seqs) = file.header.rows /\ 0 \notin Range(seqs)
                      /\ seqs # <<>> => /\ Min(Range(seqs)) = file.header.minSeq
                                        /\ Max(Range(seqs)) = file.header.maxSeq)
PkColumn(file) == Get(file, Section("pk_column", NoField), LAMBDA keys : Len(keys) = file.header.rows)
PkSorted(file) ==
    Get(file, Section("pk_sorted", NoField), LAMBDA order : Range(order) \subseteq 0..(file.header.rows - 1))
PkFilter(file) == Get(file, Section("pk_filter", NoField), LAMBDA filter : TRUE)
ReadStats(file) ==
    Get(file, Section("stats", NoField),
        LAMBDA stats : /\ stats.rows = file.header.rows
                       /\ stats.minSeq = file.header.minSeq /\ stats.maxSeq = file.header.maxSeq)

\* find_row: the filter, then the sorted keys.
FindRow(file, key) ==
    LET sorted == Then(PkSorted(file), LAMBDA order :
                  Then(PkColumn(file), LAMBDA keys : Ok(PkFind(order, keys, key))))
    IN Then(PkFilter(file), LAMBDA filter : IF MayContain(filter, key) THEN sorted ELSE Ok({}))

HasSection(file, kind, field) == Section(kind, field) \in DOMAIN file.sections

\* scalar_column, vector_row, dynamic_block and index_section.
ReadColumn(file, f) ==
    Then(Get(file, Section("column", f), LAMBDA c : TRUE),
         LAMBDA block : DecodeColumn(file.header.schema.fields[f], file.header.rows, block))
VectorPrefix(file) == Get(file, Section("vector", NoField), LAMBDA v : PrefixValid(v, file.header.rows))
VectorRow(file, row) ==
    Then(VectorPrefix(file), LAMBDA prefix :
         IF row \in prefix.nulls THEN Ok(<<>>)
         ELSE Checked(Loads(file, Page("vector", PageOf(row))), <<prefix.data[row + 1]>>))
DynamicIndex(file) == Get(file, Section("dynamic", NoField), LAMBDA d : DynamicValid(d, file.header.rows))
DynamicObject(file, row) ==
    IF ~ HasSection(file, "dynamic", NoField) THEN Ok(<<>>)
    ELSE Then(DynamicIndex(file), LAMBDA index :
              Checked(Loads(file, Page("dynamic", BlockOf(row))), index.objects[row + 1]))
Opened(index) == Checked(index.kind # "corrupt", index)
ReadSorted(file, f) ==
    Then(Get(file, Section("sorted", f), LAMBDA i : TRUE), LAMBDA stored : Opened(OpenSorted(stored)))
ReadInverted(file, f) ==
    Then(Get(file, Section("inverted", f), LAMBDA i : TRUE), LAMBDA stored : Opened(OpenInverted(stored)))
ReadSq8(file) == Get(file, Section("sq8", NoField), LAMBDA s : s.rows = file.header.rows)
ReadGraph(file) == Get(file, Section("graph", NoField), LAMBDA g : GraphValid(g, file.header.rows))

\* for_each_row: the rows a flush output or a compaction input holds, read past the cache.
WholeRows(file) ==
    LET columns == [f \in DOMAIN file.header.schema.fields |-> ReadColumn(file, f)]
        ok == /\ RowMeta(file).ok /\ PkColumn(file).ok /\ VectorPrefix(file).ok
              /\ LoadsWhole(file, Section("vector", NoField)) /\ LoadsWhole(file, Section("dynamic", NoField))
              /\ \A f \in DOMAIN columns : columns[f].ok
        row(i) == [pk |-> PkColumn(file).v[i], seq |-> RowMeta(file).v[i], vec |-> VectorRow(file, i - 1).v,
                   vals |-> [f \in DOMAIN columns |-> ColumnValue(columns[f].v, i - 1)],
                   extra |-> DynamicObject(file, i - 1).v]
    IN IF ok THEN Ok([i \in 1..file.header.rows |-> row(i)]) ELSE Corrupt

\* verify: every region of the file, and what the sections say of each other.
Verifies(file) ==
    /\ Loads(file, Section("padding", NoField))
    /\ \A s \in DOMAIN file.sections : LoadsWhole(file, s)
    /\ ~ file.header.sidecar =>
         LET stats == ReadStats(file)
             keys == PkColumn(file)
             columns == [f \in DOMAIN file.header.schema.fields |-> ReadColumn(file, f)]
         IN /\ RowMeta(file).ok /\ keys.ok /\ stats.ok
            /\ PkSortedValid(PkSorted(file).v, keys.v) /\ PkFilterValid(PkFilter(file).v, keys.v)
            /\ VectorPrefix(file).ok /\ VectorDataValid(VectorPrefix(file).v)
            /\ \A f \in DOMAIN columns : /\ columns[f].ok
                                         /\ stats.v.fields[f].nulls = Cardinality(columns[f].v.nulls)
            /\ IF HasSection(file, "dynamic", NoField)
               THEN /\ DynamicIndex(file).ok
                    /\ stats.v.dynamic = Cardinality({i \in 1..file.header.rows : DynamicObject(file, i - 1).v # <<>>})
               ELSE stats.v.dynamic = 0
=============================================================================
