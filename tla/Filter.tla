------------------------------- MODULE Filter -------------------------------
(***************************************************************************)
(* Filters (logpose-types/src/filter.rs, logpose-query/src/compile.rs).    *)
(* An expression is [op, field, args, vals, bounds]: args the operands of  *)
(* and, or and not; vals the values of a comparison; bounds pairs of a     *)
(* bound's name and its value.  Compiling it against a schema types each   *)
(* leaf; a compiled filter is then evaluated per unit, over the indexes,   *)
(* columns and blocks the unit happens to have.  `Means` is the reference: *)
(* what the expression says of one record, by comparing numbers.           *)
(***************************************************************************)
EXTENDS ReadView

CONSTANTS
    MaxFilterDepth,     \* MAX_FILTER_DEPTH
    MaxFilterTerms      \* MAX_FILTER_TERMS

ASSUME FilterLimits == MaxFilterDepth \in Nat \ {0} /\ MaxFilterTerms \in Nat \ {0}

Expr(op, field, args, vals, bounds) ==
    [op |-> op, field |-> field, args |-> args, vals |-> vals, bounds |-> bounds]
And(args) == Expr("and", NoField, args, <<>>, <<>>)
Or(args) == Expr("or", NoField, args, <<>>, <<>>)
Not(arg) == Expr("not", NoField, <<arg>>, <<>>, <<>>)
Test(op, field, vals) == Expr(op, field, <<>>, vals, <<>>)
RangeTest(field, bounds) == Expr("range", field, <<>>, <<>>, bounds)

----------------------------------------------------------------------------
(* Compiling.                                                              *)

\* check_limits.
RECURSIVE Depth(_), Terms(_)
Depth(e) == 1 + (IF e.args = <<>> THEN 0 ELSE Max({Depth(a) : a \in Range(e.args)}))
Terms(e) ==
    1 + (IF e.op \in {"in", "not_in", "contains_any"} THEN Len(e.vals) ELSE 0)
      + MapThenSumSet(LAMBDA i : Terms(e.args[i]), DOMAIN e.args)
WithinLimits(e) == Depth(e) <= MaxFilterDepth /\ Terms(e) <= MaxFilterTerms

\* resolve_field, with the kind of key the target compares by; JSON has none.  A retired name
\* is nothing that can be filtered.
Target(to, field, kind) == [to |-> to, field |-> field, kind |-> kind]
Resolve(schema, f) ==
    IF f = "pk" THEN Target("key", f, "int")
    ELSE IF f \in DOMAIN schema.names
    THEN LET id == schema.names[f]
         IN IF schema.fields[id] = "json" THEN Target("json", id, "none") ELSE Target("typed", id, KindOf[schema.fields[id]])
    ELSE Target(IF f \in schema.retired THEN "retired" ELSE "dynamic", f, "none")

\* integral, in halves: i64::MAX as f64 is one more than i64::MAX.
Integral(h) == h % 2 = 0 /\ 2 * IntMin <= h /\ h < 2 * (IntMax + 1)
Saturate(n) == Max({IntMin, Min({IntMax, n})})

\* operand: a JSON operand under the target's type; a typed operand came over gRPC as it is.
Operand(target, v, bound) ==
    IF v.t \notin {"json_number", "json_string", "json_null", "json_object"} THEN Ok(v)
    ELSE IF v.t = "json_null" THEN Refused
    ELSE IF target.kind = "none" THEN Ok(v)
    ELSE IF bound /\ target.to = "typed" /\ target.kind = "int" /\ v.t = "json_number" /\ v.v[1] % 2 # 0
    THEN Ok(Float64(v.v[1]))
    ELSE CASE target.kind = "int" /\ v.t = "json_number" ->
                IF Integral(v.v[1]) THEN Ok(Int64(v.v[1] \div 2)) ELSE Refused
           [] target.kind = "float" /\ v.t = "json_number" -> Ok(Float64(v.v[1]))
           [] target.kind = "str" /\ v.t = "json_string" -> Ok(Str(v.v[1]))
           [] OTHER -> Refused

\* exact_key.
ExactKey(kind, v) ==
    CASE kind = "int" /\ v.t = "int64" -> Ok(Key("int", v.v[1]))
      [] kind = "int" /\ v.t = "float64" ->
           IF Integral(v.v[1]) THEN Ok(Key("int", v.v[1] \div 2)) ELSE Refused
      [] kind = "float" /\ v.t = "float64" -> Ok(Key("float", v.v[1]))
      [] kind = "float" /\ v.t = "int64" -> Ok(Key("float", 2 * v.v[1]))
      [] kind = "str" /\ v.t = "string" -> Ok(Key("str", v.v[1]))
      [] kind = "bool" /\ v.t = "bool" -> Ok(Key("bool", v.v[1]))
      [] OTHER -> Refused

\* range_bound: a float bound on an integer field rounds inwards, and one beyond the
\* integers admits none or all of them.
RangeBound(kind, name, v) ==
    LET lower == name \in {"gt", "gte"}
        h == v.v[1]
        key == ExactKey(kind, v)
    IN IF kind = "bool" THEN Refused
       ELSE IF kind = "int" /\ v.t = "float64" /\ ~ Integral(h)
       THEN IF lower /\ h >= 2 * (IntMax + 1) THEN Ok(Excluded(Key("int", IntMax)))
            ELSE IF ~ lower /\ h < 2 * IntMin THEN Ok(Excluded(Key("int", IntMin)))
            ELSE Ok(Included(Key("int", Saturate(IF lower THEN (h + 1) \div 2 ELSE h \div 2))))
       ELSE IF ~ key.ok THEN Refused
       ELSE IF name \in {"gte", "lte"} THEN Ok(Included(key.v)) ELSE Ok(Excluded(key.v))

\* Cond and JsonCond: keys of a typed leaf, values and named bounds of a JSON one.
Cond(c, keys, low, high, bounds) == [c |-> c, keys |-> keys, low |-> low, high |-> high, bounds |-> bounds]
Simple(c) == Cond(c, {}, Unbounded, Unbounded, <<>>)
Node(n, args, field, cond) == [n |-> n, args |-> args, field |-> field, cond |-> cond]

\* leaf.
Leaf(target, cond) ==
    Node(CASE target.to = "key" -> "key" [] target.to = "typed" -> "typed" [] OTHER -> target.to, <<>>, target.field, cond)

\* json_scalar refuses null and objects.
JsonScalar(v) ==
    CASE v.t \in {"json_number", "float64"} -> Ok(<<"number", v.v[1]>>)
      [] v.t = "int64" -> Ok(<<"number", 2 * v.v[1]>>)
      [] v.t \in {"json_string", "string"} -> Ok(<<"string", v.v[1]>>)
      [] v.t = "bool" -> Ok(<<"bool", v.v[1]>>)
      [] OTHER -> Refused

\* An operand as what its target compares by: a JSON scalar, a key, or the named bound of a range.
NoBound == "-"
Converted(target, v, name) ==
    Then(Operand(target, v, name # NoBound), LAMBDA operand :
         IF target.kind = "none" THEN JsonScalar(operand)
         ELSE IF name = NoBound THEN ExactKey(target.kind, operand) ELSE RangeBound(target.kind, name, operand))

\* target_for: contains needs an array, a range an ordered field.
TargetFor(schema, e) ==
    LET target == Resolve(schema, e.field)
        type == IF target.to = "typed" THEN schema.fields[target.field] ELSE "none"
    IN IF target.to = "retired" THEN Refused
       ELSE IF e.op \in {"contains", "contains_any"} /\ type # "array" THEN Refused
       ELSE IF e.op = "range" /\ type = "bool" THEN Refused ELSE Ok(target)

\* comparison: sorted, distinct keys, or JSON scalars.
Comparison(target, e) ==
    LET c == IF e.op \in {"ne", "not_in"} THEN "none_of" ELSE "any_of"
    IN IF e.vals = <<>> THEN Refused
       ELSE Then(Collect([i \in DOMAIN e.vals |-> Converted(target, e.vals[i], NoBound)]), LAMBDA keys :
                 Ok(Leaf(target, Cond(c, Range(keys), Unbounded, Unbounded, <<>>))))

\* range, over RangeBounds::named.
CompileRange(target, e) ==
    LET names == {e.bounds[i][1] : i \in DOMAIN e.bounds}
        side(lower) == {i \in DOMAIN e.bounds : e.bounds[i][1] \in IF lower THEN {"gt", "gte"} ELSE {"lt", "lte"}}
        bound(bounds, lower) == IF side(lower) = {} THEN Unbounded ELSE bounds[CHOOSE i \in side(lower) : TRUE]
        typed(bounds) == Cond("range", {}, bound(bounds, TRUE), bound(bounds, FALSE), <<>>)
        json(bounds) == Cond("range", {}, Unbounded, Unbounded, [i \in DOMAIN bounds |-> <<e.bounds[i][1], bounds[i]>>])
    IN IF names = {} \/ {"gt", "gte"} \subseteq names \/ {"lt", "lte"} \subseteq names THEN Refused
       ELSE Then(Collect([i \in DOMAIN e.bounds |-> Converted(target, e.bounds[i][2], e.bounds[i][1])]), LAMBDA bounds :
                 IF target.kind # "none" THEN Ok(Leaf(target, typed(bounds)))
                 ELSE Checked(\A i \in DOMAIN bounds : bounds[i][1] # "bool", Leaf(target, json(bounds))))

\* compile_node.
RECURSIVE CompileNode(_, _)
CompileNode(schema, e) ==
    IF e.op \in {"and", "or", "not"}
    THEN IF e.args = <<>> THEN Refused
         ELSE Then(Collect([i \in DOMAIN e.args |-> CompileNode(schema, e.args[i])]),
                   LAMBDA args : Ok(Node(e.op, args, NoField, Simple("exists"))))
    ELSE Then(TargetFor(schema, e), LAMBDA target :
              CASE e.op \in {"exists", "is_null"} -> Ok(Leaf(target, Simple(e.op)))
                [] e.op = "range" -> CompileRange(target, e)
                [] OTHER -> Comparison(target, e))

\* CompiledFilter::compile.
Compile(schema, e) == IF WithinLimits(e) THEN CompileNode(schema, e) ELSE Refused

----------------------------------------------------------------------------
(* Evaluating.                                                             *)

NeedsSorted(cond) == cond.c = "range"
IsEmptyRange(cond) == cond.c = "range" /\ EmptyRange(cond.low, cond.high)
Served(u, f, cond) ==
    HasScalarIndex(u, f, NeedsSorted(cond)) \/ (~ NeedsSorted(cond) /\ HasScalarIndex(u, f, TRUE))

\* collect_needs.
RECURSIVE CollectNeeds(_, _)
CollectNeeds(node, u) ==
    CASE node.n \in {"and", "or", "not"} -> UNION {CollectNeeds(a, u) : a \in Range(node.args)}
      [] node.n = "typed" ->
           IF IsEmptyRange(node.cond) THEN {}
           ELSE {Need(IF Served(u, node.field, node.cond) THEN "index" ELSE "column", node.field, {})}
      [] node.n = "json" -> {Need("column", node.field, {})}
      [] node.n = "dynamic" -> IF HasDynamic(u) THEN {Need("dynamic", NoField, Live(u))} ELSE {}
      [] node.n = "key" -> {NeedPk}
FilterNeeds(node, u) == IF IsMemtable(u) THEN {} ELSE CollectNeeds(node, u)

\* may_match: whether the zones leave the unit a matching row.
ZoneAdmits(cond, zone, rows) ==
    LET known == zone.min # NoKey
        within(key) == IF known THEN zone.min.k # key.k \/ (KeyLeq(zone.min, key) /\ KeyLeq(key, zone.max))
                       ELSE zone.nulls < rows
        belowHigh == CASE cond.high.b = "unbounded" -> TRUE
                       [] cond.high.b = "included" -> cond.high.key.k # zone.min.k \/ KeyLeq(zone.min, cond.high.key)
                       [] cond.high.b = "excluded" -> cond.high.key.k # zone.min.k \/ KeyLess(zone.min, cond.high.key)
        aboveLow == CASE cond.low.b = "unbounded" -> TRUE
                      [] cond.low.b = "included" -> cond.low.key.k # zone.max.k \/ KeyLeq(cond.low.key, zone.max)
                      [] cond.low.b = "excluded" -> cond.low.key.k # zone.max.k \/ KeyLess(cond.low.key, zone.max)
    IN CASE cond.c = "is_null" -> zone.nulls > 0
         [] cond.c \in {"exists", "none_of"} -> zone.nulls < rows
         [] cond.c = "any_of" -> \E key \in cond.keys : within(key)
         [] cond.c = "range" -> IF known THEN belowHigh /\ aboveLow ELSE zone.nulls < rows
RECURSIVE MayMatch(_, _, _)
MayMatch(node, u, schema) ==
    CASE node.n = "and" -> \A a \in Range(node.args) : MayMatch(a, u, schema)
      [] node.n = "or" -> \E a \in Range(node.args) : MayMatch(a, u, schema)
      [] node.n = "typed" ->
           /\ ~ IsEmptyRange(node.cond)
           /\ HasZone(u, node.field) /\ schema.fields[node.field] # "array" =>
                ZoneAdmits(node.cond, u.zones[node.field], RowCount(u))
      [] OTHER -> TRUE

\* Cond::holds.
Holds(cond, keys) ==
    CASE cond.c = "is_null" -> keys = {}
      [] cond.c = "exists" -> keys # {}
      [] cond.c = "any_of" -> keys \cap cond.keys # {}
      [] cond.c = "none_of" -> keys # {} /\ keys \cap cond.keys = {}
      [] cond.c = "range" -> \E key \in keys : Within(cond.low, cond.high, key)

\* json_matches and json_field_matches; scalars of different kinds neither equal nor compare.
BoundHolds(name, actual, bound) ==
    /\ actual[1] = bound[1]
    /\ CASE name = "gt" -> actual[2] > bound[2] [] name = "gte" -> actual[2] >= bound[2]
         [] name = "lt" -> actual[2] < bound[2] [] name = "lte" -> actual[2] <= bound[2]
JsonMatches(cond, value) ==
    LET scalar == JsonScalar(value)
    IN CASE cond.c = "exists" -> value.t # "absent"
         [] cond.c = "is_null" -> value.t = "json_null"
         [] cond.c = "any_of" -> scalar.ok /\ scalar.v \in cond.keys
         [] cond.c = "none_of" -> scalar.ok /\ scalar.v \notin cond.keys
         [] cond.c = "range" -> scalar.ok /\ \A i \in DOMAIN cond.bounds :
                                               BoundHolds(cond.bounds[i][1], scalar.v, cond.bounds[i][2])
JsonFieldMatches(cond, value) ==
    CASE cond.c = "exists" -> ~ IsNull(value)
      [] cond.c = "is_null" -> IsNull(value)
      [] OTHER -> JsonMatches(cond, IF IsNull(value) THEN Absent ELSE value)

\* index_served.
RECURSIVE IndexServed(_, _)
IndexServed(node, u) ==
    CASE node.n \in {"and", "or", "not"} -> \A a \in Range(node.args) : IndexServed(a, u)
      [] node.n = "typed" -> IsEmptyRange(node.cond) \/ Served(u, node.field, node.cond)
      [] OTHER -> FALSE

\* typed: an inverted index, else a sorted one, else the column.
IndexRows(ref, cond) ==
    LET anyOf == UNION {Equals(ref, key) : key \in cond.keys}
    IN CASE cond.c = "is_null" -> NullsOf(ref)
         [] cond.c = "exists" -> ExistsOf(ref)
         [] cond.c = "any_of" -> anyOf
         [] cond.c = "none_of" -> ExistsOf(ref) \ anyOf
         [] cond.c = "range" -> RangeOf(ref, cond.low, cond.high)
Typed(u, f, cond, domain, pins) ==
    LET sorted == NeedsSorted(cond) \/ ~ HasScalarIndex(u, f, FALSE)
        byColumn == Then(ColumnOf(u, f, pins), LAMBDA column :
                         Ok({row \in domain : Holds(cond, IndexKeys(column[row]))}))
        byIndex(ref) == Checked(~ (cond.c = "range" /\ RangePanics(ref, cond.low, cond.high)),
                                IndexRows(ref, cond) \cap domain)
    IN IF IsEmptyRange(cond) THEN Ok({})
       ELSE Then(ScalarIndexOf(u, f, sorted, pins), LAMBDA ref :
                 IF ref.kind = "absent" THEN byColumn ELSE byIndex(ref))

\* The dynamic leaf of eval: a block without the key is skipped.
DynamicRows(u, key, cond, domain, pins) ==
    IF ~ HasDynamic(u) THEN Ok(IF JsonMatches(cond, Absent) THEN domain ELSE {})
    ELSE Then(Collect([row \in domain |-> DynamicOf(u, row, pins)]), LAMBDA objects :
              Ok({row \in domain : BlockMayHave(u, row, key) /\ JsonMatches(cond, Member(objects[row], key))}))

\* Evaluator::eval.
RECURSIVE Eval(_, _, _, _)
Eval(node, u, domain, pins) ==
    LET served == SelectSeq(node.args, LAMBDA a : IndexServed(a, u))
        others == SelectSeq(node.args, LAMBDA a : ~ IndexServed(a, u))
        narrow(acc, a) == IF acc.ok /\ acc.v # {} THEN Eval(a, u, acc.v, pins) ELSE acc
        widen(acc, a) == Then(acc, LAMBDA rows :
                         Then(Eval(a, u, domain \ rows, pins), LAMBDA more : Ok(rows \cup more)))
    IN IF domain = {} THEN Ok({})
       ELSE CASE node.n = "and" -> FoldLeft(narrow, Ok(domain), served \o others)
              [] node.n = "or" -> FoldLeft(widen, Ok({}), node.args)
              [] node.n = "not" -> Then(Eval(node.args[1], u, domain, pins), LAMBDA rows : Ok(domain \ rows))
              [] node.n = "typed" -> Typed(u, node.field, node.cond, domain, pins)
              [] node.n = "dynamic" -> DynamicRows(u, node.field, node.cond, domain, pins)
              [] node.n = "json" ->
                   Then(ColumnOf(u, node.field, pins), LAMBDA column :
                        Ok({row \in domain : JsonFieldMatches(node.cond, column[row])}))
              [] node.n = "key" ->
                   Then(Pks(u, pins), LAMBDA keys :
                        Ok({row \in domain : Holds(node.cond, {Key("int", keys[row + 1])})}))

\* CompiledFilter::evaluate, over what the filter said it needs.
FilterRows(node, schema, u) ==
    IF ~ MayMatch(node, u, schema) THEN Ok({})
    ELSE Then(Fetch(u, FilterNeeds(node, u)), LAMBDA pins : Eval(node, u, Live(u), pins))

\* matches_record.
RECURSIVE RowMatches(_, _, _)
RowMatches(node, schema, record) ==
    CASE node.n = "and" -> \A a \in Range(node.args) : RowMatches(a, schema, record)
      [] node.n = "or" -> \E a \in Range(node.args) : RowMatches(a, schema, record)
      [] node.n = "not" -> ~ RowMatches(node.args[1], schema, record)
      [] node.n = "typed" -> Holds(node.cond, IndexKeys(record.vals[node.field]))
      [] node.n = "json" -> JsonFieldMatches(node.cond, record.vals[node.field])
      [] node.n = "dynamic" -> JsonMatches(node.cond, Member(record.extra, node.field))
      [] node.n = "key" -> Holds(node.cond, {Key("int", record.pk)})

----------------------------------------------------------------------------
(* The reference: what an expression says of a record.                     *)

\* The comparable items of a value: numbers in halves whatever their type.
Items(value) ==
    CASE value.t = "array" -> {<<"number", 2 * value.v[i]>> : i \in DOMAIN value.v}
      [] value.t # "array" -> LET scalar == JsonScalar(value) IN IF scalar.ok THEN {scalar.v} ELSE {}

\* A record here is by name: vals of the declared fields, extra of the others.
RECURSIVE Means(_, _)
Means(e, record) ==
    LET value == IF e.field = "pk" THEN Int64(record.pk)
                 ELSE IF e.field \in DOMAIN record.vals THEN record.vals[e.field]
                 ELSE Member(record.extra, e.field)
        declared == e.field = "pk" \/ e.field \in DOMAIN record.vals
        emptyArray == value.t = "array" /\ value.v = <<>>
        wanted == {JsonScalar(e.vals[i]).v : i \in DOMAIN e.vals}
    IN CASE e.op = "and" -> \A i \in DOMAIN e.args : Means(e.args[i], record)
         [] e.op = "or" -> \E i \in DOMAIN e.args : Means(e.args[i], record)
         [] e.op = "not" -> ~ Means(e.args[1], record)
         [] e.op = "exists" -> IF declared THEN ~ IsNull(value) /\ ~ emptyArray ELSE value.t # "absent"
         [] e.op = "is_null" -> IF declared THEN IsNull(value) \/ emptyArray ELSE value.t = "json_null"
         [] e.op \in {"eq", "in", "contains", "contains_any"} -> Items(value) \cap wanted # {}
         [] e.op \in {"ne", "not_in"} -> Items(value) # {} /\ Items(value) \cap wanted = {}
         [] e.op = "range" -> \E item \in Items(value) : \A i \in DOMAIN e.bounds :
                                 BoundHolds(e.bounds[i][1], item, JsonScalar(e.bounds[i][2]).v)
=============================================================================
