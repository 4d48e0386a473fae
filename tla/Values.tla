------------------------------- MODULE Values -------------------------------
(***************************************************************************)
(* Field values, the keys scalar indexes order them by, and range bounds.  *)
(* A value is a type and a tuple: empty for null, the items of an array,   *)
(* otherwise one number.  A float64 is counted in halves, an int64 wraps   *)
(* nowhere but ends at IntMin and IntMax; strings are ordered tokens.      *)
(***************************************************************************)
EXTENDS Integers, Sequences, FiniteSets

CONSTANTS IntMin, IntMax

ASSUME IntRange == IntMin \in Int /\ IntMax \in Int /\ IntMin < 0 /\ 0 < IntMax

Val(t, v) == [t |-> t, v |-> v]
Null == Val("null", <<>>)
Int64(n) == Val("int64", <<n>>)
Float64(halves) == Val("float64", <<halves>>)
Str(n) == Val("string", <<n>>)
Bool(n) == Val("bool", <<n>>)
Arr(items) == Val("array", items)
\* JSON values: what ScalarMetadataValue::from_json can tell apart.
JsonNumber(halves) == Val("json_number", <<halves>>)
JsonString(n) == Val("json_string", <<n>>)
JsonObject == Val("json_object", <<>>)
JsonNull == Val("json_null", <<>>)
Absent == Val("absent", <<>>)

IsNull(value) == value.t \in {"null", "json_null", "absent"}

\* ScalarKey: its kind and number, ordered by kind and then by number.
Key(kind, n) == [k |-> kind, n |-> n]
NoKey == Key("none", 0)
KindRank == [none |-> 0, bool |-> 1, int |-> 2, float |-> 3, str |-> 4]
KeyLess(a, b) == KindRank[a.k] < KindRank[b.k] \/ (a.k = b.k /\ a.n < b.n)
KeyLeq(a, b) == a = b \/ KeyLess(a, b)

\* scalar_key and index_keys: an array has one key per item, null, JSON and an empty
\* array have none.
KindOf == [bool |-> "bool", int64 |-> "int", float64 |-> "float", string |-> "str", array |-> "int"]
IndexKeys(value) ==
    IF value.t \notin DOMAIN KindOf THEN {} ELSE {Key(KindOf[value.t], value.v[i]) : i \in DOMAIN value.v}

\* std::ops::Bound over keys.
Included(key) == [b |-> "included", key |-> key]
Excluded(key) == [b |-> "excluded", key |-> key]
Unbounded == [b |-> "unbounded", key |-> NoKey]

Above(low, key) ==
    CASE low.b = "included" -> KeyLeq(low.key, key)
      [] low.b = "excluded" -> KeyLess(low.key, key)
      [] low.b = "unbounded" -> TRUE
Below(high, key) ==
    CASE high.b = "included" -> KeyLeq(key, high.key)
      [] high.b = "excluded" -> KeyLess(key, high.key)
      [] high.b = "unbounded" -> TRUE
KindMatches(bound, key) == bound.b = "unbounded" \/ bound.key.k = key.k

\* contains_key.
Within(low, high, key) ==
    /\ Above(low, key) /\ Below(high, key)
    /\ KindMatches(low, key) /\ KindMatches(high, key)

\* Cond::is_empty_range.
EmptyRange(low, high) ==
    /\ low.b # "unbounded" /\ high.b # "unbounded"
    /\ \/ KeyLess(high.key, low.key)
       \/ /\ low.key = high.key
          /\ "excluded" \in {low.b, high.b}

\* bounds_usable: bounds of the index's kind that are not crossed.
BoundsUsable(kind, low, high) ==
    /\ \A bound \in {low, high} : bound.b = "unbounded" \/ bound.key.k = kind
    /\ low.b # "unbounded" /\ high.b # "unbounded" =>
         IF low.b = "included" /\ high.b = "included"
         THEN KeyLeq(low.key, high.key) ELSE KeyLess(low.key, high.key)
=============================================================================
