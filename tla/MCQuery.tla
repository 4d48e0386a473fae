------------------------------ MODULE MCQuery -------------------------------
(***************************************************************************)
(* A small collection: an int64 field with a sorted index, an array and a  *)
(* string with an inverted one, a JSON field, and the name x, which is     *)
(* used dynamically, declared, dropped, renamed and declared again.        *)
(***************************************************************************)
EXTENDS Query

MCIntMin == -4
MCFieldIds == <<"f1", "f2", "f3", "f4", "f5", "f6", "f7">>
MCBaseSchema ==
    [version |-> 1, next |-> 5, retired |-> {},
     names |-> ("n" :> "f1" @@ "t" :> "f2" @@ "s" :> "f3" @@ "j" :> "f4"),
     fields |-> ("f1" :> "int64" @@ "f2" :> "array" @@ "f3" :> "string" @@ "f4" :> "json"),
     index |-> [sorted |-> {"f1"}, inverted |-> {"f2", "f3"}]]

MCDrawnLevel == <<1, 0, 1, 0, 0>>

Rec(pk, vec, fields) == [pk |-> pk, vec |-> vec, fields |-> fields, extra |-> <<>>, whole |-> TRUE]
PutOp(pk, vec, fields) == [op |-> "put", record |-> Rec(pk, <<vec>>, fields)]
UpdateOp(pk, fields) == [op |-> "update", record |-> [Rec(pk, <<>>, fields) EXCEPT !.whole = FALSE]]
DeleteOp(key) == [op |-> "delete", key |-> key]
Add(name, type, sorted) ==
    [op |-> "alter", change |-> [op |-> "add", name |-> name, type |-> type, sorted |-> sorted, inverted |-> FALSE]]
Drop(name) == [op |-> "alter", change |-> [op |-> "drop", name |-> name]]
Rename(from, to) == [op |-> "alter", change |-> [op |-> "rename", name |-> from, to |-> to]]

\* The feed that is scrolled over and whose files are garbled: three rows, then an overwrite.
Scrolled == <<
    PutOp(1, 0, "n" :> Int64(1) @@ "s" :> Str(2) @@ "z" :> Str(1)),
    PutOp(2, 3, "n" :> Int64(1) @@ "t" :> Arr(<<1>>) @@ "j" :> JsonNumber(2)),
    PutOp(3, 4, "s" :> Str(1)),
    PutOp(2, 1, "n" :> Int64(0)) >>
MCTokenTails == {SubSeq(Scrolled, 4, 4)}
MCFaultTails == {SubSeq(Scrolled, 4, 4)}

MCFeeds == { Scrolled,
    << PutOp(1, 0, "n" :> Int64(IntMax) @@ "t" :> Arr(<<1, 2>>) @@ "x" :> Float64(3)),
       PutOp(2, 4, "n" :> Int64(IntMin) @@ "s" :> Str(1) @@ "j" :> JsonNumber(2)),
       Add("x", "float64", TRUE),
       PutOp(3, 4, "x" :> Float64(3) @@ "t" :> Arr(<<>>) @@ "j" :> JsonString(1)),
       UpdateOp(2, "n" :> Int64(1) @@ "x" :> Float64(-1)),
       Drop("x"),
       Add("x", "int64", FALSE) >>,
    << PutOp(1, 0, "n" :> Int64(1) @@ "s" :> Str(2) @@ "y" :> Str(1)),
       PutOp(2, 3, "n" :> Int64(1) @@ "s" :> Str(1) @@ "x" :> Null),
       PutOp(3, 6, "s" :> Str(1)),
       PutOp(4, 3, "n" :> Int64(0)),
       DeleteOp(2),
       Rename("s", "y"),
       PutOp(4, 1, "y" :> Str(2)) >> }

Between(name, low, high) == RangeTest(name, <<<<"gte", low>>, <<"lt", high>>>>)
MCFilters == {
    Test("exists", "n", <<>>), Test("is_null", "n", <<>>), Test("ne", "n", <<Int64(1)>>),
    Test("in", "n", <<JsonNumber(2), Int64(IntMin)>>),
    RangeTest("n", <<<<"gt", Float64(1)>>>>), RangeTest("n", <<<<"lt", JsonNumber(-1)>>>>),
    RangeTest("n", <<<<"gte", Float64(2 * (IntMax + 1))>>>>), RangeTest("n", <<<<"lte", Float64(2 * IntMin - 4)>>>>),
    RangeTest("n", <<<<"gt", Float64(2 * IntMin)>>>>), RangeTest("n", <<<<"lt", Float64(2 * (IntMax + 1))>>>>),
    RangeTest("n", <<<<"gt", Int64(1)>>, <<"lt", Int64(0)>>>>), Between("n", Int64(1), Int64(1)),
    Test("contains", "t", <<Int64(2)>>), Test("is_null", "t", <<>>), RangeTest("t", <<<<"gt", Int64(1)>>>>),
    Test("eq", "s", <<Str(1)>>), Test("not_in", "s", <<Str(1), Str(2)>>), Test("exists", "s", <<>>),
    RangeTest("s", <<<<"gt", Str(1)>>>>),
    Test("eq", "j", <<JsonNumber(2)>>), Test("exists", "j", <<>>), RangeTest("j", <<<<"gt", Int64(0)>>>>),
    Test("exists", "x", <<>>), Test("is_null", "x", <<>>), Test("ne", "x", <<Float64(-1)>>),
    RangeTest("x", <<<<"gte", Float64(2)>>>>), Between("x", Int64(-1), Int64(1)),
    Test("eq", "y", <<Str(1)>>), Test("exists", "y", <<>>),
    RangeTest("pk", <<<<"gt", Int64(1)>>>>),
    Not(Test("eq", "s", <<Str(1)>>)),
    And(<<Test("exists", "x", <<>>), RangeTest("n", <<<<"lt", Float64(1)>>>>)>>),
    Or(<<RangeTest("n", <<<<"gt", Int64(0)>>>>), Test("contains", "t", <<Int64(1)>>), Test("eq", "x", <<Float64(3)>>)>>) }

\* Two searches without a filter and two with one, at a tie and at the ends.
MCQueries == {
    [vector |-> 5, k |-> 1, where |-> <<>>],
    [vector |-> 2, k |-> 2, where |-> <<>>],
    [vector |-> 2, k |-> 1, where |-> <<Test("is_null", "x", <<>>)>>],
    [vector |-> 0, k |-> 2, where |-> <<RangeTest("n", <<<<"gt", Float64(-1)>>>>)>>] }
MCPlans == { [choice |-> "exact", abandon |-> 0], [choice |-> "admit", abandon |-> 9],
             [choice |-> "acorn", abandon |-> 9], [choice |-> "acorn", abandon |-> 0] }
MCScrolls == {
    [where |-> <<>>, order |-> PkOrderScroll, limit |-> 2],
    [where |-> <<>>, order |-> [by |-> "n", ascending |-> TRUE], limit |-> 1],
    [where |-> <<Not(Test("eq", "t", <<Int64(9)>>))>>, order |-> [by |-> "s", ascending |-> FALSE], limit |-> 1] }
=============================================================================
