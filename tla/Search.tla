------------------------------- MODULE Search -------------------------------
(***************************************************************************)
(* Nearest-neighbour search over one view (logpose-query/src/search.rs,    *)
(* cost.rs): per unit, candidates by an exact scan, a scan of the coarse   *)
(* codes or a walk of the graph; then exact values of the candidates, a    *)
(* merge that keeps every tie at the k-th place, keys for the tied, and    *)
(* the rows.  Which strategy a segment takes is the cost model's choice    *)
(* from timings: `plan` maps a unit to [choice, abandon], `abandon` being  *)
(* the number of widenings after which the walk costs too much.            *)
(*                                                                         *)
(* One dimension, the L2 metric: a rank is the distance, not squared.      *)
(***************************************************************************)
EXTENDS Filter

CONSTANTS
    RerankFactor,       \* SearchTuning.rerank_factor
    DefaultEf,          \* DEFAULT_EF
    MaxEfMultiplier     \* MAX_EF_MULTIPLIER

ASSUME SearchTuning == {RerankFactor, DefaultEf, MaxEfMultiplier} \subseteq Nat \ {0}

Rank(query, vector) == IF query < vector THEN vector - query ELSE query - vector

\* Context; `where` is the compiled filter in a tuple, empty without one.
Context(schema, query, k, where) ==
    LET budget == Max({k, k * RerankFactor})
    IN [schema |-> schema, query |-> query, k |-> k, where |-> where,
        budget |-> budget, ef |-> Max({DefaultEf, budget})]

----------------------------------------------------------------------------
(* Ranked rows: [rank, key, unit, row], key a tuple that is empty until    *)
(* somebody looks the key up.                                              *)

Scored(rank, key, unit, row) == [rank |-> rank, key |-> key, unit |-> unit, row |-> row]

\* Ord for Scored and for Candidate.
Before(a, b) ==
    IF a.rank # b.rank THEN a.rank < b.rank
    ELSE IF a.key # b.key
    THEN b.key = <<>> \/ (a.key # <<>> /\ a.key[1] < b.key[1])
    ELSE a.unit < b.unit \/ (a.unit = b.unit /\ a.row < b.row)

InOrder(items) == SetToSortSeq(items, Before)
Prefix(seq, n) == SubSeq(seq, 1, Min({n, Len(seq)}))

\* TopK.
TopK(items, limit) == Range(Prefix(InOrder(items), limit))

\* cut_with_ties, best_k and merge_sorted.
CutWithoutTies(items, k) == Prefix(items, k)
CutWithTies(items, k) ==
    IF k = 0 THEN <<>>
    ELSE IF Len(items) < k THEN items
    ELSE SelectSeq(items, LAMBDA item : item.rank <= items[k].rank)
BestK(items, k) == CutWithTies(InOrder(items), k)
MergeSorted(lists, k) == BestK(UNION {Range(lists[i]) : i \in DOMAIN lists}, k)

----------------------------------------------------------------------------
(* Candidates of one unit.                                                 *)

\* The needs of the planning loop of search; memtables need none.
SearchNeeds(ctx, u) ==
    UNION {FilterNeeds(node, u) : node \in Range(ctx.where)}
      \cup (IF HasVectorIndex(u, FALSE) \/ HasVectorIndex(u, TRUE) THEN {Need("vector_index", NoField, {})} ELSE {})
Pruned(ctx, u) == ~ IsMemtable(u) /\ \E node \in Range(ctx.where) : ~ MayMatch(node, u, ctx.schema)

\* allowed_rows.
AllowedRows(where, u, pins) == IF where = <<>> THEN Ok(Live(u)) ELSE Eval(where[1], u, Live(u), pins)

\* Codes::estimate, in steps of the code.
Estimate(sq8, query, row) ==
    LET delta == query * Levels - Sq8Decode(sq8.params, sq8.codes[row + 1]) IN delta * delta

\* sq8_scan.
Sq8Scan(ctx, u, sq8, allowed) ==
    TopK({Scored(Estimate(sq8, ctx.query, row), <<>>, u.unit, row) : row \in allowed}, ctx.budget)

\* walk: widen the beam while it is short of candidates, while the best still change (ACORN),
\* or while it meets far fewer matches than the filter's share (admit); after `abandon`
\* widenings the walk gives up.
Widened(ctx, q, w, ef, beam) ==
    [w EXCEPT !.beam = beam, !.ef = ef, !.widened = @ + 1,
              !.probing = @ /\ Range(CursorTop(q, w.beam, ctx.k)) # Range(CursorTop(q, beam, ctx.k))]
RECURSIVE Widen(_, _, _, _, _, _, _, _)
Widen(ctx, graph, q, nodes, acorn, filtered, abandon, w) ==
    LET visited == w.beam.visited
        short == Len(CursorTop(q, w.beam, ctx.budget)) < ctx.budget
        anti == /\ ~ acorn /\ filtered
                /\ 4 * Cardinality(visited \cap nodes) * graph.n < 3 * Min({w.matched, graph.n}) * Cardinality(visited)
        widen == short \/ w.probing \/ (anti /\ w.widened < 2)
        ef == Min({2 * w.ef, ctx.ef * MaxEfMultiplier})
    IN IF w.ef >= ctx.ef * MaxEfMultiplier \/ CursorExhausted(w.beam) \/ ~ widen THEN w
       ELSE IF w.widened >= abandon THEN [w EXCEPT !.abandoned = TRUE]
       ELSE Widen(ctx, graph, q, nodes, acorn, filtered, abandon,
                  Widened(ctx, q, w, ef, CursorAdvance(graph, q, nodes, acorn, ef, w.beam)))
WalkGraph(ctx, u, sq8, graph, allowed, how) ==
    LET matched == Cardinality(allowed)
        rows(node) == Range(NodeRows(graph, node))
        all == matched = RowCount(u)
        nodes == {node \in 1..graph.nodes : all \/ rows(node) \cap allowed # {}}
        q == [node \in 1..graph.nodes |-> Estimate(sq8, ctx.query, NodeRows(graph, node)[1])]
        acorn == how.choice = "acorn"
        filtered == ctx.where # <<>> /\ matched < Cardinality(Live(u))
        first == CursorAdvance(graph.graph, q, nodes, acorn, ctx.ef, CursorStart(graph.graph, q, nodes))
        candidates(beam) == UNION {{Scored(q[node], <<>>, u.unit, row) : row \in rows(node) \cap allowed} :
                                     node \in Range(CursorTop(q, beam, ctx.budget))}
        result(w) == IF w.abandoned THEN Sq8Scan(ctx, u, sq8, allowed) ELSE TopK(candidates(w.beam), ctx.budget)
    IN result(Widen(ctx, graph.graph, q, nodes, acorn, filtered, how.abandon,
                    [beam |-> first, ef |-> ctx.ef, widened |-> 0, probing |-> filtered /\ acorn,
                     matched |-> matched, abandoned |-> FALSE]))

\* CostModel::decide: what may be chosen.
Walkable(ctx, u, allowed) ==
    HasVectorIndex(u, TRUE) /\ HasVectorIndex(u, FALSE) /\ Cardinality(allowed) > ctx.budget
StrategiesFor(ctx, u, allowed) ==
    {"exact"} \cup (IF Walkable(ctx, u, allowed) THEN {"admit"} ELSE {})
              \cup (IF Walkable(ctx, u, allowed) /\ ctx.where # <<>> /\ allowed # Live(u) THEN {"acorn"} ELSE {})

\* scan_f32: the budget is cut by squared distance and key, the rest by rank.
ScanF32(ctx, u, rows, pins) ==
    LET scored(row, vector, key) == Scored(Rank(ctx.query, vector[1]), <<key>>, u.unit, row)
    IN Then(Pks(u, pins), LAMBDA keys :
       Then(Collect([row \in rows |-> VectorOf(u, row, pins)]), LAMBDA vectors :
            Ok(BestK(TopK({scored(row, vectors[row], keys[row + 1]) : row \in {r \in rows : vectors[r] # <<>>}},
                          ctx.budget), ctx.k))))

\* unit_candidates: [out, rows or list]; the graph is read when there is one.
Output(out, v) == Ok([out |-> out, v |-> v])
ApproxRows(ctx, u, sq8, graph, allowed, how) ==
    IF how.choice = "exact" \/ how.choice \notin StrategiesFor(ctx, u, allowed)
    THEN Sq8Scan(ctx, u, sq8, allowed) ELSE WalkGraph(ctx, u, sq8, graph, allowed, how)
AllowedCandidates(ctx, u, pins, how, allowed) ==
    CASE allowed = {} -> Output("none", <<>>)
      [] allowed # {} /\ IsMemtable(u) -> Then(ScanF32(ctx, u, allowed, pins), LAMBDA list : Output("exact", list))
      [] allowed # {} /\ ~ IsMemtable(u) /\ ~ HasVectorIndex(u, FALSE) -> Output("scan_f32", allowed)
      [] OTHER -> Then(Sq8Of(u, pins), LAMBDA sq8 :
                  Then(IF HasVectorIndex(u, TRUE) THEN GraphOf(u, pins) ELSE Ok(<<>>), LAMBDA graph :
                       Output("approx", ApproxRows(ctx, u, sq8, graph, allowed, how))))
UnitCandidates(ctx, u, pins, how) ==
    IF Pruned(ctx, u) THEN Output("none", <<>>)
    ELSE Then(AllowedRows(ctx.where, u, pins), LAMBDA allowed : AllowedCandidates(ctx, u, pins, how, allowed))

----------------------------------------------------------------------------
(* The whole search.                                                       *)

\* rerank_needs.
RerankNeeds(result) ==
    CASE result.out = "approx" -> {Need("vectors", NoField, {c.row : c \in result.v}), NeedPk}
      [] result.out = "scan_f32" -> {Need("vectors", NoField, result.v), NeedPk}
      [] OTHER -> {}

\* rerank and rerank_candidates: a list of scored rows.
Rerank(ctx, u, result, pins) ==
    LET rows == {c.row : c \in result.v}
        scored(row, vector) == Scored(Rank(ctx.query, vector[1]), <<>>, u.unit, row)
    IN CASE result.out = "none" -> Ok(<<>>)
         [] result.out = "exact" -> Ok(result.v)
         [] result.out = "scan_f32" -> ScanF32(ctx, u, result.v, pins)
         [] result.out = "approx" ->
              Then(Collect([row \in rows |-> VectorOf(u, row, pins)]), LAMBDA vectors :
                   Ok(BestK({scored(row, vectors[row]) : row \in {r \in rows : vectors[r] # <<>>}}, ctx.k)))

\* resolve_ties: keys for the finalists that share a rank, then the order by key, then k of them.
ResolveTies(ctx, finalists, key(_)) ==
    LET tied(i) == \E j \in DOMAIN finalists : j # i /\ finalists[j].rank = finalists[i].rank
        known == {IF tied(i) THEN [finalists[i] EXCEPT !.key = <<key(finalists[i])>>] ELSE finalists[i] :
                    i \in DOMAIN finalists}
    IN Prefix(InOrder(known), ctx.k)

\* What search does for each unit, a phase at a time over all of them: plan, candidates, rerank.
UnitList(ctx, u, how) ==
    Then(IF Pruned(ctx, u) THEN Ok({}) ELSE Fetch(u, SearchNeeds(ctx, u)), LAMBDA planned :
    Then(UnitCandidates(ctx, u, planned, how), LAMBDA result :
    Then(Fetch(u, RerankNeeds(result)), LAMBDA fetched :
    Then(Rerank(ctx, u, result, planned \cup fetched), LAMBDA list :
         Ok([list |-> list, pins |-> planned \cup fetched])))))

\* search: the lists, the merge, projection; each fetch may fail.  The hits are
\* [rank, unit, row, record].
SearchView(view, ctx, plan) ==
    LET at(unit) == CHOOSE i \in DOMAIN view.units : view.units[i].unit = unit
        finalists(lists) ==
          ResolveTies(ctx, MergeSorted([i \in DOMAIN lists |-> lists[i].list], ctx.k),
                      LAMBDA s : Pks(view.units[at(s.unit)], lists[at(s.unit)].pins).v[s.row + 1])
        hit(s) == Then(Project(view.schema, view.units[at(s.unit)], s.row), LAMBDA record :
                       Ok([rank |-> s.rank, unit |-> s.unit, row |-> s.row, record |-> record]))
        hits(scored) == Collect([i \in DOMAIN scored |-> hit(scored[i])])
    IN IF ctx.k = 0 THEN Ok(<<>>)
       ELSE Then(Collect([i \in DOMAIN view.units |-> UnitList(ctx, view.units[i], plan[i])]),
                 LAMBDA lists : hits(finalists(lists)))

----------------------------------------------------------------------------
(* The reference.                                                          *)

\* The keys of the k nearest records, by distance and then key.
NearestK(records, query, k) ==
    LET scored == {Scored(Rank(query, records[key].vec[1]), <<key>>, 0, 0) : key \in DOMAIN records}
        nearest == Prefix(InOrder(scored), k)
    IN [i \in DOMAIN nearest |-> nearest[i].key[1]]
=============================================================================
