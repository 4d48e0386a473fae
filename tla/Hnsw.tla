-------------------------------- MODULE Hnsw --------------------------------
(***************************************************************************)
(* The proximity graph of a segment's vectors (logpose-index/src/graph).   *)
(* Nodes are 1..n; a graph is [n, level, entry, top, links], with links    *)
(* from <<node, level>> to a sequence of nodes.  A distance is a function  *)
(* of nodes; ties go to the smaller node.  The beam of a walk keeps what   *)
(* it visited, the frontier, the results, and what it deferred or evicted  *)
(* so that a wider beam can take it up again.                              *)
(***************************************************************************)
EXTENDS Columns

CONSTANTS
    M,              \* HnswParams.m
    EfConstruction, \* HnswParams.ef_construction
    EntryBeam,      \* ENTRY_BEAM
    Warmup,         \* PARALLEL_WARMUP_ROWS
    DrawnLevel      \* draw_level, a hash of the node: a sequence of levels

ASSUME HnswParams ==
    /\ M \in Nat /\ M >= 2 /\ EfConstruction \in Nat \ {0}
    /\ EntryBeam \in Nat \ {0} /\ Warmup \in Nat /\ DrawnLevel \in Seq(Nat)

MaxLinks(level) == IF level = 0 THEN 2 * M ELSE M
BuildEf == Max({EfConstruction, M})

LinksAt(graph, node, level) == IF level > graph.level[node] THEN <<>> ELSE graph.links[<<node, level>>]

----------------------------------------------------------------------------
(* The beam.                                                               *)

Nearer(q, a, b) == q[a] < q[b] \/ (q[a] = q[b] /\ a < b)
Nearest(q, nodes) == CHOOSE a \in nodes : \A b \in nodes : a = b \/ Nearer(q, a, b)
Farthest(q, nodes) == CHOOSE a \in nodes : \A b \in nodes : a = b \/ Nearer(q, b, a)
ByDistance(q, nodes) == SetToSortSeq(nodes, LAMBDA a, b : Nearer(q, a, b))

Beam == [visited |-> {}, frontier |-> {}, results |-> {}, deferred |-> {}, evicted |-> {}, hops |-> <<>>]

\* Queues::trim and offer.
Trim(q, beam, ef) ==
    LET kept == Range(SubSeq(ByDistance(q, beam.results), 1, Min({ef, Cardinality(beam.results)})))
    IN [beam EXCEPT !.results = kept, !.evicted = @ \cup (beam.results \ kept)]
Offer(q, beam, node, admitted, ef) ==
    IF Cardinality(beam.results) < ef \/ (beam.results # {} /\ q[node] < q[Farthest(q, beam.results)])
    THEN Trim(q, [beam EXCEPT !.frontier = @ \cup {node},
                              !.results = IF admitted THEN @ \cup {node} ELSE @], ef)
    ELSE [beam EXCEPT !.deferred = @ \cup {node}]

\* BeamState::seed.
Seed(beam, node, filter) ==
    IF node \in beam.visited THEN beam
    ELSE [beam EXCEPT !.visited = @ \cup {node}, !.frontier = @ \cup {node},
                      !.results = IF node \in filter THEN @ \cup {node} ELSE @]
SeedAll(beam, nodes, filter) == FoldLeft(LAMBDA b, node : Seed(b, node, filter), beam, nodes)

\* should_stop.
ShouldStop(q, beam, ef) ==
    /\ Cardinality(beam.results) >= ef
    /\ beam.results # {} /\ q[Nearest(q, beam.frontier)] > q[Farthest(q, beam.results)]

Visit(beam, node) == [beam EXCEPT !.visited = @ \cup {node}]

\* expand_hop: the matches behind a node the filter excludes; [beam, found].
ExpandHop(graph, q, filter, ef, state, hop) ==
    LET step(s, row) ==
          IF row \in filter /\ row \notin s.beam.visited
          THEN [s EXCEPT !.beam = Offer(q, Visit(@, row), row, TRUE, ef), !.found = @ + 1]
          ELSE s
    IN IF hop \in state.beam.visited THEN state
       ELSE FoldLeft(step, [state EXCEPT !.beam = Visit(@, hop)], LinksAt(graph, hop, 0))

\* The two modes of Walk::run for one node taken from the frontier.
ExpandAdmit(graph, level, q, filter, ef, beam, node) ==
    LET step(b, row) == IF row \in b.visited THEN b ELSE Offer(q, Visit(b, row), row, row \in filter, ef)
    IN FoldLeft(step, beam, LinksAt(graph, node, level))

\* ACORN takes matching neighbours, then the matches behind the others (hops), up to the link
\* budget; a node that leads to no match while results are few is left through the others themselves.
TakeHops(graph, q, filter, ef, state) ==
    FoldLeft(LAMBDA s, row : IF s.found >= MaxLinks(0) THEN [s EXCEPT !.beam.hops = Append(@, row)]
                             ELSE ExpandHop(graph, q, filter, ef, s, row),
             state, state.hops)
Detour(q, ef, state) ==
    IF state.found = 0 /\ Cardinality(state.beam.results) < ef
    THEN FoldLeft(LAMBDA b, row : Offer(q, b, row, FALSE, ef), state.beam, state.hops) ELSE state.beam
ExpandAcorn(graph, q, filter, ef, beam, node) ==
    LET bootstrap == beam.results = {}
        step(s, row) ==
          IF row \in s.beam.visited THEN s
          ELSE IF row \in filter
          THEN [s EXCEPT !.beam = Offer(q, Visit(@, row), row, TRUE, ef), !.found = @ + 1]
          ELSE IF bootstrap THEN [s EXCEPT !.beam = Offer(q, Visit(@, row), row, FALSE, ef)]
          ELSE [s EXCEPT !.hops = Append(@, row)]
        direct == FoldLeft(step, [beam |-> beam, found |-> 0, hops |-> <<>>], LinksAt(graph, node, 0))
    IN Detour(q, ef, TakeHops(graph, q, filter, ef, direct))

\* Walk::run.
RECURSIVE Walk(_, _, _, _, _, _, _)
Walk(graph, level, q, filter, acorn, ef, beam) ==
    IF beam.frontier = {} \/ ShouldStop(q, beam, ef) THEN beam
    ELSE LET node == Nearest(q, beam.frontier)
             taken == [beam EXCEPT !.frontier = @ \ {node}]
         IN Walk(graph, level, q, filter, acorn, ef,
                 IF acorn THEN ExpandAcorn(graph, q, filter, ef, taken, node)
                 ELSE ExpandAdmit(graph, level, q, filter, ef, taken, node))

----------------------------------------------------------------------------
(* Descending from the entry point.                                        *)

\* Keep the nearest admitted node seen; NoNode when there is none.
NoNode == 0
Better(q, best, node, filter) ==
    IF node \in filter /\ (best = NoNode \/ Nearer(q, node, best)) THEN node ELSE best

\* greedy.
RECURSIVE Greedy(_, _, _, _, _)
Greedy(graph, level, q, filter, state) ==
    LET step(s, row) == [at |-> IF Nearer(q, row, s.at) THEN row ELSE s.at, match |-> Better(q, s.match, row, filter)]
        next == FoldLeft(step, state, LinksAt(graph, state.at, level))
    IN IF next.at = state.at THEN next ELSE Greedy(graph, level, q, filter, next)

\* Descent::run: greedy down to the level above low, a beam at low; [entries, match].
Landed(q, filter, match, beam) ==
    [entries |-> ByDistance(q, beam.results),
     match |-> FoldLeft(LAMBDA best, node : Better(q, best, node, filter), match,
                        ByDistance(q, beam.results \cup beam.evicted \cup beam.deferred))]
Descend(graph, q, filter, low, top, start) ==
    LET first == [at |-> start, match |-> Better(q, NoNode, start, filter)]
        lowest == Max({low, 1})
        levels == Reverse([i \in 1..(top - lowest) |-> lowest + i])
        down == FoldLeft(LAMBDA s, level : Greedy(graph, level, q, filter, s), first, levels)
        land(s) == Landed(q, filter, s.match, Walk(graph, lowest, q, 1..graph.n, FALSE, EntryBeam,
                                                   Seed(Beam, s.at, 1..graph.n)))
    IN IF lowest > top THEN [entries |-> <<start>>, match |-> first.match] ELSE land(down)

----------------------------------------------------------------------------
(* Building.                                                               *)

\* F32Metric::L2Squared over one dimension.
Distance(a, b) == (a - b) * (a - b)
DistancesFrom(vectors, x) == [n \in DOMAIN vectors |-> Distance(vectors[n], x)]

\* select_neighbors: diverse candidates first, then the pruned ones, up to m.
SelectNeighbors(vectors, base, candidates, m) ==
    LET q == DistancesFrom(vectors, vectors[base])
        pick(s, c) ==
          IF Len(s.keep) >= m THEN s
          ELSE IF \A i \in DOMAIN s.keep : Distance(vectors[c], vectors[s.keep[i]]) >= q[c]
          THEN [s EXCEPT !.keep = Append(@, c)] ELSE [s EXCEPT !.pruned = Append(@, c)]
        picked == FoldLeft(pick, [keep |-> <<>>, pruned |-> <<>>], candidates)
        room == m - Len(picked.keep)
    IN picked.keep \o SubSeq(picked.pruned, 1, Min({room, Len(picked.pruned)}))

\* plan_links: the neighbours of a new node on each of its levels; a function of the level.
PlanLinks(graph, vectors, node) ==
    LET q == DistancesFrom(vectors, vectors[node])
        linked == Min({graph.level[node], graph.top})
        entries == Descend(graph, q, {}, graph.level[node] + 1, graph.top, graph.entry).entries
        layer(seeds, level) ==
          ByDistance(q, Walk(graph, level, q, 1..graph.n, FALSE, BuildEf,
                             SeedAll(Beam, seeds, 1..graph.n)).results \ {node})
        step(s, level) == LET found == layer(s.seeds, level)
                          IN [seeds |-> found, plan |-> level :> SelectNeighbors(vectors, node, found, M) @@ s.plan]
    IN FoldLeft(step, [seeds |-> entries, plan |-> <<>>], Reverse([i \in 1..(linked + 1) |-> i - 1])).plan

\* add_reverse_link.
AddReverseLink(graph, vectors, base, new, level) ==
    LET current == graph.links[<<base, level>>]
        q == DistancesFrom(vectors, vectors[base])
    IN IF base = new \/ new \in Range(current) THEN current
       ELSE IF Len(current) < MaxLinks(level) THEN Append(current, new)
       ELSE SelectNeighbors(vectors, base, ByDistance(q, Range(current) \cup {new}), MaxLinks(level))

\* commit_links.
CommitLinks(graph, vectors, node, plan) ==
    LET own == [graph EXCEPT !.links = [at \in DOMAIN graph.links |->
                  IF at[1] = node /\ at[2] \in DOMAIN plan THEN plan[at[2]] ELSE graph.links[at]]]
        back(g, pair) == [g EXCEPT !.links[<<pair[1], pair[2]>>] = AddReverseLink(g, vectors, pair[1], node, pair[2])]
        pairs == FlattenSeq([i \in 1..Cardinality(DOMAIN plan) |-> [j \in DOMAIN plan[i - 1] |-> <<plan[i - 1][j], i - 1>>]])
    IN FoldLeft(back, own, pairs)

\* build_parallel: the entry is the first node of the top level; after the warm-up rows, rows
\* are planned and committed by the threads of a pool, so a plan may miss the rows that other
\* threads are about to commit: plan i was made after at most `seen` commits.
Layout(n) ==
    LET level == [i \in 1..n |-> DrawnLevel[i]]
        top == Max(Range(level))
    IN [n |-> n, level |-> level, top |-> top, entry |-> Min({i \in 1..n : level[i] = top}),
        links |-> [at \in {<<i, l>> \in (1..n) \X (0..top) : l <= level[i]} |-> <<>>]]
BuildParallel(vectors, seen) ==
    LET layout == Layout(Len(vectors))
        order == SelectSeq([i \in DOMAIN vectors |-> i], LAMBDA i : i # layout.entry)
        insert(states, i) ==
          LET node == order[i]
              planned == IF i <= Warmup THEN i ELSE Min({i, seen + 1})
          IN Append(states, CommitLinks(states[i], vectors, node, PlanLinks(states[planned], vectors, node)))
    IN Last(FoldLeft(insert, <<layout>>, [i \in DOMAIN order |-> i]))

\* decode_body and decode_level: what from_bytes accepts.
HnswValid(graph) ==
    /\ graph.top = Max(Range(graph.level)) /\ graph.entry \in 1..graph.n /\ graph.level[graph.entry] = graph.top
    /\ \A at \in DOMAIN graph.links :
         /\ Len(graph.links[at]) <= MaxLinks(at[2])
         /\ \A next \in Range(graph.links[at]) : next \in (1..graph.n) \ {at[1]} /\ graph.level[next] >= at[2]

----------------------------------------------------------------------------
(* Searching.                                                              *)

\* SearchCursor::start, advance, top_k and is_exhausted.
CursorStart(graph, q, filter) ==
    LET seeds(down) == down.entries \o (IF down.match = NoNode THEN <<>> ELSE <<down.match>>)
    IN SeedAll(Beam, seeds(Descend(graph, q, filter, 1, graph.top, graph.entry)), filter)
CursorAdvance(graph, q, filter, acorn, ef, beam) ==
    LET widened == Trim(q, [beam EXCEPT !.results = @ \cup beam.evicted, !.evicted = {}, !.deferred = {}, !.hops = <<>>], ef)
        offered == FoldLeft(LAMBDA b, node : Offer(q, b, node, node \in filter, ef), widened, ByDistance(q, beam.deferred))
        hopped == FoldLeft(LAMBDA s, hop : ExpandHop(graph, q, filter, ef, s, hop), [beam |-> offered, found |-> 0], beam.hops)
    IN Walk(graph, 0, q, filter, acorn, ef, hopped.beam)
CursorTop(q, beam, k) ==
    LET hits == ByDistance(q, beam.results) IN SubSeq(hits, 1, Min({k, Len(hits)}))
CursorExhausted(beam) ==
    beam.frontier = {} /\ beam.deferred = {} /\ Range(beam.hops) \subseteq beam.visited
=============================================================================
