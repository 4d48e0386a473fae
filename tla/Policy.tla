------------------------------- MODULE Policy -------------------------------
(***************************************************************************)
(* The compaction policy (logpose-storage/src/compaction.rs): which        *)
(* segments a background, quiet or explicit compaction merges, and what    *)
(* memory a job reserves.  A candidate is a segment as the policy sees it: *)
(* [unit, rows, deleted, len].                                             *)
(***************************************************************************)
EXTENDS Integers, Sequences, FiniteSets, SequencesExt, FiniteSetsExt, Functions

CONSTANTS
    BaseRows, TierRatio,            \* tier boundaries
    MinMerge, MaxMerge,             \* inputs of a tiered job
    MaxOutputRows, MaxOutputBytes,  \* limits of one output
    DeletedPercent,                 \* deleted_ratio of a large segment, in percent
    SmallDeletedPercent,            \* small_deleted_ratio, in percent
    SmallDeletedRows,
    GraphMinRows,                   \* rows from which a graph is built at once
    PoolBytes,                      \* the maintenance-memory pool
    Background,                     \* whether background maintenance is on
    VectorFields, VectorDims, IndexedScalars    \* RowShape

ASSUME PolicyAssumption ==
    /\ BaseRows \in Nat \ {0} /\ TierRatio \in Nat \ {0, 1}
    /\ MinMerge \in Nat /\ MinMerge >= 2 /\ MaxMerge \in Nat /\ MaxMerge >= 2
    /\ MaxOutputRows \in Nat /\ MaxOutputBytes \in Nat /\ PoolBytes \in Nat
    /\ Background \in BOOLEAN
    /\ GraphMinRows \in Nat
    /\ VectorFields \in Nat /\ VectorDims \in Nat /\ IndexedScalars \in Nat

GraphBytesPerRowOfField == 3 * 141 + 64 + 32

IndexBytesPerRow == VectorDims * 2 + IndexedScalars * 32

GraphBytesPerRow == VectorDims * 4 + VectorFields * GraphBytesPerRowOfField

IndexBuildBytes(rows) == rows * GraphBytesPerRow

FlushBuildBytes(slots, payload) == payload + slots * IndexBytesPerRow

Live(c) == IF c.deleted > c.rows THEN 0 ELSE c.rows - c.deleted

AddLive(n, c) == n + Live(c)
LiveSum(cs) == FoldLeft(AddLive, 0, cs)

\* Rows copied out at their share of the input file plus index sections, and
\* the largest input, which is read whole.
AtLeastOne(n) == IF n = 0 THEN 1 ELSE n
AddCopied(n, c) == n + Live(c) * (c.len \div AtLeastOne(c.rows) + IndexBytesPerRow)
BuildBytes(cs) == FoldLeft(AddCopied, 0, cs) + Max({0} \cup {cs[i].len : i \in DOMAIN cs})

\* tier_with: tier t holds base*ratio^(t-1) <= live < base*ratio^t.
Tier(live) == Cardinality({t \in 0..live : live \div TierRatio^t >= BaseRows})

-----------------------------------------------------------------------------
\* Whether `next` may join the candidates already taken for one job.
Fits(taken, next, mergeLimit, memoryCap) ==
    LET all == Append(taken, next)
        rows == LiveSum(all)
    IN /\ Len(all) <= mergeLimit
       /\ rows <= MaxOutputRows
       /\ rows * VectorDims * 4 <= MaxOutputBytes
       /\ rows * GraphBytesPerRow <= PoolBytes
       /\ BuildBytes(all) <= memoryCap

PlanOf(taken) ==
    [inputs |-> {taken[i].unit : i \in DOMAIN taken}, bytes |-> BuildBytes(taken),
     live |-> LiveSum(taken)]

FitsPool(plan) == plan.bytes <= PoolBytes /\ plan.live * GraphBytesPerRow <= PoolBytes

\* Mutant: a segment without deleted rows counts once it is small.
TooDeletedEmpty(c) ==
    IF c.rows >= BaseRows THEN 100 * c.deleted >= DeletedPercent * c.rows
    ELSE c.deleted <= SmallDeletedRows

TooDeleted(c) ==
    /\ c.deleted > 0
    /\ IF c.rows >= BaseRows THEN 100 * c.deleted >= DeletedPercent * AtLeastOne(c.rows)
       ELSE /\ c.deleted >= SmallDeletedRows
            /\ 100 * c.deleted >= SmallDeletedPercent * AtLeastOne(c.rows)

Free(segments, reserved) == {c \in segments : c.unit \notin reserved}

\* The members of a set in the order of a relation.
InOrder(S, less) ==
    [i \in 1..Cardinality(S) |->
       CHOOSE c \in S : Cardinality({d \in S : <<d, c>> \in less}) = i - 1]

ByUnit(cs) == InOrder(cs, {p \in cs \X cs : p[1].unit < p[2].unit})

Smaller(a, b) == Live(a) < Live(b) \/ (Live(a) = Live(b) /\ a.unit < b.unit)
SmallestFirst(cs) == InOrder(cs, {p \in cs \X cs : Smaller(p[1], p[2])})

\* The longest prefix in which every candidate fits those before it.
TakeWhileFits(cs, memoryCap) ==
    SubSeq(cs, 1, Max({n \in 0..Len(cs) :
                         \A i \in 1..n : Fits(SubSeq(cs, 1, i - 1), cs[i], MaxMerge, memoryCap)}))

\* Deletion-driven rewrites: the segment with most deleted rows, alone when
\* it is small, else with the smaller segments of its tier and below.
Heaviest(heavies) ==
    CHOOSE c \in heavies : \A d \in heavies :
        d.deleted < c.deleted \/ (d.deleted = c.deleted /\ c.unit <= d.unit)

JoinHeavy(got, c) ==
    IF Len(got) < MinMerge /\ Fits(got, c, MaxMerge, PoolBytes \div 2) THEN Append(got, c) ELSE got

WithSmaller(heavy, rest) ==
    IF heavy.rows < BaseRows THEN <<heavy>>
    ELSE FoldLeft(JoinHeavy, <<heavy>>,
                  SmallestFirst({c \in rest : Tier(Live(c)) <= Tier(Live(heavy))}))

\* What a job takes is planned and no longer free.
Planned(state, taken) ==
    [plans |-> Append(state.plans, PlanOf(taken)), free |-> state.free \ ToSet(taken)]

\* A heavy segment that does not even fit alone is left out of all plans.
RewriteHeavy(state, heavy) ==
    IF Fits(<<>>, heavy, MaxMerge, PoolBytes)
    THEN Planned(state, WithSmaller(heavy, state.free \ {heavy}))
    ELSE [state EXCEPT !.free = @ \ {heavy}]

RewriteNext(state, slots) ==
    LET heavies == {c \in state.free : TooDeleted(c)}
    IN IF Len(state.plans) = slots \/ heavies = {} THEN state ELSE RewriteHeavy(state, Heaviest(heavies))

Times(n) == [i \in 1..n |-> i]

DeletionPlans(free, slots) ==
    FoldLeft(LAMBDA state, i : RewriteNext(state, slots), [plans |-> <<>>, free |-> free], Times(Cardinality(free)))

\* Jobs from one ordered list, each as many members as fit, at least two, until `slots` jobs
\* are planned.
MergeTaken(state, taken) ==
    IF Len(taken) < 2 THEN state
    ELSE [plans |-> Append(state.plans, PlanOf(taken)),
          members |-> SubSeq(state.members, Len(taken) + 1, Len(state.members))]

MergeNext(state, atLeast, slots) ==
    IF Len(state.plans) = slots \/ Len(state.members) < atLeast THEN state
    ELSE MergeTaken(state, TakeWhileFits(state.members, PoolBytes \div 2))

MergePlans(plans, members, atLeast, slots) ==
    FoldLeft(LAMBDA state, i : MergeNext(state, atLeast, slots), [plans |-> plans, members |-> members],
             Times(slots)).plans

\* Policy::plan: deletion-driven first, then tiers from the lowest.
TierOf(free, t) == {c \in free : Tier(Live(c)) = t}

TierPlans(first, slots) ==
    FoldLeft(LAMBDA plans, t : MergePlans(plans, ByUnit(TierOf(first.free, t - 1)), MinMerge, slots),
             first.plans, Times(1 + Max({0} \cup {Tier(Live(c)) : c \in first.free})))

Plan(segments, reserved, slots) ==
    IF ~Background THEN <<>> ELSE TierPlans(DeletionPlans(Free(segments, reserved), slots), slots)

\* Policy::plan_quiet: segments too small for a graph are merged once writes
\* have stopped.
PlanQuiet(segments, reserved, slots) ==
    IF ~Background THEN <<>>
    ELSE MergePlans(<<>>, SmallestFirst({c \in Free(segments, reserved) : Live(c) < GraphMinRows}),
                    2, slots)

\* Policy::plan_explicit: smallest first, at least two if there are two; a
\* lone segment only for its deleted rows.  <<>> for no plan.
ExplicitPlan(taken) == IF taken = <<>> \/ (Len(taken) = 1 /\ taken[1].deleted = 0) THEN <<>> ELSE <<PlanOf(taken)>>
PlanOfFree(free) ==
    LET n == Max({n \in 0..Len(free) :
                    \A i \in 3..n : Fits(SubSeq(free, 1, i - 1), free[i], Len(free), PoolBytes)})
    IN ExplicitPlan(SubSeq(free, 1, n))
PlanExplicit(segments, reserved) == PlanOfFree(SmallestFirst(Free(segments, reserved)))
=============================================================================
