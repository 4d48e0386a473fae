-------------------------------- MODULE Rows --------------------------------
(***************************************************************************)
(* The logical state of one collection (logpose-storage: writer/apply.rs,  *)
(* writer/mod.rs, writer/pk_index.rs, recovery.rs): memtables, segments,   *)
(* deletion vectors and the writer's primary-key index, as one record that *)
(* writes, jobs and recovery change through the same operators.            *)
(*                                                                         *)
(* A row is the sequence number of the put that wrote it; an address is a  *)
(* unit and a row position.  A row's values are not kept: the sequence     *)
(* number stands for them.                                                 *)
(***************************************************************************)
EXTENDS Integers, Sequences, FiniteSets, SequencesExt, FiniteSetsExt, Functions

CONSTANTS
    Keys            \* the primary keys

NoAddr == <<0, 0>>          \* no entry: unit ids start at 1
Dropped == 0                \* u32::MAX in a row map: the row was not copied

\* `f` with `v` at `k`, and `f` with the entries of `g` where it has none.
With(f, k, v) == [x \in DOMAIN f \cup {k} |-> IF x = k THEN v ELSE f[x]]
Extend(f, g) == [x \in DOMAIN f \cup DOMAIN g |-> IF x \in DOMAIN f THEN f[x] ELSE g[x]]

\* The operations of the log: a put, a delete, a schema change.
Ops == [kind : {"put", "delete"}, key : Keys, schema : Nat]
         \cup [kind : {"alter"}, schema : Nat]

(***************************************************************************)
(* The reference: what a log of operations means to a reader.              *)
(***************************************************************************)

\* The sequence number of the row each key holds after `log`, 0 for none.
Meaning(log) ==
    [k \in Keys |->
        LET touch == {s \in 1..Len(log) : log[s].kind # "alter" /\ log[s].key = k}
        IN IF touch = {} \/ log[Max(touch)].kind = "delete" THEN 0 ELSE Max(touch)]

-----------------------------------------------------------------------------
(***************************************************************************)
(* The state: `active` and `frozen` memtables, the segments with their     *)
(* rows, the deletion vectors, and the primary-key index with forwarding   *)
(* tables and rewrite tasks.                                               *)
(***************************************************************************)

NewMemtable(unit, first) == [unit |-> unit, first |-> first, last |-> first - 1, rows |-> <<>>]

HasOps(memtable) == memtable.last >= memtable.first

NewState(schema, unit, first, segs, deletes, pk) ==
    [schema |-> schema, active |-> NewMemtable(unit, first), frozen |-> <<>>,
     segs |-> segs, deletes |-> deletes, pk |-> pk, forwards |-> <<>>, rewrites |-> <<>>,
     total |-> FoldFunctionOnSet(+, 0, [u \in DOMAIN segs |-> Len(segs[u].rows)], DOMAIN segs),
     deleted |-> FoldFunctionOnSet(+, 0, [u \in DOMAIN deletes |-> Cardinality(deletes[u])],
                                   DOMAIN deletes)]

Memtables(m) == ToSet(m.frozen) \cup {m.active}

Units(m) == DOMAIN m.segs \cup {t.unit : t \in Memtables(m)}

RowsOf(m, unit) ==
    IF unit \in DOMAIN m.segs THEN m.segs[unit].rows
    ELSE (CHOOSE t \in Memtables(m) : t.unit = unit).rows

DeletesOf(m, unit) == IF unit \in DOMAIN m.deletes THEN m.deletes[unit] ELSE {}

\* The addresses of the live rows across all units.
LiveRows(m) ==
    UNION {{u} \X ((1..Len(RowsOf(m, u))) \ DeletesOf(m, u)) : u \in Units(m)}

RowAt(m, addr) == RowsOf(m, addr[1])[addr[2]]

\* What a read of key k returns: the sequence number of its live row.
Reads(m) ==
    LET live == {RowAt(m, a) : a \in LiveRows(m)}
    IN [k \in Keys |-> IF \E row \in live : row.key = k
                       THEN (CHOOSE row \in live : row.key = k).seq ELSE 0]

\* Version::recount.
Recount(m) ==
    [total |-> FoldFunctionOnSet(+, 0, [u \in Units(m) |-> Len(RowsOf(m, u))], Units(m)),
     deleted |-> FoldFunctionOnSet(+, 0, [u \in DOMAIN m.deletes |-> Cardinality(m.deletes[u])],
                                   DOMAIN m.deletes)]

-----------------------------------------------------------------------------
(* The primary-key index. *)

\* PkIndex::resolve: the entry, followed through the forwarding tables.
\* "violation" when a table says the row was not copied.
Resolve(m, k) ==
    LET Follow[addr \in Nat \X Nat] ==
            IF addr[1] \notin DOMAIN m.forwards THEN addr
            ELSE LET row == m.forwards[addr[1]].map[addr[2]]
                 IN IF row = Dropped THEN <<addr[1], 0>>
                    ELSE Follow[<<m.forwards[addr[1]].target, row>>]
    IN Follow[m.pk[k]]

IsViolation(addr) == addr # NoAddr /\ addr[2] = 0

\* PkIndex::retire: forwarding for the retired units, and a rewrite task.
Retire(m, forwards, target, rows) ==
    [m EXCEPT !.forwards = Extend(@, forwards),
              !.rewrites = Append(@, [target |-> target, rows |-> rows, next |-> 1,
                                      retires |-> DOMAIN forwards])]

\* Mutant: an entry is repointed although its key has moved on.
RewriteSliceBlind(m) ==
    LET task == Head(m.rewrites)
        done == task.next = Len(task.rows)
    IN [m EXCEPT !.pk[task.rows[task.next].key] = <<task.target, task.next>>,
                 !.forwards = IF done THEN Restrict(@, DOMAIN @ \ task.retires) ELSE @,
                 !.rewrites = IF done THEN Tail(@) ELSE [m.rewrites EXCEPT ![1].next = task.next + 1]]

\* PkIndex::rewrite_slice with a budget of one row: repoint the entry of the
\* front task's next row if it still is the row's old address; a task that
\* finished drops its forwarding tables.
RewriteSlice(m) ==
    LET task == Head(m.rewrites)
        row  == task.rows[task.next]
        pk   == IF m.pk[row.key] = row.source
                THEN [m.pk EXCEPT ![row.key] = <<task.target, task.next>>]
                ELSE m.pk
        done == task.next = Len(task.rows)
    IN [m EXCEPT !.pk = pk,
                 !.forwards = IF done THEN Restrict(@, DOMAIN @ \ task.retires) ELSE @,
                 !.rewrites = IF done THEN Tail(@) ELSE [m.rewrites EXCEPT ![1].next = task.next + 1]]

-----------------------------------------------------------------------------
(* Applying operations (the live writer and replay alike). *)

\* LogicalState::mark.
Mark(m, addr) ==
    LET now == DeletesOf(m, addr[1])
    IN IF addr[2] \in now THEN m
       ELSE [m EXCEPT !.deletes = With(@, addr[1], now \cup {addr[2]}), !.deleted = @ + 1]

\* A violation is counted and treated as absent (LogicalState::resolve).
Found(m, k) == LET addr == Resolve(m, k) IN IF IsViolation(addr) THEN NoAddr ELSE addr

ApplyPut(m, s, k) ==
    LET old    == Found(m, k)
        pushed == [m EXCEPT !.active.rows = Append(@, [key |-> k, seq |-> s]),
                            !.active.last = s, !.total = @ + 1]
        marked == IF old = NoAddr THEN pushed ELSE Mark(pushed, old)
    IN [marked EXCEPT !.pk[k] = <<m.active.unit, Len(m.active.rows) + 1>>]

ApplyDelete(m, s, k) ==
    LET old    == Found(m, k)
        marked == IF old = NoAddr THEN m ELSE [Mark(m, old) EXCEPT !.pk[k] = NoAddr]
    IN [marked EXCEPT !.active.last = s]

ApplySchema(m, s, version) ==
    [m EXCEPT !.schema = IF version = @ + 1 THEN version ELSE @, !.active.last = s]

\* Whether `apply` accepts a frame: no batch from the future, no schema gap.
Applies(m, op) ==
    IF op.kind = "alter" THEN op.schema <= m.schema + 1 ELSE op.schema <= m.schema

Apply(m, s, op) ==
    CASE op.kind = "put"    -> ApplyPut(m, s, op.key)
      [] op.kind = "delete" -> ApplyDelete(m, s, op.key)
      [] OTHER              -> ApplySchema(m, s, op.schema)

-----------------------------------------------------------------------------
(* Installing a durable job in the writer state. *)

FreezeState(m, unit) ==
    [m EXCEPT !.frozen = Append(@, m.active), !.active = NewMemtable(unit, m.active.last + 1)]

\* row_map: old row to new row for the rows that were kept.
RowMap(n, kept) ==
    [r \in 1..n |-> IF r \in kept THEN Cardinality({q \in kept : q <= r}) ELSE Dropped]

Kept(map) == {r \in DOMAIN map : map[r] # Dropped}

SourceOf(map, new) == CHOOSE r \in DOMAIN map : map[r] = new

\* Mutant: the deletions of the units that go are not subtracted.
WithoutUnitsUncounted(m, units) ==
    [m EXCEPT !.segs = Restrict(@, DOMAIN @ \ units),
              !.frozen = SelectSeq(@, LAMBDA t : t.unit \notin units),
              !.deletes = Restrict(@, DOMAIN @ \ units),
              !.total = @ - FoldFunctionOnSet(+, 0, [u \in units |-> Len(RowsOf(m, u))], units)]

WithoutUnits(m, units) ==
    LET gone == FoldFunctionOnSet(+, 0, [u \in units |-> Len(RowsOf(m, u))], units)
        bits == FoldFunctionOnSet(+, 0, [u \in units |-> Cardinality(DeletesOf(m, u))], units)
    IN [m EXCEPT !.segs = Restrict(@, DOMAIN @ \ units),
                 !.frozen = SelectSeq(@, LAMBDA t : t.unit \notin units),
                 !.deletes = Restrict(@, DOMAIN @ \ units),
                 !.total = @ - gone, !.deleted = @ - bits]

WithSegment(m, unit, rows, bits) ==
    [m EXCEPT !.segs = With(@, unit, [rows |-> rows, index |-> 0]),
              !.deletes = IF bits = {} THEN @ ELSE With(@, unit, bits),
              !.total = @ + Len(rows), !.deleted = @ + Cardinality(bits)]

\* Mutant: the output starts with no deletions.
MappedNone(m, unit, map) == {}

\* The deletions of `unit` now, where they are after `map`.
Mapped(m, unit, map) == {map[r] : r \in DeletesOf(m, unit) \cap Kept(map)}

InstallFlush(m, unit, memtable, map, rows) ==
    LET late == Mapped(m, memtable, map)
        with == WithSegment(WithoutUnits(m, {memtable}), unit, rows, late)
    IN IF rows = <<>> THEN WithoutUnits(m, {memtable})
       ELSE Retire(with, [u \in {memtable} |-> [target |-> unit, map |-> map]], unit,
                   [o \in 1..Len(rows) |->
                       [key |-> rows[o].key, source |-> <<memtable, SourceOf(map, o)>>]])

InstallCompaction(m, unit, maps, rows, reconciled) ==
    LET inputs == DOMAIN maps
        with == WithSegment(WithoutUnits(m, inputs), unit, rows, reconciled)
        From(o) == CHOOSE a \in UNION {{u} \X Kept(maps[u]) : u \in inputs} : maps[a[1]][a[2]] = o
    IN IF rows = <<>> THEN WithoutUnits(m, inputs)
       ELSE Retire(with, [u \in inputs |-> [target |-> unit, map |-> maps[u]]], unit,
                   [o \in 1..Len(rows) |-> [key |-> rows[o].key, source |-> From(o)]])

InstallIndex(m, segment, index) == [m EXCEPT !.segs[segment].index = index]

-----------------------------------------------------------------------------
(* Recovery. *)

\* rebuild_pk_index: the live row of each key; of two live rows the newer
\* wins and the other is deleted.
RebuildPk(segs, deletes) ==
    LET Alive(u) == {r \in 1..Len(segs[u].rows) : ~ (u \in DOMAIN deletes /\ r \in deletes[u])}
        live == UNION {{u} \X Alive(u) : u \in DOMAIN segs}
        At(a) == segs[a[1]].rows[a[2]]
        newest == {a \in live : \A b \in live :
                      At(b).key = At(a).key => At(b).seq <= At(a).seq}
    IN [pk |-> [k \in Keys |-> IF \E a \in newest : At(a).key = k
                               THEN CHOOSE a \in newest : At(a).key = k ELSE NoAddr],
        repaired |-> live \ newest]

\* recover_wal: the frames above the checkpoint, applied in order.
Replayed(m, log, checkpoint) ==
    FoldLeft(LAMBDA st, s : IF s <= checkpoint THEN st ELSE Apply(st, s, log[s]), m,
             [s \in 1..Len(log) |-> s])

\* Whether replay meets no corruption: `apply` accepts every frame.
ReplayApplies(m, log, checkpoint) ==
    \A s \in (checkpoint + 1)..Len(log) :
        Applies(Replayed(m, SubSeq(log, 1, s - 1), checkpoint), log[s])
=============================================================================
