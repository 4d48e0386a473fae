----------------------------- MODULE StorageProofs --------------------------
(***************************************************************************)
(* No file that something still reads is removed, and no file is created   *)
(* under a name that exists: for every set of keys, and for any number of  *)
(* writes, jobs, readers, crashes and recoveries.  The counters are above  *)
(* every name on disk and every name a running job has, after a recovery   *)
(* as before the crash; so the files of a job are nobody else's, and a     *)
(* file leaves the removal queue only when no version reaches it.          *)
(***************************************************************************)
EXTENDS Storage, FiniteSetTheorems, TLAPS

-----------------------------------------------------------------------------
(* The invariant. *)

\* A file name that some counter has handed out, or may hand out.
Names ==
    ({"segment", "manifest"} \X Nat \X {0}) \cup ({"dv", "index"} \X Nat \X Nat)

\* The unit of a job that writes the name of a segment or of a sidecar.
BornBelow(names, limit) ==
    \A n \in names : /\ n[1] = "segment" => n[2] \in 0..(limit - 1)
                     /\ n[1] = "index" => n[3] \in 0..(limit - 1)
DvsBelow(names, limit) == \A n \in names : n[1] = "dv" => n[3] \in 0..(limit - 1)
GensBelow(names, limit) == \A n \in names : n[1] = "manifest" => n[2] \in 0..(limit - 1)

\* The name a job's output gets.
Output(j) == IF j.kind = "index" THEN Index(j.target, j.unit) ELSE Segment(j.unit)

\* The job's output file is written: a flush or compaction without a row
\* left writes none.
HasOutput(j) ==
    CASE j.kind = "index" -> TRUE
      [] OTHER -> OutputRows(j) # <<>>

\* The fields that actions change in place exist, with the types that names
\* are made of.
IsState(m) ==
    /\ "segs" \in DOMAIN m /\ m.segs = [u \in DOMAIN m.segs |-> m.segs[u]]
    /\ IsFiniteSet(DOMAIN m.segs)
    /\ \A u \in DOMAIN m.segs : u \in Nat /\ "index" \in DOMAIN m.segs[u] /\ m.segs[u].index \in Nat

\* The counters a manifest carries to the next recovery.
IsManifest(man) ==
    {"unit", "dv"} \subseteq DOMAIN man /\ man.unit \in Nat /\ man.dv \in Nat

\* A job in one of its three kinds: its unit, what it holds while it builds, and the
\* generations of the DV files a flush writes.
IsJob(j) ==
    /\ {"kind", "unit", "built", "holds", "dvs"} \subseteq DOMAIN j
    /\ j.kind \in {"flush", "compact", "index"} /\ j.unit \in Nat /\ j.built \in BOOLEAN
    /\ j.kind = "index" => {"target", "cancelled"} \subseteq DOMAIN j /\ j.target \in Nat
    /\ j.kind # "index" => "maps" \in DOMAIN j
    /\ j.kind = "flush" => "memtable" \in DOMAIN j
    /\ IsFiniteSet(DOMAIN j.dvs) /\ (j.kind # "flush" => DOMAIN j.dvs = {})
    /\ \A u \in DOMAIN j.dvs : u \in Nat /\ j.dvs[u].gen \in Nat

\* A manifest is written, and may be renamed, but is not known to be durable.
Publishing == publish.step \in {"written", "renamed"}

\* The types of what file names and counters are made of.
ShapeInv ==
    /\ phase \in {"open", "poisoned", "closed", "cleaned"}
    /\ present \subseteq Names /\ IsFiniteSet(present)
    /\ removed \subseteq Names /\ IsFiniteSet(removed)
    /\ ids \in [prev : Nat, gen : Nat, unit : Nat, dv : Nat]
    /\ gen \in Nat /\ current \in Nat \ {0} /\ cached \in Nat \ {0}
    /\ IsState(mem)
    /\ IsFiniteSet(jobs) /\ \A j \in jobs : IsJob(j)
    /\ \E S : ops \in Seq(S)
    /\ publish.step \in {"none", "written", "renamed", "truncate"}
    /\ publish.step = "none" => publish = NoPublish
    /\ \A n \in present \cup removed : n[1] = "manifest" => n \in DOMAIN store /\ IsManifest(store[n])

\* A collection that is not open holds nothing.
DownInv ==
    phase \in {"closed", "cleaned"} =>
        /\ jobs = {} /\ readers = {} /\ trash = {} /\ obsolete = {}
        /\ group = NoGroup /\ publish = NoPublish /\ mem.segs = <<>>

\* The prepared group changed no segment; a publish runs alone, on an open
\* collection, for a job that is built.
StageInv ==
    /\ group # NoGroup => IsState(group.save) /\ group.save.segs = mem.segs
    /\ publish # NoPublish => phase = "open" /\ group = NoGroup
    /\ Publishing =>
        /\ {"step", "job", "gen"} \subseteq DOMAIN publish
        /\ publish.job \in jobs /\ publish.job.built
        /\ publish.gen \in Nat \ {0, gen, ids.prev} /\ publish.gen < ids.gen
        /\ Mf(publish.gen) \in present \ trash

\* Every counter is above the names it gave out.
CounterInv ==
    phase # "closed" =>
        /\ BornBelow(present, ids.unit) /\ DvsBelow(present, ids.dv) /\ GensBelow(present, ids.gen)
        /\ BornBelow(trash \cup obsolete, ids.unit) /\ GensBelow(trash, ids.gen)
        /\ \A j \in jobs : j.unit < ids.unit /\ \A u \in DOMAIN j.dvs : j.dvs[u].gen < ids.dv
        /\ gen \in Nat \ {0, ids.prev} /\ gen < ids.gen /\ ids.prev < ids.gen
        /\ Mf(gen) \in present \ trash

\* Jobs write different files, which nobody has, and which exist once built.
JobInv ==
    /\ \A i, j \in jobs : i.unit = j.unit \/ (i.kind = "flush" /\ j.kind = "flush") => i = j
    /\ \A j \in jobs :
        /\ Output(j) \notin trash \cup obsolete \cup Holders
        /\ j.built /\ HasOutput(j) => Output(j) \in present
        /\ ~j.built => JobFiles(j) \cap present = {}

\* What is held is on disk and not in the removal queue.
HeldInv == Holders \subseteq present \ trash /\ \A n \in Holders \cup obsolete : n[1] \in {"segment", "index"}

\* The invariant: what every step of the collection preserves.
IInv == ShapeInv /\ DownInv /\ StageInv /\ CounterInv /\ JobInv /\ HeldInv

-----------------------------------------------------------------------------
(* What the operators of Rows do to the segments. *)

\* Applying an operation changes no segment.
LEMMA ApplyKeepsSegments ==
    ASSUME NEW m, IsState(m), NEW s, NEW op
    PROVE  IsState(Apply(m, s, op)) /\ Apply(m, s, op).segs = m.segs
<1>1. ASSUME NEW x, IsState(x), NEW addr
      PROVE  IsState(Mark(x, addr)) /\ Mark(x, addr).segs = x.segs
    BY <1>1 DEF Mark, IsState
<1>2. CASE op.kind = "put"
  <2> DEFINE old == Found(m, op.key)
             pushed == [m EXCEPT !.active.rows = Append(@, [key |-> op.key, seq |-> s]),
                                 !.active.last = s, !.total = @ + 1]
             marked == IF old = NoAddr THEN pushed ELSE Mark(pushed, old)
  <2>1. IsState(pushed) /\ pushed.segs = m.segs
      BY DEF IsState
  <2> HIDE DEF pushed, old
  <2>2. IsState(marked) /\ marked.segs = m.segs
      BY <2>1, <1>1
  <2>3. Apply(m, s, op) = [marked EXCEPT !.pk[op.key] = <<m.active.unit, Len(m.active.rows) + 1>>]
      BY <1>2 DEF Apply, ApplyPut, pushed, old
  <2> HIDE DEF marked
  <2>4. QED
      BY <2>2, <2>3 DEF IsState
<1>3. CASE op.kind = "delete"
  <2> DEFINE old == Found(m, op.key)
             marked == IF old = NoAddr THEN m ELSE [Mark(m, old) EXCEPT !.pk[op.key] = NoAddr]
  <2>1. IsState(Mark(m, old)) /\ Mark(m, old).segs = m.segs
      BY <1>1
  <2>2. IsState(marked) /\ marked.segs = m.segs
      BY <2>1 DEF IsState
  <2>3. Apply(m, s, op) = [marked EXCEPT !.active.last = s]
      BY <1>3 DEF Apply, ApplyDelete
  <2> HIDE DEF marked
  <2>4. QED
      BY <2>2, <2>3 DEF IsState
<1>4. CASE op.kind \notin {"put", "delete"}
  <2>1. Apply(m, s, op) = ApplySchema(m, s, op.schema)
      BY <1>4 DEF Apply
  <2>2. QED
      BY <2>1 DEF ApplySchema, IsState
<1>5. QED
    BY <1>2, <1>3, <1>4

\* Rewriting the slice of the active memtable changes no segment.
LEMMA RewriteKeepsSegments ==
    ASSUME NEW m, IsState(m)
    PROVE  IsState(RewriteSlice(m)) /\ RewriteSlice(m).segs = m.segs
BY DEF RewriteSlice, IsState

\* Freezing the active memtable changes no segment.
LEMMA FreezeKeepsSegments ==
    ASSUME NEW m, IsState(m), NEW unit
    PROVE  IsState(FreezeState(m, unit)) /\ FreezeState(m, unit).segs = m.segs
BY DEF FreezeState, IsState

\* What may be in the segments after a change: old ones, and one new name.
Grows(m, n, file) == IsState(n) /\ VersionOf(n) \subseteq VersionOf(m) \cup file

\* Taking units out adds no file.
LEMMA WithoutUnitsRestricts ==
    ASSUME NEW m, IsState(m), NEW units
    PROVE  Grows(m, WithoutUnits(m, units), {})
<1> DEFINE n == WithoutUnits(m, units)
<1>1. "segs" \in DOMAIN n /\ n.segs = [u \in DOMAIN m.segs \ units |-> m.segs[u]]
    BY DEF WithoutUnits, IsState, Restrict
<1>2. IsFiniteSet(DOMAIN m.segs \ units)
    BY FS_Subset DEF IsState
<1> HIDE DEF n
<1>3. DOMAIN n.segs = DOMAIN m.segs \ units /\ \A u \in DOMAIN n.segs : n.segs[u] = m.segs[u]
    BY <1>1
<1>4. IsState(n)
    BY <1>1, <1>2, <1>3 DEF IsState
<1>5. VersionOf(n) \subseteq VersionOf(m)
    BY <1>3 DEF VersionOf
<1>6. QED
    BY <1>4, <1>5 DEF Grows, n

\* A new segment adds its own file and no other.
LEMMA WithSegmentAdds ==
    ASSUME NEW m, IsState(m), NEW unit \in Nat, NEW rows, NEW bits
    PROVE  Grows(m, WithSegment(m, unit, rows, bits), {Segment(unit)})
<1> DEFINE n == WithSegment(m, unit, rows, bits)
           seg == [rows |-> rows, index |-> 0]
<1>1. "segs" \in DOMAIN n /\ n.segs = With(m.segs, unit, seg)
    BY DEF WithSegment, IsState
<1>2. IsFiniteSet({unit} \cup DOMAIN m.segs)
    BY FS_AddElement DEF IsState
<1>3. seg.index = 0 /\ "index" \in DOMAIN seg
    OBVIOUS
<1> HIDE DEF n, seg
<1>4. /\ DOMAIN n.segs = {unit} \cup DOMAIN m.segs
      /\ n.segs = [u \in DOMAIN n.segs |-> n.segs[u]]
      /\ n.segs[unit] = seg /\ \A u \in DOMAIN m.segs \ {unit} : n.segs[u] = m.segs[u]
    BY <1>1 DEF With
<1>5. IsState(n)
    BY <1>1, <1>2, <1>3, <1>4 DEF IsState
<1>6. VersionOf(n) \subseteq VersionOf(m) \cup {Segment(unit)}
    BY <1>3, <1>4 DEF VersionOf
<1>7. QED
    BY <1>5, <1>6 DEF Grows, n

\* Moving deletions to the units that took the rows changes no segment.
LEMMA RetireKeepsSegments ==
    ASSUME NEW m, IsState(m), NEW forwards, NEW target, NEW rows
    PROVE  IsState(Retire(m, forwards, target, rows)) /\ Retire(m, forwards, target, rows).segs = m.segs
BY DEF Retire, IsState

\* An installed flush adds its segment, or nothing when no row was left.
LEMMA InstallFlushGrows ==
    ASSUME NEW m, IsState(m), NEW unit \in Nat, NEW memtable, NEW map, NEW rows
    PROVE  Grows(m, InstallFlush(m, unit, memtable, map, rows), IF rows = <<>> THEN {} ELSE {Segment(unit)})
<1> DEFINE out == WithoutUnits(m, {memtable})
           with == WithSegment(out, unit, rows, Mapped(m, memtable, map))
<1>1. Grows(m, out, {})
    BY WithoutUnitsRestricts
<1>2. Grows(out, with, {Segment(unit)})
    BY <1>1, WithSegmentAdds DEF Grows
<1>3. CASE rows = <<>>
    BY <1>1, <1>3 DEF InstallFlush
<1>4. CASE rows # <<>>
  <2> HIDE DEF with, out
  <2>1. PICK f, r : InstallFlush(m, unit, memtable, map, rows) = Retire(with, f, unit, r)
    <3> DEFINE f == [u \in {memtable} |-> [target |-> unit, map |-> map]]
               r == [o \in 1..Len(rows) |-> [key |-> rows[o].key, source |-> <<memtable, SourceOf(map, o)>>]]
    <3>1. InstallFlush(m, unit, memtable, map, rows) = Retire(with, f, unit, r)
        BY <1>4 DEF InstallFlush, with, out
    <3> HIDE DEF f, r
    <3>2. QED
        BY <3>1
  <2>2. VersionOf(Retire(with, f, unit, r)) = VersionOf(with)
      BY <1>2, RetireKeepsSegments DEF VersionOf, Grows
  <2>3. QED
      BY <1>1, <1>2, <1>4, <2>1, <2>2, RetireKeepsSegments DEF Grows
<1>5. QED
    BY <1>3, <1>4

\* An installed compaction adds its segment, or nothing when no row was left.
LEMMA InstallCompactionGrows ==
    ASSUME NEW m, IsState(m), NEW unit \in Nat, NEW maps, NEW rows, NEW bits
    PROVE  Grows(m, InstallCompaction(m, unit, maps, rows, bits), IF rows = <<>> THEN {} ELSE {Segment(unit)})
<1> DEFINE out == WithoutUnits(m, DOMAIN maps)
           with == WithSegment(out, unit, rows, bits)
<1>1. Grows(m, out, {})
    BY WithoutUnitsRestricts
<1>2. Grows(out, with, {Segment(unit)})
    BY <1>1, WithSegmentAdds DEF Grows
<1>3. CASE rows = <<>>
    BY <1>1, <1>3 DEF InstallCompaction
<1>4. CASE rows # <<>>
  <2> HIDE DEF with, out
  <2>1. PICK f, r : InstallCompaction(m, unit, maps, rows, bits) = Retire(with, f, unit, r)
    <3> DEFINE From(o) == CHOOSE a \in UNION {{u} \X Kept(maps[u]) : u \in DOMAIN maps} : maps[a[1]][a[2]] = o
               f == [u \in DOMAIN maps |-> [target |-> unit, map |-> maps[u]]]
               r == [o \in 1..Len(rows) |-> [key |-> rows[o].key, source |-> From(o)]]
    <3>1. InstallCompaction(m, unit, maps, rows, bits) = Retire(with, f, unit, r)
        BY <1>4 DEF InstallCompaction, with, out
    <3> HIDE DEF f, r
    <3>2. QED
        BY <3>1
  <2>2. VersionOf(Retire(with, f, unit, r)) = VersionOf(with)
      BY <1>2, RetireKeepsSegments DEF VersionOf, Grows
  <2>3. QED
      BY <1>1, <1>2, <1>4, <2>1, <2>2, RetireKeepsSegments DEF Grows
<1>5. QED
    BY <1>3, <1>4

\* An installed index adds its sidecar.
LEMMA InstallIndexGrows ==
    ASSUME NEW m, IsState(m), NEW target, NEW unit \in Nat
    PROVE  Grows(m, InstallIndex(m, target, unit), {Index(target, unit)})
<1> DEFINE n == InstallIndex(m, target, unit)
<1>1. "segs" \in DOMAIN n /\ n.segs = [m.segs EXCEPT ![target].index = unit]
    BY DEF InstallIndex, IsState
<1> HIDE DEF n
<1>2. /\ DOMAIN n.segs = DOMAIN m.segs /\ n.segs = [u \in DOMAIN n.segs |-> n.segs[u]]
      /\ \A u \in DOMAIN m.segs : /\ u # target => n.segs[u] = m.segs[u]
                                  /\ u = target => n.segs[u] = [m.segs[u] EXCEPT !.index = unit]
    BY <1>1
<1>3. \A u \in DOMAIN m.segs : /\ "index" \in DOMAIN n.segs[u]
                               /\ n.segs[u].index \in {m.segs[u].index, unit}
                               /\ u # target => n.segs[u].index = m.segs[u].index
    BY <1>2 DEF IsState
<1>4. IsState(n)
    BY <1>1, <1>2, <1>3 DEF IsState
<1>5. VersionOf(n) \subseteq VersionOf(m) \cup {Index(target, unit)}
    BY <1>2, <1>3 DEF VersionOf
<1>6. QED
    BY <1>4, <1>5 DEF Grows, n

-----------------------------------------------------------------------------
(* Replay changes no segment. *)

\* One position of the log, applied unless the checkpoint covers it; positions are
\* replayed in ascending order, so the last of a set is its largest.
ReplayStep(env, i, st) ==
    IF env.seq[i] <= env.checkpoint THEN st ELSE Apply(st, env.seq[i], env.log[env.seq[i]])
LastOf(S) == Max(S)
\* Replayed operations leave the segments that recovery started from.
SameSegments(env, done, st) == IsState(st) /\ st.segs = env.segs

\* Recovery's replay as a fold, whose rule gives the induction over the log.
Replaying == INSTANCE Folding WITH Step <- ReplayStep, Pick <- LastOf, Inv <- SameSegments

\* A finite set of numbers that is not empty has a largest element.
LEMMA MaxOfFinite ==
    ASSUME NEW S \in SUBSET Nat, S # {}, IsFiniteSet(S)
    PROVE  Max(S) \in S /\ \A y \in S : y <= Max(S)
<1> DEFINE Top(T) == \E x \in T : \A y \in T : x >= y
           N == {n \in Nat : \A T \in SUBSET S : Cardinality(T) = n + 1 => Top(T)}
<1>1. 0 \in N
  <2>1. ASSUME NEW T \in SUBSET S, Cardinality(T) = 1
        PROVE  Top(T)
    <3>1. PICK x : T = {x}
        BY <2>1, FS_Subset, FS_Singleton
    <3>2. QED
        BY <3>1
  <2>2. QED
      BY <2>1
<1>2. ASSUME NEW n \in N
      PROVE  n + 1 \in N
  <2>1. ASSUME NEW T \in SUBSET S, Cardinality(T) = n + 2
        PROVE  Top(T)
    <3>0. n \in Nat
        OBVIOUS
    <3> HIDE DEF N
    <3>1. IsFiniteSet(T)
        BY FS_Subset
    <3>2. T # {}
      <4>1. Cardinality({}) = 0
          BY FS_EmptySet
      <4>2. Cardinality(T) # 0
          BY <2>1, <3>0
      <4>3. QED
          BY <4>1, <4>2
    <3>8. PICK x \in T : TRUE
        BY <3>2
    <3>9. Cardinality(T \ {x}) = Cardinality(T) - 1
        BY <3>1, <3>8, FS_RemoveElement
    <3>3. Cardinality(T \ {x}) = n + 1
        BY <2>1, <3>0, <3>9
    <3>4. PICK y \in T \ {x} : \A z \in T \ {x} : y >= z
        BY <3>3 DEF N
    <3>5. CASE x >= y
        BY <3>4, <3>5
    <3>6. CASE y >= x
        BY <3>4, <3>6
    <3>7. QED
        BY <3>5, <3>6
  <2>2. QED
      BY <2>1
<1>3. N = Nat
  <2> HIDE DEF N
  <2>1. N \subseteq Nat
      BY DEF N
  <2>2. QED
      BY <1>1, <1>2, <2>1, Replaying!SetInduction
<1>4. Cardinality(S) \in Nat /\ Cardinality(S) # 0
    BY FS_CardinalityType, FS_EmptySet
<1>5. Cardinality(S) - 1 \in N
    BY <1>3, <1>4
<1>6. Top(S)
    BY <1>4, <1>5
<1>7. QED
    BY <1>6 DEF Max

\* Recovery replays the log into a state that keeps the recovered segments.
LEMMA ReplayKeepsSegments ==
    ASSUME NEW m, IsState(m), NEW S, NEW log \in Seq(S), NEW checkpoint
    PROVE  IsState(Replayed(m, log, checkpoint)) /\ Replayed(m, log, checkpoint).segs = m.segs
<1> DEFINE seq == [s \in 1..Len(log) |-> s]
           env == [segs |-> m.segs, checkpoint |-> checkpoint, log |-> log, seq |-> seq]
<1>1. Replayed(m, log, checkpoint) = Replaying!Fold(env, m, DOMAIN seq)
  <2>1. env.seq = seq /\ env.checkpoint = checkpoint /\ env.log = log
      OBVIOUS
  <2> HIDE DEF env
  <2>2. QED
      BY <2>1 DEF Replayed, FoldLeft, MapThenFoldSet, Replaying!Fold, Replaying!Body, ReplayStep, LastOf
<1>2. DOMAIN seq = 1..Len(log) /\ Len(log) \in Nat
    OBVIOUS
<1>3. IsFiniteSet(DOMAIN seq)
    BY <1>2, FS_Interval
<1>4. Replaying!IsFiniteSet(DOMAIN seq)
    BY <1>3 DEF IsFiniteSet, Replaying!IsFiniteSet
<1>5. Replaying!Picks(DOMAIN seq)
  <2>1. ASSUME NEW T \in SUBSET (1..Len(log)), T # {}
        PROVE  LastOf(T) \in T
    <3>1. T \in SUBSET Nat /\ T \in SUBSET DOMAIN seq
        BY <1>2
    <3> HIDE DEF seq
    <3>2. IsFiniteSet(T)
        BY <1>3, <3>1, FS_Subset
    <3>3. QED
        BY <2>1, <3>1, <3>2, MaxOfFinite DEF LastOf
  <2>2. QED
      BY <1>2, <2>1 DEF Replaying!Picks
<1> HIDE DEF seq
<1>6. SameSegments(env, {}, m)
    BY DEF SameSegments
<1>7. \A T \in SUBSET DOMAIN seq : \A y :
          T # {} /\ SameSegments(env, T \ {LastOf(T)}, y) => SameSegments(env, T, ReplayStep(env, LastOf(T), y))
  <2> HIDE DEF env
  <2>1. QED
      BY ApplyKeepsSegments DEF SameSegments, ReplayStep
<1>8. SameSegments(env, DOMAIN seq, Replaying!Fold(env, m, DOMAIN seq))
  <2> HIDE DEF env
  <2>1. QED
      BY <1>4, <1>5, <1>6, <1>7, Replaying!FoldRule
<1>9. QED
    BY <1>1, <1>8 DEF SameSegments

-----------------------------------------------------------------------------
(* Files and their names. *)

\* The values that a function takes on a finite set are finitely many.
LEMMA ImageFinite ==
    ASSUME NEW S, IsFiniteSet(S), NEW T, NEW f, \A y \in T : \E x \in S : y = f[x]
    PROVE  IsFiniteSet(T)
<1> DEFINE R == {x \in S : f[x] \in T}
           g == [x \in R |-> f[x]]
<1>1. g \in Surjection(R, T)
    BY DEF Surjection
<1>2. IsFiniteSet(R)
    BY FS_Subset
<1>3. QED
    BY <1>1, <1>2, FS_Surjection

\* The files of a job are its output and deletion vectors of new generations.
LEMMA FilesOfJob ==
    ASSUME NEW j, IsJob(j)
    PROVE  /\ JobFiles(j) \subseteq Names
           /\ Output(j) \in JobFiles(j) /\ Output(j)[1] \in {"segment", "index"}
           /\ \A n \in JobFiles(j) :
                n = Output(j) \/ (n[1] = "dv" /\ \E u \in DOMAIN j.dvs : n = Dv(u, j.dvs[u].gen))
           /\ \A n \in JobFiles(j) : n[1] # "manifest"
           /\ IsFiniteSet(JobFiles(j))
<1> DEFINE D == {Dv(u, j.dvs[u].gen) : u \in DOMAIN j.dvs}
<1>1. JobFiles(j) = {Output(j)} \cup D
    BY DEF JobFiles, Output
<1>2. Output(j) \in Names /\ Output(j)[1] \in {"segment", "index"}
    BY DEF IsJob, Output, Names, Segment, Index
<1>3. \A n \in D : n \in Names /\ n[1] = "dv" /\ \E u \in DOMAIN j.dvs : n = Dv(u, j.dvs[u].gen)
    BY DEF IsJob, Names, Dv
<1>4. IsFiniteSet(D)
  <2> DEFINE f == [u \in DOMAIN j.dvs |-> Dv(u, j.dvs[u].gen)]
  <2>1. \A y \in D : \E x \in DOMAIN j.dvs : y = f[x]
      OBVIOUS
  <2>2. IsFiniteSet(DOMAIN j.dvs)
      BY DEF IsJob
  <2> HIDE DEF D, f
  <2>3. QED
      BY <2>1, <2>2, ImageFinite
<1> HIDE DEF D
<1>5. IsFiniteSet({Output(j)} \cup D)
    BY <1>4, FS_AddElement
<1>6. QED
    BY <1>1, <1>2, <1>3, <1>5

\* Two jobs write different files.
LEMMA JobsApart ==
    ASSUME ShapeInv, JobInv, NEW i \in jobs, NEW j \in jobs, i # j
    PROVE  JobFiles(i) \cap JobFiles(j) = {} /\ Output(i) # Output(j)
<1>1. IsJob(i) /\ IsJob(j) /\ i.unit # j.unit /\ ~(i.kind = "flush" /\ j.kind = "flush")
    BY DEF ShapeInv, JobInv
<1>2. Output(i) # Output(j)
    BY <1>1 DEF Output, Segment, Index, IsJob
<1>3. DOMAIN i.dvs = {} \/ DOMAIN j.dvs = {}
    BY <1>1 DEF IsJob
<1>4. QED
    BY <1>1, <1>2, <1>3, FilesOfJob

\* Whether a job leaves an output does not depend on the disk.
LEMMA OutputStays ==
    ASSUME NEW j, IsJob(j)
    PROVE  HasOutput(j)' <=> HasOutput(j)
<1>1. CASE j.kind = "index"
    BY <1>1 DEF HasOutput
<1>2. CASE j.kind = "flush"
  <2>1. OutputRows(j)' = OutputRows(j)
      BY <1>2 DEF OutputRows
  <2>2. QED
      BY <1>2, <2>1 DEF HasOutput
<1>3. CASE j.kind = "compact"
  <2> DEFINE n == MergedCount(j.maps)
  <2>1. PICK f : f = [o \in 1..n |-> f[o]] /\ OutputRows(j) = f
      BY <1>3 DEF OutputRows
  <2>2. PICK g : g = [o \in 1..n |-> g[o]] /\ OutputRows(j)' = g
      BY <1>3 DEF OutputRows
  <2> HIDE DEF n
  <2>3. (f = <<>>) <=> (1..n = {})
      BY <2>1
  <2>4. (g = <<>>) <=> (1..n = {})
      BY <2>2
  <2>5. QED
      BY <1>3, <2>1, <2>2, <2>3, <2>4 DEF HasOutput
<1>4. QED
    BY <1>1, <1>2, <1>3 DEF IsJob

\* A build that ends changes neither the names nor the rows of its job.
LEMMA BuiltJob ==
    ASSUME NEW j, IsJob(j)
    PROVE  LET k == [j EXCEPT !.built = TRUE, !.holds = {}]
           IN /\ IsJob(k) /\ k.unit = j.unit /\ k.kind = j.kind /\ k.dvs = j.dvs
              /\ k.built = TRUE /\ k.holds = {}
              /\ Output(k) = Output(j) /\ (HasOutput(k) <=> HasOutput(j))
<1> DEFINE k == [j EXCEPT !.built = TRUE, !.holds = {}]
<1>1. /\ DOMAIN k = DOMAIN j /\ k.built = TRUE /\ k.holds = {}
      /\ \A x \in DOMAIN j \ {"built", "holds"} : k[x] = j[x]
    BY DEF IsJob
<1> HIDE DEF k
<1>2. /\ k.unit = j.unit /\ k.kind = j.kind /\ k.dvs = j.dvs
      /\ j.kind = "index" => k.target = j.target
      /\ j.kind # "index" => k.maps = j.maps
      /\ j.kind = "flush" => k.memtable = j.memtable
    BY <1>1 DEF IsJob
<1>3. IsJob(k)
    BY <1>1, <1>2 DEF IsJob
<1>4. Output(k) = Output(j)
    BY <1>2 DEF Output, IsJob
<1>5. OutputRows(k) = OutputRows(j)
    BY <1>2 DEF OutputRows, IsJob
<1>6. HasOutput(k) <=> HasOutput(j)
    BY <1>2, <1>5 DEF HasOutput
<1>7. QED
    BY <1>1, <1>2, <1>3, <1>4, <1>6 DEF k

\* Nothing is held that was not held before.
LEMMA HoldersShrink ==
    ASSUME readers' \subseteq readers,
           \A j \in jobs' : j.holds \subseteq Holders,
           VersionOf(mem') \subseteq Holders
    PROVE  Holders' \subseteq Holders
<1>1. Holders' = UNION (readers' \cup {j.holds : j \in jobs'} \cup {VersionOf(mem')})
    BY DEF Holders
<1>2. \A r \in readers' : r \subseteq Holders
    BY DEF Holders
<1>3. QED
    BY <1>1, <1>2

\* Readers, jobs and the writer's state hold what they name.
LEMMA Held ==
    /\ \A j \in jobs : j.holds \subseteq Holders
    /\ VersionOf(mem) \subseteq Holders
    /\ \A r \in readers : r \subseteq Holders
BY DEF Holders

\* The files of a state depend on its segments alone.
LEMMA SameVersion ==
    ASSUME NEW m, NEW n, m.segs = n.segs
    PROVE  VersionOf(m) = VersionOf(n)
BY DEF VersionOf

-----------------------------------------------------------------------------
(* Writes and freezes. *)

\* A step of the writer that moves rows within memtables.
RowStep ==
    /\ phase = "open" /\ phase' = phase
    /\ IsState(mem') /\ mem'.segs = mem.segs
    /\ group' # NoGroup => IsState(group'.save) /\ group'.save.segs = mem.segs
    /\ publish # NoPublish => group' = NoGroup
    /\ ids' \in [prev : Nat, gen : Nat, unit : Nat, dv : Nat]
    /\ ids'.prev = ids.prev /\ ids'.gen = ids.gen /\ ids'.dv = ids.dv /\ ids.unit <= ids'.unit
    /\ \E S : ops' \in Seq(S)
    /\ UNCHANGED <<gen, jobs, publish>>
    /\ UNCHANGED <<diskVars, gcVars, readers>>

\* A step that leaves the segments, the jobs and the disk alone preserves the invariant.
LEMMA RowStepKeeps ==
    ASSUME IInv, RowStep
    PROVE  IInv'
<1> USE DEF IInv, RowStep, diskVars, gcVars
<1>1. Holders' = Holders
    BY SameVersion DEF Holders
<1>2. \A j \in jobs : IsJob(j) /\ (HasOutput(j)' <=> HasOutput(j))
    BY OutputStays DEF ShapeInv
<1>3. ShapeInv'
    BY DEF ShapeInv
<1>4. DownInv'
    BY DEF DownInv
<1>5. StageInv'
    BY DEF StageInv, Publishing, ShapeInv
<1>6. CounterInv'
  <2>1. ids \in [prev : Nat, gen : Nat, unit : Nat, dv : Nat]
      BY DEF ShapeInv
  <2>2. \A j \in jobs : j.unit \in Nat
      BY DEF ShapeInv, IsJob
  <2>3. QED
      BY <2>1, <2>2 DEF CounterInv, BornBelow, DvsBelow, GensBelow
<1>7. JobInv'
    BY <1>1, <1>2 DEF JobInv
<1>8. HeldInv'
    BY <1>1 DEF HeldInv
<1>9. QED
    BY <1>3, <1>4, <1>5, <1>6, <1>7, <1>8

\* Writes, their rollback, rewrites and freezes preserve the invariant.
LEMMA RowSteps ==
    ASSUME IInv, Prepare \/ RestoreGroup \/ CommitGroup \/ Rewrite \/ Freeze
    PROVE  IInv'
<1> USE DEF IInv
<1>1. IsState(mem) /\ ids \in [prev : Nat, gen : Nat, unit : Nat, dv : Nat]
    BY DEF ShapeInv
<1>2. PICK S : ops \in Seq(S)
    BY DEF ShapeInv
<1>3. CASE Prepare
  <2>1. PICK op, journal : /\ group' = [kind |-> "prepared", op |-> op, save |-> mem, journal |-> journal]
                           /\ mem' = Apply(mem, Len(ops) + 1, op)
      BY <1>3 DEF Prepare
  <2>2. IsState(mem') /\ mem'.segs = mem.segs
      BY <1>1, <2>1, ApplyKeepsSegments
  <2>3. group'.save = mem
      BY <2>1
  <2>4. RowStep
      BY <1>1, <1>2, <1>3, <2>2, <2>3 DEF RowStep, Prepare, Drained, jobVars
  <2>5. QED
      BY <2>4, RowStepKeeps
<1>4. CASE RestoreGroup
  <2>1. IsState(group.save) /\ group.save.segs = mem.segs /\ publish = NoPublish
      BY <1>4 DEF RestoreGroup, StageInv
  <2>2. PICK pk : mem' = [group.save EXCEPT !.pk = pk, !.forwards = mem.forwards, !.rewrites = mem.rewrites]
      BY <1>4 DEF RestoreGroup
  <2>3. IsState(mem') /\ mem'.segs = mem.segs
      BY <2>1, <2>2 DEF IsState
  <2>4. RowStep
      BY <1>1, <1>2, <1>4, <2>1, <2>3 DEF RowStep, RestoreGroup, jobVars
  <2>5. QED
      BY <2>4, RowStepKeeps
<1>5. CASE CommitGroup
  <2>1. ops' \in Seq(S \cup {group.op})
    <3>1. ops \in Seq(S \cup {group.op})
        BY <1>2
    <3>2. QED
        BY <1>5, <3>1 DEF CommitGroup
  <2>2. RowStep
      BY <1>1, <1>5, <2>1 DEF RowStep, CommitGroup, jobVars
  <2>3. QED
      BY <2>2, RowStepKeeps
<1>6. CASE Rewrite
  <2>1. IsState(mem') /\ mem'.segs = mem.segs
      BY <1>1, <1>6, RewriteKeepsSegments DEF Rewrite
  <2>2. RowStep
      BY <1>1, <1>2, <1>6, <2>1 DEF RowStep, Rewrite, jobVars
  <2>3. QED
      BY <2>2, RowStepKeeps
<1>7. CASE Freeze
  <2>1. IsState(mem') /\ mem'.segs = mem.segs
      BY <1>1, <1>7, FreezeKeepsSegments DEF Freeze
  <2>2. RowStep
      BY <1>1, <1>2, <1>7, <2>1 DEF RowStep, Freeze, Drained
  <2>3. QED
      BY <2>2, RowStepKeeps
<1>8. QED
    BY <1>3, <1>4, <1>5, <1>6, <1>7

-----------------------------------------------------------------------------
(* The counters. *)

\* What an allocation of one unit and of some DV generations does to the counters.
LEMMA TakeIds ==
    ASSUME ids \in [prev : Nat, gen : Nat, unit : Nat, dv : Nat], NEW dv \in Nat,
           ids' = [ids EXCEPT !.unit = @ + 1, !.dv = dv]
    PROVE  /\ ids' \in [prev : Nat, gen : Nat, unit : Nat, dv : Nat]
           /\ ids'.unit = ids.unit + 1 /\ ids'.dv = dv /\ ids'.gen = ids.gen /\ ids'.prev = ids.prev
<1> DEFINE mid == [ids EXCEPT !.unit = @ + 1]
<1>1. /\ mid \in [prev : Nat, gen : Nat, unit : Nat, dv : Nat]
      /\ mid.unit = ids.unit + 1 /\ mid.gen = ids.gen /\ mid.prev = ids.prev
    OBVIOUS
<1>2. ids' = [mid EXCEPT !.dv = dv]
    OBVIOUS
<1> HIDE DEF mid
<1>3. QED
    BY <1>1, <1>2

\* A new manifest takes a generation, and the DV generations it names.
LEMMA TakeGen ==
    ASSUME ids \in [prev : Nat, gen : Nat, unit : Nat, dv : Nat], NEW dv \in Nat,
           ids' = [ids EXCEPT !.gen = @ + 1, !.dv = dv]
    PROVE  /\ ids' \in [prev : Nat, gen : Nat, unit : Nat, dv : Nat]
           /\ ids'.gen = ids.gen + 1 /\ ids'.dv = dv /\ ids'.unit = ids.unit /\ ids'.prev = ids.prev
<1> DEFINE mid == [ids EXCEPT !.gen = @ + 1]
<1>1. /\ mid \in [prev : Nat, gen : Nat, unit : Nat, dv : Nat]
      /\ mid.gen = ids.gen + 1 /\ mid.unit = ids.unit /\ mid.prev = ids.prev
    OBVIOUS
<1>2. ids' = [mid EXCEPT !.dv = dv]
    OBVIOUS
<1> HIDE DEF mid
<1>3. QED
    BY <1>1, <1>2

-----------------------------------------------------------------------------
(* Jobs begin. *)

\* One job more, or the same jobs with index builds told to stop.
Stopped(stop) == {IF j \in stop THEN [j EXCEPT !.cancelled = TRUE] ELSE j : j \in jobs}

\* A job begins: it takes the next unit and, for a flush, DV generations up to dv, and holds
\* files of the present version.
Begins(job, dv) ==
    /\ Drained
    /\ IsJob(job) /\ ~job.built /\ job.holds \subseteq Holders /\ job.unit = ids.unit
    /\ \A u \in DOMAIN job.dvs : job.dvs[u].gen \in ids.dv..(dv - 1)
    /\ job.kind = "flush" => \A j \in jobs : j.kind # "flush"
    /\ dv \in Nat /\ dv >= ids.dv
    /\ ids' \in [prev : Nat, gen : Nat, unit : Nat, dv : Nat]
    /\ ids'.unit = ids.unit + 1 /\ ids'.dv = dv /\ ids'.gen = ids.gen /\ ids'.prev = ids.prev
    /\ \E stop \in SUBSET jobs :
          (\A j \in stop : j.kind = "index") /\ jobs' = Stopped(stop) \cup {job}
    /\ UNCHANGED <<phase, gen, publish>>
    /\ UNCHANGED <<rowVars, diskVars, gcVars, readers>>

\* A job that was told to stop keeps its names and what it holds.
LEMMA StoppedJob ==
    ASSUME NEW j, IsJob(j), j.kind = "index"
    PROVE  LET k == [j EXCEPT !.cancelled = TRUE]
           IN /\ IsJob(k) /\ k.unit = j.unit /\ k.kind = "index" /\ k.dvs = j.dvs
              /\ k.built = j.built /\ k.holds = j.holds
              /\ Output(k) = Output(j) /\ JobFiles(k) = JobFiles(j) /\ HasOutput(k) /\ HasOutput(j)
<1> DEFINE k == [j EXCEPT !.cancelled = TRUE]
<1>1. DOMAIN k = DOMAIN j /\ \A x \in DOMAIN j \ {"cancelled"} : k[x] = j[x]
    BY DEF IsJob
<1> HIDE DEF k
<1>2. /\ k.unit = j.unit /\ k.kind = j.kind /\ k.dvs = j.dvs /\ k.target = j.target
      /\ k.built = j.built /\ k.holds = j.holds
    BY <1>1 DEF IsJob
<1>3. IsJob(k)
    BY <1>1, <1>2 DEF IsJob
<1>4. Output(k) = Output(j) /\ JobFiles(k) = JobFiles(j) /\ HasOutput(k) /\ HasOutput(j)
    BY <1>2 DEF Output, JobFiles, HasOutput
<1>5. QED
    BY <1>2, <1>3, <1>4 DEF k

\* A new job's files are on no disk and are no other job's.
LEMMA BeginsKeeps ==
    ASSUME IInv, NEW job, NEW dv, Begins(job, dv)
    PROVE  IInv'
<1> USE DEF IInv, rowVars, diskVars, gcVars
<1>1. PICK stop \in SUBSET jobs :
          /\ \A j \in stop : j.kind = "index"
          /\ jobs' = {IF j \in stop THEN [j EXCEPT !.cancelled = TRUE] ELSE j : j \in jobs} \cup {job}
    BY DEF Begins, Stopped
<1> DEFINE Like(k, j) == /\ k.unit = j.unit /\ k.kind = j.kind /\ k.dvs = j.dvs /\ k.built = j.built
                         /\ k.holds = j.holds /\ Output(k) = Output(j) /\ JobFiles(k) = JobFiles(j)
                         /\ (HasOutput(k) <=> HasOutput(j))
           To(j) == IF j \in stop THEN [j EXCEPT !.cancelled = TRUE] ELSE j
<1>2. \A j \in jobs : IsJob(j) /\ IsJob(To(j)) /\ Like(To(j), j)
    BY <1>1, StoppedJob DEF ShapeInv
<1>3. \A k \in jobs' : k = job \/ \E j \in jobs : k = To(j) /\ IsJob(k) /\ Like(k, j)
    BY <1>1, <1>2
<1>4. IsJob(job) /\ \A k \in jobs' : IsJob(k) /\ (HasOutput(k)' <=> HasOutput(k))
    BY <1>3, OutputStays DEF Begins
<1>5. phase = "open" /\ group = NoGroup /\ publish = NoPublish
    BY DEF Begins, Drained
<1>6. /\ ids \in [prev : Nat, gen : Nat, unit : Nat, dv : Nat]
      /\ ids' \in [prev : Nat, gen : Nat, unit : Nat, dv : Nat]
      /\ ids'.unit = ids.unit + 1 /\ ids'.dv = dv /\ ids'.gen = ids.gen /\ ids'.prev = ids.prev
    BY DEF Begins, ShapeInv
<1>7. IsFiniteSet(jobs')
  <2> DEFINE f == [j \in jobs |-> To(j)]
             T == {To(j) : j \in jobs}
  <2>1. \A y \in T : \E x \in jobs : y = f[x]
      OBVIOUS
  <2>2. IsFiniteSet(jobs) /\ jobs' = T \cup {job}
      BY <1>1 DEF ShapeInv
  <2> HIDE DEF f, T
  <2>3. IsFiniteSet(T)
      BY <2>1, <2>2, ImageFinite
  <2>4. QED
      BY <2>2, <2>3, FS_AddElement
<1> HIDE DEF To
<1>8. Holders' \subseteq Holders
  <2>1. \A j \in jobs' : j.holds \subseteq Holders
      BY <1>3, Held DEF Begins
  <2>2. VersionOf(mem') \subseteq Holders
      BY Held DEF Begins
  <2>3. QED
      BY <2>1, <2>2, HoldersShrink DEF Begins
<1>9. ShapeInv'
    BY <1>4, <1>6, <1>7 DEF ShapeInv, Begins
<1>10. DownInv'
    BY <1>5 DEF DownInv, Begins
<1>11. StageInv'
    BY <1>5 DEF StageInv, Begins, Publishing, NoPublish
<1>12. CounterInv'
  <2>1. \A j \in jobs' : j.unit < ids'.unit /\ \A u \in DOMAIN j.dvs : j.dvs[u].gen < ids'.dv
    <3>1. \A j \in jobs : j.unit \in Nat /\ \A u \in DOMAIN j.dvs : j.dvs[u].gen \in Nat
        BY <1>2 DEF IsJob
    <3>2. QED
        BY <1>3, <1>5, <1>6, <3>1 DEF CounterInv, Begins
  <2>2. QED
      BY <1>5, <1>6, <2>1 DEF CounterInv, Begins, BornBelow, DvsBelow, GensBelow
<1>13. JobInv'
  <2>1. \A j \in jobs : j.unit # job.unit /\ ~(j.kind = "flush" /\ job.kind = "flush")
      BY <1>2, <1>5, <1>6 DEF Begins, CounterInv, IsJob
  <2>2. ASSUME NEW i \in jobs', NEW j \in jobs', i.unit = j.unit \/ (i.kind = "flush" /\ j.kind = "flush")
        PROVE  i = j
    <3>1. CASE i = job \/ j = job
        BY <1>3, <2>1, <2>2, <3>1
    <3>2. CASE i # job /\ j # job
      <4>1. PICK a \in jobs : i = To(a) /\ Like(i, a)
          BY <1>3, <3>2
      <4>2. PICK b \in jobs : j = To(b) /\ Like(j, b)
          BY <1>3, <3>2
      <4>3. a = b
          BY <2>2, <4>1, <4>2 DEF JobInv
      <4>4. QED
          BY <4>1, <4>2, <4>3
    <3>3. QED
        BY <3>1, <3>2
  <2>3. Output(job) \notin trash \cup obsolete \cup Holders /\ JobFiles(job) \cap present = {}
    <3>1. BornBelow(present, ids.unit) /\ BornBelow(trash \cup obsolete, ids.unit) /\ DvsBelow(present, ids.dv)
        BY <1>5 DEF CounterInv
    <3>2. Holders \subseteq present
        BY DEF HeldInv
    <3>3. Output(job) \notin trash \cup obsolete \cup present
      <4>1. CASE job.kind = "index"
          BY <3>1, <4>1, <1>6 DEF Begins, BornBelow, Output, Index
      <4>2. CASE job.kind # "index"
          BY <3>1, <4>2, <1>6 DEF Begins, BornBelow, Output, Segment
      <4>3. QED
          BY <4>1, <4>2
    <3>4. ASSUME NEW u \in DOMAIN job.dvs
          PROVE  Dv(u, job.dvs[u].gen) \notin present
        BY <3>1, <1>6 DEF DvsBelow, Dv, Begins
    <3>5. QED
        BY <3>2, <3>3, <3>4, <1>4, FilesOfJob
  <2>4. ASSUME NEW k \in jobs'
        PROVE  /\ Output(k) \notin (trash \cup obsolete \cup Holders)'
               /\ k.built /\ HasOutput(k)' => Output(k) \in present'
               /\ ~k.built => JobFiles(k) \cap present' = {}
    <3>1. CASE k = job
        BY <1>8, <2>3, <3>1 DEF Begins
    <3>2. CASE k # job
      <4>1. PICK j \in jobs : Like(k, j)
          BY <1>3, <3>2
      <4>2. HasOutput(k)' <=> HasOutput(j)
          BY <1>4, <4>1
      <4>3. QED
          BY <1>8, <4>1, <4>2 DEF Begins, JobInv
    <3>3. QED
        BY <3>1, <3>2
  <2>5. QED
      BY <2>2, <2>4 DEF JobInv
<1>14. HeldInv'
    BY <1>8 DEF HeldInv, Begins
<1>15. QED
    BY <1>9, <1>10, <1>11, <1>12, <1>13, <1>14

\* Beginning a flush, a compaction or an index build preserves the invariant.
LEMMA JobsBegin ==
    ASSUME IInv, BeginFlush \/ BeginCompaction \/ BeginIndex
    PROVE  IInv'
<1> USE DEF IInv
<1>1. /\ IsState(mem) /\ ids \in [prev : Nat, gen : Nat, unit : Nat, dv : Nat]
      /\ VersionOf(mem) \subseteq Holders
    BY Held DEF ShapeInv
<1>2. CASE BeginFlush
  <2> DEFINE t == Head(mem.frozen)
             grown == {u \in DOMAIN mem.segs : Cardinality(DeletesOf(mem, u))
                                                 # Cardinality(DurableBits(Manifest(gen), u))}
             GenOf(u) == ids.dv + Cardinality({v \in grown : v < u})
             dvs == [u \in grown |-> [gen |-> GenOf(u), bits |-> DeletesOf(mem, u)]]
             maps == [u \in {t.unit} |-> RowMap(Len(t.rows), (1..Len(t.rows)) \ DeletesOf(mem, u))]
             job == [kind |-> "flush", unit |-> ids.unit, built |-> FALSE, holds |-> VersionOf(mem),
                     memtable |-> t, maps |-> maps, dvs |-> dvs]
             dv == ids.dv + Cardinality(grown)
  <2>1. /\ Drained /\ \A j \in jobs : j.kind # "flush"
        /\ jobs' = jobs \cup {job}
        /\ ids' = [ids EXCEPT !.unit = @ + 1, !.dv = dv]
        /\ UNCHANGED <<phase, gen, publish, faults>>
        /\ UNCHANGED <<rowVars, diskVars, gcVars, readers>>
      BY <1>2 DEF BeginFlush, JobSlot
  <2>2. grown \subseteq Nat /\ IsFiniteSet(grown) /\ Cardinality(grown) \in Nat
    <3>1. grown \subseteq DOMAIN mem.segs
        OBVIOUS
    <3> HIDE DEF grown
    <3>2. QED
        BY <1>1, <3>1, FS_Subset, FS_CardinalityType DEF IsState
  <2> HIDE DEF grown
  <2>3. ASSUME NEW u \in grown
        PROVE  GenOf(u) \in ids.dv..(dv - 1)
    <3> DEFINE below == {v \in grown : v < u}
    <3>1. below \in SUBSET grown /\ below # grown
        BY <2>2
    <3> HIDE DEF below
    <3>2. IsFiniteSet(below) /\ Cardinality(below) <= Cardinality(grown) /\ Cardinality(below) # Cardinality(grown)
        BY <2>2, <3>1, FS_Subset
    <3>3. Cardinality(below) \in Nat
        BY <3>2, FS_CardinalityType
    <3>4. QED
        BY <1>1, <2>2, <3>2, <3>3 DEF below
  <2> HIDE DEF GenOf
  <2>4. DOMAIN dvs = grown /\ \A u \in grown : dvs[u].gen = GenOf(u)
      OBVIOUS
  <2> HIDE DEF dvs, maps, t
  <2>5. /\ {"kind", "unit", "built", "holds", "dvs", "maps", "memtable"} \subseteq DOMAIN job
        /\ job.kind = "flush" /\ job.unit = ids.unit /\ job.built \in BOOLEAN /\ ~job.built
        /\ job.holds = VersionOf(mem) /\ job.dvs = dvs
      OBVIOUS
  <2> HIDE DEF job
  <2>6. dv \in Nat /\ dv >= ids.dv
      BY <1>1, <2>2
  <2>7. \A u \in DOMAIN job.dvs : u \in Nat /\ job.dvs[u].gen \in ids.dv..(dv - 1) /\ job.dvs[u].gen \in Nat
    <3>1. ASSUME NEW u \in grown
          PROVE  u \in Nat /\ job.dvs[u].gen \in ids.dv..(dv - 1)
        BY <2>2, <2>3, <2>4, <2>5
    <3>2. DOMAIN job.dvs = grown
        BY <2>4, <2>5
    <3> HIDE DEF dv
    <3>3. \A x \in ids.dv..(dv - 1) : x \in Nat
        BY <1>1, <2>6
    <3>4. QED
        BY <3>1, <3>2, <3>3
  <2> HIDE DEF dv
  <2>8. IsJob(job)
      BY <1>1, <2>2, <2>4, <2>5, <2>7 DEF IsJob
  <2>9. jobs' = Stopped({}) \cup {job}
      BY <2>1 DEF Stopped
  <2>12. /\ ids' \in [prev : Nat, gen : Nat, unit : Nat, dv : Nat]
         /\ ids'.unit = ids.unit + 1 /\ ids'.dv = dv /\ ids'.gen = ids.gen /\ ids'.prev = ids.prev
      BY <1>1, <2>1, <2>6, TakeIds
  <2>10. Begins(job, dv)
      BY <1>1, <2>1, <2>5, <2>6, <2>7, <2>8, <2>9, <2>12 DEF Begins
  <2>11. QED
      BY <2>10, BeginsKeeps
<1>3. CASE BeginCompaction
  <2>1. PICK inputs \in (SUBSET (DOMAIN mem.segs \ Reserved)) \ {{}} :
            jobs' = {IF j.kind = "index" /\ j.target \in inputs THEN [j EXCEPT !.cancelled = TRUE]
                     ELSE j : j \in jobs}
                      \cup {[kind |-> "compact", unit |-> ids.unit, built |-> FALSE,
                             holds |-> VersionOf(mem), maps |-> MergeMaps(mem, inputs),
                             dvs |-> <<>>]}
      BY <1>3 DEF BeginCompaction
  <2> DEFINE maps == MergeMaps(mem, inputs)
             job == [kind |-> "compact", unit |-> ids.unit, built |-> FALSE,
                     holds |-> VersionOf(mem), maps |-> maps, dvs |-> <<>>]
             stop == {j \in jobs : j.kind = "index" /\ j.target \in inputs}
  <2>2. jobs' = Stopped(stop) \cup {job}
      BY <2>1 DEF Stopped
  <2> HIDE DEF maps
  <2>3. /\ {"kind", "unit", "built", "holds", "dvs", "maps"} \subseteq DOMAIN job
        /\ job.kind = "compact" /\ job.unit = ids.unit /\ job.built \in BOOLEAN /\ ~job.built
        /\ job.holds = VersionOf(mem) /\ DOMAIN job.dvs = {}
      OBVIOUS
  <2> HIDE DEF job
  <2>4. IsJob(job)
      BY <1>1, <2>3, FS_EmptySet DEF IsJob
  <2>5. /\ ids' \in [prev : Nat, gen : Nat, unit : Nat, dv : Nat]
        /\ ids'.unit = ids.unit + 1 /\ ids'.dv = ids.dv /\ ids'.gen = ids.gen /\ ids'.prev = ids.prev
      BY <1>1, <1>3 DEF BeginCompaction
  <2>9. Drained /\ UNCHANGED <<phase, gen, publish>> /\ UNCHANGED <<rowVars, diskVars, gcVars, readers>>
      BY <1>3 DEF BeginCompaction, JobSlot
  <2>6. stop \in SUBSET jobs /\ \A j \in stop : j.kind = "index"
      OBVIOUS
  <2> HIDE DEF stop
  <2> DEFINE dv == ids.dv
  <2>10. dv \in Nat /\ dv >= ids.dv /\ ids'.dv = dv
      BY <1>1, <2>5
  <2> HIDE DEF dv
  <2>7. Begins(job, dv)
      BY <1>1, <2>2, <2>3, <2>4, <2>5, <2>6, <2>9, <2>10 DEF Begins
  <2>8. QED
      BY <2>7, BeginsKeeps
<1>4. CASE BeginIndex
  <2>1. PICK u \in DOMAIN mem.segs :
            jobs' = jobs \cup {[kind |-> "index", unit |-> ids.unit, built |-> FALSE,
                                holds |-> VersionOf(mem), target |-> u,
                                cancelled |-> FALSE, dvs |-> <<>>]}
      BY <1>4 DEF BeginIndex
  <2> DEFINE job == [kind |-> "index", unit |-> ids.unit, built |-> FALSE,
                     holds |-> VersionOf(mem), target |-> u, cancelled |-> FALSE, dvs |-> <<>>]
  <2>2. jobs' = Stopped({}) \cup {job}
      BY <2>1 DEF Stopped
  <2>3. /\ {"kind", "unit", "built", "holds", "dvs", "target", "cancelled"} \subseteq DOMAIN job
        /\ job.kind = "index" /\ job.unit = ids.unit /\ job.built \in BOOLEAN /\ ~job.built /\ job.target = u
        /\ job.holds = VersionOf(mem) /\ DOMAIN job.dvs = {}
      OBVIOUS
  <2> HIDE DEF job
  <2>4. IsJob(job)
      BY <1>1, <2>3, FS_EmptySet DEF IsJob, IsState
  <2>5. /\ ids' \in [prev : Nat, gen : Nat, unit : Nat, dv : Nat]
        /\ ids'.unit = ids.unit + 1 /\ ids'.dv = ids.dv /\ ids'.gen = ids.gen /\ ids'.prev = ids.prev
      BY <1>1, <1>4 DEF BeginIndex
  <2>8. Drained /\ UNCHANGED <<phase, gen, publish>> /\ UNCHANGED <<rowVars, diskVars, gcVars, readers>>
      BY <1>4 DEF BeginIndex, JobSlot
  <2> DEFINE dv == ids.dv
  <2>9. dv \in Nat /\ dv >= ids.dv /\ ids'.dv = dv
      BY <1>1, <2>5
  <2> HIDE DEF dv
  <2>6. Begins(job, dv)
      BY <1>1, <2>2, <2>3, <2>4, <2>5, <2>8, <2>9 DEF Begins
  <2>7. QED
      BY <2>6, BeginsKeeps
<1>5. QED
    BY <1>2, <1>3, <1>4

-----------------------------------------------------------------------------
(* Jobs are built. *)

\* A build that ends adds the files of its own names, and nothing else.
LEMMA BuildKeeps ==
    ASSUME IInv, Build
    PROVE  IInv'
<1> USE DEF IInv, rowVars, gcVars
<1>1. PICK j \in jobs :
          /\ ~j.built
          /\ jobs' = (jobs \ {j}) \cup {[j EXCEPT !.built = TRUE, !.holds = {}]}
          /\ present' = present \cup DOMAIN Written(j)
          /\ removed' = {n \in removed : n[1] = "manifest"}
          /\ store' = Only(Extend(Written(j), store), present' \cup removed')
    BY DEF Build
<1>2. /\ phase' = phase /\ phase \in {"open", "poisoned"}
      /\ UNCHANGED <<gen, ids, publish, current, cached, mem, group, ops, trash, obsolete, readers>>
    BY DEF Build
<1> DEFINE k == [j EXCEPT !.built = TRUE, !.holds = {}]
<1>3. /\ IsJob(j) /\ IsJob(k) /\ k.unit = j.unit /\ k.kind = j.kind /\ k.dvs = j.dvs
      /\ k.built /\ k.holds = {}
      /\ Output(k) = Output(j) /\ (HasOutput(k) <=> HasOutput(j))
    BY BuiltJob DEF ShapeInv
<1>4. jobs' = (jobs \ {j}) \cup {k}
    BY <1>1
<1> HIDE DEF k
<1>5. DOMAIN Written(j) \subseteq JobFiles(j) /\ (HasOutput(j) => Output(j) \in DOMAIN Written(j))
  <2> DEFINE D == {Dv(u, j.dvs[u].gen) : u \in DOMAIN j.dvs}
             dvs == [n \in D |-> j.dvs[n[2]].bits]
  <2>1. JobFiles(j) = {Output(j)} \cup D
      BY DEF JobFiles, Output
  <2>2. DOMAIN dvs = D
      OBVIOUS
  <2> HIDE DEF D
  <2>3. CASE j.kind = "index"
    <3>1. Written(j) = With(dvs, Output(j), "graph")
        BY <2>3 DEF Written, Output, D
    <3> HIDE DEF dvs
    <3>2. QED
        BY <3>1, <2>1, <2>2 DEF With
  <2>4. CASE j.kind # "index" /\ OutputRows(j) = <<>>
    <3>1. Written(j) = dvs /\ ~HasOutput(j)
        BY <2>4 DEF Written, D, HasOutput
    <3>2. QED
        BY <3>1, <2>1, <2>2
  <2>5. CASE j.kind # "index" /\ OutputRows(j) # <<>>
    <3>1. Written(j) = With(dvs, Output(j), OutputRows(j))
        BY <2>5 DEF Written, Output, D
    <3> HIDE DEF dvs
    <3>2. QED
        BY <3>1, <2>1, <2>2 DEF With
  <2>6. QED
      BY <2>3, <2>4, <2>5
<1>6. \A i \in jobs' : i # k => i \in jobs /\ i # j /\ IsJob(i) /\ JobFiles(i) \cap JobFiles(j) = {}
    BY <1>4, JobsApart DEF ShapeInv
<1>7. \A i \in jobs' : IsJob(i) /\ (HasOutput(i)' <=> HasOutput(i))
    BY <1>3, <1>6, OutputStays
<1>8. Holders' \subseteq Holders
  <2>1. \A i \in jobs' : i.holds \subseteq Holders
      BY <1>3, <1>6, Held
  <2>2. QED
      BY <1>2, <2>1, Held, HoldersShrink
<1>9. IsFiniteSet(jobs') /\ IsFiniteSet(present') /\ IsFiniteSet(removed')
  <2>1. IsFiniteSet(jobs \ {j}) /\ IsFiniteSet(DOMAIN Written(j)) /\ IsFiniteSet(removed')
      BY <1>1, <1>3, <1>5, FilesOfJob, FS_Subset DEF ShapeInv
  <2>2. IsFiniteSet((jobs \ {j}) \cup {k})
      BY <2>1, FS_AddElement
  <2>3. IsFiniteSet(present \cup DOMAIN Written(j))
      BY <2>1, FS_Union DEF ShapeInv
  <2>4. QED
      BY <1>1, <1>4, <2>1, <2>2, <2>3
<1>10. ASSUME NEW n \in present' \cup removed', n[1] = "manifest"
       PROVE  n \in DOMAIN store' /\ IsManifest(store'[n])
  <2>1. n \notin DOMAIN Written(j) /\ n \in present \cup removed
      BY <1>1, <1>3, <1>5, <1>10, FilesOfJob
  <2>2. n \in DOMAIN store /\ IsManifest(store[n])
      BY <2>1, <1>10 DEF ShapeInv
  <2>3. n \in DOMAIN store' /\ store'[n] = store[n]
      BY <1>1, <2>1, <2>2 DEF Only, Extend, Restrict
  <2>4. QED
      BY <2>2, <2>3
<1>11. ShapeInv'
    BY <1>1, <1>2, <1>3, <1>5, <1>7, <1>9, <1>10, FilesOfJob DEF ShapeInv
<1>12. DownInv'
    BY <1>2 DEF DownInv
<1>13. StageInv'
  <2>1. Publishing => publish.job \in jobs'
      BY <1>1, <1>4 DEF StageInv
  <2>2. QED
      BY <1>1, <1>2, <2>1 DEF StageInv, Publishing
<1>14. CounterInv'
  <2>1. CounterInv /\ phase # "closed" /\ j.unit \in Nat /\ j.unit < ids.unit
      BY <1>2, <1>3 DEF CounterInv, IsJob
  <2>2. BornBelow({Output(j)}, ids.unit)
      BY <1>3, <2>1 DEF BornBelow, Output, Segment, Index, ShapeInv
  <2>3. ASSUME NEW n \in JobFiles(j), n[1] = "dv"
        PROVE  n[3] \in 0..(ids.dv - 1)
    <3>1. PICK u \in DOMAIN j.dvs : n = Dv(u, j.dvs[u].gen)
        BY <1>3, <2>3, FilesOfJob
    <3>2. j.dvs[u].gen \in Nat /\ j.dvs[u].gen < ids.dv /\ ids.dv \in Nat
        BY <1>3, <2>1 DEF CounterInv, IsJob, ShapeInv
    <3>3. QED
        BY <3>1, <3>2 DEF Dv
  <2>4. \A n \in present' : n \in present \/ n \in JobFiles(j)
      BY <1>1, <1>5
  <2>5. BornBelow(present', ids.unit) /\ DvsBelow(present', ids.dv) /\ GensBelow(present', ids.gen)
      BY <1>3, <2>1, <2>2, <2>3, <2>4, FilesOfJob DEF CounterInv, BornBelow, DvsBelow, GensBelow
  <2>6. \A i \in jobs' : i.unit < ids.unit /\ \A u \in DOMAIN i.dvs : i.dvs[u].gen < ids.dv
      BY <1>3, <1>6, <2>1 DEF CounterInv
  <2>7. QED
      BY <1>1, <1>2, <2>1, <2>5, <2>6 DEF CounterInv
<1>15. JobInv'
  <2>1. ASSUME NEW i \in jobs', NEW h \in jobs', i.unit = h.unit \/ (i.kind = "flush" /\ h.kind = "flush")
        PROVE  i = h
      BY <1>3, <1>6, <2>1 DEF JobInv
  <2>2. ASSUME NEW i \in jobs'
        PROVE  /\ Output(i) \notin (trash \cup obsolete \cup Holders)'
               /\ i.built /\ HasOutput(i)' => Output(i) \in present'
               /\ ~i.built => JobFiles(i) \cap present' = {}
    <3>1. CASE i = k
        BY <1>1, <1>2, <1>3, <1>5, <1>7, <1>8, <3>1 DEF JobInv
    <3>2. CASE i # k
        BY <1>1, <1>2, <1>5, <1>6, <1>7, <1>8, <3>2 DEF JobInv
    <3>3. QED
        BY <3>1, <3>2
  <2>3. QED
      BY <2>1, <2>2 DEF JobInv
<1>16. HeldInv'
    BY <1>1, <1>2, <1>8 DEF HeldInv
<1>17. QED
    BY <1>11, <1>12, <1>13, <1>14, <1>15, <1>16

-----------------------------------------------------------------------------
(* Jobs end without being installed. *)

\* A job goes, with the files `gone` queued for removal; `came` are files
\* that it may have left behind.
Leaves(j, gone, came) ==
    /\ j \in jobs /\ jobs' = jobs \ {j}
    /\ publish' = NoPublish
    /\ publish # NoPublish => Publishing /\ publish.job = j
    /\ \A n \in gone : \/ n \in JobFiles(j) \/ n[1] = "dv"
                       \/ Publishing /\ n = Mf(publish.gen)
    /\ trash' = trash \cup gone
    /\ came \subseteq JobFiles(j) 
    /\ present' = present \cup came
    /\ \A n \in DOMAIN store : n[1] = "manifest" => n \in DOMAIN store' /\ store'[n] = store[n]
    /\ phase \in {"open", "poisoned"} /\ phase' \in {phase, "poisoned"}
    /\ cached' \in Nat \ {0}
    /\ UNCHANGED <<mem, group, ops, gen, ids, removed, current, obsolete, readers>>

\* A job that ends without being installed leaves no file that anything names.
LEMMA LeavesKeeps ==
    ASSUME IInv, NEW j, NEW gone, NEW came, Leaves(j, gone, came)
    PROVE  IInv'
<1> USE DEF IInv
<1>1. IsJob(j) /\ j \in jobs
    BY DEF Leaves, ShapeInv
<1>2. \A i \in jobs' : i \in jobs /\ i # j /\ IsJob(i) /\ JobFiles(i) \cap JobFiles(j) = {}
    BY JobsApart DEF Leaves, ShapeInv
<1>3. \A i \in jobs' : HasOutput(i)' <=> HasOutput(i)
    BY <1>2, OutputStays
<1>4. Holders' \subseteq Holders
  <2>1. \A i \in jobs' : i.holds \subseteq Holders
      BY <1>2, Held
  <2>2. QED
      BY <2>1, Held, HoldersShrink DEF Leaves
<1>5. IsFiniteSet(jobs') /\ IsFiniteSet(present')
  <2>1. IsFiniteSet(jobs \ {j}) /\ IsFiniteSet(came)
      BY <1>1, FilesOfJob, FS_Subset DEF ShapeInv, Leaves
  <2>2. QED
      BY <2>1, FS_Union DEF ShapeInv, Leaves
<1>6. \A n \in came : n[1] # "manifest" /\ n \in Names
    BY <1>1, FilesOfJob DEF Leaves
<1>7. ShapeInv'
  <2>1. \A n \in present' \cup removed' : n[1] = "manifest" => n \in DOMAIN store' /\ IsManifest(store'[n])
      BY <1>6 DEF Leaves, ShapeInv
  <2>2. QED
      BY <1>2, <1>5, <1>6, <2>1 DEF ShapeInv, Leaves, NoPublish
<1>8. DownInv'
    BY DEF DownInv, Leaves
<1>9. StageInv'
    BY DEF StageInv, Leaves, Publishing, NoPublish
<1>10. CounterInv'
  <2>1. CounterInv /\ phase # "closed" /\ j.unit \in Nat /\ j.unit < ids.unit
      BY <1>1 DEF CounterInv, IsJob, Leaves
  <2>2. BornBelow({Output(j)}, ids.unit)
      BY <1>1, <2>1 DEF BornBelow, Output, Segment, Index, ShapeInv
  <2>3. ASSUME NEW n \in JobFiles(j), n[1] = "dv"
        PROVE  n[3] \in 0..(ids.dv - 1)
    <3>1. PICK u \in DOMAIN j.dvs : n = Dv(u, j.dvs[u].gen)
        BY <1>1, <2>3, FilesOfJob
    <3>2. j.dvs[u].gen \in Nat /\ j.dvs[u].gen < ids.dv /\ ids.dv \in Nat
        BY <1>1, <2>1 DEF CounterInv, IsJob, ShapeInv
    <3>3. QED
        BY <3>1, <3>2 DEF Dv
  <2>4. \A n \in JobFiles(j) : n[1] # "manifest" /\ (n[1] # "dv" => n = Output(j))
      BY <1>1, FilesOfJob
  <2>5. BornBelow(present', ids.unit) /\ DvsBelow(present', ids.dv) /\ GensBelow(present', ids.gen)
      BY <2>1, <2>2, <2>3, <2>4 DEF CounterInv, BornBelow, DvsBelow, GensBelow, Leaves
  <2>6. ASSUME Publishing
        PROVE  publish.gen \in 0..(ids.gen - 1) /\ publish.gen # gen
      BY <2>6 DEF StageInv, ShapeInv
  <2>7. \A n \in gone : \/ n = Output(j) \/ n[1] = "dv"
                        \/ (Publishing /\ n = Mf(publish.gen))
      BY <2>4 DEF Leaves
  <2>8. BornBelow(trash' \cup obsolete', ids.unit) /\ GensBelow(trash', ids.gen)
    <3>1. Output(j)[1] # "manifest"
        BY <1>1, FilesOfJob
    <3>2. Publishing => Mf(publish.gen)[1] = "manifest" /\ Mf(publish.gen)[2] \in 0..(ids.gen - 1)
        BY <2>6 DEF Mf
    <3>3. trash' \cup obsolete' = (trash \cup obsolete) \cup gone /\ trash' = trash \cup gone
        BY DEF Leaves
    <3>4. BornBelow(gone, ids.unit) /\ GensBelow(gone, ids.gen)
        BY <2>2, <2>7, <3>1, <3>2 DEF BornBelow, GensBelow
    <3>5. QED
        BY <2>1, <3>3, <3>4 DEF BornBelow, GensBelow, CounterInv
  <2>9. Mf(gen) \notin gone
    <3>1. Mf(gen)[1] = "manifest" /\ Mf(gen)[2] = gen /\ (Publishing => Mf(publish.gen)[2] = publish.gen)
        BY DEF Mf
    <3>2. Output(j)[1] # "manifest"
        BY <1>1, FilesOfJob
    <3>3. QED
        BY <2>6, <2>7, <3>1, <3>2
  <2>10. \A i \in jobs' : i.unit < ids.unit /\ \A u \in DOMAIN i.dvs : i.dvs[u].gen < ids.dv
      BY <1>2, <2>1 DEF CounterInv
  <2>11. QED
      BY <2>1, <2>5, <2>8, <2>9, <2>10 DEF CounterInv, Leaves
<1>11. ASSUME NEW n \in gone, n[1] \in {"segment", "index"}
       PROVE  n = Output(j)
    BY <1>1, <1>11, FilesOfJob DEF Leaves, Mf
<1>12. JobInv'
  <2>1. ASSUME NEW i \in jobs'
        PROVE  /\ Output(i) \notin (trash \cup obsolete \cup Holders)'
               /\ i.built /\ HasOutput(i)' => Output(i) \in present'
               /\ ~i.built => JobFiles(i) \cap present' = {}
    <3>1. Output(i) \notin gone
        BY <1>1, <1>2, <1>11, FilesOfJob
    <3>2. QED
        BY <1>2, <1>3, <1>4, <3>1 DEF JobInv, Leaves
  <2>2. QED
      BY <1>2, <2>1 DEF JobInv
<1>13. HeldInv'
  <2>1. Holders \cap gone = {}
      BY <1>1, <1>11 DEF HeldInv, JobInv
  <2>2. QED
      BY <1>4, <2>1 DEF HeldInv, Leaves
<1>14. QED
    BY <1>7, <1>8, <1>9, <1>10, <1>12, <1>13

\* Failed, abandoned and refused jobs, and failed publishes, preserve the invariant.
LEMMA JobsEnd ==
    ASSUME IInv, BuildFails \/ AbandonIndex \/ JobRefused \/ PublishFails \/ PublishUnknown
    PROVE  IInv'
<1> USE DEF IInv, rowVars, diskVars
<1>1. cached \in Nat \ {0} /\ \A j \in jobs : IsJob(j)
    BY DEF ShapeInv
<1>2. CASE BuildFails
  <2>1. PICK j \in jobs :
            /\ ~j.built
            /\ jobs' = jobs \ {j}
            /\ present' = present \cup JobFiles(j)
            /\ store' = Without(store, JobFiles(j))
            /\ trash' = trash \cup JobFiles(j)
      BY <1>2 DEF BuildFails
  <2>2. \A n \in DOMAIN store : n[1] = "manifest" => n \in DOMAIN store' /\ store'[n] = store[n]
      BY <1>1, <2>1, FilesOfJob DEF Without, Restrict
  <2>3. Leaves(j, JobFiles(j), JobFiles(j))
      BY <1>1, <1>2, <2>1, <2>2 DEF Leaves, BuildFails
  <2>4. QED
      BY <2>3, LeavesKeeps
<1>3. CASE AbandonIndex
  <2>1. PICK j \in jobs : jobs' = jobs \ {j} /\ trash' = trash \cup JobFiles(j)
      BY <1>3 DEF AbandonIndex
  <2>2. Leaves(j, JobFiles(j), {})
      BY <1>1, <1>3, <2>1 DEF Leaves, AbandonIndex, Drained
  <2>3. QED
      BY <2>2, LeavesKeeps
<1>4. CASE JobRefused
  <2>1. PICK j \in jobs : jobs' = jobs \ {j} /\ trash' = trash \cup JobFiles(j)
      BY <1>4 DEF JobRefused
  <2>2. publish = NoPublish
      BY <1>4 DEF JobRefused, StageInv
  <2>3. Leaves(j, JobFiles(j), {})
      BY <1>1, <1>4, <2>1, <2>2 DEF Leaves, JobRefused
  <2>4. QED
      BY <2>3, LeavesKeeps
<1>5. CASE PublishFails
  <2> DEFINE gone == JobFiles(publish.job) \cup {Mf(publish.gen)}
                       \cup {n \in present : n[1] = "dv" /\ n[2] = publish.job.unit}
  <2>1. Publishing /\ publish.job \in jobs
      BY <1>5 DEF PublishFails, Publishing, StageInv
  <2>2. trash' = trash \cup gone
      BY <1>5 DEF PublishFails
  <2>3. \A n \in gone : \/ n \in JobFiles(publish.job) \/ n[1] = "dv"
                        \/ (Publishing /\ n = Mf(publish.gen))
      BY <2>1
  <2> HIDE DEF gone
  <2>4. Leaves(publish.job, gone, {})
      BY <1>1, <1>5, <2>1, <2>2, <2>3 DEF Leaves, PublishFails
  <2>5. QED
      BY <2>4, LeavesKeeps
<1>6. CASE PublishUnknown
  <2>1. Publishing /\ publish.job \in jobs /\ publish.gen \in Nat \ {0}
      BY <1>6 DEF PublishUnknown, Publishing, StageInv
  <2>2. cached' \in {cached, publish.gen}
      BY <1>6 DEF PublishUnknown
  <2>3. Leaves(publish.job, {}, {})
      BY <1>1, <1>6, <2>1, <2>2 DEF Leaves, PublishUnknown, gcVars
  <2>4. QED
      BY <2>3, LeavesKeeps
<1>7. QED
    BY <1>2, <1>3, <1>4, <1>5, <1>6

-----------------------------------------------------------------------------
(* Publishing a manifest. *)

\* The manifest file and, for a compaction, the reconciled deletions are
\* written under names that were never used.
LEMMA StartPublishKeeps ==
    ASSUME IInv, Drained, NEW j \in jobs, j.built, NEW man, NEW files, NEW content,
           StartPublish(j, man, files, content), IsManifest(man), man.dv >= ids.dv,
           DOMAIN content = files, IsFiniteSet(files),
           \A n \in files : n \in Names /\ n[1] = "dv" /\ n[3] = ids.dv /\ n[3] < man.dv
    PROVE  IInv'
<1> USE DEF IInv
<1>1. /\ phase' = "open" /\ publish = NoPublish /\ group = NoGroup /\ phase = "open"
      /\ publish' = [step |-> "written", job |-> j, gen |-> ids.gen]
      /\ ids' = [ids EXCEPT !.gen = @ + 1, !.dv = man.dv]
      /\ present' = present \cup {Mf(ids.gen)} \cup files
      /\ removed' = {}
      /\ store' = Only(With(Extend(content, store), Mf(ids.gen), man), present')
      /\ UNCHANGED <<phase, mem, group, ops, gen, jobs, current, cached, trash, obsolete, readers>>
    BY DEF StartPublish, Drained, gcVars
<1>2. /\ ids \in [prev : Nat, gen : Nat, unit : Nat, dv : Nat] /\ man.dv \in Nat
      /\ ids' \in [prev : Nat, gen : Nat, unit : Nat, dv : Nat]
      /\ ids'.gen = ids.gen + 1 /\ ids'.dv = man.dv /\ ids'.unit = ids.unit /\ ids'.prev = ids.prev
  <2>1. ids \in [prev : Nat, gen : Nat, unit : Nat, dv : Nat] /\ man.dv \in Nat
      BY DEF ShapeInv, IsManifest
  <2>2. QED
      BY <1>1, <2>1, TakeGen
<1>3. Mf(ids.gen) \in Names /\ Mf(ids.gen)[1] = "manifest" /\ Mf(ids.gen)[2] = ids.gen
    BY <1>2 DEF Mf, Names
<1>4. Holders' = Holders
    BY <1>1 DEF Holders, VersionOf
<1>5. \A i \in jobs : IsJob(i) /\ (HasOutput(i)' <=> HasOutput(i))
    BY OutputStays DEF ShapeInv
<1>6. /\ "step" \in DOMAIN publish' /\ "job" \in DOMAIN publish' /\ "gen" \in DOMAIN publish'
      /\ publish'.step = "written" /\ publish'.job = j /\ publish'.gen = ids.gen
      /\ publish' # NoPublish
    BY <1>1 DEF NoPublish
<1>7. ASSUME NEW n \in present', n[1] = "manifest"
      PROVE  n \in DOMAIN store' /\ IsManifest(store'[n])
  <2>1. CASE n = Mf(ids.gen)
      BY <1>1, <2>1 DEF Only, Restrict, With
  <2>2. CASE n # Mf(ids.gen)
    <3>1. n \in present /\ n \notin files
        BY <1>1, <1>7, <2>2
    <3>2. n \in DOMAIN store /\ IsManifest(store[n])
        BY <1>7, <3>1 DEF ShapeInv
    <3>3. n \in DOMAIN store' /\ store'[n] = store[n]
        BY <1>1, <1>7, <2>2, <3>1, <3>2 DEF Only, Restrict, With, Extend
    <3>4. QED
        BY <3>2, <3>3
  <2>3. QED
      BY <2>1, <2>2
<1>8. IsFiniteSet(present') /\ IsFiniteSet(removed')
  <2>1. IsFiniteSet(present \cup {Mf(ids.gen)})
      BY FS_AddElement DEF ShapeInv
  <2>2. QED
      BY <1>1, <2>1, FS_Union, FS_EmptySet
<1>9. ShapeInv'
  <2>1. present' \subseteq Names /\ removed' \subseteq Names
      BY <1>1, <1>3 DEF ShapeInv
  <2>2. QED
      BY <1>1, <1>2, <1>6, <1>7, <1>8, <2>1 DEF ShapeInv
<1>10. DownInv'
    BY <1>1 DEF DownInv
<1>11. CounterInv'
  <2>1. CounterInv /\ phase # "closed"
      BY <1>1
  <2>2. \A n \in present' : n \in present \/ n = Mf(ids.gen) \/ (n[1] = "dv" /\ n[3] = ids.dv /\ n[3] < man.dv)
      BY <1>1
  <2>3. BornBelow(present', ids'.unit) /\ DvsBelow(present', ids'.dv) /\ GensBelow(present', ids'.gen)
      BY <1>2, <1>3, <2>1, <2>2 DEF CounterInv, BornBelow, DvsBelow, GensBelow
  <2>4. BornBelow(trash' \cup obsolete', ids'.unit) /\ GensBelow(trash', ids'.gen)
      BY <1>1, <1>2, <2>1 DEF CounterInv, BornBelow, GensBelow
  <2>5. \A i \in jobs' : i.unit < ids'.unit /\ \A u \in DOMAIN i.dvs : i.dvs[u].gen < ids'.dv
      BY <1>1, <1>2, <1>5, <2>1 DEF CounterInv, IsJob
  <2>6. gen' \in Nat \ {0, ids'.prev} /\ gen' < ids'.gen /\ ids'.prev < ids'.gen /\ Mf(gen') \in present' \ trash'
      BY <1>1, <1>2, <2>1 DEF CounterInv
  <2>7. QED
      BY <2>3, <2>4, <2>5, <2>6 DEF CounterInv
<1>12. StageInv'
  <2>1. Mf(ids.gen) \notin trash
      BY <1>1, <1>2, <1>3 DEF CounterInv, GensBelow
  <2>2. ids.gen \in Nat \ {0, gen, ids.prev} /\ ids.gen < ids'.gen
      BY <1>1, <1>2 DEF CounterInv
  <2>3. Mf(ids.gen) \in present' \ trash'
      BY <1>1, <2>1
  <2>4. publish'.gen \in Nat \ {0, gen', ids'.prev} /\ publish'.gen < ids'.gen /\ Mf(publish'.gen) \in present' \ trash'
      BY <1>1, <1>2, <1>6, <2>2, <2>3
  <2>5. QED
      BY <1>1, <1>6, <2>4 DEF StageInv
<1>13. JobInv'
  <2>1. ASSUME NEW i \in jobs
        PROVE  JobFiles(i) \cap (files \cup {Mf(ids.gen)}) = {}
    <3>1. ASSUME NEW n \in JobFiles(i) \cap files
          PROVE  FALSE
      <4>1. PICK u \in DOMAIN i.dvs : n = Dv(u, i.dvs[u].gen)
          BY <1>5, <3>1, FilesOfJob
      <4>2. i.dvs[u].gen < ids.dv /\ i.dvs[u].gen \in Nat
          BY <1>1, <1>5 DEF CounterInv, IsJob
      <4>3. n[3] = i.dvs[u].gen
          BY <4>1 DEF Dv
      <4>4. QED
          BY <1>2, <3>1, <4>2, <4>3
    <3>2. QED
        BY <1>3, <1>5, <3>1, FilesOfJob
  <2>2. QED
      BY <1>1, <1>4, <1>5, <2>1 DEF JobInv
<1>14. HeldInv'
    BY <1>1, <1>4 DEF HeldInv
<1>15. QED
    BY <1>9, <1>10, <1>11, <1>12, <1>13, <1>14

\* Publishing any of the three jobs preserves the invariant.
LEMMA JobsCommit ==
    ASSUME IInv, CommitFlush \/ CommitCompaction \/ CommitIndex
    PROVE  IInv'
<1> USE DEF IInv
<1>1. Drained /\ ids \in [prev : Nat, gen : Nat, unit : Nat, dv : Nat]
    BY DEF CommitFlush, CommitCompaction, CommitIndex, ShapeInv
<1>2. IsManifest(Manifest(gen))
  <2>1. Mf(gen) \in present /\ Mf(gen)[1] = "manifest"
      BY <1>1 DEF CounterInv, Drained, Mf
  <2>2. QED
      BY <2>1 DEF ShapeInv, Manifest
<1>3. CASE CommitFlush
  <2>1. PICK j \in jobs : j.built /\ StartPublish(j, FlushManifest(j), {}, <<>>)
      BY <1>3 DEF CommitFlush
  <2>2. IsManifest(FlushManifest(j)) /\ FlushManifest(j).dv = ids.dv
      BY <1>1, <1>2 DEF FlushManifest, IsManifest
  <2>3. DOMAIN <<>> = {} /\ IsFiniteSet({})
      BY FS_EmptySet
  <2>4. QED
      BY <1>1, <2>1, <2>2, <2>3, StartPublishKeeps
<1>4. CASE CommitCompaction
  <2> DEFINE Gen(j) == IF Reconciled(j) = {} \/ OutputRows(j) = <<>> THEN 0 ELSE ids.dv
             File(j) == IF Gen(j) = 0 THEN {} ELSE {Dv(j.unit, Gen(j))}
  <2>0. PICK j \in jobs : j.built /\ StartPublish(j, CompactManifest(j, Gen(j)), File(j), [n \in File(j) |-> Reconciled(j)])
      BY <1>4 DEF CommitCompaction
  <2>1. PICK g, file, bits :
            /\ j.built /\ g \in {0, ids.dv}
            /\ file = IF g = 0 THEN {} ELSE {Dv(j.unit, g)}
            /\ StartPublish(j, CompactManifest(j, g), file, [n \in file |-> bits])
    <3>1. Gen(j) \in {0, ids.dv} /\ File(j) = IF Gen(j) = 0 THEN {} ELSE {Dv(j.unit, Gen(j))}
        OBVIOUS
    <3> HIDE DEF Gen, File
    <3>2. QED
        BY <2>0, <3>1
  <2>2. /\ IsManifest(CompactManifest(j, g))
        /\ CompactManifest(j, g).dv = IF g = 0 THEN ids.dv ELSE ids.dv + 1
      BY <1>1, <1>2 DEF CompactManifest, IsManifest
  <2>3. \A n \in file : n \in Names /\ n[1] = "dv" /\ n[3] = ids.dv /\ g # 0
      BY <1>1, <2>1 DEF Dv, Names, ShapeInv, IsJob
  <2>4. IsFiniteSet(file) /\ DOMAIN [n \in file |-> bits] = file
      BY <2>1, FS_EmptySet, FS_Singleton
  <2>5. \A n \in file : n[3] < CompactManifest(j, g).dv
      BY <1>1, <2>2, <2>3
  <2>6. CompactManifest(j, g).dv >= ids.dv
      BY <1>1, <2>2
  <2>7. QED
      BY <1>1, <2>1, <2>2, <2>3, <2>4, <2>5, <2>6, StartPublishKeeps
<1>5. CASE CommitIndex
  <2>1. PICK j \in jobs : j.built /\ StartPublish(j, IndexManifest(j), {}, <<>>)
      BY <1>5 DEF CommitIndex
  <2>2. IsManifest(IndexManifest(j)) /\ IndexManifest(j).dv = ids.dv
      BY <1>1, <1>2 DEF IndexManifest, IsManifest
  <2>3. DOMAIN <<>> = {} /\ IsFiniteSet({})
      BY FS_EmptySet
  <2>4. QED
      BY <1>1, <2>1, <2>2, <2>3, StartPublishKeeps
<1>6. QED
    BY <1>3, <1>4, <1>5

\* The rename and the truncation of the log preserve the invariant.
LEMMA PublishMoves ==
    ASSUME IInv, Rename \/ TruncateLog
    PROVE  IInv'
<1> USE DEF IInv, rowVars, diskVars, gcVars
<1>1. /\ phase = "open"
      /\ UNCHANGED <<phase, mem, group, ops, gen, ids, jobs, store, present, removed, current, trash,
                     obsolete, readers>>
    BY DEF Rename, TruncateLog
<1>2. \/ /\ publish.step = "written" /\ publish' = [publish EXCEPT !.step = "renamed"]
         /\ cached' = publish.gen
      \/ publish' = NoPublish /\ cached' = cached
    BY DEF Rename, TruncateLog
<1>3. CASE publish.step = "written" /\ publish' = [publish EXCEPT !.step = "renamed"] /\ cached' = publish.gen
  <2>1. /\ {"step", "job", "gen"} \subseteq DOMAIN publish /\ publish # NoPublish
        /\ publish.gen \in Nat \ {0}
      BY <1>3 DEF StageInv, Publishing, NoPublish
  <2>2. /\ {"step", "job", "gen"} \subseteq DOMAIN publish' /\ publish'.step = "renamed"
        /\ publish'.job = publish.job /\ publish'.gen = publish.gen
      BY <1>3, <2>1
  <2>3. Holders' = Holders /\ \A j \in jobs : IsJob(j) /\ (HasOutput(j)' <=> HasOutput(j))
      BY <1>1, OutputStays DEF Holders, VersionOf, ShapeInv
  <2>4. ShapeInv'
      BY <1>1, <1>3, <2>1, <2>2 DEF ShapeInv
  <2>5. StageInv'
      BY <1>1, <1>3, <2>1, <2>2 DEF StageInv, Publishing
  <2>6. DownInv' /\ CounterInv' /\ JobInv' /\ HeldInv'
      BY <1>1, <2>3 DEF DownInv, CounterInv, JobInv, HeldInv
  <2>7. QED
      BY <2>4, <2>5, <2>6
<1>4. CASE publish' = NoPublish /\ cached' = cached
  <2>1. Holders' = Holders /\ \A j \in jobs : IsJob(j) /\ (HasOutput(j)' <=> HasOutput(j))
      BY <1>1, OutputStays DEF Holders, VersionOf, ShapeInv
  <2>2. ShapeInv' /\ StageInv'
      BY <1>1, <1>4 DEF ShapeInv, StageInv, Publishing, NoPublish
  <2>3. DownInv' /\ CounterInv' /\ JobInv' /\ HeldInv'
      BY <1>1, <2>1 DEF DownInv, CounterInv, JobInv, HeldInv
  <2>4. QED
      BY <2>2, <2>3
<1>5. QED
    BY <1>2, <1>3, <1>4

\* The durable manifest is installed: the version gains the job's output,
\* which is on disk, and loses files that the queue may take now.
LEMMA InstallKeeps ==
    ASSUME IInv, Install
    PROVE  IInv'
<1> USE DEF IInv
<1> DEFINE j == publish.job
           new == IF HasOutput(j) THEN {Output(j)} ELSE {}
<1>1. /\ phase = "open" /\ phase' = phase /\ publish.step = "renamed"
      /\ current' = cached /\ gen' = publish.gen /\ ids' = [ids EXCEPT !.prev = gen]
      /\ jobs' = jobs \ {j}
      /\ publish' \in {[step |-> "truncate"], NoPublish}
      /\ UNCHANGED <<phase, group, ops, store, present, removed, cached, readers>>
    BY DEF Install
<1>2. mem' = CASE j.kind = "flush" ->
                     InstallFlush(mem, j.unit, j.memtable.unit, j.maps[j.memtable.unit], OutputRows(j))
               [] j.kind = "compact" ->
                     InstallCompaction(mem, j.unit, j.maps, OutputRows(j), Reconciled(j))
               [] OTHER -> InstallIndex(mem, j.target, j.unit)
    BY DEF Install
<1>3. obsolete \subseteq obsolete' /\ obsolete' \subseteq obsolete \cup VersionOf(mem)
    BY DEF Install
<1>4. PICK dvs : /\ \A n \in dvs : n[1] = "dv"
                 /\ trash' = trash \cup dvs \cup (IF ids.prev = 0 THEN {} ELSE {Mf(ids.prev)})
  <2> DEFINE dvs == IF j.kind = "index" THEN {} ELSE SupersededDvs(j)
  <2>1. trash' = trash \cup dvs \cup (IF ids.prev = 0 THEN {} ELSE {Mf(ids.prev)})
      BY DEF Install
  <2>2. \A n \in dvs : n[1] = "dv"
      BY DEF SupersededDvs, Dv
  <2> HIDE DEF dvs
  <2>3. QED
      BY <2>1, <2>2
<1>5. /\ j \in jobs /\ IsJob(j) /\ j.built /\ IsState(mem) /\ group = NoGroup
      /\ publish.gen \in Nat \ {0, gen, ids.prev} /\ publish.gen < ids.gen
      /\ Mf(publish.gen) \in present \ trash
    BY <1>1 DEF StageInv, ShapeInv, Publishing, NoPublish
<1>6. ids \in [prev : Nat, gen : Nat, unit : Nat, dv : Nat] /\ gen \in Nat
    BY DEF ShapeInv
<1> HIDE DEF j
<1>7. Grows(mem, mem', new)
  <2>1. CASE j.kind = "flush"
    <3>1. mem' = InstallFlush(mem, j.unit, j.memtable.unit, j.maps[j.memtable.unit], OutputRows(j))
        BY <1>2, <2>1
    <3>2. new = IF OutputRows(j) = <<>> THEN {} ELSE {Segment(j.unit)}
        BY <2>1 DEF HasOutput, Output
    <3>3. QED
        BY <1>5, <3>1, <3>2, InstallFlushGrows DEF IsJob
  <2>2. CASE j.kind = "compact"
    <3>1. mem' = InstallCompaction(mem, j.unit, j.maps, OutputRows(j), Reconciled(j))
        BY <1>2, <2>2
    <3>2. new = IF OutputRows(j) = <<>> THEN {} ELSE {Segment(j.unit)}
        BY <2>2 DEF HasOutput, Output
    <3>3. QED
        BY <1>5, <3>1, <3>2, InstallCompactionGrows DEF IsJob
  <2>3. CASE j.kind = "index"
    <3>1. mem' = InstallIndex(mem, j.target, j.unit)
        BY <1>2, <2>3
    <3>2. new = {Index(j.target, j.unit)}
        BY <2>3 DEF HasOutput, Output
    <3>3. QED
        BY <1>5, <3>1, <3>2, InstallIndexGrows DEF IsJob
  <2>4. QED
      BY <1>5, <2>1, <2>2, <2>3 DEF IsJob
<1>8. IsState(mem') /\ VersionOf(mem') \subseteq VersionOf(mem) \cup new
    BY <1>7 DEF Grows
<1>9. /\ new \subseteq present \ trash /\ new \subseteq {Output(j)}
      /\ Output(j)[1] \in {"segment", "index"} /\ Output(j) \notin obsolete
    BY <1>5, FilesOfJob DEF JobInv
<1> HIDE DEF new
<1>10. Holders' \subseteq Holders \cup new
    BY <1>1, <1>8, Held DEF Holders, VersionOf
<1>11. \A i \in jobs' : i \in jobs /\ i # j /\ IsJob(i) /\ Output(i) # Output(j) /\ (HasOutput(i)' <=> HasOutput(i))
    BY <1>1, <1>5, JobsApart, OutputStays DEF ShapeInv
<1>12. ids' \in [prev : Nat, gen : Nat, unit : Nat, dv : Nat] /\ ids'.prev = gen
       /\ ids'.gen = ids.gen /\ ids'.unit = ids.unit /\ ids'.dv = ids.dv
    BY <1>1, <1>6
<1>13. /\ publish'.step \in {"none", "truncate"} /\ (publish'.step = "none" => publish' = NoPublish)
    BY <1>1 DEF NoPublish
<1>14. \A n \in trash' : n \in trash \/ n[1] = "dv" \/ (ids.prev # 0 /\ n = Mf(ids.prev))
    BY <1>4
<1>15. ids.prev # 0 => Mf(ids.prev)[1] = "manifest" /\ Mf(ids.prev)[2] = ids.prev
    BY DEF Mf
<1>16. CounterInv /\ phase # "closed" /\ VersionOf(mem) \subseteq Holders
    BY <1>1, Held
<1>17. Mf(publish.gen) \notin trash'
  <2>1. Mf(publish.gen)[1] = "manifest" /\ Mf(publish.gen)[2] = publish.gen
      BY DEF Mf
  <2>2. QED
      BY <1>5, <1>14, <1>15, <2>1
<1>18. ShapeInv'
    BY <1>1, <1>5, <1>8, <1>11, <1>12, <1>13, FS_RemoveElement DEF ShapeInv
<1>19. DownInv'
    BY <1>1 DEF DownInv
<1>20. StageInv'
    BY <1>1, <1>5, <1>13 DEF StageInv, Publishing
<1>21. CounterInv'
  <2>1. BornBelow(trash' \cup obsolete', ids.unit)
    <3>1. BornBelow(VersionOf(mem), ids.unit)
        BY <1>16 DEF CounterInv, HeldInv, BornBelow
    <3>2. QED
        BY <1>3, <1>14, <1>15, <1>16, <3>1 DEF CounterInv, BornBelow
  <2>2. GensBelow(trash', ids.gen)
      BY <1>6, <1>14, <1>15, <1>16 DEF CounterInv, GensBelow
  <2>3. QED
      BY <1>1, <1>5, <1>6, <1>11, <1>12, <1>16, <1>17, <2>1, <2>2 DEF CounterInv
<1>22. JobInv'
  <2>1. ASSUME NEW i \in jobs'
        PROVE  /\ Output(i) \notin (trash \cup obsolete \cup Holders)'
               /\ i.built /\ HasOutput(i)' => Output(i) \in present'
               /\ ~i.built => JobFiles(i) \cap present' = {}
    <3>1. Output(i)[1] \in {"segment", "index"}
        BY <1>11, FilesOfJob
    <3>2. Output(i) \notin trash'
        BY <1>11, <1>14, <1>15, <3>1 DEF JobInv
    <3>3. Output(i) \notin obsolete' /\ Output(i) \notin Holders'
        BY <1>3, <1>9, <1>10, <1>11, <1>16 DEF JobInv
    <3>4. QED
        BY <1>1, <1>11, <3>2, <3>3 DEF JobInv
  <2>2. QED
      BY <1>11, <2>1 DEF JobInv
<1>23. HeldInv'
  <2>1. \A n \in Holders' \cup obsolete' : n[1] \in {"segment", "index"}
      BY <1>3, <1>9, <1>10, <1>16 DEF HeldInv
  <2>2. \A n \in Holders' : n \in present' /\ n \notin trash'
      BY <1>1, <1>9, <1>10, <1>14, <1>15, <2>1 DEF HeldInv
  <2>3. QED
      BY <2>1, <2>2 DEF HeldInv
<1>24. QED
    BY <1>18, <1>19, <1>20, <1>21, <1>22, <1>23

-----------------------------------------------------------------------------
(* Readers and the removal queue. *)

\* A reader that comes holds files of the present version.
LEMMA ReadersKeep ==
    ASSUME IInv, HoldVersion \/ DropVersion
    PROVE  IInv'
<1> USE DEF IInv, rowVars, jobVars, diskVars, gcVars
<1>1. UNCHANGED <<phase, mem, group, ops, gen, ids, jobs, publish, store, present, removed, current, cached,
                  trash, obsolete>>
    BY DEF HoldVersion, DropVersion
<1>2. Holders' \subseteq Holders /\ (phase \in {"closed", "cleaned"} => readers' = {})
  <2>1. CASE HoldVersion
    <3>1. PublishedFiles = VersionOf(mem)
        BY SameVersion DEF PublishedFiles, StageInv
    <3>2. readers' = readers \cup {VersionOf(mem)} /\ phase \in {"open", "poisoned"}
        BY <2>1, <3>1 DEF HoldVersion
    <3>3. QED
        BY <1>1, <3>2 DEF Holders, VersionOf
  <2>2. CASE DropVersion
    <3>1. readers' \subseteq readers
        BY <2>2 DEF DropVersion
    <3>2. QED
        BY <1>1, <3>1, Held, HoldersShrink DEF DownInv
  <2>3. QED
      BY <2>1, <2>2
<1>3. \A j \in jobs : IsJob(j) /\ (HasOutput(j)' <=> HasOutput(j))
    BY OutputStays DEF ShapeInv
<1>4. ShapeInv' /\ DownInv' /\ StageInv' /\ CounterInv'
    BY <1>1, <1>2 DEF ShapeInv, DownInv, StageInv, CounterInv, Publishing
<1>5. JobInv' /\ HeldInv'
    BY <1>1, <1>2, <1>3 DEF JobInv, HeldInv
<1>6. QED
    BY <1>4, <1>5

\* The queue is drained of files that nothing holds.
LEMMA GcKeeps ==
    ASSUME IInv, GcDrain
    PROVE  IInv'
<1> USE DEF IInv, rowVars, jobVars
<1>1. /\ phase \in {"open", "poisoned"} /\ present' = present \ Collectable
      /\ removed' = removed \cup (Collectable \cap present)
      /\ trash' = {} /\ obsolete' = obsolete \ Collectable
      /\ UNCHANGED <<phase, mem, group, ops, gen, ids, jobs, publish, store, current, cached, readers>>
    BY DEF GcDrain
<1>2. Holders' = Holders
    BY <1>1 DEF Holders, VersionOf
<1>3. \A j \in jobs : IsJob(j) /\ (HasOutput(j)' <=> HasOutput(j))
    BY OutputStays DEF ShapeInv
<1>4. /\ Collectable \cap Holders = {}
      /\ \A n \in Collectable : n \in trash \/ (n \in obsolete /\ n[1] \in {"segment", "index"})
    BY DEF Collectable, HeldInv
<1>5. \A g : Mf(g)[1] = "manifest"
    BY DEF Mf
<1>6. ShapeInv'
  <2>1. /\ IsFiniteSet(present') /\ IsFiniteSet(Collectable \cap present)
        /\ present' \subseteq Names /\ removed' \subseteq Names
      BY <1>1, FS_Subset DEF ShapeInv
  <2>2. IsFiniteSet(removed')
      BY <1>1, <2>1, FS_Union DEF ShapeInv
  <2>3. present' \cup removed' \subseteq present \cup removed
      BY <1>1
  <2>4. QED
      BY <1>1, <2>1, <2>2, <2>3 DEF ShapeInv
<1>7. DownInv'
    BY <1>1 DEF DownInv
<1>8. StageInv'
  <2>1. Publishing => Mf(publish.gen) \in present'
      BY <1>1, <1>4, <1>5 DEF StageInv
  <2>2. QED
      BY <1>1, <2>1 DEF StageInv, Publishing
<1>9. CounterInv'
  <2>1. CounterInv /\ phase # "closed" /\ present' \subseteq present /\ obsolete' \subseteq obsolete
      BY <1>1
  <2>2. Mf(gen) \in present'
      BY <1>1, <1>4, <1>5, <2>1 DEF CounterInv
  <2>3. QED
      BY <1>1, <2>1, <2>2 DEF CounterInv, BornBelow, DvsBelow, GensBelow
<1>10. JobInv'
  <2>1. \A j \in jobs : Output(j) \notin Collectable
      BY <1>4 DEF JobInv
  <2>2. QED
      BY <1>1, <1>2, <1>3, <2>1 DEF JobInv
<1>11. HeldInv'
    BY <1>1, <1>2, <1>4 DEF HeldInv
<1>12. QED
    BY <1>6, <1>7, <1>8, <1>9, <1>10, <1>11

-----------------------------------------------------------------------------
(* Crashes and recovery. *)

\* What unfinished builds leave behind are segments, sidecars and deletion
\* vectors, finitely many.
LEMMA LeftoversNames ==
    ASSUME ShapeInv
    PROVE  /\ Leftovers \subseteq Names /\ IsFiniteSet(Leftovers)
           /\ \A n \in Leftovers : n[1] # "manifest"
<1> DEFINE f == [j \in jobs |-> IF j.built THEN {} ELSE JobFiles(j)]
           T == {IF j.built THEN {} ELSE JobFiles(j) : j \in jobs}
<1>1. \A s \in T : s \subseteq Names /\ IsFiniteSet(s) /\ \A n \in s : n[1] # "manifest"
  <2>1. ASSUME NEW j \in jobs
        PROVE  JobFiles(j) \subseteq Names /\ IsFiniteSet(JobFiles(j)) /\ \A n \in JobFiles(j) : n[1] # "manifest"
      BY FilesOfJob DEF ShapeInv
  <2>2. IsFiniteSet({})
      BY FS_EmptySet
  <2>3. \A s \in T : s = {} \/ \E j \in jobs : s = JobFiles(j)
      OBVIOUS
  <2> HIDE DEF T
  <2>4. QED
      BY <2>1, <2>2, <2>3
<1>2. Leftovers = UNION T
    BY DEF Leftovers
<1>3. \A y \in T : \E x \in jobs : y = f[x]
    OBVIOUS
<1>4. IsFiniteSet(jobs)
    BY DEF ShapeInv
<1> HIDE DEF f, T
<1>5. IsFiniteSet(T)
    BY <1>3, <1>4, ImageFinite
<1>6. IsFiniteSet(UNION T)
    BY <1>1, <1>5, FS_UNION
<1>7. QED
    BY <1>1, <1>2, <1>6

\* The empty state of a closed collection.
LEMMA EmptyState ==
    ASSUME NEW schema, NEW unit, NEW first, NEW deletes, NEW pk
    PROVE  LET m == NewState(schema, unit, first, <<>>, deletes, pk)
           IN IsState(m) /\ m.segs = <<>>
<1> DEFINE m == NewState(schema, unit, first, <<>>, deletes, pk)
<1>1. "segs" \in DOMAIN m /\ m.segs = <<>>
    BY DEF NewState
<1> HIDE DEF m
<1>2. DOMAIN m.segs = {} /\ m.segs = [u \in DOMAIN m.segs |-> m.segs[u]]
    BY <1>1
<1>3. QED
    BY <1>1, <1>2, FS_EmptySet DEF IsState, m

\* A crash and a kill leave names that recovery puts its counters above.
LEMMA CrashKeeps ==
    ASSUME IInv, Crash \/ Kill
    PROVE  IInv'
<1> USE DEF IInv
<1>1. Closed /\ current' \in {current, cached} /\ cached' \in {current, cached}
    BY DEF Crash, Kill
<1>2. PICK back \in SUBSET removed, left \in {{}, Leftovers} :
          /\ present' = present \cup back \cup left
          /\ removed' \subseteq removed
          /\ \A n \in present' \cup removed' : n \in DOMAIN store /\ n \notin left =>
                n \in DOMAIN store' /\ store'[n] = store[n]
  <2>1. CASE Crash
    <3>1. PICK back \in SUBSET removed, left \in {{}, Leftovers} :
              present' = present \cup back \cup left /\ store' = Only(Without(store, left), present')
        BY <2>1 DEF Crash
    <3>2. removed' = {}
        BY <2>1 DEF Crash
    <3>3. QED
        BY <3>1, <3>2 DEF Only, Without, Restrict
  <2>2. CASE Kill
    <3>1. /\ present' = present \cup {} \cup Leftovers /\ store' = Without(store, Leftovers)
          /\ removed' = removed
        BY <2>2 DEF Kill
    <3>2. \A n \in present' \cup removed' : n \in DOMAIN store /\ n \notin Leftovers =>
                n \in DOMAIN store' /\ store'[n] = store[n]
        BY <3>1 DEF Without, Restrict
    <3>3. QED
        BY <3>1, <3>2
  <2>3. QED
      BY <2>1, <2>2
<1>3. left \subseteq Names /\ IsFiniteSet(left) /\ \A n \in left : n[1] # "manifest"
    BY LeftoversNames, FS_EmptySet
<1>4. /\ phase' = "closed" /\ group' = NoGroup /\ gen' = 0 /\ jobs' = {} /\ publish' = NoPublish
      /\ trash' = {} /\ obsolete' = {} /\ readers' = {} /\ ops' = ops
      /\ ids' \in [prev : Nat, gen : Nat, unit : Nat, dv : Nat]
    BY <1>1 DEF Closed
<1>5. IsState(mem') /\ mem'.segs = <<>>
    BY <1>1, EmptyState DEF Closed
<1>6. VersionOf(mem') = {}
    BY <1>5 DEF VersionOf
<1>7. Holders' = {}
    BY <1>4, <1>6 DEF Holders, VersionOf
<1>8. ShapeInv'
  <2>1. IsFiniteSet(present') /\ IsFiniteSet(removed') /\ present' \subseteq Names /\ removed' \subseteq Names
    <3>1. IsFiniteSet(back) /\ IsFiniteSet(removed')
        BY <1>2, FS_Subset DEF ShapeInv
    <3>2. IsFiniteSet(present \cup back)
        BY <3>1, FS_Union DEF ShapeInv
    <3>3. QED
        BY <1>2, <1>3, <3>1, <3>2, FS_Union DEF ShapeInv
  <2>2. \A n \in present' \cup removed' : n[1] = "manifest" => n \in DOMAIN store' /\ IsManifest(store'[n])
    <3>1. ASSUME NEW n \in present' \cup removed', n[1] = "manifest"
          PROVE  n \in DOMAIN store' /\ IsManifest(store'[n])
      <4>1. n \notin left /\ n \in present \cup removed
          BY <1>2, <1>3, <3>1
      <4>2. n \in DOMAIN store /\ IsManifest(store[n])
          BY <3>1, <4>1 DEF ShapeInv
      <4>3. QED
          BY <1>2, <4>1, <4>2
    <3>2. QED
        BY <3>1
  <2>3. QED
      BY <1>1, <1>4, <1>5, <2>1, <2>2, FS_EmptySet DEF ShapeInv, NoPublish
<1>9. DownInv' /\ StageInv' /\ CounterInv'
    BY <1>4, <1>5 DEF DownInv, StageInv, CounterInv, Publishing, NoPublish
<1>10. JobInv' /\ HeldInv'
    BY <1>4, <1>7 DEF JobInv, HeldInv
<1>11. QED
    BY <1>8, <1>9, <1>10

\* The names in a finite directory have a largest number.
LEMMA NumbersFinite ==
    ASSUME ShapeInv
    PROVE  /\ UnitsIn(present) \subseteq Nat /\ IsFiniteSet(UnitsIn(present))
           /\ DvGensIn(present) \subseteq Nat /\ IsFiniteSet(DvGensIn(present))
           /\ GensIn(present) \subseteq Nat /\ IsFiniteSet(GensIn(present))
<1>1. present \subseteq Names /\ IsFiniteSet(present)
    BY DEF ShapeInv
<1> DEFINE second == [n \in present |-> n[2]]
           third == [n \in present |-> n[3]]
           A == {n[2] : n \in {n \in present : n[1] # "manifest"}}
           B == {n[3] : n \in {n \in present : n[1] = "index"}}
<1>2. A \subseteq Nat /\ \A y \in A : \E x \in present : y = second[x]
    BY <1>1 DEF Names
<1>9. B \subseteq Nat /\ \A y \in B : \E x \in present : y = third[x]
    BY <1>1 DEF Names
<1>3. DvGensIn(present) \subseteq Nat /\ \A y \in DvGensIn(present) : \E x \in present : y = third[x]
    BY <1>1 DEF Names, DvGensIn
<1>4. GensIn(present) \subseteq Nat /\ \A y \in GensIn(present) : \E x \in present : y = second[x]
    BY <1>1 DEF Names, GensIn
<1>5. UnitsIn(present) = A \cup B
    BY DEF UnitsIn
<1> HIDE DEF second, third, A, B
<1>6. IsFiniteSet(A) /\ IsFiniteSet(B) /\ IsFiniteSet(DvGensIn(present)) /\ IsFiniteSet(GensIn(present))
  <2>1. IsFiniteSet(A)
      BY <1>1, <1>2, ImageFinite
  <2>2. IsFiniteSet(B)
      BY <1>1, <1>9, ImageFinite
  <2>3. IsFiniteSet(DvGensIn(present))
      BY <1>1, <1>3, ImageFinite
  <2>4. IsFiniteSet(GensIn(present))
      BY <1>1, <1>4, ImageFinite
  <2>5. QED
      BY <2>1, <2>2, <2>3, <2>4
<1>7. IsFiniteSet(A \cup B)
    BY <1>6, FS_Union
<1>8. QED
    BY <1>2, <1>3, <1>4, <1>5, <1>6, <1>7, <1>9

\* The successors of a finite set of numbers, with one number more, have a
\* maximum above all of them.
LEMMA AboveAll ==
    ASSUME NEW S \in SUBSET Nat, IsFiniteSet(S), NEW a \in Nat
    PROVE  LET top == Max({a} \cup {u + 1 : u \in S})
           IN top \in Nat /\ a <= top /\ \A u \in S : u < top
<1> DEFINE f == [u \in S |-> u + 1]
           P == {u + 1 : u \in S}
<1>1. P \subseteq Nat /\ (\A y \in P : \E x \in S : y = f[x]) /\ \A u \in S : u + 1 \in P
    OBVIOUS
<1> HIDE DEF f, P
<1>2. IsFiniteSet(P)
    BY <1>1, ImageFinite
<1>3. IsFiniteSet({a} \cup P)
    BY <1>2, FS_AddElement
<1>4. Max({a} \cup P) \in Nat /\ \A y \in {a} \cup P : y <= Max({a} \cup P)
    BY <1>1, <1>3, MaxOfFinite
<1>5. \A u \in S : u < Max({a} \cup P)
    BY <1>1, <1>4
<1>6. QED
    BY <1>4, <1>5 DEF P

\* Recovery's counters are above every name on disk, and above every name the manifest gives.
LEMMA RecoverManifestKeeps ==
    ASSUME IInv, RecoverManifest
    PROVE  IInv'
<1> USE DEF IInv
<1> DEFINE man == Manifest(cached)
           others == GensIn(present) \ {cached}
           prevs == {g \in others : g < cached}
           prev == IF prevs = {} THEN 0 ELSE Max(prevs)
           live == FilesOf(man) \cup {Mf(cached)} \cup (IF prev = 0 THEN {} ELSE {Mf(prev)})
<1>1. /\ phase = "closed" /\ phase' = "cleaned" /\ current' = cached /\ cached' = cached /\ gen' = cached
      /\ ids' = FreshIds(man, cached, prev) /\ removed' = present \ live /\ present' = present \cap live
      /\ Mf(cached) \in present
      /\ UNCHANGED <<mem, group, ops, jobs, publish, store, cached, trash, obsolete, readers>>
    BY DEF RecoverManifest, gcVars
<1>2. /\ jobs = {} /\ readers = {} /\ trash = {} /\ obsolete = {} /\ group = NoGroup
      /\ publish = NoPublish /\ mem.segs = <<>>
    BY <1>1 DEF DownInv
<1>3. IsManifest(man) /\ cached \in Nat \ {0}
  <2>1. Mf(cached)[1] = "manifest"
      BY DEF Mf
  <2>2. QED
      BY <1>1, <2>1 DEF ShapeInv, Manifest
<1>4. Mf(cached) \in live
    OBVIOUS
<1>5. prev \in Nat /\ prev < cached
  <2>1. prevs \subseteq Nat /\ IsFiniteSet(prevs)
    <3>1. prevs \subseteq GensIn(present)
        OBVIOUS
    <3> HIDE DEF prevs
    <3>2. QED
        BY <3>1, NumbersFinite, FS_Subset
  <2>2. CASE prevs = {}
      BY <1>3, <2>2
  <2>3. CASE prevs # {}
    <3>1. \A g \in prevs : g < cached
        OBVIOUS
    <3> HIDE DEF prevs
    <3>2. Max(prevs) \in prevs
        BY <2>1, <2>3, MaxOfFinite
    <3>3. QED
        BY <2>1, <2>3, <3>1, <3>2
  <2>4. QED
      BY <2>2, <2>3
<1> HIDE DEF man, prev, live
<1>6. /\ ids' \in [prev : Nat, gen : Nat, unit : Nat, dv : Nat] /\ ids'.prev = prev
      /\ cached < ids'.gen
      /\ \A g \in GensIn(present) : g < ids'.gen
      /\ \A u \in UnitsIn(present) : u < ids'.unit
      /\ \A d \in DvGensIn(present) : d < ids'.dv
  <2> DEFINE unit == Max({man.unit} \cup {u + 1 : u \in UnitsIn(present)})
             dv == Max({man.dv} \cup {d + 1 : d \in DvGensIn(present)})
             top == Max({cached} \cup GensIn(present))
  <2>1. ids' = [prev |-> prev, gen |-> top + 1, unit |-> unit, dv |-> dv]
      BY <1>1 DEF FreshIds
  <2>2. unit \in Nat /\ \A u \in UnitsIn(present) : u < unit
      BY <1>3, NumbersFinite, AboveAll DEF IsManifest
  <2>3. dv \in Nat /\ \A d \in DvGensIn(present) : d < dv
      BY <1>3, NumbersFinite, AboveAll DEF IsManifest
  <2>4. top \in Nat /\ cached <= top /\ \A g \in GensIn(present) : g <= top
    <3> DEFINE G == GensIn(present)
    <3>1. G \subseteq Nat /\ IsFiniteSet(G) /\ cached \in Nat
        BY <1>3, NumbersFinite
    <3> HIDE DEF G
    <3>2. IsFiniteSet(G \cup {cached}) /\ {cached} \cup G = G \cup {cached}
        BY <3>1, FS_AddElement
    <3>3. QED
        BY <3>1, <3>2, MaxOfFinite DEF G
  <2>5. GensIn(present) \subseteq Nat
      BY NumbersFinite
  <2> HIDE DEF unit, dv, top
  <2>6. QED
      BY <1>3, <1>5, <2>1, <2>2, <2>3, <2>4, <2>5
<1>7. ShapeInv'
  <2>1. present' \subseteq present /\ removed' \subseteq present
      BY <1>1
  <2>2. IsFiniteSet(present') /\ IsFiniteSet(removed')
      BY <2>1, FS_Subset DEF ShapeInv
  <2>3. QED
      BY <1>1, <1>3, <1>6, <2>1, <2>2 DEF ShapeInv
<1>8. DownInv' /\ StageInv'
    BY <1>1, <1>2 DEF DownInv, StageInv, Publishing, NoPublish
<1>9. CounterInv'
  <2>1. ASSUME NEW n \in present
        PROVE  /\ n[1] = "segment" => n[2] \in 0..(ids'.unit - 1)
               /\ n[1] = "index" => n[3] \in 0..(ids'.unit - 1)
               /\ n[1] = "dv" => n[3] \in 0..(ids'.dv - 1)
               /\ n[1] = "manifest" => n[2] \in 0..(ids'.gen - 1)
    <3>1. /\ n[1] = "segment" => n[2] \in UnitsIn(present)
          /\ n[1] = "index" => n[3] \in UnitsIn(present)
          /\ n[1] = "dv" => n[3] \in DvGensIn(present)
          /\ n[1] = "manifest" => n[2] \in GensIn(present)
        BY DEF UnitsIn, DvGensIn, GensIn
    <3>2. QED
        BY <1>6, <3>1, NumbersFinite
  <2>2. BornBelow(present', ids'.unit) /\ DvsBelow(present', ids'.dv) /\ GensBelow(present', ids'.gen)
      BY <1>1, <2>1 DEF BornBelow, DvsBelow, GensBelow
  <2>3. QED
      BY <1>1, <1>2, <1>3, <1>4, <1>5, <1>6, <2>2 DEF CounterInv, BornBelow, GensBelow
<1>10. JobInv' /\ HeldInv'
  <2>1. VersionOf(mem') = {}
      BY <1>1, <1>2 DEF VersionOf
  <2>2. Holders' = {}
      BY <1>1, <1>2, <2>1 DEF Holders, VersionOf
  <2>3. QED
      BY <1>1, <1>2, <2>2 DEF JobInv, HeldInv
<1>11. QED
    BY <1>7, <1>8, <1>9, <1>10

\* The collection opens with the segments of its manifest, which are on disk.
LEMMA RecoverCollectionKeeps ==
    ASSUME IInv, RecoverCollection
    PROVE  IInv'
<1> USE DEF IInv
<1> DEFINE man == Manifest(gen)
           start == SegmentState(gen, ids.unit)
<1>1. /\ phase = "cleaned" /\ phase' = "open" /\ FilesOf(man) \subseteq present
      /\ mem' = Replayed(start, ops, man.ckpt)
      /\ ids' = [ids EXCEPT !.unit = @ + 1] /\ store' = Only(store, present) /\ removed' = {}
      /\ UNCHANGED <<group, ops, gen, jobs, publish, present, current, cached, trash, obsolete, readers>>
    BY DEF RecoverCollection, Readable, Recovered, gcVars
<1>2. /\ jobs = {} /\ readers = {} /\ trash = {} /\ obsolete = {} /\ group = NoGroup
      /\ publish = NoPublish
    BY <1>1 DEF DownInv
<1>3. present \subseteq Names /\ IsFiniteSet(present)
    BY DEF ShapeInv
<1> HIDE DEF man
<1>4. ASSUME NEW u \in DOMAIN man.segs
      PROVE  u \in Nat /\ Segment(u) \in present /\ man.segs[u].index \in Nat
             /\ (man.segs[u].index # 0 => Index(u, man.segs[u].index) \in present)
  <2>1. Segment(u) \in FilesOf(man) /\ (man.segs[u].index # 0 => Index(u, man.segs[u].index) \in FilesOf(man))
      BY DEF FilesOf
  <2>2. u \in Nat
      BY <1>1, <1>3, <2>1 DEF Names, Segment
  <2>3. man.segs[u].index # 0 => man.segs[u].index \in Nat
      BY <1>1, <1>3, <2>1 DEF Names, Index
  <2>4. QED
      BY <1>1, <2>1, <2>2, <2>3
<1>5. IsFiniteSet(DOMAIN man.segs)
  <2> DEFINE f == [n \in present |-> n[2]]
  <2>1. \A u \in DOMAIN man.segs : \E n \in present : u = f[n]
    <3>1. \A u \in DOMAIN man.segs : f[Segment(u)] = u
        BY <1>4 DEF Segment
    <3>2. QED
        BY <1>4, <3>1
  <2> HIDE DEF f
  <2>2. QED
      BY <1>3, <2>1, ImageFinite
<1>6. IsState(start) /\ VersionOf(start) \subseteq present
  <2> DEFINE segs == [u \in DOMAIN man.segs |->
                        [rows |-> store[Segment(u)], index |-> man.segs[u].index]]
  <2>1. "segs" \in DOMAIN start /\ start.segs = segs
      BY DEF SegmentState, NewState, man
  <2>2. /\ DOMAIN segs = DOMAIN man.segs /\ segs = [u \in DOMAIN segs |-> segs[u]]
        /\ \A u \in DOMAIN segs : "index" \in DOMAIN segs[u] /\ segs[u].index = man.segs[u].index
      OBVIOUS
  <2> HIDE DEF segs, start
  <2>3. QED
      BY <1>4, <1>5, <2>1, <2>2 DEF IsState, VersionOf
<1> HIDE DEF start
<1>7. IsState(mem') /\ mem'.segs = start.segs
    BY <1>1, <1>6, ReplayKeepsSegments DEF ShapeInv
<1>8. VersionOf(mem') \subseteq present
    BY <1>6, <1>7, SameVersion
<1>9. Holders' \subseteq present'
    BY <1>1, <1>2, <1>8 DEF Holders, VersionOf
<1>10. \A n \in VersionOf(mem') : n[1] \in {"segment", "index"}
    BY DEF VersionOf, Segment, Index
<1>11. /\ ids \in [prev : Nat, gen : Nat, unit : Nat, dv : Nat]
       /\ ids' \in [prev : Nat, gen : Nat, unit : Nat, dv : Nat] /\ ids'.unit = ids.unit + 1
       /\ ids'.prev = ids.prev /\ ids'.gen = ids.gen /\ ids'.dv = ids.dv
    BY <1>1 DEF ShapeInv
<1>12. ShapeInv'
  <2>1. \A n \in present' \cup removed' : n \in DOMAIN store => n \in DOMAIN store' /\ store'[n] = store[n]
      BY <1>1 DEF Only, Restrict
  <2>2. QED
      BY <1>1, <1>2, <1>7, <1>11, <2>1, FS_EmptySet DEF ShapeInv
<1>13. DownInv' /\ StageInv'
    BY <1>1, <1>2 DEF DownInv, StageInv, Publishing, NoPublish
<1>14. CounterInv'
    BY <1>1, <1>2, <1>11 DEF CounterInv, BornBelow, DvsBelow, GensBelow
<1>15. JobInv' /\ HeldInv'
  <2>1. \A n \in Holders' : n \in VersionOf(mem')
      BY <1>1, <1>2 DEF Holders, VersionOf
  <2>2. QED
      BY <1>1, <1>2, <1>9, <1>10, <2>1 DEF JobInv, HeldInv
<1>16. QED
    BY <1>12, <1>13, <1>14, <1>15

-----------------------------------------------------------------------------
(* The theorems. *)

\* The invariant holds of a collection just opened.
LEMMA InitHolds ==
    ASSUME Init
    PROVE  IInv
<1>1. PICK keys \in [1..StartRows -> Keys] : Start(keys)
    BY DEF Init
<1>2. StartRows \in Nat
    BY StorageAssumption
<1> DEFINE n == StartRows
           man == [ckpt |-> n, schema |-> 0, unit |-> n + 1, dv |-> 1,
                   segs |-> [i \in 1..n |-> [dv |-> 0, index |-> 0]]]
           rows(i) == <<[key |-> keys[i], seq |-> i]>>
           segs == [i \in 1..n |-> [rows |-> rows(i), index |-> 0]]
           files == {Segment(i) : i \in 1..n}
<1>3. Len(keys) = n
    BY <1>2
<1>4. /\ ops = [i \in 1..n |-> [kind |-> "put", key |-> keys[i], schema |-> 0]]
      /\ store = With([f \in files |-> rows(f[2])], Mf(1), man)
      /\ ids = [prev |-> 0, gen |-> 2, unit |-> n + 2, dv |-> 1]
      /\ "segs" \in DOMAIN mem /\ mem.segs = segs
    BY <1>1, <1>3 DEF Start, NewState
<1>5. \E S : ops \in Seq(S)
  <2> DEFINE S == {ops[i] : i \in 1..n}
  <2>1. ops = [i \in 1..n |-> ops[i]] /\ \A i \in 1..n : ops[i] \in S
      BY <1>4
  <2> HIDE DEF S
  <2>2. ops \in Seq(S)
      BY <1>2, <2>1
  <2>3. QED
      BY <2>2
<1>6. IsManifest(man) /\ Mf(1)[1] = "manifest" /\ Mf(1)[2] = 1
    BY <1>2 DEF IsManifest, Mf
<1> HIDE DEF man
<1>7. DOMAIN store = files \cup {Mf(1)} /\ store[Mf(1)] = man
    BY <1>4 DEF With
<1>8. /\ DOMAIN mem.segs = 1..n /\ mem.segs = [u \in DOMAIN mem.segs |-> mem.segs[u]]
      /\ \A u \in 1..n : "index" \in DOMAIN mem.segs[u] /\ mem.segs[u].index = 0
    BY <1>4
<1> HIDE DEF segs
<1>9. IsState(mem) /\ VersionOf(mem) = files
  <2>1. IsFiniteSet(DOMAIN mem.segs)
      BY <1>2, <1>8, FS_Interval
  <2>2. IsState(mem)
      BY <1>4, <1>8, <2>1 DEF IsState
  <2>3. VersionOf(mem) = {Segment(u) : u \in DOMAIN mem.segs}
      BY <1>8 DEF VersionOf
  <2>4. QED
      BY <1>8, <2>2, <2>3
<1>10. \A f \in files : \E i \in 1..n : f = Segment(i) /\ f[1] = "segment" /\ f[2] = i /\ f \in Names
    BY <1>2 DEF Segment, Names
<1>11. IsFiniteSet(files)
  <2> DEFINE g == [i \in 1..n |-> Segment(i)]
  <2>1. IsFiniteSet(1..n) /\ \A f \in files : \E i \in 1..n : f = g[i]
      BY <1>2, FS_Interval
  <2> HIDE DEF files, g
  <2>2. QED
      BY <2>1, ImageFinite
<1> HIDE DEF files
<1>12. /\ phase = "open" /\ group = NoGroup /\ gen = 1 /\ jobs = {} /\ publish = NoPublish
       /\ present = DOMAIN store /\ removed = {} /\ current = 1 /\ cached = 1
       /\ trash = {} /\ obsolete = {} /\ readers = {}
    BY DEF Init
<1>13. Holders = files
    BY <1>9, <1>12 DEF Holders
<1>14. ShapeInv
  <2>1. IsFiniteSet(present) /\ present \subseteq Names
      BY <1>7, <1>10, <1>11, <1>12, FS_AddElement DEF Mf, Names
  <2>2. \A f \in present : f[1] = "manifest" => f = Mf(1)
      BY <1>7, <1>10, <1>12
  <2>3. ids \in [prev : Nat, gen : Nat, unit : Nat, dv : Nat]
      BY <1>2, <1>4
  <2>4. QED
      BY <1>5, <1>6, <1>7, <1>9, <1>12, <2>1, <2>2, <2>3, FS_EmptySet DEF ShapeInv, NoPublish
<1>15. DownInv /\ StageInv
    BY <1>12 DEF DownInv, StageInv, Publishing, NoPublish
<1>16. CounterInv
    BY <1>2, <1>4, <1>6, <1>7, <1>10, <1>12 DEF CounterInv, BornBelow, DvsBelow, GensBelow
<1>17. JobInv /\ HeldInv
    BY <1>7, <1>10, <1>12, <1>13 DEF JobInv, HeldInv
<1>18. QED
    BY <1>14, <1>15, <1>16, <1>17 DEF IInv

\* Every step preserves the invariant.
LEMMA StepHolds ==
    ASSUME IInv, [Next]_vars
    PROVE  IInv'
<1>1. CASE Next
    BY <1>1, RowSteps, JobsBegin, BuildKeeps, JobsEnd, JobsCommit, PublishMoves, InstallKeeps, ReadersKeep,
       GcKeeps, CrashKeeps, RecoverManifestKeeps, RecoverCollectionKeeps DEF Next
<1>2. CASE UNCHANGED vars
  <2>1. /\ Holders' = Holders
        /\ \A j \in jobs : HasOutput(j)' <=> HasOutput(j)
      BY <1>2, OutputStays DEF vars, Holders, VersionOf, IInv, ShapeInv
  <2>2. ShapeInv' /\ DownInv' /\ StageInv' /\ CounterInv'
      BY <1>2 DEF vars, IInv, ShapeInv, DownInv, StageInv, CounterInv, Publishing
  <2>3. JobInv' /\ HeldInv'
      BY <1>2, <2>1 DEF vars, IInv, JobInv, HeldInv
  <2>4. QED
      BY <2>2, <2>3 DEF IInv
<1>3. QED
    BY <1>1, <1>2

\* The invariant holds in every reachable state, for every set of keys and all bounds
\* (the writer, its jobs, recovery.rs and gc.rs together).
THEOREM Inductive == Spec => []IInv
BY InitHolds, StepHolds, PTL DEF Spec

\* A file that a reader, a snapshot token, a running build or the writer's
\* state can reach is never removed under it (gc.rs, FileHandle).
THEOREM HeldFilesAreKept == Spec => []HeldFilesExist
<1>1. IInv => HeldFilesExist
    BY DEF IInv, HeldInv, HeldFilesExist
<1>2. QED
    BY <1>1, Inductive, PTL

\* The names that a build or a manifest publish is about to create exist
\* nowhere, after any crash, failed job or reused directory.
THEOREM NewNamesAreFree == Spec => []NamesFresh
<1>1. IInv => NamesFresh
  <2>1. ASSUME IInv, Drained
        PROVE  Mf(ids.gen) \notin present
    <3>1. GensBelow(present, ids.gen) /\ ids.gen \in Nat
        BY <2>1 DEF IInv, CounterInv, Drained, ShapeInv
    <3>2. QED
        BY <3>1 DEF GensBelow, Mf
  <2>2. ASSUME IInv
        PROVE  \A j \in jobs : ~j.built => JobFiles(j) \cap present = {}
      BY <2>2 DEF IInv, JobInv
  <2>3. QED
      BY <2>1, <2>2 DEF NamesFresh
<1>2. QED
    BY <1>1, Inductive, PTL
=============================================================================
