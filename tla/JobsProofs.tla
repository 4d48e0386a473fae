----------------------------- MODULE JobsProofs ------------------------------
(***************************************************************************)
(* Theorems about Jobs, for any number of threads, any pool, any segments, *)
(* any calls and any requests of other collections: no wakeup is lost, the *)
(* scheduler counts the permits that are out, what the jobs reserve is     *)
(* exact, and flushes and compactions are acknowledged only when what they *)
(* promise is so.                                                          *)
(*                                                                         *)
(* Nothing of this is inductive alone.  IInv says of the writer's state    *)
(* that it is Good: the scheduler is Consistent and Pumped, every waiting  *)
(* request has its job and every running job its permit (Matched), the     *)
(* checkpoint, the frozen memtables and what is visible are in order       *)
(* (Ordered), so a flush has rows to write, and the reservations are exact *)
(* (Reserves); and that the ids of requests to come are in no queue.  Most *)
(* steps of the writer are built from a few operators that each keep it:   *)
(* Keeps(x, y) says so of one of them, Same(x, y) of those that touch no   *)
(* field the invariant is about.                                           *)
(*                                                                         *)
(* The acknowledgements need a second invariant, AckInv: each call waits   *)
(* once, the scope of the explicit compaction still holds whatever is left *)
(* of the segments each call found, and running jobs write new units.  A   *)
(* step is taken apart into the change of the message and what follows,    *)
(* which Tells: it answers "ok" only to who has what it asked for.         *)
(*                                                                         *)
(* First what the operators of Scheduler and of Policy return, for every   *)
(* queue and every set of segments.  Each call of the scheduler keeps it   *)
(* Consistent (its counters are those of the permits, a job has one        *)
(* request or one permit, the limits hold) and Pumped (whoever waits,      *)
(* waits for a permit that is out).  Each list of plans the policy makes   *)
(* is Apart, from the segments it may take.  Every loop of theirs is a     *)
(* fold, and every fold an instance of Folding.                            *)
(***************************************************************************)
EXTENDS Jobs, FiniteSetTheorems, SequenceTheorems, TLAPS

-----------------------------------------------------------------------------
(* Lists. *)

\* RemoveAt, element by element.
LEMMA RemoveAtIs ==
    ASSUME NEW S, NEW q \in Seq(S), NEW n \in 1..Len(q)
    PROVE  /\ RemoveAt(q, n) \in Seq(S)
           /\ Len(RemoveAt(q, n)) = Len(q) - 1
           /\ \A i \in 1..(Len(q) - 1) : RemoveAt(q, n)[i] = IF i < n THEN q[i] ELSE q[i + 1]
<1> DEFINE a == SubSeq(q, 1, n - 1)
           b == SubSeq(q, n + 1, Len(q))
<1>1. /\ a \in Seq(S) /\ Len(a) = n - 1
      /\ \A i \in 1..(n - 1) : a[i] = q[i]
  <2>1. /\ a \in Seq(S)
        /\ Len(a) = IF 1 <= n - 1 THEN (n - 1) - 1 + 1 ELSE 0
        /\ \A i \in 1..((n - 1) - 1 + 1) : a[i] = q[1 + i - 1]
      BY SubSeqProperties
  <2>2. QED
      BY <2>1
<1>2. /\ b \in Seq(S) /\ Len(b) = Len(q) - n
      /\ \A i \in 1..(Len(q) - n) : b[i] = q[n + i]
  <2>1. /\ b \in Seq(S)
        /\ Len(b) = IF n + 1 <= Len(q) THEN Len(q) - (n + 1) + 1 ELSE 0
        /\ \A i \in 1..(Len(q) - (n + 1) + 1) : b[i] = q[(n + 1) + i - 1]
      BY SubSeqProperties
  <2>2. QED
      BY <2>1
<1> HIDE DEF a, b
<1>3. /\ a \o b \in Seq(S) /\ Len(a \o b) = Len(a) + Len(b)
      /\ \A i \in 1..(Len(a) + Len(b)) : (a \o b)[i] = IF i <= Len(a) THEN a[i] ELSE b[i - Len(a)]
    BY <1>1, <1>2, ConcatProperties
<1>4. \A i \in 1..(Len(q) - 1) : (a \o b)[i] = IF i < n THEN q[i] ELSE q[i + 1]
    BY <1>1, <1>2, <1>3
<1>5. a \o b \in Seq(S) /\ Len(a \o b) = Len(q) - 1
    BY <1>1, <1>2, <1>3
<1>6. QED
    BY <1>4, <1>5 DEF RemoveAt, a, b

\* InsertAt, element by element.
Inserted(S, q, n, r) ==
    /\ InsertAt(q, n, r) \in Seq(S)
    /\ Len(InsertAt(q, n, r)) = Len(q) + 1
    /\ \A i \in 1..(Len(q) + 1) :
          InsertAt(q, n, r)[i] = IF i < n THEN q[i] ELSE IF i = n THEN r ELSE q[i - 1]

\* A list with an element inserted is one element longer.
LEMMA InsertAtIs ==
    ASSUME NEW S, NEW q \in Seq(S), NEW r \in S, NEW n \in 1..(Len(q) + 1)
    PROVE  Inserted(S, q, n, r)
<1> DEFINE a == SubSeq(q, 1, n - 1)
           b == SubSeq(q, n, Len(q))
           c == a \o <<r>>
<1>1. /\ a \in Seq(S) /\ Len(a) = n - 1
      /\ \A i \in 1..(n - 1) : a[i] = q[i]
  <2>1. /\ a \in Seq(S)
        /\ Len(a) = IF 1 <= n - 1 THEN (n - 1) - 1 + 1 ELSE 0
        /\ \A i \in 1..((n - 1) - 1 + 1) : a[i] = q[1 + i - 1]
      BY SubSeqProperties
  <2>2. QED
      BY <2>1
<1>2. /\ b \in Seq(S) /\ Len(b) = Len(q) - n + 1
      /\ \A i \in 1..(Len(q) - n + 1) : b[i] = q[n + i - 1]
  <2>1. /\ b \in Seq(S)
        /\ Len(b) = IF n <= Len(q) THEN Len(q) - n + 1 ELSE 0
        /\ \A i \in 1..(Len(q) - n + 1) : b[i] = q[n + i - 1]
      BY SubSeqProperties
  <2>2. QED
      BY <2>1
<1>3. <<r>> \in Seq(S) /\ Len(<<r>>) = 1 /\ <<r>>[1] = r
    OBVIOUS
<1> HIDE DEF a, b
<1>4. /\ c \in Seq(S) /\ Len(c) = n
      /\ \A i \in 1..n : c[i] = IF i < n THEN q[i] ELSE r
  <2>1. /\ c \in Seq(S) /\ Len(c) = Len(a) + Len(<<r>>)
        /\ \A i \in 1..(Len(a) + Len(<<r>>)) : c[i] = IF i <= Len(a) THEN a[i] ELSE <<r>>[i - Len(a)]
      BY <1>1, <1>3, ConcatProperties
  <2> HIDE DEF c
  <2>2. n \in Nat /\ Len(a) + Len(<<r>>) = n /\ Len(a) = n - 1
    <3>1. n \in Nat
        BY LenProperties
    <3>2. QED
        BY <1>1, <1>3, <3>1
  <2>3. c \in Seq(S) /\ Len(c) = n /\ \A i \in 1..n : c[i] = IF i <= n - 1 THEN a[i] ELSE <<r>>[i - (n - 1)]
      BY <2>1, <2>2
  <2>4. ASSUME NEW i \in 1..n
        PROVE  c[i] = IF i < n THEN q[i] ELSE r
    <3>1. CASE i < n
      <4>1. i <= n - 1 /\ i \in 1..(n - 1)
          BY <2>2, <3>1
      <4>2. QED
          BY <1>1, <2>3, <3>1, <4>1
    <3>2. CASE ~(i < n)
      <4>1. ~(i <= n - 1) /\ i - (n - 1) = 1
          BY <2>2, <3>2
      <4>2. QED
          BY <1>3, <2>3, <3>2, <4>1
    <3>3. QED
        BY <3>1, <3>2
  <2>5. QED
      BY <2>3, <2>4
<1> HIDE DEF c
<1>5. /\ c \o b \in Seq(S) /\ Len(c \o b) = Len(c) + Len(b)
      /\ \A i \in 1..(Len(c) + Len(b)) : (c \o b)[i] = IF i <= Len(c) THEN c[i] ELSE b[i - Len(c)]
    BY <1>2, <1>4, ConcatProperties
<1>6. \A i \in 1..(Len(q) + 1) :
        (c \o b)[i] = IF i < n THEN q[i] ELSE IF i = n THEN r ELSE q[i - 1]
    BY <1>2, <1>4, <1>5
<1>7. c \o b \in Seq(S) /\ Len(c \o b) = Len(q) + 1
    BY <1>2, <1>4, <1>5
<1>8. InsertAt(q, n, r) = c \o b
    BY DEF InsertAt, a, b, c
<1>9. QED
    BY <1>6, <1>7, <1>8 DEF Inserted

-----------------------------------------------------------------------------
(* The bytes of a finite set of requests. *)

Requests == [job : Int, kind : {"flush", "compact", "index"}, bytes : Nat]

BytesStep(env, p, n) == AddBytes(p, n)
AnyOf(S) == CHOOSE x \in S : TRUE
IsSum(env, done, n) == n \in Nat
Summing == INSTANCE Folding WITH Step <- BytesStep, Pick <- AnyOf, Inv <- IsSum

\* The bytes of some requests are those of one of them and of the rest.
LEMMA BytesUnroll ==
    ASSUME NEW S \in SUBSET Requests, IsFiniteSet(S)
    PROVE  /\ Bytes(S) \in Nat
           /\ S = {} => Bytes(S) = 0
           /\ S # {} => AnyOf(S) \in S /\ Bytes(S) = Bytes(S \ {AnyOf(S)}) + AnyOf(S).bytes
<1>1. \A T : Bytes(T) = Summing!Fold(0, 0, T)
    BY DEF Bytes, FoldSet, MapThenFoldSet, Summing!Fold, Summing!Body, BytesStep, AnyOf
<1>2. Summing!IsFiniteSet(S)
    BY DEF IsFiniteSet, Summing!IsFiniteSet
<1>3. Summing!Picks(S)
    BY DEF Summing!Picks, AnyOf
<1>4. Bytes(S) \in Nat
  <2>1. IsSum(0, {}, 0)
      BY DEF IsSum
  <2>2. \A s \in SUBSET S : \A y :
           s # {} /\ IsSum(0, s \ {AnyOf(s)}, y) => IsSum(0, s, BytesStep(0, AnyOf(s), y))
    <3>1. ASSUME NEW s \in SUBSET S, NEW y \in Nat, s # {}
          PROVE  BytesStep(0, AnyOf(s), y) \in Nat
      <4>1. AnyOf(s) \in Requests
          BY <3>1 DEF AnyOf
      <4>2. AnyOf(s).bytes \in Nat
          BY <4>1 DEF Requests
      <4>3. QED
          BY <4>2 DEF BytesStep, AddBytes
    <3>2. QED
        BY <3>1 DEF IsSum
  <2>3. IsSum(0, S, Summing!Fold(0, 0, S))
      BY <1>2, <1>3, <2>1, <2>2, Summing!FoldRule
  <2>4. QED
      BY <1>1, <2>3 DEF IsSum
<1>5. /\ S = {} => Summing!Fold(0, 0, S) = 0
      /\ S # {} => Summing!Fold(0, 0, S)
                     = BytesStep(0, AnyOf(S), Summing!Fold(0, 0, S \ {AnyOf(S)}))
    BY <1>2, <1>3, Summing!FoldUnrolls
<1>6. S # {} => AnyOf(S) \in S
    BY DEF AnyOf
<1>7. QED
    BY <1>1, <1>4, <1>5, <1>6 DEF BytesStep, AddBytes

\* Whichever request is taken out, the bytes are its own and the rest's.
LEMMA BytesSplit ==
    ASSUME NEW S \in SUBSET Requests, IsFiniteSet(S), NEW p \in S
    PROVE  Bytes(S) = Bytes(S \ {p}) + p.bytes
<1> DEFINE Splits(T) == \A q \in T : Bytes(T) = Bytes(T \ {q}) + q.bytes
           N == {n \in Nat : \A T \in SUBSET S : Cardinality(T) = n => Splits(T)}
<1>1. \A T \in SUBSET S : IsFiniteSet(T) /\ T \in SUBSET Requests /\ Bytes(T) \in Nat
  <2>1. \A T \in SUBSET S : IsFiniteSet(T) /\ T \in SUBSET Requests
      BY FS_Subset
  <2>2. QED
      BY <2>1, BytesUnroll
<1>2. \A q \in S : q.bytes \in Nat
    BY DEF Requests
<1>3. 0 \in N
  <2>1. \A T \in SUBSET S : Cardinality(T) = 0 => T = {}
      BY <1>1, FS_EmptySet
  <2>2. QED
      BY <2>1
<1>4. ASSUME NEW n \in N PROVE n + 1 \in N
  <2>0. n \in Nat /\ \A T \in SUBSET S : Cardinality(T) = n => Splits(T)
      OBVIOUS
  <2>1. ASSUME NEW T \in SUBSET S, Cardinality(T) = n + 1, NEW q \in T
        PROVE  Bytes(T) = Bytes(T \ {q}) + q.bytes
    <3> HIDE DEF N, Splits
    <3> DEFINE x == AnyOf(T)
    <3>1. IsFiniteSet(T) /\ T \in SUBSET Requests /\ T # {}
        BY <1>1, <2>1
    <3>2. x \in T /\ Bytes(T) = Bytes(T \ {x}) + x.bytes
        BY <3>1, BytesUnroll
    <3> HIDE DEF x
    <3>3. CASE x = q
        BY <3>2, <3>3
    <3>4. CASE x # q
      <4> DEFINE U == T \ {x}
                 V == T \ {q}
                 W == T \ {x, q}
      <4>1. Cardinality(U) = n /\ Cardinality(V) = n
        <5>1. Cardinality(U) = Cardinality(T) - 1 /\ Cardinality(V) = Cardinality(T) - 1
            BY <3>1, <3>2, <2>1, FS_RemoveElement
        <5>2. QED
            BY <5>1, <2>0, <2>1
      <4>2. U \in SUBSET S /\ V \in SUBSET S /\ W \in SUBSET S
          OBVIOUS
      <4>3. Splits(U) /\ Splits(V)
          BY <4>1, <4>2, <2>0
      <4>4. q \in U /\ x \in V /\ U \ {q} = W /\ V \ {x} = W
          BY <3>2, <3>4
      <4>5. Bytes(U) = Bytes(W) + q.bytes /\ Bytes(V) = Bytes(W) + x.bytes
          BY <4>3, <4>4 DEF Splits
      <4>6. /\ Bytes(U) \in Nat /\ Bytes(V) \in Nat /\ Bytes(W) \in Nat
            /\ q.bytes \in Nat /\ x.bytes \in Nat
          BY <1>1, <1>2, <3>2, <4>2
      <4>7. Bytes(T) = Bytes(U) + x.bytes
          BY <3>2
      <4> HIDE DEF U, V, W
      <4>8. Bytes(T) = Bytes(V) + q.bytes
          BY <4>5, <4>6, <4>7
      <4>9. QED
          BY <4>8 DEF V
    <3>5. QED
        BY <3>3, <3>4
  <2>2. QED
      BY <2>0, <2>1
<1>5. N = Nat
  <2> HIDE DEF N
  <2>1. N \subseteq Nat
      BY DEF N
  <2>2. QED
      BY <1>3, <1>4, <2>1, Summing!SetInduction
<1>6. Cardinality(S) \in N
    BY <1>5, FS_CardinalityType
<1>7. Splits(S)
    BY <1>6
<1>8. QED
    BY <1>7

-----------------------------------------------------------------------------
(* What each call of the scheduler preserves. *)

IsScheduler(s) ==
    /\ {"queue", "permits", "flushes", "compactions", "indexes", "reserved", "flushReserved"}
          \subseteq DOMAIN s
    /\ s.queue \in Seq(Requests) /\ s.permits \in SUBSET Requests
    /\ s.flushes \in Int /\ s.compactions \in Int /\ s.indexes \in Int
    /\ s.reserved \in Int /\ s.flushReserved \in Int

\* The counters are those of the permits.
Counted(s) ==
    /\ IsFiniteSet(s.permits)
    /\ s.flushes = Cardinality(Out(s, "flush"))
    /\ s.compactions = Cardinality(Out(s, "compact"))
    /\ s.indexes = Cardinality(Out(s, "index"))
    /\ s.flushReserved = Bytes(Out(s, "flush"))
    /\ s.reserved = Bytes(s.permits \ Out(s, "flush"))

\* A job has one request or one permit.
Distinct(s) ==
    /\ \A i, j \in DOMAIN s.queue : i # j => s.queue[i].job # s.queue[j].job
    /\ \A p, q \in s.permits : p.job = q.job => p = q
    /\ \A i \in DOMAIN s.queue : \A p \in s.permits : s.queue[i].job # p.job

\* The limits of the kinds and of the pool, and what can ever be granted.
Limited(s) ==
    /\ s.compactions <= CompactionSlots /\ s.indexes <= IndexSlots
    /\ s.reserved <= Pool
    /\ \A i \in DOMAIN s.queue : ~Declined(s.queue[i].kind, s.queue[i].bytes)

\* What a pump leaves: whoever waits, waits for a permit that is out.
Pumped(s) ==
    /\ s.queue # <<>> => s.permits # {}
    /\ (\E i \in DOMAIN s.queue : s.queue[i].kind = "flush") => Out(s, "flush") # {}

Consistent(s) == IsScheduler(s) /\ Counted(s) /\ Distinct(s) /\ Limited(s)

\* All requests that wait or are granted.
Held(s) == ToSet(s.queue) \cup s.permits

\* A permit more is counted.
LEMMA CountedGrant ==
    ASSUME NEW s, IsScheduler(s), Counted(s), NEW p \in Requests, p \notin s.permits, NEW t,
           IsScheduler(t), t.permits = s.permits \cup {p},
           t.flushes = s.flushes + IF p.kind = "flush" THEN 1 ELSE 0,
           t.compactions = s.compactions + IF p.kind = "compact" THEN 1 ELSE 0,
           t.indexes = s.indexes + IF p.kind = "index" THEN 1 ELSE 0,
           t.flushReserved = s.flushReserved + IF p.kind = "flush" THEN p.bytes ELSE 0,
           t.reserved = s.reserved + IF p.kind = "flush" THEN 0 ELSE p.bytes
    PROVE  Counted(t)
<1>1. p.kind \in {"flush", "compact", "index"} /\ p.bytes \in Nat
    BY DEF Requests
<1>2. s.permits \in SUBSET Requests /\ t.permits \in SUBSET Requests
    BY DEF IsScheduler
<1>3. IsFiniteSet(t.permits) /\ IsFiniteSet(s.permits)
    BY FS_AddElement DEF Counted
<1>4. ASSUME NEW kind
      PROVE  /\ p.kind = kind => Out(t, kind) = Out(s, kind) \cup {p}
             /\ p.kind # kind => Out(t, kind) = Out(s, kind)
             /\ p \notin Out(s, kind)
             /\ IsFiniteSet(Out(s, kind)) /\ Cardinality(Out(s, kind)) \in Nat
             /\ Cardinality(Out(s, kind) \cup {p}) = Cardinality(Out(s, kind)) + 1
  <2>1. Out(s, kind) \subseteq s.permits /\ p \notin Out(s, kind)
      BY DEF Out
  <2>2. IsFiniteSet(Out(s, kind))
      BY <2>1, <1>3, FS_Subset
  <2>3. /\ Cardinality(Out(s, kind)) \in Nat
        /\ Cardinality(Out(s, kind) \cup {p}) = Cardinality(Out(s, kind)) + 1
      BY <2>1, <2>2, FS_CardinalityType, FS_AddElement
  <2>4. /\ p.kind = kind => Out(t, kind) = Out(s, kind) \cup {p}
        /\ p.kind # kind => Out(t, kind) = Out(s, kind)
      BY DEF Out
  <2>5. QED
      BY <2>1, <2>2, <2>3, <2>4
<1>5. /\ t.flushes = Cardinality(Out(t, "flush"))
      /\ t.compactions = Cardinality(Out(t, "compact"))
      /\ t.indexes = Cardinality(Out(t, "index"))
  <2>1. t.flushes = Cardinality(Out(t, "flush"))
    <3>1. s.flushes = Cardinality(Out(s, "flush")) /\ Cardinality(Out(s, "flush")) \in Nat
        BY <1>4 DEF Counted
    <3>2. CASE p.kind = "flush"
      <4>1. t.flushes = s.flushes + 1
          BY <3>2
      <4>2. Cardinality(Out(t, "flush")) = Cardinality(Out(s, "flush")) + 1
          BY <3>2, <1>4
      <4>3. QED
          BY <3>1, <4>1, <4>2
    <3>3. CASE p.kind # "flush"
      <4>1. t.flushes = s.flushes
          BY <3>1, <3>3
      <4>2. Cardinality(Out(t, "flush")) = Cardinality(Out(s, "flush"))
          BY <3>3, <1>4
      <4>3. QED
          BY <3>1, <4>1, <4>2
    <3>4. QED
        BY <3>2, <3>3
  <2>2. t.compactions = Cardinality(Out(t, "compact"))
    <3>1. s.compactions = Cardinality(Out(s, "compact")) /\ Cardinality(Out(s, "compact")) \in Nat
        BY <1>4 DEF Counted
    <3>2. CASE p.kind = "compact"
      <4>1. t.compactions = s.compactions + 1
          BY <3>2
      <4>2. Cardinality(Out(t, "compact")) = Cardinality(Out(s, "compact")) + 1
          BY <3>2, <1>4
      <4>3. QED
          BY <3>1, <4>1, <4>2
    <3>3. CASE p.kind # "compact"
      <4>1. t.compactions = s.compactions
          BY <3>1, <3>3
      <4>2. Cardinality(Out(t, "compact")) = Cardinality(Out(s, "compact"))
          BY <3>3, <1>4
      <4>3. QED
          BY <3>1, <4>1, <4>2
    <3>4. QED
        BY <3>2, <3>3
  <2>3. t.indexes = Cardinality(Out(t, "index"))
    <3>1. s.indexes = Cardinality(Out(s, "index")) /\ Cardinality(Out(s, "index")) \in Nat
        BY <1>4 DEF Counted
    <3>2. CASE p.kind = "index"
      <4>1. t.indexes = s.indexes + 1
          BY <3>2
      <4>2. Cardinality(Out(t, "index")) = Cardinality(Out(s, "index")) + 1
          BY <3>2, <1>4
      <4>3. QED
          BY <3>1, <4>1, <4>2
    <3>3. CASE p.kind # "index"
      <4>1. t.indexes = s.indexes
          BY <3>1, <3>3
      <4>2. Cardinality(Out(t, "index")) = Cardinality(Out(s, "index"))
          BY <3>3, <1>4
      <4>3. QED
          BY <3>1, <4>1, <4>2
    <3>4. QED
        BY <3>2, <3>3
  <2>4. QED
      BY <2>1, <2>2, <2>3
<1>6. ASSUME NEW S \in SUBSET Requests, IsFiniteSet(S), p \notin S
      PROVE  Bytes(S \cup {p}) = Bytes(S) + p.bytes /\ Bytes(S) \in Nat
  <2>1. IsFiniteSet(S \cup {p}) /\ S \cup {p} \in SUBSET Requests /\ p \in S \cup {p}
      BY <1>6, FS_AddElement
  <2>2. Bytes(S \cup {p}) = Bytes((S \cup {p}) \ {p}) + p.bytes
      BY <2>1, BytesSplit
  <2>3. (S \cup {p}) \ {p} = S
      BY <1>6
  <2>4. QED
      BY <1>6, <2>2, <2>3, BytesUnroll
<1>7. t.flushReserved = Bytes(Out(t, "flush"))
  <2>1. Out(s, "flush") \in SUBSET Requests
      BY <1>2 DEF Out
  <2>2. Bytes(Out(s, "flush") \cup {p}) = Bytes(Out(s, "flush")) + p.bytes /\ Bytes(Out(s, "flush")) \in Nat
      BY <2>1, <1>4, <1>6
  <2>3. s.flushReserved = Bytes(Out(s, "flush"))
      BY <1>4 DEF Counted
  <2>4. CASE p.kind = "flush"
    <3>1. t.flushReserved = s.flushReserved + p.bytes
        BY <2>4
    <3>2. Out(t, "flush") = Out(s, "flush") \cup {p}
        BY <1>4, <2>4
    <3>3. QED
        BY <2>2, <2>3, <3>1, <3>2
  <2>5. CASE p.kind # "flush"
    <3>1. t.flushReserved = s.flushReserved
        BY <2>2, <2>3, <2>5
    <3>2. Out(t, "flush") = Out(s, "flush")
        BY <1>4, <2>5
    <3>3. QED
        BY <2>3, <3>1, <3>2
  <2>6. QED
      BY <2>4, <2>5
<1>8. t.reserved = Bytes(t.permits \ Out(t, "flush"))
  <2> DEFINE S == s.permits \ Out(s, "flush")
  <2>1. S \in SUBSET Requests /\ IsFiniteSet(S) /\ p \notin S
      BY <1>2, <1>3, FS_Subset
  <2>2. Bytes(S \cup {p}) = Bytes(S) + p.bytes /\ Bytes(S) \in Nat
      BY <2>1, <1>6
  <2>3. t.permits \ Out(t, "flush") = IF p.kind = "flush" THEN S ELSE S \cup {p}
      BY DEF Out
  <2> HIDE DEF S
  <2>4. s.reserved = Bytes(S) /\ s.reserved \in Int
      BY DEF Counted, S, IsScheduler
  <2>5. CASE p.kind = "flush"
    <3>1. t.reserved = s.reserved
        BY <2>4, <2>5
    <3>2. t.permits \ Out(t, "flush") = S
        BY <2>3, <2>5
    <3>3. QED
        BY <2>4, <3>1, <3>2
  <2>6. CASE p.kind # "flush"
    <3>1. t.reserved = s.reserved + p.bytes
        BY <2>6
    <3>2. t.permits \ Out(t, "flush") = S \cup {p}
        BY <2>3, <2>6
    <3>3. QED
        BY <2>2, <2>4, <3>1, <3>2
  <2>7. QED
      BY <2>5, <2>6
<1>9. QED
    BY <1>3, <1>5, <1>7, <1>8 DEF Counted

\* A permit less is counted.
LEMMA CountedRelease ==
    ASSUME NEW s, IsScheduler(s), Counted(s), NEW p \in s.permits, NEW t,
           IsScheduler(t), t.permits = s.permits \ {p},
           t.flushes = s.flushes - IF p.kind = "flush" THEN 1 ELSE 0,
           t.compactions = s.compactions - IF p.kind = "compact" THEN 1 ELSE 0,
           t.indexes = s.indexes - IF p.kind = "index" THEN 1 ELSE 0,
           t.flushReserved = s.flushReserved - IF p.kind = "flush" THEN p.bytes ELSE 0,
           t.reserved = s.reserved - IF p.kind = "flush" THEN 0 ELSE p.bytes
    PROVE  Counted(t)
<1>1. p \in Requests /\ p.kind \in {"flush", "compact", "index"} /\ p.bytes \in Nat
    BY DEF Requests, IsScheduler
<1>2. s.permits \in SUBSET Requests /\ t.permits \in SUBSET Requests
    BY DEF IsScheduler
<1>3. IsFiniteSet(t.permits) /\ IsFiniteSet(s.permits)
    BY FS_RemoveElement DEF Counted
<1>4. ASSUME NEW kind
      PROVE  /\ p.kind = kind => Out(t, kind) = Out(s, kind) \ {p}
             /\ p.kind # kind => Out(t, kind) = Out(s, kind)
             /\ IsFiniteSet(Out(s, kind)) /\ Cardinality(Out(s, kind)) \in Nat
             /\ p.kind = kind => Cardinality(Out(s, kind) \ {p}) = Cardinality(Out(s, kind)) - 1
  <2>1. Out(s, kind) \subseteq s.permits
      BY DEF Out
  <2>2. IsFiniteSet(Out(s, kind))
      BY <2>1, <1>3, FS_Subset
  <2>3. Cardinality(Out(s, kind)) \in Nat
      BY <2>2, FS_CardinalityType
  <2>4. p.kind = kind => p \in Out(s, kind)
      BY DEF Out
  <2>5. p.kind = kind => Cardinality(Out(s, kind) \ {p}) = Cardinality(Out(s, kind)) - 1
      BY <2>2, <2>4, FS_RemoveElement
  <2>6. /\ p.kind = kind => Out(t, kind) = Out(s, kind) \ {p}
        /\ p.kind # kind => Out(t, kind) = Out(s, kind)
      BY DEF Out
  <2>7. QED
      BY <2>2, <2>3, <2>5, <2>6
<1>5. /\ t.flushes = Cardinality(Out(t, "flush"))
      /\ t.compactions = Cardinality(Out(t, "compact"))
      /\ t.indexes = Cardinality(Out(t, "index"))
  <2>1. t.flushes = Cardinality(Out(t, "flush"))
    <3>1. s.flushes = Cardinality(Out(s, "flush")) /\ Cardinality(Out(s, "flush")) \in Nat
        BY <1>4 DEF Counted
    <3>2. CASE p.kind = "flush"
      <4>1. t.flushes = s.flushes - 1
          BY <3>2
      <4>2. Cardinality(Out(t, "flush")) = Cardinality(Out(s, "flush")) - 1
          BY <3>2, <1>4
      <4>3. QED
          BY <3>1, <4>1, <4>2
    <3>3. CASE p.kind # "flush"
      <4>1. t.flushes = s.flushes
          BY <3>1, <3>3
      <4>2. Cardinality(Out(t, "flush")) = Cardinality(Out(s, "flush"))
          BY <3>3, <1>4
      <4>3. QED
          BY <3>1, <4>1, <4>2
    <3>4. QED
        BY <3>2, <3>3
  <2>2. t.compactions = Cardinality(Out(t, "compact"))
    <3>1. s.compactions = Cardinality(Out(s, "compact")) /\ Cardinality(Out(s, "compact")) \in Nat
        BY <1>4 DEF Counted
    <3>2. CASE p.kind = "compact"
      <4>1. t.compactions = s.compactions - 1
          BY <3>2
      <4>2. Cardinality(Out(t, "compact")) = Cardinality(Out(s, "compact")) - 1
          BY <3>2, <1>4
      <4>3. QED
          BY <3>1, <4>1, <4>2
    <3>3. CASE p.kind # "compact"
      <4>1. t.compactions = s.compactions
          BY <3>1, <3>3
      <4>2. Cardinality(Out(t, "compact")) = Cardinality(Out(s, "compact"))
          BY <3>3, <1>4
      <4>3. QED
          BY <3>1, <4>1, <4>2
    <3>4. QED
        BY <3>2, <3>3
  <2>3. t.indexes = Cardinality(Out(t, "index"))
    <3>1. s.indexes = Cardinality(Out(s, "index")) /\ Cardinality(Out(s, "index")) \in Nat
        BY <1>4 DEF Counted
    <3>2. CASE p.kind = "index"
      <4>1. t.indexes = s.indexes - 1
          BY <3>2
      <4>2. Cardinality(Out(t, "index")) = Cardinality(Out(s, "index")) - 1
          BY <3>2, <1>4
      <4>3. QED
          BY <3>1, <4>1, <4>2
    <3>3. CASE p.kind # "index"
      <4>1. t.indexes = s.indexes
          BY <3>1, <3>3
      <4>2. Cardinality(Out(t, "index")) = Cardinality(Out(s, "index"))
          BY <3>3, <1>4
      <4>3. QED
          BY <3>1, <4>1, <4>2
    <3>4. QED
        BY <3>2, <3>3
  <2>4. QED
      BY <2>1, <2>2, <2>3
<1>6. ASSUME NEW S \in SUBSET Requests, IsFiniteSet(S), p \in S
      PROVE  Bytes(S \ {p}) = Bytes(S) - p.bytes /\ Bytes(S) \in Nat
  <2>1. Bytes(S) = Bytes(S \ {p}) + p.bytes
      BY <1>6, BytesSplit
  <2>2. IsFiniteSet(S \ {p}) /\ S \ {p} \in SUBSET Requests
      BY <1>6, FS_Subset
  <2>3. Bytes(S) \in Nat /\ Bytes(S \ {p}) \in Nat
      BY <1>6, <2>2, BytesUnroll
  <2>4. QED
      BY <1>1, <2>1, <2>3
<1>7. t.flushReserved = Bytes(Out(t, "flush"))
  <2>1. CASE p.kind = "flush"
    <3>1. Out(s, "flush") \in SUBSET Requests /\ p \in Out(s, "flush")
        BY <1>2, <2>1 DEF Out
    <3>2. Bytes(Out(s, "flush") \ {p}) = Bytes(Out(s, "flush")) - p.bytes
        BY <3>1, <1>4, <1>6
    <3>3. QED
        BY <1>4, <2>1, <3>2 DEF Counted
  <2>2. CASE p.kind # "flush"
    <3>1. Out(t, "flush") = Out(s, "flush")
        BY <1>4, <2>2
    <3>2. s.flushReserved \in Int
        BY DEF IsScheduler
    <3>3. QED
        BY <2>2, <3>1, <3>2 DEF Counted
  <2>3. QED
      BY <2>1, <2>2
<1>8. t.reserved = Bytes(t.permits \ Out(t, "flush"))
  <2> DEFINE S == s.permits \ Out(s, "flush")
  <2>1. S \in SUBSET Requests /\ IsFiniteSet(S)
      BY <1>2, <1>3, FS_Subset
  <2>2. t.permits \ Out(t, "flush") = IF p.kind = "flush" THEN S ELSE S \ {p}
      BY DEF Out
  <2>3. p.kind # "flush" => p \in S
      BY DEF Out
  <2> HIDE DEF S
  <2>4. s.reserved = Bytes(S) /\ s.reserved \in Int
      BY DEF Counted, S, IsScheduler
  <2>5. CASE p.kind = "flush"
    <3>1. t.reserved = s.reserved
        BY <2>4, <2>5
    <3>2. t.permits \ Out(t, "flush") = S
        BY <2>2, <2>5
    <3>3. QED
        BY <2>4, <3>1, <3>2
  <2>6. CASE p.kind # "flush"
    <3>1. Bytes(S \ {p}) = Bytes(S) - p.bytes
        BY <2>1, <2>3, <2>6, <1>6
    <3>2. QED
        BY <2>2, <2>4, <2>6, <3>1
  <2>7. QED
      BY <2>5, <2>6
<1>9. QED
    BY <1>3, <1>5, <1>7, <1>8 DEF Counted

\* What Account does to the counters.
LEMMA AccountIs ==
    ASSUME NEW s, IsScheduler(s), NEW p \in Requests, NEW sign \in {1, -1}
    PROVE  LET t == Account(s, p, sign)
           IN /\ IsScheduler(t) /\ t.queue = s.queue /\ t.permits = s.permits
              /\ t.flushes = s.flushes + IF p.kind = "flush" THEN sign ELSE 0
              /\ t.compactions = s.compactions + IF p.kind = "compact" THEN sign ELSE 0
              /\ t.indexes = s.indexes + IF p.kind = "index" THEN sign ELSE 0
              /\ t.flushReserved = s.flushReserved + IF p.kind = "flush" THEN sign * p.bytes ELSE 0
              /\ t.reserved = s.reserved + IF p.kind = "flush" THEN 0 ELSE sign * p.bytes
<1>1. p.kind \in {"flush", "compact", "index"} /\ p.bytes \in Nat
    BY DEF Requests
<1>2. PICK b \in Int : b = sign * p.bytes
    BY <1>1
<1>3. CASE p.kind = "flush"
  <2>1. Account(s, p, sign) = [s EXCEPT !.flushes = @ + sign, !.flushReserved = @ + b]
      BY <1>2, <1>3 DEF Account
  <2> DEFINE t == [s EXCEPT !.flushes = @ + sign, !.flushReserved = @ + b]
  <2>2. /\ t.queue = s.queue /\ t.permits = s.permits
        /\ t.flushes = s.flushes + sign /\ t.flushReserved = s.flushReserved + b
        /\ \A f \in {"flushes", "compactions", "indexes", "flushReserved", "reserved"} \ {"flushes", "flushReserved"} : t[f] = s[f]
      BY DEF IsScheduler
  <2>3. IsScheduler(t)
      BY <1>2 DEF IsScheduler
  <2> HIDE DEF t
  <2>4. t = Account(s, p, sign)
      BY <2>1 DEF t
  <2>5. /\ s.flushes \in Int /\ s.compactions \in Int /\ s.indexes \in Int
        /\ s.flushReserved \in Int /\ s.reserved \in Int
      BY DEF IsScheduler
  <2>6. QED
      BY <1>2, <1>3, <2>2, <2>3, <2>4, <2>5
<1>4. CASE p.kind = "compact"
  <2>1. Account(s, p, sign) = [s EXCEPT !.compactions = @ + sign, !.reserved = @ + b]
      BY <1>2, <1>4 DEF Account
  <2> DEFINE t == [s EXCEPT !.compactions = @ + sign, !.reserved = @ + b]
  <2>2. /\ t.queue = s.queue /\ t.permits = s.permits
        /\ t.compactions = s.compactions + sign /\ t.reserved = s.reserved + b
        /\ \A f \in {"flushes", "compactions", "indexes", "flushReserved", "reserved"} \ {"compactions", "reserved"} : t[f] = s[f]
      BY DEF IsScheduler
  <2>3. IsScheduler(t)
      BY <1>2 DEF IsScheduler
  <2> HIDE DEF t
  <2>4. t = Account(s, p, sign)
      BY <2>1 DEF t
  <2>5. /\ s.flushes \in Int /\ s.compactions \in Int /\ s.indexes \in Int
        /\ s.flushReserved \in Int /\ s.reserved \in Int
      BY DEF IsScheduler
  <2>6. QED
      BY <1>2, <1>4, <2>2, <2>3, <2>4, <2>5
<1>5. CASE p.kind = "index"
  <2>1. Account(s, p, sign) = [s EXCEPT !.indexes = @ + sign, !.reserved = @ + b]
      BY <1>2, <1>5 DEF Account
  <2> DEFINE t == [s EXCEPT !.indexes = @ + sign, !.reserved = @ + b]
  <2>2. /\ t.queue = s.queue /\ t.permits = s.permits
        /\ t.indexes = s.indexes + sign /\ t.reserved = s.reserved + b
        /\ \A f \in {"flushes", "compactions", "indexes", "flushReserved", "reserved"} \ {"indexes", "reserved"} : t[f] = s[f]
      BY DEF IsScheduler
  <2>3. IsScheduler(t)
      BY <1>2 DEF IsScheduler
  <2> HIDE DEF t
  <2>4. t = Account(s, p, sign)
      BY <2>1 DEF t
  <2>5. /\ s.flushes \in Int /\ s.compactions \in Int /\ s.indexes \in Int
        /\ s.flushReserved \in Int /\ s.reserved \in Int
      BY DEF IsScheduler
  <2>6. QED
      BY <1>2, <1>5, <2>2, <2>3, <2>4, <2>5
<1>6. QED
    BY <1>1, <1>3, <1>4, <1>5

\* The first of some positions.
LEMMA ForemostIs ==
    ASSUME NEW T \in SUBSET (Nat \ {0})
    PROVE  /\ T = {} => Foremost(T) = 0
           /\ T # {} => Foremost(T) \in T
           /\ Foremost(T) = 0 => T = {}
<1>1. T # {} => Foremost(T) \in T
  <2>1. SUFFICES ASSUME T # {} PROVE Min(T) \in T
      BY DEF Foremost
  <2>2. PICK x \in T : \A y \in T : ~(y < x)
      BY <2>1, Summing!LeastNumber
  <2>3. \A y \in T : x <= y
      BY <2>2
  <2>4. QED
      BY <2>3 DEF Min
<1>2. QED
    BY <1>1 DEF Foremost

\* A scheduler without a request at one position of the queue.
LEMMA Dequeued ==
    ASSUME NEW s, IsScheduler(s), Distinct(s), NEW n \in DOMAIN s.queue
    PROVE  LET q == RemoveAt(s.queue, n)
           IN /\ q \in Seq(Requests) /\ Len(q) = Len(s.queue) - 1
              /\ \A i \in DOMAIN q : \E j \in DOMAIN s.queue : j # n /\ q[i] = s.queue[j]
              /\ \A i, j \in DOMAIN q : i # j => q[i].job # q[j].job
              /\ ToSet(q) = ToSet(s.queue) \ {s.queue[n]}
<1> DEFINE q == RemoveAt(s.queue, n)
<1>1. s.queue \in Seq(Requests) /\ n \in 1..Len(s.queue) /\ DOMAIN s.queue = 1..Len(s.queue)
    BY DEF IsScheduler
<1>2. /\ q \in Seq(Requests) /\ Len(q) = Len(s.queue) - 1
      /\ \A i \in 1..(Len(s.queue) - 1) : q[i] = IF i < n THEN s.queue[i] ELSE s.queue[i + 1]
    BY <1>1, RemoveAtIs
<1> DEFINE at(i) == IF i < n THEN i ELSE i + 1
<1>3. DOMAIN q = 1..(Len(s.queue) - 1)
    BY <1>1, <1>2
<1>4. \A i \in DOMAIN q : at(i) \in DOMAIN s.queue /\ at(i) # n /\ q[i] = s.queue[at(i)]
    BY <1>1, <1>2, <1>3
<1>5. \A i, j \in DOMAIN q : i # j => at(i) # at(j)
    BY <1>1, <1>3
<1>6. \A j \in DOMAIN s.queue : j # n => \E i \in DOMAIN q : at(i) = j
  <2>1. ASSUME NEW j \in DOMAIN s.queue, j # n
        PROVE  \E i \in DOMAIN q : at(i) = j
    <3>1. CASE j < n
        BY <3>1, <1>1, <1>3
    <3>2. CASE j > n
      <4>1. j - 1 \in DOMAIN q /\ at(j - 1) = j
          BY <3>2, <1>1, <1>3
      <4>2. QED
          BY <4>1
    <3>3. QED
        BY <2>1, <3>1, <3>2, <1>1
  <2>2. QED
      BY <2>1
<1> HIDE DEF at, q
<1>7. \A i, j \in DOMAIN q : i # j => q[i].job # q[j].job
    BY <1>4, <1>5 DEF Distinct
<1>8. \A j \in DOMAIN s.queue : j # n => s.queue[j] # s.queue[n]
    BY DEF Distinct
<1>9. ToSet(q) = ToSet(s.queue) \ {s.queue[n]}
    BY <1>4, <1>6, <1>8 DEF ToSet
<1>10. QED
    BY <1>2, <1>4, <1>7, <1>9 DEF q

-----------------------------------------------------------------------------
(* Granting. *)

\* The fields of a scheduler that granted the request at position n.
GrantAt(s, n) ==
    Account([s EXCEPT !.queue = RemoveAt(@, n), !.permits = @ \cup {s.queue[n]}], s.queue[n], 1)

\* A grant that the limits allow keeps the scheduler consistent.
LEMMA GrantKeeps ==
    ASSUME NEW s, Consistent(s), NEW n \in DOMAIN s.queue,
           s.queue[n].kind = "compact" =>
              s.compactions < CompactionSlots /\ s.reserved + s.queue[n].bytes <= Pool,
           s.queue[n].kind = "index" =>
              s.indexes < IndexSlots /\ s.reserved + s.queue[n].bytes <= Pool
    PROVE  /\ Consistent(GrantAt(s, n)) /\ Held(GrantAt(s, n)) = Held(s)
           /\ GrantAt(s, n).permits = s.permits \cup {s.queue[n]}
           /\ Len(GrantAt(s, n).queue) < Len(s.queue)
<1> DEFINE p == s.queue[n]
           m == [s EXCEPT !.queue = RemoveAt(@, n), !.permits = @ \cup {s.queue[n]}]
           t == GrantAt(s, n)
<1>1. IsScheduler(s) /\ Counted(s) /\ Distinct(s) /\ Limited(s)
    BY DEF Consistent
<1>2. p \in Requests /\ p.bytes \in Nat /\ p.kind \in {"flush", "compact", "index"}
  <2>1. p \in Requests
      BY <1>1 DEF IsScheduler
  <2>2. QED
      BY <2>1 DEF Requests
<1>3. p \notin s.permits
    BY <1>1 DEF Distinct
<1>4. /\ RemoveAt(s.queue, n) \in Seq(Requests) /\ Len(RemoveAt(s.queue, n)) = Len(s.queue) - 1
      /\ \A i \in DOMAIN RemoveAt(s.queue, n) :
            \E j \in DOMAIN s.queue : j # n /\ RemoveAt(s.queue, n)[i] = s.queue[j]
      /\ \A i, j \in DOMAIN RemoveAt(s.queue, n) :
            i # j => RemoveAt(s.queue, n)[i].job # RemoveAt(s.queue, n)[j].job
      /\ ToSet(RemoveAt(s.queue, n)) = ToSet(s.queue) \ {p}
    BY <1>1, Dequeued
<1>5. /\ m.queue = RemoveAt(s.queue, n) /\ m.permits = s.permits \cup {p}
      /\ m.flushes = s.flushes /\ m.compactions = s.compactions /\ m.indexes = s.indexes
      /\ m.reserved = s.reserved /\ m.flushReserved = s.flushReserved
      /\ DOMAIN m = DOMAIN s
    BY <1>1 DEF IsScheduler
<1>6. t = Account(m, p, 1)
    BY DEF GrantAt
<1> HIDE DEF m, t, p
<1>7. IsScheduler(m)
    BY <1>1, <1>2, <1>4, <1>5 DEF IsScheduler
<1>8. 1 \in {1, -1} /\ 1 * p.bytes = p.bytes
    BY <1>2
<1>9. /\ IsScheduler(t) /\ t.queue = m.queue /\ t.permits = m.permits
      /\ t.flushes = s.flushes + IF p.kind = "flush" THEN 1 ELSE 0
      /\ t.compactions = s.compactions + IF p.kind = "compact" THEN 1 ELSE 0
      /\ t.indexes = s.indexes + IF p.kind = "index" THEN 1 ELSE 0
      /\ t.flushReserved = s.flushReserved + IF p.kind = "flush" THEN p.bytes ELSE 0
      /\ t.reserved = s.reserved + IF p.kind = "flush" THEN 0 ELSE p.bytes
  <2>1. /\ IsScheduler(t) /\ t.queue = m.queue /\ t.permits = m.permits
        /\ t.flushes = m.flushes + IF p.kind = "flush" THEN 1 ELSE 0
        /\ t.compactions = m.compactions + IF p.kind = "compact" THEN 1 ELSE 0
        /\ t.indexes = m.indexes + IF p.kind = "index" THEN 1 ELSE 0
        /\ t.flushReserved = m.flushReserved + IF p.kind = "flush" THEN 1 * p.bytes ELSE 0
        /\ t.reserved = m.reserved + IF p.kind = "flush" THEN 0 ELSE 1 * p.bytes
      BY <1>2, <1>6, <1>7, <1>8, AccountIs
  <2>2. QED
      BY <1>5, <1>8, <2>1
<1>10. Counted(t)
    BY <1>1, <1>2, <1>3, <1>5, <1>9, CountedGrant
<1>11. Distinct(t)
  <2>1. \A i \in DOMAIN t.queue : \E j \in DOMAIN s.queue : j # n /\ t.queue[i] = s.queue[j]
      BY <1>4, <1>5, <1>9
  <2>2. \A i, j \in DOMAIN t.queue : i # j => t.queue[i].job # t.queue[j].job
      BY <1>4, <1>5, <1>9
  <2>3. \A q \in t.permits : q \in s.permits \/ q = p
      BY <1>5, <1>9
  <2>4. \A q \in s.permits : q.job # p.job
      BY <1>1 DEF Distinct, p
  <2>5. \A q, r \in t.permits : q.job = r.job => q = r
      BY <1>1, <2>3, <2>4 DEF Distinct
  <2>6. \A j \in DOMAIN s.queue : j # n => s.queue[j].job # p.job
      BY <1>1 DEF Distinct, p
  <2>7. \A i \in DOMAIN t.queue : \A q \in t.permits : t.queue[i].job # q.job
      BY <1>1, <2>1, <2>3, <2>6 DEF Distinct
  <2>8. QED
      BY <2>2, <2>5, <2>7 DEF Distinct
<1>12. Limited(t)
  <2>1. /\ s.compactions \in Int /\ s.indexes \in Int /\ s.reserved \in Int
        /\ CompactionSlots \in Int /\ IndexSlots \in Int /\ Pool \in Int
      BY <1>1, SchedulerAssumption DEF IsScheduler, CompactionSlots, IndexSlots, Slots
  <2>2. /\ s.compactions <= CompactionSlots /\ s.indexes <= IndexSlots /\ s.reserved <= Pool
        /\ \A i \in DOMAIN s.queue : ~Declined(s.queue[i].kind, s.queue[i].bytes)
      BY <1>1 DEF Limited
  <2>3. /\ p.kind = "compact" => s.compactions < CompactionSlots /\ s.reserved + p.bytes <= Pool
        /\ p.kind = "index" => s.indexes < IndexSlots /\ s.reserved + p.bytes <= Pool
      BY DEF p
  <2>4. t.compactions <= CompactionSlots
    <3>1. CASE p.kind = "compact"
        BY <1>9, <2>1, <2>3, <3>1
    <3>2. CASE p.kind # "compact"
        BY <1>9, <2>1, <2>2, <3>2
    <3>3. QED
        BY <3>1, <3>2
  <2>5. t.indexes <= IndexSlots
    <3>1. CASE p.kind = "index"
        BY <1>9, <2>1, <2>3, <3>1
    <3>2. CASE p.kind # "index"
        BY <1>9, <2>1, <2>2, <3>2
    <3>3. QED
        BY <3>1, <3>2
  <2>6. t.reserved <= Pool
    <3>1. CASE p.kind = "flush"
        BY <1>9, <2>1, <2>2, <3>1
    <3>2. CASE p.kind # "flush"
      <4>1. s.reserved + p.bytes <= Pool
          BY <1>2, <2>3, <3>2
      <4>2. t.reserved = s.reserved + p.bytes
          BY <1>9, <3>2
      <4>3. QED
          BY <4>1, <4>2
    <3>3. QED
        BY <3>1, <3>2
  <2>7. \A i \in DOMAIN t.queue : ~Declined(t.queue[i].kind, t.queue[i].bytes)
      BY <1>4, <1>5, <1>9, <2>2
  <2>8. QED
      BY <2>4, <2>5, <2>6, <2>7 DEF Limited
<1>13. Held(t) = Held(s)
  <2>1. p \in ToSet(s.queue)
      BY DEF ToSet, p
  <2>2. ToSet(t.queue) = ToSet(s.queue) \ {p} /\ t.permits = s.permits \cup {p}
      BY <1>4, <1>5, <1>9
  <2>3. QED
      BY <2>1, <2>2 DEF Held
<1>14. Len(t.queue) < Len(s.queue)
  <2>1. Len(s.queue) \in Nat
      BY <1>1 DEF IsScheduler
  <2>2. QED
      BY <1>4, <1>5, <1>9, <2>1
<1>15. QED
    BY <1>5, <1>9, <1>10, <1>11, <1>12, <1>13, <1>14 DEF Consistent, t, p

\* One round of the pump: whoever waits afterwards waits for a permit that is out.
LEMMA GrantOneKeeps ==
    ASSUME NEW s, Consistent(s)
    PROVE  /\ Consistent(GrantOne(s)) /\ Pumped(GrantOne(s))
           /\ Held(GrantOne(s)) = Held(s) /\ s.permits \subseteq GrantOne(s).permits
<1> DEFINE q == s.queue
           f == FirstOf(q, "flush")
           c == FirstOf(q, "compact")
           i == FirstOf(q, "index")
           n == Grantable(s)
<1>1. IsScheduler(s) /\ Counted(s) /\ Distinct(s) /\ Limited(s)
    BY DEF Consistent
<1>2. DOMAIN q \in SUBSET (Nat \ {0}) /\ \A j \in DOMAIN q : q[j] \in Requests
    BY <1>1 DEF IsScheduler
<1>3. ASSUME NEW kind
      PROVE  /\ FirstOf(q, kind) # 0 => FirstOf(q, kind) \in DOMAIN q /\ q[FirstOf(q, kind)].kind = kind
             /\ FirstOf(q, kind) = 0 => \A j \in DOMAIN q : q[j].kind # kind
  <2> DEFINE T == {j \in DOMAIN q : q[j].kind = kind}
  <2>1. T \in SUBSET (Nat \ {0})
      BY <1>2
  <2>2. FirstOf(q, kind) = Foremost(T)
      BY DEF FirstOf
  <2>3. /\ T = {} => Foremost(T) = 0
        /\ T # {} => Foremost(T) \in T
        /\ Foremost(T) = 0 => T = {}
      BY <2>1, ForemostIs
  <2>4. QED
      BY <2>2, <2>3
<1>4. /\ f # 0 => f \in DOMAIN q /\ q[f].kind = "flush"
      /\ c # 0 => c \in DOMAIN q /\ q[c].kind = "compact"
      /\ i # 0 => i \in DOMAIN q /\ q[i].kind = "index"
      /\ f = 0 => \A j \in DOMAIN q : q[j].kind # "flush"
      /\ c = 0 => \A j \in DOMAIN q : q[j].kind # "compact"
      /\ i = 0 => \A j \in DOMAIN q : q[j].kind # "index"
    BY <1>3
<1> DEFINE full == s.flushes + s.compactions + s.indexes >= Slots
           cFits == s.compactions < CompactionSlots /\ FitsNow(s, q[c].bytes)
           iFits == s.indexes < IndexSlots /\ FitsNow(s, q[i].bytes)
<1>5. n = IF full THEN 0 ELSE IF f # 0 THEN f
          ELSE IF c # 0 THEN (IF cFits THEN c ELSE 0)
          ELSE IF i # 0 THEN (IF iFits THEN i ELSE 0) ELSE 0
  <2>1. CASE full
      BY <2>1 DEF Grantable
  <2>2. CASE ~full /\ f # 0
      BY <2>2 DEF Grantable
  <2>3. CASE ~full /\ f = 0 /\ c # 0
      BY <2>3 DEF Grantable
  <2>4. CASE ~full /\ f = 0 /\ c = 0 /\ i # 0
      BY <2>4 DEF Grantable
  <2>5. CASE ~full /\ f = 0 /\ c = 0 /\ i = 0
      BY <2>5 DEF Grantable
  <2>6. QED
      BY <2>1, <2>2, <2>3, <2>4, <2>5
<1>6. GrantOne(s) = IF n = 0 THEN s ELSE GrantAt(s, n)
    BY DEF GrantOne, GrantAt
<1> HIDE DEF f, c, i, n
<1>7. /\ s.flushes \in Int /\ s.compactions \in Int /\ s.indexes \in Int
      /\ s.reserved \in Int /\ s.flushReserved \in Int
      /\ CompactionSlots = Slots - 2 /\ IndexSlots = 1 /\ Slots \in Int /\ Slots >= 3 /\ Pool \in Nat
    BY <1>1, SchedulerAssumption DEF IsScheduler, CompactionSlots, IndexSlots, Slots
<1>8. \A kind : IsFiniteSet(Out(s, kind)) /\ Cardinality(Out(s, kind)) \in Nat
               /\ (Cardinality(Out(s, kind)) # 0 => Out(s, kind) # {})
  <2>1. ASSUME NEW kind
        PROVE  IsFiniteSet(Out(s, kind)) /\ Cardinality(Out(s, kind)) \in Nat
               /\ (Cardinality(Out(s, kind)) # 0 => Out(s, kind) # {})
    <3>1. Out(s, kind) \subseteq s.permits
        BY DEF Out
    <3>2. IsFiniteSet(Out(s, kind))
        BY <1>1, <3>1, FS_Subset DEF Counted
    <3>3. QED
        BY <3>2, FS_CardinalityType, FS_EmptySet
  <2>2. QED
      BY <2>1
<1>9. s.flushes >= 0 /\ (s.flushes # 0 => Out(s, "flush") # {})
    BY <1>1, <1>8 DEF Counted
<1>10. s.flushReserved \in Nat
  <2>1. Out(s, "flush") \in SUBSET Requests
      BY <1>1 DEF Out, IsScheduler
  <2>2. QED
      BY <1>1, <1>8, <2>1, BytesUnroll DEF Counted
<1>11. s.compactions <= CompactionSlots /\ s.indexes <= IndexSlots
    BY <1>1 DEF Limited
<1>12. \A j \in DOMAIN q : q[j].bytes \in Nat /\ q[j].kind \in {"flush", "compact", "index"}
    BY <1>2 DEF Requests
<1>13. CASE n = 0
  <2>1. GrantOne(s) = s
      BY <1>6, <1>13
  <2>2. (\E j \in DOMAIN q : q[j].kind = "flush") => Out(s, "flush") # {}
    <3>1. SUFFICES ASSUME f # 0, f \in DOMAIN q PROVE Out(s, "flush") # {}
        BY <1>4
    <3>2. f # 0 /\ 0 \in Nat
        BY <3>1
    <3>3. s.flushes + s.compactions + s.indexes >= Slots
        BY <1>5, <1>13, <3>1
    <3>4. s.flushes # 0
        BY <1>7, <1>11, <3>3
    <3>5. QED
        BY <1>9, <3>4
  <2>3. q # <<>> => s.permits # {}
    <3>1. SUFFICES ASSUME q # <<>>, s.permits = {} PROVE FALSE
        OBVIOUS
    <3>2. \A kind : Out(s, kind) = {}
        BY <3>1 DEF Out
    <3>3. s.flushes = 0 /\ s.compactions = 0 /\ s.indexes = 0
        BY <1>1, <3>2, FS_EmptySet DEF Counted
    <3>4. s.flushReserved = 0 /\ s.reserved = 0
      <4>1. {} \in SUBSET Requests /\ IsFiniteSet({})
          BY FS_EmptySet
      <4>2. Bytes({}) = 0
          BY <4>1, BytesUnroll
      <4>3. s.permits \ Out(s, "flush") = {}
          BY <3>1
      <4>4. QED
          BY <1>1, <3>2, <4>2, <4>3 DEF Counted
    <3>5. DOMAIN q # {}
      <4>1. q \in Seq(Requests)
          BY <1>1 DEF IsScheduler
      <4>2. Len(q) \in Nat /\ Len(q) # 0 /\ DOMAIN q = 1..Len(q)
          BY <3>1, <4>1, EmptySeq
      <4>3. 1 \in DOMAIN q
          BY <4>2
      <4>4. QED
          BY <4>3
    <3>6. ~(s.flushes + s.compactions + s.indexes >= Slots)
        BY <1>7, <3>3
    <3>7. f = 0
        BY <1>5, <1>13, <3>6
    <3>8. \A j \in DOMAIN q : q[j].kind # "flush" => FitsNow(s, q[j].bytes)
      <4>1. ASSUME NEW j \in DOMAIN q, q[j].kind # "flush"
            PROVE  FitsNow(s, q[j].bytes)
        <5>1. q[j].bytes <= Pool
            BY <1>1, <1>7, <1>12, <4>1 DEF Limited, Declined
        <5>2. QED
            BY <1>7, <1>12, <3>4, <5>1 DEF FitsNow
      <4>2. QED
          BY <4>1
    <3>9. s.compactions < CompactionSlots /\ s.indexes < IndexSlots
        BY <1>7, <3>3
    <3>10. c = 0
      <4>1. SUFFICES ASSUME c # 0 PROVE FALSE
          OBVIOUS
      <4>2. FitsNow(s, q[c].bytes)
          BY <1>4, <3>8, <4>1
      <4>3. n = c
          BY <1>5, <3>6, <3>7, <3>9, <4>1, <4>2
      <4>4. QED
          BY <1>13, <4>1, <4>3
    <3>11. i = 0
      <4>1. SUFFICES ASSUME i # 0 PROVE FALSE
          OBVIOUS
      <4>2. FitsNow(s, q[i].bytes)
          BY <1>4, <3>8, <4>1
      <4>3. n = i
          BY <1>5, <3>6, <3>7, <3>9, <3>10, <4>1, <4>2
      <4>4. QED
          BY <1>13, <4>1, <4>3
    <3>12. QED
        BY <1>4, <1>12, <3>5, <3>7, <3>10, <3>11
  <2>4. Pumped(s)
      BY <2>2, <2>3 DEF Pumped
  <2>5. QED
      BY <2>1, <2>4
<1>14. CASE n # 0
  <2>1. ~(s.flushes + s.compactions + s.indexes >= Slots)
      BY <1>5, <1>14
  <2>2. n \in DOMAIN q
      BY <1>4, <1>5, <1>14
  <2>3. n = f \/ f = 0
      BY <1>5, <2>1
  <2>4. q[n].kind = "compact" =>
           s.compactions < CompactionSlots /\ s.reserved + q[n].bytes <= Pool
    <3>1. SUFFICES ASSUME q[n].kind = "compact"
                   PROVE  s.compactions < CompactionSlots /\ s.reserved + q[n].bytes <= Pool
        OBVIOUS
    <3>2. n # f /\ n # i
        BY <1>4, <1>14, <3>1
    <3>3. n = c /\ s.compactions < CompactionSlots /\ FitsNow(s, q[n].bytes)
        BY <1>5, <1>14, <2>1, <3>2
    <3>4. QED
        BY <1>7, <1>10, <1>12, <2>2, <3>3 DEF FitsNow
  <2>5. q[n].kind = "index" =>
           s.indexes < IndexSlots /\ s.reserved + q[n].bytes <= Pool
    <3>1. SUFFICES ASSUME q[n].kind = "index"
                   PROVE  s.indexes < IndexSlots /\ s.reserved + q[n].bytes <= Pool
        OBVIOUS
    <3>2. n # f /\ n # c
        BY <1>4, <1>14, <3>1
    <3>3. n = i /\ s.indexes < IndexSlots /\ FitsNow(s, q[n].bytes)
        BY <1>5, <1>14, <2>1, <3>2
    <3>4. QED
        BY <1>7, <1>10, <1>12, <2>2, <3>3 DEF FitsNow
  <2> DEFINE t == GrantAt(s, n)
  <2>6. /\ Consistent(t) /\ Held(t) = Held(s)
        /\ t.permits = s.permits \cup {q[n]} /\ Len(t.queue) < Len(q)
      BY <2>2, <2>4, <2>5, GrantKeeps
  <2>7. GrantOne(s) = t
      BY <1>6, <1>14
  <2> HIDE DEF t
  <2>8. (\E j \in DOMAIN t.queue : t.queue[j].kind = "flush") => Out(t, "flush") # {}
    <3>1. CASE n = f
      <4>1. q[n].kind = "flush" /\ q[n] \in t.permits
          BY <1>4, <1>14, <2>6, <3>1
      <4>2. QED
          BY <4>1 DEF Out
    <3>2. CASE f = 0
      <4>1. \A r \in ToSet(q) : r.kind # "flush"
          BY <1>4, <3>2 DEF ToSet
      <4>2. \A j \in DOMAIN t.queue : t.queue[j] \in Held(s)
          BY <2>6 DEF Held, ToSet
      <4>3. SUFFICES ASSUME NEW j \in DOMAIN t.queue, t.queue[j].kind = "flush" PROVE Out(t, "flush") # {}
          OBVIOUS
      <4>4. t.queue[j] \in s.permits
          BY <4>1, <4>2, <4>3 DEF Held
      <4>5. t.queue[j] \in t.permits
          BY <2>6, <4>4
      <4>6. QED
          BY <4>3, <4>5 DEF Out
    <3>3. QED
        BY <2>3, <3>1, <3>2
  <2>9. Pumped(t)
      BY <2>6, <2>8 DEF Pumped
  <2>10. QED
      BY <2>6, <2>7, <2>9
<1>15. QED
    BY <1>13, <1>14

-----------------------------------------------------------------------------
(* The pump, and the calls that run it. *)

\* One round of the pump, whatever its number; what holds after some rounds.
PumpRound(env, i, t) == GrantOne(t)
LastRound(S) == Max(S)
PumpKeeps(env, done, t) ==
    /\ Consistent(t) /\ Held(t) = Held(env) /\ env.permits \subseteq t.permits
    /\ done # {} => Pumped(t)

Pumping == INSTANCE Folding WITH Step <- PumpRound, Pick <- LastRound, Inv <- PumpKeeps

\* A finite set of numbers that is not empty has a largest element.
LEMMA MaxIs ==
    ASSUME NEW S \in SUBSET Nat, S # {}, IsFiniteSet(S)
    PROVE  Max(S) \in S /\ \A y \in S : y <= Max(S)
<1> DEFINE Top(T) == \E x \in T : \A y \in T : x >= y
           N == {n \in Nat : \A T \in SUBSET S : Cardinality(T) = n + 1 => Top(T)}
<1>1. 0 \in N
  <2>1. ASSUME NEW T \in SUBSET S, Cardinality(T) = 1
        PROVE  Top(T)
    <3>1. PICK x : T = {x}
        BY <2>1, FS_Subset, FS_Singleton
    <3>2. QED
        BY <3>1
  <2>2. QED
      BY <2>1
<1>2. ASSUME NEW n \in N
      PROVE  n + 1 \in N
  <2>1. ASSUME NEW T \in SUBSET S, Cardinality(T) = n + 2
        PROVE  Top(T)
    <3>1. n \in Nat
        OBVIOUS
    <3> HIDE DEF N
    <3>2. IsFiniteSet(T)
        BY FS_Subset
    <3>3. T # {}
      <4>1. Cardinality({}) = 0
          BY FS_EmptySet
      <4>2. Cardinality(T) # 0
          BY <2>1, <3>1
      <4>3. QED
          BY <4>1, <4>2
    <3>4. PICK x \in T : TRUE
        BY <3>3
    <3>5. Cardinality(T \ {x}) = Cardinality(T) - 1
        BY <3>2, <3>4, FS_RemoveElement
    <3>6. Cardinality(T \ {x}) = n + 1
        BY <2>1, <3>1, <3>5
    <3>7. PICK y \in T \ {x} : \A z \in T \ {x} : y >= z
        BY <3>6 DEF N
    <3>8. CASE x >= y
        BY <3>7, <3>8
    <3>9. CASE y >= x
        BY <3>7, <3>9
    <3>10. QED
        BY <3>8, <3>9
  <2>2. QED
      BY <2>1
<1>3. N = Nat
  <2> HIDE DEF N
  <2>1. N \subseteq Nat
      BY DEF N
  <2>2. QED
      BY <1>1, <1>2, <2>1, Summing!SetInduction
<1>4. Cardinality(S) \in Nat /\ Cardinality(S) # 0
    BY FS_CardinalityType, FS_EmptySet
<1>5. Cardinality(S) - 1 \in N
    BY <1>3, <1>4
<1>6. Top(S)
    BY <1>4, <1>5
<1>7. QED
    BY <1>6 DEF Max

\* The pump keeps the scheduler consistent, loses no request and takes no permit back.
LEMMA PumpIs ==
    ASSUME NEW s, Consistent(s)
    PROVE  /\ Consistent(Pump(s)) /\ Pumped(Pump(s))
           /\ Held(Pump(s)) = Held(s) /\ s.permits \subseteq Pump(s).permits
<1> DEFINE rounds == [i \in 1..Len(s.queue) |-> i]
           t == Pumping!Fold(s, s, DOMAIN rounds)
<1>1. Pump(s) = t
    BY DEF Pump, FoldLeft, MapThenFoldSet, Pumping!Fold, Pumping!Body, PumpRound, LastRound
<1>2. s.queue \in Seq(Requests) /\ Len(s.queue) \in Nat /\ DOMAIN rounds = 1..Len(s.queue)
    BY DEF Consistent, IsScheduler
<1>3. IsFiniteSet(DOMAIN rounds)
    BY <1>2, FS_Interval
<1>4. Pumping!IsFiniteSet(DOMAIN rounds)
    BY <1>3 DEF IsFiniteSet, Pumping!IsFiniteSet
<1>5. Pumping!Picks(DOMAIN rounds)
  <2>1. ASSUME NEW T \in SUBSET (1..Len(s.queue)), T # {}
        PROVE  LastRound(T) \in T
    <3>1. T \in SUBSET Nat /\ T \in SUBSET DOMAIN rounds
        BY <1>2
    <3> HIDE DEF rounds
    <3>2. IsFiniteSet(T)
        BY <1>3, <3>1, FS_Subset
    <3>3. QED
        BY <2>1, <3>1, <3>2, MaxIs DEF LastRound
  <2>2. QED
      BY <1>2, <2>1 DEF Pumping!Picks
<1> HIDE DEF rounds
<1>6. PumpKeeps(s, {}, s)
    BY DEF PumpKeeps
<1>7. \A T \in SUBSET DOMAIN rounds : \A y :
          T # {} /\ PumpKeeps(s, T \ {LastRound(T)}, y) => PumpKeeps(s, T, PumpRound(s, LastRound(T), y))
    BY GrantOneKeeps DEF PumpKeeps, PumpRound
<1>8. PumpKeeps(s, DOMAIN rounds, t)
    BY <1>4, <1>5, <1>6, <1>7, Pumping!FoldRule
<1> HIDE DEF t
<1>9. CASE s.queue = <<>>
  <2>1. ToSet(s.queue) = {}
      BY <1>9 DEF ToSet
  <2>2. DOMAIN rounds = {}
      BY <1>2, <1>9
  <2>3. t = s
    <3>1. Pumping!Fold(s, s, DOMAIN rounds) = s
        BY <1>4, <1>5, <2>2, Pumping!FoldUnrolls
    <3>2. QED
        BY <3>1 DEF t
  <2>4. Pumped(s)
      BY <1>9 DEF Pumped
  <2>5. QED
      BY <1>1, <1>8, <2>3, <2>4 DEF PumpKeeps
<1>10. CASE s.queue # <<>>
  <2>1. Len(s.queue) # 0
      BY <1>2, <1>10, EmptySeq
  <2>2. 1 \in DOMAIN rounds
      BY <1>2, <2>1
  <2>3. QED
      BY <1>1, <1>8, <2>2 DEF PumpKeeps
<1>11. QED
    BY <1>9, <1>10

\* A request of a new job, which could be granted.
LEMMA RequestIs ==
    ASSUME NEW s, Consistent(s), NEW r \in Requests, ~Declined(r.kind, r.bytes),
           \A h \in Held(s) : h.job # r.job
    PROVE  LET t == Request(s, r)
           IN /\ Consistent(t) /\ Pumped(t)
              /\ Held(t) = Held(s) \cup {r} /\ s.permits \subseteq t.permits
<1> DEFINE before == {i \in DOMAIN s.queue : Priority(s.queue[i].kind) <= Priority(r.kind)}
           n == Cardinality(before) + 1
           q == InsertAt(s.queue, n, r)
           m == [s EXCEPT !.queue = q]
<1>1. IsScheduler(s) /\ Counted(s) /\ Distinct(s) /\ Limited(s)
    BY DEF Consistent
<1>2. s.queue \in Seq(Requests) /\ Len(s.queue) \in Nat /\ DOMAIN s.queue = 1..Len(s.queue)
    BY <1>1 DEF IsScheduler
<1>3. n \in 1..(Len(s.queue) + 1)
  <2>1. before \subseteq 1..Len(s.queue)
      BY <1>2
  <2>2. IsFiniteSet(1..Len(s.queue)) /\ Cardinality(1..Len(s.queue)) = Len(s.queue)
      BY <1>2, FS_Interval
  <2> HIDE DEF before
  <2>3. Cardinality(before) \in Nat /\ Cardinality(before) <= Len(s.queue)
      BY <2>1, <2>2, FS_Subset, FS_CardinalityType
  <2>4. QED
      BY <1>2, <2>3
<1> HIDE DEF n, before
<1>4. /\ q \in Seq(Requests) /\ Len(q) = Len(s.queue) + 1
      /\ \A i \in 1..(Len(s.queue) + 1) :
            q[i] = IF i < n THEN s.queue[i] ELSE IF i = n THEN r ELSE s.queue[i - 1]
  <2>1. r \in Requests /\ s.queue \in Seq(Requests)
      BY <1>2
  <2> DEFINE u == s.queue
  <2>2. u \in Seq(Requests) /\ n \in 1..(Len(u) + 1)
      BY <1>3, <2>1
  <2> HIDE DEF u
  <2>3. /\ InsertAt(u, n, r) \in Seq(Requests)
        /\ Len(InsertAt(u, n, r)) = Len(u) + 1
        /\ \A i \in 1..(Len(u) + 1) :
              InsertAt(u, n, r)[i] = IF i < n THEN u[i] ELSE IF i = n THEN r ELSE u[i - 1]
    <3>1. Inserted(Requests, u, n, r)
        BY <2>1, <2>2, InsertAtIs
    <3>2. QED
        BY <3>1 DEF Inserted
  <2>4. QED
      BY <2>3 DEF u
<1>5. DOMAIN q = 1..(Len(s.queue) + 1)
    BY <1>2, <1>4
<1> DEFINE at(i) == IF i < n THEN i ELSE i - 1
<1>6. \A i \in DOMAIN q : /\ i = n => q[i] = r
                          /\ i # n => at(i) \in DOMAIN s.queue /\ q[i] = s.queue[at(i)]
    BY <1>2, <1>3, <1>4, <1>5
<1>7. \A i, j \in DOMAIN q : i # n /\ j # n /\ i # j => at(i) # at(j)
    BY <1>2, <1>3, <1>5
<1>8. \A j \in DOMAIN s.queue : \E i \in DOMAIN q : i # n /\ at(i) = j
  <2>1. ASSUME NEW j \in DOMAIN s.queue
        PROVE  \E i \in DOMAIN q : i # n /\ at(i) = j
    <3>1. CASE j < n
        BY <3>1, <1>2, <1>3, <1>5
    <3>2. CASE j >= n
      <4>1. j + 1 \in DOMAIN q /\ j + 1 # n /\ at(j + 1) = j
          BY <3>2, <1>2, <1>3, <1>5
      <4>2. QED
          BY <4>1
    <3>3. QED
        BY <3>1, <3>2, <1>2, <1>3
  <2>2. QED
      BY <2>1
<1>9. n \in DOMAIN q
    BY <1>3, <1>5
<1> HIDE DEF at, q
<1>10. ToSet(q) = ToSet(s.queue) \cup {r}
    BY <1>6, <1>8, <1>9 DEF ToSet
<1>11. /\ m.queue = q /\ m.permits = s.permits /\ DOMAIN m = DOMAIN s
       /\ m.flushes = s.flushes /\ m.compactions = s.compactions /\ m.indexes = s.indexes
       /\ m.reserved = s.reserved /\ m.flushReserved = s.flushReserved
    BY <1>1 DEF IsScheduler
<1> HIDE DEF m
<1>12. IsScheduler(m)
    BY <1>1, <1>4, <1>11 DEF IsScheduler
<1>13. Counted(m)
    BY <1>1, <1>11 DEF Counted, Out
<1>14. /\ \A j \in DOMAIN s.queue : s.queue[j].job # r.job
       /\ \A p \in s.permits : p.job # r.job
    BY DEF Held, ToSet
<1>15. Distinct(m)
  <2>1. \A i, j \in DOMAIN q : i # j => q[i].job # q[j].job
      BY <1>1, <1>6, <1>7, <1>14 DEF Distinct
  <2>2. \A i \in DOMAIN q : \A p \in s.permits : q[i].job # p.job
      BY <1>1, <1>6, <1>14 DEF Distinct
  <2>3. QED
      BY <1>1, <1>11, <2>1, <2>2 DEF Distinct
<1>16. Limited(m)
  <2>1. \A i \in DOMAIN q : ~Declined(q[i].kind, q[i].bytes)
      BY <1>1, <1>6 DEF Limited
  <2>2. QED
      BY <1>1, <1>11, <2>1 DEF Limited
<1>17. Consistent(m) /\ Held(m) = Held(s) \cup {r}
    BY <1>10, <1>11, <1>12, <1>13, <1>15, <1>16 DEF Consistent, Held
<1>18. Request(s, r) = Pump(m)
    BY DEF Request, Enqueue, m, q, n, before
<1>19. QED
    BY <1>11, <1>17, <1>18, PumpIs

\* The release of a permit.
LEMMA ReleaseIs ==
    ASSUME NEW s, Consistent(s), NEW p \in s.permits
    PROVE  LET t == Release(s, p)
           IN /\ Consistent(t) /\ Pumped(t)
              /\ Held(t) = Held(s) \ {p} /\ s.permits \ {p} \subseteq t.permits
<1> DEFINE m == [s EXCEPT !.permits = @ \ {p}]
           t == Account(m, p, -1)
<1>1. IsScheduler(s) /\ Counted(s) /\ Distinct(s) /\ Limited(s)
    BY DEF Consistent
<1>2. p \in Requests
    BY <1>1 DEF IsScheduler
<1>3. p.bytes \in Nat /\ p.kind \in {"flush", "compact", "index"}
    BY <1>2 DEF Requests
<1>4. /\ m.queue = s.queue /\ m.permits = s.permits \ {p} /\ DOMAIN m = DOMAIN s
      /\ m.flushes = s.flushes /\ m.compactions = s.compactions /\ m.indexes = s.indexes
      /\ m.reserved = s.reserved /\ m.flushReserved = s.flushReserved
    BY <1>1 DEF IsScheduler
<1> HIDE DEF m, t
<1>5. IsScheduler(m)
    BY <1>1, <1>4 DEF IsScheduler
<1>6. -1 \in {1, -1} /\ (-1) * p.bytes = 0 - p.bytes
    BY <1>3
<1>7. /\ IsScheduler(t) /\ t.queue = m.queue /\ t.permits = m.permits
      /\ t.flushes = s.flushes + IF p.kind = "flush" THEN -1 ELSE 0
      /\ t.compactions = s.compactions + IF p.kind = "compact" THEN -1 ELSE 0
      /\ t.indexes = s.indexes + IF p.kind = "index" THEN -1 ELSE 0
      /\ t.flushReserved = s.flushReserved + IF p.kind = "flush" THEN 0 - p.bytes ELSE 0
      /\ t.reserved = s.reserved + IF p.kind = "flush" THEN 0 ELSE 0 - p.bytes
  <2>1. /\ IsScheduler(t) /\ t.queue = m.queue /\ t.permits = m.permits
        /\ t.flushes = m.flushes + IF p.kind = "flush" THEN -1 ELSE 0
        /\ t.compactions = m.compactions + IF p.kind = "compact" THEN -1 ELSE 0
        /\ t.indexes = m.indexes + IF p.kind = "index" THEN -1 ELSE 0
        /\ t.flushReserved = m.flushReserved + IF p.kind = "flush" THEN (-1) * p.bytes ELSE 0
        /\ t.reserved = m.reserved + IF p.kind = "flush" THEN 0 ELSE (-1) * p.bytes
      BY <1>2, <1>5, <1>6, AccountIs, Zenon DEF t
  <2>2. QED
      BY <1>4, <1>6, <2>1
<1>8. /\ s.flushes \in Int /\ s.compactions \in Int /\ s.indexes \in Int
      /\ s.reserved \in Int /\ s.flushReserved \in Int
      /\ CompactionSlots \in Int /\ IndexSlots \in Int /\ Pool \in Int
    BY <1>1, SchedulerAssumption DEF IsScheduler, CompactionSlots, IndexSlots, Slots
<1>9. /\ t.flushes = s.flushes - IF p.kind = "flush" THEN 1 ELSE 0
      /\ t.compactions = s.compactions - IF p.kind = "compact" THEN 1 ELSE 0
      /\ t.indexes = s.indexes - IF p.kind = "index" THEN 1 ELSE 0
      /\ t.flushReserved = s.flushReserved - IF p.kind = "flush" THEN p.bytes ELSE 0
      /\ t.reserved = s.reserved - IF p.kind = "flush" THEN 0 ELSE p.bytes
    BY <1>3, <1>7, <1>8
<1>10. Counted(t)
  <2>1. t.permits = s.permits \ {p}
      BY <1>4, <1>7
  <2>2. QED
      BY <1>1, <1>7, <1>9, <2>1, CountedRelease
<1>11. Distinct(t)
    BY <1>1, <1>4, <1>7 DEF Distinct
<1>12. Limited(t)
  <2>1. /\ t.compactions <= s.compactions /\ t.indexes <= s.indexes /\ t.reserved <= s.reserved
      BY <1>3, <1>7, <1>8
  <2>2. t.compactions \in Int /\ t.indexes \in Int /\ t.reserved \in Int
      BY <1>7 DEF IsScheduler
  <2>3. s.compactions <= CompactionSlots /\ s.indexes <= IndexSlots /\ s.reserved <= Pool
      BY <1>1 DEF Limited
  <2>4. t.compactions <= CompactionSlots /\ t.indexes <= IndexSlots /\ t.reserved <= Pool
      BY <1>8, <2>1, <2>2, <2>3
  <2>5. QED
      BY <1>1, <1>4, <1>7, <2>4 DEF Limited
<1>13. Held(t) = Held(s) \ {p}
  <2>1. p \notin ToSet(s.queue)
      BY <1>1 DEF Distinct, ToSet
  <2>2. QED
      BY <1>4, <1>7, <2>1 DEF Held
<1>14. Consistent(t)
    BY <1>7, <1>10, <1>11, <1>12 DEF Consistent
<1>15. Release(s, p) = Pump(t)
    BY DEF Release, t, m
<1>16. QED
    BY <1>4, <1>7, <1>13, <1>14, <1>15, PumpIs

\* A request taken back: nothing else changes.
LEMMA CancelIs ==
    ASSUME NEW s, Consistent(s), NEW job
    PROVE  LET t == Cancel(s, job)
           IN /\ Consistent(t) /\ t.permits = s.permits
              /\ ToSet(t.queue) = {r \in ToSet(s.queue) : r.job # job}
              /\ Pumped(s) => Pumped(t)
<1> DEFINE T == {i \in DOMAIN s.queue : s.queue[i].job = job}
           n == Foremost(T)
           q == RemoveAt(s.queue, n)
           m == [s EXCEPT !.queue = q]
<1>1. IsScheduler(s) /\ Counted(s) /\ Distinct(s) /\ Limited(s)
    BY DEF Consistent
<1>2. /\ T = {} => n = 0
      /\ T # {} => n \in T
      /\ n = 0 => T = {}
  <2>1. DOMAIN s.queue \subseteq Nat \ {0}
      BY <1>1 DEF IsScheduler
  <2>2. T \in SUBSET (Nat \ {0})
      BY <2>1
  <2> HIDE DEF T
  <2>3. QED
      BY <2>2, ForemostIs
<1>3. CASE n = 0
  <2>1. Cancel(s, job) = s
      BY <1>3 DEF Cancel
  <2>2. ToSet(s.queue) = {r \in ToSet(s.queue) : r.job # job}
      BY <1>2, <1>3 DEF ToSet
  <2>3. QED
      BY <2>1, <2>2
<1>4. CASE n # 0
  <2>1. n \in DOMAIN s.queue /\ s.queue[n].job = job
      BY <1>2, <1>4
  <2>2. Cancel(s, job) = m
      BY <1>4 DEF Cancel
  <2> HIDE DEF n, T
  <2>3. /\ q \in Seq(Requests) /\ Len(q) = Len(s.queue) - 1
        /\ \A i \in DOMAIN q : \E j \in DOMAIN s.queue : j # n /\ q[i] = s.queue[j]
        /\ \A i, j \in DOMAIN q : i # j => q[i].job # q[j].job
        /\ ToSet(q) = ToSet(s.queue) \ {s.queue[n]}
      BY <1>1, <2>1, Dequeued
  <2> HIDE DEF q
  <2>4. /\ m.queue = q /\ m.permits = s.permits /\ DOMAIN m = DOMAIN s
        /\ m.flushes = s.flushes /\ m.compactions = s.compactions /\ m.indexes = s.indexes
        /\ m.reserved = s.reserved /\ m.flushReserved = s.flushReserved
      BY <1>1 DEF IsScheduler
  <2> HIDE DEF m
  <2>5. IsScheduler(m)
      BY <1>1, <2>3, <2>4 DEF IsScheduler
  <2>6. Counted(m)
      BY <1>1, <2>4 DEF Counted, Out
  <2>7. Distinct(m)
      BY <1>1, <2>3, <2>4 DEF Distinct
  <2>8. Limited(m)
      BY <1>1, <2>3, <2>4 DEF Limited
  <2>9. ToSet(q) = {r \in ToSet(s.queue) : r.job # job}
    <3>1. \A j \in DOMAIN s.queue : s.queue[j].job = job => j = n
        BY <1>1, <2>1 DEF Distinct
    <3>2. QED
        BY <2>1, <2>3, <3>1 DEF ToSet
  <2>10. Pumped(s) => Pumped(m)
    <3>1. SUFFICES ASSUME Pumped(s) PROVE Pumped(m)
        OBVIOUS
    <3>2. s.queue # <<>>
        BY <2>1
    <3>3. m.permits # {}
        BY <2>4, <3>1, <3>2 DEF Pumped
    <3>4. (\E i \in DOMAIN m.queue : m.queue[i].kind = "flush") => Out(m, "flush") # {}
        BY <2>3, <2>4, <3>1 DEF Pumped, Out
    <3>5. QED
        BY <3>3, <3>4 DEF Pumped
  <2>11. QED
      BY <2>2, <2>4, <2>5, <2>6, <2>7, <2>8, <2>9, <2>10 DEF Consistent
<1>5. QED
    BY <1>3, <1>4

-----------------------------------------------------------------------------
(* The policy. *)

Units == Nat \ {0}

-----------------------------------------------------------------------------
(* Folds over the positions of a sequence. *)

\* The positions of a sequence are finitely many, and each set of them has a last one.
LEMMA PositionsAre ==
    ASSUME NEW n \in Int
    PROVE  /\ IsFiniteSet(1..n)
           /\ \A T \in SUBSET (1..n) : T # {} => LastRound(T) \in T
<1>1. IsFiniteSet(1..n)
    BY FS_Interval
<1>2. ASSUME NEW T \in SUBSET (1..n), T # {}
      PROVE  LastRound(T) \in T
  <2>1. T \in SUBSET Nat
      OBVIOUS
  <2>2. IsFiniteSet(T)
      BY <1>1, FS_Subset
  <2>3. QED
      BY <1>2, <2>1, <2>2, MaxIs DEF LastRound
<1>3. QED
    BY <1>1, <1>2

\* The largest of some numbers, or 0.
LEMMA LargestIs ==
    ASSUME NEW S \in SUBSET Nat, IsFiniteSet(S)
    PROVE  /\ Max({0} \cup S) \in Nat
           /\ \A n \in S : n <= Max({0} \cup S)
<1>1. IsFiniteSet({0} \cup S)
    BY FS_Singleton, FS_Union
<1>2. {0} \cup S \in SUBSET Nat /\ {0} \cup S # {}
    OBVIOUS
<1>3. QED
    BY <1>1, <1>2, MaxIs

-----------------------------------------------------------------------------
(* Sizes. *)

Candidate == [unit : Units, rows : Nat, deleted : Nat, len : Nat]

\* A segment has a number of live rows.
LEMMA LiveIs ==
    ASSUME NEW c \in Candidate
    PROVE  Live(c) \in Nat
<1>1. c.rows \in Nat /\ c.deleted \in Nat
    BY DEF Candidate
<1>2. QED
    BY <1>1 DEF Live

LiveStep(cs, i, n) == AddLive(n, cs[i])
CopiedStep(cs, i, n) == AddCopied(n, cs[i])
IsSize(cs, done, n) == n \in Nat
AddingLive == INSTANCE Folding WITH Step <- LiveStep, Pick <- LastRound, Inv <- IsSize
AddingCopied == INSTANCE Folding WITH Step <- CopiedStep, Pick <- LastRound, Inv <- IsSize

\* The live rows of a list add up to a number.
LEMMA LiveSumIs ==
    ASSUME NEW cs \in Seq(Candidate)
    PROVE  LiveSum(cs) \in Nat
<1>1. LiveSum(cs) = AddingLive!Fold(cs, 0, DOMAIN cs)
    BY DEF LiveSum, FoldLeft, MapThenFoldSet, AddingLive!Fold, AddingLive!Body, LiveStep, LastRound
<1>2. Len(cs) \in Nat /\ DOMAIN cs = 1..Len(cs) /\ \A i \in DOMAIN cs : cs[i] \in Candidate
    OBVIOUS
<1>3. IsFiniteSet(DOMAIN cs) /\ \A T \in SUBSET DOMAIN cs : T # {} => LastRound(T) \in T
    BY <1>2, PositionsAre
<1>4. AddingLive!IsFiniteSet(DOMAIN cs) /\ AddingLive!Picks(DOMAIN cs)
    BY <1>3 DEF IsFiniteSet, AddingLive!IsFiniteSet, AddingLive!Picks
<1>5. IsSize(cs, {}, 0)
    BY DEF IsSize
<1>6. \A T \in SUBSET DOMAIN cs : \A n :
         T # {} /\ IsSize(cs, T \ {LastRound(T)}, n) => IsSize(cs, T, LiveStep(cs, LastRound(T), n))
  <2>1. ASSUME NEW T \in SUBSET DOMAIN cs, T # {}, NEW n \in Nat
        PROVE  LiveStep(cs, LastRound(T), n) \in Nat
    <3>1. LastRound(T) \in DOMAIN cs
        BY <1>3, <2>1
    <3>2. Live(cs[LastRound(T)]) \in Nat
        BY <1>2, <3>1, LiveIs
    <3>3. QED
        BY <3>2 DEF LiveStep, AddLive
  <2>2. QED
      BY <2>1 DEF IsSize
<1>7. IsSize(cs, DOMAIN cs, AddingLive!Fold(cs, 0, DOMAIN cs))
    BY <1>4, <1>5, <1>6, AddingLive!FoldRule
<1>8. QED
    BY <1>1, <1>7 DEF IsSize

\* What a merge needs of the pool is a number of bytes.
LEMMA BuildBytesIs ==
    ASSUME NEW cs \in Seq(Candidate)
    PROVE  BuildBytes(cs) \in Nat
<1> DEFINE sum == FoldLeft(AddCopied, 0, cs)
           lens == {cs[i].len : i \in DOMAIN cs}
<1>1. sum = AddingCopied!Fold(cs, 0, DOMAIN cs)
    BY DEF FoldLeft, MapThenFoldSet, AddingCopied!Fold, AddingCopied!Body, CopiedStep, LastRound
<1>2. Len(cs) \in Nat /\ DOMAIN cs = 1..Len(cs) /\ \A i \in DOMAIN cs : cs[i] \in Candidate
    OBVIOUS
<1>3. IsFiniteSet(DOMAIN cs) /\ \A T \in SUBSET DOMAIN cs : T # {} => LastRound(T) \in T
    BY <1>2, PositionsAre
<1>4. AddingCopied!IsFiniteSet(DOMAIN cs) /\ AddingCopied!Picks(DOMAIN cs)
    BY <1>3 DEF IsFiniteSet, AddingCopied!IsFiniteSet, AddingCopied!Picks
<1>5. IsSize(cs, {}, 0)
    BY DEF IsSize
<1>6. \A T \in SUBSET DOMAIN cs : \A n :
         T # {} /\ IsSize(cs, T \ {LastRound(T)}, n) => IsSize(cs, T, CopiedStep(cs, LastRound(T), n))
  <2>1. ASSUME NEW c \in Candidate, NEW n \in Nat
        PROVE  AddCopied(n, c) \in Nat
    <3> DEFINE share == c.len \div AtLeastOne(c.rows)
    <3>1. c.len \in Nat /\ c.rows \in Nat
        BY DEF Candidate
    <3>2. AtLeastOne(c.rows) \in Nat \ {0}
        BY <3>1 DEF AtLeastOne
    <3>3. share \in Nat
        BY <3>1, <3>2
    <3>4. IndexBytesPerRow \in Nat
      <4>1. VectorDims \in Nat /\ IndexedScalars \in Nat
          BY PolicyAssumption
      <4>2. QED
          BY <4>1 DEF IndexBytesPerRow
    <3> HIDE DEF share
    <3>5. share + IndexBytesPerRow \in Nat
        BY <3>3, <3>4
    <3>6. Live(c) \in Nat
        BY LiveIs
    <3>7. Live(c) * (share + IndexBytesPerRow) \in Nat
        BY <3>5, <3>6
    <3>8. QED
        BY <3>7 DEF AddCopied, share
  <2>2. ASSUME NEW T \in SUBSET DOMAIN cs, T # {}, NEW n \in Nat
        PROVE  CopiedStep(cs, LastRound(T), n) \in Nat
    <3>1. LastRound(T) \in DOMAIN cs
        BY <1>3, <2>2
    <3>2. cs[LastRound(T)] \in Candidate
        BY <1>2, <3>1
    <3>3. QED
        BY <2>1, <3>2 DEF CopiedStep
  <2>3. QED
      BY <2>2 DEF IsSize
<1>7. IsSize(cs, DOMAIN cs, AddingCopied!Fold(cs, 0, DOMAIN cs))
    BY <1>4, <1>5, <1>6, AddingCopied!FoldRule
<1>8. sum \in Nat
    BY <1>1, <1>7 DEF IsSize
<1>9. Max({0} \cup lens) \in Nat
  <2>1. IsFiniteSet(lens)
    <3> DEFINE f == [i \in DOMAIN cs |-> cs[i].len]
    <3>1. f \in Surjection(DOMAIN cs, lens)
        BY DEF Surjection
    <3>2. QED
        BY <1>3, <3>1, FS_Surjection
  <2>2. lens \in SUBSET Nat
      BY <1>2 DEF Candidate
  <2> HIDE DEF lens
  <2>3. QED
      BY <2>1, <2>2, LargestIs
<1> HIDE DEF sum
<1>10. QED
    BY <1>8, <1>9 DEF BuildBytes, sum

\* A tier is a number, from 0 to the last.
LEMMA TierIs ==
    ASSUME NEW live \in Nat
    PROVE  Tier(live) \in Nat
<1> DEFINE T == {t \in 0..live : live \div TierRatio^t >= BaseRows}
<1>1. IsFiniteSet(0..live)
    BY FS_Interval
<1>2. T \in SUBSET (0..live)
    OBVIOUS
<1> HIDE DEF T
<1>3. Cardinality(T) \in Nat
    BY <1>1, <1>2, FS_Subset, FS_CardinalityType
<1>4. QED
    BY <1>3 DEF Tier, T

-----------------------------------------------------------------------------
(* A finite set in the order of a relation. *)

Orders(S, less) ==
    /\ \A c \in S : <<c, c>> \notin less
    /\ \A c, d \in S : c = d \/ <<c, d>> \in less \/ <<d, c>> \in less
    /\ \A c, d, e \in S : <<c, d>> \in less /\ <<d, e>> \in less => <<c, e>> \in less

Rank(S, less, c) == Cardinality({d \in S : <<d, c>> \in less})

\* Members of a finite set have ranks below its size, and no rank is shared.
LEMMA RanksDiffer ==
    ASSUME NEW S, IsFiniteSet(S), NEW less, Orders(S, less)
    PROVE  /\ \A c \in S : Rank(S, less, c) \in 0..(Cardinality(S) - 1)
           /\ \A c, d \in S : Rank(S, less, c) = Rank(S, less, d) => c = d
<1> DEFINE below(c) == {d \in S : <<d, c>> \in less}
<1>1. ASSUME NEW c \in S PROVE Rank(S, less, c) \in 0..(Cardinality(S) - 1)
  <2>1. below(c) \in SUBSET (S \ {c})
      BY DEF Orders
  <2>2. IsFiniteSet(S \ {c}) /\ Cardinality(S \ {c}) = Cardinality(S) - 1
      BY FS_RemoveElement
  <2>3. IsFiniteSet(below(c)) /\ Cardinality(below(c)) <= Cardinality(S \ {c})
      BY <2>1, <2>2, FS_Subset
  <2>4. Cardinality(S) \in Nat /\ Cardinality(below(c)) \in Nat
      BY <2>3, FS_CardinalityType
  <2>5. Rank(S, less, c) = Cardinality(below(c))
      BY DEF Rank
  <2> HIDE DEF below
  <2>6. QED
      BY <2>2, <2>3, <2>4, <2>5
<1>2. ASSUME NEW c \in S, NEW d \in S, <<c, d>> \in less
      PROVE  Rank(S, less, c) < Rank(S, less, d)
  <2>1. below(c) \in SUBSET (below(d) \ {c}) /\ c \in below(d)
      BY <1>2 DEF Orders
  <2>2. IsFiniteSet(below(d))
    <3>1. below(d) \in SUBSET S
        OBVIOUS
    <3>2. QED
        BY <3>1, FS_Subset
  <2>3. Rank(S, less, c) = Cardinality(below(c)) /\ Rank(S, less, d) = Cardinality(below(d))
      BY DEF Rank
  <2> HIDE DEF below
  <2>4. IsFiniteSet(below(d) \ {c}) /\ Cardinality(below(d) \ {c}) = Cardinality(below(d)) - 1
      BY <2>1, <2>2, FS_RemoveElement
  <2>5. IsFiniteSet(below(c)) /\ Cardinality(below(c)) <= Cardinality(below(d) \ {c})
      BY <2>1, <2>4, FS_Subset
  <2>6. Cardinality(below(c)) \in Nat /\ Cardinality(below(d)) \in Nat
      BY <2>2, <2>5, FS_CardinalityType
  <2>7. QED
      BY <2>3, <2>4, <2>5, <2>6
<1>3. ASSUME NEW c \in S, NEW d \in S, Rank(S, less, c) = Rank(S, less, d)
      PROVE  c = d
  <2>1. Rank(S, less, c) \in Int /\ Rank(S, less, d) \in Int
      BY <1>1
  <2>2. c = d \/ <<c, d>> \in less \/ <<d, c>> \in less
      BY DEF Orders
  <2>3. QED
      BY <1>2, <1>3, <2>1, <2>2
<1>4. QED
    BY <1>1, <1>3

\* Every rank below the size of the set is that of a member.
LEMMA RanksExist ==
    ASSUME NEW S, IsFiniteSet(S), NEW less, Orders(S, less), NEW n \in 0..(Cardinality(S) - 1)
    PROVE  \E c \in S : Rank(S, less, c) = n
<1> DEFINE f == [c \in S |-> Rank(S, less, c)]
           T == 0..(Cardinality(S) - 1)
<1>1. Cardinality(S) \in Nat
    BY FS_CardinalityType
<1>2. IsFiniteSet(T) /\ Cardinality(T) = Cardinality(S)
    BY <1>1, FS_Interval
<1>3. f \in [S -> T]
    BY RanksDiffer
<1>4. \A c, d \in S : f[c] = f[d] => c = d
    BY RanksDiffer
<1> HIDE DEF f, T
<1>5. f \in Injection(S, T)
    BY <1>3, <1>4 DEF Injection, IsInjective
<1>6. f \in Surjection(S, T)
    BY <1>2, <1>5, FS_Injection
<1>7. \E c \in S : f[c] = n
    BY <1>6 DEF Surjection, T
<1>8. QED
    BY <1>7 DEF f

\* A finite set that is not empty has a first member.
LEMMA FirstIs ==
    ASSUME NEW S, IsFiniteSet(S), S # {}, NEW less, Orders(S, less)
    PROVE  \E c \in S : \A d \in S : <<d, c>> \notin less
<1>1. Cardinality(S) \in Nat /\ Cardinality(S) # 0
    BY FS_CardinalityType, FS_EmptySet
<1>2. 0 \in 0..(Cardinality(S) - 1)
    BY <1>1
<1>3. PICK c \in S : Rank(S, less, c) = 0
    BY <1>2, RanksExist
<1> DEFINE before == {d \in S : <<d, c>> \in less}
<1>4. before \in SUBSET S
    OBVIOUS
<1>5. before = {}
  <2>1. IsFiniteSet(before)
      BY <1>4, FS_Subset
  <2>2. Cardinality(before) = 0
      BY <1>3 DEF Rank
  <2> HIDE DEF before
  <2>3. QED
      BY <2>1, <2>2, FS_EmptySet
<1>6. QED
    BY <1>5

\* A finite set put in order lists each member once.
LEMMA InOrderIs ==
    ASSUME NEW S, IsFiniteSet(S), NEW less, Orders(S, less)
    PROVE  /\ InOrder(S, less) \in Seq(S) /\ Len(InOrder(S, less)) = Cardinality(S)
           /\ \A i, j \in 1..Cardinality(S) :
                 InOrder(S, less)[i] = InOrder(S, less)[j] => i = j
<1> DEFINE q == InOrder(S, less)
           n == Cardinality(S)
<1>1. n \in Nat
    BY FS_CardinalityType
<1>2. ASSUME NEW i \in 1..n
      PROVE  q[i] \in S /\ Rank(S, less, q[i]) = i - 1
  <2>1. i - 1 \in 0..(n - 1)
      BY <1>1
  <2>2. \E c \in S : Rank(S, less, c) = i - 1
      BY <2>1, RanksExist
  <2>3. q[i] = CHOOSE c \in S : Rank(S, less, c) = i - 1
      BY DEF InOrder, Rank
  <2> HIDE DEF q
  <2>4. QED
      BY <2>2, <2>3
<1>3. q = [i \in 1..n |-> q[i]]
  <2> DEFINE v(i) == CHOOSE c \in S : Rank(S, less, c) = i - 1
  <2>1. q = [i \in 1..n |-> v(i)]
      BY DEF InOrder, Rank
  <2> HIDE DEF q, v
  <2>2. \A i \in 1..n : q[i] = v(i)
      BY <2>1
  <2>3. QED
      BY <2>1, <2>2
<1> HIDE DEF q, n
<1>4. q \in [1..n -> S]
    BY <1>2, <1>3
<1>5. q \in Seq(S) /\ Len(q) = n
    BY <1>1, <1>4
<1>6. \A i, j \in 1..n : q[i] = q[j] => i = j
  <2>1. SUFFICES ASSUME NEW i \in 1..n, NEW j \in 1..n, q[i] = q[j] PROVE i = j
      OBVIOUS
  <2>2. i - 1 = j - 1
      BY <1>2, <2>1
  <2>3. QED
      BY <1>1, <2>2
<1>7. QED
    BY <1>5, <1>6 DEF q, n

-----------------------------------------------------------------------------
(* Plans. *)

\* Two candidates are two segments.
Unique(S) == \A c, d \in S : c.unit = d.unit => c = d
UnitsOf(S) == {c.unit : c \in S}

Orderings(S) ==
    /\ Orders(S, {p \in S \X S : p[1].unit < p[2].unit})
    /\ Orders(S, {p \in S \X S : Smaller(p[1], p[2])})

\* Both orders of the policy, by unit and by size, are orders.
LEMMA CandidatesOrdered ==
    ASSUME NEW S \in SUBSET Candidate, Unique(S)
    PROVE  Orderings(S)
<1>1. \A c \in S : c.unit \in Nat /\ Live(c) \in Nat
    BY LiveIs DEF Candidate, Units
<1>2. Orders(S, {p \in S \X S : p[1].unit < p[2].unit})
  <2> DEFINE less == {p \in S \X S : p[1].unit < p[2].unit}
  <2>1. \A c, d \in S : <<c, d>> \in less <=> c.unit < d.unit
      OBVIOUS
  <2> HIDE DEF less
  <2>2. \A c \in S : <<c, c>> \notin less
      BY <1>1, <2>1
  <2>3. ASSUME NEW c \in S, NEW d \in S
        PROVE  c = d \/ <<c, d>> \in less \/ <<d, c>> \in less
    <3>1. c.unit \in Nat /\ d.unit \in Nat /\ Live(c) \in Nat /\ Live(d) \in Nat
        BY <1>1
    <3>2. c.unit = d.unit => c = d
        BY DEF Unique
    <3>3. /\ <<c, d>> \in less <=> c.unit < d.unit
          /\ <<d, c>> \in less <=> d.unit < c.unit
        BY <2>1
    <3>4. QED
        BY <3>1, <3>2, <3>3
  <2>4. \A c, d, e \in S : <<c, d>> \in less /\ <<d, e>> \in less => <<c, e>> \in less
      BY <1>1, <2>1
  <2>5. QED
      BY <2>2, <2>3, <2>4 DEF Orders, less
<1>3. Orders(S, {p \in S \X S : Smaller(p[1], p[2])})
  <2> DEFINE less == {p \in S \X S : Smaller(p[1], p[2])}
  <2>1. \A c, d \in S :
           <<c, d>> \in less <=> Live(c) < Live(d) \/ (Live(c) = Live(d) /\ c.unit < d.unit)
      BY DEF Smaller
  <2> HIDE DEF less
  <2>2. \A c \in S : <<c, c>> \notin less
      BY <1>1, <2>1
  <2>3. ASSUME NEW c \in S, NEW d \in S
        PROVE  c = d \/ <<c, d>> \in less \/ <<d, c>> \in less
    <3>1. c.unit \in Nat /\ d.unit \in Nat /\ Live(c) \in Nat /\ Live(d) \in Nat
        BY <1>1
    <3>2. c.unit = d.unit => c = d
        BY DEF Unique
    <3>3. /\ <<c, d>> \in less <=> Live(c) < Live(d) \/ (Live(c) = Live(d) /\ c.unit < d.unit)
          /\ <<d, c>> \in less <=> Live(d) < Live(c) \/ (Live(d) = Live(c) /\ d.unit < c.unit)
        BY <2>1
    <3>4. QED
        BY <3>1, <3>2, <3>3
  <2>4. \A c, d, e \in S : <<c, d>> \in less /\ <<d, e>> \in less => <<c, e>> \in less
      BY <1>1, <2>1
  <2>5. QED
      BY <2>2, <2>3, <2>4 DEF Orders, less
<1>4. QED
    BY <1>2, <1>3 DEF Orderings

\* A sequence of candidates without repetition.
Listed(q, S) ==
    /\ q \in Seq(S)
    /\ \A i, j \in DOMAIN q : q[i].unit = q[j].unit => i = j

\* The policy's sorted lists hold each candidate once.
LEMMA ListsAre ==
    ASSUME NEW S \in SUBSET Candidate, Unique(S), IsFiniteSet(S)
    PROVE  Listed(ByUnit(S), S) /\ Listed(SmallestFirst(S), S)
<1> DEFINE a == {p \in S \X S : p[1].unit < p[2].unit}
           b == {p \in S \X S : Smaller(p[1], p[2])}
<1>1. ByUnit(S) = InOrder(S, a) /\ SmallestFirst(S) = InOrder(S, b)
    BY DEF ByUnit, SmallestFirst
<1>2. Orders(S, a) /\ Orders(S, b)
    BY CandidatesOrdered DEF Orderings
<1> HIDE DEF a, b
<1>3. ASSUME NEW less, Orders(S, less)
      PROVE  Listed(InOrder(S, less), S)
  <2> DEFINE q == InOrder(S, less)
  <2>1. q \in Seq(S) /\ Len(q) = Cardinality(S)
      BY <1>3, InOrderIs
  <2>2. \A i, j \in 1..Cardinality(S) : q[i] = q[j] => i = j
      BY <1>3, InOrderIs
  <2> HIDE DEF q
  <2>3. DOMAIN q = 1..Cardinality(S) /\ \A i \in DOMAIN q : q[i] \in S
      BY <2>1
  <2>4. \A i, j \in DOMAIN q : q[i].unit = q[j].unit => i = j
      BY <2>2, <2>3 DEF Unique
  <2>5. QED
      BY <2>1, <2>4 DEF Listed, q
<1>4. QED
    BY <1>1, <1>2, <1>3

JobPlans(S) == [inputs : SUBSET UnitsOf(S), bytes : Nat, live : Nat]

\* No segment is planned twice.
Apart(plans) == \A i, j \in DOMAIN plans : i # j => plans[i].inputs \cap plans[j].inputs = {}

\* Nor one of T at all.
Spares(plans, T) == \A i \in DOMAIN plans : plans[i].inputs \cap UnitsOf(T) = {}

ArePlans(plans, S) == plans \in Seq(JobPlans(S)) /\ Apart(plans)

\* The plan of a list takes the segments of the list and nothing else.
LEMMA PlanOfIs ==
    ASSUME NEW S \in SUBSET Candidate, NEW taken \in Seq(S)
    PROVE  /\ PlanOf(taken) \in JobPlans(S)
           /\ PlanOf(taken).inputs = UnitsOf(ToSet(taken))
<1>1. taken \in Seq(Candidate) /\ \A i \in DOMAIN taken : taken[i] \in S
    OBVIOUS
<1>2. BuildBytes(taken) \in Nat /\ LiveSum(taken) \in Nat
    BY <1>1, BuildBytesIs, LiveSumIs
<1>3. {taken[i].unit : i \in DOMAIN taken} \in SUBSET UnitsOf(S)
    BY <1>1 DEF UnitsOf
<1>4. {taken[i].unit : i \in DOMAIN taken} = UnitsOf(ToSet(taken))
    BY DEF UnitsOf, ToSet
<1>5. QED
    BY <1>2, <1>3, <1>4 DEF PlanOf, JobPlans

\* A plan more, of candidates that the others spare.
LEMMA PlanMore ==
    ASSUME NEW S \in SUBSET Candidate, NEW plans, ArePlans(plans, S), NEW taken \in Seq(S),
           Spares(plans, ToSet(taken)), NEW T, Spares(plans, T),
           UnitsOf(ToSet(taken)) \cap UnitsOf(T) = {}
    PROVE  /\ ArePlans(Append(plans, PlanOf(taken)), S)
           /\ Spares(Append(plans, PlanOf(taken)), T)
<1> DEFINE p == PlanOf(taken)
           more == Append(plans, p)
<1>1. p \in JobPlans(S) /\ p.inputs = UnitsOf(ToSet(taken))
    BY PlanOfIs
<1> HIDE DEF p
<1>2. plans \in Seq(JobPlans(S)) /\ Apart(plans)
    BY DEF ArePlans
<1>3. /\ more \in Seq(JobPlans(S)) /\ DOMAIN more = DOMAIN plans \cup {Len(plans) + 1}
      /\ Len(plans) + 1 \notin DOMAIN plans /\ more[Len(plans) + 1] = p
      /\ \A i \in DOMAIN plans : more[i] = plans[i]
    BY <1>1, <1>2
<1> HIDE DEF more
<1>4. \A i \in DOMAIN plans : plans[i].inputs \cap p.inputs = {}
    BY <1>1 DEF Spares
<1>5. Apart(more)
    BY <1>2, <1>3, <1>4 DEF Apart
<1>6. Spares(more, T)
    BY <1>1, <1>3 DEF Spares
<1>7. QED
    BY <1>3, <1>5, <1>6 DEF ArePlans, more, p

-----------------------------------------------------------------------------
(* Deletion-driven plans. *)

JoinStep(env, i, got) == JoinHeavy(got, env[2][i])
IsListOf(env, done, got) == got \in Seq(env[1])
Joining == INSTANCE Folding WITH Step <- JoinStep, Pick <- LastRound, Inv <- IsListOf

\* The smaller neighbours joined to a rewrite are candidates.
LEMMA WithSmallerIs ==
    ASSUME NEW S \in SUBSET Candidate, Unique(S), IsFiniteSet(S), NEW heavy \in S,
           NEW rest \in SUBSET S
    PROVE  WithSmaller(heavy, rest) \in Seq(S)
<1>1. <<heavy>> \in Seq(S)
    OBVIOUS
<1> DEFINE T == {c \in rest : Tier(Live(c)) <= Tier(Live(heavy))}
           q == SmallestFirst(T)
<1>2. q \in Seq(S)
  <2>1. T \in SUBSET Candidate /\ T \in SUBSET S /\ Unique(T)
      BY DEF Unique
  <2>2. IsFiniteSet(T)
      BY <2>1, FS_Subset
  <2> HIDE DEF T
  <2>3. SmallestFirst(T) \in Seq(T)
      BY <2>1, <2>2, ListsAre DEF Listed
  <2>4. QED
      BY <2>1, <2>3
<1> DEFINE all == Joining!Fold(<<S, q>>, <<heavy>>, DOMAIN q)
<1>3. WithSmaller(heavy, rest) = IF heavy.rows < BaseRows THEN <<heavy>> ELSE all
  <2> HIDE DEF T
  <2>1. WithSmaller(heavy, rest) = IF heavy.rows < BaseRows THEN <<heavy>> ELSE FoldLeft(JoinHeavy, <<heavy>>, q)
      BY DEF WithSmaller, T
  <2> HIDE DEF q
  <2>2. FoldLeft(JoinHeavy, <<heavy>>, q) = all
      BY DEF FoldLeft, MapThenFoldSet, Joining!Fold, Joining!Body, JoinStep, LastRound
  <2> HIDE DEF all
  <2>3. QED
      BY <2>1, <2>2
<1> HIDE DEF q, T
<1>4. Len(q) \in Int /\ DOMAIN q = 1..Len(q) /\ \A i \in DOMAIN q : q[i] \in S
    BY <1>2
<1>5. IsFiniteSet(DOMAIN q) /\ \A R \in SUBSET DOMAIN q : R # {} => LastRound(R) \in R
    BY <1>4, PositionsAre
<1>6. Joining!IsFiniteSet(DOMAIN q) /\ Joining!Picks(DOMAIN q)
    BY <1>5 DEF IsFiniteSet, Joining!IsFiniteSet, Joining!Picks
<1>7. IsListOf(<<S, q>>, {}, <<heavy>>)
    BY DEF IsListOf
<1>8. \A R \in SUBSET DOMAIN q : \A got :
         R # {} /\ IsListOf(<<S, q>>, R \ {LastRound(R)}, got)
           => IsListOf(<<S, q>>, R, JoinStep(<<S, q>>, LastRound(R), got))
  <2>1. SUFFICES ASSUME NEW R \in SUBSET DOMAIN q, NEW got \in Seq(S), R # {}
                 PROVE  JoinStep(<<S, q>>, LastRound(R), got) \in Seq(S)
      BY DEF IsListOf
  <2>2. q[LastRound(R)] \in S
      BY <1>4, <1>5, <2>1
  <2>3. QED
      BY <2>2 DEF JoinStep, JoinHeavy
<1>9. IsListOf(<<S, q>>, DOMAIN q, all)
    BY <1>6, <1>7, <1>8, Joining!FoldRule
<1>10. all \in Seq(S)
    BY <1>9 DEF IsListOf
<1> HIDE DEF all
<1>11. QED
    BY <1>1, <1>3, <1>10

\* The state of the deletion-driven planning: what is free is spared by the plans.
Planning(S, st) ==
    /\ {"plans", "free"} \subseteq DOMAIN st
    /\ ArePlans(st.plans, S) /\ st.free \in SUBSET S /\ Spares(st.plans, st.free)

\* One round of the rewrites leaves plans that share no segment.
LEMMA RewriteKeeps ==
    ASSUME NEW S \in SUBSET Candidate, Unique(S), IsFiniteSet(S), NEW st, Planning(S, st), NEW slots
    PROVE  Planning(S, RewriteNext(st, slots))
<1> DEFINE heavies == {c \in st.free : TooDeleted(c)}
           h == Heaviest(heavies)
<1>1. st.free \in SUBSET S /\ ArePlans(st.plans, S) /\ Spares(st.plans, st.free)
      /\ {"plans", "free"} \subseteq DOMAIN st
    BY DEF Planning
<1>2. heavies # {} => h \in heavies
  <2>1. SUFFICES ASSUME heavies # {}
                 PROVE  \E c \in heavies : \A d \in heavies :
                          d.deleted < c.deleted \/ (d.deleted = c.deleted /\ c.unit <= d.unit)
    <3> HIDE DEF heavies
    <3>1. QED
        BY DEF Heaviest
  <2> DEFINE worse == {p \in heavies \X heavies :
                         p[1].deleted > p[2].deleted \/ (p[1].deleted = p[2].deleted /\ p[1].unit < p[2].unit)}
  <2>2. heavies \in SUBSET S
      BY <1>1
  <2>3. IsFiniteSet(heavies)
      BY <2>2, FS_Subset
  <2>4. \A c \in heavies : c.deleted \in Nat /\ c.unit \in Nat
      BY <2>2 DEF Candidate, Units
  <2>5. \A c, d \in heavies : c.unit = d.unit => c = d
      BY <2>2 DEF Unique
  <2> HIDE DEF heavies
  <2>6. \A c, d \in heavies :
           <<c, d>> \in worse <=> c.deleted > d.deleted \/ (c.deleted = d.deleted /\ c.unit < d.unit)
      OBVIOUS
  <2> HIDE DEF worse
  <2>7. Orders(heavies, worse)
    <3>1. \A c \in heavies : <<c, c>> \notin worse
        BY <2>4, <2>6
    <3>2. ASSUME NEW c \in heavies, NEW d \in heavies
          PROVE  c = d \/ <<c, d>> \in worse \/ <<d, c>> \in worse
      <4>1. c.deleted \in Nat /\ d.deleted \in Nat /\ c.unit \in Nat /\ d.unit \in Nat
          BY <2>4
      <4>2. c.unit = d.unit => c = d
          BY <2>5
      <4>3. /\ <<c, d>> \in worse <=> c.deleted > d.deleted \/ (c.deleted = d.deleted /\ c.unit < d.unit)
            /\ <<d, c>> \in worse <=> d.deleted > c.deleted \/ (d.deleted = c.deleted /\ d.unit < c.unit)
          BY <2>6
      <4>4. QED
          BY <4>1, <4>2, <4>3
    <3>3. \A c, d, e \in heavies : <<c, d>> \in worse /\ <<d, e>> \in worse => <<c, e>> \in worse
        BY <2>4, <2>6
    <3>4. QED
        BY <3>1, <3>2, <3>3 DEF Orders
  <2>8. PICK c \in heavies : \A d \in heavies : <<d, c>> \notin worse
      BY <2>1, <2>3, <2>7, FirstIs
  <2>9. ASSUME NEW d \in heavies
         PROVE  d.deleted < c.deleted \/ (d.deleted = c.deleted /\ c.unit <= d.unit)
    <3>1. <<d, c>> \notin worse
        BY <2>8
    <3>2. ~(d.deleted > c.deleted \/ (d.deleted = c.deleted /\ d.unit < c.unit))
        BY <2>6, <3>1
    <3>3. c.deleted \in Nat /\ d.deleted \in Nat /\ c.unit \in Nat /\ d.unit \in Nat
        BY <2>4
    <3>4. QED
        BY <3>2, <3>3
  <2>10. QED
      BY <2>9
<1>3. ASSUME heavies # {}
      PROVE  Planning(S, RewriteHeavy(st, h))
  <2>1. h \in st.free /\ h \in S
      BY <1>1, <1>2, <1>3
  <2> DEFINE taken == WithSmaller(h, st.free \ {h})
             fr == st.free
  <2> HIDE DEF heavies, h
  <2>2. taken \in Seq(fr)
    <3>1. fr \in SUBSET Candidate /\ Unique(fr)
        BY <1>1 DEF Unique
    <3>2. IsFiniteSet(fr)
        BY <1>1, FS_Subset
    <3>3. h \in fr /\ fr \ {h} \in SUBSET fr
        BY <2>1
    <3> HIDE DEF fr
    <3>4. WithSmaller(h, fr \ {h}) \in Seq(fr)
        BY <3>1, <3>2, <3>3, WithSmallerIs
    <3>5. QED
        BY <3>4 DEF fr
  <2>3. Planning(S, Planned(st, taken))
    <3> HIDE DEF taken
    <3>1. ToSet(taken) \in SUBSET fr /\ taken \in Seq(S)
        BY <1>1, <2>2 DEF ToSet
    <3>2. Spares(st.plans, ToSet(taken)) /\ Spares(st.plans, fr \ ToSet(taken))
      <4>1. UnitsOf(ToSet(taken)) \subseteq UnitsOf(fr) /\ UnitsOf(fr \ ToSet(taken)) \subseteq UnitsOf(fr)
          BY <3>1 DEF UnitsOf
      <4>2. QED
          BY <1>1, <4>1 DEF Spares
    <3>3. UnitsOf(ToSet(taken)) \cap UnitsOf(fr \ ToSet(taken)) = {}
        BY <1>1, <3>1 DEF UnitsOf, Unique
    <3>4. /\ ArePlans(Append(st.plans, PlanOf(taken)), S)
          /\ Spares(Append(st.plans, PlanOf(taken)), fr \ ToSet(taken))
        BY <1>1, <3>1, <3>2, <3>3, PlanMore
    <3>5. fr \ ToSet(taken) \in SUBSET S
        BY <1>1
    <3>6. QED
        BY <3>4, <3>5 DEF Planning, Planned
  <2>4. Planning(S, [st EXCEPT !.free = @ \ {h}])
    <3>1. UnitsOf(fr \ {h}) \subseteq UnitsOf(fr)
        BY DEF UnitsOf
    <3>2. Spares(st.plans, fr \ {h})
        BY <1>1, <3>1 DEF Spares
    <3>3. QED
        BY <1>1, <3>2 DEF Planning
  <2>5. QED
      BY <2>3, <2>4 DEF RewriteHeavy
<1>4. CASE Len(st.plans) = slots \/ heavies = {}
    BY <1>4 DEF RewriteNext
<1>5. CASE ~(Len(st.plans) = slots \/ heavies = {})
    BY <1>3, <1>5 DEF RewriteNext
<1>6. QED
    BY <1>4, <1>5

RewriteStep(env, i, st) == RewriteNext(st, env[2])
IsPlanning(env, done, st) == Planning(env[1], st)
Rewriting == INSTANCE Folding WITH Step <- RewriteStep, Pick <- LastRound, Inv <- IsPlanning

\* A step repeated n times is a fold over n positions.
LEMMA TimesIs ==
    ASSUME NEW n \in Int
    PROVE  /\ DOMAIN Times(n) = 1..n /\ IsFiniteSet(1..n)
           /\ \A i \in 1..n : Times(n)[i] = i
           /\ \A T \in SUBSET (1..n) : T # {} => LastRound(T) \in T
    BY PositionsAre DEF Times

\* The plans for heavily deleted segments share no segment.
LEMMA DeletionPlansAre ==
    ASSUME NEW S \in SUBSET Candidate, Unique(S), IsFiniteSet(S), NEW slots
    PROVE  Planning(S, DeletionPlans(S, slots))
<1> DEFINE base == [plans |-> <<>>, free |-> S]
           n == Cardinality(S)
           all == Rewriting!Fold(<<S, slots>>, base, DOMAIN Times(n))
<1>1. n \in Int
    BY FS_CardinalityType
<1>2. DeletionPlans(S, slots) = all
    BY DEF DeletionPlans, FoldLeft, MapThenFoldSet, Rewriting!Fold, Rewriting!Body, RewriteStep, LastRound
<1>3. Rewriting!IsFiniteSet(DOMAIN Times(n)) /\ Rewriting!Picks(DOMAIN Times(n))
  <2>1. IsFiniteSet(DOMAIN Times(n)) /\ \A T \in SUBSET DOMAIN Times(n) : T # {} => LastRound(T) \in T
      BY <1>1, TimesIs
  <2>2. QED
      BY <2>1 DEF IsFiniteSet, Rewriting!IsFiniteSet, Rewriting!Picks
<1>4. IsPlanning(<<S, slots>>, {}, base)
  <2>1. <<>> \in Seq(JobPlans(S)) /\ DOMAIN <<>> = {}
      OBVIOUS
  <2>2. QED
      BY <2>1 DEF IsPlanning, Planning, ArePlans, Apart, Spares
<1>5. ASSUME NEW T \in SUBSET DOMAIN Times(n), NEW st, IsPlanning(<<S, slots>>, T \ {LastRound(T)}, st)
      PROVE  IsPlanning(<<S, slots>>, T, RewriteStep(<<S, slots>>, LastRound(T), st))
    BY <1>5, RewriteKeeps DEF IsPlanning, RewriteStep
<1> HIDE DEF base
<1>6. IsPlanning(<<S, slots>>, DOMAIN Times(n), all)
    BY <1>3, <1>4, <1>5, Rewriting!FoldRule
<1> HIDE DEF all
<1>7. QED
    BY <1>2, <1>6 DEF IsPlanning

-----------------------------------------------------------------------------
(* Merges from an ordered list. *)

\* Taking segments while they fit the pool takes a beginning of the list.
LEMMA TakenIs ==
    ASSUME NEW S, NEW cs, Listed(cs, S), NEW memoryCap
    PROVE  \E n \in 0..Len(cs) : TakeWhileFits(cs, memoryCap) = SubSeq(cs, 1, n)
<1> DEFINE N == {n \in 0..Len(cs) :
                   \A i \in 1..n : Fits(SubSeq(cs, 1, i - 1), cs[i], MaxMerge, memoryCap)}
<1>1. Len(cs) \in Nat
    BY DEF Listed
<1>2. TakeWhileFits(cs, memoryCap) = SubSeq(cs, 1, Max(N))
    BY DEF TakeWhileFits
<1>3. N \in SUBSET (0..Len(cs)) /\ 0 \in N
    BY <1>1
<1> HIDE DEF N
<1>4. IsFiniteSet(N)
  <2>1. IsFiniteSet(0..Len(cs))
      BY <1>1, FS_Interval
  <2>2. QED
      BY <1>3, <2>1, FS_Subset
<1>5. Max(N) \in N
    BY <1>3, <1>4, MaxIs
<1>6. QED
    BY <1>2, <1>3, <1>5

\* The first n of a list and the others.
LEMMA ListSplits ==
    ASSUME NEW S \in SUBSET Candidate, NEW cs, Listed(cs, S), NEW n \in 0..Len(cs)
    PROVE  LET a == SubSeq(cs, 1, n)
               b == SubSeq(cs, n + 1, Len(cs))
           IN /\ Listed(a, S) /\ Len(a) = n /\ Listed(b, S)
              /\ UnitsOf(ToSet(a)) \subseteq UnitsOf(ToSet(cs))
              /\ UnitsOf(ToSet(b)) \subseteq UnitsOf(ToSet(cs))
              /\ UnitsOf(ToSet(a)) \cap UnitsOf(ToSet(b)) = {}
<1> DEFINE a == SubSeq(cs, 1, n)
           b == SubSeq(cs, n + 1, Len(cs))
<1>1. cs \in Seq(S) /\ Len(cs) \in Nat /\ \A i, j \in DOMAIN cs : cs[i].unit = cs[j].unit => i = j
    BY DEF Listed
<1>2. DOMAIN cs = 1..Len(cs) /\ n \in Nat /\ n <= Len(cs) /\ \A i \in DOMAIN cs : cs[i] \in S
    BY <1>1
<1>3. /\ a \in Seq(S) /\ Len(a) = n /\ DOMAIN a = 1..n
      /\ \A i \in 1..n : a[i] = cs[i]
  <2>1. /\ a \in Seq(S) /\ Len(a) = IF 1 <= n THEN n - 1 + 1 ELSE 0
        /\ \A i \in 1..(n - 1 + 1) : a[i] = cs[1 + i - 1]
      BY <1>1, <1>2, SubSeqProperties
  <2> HIDE DEF a
  <2>2. Len(a) = n
      BY <1>2, <2>1
  <2>3. \A i \in 1..n : a[i] = cs[i]
      BY <1>2, <2>1
  <2>4. QED
      BY <2>1, <2>2, <2>3
<1>4. /\ b \in Seq(S) /\ Len(b) = Len(cs) - n /\ DOMAIN b = 1..(Len(cs) - n)
      /\ \A i \in 1..(Len(cs) - n) : b[i] = cs[n + i]
  <2>1. /\ b \in Seq(S) /\ Len(b) = IF n + 1 <= Len(cs) THEN Len(cs) - (n + 1) + 1 ELSE 0
        /\ \A i \in 1..(Len(cs) - (n + 1) + 1) : b[i] = cs[n + 1 + i - 1]
      BY <1>1, <1>2, SubSeqProperties
  <2> HIDE DEF b
  <2>2. Len(b) = Len(cs) - n
    <3>1. \A k, m \in Nat : m <= k => (IF m + 1 <= k THEN k - (m + 1) + 1 ELSE 0) = k - m
        OBVIOUS
    <3>2. Len(cs) \in Nat /\ n \in Nat /\ n <= Len(cs)
        BY <1>1, <1>2
    <3>3. QED
        BY <2>1, <3>1, <3>2
  <2>3. \A i \in 1..(Len(cs) - n) : b[i] = cs[n + i]
    <3>1. \A i \in 1..(Len(cs) - n) : i \in 1..(Len(cs) - (n + 1) + 1) /\ n + 1 + i - 1 = n + i
        BY <1>1, <1>2
    <3>2. QED
        BY <2>1, <3>1
  <2>4. QED
      BY <2>1, <2>2, <2>3
<1> HIDE DEF a, b
<1>5. Listed(a, S)
  <2>1. SUFFICES ASSUME NEW i \in DOMAIN a, NEW j \in DOMAIN a, a[i].unit = a[j].unit PROVE i = j
      BY <1>3 DEF Listed
  <2>2. i \in DOMAIN cs /\ j \in DOMAIN cs /\ cs[i].unit = cs[j].unit
      BY <1>2, <1>3, <2>1
  <2>3. QED
      BY <1>1, <2>2
<1>6. Listed(b, S)
  <2>1. SUFFICES ASSUME NEW i \in DOMAIN b, NEW j \in DOMAIN b, b[i].unit = b[j].unit PROVE i = j
      BY <1>4 DEF Listed
  <2>2. n + i \in DOMAIN cs /\ n + j \in DOMAIN cs /\ cs[n + i].unit = cs[n + j].unit
      BY <1>2, <1>4, <2>1
  <2>3. n + i = n + j /\ i \in Int /\ j \in Int
      BY <1>1, <1>4, <2>2
  <2>4. QED
      BY <1>2, <2>3
<1>7. \A c \in ToSet(a) : \E i \in 1..n : c = cs[i]
    BY <1>3 DEF ToSet
<1>8. \A c \in ToSet(b) : \E i \in (n + 1)..Len(cs) : c = cs[i]
  <2>1. SUFFICES ASSUME NEW i \in DOMAIN b PROVE \E k \in (n + 1)..Len(cs) : b[i] = cs[k]
      BY DEF ToSet
  <2>2. b[i] = cs[n + i] /\ n + i \in (n + 1)..Len(cs)
      BY <1>2, <1>4
  <2>3. QED
      BY <2>2
<1>9. ToSet(a) \subseteq ToSet(cs) /\ ToSet(b) \subseteq ToSet(cs)
  <2>1. \A i \in 1..n : cs[i] \in ToSet(cs)
      BY <1>2 DEF ToSet
  <2>2. \A i \in (n + 1)..Len(cs) : cs[i] \in ToSet(cs)
      BY <1>2 DEF ToSet
  <2>3. QED
      BY <1>7, <1>8, <2>1, <2>2
<1>10. UnitsOf(ToSet(a)) \cap UnitsOf(ToSet(b)) = {}
  <2>1. SUFFICES ASSUME NEW c \in ToSet(a), NEW d \in ToSet(b), c.unit = d.unit PROVE FALSE
      BY DEF UnitsOf
  <2>2. PICK i \in 1..n : c = cs[i]
      BY <1>7
  <2>3. PICK j \in (n + 1)..Len(cs) : d = cs[j]
      BY <1>8
  <2>4. i \in DOMAIN cs /\ j \in DOMAIN cs /\ i # j
      BY <1>2
  <2>5. QED
      BY <1>1, <2>1, <2>2, <2>3, <2>4
<1>11. UnitsOf(ToSet(a)) \subseteq UnitsOf(ToSet(cs)) /\ UnitsOf(ToSet(b)) \subseteq UnitsOf(ToSet(cs))
    BY <1>9 DEF UnitsOf
<1>12. QED
    BY <1>3, <1>5, <1>6, <1>10, <1>11 DEF a, b

\* The state of the merging: the members are spared by the plans, and T by both.
Merging(S, T, st) ==
    /\ {"plans", "members"} \subseteq DOMAIN st
    /\ ArePlans(st.plans, S) /\ Listed(st.members, S)
    /\ Spares(st.plans, ToSet(st.members)) /\ Spares(st.plans, T)
    /\ UnitsOf(ToSet(st.members)) \cap UnitsOf(T) = {}

\* One round of the merges plans from what is left of the list.
LEMMA MergeKeeps ==
    ASSUME NEW S \in SUBSET Candidate, NEW T, NEW st, Merging(S, T, st), NEW atLeast, NEW slots
    PROVE  Merging(S, T, MergeNext(st, atLeast, slots))
<1> DEFINE taken == TakeWhileFits(st.members, PoolBytes \div 2)
           rest == SubSeq(st.members, Len(taken) + 1, Len(st.members))
           more == Append(st.plans, PlanOf(taken))
<1>1. /\ ArePlans(st.plans, S) /\ Listed(st.members, S) /\ {"plans", "members"} \subseteq DOMAIN st
      /\ Spares(st.plans, ToSet(st.members)) /\ Spares(st.plans, T)
      /\ UnitsOf(ToSet(st.members)) \cap UnitsOf(T) = {}
    BY DEF Merging
<1>2. PICK n \in 0..Len(st.members) : taken = SubSeq(st.members, 1, n)
    BY <1>1, TakenIs
<1>3. /\ Listed(taken, S) /\ Len(taken) = n /\ Listed(rest, S)
      /\ UnitsOf(ToSet(taken)) \subseteq UnitsOf(ToSet(st.members))
      /\ UnitsOf(ToSet(rest)) \subseteq UnitsOf(ToSet(st.members))
      /\ UnitsOf(ToSet(taken)) \cap UnitsOf(ToSet(rest)) = {}
  <2> DEFINE a == SubSeq(st.members, 1, n)
             b == SubSeq(st.members, n + 1, Len(st.members))
  <2>1. /\ Listed(a, S) /\ Len(a) = n /\ Listed(b, S)
        /\ UnitsOf(ToSet(a)) \subseteq UnitsOf(ToSet(st.members))
        /\ UnitsOf(ToSet(b)) \subseteq UnitsOf(ToSet(st.members))
        /\ UnitsOf(ToSet(a)) \cap UnitsOf(ToSet(b)) = {}
      BY <1>1, ListSplits
  <2>2. taken = a
      BY <1>2
  <2> HIDE DEF taken, a
  <2>3. rest = b
      BY <2>1, <2>2
  <2> HIDE DEF rest, b
  <2>4. QED
      BY <2>1, <2>2, <2>3
<1> HIDE DEF taken
<1>4. taken \in Seq(S)
    BY <1>3 DEF Listed
<1>5. Spares(st.plans, ToSet(taken)) /\ Spares(st.plans, ToSet(rest))
    BY <1>1, <1>3 DEF Spares
<1> HIDE DEF rest
<1>6. UnitsOf(ToSet(taken)) \cap UnitsOf(T) = {} /\ UnitsOf(ToSet(rest)) \cap UnitsOf(T) = {}
    BY <1>1, <1>3
<1>7. ArePlans(more, S) /\ Spares(more, ToSet(rest))
    BY <1>1, <1>3, <1>4, <1>5, PlanMore
<1>8. Spares(more, T)
    BY <1>1, <1>4, <1>5, <1>6, PlanMore
<1> HIDE DEF more
<1>9. Merging(S, T, [plans |-> more, members |-> rest])
    BY <1>3, <1>6, <1>7, <1>8 DEF Merging
<1>10. MergeTaken(st, taken) = IF Len(taken) < 2 THEN st ELSE [plans |-> more, members |-> rest]
    BY DEF MergeTaken, more, rest
<1>11. Merging(S, T, MergeTaken(st, taken))
    BY <1>9, <1>10
<1>12. QED
    BY <1>11 DEF MergeNext, taken

MergeStep(env, i, st) == MergeNext(st, env[3], env[4])
IsMerging(env, done, st) == Merging(env[1], env[2], st)
MergingAll == INSTANCE Folding WITH Step <- MergeStep, Pick <- LastRound, Inv <- IsMerging

\* The merges of one list share no segment with each other or with earlier plans.
LEMMA MergePlansAre ==
    ASSUME NEW S \in SUBSET Candidate, NEW T, NEW plans, NEW members,
           Merging(S, T, [plans |-> plans, members |-> members]), NEW atLeast, NEW slots \in Int
    PROVE  /\ ArePlans(MergePlans(plans, members, atLeast, slots), S)
           /\ Spares(MergePlans(plans, members, atLeast, slots), T)
<1> DEFINE base == [plans |-> plans, members |-> members]
           env == <<S, T, atLeast, slots>>
           all == MergingAll!Fold(env, base, DOMAIN Times(slots))
<1>1. MergePlans(plans, members, atLeast, slots) = all.plans
    BY DEF MergePlans, FoldLeft, MapThenFoldSet, MergingAll!Fold, MergingAll!Body, MergeStep, LastRound
<1>2. MergingAll!IsFiniteSet(DOMAIN Times(slots)) /\ MergingAll!Picks(DOMAIN Times(slots))
  <2>1. IsFiniteSet(DOMAIN Times(slots))
        /\ \A R \in SUBSET DOMAIN Times(slots) : R # {} => LastRound(R) \in R
      BY TimesIs
  <2>2. QED
      BY <2>1 DEF IsFiniteSet, MergingAll!IsFiniteSet, MergingAll!Picks
<1>3. IsMerging(env, {}, base)
    BY DEF IsMerging
<1>4. ASSUME NEW R \in SUBSET DOMAIN Times(slots), NEW st, IsMerging(env, R \ {LastRound(R)}, st)
      PROVE  IsMerging(env, R, MergeStep(env, LastRound(R), st))
    BY <1>4, MergeKeeps DEF IsMerging, MergeStep
<1> HIDE DEF base, env
<1>5. IsMerging(env, DOMAIN Times(slots), all)
    BY <1>2, <1>3, <1>4, MergingAll!FoldRule
<1> HIDE DEF all
<1>6. Merging(S, T, all)
    BY <1>5 DEF IsMerging, env
<1>7. QED
    BY <1>1, <1>6 DEF Merging

-----------------------------------------------------------------------------
(* What the policy plans. *)

\* The candidates in the tiers that are still to come.
Later(free, done) == {c \in free : Tier(Live(c)) + 1 \notin done}

TierStep(env, i, plans) == MergePlans(plans, ByUnit(TierOf(env[2], env[4][i] - 1)), MinMerge, env[3])
IsTiered(env, done, plans) == ArePlans(plans, env[1]) /\ Spares(plans, Later(env[2], done))
Tiering == INSTANCE Folding WITH Step <- TierStep, Pick <- LastRound, Inv <- IsTiered

\* The merges of all tiers share no segment.
LEMMA TierPlansAre ==
    ASSUME NEW S \in SUBSET Candidate, Unique(S), IsFiniteSet(S), NEW first, Planning(S, first),
           NEW slots \in Int
    PROVE  ArePlans(TierPlans(first, slots), S)
<1> DEFINE free == first.free
           tiers == {Tier(Live(c)) : c \in free}
           n == 1 + Max({0} \cup tiers)
           env == <<S, free, slots, Times(n)>>
           all == Tiering!Fold(env, first.plans, DOMAIN Times(n))
<1>1. free \in SUBSET S /\ ArePlans(first.plans, S) /\ Spares(first.plans, free)
    BY DEF Planning
<1>2. TierPlans(first, slots) = all
    BY DEF TierPlans, FoldLeft, MapThenFoldSet, Tiering!Fold, Tiering!Body, TierStep, LastRound
<1> HIDE DEF free
<1>3. IsFiniteSet(free)
    BY <1>1, FS_Subset
<1>4. \A c \in free : Live(c) \in Nat /\ Tier(Live(c)) \in Nat
    BY <1>1, LiveIs, TierIs
<1>5. IsFiniteSet(tiers)
  <2> DEFINE f == [c \in free |-> Tier(Live(c))]
  <2>1. f \in Surjection(free, tiers)
      BY DEF Surjection
  <2>2. QED
      BY <1>3, <2>1, FS_Surjection
<1>6. tiers \in SUBSET Nat
    BY <1>4
<1> HIDE DEF tiers
<1>7. n \in Int
    BY <1>5, <1>6, LargestIs
<1> HIDE DEF n
<1>8. /\ DOMAIN Times(n) = 1..n /\ IsFiniteSet(1..n) /\ \A i \in 1..n : Times(n)[i] = i
      /\ \A T \in SUBSET (1..n) : T # {} => LastRound(T) \in T
    BY <1>7, TimesIs
<1>9. Tiering!IsFiniteSet(DOMAIN Times(n)) /\ Tiering!Picks(DOMAIN Times(n))
    BY <1>8 DEF IsFiniteSet, Tiering!IsFiniteSet, Tiering!Picks
<1>10. IsTiered(env, {}, first.plans)
  <2>1. Later(free, {}) = free
      BY DEF Later
  <2>2. QED
      BY <1>1, <2>1 DEF IsTiered
<1>11. ASSUME NEW T \in SUBSET DOMAIN Times(n), T # {}, NEW plans,
              IsTiered(env, T \ {LastRound(T)}, plans)
       PROVE  IsTiered(env, T, TierStep(env, LastRound(T), plans))
  <2> DEFINE i == LastRound(T)
             here == TierOf(free, i - 1)
             rest == Later(free, T)
  <2>1. i \in T /\ i \in 1..n /\ i \in Int
      BY <1>8, <1>11
  <2> HIDE DEF i
  <2>2. ArePlans(plans, S) /\ Spares(plans, Later(free, T \ {i}))
      BY <1>11 DEF IsTiered, i
  <2>3. here \in SUBSET free /\ rest \in SUBSET free
      BY DEF TierOf, Later
  <2>4. here \subseteq Later(free, T \ {i}) /\ rest \subseteq Later(free, T \ {i})
      BY <1>4, <2>1 DEF TierOf, Later
  <2>5. here \cap rest = {}
      BY <1>4, <2>1 DEF TierOf, Later
  <2> HIDE DEF here, rest
  <2>6. UnitsOf(here) \cap UnitsOf(rest) = {}
      BY <1>1, <2>3, <2>5 DEF UnitsOf, Unique
  <2>7. Listed(ByUnit(here), here)
    <3>1. here \in SUBSET Candidate /\ Unique(here)
        BY <1>1, <2>3 DEF Unique
    <3>2. IsFiniteSet(here)
        BY <1>3, <2>3, FS_Subset
    <3>3. QED
        BY <3>1, <3>2, ListsAre
  <2>8. Listed(ByUnit(here), S)
      BY <1>1, <2>3, <2>7 DEF Listed
  <2>9. UnitsOf(ToSet(ByUnit(here))) \subseteq UnitsOf(here)
      BY <2>7 DEF UnitsOf, ToSet, Listed
  <2>10. Spares(plans, ToSet(ByUnit(here))) /\ Spares(plans, rest)
    <3>1. UnitsOf(here) \subseteq UnitsOf(Later(free, T \ {i}))
          /\ UnitsOf(rest) \subseteq UnitsOf(Later(free, T \ {i}))
        BY <2>4 DEF UnitsOf
    <3>2. QED
        BY <2>2, <2>9, <3>1 DEF Spares
  <2> DEFINE q == ByUnit(here)
  <2> HIDE DEF q
  <2>11. Merging(S, rest, [plans |-> plans, members |-> q])
      BY <2>2, <2>6, <2>8, <2>9, <2>10 DEF Merging, q
  <2>12. ArePlans(MergePlans(plans, q, MinMerge, slots), S)
         /\ Spares(MergePlans(plans, q, MinMerge, slots), rest)
      BY <2>11, MergePlansAre
  <2>13. TierStep(env, i, plans) = MergePlans(plans, q, MinMerge, slots)
      BY <1>8, <2>1 DEF TierStep, q, here
  <2>14. QED
      BY <2>12, <2>13 DEF IsTiered, rest, i
<1> HIDE DEF env
<1>12. IsTiered(env, DOMAIN Times(n), all)
    BY <1>9, <1>10, <1>11, Tiering!FoldRule
<1> HIDE DEF all
<1>13. QED
    BY <1>2, <1>12 DEF IsTiered, env

\* What is planned are candidates that are free, each in one plan.
LEMMA PlanIs ==
    ASSUME NEW S \in SUBSET Candidate, Unique(S), IsFiniteSet(S), NEW reserved, NEW slots \in Int
    PROVE  /\ ArePlans(Plan(S, reserved, slots), Free(S, reserved))
           /\ ArePlans(PlanQuiet(S, reserved, slots), Free(S, reserved))
<1> DEFINE F == Free(S, reserved)
<1>1. F \in SUBSET S /\ F \in SUBSET Candidate /\ Unique(F)
    BY DEF Free, Unique
<1>2. IsFiniteSet(F)
    BY <1>1, FS_Subset
<1>3. ArePlans(<<>>, F)
  <2>1. <<>> \in Seq(JobPlans(F)) /\ DOMAIN <<>> = {}
      OBVIOUS
  <2>2. QED
      BY <2>1 DEF ArePlans, Apart
<1> DEFINE small == {c \in F : Live(c) < GraphMinRows}
           q == SmallestFirst(small)
<1>4. Plan(S, reserved, slots) = IF ~Background THEN <<>> ELSE TierPlans(DeletionPlans(F, slots), slots)
    BY DEF Plan
<1>5. PlanQuiet(S, reserved, slots) = IF ~Background THEN <<>> ELSE MergePlans(<<>>, q, 2, slots)
    BY DEF PlanQuiet
<1> HIDE DEF F
<1>6. ArePlans(TierPlans(DeletionPlans(F, slots), slots), F)
    BY <1>1, <1>2, DeletionPlansAre, TierPlansAre
<1>7. small \in SUBSET F /\ small \in SUBSET Candidate /\ Unique(small)
    BY <1>1 DEF Unique
<1>8. IsFiniteSet(small)
    BY <1>2, <1>7, FS_Subset
<1> HIDE DEF small
<1>9. Listed(q, small)
    BY <1>7, <1>8, ListsAre
<1> HIDE DEF q
<1>10. Merging(F, {}, [plans |-> <<>>, members |-> q])
  <2>1. DOMAIN <<>> = {}
      OBVIOUS
  <2>2. Listed(q, F)
      BY <1>7, <1>9 DEF Listed
  <2>3. UnitsOf({}) = {}
      BY DEF UnitsOf
  <2>4. Spares(<<>>, ToSet(q)) /\ Spares(<<>>, {})
      BY <2>1 DEF Spares
  <2>5. QED
      BY <1>3, <2>2, <2>3, <2>4 DEF Merging
<1>11. ArePlans(MergePlans(<<>>, q, 2, slots), F)
    BY <1>1, <1>10, MergePlansAre
<1>12. QED
    BY <1>3, <1>4, <1>5, <1>6, <1>11 DEF F

\* A plan of an explicit compaction takes free segments of its scope.
LEMMA PlanExplicitIs ==
    ASSUME NEW S \in SUBSET Candidate, Unique(S), IsFiniteSet(S), NEW reserved
    PROVE  ArePlans(PlanExplicit(S, reserved), Free(S, reserved))
<1> DEFINE F == Free(S, reserved)
           q == SmallestFirst(F)
           N == {n \in 0..Len(q) : \A i \in 3..n : Fits(SubSeq(q, 1, i - 1), q[i], Len(q), PoolBytes)}
           taken == SubSeq(q, 1, Max(N))
<1>1. F \in SUBSET S /\ F \in SUBSET Candidate /\ Unique(F)
    BY DEF Free, Unique
<1>2. IsFiniteSet(F)
    BY <1>1, FS_Subset
<1>3. PlanExplicit(S, reserved) = ExplicitPlan(taken)
    BY DEF PlanExplicit, PlanOfFree
<1> HIDE DEF F
<1>4. Listed(q, F)
    BY <1>1, <1>2, ListsAre
<1> HIDE DEF q
<1>5. q \in Seq(F) /\ Len(q) \in Nat
    BY <1>4 DEF Listed
<1>6. N \in SUBSET (0..Len(q)) /\ 0 \in N
    BY <1>5
<1> HIDE DEF N
<1>7. IsFiniteSet(N)
  <2>1. IsFiniteSet(0..Len(q))
      BY <1>5, FS_Interval
  <2>2. QED
      BY <1>6, <2>1, FS_Subset
<1>8. Max(N) \in 0..Len(q)
  <2>1. N \in SUBSET Nat /\ N # {}
      BY <1>6
  <2>2. Max(N) \in N
      BY <1>7, <2>1, MaxIs
  <2>3. QED
      BY <1>6, <2>2
<1>9. taken \in Seq(F)
    BY <1>1, <1>4, <1>8, ListSplits DEF Listed
<1> HIDE DEF taken
<1>10. PlanOf(taken) \in JobPlans(F)
    BY <1>1, <1>9, PlanOfIs
<1> DEFINE p == PlanOf(taken)
<1> HIDE DEF p
<1>11. ArePlans(<<>>, F) /\ ArePlans(<<p>>, F)
  <2>1. p \in JobPlans(F)
      BY <1>10 DEF p
  <2>2. <<>> \in Seq(JobPlans(F)) /\ DOMAIN <<>> = {} /\ <<p>> \in Seq(JobPlans(F)) /\ DOMAIN <<p>> = {1}
      BY <2>1
  <2>3. QED
      BY <2>2 DEF ArePlans, Apart
<1>12. QED
    BY <1>3, <1>11 DEF ExplicitPlan, F, p

-----------------------------------------------------------------------------
(* The inductive invariant. *)

Fields(x) ==
    {"poisoned", "dropped", "stopped", "armed", "quiet", "visible", "ckpt", "frozen",
     "freezePending", "segs", "jobs", "reserved", "flushWaiters", "explicit", "retry", "answer",
     "sched"} \subseteq DOMAIN x

\* The job table.
IsEntry(e) ==
    /\ {"kind", "inputs", "target", "explicit", "running", "cancelled", "unit"} \subseteq DOMAIN e
    /\ e.kind \in Kinds /\ e.inputs \in SUBSET Units /\ e.target \in Nat /\ e.unit \in Nat
    /\ e.target # 0 => e.inputs = {}
    /\ e.running \in BOOLEAN /\ e.cancelled \in BOOLEAN
    /\ e.running => e.unit # 0

Table(x) ==
    /\ IsFiniteSet(DOMAIN x.jobs) /\ DOMAIN x.jobs \in SUBSET Units
    /\ \A j \in DOMAIN x.jobs : IsEntry(x.jobs[j])

\* Every request of the collection has its job, and every job that runs its permit.
Matched(x) ==
    /\ \A r \in ToSet(x.sched.queue) : r.job > 0 => r.job \in DOMAIN x.jobs
    /\ \A j \in DOMAIN x.jobs : x.jobs[j].running => \E p \in x.sched.permits : p.job = j

\* The log positions: the checkpoint, the frozen memtables, what is visible.
Ordered(x) ==
    /\ x.visible \in Nat /\ x.ckpt \in Nat /\ x.frozen \in Seq(Nat)
    /\ \A i \in DOMAIN x.frozen : x.ckpt <= x.frozen[i] /\ x.frozen[i] <= x.visible
    /\ \A i, j \in DOMAIN x.frozen : i <= j => x.frozen[i] <= x.frozen[j]
    /\ x.ckpt <= x.visible

IsSegment(g) ==
    {"rows", "deleted", "index"} \subseteq DOMAIN g /\ g.rows \in Nat /\ g.deleted \in Nat

Stored(x) ==
    /\ IsFiniteSet(DOMAIN x.segs) /\ DOMAIN x.segs \in SUBSET Units
    /\ \A u \in DOMAIN x.segs : IsSegment(x.segs[u])

Inputs(x) == UNION {x.jobs[j].inputs : j \in DOMAIN x.jobs}

Reserves(x) ==
    /\ x.reserved = Inputs(x) /\ Inputs(x) \subseteq DOMAIN x.segs
    /\ \A i, j \in DOMAIN x.jobs : i # j => x.jobs[i].inputs \cap x.jobs[j].inputs = {}
    /\ \A j \in DOMAIN x.jobs : x.jobs[j].target \in Inputs(x) => x.jobs[j].cancelled
    /\ \A i, j \in OfKind(x, "flush") : i = j
    /\ \A j \in OfKind(x, "flush") : x.jobs[j].running => x.frozen # <<>>

Scoped(x) ==
    /\ {"waiters", "scope", "merges", "rewrote"} \subseteq DOMAIN x.explicit
    /\ x.explicit.scope \in SUBSET Nat /\ IsFiniteSet(x.explicit.scope)

Good(x) ==
    /\ Fields(x) /\ Consistent(x.sched) /\ Pumped(x.sched)
    /\ Table(x) /\ Matched(x) /\ Ordered(x) /\ Stored(x) /\ Reserves(x) /\ Scoped(x)

\* The requests of other collections that are still to come.
Coming ==
    /\ others \subseteq Others
    /\ \A r \in others : \A h \in Held(w.sched) : h.job # r.job

IInv == Good(w) /\ Coming

-----------------------------------------------------------------------------
(* Folds over the scheduler. *)

CancelStep(env, job, s) == CancelJob(job, s)
CancelKeeps(env, done, s) ==
    /\ Consistent(s) /\ Pumped(s) /\ s.permits = env.permits
    /\ ToSet(s.queue) = {r \in ToSet(env.queue) : r.job \notin done}
Cancelling == INSTANCE Folding WITH Step <- CancelStep, Pick <- AnyOf, Inv <- CancelKeeps

\* Cancelling withdraws the requests of those jobs, and nothing else changes.
LEMMA CancelAllIs ==
    ASSUME NEW s, Consistent(s), Pumped(s), NEW ids, IsFiniteSet(ids)
    PROVE  LET t == CancelAll(s, ids)
           IN /\ Consistent(t) /\ Pumped(t) /\ t.permits = s.permits
              /\ ToSet(t.queue) = {r \in ToSet(s.queue) : r.job \notin ids}
<1> DEFINE t == Cancelling!Fold(s, s, ids)
<1>1. CancelAll(s, ids) = t
    BY DEF CancelAll, FoldSet, MapThenFoldSet, Cancelling!Fold, Cancelling!Body, CancelStep, AnyOf
<1>2. Cancelling!IsFiniteSet(ids) /\ Cancelling!Picks(ids)
    BY DEF IsFiniteSet, Cancelling!IsFiniteSet, Cancelling!Picks, AnyOf
<1>3. CancelKeeps(s, {}, s)
    BY DEF CancelKeeps
<1>4. \A d \in SUBSET ids : \A y :
         d # {} /\ CancelKeeps(s, d \ {AnyOf(d)}, y) => CancelKeeps(s, d, CancelStep(s, AnyOf(d), y))
  <2>1. SUFFICES ASSUME NEW d \in SUBSET ids, NEW y, d # {}, CancelKeeps(s, d \ {AnyOf(d)}, y)
                 PROVE  CancelKeeps(s, d, CancelStep(s, AnyOf(d), y))
      OBVIOUS
  <2> DEFINE z == Cancel(y, AnyOf(d))
  <2>2. AnyOf(d) \in d
      BY <2>1 DEF AnyOf
  <2>3. Consistent(y) /\ Pumped(y) /\ y.permits = s.permits
        /\ ToSet(y.queue) = {r \in ToSet(s.queue) : r.job \notin d \ {AnyOf(d)}}
      BY <2>1 DEF CancelKeeps
  <2>4. /\ Consistent(z) /\ z.permits = y.permits /\ Pumped(z)
        /\ ToSet(z.queue) = {r \in ToSet(y.queue) : r.job # AnyOf(d)}
      BY <2>3, CancelIs
  <2> HIDE DEF z
  <2>5. ToSet(z.queue) = {r \in ToSet(s.queue) : r.job \notin d}
      BY <2>2, <2>3, <2>4
  <2>6. CancelKeeps(s, d, z)
      BY <2>3, <2>4, <2>5 DEF CancelKeeps
  <2>7. QED
      BY <2>6 DEF CancelStep, CancelJob, z
<1>5. CancelKeeps(s, ids, t)
    BY <1>2, <1>3, <1>4, Cancelling!FoldRule
<1> HIDE DEF t
<1>6. QED
    BY <1>1, <1>5 DEF CancelKeeps

ReleaseStep(env, p, s) == ReleasePermit(p, s)
ReleaseKeeps(env, done, s) ==
    /\ Consistent(s) /\ Pumped(s) /\ Held(s) = Held(env) \ done
    /\ env.permits \ done \subseteq s.permits
Releasing == INSTANCE Folding WITH Step <- ReleaseStep, Pick <- AnyOf, Inv <- ReleaseKeeps

\* Permits that are dropped together are gone, and what waits may be granted.
LEMMA ReleaseAllIs ==
    ASSUME NEW s, Consistent(s), Pumped(s), NEW P \in SUBSET s.permits
    PROVE  LET t == ReleaseAll(s, P)
           IN /\ Consistent(t) /\ Pumped(t) /\ Held(t) = Held(s) \ P
              /\ s.permits \ P \subseteq t.permits
<1> DEFINE t == Releasing!Fold(s, s, P)
<1>1. ReleaseAll(s, P) = t
    BY DEF ReleaseAll, FoldSet, MapThenFoldSet, Releasing!Fold, Releasing!Body, ReleaseStep, AnyOf
<1>2. IsFiniteSet(P)
  <2>1. IsFiniteSet(s.permits)
      BY DEF Consistent, Counted
  <2>2. QED
      BY <2>1, FS_Subset
<1>3. Releasing!IsFiniteSet(P) /\ Releasing!Picks(P)
    BY <1>2 DEF IsFiniteSet, Releasing!IsFiniteSet, Releasing!Picks, AnyOf
<1>4. ReleaseKeeps(s, {}, s)
    BY DEF ReleaseKeeps
<1>5. \A d \in SUBSET P : \A y :
         d # {} /\ ReleaseKeeps(s, d \ {AnyOf(d)}, y) => ReleaseKeeps(s, d, ReleaseStep(s, AnyOf(d), y))
  <2>1. SUFFICES ASSUME NEW d \in SUBSET P, NEW y, d # {}, ReleaseKeeps(s, d \ {AnyOf(d)}, y)
                 PROVE  ReleaseKeeps(s, d, ReleaseStep(s, AnyOf(d), y))
      OBVIOUS
  <2> DEFINE p == AnyOf(d)
             z == Release(y, p)
  <2>2. p \in d
      BY <2>1 DEF AnyOf
  <2> HIDE DEF p
  <2>3. Consistent(y) /\ Held(y) = Held(s) \ (d \ {p}) /\ s.permits \ (d \ {p}) \subseteq y.permits
      BY <2>1 DEF ReleaseKeeps, p
  <2>4. p \in y.permits
      BY <2>2, <2>3
  <2>5. Consistent(z) /\ Pumped(z) /\ Held(z) = Held(y) \ {p} /\ y.permits \ {p} \subseteq z.permits
      BY <2>3, <2>4, ReleaseIs
  <2> HIDE DEF z
  <2>6. Held(z) = Held(s) \ d /\ s.permits \ d \subseteq z.permits
      BY <2>2, <2>3, <2>5
  <2>7. ReleaseKeeps(s, d, z)
      BY <2>5, <2>6 DEF ReleaseKeeps
  <2>8. QED
      BY <2>7 DEF ReleaseStep, ReleasePermit, z, p
<1>6. ReleaseKeeps(s, P, t)
    BY <1>3, <1>4, <1>5, Releasing!FoldRule
<1> HIDE DEF t
<1>7. QED
    BY <1>1, <1>6 DEF ReleaseKeeps

\* What waits has waited before or was asked for, where no permit goes back into the queue.
LEMMA StillWaiting ==
    ASSUME NEW s, NEW t, Consistent(t), NEW R, Held(t) \subseteq Held(s) \cup R,
           s.permits \cap Held(t) \subseteq t.permits
    PROVE  ToSet(t.queue) \subseteq ToSet(s.queue) \cup R
<1>1. SUFFICES ASSUME NEW r \in ToSet(t.queue), r \notin R PROVE r \in ToSet(s.queue)
    OBVIOUS
<1>2. r \in Held(t)
    BY DEF Held
<1>3. r \notin t.permits
    BY DEF Consistent, Distinct, ToSet
<1>4. QED
    BY <1>1, <1>2, <1>3 DEF Held

-----------------------------------------------------------------------------
(* Steps that leave the scheduler, the job table and the segments alone. *)

\* The requests of other collections that wait or are granted.
Alien(x) == {h \in Held(x.sched) : h.job < 0}

Keeps(x, y) == Good(y) /\ Alien(y) \subseteq Alien(x)

Same(x, y) ==
    /\ Fields(y) /\ Scoped(y)
    /\ y.sched = x.sched /\ y.jobs = x.jobs /\ y.segs = x.segs /\ y.reserved = x.reserved
    /\ y.frozen = x.frozen /\ y.ckpt = x.ckpt /\ y.visible = x.visible

\* A step that touches none of the invariant's fields keeps it.
LEMMA SameKeeps ==
    ASSUME NEW x, Good(x), NEW y, Same(x, y)
    PROVE  Keeps(x, y)
<1>1. Consistent(y.sched) /\ Pumped(y.sched)
    BY DEF Good, Same
<1>2. Table(y)
    BY DEF Good, Same, Table
<1>3. Matched(y)
    BY DEF Good, Same, Matched
<1>4. Ordered(y)
    BY DEF Good, Same, Ordered
<1>5. Stored(y)
    BY DEF Good, Same, Stored
<1>6. Reserves(y)
  <2>1. Inputs(y) = Inputs(x) /\ OfKind(y, "flush") = OfKind(x, "flush")
      BY DEF Same, Inputs, OfKind
  <2>2. Reserves(x) /\ y.jobs = x.jobs /\ y.segs = x.segs /\ y.reserved = x.reserved /\ y.frozen = x.frozen
      BY DEF Good, Same
  <2>3. QED
      BY <2>1, <2>2 DEF Reserves
<1>7. Alien(y) = Alien(x)
    BY DEF Same, Alien
<1>8. QED
    BY <1>1, <1>2, <1>3, <1>4, <1>5, <1>6, <1>7 DEF Keeps, Good, Same

\* Two such steps make one.
LEMMA SameTwice ==
    ASSUME NEW x, NEW y, NEW z, Same(x, y), Same(y, z)
    PROVE  Same(x, z)
    BY DEF Same

\* Two steps that keep the invariant make one.
LEMMA KeepsTwice ==
    ASSUME NEW x, NEW y, NEW z, Keeps(x, y), Keeps(y, z)
    PROVE  Keeps(x, z)
    BY DEF Keeps

\* A step that changes nothing keeps the invariant.
LEMMA KeepsItself ==
    ASSUME NEW x, Good(x)
    PROVE  Keeps(x, x) /\ Same(x, x)
    BY DEF Keeps, Same, Good

\* Answering clients touches none of those fields.
LEMMA AnswerSame ==
    ASSUME NEW x, Good(x), NEW calls, NEW result
    PROVE  /\ Same(x, Answer(x, calls, result))
           /\ Same(x, [Answer(x, calls, result) EXCEPT !.explicit = NoExplicit])
           /\ \A v : Same(x, [Answer(x, calls, result) EXCEPT !.flushWaiters = v])
<1> DEFINE a == [q \in Calls |-> IF q \in calls THEN result ELSE x.answer[q]]
           y == [x EXCEPT !.answer = a]
<1>1. Answer(x, calls, result) = y
    BY DEF Answer
<1>2. Fields(x) /\ Scoped(x)
    BY DEF Good
<1> HIDE DEF a
<1>3. Same(x, y)
    BY <1>2 DEF Same, Fields, Scoped
<1>4. Scoped([y EXCEPT !.explicit = NoExplicit])
    BY <1>2, FS_EmptySet DEF Fields, Scoped, NoExplicit
<1> DEFINE z == [y EXCEPT !.explicit = NoExplicit]
<1>5. Same(x, z)
  <2>1. /\ z.sched = y.sched /\ z.jobs = y.jobs /\ z.segs = y.segs /\ z.reserved = y.reserved
        /\ z.frozen = y.frozen /\ z.ckpt = y.ckpt /\ z.visible = y.visible /\ Fields(z)
      BY <1>2 DEF Fields
  <2>2. QED
      BY <1>3, <1>4, <2>1 DEF Same
<1>6. ASSUME NEW v PROVE Same(x, [y EXCEPT !.flushWaiters = v])
  <2> DEFINE u == [y EXCEPT !.flushWaiters = v]
  <2>1. /\ u.sched = y.sched /\ u.jobs = y.jobs /\ u.segs = y.segs /\ u.reserved = y.reserved
        /\ u.frozen = y.frozen /\ u.ckpt = y.ckpt /\ u.visible = y.visible /\ Fields(u)
        /\ u.explicit = y.explicit
      BY <1>2 DEF Fields
  <2>2. QED
      BY <1>3, <2>1 DEF Same, Scoped
<1>7. QED
    BY <1>1, <1>3, <1>5, <1>6

\* One field that the invariant does not speak of.
LEMMA FieldSame ==
    ASSUME NEW x, Good(x), NEW v
    PROVE  /\ Same(x, [x EXCEPT !.flushWaiters = v])
           /\ Same(x, [x EXCEPT !.freezePending = v])
           /\ Same(x, [x EXCEPT !.poisoned = v])
           /\ Same(x, [x EXCEPT !.dropped = v])
           /\ Same(x, [x EXCEPT !.armed = v])
           /\ Same(x, [x EXCEPT !.quiet = v])
           /\ Same(x, [x EXCEPT !.retry = v])
<1>1. Fields(x) /\ Scoped(x)
    BY DEF Good
<1>2. QED
    BY <1>1 DEF Same, Fields, Scoped

\* Counting failures touches none of those fields.
LEMMA RetrySame ==
    ASSUME NEW x, Good(x), NEW kind
    PROVE  Same(x, Fail(x, kind)) /\ Same(x, JobSucceeded(x, kind))
<1>1. Fields(x) /\ Scoped(x)
    BY DEF Good
<1>2. Same(x, Fail(x, kind))
    BY <1>1 DEF Same, Fields, Scoped, Fail
<1>3. Same(x, JobSucceeded(x, kind))
    BY <1>1 DEF Same, Fields, Scoped, JobSucceeded
<1>4. QED
    BY <1>2, <1>3

\* Refusing explicit requests touches none of those fields.
LEMMA FailWaitersSame ==
    ASSUME NEW x, Good(x)
    PROVE  Same(x, FailFlushWaiters(x)) /\ Same(x, FailExplicit(x))
<1>1. Same(x, FailFlushWaiters(x))
    BY AnswerSame, KeepsItself DEF FailFlushWaiters
<1>2. Same(x, FailExplicit(x))
    BY AnswerSame, KeepsItself DEF FailExplicit
<1>3. QED
    BY <1>1, <1>2

\* Settling flushes touches none of those fields.
LEMMA SettleFlushesSame ==
    ASSUME NEW x, Good(x), NEW waiters, NEW failed
    PROVE  Same(x, SettleFlushes(x, waiters, failed))
<1> DEFINE covered == {f \in waiters : f[2] <= x.ckpt}
           y == Answer(x, {f[1] : f \in covered}, "ok")
<1>1. Same(x, y) /\ Good(y)
    BY AnswerSame, SameKeeps DEF Keeps
<1>2. \A c : Same(x, Answer(x, c, "failed"))
    BY AnswerSame
<1>3. \A c : Same(y, Answer(y, c, "failed"))
    BY <1>1, AnswerSame
<1>4. \A v : Same(y, [y EXCEPT !.flushWaiters = v])
    BY <1>1, FieldSame
<1> HIDE DEF y, covered
<1>5. \A c : Same(x, Answer(y, c, "failed"))
    BY <1>1, <1>3, SameTwice
<1>6. \A v : Same(x, [y EXCEPT !.flushWaiters = v])
    BY <1>1, <1>4, SameTwice
<1>7. SettleFlushes(x, waiters, failed) =
        IF failed THEN Answer(x, {f[1] : f \in waiters}, "failed")
        ELSE IF Refused(x) THEN Answer(y, {f[1] : f \in waiters \ covered}, "failed")
        ELSE [y EXCEPT !.flushWaiters = @ \cup (waiters \ covered)]
    BY DEF SettleFlushes, y, covered
<1>8. QED
    BY <1>2, <1>5, <1>6, <1>7

\* Settling an explicit compaction keeps its scope a finite set of units.
LEMMA SettleExplicitSame ==
    ASSUME NEW x, Good(x), NEW entry, NEW outcome, NEW output \in Nat
    PROVE  Same(x, SettleExplicit(x, entry, outcome, output))
<1> DEFINE v == (x.explicit.scope \ entry.inputs) \cup {output}
           y == [x EXCEPT !.explicit.scope = v]
<1>1. Fields(x) /\ Scoped(x)
    BY DEF Good
<1>2. v \in SUBSET Nat /\ IsFiniteSet(v)
  <2>1. x.explicit.scope \in SUBSET Nat /\ IsFiniteSet(x.explicit.scope)
      BY <1>1 DEF Scoped
  <2>2. IsFiniteSet(x.explicit.scope \ entry.inputs)
      BY <2>1, FS_Difference
  <2>3. QED
      BY <2>1, <2>2, FS_AddElement
<1> HIDE DEF v
<1>3. Same(x, y)
  <2>1. /\ Fields(y) /\ y.sched = x.sched /\ y.jobs = x.jobs /\ y.segs = x.segs
        /\ y.reserved = x.reserved /\ y.frozen = x.frozen /\ y.ckpt = x.ckpt /\ y.visible = x.visible
      BY <1>1 DEF Fields
  <2>2. DOMAIN y.explicit = DOMAIN x.explicit /\ y.explicit.scope = v
      BY <1>1 DEF Fields, Scoped
  <2> HIDE DEF y
  <2>3. Scoped(y)
      BY <1>1, <1>2, <2>2 DEF Scoped
  <2>4. QED
      BY <2>1, <2>3 DEF Same
<1>4. Same(x, [Answer(x, x.explicit.waiters, "failed") EXCEPT !.explicit = NoExplicit])
    BY AnswerSame
<1>5. Same(x, x)
    BY KeepsItself
<1>6. QED
    BY <1>3, <1>4, <1>5 DEF SettleExplicit, v, y

-----------------------------------------------------------------------------
(* Asking for permits and taking requests back. *)

\* The id of a new job is in no table, queue or permit.
LEMMA FreshJobIs ==
    ASSUME NEW x, Good(x)
    PROVE  /\ FreshJob(x) \in Units /\ FreshJob(x) \notin DOMAIN x.jobs
           /\ \A h \in Held(x.sched) : h.job # FreshJob(x)
<1> DEFINE D == DOMAIN x.jobs
           P == x.sched.permits
           names == {p.job : p \in P}
           n == Cardinality(D) + Cardinality(P)
<1>1. IsFiniteSet(D) /\ IsFiniteSet(P)
    BY DEF Good, Table, Consistent, Counted
<1>2. IsFiniteSet(names) /\ Cardinality(names) <= Cardinality(P)
  <2> DEFINE f == [p \in P |-> p.job]
  <2>1. f \in Surjection(P, names)
      BY DEF Surjection
  <2>2. QED
      BY <1>1, <2>1, FS_Surjection
<1>3. Cardinality(D) \in Nat /\ Cardinality(P) \in Nat /\ Cardinality(names) \in Nat
    BY <1>1, <1>2, FS_CardinalityType
<1> HIDE DEF names, D, P
<1>4. \E j \in 1..(n + 1) : j \notin D /\ j \notin names
  <2>1. SUFFICES ASSUME 1..(n + 1) \subseteq D \cup names PROVE FALSE
      OBVIOUS
  <2>2. IsFiniteSet(D \cup names) /\ Cardinality(D \cup names) <= n
    <3>1. Cardinality(D \cap names) \in Nat
        BY <1>1, FS_Intersection, FS_CardinalityType
    <3>2. QED
        BY <1>1, <1>2, <1>3, <3>1, FS_Union
  <2>3. Cardinality(1..(n + 1)) = n + 1
    <3>1. n \in Nat
        BY <1>3
    <3> HIDE DEF n
    <3>2. 1 \in Int /\ n + 1 \in Int /\ ~(1 > n + 1) /\ (n + 1) - 1 + 1 = n + 1
        BY <3>1
    <3>3. QED
        BY <3>2, FS_Interval
  <2>4. Cardinality(1..(n + 1)) <= Cardinality(D \cup names)
      BY <2>1, <2>2, FS_Subset
  <2>5. Cardinality(D \cup names) \in Nat /\ n \in Nat
      BY <1>3, <2>2, FS_CardinalityType
  <2>6. QED
      BY <2>2, <2>3, <2>4, <2>5
<1>5. \E j \in 1..(n + 1) : j \notin D /\ \A p \in P : p.job # j
    BY <1>4 DEF names
<1>6. FreshJob(x) = CHOOSE j \in 1..(n + 1) : j \notin D /\ \A p \in P : p.job # j
    BY DEF FreshJob, D, P
<1> DEFINE id == FreshJob(x)
<1> HIDE DEF n
<1>7. id \in 1..(n + 1) /\ id \notin D /\ \A p \in P : p.job # id
    BY <1>5, <1>6
<1> HIDE DEF id
<1>8. id \in Units
    BY <1>7 DEF Units
<1>9. \A r \in ToSet(x.sched.queue) : r.job # id
    BY <1>7, <1>8 DEF Good, Matched, D, Units
<1>10. QED
    BY <1>7, <1>8, <1>9 DEF Held, id, D, P

\* What a job may ask for: segments that are free, or one to index that is.
Askable(x, kind, bytes, inputs, target) ==
    /\ kind \in Kinds /\ bytes \in Nat /\ ~Declined(kind, bytes)
    /\ inputs \in SUBSET DOMAIN x.segs /\ inputs \cap x.reserved = {}
    /\ target \in Nat /\ target \notin x.reserved
    /\ target # 0 => inputs = {}
    /\ kind = "flush" => OfKind(x, "flush") = {}

\* A job that may be asked for gets a fresh id and reserves its inputs.
LEMMA RequestJobIs ==
    ASSUME NEW x, Good(x), NEW kind, NEW bytes, NEW inputs, NEW target,
           Askable(x, kind, bytes, inputs, target), NEW explicit
    PROVE  LET y == RequestJob(x, kind, bytes, inputs, target, explicit)
           IN /\ Keeps(x, y) /\ y.segs = x.segs /\ y.reserved = x.reserved \cup inputs
<1> DEFINE id == FreshJob(x)
           r == [job |-> id, kind |-> kind, bytes |-> bytes]
           asked == Request(x.sched, r)
           doomed == {j \in DOMAIN x.jobs : x.jobs[j].target \in inputs}
           waiting == doomed \ Running(x)
           left == [j \in DOMAIN x.jobs \ waiting |->
                      IF j \in doomed THEN [x.jobs[j] EXCEPT !.cancelled = TRUE] ELSE x.jobs[j]]
           entry == [kind |-> kind, inputs |-> inputs, target |-> target, explicit |-> explicit,
                     running |-> FALSE, cancelled |-> FALSE, unit |-> 0]
           sched == CancelAll(asked, waiting)
           y == RequestJob(x, kind, bytes, inputs, target, explicit)
<1>1. /\ Fields(x) /\ Consistent(x.sched) /\ Pumped(x.sched) /\ Table(x) /\ Matched(x) /\ Ordered(x)
      /\ Stored(x) /\ Reserves(x) /\ Scoped(x)
    BY DEF Good
<1>2. /\ kind \in Kinds /\ bytes \in Nat /\ ~Declined(kind, bytes)
      /\ inputs \in SUBSET DOMAIN x.segs /\ inputs \cap x.reserved = {}
      /\ target \in Nat /\ target \notin x.reserved /\ (target # 0 => inputs = {})
      /\ (kind = "flush" => OfKind(x, "flush") = {})
    BY DEF Askable
<1>3. id \in Units /\ id \notin DOMAIN x.jobs /\ \A h \in Held(x.sched) : h.job # id
    BY FreshJobIs
<1>4. inputs \in SUBSET Units
    BY <1>1, <1>2 DEF Stored
<1>5. /\ y.sched = sched /\ y.jobs = Put(left, id, entry) /\ y.reserved = x.reserved \cup inputs
      /\ y.segs = x.segs /\ y.frozen = x.frozen /\ y.ckpt = x.ckpt /\ y.visible = x.visible
      /\ y.explicit = x.explicit /\ Fields(y)
  <2> DEFINE a == [x EXCEPT !.sched = asked]
             f == CancelIndexing(a, inputs)
  <2>1. /\ a.sched = asked /\ a.jobs = x.jobs /\ a.reserved = x.reserved
        /\ a.segs = x.segs /\ a.frozen = x.frozen /\ a.ckpt = x.ckpt /\ a.visible = x.visible
        /\ a.explicit = x.explicit /\ Fields(a)
      BY <1>1 DEF Fields
  <2>2. a = [x EXCEPT !.sched = Request(@, [job |-> FreshJob(x), kind |-> kind, bytes |-> bytes])]
      OBVIOUS
  <2>3. y = [f EXCEPT !.reserved = @ \cup inputs, !.jobs = Put(@, id, entry)]
      BY <2>2 DEF RequestJob
  <2> HIDE DEF a, asked, y, entry, id
  <2>4. Running(a) = Running(x)
      BY <2>1 DEF Running
  <2>5. /\ f.sched = sched /\ f.jobs = left /\ f.reserved = x.reserved
        /\ f.segs = x.segs /\ f.frozen = x.frozen /\ f.ckpt = x.ckpt /\ f.visible = x.visible
        /\ f.explicit = x.explicit /\ Fields(f)
      BY <2>1, <2>4 DEF Fields, CancelIndexing
  <2> HIDE DEF f, sched, left
  <2>6. QED
      BY <2>3, <2>5 DEF Fields
<1> HIDE DEF y, id
<1>6. /\ Consistent(asked) /\ Pumped(asked)
      /\ Held(asked) = Held(x.sched) \cup {r} /\ x.sched.permits \subseteq asked.permits
  <2>1. r \in Requests
      BY <1>2, <1>3 DEF Requests, Kinds, Units
  <2>2. ~Declined(r.kind, r.bytes) /\ \A h \in Held(x.sched) : h.job # r.job
      BY <1>2, <1>3
  <2> HIDE DEF r
  <2>3. QED
      BY <1>1, <2>1, <2>2, RequestIs
<1>7. IsFiniteSet(waiting) /\ waiting \in SUBSET DOMAIN x.jobs
  <2>1. waiting \in SUBSET DOMAIN x.jobs /\ IsFiniteSet(DOMAIN x.jobs)
      BY <1>1 DEF Table
  <2>2. QED
      BY <2>1, FS_Subset
<1> HIDE DEF asked
<1>8. /\ Consistent(sched) /\ Pumped(sched) /\ sched.permits = asked.permits
      /\ ToSet(sched.queue) = {q \in ToSet(asked.queue) : q.job \notin waiting}
    BY <1>6, <1>7, CancelAllIs
<1> HIDE DEF sched, entry, left
<1>9. ToSet(asked.queue) \subseteq ToSet(x.sched.queue) \cup {r}
    BY <1>6, StillWaiting
<1>10. r.job = id
    OBVIOUS
<1> HIDE DEF r
<1>11. Alien(y) \subseteq Alien(x)
  <2>1. Held(sched) \subseteq Held(x.sched) \cup {r}
      BY <1>6, <1>8 DEF Held
  <2>2. ~(r.job < 0)
      BY <1>3, <1>10 DEF Units
  <2>3. QED
      BY <1>5, <2>1, <2>2 DEF Alien
<1> DEFINE jobs == Put(left, id, entry)
<1>12. DOMAIN jobs = (DOMAIN x.jobs \ waiting) \cup {id} /\ jobs[id] = entry
       /\ \A j \in DOMAIN x.jobs \ waiting :
             jobs[j] = IF j \in doomed THEN [x.jobs[j] EXCEPT !.cancelled = TRUE] ELSE x.jobs[j]
    BY <1>3 DEF Put, left
<1> HIDE DEF jobs
<1>13. /\ IsEntry(entry) /\ entry.kind = kind /\ entry.inputs = inputs /\ entry.target = target
       /\ entry.running = FALSE
    BY <1>2, <1>4 DEF IsEntry, entry
<1>14. ASSUME NEW j \in DOMAIN x.jobs \ waiting
       PROVE  /\ IsEntry(jobs[j]) /\ jobs[j].kind = x.jobs[j].kind /\ jobs[j].inputs = x.jobs[j].inputs
              /\ jobs[j].target = x.jobs[j].target /\ jobs[j].running = x.jobs[j].running
              /\ x.jobs[j].target \in inputs => jobs[j].cancelled
              /\ x.jobs[j].cancelled => jobs[j].cancelled
  <2>1. IsEntry(x.jobs[j])
      BY <1>1 DEF Table
  <2> DEFINE e == x.jobs[j]
             c == [e EXCEPT !.cancelled = TRUE]
  <2>2. jobs[j] = IF j \in doomed THEN c ELSE e
      BY <1>12
  <2> HIDE DEF e
  <2>3. /\ c.kind = e.kind /\ c.inputs = e.inputs /\ c.target = e.target /\ c.running = e.running
        /\ c.unit = e.unit /\ c.cancelled = TRUE /\ DOMAIN c = DOMAIN e
      BY <2>1 DEF e, IsEntry
  <2> HIDE DEF c
  <2>4. IsEntry(c)
      BY <2>1, <2>3 DEF e, IsEntry
  <2>5. j \in doomed <=> e.target \in inputs
      BY DEF e
  <2> HIDE DEF doomed
  <2>6. QED
      BY <2>1, <2>2, <2>3, <2>4, <2>5 DEF e
<1>15. Table(y)
  <2>1. IsFiniteSet(DOMAIN x.jobs \ waiting)
      BY <1>1, FS_Difference DEF Table
  <2>2. IsFiniteSet(DOMAIN jobs) /\ DOMAIN jobs \in SUBSET Units
    <3>1. IsFiniteSet((DOMAIN x.jobs \ waiting) \cup {id})
        BY <2>1, FS_AddElement
    <3>2. DOMAIN x.jobs \in SUBSET Units
        BY <1>1 DEF Table
    <3>3. QED
        BY <1>3, <1>12, <3>1, <3>2
  <2>3. \A j \in DOMAIN jobs : IsEntry(jobs[j])
      BY <1>12, <1>13, <1>14
  <2>4. QED
      BY <1>5, <2>2, <2>3 DEF Table, jobs
<1>16. Matched(y)
  <2>1. ASSUME NEW q \in ToSet(sched.queue), q.job > 0 PROVE q.job \in DOMAIN jobs
      BY <1>1, <1>8, <1>9, <1>10, <1>12, <2>1 DEF Matched
  <2>2. ASSUME NEW j \in DOMAIN jobs, jobs[j].running PROVE \E p \in sched.permits : p.job = j
      BY <1>1, <1>6, <1>8, <1>12, <1>13, <1>14, <2>2 DEF Matched
  <2>3. QED
      BY <1>5, <2>1, <2>2 DEF Matched, jobs
<1>17. Ordered(y) /\ Stored(y) /\ Scoped(y)
    BY <1>1, <1>5 DEF Ordered, Stored, Scoped
<1>18. Inputs(y) = Inputs(x) \cup inputs
  <2>1. \A j \in waiting : x.jobs[j].inputs = {}
    <3>1. \A j \in waiting : IsEntry(x.jobs[j]) /\ x.jobs[j].target \in Units
        BY <1>1, <1>4, <1>7 DEF Table
    <3>2. QED
        BY <3>1 DEF IsEntry, Units
  <2>2. Inputs(y) = UNION {jobs[j].inputs : j \in DOMAIN jobs}
      BY <1>5 DEF Inputs, jobs
  <2>3. Inputs(y) \subseteq Inputs(x) \cup inputs
      BY <1>12, <1>13, <1>14, <2>2 DEF Inputs
  <2>4. inputs \subseteq Inputs(y)
      BY <1>12, <1>13, <2>2
  <2>5. ASSUME NEW j \in DOMAIN x.jobs PROVE x.jobs[j].inputs \subseteq Inputs(y)
    <3>1. CASE j \in waiting
        BY <2>1, <3>1
    <3>2. CASE j \notin waiting
        BY <1>12, <1>14, <2>2, <3>2
    <3>3. QED
        BY <3>1, <3>2
  <2>6. QED
      BY <2>3, <2>4, <2>5 DEF Inputs
<1>19. Reserves(y)
  <2>1. /\ x.reserved = Inputs(x) /\ Inputs(x) \subseteq DOMAIN x.segs
        /\ \A i, j \in DOMAIN x.jobs : i # j => x.jobs[i].inputs \cap x.jobs[j].inputs = {}
        /\ \A j \in DOMAIN x.jobs : x.jobs[j].target \in Inputs(x) => x.jobs[j].cancelled
        /\ \A i, j \in OfKind(x, "flush") : i = j
        /\ \A j \in OfKind(x, "flush") : x.jobs[j].running => x.frozen # <<>>
      BY <1>1 DEF Reserves
  <2>2. y.reserved = Inputs(y) /\ Inputs(y) \subseteq DOMAIN y.segs
      BY <1>2, <1>5, <1>18, <2>1
  <2>3. ASSUME NEW i \in DOMAIN jobs, NEW j \in DOMAIN jobs, i # j
        PROVE  jobs[i].inputs \cap jobs[j].inputs = {}
    <3>1. \A k \in DOMAIN x.jobs : x.jobs[k].inputs \cap inputs = {}
        BY <1>2, <2>1 DEF Inputs
    <3>2. QED
        BY <1>12, <1>13, <1>14, <2>1, <2>3, <3>1
  <2>4. ASSUME NEW j \in DOMAIN jobs, jobs[j].target \in Inputs(y) PROVE jobs[j].cancelled
    <3>1. CASE j = id
      <4>1. target \in inputs
          BY <1>2, <1>12, <1>13, <1>18, <2>1, <2>4, <3>1
      <4>2. target # 0
          BY <1>4, <4>1 DEF Units
      <4>3. QED
          BY <1>2, <4>1, <4>2
    <3>2. CASE j # id
        BY <1>12, <1>14, <1>18, <2>1, <2>4, <3>2
    <3>3. QED
        BY <3>1, <3>2
  <2>5. OfKind(y, "flush") = {j \in DOMAIN jobs : jobs[j].kind = "flush"}
      BY <1>5 DEF OfKind, jobs
  <2>6. \A i, j \in OfKind(y, "flush") : i = j
      BY <1>2, <1>12, <1>13, <1>14, <2>1, <2>5 DEF OfKind
  <2>7. \A j \in OfKind(y, "flush") : jobs[j].running => y.frozen # <<>>
      BY <1>5, <1>12, <1>13, <1>14, <2>1, <2>5 DEF OfKind
  <2>8. QED
      BY <1>5, <2>2, <2>3, <2>4, <2>6, <2>7 DEF Reserves, jobs
<1>20. QED
    BY <1>5, <1>8, <1>11, <1>15, <1>16, <1>17, <1>19 DEF Keeps, Good, y

\* Jobs that run go on as they are, none begins, and still only compactions have inputs.
OnlyCompact(x) == \A j \in DOMAIN x.jobs : x.jobs[j].inputs # {} => x.jobs[j].kind = "compact"

GoOn(x, y) ==
    /\ \A j \in DOMAIN y.jobs : y.jobs[j].running =>
          /\ j \in DOMAIN x.jobs /\ x.jobs[j].running
          /\ y.jobs[j].unit = x.jobs[j].unit /\ y.jobs[j].inputs = x.jobs[j].inputs
    /\ OnlyCompact(x) => OnlyCompact(y)

\* A step of the job table that nobody is told of.
Silent(x, y) ==
    /\ GoOn(x, y) /\ y.segs = x.segs /\ y.ckpt = x.ckpt
    /\ y.answer = x.answer /\ y.flushWaiters = x.flushWaiters /\ y.explicit = x.explicit

\* Two such steps make one.
LEMMA SilentTwice ==
    ASSUME NEW x, NEW y, NEW z, Silent(x, y), Silent(y, z)
    PROVE  Silent(x, z)
    BY DEF Silent, GoOn

\* Neither does nothing, nor counting failures.
LEMMA SilentItself ==
    ASSUME NEW x
    PROVE  Silent(x, x)
    BY DEF Silent, GoOn

LEMMA RetrySilent ==
    ASSUME NEW x, Good(x), NEW kind
    PROVE  Silent(x, Fail(x, kind)) /\ Silent(x, JobSucceeded(x, kind))
<1>1. Fields(x)
    BY DEF Good
<1>2. /\ Fail(x, kind).jobs = x.jobs /\ Fail(x, kind).segs = x.segs /\ Fail(x, kind).ckpt = x.ckpt
      /\ Fail(x, kind).answer = x.answer /\ Fail(x, kind).flushWaiters = x.flushWaiters
      /\ Fail(x, kind).explicit = x.explicit
    BY <1>1 DEF Fields, Fail
<1>3. LET y == JobSucceeded(x, kind)
      IN /\ y.jobs = x.jobs /\ y.segs = x.segs /\ y.ckpt = x.ckpt /\ y.answer = x.answer
         /\ y.flushWaiters = x.flushWaiters /\ y.explicit = x.explicit
    BY <1>1 DEF Fields, JobSucceeded
<1>4. QED
    BY <1>2, <1>3 DEF Silent, GoOn, OnlyCompact

\* A table whose entries are old ones, but for what is cancelled, goes on.
LEMMA FewerGoOn ==
    ASSUME NEW x, Good(x), NEW y, DOMAIN y.jobs \subseteq DOMAIN x.jobs,
           \A j \in DOMAIN y.jobs :
              y.jobs[j] \in {x.jobs[j], [x.jobs[j] EXCEPT !.cancelled = TRUE]}
    PROVE  GoOn(x, y)
<1>1. ASSUME NEW j \in DOMAIN y.jobs
      PROVE  /\ j \in DOMAIN x.jobs /\ y.jobs[j].running = x.jobs[j].running
             /\ y.jobs[j].unit = x.jobs[j].unit /\ y.jobs[j].inputs = x.jobs[j].inputs
             /\ y.jobs[j].kind = x.jobs[j].kind
  <2> DEFINE e == x.jobs[j]
             c == [e EXCEPT !.cancelled = TRUE]
  <2>1. IsEntry(e) /\ j \in DOMAIN x.jobs
      BY DEF Good, Table
  <2>2. y.jobs[j] = c \/ y.jobs[j] = e
      OBVIOUS
  <2> HIDE DEF e
  <2>3. /\ c.kind = e.kind /\ c.inputs = e.inputs /\ c.running = e.running /\ c.unit = e.unit
      BY <2>1 DEF IsEntry
  <2> HIDE DEF c
  <2>4. QED
      BY <2>1, <2>2, <2>3 DEF e
<1>2. QED
    BY <1>1 DEF GoOn, OnlyCompact

\* Nobody is told of a job that is asked for.
LEMMA RequestSilent ==
    ASSUME NEW x, Good(x), NEW kind, NEW bytes, NEW inputs, NEW target, NEW explicit,
           inputs # {} => kind = "compact"
    PROVE  Silent(x, RequestJob(x, kind, bytes, inputs, target, explicit))
<1> DEFINE id == FreshJob(x)
           asked == Request(x.sched, [job |-> id, kind |-> kind, bytes |-> bytes])
           doomed == {j \in DOMAIN x.jobs : x.jobs[j].target \in inputs}
           waiting == doomed \ Running(x)
           left == [j \in DOMAIN x.jobs \ waiting |->
                      IF j \in doomed THEN [x.jobs[j] EXCEPT !.cancelled = TRUE] ELSE x.jobs[j]]
           entry == [kind |-> kind, inputs |-> inputs, target |-> target, explicit |-> explicit,
                     running |-> FALSE, cancelled |-> FALSE, unit |-> 0]
           y == RequestJob(x, kind, bytes, inputs, target, explicit)
           a == [x EXCEPT !.sched = asked]
           f == CancelIndexing(a, inputs)
<1>1. Fields(x)
    BY DEF Good
<1>2. /\ a.jobs = x.jobs /\ a.segs = x.segs /\ a.ckpt = x.ckpt /\ a.answer = x.answer
      /\ a.flushWaiters = x.flushWaiters /\ a.explicit = x.explicit /\ Fields(a)
    BY <1>1 DEF Fields
<1>3. y = [f EXCEPT !.reserved = @ \cup inputs, !.jobs = Put(@, id, entry)]
    BY DEF RequestJob
<1> HIDE DEF a, asked, y, entry, id
<1>4. Running(a) = Running(x)
    BY <1>2 DEF Running
<1>5. /\ f.jobs = left /\ f.segs = x.segs /\ f.ckpt = x.ckpt /\ f.answer = x.answer
      /\ f.flushWaiters = x.flushWaiters /\ f.explicit = x.explicit /\ Fields(f)
    BY <1>2, <1>4 DEF Fields, CancelIndexing
<1> HIDE DEF f
<1>6. GoOn(x, f)
  <2>1. \A j \in DOMAIN f.jobs : f.jobs[j] \in {x.jobs[j], [x.jobs[j] EXCEPT !.cancelled = TRUE]}
      BY <1>5
  <2>2. DOMAIN f.jobs \subseteq DOMAIN x.jobs
      BY <1>5
  <2>3. QED
      BY <2>1, <2>2, FewerGoOn
<1> HIDE DEF left
<1>7. /\ y.jobs = Put(f.jobs, id, entry) /\ y.segs = x.segs /\ y.ckpt = x.ckpt /\ y.answer = x.answer
      /\ y.flushWaiters = x.flushWaiters /\ y.explicit = x.explicit
    BY <1>3, <1>5 DEF Fields
<1>8. ~entry.running /\ entry.inputs = inputs /\ entry.kind = kind
    BY DEF entry
<1> HIDE DEF y
<1>9. GoOn(x, y)
  <2>1. DOMAIN y.jobs = DOMAIN f.jobs \cup {id} /\ y.jobs[id] = entry
        /\ \A j \in DOMAIN f.jobs : j # id => y.jobs[j] = f.jobs[j]
      BY <1>7 DEF Put
  <2>2. QED
      BY <1>6, <1>8, <2>1 DEF GoOn, OnlyCompact
<1>10. QED
    BY <1>7, <1>9 DEF Silent, y

\* Flagging running index builds keeps every job where it is.
LEMMA CancelRunningIndexesIs ==
    ASSUME NEW x, Good(x)
    PROVE  Keeps(x, CancelRunningIndexes(x)) /\ Running(CancelRunningIndexes(x)) = Running(x)
<1> DEFINE y == CancelRunningIndexes(x)
           jobs == [j \in DOMAIN x.jobs |->
                      IF x.jobs[j].running /\ x.jobs[j].kind = "index"
                      THEN [x.jobs[j] EXCEPT !.cancelled = TRUE] ELSE x.jobs[j]]
<1>1. /\ Fields(x) /\ Consistent(x.sched) /\ Pumped(x.sched) /\ Table(x) /\ Matched(x) /\ Ordered(x)
      /\ Stored(x) /\ Reserves(x) /\ Scoped(x)
    BY DEF Good
<1>2. /\ y.sched = x.sched /\ y.jobs = jobs /\ y.reserved = x.reserved
      /\ y.segs = x.segs /\ y.frozen = x.frozen /\ y.ckpt = x.ckpt /\ y.visible = x.visible
      /\ y.explicit = x.explicit /\ Fields(y)
    BY <1>1 DEF Fields, CancelRunningIndexes
<1>3. ASSUME NEW j \in DOMAIN x.jobs
      PROVE  /\ IsEntry(jobs[j]) /\ jobs[j].kind = x.jobs[j].kind /\ jobs[j].inputs = x.jobs[j].inputs
             /\ jobs[j].target = x.jobs[j].target /\ jobs[j].running = x.jobs[j].running
             /\ x.jobs[j].cancelled => jobs[j].cancelled
  <2> DEFINE e == x.jobs[j]
             c == [e EXCEPT !.cancelled = TRUE]
  <2>1. IsEntry(e)
      BY <1>1 DEF Table
  <2>2. jobs[j] = c \/ jobs[j] = e
      OBVIOUS
  <2> HIDE DEF e, jobs
  <2>3. /\ c.kind = e.kind /\ c.inputs = e.inputs /\ c.target = e.target /\ c.running = e.running
        /\ c.unit = e.unit /\ c.cancelled = TRUE /\ DOMAIN c = DOMAIN e
      BY <2>1 DEF IsEntry
  <2> HIDE DEF c
  <2>4. IsEntry(c)
      BY <2>1, <2>3 DEF IsEntry
  <2>5. QED
      BY <2>1, <2>2, <2>3, <2>4 DEF e
<1>4. DOMAIN jobs = DOMAIN x.jobs
    OBVIOUS
<1> HIDE DEF jobs, y
<1>5. Table(y)
    BY <1>1, <1>2, <1>3, <1>4 DEF Table
<1>6. Matched(y)
    BY <1>1, <1>2, <1>3, <1>4 DEF Matched
<1>7. Ordered(y) /\ Stored(y) /\ Scoped(y)
    BY <1>1, <1>2 DEF Ordered, Stored, Scoped
<1>8. Inputs(y) = Inputs(x)
    BY <1>2, <1>3, <1>4 DEF Inputs
<1>9. OfKind(y, "flush") = OfKind(x, "flush") /\ Running(y) = Running(x)
    BY <1>2, <1>3, <1>4 DEF OfKind, Running
<1>10. Reserves(y)
  <2>1. \A j \in OfKind(x, "flush") : j \in DOMAIN x.jobs
      BY DEF OfKind
  <2>2. \A j \in DOMAIN y.jobs : y.jobs[j].target \in Inputs(y) => y.jobs[j].cancelled
      BY <1>1, <1>2, <1>3, <1>4, <1>8 DEF Reserves
  <2>3. \A i, j \in DOMAIN y.jobs : i # j => y.jobs[i].inputs \cap y.jobs[j].inputs = {}
      BY <1>1, <1>2, <1>3, <1>4 DEF Reserves
  <2>4. \A j \in OfKind(y, "flush") : y.jobs[j].running => y.frozen # <<>>
      BY <1>1, <1>2, <1>3, <1>4, <1>9, <2>1 DEF Reserves
  <2>5. QED
      BY <1>1, <1>2, <1>8, <1>9, <2>2, <2>3, <2>4 DEF Reserves
<1>11. Alien(y) = Alien(x)
    BY <1>2 DEF Alien
<1>12. QED
    BY <1>1, <1>2, <1>5, <1>6, <1>7, <1>9, <1>10, <1>11 DEF Keeps, Good, y

\* What some of the jobs reserve.
InputsOf(x, jobs) == UNION {x.jobs[j].inputs : j \in jobs}

\* A table of jobs that is a part of the one before, with what only those jobs reserve.
LEMMA Narrowed ==
    ASSUME NEW x, Good(x), NEW rest \in SUBSET DOMAIN x.jobs, NEW y, Fields(y), Scoped(y),
           y.jobs = Restrict(x.jobs, rest),
           y.reserved = x.reserved \ InputsOf(x, DOMAIN x.jobs \ rest),
           y.segs = x.segs, y.frozen = x.frozen
    PROVE  Table(y) /\ Reserves(y) /\ OfKind(y, "flush") = OfKind(x, "flush") \cap rest
           /\ Running(y) = Running(x) \cap rest /\ Inputs(y) = InputsOf(x, rest)
<1>1. /\ x.reserved = Inputs(x) /\ Inputs(x) \subseteq DOMAIN x.segs
      /\ \A i, j \in DOMAIN x.jobs : i # j => x.jobs[i].inputs \cap x.jobs[j].inputs = {}
      /\ \A j \in DOMAIN x.jobs : x.jobs[j].target \in Inputs(x) => x.jobs[j].cancelled
      /\ \A i, j \in OfKind(x, "flush") : i = j
      /\ \A j \in OfKind(x, "flush") : x.jobs[j].running => x.frozen # <<>>
    BY DEF Good, Reserves
<1>2. Table(x)
    BY DEF Good
<1>3. DOMAIN y.jobs = rest /\ \A j \in rest : y.jobs[j] = x.jobs[j]
    BY DEF Restrict
<1>4. Table(y)
  <2>1. IsFiniteSet(rest)
      BY <1>2, FS_Subset DEF Table
  <2>2. QED
      BY <1>2, <1>3, <2>1 DEF Table
<1>5. Inputs(y) = InputsOf(x, rest)
    BY <1>3 DEF Inputs, InputsOf
<1>6. OfKind(y, "flush") = OfKind(x, "flush") \cap rest /\ Running(y) = Running(x) \cap rest
    BY <1>3 DEF OfKind, Running
<1>7. y.reserved = Inputs(y)
  <2>1. \A u \in x.reserved \ y.reserved : u \notin Inputs(y)
      BY <1>1, <1>5 DEF InputsOf
  <2>2. Inputs(y) \subseteq x.reserved
      BY <1>1, <1>5 DEF Inputs, InputsOf
  <2>3. y.reserved \subseteq Inputs(y)
      BY <1>1, <1>5 DEF Inputs, InputsOf
  <2>4. y.reserved \subseteq x.reserved
      OBVIOUS
  <2>5. QED
      BY <2>1, <2>2, <2>3, <2>4
<1>8. Inputs(y) \subseteq Inputs(x)
    BY <1>5 DEF Inputs, InputsOf
<1>9. Reserves(y)
  <2>1. \A j \in DOMAIN y.jobs : y.jobs[j].target \in Inputs(y) => y.jobs[j].cancelled
      BY <1>1, <1>3, <1>8
  <2>2. \A i, j \in DOMAIN y.jobs : i # j => y.jobs[i].inputs \cap y.jobs[j].inputs = {}
      BY <1>1, <1>3
  <2>3. \A j \in OfKind(y, "flush") : y.jobs[j].running => y.frozen # <<>>
      BY <1>1, <1>3, <1>6
  <2>4. QED
      BY <1>1, <1>6, <1>7, <1>8, <2>1, <2>2, <2>3 DEF Reserves
<1>10. QED
    BY <1>4, <1>5, <1>6, <1>9

\* Withdrawing the jobs that wait leaves exactly those that run.
LEMMA CancelWaitingJobsIs ==
    ASSUME NEW x, Good(x)
    PROVE  LET y == CancelWaitingJobs(x)
           IN Keeps(x, y) /\ Running(y) = Running(x) /\ DOMAIN y.jobs = Running(x)
<1> DEFINE y == CancelWaitingJobs(x)
           waiting == DOMAIN x.jobs \ Running(x)
           sched == CancelAll(x.sched, waiting)
           gone == InputsOf(x, waiting)
<1>1. /\ Fields(x) /\ Consistent(x.sched) /\ Pumped(x.sched) /\ Table(x) /\ Matched(x) /\ Ordered(x)
      /\ Stored(x) /\ Reserves(x) /\ Scoped(x)
    BY DEF Good
<1>2. /\ y.sched = sched /\ y.jobs = Restrict(x.jobs, DOMAIN x.jobs \ waiting)
      /\ y.reserved = x.reserved \ gone
      /\ y.segs = x.segs /\ y.frozen = x.frozen /\ y.ckpt = x.ckpt /\ y.visible = x.visible
      /\ y.explicit = x.explicit /\ Fields(y)
  <2> HIDE DEF gone, sched
  <2>1. y = [x EXCEPT !.sched = sched, !.reserved = @ \ gone, !.jobs = Restrict(@, DOMAIN @ \ waiting)]
      BY DEF CancelWaitingJobs, InputsOf, gone, sched
  <2> HIDE DEF y, waiting
  <2>2. QED
      BY <1>1, <2>1 DEF Fields
<1>3. Running(x) \in SUBSET DOMAIN x.jobs /\ DOMAIN x.jobs \ waiting = Running(x)
      /\ DOMAIN x.jobs \ Running(x) = waiting
    BY DEF Running
<1>4. IsFiniteSet(waiting)
    BY <1>1, FS_Difference DEF Table
<1> HIDE DEF y, waiting
<1>5. /\ Consistent(sched) /\ Pumped(sched) /\ sched.permits = x.sched.permits
      /\ ToSet(sched.queue) = {r \in ToSet(x.sched.queue) : r.job \notin waiting}
    BY <1>1, <1>4, CancelAllIs
<1>6. Scoped(y)
    BY <1>1, <1>2 DEF Scoped
<1>7. /\ Table(y) /\ Reserves(y) /\ Running(y) = Running(x) \cap Running(x)
  <2>1. /\ Fields(y) /\ Scoped(y) /\ y.jobs = Restrict(x.jobs, Running(x))
        /\ y.reserved = x.reserved \ InputsOf(x, DOMAIN x.jobs \ Running(x))
        /\ y.segs = x.segs /\ y.frozen = x.frozen
      BY <1>2, <1>3, <1>6
  <2>2. Running(x) \in SUBSET DOMAIN x.jobs
      BY <1>3
  <2>3. QED
      BY <2>1, <2>2, Narrowed
<1> HIDE DEF sched
<1>8. DOMAIN y.jobs = Running(x) /\ \A j \in Running(x) : y.jobs[j] = x.jobs[j]
    BY <1>2, <1>3 DEF Restrict
<1>9. Matched(y)
    BY <1>1, <1>2, <1>3, <1>5, <1>8 DEF Matched
<1>10. Ordered(y) /\ Stored(y)
    BY <1>1, <1>2 DEF Ordered, Stored
<1>11. Alien(y) \subseteq Alien(x)
    BY <1>2, <1>5 DEF Alien, Held
<1>12. QED
    BY <1>2, <1>5, <1>6, <1>7, <1>8, <1>9, <1>10, <1>11 DEF Keeps, Good, y

\* A permit no running job has may be dropped.
LEMMA DropPermitIs ==
    ASSUME NEW x, Good(x), NEW job, job \notin Running(x)
    PROVE  LET y == DropPermit(x, job)
           IN Keeps(x, y) /\ y.jobs = x.jobs /\ ToSet(y.sched.queue) \subseteq ToSet(x.sched.queue)
<1> DEFINE y == DropPermit(x, job)
           P == {p \in x.sched.permits : p.job = job}
           sched == ReleaseAll(x.sched, P)
<1>1. /\ Fields(x) /\ Consistent(x.sched) /\ Pumped(x.sched) /\ Table(x) /\ Matched(x) /\ Ordered(x)
      /\ Stored(x) /\ Reserves(x) /\ Scoped(x)
    BY DEF Good
<1>2. y = [x EXCEPT !.sched = sched]
    BY DEF DropPermit
<1>3. P \in SUBSET x.sched.permits
    OBVIOUS
<1>4. /\ Consistent(sched) /\ Pumped(sched) /\ Held(sched) = Held(x.sched) \ P
      /\ x.sched.permits \ P \subseteq sched.permits
    BY <1>1, <1>3, ReleaseAllIs
<1> HIDE DEF sched, y
<1>5. /\ y.sched = sched /\ y.jobs = x.jobs /\ y.reserved = x.reserved
      /\ y.segs = x.segs /\ y.frozen = x.frozen /\ y.ckpt = x.ckpt /\ y.visible = x.visible
      /\ y.explicit = x.explicit /\ Fields(y)
    BY <1>1, <1>2 DEF Fields
<1>6. ToSet(sched.queue) \subseteq ToSet(x.sched.queue) \cup {}
  <2>1. Held(sched) \subseteq Held(x.sched) \cup {} /\ x.sched.permits \cap Held(sched) \subseteq sched.permits
      BY <1>4
  <2>2. QED
      BY <1>4, <2>1, StillWaiting
<1>7. Matched(y)
  <2>1. \A j \in DOMAIN x.jobs : x.jobs[j].running => j # job
      BY DEF Running
  <2>2. \A j \in DOMAIN x.jobs : x.jobs[j].running => \E p \in sched.permits : p.job = j
      BY <1>1, <1>4, <2>1 DEF Matched
  <2>3. QED
      BY <1>1, <1>5, <1>6, <2>2 DEF Matched
<1>8. Table(y) /\ Ordered(y) /\ Stored(y) /\ Scoped(y)
    BY <1>1, <1>5 DEF Table, Ordered, Stored, Scoped
<1>9. Reserves(y)
  <2>1. Inputs(y) = Inputs(x) /\ OfKind(y, "flush") = OfKind(x, "flush")
      BY <1>5 DEF Inputs, OfKind
  <2>2. QED
      BY <1>1, <1>5, <2>1 DEF Reserves
<1>10. Alien(y) \subseteq Alien(x)
    BY <1>4, <1>5 DEF Alien
<1>11. QED
    BY <1>4, <1>5, <1>6, <1>7, <1>8, <1>9, <1>10 DEF Keeps, Good, y

-----------------------------------------------------------------------------
(* Planning. *)

\* The segments that are in no compaction yet.
Spare(x) == DOMAIN x.segs \ x.reserved

\* Segments and reservations are units, and 0 is none.
LEMMA ReservedUnits ==
    ASSUME NEW x, Good(x)
    PROVE  DOMAIN x.segs \in SUBSET Units /\ x.reserved \in SUBSET Units /\ 0 \notin x.reserved
    BY DEF Good, Reserves, Stored, Units

\* The candidates are the segments, and those that are free are not reserved.
LEMMA CandidatesAre ==
    ASSUME NEW x, Good(x)
    PROVE  /\ Candidates(x) \in SUBSET Candidate /\ Unique(Candidates(x)) /\ IsFiniteSet(Candidates(x))
           /\ \A reserved : UnitsOf(Free(Candidates(x), reserved)) \subseteq DOMAIN x.segs \ reserved
<1> DEFINE c(u) == [unit |-> u, rows |-> x.segs[u].rows, deleted |-> x.segs[u].deleted,
                    len |-> x.segs[u].rows * BytesPerRow]
           f == [u \in DOMAIN x.segs |-> c(u)]
<1>1. Candidates(x) = {c(u) : u \in DOMAIN x.segs}
    BY DEF Candidates
<1>2. \A u \in DOMAIN x.segs : c(u).unit = u
    OBVIOUS
<1>3. \A u \in DOMAIN x.segs : c(u) \in Candidate
  <2>1. ASSUME NEW u \in DOMAIN x.segs
        PROVE  u \in Units /\ x.segs[u].rows \in Nat /\ x.segs[u].deleted \in Nat
      BY DEF Good, Stored, IsSegment
  <2>2. \A u \in DOMAIN x.segs : x.segs[u].rows * BytesPerRow \in Nat
      BY <2>1 DEF BytesPerRow
  <2>3. QED
      BY <2>1, <2>2 DEF Candidate
<1>4. IsFiniteSet(Candidates(x))
  <2>1. f \in Surjection(DOMAIN x.segs, Candidates(x))
      BY <1>1 DEF Surjection
  <2>2. IsFiniteSet(DOMAIN x.segs)
      BY DEF Good, Stored
  <2>3. QED
      BY <2>1, <2>2, FS_Surjection
<1> HIDE DEF c
<1>5. Candidates(x) \in SUBSET Candidate /\ Unique(Candidates(x))
    BY <1>1, <1>2, <1>3 DEF Unique
<1>6. ASSUME NEW reserved
      PROVE  UnitsOf(Free(Candidates(x), reserved)) \subseteq DOMAIN x.segs \ reserved
    BY <1>1, <1>2 DEF UnitsOf, Free
<1>7. QED
    BY <1>4, <1>5, <1>6

\* A flush is asked for only when none is in the table.
LEMMA RequestFlushIs ==
    ASSUME NEW x, Good(x)
    PROVE  Keeps(x, RequestFlush(x))
<1>1. CASE \/ Refused(x) \/ x.frozen = <<>> \/ OfKind(x, "flush") # {}
           \/ (~FlushAllowed(x) /\ x.flushWaiters = {})
    BY <1>1, KeepsItself DEF RequestFlush
<1>2. CASE ~(\/ Refused(x) \/ x.frozen = <<>> \/ OfKind(x, "flush") # {}
             \/ (~FlushAllowed(x) /\ x.flushWaiters = {}))
  <2> DEFINE rows == Head(x.frozen) - x.ckpt
             bytes == FlushBuildBytes(rows, rows * BytesPerRow)
  <2>1. RequestFlush(x) = RequestJob(x, "flush", bytes, {}, 0, FALSE)
      BY <1>2 DEF RequestFlush
  <2>2. rows \in Nat
    <3>1. Ordered(x) /\ x.frozen # <<>>
        BY <1>2 DEF Good
    <3>2. x.frozen \in Seq(Nat) /\ 1 \in DOMAIN x.frozen /\ Head(x.frozen) = x.frozen[1]
        BY <3>1 DEF Ordered
    <3>3. x.ckpt <= x.frozen[1] /\ x.ckpt \in Nat /\ x.frozen[1] \in Nat
        BY <3>1, <3>2 DEF Ordered
    <3>4. QED
        BY <3>2, <3>3
  <2>3. bytes \in Nat
    <3>1. VectorDims \in Nat /\ IndexedScalars \in Nat
        BY PolicyAssumption
    <3>2. IndexBytesPerRow \in Nat
        BY <3>1 DEF IndexBytesPerRow
    <3> HIDE DEF rows
    <3>3. rows * IndexBytesPerRow \in Nat /\ rows * BytesPerRow \in Nat
        BY <2>2, <3>2 DEF BytesPerRow
    <3>4. QED
        BY <3>3 DEF FlushBuildBytes
  <2> HIDE DEF bytes
  <2>4. Askable(x, "flush", bytes, {}, 0)
      BY <1>2, <2>3, ReservedUnits DEF Askable, Kinds, Declined
  <2>5. QED
      BY <2>1, <2>4, RequestJobIs
<1>3. QED
    BY <1>1, <1>2

\* Plans that can be asked for one after the other.
Plannable(x, plans) ==
    /\ plans \in Seq([inputs : SUBSET Spare(x), bytes : Nat, live : Nat])
    /\ Apart(plans)

AskStep(env, i, y) == AskOne(y, env[2][i])
AskKeeps(env, done, y) ==
    /\ Keeps(env[1], y) /\ Silent(env[1], y) /\ y.segs = env[1].segs
    /\ y.reserved = env[1].reserved \cup UNION {env[2][i].inputs : i \in done}
Asking == INSTANCE Folding WITH Step <- AskStep, Pick <- LastRound, Inv <- AskKeeps

\* Plans that share no segment may be asked for one after the other, and nobody is told.
LEMMA AskForIs ==
    ASSUME NEW x, Good(x), NEW plans, Plannable(x, plans)
    PROVE  Keeps(x, AskFor(x, plans)) /\ Silent(x, AskFor(x, plans))
<1> DEFINE N == {n \in 0..Len(plans) : \A i \in 1..n : ~Declined("compact", plans[i].bytes)}
           n == Max(N)
           q == SubSeq(plans, 1, n)
           PlanSet == [inputs : SUBSET Spare(x), bytes : Nat, live : Nat]
           asked == Asking!Fold(<<x, q>>, x, DOMAIN q)
<1>1. plans \in Seq(PlanSet) /\ Len(plans) \in Nat /\ DOMAIN plans = 1..Len(plans)
    BY DEF Plannable
<1>2. AskFor(x, plans) = IF n < Len(plans) THEN Fail(asked, "compact") ELSE asked
  <2> HIDE DEF N
  <2>1. AskFor(x, plans) = IF n < Len(plans) THEN Fail(FoldLeft(AskOne, x, q), "compact") ELSE FoldLeft(AskOne, x, q)
      BY DEF AskFor, N
  <2> HIDE DEF q
  <2>2. FoldLeft(AskOne, x, q) = asked
      BY DEF FoldLeft, MapThenFoldSet, Asking!Fold, Asking!Body, AskStep, LastRound
  <2> HIDE DEF asked
  <2>3. QED
      BY <2>1, <2>2
<1>3. n \in 0..Len(plans) /\ \A i \in 1..n : ~Declined("compact", plans[i].bytes)
  <2>1. N \in SUBSET Nat /\ 0 \in N /\ N \in SUBSET (0..Len(plans))
      BY <1>1
  <2>2. IsFiniteSet(0..Len(plans))
      BY <1>1, FS_Interval
  <2> HIDE DEF N
  <2>3. IsFiniteSet(N)
      BY <2>1, <2>2, FS_Subset
  <2>4. Max(N) \in N
      BY <2>1, <2>3, MaxIs
  <2>5. QED
      BY <2>4 DEF N
<1> HIDE DEF n
<1>4. Len(q) = n /\ DOMAIN q = 1..n /\ \A i \in 1..n : q[i] = plans[i] /\ i \in DOMAIN plans
  <2> HIDE DEF PlanSet
  <2>1. n \in Nat /\ n <= Len(plans) /\ n - 1 + 1 = n
      BY <1>1, <1>3
  <2>2. /\ Len(q) = IF 1 <= n THEN n - 1 + 1 ELSE 0
        /\ \A i \in 1..(n - 1 + 1) : q[i] = plans[1 + i - 1]
        /\ q \in Seq(PlanSet)
      BY <1>1, <2>1, SubSeqProperties
  <2> HIDE DEF q
  <2>3. Len(q) = n
      BY <2>1, <2>2
  <2>4. DOMAIN q = 1..n
      BY <2>1, <2>3
  <2>5. \A i \in 1..n : q[i] = plans[i] /\ i \in DOMAIN plans
      BY <1>1, <2>1, <2>2
  <2>6. QED
      BY <2>3, <2>4, <2>5
<1>5. \A i \in 1..n : q[i].inputs \in SUBSET Spare(x) /\ q[i].bytes \in Nat
                      /\ ~Declined("compact", q[i].bytes)
  <2>1. \A i \in DOMAIN plans : plans[i] \in PlanSet
    <3> HIDE DEF PlanSet
    <3>1. QED
        BY <1>1
  <2>2. \A i \in DOMAIN plans : plans[i].inputs \in SUBSET Spare(x) /\ plans[i].bytes \in Nat
      BY <2>1
  <2>3. QED
      BY <1>3, <1>4, <2>2
<1>6. \A i, j \in 1..n : i # j => q[i].inputs \cap q[j].inputs = {}
    BY <1>4 DEF Plannable, Apart
<1> HIDE DEF q, PlanSet
<1>7. n \in Int
    BY <1>1, <1>3
<1>8. IsFiniteSet(DOMAIN q) /\ \A T \in SUBSET DOMAIN q : T # {} => LastRound(T) \in T
    BY <1>4, <1>7, PositionsAre
<1>9. Asking!IsFiniteSet(DOMAIN q) /\ Asking!Picks(DOMAIN q)
    BY <1>8 DEF IsFiniteSet, Asking!IsFiniteSet, Asking!Picks
<1> DEFINE env == <<x, q>>
<1>10. AskKeeps(env, {}, x)
    BY KeepsItself, SilentItself DEF AskKeeps
<1>11. ASSUME NEW T \in SUBSET DOMAIN q, T # {}, NEW y, AskKeeps(env, T \ {LastRound(T)}, y)
       PROVE  AskKeeps(env, T, AskStep(env, LastRound(T), y))
  <2> DEFINE i == LastRound(T)
             bytes == q[i].bytes
             ins == q[i].inputs
             z == RequestJob(y, "compact", bytes, ins, 0, FALSE)
  <2>1. i \in T /\ i \in 1..n
      BY <1>4, <1>8, <1>11
  <2> HIDE DEF i
  <2>2. /\ Keeps(x, y) /\ y.segs = x.segs
        /\ y.reserved = x.reserved \cup UNION {q[j].inputs : j \in T \ {i}}
      BY <1>11 DEF AskKeeps, i
  <2>3. q[i].inputs \cap y.reserved = {}
    <3>1. \A j \in T \ {i} : q[i].inputs \cap q[j].inputs = {}
        BY <1>4, <1>6, <2>1
    <3>2. QED
        BY <1>5, <2>1, <2>2, <3>1 DEF Spare
  <2>4. Good(y)
      BY <2>2 DEF Keeps
  <2>5. Askable(y, "compact", q[i].bytes, q[i].inputs, 0)
    <3>1. q[i].inputs \in SUBSET DOMAIN y.segs
        BY <1>5, <2>1, <2>2 DEF Spare
    <3>2. 0 \notin y.reserved
        BY <2>4, ReservedUnits
    <3>3. QED
        BY <1>5, <2>1, <2>3, <3>1, <3>2 DEF Askable, Kinds
  <2>6. Keeps(y, z) /\ z.segs = y.segs /\ z.reserved = y.reserved \cup q[i].inputs
    <3>1. Askable(y, "compact", bytes, ins, 0)
        BY <2>5
    <3> HIDE DEF bytes, ins
    <3>2. Keeps(y, z)
        BY <2>4, <3>1, RequestJobIs
    <3>3. \A e : /\ RequestJob(y, "compact", bytes, ins, 0, e).segs = y.segs
                 /\ RequestJob(y, "compact", bytes, ins, 0, e).reserved = y.reserved \cup ins
        BY <2>4, <3>1, RequestJobIs
    <3>4. z.segs = y.segs /\ z.reserved = y.reserved \cup ins
        BY <3>3
    <3> HIDE DEF z
    <3>5. QED
        BY <3>2, <3>3, <3>4 DEF ins
  <2> HIDE DEF z
  <2>7. z.reserved = x.reserved \cup UNION {q[j].inputs : j \in T}
      BY <2>1, <2>2, <2>6
  <2>8. Keeps(x, z) /\ z.segs = x.segs
      BY <2>2, <2>6, KeepsTwice
  <2>9. AskStep(env, i, y) = z
      BY DEF AskStep, AskOne, z
  <2>10. Silent(x, z)
    <3>1. Silent(y, z)
      <4> HIDE DEF bytes, ins
      <4>1. QED
          BY <2>4, RequestSilent DEF z
    <3>2. QED
        BY <1>11, <3>1, SilentTwice DEF AskKeeps
  <2>11. QED
      BY <2>7, <2>8, <2>9, <2>10 DEF AskKeeps, i
<1> HIDE DEF env
<1>12. AskKeeps(env, DOMAIN q, asked)
    BY <1>9, <1>10, <1>11, Asking!FoldRule DEF env
<1> HIDE DEF asked
<1>13. Keeps(x, asked) /\ Silent(x, asked) /\ Good(asked)
    BY <1>12 DEF AskKeeps, Keeps, env
<1>14. Keeps(x, Fail(asked, "compact")) /\ Silent(x, Fail(asked, "compact"))
  <2>1. Keeps(x, Fail(asked, "compact"))
      BY <1>13, RetrySame, SameKeeps, KeepsTwice
  <2>2. Silent(asked, Fail(asked, "compact"))
      BY <1>13, RetrySilent
  <2>3. QED
      BY <1>13, <2>1, <2>2, SilentTwice
<1>15. QED
    BY <1>2, <1>13, <1>14

\* What the policy plans for the background may be asked for.
LEMMA PlanBackgroundIs ==
    ASSUME NEW x, Good(x)
    PROVE  Keeps(x, PlanBackground(x)) /\ Silent(x, PlanBackground(x))
<1> DEFINE S == Candidates(x)
           slots == SlotsFor(x)
           first == Plan(S, x.reserved, slots)
           taken == x.reserved \cup UNION {first[i].inputs : i \in DOMAIN first}
           second == PlanQuiet(S, taken, slots - Len(first))
<1>1. S \in SUBSET Candidate /\ Unique(S) /\ IsFiniteSet(S)
      /\ \A reserved : UnitsOf(Free(S, reserved)) \subseteq DOMAIN x.segs \ reserved
    BY CandidatesAre
<1>2. slots \in Int
  <2>1. OfKind(x, "compact") \in SUBSET DOMAIN x.jobs /\ IsFiniteSet(DOMAIN x.jobs)
      BY DEF OfKind, Good, Table
  <2>2. Cardinality(OfKind(x, "compact")) \in Nat
      BY <2>1, FS_Subset, FS_CardinalityType
  <2>3. MaxJobsPerCollection \in Nat
      BY JobsAssumption
  <2>4. QED
      BY <2>2, <2>3 DEF SlotsFor
<1> HIDE DEF S, slots
<1>3. ASSUME NEW reserved, NEW plans, ArePlans(plans, Free(S, reserved)), x.reserved \subseteq reserved
      PROVE  Plannable(x, plans) /\ \A i \in DOMAIN plans : plans[i].inputs \cap reserved = {}
  <2>1. plans \in Seq(JobPlans(Free(S, reserved))) /\ Apart(plans)
      BY <1>3 DEF ArePlans
  <2>2. \A i \in DOMAIN plans : plans[i] \in JobPlans(Free(S, reserved))
      BY <2>1
  <2>3. UnitsOf(Free(S, reserved)) \subseteq Spare(x) /\ UnitsOf(Free(S, reserved)) \cap reserved = {}
      BY <1>1, <1>3 DEF Spare
  <2>4. \A i \in DOMAIN plans : plans[i] \in [inputs : SUBSET Spare(x), bytes : Nat, live : Nat]
      BY <2>2, <2>3 DEF JobPlans
  <2>5. plans \in Seq([inputs : SUBSET Spare(x), bytes : Nat, live : Nat])
    <3> DEFINE P == [inputs : SUBSET Spare(x), bytes : Nat, live : Nat]
               Q == JobPlans(Free(S, reserved))
    <3>1. plans \in Seq(Q) /\ \A i \in DOMAIN plans : plans[i] \in P
        BY <2>1, <2>4
    <3> HIDE DEF P, Q
    <3>2. plans \in Seq(P)
        BY <3>1
    <3>3. QED
        BY <3>2 DEF P
  <2>6. \A i \in DOMAIN plans : plans[i].inputs \cap reserved = {}
      BY <2>2, <2>3 DEF JobPlans
  <2>7. QED
      BY <2>1, <2>5, <2>6 DEF Plannable
<1>4. ArePlans(first, Free(S, x.reserved))
    BY <1>1, <1>2, PlanIs
<1> HIDE DEF first
<1>5. Plannable(x, first)
    BY <1>3, <1>4
<1>6. Len(first) \in Nat /\ slots - Len(first) \in Int
    BY <1>2, <1>5 DEF Plannable
<1>7. ArePlans(second, Free(S, taken))
    BY <1>1, <1>6, PlanIs
<1> HIDE DEF second
<1>8. Plannable(x, second) /\ \A i \in DOMAIN second : second[i].inputs \cap taken = {}
    BY <1>3, <1>7
<1>9. Plannable(x, first \o second)
  <2> DEFINE P == [inputs : SUBSET Spare(x), bytes : Nat, live : Nat]
             all == first \o second
  <2>1. first \in Seq(P) /\ second \in Seq(P) /\ Apart(first) /\ Apart(second)
      BY <1>5, <1>8 DEF Plannable
  <2> HIDE DEF P
  <2>2. /\ all \in Seq(P) /\ Len(all) = Len(first) + Len(second)
        /\ DOMAIN first = 1..Len(first) /\ DOMAIN second = 1..Len(second)
        /\ DOMAIN all = 1..(Len(first) + Len(second))
        /\ Len(first) \in Nat /\ Len(second) \in Nat
      BY <2>1
  <2>3. \A i \in DOMAIN all : all[i] = IF i <= Len(first) THEN first[i] ELSE second[i - Len(first)]
      BY <2>1
  <2> HIDE DEF all
  <2>4. \A i \in DOMAIN first : \A j \in DOMAIN second : first[i].inputs \cap second[j].inputs = {}
      BY <1>8
  <2>5. ASSUME NEW i \in DOMAIN all, NEW j \in DOMAIN all, i < j
        PROVE  all[i].inputs \cap all[j].inputs = {}
    <3>1. CASE j <= Len(first)
      <4>1. i \in DOMAIN first /\ j \in DOMAIN first /\ i # j /\ all[i] = first[i] /\ all[j] = first[j]
          BY <2>2, <2>3, <2>5, <3>1
      <4>2. QED
          BY <2>1, <4>1 DEF Apart
    <3>2. CASE i <= Len(first) /\ ~(j <= Len(first))
      <4>1. i \in DOMAIN first /\ j - Len(first) \in DOMAIN second
            /\ all[i] = first[i] /\ all[j] = second[j - Len(first)]
          BY <2>2, <2>3, <3>2
      <4>2. QED
          BY <2>4, <4>1
    <3>3. CASE ~(i <= Len(first))
      <4>1. i - Len(first) \in DOMAIN second /\ j - Len(first) \in DOMAIN second
            /\ i - Len(first) # j - Len(first)
            /\ all[i] = second[i - Len(first)] /\ all[j] = second[j - Len(first)]
          BY <2>2, <2>3, <2>5, <3>3
      <4>2. QED
          BY <2>1, <4>1 DEF Apart
    <3>4. QED
        BY <2>2, <2>5, <3>1, <3>2, <3>3
  <2>6. Apart(all)
    <3>1. \A i, j \in DOMAIN all : i # j => i < j \/ j < i
        BY <2>2
    <3>2. QED
        BY <2>5, <3>1 DEF Apart
  <2>7. QED
      BY <2>2, <2>6 DEF Plannable, P, all
<1>10. QuietPlans(x, first, slots) = IF x.quiet /\ slots > 0 THEN first \o second ELSE first
    BY DEF QuietPlans, second, S
<1>11. /\ Keeps(x, AskFor(x, QuietPlans(x, first, slots)))
       /\ Silent(x, AskFor(x, QuietPlans(x, first, slots)))
    BY <1>5, <1>9, <1>10, AskForIs
<1>12. PlanBackground(x) = IF ~CompactionAllowed(x) THEN x ELSE AskFor(x, QuietPlans(x, first, slots))
    BY DEF PlanBackground, first, S, slots
<1>13. QED
    BY <1>11, <1>12, KeepsItself, SilentItself

\* The segments whose graphs may be asked for.
Indexable(x, units, minRows) ==
    {u \in DOMAIN x.segs :
        /\ u \in units \ x.reserved /\ ~x.segs[u].index
        /\ x.segs[u].rows >= Max({minRows, 2})
        /\ \A j \in DOMAIN x.jobs : x.jobs[j].target # u
        /\ ~Declined("index", IndexBuildBytes(x.segs[u].rows))}

\* One of them is picked, if there is any.
LEMMA TargetIsIndexable ==
    ASSUME NEW x, Good(x), NEW units, NEW minRows
    PROVE  IF Indexable(x, units, minRows) = {} THEN NextIndexTarget(x, units, minRows) = 0
           ELSE NextIndexTarget(x, units, minRows) \in Indexable(x, units, minRows)
<1> DEFINE ready == Indexable(x, units, minRows)
           t == NextIndexTarget(x, units, minRows)
           best(u) == \A v \in ready : x.segs[v].rows < x.segs[u].rows \/ (x.segs[v].rows = x.segs[u].rows /\ u <= v)
           before == {p \in ready \X ready :
                        x.segs[p[1]].rows > x.segs[p[2]].rows
                          \/ (x.segs[p[1]].rows = x.segs[p[2]].rows /\ p[1] < p[2])}
<1>1. t = IF ready = {} THEN 0 ELSE CHOOSE u \in ready : best(u)
    BY DEF NextIndexTarget, Indexable
<1>2. ready \in SUBSET DOMAIN x.segs
    BY DEF Indexable
<1> HIDE DEF t, ready
<1>3. \A u \in ready : u \in Nat /\ x.segs[u].rows \in Nat
    BY <1>2 DEF Good, Stored, IsSegment, Units
<1>4. ASSUME ready # {}
      PROVE  \E u \in ready : best(u)
  <2>1. IsFiniteSet(ready)
      BY <1>2, FS_Subset DEF Good, Stored
  <2>2. \A c, d \in ready :
           <<c, d>> \in before <=>
             x.segs[c].rows > x.segs[d].rows \/ (x.segs[c].rows = x.segs[d].rows /\ c < d)
      OBVIOUS
  <2> HIDE DEF before
  <2>3. Orders(ready, before)
    <3>1. \A c \in ready : <<c, c>> \notin before
        BY <1>3, <2>2
    <3>2. ASSUME NEW c \in ready, NEW d \in ready
          PROVE  c = d \/ <<c, d>> \in before \/ <<d, c>> \in before
      <4>1. c \in Nat /\ d \in Nat /\ x.segs[c].rows \in Nat /\ x.segs[d].rows \in Nat
          BY <1>3
      <4>2. /\ <<c, d>> \in before <=>
                  x.segs[c].rows > x.segs[d].rows \/ (x.segs[c].rows = x.segs[d].rows /\ c < d)
            /\ <<d, c>> \in before <=>
                  x.segs[d].rows > x.segs[c].rows \/ (x.segs[d].rows = x.segs[c].rows /\ d < c)
          BY <2>2
      <4>3. QED
          BY <4>1, <4>2
    <3>3. \A c, d, e \in ready : <<c, d>> \in before /\ <<d, e>> \in before => <<c, e>> \in before
        BY <1>3, <2>2
    <3>4. QED
        BY <3>1, <3>2, <3>3 DEF Orders
  <2>4. PICK u \in ready : \A v \in ready : <<v, u>> \notin before
      BY <1>4, <2>1, <2>3, FirstIs
  <2>5. ASSUME NEW v \in ready
        PROVE  x.segs[v].rows < x.segs[u].rows \/ (x.segs[v].rows = x.segs[u].rows /\ u <= v)
    <3>1. ~(x.segs[v].rows > x.segs[u].rows \/ (x.segs[v].rows = x.segs[u].rows /\ v < u))
        BY <2>2, <2>4
    <3>2. u \in Nat /\ v \in Nat /\ x.segs[u].rows \in Nat /\ x.segs[v].rows \in Nat
        BY <1>3
    <3>3. QED
        BY <3>1, <3>2
  <2>6. QED
      BY <2>5
<1> HIDE DEF best
<1>5. QED
    BY <1>1, <1>4 DEF t, ready

\* A segment that is picked to be indexed is free and fits the pool.
LEMMA NextIndexTargetIs ==
    ASSUME NEW x, Good(x), NEW units, NEW minRows
    PROVE  LET t == NextIndexTarget(x, units, minRows)
           IN t # 0 => /\ t \in DOMAIN x.segs /\ t \notin x.reserved
                       /\ ~Declined("index", IndexBuildBytes(x.segs[t].rows))
    BY TargetIsIndexable DEF Indexable

\* An index build of the segment that was picked.
LEMMA IndexAsked ==
    ASSUME NEW x, Good(x), NEW units, NEW minRows, NEW explicit,
           NextIndexTarget(x, units, minRows) # 0
    PROVE  LET t == NextIndexTarget(x, units, minRows)
           IN Keeps(x, RequestJob(x, "index", IndexBuildBytes(x.segs[t].rows), {}, t, explicit))
<1> DEFINE t == NextIndexTarget(x, units, minRows)
           bytes == IndexBuildBytes(x.segs[t].rows)
<1>1. t # 0
    OBVIOUS
<1>2. t \in DOMAIN x.segs /\ t \notin x.reserved /\ ~Declined("index", bytes)
    BY <1>1, NextIndexTargetIs
<1> HIDE DEF t
<1>3. t \in Nat /\ x.segs[t].rows \in Nat
    BY <1>2 DEF Good, Stored, IsSegment, Units
<1>4. bytes \in Nat
  <2>1. VectorDims \in Nat /\ VectorFields \in Nat
      BY PolicyAssumption
  <2>2. GraphBytesPerRow \in Nat
    <3>1. GraphBytesPerRowOfField \in Nat
        BY DEF GraphBytesPerRowOfField
    <3>2. VectorFields * GraphBytesPerRowOfField \in Nat /\ VectorDims * 4 \in Nat
        BY <2>1, <3>1
    <3>3. QED
        BY <3>2 DEF GraphBytesPerRow
  <2>3. x.segs[t].rows * GraphBytesPerRow \in Nat
      BY <1>3, <2>2
  <2>4. QED
      BY <2>3 DEF IndexBuildBytes
<1> HIDE DEF bytes
<1>5. Askable(x, "index", bytes, {}, t)
    BY <1>2, <1>3, <1>4 DEF Askable, Kinds
<1>6. Keeps(x, RequestJob(x, "index", bytes, {}, t, explicit))
    BY <1>5, RequestJobIs
<1>7. QED
    BY <1>6 DEF bytes, t

\* The next graph of an explicit compaction may be asked for.
LEMMA IndexScopeIs ==
    ASSUME NEW x, Good(x)
    PROVE  Keeps(x, IndexScope(x))
<1> DEFINE e == x.explicit
           t == NextIndexTarget(x, e.scope, 0)
           ask == RequestJob(x, "index", IndexBuildBytes(x.segs[t].rows), {}, t, TRUE)
           done == [Answer(x, e.waiters, "ok") EXCEPT !.explicit = NoExplicit]
<1>1. t # 0 => Keeps(x, ask)
    BY IndexAsked
<1>2. Keeps(x, done)
    BY AnswerSame, SameKeeps
<1>3. Keeps(x, x)
    BY KeepsItself
<1>4. IndexScope(x) = x \/ (t # 0 /\ IndexScope(x) = ask) \/ IndexScope(x) = done
    BY DEF IndexScope
<1> HIDE DEF t, ask, done
<1>5. QED
    BY <1>1, <1>2, <1>3, <1>4

\* A background index build may be asked for.
LEMMA ScheduleIndexesIs ==
    ASSUME NEW x, Good(x)
    PROVE  Keeps(x, ScheduleIndexes(x))
<1> DEFINE units == DOMAIN x.segs
           rows == IF x.quiet THEN 0 ELSE GraphMinRows
           t == NextIndexTarget(x, units, rows)
           ask == RequestJob(x, "index", IndexBuildBytes(x.segs[t].rows), {}, t, FALSE)
<1> HIDE DEF units, rows
<1>1. t # 0 => Keeps(x, ask)
    BY IndexAsked
<1>2. Keeps(x, x)
    BY KeepsItself
<1>3. ScheduleIndexes(x) = x \/ (t # 0 /\ ScheduleIndexes(x) = ask)
    BY DEF ScheduleIndexes, units, rows
<1> HIDE DEF t, ask
<1>4. QED
    BY <1>1, <1>2, <1>3

\* An explicit compaction goes on with one merge more.
Stepped(x, lone) == [x EXCEPT !.explicit.merges = 1, !.explicit.rewrote = @ \/ lone]

\* Counting the merges of an explicit compaction leaves the rest of it alone.
LEMMA StepSame ==
    ASSUME NEW x, Good(x), NEW lone
    PROVE  LET y == Stepped(x, lone)
           IN /\ Same(x, y) /\ y.answer = x.answer /\ y.flushWaiters = x.flushWaiters
              /\ y.explicit.waiters = x.explicit.waiters /\ y.explicit.scope = x.explicit.scope
<1> DEFINE a == [x EXCEPT !.explicit.merges = 1]
           r == a.explicit.rewrote \/ lone
           y == Stepped(x, lone)
<1>1. Fields(x) /\ Scoped(x)
    BY DEF Good
<1>2. y = [a EXCEPT !.explicit.rewrote = r]
    BY DEF Stepped
<1> HIDE DEF r
<1>3. /\ Same(x, a) /\ a.answer = x.answer /\ a.flushWaiters = x.flushWaiters
      /\ a.explicit.waiters = x.explicit.waiters /\ a.explicit.scope = x.explicit.scope
    BY <1>1 DEF Same, Fields, Scoped
<1>4. Fields(a) /\ Scoped(a)
    BY <1>3 DEF Same
<1> HIDE DEF a, y
<1>5. /\ Same(a, y) /\ y.answer = a.answer /\ y.flushWaiters = a.flushWaiters
      /\ y.explicit.waiters = a.explicit.waiters /\ y.explicit.scope = a.explicit.scope
    BY <1>2, <1>4 DEF Same, Fields, Scoped
<1>6. QED
    BY <1>3, <1>5, SameTwice DEF y

\* The next merge of an explicit compaction may be asked for.
LEMMA StepOfIs ==
    ASSUME NEW x, Good(x), NEW plan, plan.inputs \in SUBSET Spare(x), plan.bytes \in Nat
    PROVE  Keeps(x, StepOf(x, plan))
<1> DEFINE e == x.explicit
           step == Stepped(x, Cardinality(plan.inputs) = 1)
           refused == [Answer(x, e.waiters, "failed") EXCEPT !.explicit = NoExplicit]
           bytes == plan.bytes
           ins == plan.inputs
           ask == RequestJob(step, "compact", bytes, ins, 0, TRUE)
<1>1. \/ StepOf(x, plan) = IndexScope(x)
      \/ StepOf(x, plan) = refused
      \/ ~Declined("compact", bytes) /\ StepOf(x, plan) = ask
    BY DEF StepOf, Stepped
<1>2. Keeps(x, refused)
    BY AnswerSame, SameKeeps
<1>3. Same(x, step)
    BY StepSame
<1> HIDE DEF step, refused, ins, bytes
<1>4. Keeps(x, step) /\ Good(step)
    BY <1>3, SameKeeps DEF Keeps
<1>5. ~Declined("compact", bytes) => Keeps(step, ask)
  <2>1. SUFFICES ASSUME ~Declined("compact", bytes) PROVE Keeps(step, ask)
      OBVIOUS
  <2>2. step.segs = x.segs /\ step.reserved = x.reserved
      BY <1>3 DEF Same
  <2>3. ins \in SUBSET DOMAIN step.segs /\ ins \cap step.reserved = {} /\ bytes \in Nat
      BY <2>2 DEF ins, bytes, Spare
  <2>4. 0 \notin step.reserved
      BY <1>4, ReservedUnits
  <2>5. Askable(step, "compact", bytes, ins, 0)
      BY <2>1, <2>3, <2>4 DEF Askable, Kinds
  <2>6. \A b : Keeps(step, RequestJob(step, "compact", bytes, ins, 0, b))
      BY <1>4, <2>5, RequestJobIs
  <2>7. QED
      BY <2>6
<1> HIDE DEF ask
<1>6. QED
    BY <1>1, <1>2, <1>4, <1>5, IndexScopeIs, KeepsTwice

\* So may the next step of it, whatever that is.
LEMMA ScheduleExplicitIs ==
    ASSUME NEW x, Good(x)
    PROVE  Keeps(x, ScheduleExplicit(x))
<1> DEFINE S == {c \in Candidates(x) : c.unit \in x.explicit.scope}
           plans == PlanExplicit(S, x.reserved)
<1>1. /\ Candidates(x) \in SUBSET Candidate /\ Unique(Candidates(x)) /\ IsFiniteSet(Candidates(x))
      /\ UnitsOf(Free(Candidates(x), x.reserved)) \subseteq Spare(x)
    BY CandidatesAre DEF Spare
<1>2. S \in SUBSET Candidates(x)
    OBVIOUS
<1> HIDE DEF S
<1>3. S \in SUBSET Candidate /\ Unique(S)
    BY <1>1, <1>2 DEF Unique
<1>4. IsFiniteSet(S)
    BY <1>1, <1>2, FS_Subset
<1>5. UnitsOf(Free(S, x.reserved)) \subseteq Spare(x)
  <2>1. Free(S, x.reserved) \subseteq Free(Candidates(x), x.reserved)
      BY <1>2 DEF Free
  <2>2. QED
      BY <1>1, <2>1 DEF UnitsOf
<1>6. ArePlans(plans, Free(S, x.reserved))
    BY <1>3, <1>4, PlanExplicitIs
<1> HIDE DEF plans
<1>7. ASSUME plans # <<>>
      PROVE  plans[1].inputs \in SUBSET Spare(x) /\ plans[1].bytes \in Nat
  <2> DEFINE Q == JobPlans(Free(S, x.reserved))
  <2>1. plans \in Seq(Q)
      BY <1>6 DEF ArePlans
  <2> HIDE DEF Q
  <2>2. plans[1] \in Q
      BY <1>7, <2>1
  <2>3. QED
      BY <1>5, <2>2 DEF Q, JobPlans
<1>8. ScheduleExplicit(x) = StepIfAny(x, plans)
    BY DEF ScheduleExplicit, plans, S
<1>9. QED
    BY <1>7, <1>8, StepOfIs, IndexScopeIs DEF StepIfAny

\* Scheduling as a whole keeps the invariant.
LEMMA ScheduleIs ==
    ASSUME NEW x, Good(x)
    PROVE  Keeps(x, Schedule(x))
<1> DEFINE a == RequestFlush(x)
           b == ScheduleCompactions(a)
           c == ScheduleIndexes(b)
<1>1. Keeps(x, a) /\ Good(a)
    BY RequestFlushIs DEF Keeps
<1> HIDE DEF a
<1>2. Keeps(a, b)
    BY <1>1, PlanBackgroundIs, ScheduleExplicitIs, KeepsItself DEF ScheduleCompactions
<1>3. Good(b)
    BY <1>2 DEF Keeps
<1> HIDE DEF b
<1>4. Keeps(b, c)
    BY <1>3, ScheduleIndexesIs
<1>5. Schedule(x) = IF Refused(x) THEN x ELSE c
    BY DEF Schedule, a, b
<1> HIDE DEF c
<1>6. QED
    BY <1>1, <1>2, <1>4, <1>5, KeepsTwice, KeepsItself

-----------------------------------------------------------------------------
(* Failures and the end of a job. *)

\* Poisoning the collection ends no job that runs.
LEMMA PoisonIs ==
    ASSUME NEW x, Good(x)
    PROVE  /\ Keeps(x, FailWaiters(x)) /\ Running(FailWaiters(x)) = Running(x)
           /\ Keeps(x, Poison(x)) /\ Running(Poison(x)) = Running(x)
<1>1. ASSUME NEW y, Good(y)
      PROVE  Keeps(y, FailWaiters(y)) /\ Running(FailWaiters(y)) = Running(y)
  <2> DEFINE a == CancelWaitingJobs(y)
             b == CancelRunningIndexes(a)
             c == FailFlushWaiters(b)
             d == FailExplicit(c)
  <2>1. Keeps(y, a) /\ Good(a) /\ Running(a) = Running(y)
      BY <1>1, CancelWaitingJobsIs DEF Keeps
  <2> HIDE DEF a
  <2>2. Keeps(a, b) /\ Good(b) /\ Running(b) = Running(a)
      BY <2>1, CancelRunningIndexesIs DEF Keeps
  <2> HIDE DEF b
  <2>3. Same(b, c) /\ Keeps(b, c) /\ Good(c)
      BY <2>2, FailWaitersSame, SameKeeps DEF Keeps
  <2> HIDE DEF c
  <2>4. Same(c, d) /\ Keeps(c, d)
      BY <2>3, FailWaitersSame, SameKeeps
  <2>5. FailWaiters(y) = d
      BY DEF FailWaiters, a, b, c
  <2> HIDE DEF d
  <2>6. Running(d) = Running(y)
    <3>1. d.jobs = b.jobs
        BY <2>3, <2>4 DEF Same
    <3>2. QED
        BY <2>1, <2>2, <3>1 DEF Running
  <2>7. Keeps(y, b)
      BY <2>1, <2>2, KeepsTwice
  <2>8. Keeps(y, c)
      BY <2>3, <2>7, KeepsTwice
  <2>9. Keeps(y, d)
      BY <2>4, <2>8, KeepsTwice
  <2>10. QED
      BY <2>5, <2>6, <2>9
<1> DEFINE p == [x EXCEPT !.poisoned = TRUE]
<1>2. Same(x, p)
    BY FieldSame
<1>3. Poison(x) = FailWaiters(p)
    BY DEF Poison
<1> HIDE DEF p
<1>4. Keeps(x, p) /\ Good(p) /\ Running(p) = Running(x)
    BY <1>2, SameKeeps DEF Keeps, Same, Running
<1>5. Keeps(p, FailWaiters(p)) /\ Running(FailWaiters(p)) = Running(p)
    BY <1>1, <1>4
<1>6. QED
    BY <1>1, <1>3, <1>4, <1>5, KeepsTwice

\* Neither does a failure, whether it backs off or poisons.
LEMMA JobFailedIs ==
    ASSUME NEW x, Good(x), NEW kind, NEW error
    PROVE  Keeps(x, JobFailed(x, kind, error))
<1> DEFINE y == Fail(x, kind)
<1>1. Keeps(x, y) /\ Good(y)
    BY RetrySame, SameKeeps DEF Keeps
<1>2. JobFailed(x, kind, error) \in {x, y, Poison(y)}
    BY DEF JobFailed
<1> HIDE DEF y
<1>3. Keeps(y, Poison(y))
    BY <1>1, PoisonIs
<1>4. QED
    BY <1>1, <1>2, <1>3, KeepsItself, KeepsTwice

\* Telling everyone how a job ended keeps the invariant.
LEMMA SettleKindIs ==
    ASSUME NEW x, Good(x), NEW entry, entry.unit \in Nat, NEW outcome, NEW error
    PROVE  Keeps(x, SettleKind(x, entry, outcome, error))
<1>1. ASSUME NEW y, Good(y)
      PROVE  Keeps(y, Settle(y, entry, outcome, error))
  <2> DEFINE z == Told(y, entry.kind, outcome, error)
  <2>1. z \in {JobSucceeded(y, entry.kind), JobFailed(y, entry.kind, error), y}
    <3>1. CASE outcome \in {"committed", "nothing"}
        BY <3>1 DEF Told
    <3>2. CASE outcome = "failed"
        BY <3>2 DEF Told
    <3>3. CASE outcome \notin {"committed", "nothing", "failed"}
        BY <3>3 DEF Told
    <3>4. QED
        BY <3>1, <3>2, <3>3
  <2> HIDE DEF z
  <2>2. Keeps(y, JobSucceeded(y, entry.kind)) /\ Keeps(y, y) /\ Keeps(y, JobFailed(y, entry.kind, error))
      BY <1>1, RetrySame, SameKeeps, KeepsItself, JobFailedIs
  <2>3. Keeps(y, z) /\ Good(z)
      BY <2>1, <2>2 DEF Keeps
  <2>4. Keeps(z, SettleExplicit(z, entry, outcome, entry.unit))
      BY <2>3, SettleExplicitSame, SameKeeps
  <2>5. QED
      BY <2>3, <2>4, KeepsTwice DEF Settle, z
<1> DEFINE a == [x EXCEPT !.flushWaiters = {}]
           b == Settle(a, entry, outcome, error)
           c == SettleFlushes(b, x.flushWaiters, outcome = "failed")
<1>2. Keeps(x, a) /\ Good(a)
    BY FieldSame, SameKeeps DEF Keeps
<1>3. SettleKind(x, entry, outcome, error) = IF entry.kind = "flush" THEN c ELSE Settle(x, entry, outcome, error)
    BY DEF SettleKind
<1> HIDE DEF a
<1>4. Keeps(a, b) /\ Good(b)
    BY <1>1, <1>2 DEF Keeps
<1> HIDE DEF b
<1>5. Keeps(b, c)
  <2> DEFINE failed == outcome = "failed"
  <2> HIDE DEF failed
  <2>1. Keeps(b, SettleFlushes(b, x.flushWaiters, failed))
      BY <1>4, SettleFlushesSame, SameKeeps
  <2>2. QED
      BY <2>1 DEF failed
<1> HIDE DEF c
<1>6. Keeps(x, c)
    BY <1>2, <1>4, <1>5, KeepsTwice
<1>7. QED
    BY <1>1, <1>3, <1>6

\* So does scheduling what comes next.
LEMMA RescheduleIs ==
    ASSUME NEW x, Good(x)
    PROVE  Keeps(x, Reschedule(x))
<1> DEFINE v == x.freezePending \/ FreezeDue(x)
           y == [x EXCEPT !.freezePending = v]
<1>1. Reschedule(x) = Schedule(y)
    BY DEF Reschedule
<1> HIDE DEF v
<1>2. Keeps(x, y) /\ Good(y)
    BY FieldSame, SameKeeps DEF Keeps
<1> HIDE DEF y
<1>3. QED
    BY <1>1, <1>2, ScheduleIs, KeepsTwice

\* A job that runs, or that nothing waits for, may leave the table.
LEMMA RemoveJobIs ==
    ASSUME NEW x, Good(x), NEW job \in DOMAIN x.jobs,
           \A r \in ToSet(x.sched.queue) : r.job # job
    PROVE  LET y == RemoveJob(x, job)
           IN /\ Keeps(x, y) /\ job \notin DOMAIN y.jobs
              /\ OfKind(y, "flush") = OfKind(x, "flush") \ {job}
              /\ Inputs(y) \cap x.jobs[job].inputs = {}
              /\ y.sched = x.sched /\ y.segs = x.segs /\ y.frozen = x.frozen /\ y.ckpt = x.ckpt
              /\ y.visible = x.visible /\ y.explicit = x.explicit
<1> DEFINE y == RemoveJob(x, job)
           rest == DOMAIN x.jobs \ {job}
<1>1. /\ Fields(x) /\ Consistent(x.sched) /\ Pumped(x.sched) /\ Table(x) /\ Matched(x) /\ Ordered(x)
      /\ Stored(x) /\ Reserves(x) /\ Scoped(x)
    BY DEF Good
<1>2. /\ y.sched = x.sched /\ y.jobs = Restrict(x.jobs, rest)
      /\ y.reserved = x.reserved \ x.jobs[job].inputs
      /\ y.segs = x.segs /\ y.frozen = x.frozen /\ y.ckpt = x.ckpt /\ y.visible = x.visible
      /\ y.explicit = x.explicit /\ Fields(y)
    BY <1>1 DEF Fields, RemoveJob
<1>3. Scoped(y)
    BY <1>1, <1>2 DEF Scoped
<1> HIDE DEF y
<1>4. DOMAIN x.jobs \ rest = {job} /\ rest \in SUBSET DOMAIN x.jobs
    OBVIOUS
<1> HIDE DEF rest
<1>5. y.reserved = x.reserved \ InputsOf(x, DOMAIN x.jobs \ rest)
  <2>1. InputsOf(x, DOMAIN x.jobs \ rest) = x.jobs[job].inputs
      BY <1>4 DEF InputsOf
  <2>2. QED
      BY <1>2, <2>1
<1>6. /\ Table(y) /\ Reserves(y) /\ OfKind(y, "flush") = OfKind(x, "flush") \cap rest
      /\ Inputs(y) = InputsOf(x, rest)
  <2>1. /\ Fields(y) /\ Scoped(y) /\ y.jobs = Restrict(x.jobs, rest)
        /\ y.segs = x.segs /\ y.frozen = x.frozen
      BY <1>2, <1>3
  <2>2. rest \in SUBSET DOMAIN x.jobs
      BY <1>4
  <2>3. QED
      BY <1>5, <2>1, <2>2, Narrowed
<1>7. DOMAIN y.jobs = rest /\ \A j \in rest : y.jobs[j] = x.jobs[j]
    BY <1>2 DEF Restrict
<1>8. Matched(y)
    BY <1>1, <1>2, <1>7 DEF Matched, rest
<1>9. Ordered(y) /\ Stored(y)
    BY <1>1, <1>2 DEF Ordered, Stored
<1>10. Alien(y) = Alien(x)
    BY <1>2 DEF Alien
<1>11. Inputs(y) \cap x.jobs[job].inputs = {}
    BY <1>1, <1>6 DEF Reserves, InputsOf, rest
<1>12. OfKind(y, "flush") = OfKind(x, "flush") \ {job}
    BY <1>6 DEF OfKind, rest
<1>13. QED
    BY <1>1, <1>2, <1>3, <1>6, <1>7, <1>8, <1>9, <1>10, <1>11, <1>12 DEF Keeps, Good, y, rest

\* A running job has its permit, so nothing waits for it.
LEMMA RunningIs ==
    ASSUME NEW x, Good(x), NEW job \in Running(x)
    PROVE  /\ job \in DOMAIN x.jobs /\ IsEntry(x.jobs[job]) /\ x.jobs[job].running
           /\ \A r \in ToSet(x.sched.queue) : r.job # job
<1>1. job \in DOMAIN x.jobs /\ x.jobs[job].running
    BY DEF Running
<1>2. IsEntry(x.jobs[job])
    BY <1>1 DEF Good, Table
<1>3. PICK p \in x.sched.permits : p.job = job
    BY <1>1 DEF Good, Matched
<1>4. \A r \in ToSet(x.sched.queue) : r.job # p.job
    BY DEF Good, Consistent, Distinct, ToSet
<1>5. QED
    BY <1>1, <1>2, <1>3, <1>4

\* Once a job is out of the table, the rest of its end keeps the invariant.
LEMMA EndJobIs ==
    ASSUME NEW x, NEW job, Good(RemoveJob(x, job)), job \notin DOMAIN RemoveJob(x, job).jobs,
           x.jobs[job].unit \in Nat, NEW outcome, NEW error
    PROVE  Keeps(RemoveJob(x, job), EndJob(x, job, outcome, error))
<1> DEFINE entry == x.jobs[job]
           a == RemoveJob(x, job)
           b == IF entry.running THEN DropPermit(a, job) ELSE a
           c == SettleKind(b, entry, outcome, error)
<1>1. EndJob(x, job, outcome, error) = Reschedule(c)
    BY DEF EndJob
<1>2. entry.unit \in Nat
    OBVIOUS
<1> HIDE DEF a
<1>3. Good(a) /\ job \notin Running(a)
    BY DEF a, Running
<1>4. Keeps(a, b) /\ Good(b)
    BY <1>3, DropPermitIs, KeepsItself DEF Keeps
<1> HIDE DEF b, entry
<1>5. Keeps(b, c) /\ Good(c)
    BY <1>2, <1>4, SettleKindIs DEF Keeps
<1> HIDE DEF c
<1>6. Keeps(c, Reschedule(c))
    BY <1>5, RescheduleIs
<1>7. QED
    BY <1>1, <1>4, <1>5, <1>6, KeepsTwice DEF a

\* A job that runs may end in any way.
LEMMA EndRunning ==
    ASSUME NEW x, Good(x), NEW job \in Running(x), NEW outcome, NEW error
    PROVE  Keeps(x, EndJob(x, job, outcome, error))
<1>1. /\ job \in DOMAIN x.jobs /\ IsEntry(x.jobs[job])
      /\ \A r \in ToSet(x.sched.queue) : r.job # job
    BY RunningIs
<1>2. Keeps(x, RemoveJob(x, job)) /\ job \notin DOMAIN RemoveJob(x, job).jobs
    BY <1>1, RemoveJobIs
<1>3. x.jobs[job].unit \in Nat
    BY <1>1 DEF IsEntry
<1>4. Keeps(RemoveJob(x, job), EndJob(x, job, outcome, error))
    BY <1>2, <1>3, EndJobIs DEF Keeps
<1>5. QED
    BY <1>2, <1>4, KeepsTwice

-----------------------------------------------------------------------------
(* Freezing. *)

\* A frozen memtable is above every earlier one.
LEMMA DoFreezeIs ==
    ASSUME NEW x, Good(x)
    PROVE  Keeps(x, DoFreeze(x)) /\ DoFreeze(x).frozen # <<>>
<1> DEFINE frozen == Append(x.frozen, x.visible)
           y == DoFreeze(x)
<1>1. /\ Fields(x) /\ Consistent(x.sched) /\ Pumped(x.sched) /\ Table(x) /\ Matched(x) /\ Ordered(x)
      /\ Stored(x) /\ Reserves(x) /\ Scoped(x)
    BY DEF Good
<1>2. /\ y.sched = x.sched /\ y.jobs = x.jobs /\ y.reserved = x.reserved
      /\ y.segs = x.segs /\ y.frozen = frozen /\ y.ckpt = x.ckpt /\ y.visible = x.visible
      /\ y.explicit = x.explicit /\ Fields(y)
    BY <1>1 DEF Fields, DoFreeze
<1>3. x.visible \in Nat /\ x.ckpt \in Nat /\ x.frozen \in Seq(Nat) /\ x.ckpt <= x.visible
    BY <1>1 DEF Ordered
<1>4. /\ frozen \in Seq(Nat) /\ DOMAIN frozen = DOMAIN x.frozen \cup {Len(x.frozen) + 1}
      /\ DOMAIN frozen = 1..(Len(x.frozen) + 1) /\ Len(x.frozen) \in Nat
      /\ frozen[Len(x.frozen) + 1] = x.visible /\ \A i \in DOMAIN x.frozen : frozen[i] = x.frozen[i]
    BY <1>3
<1> HIDE DEF frozen, y
<1>5. frozen # <<>>
    BY <1>4
<1>6. Ordered(y)
  <2>1. \A i \in DOMAIN x.frozen : x.ckpt <= x.frozen[i] /\ x.frozen[i] <= x.visible
      BY <1>1 DEF Ordered
  <2>2. \A i, j \in DOMAIN x.frozen : i <= j => x.frozen[i] <= x.frozen[j]
      BY <1>1 DEF Ordered
  <2>3. \A i \in DOMAIN frozen : x.ckpt <= frozen[i] /\ frozen[i] <= x.visible
      BY <1>3, <1>4, <2>1
  <2>4. ASSUME NEW i \in DOMAIN frozen, NEW j \in DOMAIN frozen, i <= j PROVE frozen[i] <= frozen[j]
    <3>1. CASE j \in DOMAIN x.frozen
      <4>1. i \in DOMAIN x.frozen
          BY <1>3, <1>4, <2>4, <3>1
      <4>2. QED
          BY <1>4, <2>2, <2>4, <3>1, <4>1
    <3>2. CASE j = Len(x.frozen) + 1
        BY <1>4, <2>3, <3>2
    <3>3. QED
        BY <1>4, <3>1, <3>2
  <2>5. QED
      BY <1>2, <1>3, <1>4, <2>3, <2>4 DEF Ordered
<1>7. Table(y) /\ Matched(y) /\ Stored(y) /\ Scoped(y)
    BY <1>1, <1>2 DEF Table, Matched, Stored, Scoped
<1>8. Reserves(y)
  <2>1. Inputs(y) = Inputs(x) /\ OfKind(y, "flush") = OfKind(x, "flush")
      BY <1>2 DEF Inputs, OfKind
  <2>2. QED
      BY <1>1, <1>2, <1>5, <2>1 DEF Reserves
<1>9. Alien(y) = Alien(x)
    BY <1>2 DEF Alien
<1>10. QED
    BY <1>1, <1>2, <1>5, <1>6, <1>7, <1>8, <1>9 DEF Keeps, Good, y

\* A freeze that is due may succeed or fail.
LEMMA FreezeIfDueIs ==
    ASSUME NEW x, Good(x), NEW ok
    PROVE  Keeps(x, FreezeIfDue(x, ok))
<1> DEFINE a == DoFreeze(x)
           b == [x EXCEPT !.flushWaiters = {}]
           c == JobFailed(b, "flush", "transient")
           d == Answer(c, {f[1] : f \in x.flushWaiters}, "failed")
<1>1. FreezeIfDue(x, ok) \in {x, RequestFlush(a), d}
    BY DEF FreezeIfDue
<1>2. Keeps(x, a) /\ Good(a)
    BY DoFreezeIs DEF Keeps
<1>3. Keeps(x, b) /\ Good(b)
    BY FieldSame, SameKeeps DEF Keeps
<1> HIDE DEF a, b
<1>4. Keeps(x, RequestFlush(a))
    BY <1>2, RequestFlushIs, KeepsTwice
<1>5. Keeps(x, c) /\ Good(c)
    BY <1>3, JobFailedIs, KeepsTwice DEF Keeps
<1> HIDE DEF c
<1>6. Keeps(x, d)
    BY <1>5, AnswerSame, SameKeeps, KeepsTwice
<1> HIDE DEF d
<1>7. QED
    BY <1>1, <1>4, <1>6, KeepsItself

-----------------------------------------------------------------------------
(* The steps of the writer. *)

\* A write is above every frozen memtable and deletes at most a row.
LEMMA WriteIs ==
    ASSUME NEW x, Good(x),
           NEW u \in {0} \cup {u \in DOMAIN x.segs : x.segs[u].deleted < x.segs[u].rows}
    PROVE  Keeps(x, [x EXCEPT !.visible = @ + 1, !.armed = TRUE, !.quiet = FALSE,
                              !.segs = IF u = 0 THEN @ ELSE [x.segs EXCEPT ![u].deleted = x.segs[u].deleted + 1]])
<1> DEFINE segs == IF u = 0 THEN x.segs ELSE [x.segs EXCEPT ![u].deleted = x.segs[u].deleted + 1]
           y == [x EXCEPT !.visible = @ + 1, !.armed = TRUE, !.quiet = FALSE,
                          !.segs = IF u = 0 THEN @ ELSE [x.segs EXCEPT ![u].deleted = x.segs[u].deleted + 1]]
<1>1. /\ Fields(x) /\ Consistent(x.sched) /\ Pumped(x.sched) /\ Table(x) /\ Matched(x) /\ Ordered(x)
      /\ Stored(x) /\ Reserves(x) /\ Scoped(x)
    BY DEF Good
<1>2. /\ y.sched = x.sched /\ y.jobs = x.jobs /\ y.reserved = x.reserved
      /\ y.segs = segs /\ y.frozen = x.frozen /\ y.ckpt = x.ckpt /\ y.visible = x.visible + 1
      /\ y.explicit = x.explicit /\ Fields(y)
  <2>1. y = [x EXCEPT !.visible = @ + 1, !.armed = TRUE, !.quiet = FALSE, !.segs = segs]
      OBVIOUS
  <2> HIDE DEF y, segs
  <2>2. QED
      BY <1>1, <2>1 DEF Fields
<1>3. DOMAIN segs = DOMAIN x.segs /\ \A v \in DOMAIN x.segs : IsSegment(segs[v])
  <2>1. \A v \in DOMAIN x.segs : IsSegment(x.segs[v])
      BY <1>1 DEF Stored
  <2>2. CASE u = 0
      BY <2>1, <2>2
  <2>3. CASE u # 0
    <3> DEFINE g == x.segs[u]
               h == [g EXCEPT !.deleted = @ + 1]
    <3>1. u \in DOMAIN x.segs /\ IsSegment(g)
        BY <2>1, <2>3
    <3>2. segs = [x.segs EXCEPT ![u] = h]
        BY <2>3
    <3> HIDE DEF g, segs
    <3>3. h.rows = g.rows /\ h.deleted = g.deleted + 1 /\ DOMAIN h = DOMAIN g
        BY <3>1 DEF IsSegment
    <3> HIDE DEF h
    <3>4. IsSegment(h)
        BY <3>1, <3>3 DEF IsSegment
    <3>5. QED
        BY <2>1, <3>1, <3>2, <3>4
  <2>4. QED
      BY <2>2, <2>3
<1> HIDE DEF segs, y
<1>4. Ordered(y)
  <2>1. /\ x.visible \in Nat /\ x.ckpt \in Nat /\ x.frozen \in Seq(Nat)
        /\ \A i \in DOMAIN x.frozen : x.ckpt <= x.frozen[i] /\ x.frozen[i] <= x.visible
        /\ \A i, j \in DOMAIN x.frozen : i <= j => x.frozen[i] <= x.frozen[j]
        /\ x.ckpt <= x.visible
      BY <1>1 DEF Ordered
  <2>2. \A i \in DOMAIN x.frozen : x.frozen[i] \in Nat
      BY <2>1
  <2>3. \A i \in DOMAIN x.frozen : x.frozen[i] <= x.visible + 1
      BY <2>1, <2>2
  <2>4. x.visible + 1 \in Nat /\ x.ckpt <= x.visible + 1
      BY <2>1
  <2>5. QED
      BY <1>2, <2>1, <2>3, <2>4 DEF Ordered
<1>5. Table(y) /\ Matched(y) /\ Scoped(y)
    BY <1>1, <1>2 DEF Table, Matched, Scoped
<1>6. Stored(y)
    BY <1>1, <1>2, <1>3 DEF Stored
<1>7. Reserves(y)
  <2>1. Inputs(y) = Inputs(x) /\ OfKind(y, "flush") = OfKind(x, "flush")
      BY <1>2 DEF Inputs, OfKind
  <2>2. QED
      BY <1>1, <1>2, <1>3, <2>1 DEF Reserves
<1>8. Alien(y) = Alien(x)
    BY <1>2 DEF Alien
<1>9. QED
    BY <1>1, <1>2, <1>4, <1>5, <1>6, <1>7, <1>8 DEF Keeps, Good, y

\* The unit of a new segment is above every one named.
LEMMA FreshUnitIs ==
    ASSUME NEW x, Good(x)
    PROVE  /\ FreshUnit(x) \in Units
           /\ \A u \in DOMAIN x.segs \cup x.explicit.scope : u < FreshUnit(x)
           /\ \A j \in DOMAIN x.jobs :
                 /\ x.jobs[j].unit < FreshUnit(x)
                 /\ \A u \in x.jobs[j].inputs : u < FreshUnit(x)
<1> DEFINE named(j) == x.jobs[j].inputs \cup {x.jobs[j].target, x.jobs[j].unit}
           all == {named(j) : j \in DOMAIN x.jobs}
           S == DOMAIN x.segs \cup x.explicit.scope \cup UNION all
<1>1. /\ IsFiniteSet(DOMAIN x.segs) /\ DOMAIN x.segs \in SUBSET Nat
      /\ IsFiniteSet(x.explicit.scope) /\ x.explicit.scope \in SUBSET Nat
    BY DEF Good, Stored, Scoped, Units
<1>2. IsFiniteSet(all)
  <2> DEFINE f == [j \in DOMAIN x.jobs |-> named(j)]
  <2> HIDE DEF named
  <2>1. f \in Surjection(DOMAIN x.jobs, all)
      BY DEF Surjection
  <2>2. IsFiniteSet(DOMAIN x.jobs)
      BY DEF Good, Table
  <2>3. QED
      BY <2>1, <2>2, FS_Surjection
<1>3. ASSUME NEW j \in DOMAIN x.jobs
      PROVE  IsFiniteSet(named(j)) /\ named(j) \in SUBSET Nat
  <2>1. x.jobs[j].inputs \in SUBSET DOMAIN x.segs
      BY DEF Good, Reserves, Inputs
  <2>2. x.jobs[j].target \in Nat /\ x.jobs[j].unit \in Nat
      BY DEF Good, Table, IsEntry
  <2>3. IsFiniteSet(x.jobs[j].inputs)
      BY <1>1, <2>1, FS_Subset
  <2>4. IsFiniteSet({x.jobs[j].target} \cup {x.jobs[j].unit})
      BY FS_Singleton, FS_Union
  <2>5. {x.jobs[j].target, x.jobs[j].unit} = {x.jobs[j].target} \cup {x.jobs[j].unit}
      OBVIOUS
  <2>6. QED
      BY <1>1, <2>1, <2>2, <2>3, <2>4, <2>5, FS_Union
<1>4. IsFiniteSet(UNION all) /\ UNION all \in SUBSET Nat
  <2> HIDE DEF named
  <2>1. \A T \in all : IsFiniteSet(T) /\ T \in SUBSET Nat
      BY <1>3
  <2> HIDE DEF all
  <2>2. QED
      BY <1>2, <2>1, FS_UNION
<1> DEFINE T == {0} \cup S
<1>5. T \in SUBSET Nat /\ T # {} /\ IsFiniteSet(T)
  <2> HIDE DEF all
  <2>1. IsFiniteSet(S) /\ S \in SUBSET Nat
      BY <1>1, <1>4, FS_Union
  <2> HIDE DEF S
  <2>2. IsFiniteSet(T)
      BY <2>1, FS_Singleton, FS_Union
  <2>3. QED
      BY <2>1, <2>2
<1>6. FreshUnit(x) = 1 + Max(T)
  <2>1. T = {0} \cup DOMAIN x.segs \cup x.explicit.scope \cup UNION all
      OBVIOUS
  <2>2. QED
      BY <2>1 DEF FreshUnit
<1>7. /\ DOMAIN x.segs \cup x.explicit.scope \subseteq T
      /\ \A j \in DOMAIN x.jobs : x.jobs[j].unit \in T /\ x.jobs[j].inputs \subseteq T
    OBVIOUS
<1> HIDE DEF T
<1>8. Max(T) \in Nat /\ \A n \in T : n < 1 + Max(T)
  <2>1. Max(T) \in T /\ \A n \in T : n <= Max(T)
      BY <1>5, MaxIs
  <2>2. \A m, n \in Nat : n <= m => n < 1 + m
      OBVIOUS
  <2>3. \A n \in T : n \in Nat
      BY <1>5
  <2>4. QED
      BY <2>1, <2>2, <2>3
<1>9. QED
    BY <1>6, <1>7, <1>8 DEF Units

\* A job that begins, with its permit and, when it is a flush, with something to flush.
LEMMA BegunIs ==
    ASSUME NEW x, Good(x), NEW job \in DOMAIN x.jobs, NEW p \in x.sched.permits, p.job = job,
           x.jobs[job].kind = "flush" => x.frozen # <<>>,
           NEW y, Fields(y), y.sched = x.sched, y.reserved = x.reserved, y.segs = x.segs,
           y.frozen = x.frozen, y.ckpt = x.ckpt, y.visible = x.visible, y.explicit = x.explicit,
           DOMAIN y.jobs = DOMAIN x.jobs,
           \A j \in DOMAIN x.jobs \ {job} : y.jobs[j] = x.jobs[j],
           IsEntry(y.jobs[job]), y.jobs[job].kind = x.jobs[job].kind,
           y.jobs[job].inputs = x.jobs[job].inputs, y.jobs[job].target = x.jobs[job].target,
           y.jobs[job].cancelled = x.jobs[job].cancelled
    PROVE  Keeps(x, y)
<1>1. /\ Fields(x) /\ Consistent(x.sched) /\ Pumped(x.sched) /\ Table(x) /\ Matched(x) /\ Ordered(x)
      /\ Stored(x) /\ Reserves(x) /\ Scoped(x)
    BY DEF Good
<1>2. Ordered(y) /\ Stored(y) /\ Scoped(y)
    BY <1>1 DEF Ordered, Stored, Scoped
<1>3. \A j \in DOMAIN x.jobs :
         /\ y.jobs[j].kind = x.jobs[j].kind /\ y.jobs[j].inputs = x.jobs[j].inputs
         /\ y.jobs[j].target = x.jobs[j].target /\ y.jobs[j].cancelled = x.jobs[j].cancelled
    OBVIOUS
<1>4. Table(y)
    BY <1>1 DEF Table
<1>5. Matched(y)
    BY <1>1 DEF Matched
<1>6. Inputs(y) = Inputs(x)
    BY <1>3 DEF Inputs
<1>7. OfKind(y, "flush") = OfKind(x, "flush")
    BY <1>3 DEF OfKind
<1>8. Reserves(y)
  <2>1. \A j \in DOMAIN y.jobs : y.jobs[j].target \in Inputs(y) => y.jobs[j].cancelled
      BY <1>1, <1>3, <1>6 DEF Reserves
  <2>2. \A i, j \in DOMAIN y.jobs : i # j => y.jobs[i].inputs \cap y.jobs[j].inputs = {}
      BY <1>1, <1>3 DEF Reserves
  <2>3. ASSUME NEW j \in OfKind(y, "flush"), y.jobs[j].running PROVE y.frozen # <<>>
    <3>1. j \in DOMAIN x.jobs /\ x.jobs[j].kind = "flush"
        BY <1>7 DEF OfKind
    <3>2. CASE j = job
        BY <3>1, <3>2
    <3>3. CASE j # job
        BY <1>1, <1>7, <2>3, <3>1, <3>3 DEF Reserves
    <3>4. QED
        BY <3>2, <3>3
  <2>4. QED
      BY <1>1, <1>6, <1>7, <2>1, <2>2, <2>3 DEF Reserves
<1>9. Alien(y) = Alien(x)
    BY DEF Alien
<1>10. QED
    BY <1>1, <1>2, <1>4, <1>5, <1>8, <1>9 DEF Keeps, Good

\* A job that begins: its entry runs, and has the unit of its output.
Begun(x, job) == [x EXCEPT !.jobs[job].running = TRUE, !.jobs[job].unit = FreshUnit(x)]

\* Apart from its own entry and what that entry says of its run, nothing changes.
LEMMA BegunFields ==
    ASSUME NEW x, Good(x), NEW job \in DOMAIN x.jobs
    PROVE  LET y == Begun(x, job)
           IN /\ Fields(y) /\ y.sched = x.sched /\ y.reserved = x.reserved
              /\ y.segs = x.segs /\ y.frozen = x.frozen /\ y.ckpt = x.ckpt
              /\ y.visible = x.visible /\ y.explicit = x.explicit
              /\ y.answer = x.answer /\ y.flushWaiters = x.flushWaiters
              /\ DOMAIN y.jobs = DOMAIN x.jobs
              /\ \A j \in DOMAIN x.jobs \ {job} : y.jobs[j] = x.jobs[j]
              /\ IsEntry(y.jobs[job]) /\ y.jobs[job].kind = x.jobs[job].kind
              /\ y.jobs[job].inputs = x.jobs[job].inputs /\ y.jobs[job].target = x.jobs[job].target
              /\ y.jobs[job].cancelled = x.jobs[job].cancelled /\ y.jobs[job].unit = FreshUnit(x)
<1> DEFINE entry == x.jobs[job]
           unit == FreshUnit(x)
           e == [entry EXCEPT !.running = TRUE]
           f == [e EXCEPT !.unit = unit]
           a == [x EXCEPT !.jobs[job] = e]
           y == Begun(x, job)
<1>1. Fields(x) /\ IsEntry(entry) /\ unit \in Units
    BY FreshUnitIs DEF Good, Table
<1>2. y = [a EXCEPT !.jobs[job].unit = unit]
    BY DEF Begun
<1> HIDE DEF unit, e, y
<1>3. a.jobs = [x.jobs EXCEPT ![job] = e] /\ DOMAIN a = DOMAIN x /\ \A n \in DOMAIN x \ {"jobs"} : a[n] = x[n]
    BY <1>1 DEF Fields
<1> HIDE DEF a
<1>4. a.jobs[job] = e /\ DOMAIN a.jobs = DOMAIN x.jobs
    BY <1>3
<1>5. y.jobs = [a.jobs EXCEPT ![job] = f] /\ DOMAIN y = DOMAIN a
      /\ \A n \in DOMAIN a \ {"jobs"} : y[n] = a[n]
    BY <1>1, <1>2, <1>3, <1>4 DEF Fields
<1>6. y.jobs[job] = f /\ DOMAIN y.jobs = DOMAIN x.jobs
      /\ \A j \in DOMAIN x.jobs \ {job} : y.jobs[j] = x.jobs[j]
    BY <1>3, <1>4, <1>5
<1> HIDE DEF entry
<1>7. /\ f.kind = entry.kind /\ f.inputs = entry.inputs /\ f.target = entry.target
      /\ f.cancelled = entry.cancelled /\ f.running = TRUE /\ f.unit = unit
      /\ DOMAIN f = DOMAIN entry
    BY <1>1 DEF IsEntry, e
<1> HIDE DEF f
<1>8. IsEntry(f)
    BY <1>1, <1>7 DEF IsEntry, Units
<1>9. DOMAIN y = DOMAIN x /\ \A n \in DOMAIN x \ {"jobs"} : y[n] = x[n]
    BY <1>3, <1>5
<1>10. /\ Fields(y) /\ y.sched = x.sched /\ y.reserved = x.reserved
       /\ y.segs = x.segs /\ y.frozen = x.frozen /\ y.ckpt = x.ckpt
       /\ y.visible = x.visible /\ y.explicit = x.explicit
       /\ y.answer = x.answer /\ y.flushWaiters = x.flushWaiters
    BY <1>1, <1>9 DEF Fields
<1>11. QED
    BY <1>6, <1>7, <1>8, <1>10 DEF y, unit, entry

\* Once out of the table, a job that had just begun leaves what one that had not leaves.
LEMMA BegunGone ==
    ASSUME NEW x, Good(x), NEW job \in DOMAIN x.jobs,
           \A r \in ToSet(x.sched.queue) : r.job # job
    PROVE  LET b == RemoveJob(Begun(x, job), job)
           IN Keeps(x, b) /\ Silent(x, b) /\ job \notin DOMAIN b.jobs
<1> DEFINE y == Begun(x, job)
           r == RemoveJob(x, job)
           b == RemoveJob(y, job)
<1>1. /\ Keeps(x, r) /\ job \notin DOMAIN r.jobs /\ r.sched = x.sched /\ r.segs = x.segs
      /\ r.frozen = x.frozen /\ r.ckpt = x.ckpt /\ r.visible = x.visible /\ r.explicit = x.explicit
    BY RemoveJobIs
<1>2. /\ Fields(y) /\ y.sched = x.sched /\ y.reserved = x.reserved
      /\ y.segs = x.segs /\ y.frozen = x.frozen /\ y.ckpt = x.ckpt
      /\ y.visible = x.visible /\ y.explicit = x.explicit
      /\ y.answer = x.answer /\ y.flushWaiters = x.flushWaiters
      /\ DOMAIN y.jobs = DOMAIN x.jobs
      /\ \A j \in DOMAIN x.jobs \ {job} : y.jobs[j] = x.jobs[j]
      /\ y.jobs[job].inputs = x.jobs[job].inputs
    BY BegunFields
<1> HIDE DEF y
<1>3. /\ b.sched = y.sched /\ b.segs = y.segs /\ b.frozen = y.frozen
      /\ b.ckpt = y.ckpt /\ b.visible = y.visible /\ b.explicit = y.explicit
      /\ b.answer = y.answer /\ b.flushWaiters = y.flushWaiters
      /\ b.reserved = y.reserved \ y.jobs[job].inputs /\ Fields(b)
      /\ b.jobs = Restrict(y.jobs, DOMAIN y.jobs \ {job})
    BY <1>2 DEF RemoveJob, Fields
<1>4. r.reserved = x.reserved \ x.jobs[job].inputs /\ r.jobs = Restrict(x.jobs, DOMAIN x.jobs \ {job})
    BY DEF RemoveJob, Fields, Good
<1> HIDE DEF b, r
<1>5. b.jobs = r.jobs
  <2>1. Restrict(y.jobs, DOMAIN x.jobs \ {job}) = Restrict(x.jobs, DOMAIN x.jobs \ {job})
      BY <1>2 DEF Restrict
  <2>2. QED
      BY <1>2, <1>3, <1>4, <2>1
<1>6. Scoped(b)
    BY <1>2, <1>3 DEF Scoped, Good
<1>7. Same(r, b)
    BY <1>1, <1>2, <1>3, <1>4, <1>5, <1>6 DEF Same
<1>8. Keeps(x, b)
    BY <1>1, <1>7, SameKeeps, KeepsTwice DEF Keeps
<1>9. DOMAIN b.jobs \subseteq DOMAIN x.jobs /\ \A j \in DOMAIN b.jobs : b.jobs[j] = x.jobs[j]
    BY <1>4, <1>5 DEF Restrict
<1>10. GoOn(x, b)
    BY <1>9, FewerGoOn
<1>11. Silent(x, b)
    BY <1>2, <1>3, <1>10 DEF Silent
<1>12. QED
    BY <1>1, <1>5, <1>8, <1>11 DEF b, y

\* The job of a permit begins, ends at once, or is gone.
LEMMA BeginIs ==
    ASSUME IInv, NEW p \in OwnPermits, Begin(p)
    PROVE  Keeps(w, w')
<1> DEFINE job == p.job
           entry == w.jobs[job]
           unit == FreshUnit(w)
           begun == Begun(w, job)
           x == IF Refused(w) THEN DropPermit(w, job) ELSE begun
<1>1. Good(w) /\ p \in w.sched.permits /\ job > 0 /\ job \notin Running(w)
    BY DEF IInv, OwnPermits, Begin
<1>2. /\ Fields(w) /\ Consistent(w.sched) /\ Pumped(w.sched) /\ Table(w) /\ Matched(w) /\ Ordered(w)
      /\ Stored(w) /\ Reserves(w) /\ Scoped(w)
    BY <1>1 DEF Good
<1>3. \A r \in ToSet(w.sched.queue) : r.job # job
    BY <1>1, <1>2 DEF Consistent, Distinct, ToSet
<1>4. Keeps(w, DropPermit(w, job)) /\ DropPermit(w, job).jobs = w.jobs
      /\ ToSet(DropPermit(w, job).sched.queue) \subseteq ToSet(w.sched.queue)
    BY <1>1, DropPermitIs
<1>5. unit \in Units
    BY <1>1, FreshUnitIs
<1>6. ASSUME job \in DOMAIN w.jobs
      PROVE  /\ Fields(begun) /\ begun.sched = w.sched /\ begun.reserved = w.reserved
             /\ begun.segs = w.segs /\ begun.frozen = w.frozen /\ begun.ckpt = w.ckpt
             /\ begun.visible = w.visible /\ begun.explicit = w.explicit
             /\ DOMAIN begun.jobs = DOMAIN w.jobs
             /\ \A j \in DOMAIN w.jobs \ {job} : begun.jobs[j] = w.jobs[j]
             /\ IsEntry(begun.jobs[job]) /\ begun.jobs[job].kind = entry.kind
             /\ begun.jobs[job].inputs = entry.inputs /\ begun.jobs[job].target = entry.target
             /\ begun.jobs[job].cancelled = entry.cancelled /\ begun.jobs[job].unit = unit
    BY <1>1, <1>6, BegunFields
<1> HIDE DEF begun, unit
<1>7. ASSUME job \in DOMAIN w.jobs, entry.kind = "flush" => w.frozen # <<>>
      PROVE  Keeps(w, begun)
    BY <1>1, <1>6, <1>7, BegunIs
<1>8. ASSUME job \in DOMAIN w.jobs
      PROVE  Keeps(w, DoFreeze(begun))
  <2> DEFINE v == DoFreeze(w)
             z == DoFreeze(begun)
  <2>1. Keeps(w, v) /\ v.frozen # <<>> /\ Good(v)
      BY <1>1, DoFreezeIs DEF Keeps
  <2>2. /\ v.sched = w.sched /\ v.reserved = w.reserved /\ v.segs = w.segs
        /\ v.frozen = Append(w.frozen, w.visible) /\ v.ckpt = w.ckpt /\ v.jobs = w.jobs
        /\ v.visible = w.visible /\ v.explicit = w.explicit
      BY <1>2 DEF DoFreeze, Fields
  <2>3. /\ z.sched = w.sched /\ z.reserved = w.reserved /\ z.segs = w.segs
        /\ z.frozen = Append(w.frozen, w.visible) /\ z.ckpt = w.ckpt /\ z.jobs = begun.jobs
        /\ z.visible = w.visible /\ z.explicit = w.explicit /\ Fields(z)
      BY <1>6, <1>8 DEF DoFreeze, Fields
  <2> HIDE DEF v, z
  <2> HIDE DEF entry, job, unit
  <2>4. Keeps(v, z)
    <3>1. Good(v) /\ job \in DOMAIN v.jobs /\ p \in v.sched.permits /\ p.job = job
        BY <1>1, <1>8, <2>1, <2>2 DEF job
    <3>2. v.jobs[job].kind = "flush" => v.frozen # <<>>
        BY <2>1
    <3>3. /\ Fields(z) /\ z.sched = v.sched /\ z.reserved = v.reserved /\ z.segs = v.segs
          /\ z.frozen = v.frozen /\ z.ckpt = v.ckpt /\ z.visible = v.visible /\ z.explicit = v.explicit
        BY <2>2, <2>3
    <3>4. v.jobs = w.jobs /\ w.jobs[job] = entry /\ z.jobs = begun.jobs
        BY <2>2, <2>3 DEF entry
    <3>5. /\ DOMAIN z.jobs = DOMAIN v.jobs /\ \A j \in DOMAIN v.jobs \ {job} : z.jobs[j] = v.jobs[j]
          /\ IsEntry(z.jobs[job]) /\ z.jobs[job].kind = v.jobs[job].kind
          /\ z.jobs[job].inputs = v.jobs[job].inputs /\ z.jobs[job].target = v.jobs[job].target
          /\ z.jobs[job].cancelled = v.jobs[job].cancelled
        BY <1>6, <1>8, <3>4
    <3>6. QED
        BY <3>1, <3>2, <3>3, <3>5, BegunIs
  <2>5. Keeps(w, z)
      BY <2>1, <2>4, KeepsTwice
  <2>6. QED
      BY <2>5 DEF z
<1>9. ASSUME job \in DOMAIN w.jobs, NEW outcome, NEW error
      PROVE  Keeps(w, EndJob(x, job, outcome, error))
  <2>1. CASE Refused(w)
    <3> DEFINE d == DropPermit(w, job)
    <3> HIDE DEF d
    <3>1. Good(d) /\ Keeps(w, d) /\ d.jobs = w.jobs /\ \A q \in ToSet(d.sched.queue) : q.job # job
        BY <1>3, <1>4 DEF Keeps, d
    <3>2. Keeps(d, RemoveJob(d, job)) /\ job \notin DOMAIN RemoveJob(d, job).jobs
        BY <1>9, <3>1, RemoveJobIs
    <3>3. IsEntry(d.jobs[job])
        BY <1>9, <3>1 DEF Good, Table
    <3>4. d.jobs[job].unit \in Nat
        BY <3>3 DEF IsEntry
    <3>5. Keeps(RemoveJob(d, job), EndJob(d, job, outcome, error))
        BY <3>2, <3>4, EndJobIs DEF Keeps
    <3>6. Keeps(w, EndJob(d, job, outcome, error))
        BY <3>1, <3>2, <3>5, KeepsTwice
    <3>7. x = d
        BY <2>1 DEF d
    <3>8. QED
        BY <3>6, <3>7
  <2>2. CASE ~Refused(w)
    <3> DEFINE b == RemoveJob(begun, job)
    <3>1. Keeps(w, b) /\ job \notin DOMAIN b.jobs
        BY <1>1, <1>3, <1>9, BegunGone DEF begun
    <3>2. begun.jobs[job].unit \in Nat
        BY <1>5, <1>6, <1>9 DEF Units
    <3>3. Keeps(b, EndJob(begun, job, outcome, error))
        BY <3>1, <3>2, EndJobIs DEF Keeps
    <3> HIDE DEF b
    <3>4. Keeps(w, EndJob(begun, job, outcome, error))
        BY <3>1, <3>3, KeepsTwice
    <3>5. x = begun
        BY <2>2
    <3>6. QED
        BY <3>4, <3>5
  <2>3. QED
      BY <2>1, <2>2
<1> DEFINE freeze == entry.kind = "flush" /\ w.frozen = <<>> /\ HasOps(w)
           ready == CASE entry.kind = "flush" -> w.frozen # <<>> \/ HasOps(w)
                      [] entry.kind = "compact" -> entry.inputs # {}
                      [] entry.kind = "index" ->
                           entry.target \in DOMAIN w.segs /\ ~w.segs[entry.target].index
<1>10. PICK ok \in BOOLEAN :
         w' = CASE job \notin DOMAIN w.jobs -> DropPermit(w, job)
                [] job \in DOMAIN w.jobs /\ ~Refused(w) /\ ok /\ ready ->
                     IF freeze THEN DoFreeze(begun) ELSE begun
                [] OTHER -> EndJob(x, job, IF Refused(w) \/ ~ok THEN "failed" ELSE "nothing",
                                   IF Refused(w) THEN "refusal" ELSE "transient")
    BY DEF Begin, begun, Begun
<1>11. entry.kind = "flush" /\ ready => w.frozen # <<>> \/ HasOps(w)
    OBVIOUS
<1> HIDE DEF ready, x
<1>12. CASE job \notin DOMAIN w.jobs
    BY <1>4, <1>10, <1>12
<1>13. CASE job \in DOMAIN w.jobs /\ ~Refused(w) /\ ok /\ ready
  <2>1. w' = IF freeze THEN DoFreeze(begun) ELSE begun
      BY <1>10, <1>13
  <2>2. ~freeze => (entry.kind = "flush" => w.frozen # <<>>)
      BY <1>11, <1>13
  <2>3. QED
      BY <1>7, <1>8, <1>13, <2>1, <2>2
<1>14. CASE job \in DOMAIN w.jobs /\ ~(~Refused(w) /\ ok /\ ready)
  <2> DEFINE outcome == IF Refused(w) \/ ~ok THEN "failed" ELSE "nothing"
             error == IF Refused(w) THEN "refusal" ELSE "transient"
  <2>1. w' = EndJob(x, job, outcome, error)
      BY <1>10, <1>14
  <2> HIDE DEF outcome, error
  <2>2. QED
      BY <1>9, <1>14, <2>1
<1>15. QED
    BY <1>12, <1>13, <1>14

Segments(f) ==
    IsFiniteSet(DOMAIN f) /\ DOMAIN f \in SUBSET Units /\ \A u \in DOMAIN f : IsSegment(f[u])

\* A new segment leaves the others as they are.
LEMMA NewSegmentIs ==
    ASSUME NEW f, Segments(f), NEW unit \in Units, NEW rows \in Nat
    PROVE  Segments(NewSegment(f, unit, rows)) /\ DOMAIN f \subseteq DOMAIN NewSegment(f, unit, rows)
<1> DEFINE g == [rows |-> rows, deleted |-> 0, index |-> FALSE]
           h == Put(f, unit, g)
<1>1. IsSegment(g)
    BY DEF IsSegment
<1> HIDE DEF g
<1>2. DOMAIN h = DOMAIN f \cup {unit} /\ \A u \in DOMAIN h : h[u] = IF u = unit THEN g ELSE f[u]
    BY DEF Put
<1> HIDE DEF h
<1>3. Segments(h)
    BY <1>1, <1>2, FS_AddElement DEF Segments
<1>4. NewSegment(f, unit, rows) = IF rows = 0 THEN f ELSE h
    BY DEF NewSegment, h, g
<1>5. QED
    BY <1>2, <1>3, <1>4

\* A commit moves the checkpoint and the segments, once its job has left the table.
LEMMA AdvancedKeeps ==
    ASSUME NEW x, Good(x), NEW y, Fields(y), y.sched = x.sched, y.jobs = x.jobs,
           y.reserved = x.reserved, y.visible = x.visible, y.explicit = x.explicit,
           Ordered(y), Segments(y.segs), Inputs(x) \subseteq DOMAIN y.segs,
           OfKind(x, "flush") = {} \/ y.frozen = x.frozen
    PROVE  Keeps(x, y)
<1>1. /\ Fields(x) /\ Consistent(x.sched) /\ Pumped(x.sched) /\ Table(x) /\ Matched(x)
      /\ Reserves(x) /\ Scoped(x)
    BY DEF Good
<1>2. Table(y) /\ Matched(y) /\ Scoped(y) /\ Stored(y)
    BY <1>1 DEF Table, Matched, Scoped, Stored, Segments
<1>3. Reserves(y)
  <2>1. Inputs(y) = Inputs(x) /\ OfKind(y, "flush") = OfKind(x, "flush")
      BY DEF Inputs, OfKind
  <2>2. \A j \in OfKind(y, "flush") : y.jobs[j].running => y.frozen # <<>>
      BY <1>1, <2>1 DEF Reserves
  <2>3. QED
      BY <1>1, <2>1, <2>2 DEF Reserves
<1>4. Alien(y) = Alien(x)
    BY DEF Alien
<1>5. QED
    BY <1>1, <1>2, <1>3, <1>4 DEF Keeps, Good

\* A flushed memtable moves the checkpoint to its end, below the next one.
LEMMA FlushedOrdered ==
    ASSUME NEW x, Ordered(x), x.frozen # <<>>
    PROVE  /\ Head(x.frozen) - x.ckpt \in Nat
           /\ \A y : y.visible = x.visible /\ y.ckpt = Head(x.frozen) /\ y.frozen = Tail(x.frozen) => Ordered(y)
<1> DEFINE q == x.frozen
           t == Tail(q)
<1>1. /\ x.visible \in Nat /\ x.ckpt \in Nat /\ q \in Seq(Nat) /\ q # <<>>
      /\ \A i \in DOMAIN q : x.ckpt <= q[i] /\ q[i] <= x.visible
      /\ \A i, j \in DOMAIN q : i <= j => q[i] <= q[j]
    BY DEF Ordered
<1>2. /\ Len(q) \in Nat /\ DOMAIN q = 1..Len(q) /\ 1 \in DOMAIN q /\ Head(q) = q[1] /\ q[1] \in Nat
    BY <1>1
<1>3. /\ t \in Seq(Nat) /\ DOMAIN t = 1..(Len(q) - 1) /\ \A i \in DOMAIN t : t[i] = q[i + 1]
    BY <1>1, <1>2
<1>4. \A i \in DOMAIN t : i + 1 \in DOMAIN q /\ 1 <= i + 1
    BY <1>2, <1>3
<1> HIDE DEF t, q
<1>5. \A i \in DOMAIN t : q[1] <= t[i] /\ t[i] <= x.visible
    BY <1>1, <1>2, <1>3, <1>4
<1>6. \A i, j \in DOMAIN t : i <= j => t[i] <= t[j]
  <2>1. \A i, j \in DOMAIN t : i <= j => i + 1 <= j + 1
      BY <1>3
  <2>2. QED
      BY <1>1, <1>3, <1>4, <2>1
<1>7. x.ckpt <= q[1] /\ q[1] <= x.visible
    BY <1>1, <1>2
<1>8. Head(q) - x.ckpt \in Nat
    BY <1>1, <1>2, <1>7
<1>9. ASSUME NEW y, y.visible = x.visible, y.ckpt = Head(q), y.frozen = t PROVE Ordered(y)
    BY <1>1, <1>2, <1>3, <1>5, <1>6, <1>7, <1>9 DEF Ordered
<1>10. QED
    BY <1>8, <1>9 DEF q, t

\* A job commits and leaves the table.
LEMMA CommittedIs ==
    ASSUME NEW x, Good(x), NEW job \in Running(x)
    PROVE  LET y == Committed(x, x.jobs[job])
               z == RemoveJob(y, job)
           IN Keeps(x, z) /\ job \notin DOMAIN z.jobs /\ y.jobs[job].unit \in Nat
<1> DEFINE e == x.jobs[job]
           y == Committed(x, e)
           z == RemoveJob(y, job)
           r == RemoveJob(x, job)
           left == LiveSum(ByUnit({c \in Candidates(x) : c.unit \in e.inputs}))
           merged == Restrict(x.segs, DOMAIN x.segs \ e.inputs)
<1>1. /\ Fields(x) /\ Consistent(x.sched) /\ Pumped(x.sched) /\ Table(x) /\ Matched(x) /\ Ordered(x)
      /\ Stored(x) /\ Reserves(x) /\ Scoped(x)
    BY DEF Good
<1>2. /\ job \in DOMAIN x.jobs /\ IsEntry(e) /\ e.running
      /\ \A q \in ToSet(x.sched.queue) : q.job # job
    BY RunningIs
<1>3. /\ Keeps(x, r) /\ job \notin DOMAIN r.jobs /\ OfKind(r, "flush") = OfKind(x, "flush") \ {job}
      /\ Inputs(r) \cap e.inputs = {}
      /\ r.sched = x.sched /\ r.segs = x.segs /\ r.frozen = x.frozen /\ r.ckpt = x.ckpt
      /\ r.visible = x.visible /\ r.explicit = x.explicit
    BY <1>2, RemoveJobIs
<1>4. Segments(x.segs)
    BY <1>1 DEF Stored, Segments
<1>5. e.kind \in Kinds /\ e.unit \in Nat /\ e.unit # 0 /\ e.unit \in Units
    BY <1>2 DEF IsEntry, Units
<1>6. Good(r) /\ Reserves(r) /\ Ordered(r) /\ Inputs(r) \subseteq DOMAIN x.segs
    BY <1>3 DEF Keeps, Good, Reserves
\* What leaves the table is the same as without the commit.
<1>7. ASSUME Fields(y), y.sched = x.sched, y.jobs = x.jobs, y.reserved = x.reserved,
             y.visible = x.visible, y.explicit = x.explicit,
             Ordered(y), Segments(y.segs), Inputs(r) \subseteq DOMAIN y.segs,
             OfKind(r, "flush") = {} \/ y.frozen = x.frozen
      PROVE  Keeps(x, z) /\ job \notin DOMAIN z.jobs /\ y.jobs[job].unit \in Nat
  <2>1. /\ z.sched = r.sched /\ z.jobs = r.jobs /\ z.reserved = r.reserved /\ z.visible = r.visible
        /\ z.explicit = r.explicit /\ Fields(z) /\ z.segs = y.segs /\ z.ckpt = y.ckpt /\ z.frozen = y.frozen
    <3> HIDE DEF y
    <3>1. QED
        BY <1>1, <1>3, <1>7 DEF RemoveJob, Fields
  <2> HIDE DEF y, z
  <2>2. Ordered(z)
      BY <1>3, <1>7, <2>1 DEF Ordered
  <2>3. Keeps(r, z)
      BY <1>3, <1>6, <1>7, <2>1, <2>2, AdvancedKeeps
  <2>4. QED
      BY <1>3, <1>5, <1>7, <2>1, <2>3, KeepsTwice
<1> HIDE DEF z, r
<1>8. CASE e.kind = "flush"
  <2>1. job \in OfKind(x, "flush")
      BY <1>2, <1>8 DEF OfKind
  <2>2. x.frozen # <<>> /\ OfKind(r, "flush") = {}
      BY <1>1, <1>2, <1>3, <2>1 DEF Reserves
  <2> DEFINE rows == Head(x.frozen) - x.ckpt
             segs == NewSegment(x.segs, e.unit, rows)
  <2>3. rows \in Nat
      BY <1>1, <2>2, FlushedOrdered
  <2>4. y = [x EXCEPT !.ckpt = Head(x.frozen), !.frozen = Tail(x.frozen), !.segs = segs]
      BY <1>1, <1>8 DEF Committed, Fields
  <2> HIDE DEF rows, e
  <2>5. Segments(segs) /\ DOMAIN x.segs \subseteq DOMAIN segs
      BY <1>4, <1>5, <2>3, NewSegmentIs
  <2> HIDE DEF segs, y
  <2>6. /\ Fields(y) /\ y.sched = x.sched /\ y.jobs = x.jobs /\ y.reserved = x.reserved
        /\ y.visible = x.visible /\ y.explicit = x.explicit
        /\ y.ckpt = Head(x.frozen) /\ y.frozen = Tail(x.frozen) /\ y.segs = segs
      BY <1>1, <2>4 DEF Fields
  <2>7. Ordered(y)
      BY <1>1, <2>2, <2>6, FlushedOrdered
  <2>8. Inputs(r) \subseteq DOMAIN y.segs
      BY <1>6, <2>5, <2>6
  <2>9. QED
      BY <1>7, <2>2, <2>5, <2>6, <2>7, <2>8 DEF y, z, e
<1>9. CASE e.kind = "compact"
  <2> DEFINE S == {c \in Candidates(x) : c.unit \in e.inputs}
             segs == NewSegment(merged, e.unit, left)
  <2>1. left \in Nat
    <3>1. S \in SUBSET Candidate /\ Unique(S) /\ IsFiniteSet(S)
        BY CandidatesAre, FS_Subset DEF Unique
    <3> HIDE DEF S
    <3>2. ByUnit(S) \in Seq(S)
        BY <3>1, ListsAre DEF Listed
    <3>3. ByUnit(S) \in Seq(Candidate)
        BY <3>1, <3>2
    <3>4. LiveSum(ByUnit(S)) \in Nat
        BY <3>3, LiveSumIs
    <3>5. QED
        BY <3>4 DEF S
  <2>2. y = [x EXCEPT !.segs = segs]
      BY <1>1, <1>9 DEF Committed, Fields
  <2> HIDE DEF left
  <2>3. Segments(merged) /\ DOMAIN merged = DOMAIN x.segs \ e.inputs
    <3>1. DOMAIN merged = DOMAIN x.segs \ e.inputs /\ \A u \in DOMAIN merged : merged[u] = x.segs[u]
        BY DEF Restrict
    <3> HIDE DEF merged
    <3>2. IsFiniteSet(DOMAIN merged)
        BY <1>4, <3>1, FS_Difference DEF Segments
    <3>3. QED
        BY <1>4, <3>1, <3>2 DEF Segments
  <2> HIDE DEF merged
  <2>4. Segments(segs) /\ DOMAIN merged \subseteq DOMAIN segs
      BY <1>5, <2>1, <2>3, NewSegmentIs
  <2> HIDE DEF segs, y
  <2>5. /\ Fields(y) /\ y.sched = x.sched /\ y.jobs = x.jobs /\ y.reserved = x.reserved
        /\ y.visible = x.visible /\ y.explicit = x.explicit
        /\ y.ckpt = x.ckpt /\ y.frozen = x.frozen /\ y.segs = segs
      BY <1>1, <2>2 DEF Fields
  <2>6. Ordered(y)
      BY <1>1, <2>5 DEF Ordered
  <2>7. Inputs(r) \subseteq DOMAIN y.segs
      BY <1>3, <1>6, <2>3, <2>4, <2>5
  <2>8. QED
      BY <1>7, <2>4, <2>5, <2>6, <2>7 DEF y, z, e
<1>10. CASE e.kind = "index"
  <2>1. CASE e.target \notin DOMAIN x.segs
    <3>1. y = x
        BY <1>10, <2>1 DEF Committed
    <3>2. QED
        BY <1>1, <1>4, <1>6, <1>7, <3>1 DEF z
  <2>2. CASE e.target \in DOMAIN x.segs
    <3> DEFINE g == x.segs[e.target]
               h == [g EXCEPT !.index = TRUE]
               segs == [x.segs EXCEPT ![e.target] = h]
    <3>1. y = [x EXCEPT !.segs = segs]
        BY <1>1, <1>10, <2>2 DEF Committed, Fields
    <3>2. IsSegment(g)
        BY <1>4, <2>2 DEF Segments
    <3>3. IsSegment(h)
      <4> HIDE DEF g
      <4>1. QED
          BY <3>2 DEF IsSegment
    <3> HIDE DEF h
    <3>4. DOMAIN segs = DOMAIN x.segs /\ Segments(segs)
        BY <1>4, <3>3 DEF Segments
    <3> HIDE DEF segs, y
    <3>5. /\ Fields(y) /\ y.sched = x.sched /\ y.jobs = x.jobs /\ y.reserved = x.reserved
          /\ y.visible = x.visible /\ y.explicit = x.explicit
          /\ y.ckpt = x.ckpt /\ y.frozen = x.frozen /\ y.segs = segs
        BY <1>1, <3>1 DEF Fields
    <3>6. Ordered(y)
        BY <1>1, <3>5 DEF Ordered
    <3>7. Inputs(r) \subseteq DOMAIN y.segs
        BY <1>6, <3>4, <3>5
    <3>8. QED
        BY <1>7, <3>4, <3>5, <3>6, <3>7 DEF y, z, e
  <2>3. QED
      BY <2>1, <2>2
<1>11. QED
    BY <1>5, <1>8, <1>9, <1>10 DEF Kinds, y, z, e

\* A job that is done commits, or is refused, and ends.
LEMMA JobDoneIs ==
    ASSUME Good(w), NEW j \in Running(w), JobDone(j)
    PROVE  Keeps(w, w')
<1> DEFINE entry == w.jobs[j]
           y == Committed(w, entry)
           outcome == IF entry.cancelled THEN "abandoned" ELSE IF Refused(w) THEN "failed" ELSE "committed"
<1>1. w' = EndJob(IF outcome = "committed" THEN y ELSE w, j, outcome, "refusal")
    BY DEF JobDone
<1>2. Keeps(w, RemoveJob(y, j)) /\ j \notin DOMAIN RemoveJob(y, j).jobs /\ y.jobs[j].unit \in Nat
    BY CommittedIs
<1> HIDE DEF outcome, y
<1>3. Keeps(RemoveJob(y, j), EndJob(y, j, outcome, "refusal"))
    BY <1>2, EndJobIs DEF Keeps
<1>4. Keeps(w, EndJob(y, j, outcome, "refusal"))
    BY <1>2, <1>3, KeepsTwice
<1>5. Keeps(w, EndJob(w, j, outcome, "refusal"))
    BY EndRunning
<1>6. QED
    BY <1>1, <1>4, <1>5

\* A job that fails ends, and may poison the collection.
LEMMA JobFailsIs ==
    ASSUME Good(w), NEW j \in Running(w), JobFails(j)
    PROVE  Keeps(w, w')
<1>1. PICK error \in {"transient", "lasting", "rename"} :
        LET cancelled == w.jobs[j].cancelled
            poisons == error = "rename" /\ ~Refused(w) /\ ~cancelled
        IN w' = EndJob(IF poisons THEN Poison(w) ELSE w, j, IF cancelled THEN "abandoned" ELSE "failed",
                       IF poisons THEN "transient" ELSE error)
    BY DEF JobFails
<1> DEFINE poisons == error = "rename" /\ ~Refused(w) /\ ~w.jobs[j].cancelled
           outcome == IF w.jobs[j].cancelled THEN "abandoned" ELSE "failed"
           said == IF poisons THEN "transient" ELSE error
<1>2. w' = EndJob(IF poisons THEN Poison(w) ELSE w, j, outcome, said)
    BY <1>1
<1> HIDE DEF poisons, outcome, said
<1>3. Keeps(w, Poison(w)) /\ Good(Poison(w)) /\ j \in Running(Poison(w))
    BY PoisonIs DEF Keeps
<1>4. Keeps(Poison(w), EndJob(Poison(w), j, outcome, said))
    BY <1>3, EndRunning
<1>5. Keeps(w, EndJob(Poison(w), j, outcome, said))
    BY <1>3, <1>4, KeepsTwice
<1>6. Keeps(w, EndJob(w, j, outcome, said))
    BY EndRunning
<1>7. QED
    BY <1>2, <1>5, <1>6

\* A build that panics abandons its job.
LEMMA JobPanicsIs ==
    ASSUME Good(w), NEW j \in Running(w), JobPanics(j)
    PROVE  Keeps(w, w')
    BY EndRunning DEF JobPanics

\* A write, and the flush it may ask for.
LEMMA WriteStep ==
    ASSUME Good(w), Write
    PROVE  Keeps(w, w')
<1>1. PICK u \in {0} \cup {u \in DOMAIN w.segs : w.segs[u].deleted < w.segs[u].rows} :
        w' = LET y == [w EXCEPT !.visible = @ + 1, !.armed = TRUE, !.quiet = FALSE,
                                !.segs = IF u = 0 THEN @ ELSE [w.segs EXCEPT ![u].deleted = w.segs[u].deleted + 1]]
             IN RequestFlush([y EXCEPT !.freezePending = @ \/ FreezeDue(y)])
    BY DEF Write
<1> DEFINE y == [w EXCEPT !.visible = @ + 1, !.armed = TRUE, !.quiet = FALSE,
                          !.segs = IF u = 0 THEN @ ELSE [w.segs EXCEPT ![u].deleted = w.segs[u].deleted + 1]]
           v == y.freezePending \/ FreezeDue(y)
           z == [y EXCEPT !.freezePending = v]
<1>2. Keeps(w, y) /\ Good(y)
    BY WriteIs DEF Keeps
<1>3. w' = RequestFlush(z)
    BY <1>1
<1> HIDE DEF y, v
<1>4. Keeps(y, z) /\ Good(z)
    BY <1>2, FieldSame, SameKeeps DEF Keeps
<1> HIDE DEF z
<1>5. Keeps(z, RequestFlush(z))
    BY <1>4, RequestFlushIs
<1>6. QED
    BY <1>2, <1>3, <1>4, <1>5, KeepsTwice

\* A pending freeze, and the flush it asks for.
LEMMA FreezePendingIs ==
    ASSUME Good(w), FreezePending
    PROVE  Keeps(w, w')
<1> DEFINE y == [w EXCEPT !.freezePending = FALSE]
<1>1. PICK ok \in BOOLEAN : w' = FreezeIfDue(y, ok)
    BY DEF FreezePending
<1>2. Keeps(w, y) /\ Good(y)
    BY FieldSame, SameKeeps DEF Keeps
<1> HIDE DEF y
<1>3. Keeps(y, FreezeIfDue(y, ok))
    BY <1>2, FreezeIfDueIs
<1>4. QED
    BY <1>1, <1>2, <1>3, KeepsTwice

\* An explicit flush is answered, or frozen and asked for.
LEMMA ExplicitFlushIs ==
    ASSUME Good(w), NEW q, ExplicitFlush(q)
    PROVE  Keeps(w, w')
<1> DEFINE armed == [w EXCEPT !.armed = TRUE]
           a == IF q = Budget THEN armed ELSE Answer(armed, {q}, "waiting")
           v == a.flushWaiters \cup {<<q, w.visible>>}
           asked == [a EXCEPT !.flushWaiters = v]
<1>1. PICK ok \in BOOLEAN :
         w' \in {Answer(w, {q}, "failed"), Answer(armed, {q}, "ok"), armed, RequestFlush(FreezeIfDue(asked, ok))}
    BY DEF ExplicitFlush
<1>2. Keeps(w, armed) /\ Good(armed)
    BY FieldSame, SameKeeps DEF Keeps
<1> HIDE DEF armed
<1>3. Keeps(w, Answer(w, {q}, "failed")) /\ Keeps(w, Answer(armed, {q}, "ok")) /\ Keeps(w, Answer(armed, {q}, "waiting"))
    BY <1>2, AnswerSame, SameKeeps, KeepsTwice
<1>4. Keeps(w, a) /\ Good(a)
    BY <1>2, <1>3 DEF Keeps
<1> HIDE DEF a, v
<1>5. Keeps(w, asked) /\ Good(asked)
    BY <1>4, FieldSame, SameKeeps, KeepsTwice DEF Keeps
<1> HIDE DEF asked
<1>6. Keeps(w, FreezeIfDue(asked, ok)) /\ Good(FreezeIfDue(asked, ok))
    BY <1>5, FreezeIfDueIs, KeepsTwice DEF Keeps
<1>7. Keeps(w, RequestFlush(FreezeIfDue(asked, ok)))
    BY <1>6, RequestFlushIs, KeepsTwice
<1>8. QED
    BY <1>1, <1>2, <1>3, <1>7

\* The segments that an explicit compaction is asked for join the scope.
CompactAsked(x, q) ==
    [Answer(x, {q}, "waiting") EXCEPT
       !.armed = TRUE, !.explicit.waiters = @ \cup {q}, !.explicit.scope = @ \cup DOMAIN x.segs]

LEMMA CompactAskedIs ==
    ASSUME NEW x, Good(x), NEW q
    PROVE  LET y == CompactAsked(x, q)
           IN /\ Same(x, y) /\ y.flushWaiters = x.flushWaiters
              /\ y.answer = [p \in Calls |-> IF p = q THEN "waiting" ELSE x.answer[p]]
              /\ y.explicit.waiters = x.explicit.waiters \cup {q}
              /\ y.explicit.scope = x.explicit.scope \cup DOMAIN x.segs
<1> DEFINE ans == [p \in Calls |-> IF p = q THEN "waiting" ELSE x.answer[p]]
           a == Answer(x, {q}, "waiting")
           b == [a EXCEPT !.armed = TRUE]
           e1 == [x.explicit EXCEPT !.waiters = @ \cup {q}]
           e == [e1 EXCEPT !.scope = @ \cup DOMAIN x.segs]
           c == [b EXCEPT !.explicit = e]
           asked == CompactAsked(x, q)
<1>1. Same(x, a) /\ Good(a)
    BY AnswerSame, SameKeeps DEF Keeps
<1>2. Fields(x) /\ Scoped(x) /\ Fields(a) /\ Stored(x)
    BY <1>1 DEF Good
<1>3. a.explicit = x.explicit /\ a.answer = ans /\ a.flushWaiters = x.flushWaiters
  <2>1. a = [x EXCEPT !.answer = ans]
      BY DEF Answer
  <2> HIDE DEF a, ans
  <2>2. QED
      BY <1>2, <2>1 DEF Fields
<1>4. asked = [[[a EXCEPT !.armed = TRUE] EXCEPT !.explicit.waiters = @ \cup {q}]
                 EXCEPT !.explicit.scope = @ \cup DOMAIN x.segs]
    BY DEF CompactAsked
<1> HIDE DEF a, ans, asked
<1>5. Same(a, b) /\ b.explicit = x.explicit /\ b.answer = ans /\ b.flushWaiters = x.flushWaiters
    BY <1>1, <1>2, <1>3, FieldSame DEF Fields
<1>6. Fields(b)
    BY <1>5 DEF Same
<1>7. asked = c
  <2>1. asked = [[b EXCEPT !.explicit.waiters = @ \cup {q}] EXCEPT !.explicit.scope = @ \cup DOMAIN x.segs]
      BY <1>4
  <2> HIDE DEF b
  <2> DEFINE b1 == [b EXCEPT !.explicit = e1]
  <2>2. asked = [b1 EXCEPT !.explicit.scope = @ \cup DOMAIN x.segs]
      BY <1>5, <1>6, <2>1 DEF Fields
  <2> HIDE DEF e1
  <2>3. b1.explicit = e1
      BY <1>6 DEF Fields
  <2>4. asked = [b1 EXCEPT !.explicit = e]
      BY <1>6, <2>2, <2>3 DEF Fields
  <2>5. QED
      BY <1>6, <2>4 DEF Fields
<1> HIDE DEF b
<1>8. /\ {"waiters", "scope", "merges", "rewrote"} \subseteq DOMAIN e
      /\ e.scope = x.explicit.scope \cup DOMAIN x.segs /\ e.waiters = x.explicit.waiters \cup {q}
    BY <1>2 DEF Scoped
<1> HIDE DEF e
<1>9. e.scope \in SUBSET Nat /\ IsFiniteSet(e.scope)
  <2>1. x.explicit.scope \in SUBSET Nat /\ IsFiniteSet(x.explicit.scope)
      BY <1>2 DEF Scoped
  <2>2. DOMAIN x.segs \in SUBSET Nat /\ IsFiniteSet(DOMAIN x.segs)
      BY <1>2 DEF Stored, Units
  <2>3. IsFiniteSet(x.explicit.scope \cup DOMAIN x.segs)
      BY <2>1, <2>2, FS_Union
  <2>4. QED
      BY <1>8, <2>1, <2>2, <2>3
<1>10. /\ Fields(c) /\ c.sched = b.sched /\ c.jobs = b.jobs /\ c.segs = b.segs /\ c.reserved = b.reserved
       /\ c.frozen = b.frozen /\ c.ckpt = b.ckpt /\ c.visible = b.visible /\ c.explicit = e
       /\ c.answer = b.answer /\ c.flushWaiters = b.flushWaiters
    BY <1>6 DEF Fields
<1> HIDE DEF c
<1>11. Same(b, c)
    BY <1>8, <1>9, <1>10 DEF Same, Scoped
<1>12. Same(x, c)
    BY <1>1, <1>5, <1>11, SameTwice
<1>13. QED
    BY <1>5, <1>7, <1>8, <1>10, <1>12 DEF asked, ans

\* Asking for an explicit compaction, and the schedule it starts.
LEMMA ExplicitCompactIs ==
    ASSUME Good(w), NEW q, ExplicitCompact(q)
    PROVE  Keeps(w, w')
<1> DEFINE asked == CompactAsked(w, q)
<1>1. w' \in {Answer(w, {q}, "failed"), Schedule(asked)}
    BY DEF ExplicitCompact, CompactAsked
<1>2. Keeps(w, asked) /\ Keeps(w, Answer(w, {q}, "failed"))
    BY CompactAskedIs, AnswerSame, SameKeeps
<1> HIDE DEF asked
<1>3. Keeps(w, Schedule(asked))
    BY <1>2, ScheduleIs, KeepsTwice DEF Keeps
<1>4. QED
    BY <1>1, <1>2, <1>3

\* What stops asks for nothing, runs nothing and holds nothing.
LEMMA StopIs ==
    ASSUME Good(w), Stop
    PROVE  Keeps(w, w')
<1> DEFINE y == CancelWaitingJobs(w)
           z == Answer(y, {q \in Calls : y.answer[q] = "waiting"}, "failed")
           P == {p \in z.sched.permits : p.job > 0}
           t == ReleaseAll(z.sched, P)
           x == [z EXCEPT !.sched = t, !.stopped = TRUE, !.jobs = <<>>, !.reserved = {},
                          !.flushWaiters = {}, !.explicit = NoExplicit, !.freezePending = FALSE]
<1>1. w' = x
    BY DEF Stop
<1>2. Keeps(w, y) /\ Good(y) /\ DOMAIN y.jobs = Running(y)
    BY CancelWaitingJobsIs DEF Keeps
<1> HIDE DEF y
<1>3. Same(y, z) /\ Keeps(w, z) /\ Good(z)
    BY <1>2, AnswerSame, SameKeeps, KeepsTwice DEF Keeps
<1> HIDE DEF z
<1>4. /\ Fields(z) /\ Consistent(z.sched) /\ Pumped(z.sched) /\ Table(z) /\ Matched(z) /\ Ordered(z) /\ Stored(z)
      /\ Scoped(z)
    BY <1>3 DEF Good
<1>5. DOMAIN z.jobs = Running(z)
    BY <1>2, <1>3 DEF Same, Running
<1>6. P \in SUBSET z.sched.permits
    OBVIOUS
<1>7. /\ Consistent(t) /\ Pumped(t) /\ Held(t) = Held(z.sched) \ P
      /\ z.sched.permits \ P \subseteq t.permits
    BY <1>4, <1>6, ReleaseAllIs
<1>8. \A r \in ToSet(z.sched.queue) : ~(r.job > 0)
  <2>1. SUFFICES ASSUME NEW r \in ToSet(z.sched.queue), r.job > 0 PROVE FALSE
      OBVIOUS
  <2>2. r.job \in DOMAIN z.jobs
      BY <1>4, <2>1 DEF Matched
  <2>3. \A q \in ToSet(z.sched.queue) : q.job # r.job
      BY <1>3, <1>5, <2>2, RunningIs
  <2>4. QED
      BY <2>1, <2>3
<1> HIDE DEF t
<1>9. \A r \in ToSet(t.queue) : ~(r.job > 0)
  <2>1. z.sched.permits \cap Held(t) \subseteq t.permits
      BY <1>7
  <2>2. ToSet(t.queue) \subseteq ToSet(z.sched.queue) \cup {}
      BY <1>7, <2>1, StillWaiting
  <2>3. QED
      BY <1>8, <2>2
<1>10. /\ Fields(x) /\ x.sched = t /\ x.jobs = <<>> /\ x.reserved = {} /\ x.explicit = NoExplicit
       /\ x.segs = z.segs /\ x.frozen = z.frozen /\ x.ckpt = z.ckpt /\ x.visible = z.visible
    BY <1>4 DEF Fields
<1> HIDE DEF x
<1>11. DOMAIN x.jobs = {}
    BY <1>10
<1>12. Table(x) /\ Matched(x)
    BY <1>9, <1>10, <1>11, FS_EmptySet DEF Table, Matched
<1>13. Ordered(x) /\ Stored(x)
    BY <1>4, <1>10 DEF Ordered, Stored
<1>14. Reserves(x)
    BY <1>10, <1>11 DEF Reserves, Inputs, OfKind
<1>15. Scoped(x)
    BY <1>10, FS_EmptySet DEF Scoped, NoExplicit
<1>16. Alien(x) \subseteq Alien(z)
    BY <1>7, <1>10 DEF Alien
<1>17. Keeps(z, x)
    BY <1>7, <1>10, <1>12, <1>13, <1>14, <1>15, <1>16 DEF Keeps, Good
<1>18. QED
    BY <1>1, <1>3, <1>17, KeepsTwice

\* The drop's steps, the clock and the failures of the log.
LEMMA QuiesceIs ==
    ASSUME Good(w), Quiesce \/ MarkDropped \/ DropEnds \/ GoesQuiet \/ BackoffOver \/ LogFails \/ Tick
    PROVE  Keeps(w, w')
<1>1. Keeps(w, w) /\ Keeps(w, FailWaiters(w)) /\ Keeps(w, Poison(w)) /\ Keeps(w, Ticked)
    BY KeepsItself, PoisonIs, RescheduleIs DEF Ticked
<1>2. \A v : Keeps(w, [w EXCEPT !.dropped = v]) /\ Keeps(w, [w EXCEPT !.quiet = v]) /\ Keeps(w, [w EXCEPT !.retry = v])
    BY FieldSame, SameKeeps
<1>3. CASE Quiesce
    BY <1>1, <1>3 DEF Quiesce
<1>4. CASE MarkDropped
    BY <1>2, <1>4 DEF MarkDropped
<1>5. CASE DropEnds
    BY <1>1, <1>2, <1>5 DEF DropEnds
<1>6. CASE GoesQuiet
    BY <1>2, <1>6 DEF GoesQuiet
<1>7. CASE BackoffOver
  <2>1. PICK k \in Kinds : w' = [w EXCEPT !.retry[k].wait = FALSE]
      BY <1>7 DEF BackoffOver
  <2> DEFINE v == [w.retry EXCEPT ![k].wait = FALSE]
  <2>2. w' = [w EXCEPT !.retry = v]
      BY <2>1
  <2> HIDE DEF v
  <2>3. QED
      BY <1>2, <2>2
<1>8. CASE LogFails
    BY <1>1, <1>8 DEF LogFails
<1>9. CASE Tick
    BY <1>1, <1>9 DEF Tick
<1>10. QED
    BY <1>3, <1>4, <1>5, <1>6, <1>7, <1>8, <1>9

\* Another collection drops a permit, which no job of this one has.
LEMMA OtherEndsIs ==
    ASSUME Good(w), OtherEnds
    PROVE  Keeps(w, w')
<1>1. PICK p \in w.sched.permits : p.job < 0 /\ w' = DropPermit(w, p.job)
    BY DEF OtherEnds
<1>2. p.job \in Int
    BY DEF Good, Consistent, IsScheduler, Requests
<1>3. \A j \in Running(w) : j \in Nat
    BY DEF Running, Good, Table, Units
<1>4. p.job \notin Running(w)
    BY <1>1, <1>2, <1>3
<1>5. QED
    BY <1>1, <1>4, DropPermitIs

\* Another collection asks, and its request is to come no more.
LEMMA OtherAsksIs ==
    ASSUME IInv, OtherAsks
    PROVE  IInv'
<1>1. PICK r \in others : others' = others \ {r} /\ w' = [w EXCEPT !.sched = Request(w.sched, r)]
    BY DEF OtherAsks
<1> DEFINE s == w.sched
           t == Request(s, r)
<1>2. /\ Fields(w) /\ Consistent(s) /\ Pumped(s) /\ Table(w) /\ Matched(w) /\ Ordered(w)
      /\ Stored(w) /\ Reserves(w) /\ Scoped(w)
    BY DEF IInv, Good
<1>3. /\ r \in Others /\ r \in Requests /\ r.job < 0 /\ r.job \in Int /\ ~Declined(r.kind, r.bytes)
      /\ \A h \in Held(s) : h.job # r.job
    BY JobsAssumption DEF IInv, Coming, Requests
<1>4. /\ Consistent(t) /\ Pumped(t)
      /\ Held(t) = Held(s) \cup {r} /\ s.permits \subseteq t.permits
    BY <1>2, <1>3, RequestIs
<1> HIDE DEF t
<1>5. ToSet(t.queue) \subseteq ToSet(s.queue) \cup {r}
    BY <1>4, StillWaiting
<1>6. /\ w'.sched = t /\ w'.jobs = w.jobs /\ w'.reserved = w.reserved /\ w'.segs = w.segs /\ Fields(w')
      /\ w'.frozen = w.frozen /\ w'.ckpt = w.ckpt /\ w'.visible = w.visible /\ w'.explicit = w.explicit
    BY <1>1, <1>2 DEF Fields, t
<1>7. Table(w') /\ Ordered(w') /\ Stored(w') /\ Scoped(w')
    BY <1>2, <1>6 DEF Table, Ordered, Stored, Scoped
<1>8. Matched(w')
  <2>1. ~(r.job > 0)
      BY <1>3
  <2>2. QED
      BY <1>2, <1>4, <1>5, <1>6, <2>1 DEF Matched
<1>9. Reserves(w')
  <2>1. Inputs(w') = Inputs(w) /\ OfKind(w', "flush") = OfKind(w, "flush")
      BY <1>6 DEF Inputs, OfKind
  <2>2. QED
      BY <1>2, <1>6, <2>1 DEF Reserves
<1>10. Good(w')
    BY <1>4, <1>6, <1>7, <1>8, <1>9 DEF Good
<1>11. Coming'
  <2>1. others' \subseteq Others
      BY <1>1 DEF IInv, Coming
  <2>2. ASSUME NEW o \in others', NEW h \in Held(t) PROVE h.job # o.job
    <3>1. o \in Others /\ o # r
        BY <1>1, <2>1
    <3>2. o.job # r.job
        BY <1>3, <3>1, JobsAssumption
    <3>3. CASE h = r
        BY <3>2, <3>3
    <3>4. CASE h \in Held(s)
        BY <1>1, <3>4 DEF IInv, Coming
    <3>5. QED
        BY <1>4, <2>2, <3>3, <3>4
  <2>3. QED
      BY <1>6, <2>1, <2>2 DEF Coming
<1>12. QED
    BY <1>10, <1>11 DEF IInv

-----------------------------------------------------------------------------
(* The invariant and the theorems. *)

\* Nothing is asked for, nothing runs, and the segments are those at open.
LEMMA InitHolds ==
    ASSUME Init
    PROVE  IInv
<1> DEFINE s == NewScheduler
           g(u) == [rows |-> StartSegs[u], deleted |-> 0, index |-> FALSE]
           segs == [u \in DOMAIN StartSegs |-> g(u)]
<1>1. /\ Fields(w) /\ w.sched = s /\ w.jobs = <<>> /\ w.reserved = {} /\ w.explicit = NoExplicit
      /\ w.segs = segs /\ w.frozen = <<>> /\ w.ckpt = 0 /\ w.visible = 0
    BY DEF Init, Fields
<1>2. others = Others
    BY DEF Init
<1>3. /\ s.queue = <<>> /\ s.permits = {} /\ s.flushes = 0 /\ s.compactions = 0 /\ s.indexes = 0
      /\ s.reserved = 0 /\ s.flushReserved = 0
      /\ {"queue", "permits", "flushes", "compactions", "indexes", "reserved", "flushReserved"} \subseteq DOMAIN s
    BY DEF NewScheduler
<1> HIDE DEF s
<1>4. DOMAIN s.queue = {} /\ ToSet(s.queue) = {} /\ DOMAIN w.jobs = {}
    BY <1>1, <1>3 DEF ToSet
<1>5. Out(s, "flush") = {} /\ Out(s, "compact") = {} /\ Out(s, "index") = {}
    BY <1>3 DEF Out
<1>6. IsFiniteSet({}) /\ Cardinality({}) = 0 /\ Bytes({}) = 0
    BY FS_EmptySet, BytesUnroll
<1>7. Consistent(s)
  <2>1. IsScheduler(s)
      BY <1>3 DEF IsScheduler
  <2>2. Counted(s)
      BY <1>3, <1>5, <1>6 DEF Counted
  <2>3. Distinct(s)
      BY <1>3, <1>4 DEF Distinct
  <2>4. Limited(s)
      BY <1>3, <1>4, SchedulerAssumption DEF Limited, CompactionSlots, Slots, IndexSlots
  <2>5. QED
      BY <2>1, <2>2, <2>3, <2>4 DEF Consistent
<1>8. Pumped(s)
    BY <1>3, <1>4 DEF Pumped
<1>9. Stored(w)
  <2>1. DOMAIN segs = DOMAIN StartSegs /\ \A u \in DOMAIN segs : segs[u] = g(u)
      OBVIOUS
  <2>2. \A u \in DOMAIN StartSegs : IsSegment(g(u))
      BY JobsAssumption DEF IsSegment
  <2> HIDE DEF g, segs
  <2>3. QED
      BY <1>1, <2>1, <2>2, JobsAssumption DEF Stored, Units
<1>10. Table(w) /\ Matched(w)
    BY <1>1, <1>4, <1>6 DEF Table, Matched
<1>11. Ordered(w)
    BY <1>1 DEF Ordered
<1>12. Reserves(w)
    BY <1>1, <1>4 DEF Reserves, Inputs, OfKind
<1>13. Scoped(w)
    BY <1>1, <1>6 DEF Scoped, NoExplicit
<1>14. Coming
    BY <1>1, <1>2, <1>3, <1>4 DEF Coming, Held
<1>15. QED
    BY <1>1, <1>7, <1>8, <1>9, <1>10, <1>11, <1>12, <1>13, <1>14 DEF IInv, Good

\* A step that adds no request of another collection leaves those to come as they are.
LEMMA KeptComing ==
    ASSUME IInv, Keeps(w, w'), others' = others
    PROVE  IInv'
<1>1. ASSUME NEW r \in others, NEW h \in Held(w'.sched), h.job = r.job PROVE FALSE
  <2>1. r.job < 0
      BY JobsAssumption DEF IInv, Coming
  <2>2. h \in Alien(w')
      BY <1>1, <2>1 DEF Alien
  <2>3. h \in Held(w.sched)
      BY <2>2 DEF Keeps, Alien
  <2>4. QED
      BY <1>1, <2>3 DEF IInv, Coming
<1>2. Coming'
    BY <1>1 DEF IInv, Coming
<1>3. QED
    BY <1>2 DEF IInv, Keeps

\* Every step keeps the invariant.
LEMMA NextKeeps ==
    ASSUME IInv, [Next]_vars
    PROVE  IInv'
<1>1. Good(w)
    BY DEF IInv
<1>2. CASE Write
    BY <1>1, <1>2, WriteStep, KeptComing DEF Write
<1>3. CASE FreezePending
    BY <1>1, <1>3, FreezePendingIs, KeptComing DEF FreezePending
<1>4. CASE \E q \in FlushCalls \cup {Budget} : ExplicitFlush(q)
  <2>1. PICK q \in FlushCalls \cup {Budget} : ExplicitFlush(q)
      BY <1>4
  <2>2. others' = others
      BY <2>1 DEF ExplicitFlush
  <2>3. Keeps(w, w')
      BY <1>1, <2>1, ExplicitFlushIs
  <2>4. QED
      BY <2>2, <2>3, KeptComing
<1>5. CASE \E q \in CompactCalls : ExplicitCompact(q)
  <2>1. PICK q \in CompactCalls : ExplicitCompact(q)
      BY <1>5
  <2>2. others' = others
      BY <2>1 DEF ExplicitCompact
  <2>3. Keeps(w, w')
      BY <1>1, <2>1, ExplicitCompactIs
  <2>4. QED
      BY <2>2, <2>3, KeptComing
<1>6. CASE \E p \in OwnPermits : Begin(p)
  <2>1. PICK p \in OwnPermits : Begin(p)
      BY <1>6
  <2>2. others' = others
      BY <2>1 DEF Begin
  <2>3. Keeps(w, w')
      BY <2>1, BeginIs
  <2>4. QED
      BY <2>2, <2>3, KeptComing
<1>7. CASE \E j \in Running(w) : JobDone(j) \/ JobFails(j) \/ JobPanics(j)
  <2>1. PICK j \in Running(w) : JobDone(j) \/ JobFails(j) \/ JobPanics(j)
      BY <1>7
  <2>2. others' = others
      BY <2>1 DEF JobDone, JobFails, JobPanics
  <2>3. Keeps(w, w')
      BY <1>1, <2>1, JobDoneIs, JobFailsIs, JobPanicsIs
  <2>4. QED
      BY <2>2, <2>3, KeptComing
<1>8. CASE Quiesce \/ MarkDropped \/ DropEnds \/ GoesQuiet \/ BackoffOver \/ LogFails \/ Tick
  <2>1. others' = others
      BY <1>8 DEF Quiesce, MarkDropped, DropEnds, GoesQuiet, BackoffOver, LogFails, Tick
  <2>2. Keeps(w, w')
      BY <1>1, <1>8, QuiesceIs
  <2>3. QED
      BY <2>1, <2>2, KeptComing
<1>9. CASE Quiet
    BY <1>1, <1>9, KeepsItself, KeptComing DEF Quiet
<1>10. CASE Stop
    BY <1>1, <1>10, StopIs, KeptComing DEF Stop
<1>11. CASE OtherEnds
    BY <1>1, <1>11, OtherEndsIs, KeptComing DEF OtherEnds
<1>12. CASE OtherAsks
    BY <1>12, OtherAsksIs
<1>13. CASE UNCHANGED vars
    BY <1>1, <1>13, KeepsItself, KeptComing DEF vars
<1>14. QED
    BY <1>2, <1>3, <1>4, <1>5, <1>6, <1>7, <1>8, <1>9, <1>10, <1>11, <1>12, <1>13 DEF Next

\* The inductive invariant of the maintenance of a collection (Good and
\* Coming, above) holds always: across jobs that begin, commit, fail or panic,
\* explicit flushes and compactions, a poisoning, a drop and a shutdown.
THEOREM InvHolds == Spec => []IInv
<1>1. Init => IInv
    BY InitHolds
<1>2. IInv /\ [Next]_vars => IInv'
    BY NextKeeps
<1>3. QED
    BY <1>1, <1>2, PTL DEF Spec

\* No wakeup is lost: whoever waits for a permit, some permit is out whose
\* release will grant again (MaintenanceScheduler::pump runs after requests and
\* dropped permits, and after no cancel).
THEOREM WakeupsAreKept == Spec => []NoLostWakeup
<1>1. IInv => NoLostWakeup
    BY DEF IInv, Good, Pumped, NoLostWakeup
<1>2. QED
    BY <1>1, InvHolds, PTL

\* The scheduler's counters are those of the permits that are out, a waiting
\* flush waits for a flush, and the other kinds never hold more than the pool
\* (MaintenanceScheduler::grant_one, Permit::drop).
THEOREM PermitsAreAccounted == Spec => []PermitsAccounted
<1>1. IInv => PermitsAccounted
    BY DEF IInv, Good, Consistent, Counted, Limited, Pumped, PermitsAccounted
<1>2. QED
    BY <1>1, InvHolds, PTL

\* The reserved segments are those of the compactions in the table, no two
\* share one, all are still segments, no index build that will commit reads
\* one, and there is one flush at most (request_job, end_job, cancel_waiting_jobs).
THEOREM ReservationsAreExact == Spec => []ReservationsExact
<1>1. ASSUME IInv PROVE ReservationsExact
  <2>1. Reserves(w)
      BY <1>1 DEF IInv, Good
  <2>2. Cardinality(OfKind(w, "flush")) <= 1
    <3>1. CASE OfKind(w, "flush") = {}
        BY <3>1, FS_EmptySet
    <3>2. CASE OfKind(w, "flush") # {}
      <4>1. PICK j \in OfKind(w, "flush") : TRUE
          BY <3>2
      <4>2. OfKind(w, "flush") = {j}
          BY <2>1 DEF Reserves
      <4>3. QED
          BY <4>2, FS_Singleton
    <3>3. QED
        BY <3>1, <3>2
  <2>3. QED
      BY <2>1, <2>2 DEF Reserves, Inputs, ReservationsExact
<1>2. QED
    BY <1>1, InvHolds, PTL

-----------------------------------------------------------------------------
(* What callers are told. *)

\* What an explicit compaction is asked to reach.
Covered(x) ==
    \A u \in x.explicit.scope \cap DOMAIN x.segs :
        \/ x.segs[u].index
        \/ x.segs[u].rows < 2
        \/ Declined("index", IndexBuildBytes(x.segs[u].rows))

\* The scope keeps the segments it has, and never shrinks at its upper end.
Followed(x, y) ==
    /\ x.explicit.scope \cap DOMAIN x.segs \subseteq y.explicit.scope
    /\ \A m \in x.explicit.scope : \E n \in y.explicit.scope : m <= n

\* A flush that waits for no more than the checkpoint covers.
Flushed(x, q) == \E f \in x.flushWaiters : f[1] = q /\ f[2] <= x.ckpt

\* Calls are answered "ok" only when what they wait for is so.
Honest(x, y) ==
    /\ GoOn(x, y) /\ y.segs = x.segs /\ y.ckpt = x.ckpt /\ y.flushWaiters \subseteq x.flushWaiters
    /\ \A q \in Calls : x.answer[q] # "idle" => y.answer[q] # "idle"
    /\ \A q \in FlushCalls : y.answer[q] = "ok" => x.answer[q] = "ok" \/ Flushed(x, q)
    /\ \A q \in CompactCalls :
          y.answer[q] = "ok" => x.answer[q] = "ok" \/ (q \in x.explicit.waiters /\ Covered(x))
    /\ y.explicit.waiters = {} \/ (y.explicit.waiters = x.explicit.waiters /\ Followed(x, y))

\* Who waits for what, so far as it matters to answer.
Tame(x) ==
    /\ Good(x) /\ OnlyCompact(x) /\ x.explicit.waiters \subseteq CompactCalls
    /\ \A f \in x.flushWaiters : f[1] \notin CompactCalls

\* A step that keeps the invariant and tells nobody anything untrue.
Tells(x, y) == Good(y) /\ Honest(x, y)

\* Such a step leaves the waiters as they are or fewer.
LEMMA StaysTame ==
    ASSUME NEW x, Tame(x), NEW y, Tells(x, y)
    PROVE  Tame(y)
    BY DEF Tame, Tells, Honest, GoOn

\* Two such steps make one.
LEMMA TellsTwice ==
    ASSUME NEW x, Tame(x), NEW y, Tells(x, y), NEW z, Tells(y, z)
    PROVE  Tells(x, z)
<1>1. Honest(x, y) /\ Honest(y, z)
    BY DEF Tells
<1>2. GoOn(x, z)
    BY <1>1 DEF Honest, GoOn
<1>3. \A q : Flushed(y, q) => Flushed(x, q)
    BY <1>1 DEF Honest, Flushed
<1>4. /\ x.explicit.scope \in SUBSET Nat
      /\ y.explicit.waiters = x.explicit.waiters => y.explicit.scope \in SUBSET Nat
      /\ z.explicit.scope \in SUBSET Nat
    BY DEF Tame, Tells, Good, Scoped
<1>5. ASSUME Followed(x, y), Followed(y, z)
      PROVE  Followed(x, z)
  <2>1. x.explicit.scope \cap DOMAIN x.segs \subseteq z.explicit.scope
      BY <1>1, <1>5 DEF Honest, Followed
  <2>2. ASSUME NEW m \in x.explicit.scope PROVE \E n \in z.explicit.scope : m <= n
    <3>1. PICK k \in y.explicit.scope : m <= k
        BY <1>5 DEF Followed
    <3>2. PICK n \in z.explicit.scope : k <= n
        BY <1>5 DEF Followed
    <3>3. m \in Nat /\ k \in Nat /\ n \in Nat
        BY DEF Tame, Tells, Good, Scoped
    <3>4. QED
        BY <3>1, <3>2, <3>3
  <2>3. QED
      BY <2>1, <2>2 DEF Followed
<1>6. ASSUME NEW q \in y.explicit.waiters, Covered(y)
      PROVE  q \in x.explicit.waiters /\ Covered(x)
  <2>1. y.explicit.waiters = x.explicit.waiters /\ Followed(x, y) /\ y.segs = x.segs
      BY <1>1, <1>6 DEF Honest
  <2>2. QED
      BY <1>6, <2>1 DEF Covered, Followed
<1>7. z.explicit.waiters = {} \/ (z.explicit.waiters = x.explicit.waiters /\ Followed(x, z))
    BY <1>1, <1>5 DEF Honest
<1>8. /\ \A q \in Calls : x.answer[q] # "idle" => z.answer[q] # "idle"
      /\ \A q \in FlushCalls : z.answer[q] = "ok" => x.answer[q] = "ok" \/ Flushed(x, q)
    BY <1>1, <1>3 DEF Honest
<1>9. \A q \in CompactCalls :
          z.answer[q] = "ok" => x.answer[q] = "ok" \/ (q \in x.explicit.waiters /\ Covered(x))
    BY <1>1, <1>6 DEF Honest
<1>10. z.segs = x.segs /\ z.ckpt = x.ckpt /\ z.flushWaiters \subseteq x.flushWaiters
    BY <1>1 DEF Honest
<1>11. QED
    BY <1>2, <1>7, <1>8, <1>9, <1>10 DEF Tells, Honest

\* A silent step tells nobody anything.
LEMMA SilentTells ==
    ASSUME NEW x, Good(x), NEW y, Good(y), Silent(x, y)
    PROVE  Tells(x, y)
<1>1. x.explicit.scope \in SUBSET Nat
    BY DEF Good, Scoped
<1>2. \A m \in x.explicit.scope : m <= m
    BY <1>1
<1>3. Followed(x, y)
    BY <1>2 DEF Silent, Followed
<1>4. QED
    BY <1>3 DEF Silent, Tells, Honest

\* Doing nothing tells nobody.
LEMMA TellsItself ==
    ASSUME NEW x, Good(x)
    PROVE  Tells(x, x)
    BY SilentItself, SilentTells

\* One field that no caller hears of.
LEMMA FieldTells ==
    ASSUME NEW x, Good(x), NEW v
    PROVE  /\ Tells(x, [x EXCEPT !.freezePending = v])
           /\ Tells(x, [x EXCEPT !.poisoned = v])
           /\ Tells(x, [x EXCEPT !.dropped = v])
           /\ Tells(x, [x EXCEPT !.armed = v])
           /\ Tells(x, [x EXCEPT !.quiet = v])
           /\ Tells(x, [x EXCEPT !.retry = v])
<1>1. Fields(x)
    BY DEF Good
<1>2. \A y : Same(x, y) => Good(y)
    BY SameKeeps DEF Keeps
<1>3. ASSUME NEW y, Same(x, y), y.answer = x.answer, y.flushWaiters = x.flushWaiters,
             y.explicit = x.explicit
      PROVE  Tells(x, y)
  <2>1. Silent(x, y)
      BY <1>3 DEF Same, Silent, GoOn, OnlyCompact
  <2>2. QED
      BY <1>2, <1>3, <2>1, SilentTells
<1>4. ASSUME NEW y, y \in {[x EXCEPT !.freezePending = v], [x EXCEPT !.poisoned = v],
                           [x EXCEPT !.dropped = v], [x EXCEPT !.armed = v],
                           [x EXCEPT !.quiet = v], [x EXCEPT !.retry = v]}
      PROVE  Tells(x, y)
  <2>1. Same(x, y)
    <3>1. /\ Same(x, [x EXCEPT !.freezePending = v]) /\ Same(x, [x EXCEPT !.poisoned = v])
          /\ Same(x, [x EXCEPT !.dropped = v]) /\ Same(x, [x EXCEPT !.armed = v])
          /\ Same(x, [x EXCEPT !.quiet = v]) /\ Same(x, [x EXCEPT !.retry = v])
        BY FieldSame
    <3>2. QED
        BY <1>4, <3>1
  <2>2. y.answer = x.answer /\ y.flushWaiters = x.flushWaiters /\ y.explicit = x.explicit
      BY <1>1, <1>4 DEF Fields
  <2>3. QED
      BY <1>3, <2>1, <2>2
<1>5. QED
    BY <1>4

\* A refusal is always true.
LEMMA FailedTells ==
    ASSUME NEW x, Good(x), NEW calls
    PROVE  /\ Tells(x, Answer(x, calls, "failed"))
           /\ Tells(x, [Answer(x, calls, "failed") EXCEPT !.explicit = NoExplicit])
           /\ \A v \in SUBSET x.flushWaiters :
                 Tells(x, [Answer(x, calls, "failed") EXCEPT !.flushWaiters = v])
<1> DEFINE a == [q \in Calls |-> IF q \in calls THEN "failed" ELSE x.answer[q]]
           y == [x EXCEPT !.answer = a]
<1>1. Answer(x, calls, "failed") = y
    BY DEF Answer
<1>2. Fields(x)
    BY DEF Good
<1> DEFINE u == [y EXCEPT !.explicit = NoExplicit]
           t(v) == [y EXCEPT !.flushWaiters = v]
<1>3. Same(x, y) /\ Same(x, u) /\ \A v : Same(x, t(v))
  <2>1. /\ Same(x, Answer(x, calls, "failed"))
        /\ Same(x, [Answer(x, calls, "failed") EXCEPT !.explicit = NoExplicit])
        /\ \A v : Same(x, [Answer(x, calls, "failed") EXCEPT !.flushWaiters = v])
      BY AnswerSame
  <2> HIDE DEF y
  <2>2. QED
      BY <1>1, <2>1
<1>4. \A q \in Calls : /\ x.answer[q] # "idle" => a[q] # "idle"
                       /\ a[q] = "ok" => x.answer[q] = "ok"
    OBVIOUS
<1> HIDE DEF a
<1>5. ASSUME NEW z, z.answer = a, z.segs = x.segs, z.jobs = x.jobs, z.ckpt = x.ckpt,
             z.flushWaiters \subseteq x.flushWaiters, z.explicit \in {x.explicit, NoExplicit},
             Same(x, z)
      PROVE  Tells(x, z)
  <2>1. Good(z)
      BY <1>5, SameKeeps DEF Keeps
  <2>2. GoOn(x, z)
      BY <1>5 DEF GoOn, OnlyCompact
  <2>3. z.explicit = x.explicit => Followed(x, z)
    <3>1. \A m \in x.explicit.scope : m <= m
        BY DEF Good, Scoped
    <3>2. QED
        BY <3>1 DEF Followed
  <2>4. z.explicit = NoExplicit => z.explicit.waiters = {}
      BY DEF NoExplicit
  <2>5. QED
      BY <1>4, <1>5, <2>1, <2>2, <2>3, <2>4 DEF Tells, Honest, Calls
<1>6. Tells(x, y)
  <2>1. Same(x, y)
      BY <1>3
  <2>2. /\ y.answer = a /\ y.segs = x.segs /\ y.jobs = x.jobs /\ y.ckpt = x.ckpt
        /\ y.flushWaiters = x.flushWaiters /\ y.explicit = x.explicit
      BY <1>2 DEF Fields
  <2>3. QED
      BY <1>5, <2>1, <2>2
<1>7. Tells(x, [y EXCEPT !.explicit = NoExplicit])
  <2> DEFINE z == [y EXCEPT !.explicit = NoExplicit]
  <2>1. Same(x, z)
      BY <1>3
  <2>2. /\ z.answer = a /\ z.segs = x.segs /\ z.jobs = x.jobs /\ z.ckpt = x.ckpt
        /\ z.flushWaiters = x.flushWaiters /\ z.explicit = NoExplicit
      BY <1>2 DEF Fields
  <2>3. QED
      BY <1>5, <2>1, <2>2
<1>8. ASSUME NEW v \in SUBSET x.flushWaiters PROVE Tells(x, [y EXCEPT !.flushWaiters = v])
  <2> DEFINE z == [y EXCEPT !.flushWaiters = v]
  <2>1. Same(x, z)
      BY <1>3
  <2>2. /\ z.answer = a /\ z.segs = x.segs /\ z.jobs = x.jobs /\ z.ckpt = x.ckpt
        /\ z.flushWaiters = v /\ z.explicit = x.explicit
      BY <1>2 DEF Fields
  <2>3. QED
      BY <1>5, <1>8, <2>1, <2>2
<1>9. QED
    BY <1>1, <1>6, <1>7, <1>8

\* An index build that is asked for is nobody's answer.
LEMMA IndexTells ==
    ASSUME NEW x, Good(x), NEW units, NEW minRows, NEW explicit,
           NextIndexTarget(x, units, minRows) # 0
    PROVE  LET t == NextIndexTarget(x, units, minRows)
           IN Tells(x, RequestJob(x, "index", IndexBuildBytes(x.segs[t].rows), {}, t, explicit))
<1> DEFINE t == NextIndexTarget(x, units, minRows)
           bytes == IndexBuildBytes(x.segs[t].rows)
           y == RequestJob(x, "index", bytes, {}, t, explicit)
<1>1. Good(y)
    BY IndexAsked DEF Keeps
<1> HIDE DEF t, bytes
<1>2. Silent(x, y)
    BY RequestSilent
<1> HIDE DEF y
<1>3. Tells(x, y)
    BY <1>1, <1>2, SilentTells
<1>4. QED
    BY <1>3 DEF y, t, bytes

\* Once no compaction is in the table and nothing is left to index, what the
\* explicit compaction was asked for is reached.
LEMMA ReachedIs ==
    ASSUME NEW x, Tame(x), OfKind(x, "compact") = {},
           NextIndexTarget(x, x.explicit.scope, 0) = 0,
           \A j \in DOMAIN x.jobs : x.jobs[j].target \notin x.explicit.scope
    PROVE  Covered(x)
<1>1. Inputs(x) = {}
    BY DEF Tame, OnlyCompact, OfKind, Inputs
<1>2. x.reserved = {}
    BY <1>1 DEF Tame, Good, Reserves
<1>3. Indexable(x, x.explicit.scope, 0) = {}
  <2>1. Good(x)
      BY DEF Tame
  <2>2. 0 \notin Indexable(x, x.explicit.scope, 0)
      BY <2>1 DEF Indexable, Good, Stored, Units
  <2>3. QED
      BY <2>1, <2>2, TargetIsIndexable
<1>4. Max({0, 2}) = 2
  <2>1. {0, 2} \in SUBSET Nat /\ {0, 2} # {} /\ IsFiniteSet({0, 2})
    <3>1. IsFiniteSet({0} \cup {2}) /\ {0} \cup {2} = {0, 2}
        BY FS_Singleton, FS_AddElement
    <3>2. IsFiniteSet({0, 2})
        BY <3>1, Zenon
    <3>3. QED
        BY <3>2
  <2>2. Max({0, 2}) \in {0, 2} /\ 2 <= Max({0, 2})
      BY <2>1, MaxIs
  <2>3. QED
      BY <2>2
<1>5. ASSUME NEW u \in x.explicit.scope \cap DOMAIN x.segs
      PROVE  \/ x.segs[u].index
             \/ x.segs[u].rows < 2
             \/ Declined("index", IndexBuildBytes(x.segs[u].rows))
  <2>1. x.segs[u].rows \in Nat
      BY DEF Tame, Good, Stored, IsSegment
  <2>2. \A j \in DOMAIN x.jobs : x.jobs[j].target # u
      OBVIOUS
  <2>3. u \in x.explicit.scope \ x.reserved
      BY <1>2
  <2>4. \/ x.segs[u].index
        \/ ~(x.segs[u].rows >= 2)
        \/ Declined("index", IndexBuildBytes(x.segs[u].rows))
      BY <1>3, <1>4, <2>2, <2>3 DEF Indexable
  <2>5. QED
      BY <2>1, <2>4
<1>6. QED
    BY <1>5 DEF Covered

\* A compaction is answered once it has reached that.
LEMMA IndexScopeTells ==
    ASSUME NEW x, Tame(x), OfKind(x, "compact") = {}
    PROVE  Tells(x, IndexScope(x))
<1> DEFINE e == x.explicit
           t == NextIndexTarget(x, e.scope, 0)
           ask == RequestJob(x, "index", IndexBuildBytes(x.segs[t].rows), {}, t, TRUE)
           a == [q \in Calls |-> IF q \in x.explicit.waiters THEN "ok" ELSE x.answer[q]]
           done == [Answer(x, e.waiters, "ok") EXCEPT !.explicit = NoExplicit]
<1>1. Good(x) /\ Fields(x)
    BY DEF Tame, Good
<1>2. t # 0 => Tells(x, ask)
    BY <1>1, IndexTells
<1>3. Tells(x, x)
    BY <1>1, TellsItself
<1>4. ASSUME t = 0, \A j \in DOMAIN x.jobs : x.jobs[j].target \notin e.scope
      PROVE  Tells(x, done)
  <2>1. Covered(x)
      BY <1>4, ReachedIs
  <2>2. Good(done)
      BY <1>1, AnswerSame, SameKeeps DEF Keeps
  <2>3. done = [[x EXCEPT !.answer = a] EXCEPT !.explicit = NoExplicit]
      BY DEF Answer
  <2> HIDE DEF done, a
  <2>4. /\ done.jobs = x.jobs /\ done.segs = x.segs /\ done.ckpt = x.ckpt /\ done.answer = a
        /\ done.flushWaiters = x.flushWaiters /\ done.explicit = NoExplicit
      BY <1>1, <2>3 DEF Fields
  <2>5. \A q \in FlushCalls : a[q] = x.answer[q]
      BY JobsAssumption DEF Tame, Calls, a
  <2>6. /\ \A q \in CompactCalls : a[q] = "ok" => x.answer[q] = "ok" \/ q \in x.explicit.waiters
        /\ \A q \in Calls : x.answer[q] # "idle" => a[q] # "idle"
      BY DEF Calls, a
  <2>7. GoOn(x, done)
      BY <2>4 DEF GoOn, OnlyCompact
  <2>8. done.explicit.waiters = {}
      BY <2>4 DEF NoExplicit
  <2>9. QED
      BY <2>1, <2>2, <2>4, <2>5, <2>6, <2>7, <2>8 DEF Tells, Honest
<1>5. \/ IndexScope(x) = x
      \/ t # 0 /\ IndexScope(x) = ask
      \/ /\ t = 0 /\ \A j \in DOMAIN x.jobs : x.jobs[j].target \notin e.scope
         /\ IndexScope(x) = done
    BY DEF IndexScope
<1> HIDE DEF t, ask, done
<1>6. QED
    BY <1>2, <1>3, <1>4, <1>5

\* The next step of an explicit compaction.
LEMMA ScheduleExplicitTells ==
    ASSUME NEW x, Tame(x), OfKind(x, "compact") = {}
    PROVE  Tells(x, ScheduleExplicit(x))
<1> DEFINE plans == PlanExplicit({c \in Candidates(x) : c.unit \in x.explicit.scope}, x.reserved)
           plan == plans[1]
           lone == Cardinality(plan.inputs) = 1
           step == Stepped(x, lone)
           refused == [Answer(x, x.explicit.waiters, "failed") EXCEPT !.explicit = NoExplicit]
           ask == RequestJob(step, "compact", plan.bytes, plan.inputs, 0, TRUE)
<1>1. Good(x)
    BY DEF Tame
<1>2. ScheduleExplicit(x) \in {IndexScope(x), refused, ask}
  <2> DEFINE given == StepIfAny(x, plans)
  <2>1. ScheduleExplicit(x) = given
      BY DEF ScheduleExplicit
  <2> HIDE DEF plans
  <2>2. given \in {IndexScope(x), StepOf(x, plan)}
      BY DEF StepIfAny
  <2> HIDE DEF given, plan
  <2>3. StepOf(x, plan) \in {IndexScope(x), refused, ask}
      BY DEF StepOf, Stepped
  <2>4. QED
      BY <2>1, <2>2, <2>3
<1>3. Good(ScheduleExplicit(x))
    BY <1>1, ScheduleExplicitIs DEF Keeps
<1> HIDE DEF lone
<1>4. /\ Same(x, step) /\ step.answer = x.answer /\ step.flushWaiters = x.flushWaiters
      /\ step.explicit.waiters = x.explicit.waiters /\ step.explicit.scope = x.explicit.scope
    BY <1>1, StepSame
<1> HIDE DEF plans, plan
<1>5. Tells(x, refused)
    BY <1>1, FailedTells
<1>6. Tells(x, IndexScope(x))
    BY IndexScopeTells
<1> HIDE DEF step, refused
<1>7. Good(step)
    BY <1>1, <1>4, SameKeeps DEF Keeps
<1>8. Tells(x, step)
  <2>1. GoOn(x, step)
      BY <1>4 DEF Same, GoOn, OnlyCompact
  <2>2. \A m \in x.explicit.scope : m <= m
      BY <1>1 DEF Good, Scoped
  <2>3. Followed(x, step)
      BY <1>4, <2>2 DEF Followed
  <2>4. QED
      BY <1>4, <1>7, <2>1, <2>3 DEF Same, Tells, Honest
<1>9. Silent(step, ask)
    BY <1>7, RequestSilent
<1> HIDE DEF ask
<1>10. Good(ask) => Tells(x, ask)
    BY <1>7, <1>8, <1>9, SilentTells, TellsTwice
<1>11. QED
    BY <1>2, <1>3, <1>5, <1>6, <1>10

\* Asking for a flush.
LEMMA RequestFlushTells ==
    ASSUME NEW x, Good(x)
    PROVE  Tells(x, RequestFlush(x))
<1> DEFINE rows == Head(x.frozen) - x.ckpt
           bytes == FlushBuildBytes(rows, rows * BytesPerRow)
           ask == RequestJob(x, "flush", bytes, {}, 0, FALSE)
           y == RequestFlush(x)
<1>1. Good(y)
    BY RequestFlushIs DEF Keeps
<1>2. y \in {x, ask}
    BY DEF RequestFlush
<1> HIDE DEF y, bytes
<1>3. Silent(x, ask) /\ Silent(x, x)
    BY RequestSilent, SilentItself
<1>4. Tells(x, y)
    BY <1>1, <1>2, <1>3, SilentTells
<1>5. QED
    BY <1>4 DEF y

\* Scheduling as a whole.
LEMMA ScheduleTells ==
    ASSUME NEW x, Tame(x)
    PROVE  Tells(x, Schedule(x))
<1> DEFINE a == RequestFlush(x)
           b == ScheduleCompactions(a)
           c == ScheduleIndexes(b)
<1>1. Good(x)
    BY DEF Tame
<1>2. Tells(x, a) /\ Tame(a)
    BY <1>1, RequestFlushTells, StaysTame
<1> HIDE DEF a
<1>3. Tells(a, b) /\ Tame(b)
  <2>1. Good(a)
      BY <1>2 DEF Tame
  <2>2. Tells(a, PlanBackground(a))
      BY <2>1, PlanBackgroundIs, SilentTells DEF Keeps
  <2>3. OfKind(a, "compact") = {} => Tells(a, ScheduleExplicit(a))
      BY <1>2, ScheduleExplicitTells
  <2>4. Tells(a, b)
      BY <2>1, <2>2, <2>3, TellsItself DEF ScheduleCompactions
  <2>5. QED
      BY <1>2, <2>4, StaysTame
<1> HIDE DEF b
<1>4. Tells(b, c)
  <2> DEFINE rows == IF b.quiet THEN 0 ELSE GraphMinRows
             units == DOMAIN b.segs
             t == NextIndexTarget(b, units, rows)
             ask == RequestJob(b, "index", IndexBuildBytes(b.segs[t].rows), {}, t, FALSE)
  <2>1. Good(b)
      BY <1>3 DEF Tame
  <2>2. c = b \/ (t # 0 /\ c = ask)
      BY DEF ScheduleIndexes
  <2> HIDE DEF units, rows
  <2>3. t # 0 => Tells(b, ask)
      BY <2>1, IndexTells
  <2>4. Tells(b, b)
      BY <2>1, TellsItself
  <2> HIDE DEF c, ask, t
  <2>5. QED
      BY <2>2, <2>3, <2>4
<1> HIDE DEF c
<1>5. Tells(x, c)
    BY <1>2, <1>3, <1>4, TellsTwice
<1>6. Schedule(x) = IF Refused(x) THEN x ELSE c
    BY DEF Schedule, a, b, c
<1>7. QED
    BY <1>1, <1>5, <1>6, TellsItself

-----------------------------------------------------------------------------
(* What callers are told of failures and of the end of a job. *)

\* Withdrawing jobs tells nobody.
LEMMA WithdrawnSilent ==
    ASSUME NEW x, Good(x)
    PROVE  Silent(x, CancelWaitingJobs(x)) /\ Silent(x, CancelRunningIndexes(x))
<1>1. Fields(x)
    BY DEF Good
<1>2. Silent(x, CancelWaitingJobs(x))
  <2> DEFINE waiting == DOMAIN x.jobs \ Running(x)
             sched == CancelAll(x.sched, waiting)
             gone == UNION {x.jobs[j].inputs : j \in waiting}
             y == CancelWaitingJobs(x)
  <2>1. y = [x EXCEPT !.sched = sched, !.reserved = @ \ gone, !.jobs = Restrict(@, DOMAIN @ \ waiting)]
      BY DEF CancelWaitingJobs
  <2> HIDE DEF y, sched, gone, waiting
  <2>2. /\ y.jobs = Restrict(x.jobs, DOMAIN x.jobs \ waiting) /\ y.segs = x.segs /\ y.ckpt = x.ckpt
        /\ y.answer = x.answer /\ y.flushWaiters = x.flushWaiters /\ y.explicit = x.explicit
      BY <1>1, <2>1 DEF Fields
  <2>3. DOMAIN y.jobs \subseteq DOMAIN x.jobs /\ \A j \in DOMAIN y.jobs : y.jobs[j] = x.jobs[j]
      BY <2>2 DEF Restrict
  <2>4. GoOn(x, y)
      BY <2>3, FewerGoOn
  <2>5. QED
      BY <2>2, <2>4 DEF Silent, y
<1>3. Silent(x, CancelRunningIndexes(x))
  <2> DEFINE y == CancelRunningIndexes(x)
             jobs == [j \in DOMAIN x.jobs |->
                        IF x.jobs[j].running /\ x.jobs[j].kind = "index"
                        THEN [x.jobs[j] EXCEPT !.cancelled = TRUE] ELSE x.jobs[j]]
  <2>1. /\ y.jobs = jobs /\ y.segs = x.segs /\ y.ckpt = x.ckpt
        /\ y.answer = x.answer /\ y.flushWaiters = x.flushWaiters /\ y.explicit = x.explicit
      BY <1>1 DEF Fields, CancelRunningIndexes
  <2> HIDE DEF y
  <2>2. DOMAIN y.jobs \subseteq DOMAIN x.jobs
        /\ \A j \in DOMAIN y.jobs : y.jobs[j] \in {x.jobs[j], [x.jobs[j] EXCEPT !.cancelled = TRUE]}
      BY <2>1
  <2>3. GoOn(x, y)
      BY <2>2, FewerGoOn
  <2>4. QED
      BY <2>1, <2>3 DEF Silent, y
<1>4. QED
    BY <1>2, <1>3

\* Dropping a permit tells nobody.
LEMMA DropPermitSilent ==
    ASSUME NEW x, Good(x), NEW job
    PROVE  Silent(x, DropPermit(x, job))
<1> DEFINE sched == ReleaseAll(x.sched, {p \in x.sched.permits : p.job = job})
           y == DropPermit(x, job)
<1>1. Fields(x) /\ y = [x EXCEPT !.sched = sched]
    BY DEF Good, DropPermit
<1> HIDE DEF y, sched
<1>2. /\ y.jobs = x.jobs /\ y.segs = x.segs /\ y.ckpt = x.ckpt /\ y.answer = x.answer
      /\ y.flushWaiters = x.flushWaiters /\ y.explicit = x.explicit
    BY <1>1 DEF Fields
<1>3. QED
    BY <1>2 DEF Silent, GoOn, OnlyCompact, y

\* Poisoning the collection refuses whoever waits.
LEMMA PoisonTells ==
    ASSUME NEW x, Tame(x)
    PROVE  Tells(x, FailWaiters(x)) /\ Tells(x, Poison(x))
<1>1. ASSUME NEW y, Tame(y)
      PROVE  Tells(y, FailWaiters(y))
  <2> DEFINE a == CancelWaitingJobs(y)
             b == CancelRunningIndexes(a)
             c == FailFlushWaiters(b)
             d == FailExplicit(c)
  <2>1. Good(y)
      BY <1>1 DEF Tame
  <2>2. Tells(y, a) /\ Tame(a)
      BY <1>1, <2>1, WithdrawnSilent, CancelWaitingJobsIs, SilentTells, StaysTame DEF Keeps
  <2> HIDE DEF a
  <2>3. Tells(a, b) /\ Tame(b)
    <3>1. Good(a)
        BY <2>2 DEF Tame
    <3>2. QED
        BY <2>2, <3>1, WithdrawnSilent, CancelRunningIndexesIs, SilentTells, StaysTame DEF Keeps
  <2> HIDE DEF b
  <2>4. Tells(b, c) /\ Tame(c)
    <3>1. Good(b) /\ {} \in SUBSET b.flushWaiters
        BY <2>3 DEF Tame
    <3>2. Tells(b, c)
        BY <3>1, FailedTells, TellsItself DEF FailFlushWaiters
    <3>3. QED
        BY <2>3, <3>2, StaysTame
  <2> HIDE DEF c
  <2>5. Tells(c, d)
    <3>1. Good(c)
        BY <2>4 DEF Tame
    <3>2. QED
        BY <3>1, FailedTells, TellsItself DEF FailExplicit
  <2>6. FailWaiters(y) = d
      BY DEF FailWaiters, a, b, c
  <2> HIDE DEF d
  <2>7. Tells(y, b)
      BY <1>1, <2>2, <2>3, TellsTwice
  <2>8. Tells(y, c)
      BY <1>1, <2>4, <2>7, TellsTwice
  <2>9. QED
      BY <1>1, <2>5, <2>6, <2>8, TellsTwice
<1> DEFINE p == [x EXCEPT !.poisoned = TRUE]
<1>2. Tells(x, p)
    BY FieldTells DEF Tame
<1>3. Poison(x) = FailWaiters(p)
    BY DEF Poison
<1> HIDE DEF p
<1>4. Tells(p, FailWaiters(p))
    BY <1>1, <1>2, StaysTame
<1>5. QED
    BY <1>1, <1>2, <1>3, <1>4, TellsTwice

\* So does a failure, if it poisons.
LEMMA JobFailedTells ==
    ASSUME NEW x, Tame(x), NEW kind, NEW error
    PROVE  Tells(x, JobFailed(x, kind, error))
<1> DEFINE y == Fail(x, kind)
<1>1. Good(x) /\ Good(y)
    BY RetrySame, SameKeeps DEF Tame, Keeps
<1>2. JobFailed(x, kind, error) \in {x, y, Poison(y)}
    BY DEF JobFailed
<1>3. Tells(x, y)
    BY <1>1, RetrySilent, SilentTells
<1> HIDE DEF y
<1>4. Tells(y, Poison(y))
    BY <1>3, StaysTame, PoisonTells
<1>5. QED
    BY <1>1, <1>2, <1>3, <1>4, TellsItself, TellsTwice

\* A merge whose output takes the place of its inputs.
Replaces(x, entry, outcome) ==
    outcome = "committed" /\ entry.kind = "compact" =>
       entry.inputs \cap DOMAIN x.segs = {} /\ \A i \in entry.inputs : i <= entry.unit

\* An explicit compaction follows its segments into such outputs.
LEMMA SettleExplicitTells ==
    ASSUME NEW x, Tame(x), NEW entry, entry.unit \in Nat, NEW outcome, Replaces(x, entry, outcome)
    PROVE  Tells(x, SettleExplicit(x, entry, outcome, entry.unit))
<1> DEFINE v == (x.explicit.scope \ entry.inputs) \cup {entry.unit}
           y == [x EXCEPT !.explicit.scope = v]
           z == SettleExplicit(x, entry, outcome, entry.unit)
           refused == [Answer(x, x.explicit.waiters, "failed") EXCEPT !.explicit = NoExplicit]
<1>1. Good(x) /\ Fields(x) /\ Scoped(x)
    BY DEF Tame, Good
<1>2. Good(z)
    BY <1>1, SettleExplicitSame, SameKeeps DEF Keeps
<1>3. Tells(x, x) /\ Tells(x, refused)
    BY <1>1, TellsItself, FailedTells
<1>4. z = x \/ z = refused \/ (outcome = "committed" /\ entry.kind = "compact" /\ z = y)
    BY DEF SettleExplicit
<1> HIDE DEF z, refused, v
<1>5. ASSUME outcome = "committed", entry.kind = "compact", z = y
      PROVE  Tells(x, z)
  <2>1. /\ z.jobs = x.jobs /\ z.segs = x.segs /\ z.ckpt = x.ckpt /\ z.answer = x.answer
        /\ z.flushWaiters = x.flushWaiters /\ z.explicit.waiters = x.explicit.waiters
        /\ z.explicit.scope = v
      BY <1>1, <1>5 DEF Fields, Scoped
  <2>2. GoOn(x, z)
      BY <2>1 DEF GoOn, OnlyCompact
  <2>3. x.explicit.scope \cap DOMAIN x.segs \subseteq v
      BY <1>5 DEF Replaces, v
  <2>4. \A m \in x.explicit.scope : \E n \in v : m <= n
    <3>1. SUFFICES ASSUME NEW m \in x.explicit.scope PROVE \E n \in v : m <= n
        OBVIOUS
    <3>2. m \in Nat
        BY <1>1 DEF Scoped
    <3>3. m \in entry.inputs => m <= entry.unit
        BY <1>5 DEF Replaces
    <3>4. QED
        BY <3>2, <3>3 DEF v
  <2>5. QED
      BY <1>2, <2>1, <2>2, <2>3, <2>4 DEF Tells, Honest, Followed
<1>6. QED
    BY <1>3, <1>4, <1>5 DEF z

\* A flush that ends answers those whose rows the checkpoint covers.
LEMMA SettleKindTells ==
    ASSUME NEW x, Tame(x), NEW entry, entry.unit \in Nat, NEW outcome, NEW error,
           Replaces(x, entry, outcome)
    PROVE  Tells(x, SettleKind(x, entry, outcome, error))
<1>1. ASSUME NEW y, Tame(y), y.segs = x.segs
      PROVE  Tells(y, Settle(y, entry, outcome, error))
  <2> DEFINE z == Told(y, entry.kind, outcome, error)
  <2>1. z \in {JobSucceeded(y, entry.kind), JobFailed(y, entry.kind, error), y}
    <3>1. CASE outcome \in {"committed", "nothing"}
        BY <3>1 DEF Told
    <3>2. CASE outcome = "failed"
        BY <3>2 DEF Told
    <3>3. CASE outcome \notin {"committed", "nothing", "failed"}
        BY <3>3 DEF Told
    <3>4. QED
        BY <3>1, <3>2, <3>3
  <2> HIDE DEF z
  <2>2. Good(y)
      BY <1>1 DEF Tame
  <2>3. Tells(y, JobSucceeded(y, entry.kind))
      BY <2>2, RetrySame, SameKeeps, RetrySilent, SilentTells DEF Keeps
  <2>4. Tells(y, z) /\ Tame(z)
      BY <1>1, <2>1, <2>2, <2>3, TellsItself, JobFailedTells, StaysTame
  <2>5. z.segs = x.segs
      BY <1>1, <2>4 DEF Tells, Honest
  <2>6. Replaces(z, entry, outcome)
      BY <2>5 DEF Replaces
  <2>7. Tells(z, SettleExplicit(z, entry, outcome, entry.unit))
      BY <2>4, <2>6, SettleExplicitTells
  <2>8. QED
      BY <1>1, <2>4, <2>7, TellsTwice DEF Settle, z
<1> DEFINE a == [x EXCEPT !.flushWaiters = {}]
           b == Settle(a, entry, outcome, error)
           failed == outcome = "failed"
           c == SettleFlushes(b, x.flushWaiters, failed)
<1>2. Good(x) /\ Fields(x)
    BY DEF Tame, Good
<1>3. SettleKind(x, entry, outcome, error) = IF entry.kind = "flush" THEN c ELSE Settle(x, entry, outcome, error)
    BY DEF SettleKind
<1>4. Good(a)
    BY <1>2, FieldSame, SameKeeps DEF Keeps
<1>5. /\ a.jobs = x.jobs /\ a.segs = x.segs /\ a.ckpt = x.ckpt /\ a.answer = x.answer
      /\ a.flushWaiters = {} /\ a.explicit = x.explicit
    BY <1>2 DEF Fields
<1> HIDE DEF a, failed
<1>6. Tame(a)
    BY <1>4, <1>5 DEF Tame, OnlyCompact
<1>7. Tells(a, b) /\ Good(b)
    BY <1>1, <1>5, <1>6 DEF Tells
<1> HIDE DEF b
<1>8. Good(c)
    BY <1>7, SettleFlushesSame, SameKeeps DEF Keeps
<1> DEFINE covered == {f \in x.flushWaiters : f[2] <= b.ckpt}
           rest == x.flushWaiters \ covered
           all == {f[1] : f \in x.flushWaiters}
           yes == {f[1] : f \in covered}
           no == {f[1] : f \in rest}
           y == Answer(b, yes, "ok")
<1>9. c = IF failed THEN Answer(b, all, "failed")
          ELSE IF Refused(b) THEN Answer(y, no, "failed")
          ELSE [y EXCEPT !.flushWaiters = @ \cup rest]
    BY DEF SettleFlushes
<1>10. ASSUME NEW q \in FlushCalls, q \in yes PROVE Flushed(x, q)
    BY <1>5, <1>7, <1>10 DEF Flushed, Tells, Honest
<1>11. \A q \in CompactCalls : q \notin yes
    BY DEF Tame
<1>12. rest \subseteq x.flushWaiters
    OBVIOUS
<1> HIDE DEF c, covered, rest, all, yes, no
<1>13. /\ c.jobs = b.jobs /\ c.segs = b.segs /\ c.ckpt = b.ckpt /\ c.explicit = b.explicit
       /\ c.flushWaiters \subseteq b.flushWaiters \cup rest
       /\ \A q \in Calls : /\ b.answer[q] # "idle" => c.answer[q] # "idle"
                           /\ c.answer[q] = "ok" => b.answer[q] = "ok" \/ q \in yes
  <2>1. Fields(b)
      BY <1>7 DEF Good
  <2> DEFINE u == [q \in Calls |-> IF q \in yes THEN "ok" ELSE b.answer[q]]
             r == [q \in Calls |-> IF q \in all THEN "failed" ELSE b.answer[q]]
             t == [q \in Calls |-> IF q \in no THEN "failed" ELSE u[q]]
  <2>2. y = [b EXCEPT !.answer = u] /\ Answer(b, all, "failed") = [b EXCEPT !.answer = r]
      BY DEF Answer
  <2> HIDE DEF y
  <2>3. \A q \in Calls : /\ u[q] = IF q \in yes THEN "ok" ELSE b.answer[q]
                         /\ r[q] = IF q \in all THEN "failed" ELSE b.answer[q]
                         /\ t[q] = IF q \in no THEN "failed" ELSE u[q]
      OBVIOUS
  <2> HIDE DEF u
  <2>4. y.answer = u /\ Fields(y) /\ y.jobs = b.jobs /\ y.segs = b.segs /\ y.ckpt = b.ckpt
        /\ y.explicit = b.explicit /\ y.flushWaiters = b.flushWaiters
      BY <2>1, <2>2 DEF Fields
  <2>5. Answer(y, no, "failed") = [y EXCEPT !.answer = t]
      BY <2>4 DEF Answer
  <2> HIDE DEF r, t
  <2>6. CASE c = [b EXCEPT !.answer = r]
      BY <2>1, <2>3, <2>6 DEF Fields
  <2>7. CASE c = [y EXCEPT !.answer = t]
      BY <2>3, <2>4, <2>7 DEF Fields
  <2>8. CASE c = [y EXCEPT !.flushWaiters = @ \cup rest]
      BY <2>3, <2>4, <2>8 DEF Fields
  <2>9. QED
      BY <1>9, <2>2, <2>5, <2>6, <2>7, <2>8
<1> HIDE DEF y
<1>14. GoOn(x, c)
    BY <1>5, <1>7, <1>13 DEF Tells, Honest, GoOn, OnlyCompact
<1>15. c.segs = x.segs /\ c.ckpt = x.ckpt /\ c.flushWaiters \subseteq x.flushWaiters
    BY <1>5, <1>7, <1>12, <1>13 DEF Tells, Honest
<1>16. /\ \A q \in Calls : x.answer[q] # "idle" => c.answer[q] # "idle"
       /\ \A q \in FlushCalls : c.answer[q] = "ok" => x.answer[q] = "ok" \/ Flushed(x, q)
  <2>1. \A q : ~Flushed(a, q)
      BY <1>5 DEF Flushed
  <2>2. /\ \A q \in Calls : x.answer[q] # "idle" => b.answer[q] # "idle"
        /\ \A q \in FlushCalls : b.answer[q] = "ok" => x.answer[q] = "ok"
      BY <1>5, <1>7, <2>1 DEF Tells, Honest
  <2>3. QED
      BY <1>10, <1>13, <2>2 DEF Calls
<1>17. \A q \in CompactCalls :
          c.answer[q] = "ok" => x.answer[q] = "ok" \/ (q \in x.explicit.waiters /\ Covered(x))
  <2>1. Covered(a) <=> Covered(x)
      BY <1>5 DEF Covered
  <2>2. \A q \in CompactCalls :
           b.answer[q] = "ok" => x.answer[q] = "ok" \/ (q \in x.explicit.waiters /\ Covered(x))
      BY <1>5, <1>7, <2>1 DEF Tells, Honest
  <2>3. QED
      BY <1>11, <1>13, <2>2 DEF Calls
<1>18. c.explicit.waiters = {} \/ (c.explicit.waiters = x.explicit.waiters /\ Followed(x, c))
    BY <1>5, <1>7, <1>13 DEF Tells, Honest, Followed
<1>19. Tells(x, c)
    BY <1>8, <1>14, <1>15, <1>16, <1>17, <1>18 DEF Tells, Honest
<1>20. QED
    BY <1>1, <1>3, <1>19

\* Scheduling what comes next.
LEMMA RescheduleTells ==
    ASSUME NEW x, Tame(x)
    PROVE  Tells(x, Reschedule(x))
<1> DEFINE v == x.freezePending \/ FreezeDue(x)
           y == [x EXCEPT !.freezePending = v]
<1>1. Reschedule(x) = Schedule(y)
    BY DEF Reschedule
<1> HIDE DEF v
<1>2. Tells(x, y)
    BY FieldTells DEF Tame
<1> HIDE DEF y
<1>3. QED
    BY <1>1, <1>2, StaysTame, ScheduleTells, TellsTwice

\* The end of a job, once it is out of the table.
LEMMA EndJobTells ==
    ASSUME NEW x, NEW job, Tame(RemoveJob(x, job)), job \notin DOMAIN RemoveJob(x, job).jobs,
           x.jobs[job].unit \in Nat, NEW outcome, NEW error,
           Replaces(RemoveJob(x, job), x.jobs[job], outcome)
    PROVE  Tells(RemoveJob(x, job), EndJob(x, job, outcome, error))
<1> DEFINE entry == x.jobs[job]
           a == RemoveJob(x, job)
           b == IF entry.running THEN DropPermit(a, job) ELSE a
           c == SettleKind(b, entry, outcome, error)
<1>1. EndJob(x, job, outcome, error) = Reschedule(c)
    BY DEF EndJob
<1>2. entry.unit \in Nat /\ Replaces(a, entry, outcome) /\ Tame(a)
    OBVIOUS
<1> HIDE DEF a
<1>3. Good(a) /\ job \notin Running(a)
    BY <1>2 DEF a, Running, Tame
<1>4. Silent(a, b) /\ Good(b)
    BY <1>3, DropPermitIs, DropPermitSilent, SilentItself DEF Keeps
<1> HIDE DEF b, entry
<1>5. Tells(a, b) /\ Tame(b)
    BY <1>2, <1>3, <1>4, SilentTells, StaysTame
<1>6. Replaces(b, entry, outcome)
    BY <1>2, <1>4 DEF Silent, Replaces
<1>7. Tells(b, c) /\ Tame(c)
    BY <1>2, <1>5, <1>6, SettleKindTells, StaysTame
<1> HIDE DEF c
<1>8. Tells(c, Reschedule(c))
    BY <1>7, RescheduleTells
<1>9. QED
    BY <1>1, <1>2, <1>5, <1>7, <1>8, TellsTwice DEF a

\* A frozen memtable, or a freeze that failed.
LEMMA FreezeTells ==
    ASSUME NEW x, Tame(x), NEW ok
    PROVE  Tells(x, FreezeIfDue(x, ok))
<1> DEFINE a == DoFreeze(x)
           b == [x EXCEPT !.flushWaiters = {}]
           c == JobFailed(b, "flush", "transient")
           d == Answer(c, {f[1] : f \in x.flushWaiters}, "failed")
<1>1. Good(x) /\ Fields(x)
    BY DEF Tame, Good
<1>2. FreezeIfDue(x, ok) = IF ~FreezeDue(x) THEN x ELSE IF ok THEN RequestFlush(a) ELSE d
    BY DEF FreezeIfDue
<1>3. Good(a)
    BY <1>1, DoFreezeIs DEF Keeps
<1>4. Silent(x, a)
  <2>1. /\ a.jobs = x.jobs /\ a.segs = x.segs /\ a.ckpt = x.ckpt /\ a.answer = x.answer
        /\ a.flushWaiters = x.flushWaiters /\ a.explicit = x.explicit
      BY <1>1 DEF Fields, DoFreeze
  <2>2. QED
      BY <2>1 DEF Silent, GoOn, OnlyCompact
<1> HIDE DEF a
<1>5. Tells(x, RequestFlush(a))
  <2>1. Tells(a, RequestFlush(a))
      BY <1>3, RequestFlushTells
  <2>2. QED
      BY <1>1, <1>3, <1>4, <2>1, SilentTells, TellsTwice
<1>6. Tells(x, d)
  <2>1. Good(b)
      BY <1>1, FieldSame, SameKeeps DEF Keeps
  <2>2. /\ b.jobs = x.jobs /\ b.segs = x.segs /\ b.ckpt = x.ckpt /\ b.answer = x.answer
        /\ b.flushWaiters = {} /\ b.explicit = x.explicit
      BY <1>1 DEF Fields
  <2>3. Tells(x, b)
    <3>1. \A m \in x.explicit.scope : m <= m
        BY <1>1 DEF Good, Scoped
    <3>2. Followed(x, b) /\ GoOn(x, b)
        BY <2>2, <3>1 DEF Followed, GoOn, OnlyCompact
    <3>3. QED
        BY <2>1, <2>2, <3>2 DEF Tells, Honest
  <2> HIDE DEF b
  <2>4. Tells(b, c) /\ Good(c)
      BY <2>3, StaysTame, JobFailedTells DEF Tells
  <2> HIDE DEF c
  <2>5. Tells(c, d)
      BY <2>4, FailedTells
  <2>6. QED
      BY <2>3, <2>4, <2>5, TellsTwice
<1> HIDE DEF d
<1>7. QED
    BY <1>1, <1>2, <1>5, <1>6, TellsItself

-----------------------------------------------------------------------------
(* The invariant of who waits for what. *)

\* A call waits for a flush once, and has not been answered before.
FlushesWait(x) ==
    /\ \A f \in x.flushWaiters :
          /\ f[1] \in FlushCalls \cup {Budget} /\ f[2] \in Nat
          /\ f[1] \in FlushCalls => x.answer[f[1]] # "idle"
    /\ \A f, g \in x.flushWaiters : f[1] = g[1] /\ f[1] \in FlushCalls => f = g

\* What a call wants compacted is in the scope as far as it is still there:
\* what jobs write is no part of it, for their units are above the scope's.
CompactsWait(x, sc) ==
    /\ DOMAIN sc = CompactCalls /\ x.explicit.waiters \subseteq CompactCalls
    /\ \A q \in x.explicit.waiters :
          /\ x.answer[q] # "idle" /\ sc[q] \in SUBSET Nat
          /\ sc[q] \cap DOMAIN x.segs \subseteq x.explicit.scope
          /\ \A n \in sc[q] : \E m \in x.explicit.scope : n <= m
          /\ \A j \in Running(x) : x.jobs[j].unit \notin sc[q]

\* The segments that running jobs write are new, and above those they merge.
NewUnits(x) ==
    /\ \A j \in Running(x) : /\ x.jobs[j].unit \notin DOMAIN x.segs
                             /\ \A i \in x.jobs[j].inputs : i < x.jobs[j].unit
    /\ \A i, j \in Running(x) : x.jobs[i].unit = x.jobs[j].unit => i = j

\* All of it; AckInv is inductive together with IInv.
Waits(x, sc) == OnlyCompact(x) /\ FlushesWait(x) /\ CompactsWait(x, sc) /\ NewUnits(x)
AckInv == Waits(w, scope)

\* Who waits properly is tame.
LEMMA WaitsTame ==
    ASSUME NEW x, Good(x), NEW sc, Waits(x, sc)
    PROVE  Tame(x)
    BY JobsAssumption DEF Waits, FlushesWait, CompactsWait, Tame, Budget

\* Telling leaves who waits for what as it is, or fewer.
LEMMA WaitsOn ==
    ASSUME NEW x, Good(x), NEW sc, Waits(x, sc), NEW y, Tells(x, y)
    PROVE  Waits(y, sc)
<1>1. Honest(x, y) /\ GoOn(x, y) /\ Good(y)
    BY DEF Tells, Honest
<1>2. OnlyCompact(y)
    BY <1>1 DEF Waits, GoOn
<1>3. \A j \in Running(y) : /\ j \in Running(x) /\ y.jobs[j].unit = x.jobs[j].unit
                            /\ y.jobs[j].inputs = x.jobs[j].inputs
    BY <1>1 DEF GoOn, Running
<1>4. NewUnits(y)
    BY <1>1, <1>3 DEF Waits, NewUnits, Honest
<1>5. FlushesWait(y)
    BY <1>1 DEF Waits, FlushesWait, Honest, Calls
<1>6. CompactsWait(y, sc)
  <2>1. CASE y.explicit.waiters = {}
      BY <2>1 DEF Waits, CompactsWait
  <2>2. CASE y.explicit.waiters = x.explicit.waiters /\ Followed(x, y)
    <3>1. ASSUME NEW q \in y.explicit.waiters, NEW n \in sc[q] PROVE \E m \in y.explicit.scope : n <= m
      <4>1. q \in x.explicit.waiters /\ sc[q] \in SUBSET Nat
          BY <2>2 DEF Waits, CompactsWait
      <4>2. PICK k \in x.explicit.scope : n <= k
          BY <4>1 DEF Waits, CompactsWait
      <4>3. PICK m \in y.explicit.scope : k <= m
          BY <2>2 DEF Followed
      <4>4. n \in Nat /\ k \in Nat /\ m \in Nat
          BY <1>1, <4>1 DEF Good, Scoped
      <4>5. QED
          BY <4>2, <4>3, <4>4
    <3>2. \A q \in y.explicit.waiters : sc[q] \cap DOMAIN y.segs \subseteq y.explicit.scope
        BY <1>1, <2>2 DEF Waits, CompactsWait, Followed, Honest
    <3>3. \A q \in y.explicit.waiters : y.answer[q] # "idle" /\ sc[q] \in SUBSET Nat
        BY <1>1, <2>2 DEF Waits, CompactsWait, Honest, Calls
    <3>4. \A q \in y.explicit.waiters : \A j \in Running(y) : y.jobs[j].unit \notin sc[q]
        BY <1>3, <2>2 DEF Waits, CompactsWait
    <3>5. QED
        BY <2>2, <3>1, <3>2, <3>3, <3>4 DEF Waits, CompactsWait
  <2>3. QED
      BY <1>1, <2>1, <2>2 DEF Honest
<1>7. QED
    BY <1>2, <1>4, <1>5, <1>6 DEF Waits

-----------------------------------------------------------------------------
(* The steps. *)

\* What the two action properties say of a step.
FlushTold ==
    \A q \in FlushCalls :
        w.answer[q] # "ok" /\ w'.answer[q] = "ok" =>
           w'.ckpt >= IF w.answer[q] = "idle" THEN w.visible
                      ELSE (CHOOSE f \in w.flushWaiters : f[1] = q)[2]

CompactTold ==
    \A q \in CompactCalls :
        w.answer[q] # "ok" /\ w'.answer[q] = "ok" =>
           \A u \in scope'[q] \cap DOMAIN w'.segs :
              \/ w'.segs[u].index
              \/ w'.segs[u].rows < 2
              \/ Declined("index", IndexBuildBytes(w'.segs[u].rows))

\* What every step is shown to do.
Acked == AckInv' /\ FlushTold /\ CompactTold

\* A step that first changes what a message is about, to z, and then tells.
LEMMA HeardStep ==
    ASSUME IInv, AckInv, NEW z, Good(z), Waits(z, scope'), Tells(z, w'),
           \A q \in CompactCalls : z.answer[q] = "ok" => w.answer[q] = "ok",
           \A q \in FlushCalls : z.answer[q] = "ok" =>
              \/ w.answer[q] = "ok"
              \/ w.answer[q] = "idle" /\ w'.ckpt >= w.visible,
           \A f \in z.flushWaiters \ w.flushWaiters :
              f[1] \in FlushCalls => w.answer[f[1]] = "idle" /\ f[2] = w.visible
    PROVE  Acked
<1>1. AckInv'
    BY WaitsOn DEF AckInv
<1>2. Honest(z, w')
    BY DEF Tells
<1>3. w.visible \in Nat /\ w'.ckpt \in Nat
    BY DEF IInv, Good, Ordered, Tells
<1>4. FlushTold
  <2>1. SUFFICES ASSUME NEW q \in FlushCalls, w.answer[q] # "ok", w'.answer[q] = "ok"
                 PROVE  w'.ckpt >= IF w.answer[q] = "idle" THEN w.visible
                                   ELSE (CHOOSE f \in w.flushWaiters : f[1] = q)[2]
      BY DEF FlushTold
  <2>2. CASE z.answer[q] = "ok"
      BY <2>1, <2>2
  <2>3. CASE z.answer[q] # "ok"
    <3>1. PICK f \in z.flushWaiters : f[1] = q /\ f[2] <= w'.ckpt
        BY <1>2, <2>1, <2>3 DEF Honest, Flushed
    <3>2. CASE f \in w.flushWaiters
      <4>1. w.answer[q] # "idle" /\ f[2] \in Nat /\ \A g \in w.flushWaiters : g[1] = q => g = f
          BY <3>1, <3>2 DEF AckInv, Waits, FlushesWait
      <4>2. f = CHOOSE g \in w.flushWaiters : g[1] = q
          BY <3>1, <3>2, <4>1
      <4>3. QED
          BY <1>3, <3>1, <4>1, <4>2
    <3>3. CASE f \notin w.flushWaiters
        BY <1>3, <3>1, <3>3
    <3>4. QED
        BY <3>2, <3>3
  <2>4. QED
      BY <2>2, <2>3
<1>5. CompactTold
  <2>1. SUFFICES ASSUME NEW q \in CompactCalls, w.answer[q] # "ok", w'.answer[q] = "ok",
                        NEW u \in scope'[q] \cap DOMAIN w'.segs
                 PROVE  \/ w'.segs[u].index
                        \/ w'.segs[u].rows < 2
                        \/ Declined("index", IndexBuildBytes(w'.segs[u].rows))
      BY DEF CompactTold
  <2>2. q \in z.explicit.waiters /\ Covered(z) /\ w'.segs = z.segs
      BY <1>2, <2>1 DEF Honest
  <2>3. u \in z.explicit.scope
      BY <2>1, <2>2 DEF Waits, CompactsWait
  <2>4. QED
      BY <2>1, <2>2, <2>3 DEF Covered
<1>6. QED
    BY <1>1, <1>4, <1>5 DEF Acked

\* A step that changes nothing before it tells.
LEMMA PlainStep ==
    ASSUME IInv, AckInv, Tells(w, w'), scope' = scope
    PROVE  Acked
<1>1. Good(w) /\ Waits(w, scope')
    BY DEF IInv, AckInv
<1>2. QED
    BY <1>1, HeardStep

\* Waiting is about jobs, callers and which segments there are.
LEMMA AlikeWaits ==
    ASSUME NEW x, NEW sc, Waits(x, sc), NEW y, y.jobs = x.jobs, DOMAIN y.segs = DOMAIN x.segs,
           y.flushWaiters = x.flushWaiters, y.explicit = x.explicit,
           \A q \in Calls : x.answer[q] # "idle" => y.answer[q] # "idle"
    PROVE  Waits(y, sc)
<1>1. Running(y) = Running(x)
    BY DEF Running
<1>2. QED
    BY <1>1 DEF Waits, OnlyCompact, FlushesWait, CompactsWait, NewUnits, Calls

\* The clock, a drop, the failures of the log and doing nothing.
LEMMA QuiesceAcked ==
    ASSUME IInv, AckInv, UNCHANGED scope,
           \/ Quiesce \/ MarkDropped \/ DropEnds \/ GoesQuiet \/ BackoffOver \/ LogFails \/ Tick \/ Quiet
           \/ UNCHANGED w
    PROVE  Acked
<1>1. Good(w) /\ Tame(w)
    BY WaitsTame DEF IInv, AckInv
<1>2. Tells(w, w) /\ Tells(w, FailWaiters(w)) /\ Tells(w, Poison(w)) /\ Tells(w, Ticked)
    BY <1>1, TellsItself, PoisonTells, RescheduleTells DEF Ticked
<1>3. \A v : /\ Tells(w, [w EXCEPT !.dropped = v]) /\ Tells(w, [w EXCEPT !.quiet = v])
             /\ Tells(w, [w EXCEPT !.retry = v])
    BY <1>1, FieldTells
<1>4. Tells(w, w')
  <2>1. CASE Quiesce \/ Quiet \/ LogFails \/ Tick \/ UNCHANGED w
      BY <1>2, <2>1 DEF Quiesce, Quiet, LogFails, Tick
  <2>2. CASE MarkDropped \/ DropEnds \/ GoesQuiet
      BY <1>2, <1>3, <2>2 DEF MarkDropped, DropEnds, GoesQuiet
  <2>3. CASE BackoffOver
    <3>1. PICK k \in Kinds : w' = [w EXCEPT !.retry[k].wait = FALSE]
        BY <2>3 DEF BackoffOver
    <3> DEFINE v == [w.retry EXCEPT ![k].wait = FALSE]
    <3>2. w' = [w EXCEPT !.retry = v]
        BY <3>1
    <3> HIDE DEF v
    <3>3. QED
        BY <1>3, <3>2
  <2>4. QED
      BY <2>1, <2>2, <2>3
<1>5. QED
    BY <1>4, PlainStep

\* What other collections do.
LEMMA OthersAcked ==
    ASSUME IInv, AckInv, UNCHANGED scope, OtherAsks \/ OtherEnds
    PROVE  Acked
<1>1. Good(w) /\ Fields(w)
    BY DEF IInv, Good
<1>2. Good(w')
    BY <1>1, OtherAsksIs, OtherEndsIs DEF Keeps, IInv
<1>3. PICK s : w' = [w EXCEPT !.sched = s]
    BY DEF OtherAsks, OtherEnds, DropPermit
<1>4. /\ w'.jobs = w.jobs /\ w'.segs = w.segs /\ w'.ckpt = w.ckpt /\ w'.answer = w.answer
      /\ w'.flushWaiters = w.flushWaiters /\ w'.explicit = w.explicit
    BY <1>1, <1>3 DEF Fields
<1>5. Silent(w, w')
    BY <1>4 DEF Silent, GoOn, OnlyCompact
<1>6. Tells(w, w')
    BY <1>1, <1>2, <1>5, SilentTells
<1>7. QED
    BY <1>6, PlainStep

\* A pending freeze.
LEMMA FreezePendingAcked ==
    ASSUME IInv, AckInv, FreezePending
    PROVE  Acked
<1> DEFINE y == [w EXCEPT !.freezePending = FALSE]
<1>1. PICK ok \in BOOLEAN : w' = FreezeIfDue(y, ok)
    BY DEF FreezePending
<1>2. Good(w) /\ Tame(w) /\ scope' = scope
    BY WaitsTame DEF IInv, AckInv, FreezePending
<1>3. Tells(w, y)
    BY <1>2, FieldTells
<1> HIDE DEF y
<1>4. Tells(y, FreezeIfDue(y, ok))
    BY <1>2, <1>3, StaysTame, FreezeTells
<1>5. Tells(w, w')
    BY <1>1, <1>2, <1>3, <1>4, TellsTwice
<1>6. QED
    BY <1>2, <1>5, PlainStep

\* A write adds no segment and answers nobody.
LEMMA WriteAcked ==
    ASSUME IInv, AckInv, Write
    PROVE  Acked
<1>1. PICK u \in {0} \cup {u \in DOMAIN w.segs : w.segs[u].deleted < w.segs[u].rows} :
        w' = LET y == [w EXCEPT !.visible = @ + 1, !.armed = TRUE, !.quiet = FALSE,
                                !.segs = IF u = 0 THEN @ ELSE [w.segs EXCEPT ![u].deleted = w.segs[u].deleted + 1]]
             IN RequestFlush([y EXCEPT !.freezePending = @ \/ FreezeDue(y)])
    BY DEF Write
<1> DEFINE y == [w EXCEPT !.visible = @ + 1, !.armed = TRUE, !.quiet = FALSE,
                          !.segs = IF u = 0 THEN @ ELSE [w.segs EXCEPT ![u].deleted = w.segs[u].deleted + 1]]
           segs == IF u = 0 THEN w.segs ELSE [w.segs EXCEPT ![u].deleted = w.segs[u].deleted + 1]
           v == y.freezePending \/ FreezeDue(y)
           z == [y EXCEPT !.freezePending = v]
<1>2. Good(w) /\ Fields(w) /\ Waits(w, scope') /\ scope' = scope
    BY DEF IInv, Good, AckInv, Write
<1>3. Good(y)
    BY <1>2, WriteIs DEF Keeps
<1>4. w' = RequestFlush(z)
    BY <1>1
<1>5. /\ y.jobs = w.jobs /\ DOMAIN y.segs = DOMAIN w.segs /\ y.flushWaiters = w.flushWaiters
      /\ y.explicit = w.explicit /\ y.answer = w.answer
  <2>1. DOMAIN segs = DOMAIN w.segs
      OBVIOUS
  <2>2. y = [w EXCEPT !.visible = @ + 1, !.armed = TRUE, !.quiet = FALSE, !.segs = segs]
      OBVIOUS
  <2> HIDE DEF y, segs
  <2>3. QED
      BY <1>2, <2>1, <2>2 DEF Fields
<1> HIDE DEF y, v
<1>6. Waits(y, scope')
    BY <1>2, <1>5, AlikeWaits
<1>7. Tells(y, z) /\ Good(z) /\ Tame(y)
    BY <1>3, <1>6, FieldTells, WaitsTame DEF Tells
<1> HIDE DEF z
<1>8. Tells(z, w')
    BY <1>4, <1>7, RequestFlushTells
<1>9. Tells(y, w')
    BY <1>7, <1>8, TellsTwice
<1>10. QED
    BY <1>3, <1>5, <1>6, <1>9, HeardStep

\* What stops refuses whoever waits.
LEMMA StopAcked ==
    ASSUME IInv, AckInv, Stop
    PROVE  Acked
<1> DEFINE y == CancelWaitingJobs(w)
           a == [q \in Calls |-> IF q \in {p \in Calls : y.answer[p] = "waiting"} THEN "failed" ELSE y.answer[q]]
           z == [y EXCEPT !.answer = a]
           t == ReleaseAll(z.sched, {p \in z.sched.permits : p.job > 0})
<1>1. Good(w) /\ Good(w') /\ scope' = scope
    BY StopIs DEF IInv, Keeps, Stop
<1>2. w' = [z EXCEPT !.sched = t, !.stopped = TRUE, !.jobs = <<>>, !.reserved = {},
                     !.flushWaiters = {}, !.explicit = NoExplicit, !.freezePending = FALSE]
    BY DEF Stop, Answer
<1>3. Silent(w, y) /\ Good(y)
    BY <1>1, WithdrawnSilent, CancelWaitingJobsIs DEF Keeps
<1> HIDE DEF y
<1>4. /\ Fields(y) /\ y.segs = w.segs /\ y.ckpt = w.ckpt /\ y.answer = w.answer
    BY <1>3 DEF Silent, Good
<1> HIDE DEF a, t
<1>5. /\ w'.jobs = <<>> /\ w'.segs = w.segs /\ w'.ckpt = w.ckpt /\ w'.answer = a
      /\ w'.flushWaiters = {} /\ w'.explicit = NoExplicit
    BY <1>2, <1>4 DEF Fields
<1>6. \A q \in Calls : a[q] = "ok" => w.answer[q] = "ok"
    BY <1>4 DEF a
<1>7. DOMAIN w'.jobs = {} /\ Running(w') = {}
    BY <1>5 DEF Running
<1>8. Waits(w', scope')
    BY <1>1, <1>5, <1>7 DEF AckInv, Waits, OnlyCompact, FlushesWait, CompactsWait, NewUnits, NoExplicit
<1>9. Tells(w', w')
    BY <1>1, TellsItself
<1>10. QED
    BY <1>1, <1>5, <1>6, <1>8, <1>9, HeardStep DEF Calls

\* A flush is refused, is covered already, or waits for what is visible now.
LEMMA ExplicitFlushAcked ==
    ASSUME IInv, AckInv, NEW q \in FlushCalls \cup {Budget}, ExplicitFlush(q)
    PROVE  Acked
<1> DEFINE armed == [w EXCEPT !.armed = TRUE]
           a == IF q = Budget THEN armed ELSE Answer(armed, {q}, "waiting")
           v == a.flushWaiters \cup {<<q, w.visible>>}
           asked == [a EXCEPT !.flushWaiters = v]
           yes == Answer(armed, {q}, "ok")
<1>1. PICK ok \in BOOLEAN :
         \/ w' = Answer(w, {q}, "failed") \/ w' = armed
         \/ FlushCovered(armed) /\ w' = yes
         \/ w' = RequestFlush(FreezeIfDue(asked, ok))
    BY DEF ExplicitFlush
<1>2. Good(w) /\ Fields(w) /\ Waits(w, scope') /\ scope' = scope /\ Ordered(w)
    BY DEF IInv, Good, AckInv, ExplicitFlush
<1>3. q \in FlushCalls => w.answer[q] = "idle" /\ q # Budget /\ q \in Calls
    BY JobsAssumption DEF ExplicitFlush, Budget, Calls
<1>4. q \notin CompactCalls
    BY JobsAssumption DEF Budget
<1>5. Tells(w, armed) /\ Tells(w, Answer(w, {q}, "failed"))
    BY <1>2, FieldTells, FailedTells
<1>6. /\ armed.jobs = w.jobs /\ armed.segs = w.segs /\ armed.flushWaiters = w.flushWaiters
      /\ armed.explicit = w.explicit /\ armed.answer = w.answer /\ Fields(armed)
      /\ armed.ckpt = w.ckpt /\ armed.visible = w.visible
    BY <1>2 DEF Fields
<1> HIDE DEF armed
<1>7. Good(armed)
    BY <1>5 DEF Tells
<1>8. ASSUME NEW y, NEW r, r # "idle", y = Answer(armed, {q}, r)
      PROVE  /\ y.jobs = w.jobs /\ y.segs = w.segs /\ y.flushWaiters = w.flushWaiters
             /\ y.explicit = w.explicit /\ y.ckpt = w.ckpt /\ Fields(y) /\ Good(y)
             /\ \A p \in Calls : y.answer[p] = IF p = q THEN r ELSE w.answer[p]
  <2> DEFINE ans == [p \in Calls |-> IF p \in {q} THEN r ELSE armed.answer[p]]
  <2>1. y = [armed EXCEPT !.answer = ans]
      BY <1>8 DEF Answer
  <2>2. \A p \in Calls : ans[p] = IF p = q THEN r ELSE w.answer[p]
      BY <1>6
  <2> HIDE DEF ans
  <2>3. Good(y)
      BY <1>7, <1>8, AnswerSame, SameKeeps DEF Keeps
  <2>4. QED
      BY <1>6, <2>1, <2>2, <2>3 DEF Fields
<1>9. CASE w' = Answer(w, {q}, "failed") \/ w' = armed
    BY <1>2, <1>5, <1>9, PlainStep
<1>10. CASE FlushCovered(armed) /\ w' = yes
  <2>1. /\ yes.jobs = w.jobs /\ yes.segs = w.segs /\ yes.flushWaiters = w.flushWaiters
        /\ yes.explicit = w.explicit /\ yes.ckpt = w.ckpt /\ Good(yes)
        /\ \A p \in Calls : yes.answer[p] = IF p = q THEN "ok" ELSE w.answer[p]
      BY <1>8
  <2> HIDE DEF yes
  <2>2. Waits(yes, scope')
      BY <1>2, <2>1, AlikeWaits
  <2>3. Tells(w', w')
      BY <1>10, <2>1, TellsItself
  <2>4. w'.ckpt >= w.visible
      BY <1>6, <1>10, <2>1 DEF FlushCovered
  <2>5. /\ \A p \in CompactCalls : w'.answer[p] = "ok" => w.answer[p] = "ok"
        /\ \A p \in FlushCalls : w'.answer[p] = "ok" => w.answer[p] = "ok" \/ w.answer[p] = "idle"
      BY <1>3, <1>4, <1>10, <2>1 DEF Calls
  <2>6. QED
      BY <1>10, <2>1, <2>2, <2>3, <2>4, <2>5, HeardStep
<1>11. CASE w' = RequestFlush(FreezeIfDue(asked, ok))
  <2>1. /\ a.jobs = w.jobs /\ a.segs = w.segs /\ a.flushWaiters = w.flushWaiters
        /\ a.explicit = w.explicit /\ Fields(a) /\ Good(a)
        /\ \A p \in Calls : a.answer[p] = IF p = q THEN "waiting" ELSE w.answer[p]
    <3>1. CASE q = Budget
      <4>1. q \notin Calls
          BY <3>1, JobsAssumption DEF Calls, Budget
      <4>2. QED
          BY <1>6, <1>7, <3>1, <4>1
    <3>2. CASE q # Budget
        BY <1>8, <3>2
    <3>3. QED
        BY <3>1, <3>2
  <2> HIDE DEF a
  <2>2. Good(asked)
      BY <2>1, FieldSame, SameKeeps DEF Keeps
  <2>3. /\ asked.jobs = w.jobs /\ asked.segs = w.segs /\ asked.explicit = w.explicit
        /\ asked.flushWaiters = w.flushWaiters \cup {<<q, w.visible>>} /\ asked.answer = a.answer
      BY <2>1 DEF Fields
  <2> HIDE DEF asked
  <2>4. FlushesWait(asked)
    <3>1. FlushesWait(w)
        BY <1>2 DEF Waits
    <3>2. q \in FlushCalls => \A f \in w.flushWaiters : f[1] # q
        BY <1>3, <3>1 DEF FlushesWait
    <3>3. \A f \in w.flushWaiters :
             /\ f[1] \in FlushCalls \cup {Budget} /\ f[2] \in Nat
             /\ f[1] \in FlushCalls => asked.answer[f[1]] # "idle"
        BY <2>1, <2>3, <3>1 DEF FlushesWait, Calls
    <3>4. q \in FlushCalls => asked.answer[q] # "idle"
        BY <1>3, <2>1, <2>3
    <3>5. w.visible \in Nat
        BY <1>2 DEF Ordered
    <3>6. \A f, g \in asked.flushWaiters : f[1] = g[1] /\ f[1] \in FlushCalls => f = g
        BY <2>3, <3>1, <3>2 DEF FlushesWait
    <3>7. QED
        BY <2>3, <3>3, <3>4, <3>5, <3>6 DEF FlushesWait
  <2>5. Waits(asked, scope')
    <3>1. Running(asked) = Running(w)
        BY <2>3 DEF Running
    <3>2. CompactsWait(asked, scope')
        BY <1>2, <2>1, <2>3, <3>1 DEF Waits, CompactsWait, Calls
    <3>3. QED
        BY <1>2, <2>3, <2>4, <3>1, <3>2 DEF Waits, OnlyCompact, NewUnits
  <2>6. Tame(asked)
      BY <2>2, <2>5, WaitsTame
  <2>7. Tells(asked, FreezeIfDue(asked, ok)) /\ Good(FreezeIfDue(asked, ok))
      BY <2>6, FreezeTells DEF Tells
  <2>8. Tells(asked, w')
      BY <1>11, <2>6, <2>7, RequestFlushTells, TellsTwice
  <2>9. /\ \A p \in Calls : asked.answer[p] = "ok" => w.answer[p] = "ok"
        /\ \A f \in asked.flushWaiters \ w.flushWaiters : f = <<q, w.visible>>
      BY <2>1, <2>3
  <2>10. QED
      BY <1>3, <2>2, <2>5, <2>8, <2>9, HeardStep DEF Calls
<1>12. QED
    BY <1>1, <1>9, <1>10, <1>11

\* A compaction is refused, or the segments it finds join the scope.
LEMMA ExplicitCompactAcked ==
    ASSUME IInv, AckInv, NEW q \in CompactCalls, ExplicitCompact(q)
    PROVE  Acked
<1> DEFINE asked == CompactAsked(w, q)
           no == Answer(w, {q}, "failed")
<1>1. /\ w.answer[q] = "idle" /\ scope' = [scope EXCEPT ![q] = DOMAIN w.segs]
      /\ w' \in {no, Schedule(asked)}
    BY DEF ExplicitCompact, CompactAsked
<1>2. Good(w) /\ Waits(w, scope) /\ q \in Calls
    BY DEF IInv, AckInv, Calls
<1>3. q \notin w.explicit.waiters /\ DOMAIN scope = CompactCalls
    BY <1>1, <1>2 DEF Waits, CompactsWait
<1>4. /\ scope'[q] = DOMAIN w.segs /\ DOMAIN scope' = CompactCalls
      /\ \A p \in CompactCalls \ {q} : scope'[p] = scope[p]
    BY <1>1, <1>3
<1>5. Waits(w, scope')
    BY <1>2, <1>3, <1>4 DEF Waits, CompactsWait
<1>6. CASE w' = no
  <2>1. Tells(w, w')
      BY <1>2, <1>6, FailedTells
  <2>2. QED
      BY <1>2, <1>5, <2>1, HeardStep
<1>7. CASE w' = Schedule(asked)
  <2>1. /\ Same(w, asked) /\ asked.flushWaiters = w.flushWaiters
        /\ asked.answer = [p \in Calls |-> IF p = q THEN "waiting" ELSE w.answer[p]]
        /\ asked.explicit.waiters = w.explicit.waiters \cup {q}
        /\ asked.explicit.scope = w.explicit.scope \cup DOMAIN w.segs
      BY <1>2, CompactAskedIs
  <2> HIDE DEF asked
  <2>2. Good(asked) /\ asked.jobs = w.jobs /\ asked.segs = w.segs /\ Running(asked) = Running(w)
      BY <1>2, <2>1, SameKeeps DEF Keeps, Same, Running
  <2>3. DOMAIN w.segs \in SUBSET Nat
      BY <1>2 DEF Good, Stored, Units
  <2>4. CompactsWait(asked, scope')
    <3>1. asked.explicit.waiters \subseteq CompactCalls
        BY <1>5, <2>1 DEF Waits, CompactsWait
    <3>2. ASSUME NEW p \in w.explicit.waiters
          PROVE  /\ asked.answer[p] # "idle" /\ scope'[p] \in SUBSET Nat
                 /\ scope'[p] \cap DOMAIN asked.segs \subseteq asked.explicit.scope
                 /\ \A n \in scope'[p] : \E m \in asked.explicit.scope : n <= m
                 /\ \A j \in Running(asked) : asked.jobs[j].unit \notin scope'[p]
        BY <1>5, <2>1, <2>2 DEF Waits, CompactsWait, Calls
    <3>3. \A n \in scope'[q] : n <= n
        BY <1>4, <2>3
    <3>4. /\ asked.answer[q] # "idle" /\ scope'[q] \in SUBSET Nat
          /\ scope'[q] \cap DOMAIN asked.segs \subseteq asked.explicit.scope
          /\ \A n \in scope'[q] : \E m \in asked.explicit.scope : n <= m
          /\ \A j \in Running(asked) : asked.jobs[j].unit \notin scope'[q]
      <4>1. \A j \in Running(asked) : asked.jobs[j].unit \notin scope'[q]
          BY <1>2, <1>4, <2>2 DEF Waits, NewUnits
      <4>2. asked.answer[q] # "idle"
          BY <1>2, <2>1
      <4>3. QED
          BY <1>4, <2>1, <2>3, <3>3, <4>1, <4>2
    <3>5. QED
        BY <1>4, <2>1, <3>1, <3>2, <3>4 DEF CompactsWait
  <2>5. \A p \in Calls : w.answer[p] # "idle" => asked.answer[p] # "idle"
      BY <2>1
  <2>6. FlushesWait(asked)
      BY <1>2, <2>1, <2>5 DEF Waits, FlushesWait, Calls
  <2>7. Waits(asked, scope')
      BY <1>2, <2>2, <2>4, <2>6 DEF Waits, OnlyCompact, NewUnits
  <2>8. Tells(asked, w')
      BY <1>7, <2>2, <2>7, WaitsTame, ScheduleTells
  <2>9. \A p \in Calls : asked.answer[p] = "ok" => w.answer[p] = "ok"
      BY <2>1
  <2>10. QED
      BY <2>1, <2>2, <2>7, <2>8, <2>9, HeardStep DEF Calls
<1>8. QED
    BY <1>1, <1>6, <1>7

\* Taking a job out of the table tells nobody.
LEMMA RemoveSilent ==
    ASSUME NEW x, Good(x), NEW job \in DOMAIN x.jobs, \A r \in ToSet(x.sched.queue) : r.job # job
    PROVE  LET y == RemoveJob(x, job) IN Good(y) /\ Silent(x, y) /\ job \notin DOMAIN y.jobs
<1> DEFINE y == RemoveJob(x, job)
<1>1. Good(y) /\ job \notin DOMAIN y.jobs
    BY RemoveJobIs DEF Keeps
<1>2. /\ y.jobs = Restrict(x.jobs, DOMAIN x.jobs \ {job}) /\ y.segs = x.segs /\ y.ckpt = x.ckpt
      /\ y.answer = x.answer /\ y.flushWaiters = x.flushWaiters /\ y.explicit = x.explicit
    BY DEF RemoveJob, Good, Fields
<1> HIDE DEF y
<1>3. DOMAIN y.jobs \subseteq DOMAIN x.jobs /\ \A j \in DOMAIN y.jobs : y.jobs[j] = x.jobs[j]
    BY <1>2 DEF Restrict
<1>4. GoOn(x, y)
    BY <1>3, FewerGoOn
<1>5. QED
    BY <1>1, <1>2, <1>4 DEF Silent, y

\* A job that ends without a commit.
LEMMA EndTells ==
    ASSUME NEW x, Tame(x), NEW y, NEW job, y.jobs[job].unit \in Nat,
           Good(RemoveJob(y, job)), Silent(x, RemoveJob(y, job)), job \notin DOMAIN RemoveJob(y, job).jobs,
           NEW outcome, outcome # "committed", NEW error
    PROVE  Tells(x, EndJob(y, job, outcome, error))
<1> DEFINE z == RemoveJob(y, job)
<1>1. Tells(x, z) /\ Tame(z)
    BY SilentTells, StaysTame DEF Tame
<1>2. Replaces(z, y.jobs[job], outcome)
    BY DEF Replaces
<1>3. Tells(z, EndJob(y, job, outcome, error))
    BY <1>1, <1>2, EndJobTells
<1> HIDE DEF z
<1>4. QED
    BY <1>1, <1>3, TellsTwice

\* One that runs.
LEMMA EndRunningTells ==
    ASSUME NEW x, Tame(x), NEW job \in Running(x), NEW outcome, outcome # "committed", NEW error
    PROVE  Tells(x, EndJob(x, job, outcome, error))
<1>1. /\ Good(x) /\ job \in DOMAIN x.jobs /\ IsEntry(x.jobs[job])
      /\ \A r \in ToSet(x.sched.queue) : r.job # job
    BY RunningIs DEF Tame
<1>2. /\ Good(RemoveJob(x, job)) /\ Silent(x, RemoveJob(x, job))
      /\ job \notin DOMAIN RemoveJob(x, job).jobs
    BY <1>1, RemoveSilent
<1>3. x.jobs[job].unit \in Nat
    BY <1>1 DEF IsEntry
<1>4. QED
    BY <1>2, <1>3, EndTells

\* A job that begins will write a segment that is no part of anything yet.
LEMMA BegunWaits ==
    ASSUME NEW x, Good(x), NEW sc, Waits(x, sc), NEW job \in DOMAIN x.jobs,
           NEW y, y.jobs = Begun(x, job).jobs, y.segs = x.segs, y.flushWaiters = x.flushWaiters,
           y.explicit = x.explicit, y.answer = x.answer
    PROVE  Waits(y, sc)
<1> DEFINE unit == FreshUnit(x)
<1>1. /\ unit \in Units
      /\ \A u \in DOMAIN x.segs \cup x.explicit.scope : u < unit
      /\ \A j \in DOMAIN x.jobs : x.jobs[j].unit < unit /\ \A u \in x.jobs[j].inputs : u < unit
    BY FreshUnitIs
<1>2. /\ DOMAIN y.jobs = DOMAIN x.jobs
      /\ \A j \in DOMAIN x.jobs \ {job} : y.jobs[j] = x.jobs[j]
      /\ y.jobs[job].kind = x.jobs[job].kind /\ y.jobs[job].inputs = x.jobs[job].inputs
      /\ y.jobs[job].unit = unit
    BY BegunFields
<1> HIDE DEF unit
<1>3. \A j \in Running(y) \ {job} : j \in Running(x) /\ y.jobs[j] = x.jobs[j]
    BY <1>2 DEF Running
<1>4. OnlyCompact(y) /\ FlushesWait(y)
    BY <1>2 DEF Waits, OnlyCompact, FlushesWait
<1>5. unit \notin DOMAIN x.segs /\ \A j \in DOMAIN x.jobs : x.jobs[j].unit # unit
    BY <1>1 DEF Units
<1>6. NewUnits(y)
  <2>1. \A j \in Running(y) : y.jobs[j].unit \notin DOMAIN y.segs /\ \A i \in y.jobs[j].inputs : i < y.jobs[j].unit
      BY <1>1, <1>2, <1>3, <1>5 DEF Waits, NewUnits
  <2>2. ASSUME NEW i \in Running(y), NEW j \in Running(y), y.jobs[i].unit = y.jobs[j].unit
        PROVE  i = j
      BY <1>2, <1>3, <1>5, <2>2 DEF Waits, NewUnits, Running
  <2>3. QED
      BY <2>1, <2>2 DEF NewUnits
<1>7. ASSUME NEW q \in x.explicit.waiters PROVE unit \notin sc[q]
  <2>1. SUFFICES ASSUME unit \in sc[q] PROVE FALSE
      OBVIOUS
  <2>2. PICK m \in x.explicit.scope : unit <= m
      BY <2>1 DEF Waits, CompactsWait
  <2>3. m < unit /\ m \in Nat /\ unit \in Nat
      BY <1>1 DEF Good, Scoped, Units
  <2>4. QED
      BY <2>2, <2>3
<1>8. CompactsWait(y, sc)
  <2>1. \A q \in x.explicit.waiters : \A j \in Running(y) : y.jobs[j].unit \notin sc[q]
      BY <1>2, <1>3, <1>7 DEF Waits, CompactsWait
  <2>2. QED
      BY <2>1 DEF Waits, CompactsWait
<1>9. QED
    BY <1>4, <1>6, <1>8 DEF Waits

\* A job begins, or ends there and then.
LEMMA BeginAcked ==
    ASSUME IInv, AckInv, NEW p \in OwnPermits, Begin(p)
    PROVE  Acked
<1> DEFINE job == p.job
           entry == w.jobs[job]
           begun == Begun(w, job)
           d == DropPermit(w, job)
           freeze == entry.kind = "flush" /\ w.frozen = <<>> /\ HasOps(w)
           ready == CASE entry.kind = "flush" -> w.frozen # <<>> \/ HasOps(w)
                      [] entry.kind = "compact" -> entry.inputs # {}
                      [] entry.kind = "index" ->
                           entry.target \in DOMAIN w.segs /\ ~w.segs[entry.target].index
<1>1. Good(w) /\ p \in w.sched.permits /\ job \notin Running(w) /\ Tame(w) /\ Waits(w, scope') /\ scope' = scope
    BY WaitsTame DEF IInv, OwnPermits, Begin, AckInv
<1>2. \A r \in ToSet(w.sched.queue) : r.job # job
    BY <1>1 DEF Good, Consistent, Distinct, ToSet
<1>3. Good(w')
    BY BeginIs DEF Keeps
<1>4. Keeps(w, d) /\ d.jobs = w.jobs /\ Good(d) /\ Silent(w, d)
      /\ ToSet(d.sched.queue) \subseteq ToSet(w.sched.queue)
    BY <1>1, DropPermitIs, DropPermitSilent DEF Keeps
<1>5. PICK ok \in BOOLEAN :
         w' = CASE job \notin DOMAIN w.jobs -> d
                [] job \in DOMAIN w.jobs /\ ~Refused(w) /\ ok /\ ready ->
                     IF freeze THEN DoFreeze(begun) ELSE begun
                [] OTHER -> EndJob(IF Refused(w) THEN d ELSE begun, job,
                                   IF Refused(w) \/ ~ok THEN "failed" ELSE "nothing",
                                   IF Refused(w) THEN "refusal" ELSE "transient")
    BY DEF Begin, Begun
<1> HIDE DEF ready, freeze, d
<1>6. CASE job \notin DOMAIN w.jobs
    BY <1>1, <1>4, <1>5, <1>6, SilentTells, PlainStep
<1>7. CASE job \in DOMAIN w.jobs /\ ~Refused(w) /\ ok /\ ready
  <2>1. w' \in {begun, DoFreeze(begun)}
      BY <1>5, <1>7
  <2>2. /\ Fields(begun) /\ begun.segs = w.segs /\ begun.explicit = w.explicit
        /\ begun.answer = w.answer /\ begun.flushWaiters = w.flushWaiters
      BY <1>1, <1>7, BegunFields
  <2> HIDE DEF begun
  <2>3. /\ w'.jobs = begun.jobs /\ w'.segs = w.segs /\ w'.explicit = w.explicit
        /\ w'.answer = w.answer /\ w'.flushWaiters = w.flushWaiters
      BY <2>1, <2>2 DEF DoFreeze, Fields
  <2>4. Waits(w', scope')
      BY <1>1, <1>7, <2>3, BegunWaits DEF begun
  <2>5. QED
      BY <1>3, <2>3, <2>4, TellsItself, HeardStep
<1>8. CASE job \in DOMAIN w.jobs /\ ~(~Refused(w) /\ ok /\ ready)
  <2> DEFINE y == IF Refused(w) THEN d ELSE begun
             z == RemoveJob(y, job)
             outcome == IF Refused(w) \/ ~ok THEN "failed" ELSE "nothing"
             error == IF Refused(w) THEN "refusal" ELSE "transient"
  <2>1. w' = EndJob(y, job, outcome, error)
      BY <1>5, <1>8
  <2>2. Good(z) /\ Silent(w, z) /\ job \notin DOMAIN z.jobs /\ y.jobs[job].unit \in Nat
    <3>1. CASE Refused(w)
      <4>1. Good(RemoveJob(d, job)) /\ Silent(d, RemoveJob(d, job)) /\ job \notin DOMAIN RemoveJob(d, job).jobs
          BY <1>2, <1>4, <1>8, RemoveSilent
      <4>2. IsEntry(w.jobs[job])
          BY <1>1, <1>8 DEF Good, Table
      <4>3. d.jobs[job].unit \in Nat
          BY <1>4, <4>2 DEF IsEntry
      <4>4. QED
          BY <1>4, <3>1, <4>1, <4>3, SilentTwice
    <3>2. CASE ~Refused(w)
      <4>1. Keeps(w, RemoveJob(begun, job)) /\ Silent(w, RemoveJob(begun, job))
            /\ job \notin DOMAIN RemoveJob(begun, job).jobs
          BY <1>1, <1>2, <1>8, BegunGone
      <4>2. IsEntry(begun.jobs[job])
          BY <1>1, <1>8, BegunFields
      <4>3. QED
          BY <3>2, <4>1, <4>2 DEF Keeps, IsEntry
    <3>3. QED
        BY <3>1, <3>2
  <2>3. outcome # "committed"
      OBVIOUS
  <2> HIDE DEF y, outcome, error
  <2>4. Tells(w, w')
      BY <1>1, <2>1, <2>2, <2>3, EndTells
  <2>5. QED
      BY <1>1, <2>4, PlainStep
<1>9. QED
    BY <1>6, <1>7, <1>8

\* A commit adds at most its own segment, and a merge takes its inputs away.
LEMMA CommittedSegs ==
    ASSUME NEW x, Fields(x), NEW e, e.kind \in Kinds
    PROVE  LET y == Committed(x, e)
           IN /\ Fields(y) /\ y.jobs = x.jobs /\ y.answer = x.answer /\ y.flushWaiters = x.flushWaiters
              /\ y.explicit = x.explicit
              /\ DOMAIN y.segs \subseteq DOMAIN x.segs \cup {e.unit}
              /\ e.kind = "compact" => DOMAIN y.segs \subseteq (DOMAIN x.segs \ e.inputs) \cup {e.unit}
<1> DEFINE left == LiveSum(ByUnit({c \in Candidates(x) : c.unit \in e.inputs}))
           merged == Restrict(x.segs, DOMAIN x.segs \ e.inputs)
           y == Committed(x, e)
<1>1. \A f, unit, rows : DOMAIN NewSegment(f, unit, rows) \subseteq DOMAIN f \cup {unit}
    BY DEF NewSegment, Put
<1>2. CASE e.kind = "flush"
  <2> DEFINE segs == NewSegment(x.segs, e.unit, Head(x.frozen) - x.ckpt)
  <2>1. y = [x EXCEPT !.ckpt = Head(x.frozen), !.frozen = Tail(x.frozen), !.segs = segs]
      BY <1>2 DEF Committed, Fields
  <2>2. DOMAIN segs \subseteq DOMAIN x.segs \cup {e.unit}
      BY <1>1
  <2> HIDE DEF segs, y
  <2>3. /\ Fields(y) /\ y.jobs = x.jobs /\ y.answer = x.answer /\ y.flushWaiters = x.flushWaiters
        /\ y.explicit = x.explicit /\ y.segs = segs
      BY <2>1 DEF Fields
  <2>4. QED
      BY <1>2, <2>2, <2>3 DEF y
<1>3. CASE e.kind = "compact"
  <2> DEFINE segs == NewSegment(merged, e.unit, left)
  <2>1. y = [x EXCEPT !.segs = segs]
      BY <1>3 DEF Committed, Fields
  <2>2. DOMAIN merged = DOMAIN x.segs \ e.inputs
      BY DEF Restrict
  <2> HIDE DEF merged, left
  <2>3. DOMAIN segs \subseteq (DOMAIN x.segs \ e.inputs) \cup {e.unit}
      BY <1>1, <2>2
  <2> HIDE DEF segs, y
  <2>4. /\ Fields(y) /\ y.jobs = x.jobs /\ y.answer = x.answer /\ y.flushWaiters = x.flushWaiters
        /\ y.explicit = x.explicit /\ y.segs = segs
      BY <2>1 DEF Fields
  <2>5. QED
      BY <2>3, <2>4 DEF y
<1>4. CASE e.kind = "index"
  <2> DEFINE segs == IF e.target \in DOMAIN x.segs THEN [x.segs EXCEPT ![e.target].index = TRUE] ELSE x.segs
  <2>1. y = x \/ y = [x EXCEPT !.segs = segs]
      BY <1>4 DEF Committed, Fields
  <2>2. DOMAIN segs = DOMAIN x.segs
      OBVIOUS
  <2> HIDE DEF segs, y
  <2>3. /\ Fields(y) /\ y.jobs = x.jobs /\ y.answer = x.answer /\ y.flushWaiters = x.flushWaiters
        /\ y.explicit = x.explicit /\ y.segs \in {x.segs, segs}
      BY <2>1 DEF Fields
  <2>4. QED
      BY <1>4, <2>2, <2>3 DEF y
<1>5. QED
    BY <1>2, <1>3, <1>4 DEF Kinds

\* Once a commit is in the table of segments, who waits for what is as before.
LEMMA CommittedWaits ==
    ASSUME NEW x, Good(x), NEW sc, Waits(x, sc), NEW job \in Running(x)
    PROVE  LET e == x.jobs[job]
               z == RemoveJob(Committed(x, e), job)
           IN /\ Waits(z, sc) /\ Replaces(z, e, "committed")
              /\ Committed(x, e).jobs[job] = e
              /\ z.answer = x.answer /\ z.flushWaiters = x.flushWaiters
<1> DEFINE e == x.jobs[job]
           y == Committed(x, e)
           z == RemoveJob(y, job)
<1>1. Fields(x) /\ IsEntry(e) /\ job \in DOMAIN x.jobs
    BY RunningIs DEF Good
<1>2. e.kind \in Kinds /\ e.unit \in Nat /\ e.inputs \in SUBSET Units
    BY <1>1 DEF IsEntry
<1>3. /\ Fields(y) /\ y.jobs = x.jobs /\ y.answer = x.answer /\ y.flushWaiters = x.flushWaiters
      /\ y.explicit = x.explicit
      /\ DOMAIN y.segs \subseteq DOMAIN x.segs \cup {e.unit}
      /\ e.kind = "compact" => DOMAIN y.segs \subseteq (DOMAIN x.segs \ e.inputs) \cup {e.unit}
    BY <1>1, <1>2, CommittedSegs
<1> HIDE DEF y
<1>4. /\ z.jobs = Restrict(x.jobs, DOMAIN x.jobs \ {job}) /\ z.answer = x.answer
      /\ z.flushWaiters = x.flushWaiters /\ z.explicit = x.explicit /\ z.segs = y.segs
    BY <1>3 DEF RemoveJob, Fields
<1> HIDE DEF z
<1>5. DOMAIN z.jobs = DOMAIN x.jobs \ {job} /\ \A j \in DOMAIN z.jobs : z.jobs[j] = x.jobs[j]
    BY <1>4 DEF Restrict
<1>6. /\ e.unit \notin DOMAIN x.segs /\ \A i \in e.inputs : i < e.unit
      /\ \A j \in Running(z) : /\ j \in Running(x) /\ z.jobs[j] = x.jobs[j] /\ z.jobs[j].unit # e.unit
    BY <1>5 DEF Waits, NewUnits, Running
<1>7. OnlyCompact(z) /\ FlushesWait(z)
    BY <1>4, <1>5 DEF Waits, OnlyCompact, FlushesWait
<1>8. NewUnits(z)
    BY <1>3, <1>4, <1>6 DEF Waits, NewUnits
<1>9. CompactsWait(z, sc)
  <2>1. ASSUME NEW q \in x.explicit.waiters
        PROVE  /\ sc[q] \cap DOMAIN z.segs \subseteq z.explicit.scope
               /\ \A j \in Running(z) : z.jobs[j].unit \notin sc[q]
    <3>1. e.unit \notin sc[q] /\ sc[q] \cap DOMAIN x.segs \subseteq x.explicit.scope
        BY DEF Waits, CompactsWait
    <3>2. QED
        BY <1>3, <1>4, <1>6, <3>1 DEF Waits, CompactsWait
  <2>2. QED
      BY <1>4, <2>1 DEF Waits, CompactsWait
<1>10. Replaces(z, e, "committed")
  <2>1. \A i \in e.inputs : i # e.unit /\ i <= e.unit
      BY <1>2, <1>6 DEF Units
  <2>2. QED
      BY <1>3, <1>4, <2>1 DEF Replaces
<1>11. QED
    BY <1>3, <1>4, <1>7, <1>8, <1>9, <1>10 DEF Waits, z, y

\* A job that is done: what it committed is there before anybody is told.
LEMMA JobDoneAcked ==
    ASSUME IInv, AckInv, NEW j \in Running(w), JobDone(j)
    PROVE  Acked
<1> DEFINE e == w.jobs[j]
           y == Committed(w, e)
           z == RemoveJob(y, j)
           outcome == IF e.cancelled THEN "abandoned" ELSE IF Refused(w) THEN "failed" ELSE "committed"
<1>1. w' = EndJob(IF outcome = "committed" THEN y ELSE w, j, outcome, "refusal")
    BY DEF JobDone
<1>2. Good(w) /\ Waits(w, scope') /\ Tame(w) /\ scope' = scope
    BY WaitsTame DEF IInv, AckInv, JobDone
<1>3. Good(z) /\ j \notin DOMAIN z.jobs /\ y.jobs[j].unit \in Nat
    BY <1>2, CommittedIs DEF Keeps
<1>4. /\ Waits(z, scope') /\ Replaces(z, e, "committed") /\ y.jobs[j] = e
      /\ z.answer = w.answer /\ z.flushWaiters = w.flushWaiters
    BY <1>2, CommittedWaits
<1> HIDE DEF y, e, outcome
<1>5. CASE outcome = "committed"
  <2>1. Tame(z)
      BY <1>3, <1>4, WaitsTame
  <2>2. Tells(z, EndJob(y, j, "committed", "refusal"))
      BY <1>3, <1>4, <2>1, EndJobTells
  <2> HIDE DEF z
  <2>3. Tells(z, w')
      BY <1>1, <1>5, <2>2
  <2>4. QED
      BY <1>3, <1>4, <2>3, HeardStep
<1>6. CASE outcome # "committed"
    BY <1>1, <1>2, <1>6, EndRunningTells, PlainStep
<1>7. QED
    BY <1>5, <1>6

\* A job that fails, or panics, is nobody's success.
LEMMA JobFailsAcked ==
    ASSUME IInv, AckInv, NEW j \in Running(w), JobFails(j) \/ JobPanics(j)
    PROVE  Acked
<1>1. Good(w) /\ Tame(w) /\ scope' = scope
    BY WaitsTame DEF IInv, AckInv, JobFails, JobPanics
<1>2. Tells(w, Poison(w)) /\ Tame(Poison(w)) /\ j \in Running(Poison(w))
    BY <1>1, PoisonTells, StaysTame, PoisonIs
<1> DEFINE errors == {"none", "transient", "lasting", "rename"}
<1>3. \E outcome \in {"abandoned", "failed"}, error \in errors, x \in {w, Poison(w)} :
         w' = EndJob(x, j, outcome, error)
  <2>1. CASE JobPanics(j)
      BY <2>1 DEF JobPanics
  <2>2. CASE JobFails(j)
    <3>1. PICK error \in {"transient", "lasting", "rename"} :
            LET cancelled == w.jobs[j].cancelled
                poisons == error = "rename" /\ ~Refused(w) /\ ~cancelled
            IN w' = EndJob(IF poisons THEN Poison(w) ELSE w, j, IF cancelled THEN "abandoned" ELSE "failed",
                           IF poisons THEN "transient" ELSE error)
        BY <2>2 DEF JobFails
    <3>2. QED
        BY <3>1
  <2>3. QED
      BY <2>1, <2>2
<1>4. PICK outcome \in {"abandoned", "failed"}, error \in errors, x \in {w, Poison(w)} :
         w' = EndJob(x, j, outcome, error)
    BY <1>3
<1>5. Tame(x) /\ Tells(w, x) /\ j \in Running(x) /\ outcome # "committed"
    BY <1>1, <1>2, TellsItself
<1>6. Tells(x, w')
    BY <1>4, <1>5, EndRunningTells
<1>7. QED
    BY <1>1, <1>5, <1>6, TellsTwice, PlainStep

\* Every step keeps who waits for what, and tells the truth.
LEMMA NextAcked ==
    ASSUME IInv, AckInv, [Next]_vars
    PROVE  Acked
<1>1. CASE Write \/ FreezePending \/ Stop
    BY <1>1, WriteAcked, FreezePendingAcked, StopAcked
<1>2. CASE \E q \in FlushCalls \cup {Budget} : ExplicitFlush(q)
    BY <1>2, ExplicitFlushAcked
<1>3. CASE \E q \in CompactCalls : ExplicitCompact(q)
    BY <1>3, ExplicitCompactAcked
<1>4. CASE \E p \in OwnPermits : Begin(p)
    BY <1>4, BeginAcked
<1>5. CASE \E j \in Running(w) : JobDone(j) \/ JobFails(j) \/ JobPanics(j)
    BY <1>5, JobDoneAcked, JobFailsAcked
<1>6. CASE Quiesce \/ MarkDropped \/ DropEnds \/ GoesQuiet \/ BackoffOver \/ LogFails \/ Tick \/ Quiet
  <2>1. UNCHANGED scope
      BY <1>6 DEF Quiesce, MarkDropped, DropEnds, GoesQuiet, BackoffOver, LogFails, Tick, Quiet
  <2>2. QED
      BY <1>6, <2>1, QuiesceAcked
<1>7. CASE OtherAsks \/ OtherEnds
    BY <1>7, OthersAcked DEF OtherAsks, OtherEnds
<1>8. CASE UNCHANGED vars
    BY <1>8, QuiesceAcked DEF vars
<1>9. QED
    BY <1>1, <1>2, <1>3, <1>4, <1>5, <1>6, <1>7, <1>8 DEF Next

\* At first nobody waits and nothing runs.
LEMMA InitWaits == Init => AckInv
<1>1. SUFFICES ASSUME Init PROVE AckInv
    OBVIOUS
<1>2. /\ w.jobs = <<>> /\ w.flushWaiters = {} /\ w.explicit = NoExplicit
      /\ scope = [q \in CompactCalls |-> {}]
    BY <1>1 DEF Init
<1>3. DOMAIN w.jobs = {} /\ w.explicit.waiters = {}
    BY <1>2 DEF NoExplicit
<1>4. DOMAIN scope = CompactCalls
    BY <1>2
<1>5. QED
    BY <1>2, <1>3, <1>4
       DEF AckInv, Waits, OnlyCompact, FlushesWait, CompactsWait, NewUnits, Running

\* Who waits for what is as it should be, always.
LEMMA AckHolds == Spec => [](IInv /\ AckInv)
<1>1. Init => IInv /\ AckInv
    BY InitHolds, InitWaits
<1>2. (IInv /\ AckInv) /\ [Next]_vars => (IInv /\ AckInv)'
    BY NextKeeps, NextAcked DEF Acked
<1>3. QED
    BY <1>1, <1>2, PTL DEF Spec

\* A flush is acknowledged only when the checkpoint covers all that was visible
\* when it was asked for, whatever froze, failed or ended meanwhile
\* (explicit_flush, settle_flush_waiters).
THEOREM FlushAcksCover == Spec => FlushAckCovers
<1>1. (IInv /\ AckInv) /\ [Next]_vars => [FlushTold]_vars
    BY NextAcked DEF Acked
<1>2. QED
    BY <1>1, AckHolds, PTL DEF Spec, FlushAckCovers, FlushTold

\* When an explicit compaction is acknowledged, each segment that was there when
\* it was asked for is merged away or has its graphs, unless it is too small or
\* too large for them: merges of other origin, declined and cancelled jobs, and
\* restarts of the schedule included (schedule_explicit, settle_explicit,
\* index_scope).
THEOREM CompactAcksAreIndexed == Spec => CompactAckIndexed
<1>1. (IInv /\ AckInv) /\ [Next]_vars => [CompactTold]_vars
    BY NextAcked DEF Acked
<1>2. QED
    BY <1>1, AckHolds, PTL DEF Spec, CompactAckIndexed, CompactTold
=============================================================================
