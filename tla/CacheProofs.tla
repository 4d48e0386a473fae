---------------------------- MODULE CacheProofs ------------------------------
(***************************************************************************)
(* Theorems about Cache, for any fetches, units, charges and floors, any   *)
(* number of threads and any budgets: nothing leaks.  The bytes charged    *)
(* are those of the resident entries, each of which is in its ring once or *)
(* in the hands of one thread, and every registered load is carried on.    *)
(*                                                                         *)
(* CacheInv adds what makes that inductive: an entry that is not read yet  *)
(* is in no ring and no thread's hands (Unplaced), a load stays registered *)
(* only while nothing of its unit is resident, and a thread that completes *)
(* a load has unregistered it.                                             *)
(***************************************************************************)
EXTENDS Cache, FiniteSetTheorems, SequenceTheorems, TLAPS

-----------------------------------------------------------------------------
(* The bytes of a set of entries. *)

AddCharge(env, e, n) == n + env[e]
AnyOf(S) == CHOOSE x \in S : TRUE
IsTotal(env, done, n) == n \in Nat
Summing == INSTANCE Folding WITH Step <- AddCharge, Pick <- AnyOf, Inv <- IsTotal

\* The bytes of some entries are those of one of them and of the rest.
LEMMA TotalUnroll ==
    ASSUME NEW S, IsFiniteSet(S), NEW w, \A e \in S : w[e] \in Nat
    PROVE  /\ Total(w, S) \in Nat
           /\ S = {} => Total(w, S) = 0
           /\ S # {} => AnyOf(S) \in S /\ Total(w, S) = Total(w, S \ {AnyOf(S)}) + w[AnyOf(S)]
<1>1. \A T : Total(w, T) = Summing!Fold(w, 0, T)
    BY DEF Total, FoldSet, MapThenFoldSet, Summing!Fold, Summing!Body, AddCharge, AnyOf
<1>2. Summing!IsFiniteSet(S)
    BY DEF IsFiniteSet, Summing!IsFiniteSet
<1>3. Summing!Picks(S)
    BY DEF Summing!Picks, AnyOf
<1>4. Total(w, S) \in Nat
  <2>1. IsTotal(w, {}, 0)
      BY DEF IsTotal
  <2>2. \A s \in SUBSET S : \A y :
           s # {} /\ IsTotal(w, s \ {AnyOf(s)}, y) => IsTotal(w, s, AddCharge(w, AnyOf(s), y))
    <3>1. ASSUME NEW s \in SUBSET S, NEW y \in Nat, s # {}
          PROVE  AddCharge(w, AnyOf(s), y) \in Nat
      <4>1. AnyOf(s) \in S
          BY <3>1 DEF AnyOf
      <4>2. w[AnyOf(s)] \in Nat
          BY <4>1
      <4>3. QED
          BY <4>2 DEF AddCharge
    <3>2. QED
        BY <3>1 DEF IsTotal
  <2>3. IsTotal(w, S, Summing!Fold(w, 0, S))
      BY <1>2, <1>3, <2>1, <2>2, Summing!FoldRule
  <2>4. QED
      BY <1>1, <2>3 DEF IsTotal
<1>5. /\ S = {} => Summing!Fold(w, 0, S) = 0
      /\ S # {} => Summing!Fold(w, 0, S)
                     = AddCharge(w, AnyOf(S), Summing!Fold(w, 0, S \ {AnyOf(S)}))
    BY <1>2, <1>3, Summing!FoldUnrolls
<1>6. S # {} => AnyOf(S) \in S
    BY DEF AnyOf
<1>7. QED
    BY <1>1, <1>4, <1>5, <1>6 DEF AddCharge

\* Two sets of charges that agree on some entries give the same bytes, and
\* whichever entry is taken out, the bytes are its own and the rest's.
LEMMA TotalSplit ==
    ASSUME NEW S, IsFiniteSet(S), NEW w, NEW v, \A e \in S : w[e] \in Nat /\ v[e] = w[e]
    PROVE  /\ Total(v, S) = Total(w, S)
           /\ \A e \in S : Total(w, S) = Total(w, S \ {e}) + w[e]
<1> DEFINE Splits(T) == /\ Total(v, T) = Total(w, T)
                        /\ \A q \in T : Total(w, T) = Total(w, T \ {q}) + w[q]
           N == {n \in Nat : \A T \in SUBSET S : Cardinality(T) = n => Splits(T)}
<1>1. \A T \in SUBSET S : IsFiniteSet(T) /\ Total(w, T) \in Nat /\ Total(v, T) \in Nat
  <2>1. \A T \in SUBSET S : IsFiniteSet(T) /\ \A e \in T : w[e] \in Nat /\ v[e] \in Nat
      BY FS_Subset
  <2>2. QED
      BY <2>1, TotalUnroll
<1>3. 0 \in N
  <2>1. \A T \in SUBSET S : Cardinality(T) = 0 => T = {}
      BY <1>1, FS_EmptySet
  <2>2. Total(v, {}) = 0 /\ Total(w, {}) = 0
      BY FS_EmptySet, TotalUnroll
  <2>3. Splits({})
      BY <2>2
  <2> HIDE DEF Splits
  <2>4. QED
      BY <2>1, <2>3
<1>4. ASSUME NEW n \in N PROVE n + 1 \in N
  <2>0. n \in Nat /\ \A T \in SUBSET S : Cardinality(T) = n => Splits(T)
      OBVIOUS
  <2> HIDE DEF N
  <2>1. ASSUME NEW T \in SUBSET S, Cardinality(T) = n + 1
        PROVE  Splits(T)
    <3> HIDE DEF Splits
    <3> DEFINE x == AnyOf(T)
               U == T \ {x}
    <3>1. IsFiniteSet(T) /\ T # {} /\ \A e \in T : w[e] \in Nat /\ v[e] = w[e]
      <4>1. IsFiniteSet(T)
          BY <1>1
      <4>2. T # {}
          BY <2>0, <2>1, FS_EmptySet
      <4>3. QED
          BY <4>1, <4>2
    <3>2. x \in T /\ Total(w, T) = Total(w, U) + w[x] /\ Total(v, T) = Total(v, U) + v[x]
        BY <3>1, TotalUnroll
    <3> HIDE DEF x
    <3>3. \A q \in T : T \ {q} \in SUBSET S /\ Cardinality(T \ {q}) = n
      <4>1. \A q \in T : Cardinality(T \ {q}) = Cardinality(T) - 1
          BY <3>1, FS_RemoveElement
      <4>2. QED
          BY <2>0, <2>1, <4>1
    <3>4. \A q \in T : Splits(T \ {q})
        BY <2>0, <3>3
    <3>5. Total(v, T) = Total(w, T)
        BY <3>1, <3>2, <3>4 DEF Splits
    <3>6. ASSUME NEW q \in T, q # x PROVE Total(w, T) = Total(w, T \ {q}) + w[q]
      <4> DEFINE V == T \ {q}
                 W == T \ {x, q}
      <4>1. W \in SUBSET S /\ q \in U /\ x \in V /\ U \ {q} = W /\ V \ {x} = W
          BY <3>2, <3>6
      <4>2. Total(w, U) = Total(w, W) + w[q] /\ Total(w, V) = Total(w, W) + w[x]
          BY <3>2, <3>4, <4>1 DEF Splits
      <4>3. Total(w, W) \in Nat /\ w[x] \in Nat /\ w[q] \in Nat
          BY <1>1, <3>1, <3>2, <4>1
      <4> HIDE DEF U, V, W
      <4>4. Total(w, T) = Total(w, V) + w[q]
          BY <3>2, <4>2, <4>3
      <4>5. QED
          BY <4>4 DEF V
    <3>7. QED
        BY <3>2, <3>5, <3>6 DEF Splits
  <2> HIDE DEF Splits
  <2>2. QED
      BY <2>0, <2>1 DEF N
<1>5. N = Nat
  <2> HIDE DEF N
  <2>1. N \subseteq Nat
      BY DEF N
  <2>2. QED
      BY <1>3, <1>4, <2>1, Summing!SetInduction
<1>6. Cardinality(S) \in N
    BY <1>5, FS_CardinalityType
<1>7. Splits(S)
    BY <1>6
<1>8. QED
    BY <1>7

-----------------------------------------------------------------------------
(* How often an entry is in a ring. *)

\* Places of a sequence after one is appended.
LEMMA SlotsAppend ==
    ASSUME NEW q \in Seq(Fetches), NEW x \in Fetches, NEW e
    PROVE  /\ Append(q, x) \in Seq(Fetches)
           /\ Slots(q, e) \in Nat
           /\ Slots(Append(q, x), e) = Slots(q, e) + IF e = x THEN 1 ELSE 0
           /\ ToSet(Append(q, x)) = ToSet(q) \cup {x}
<1> DEFINE r == Append(q, x)
           A == {i \in DOMAIN q : q[i] = e}
           B == {i \in DOMAIN r : r[i] = e}
           n == Len(q) + 1
<1>1. /\ r \in Seq(Fetches) /\ Len(r) = n /\ n \in Nat /\ n = Len(q) + 1
      /\ DOMAIN q = 1..Len(q) /\ DOMAIN r = 1..n
      /\ \A i \in 1..Len(q) : r[i] = q[i]
      /\ r[n] = x
    BY AppendProperties, LenProperties
<1>2. IsFiniteSet(A) /\ n \notin A
  <2>1. IsFiniteSet(1..Len(q))
      BY <1>1, FS_Interval
  <2>2. QED
      BY <1>1, <2>1, FS_Subset
<1> HIDE DEF r, n
<1>3. B = IF e = x THEN A \cup {n} ELSE A
    BY <1>1
<1> HIDE DEF A, B
<1>4. Cardinality(A) \in Nat /\ Cardinality(B) = Cardinality(A) + IF e = x THEN 1 ELSE 0
  <2>1. Cardinality(A) \in Nat
      BY <1>2, FS_CardinalityType
  <2>2. e = x => Cardinality(B) = Cardinality(A) + 1
      BY <1>2, <1>3, FS_AddElement
  <2>3. e # x => B = A
      BY <1>3
  <2>4. QED
      BY <2>1, <2>2, <2>3
<1>5. ToSet(r) = ToSet(q) \cup {x}
    BY <1>1 DEF ToSet
<1>6. QED
    BY <1>1, <1>4, <1>5 DEF Slots, A, B, r

\* Places of a sequence without its first.
LEMMA SlotsTail ==
    ASSUME NEW q \in Seq(Fetches), q # <<>>, NEW e
    PROVE  /\ Tail(q) \in Seq(Fetches) /\ Head(q) \in Fetches /\ Head(q) \in ToSet(q)
           /\ Slots(Tail(q), e) \in Nat
           /\ Slots(q, e) = Slots(Tail(q), e) + IF e = Head(q) THEN 1 ELSE 0
           /\ ToSet(Tail(q)) \subseteq ToSet(q)
           /\ ToSet(q) \subseteq ToSet(Tail(q)) \cup {Head(q)}
<1> DEFINE r == Tail(q)
           A == {i \in DOMAIN r : r[i] = e}
           B == {i \in DOMAIN q : q[i] = e}
           C == B \ {1}
           f == [i \in A |-> i + 1]
<1>1. /\ r \in Seq(Fetches) /\ Len(r) = Len(q) - 1 /\ Len(q) \in Nat /\ Len(q) >= 1
      /\ DOMAIN q = 1..Len(q) /\ DOMAIN r = 1..Len(q) - 1
      /\ \A i \in 1..Len(q) - 1 : r[i] = q[i + 1]
      /\ Head(q) = q[1] /\ q[1] \in Fetches
    BY HeadTailProperties, LenProperties, EmptySeq
<1> HIDE DEF r
<1>2. IsFiniteSet(A) /\ IsFiniteSet(B)
  <2>1. IsFiniteSet(1..Len(q)) /\ IsFiniteSet(1..Len(q) - 1)
      BY <1>1, FS_Interval
  <2>2. QED
      BY <1>1, <2>1, FS_Subset
<1>3. f \in Bijection(A, C)
  <2>1. \A i \in A : i + 1 \in C
      BY <1>1
  <2>2. \A j \in C : j - 1 \in A /\ j - 1 + 1 = j
      BY <1>1
  <2>3. \A i, j \in A : i + 1 = j + 1 => i = j
      BY <1>1
  <2> HIDE DEF A, B, C
  <2>4. f \in Injection(A, C)
      BY <2>1, <2>3 DEF Injection, IsInjective
  <2>5. f \in Surjection(A, C)
      BY <2>1, <2>2 DEF Surjection
  <2>6. QED
      BY <2>4, <2>5 DEF Bijection
<1> HIDE DEF f
<1>4. Cardinality(C) = Cardinality(A)
    BY <1>2, <1>3, FS_Bijection DEF ExistsBijection
<1>5. Cardinality(B) = Cardinality(C) + (IF 1 \in B THEN 1 ELSE 0) /\ Cardinality(B) \in Nat /\ Cardinality(A) \in Nat
  <2>1. C = B \/ 1 \in B
      OBVIOUS
  <2>2. IsFiniteSet(C)
      BY <1>2, FS_Subset
  <2>3. 1 \in B => Cardinality(B \ {1}) = Cardinality(B) - 1
      BY <1>2, FS_RemoveElement
  <2>4. Cardinality(B) \in Nat /\ Cardinality(A) \in Nat /\ Cardinality(C) \in Nat
      BY <1>2, <2>2, FS_CardinalityType
  <2>5. 1 \notin B => C = B
      OBVIOUS
  <2>6. C = B \ {1}
      OBVIOUS
  <2>7. CASE 1 \in B
    <3>1. Cardinality(C) = Cardinality(B) - 1
        BY <2>3, <2>6, <2>7
    <3> HIDE DEF A, B, C
    <3>2. QED
        BY <2>4, <2>7, <3>1
  <2>8. CASE 1 \notin B
    <3>1. Cardinality(C) = Cardinality(B)
        BY <2>5, <2>8
    <3> HIDE DEF A, B, C
    <3>2. QED
        BY <2>4, <2>8, <3>1
  <2>9. QED
      BY <2>7, <2>8
<1>6. 1 \in B <=> e = Head(q)
    BY <1>1
<1>7. Slots(r, e) = Cardinality(A) /\ Slots(q, e) = Cardinality(B)
    BY DEF Slots
<1>8. ToSet(r) \subseteq ToSet(q) /\ ToSet(q) \subseteq ToSet(r) \cup {Head(q)} /\ Head(q) \in ToSet(q)
  <2>1. \A i \in 1..Len(q) - 1 : i + 1 \in 1..Len(q)
      BY <1>1
  <2>2. \A j \in 1..Len(q) : j = 1 \/ (j - 1 \in 1..Len(q) - 1 /\ r[j - 1] = q[j])
      BY <1>1
  <2>3. 1 \in 1..Len(q)
      BY <1>1
  <2>4. \A x : x \in ToSet(r) => x \in ToSet(q)
      BY <1>1, <2>1 DEF ToSet
  <2>5. \A x : x \in ToSet(q) => x \in ToSet(r) \/ x = q[1]
    <3>1. ToSet(q) = {q[j] : j \in 1..Len(q)} /\ ToSet(r) = {r[j] : j \in 1..Len(q) - 1}
        BY <1>1 DEF ToSet
    <3>2. ASSUME NEW j \in 1..Len(q) PROVE q[j] \in ToSet(r) \/ q[j] = q[1]
        BY <2>2, <3>1
    <3>3. QED
        BY <3>1, <3>2
  <2>6. q[1] \in ToSet(q)
      BY <1>1, <2>3 DEF ToSet
  <2>7. QED
      BY <1>1, <2>4, <2>5, <2>6
<1> HIDE DEF A, B, C
<1>9. QED
    BY <1>1, <1>4, <1>5, <1>6, <1>7, <1>8 DEF r

\* Whatever is not in a sequence has no place in it.
LEMMA SlotsNone ==
    ASSUME NEW q \in Seq(Fetches), NEW e
    PROVE  /\ Slots(q, e) \in Nat /\ Slots(<<>>, e) = 0 /\ ToSet(<<>>) = {}
           /\ e \notin ToSet(q) => Slots(q, e) = 0
           /\ Slots(q, e) = 0 => e \notin ToSet(q)
<1>1. DOMAIN q = 1..Len(q) /\ Len(q) \in Nat
    BY LenProperties
<1> DEFINE A == {i \in DOMAIN q : q[i] = e}
<1>2. IsFiniteSet(A)
  <2>1. IsFiniteSet(1..Len(q)) /\ A \in SUBSET (1..Len(q))
      BY <1>1, FS_Interval
  <2>2. QED
      BY <2>1, FS_Subset
<1>3. A = {} <=> e \notin ToSet(q)
    BY DEF ToSet
<1>4. {i \in DOMAIN <<>> : <<>>[i] = e} = {} /\ ToSet(<<>>) = {}
    BY DEF ToSet
<1> HIDE DEF A
<1>5. Cardinality(A) \in Nat /\ (A = {} <=> Cardinality(A) = 0)
    BY <1>2, FS_CardinalityType, FS_EmptySet
<1>6. QED
    BY <1>3, <1>4, <1>5, FS_EmptySet DEF Slots, A

-----------------------------------------------------------------------------
(* The hand of the clock, and the sweep of dead slots. *)

LastRound(S) == Max(S)

\* What a number of visits does to the ring they started with: whoever is
\* alive has its places there and, if it is found, in the thread's hands.
VisitStep(env, i, s) == Visit(env.alive, env.pinned, env.lap, s)
Turned(env, done, s) ==
    /\ {"ring", "visits", "found", "referenced"} \subseteq DOMAIN s
    /\ s.ring \in Seq(Fetches) /\ s.visits \in Nat /\ s.found \in Fetches \cup {None}
    /\ ToSet(s.ring) \subseteq ToSet(env.ring)
    /\ s.found # None => s.found \in ToSet(env.ring)
    /\ \A e \in env.alive :
          Slots(env.ring, e) = Slots(s.ring, e) + IF s.found = e THEN 1 ELSE 0
Turning == INSTANCE Folding WITH Step <- VisitStep, Pick <- LastRound, Inv <- Turned

\* A visit to the slot at the front: it is dropped with its dead entry, put at the end, or found.
LEMMA TurnedStep ==
    ASSUME NEW env, env.ring \in Seq(Fetches), env.alive \subseteq Fetches, None \notin Fetches,
           NEW i, NEW s, NEW before, NEW after, Turned(env, before, s)
    PROVE  Turned(env, after, VisitStep(env, i, s))
<1> DEFINE e == Head(s.ring)
           z == VisitStep(env, i, s)
<1>1. /\ s.ring \in Seq(Fetches) /\ s.visits \in Nat /\ ToSet(s.ring) \subseteq ToSet(env.ring)
      /\ \A x \in env.alive : Slots(env.ring, x) = Slots(s.ring, x) + IF s.found = x THEN 1 ELSE 0
      /\ {"ring", "visits", "found", "referenced"} \subseteq DOMAIN s
    BY DEF Turned
<1>2. CASE s.found # None \/ s.ring = <<>>
  <2>1. z = s
      BY <1>2 DEF VisitStep, Visit
  <2> HIDE DEF z
  <2>2. QED
      BY <2>1 DEF Turned, z
<1>3. CASE ~(s.found # None \/ s.ring = <<>>)
  <2>1. /\ Tail(s.ring) \in Seq(Fetches) /\ e \in Fetches /\ e \in ToSet(s.ring)
        /\ ToSet(Tail(s.ring)) \subseteq ToSet(s.ring)
        /\ \A x : Slots(Tail(s.ring), x) \in Nat /\ Slots(s.ring, x) = Slots(Tail(s.ring), x) + IF x = e THEN 1 ELSE 0
      BY <1>1, <1>3, SlotsTail
  <2>2. /\ Append(Tail(s.ring), e) \in Seq(Fetches)
        /\ ToSet(Append(Tail(s.ring), e)) = ToSet(Tail(s.ring)) \cup {e}
        /\ \A x : Slots(Append(Tail(s.ring), e), x) = Slots(Tail(s.ring), x) + IF x = e THEN 1 ELSE 0
      BY <2>1, SlotsAppend
  <2>3. \/ /\ e \notin env.alive /\ z = [s EXCEPT !.ring = Tail(@), !.visits = @ + 1]
        \/ \E ref : z = [s EXCEPT !.ring = Append(Tail(@), e), !.visits = @ + 1, !.referenced = ref]
        \/ z = [s EXCEPT !.ring = Tail(@), !.visits = @ + 1, !.found = e]
      BY <1>3 DEF VisitStep, Visit
  <2>4. /\ {"ring", "visits", "found", "referenced"} \subseteq DOMAIN z /\ z.visits = s.visits + 1
        /\ \/ e \notin env.alive /\ z.ring = Tail(s.ring) /\ z.found = s.found
           \/ z.ring = Append(Tail(s.ring), e) /\ z.found = s.found
           \/ z.ring = Tail(s.ring) /\ z.found = e
    <3> HIDE DEF e, z
    <3>1. QED
        BY <1>1, <2>3
  <2> HIDE DEF z, e
  <2>5. \A x \in env.alive : Slots(env.ring, x) = Slots(z.ring, x) + IF z.found = x THEN 1 ELSE 0
    <3>1. TAKE x \in env.alive
    <3>2. s.found = None /\ x # None
        BY <1>3
    <3>3. Slots(env.ring, x) = Slots(s.ring, x)
        BY <1>1, <2>1, <3>2
    <3>4. PICK a, b, c : a = Slots(Tail(s.ring), x) /\ b = Slots(z.ring, x) /\ c = Slots(s.ring, x)
        OBVIOUS
    <3>5. a \in Nat /\ c = a + IF x = e THEN 1 ELSE 0
        BY <2>1, <3>4
    <3>6. \/ x # e /\ z.found = None /\ b = a
          \/ z.found = None /\ b = a + IF x = e THEN 1 ELSE 0
          \/ z.found = e /\ b = a
      <4>1. Slots(Append(Tail(s.ring), e), x) = a + IF x = e THEN 1 ELSE 0
          BY <2>2, <3>4
      <4>2. QED
          BY <2>4, <3>2, <3>4, <4>1
    <3>7. c = b + IF z.found = x THEN 1 ELSE 0
        BY <3>2, <3>5, <3>6
    <3>8. QED
        BY <3>3, <3>4, <3>7
  <2>6. /\ z.ring \in Seq(Fetches) /\ z.visits \in Nat /\ z.found \in Fetches \cup {None}
        /\ ToSet(z.ring) \subseteq ToSet(env.ring) /\ (z.found # None => z.found \in ToSet(env.ring))
    <3>1. e \in ToSet(env.ring) /\ s.found = None
        BY <1>1, <1>3, <2>1
    <3>2. z.ring \in {Tail(s.ring), Append(Tail(s.ring), e)} /\ z.found \in {None, e} /\ z.visits = s.visits + 1
        BY <2>4, <3>1
    <3>3. /\ Tail(s.ring) \in Seq(Fetches) /\ ToSet(Tail(s.ring)) \subseteq ToSet(env.ring)
          /\ Append(Tail(s.ring), e) \in Seq(Fetches) /\ ToSet(Append(Tail(s.ring), e)) \subseteq ToSet(env.ring)
        BY <1>1, <2>1, <2>2, <3>1
    <3>4. s.visits \in Nat /\ e \in Fetches
        BY <1>1, <2>1
    <3>5. z.ring \in Seq(Fetches) /\ ToSet(z.ring) \subseteq ToSet(env.ring)
      <4>1. CASE z.ring = Tail(s.ring)
          BY <3>3, <4>1
      <4>2. CASE z.ring = Append(Tail(s.ring), e)
          BY <3>3, <4>2
      <4>3. QED
          BY <3>2, <4>1, <4>2
    <3>6. z.visits \in Nat /\ z.found \in Fetches \cup {None} /\ (z.found # None => z.found \in ToSet(env.ring))
        BY <3>1, <3>2, <3>4
    <3>7. QED
        BY <3>5, <3>6
  <2>7. QED
      BY <2>4, <2>5, <2>6 DEF Turned, z
<1>4. QED
    BY <1>2, <1>3

\* The last of some rounds.
LEMMA LastRoundIs ==
    ASSUME NEW n \in Int
    PROVE  IsFiniteSet(1..n) /\ \A T \in SUBSET (1..n) : T # {} => LastRound(T) \in T
<1>1. IsFiniteSet(1..n)
    BY FS_Interval
<1>2. ASSUME NEW T \in SUBSET (1..n), T # {}
      PROVE  LastRound(T) \in T
  <2> DEFINE U == {n - y : y \in T}
  <2>0. \A y \in T : y \in Nat /\ y <= n /\ n - y \in Nat /\ n - (n - y) = y
      OBVIOUS
  <2>1. U \in SUBSET Nat /\ U # {}
      BY <1>2, <2>0
  <2>2. PICK x \in U : \A y \in U : ~(y < x)
      BY <2>1, Summing!LeastNumber
  <2>3. PICK v \in T : x = n - v
      BY <2>2
  <2>5. ASSUME NEW y \in T PROVE v >= y
    <3>1. n - y \in U
        OBVIOUS
    <3>2. ~(n - y < n - v)
        BY <2>2, <2>3, <3>1
    <3>3. QED
        BY <2>0, <2>3, <3>2
  <2>4. \E w \in T : \A y \in T : w >= y
      BY <2>3, <2>5
  <2>6. QED
      BY <2>4 DEF LastRound, Max
<1>3. QED
    BY <1>1, <1>2

\* Any number of visits.
LEMMA TurnIs ==
    ASSUME NEW env, env.ring \in Seq(Fetches), env.alive \subseteq Fetches, None \notin Fetches,
           NEW s, Turned(env, {}, s), NEW n \in Int
    PROVE  Turned(env, 1..n, Turning!Fold(env, s, 1..n))
<1>1. Turning!IsFiniteSet(1..n) /\ Turning!Picks(1..n)
    BY LastRoundIs DEF IsFiniteSet, Turning!IsFiniteSet, Turning!Picks
<1>2. \A T \in SUBSET (1..n) : \A y :
        T # {} /\ Turned(env, T \ {LastRound(T)}, y) => Turned(env, T, VisitStep(env, LastRound(T), y))
    BY TurnedStep
<1>3. QED
    BY <1>1, <1>2, Turning!FoldRule

\* What is left of a ring after some rounds of the sweep of dead slots.
KeepStep(env, i, q) == IF env.ring[i] \in env.dead THEN q ELSE Append(q, env.ring[i])
Swept(env, done, q) ==
    /\ q \in Seq(Fetches)
    /\ \A n \in 0..Len(env.ring) : done = 1..n =>
         /\ ToSet(q) \subseteq ToSet(env.ring)
         /\ \A e \in Fetches \ env.dead : Slots(q, e) = Slots(SubSeq(env.ring, 1, n), e)
Sweeping == INSTANCE Folding WITH Step <- KeepStep, Pick <- LastRound, Inv <- Swept

\* Whoever is not dead keeps its slots.
LEMMA RetainedIs ==
    ASSUME NEW q \in Seq(Fetches), NEW dead
    PROVE  /\ Retained(q, dead) \in Seq(Fetches)
           /\ ToSet(Retained(q, dead)) \subseteq ToSet(q)
           /\ \A e \in Fetches \ dead : Slots(Retained(q, dead), e) = Slots(q, e)
<1> DEFINE env == [ring |-> q, dead |-> dead]
           m == Len(q)
<1>1. /\ m \in Nat /\ DOMAIN q = 1..m /\ env.ring = q /\ env.dead = dead
      /\ \A i \in 1..m : q[i] \in Fetches /\ q[i] \in ToSet(q)
    BY LenProperties, ElementOfSeq DEF ToSet
<1>2. Retained(q, dead) = Sweeping!Fold(env, <<>>, DOMAIN q)
    BY DEF Retained, FoldLeft, MapThenFoldSet, Sweeping!Fold, Sweeping!Body, KeepStep, LastRound
<1> HIDE DEF env, m
<1>0. m \in Int
    BY <1>1
<1>3. Sweeping!IsFiniteSet(1..m) /\ Sweeping!Picks(1..m)
    BY <1>0, LastRoundIs DEF IsFiniteSet, Sweeping!IsFiniteSet, Sweeping!Picks
<1>4. \A n \in 0..m : SubSeq(q, 1, n) \in Seq(Fetches) /\ (n < m => SubSeq(q, 1, n + 1) = Append(SubSeq(q, 1, n), q[n + 1]))
  <2>1. TAKE n \in 0..m
  <2>2. SubSeq(q, 1, n) \in Seq(Fetches)
      BY <1>1, SubSeqProperties DEF m
  <2>3. ASSUME n < m PROVE SubSeq(q, 1, n + 1) = Append(SubSeq(q, 1, n), q[n + 1])
    <3>1. n + 1 \in 1..Len(q) /\ 1 \in 1..Len(q) /\ n + 1 - 1 = n /\ q[n + 1] \in Fetches
        BY <1>1, <2>3 DEF m
    <3>2. SubSeq(q, 1, n + 1) = SubSeq(q, 1, n + 1 - 1) \o <<q[n + 1]>>
        BY <3>1, SubSeqRecursiveSecond
    <3>3. QED
        BY <2>2, <3>1, <3>2, AppendIsConcat
  <2>4. QED
      BY <2>2, <2>3
<1>5. Swept(env, {}, <<>>)
  <2>1. \A n \in 0..m : {} = 1..n => n = 0
      BY <1>1
  <2>2. \A e : Slots(<<>>, e) = 0 /\ Slots(SubSeq(q, 1, 0), e) = 0 /\ ToSet(<<>>) = {}
    <3>1. SubSeq(q, 1, 0) = <<>>
        BY SubSeqEmpty
    <3>2. QED
        BY <3>1, SlotsNone
  <2>3. QED
      BY <1>1, <2>1, <2>2 DEF Swept, m
<1>6. ASSUME NEW T \in SUBSET (1..m), T # {}, NEW y, Swept(env, T \ {LastRound(T)}, y)
      PROVE  Swept(env, T, KeepStep(env, LastRound(T), y))
  <2> DEFINE i == LastRound(T)
             z == KeepStep(env, i, y)
  <2>1. i \in T /\ i \in 1..m /\ q[i] \in Fetches /\ q[i] \in ToSet(q)
    <3>1. i \in T
        BY <1>0, <1>6, LastRoundIs
    <3> HIDE DEF i
    <3>2. QED
        BY <1>1, <3>1
  <2>2. y \in Seq(Fetches)
      BY <1>6 DEF Swept
  <2>3. z = (IF q[i] \in dead THEN y ELSE Append(y, q[i]))
      BY <1>1 DEF KeepStep
  <2>4. /\ Append(y, q[i]) \in Seq(Fetches) /\ ToSet(Append(y, q[i])) = ToSet(y) \cup {q[i]}
        /\ \A e : Slots(Append(y, q[i]), e) = Slots(y, e) + IF e = q[i] THEN 1 ELSE 0
      BY <2>1, <2>2, SlotsAppend
  <2>5. ASSUME NEW n \in 0..m, T = 1..n
        PROVE  /\ ToSet(z) \subseteq ToSet(q)
               /\ \A e \in Fetches \ dead : Slots(z, e) = Slots(SubSeq(q, 1, n), e)
    <3>1. i = n
      <4>1. n \in T /\ n \in Nat /\ n # 0
          BY <1>1, <1>6, <2>5
      <4>2. \A x \in T : x <= n
          BY <2>5
      <4>3. \E x \in T : \A u \in T : x >= u
          BY <4>1, <4>2, <2>5
      <4>4. i >= n
        <5>1. \A u \in T : i >= u
            BY <4>3 DEF LastRound, Max
        <5>2. QED
            BY <4>1, <5>1
      <4> HIDE DEF i
      <4>5. QED
          BY <2>1, <2>5, <4>1, <4>2, <4>4
    <3>2. n - 1 \in 0..m /\ T \ {i} = 1..n - 1 /\ n - 1 < m /\ n - 1 + 1 = n
      <4> HIDE DEF i
      <4>1. QED
          BY <1>1, <2>1, <2>5, <3>1
    <3>3. /\ ToSet(y) \subseteq ToSet(q)
          /\ \A e \in Fetches \ dead : Slots(y, e) = Slots(SubSeq(q, 1, n - 1), e)
      <4>1. /\ Len(env.ring) = m /\ Swept(env, 1..n - 1, y)
          BY <1>1, <1>6, <3>2 DEF m
      <4>2. QED
          BY <1>1, <3>2, <4>1 DEF Swept
    <3>4. SubSeq(q, 1, n) = Append(SubSeq(q, 1, n - 1), q[i]) /\ SubSeq(q, 1, n - 1) \in Seq(Fetches)
        BY <1>4, <3>1, <3>2
    <3>5. \A e : Slots(SubSeq(q, 1, n), e) = Slots(SubSeq(q, 1, n - 1), e) + IF e = q[i] THEN 1 ELSE 0
      <4>1. q[i] \in Fetches
          BY <2>1
      <4> HIDE DEF i
      <4>2. \A e : Slots(Append(SubSeq(q, 1, n - 1), q[i]), e) = Slots(SubSeq(q, 1, n - 1), e) + IF e = q[i] THEN 1 ELSE 0
          BY <3>4, <4>1, SlotsAppend
      <4>3. QED
          BY <3>4, <4>2
    <3>6. \A e : Slots(SubSeq(q, 1, n - 1), e) \in Nat
        BY <3>4, SlotsNone
    <3> HIDE DEF i, z
    <3>7. \A e : e # q[i] => Slots(SubSeq(q, 1, n), e) = Slots(SubSeq(q, 1, n - 1), e)
        BY <3>5, <3>6
    <3>8. CASE q[i] \in dead
        BY <2>1, <2>3, <3>3, <3>7, <3>8
    <3>9. CASE q[i] \notin dead
        BY <2>1, <2>3, <2>4, <3>3, <3>5, <3>6, <3>9
    <3>10. QED
        BY <3>8, <3>9
  <2> HIDE DEF z
  <2>6. z \in Seq(Fetches)
      BY <2>2, <2>3, <2>4
  <2>7. QED
      BY <1>1, <2>5, <2>6 DEF Swept, m, z
<1>7. Swept(env, 1..m, Sweeping!Fold(env, <<>>, 1..m))
    BY <1>3, <1>5, <1>6, Sweeping!FoldRule
<1>8. SubSeq(q, 1, m) = q
    BY SubSeqFull DEF m
<1> DEFINE q2 == Sweeping!Fold(env, <<>>, 1..m)
<1>9. q2 = Retained(q, dead)
    BY <1>1, <1>2
<1> HIDE DEF q2
<1>10. Swept(env, 1..m, q2) /\ m \in 0..m /\ Len(env.ring) = m
    BY <1>1, <1>7 DEF m, q2
<1>11. /\ q2 \in Seq(Fetches) /\ ToSet(q2) \subseteq ToSet(q)
       /\ \A e \in Fetches \ dead : Slots(q2, e) = Slots(SubSeq(q, 1, m), e)
    BY <1>1, <1>10 DEF Swept
<1>12. QED
    BY <1>8, <1>9, <1>11

-----------------------------------------------------------------------------
(* The inductive invariant. *)

Ats == {"free", "load", "finish", "ring", "complete", "completeInserted", "return", "waits",
        "resume", "sweep", "over", "hand", "check"}
Idle == {"idle", "queued"}

TypeInv ==
    /\ DOMAIN entries = Keys
    /\ \A k \in Keys : entries[k] # None => entries[k] \in Fetches /\ KeyOf[entries[k]] = k
    /\ DOMAIN loading = Keys
    /\ \A k \in Keys : loading[k] # None => loading[k] \in Fetches /\ KeyOf[loading[k]] = k
    /\ DOMAIN flight = Fetches
    /\ \A e \in Fetches : {"state", "stored", "registered"} \subseteq DOMAIN flight[e]
    /\ entry \in [Fetches -> [decoded : BOOLEAN, charged : BOOLEAN, referenced : BOOLEAN]]
    /\ DOMAIN fetch = Fetches
    /\ \A f \in Fetches : {"state", "mode", "bytes", "on"} \subseteq DOMAIN fetch[f]
    /\ ring \in [Classes -> Seq(Fetches)]
    /\ used \in [Classes -> Int]
    /\ queue \in Seq(Fetches)
    /\ warm \in 0..Len(Warm)

\* What a thread has in its hands at each place of its program.
ThreadInv ==
    /\ DOMAIN th = Threads
    /\ \A t \in Threads :
          /\ DOMAIN FreeThread \subseteq DOMAIN th[t]
          /\ th[t].at \in Ats
          /\ th[t].load \in Fetches \cup {None} /\ th[t].fetch \in Fetches \cup {None}
          /\ th[t].at \in {"load", "finish", "ring", "complete", "completeInserted"} => th[t].load # None
          /\ th[t].cand \in Fetches \cup {None} /\ (th[t].cand # None <=> th[t].at = "check")
          /\ th[t].lap \in Nat /\ th[t].visits \in Nat
          /\ th[t].at \in {"hand", "check"} => th[t].class \in Classes

\* The entry is not resident and in no ring, and no thread is about to put it there.
Unplaced(e) ==
    /\ entries[KeyOf[e]] # e
    /\ \A c \in Classes : e \notin ToSet(ring[c])
    /\ Handling(e) = {}

\* A registered load has nothing of its unit resident and will be completed by who carries it; a
\* fetch that has not looked anything up has no load; who completes a load has unregistered it.
LoadInv ==
    /\ \A k \in Keys : loading[k] # None =>
          /\ entries[k] = None
          /\ flight[loading[k]].registered /\ flight[loading[k]].state = "pending"
          /\ Carried(loading[k]) /\ Unplaced(loading[k])
    /\ \A e \in Fetches : fetch[e].state \in Idle =>
          Unplaced(e) /\ loading[KeyOf[e]] # e /\ \A t \in Threads : th[t].load # e
    /\ \A e \in ToSet(queue) : fetch[e].state # "idle"
    /\ \A t \in Threads : th[t].at \in {"ring", "complete", "completeInserted"} =>
          loading[KeyOf[th[t].load]] # th[t].load

\* The slots: of the right class, and one for each resident entry.
RingInv ==
    /\ \A c \in Classes : \A e \in ToSet(ring[c]) : ClassOf[KeyOf[e]] = c
    /\ \A c \in Classes : \A e \in Resident(c) : Slots(ring[c], e) + Cardinality(Handling(e)) = 1

Charges == [e \in Fetches |-> ChargeOf(e)]
UsedInv == \A c \in Classes : used[c] = Total(Charges, Resident(c))

CacheInv == TypeInv /\ ThreadInv /\ LoadInv /\ RingInv /\ UsedInv

\* Threads, and their hands, are finitely many.
LEMMA ThreadsAre == /\ IsFiniteSet(Threads) /\ Aux \in Threads /\ PoolThreads \subseteq Threads
                    /\ \A e : Handling(e) \subseteq Threads /\ IsFiniteSet(Handling(e))
                    /\ \A e : Handling(e)' \subseteq Threads /\ IsFiniteSet(Handling(e)')
<1>1. IsFiniteSet(Threads) /\ Aux \in Threads /\ PoolThreads \subseteq Threads
    BY CacheAssumption, FS_AddElement DEF Threads
<1>2. \A e : Handling(e) \subseteq Threads /\ Handling(e)' \subseteq Threads
    BY DEF Handling
<1>3. QED
    BY <1>1, <1>2, FS_Subset

\* The resident entries of a class.
LEMMA ResidentIs ==
    ASSUME TypeInv
    PROVE  /\ \A c \in Classes : /\ Resident(c) \subseteq Fetches /\ IsFiniteSet(Resident(c))
                                 /\ \A e : e \in Resident(c) <=>
                                       e \in Fetches /\ entries[KeyOf[e]] = e /\ ClassOf[KeyOf[e]] = c
           /\ \A e \in Fetches : KeyOf[e] \in Keys /\ ClassOf[KeyOf[e]] \in Classes /\ e # None
           /\ \A e \in Fetches : Charges[e] = ChargeOf(e) /\ Charges[e] \in Nat
<1>1. \A e \in Fetches : KeyOf[e] \in Keys /\ ClassOf[KeyOf[e]] \in Classes /\ e # None
                         /\ Charge[KeyOf[e]] \in Nat /\ Extra[KeyOf[e]] \in Nat
    BY CacheAssumption DEF Keys, Range
<1>2. ASSUME NEW c \in Classes, NEW e
      PROVE  e \in Resident(c) <=> e \in Fetches /\ entries[KeyOf[e]] = e /\ ClassOf[KeyOf[e]] = c
    BY <1>1 DEF Resident, TypeInv
<1>3. \A c \in Classes : Resident(c) \subseteq Fetches /\ IsFiniteSet(Resident(c))
    BY <1>2, CacheAssumption, FS_Subset
<1>4. \A e \in Fetches : Charges[e] = ChargeOf(e) /\ Charges[e] \in Nat
    BY <1>1 DEF Charges, ChargeOf, TypeInv
<1>5. QED
    BY <1>1, <1>2, <1>3, <1>4

-----------------------------------------------------------------------------
(* Steps that leave the cache itself as it is. *)

\* Neither entries, rings and charges nor what threads hold for them change.
LEMMA SamePlaces ==
    ASSUME TypeInv, TypeInv', RingInv, UsedInv, \A k \in Keys : entries'[k] = entries[k], ring' = ring, used' = used,
           \A e \in Fetches : entry'[e].charged = entry[e].charged,
           \A e \in Fetches : Handling(e)' = Handling(e)
    PROVE  RingInv' /\ UsedInv'
<1>1. \A c \in Classes : Resident(c)' = Resident(c) /\ Resident(c) \subseteq Fetches /\ IsFiniteSet(Resident(c))
    BY ResidentIs DEF Resident
<1>2. \A e \in Fetches : Charges[e] \in Nat /\ Charges'[e] = Charges[e]
    BY ResidentIs DEF Charges, ChargeOf
<1>3. ASSUME NEW c \in Classes PROVE Total(Charges', Resident(c)) = Total(Charges, Resident(c))
  <2> DEFINE S == Resident(c)
             v == Charges'
             w == Charges
  <2>1. IsFiniteSet(S) /\ \A e \in S : w[e] \in Nat /\ v[e] = w[e]
      BY <1>1, <1>2
  <2> HIDE DEF S, v, w
  <2>2. Total(v, S) = Total(w, S)
      BY <2>1, TotalSplit
  <2>3. QED
      BY <2>2 DEF S, v, w
<1>4. UsedInv'
    BY <1>1, <1>3 DEF UsedInv
<1>5. RingInv'
    BY <1>1 DEF RingInv
<1>6. QED
    BY <1>4, <1>5

\* The thread does nothing that a load or a slot depends on.
Beside(t) ==
    \/ th'[t] = th[t]
    \/ /\ th[t].at \notin {"load", "finish", "ring", "check"}
       /\ th'[t].at \notin {"load", "finish", "ring", "complete", "completeInserted", "check"}
       /\ th'[t].load \in {th[t].load, None}

LEMMA BesideHolds ==
    ASSUME ThreadInv, ThreadInv', \A t \in Threads : Beside(t)
    PROVE  /\ \A e \in Fetches : Handling(e)' = Handling(e)
           /\ \A e \in Fetches : (flight[e].stored /\ e \in ToSet(queue)
                                    => flight'[e].stored /\ e \in ToSet(queue'))
                                 => (Carried(e) => Carried(e)')
<1>1. \A e \in Fetches : e # None
    BY CacheAssumption
<1>2. ASSUME NEW e \in Fetches, NEW t \in Threads
      PROVE  /\ (th[t].cand = e \/ (th[t].load = e /\ th[t].at = "ring"))
                   <=> (th'[t].cand = e \/ (th'[t].load = e /\ th'[t].at = "ring"))
             /\ th[t].load = e /\ th[t].at \in {"load", "finish"}
                   => th'[t].load = e /\ th'[t].at \in {"load", "finish"}
  <2>1. CASE th'[t] = th[t]
      BY <2>1
  <2>2. CASE /\ th[t].at \notin {"load", "finish", "ring", "check"}
             /\ th'[t].at \notin {"load", "finish", "ring", "complete", "completeInserted", "check"}
    <3>1. th[t].cand = None /\ th'[t].cand = None
        BY <2>2 DEF ThreadInv
    <3>2. QED
        BY <1>1, <2>2, <3>1
  <2>3. QED
      BY <2>1, <2>2 DEF Beside
<1>3. \A e \in Fetches : Handling(e)' = Handling(e)
    BY <1>2 DEF Handling
<1>4. QED
    BY <1>2, <1>3 DEF Carried

\* Nothing is looked up or placed, and what is loading is still carried.
LEMMA QuietKeeps ==
    ASSUME CacheInv, TypeInv', ThreadInv', \A e \in Fetches : Handling(e)' = Handling(e),
           entries' = entries, loading' = loading, ring' = ring, used' = used,
           \A e \in Fetches : entry'[e].charged = entry[e].charged,
           \A e \in Fetches : e = loading[KeyOf[e]] =>
              /\ flight'[e].registered = flight[e].registered
              /\ flight'[e].state = flight[e].state
              /\ Carried(e) => Carried(e)',
           \A e \in ToSet(queue') : fetch'[e].state # "idle",
           \A e \in Fetches : fetch'[e].state \in Idle =>
              fetch[e].state \in Idle /\ \A t \in Threads : th'[t].load \in {th[t].load, None},
           \A t \in Threads : th'[t].at \in {"ring", "complete", "completeInserted"} =>
              th[t].load = th'[t].load /\ th[t].at \in {"ring", "complete", "completeInserted"}
    PROVE  CacheInv'
<1>2. RingInv' /\ UsedInv'
    BY SamePlaces DEF CacheInv
<1>3. \A e \in Fetches : Unplaced(e)' <=> Unplaced(e)
    BY DEF Unplaced
<1>4. \A e \in Fetches : e # None
    BY CacheAssumption
<1>5. ASSUME NEW k \in Keys, loading[k] # None
      PROVE  /\ entries'[k] = None
             /\ flight'[loading[k]].registered /\ flight'[loading[k]].state = "pending"
             /\ Carried(loading[k])' /\ Unplaced(loading[k])'
  <2>0. PICK e : e = loading[k]
      OBVIOUS
  <2>1. e \in Fetches /\ KeyOf[e] = k
      BY <1>5, <2>0 DEF CacheInv, TypeInv
  <2>2. entries[k] = None /\ flight[e].registered /\ flight[e].state = "pending" /\ Carried(e) /\ Unplaced(e)
      BY <1>5, <2>0 DEF CacheInv, LoadInv
  <2>3. flight'[e].registered /\ flight'[e].state = "pending" /\ Carried(e)'
      BY <2>0, <2>1, <2>2
  <2>4. Unplaced(e)'
      BY <1>3, <2>1, <2>2
  <2>5. Carried(loading[k])' /\ Unplaced(loading[k])'
      BY <2>0, <2>3, <2>4 DEF Carried, Unplaced, Handling
  <2>6. QED
      BY <2>0, <2>2, <2>3, <2>5
<1>6. ASSUME NEW e \in Fetches, fetch'[e].state \in Idle
      PROVE  Unplaced(e)' /\ loading'[KeyOf[e]] # e /\ \A t \in Threads : th'[t].load # e
  <2>1. Unplaced(e) /\ loading[KeyOf[e]] # e /\ \A t \in Threads : th[t].load # e
      BY <1>6 DEF CacheInv, LoadInv
  <2>2. QED
      BY <1>3, <1>4, <1>6, <2>1
<1>7. ASSUME NEW t \in Threads, th'[t].at \in {"ring", "complete", "completeInserted"}
      PROVE  loading'[KeyOf[th'[t].load]] # th'[t].load
    BY <1>7 DEF CacheInv, LoadInv
<1>8. LoadInv'
    BY <1>5, <1>6, <1>7 DEF LoadInv
<1>9. QED
    BY <1>2, <1>8 DEF CacheInv

\* Nothing is looked up, loaded or placed.
LEMMA BesideKeeps ==
    ASSUME CacheInv, TypeInv', ThreadInv', \A t \in Threads : Beside(t),
           entries' = entries, loading' = loading, ring' = ring, used' = used,
           \A e \in Fetches : entry'[e].charged = entry[e].charged,
           \A e \in Fetches : e = loading[KeyOf[e]] =>
              /\ flight'[e].registered = flight[e].registered
              /\ flight'[e].state = flight[e].state
              /\ flight'[e].stored = flight[e].stored,
           \A e \in ToSet(queue) : e \in ToSet(queue'),
           \A e \in ToSet(queue') : fetch'[e].state # "idle",
           \A e \in Fetches : fetch'[e].state \in Idle => fetch[e].state \in Idle
    PROVE  CacheInv'
<1>1. \A e \in Fetches : Handling(e)' = Handling(e)
    BY BesideHolds DEF CacheInv
<1>2. ASSUME NEW e \in Fetches, e = loading[KeyOf[e]]
      PROVE  /\ flight'[e].registered = flight[e].registered
             /\ flight'[e].state = flight[e].state
             /\ Carried(e) => Carried(e)'
    BY <1>2, BesideHolds DEF CacheInv
<1>3. \A t \in Threads : /\ th'[t].load \in {th[t].load, None}
                         /\ th'[t].at \in {"ring", "complete", "completeInserted"} => th'[t] = th[t]
    BY DEF Beside
<1>4. QED
    BY <1>1, <1>2, <1>3, QuietKeeps

LEMMA FetchBlockingKeeps ==
    ASSUME CacheInv, NEW f \in Fetches, FetchBlocking(f)
    PROVE  CacheInv'
<1>1. /\ fetch[f].state = "idle" /\ queue' = Append(queue, f) /\ \E mode : fetch' = [fetch EXCEPT ![f].state = "queued", ![f].mode = mode]
      /\ UNCHANGED <<entries, loading, flight, entry, ring, used, budget, resumeAt, th, warm, files, failures>>
    BY DEF FetchBlocking
<1>2. queue' \in Seq(Fetches) /\ ToSet(queue') = ToSet(queue) \cup {f}
    BY <1>1, SlotsAppend DEF CacheInv, TypeInv
<1>3. /\ DOMAIN fetch' = Fetches /\ fetch'[f].state = "queued" /\ \A e \in Fetches \ {f} : fetch'[e] = fetch[e]
      /\ \A e \in Fetches : {"state", "mode", "bytes", "on"} \subseteq DOMAIN fetch'[e]
    BY <1>1 DEF CacheInv, TypeInv
<1>4. TypeInv'
    BY <1>1, <1>2, <1>3 DEF CacheInv, TypeInv
<1>5. ThreadInv' /\ \A t \in Threads : Beside(t)
    BY <1>1 DEF CacheInv, ThreadInv, Beside
<1>6. \A e \in ToSet(queue') : fetch'[e].state # "idle"
  <2>1. \A e \in ToSet(queue) : e \in Fetches /\ fetch[e].state # "idle"
      BY ElementOfSeq DEF CacheInv, TypeInv, LoadInv, ToSet
  <2>2. QED
      BY <1>2, <1>3, <2>1
<1>7. \A e \in Fetches : fetch'[e].state \in Idle => fetch[e].state \in Idle
    BY <1>1, <1>3 DEF Idle
<1>8. QED
    BY <1>1, <1>2, <1>4, <1>5, <1>6, <1>7, BesideKeeps

\* A fetch ends or gets its bytes.
LEMMA FetchEndsKeeps ==
    ASSUME CacheInv, TypeInv', ThreadInv', NEW f \in Fetches \cup {None},
           fetch' = fetch \/ (fetch'[f].state \notin Idle /\ \A e \in Fetches \ {f} : fetch'[e] = fetch[e]),
           \A t \in Threads : Beside(t),
           UNCHANGED <<entries, loading, flight, entry, ring, used, queue>>
    PROVE  CacheInv'
<1>1. \A e \in Fetches : fetch'[e].state \in Idle => fetch'[e].state = fetch[e].state
    OBVIOUS
<1>2. \A e \in ToSet(queue) : e \in Fetches /\ fetch[e].state # "idle"
    BY ElementOfSeq DEF CacheInv, TypeInv, LoadInv, ToSet
<1>3. \A e \in ToSet(queue) : fetch'[e].state # "idle"
    BY <1>1, <1>2 DEF Idle
<1>4. QED
    BY <1>1, <1>3, BesideKeeps

LEMMA GotIs ==
    ASSUME TypeInv, NEW f \in Fetches
    PROVE  /\ DOMAIN Got(f) = Fetches /\ Got(f)[f].state \in {"holds", "ended"}
           /\ \A e \in Fetches \ {f} : Got(f)[e] = fetch[e]
           /\ \A e \in Fetches : {"state", "mode", "bytes", "on"} \subseteq DOMAIN Got(f)[e]
<1>1. CASE flight[fetch[f].on].state = "ok"
  <2>1. Got(f) = [fetch EXCEPT ![f].state = "holds", ![f].bytes = fetch[f].on, ![f].on = None]
      BY <1>1 DEF Got
  <2>2. QED
      BY <2>1 DEF TypeInv
<1>2. CASE flight[fetch[f].on].state # "ok"
  <2>1. Got(f) = [fetch EXCEPT ![f].state = "ended", ![f].bytes = None, ![f].on = None]
      BY <1>2 DEF Got
  <2>2. QED
      BY <2>1 DEF TypeInv
<1>3. QED
    BY <1>1, <1>2

LEMMA FetchOnlyKeeps ==
    ASSUME CacheInv, NEW f \in Fetches, Poll(f) \/ DropFetch(f) \/ Release(f)
    PROVE  CacheInv'
<1>1. /\ DOMAIN fetch' = Fetches /\ fetch'[f].state \notin Idle /\ \A e \in Fetches \ {f} : fetch'[e] = fetch[e]
      /\ \A e \in Fetches : {"state", "mode", "bytes", "on"} \subseteq DOMAIN fetch'[e]
  <2>1. CASE Poll(f)
      BY <2>1, GotIs DEF Poll, Idle, CacheInv
  <2>2. CASE DropFetch(f)
      BY <2>2 DEF DropFetch, Idle, CacheInv, TypeInv
  <2>3. CASE Release(f)
      BY <2>3 DEF Release, Idle, CacheInv, TypeInv
  <2>4. QED
      BY <2>1, <2>2, <2>3
<1>2. UNCHANGED <<entries, loading, flight, entry, ring, used, queue, th, warm>>
    BY DEF Poll, DropFetch, Release
<1>3. TypeInv'
    BY <1>1, <1>2 DEF CacheInv, TypeInv
<1>4. ThreadInv' /\ \A t \in Threads : Beside(t)
    BY <1>2 DEF CacheInv, ThreadInv, Beside
<1>5. QED
    BY <1>1, <1>2, <1>3, <1>4, FetchEndsKeeps

\* A thread's own steps.
LEMMA ThreadSet ==
    ASSUME ThreadInv, NEW t \in Threads, NEW new, th' = [th EXCEPT ![t] = new],
           DOMAIN FreeThread \subseteq DOMAIN new, new.at \in Ats,
           new.load \in Fetches \cup {None}, new.fetch \in Fetches \cup {None},
           new.at \in {"load", "finish", "ring", "complete", "completeInserted"} => new.load # None,
           new.cand \in Fetches \cup {None}, new.cand # None <=> new.at = "check",
           new.lap \in Nat, new.visits \in Nat, new.at \in {"hand", "check"} => new.class \in Classes
    PROVE  ThreadInv' /\ th'[t] = new /\ \A s \in Threads \ {t} : th'[s] = th[s]
<1>1. th'[t] = new /\ (\A s \in Threads \ {t} : th'[s] = th[s]) /\ DOMAIN th' = Threads
    BY DEF ThreadInv
<1>2. ASSUME NEW s \in Threads
      PROVE  /\ DOMAIN FreeThread \subseteq DOMAIN th'[s]
             /\ th'[s].at \in Ats
             /\ th'[s].load \in Fetches \cup {None} /\ th'[s].fetch \in Fetches \cup {None}
             /\ th'[s].at \in {"load", "finish", "ring", "complete", "completeInserted"} => th'[s].load # None
             /\ th'[s].cand \in Fetches \cup {None} /\ (th'[s].cand # None <=> th'[s].at = "check")
             /\ th'[s].lap \in Nat /\ th'[s].visits \in Nat
             /\ th'[s].at \in {"hand", "check"} => th'[s].class \in Classes
  <2>1. CASE s = t
      BY <1>1, <2>1
  <2>2. CASE s # t
      BY <1>1, <2>2 DEF ThreadInv
  <2>3. QED
      BY <2>1, <2>2
<1>3. ThreadInv'
  <2>1. \A s \in Threads : DOMAIN FreeThread' \subseteq DOMAIN th'[s]
      BY <1>2 DEF FreeThread
  <2>2. QED
      BY <1>1, <1>2, <2>1 DEF ThreadInv
<1>4. QED
    BY <1>1, <1>3

\* A thread has the fields of a free one.
LEMMA FieldsAre == DOMAIN FreeThread = {"at", "fetch", "load", "result", "class", "done", "lap", "visits", "cand", "over"}
BY DEF FreeThread

\* The class to evict from is one.
LEMMA VictimIs ==
    ASSUME NEW done
    PROVE  VictimClass(done) = 0 \/ VictimClass(done) \in Classes
<1> DEFINE over == {c \in Classes : used[c] > Floor[c]}
           from == IF over # {} THEN over \ done ELSE {c \in Classes \ done : used[c] > 0}
<1>1. VictimClass(done) = IF from = {} THEN 0 ELSE Max(from)
    BY DEF VictimClass
<1>2. from \in SUBSET Classes /\ Classes = 1..Cardinality(Classes) /\ Cardinality(Classes) \in Int
    BY CacheAssumption, FS_CardinalityType
<1> HIDE DEF from
<1>3. from # {} => Max(from) \in from
    BY <1>2, LastRoundIs DEF LastRound
<1>4. QED
    BY <1>1, <1>2, <1>3

LEMMA ReturnKeeps ==
    ASSUME CacheInv, NEW t \in Threads, Return(t)
    PROVE  CacheInv'
<1>1. th[t].at \in {"return", "waits"} /\ th' = [th EXCEPT ![t] = FreeThread]
    BY DEF Return
<1>2. ThreadInv' /\ th'[t] = FreeThread /\ \A s \in Threads \ {t} : th'[s] = th[s]
  <2>1. /\ FreeThread.at \in Ats /\ FreeThread.load \in Fetches \cup {None} /\ FreeThread.fetch \in Fetches \cup {None}
        /\ FreeThread.at \notin {"load", "finish", "ring", "complete", "completeInserted", "hand", "check"}
        /\ FreeThread.cand = None /\ FreeThread.lap \in Nat /\ FreeThread.visits \in Nat
      BY DEF FreeThread, Ats
  <2>2. QED
      BY <1>1, <2>1, ThreadSet DEF CacheInv
<1>3. \A s \in Threads : Beside(s)
    BY <1>1, <1>2 DEF Beside, FreeThread
<1>4. /\ UNCHANGED <<entries, loading, flight, entry, ring, used, queue, warm>>
      /\ fetch' = IF th[t].fetch = None THEN fetch ELSE Got(th[t].fetch)
    BY DEF Return
<1>5. th[t].fetch \in Fetches \cup {None}
    BY DEF CacheInv, ThreadInv
<1>6. /\ DOMAIN fetch' = Fetches
      /\ fetch' = fetch \/ (fetch'[th[t].fetch].state \notin Idle
                            /\ \A e \in Fetches \ {th[t].fetch} : fetch'[e] = fetch[e])
      /\ \A e \in Fetches : {"state", "mode", "bytes", "on"} \subseteq DOMAIN fetch'[e]
  <2>1. CASE th[t].fetch = None
      BY <1>4, <2>1 DEF CacheInv, TypeInv
  <2>2. CASE th[t].fetch # None
    <3>1. th[t].fetch \in Fetches /\ fetch' = Got(th[t].fetch)
        BY <1>4, <1>5, <2>2
    <3>2. QED
        BY <3>1, GotIs DEF Idle, CacheInv
  <2>3. QED
      BY <2>1, <2>2
<1>7. TypeInv'
    BY <1>4, <1>6 DEF CacheInv, TypeInv
<1>8. QED
    BY <1>2, <1>3, <1>4, <1>5, <1>6, <1>7, FetchEndsKeeps

\* A thread goes on with the sweep, or returns from it.
Turns(t, new) ==
    /\ th[t].at \in {"free", "resume", "sweep", "over"}
    /\ DOMAIN FreeThread \subseteq DOMAIN new
    /\ new.at \in {"return", "sweep", "over", "hand"} /\ new.load \in {th[t].load, None}
    /\ new.fetch \in Fetches \cup {None} /\ new.cand = None /\ new.lap \in Nat /\ new.visits \in Nat
    /\ new.at = "hand" => new.class \in Classes

LEMMA SweepingKeeps ==
    ASSUME CacheInv, NEW t \in Threads, NEW new, th' = [th EXCEPT ![t] = new], Turns(t, new),
           UNCHANGED <<entries, loading, flight, entry, fetch, ring, used, queue, warm>>
    PROVE  CacheInv'
<1>1. new.load \in Fetches \cup {None}
    BY DEF CacheInv, ThreadInv, Turns
<1>2. ThreadInv' /\ th'[t] = new /\ \A s \in Threads \ {t} : th'[s] = th[s]
    BY <1>1, ThreadSet DEF CacheInv, Ats, Turns
<1>3. \A s \in Threads : Beside(s)
    BY <1>2 DEF Beside, Turns
<1>4. TypeInv'
    BY DEF CacheInv, TypeInv
<1>5. QED
    BY <1>2, <1>3, <1>4, FetchEndsKeeps

LEMMA ReturningIs ==
    ASSUME NEW t
    PROVE  /\ DOMAIN FreeThread \subseteq DOMAIN Returning(t) /\ Returning(t).at = "return"
           /\ Returning(t).load = th[t].load /\ Returning(t).fetch = th[t].fetch /\ Returning(t).cand = None
           /\ Returning(t).lap = 0 /\ Returning(t).visits = 0
BY DEF Returning, FreeThread

LEMMA SweepStepsKeep ==
    ASSUME CacheInv, NEW t \in Threads, Resume(t) \/ Sweep(t) \/ Overcommit(t)
    PROVE  CacheInv'
<1>1. /\ DOMAIN th = Threads /\ DOMAIN FreeThread \subseteq DOMAIN th[t]
      /\ th[t].load \in Fetches \cup {None} /\ th[t].fetch \in Fetches \cup {None}
      /\ th[t].lap \in Nat /\ th[t].visits \in Nat
      /\ th[t].cand # None <=> th[t].at = "check"
    BY DEF CacheInv, ThreadInv
<1>2. UNCHANGED <<entries, loading, flight, entry, fetch, ring, used, queue, warm>>
    BY DEF Resume, Sweep, Overcommit
<1>3. CASE Resume(t)
  <2>1. PICK at \in {"return", "sweep"} : th' = [th EXCEPT ![t].at = at, ![t].done = {}]
      BY <1>3 DEF Resume
  <2> DEFINE new == [th[t] EXCEPT !.at = at, !.done = {}]
  <2>2. th' = [th EXCEPT ![t] = new]
      BY <1>1, <2>1
  <2>3. /\ DOMAIN FreeThread \subseteq DOMAIN new /\ new.at = at /\ new.load = th[t].load /\ new.fetch = th[t].fetch
        /\ new.cand = th[t].cand /\ new.lap = th[t].lap /\ new.visits = th[t].visits
      BY <1>1, FieldsAre
  <2>4. th[t].at = "resume" /\ th[t].cand = None
      BY <1>1, <1>3 DEF Resume
  <2> HIDE DEF new
  <2>5. Turns(t, new)
      BY <1>1, <2>1, <2>3, <2>4 DEF Turns
  <2>6. QED
      BY <1>2, <2>2, <2>5, SweepingKeeps
<1>4. CASE Overcommit(t)
  <2>1. th' = [th EXCEPT ![t] = Returning(t)] /\ th[t].at = "over"
      BY <1>4 DEF Overcommit
  <2>2. Turns(t, Returning(t))
      BY <1>1, <2>1, ReturningIs DEF Turns
  <2>3. QED
      BY <1>2, <2>1, <2>2, SweepingKeeps
<1>5. CASE Sweep(t)
  <2> DEFINE class == VictimClass(th[t].done)
  <2>1. th[t].at = "sweep" /\ th[t].cand = None
      BY <1>1, <1>5 DEF Sweep
  <2>2. CASE UsedTotal <= budget
    <3>1. th' = [th EXCEPT ![t] = Returning(t)]
        BY <1>5, <2>2 DEF Sweep
    <3>2. Turns(t, Returning(t))
        BY <1>1, <2>1, ReturningIs DEF Turns
    <3>3. QED
        BY <1>2, <3>1, <3>2, SweepingKeeps
  <2>3. CASE ~(UsedTotal <= budget) /\ class = 0
    <3>1. PICK o : th' = [th EXCEPT ![t].at = "over", ![t].over = o]
        BY <1>5, <2>3 DEF Sweep
    <3> DEFINE new == [th[t] EXCEPT !.at = "over", !.over = o]
    <3>2. th' = [th EXCEPT ![t] = new]
        BY <1>1, <3>1
    <3>3. /\ DOMAIN FreeThread \subseteq DOMAIN new /\ new.at = "over" /\ new.load = th[t].load /\ new.fetch = th[t].fetch
          /\ new.cand = th[t].cand /\ new.lap = th[t].lap /\ new.visits = th[t].visits
        BY <1>1, FieldsAre
    <3> HIDE DEF new
    <3>4. Turns(t, new)
        BY <1>1, <2>1, <3>3 DEF Turns
    <3>5. QED
        BY <1>2, <3>2, <3>4, SweepingKeeps
  <2>4. CASE ~(UsedTotal <= budget) /\ class # 0
    <3> DEFINE n == Len(ring[class])
               new == [th[t] EXCEPT !.at = "hand", !.class = class, !.lap = n, !.visits = 0]
    <3>1. th' = [th EXCEPT ![t].at = "hand", ![t].class = class, ![t].lap = n, ![t].visits = 0]
        BY <1>5, <2>4 DEF Sweep
    <3>2. class \in Classes
        BY <2>4, VictimIs
    <3>3. n \in Nat
        BY <3>2, LenProperties DEF CacheInv, TypeInv
    <3> HIDE DEF n, class
    <3>4. th' = [th EXCEPT ![t] = new]
        BY <1>1, <3>1
    <3>5. /\ DOMAIN FreeThread \subseteq DOMAIN new /\ new.at = "hand" /\ new.load = th[t].load /\ new.fetch = th[t].fetch
          /\ new.cand = th[t].cand /\ new.lap = n /\ new.visits = 0 /\ new.class = class
        BY <1>1, FieldsAre
    <3> HIDE DEF new
    <3>6. Turns(t, new)
        BY <1>1, <2>1, <3>2, <3>3, <3>5 DEF Turns
    <3>7. QED
        BY <1>2, <3>4, <3>6, SweepingKeeps
  <2>5. QED
      BY <2>2, <2>3, <2>4
<1>6. QED
    BY <1>3, <1>4, <1>5

LEMMA SetBudgetKeeps ==
    ASSUME CacheInv, SetBudget
    PROVE  CacheInv'
<1> DEFINE new == [FreeThread EXCEPT !.at = "sweep"]
<1>1. /\ th[Aux].at = "free" /\ th' = [th EXCEPT ![Aux] = new] /\ Aux \in Threads
      /\ UNCHANGED <<entries, loading, flight, entry, fetch, ring, used, queue, warm>>
    BY ThreadsAre DEF SetBudget
<1>2. /\ DOMAIN FreeThread \subseteq DOMAIN new /\ new.at = "sweep" /\ new.load = None /\ new.fetch = None
      /\ new.cand = None /\ new.lap = 0 /\ new.visits = 0
    BY DEF FreeThread
<1> HIDE DEF new
<1>3. Turns(Aux, new)
    BY <1>1, <1>2 DEF Turns
<1>4. QED
    BY <1>1, <1>3, SweepingKeeps

-----------------------------------------------------------------------------
(* The end of a load. *)

\* A thread that only moves on, with the same load and nothing else in its hands.
LEMMA MovesOn ==
    ASSUME ThreadInv, NEW t \in Threads, NEW at \in Ats, NEW result,
           at \notin {"hand", "check"}, th[t].at # "check", th[t].load # None,
           th' = [th EXCEPT ![t].at = at, ![t].result = result]
    PROVE  /\ ThreadInv'
           /\ th'[t].at = at /\ th'[t].load = th[t].load /\ th'[t].cand = None /\ th[t].cand = None
           /\ \A s \in Threads \ {t} : th'[s] = th[s]
<1> DEFINE new == [th[t] EXCEPT !.at = at, !.result = result]
<1>1. /\ DOMAIN th = Threads /\ DOMAIN FreeThread \subseteq DOMAIN th[t]
      /\ th[t].load \in Fetches \cup {None} /\ th[t].fetch \in Fetches \cup {None}
      /\ th[t].lap \in Nat /\ th[t].visits \in Nat /\ th[t].cand = None
    BY DEF ThreadInv
<1>2. th' = [th EXCEPT ![t] = new]
    BY <1>1
<1>3. /\ DOMAIN FreeThread \subseteq DOMAIN new /\ new.at = at /\ new.load = th[t].load /\ new.fetch = th[t].fetch
      /\ new.cand = th[t].cand /\ new.lap = th[t].lap /\ new.visits = th[t].visits
    BY <1>1, FieldsAre
<1> HIDE DEF new
<1>4. new.cand = None /\ new.load # None
    BY <1>1, <1>3
<1>5. ThreadInv' /\ th'[t] = new /\ \A s \in Threads \ {t} : th'[s] = th[s]
    BY <1>1, <1>2, <1>3, <1>4, ThreadSet
<1>6. QED
    BY <1>1, <1>3, <1>5

LEMMA LoadEndsKeeps ==
    ASSUME CacheInv, NEW t \in Threads, LoadEnds(t)
    PROVE  CacheInv'
<1>1. PICK result : th' = [th EXCEPT ![t].at = "finish", ![t].result = result]
    BY DEF LoadEnds
<1>2. th[t].at = "load" /\ th[t].load # None
    BY DEF LoadEnds, CacheInv, ThreadInv
<1>3. /\ ThreadInv' /\ th'[t].at = "finish" /\ th'[t].load = th[t].load /\ th'[t].cand = None /\ th[t].cand = None
      /\ \A s \in Threads \ {t} : th'[s] = th[s]
    BY <1>1, <1>2, MovesOn DEF CacheInv, Ats
<1>4. UNCHANGED <<entries, loading, flight, entry, fetch, ring, used, queue, warm>>
    BY DEF LoadEnds
<1>5. TypeInv'
    BY <1>4 DEF CacheInv, TypeInv
<1>6. \A e \in Fetches : Handling(e)' = Handling(e)
  <2>1. \A e \in Fetches, s \in Threads :
           (th[s].cand = e \/ (th[s].load = e /\ th[s].at = "ring"))
             <=> (th'[s].cand = e \/ (th'[s].load = e /\ th'[s].at = "ring"))
      BY <1>2, <1>3
  <2>2. QED
      BY <2>1 DEF Handling
<1>7. \A e : Carried(e) => Carried(e)'
  <2>1. \A e, s : s \in Threads /\ th[s].load = e /\ th[s].at \in {"load", "finish"}
                     => th'[s].load = e /\ th'[s].at \in {"load", "finish"}
      BY <1>3
  <2>2. QED
      BY <1>4, <2>1 DEF Carried
<1>8. \A s \in Threads : /\ th'[s].load = th[s].load
                         /\ th'[s].at \in {"ring", "complete", "completeInserted"} => th'[s].at = th[s].at
    BY <1>3
<1>9. \A e \in ToSet(queue') : fetch'[e].state # "idle"
    BY <1>4 DEF CacheInv, LoadInv
<1>10. QED
    BY <1>3, <1>4, <1>5, <1>6, <1>7, <1>8, <1>9, QuietKeeps

LEMMA CompleteKeeps ==
    ASSUME CacheInv, NEW t \in Threads, Complete(t)
    PROVE  CacheInv'
<1>0. th[t].at \in {"complete", "completeInserted"}
    BY DEF Complete
<1>1. PICK at \in {"return", "resume"} : th' = [th EXCEPT ![t].at = at, ![t].result = None]
  <2>1. th' = [th EXCEPT ![t].at = IF th[t].at = "complete" THEN "return" ELSE "resume", ![t].result = None]
      BY <1>0 DEF Complete, CacheInv, ThreadInv
  <2>2. QED
      BY <2>1
<1>2. th[t].load \in Fetches /\ loading[KeyOf[th[t].load]] # th[t].load
    BY <1>0 DEF CacheInv, ThreadInv, LoadInv
<1>3. /\ ThreadInv' /\ th'[t].at = at /\ th'[t].load = th[t].load
      /\ \A s \in Threads \ {t} : th'[s] = th[s]
    BY <1>0, <1>1, <1>2, MovesOn, CacheAssumption DEF CacheInv, Ats
<1>4. /\ UNCHANGED <<entries, loading, entry, fetch, ring, used, queue, warm>>
      /\ flight' = [flight EXCEPT ![th[t].load].state = th[t].result]
    BY DEF Complete
<1>5. TypeInv'
    BY <1>2, <1>4 DEF CacheInv, TypeInv
<1>6. \A s \in Threads : Beside(s)
    BY <1>0, <1>1, <1>3 DEF Beside
<1>7. \A e \in Fetches : e = loading[KeyOf[e]] => flight'[e] = flight[e]
    BY <1>2, <1>4 DEF CacheInv, TypeInv
<1>8. \A e \in ToSet(queue') : fetch'[e].state # "idle"
    BY <1>4 DEF CacheInv, LoadInv
<1>9. QED
    BY <1>3, <1>4, <1>5, <1>6, <1>7, <1>8, BesideKeeps

-----------------------------------------------------------------------------
(* Entries that come and go. *)

\* The resident entries of a class after a step, and their charges.
LEMMA ResidentNext ==
    ASSUME TypeInv'
    PROVE  /\ \A c \in Classes : /\ Resident(c)' \subseteq Fetches /\ IsFiniteSet(Resident(c)')
                                 /\ \A e : e \in Resident(c)' <=>
                                       e \in Fetches /\ entries'[KeyOf[e]] = e /\ ClassOf[KeyOf[e]] = c
           /\ \A e \in Fetches : Charges'[e] = ChargeOf(e)' /\ Charges'[e] \in Nat
<1>1. \A e \in Fetches : KeyOf[e] \in Keys /\ ClassOf[KeyOf[e]] \in Classes /\ e # None
                         /\ Charge[KeyOf[e]] \in Nat /\ Extra[KeyOf[e]] \in Nat
    BY CacheAssumption DEF Keys, Range
<1>2. ASSUME NEW c \in Classes, NEW e
      PROVE  e \in Resident(c)' <=> e \in Fetches /\ entries'[KeyOf[e]] = e /\ ClassOf[KeyOf[e]] = c
    BY <1>1 DEF Resident, TypeInv
<1>3. \A c \in Classes : Resident(c)' \subseteq Fetches /\ IsFiniteSet(Resident(c)')
    BY <1>2, CacheAssumption, FS_Subset
<1>4. \A e \in Fetches : Charges'[e] = ChargeOf(e)' /\ Charges'[e] \in Nat
    BY <1>1 DEF Charges, ChargeOf, TypeInv
<1>5. QED
    BY <1>2, <1>3, <1>4

\* The bytes of the resident entries of a class after a step that changes the charge of at most
\* one entry, which is, or is not, resident before and after it.
LEMMA TotalNext ==
    ASSUME TypeInv, TypeInv', NEW e \in Fetches, NEW c \in Classes,
           \A x \in Fetches \ {e} : entry'[x].charged = entry[x].charged,
           Resident(c)' \ {e} = Resident(c) \ {e}
    PROVE  /\ Total(Charges, Resident(c)) \in Int
           /\ Total(Charges', Resident(c)')
                = Total(Charges, Resident(c))
                    + (IF e \in Resident(c)' THEN ChargeOf(e)' ELSE 0)
                    - (IF e \in Resident(c) THEN ChargeOf(e) ELSE 0)
<1> DEFINE w == Charges
           v == Charges'
           R == Resident(c)
           Q == Resident(c)'
           S == R \ {e}
<1>1. /\ R \subseteq Fetches /\ IsFiniteSet(R) /\ Q \subseteq Fetches /\ IsFiniteSet(Q)
      /\ w[e] = ChargeOf(e) /\ v[e] = ChargeOf(e)'
      /\ \A x \in Fetches : w[x] \in Nat /\ v[x] \in Nat
    BY ResidentIs, ResidentNext
<1>2. \A x \in Fetches \ {e} : v[x] = w[x]
    BY DEF Charges, ChargeOf
<1>3. Q \ {e} = S /\ IsFiniteSet(S) /\ S \subseteq Fetches
    BY <1>1, FS_Subset
<1> DEFINE a == ChargeOf(e)
           b == ChargeOf(e)'
<1>4. w[e] = a /\ v[e] = b
    BY <1>1
<1> HIDE DEF w, v, R, Q, a, b
<1>5. Total(v, S) = Total(w, S) /\ Total(w, S) \in Nat
  <2>1. \A x \in S : w[x] \in Nat /\ v[x] = w[x]
      BY <1>1, <1>2, <1>3
  <2> HIDE DEF S
  <2>2. QED
      BY <1>3, <2>1, TotalSplit, TotalUnroll
<1>6. Total(w, R) = Total(w, S) + (IF e \in R THEN a ELSE 0)
  <2>1. CASE e \in R
      BY <1>1, <1>4, <2>1, TotalSplit
  <2>2. CASE e \notin R
    <3>1. S = R
        BY <2>2
    <3>2. a \in Nat
        BY <1>1, <1>4
    <3> HIDE DEF S
    <3>3. QED
        BY <1>5, <2>2, <3>1
  <2>3. QED
      BY <2>1, <2>2
<1>7. Total(v, Q) = Total(v, S) + (IF e \in Q THEN b ELSE 0)
  <2>1. CASE e \in Q
    <3>1. \A x \in Q : v[x] \in Nat
        BY <1>1
    <3>2. Total(v, Q) = Total(v, Q \ {e}) + v[e]
        BY <1>1, <2>1, <3>1, TotalSplit
    <3>3. QED
        BY <1>3, <1>4, <2>1, <3>2
  <2>2. CASE e \notin Q
    <3>1. S = Q
        BY <1>3, <2>2
    <3> HIDE DEF S
    <3>2. QED
        BY <1>5, <2>2, <3>1
  <2>3. QED
      BY <2>1, <2>2
<1>8. a \in Nat /\ b \in Nat
    BY <1>1, <1>4
<1> HIDE DEF S
<1>9. /\ Total(w, R) \in Int
      /\ Total(v, Q) = Total(w, R) + (IF e \in Q THEN b ELSE 0) - (IF e \in R THEN a ELSE 0)
    BY <1>5, <1>6, <1>7, <1>8
<1>10. QED
    BY <1>9 DEF w, v, R, Q, a, b

\* No load is registered, and whatever stays registered is carried on and placed nowhere.
LEMMA LoadsKeep ==
    ASSUME CacheInv,
           \A k \in Keys : loading'[k] # None => loading'[k] = loading[k] /\ entries'[k] = None,
           \A e \in Fetches : e = loading'[KeyOf[e]] =>
              /\ flight'[e].registered = flight[e].registered
              /\ flight'[e].state = flight[e].state
              /\ (Carried(e) => Carried(e)') /\ (Unplaced(e) => Unplaced(e)'),
           \A e \in ToSet(queue') : fetch'[e].state # "idle",
           \A e \in Fetches : fetch'[e].state \in Idle =>
              /\ fetch[e].state \in Idle /\ (Unplaced(e) => Unplaced(e)')
              /\ \A t \in Threads : th'[t].load \in {th[t].load, None},
           \A t \in Threads : th'[t].at \in {"ring", "complete", "completeInserted"} =>
              loading'[KeyOf[th'[t].load]] # th'[t].load
    PROVE  LoadInv'
<1>1. \A e \in Fetches : e # None /\ KeyOf[e] \in Keys
    BY CacheAssumption DEF Keys, Range
<1>2. ASSUME NEW k \in Keys, loading'[k] # None
      PROVE  /\ entries'[k] = None
             /\ flight'[loading'[k]].registered /\ flight'[loading'[k]].state = "pending"
             /\ Carried(loading[k])' /\ Unplaced(loading[k])'
  <2>0. PICK e : e = loading[k]
      OBVIOUS
  <2>1. e = loading'[k] /\ e \in Fetches /\ KeyOf[e] = k /\ entries'[k] = None
      BY <1>2, <2>0 DEF CacheInv, TypeInv
  <2>2. flight[e].registered /\ flight[e].state = "pending" /\ Carried(e) /\ Unplaced(e)
      BY <1>2, <2>0, <2>1 DEF CacheInv, LoadInv
  <2>3. flight'[e].registered /\ flight'[e].state = "pending" /\ Carried(e)' /\ Unplaced(e)'
      BY <2>1, <2>2
  <2>4. Carried(loading[k])' /\ Unplaced(loading[k])'
      BY <2>1, <2>3 DEF Carried, Unplaced, Handling
  <2>5. QED
      BY <2>1, <2>3, <2>4
<1>3. ASSUME NEW e \in Fetches, fetch'[e].state \in Idle
      PROVE  Unplaced(e)' /\ loading'[KeyOf[e]] # e /\ \A t \in Threads : th'[t].load # e
  <2>1. Unplaced(e) /\ loading[KeyOf[e]] # e /\ \A t \in Threads : th[t].load # e
      BY <1>3 DEF CacheInv, LoadInv
  <2>2. QED
      BY <1>1, <1>3, <2>1
<1>4. QED
    BY <1>2, <1>3 DEF LoadInv

\* A thread that neither loads nor hands anything over leaves what other entries have in hand.
LEMMA HandlingBut ==
    ASSUME NEW t \in Threads, NEW e, \A s \in Threads \ {t} : th'[s] = th[s]
    PROVE  /\ (th'[t].cand = e \/ (th'[t].load = e /\ th'[t].at = "ring")) => Handling(e)' = Handling(e) \cup {t}
           /\ ~(th'[t].cand = e \/ (th'[t].load = e /\ th'[t].at = "ring")) => Handling(e)' = Handling(e) \ {t}
           /\ t \in Handling(e) <=> th[t].cand = e \/ (th[t].load = e /\ th[t].at = "ring")
<1>1. \A s \in Threads \ {t} : s \in Handling(e)' <=> s \in Handling(e)
    BY DEF Handling
<1>2. t \in Handling(e)' <=> th'[t].cand = e \/ (th'[t].load = e /\ th'[t].at = "ring")
    BY DEF Handling
<1>3. t \in Handling(e) <=> th[t].cand = e \/ (th[t].load = e /\ th[t].at = "ring")
    BY DEF Handling
<1>4. Handling(e) \subseteq Threads /\ Handling(e)' \subseteq Threads
    BY ThreadsAre
<1>5. QED
    BY <1>1, <1>2, <1>3, <1>4

\* The threads that have an entry in hand, when one more or one less does.
LEMMA HandsAre ==
    ASSUME NEW e, NEW t
    PROVE  /\ Cardinality(Handling(e)) \in Nat /\ Cardinality(Handling(e)') \in Nat
           /\ Handling(e)' = Handling(e) => Cardinality(Handling(e)') = Cardinality(Handling(e))
           /\ t \in Handling(e) /\ Handling(e)' = Handling(e) \ {t}
                => Cardinality(Handling(e)') = Cardinality(Handling(e)) - 1
           /\ t \notin Handling(e) /\ Handling(e)' = Handling(e) \cup {t}
                => Cardinality(Handling(e)') = Cardinality(Handling(e)) + 1
           /\ Handling(e)' = {t} => Cardinality(Handling(e)') = 1
<1> DEFINE A == Handling(e)
           B == Handling(e)'
<1>1. IsFiniteSet(A) /\ IsFiniteSet(B)
    BY ThreadsAre
<1> HIDE DEF A, B
<1>2. Cardinality(A) \in Nat /\ Cardinality(B) \in Nat
    BY <1>1, FS_CardinalityType
<1>3. t \in A => Cardinality(A \ {t}) = Cardinality(A) - 1
    BY <1>1, FS_RemoveElement
<1>4. t \notin A => Cardinality(A \cup {t}) = Cardinality(A) + 1
    BY <1>1, FS_AddElement
<1>5. Cardinality({t}) = 1
    BY FS_Singleton
<1>6. QED
    BY <1>2, <1>3, <1>4, <1>5 DEF A, B

LEMMA FinishRingKeeps ==
    ASSUME CacheInv, NEW t \in Threads, FinishRing(t)
    PROVE  CacheInv'
<1>e. th[t].load \in Fetches
    BY DEF FinishRing, CacheInv, ThreadInv
<1>p. PICK e \in Fetches : e = th[t].load
    BY <1>e
<1> DEFINE d == ClassOf[KeyOf[e]]
<1>0. th[t].at = "ring" /\ e = th[t].load /\ e \in Fetches /\ loading[KeyOf[e]] # e
    BY <1>p DEF FinishRing, CacheInv, LoadInv
<1>1. /\ th' = [th EXCEPT ![t].at = "completeInserted"]
      /\ ring' = [ring EXCEPT ![d] = Append(ring[d], e)]
      /\ UNCHANGED <<entries, loading, flight, entry, fetch, used, queue, warm>>
    BY <1>p DEF FinishRing, CacheInv, TypeInv
<1>2. \A x \in Fetches : x # None /\ KeyOf[x] \in Keys /\ ClassOf[KeyOf[x]] \in Classes
    BY ResidentIs DEF CacheInv
<1> HIDE DEF d
<1>3. /\ DOMAIN th = Threads /\ DOMAIN FreeThread \subseteq DOMAIN th[t]
    BY DEF CacheInv, ThreadInv
<1>4. th' = [th EXCEPT ![t].at = "completeInserted", ![t].result = th[t].result]
  <2>1. [th[t] EXCEPT !.at = "completeInserted", !.result = th[t].result] = [th[t] EXCEPT !.at = "completeInserted"]
      BY <1>3, FieldsAre
  <2>2. QED
      BY <1>1, <1>3, <2>1
<1>5. /\ ThreadInv' /\ th'[t].at = "completeInserted" /\ th'[t].load = e /\ th'[t].cand = None /\ th[t].cand = None
      /\ th[t].load = e
      /\ \A s \in Threads \ {t} : th'[s] = th[s]
    BY <1>0, <1>2, <1>4, MovesOn DEF CacheInv, Ats
<1>6. /\ d \in Classes /\ ring[d] \in Seq(Fetches)
      /\ ring'[d] = Append(ring[d], e) /\ \A c \in Classes \ {d} : ring'[c] = ring[c]
      /\ DOMAIN ring' = Classes
    BY <1>0, <1>1, <1>2 DEF CacheInv, TypeInv, d
<1>7. /\ ring'[d] \in Seq(Fetches) /\ ToSet(ring'[d]) = ToSet(ring[d]) \cup {e}
      /\ \A x : Slots(ring'[d], x) = Slots(ring[d], x) + IF x = e THEN 1 ELSE 0
      /\ \A c \in Classes : \A x : Slots(ring[c], x) \in Nat
  <2>1. \A c \in Classes : ring[c] \in Seq(Fetches)
      BY DEF CacheInv, TypeInv
  <2>2. /\ Append(ring[d], e) \in Seq(Fetches) /\ ToSet(Append(ring[d], e)) = ToSet(ring[d]) \cup {e}
        /\ \A x : Slots(Append(ring[d], e), x) = Slots(ring[d], x) + IF x = e THEN 1 ELSE 0
      BY <1>0, <1>6, SlotsAppend
  <2>3. \A c \in Classes : \A x : Slots(ring[c], x) \in Nat
      BY <1>0, <2>1, SlotsAppend
  <2>4. QED
      BY <1>6, <2>2, <2>3
<1>8. TypeInv'
  <2>1. ring' \in [Classes -> Seq(Fetches)]
    <3>1. ASSUME NEW c \in Classes PROVE ring'[c] \in Seq(Fetches)
        BY <1>6, <1>7 DEF CacheInv, TypeInv
    <3>2. ring' = [c \in Classes |-> ring'[c]]
        BY <1>1, <1>6 DEF CacheInv, TypeInv
    <3>3. QED
        BY <3>1, <3>2
  <2>2. QED
      BY <1>1, <2>1 DEF CacheInv, TypeInv
<1>9. /\ \A x \in Fetches \ {e} : Handling(x)' = Handling(x)
      /\ t \in Handling(e) /\ Handling(e)' = Handling(e) \ {t}
  <2>1. ASSUME NEW x \in Fetches \ {e} PROVE Handling(x)' = Handling(x)
    <3>1. /\ ~(th[t].cand = x \/ (th[t].load = x /\ th[t].at = "ring"))
          /\ ~(th'[t].cand = x \/ (th'[t].load = x /\ th'[t].at = "ring"))
        BY <1>2, <1>5
    <3>2. QED
        BY <1>5, <3>1, HandlingBut
  <2>2. t \in Handling(e) /\ Handling(e)' = Handling(e) \ {t}
    <3>1. /\ th[t].load = e /\ th[t].at = "ring"
          /\ ~(th'[t].cand = e \/ (th'[t].load = e /\ th'[t].at = "ring"))
        BY <1>0, <1>2, <1>5
    <3>2. QED
        BY <1>5, <3>1, HandlingBut
  <2>3. QED
      BY <2>1, <2>2
<1>10. RingInv'
  <2>1. \A c \in Classes : Resident(c)' = Resident(c) /\ Resident(c) \subseteq Fetches
    <3>1. \A c \in Classes : Resident(c)' = Resident(c)
        BY <1>1 DEF Resident
    <3>2. QED
        BY <3>1, ResidentIs DEF CacheInv
  <2>2. ASSUME NEW c \in Classes, NEW x \in ToSet(ring'[c]) PROVE ClassOf[KeyOf[x]] = c
      BY <1>6, <1>7 DEF CacheInv, RingInv, d
  <2>3. ASSUME NEW c \in Classes, NEW x \in Resident(c)
        PROVE  Slots(ring'[c], x) + Cardinality(Handling(x)') = 1
    <3>1. Slots(ring[c], x) + Cardinality(Handling(x)) = 1 /\ x \in Fetches /\ ClassOf[KeyOf[x]] = c
        BY <2>1, ResidentIs DEF CacheInv, RingInv
    <3>2. CASE x # e
      <4>1. Handling(x)' = Handling(x)
          BY <1>9, <3>1, <3>2
      <4>2. Slots(ring'[c], x) = Slots(ring[c], x)
        <5>1. Slots(ring[c], x) \in Nat
            BY <1>7
        <5>2. CASE c = d
          <6>1. Slots(ring'[d], x) = Slots(ring[d], x) + 0
              BY <1>7, <3>2
          <6>2. QED
              BY <5>1, <5>2, <6>1
        <5>3. CASE c # d
            BY <1>6, <5>3
        <5>4. QED
            BY <5>2, <5>3
      <4>3. QED
          BY <3>1, <4>1, <4>2
    <3>3. CASE x = e
      <4>1. c = d
          BY <3>1, <3>3 DEF d
      <4>2. Slots(ring'[c], x) = Slots(ring[c], x) + 1 /\ Slots(ring[c], x) \in Nat
          BY <1>7, <3>3, <4>1
      <4>3. Cardinality(Handling(x)') = Cardinality(Handling(x)) - 1 /\ Cardinality(Handling(x)) \in Nat
          BY <1>9, <3>3, HandsAre
      <4>4. QED
          BY <3>1, <4>2, <4>3
    <3>4. QED
        BY <3>2, <3>3
  <2>4. QED
      BY <2>1, <2>2, <2>3 DEF RingInv
<1>11. \A x \in Fetches \ {e} : Unplaced(x) => Unplaced(x)'
  <2>1. \A x \in Fetches \ {e} : \A c \in Classes : x \in ToSet(ring'[c]) => x \in ToSet(ring[c])
      BY <1>6, <1>7
  <2>2. QED
      BY <1>1, <1>9, <2>1 DEF Unplaced
<1>12. \A x : Carried(x) => Carried(x)'
  <2>1. \A x, s : s \in Threads /\ th[s].load = x /\ th[s].at \in {"load", "finish"}
                     => th'[s].load = x /\ th'[s].at \in {"load", "finish"}
      BY <1>0, <1>5
  <2>2. QED
      BY <1>1, <2>1 DEF Carried
<1>13. LoadInv'
  <2>1. \A k \in Keys : loading'[k] # None => loading'[k] = loading[k] /\ entries'[k] = None
      BY <1>1 DEF CacheInv, LoadInv
  <2>2. \A x \in Fetches : x = loading'[KeyOf[x]] => x # e
      BY <1>0, <1>1
  <2>3. \A x \in Fetches : fetch'[x].state \in Idle => fetch[x].state \in Idle /\ x # e
      BY <1>1, <1>5 DEF CacheInv, LoadInv
  <2>4. \A x \in ToSet(queue') : fetch'[x].state # "idle"
      BY <1>1 DEF CacheInv, LoadInv
  <2>5. \A s \in Threads : th'[s].load \in {th[s].load, None}
      BY <1>5
  <2>6. \A s \in Threads : th'[s].at \in {"ring", "complete", "completeInserted"} =>
              loading'[KeyOf[th'[s].load]] # th'[s].load
      BY <1>0, <1>1, <1>5 DEF CacheInv, LoadInv
  <2>7. QED
      BY <1>1, <1>11, <1>12, <2>1, <2>2, <2>3, <2>4, <2>5, <2>6, LoadsKeep
<1>14. UsedInv'
  <2>1. \A c \in Classes : Resident(c)' = Resident(c) /\ used'[c] = used[c]
      BY <1>1 DEF Resident
  <2>2. Charges' = Charges
      BY <1>1 DEF Charges, ChargeOf
  <2>3. QED
      BY <2>1, <2>2 DEF UsedInv, CacheInv
<1>15. QED
    BY <1>5, <1>8, <1>10, <1>13, <1>14 DEF CacheInv

\* What a load that ends changes in the shard: it is registered no more, and is resident if it was.
LEMMA FinishShardIs ==
    ASSUME CacheInv, NEW t \in Threads, FinishShard(t)
    PROVE  \E e \in Fetches, inserts \in BOOLEAN :
             /\ th[t].at = "finish" /\ th[t].load = e
             /\ \A k \in Keys : loading'[k] # None => loading'[k] = loading[k]
             /\ loading'[KeyOf[e]] # e /\ DOMAIN loading' = Keys
             /\ th' = [th EXCEPT ![t].at = IF inserts THEN "ring" ELSE "complete", ![t].result = th[t].result]
             /\ ~inserts => UNCHANGED <<entries, entry, used>>
             /\ inserts =>
                  /\ entries[KeyOf[e]] = None /\ Unplaced(e) /\ loading'[KeyOf[e]] = None
                  /\ entries' = [entries EXCEPT ![KeyOf[e]] = e]
                  /\ entry' = [entry EXCEPT ![e].charged = entry[e].decoded]
                  /\ used' = [used EXCEPT ![ClassOf[KeyOf[e]]] = used[ClassOf[KeyOf[e]]] + ChargeOf(e)']
             /\ UNCHANGED <<flight, fetch, ring, queue, warm>>
<1>1. th[t].at = "finish" /\ th[t].load \in Fetches
    BY DEF FinishShard, CacheInv, ThreadInv
<1>2. PICK e \in Fetches : e = th[t].load
    BY <1>1
<1>3. /\ e # None /\ KeyOf[e] \in Keys /\ ClassOf[KeyOf[e]] \in Classes
      /\ Charge[KeyOf[e]] \in Nat /\ Extra[KeyOf[e]] \in Nat
    BY CacheAssumption DEF Keys, Range
<1>4. /\ DOMAIN entries = Keys /\ DOMAIN loading = Keys /\ None \notin Fetches
      /\ entry \in [Fetches -> [decoded : BOOLEAN, charged : BOOLEAN, referenced : BOOLEAN]]
      /\ DOMAIN th = Threads /\ DOMAIN FreeThread \subseteq DOMAIN th[t]
      /\ used \in [Classes -> Int]
    BY CacheAssumption DEF CacheInv, TypeInv, ThreadInv
<1>5. loading[KeyOf[e]] = e => flight[e].registered /\ entries[KeyOf[e]] = None /\ Unplaced(e)
  <2>1. loading[KeyOf[e]] # None =>
           /\ entries[KeyOf[e]] = None
           /\ flight[loading[KeyOf[e]]].registered /\ Unplaced(loading[KeyOf[e]])
      BY <1>3 DEF CacheInv, LoadInv
  <2>2. QED
      BY <1>3, <2>1
<1> DEFINE k == KeyOf[e]
           current == loading[k] = e
           inserts == current /\ th[t].result = "ok"
<1>6. /\ loading' = IF current THEN [loading EXCEPT ![k] = None] ELSE loading
      /\ th' = [th EXCEPT ![t].at = IF inserts THEN "ring" ELSE "complete"]
      /\ ~inserts => UNCHANGED <<entries, entry, used>>
      /\ inserts => /\ entries' = [entries EXCEPT ![k] = e]
                    /\ entry' = [entry EXCEPT ![e].charged = entry[e].decoded]
                    /\ used' = [used EXCEPT ![ClassOf[k]] = used[ClassOf[k]] + Charge[k] - 0
                                      + IF entry[e].decoded THEN Extra[k] ELSE 0]
      /\ UNCHANGED <<flight, fetch, ring, queue, warm>>
  <2>1. current <=> (flight[th[t].load].registered /\ loading[KeyOf[th[t].load]] = th[t].load)
      BY <1>2, <1>5
  <2>2. inserts <=> (flight[th[t].load].registered /\ loading[KeyOf[th[t].load]] = th[t].load) /\ th[t].result = "ok"
      BY <2>1
  <2>3. inserts => entries[k] = None
      BY <1>5
  <2> HIDE DEF current, inserts
  <2>4. /\ loading' = IF current THEN [loading EXCEPT ![k] = None] ELSE loading
        /\ th' = [th EXCEPT ![t].at = IF inserts THEN "ring" ELSE "complete"]
        /\ ~inserts => UNCHANGED <<entries, entry, used>>
        /\ inserts => /\ entries' = [entries EXCEPT ![k] = e]
                      /\ entry' = [entry EXCEPT ![e].charged = entry[e].decoded]
        /\ UNCHANGED <<flight, fetch, ring, queue, warm>>
      BY <1>2, <2>1, <2>2 DEF FinishShard
  <2>5. ASSUME inserts
        PROVE  used' = [used EXCEPT ![ClassOf[k]] = used[ClassOf[k]] + Charge[k] - 0
                                      + IF entry[e].decoded THEN Extra[k] ELSE 0]
      BY <1>2, <1>3, <1>4, <2>1, <2>2, <2>3, <2>5 DEF FinishShard
  <2>6. QED
      BY <2>4, <2>5
<1>7. inserts => ChargeOf(e)' = Charge[k] + IF entry[e].decoded THEN Extra[k] ELSE 0
  <2>1. ASSUME inserts PROVE entry'[e].charged = entry[e].decoded
      BY <1>4, <1>6, <2>1
  <2>2. QED
      BY <2>1 DEF ChargeOf
<1>8. inserts => used' = [used EXCEPT ![ClassOf[k]] = used[ClassOf[k]] + ChargeOf(e)']
  <2>1. SUFFICES ASSUME inserts PROVE used' = [used EXCEPT ![ClassOf[k]] = used[ClassOf[k]] + ChargeOf(e)']
      OBVIOUS
  <2> DEFINE x == IF entry[e].decoded THEN Extra[k] ELSE 0
             u == used[ClassOf[k]]
  <2>2. u + Charge[k] - 0 + x = u + (Charge[k] + x)
      BY <1>3, <1>4
  <2>3. ChargeOf(e)' = Charge[k] + x
      BY <1>7, <2>1
  <2>4. used' = [used EXCEPT ![ClassOf[k]] = u + Charge[k] - 0 + x]
      BY <1>6, <2>1
  <2> HIDE DEF x, u, k, inserts
  <2>5. used' = [used EXCEPT ![ClassOf[k]] = u + ChargeOf(e)']
      BY <2>2, <2>3, <2>4
  <2>6. QED
      BY <2>5 DEF u
<1>9. th' = [th EXCEPT ![t].at = IF inserts THEN "ring" ELSE "complete", ![t].result = th[t].result]
  <2> DEFINE at == IF inserts THEN "ring" ELSE "complete"
  <2>1. th' = [th EXCEPT ![t].at = at]
      BY <1>6
  <2> HIDE DEF at
  <2>2. [th[t] EXCEPT !.at = at, !.result = th[t].result] = [th[t] EXCEPT !.at = at]
      BY <1>4, FieldsAre
  <2>3. th' = [th EXCEPT ![t].at = at, ![t].result = th[t].result]
      BY <1>4, <2>1, <2>2
  <2>4. QED
      BY <2>3 DEF at
<1>10. /\ \A x \in Keys : loading'[x] # None => loading'[x] = loading[x]
       /\ loading'[k] # e /\ DOMAIN loading' = Keys
       /\ inserts => loading'[k] = None
  <2>1. CASE current
      BY <1>3, <1>4, <1>6, <2>1
  <2>2. CASE ~current
      BY <1>4, <1>6, <2>2
  <2>3. QED
      BY <2>1, <2>2
<1>11. inserts \in BOOLEAN
    OBVIOUS
<1>12. inserts => entries[k] = None /\ Unplaced(e)
    BY <1>5
<1>13. WITNESS e \in Fetches, inserts \in BOOLEAN
<1> HIDE DEF inserts, current
<1>14. QED
    BY <1>1, <1>2, <1>6, <1>8, <1>9, <1>10, <1>12

LEMMA FinishShardKeeps ==
    ASSUME CacheInv, NEW t \in Threads, FinishShard(t)
    PROVE  CacheInv'
<1>1. PICK e \in Fetches, inserts \in BOOLEAN :
         /\ th[t].at = "finish" /\ th[t].load = e
         /\ \A k \in Keys : loading'[k] # None => loading'[k] = loading[k]
         /\ loading'[KeyOf[e]] # e /\ DOMAIN loading' = Keys
         /\ th' = [th EXCEPT ![t].at = IF inserts THEN "ring" ELSE "complete", ![t].result = th[t].result]
         /\ ~inserts => UNCHANGED <<entries, entry, used>>
         /\ inserts =>
              /\ entries[KeyOf[e]] = None /\ Unplaced(e) /\ loading'[KeyOf[e]] = None
              /\ entries' = [entries EXCEPT ![KeyOf[e]] = e]
              /\ entry' = [entry EXCEPT ![e].charged = entry[e].decoded]
              /\ used' = [used EXCEPT ![ClassOf[KeyOf[e]]] = used[ClassOf[KeyOf[e]]] + ChargeOf(e)']
         /\ UNCHANGED <<flight, fetch, ring, queue, warm>>
    BY FinishShardIs
<1> DEFINE k == KeyOf[e]
           d == ClassOf[k]
           at == IF inserts THEN "ring" ELSE "complete"
<1>2. \A x \in Fetches : x # None /\ KeyOf[x] \in Keys /\ ClassOf[KeyOf[x]] \in Classes
    BY ResidentIs DEF CacheInv
<1>3. k \in Keys /\ d \in Classes
    BY <1>2
<1>4. /\ at \in Ats /\ at \notin {"hand", "check", "load", "finish"} /\ (at = "ring" <=> inserts)
      /\ th' = [th EXCEPT ![t].at = at, ![t].result = th[t].result]
    BY <1>1 DEF Ats
<1> HIDE DEF at
<1>5. /\ ThreadInv' /\ th'[t].at = at /\ th'[t].load = e /\ th'[t].cand = None /\ th[t].cand = None
      /\ \A s \in Threads \ {t} : th'[s] = th[s]
  <2>1. th[t].load # None /\ th[t].at # "check" /\ ThreadInv /\ th[t].load = e
      BY <1>1, <1>2 DEF CacheInv
  <2>2. QED
      BY <1>4, <2>1, MovesOn
<1>6. /\ DOMAIN entries' = Keys
      /\ \A x \in Keys : entries'[x] = IF inserts /\ x = k THEN e ELSE entries[x]
    BY <1>1 DEF CacheInv, TypeInv
<1>7. /\ entry' \in [Fetches -> [decoded : BOOLEAN, charged : BOOLEAN, referenced : BOOLEAN]]
      /\ \A x \in Fetches \ {e} : entry'[x].charged = entry[x].charged
  <2>1. entry \in [Fetches -> [decoded : BOOLEAN, charged : BOOLEAN, referenced : BOOLEAN]]
      BY DEF CacheInv, TypeInv
  <2>2. CASE inserts
    <3>1. entry' = [entry EXCEPT ![e].charged = entry[e].decoded]
        BY <1>1, <2>2
    <3>2. QED
        BY <2>1, <3>1
  <2>3. CASE ~inserts
    <3>1. entry' = entry
        BY <1>1, <2>3
    <3>2. QED
        BY <2>1, <3>1
  <2>4. QED
      BY <2>2, <2>3
<1>8. \A x \in Fetches : Charges'[x] = ChargeOf(x)' /\ Charges'[x] \in Nat
  <2>1. \A x \in Fetches : Charge[KeyOf[x]] \in Nat /\ Extra[KeyOf[x]] \in Nat
      BY <1>2, CacheAssumption
  <2>2. QED
      BY <1>7, <2>1 DEF Charges, ChargeOf
<1>9. /\ used' \in [Classes -> Int]
      /\ \A c \in Classes : used'[c] = used[c] + IF inserts /\ c = d THEN ChargeOf(e)' ELSE 0
  <2>1. used \in [Classes -> Int] /\ ChargeOf(e)' \in Int
    <3>1. used \in [Classes -> Int]
        BY DEF CacheInv, TypeInv
    <3>2. ChargeOf(e)' \in Int
        BY <1>8
    <3>3. QED
        BY <3>1, <3>2
  <2> DEFINE v == ChargeOf(e)'
  <2>2. inserts => used' = [used EXCEPT ![d] = used[d] + v]
      BY <1>1
  <2>3. ~inserts => used' = used
      BY <1>1
  <2>4. v \in Int
      BY <2>1
  <2> HIDE DEF v, d
  <2>5. CASE inserts
      BY <1>3, <2>1, <2>2, <2>4, <2>5 DEF v
  <2>6. CASE ~inserts
      BY <2>1, <2>3, <2>4, <2>6 DEF v
  <2>7. QED
      BY <2>5, <2>6
<1>10. TypeInv'
  <2>1. /\ DOMAIN entries' = Keys /\ DOMAIN loading' = Keys
        /\ \A x \in Keys : entries'[x] # None => entries'[x] \in Fetches /\ KeyOf[entries'[x]] = x
        /\ \A x \in Keys : loading'[x] # None => loading'[x] \in Fetches /\ KeyOf[loading'[x]] = x
      BY <1>1, <1>6 DEF CacheInv, TypeInv
  <2>2. QED
      BY <1>1, <1>7, <1>9, <2>1 DEF CacheInv, TypeInv
<1>11. /\ \A x \in Fetches \ {e} : Handling(x)' = Handling(x)
       /\ ~inserts => Handling(e)' = Handling(e)
       /\ inserts => Handling(e)' = {t}
  <2>1. ASSUME NEW x \in Fetches, x # e \/ ~inserts PROVE Handling(x)' = Handling(x)
    <3>1. /\ ~(th[t].cand = x \/ (th[t].load = x /\ th[t].at = "ring"))
          /\ ~(th'[t].cand = x \/ (th'[t].load = x /\ th'[t].at = "ring"))
        BY <1>1, <1>2, <1>4, <1>5, <2>1
    <3>2. QED
        BY <1>5, <3>1, HandlingBut
  <2>2. ASSUME inserts PROVE Handling(e)' = {t}
    <3>1. th'[t].load = e /\ th'[t].at = "ring"
        BY <1>4, <1>5, <2>2
    <3>2. Handling(e)' = Handling(e) \cup {t}
        BY <1>5, <3>1, HandlingBut
    <3>3. Handling(e) = {}
        BY <1>1, <2>2 DEF Unplaced
    <3>4. QED
        BY <3>2, <3>3
  <2>3. QED
      BY <2>1, <2>2
<1>12. LoadInv'
  <2>1. \A x \in Keys : loading'[x] # None => loading'[x] = loading[x] /\ entries'[x] = None
      BY <1>1, <1>6 DEF CacheInv, LoadInv
  <2>2. \A x \in Fetches : x = loading'[KeyOf[x]] => x # e
      BY <1>1
  <2>3. \A x \in Fetches : fetch'[x].state \in Idle => fetch[x].state \in Idle /\ x # e
      BY <1>1 DEF CacheInv, LoadInv
  <2>4. \A x \in ToSet(queue') : fetch'[x].state # "idle"
      BY <1>1 DEF CacheInv, LoadInv
  <2>5. \A s \in Threads : th'[s].load \in {th[s].load, None}
      BY <1>1, <1>5
  <2>6. ASSUME NEW s \in Threads, th'[s].at \in {"ring", "complete", "completeInserted"}
        PROVE  loading'[KeyOf[th'[s].load]] # th'[s].load
    <3>1. CASE s = t
        BY <1>1, <1>5, <3>1
    <3>2. CASE s # t
      <4>1. loading[KeyOf[th[s].load]] # th[s].load /\ th'[s] = th[s] /\ th[s].load \in Fetches
          BY <1>5, <2>6, <3>2 DEF CacheInv, LoadInv, ThreadInv
      <4>2. QED
          BY <1>1, <1>2, <4>1
    <3>3. QED
        BY <3>1, <3>2
  <2>7. \A x \in Fetches \ {e} : Unplaced(x) => Unplaced(x)'
      BY <1>1, <1>2, <1>6, <1>11 DEF Unplaced
  <2>8. \A x \in Fetches \ {e} : Carried(x) => Carried(x)'
    <3>1. \A x \in Fetches \ {e}, s \in Threads : th[s].load = x /\ th[s].at \in {"load", "finish"}
                     => th'[s].load = x /\ th'[s].at \in {"load", "finish"}
        BY <1>1, <1>5
    <3>2. QED
        BY <1>1, <3>1 DEF Carried
  <2>9. QED
      BY <1>1, <2>1, <2>2, <2>3, <2>4, <2>5, <2>6, <2>7, <2>8, LoadsKeep
<1>13. CASE ~inserts
  <2>1. RingInv' /\ UsedInv'
      BY <1>1, <1>10, <1>11, <1>13, SamePlaces DEF CacheInv
  <2>2. QED
      BY <1>5, <1>10, <1>12, <2>1 DEF CacheInv
<1>14. CASE inserts
  <2>1. /\ e \notin Resident(d)
        /\ \A c \in Classes : /\ Resident(c)' = IF c = d THEN Resident(c) \cup {e} ELSE Resident(c)
                              /\ Resident(c)' \ {e} = Resident(c) \ {e}
                              /\ e \in Resident(c)' <=> c = d
                              /\ e \notin Resident(c)
    <3>1. entries[KeyOf[e]] # e
        BY <1>1, <1>2, <1>14
    <3>2. \A c \in Classes : \A x : x \in Resident(c) <=> x \in Fetches /\ entries[KeyOf[x]] = x /\ ClassOf[KeyOf[x]] = c
        BY ResidentIs DEF CacheInv
    <3>3. \A c \in Classes : \A x : x \in Resident(c)' <=> x \in Fetches /\ entries'[KeyOf[x]] = x /\ ClassOf[KeyOf[x]] = c
        BY <1>10, ResidentNext
    <3>4. \A x \in Fetches \ {e} : entries'[KeyOf[x]] = x <=> entries[KeyOf[x]] = x
        BY <1>1, <1>2, <1>6, <1>14
    <3>5. entries'[KeyOf[e]] = e
        BY <1>3, <1>6, <1>14
    <3>6. ASSUME NEW c \in Classes
          PROVE  /\ e \in Resident(c)' <=> c = d
                 /\ e \notin Resident(c)
                 /\ \A x : x # e => (x \in Resident(c)' <=> x \in Resident(c))
        BY <3>1, <3>2, <3>3, <3>4, <3>5
    <3>7. QED
        BY <1>3, <3>6
  <2>2. UsedInv'
    <3>1. ASSUME NEW c \in Classes PROVE used'[c] = Total(Charges', Resident(c)')
      <4>1. /\ Total(Charges, Resident(c)) \in Int
            /\ Total(Charges', Resident(c)')
                 = Total(Charges, Resident(c)) + (IF e \in Resident(c)' THEN ChargeOf(e)' ELSE 0)
                     - (IF e \in Resident(c) THEN ChargeOf(e) ELSE 0)
          BY <1>7, <1>10, <2>1, TotalNext DEF CacheInv
      <4>2. used[c] = Total(Charges, Resident(c))
          BY DEF CacheInv, UsedInv
      <4>3. ChargeOf(e)' \in Int
          BY <1>8
      <4>4. (IF e \in Resident(c)' THEN ChargeOf(e)' ELSE 0) = (IF c = d THEN ChargeOf(e)' ELSE 0)
          BY <2>1
      <4>5. (IF e \in Resident(c) THEN ChargeOf(e) ELSE 0) = 0
          BY <2>1
      <4>6. used'[c] = used[c] + IF c = d THEN ChargeOf(e)' ELSE 0
          BY <1>9, <1>14
      <4> DEFINE T == Total(Charges, Resident(c))
                 U == IF c = d THEN ChargeOf(e)' ELSE 0
      <4>7. U \in Int /\ T \in Int
          BY <4>1, <4>3
      <4>8. Total(Charges', Resident(c)') = T + U - 0
          BY <4>1, <4>4, <4>5
      <4>9. used'[c] = T + U
          BY <4>2, <4>6
      <4> HIDE DEF T, U
      <4>10. QED
          BY <4>7, <4>8, <4>9
    <3>2. QED
        BY <3>1 DEF UsedInv
  <2>3. RingInv'
    <3>1. ASSUME NEW c \in Classes, NEW x \in Resident(c)'
          PROVE  Slots(ring[c], x) + Cardinality(Handling(x)') = 1
      <4>1. CASE x = e
        <5>1. Cardinality(Handling(e)') = 1
            BY <1>11, <1>14, HandsAre
        <5>2. Slots(ring[c], e) = 0
            BY <1>1, <1>14, SlotsNone DEF Unplaced, CacheInv, TypeInv
        <5>3. QED
            BY <4>1, <5>1, <5>2
      <4>2. CASE x # e
        <5>1. x \in Resident(c) /\ x \in Fetches
            BY <2>1, <4>2, ResidentIs DEF CacheInv
        <5>2. Slots(ring[c], x) + Cardinality(Handling(x)) = 1
            BY <5>1 DEF CacheInv, RingInv
        <5>3. Handling(x)' = Handling(x)
            BY <1>11, <4>2, <5>1
        <5>4. QED
            BY <5>2, <5>3
      <4>3. QED
          BY <4>1, <4>2
    <3>2. ring' = ring
        BY <1>1
    <3>3. \A c \in Classes : \A x \in ToSet(ring'[c]) : ClassOf[KeyOf[x]] = c
        BY <3>2 DEF CacheInv, RingInv
    <3>4. QED
        BY <3>1, <3>2, <3>3 DEF RingInv
  <2>4. QED
      BY <1>5, <1>10, <1>12, <2>2, <2>3 DEF CacheInv
<1>15. QED
    BY <1>13, <1>14

-----------------------------------------------------------------------------
(* Eviction. *)

\* Where the hand stops: what was visited is in the ring, or the one entry found is taken out.
LEMMA HandIs ==
    ASSUME CacheInv, NEW t \in Threads, Hand(t)
    PROVE  \E c \in Classes, r \in Seq(Fetches), found \in Fetches \cup {None} : \E new :
             /\ th[t].at = "hand" /\ ring' = [ring EXCEPT ![c] = r]
             /\ ToSet(r) \subseteq ToSet(ring[c])
             /\ found # None => found \in ToSet(ring[c])
             /\ \A e \in Fetches : entries[KeyOf[e]] = e =>
                  Slots(ring[c], e) = Slots(r, e) + IF found = e THEN 1 ELSE 0
             /\ entry' \in [Fetches -> [decoded : BOOLEAN, charged : BOOLEAN, referenced : BOOLEAN]]
             /\ \A e \in Fetches : entry'[e].charged = entry[e].charged
             /\ th' = [th EXCEPT ![t] = new]
             /\ DOMAIN FreeThread \subseteq DOMAIN new
             /\ new.at = (IF found = None THEN "sweep" ELSE "check") /\ new.cand = found
             /\ new.load = th[t].load /\ new.fetch = th[t].fetch
             /\ new.lap \in Nat /\ new.visits \in Nat /\ (found # None => new.class \in Classes)
             /\ UNCHANGED <<entries, loading, flight, fetch, used, queue, warm>>
<1> DEFINE c == th[t].class
           lap == th[t].lap
           visits == th[t].visits
           alive == {e \in Fetches : Alive(e)}
           pinned == {e \in Fetches : Pinned(e)}
           s == [ring |-> ring[c], visits |-> visits, found |-> None,
                 referenced |-> {e \in Fetches : entry[e].referenced}]
           n == 2 * lap - visits
           env == [ring |-> ring[c], alive |-> alive, pinned |-> pinned, lap |-> lap]
           end == FoldLeft(LAMBDA x, i : Visit(alive, pinned, lap, x), s, [i \in 1..n |-> i])
           same == Turning!Fold(env, s, 1..n)
<1>1. /\ th[t].at = "hand" /\ c \in Classes /\ lap \in Nat /\ visits \in Nat
      /\ DOMAIN th = Threads /\ DOMAIN FreeThread \subseteq DOMAIN th[t]
      /\ th[t].cand = None
    BY DEF Hand, CacheInv, ThreadInv
<1>2. /\ ring \in [Classes -> Seq(Fetches)] /\ ring[c] \in Seq(Fetches) /\ None \notin Fetches
      /\ entry \in [Fetches -> [decoded : BOOLEAN, charged : BOOLEAN, referenced : BOOLEAN]]
    BY <1>1, CacheAssumption DEF CacheInv, TypeInv
<1>3. /\ ring' = [ring EXCEPT ![c] = end.ring]
      /\ entry' = [e \in Fetches |-> [entry[e] EXCEPT !.referenced = e \in end.referenced]]
      /\ th' = IF end.found = None THEN [BackToSweep(t) EXCEPT ![t].done = @ \cup {c}]
               ELSE [th EXCEPT ![t].at = "check", ![t].visits = end.visits, ![t].cand = end.found]
      /\ UNCHANGED <<entries, loading, flight, fetch, used, queue, warm>>
    BY DEF Hand
<1>4. same = end
  <2>1. end = Turning!Fold(env, s, DOMAIN [i \in 1..n |-> i])
      BY DEF FoldLeft, MapThenFoldSet, Turning!Fold, Turning!Body, VisitStep, LastRound
  <2>2. DOMAIN [i \in 1..n |-> i] = 1..n
      OBVIOUS
  <2>3. QED
      BY <2>1, <2>2
<1>5. Turned(env, 1..n, end)
  <2>1. env.ring \in Seq(Fetches) /\ env.alive \subseteq Fetches /\ None \notin Fetches
      BY <1>2
  <2>2. n \in Int
      BY <1>1
  <2>3. Turned(env, {}, s)
    <3>1. /\ {"ring", "visits", "found", "referenced"} \subseteq DOMAIN s
          /\ s.ring = env.ring /\ s.visits = visits /\ s.found = None
        OBVIOUS
    <3>2. \A e \in env.alive : Slots(env.ring, e) = Slots(s.ring, e) + IF s.found = e THEN 1 ELSE 0
      <4>1. ASSUME NEW e \in env.alive PROVE Slots(env.ring, e) = Slots(env.ring, e) + IF None = e THEN 1 ELSE 0
        <5>1. e # None
            BY <1>2, <2>1, <4>1
        <5>2. Slots(env.ring, e) \in Nat
            BY <2>1, SlotsNone
        <5> HIDE DEF env
        <5>3. QED
            BY <5>1, <5>2
      <4>2. QED
          BY <3>1, <4>1
    <3> HIDE DEF s, env
    <3>3. QED
        BY <1>1, <2>1, <3>1, <3>2 DEF Turned
  <2> HIDE DEF s, env, n
  <2>4. Turned(env, 1..n, same)
      BY <2>1, <2>2, <2>3, TurnIs DEF same
  <2>5. QED
      BY <1>4, <2>4
<1>6. env.ring = ring[c] /\ env.alive = alive
    OBVIOUS
<1>7. \A e \in Fetches : entries[KeyOf[e]] = e => e \in alive
    BY DEF Alive
<1> HIDE DEF env, alive, pinned, n, s, same, end, c, lap, visits
<1>8. /\ end.ring \in Seq(Fetches) /\ ToSet(end.ring) \subseteq ToSet(ring[c])
      /\ end.found \in Fetches \cup {None} /\ (end.found # None => end.found \in ToSet(ring[c]))
      /\ end.visits \in Nat
      /\ \A e \in Fetches : entries[KeyOf[e]] = e =>
                  Slots(ring[c], e) = Slots(end.ring, e) + IF end.found = e THEN 1 ELSE 0
    BY <1>5, <1>6, <1>7 DEF Turned
<1>9. /\ entry' \in [Fetches -> [decoded : BOOLEAN, charged : BOOLEAN, referenced : BOOLEAN]]
      /\ \A e \in Fetches : entry'[e].charged = entry[e].charged
  <2>1. ASSUME NEW e \in Fetches
        PROVE  /\ entry'[e] \in [decoded : BOOLEAN, charged : BOOLEAN, referenced : BOOLEAN]
               /\ entry'[e].charged = entry[e].charged
    <3>1. CASE e \in end.referenced
      <4>1. entry'[e] = [entry[e] EXCEPT !.referenced = TRUE]
          BY <1>3, <3>1
      <4>2. entry[e] \in [decoded : BOOLEAN, charged : BOOLEAN, referenced : BOOLEAN]
          BY <1>2
      <4>3. QED
          BY <4>1, <4>2
    <3>2. CASE e \notin end.referenced
      <4>0. (e \in end.referenced) = FALSE
          BY <3>2
      <4>1. entry'[e] = [entry[e] EXCEPT !.referenced = FALSE]
          BY <1>3, <4>0
      <4>2. entry[e] \in [decoded : BOOLEAN, charged : BOOLEAN, referenced : BOOLEAN]
          BY <1>2
      <4>3. QED
          BY <4>1, <4>2
    <3>3. QED
        BY <3>1, <3>2
  <2>2. entry' = [e \in Fetches |-> entry'[e]]
      BY <1>3
  <2>3. QED
      BY <2>1, <2>2
<1>10. \E new : /\ th' = [th EXCEPT ![t] = new]
                /\ DOMAIN FreeThread \subseteq DOMAIN new
                /\ new.at = (IF end.found = None THEN "sweep" ELSE "check") /\ new.cand = end.found
                /\ new.load = th[t].load /\ new.fetch = th[t].fetch
                /\ new.lap \in Nat /\ new.visits \in Nat /\ (end.found # None => new.class \in Classes)
  <2>1. CASE end.found = None
    <3> DEFINE new == [th[t] EXCEPT !.at = "sweep", !.class = 0, !.lap = 0, !.visits = 0, !.cand = None,
                                    !.done = th[t].done \cup {c}]
    <3>1. th' = [th EXCEPT ![t] = new]
        BY <1>1, <1>3, <2>1, FieldsAre DEF BackToSweep
    <3>2. /\ DOMAIN FreeThread \subseteq DOMAIN new /\ new.at = "sweep" /\ new.cand = None
          /\ new.load = th[t].load /\ new.fetch = th[t].fetch /\ new.lap = 0 /\ new.visits = 0
        BY <1>1, FieldsAre
    <3> WITNESS new
    <3> HIDE DEF new
    <3>3. QED
        BY <2>1, <3>1, <3>2
  <2>2. CASE end.found # None
    <3> DEFINE new == [th[t] EXCEPT !.at = "check", !.visits = end.visits, !.cand = end.found]
    <3>1. th' = [th EXCEPT ![t] = new]
        BY <1>1, <1>3, <2>2
    <3>2. /\ DOMAIN FreeThread \subseteq DOMAIN new /\ new.at = "check" /\ new.cand = end.found
          /\ new.load = th[t].load /\ new.fetch = th[t].fetch /\ new.lap = th[t].lap /\ new.visits = end.visits
          /\ new.class = th[t].class
        BY <1>1, FieldsAre
    <3>3. th[t].class \in Classes /\ th[t].lap \in Nat
        BY <1>1 DEF c, lap
    <3> WITNESS new
    <3> HIDE DEF new
    <3>4. QED
        BY <1>8, <2>2, <3>1, <3>2, <3>3
  <2>3. QED
      BY <2>1, <2>2
<1>11. PICK r \in Seq(Fetches), found \in Fetches \cup {None} : r = end.ring /\ found = end.found
    BY <1>8
<1>12. PICK new : /\ th' = [th EXCEPT ![t] = new]
                  /\ DOMAIN FreeThread \subseteq DOMAIN new
                  /\ new.at = (IF found = None THEN "sweep" ELSE "check") /\ new.cand = found
                  /\ new.load = th[t].load /\ new.fetch = th[t].fetch
                  /\ new.lap \in Nat /\ new.visits \in Nat /\ (found # None => new.class \in Classes)
    BY <1>10, <1>11
<1>13. PICK d \in Classes : d = c
    BY <1>1
<1> WITNESS d \in Classes
<1> WITNESS r \in Seq(Fetches)
<1> WITNESS found \in Fetches \cup {None}
<1> WITNESS new
<1>16. /\ ring' = [ring EXCEPT ![d] = r] /\ ToSet(r) \subseteq ToSet(ring[d])
       /\ found # None => found \in ToSet(ring[d])
       /\ \A e \in Fetches : entries[KeyOf[e]] = e => Slots(ring[d], e) = Slots(r, e) + IF found = e THEN 1 ELSE 0
    BY <1>3, <1>8, <1>11, <1>13
<1>17. QED
    BY <1>1, <1>3, <1>9, <1>12, <1>16

\* Each slot of a ring that loses what is found is still there, and what is found is in hand.
LEMMA HandKeeps ==
    ASSUME CacheInv, NEW t \in Threads, Hand(t)
    PROVE  CacheInv'
<1>1. PICK c \in Classes, r \in Seq(Fetches), found \in Fetches \cup {None} : \E new :
         /\ th[t].at = "hand" /\ ring' = [ring EXCEPT ![c] = r]
         /\ ToSet(r) \subseteq ToSet(ring[c])
         /\ found # None => found \in ToSet(ring[c])
         /\ \A e \in Fetches : entries[KeyOf[e]] = e =>
              Slots(ring[c], e) = Slots(r, e) + IF found = e THEN 1 ELSE 0
         /\ entry' \in [Fetches -> [decoded : BOOLEAN, charged : BOOLEAN, referenced : BOOLEAN]]
         /\ \A e \in Fetches : entry'[e].charged = entry[e].charged
         /\ th' = [th EXCEPT ![t] = new]
         /\ DOMAIN FreeThread \subseteq DOMAIN new
         /\ new.at = (IF found = None THEN "sweep" ELSE "check") /\ new.cand = found
         /\ new.load = th[t].load /\ new.fetch = th[t].fetch
         /\ new.lap \in Nat /\ new.visits \in Nat /\ (found # None => new.class \in Classes)
         /\ UNCHANGED <<entries, loading, flight, fetch, used, queue, warm>>
    BY HandIs
<1>2. PICK new :
         /\ th' = [th EXCEPT ![t] = new]
         /\ DOMAIN FreeThread \subseteq DOMAIN new
         /\ new.at = (IF found = None THEN "sweep" ELSE "check") /\ new.cand = found
         /\ new.load = th[t].load /\ new.fetch = th[t].fetch
         /\ new.lap \in Nat /\ new.visits \in Nat /\ (found # None => new.class \in Classes)
    BY <1>1
<1>3. /\ th[t].at = "hand" /\ th[t].load \in Fetches \cup {None} /\ th[t].fetch \in Fetches \cup {None}
      /\ th[t].cand = None
    BY <1>1 DEF CacheInv, ThreadInv
<1>4. ThreadInv' /\ th'[t] = new /\ \A s \in Threads \ {t} : th'[s] = th[s]
  <2>1. /\ new.load \in Fetches \cup {None} /\ new.fetch \in Fetches \cup {None} /\ new.cand \in Fetches \cup {None}
        /\ new.at \in {"sweep", "check"} /\ new.at \in Ats /\ (new.cand # None <=> new.at = "check")
        /\ new.at \in {"hand", "check"} => new.class \in Classes
      BY <1>2, <1>3 DEF Ats
  <2>2. ThreadInv
      BY DEF CacheInv
  <2>3. QED
      BY <1>2, <2>1, <2>2, ThreadSet
<1>5. /\ ring \in [Classes -> Seq(Fetches)] /\ ring' \in [Classes -> Seq(Fetches)]
      /\ ring'[c] = r /\ \A d \in Classes \ {c} : ring'[d] = ring[d]
    BY <1>1 DEF CacheInv, TypeInv
<1>6. TypeInv'
    BY <1>1, <1>5 DEF CacheInv, TypeInv
<1>7. \A x \in Fetches : x # None
    BY CacheAssumption
<1>8. ASSUME NEW x \in Fetches
      PROVE  /\ x # found => Handling(x)' = Handling(x)
             /\ x = found => Handling(x)' = Handling(x) \cup {t} /\ t \notin Handling(x)
  <2>1. ~(th[t].cand = x \/ (th[t].load = x /\ th[t].at = "ring"))
      BY <1>3, <1>7
  <2>2. (th'[t].cand = x \/ (th'[t].load = x /\ th'[t].at = "ring")) <=> x = found
      BY <1>2, <1>4
  <2>3. t \notin Handling(x)
      BY <1>4, <2>1, HandlingBut
  <2>4. CASE x = found
    <3>1. Handling(x)' = Handling(x) \cup {t}
        BY <1>4, <2>2, <2>4, HandlingBut
    <3>2. QED
        BY <2>3, <2>4, <3>1
  <2>5. CASE x # found
    <3>1. Handling(x)' = Handling(x) \ {t}
        BY <1>4, <2>2, <2>5, HandlingBut
    <3>2. QED
        BY <2>3, <2>5, <3>1
  <2>6. QED
      BY <2>4, <2>5
<1>9. \A x \in Fetches : Unplaced(x) => Unplaced(x)'
  <2>1. ASSUME NEW x \in Fetches, Unplaced(x) PROVE Unplaced(x)'
    <3>1. /\ entries[KeyOf[x]] # x /\ Handling(x) = {}
          /\ \A d \in Classes : x \notin ToSet(ring[d])
        BY <2>1 DEF Unplaced
    <3>2. x # found
        BY <1>1, <1>7, <3>1
    <3>3. \A d \in Classes : x \notin ToSet(ring'[d])
        BY <1>1, <1>5, <3>1
    <3>4. Handling(x)' = {}
        BY <1>8, <3>1, <3>2
    <3>5. entries' = entries
        BY <1>1
    <3>6. QED
        BY <3>1, <3>3, <3>4, <3>5 DEF Unplaced
  <2>2. QED
      BY <2>1
<1>10. \A x : Carried(x) => Carried(x)'
  <2>1. \A x, s : s \in Threads /\ th[s].load = x /\ th[s].at \in {"load", "finish"}
                     => th'[s].load = x /\ th'[s].at \in {"load", "finish"}
      BY <1>3, <1>4
  <2>2. UNCHANGED <<flight, queue>>
      BY <1>1
  <2>3. QED
      BY <2>1, <2>2 DEF Carried
<1>11. LoadInv'
  <2>1. UNCHANGED <<entries, loading, flight, fetch, queue>>
      BY <1>1
  <2>2. \A k \in Keys : loading'[k] # None => loading'[k] = loading[k] /\ entries'[k] = None
      BY <2>1 DEF CacheInv, LoadInv
  <2>3. \A x \in ToSet(queue') : fetch'[x].state # "idle"
      BY <2>1 DEF CacheInv, LoadInv
  <2>4. \A s \in Threads : /\ th'[s].load = th[s].load
                           /\ th'[s].at \in {"ring", "complete", "completeInserted"} => th'[s].at = th[s].at
    <3>1. new.at \notin {"ring", "complete", "completeInserted"}
        BY <1>2
    <3>2. QED
        BY <1>2, <1>4, <3>1
  <2>5. \A s \in Threads : th'[s].at \in {"ring", "complete", "completeInserted"} =>
              loading'[KeyOf[th'[s].load]] # th'[s].load
      BY <2>1, <2>4 DEF CacheInv, LoadInv
  <2>6. QED
      BY <1>9, <1>10, <2>1, <2>2, <2>3, <2>4, <2>5, LoadsKeep
<1>12. \A d \in Classes : /\ Resident(d)' = Resident(d) /\ Resident(d) \subseteq Fetches
                          /\ \A x \in Resident(d) : entries[KeyOf[x]] = x
  <2>1. \A d \in Classes : Resident(d)' = Resident(d)
      BY <1>1 DEF Resident
  <2>2. QED
      BY <2>1, ResidentIs DEF CacheInv
<1>13. RingInv'
  <2>1. ASSUME NEW d \in Classes, NEW x \in ToSet(ring'[d]) PROVE ClassOf[KeyOf[x]] = d
    <3>1. x \in ToSet(ring[d])
        BY <1>1, <1>5
    <3>2. QED
        BY <3>1 DEF CacheInv, RingInv
  <2>2. ASSUME NEW d \in Classes, NEW x \in Resident(d)
        PROVE  Slots(ring'[d], x) + Cardinality(Handling(x)') = 1
    <3>1. x \in Fetches /\ entries[KeyOf[x]] = x /\ Slots(ring[d], x) + Cardinality(Handling(x)) = 1
        BY <1>12 DEF CacheInv, RingInv
    <3>2. Slots(ring[d], x) \in Nat /\ Slots(ring'[d], x) \in Nat
        BY <1>5, SlotsNone
    <3>3. ClassOf[KeyOf[x]] = d
        BY ResidentIs DEF CacheInv
    <3>4. found = x => d = c
        BY <1>1, <1>7, <3>1, <3>3 DEF CacheInv, RingInv
    <3>5. Cardinality(Handling(x)) \in Nat
        BY HandsAre
    <3>6. CASE found = x
      <4>1. Cardinality(Handling(x)') = Cardinality(Handling(x)) + 1
          BY <1>8, <3>1, <3>6, HandsAre
      <4>2. Slots(ring[d], x) = Slots(ring'[d], x) + 1
          BY <1>1, <1>5, <3>1, <3>4, <3>6
      <4>3. QED
          BY <3>1, <3>2, <3>5, <4>1, <4>2
    <3>7. CASE found # x
      <4>1. Handling(x)' = Handling(x)
          BY <1>8, <3>1, <3>7
      <4>2. Slots(ring[d], x) = Slots(ring'[d], x)
        <5>1. CASE d = c
          <6>1. Slots(ring[c], x) = Slots(r, x) + 0
              BY <1>1, <3>1, <3>7
          <6>2. QED
              BY <1>5, <3>2, <5>1, <6>1
        <5>2. CASE d # c
            BY <1>5, <5>2
        <5>3. QED
            BY <5>1, <5>2
      <4>3. QED
          BY <3>1, <4>1, <4>2
    <3>8. QED
        BY <3>6, <3>7
  <2>3. QED
      BY <1>12, <2>1, <2>2 DEF RingInv
<1>14. UsedInv'
  <2>1. \A d \in Classes : used'[d] = used[d]
      BY <1>1
  <2>2. Charges' = Charges
    <3>1. \A x \in Fetches : entry'[x].charged = entry[x].charged
        BY <1>1
    <3>2. QED
        BY <3>1 DEF Charges, ChargeOf
  <2>3. QED
      BY <1>12, <2>1, <2>2 DEF UsedInv, CacheInv
<1>15. QED
    BY <1>4, <1>6, <1>11, <1>13, <1>14 DEF CacheInv

\* A thread lets go of the entry it examined, and may put it back.
LEMMA LetsGo ==
    ASSUME CacheInv, TypeInv', NEW t \in Threads, NEW e \in Fetches, th[t].at = "check", th[t].cand = e,
           NEW new, th' = [th EXCEPT ![t] = new], DOMAIN FreeThread \subseteq DOMAIN new,
           new.at \in {"sweep", "hand"}, new.cand = None, new.load = th[t].load, new.fetch = th[t].fetch,
           new.lap \in Nat, new.visits \in Nat, new.at = "hand" => new.class \in Classes,
           \A c \in Classes : ToSet(ring'[c]) \subseteq ToSet(ring[c]) \cup {e},
           \A k \in Keys : entries'[k] \in {entries[k], None},
           UNCHANGED <<loading, flight, fetch, queue>>
    PROVE  /\ ThreadInv' /\ LoadInv'
           /\ \A x \in Fetches \ {e} : Handling(x)' = Handling(x)
           /\ Cardinality(Handling(e)') = Cardinality(Handling(e)) - 1
           /\ Cardinality(Handling(e)) \in Nat
<1>1. /\ th[t].load \in Fetches \cup {None} /\ th[t].fetch \in Fetches \cup {None}
    BY DEF CacheInv, ThreadInv
<1>2. ThreadInv' /\ th'[t] = new /\ \A s \in Threads \ {t} : th'[s] = th[s]
  <2>1. /\ new.load \in Fetches \cup {None} /\ new.fetch \in Fetches \cup {None} /\ new.cand \in Fetches \cup {None}
        /\ new.at \in Ats /\ (new.cand # None <=> new.at = "check")
        /\ new.at \in {"hand", "check"} => new.class \in Classes
      BY <1>1 DEF Ats
  <2>2. ThreadInv
      BY DEF CacheInv
  <2>3. QED
      BY <2>1, <2>2, ThreadSet
<1>3. \A x \in Fetches : x # None /\ KeyOf[x] \in Keys
    BY ResidentIs DEF CacheInv
<1>4. ASSUME NEW x \in Fetches
      PROVE  /\ Handling(x)' = Handling(x) \ {t} /\ (t \in Handling(x) <=> x = e)
  <2>1. (th[t].cand = x \/ (th[t].load = x /\ th[t].at = "ring")) <=> x = e
      OBVIOUS
  <2>2. ~(th'[t].cand = x \/ (th'[t].load = x /\ th'[t].at = "ring"))
      BY <1>2, <1>3
  <2>3. QED
      BY <1>2, <2>1, <2>2, HandlingBut
<1>5. \A x \in Fetches \ {e} : Handling(x)' = Handling(x)
    BY <1>4
<1>6. Cardinality(Handling(e)') = Cardinality(Handling(e)) - 1 /\ Cardinality(Handling(e)) \in Nat
    BY <1>4, HandsAre
<1>7. \A x \in Fetches : Unplaced(x) => Unplaced(x)'
  <2>1. ASSUME NEW x \in Fetches, Unplaced(x) PROVE Unplaced(x)'
    <3>1. /\ entries[KeyOf[x]] # x /\ Handling(x) = {}
          /\ \A d \in Classes : x \notin ToSet(ring[d])
        BY <2>1 DEF Unplaced
    <3>2. x # e
        BY <1>4, <3>1
    <3>3. \A d \in Classes : x \notin ToSet(ring'[d])
        BY <3>1, <3>2
    <3>4. entries'[KeyOf[x]] # x
        BY <1>3, <3>1
    <3>5. QED
        BY <1>5, <3>1, <3>2, <3>3, <3>4 DEF Unplaced
  <2>2. QED
      BY <2>1
<1>8. \A x : Carried(x) => Carried(x)'
  <2>1. \A x, s : s \in Threads /\ th[s].load = x /\ th[s].at \in {"load", "finish"}
                     => th'[s].load = x /\ th'[s].at \in {"load", "finish"}
      BY <1>2
  <2>2. QED
      BY <2>1 DEF Carried
<1>9. LoadInv'
  <2>1. \A k \in Keys : loading'[k] # None => loading'[k] = loading[k] /\ entries'[k] = None
      BY DEF CacheInv, LoadInv
  <2>2. \A x \in ToSet(queue') : fetch'[x].state # "idle"
      BY DEF CacheInv, LoadInv
  <2>3. \A s \in Threads : /\ th'[s].load = th[s].load
                           /\ th'[s].at \in {"ring", "complete", "completeInserted"} => th'[s].at = th[s].at
      BY <1>2
  <2>4. \A s \in Threads : th'[s].at \in {"ring", "complete", "completeInserted"} =>
              loading'[KeyOf[th'[s].load]] # th'[s].load
      BY <2>3 DEF CacheInv, LoadInv
  <2>5. QED
      BY <1>7, <1>8, <2>1, <2>2, <2>3, <2>4, LoadsKeep
<1>10. QED
    BY <1>2, <1>5, <1>6, <1>9

\* The thread goes back to the hand, or to the sweep.
LEMMA CheckTurns ==
    ASSUME ThreadInv, NEW t \in Threads, Check(t)
    PROVE  \E new : /\ th' = [th EXCEPT ![t] = new]
                    /\ DOMAIN FreeThread \subseteq DOMAIN new
                    /\ new.at \in {"sweep", "hand"} /\ new.cand = None
                    /\ new.load = th[t].load /\ new.fetch = th[t].fetch
                    /\ new.lap \in Nat /\ new.visits \in Nat /\ (new.at = "hand" => new.class \in Classes)
<1>1. /\ DOMAIN th = Threads /\ DOMAIN FreeThread \subseteq DOMAIN th[t] /\ th[t].at = "check"
      /\ th[t].lap \in Nat /\ th[t].visits \in Nat /\ th[t].class \in Classes
    BY DEF ThreadInv, Check
<1>2. th' = BackToSweep(t) \/ th' = [th EXCEPT ![t].at = "hand", ![t].cand = None]
    BY DEF Check
<1>3. CASE th' = BackToSweep(t)
  <2> DEFINE new == [th[t] EXCEPT !.at = "sweep", !.class = 0, !.lap = 0, !.visits = 0, !.cand = None]
  <2>1. th' = [th EXCEPT ![t] = new]
      BY <1>1, <1>3 DEF BackToSweep
  <2>2. /\ DOMAIN FreeThread \subseteq DOMAIN new /\ new.at = "sweep" /\ new.cand = None
        /\ new.load = th[t].load /\ new.fetch = th[t].fetch /\ new.lap = 0 /\ new.visits = 0
      BY <1>1, FieldsAre
  <2> WITNESS new
  <2> HIDE DEF new
  <2>3. QED
      BY <2>1, <2>2
<1>4. CASE th' = [th EXCEPT ![t].at = "hand", ![t].cand = None]
  <2> DEFINE new == [th[t] EXCEPT !.at = "hand", !.cand = None]
  <2>1. th' = [th EXCEPT ![t] = new]
      BY <1>1, <1>4
  <2>2. /\ DOMAIN FreeThread \subseteq DOMAIN new /\ new.at = "hand" /\ new.cand = None
        /\ new.load = th[t].load /\ new.fetch = th[t].fetch /\ new.lap = th[t].lap /\ new.visits = th[t].visits
        /\ new.class = th[t].class
      BY <1>1, FieldsAre
  <2> WITNESS new
  <2> HIDE DEF new
  <2>3. QED
      BY <1>1, <2>1, <2>2
<1>5. QED
    BY <1>2, <1>3, <1>4

\* What the examination does to the entry: nothing when it is gone, back into its ring when it is
\* pinned, and out of the cache otherwise.
LEMMA CheckIs ==
    ASSUME CacheInv, NEW t \in Threads, NEW e \in Fetches, e = th[t].cand, Check(t)
    PROVE  \/ /\ entries[KeyOf[e]] # e
              /\ UNCHANGED <<entries, ring, used, entry>>
           \/ /\ entries[KeyOf[e]] = e
              /\ ring' = [ring EXCEPT ![ClassOf[KeyOf[e]]] = Append(ring[ClassOf[KeyOf[e]]], e)]
              /\ UNCHANGED <<entries, used, entry>>
           \/ /\ entries[KeyOf[e]] = e /\ ring' = ring
              /\ entries' = [entries EXCEPT ![KeyOf[e]] = None]
              /\ used' = [used EXCEPT ![ClassOf[KeyOf[e]]] = used[ClassOf[KeyOf[e]]] - ChargeOf(e)]
              /\ entry' = [entry EXCEPT ![e].referenced = FALSE, ![e].charged = FALSE]
<1> DEFINE k == KeyOf[e]
<1>0. k \in Keys /\ ClassOf[k] \in Classes /\ ring \in [Classes -> Seq(Fetches)] /\ used \in [Classes -> Int]
    BY ResidentIs DEF CacheInv, TypeInv
<1>1. CASE entries[k] # e
    BY <1>1 DEF Check
<1>2. CASE entries[k] = e /\ Pinned(e)
    BY <1>0, <1>2 DEF Check
<1>3. CASE entries[k] = e /\ ~Pinned(e)
    BY <1>0, <1>3 DEF Check
<1>4. QED
    BY <1>1, <1>2, <1>3

\* An entry goes, and its charge is taken back.
LEMMA GoneIs ==
    ASSUME TypeInv, NEW e \in Fetches,
           entries' = [entries EXCEPT ![KeyOf[e]] = None],
           used' = [used EXCEPT ![ClassOf[KeyOf[e]]] = used[ClassOf[KeyOf[e]]] - ChargeOf(e)]
    PROVE  /\ DOMAIN entries' = Keys /\ used' \in [Classes -> Int]
           /\ \A k \in Keys : entries'[k] = IF k = KeyOf[e] THEN None ELSE entries[k]
           /\ \A c \in Classes : used'[c] = used[c] - IF c = ClassOf[KeyOf[e]] THEN ChargeOf(e) ELSE 0
<1> DEFINE d == ClassOf[KeyOf[e]]
           u == ChargeOf(e)
<1>1. KeyOf[e] \in Keys /\ d \in Classes /\ u \in Int /\ used \in [Classes -> Int] /\ DOMAIN entries = Keys
  <2>1. KeyOf[e] \in Keys /\ d \in Classes /\ Charges[e] = ChargeOf(e) /\ Charges[e] \in Nat
      BY ResidentIs
  <2>2. used \in [Classes -> Int] /\ DOMAIN entries = Keys
      BY DEF TypeInv
  <2>3. QED
      BY <2>1, <2>2
<1>2. used' = [used EXCEPT ![d] = used[d] - u]
    OBVIOUS
<1> HIDE DEF d, u
<1>3. used' \in [Classes -> Int] /\ \A c \in Classes : used'[c] = used[c] - IF c = d THEN u ELSE 0
  <2> DEFINE v == used[d] - u
  <2>0. used[d] \in Int
      BY <1>1
  <2>1. v \in Int /\ used' = [used EXCEPT ![d] = v]
    <3>1. v \in Int
        BY <1>1, <2>0
    <3>2. used' = [used EXCEPT ![d] = v]
        BY <1>2
    <3>3. QED
        BY <3>1, <3>2
  <2> HIDE DEF v
  <2>2. used' \in [Classes -> Int] /\ used'[d] = v /\ \A c \in Classes \ {d} : used'[c] = used[c]
      BY <1>1, <2>1
  <2>3. \A c \in Classes \ {d} : used'[c] = used[c] - 0
      BY <1>1, <2>2
  <2>4. used'[d] = used[d] - u
      BY <2>2 DEF v
  <2>5. QED
      BY <2>2, <2>3, <2>4
<1>4. QED
    BY <1>1, <1>3 DEF d, u

LEMMA GoneKeeps ==
    ASSUME CacheInv, TypeInv', NEW e \in Fetches, entries[KeyOf[e]] = e,
           entries' = [entries EXCEPT ![KeyOf[e]] = None],
           used' = [used EXCEPT ![ClassOf[KeyOf[e]]] = used[ClassOf[KeyOf[e]]] - ChargeOf(e)],
           \A x \in Fetches \ {e} : entry'[x].charged = entry[x].charged
    PROVE  /\ UsedInv'
           /\ \A c \in Classes : Resident(c)' \subseteq Resident(c) \ {e}
<1> DEFINE d == ClassOf[KeyOf[e]]
<1>1. /\ \A x \in Fetches : x # None /\ KeyOf[x] \in Keys /\ ClassOf[KeyOf[x]] \in Classes
      /\ ChargeOf(e) \in Int /\ used \in [Classes -> Int]
  <2>1. /\ \A x \in Fetches : x # None /\ KeyOf[x] \in Keys /\ ClassOf[KeyOf[x]] \in Classes
        /\ Charges[e] = ChargeOf(e) /\ Charges[e] \in Nat
      BY ResidentIs DEF CacheInv
  <2>2. used \in [Classes -> Int]
      BY DEF CacheInv, TypeInv
  <2>3. QED
      BY <2>1, <2>2
<1>2. /\ \A k \in Keys : entries'[k] = IF k = KeyOf[e] THEN None ELSE entries[k]
      /\ \A c \in Classes : used'[c] = used[c] - IF c = d THEN ChargeOf(e) ELSE 0
    BY GoneIs DEF CacheInv
<1>3. ASSUME NEW c \in Classes
      PROVE  /\ e \in Resident(c) <=> c = d
             /\ e \notin Resident(c)' /\ \A x : x # e => (x \in Resident(c)' <=> x \in Resident(c))
  <2>1. \A x : x \in Resident(c) <=> x \in Fetches /\ entries[KeyOf[x]] = x /\ ClassOf[KeyOf[x]] = c
      BY ResidentIs DEF CacheInv
  <2>2. \A x : x \in Resident(c)' <=> x \in Fetches /\ entries'[KeyOf[x]] = x /\ ClassOf[KeyOf[x]] = c
      BY ResidentNext
  <2>3. entries'[KeyOf[e]] # e
      BY <1>1, <1>2
  <2>4. \A x \in Fetches \ {e} : entries'[KeyOf[x]] = x <=> entries[KeyOf[x]] = x
      BY <1>1, <1>2
  <2>5. QED
      BY <2>1, <2>2, <2>3, <2>4
<1>4. ASSUME NEW c \in Classes PROVE used'[c] = Total(Charges', Resident(c)')
  <2> DEFINE T == Total(Charges, Resident(c))
             U == ChargeOf(e)
             V == Total(Charges', Resident(c)')
  <2>1. /\ T \in Int
        /\ V = T + (IF e \in Resident(c)' THEN ChargeOf(e)' ELSE 0) - (IF e \in Resident(c) THEN U ELSE 0)
      BY <1>3, TotalNext DEF CacheInv
  <2>2. used[c] = T
      BY DEF CacheInv, UsedInv
  <2>3. U \in Int
      BY <1>1
  <2>4. (IF e \in Resident(c)' THEN ChargeOf(e)' ELSE 0) = 0
      BY <1>3
  <2>5. (IF e \in Resident(c) THEN U ELSE 0) = (IF c = d THEN U ELSE 0)
      BY <1>3
  <2>6. used'[c] = used[c] - IF c = d THEN U ELSE 0
      BY <1>2
  <2> DEFINE W == IF c = d THEN U ELSE 0
  <2>7. W \in Int
      BY <2>3
  <2>8. V = T + 0 - W /\ used'[c] = T - W
      BY <2>1, <2>2, <2>4, <2>5, <2>6
  <2> HIDE DEF T, U, V, W
  <2>9. used'[c] = V
      BY <2>1, <2>7, <2>8
  <2>10. QED
      BY <2>9 DEF V
<1>5. UsedInv'
    BY <1>4 DEF UsedInv
<1>6. QED
    BY <1>3, <1>5

LEMMA CheckKeeps ==
    ASSUME CacheInv, NEW t \in Threads, Check(t)
    PROVE  CacheInv'
<1>1. /\ th[t].at = "check" /\ th[t].cand \in Fetches
      /\ UNCHANGED <<loading, flight, fetch, queue, warm>>
    BY DEF Check, CacheInv, ThreadInv
<1>2. PICK e \in Fetches : e = th[t].cand
    BY <1>1
<1>3. PICK new :
         /\ th' = [th EXCEPT ![t] = new]
         /\ DOMAIN FreeThread \subseteq DOMAIN new
         /\ new.at \in {"sweep", "hand"} /\ new.cand = None
         /\ new.load = th[t].load /\ new.fetch = th[t].fetch
         /\ new.lap \in Nat /\ new.visits \in Nat /\ (new.at = "hand" => new.class \in Classes)
    BY CheckTurns DEF CacheInv
<1> DEFINE k == KeyOf[e]
           d == ClassOf[k]
<1>4. /\ k \in Keys /\ d \in Classes /\ e # None
      /\ ring \in [Classes -> Seq(Fetches)] /\ used \in [Classes -> Int]
      /\ entry \in [Fetches -> [decoded : BOOLEAN, charged : BOOLEAN, referenced : BOOLEAN]]
    BY ResidentIs DEF CacheInv, TypeInv
<1>5. \A c \in Classes : \A x \in Resident(c) :
         x \in Fetches /\ ClassOf[KeyOf[x]] = c /\ Slots(ring[c], x) + Cardinality(Handling(x)) = 1
    BY ResidentIs DEF CacheInv, RingInv
<1>6. ASSUME TypeInv', \A c \in Classes : ToSet(ring'[c]) \subseteq ToSet(ring[c]) \cup {e},
             \A x \in Keys : entries'[x] \in {entries[x], None}
      PROVE  /\ ThreadInv' /\ LoadInv'
             /\ \A x \in Fetches \ {e} : Handling(x)' = Handling(x)
             /\ Cardinality(Handling(e)') = Cardinality(Handling(e)) - 1
             /\ Cardinality(Handling(e)) \in Nat
    BY <1>1, <1>2, <1>3, <1>6, LetsGo
<1>7. CASE entries[k] # e /\ UNCHANGED <<entries, ring, used, entry>>
  <2>1. TypeInv'
      BY <1>1, <1>7 DEF CacheInv, TypeInv
  <2>2. /\ ThreadInv' /\ LoadInv' /\ \A x \in Fetches \ {e} : Handling(x)' = Handling(x)
      BY <1>6, <1>7, <2>1
  <2>3. \A c \in Classes : Resident(c)' = Resident(c) /\ e \notin Resident(c)
    <3>1. \A c \in Classes : Resident(c)' = Resident(c)
        BY <1>7 DEF Resident
    <3>2. \A c \in Classes : e \notin Resident(c)
        BY <1>7, ResidentIs DEF CacheInv
    <3>3. QED
        BY <3>1, <3>2
  <2>4. RingInv'
    <3>1. ASSUME NEW c \in Classes, NEW x \in Resident(c)'
          PROVE  Slots(ring'[c], x) + Cardinality(Handling(x)') = 1
      <4>1. x \in Resident(c) /\ x \in Fetches \ {e}
          BY <1>5, <2>3
      <4>2. Handling(x)' = Handling(x) /\ ring' = ring
          BY <1>7, <2>2, <4>1
      <4>3. QED
          BY <1>5, <4>1, <4>2
    <3>2. \A c \in Classes : \A x \in ToSet(ring'[c]) : ClassOf[KeyOf[x]] = c
        BY <1>7 DEF CacheInv, RingInv
    <3>3. QED
        BY <3>1, <3>2 DEF RingInv
  <2>5. UsedInv'
    <3>1. Charges' = Charges
        BY <1>7 DEF Charges, ChargeOf
    <3>2. QED
        BY <1>7, <2>3, <3>1 DEF UsedInv, CacheInv
  <2>6. QED
      BY <2>1, <2>2, <2>4, <2>5 DEF CacheInv
<1>8. CASE entries[k] = e /\ ring' = [ring EXCEPT ![d] = Append(ring[d], e)] /\ UNCHANGED <<entries, used, entry>>
  <2>0. ring[d] \in Seq(Fetches) /\ \A c \in Classes : ring[c] \in Seq(Fetches)
      BY <1>4
  <2>1. /\ ring'[d] = Append(ring[d], e) /\ \A c \in Classes \ {d} : ring'[c] = ring[c]
        /\ Append(ring[d], e) \in Seq(Fetches)
        /\ ToSet(ring'[d]) = ToSet(ring[d]) \cup {e}
        /\ \A x : Slots(ring'[d], x) = Slots(ring[d], x) + IF x = e THEN 1 ELSE 0
    <3>1. ring'[d] = Append(ring[d], e) /\ \A c \in Classes \ {d} : ring'[c] = ring[c]
        BY <1>4, <1>8
    <3>2. /\ Append(ring[d], e) \in Seq(Fetches) /\ ToSet(Append(ring[d], e)) = ToSet(ring[d]) \cup {e}
          /\ \A x : Slots(Append(ring[d], e), x) = Slots(ring[d], x) + IF x = e THEN 1 ELSE 0
        BY <2>0, SlotsAppend
    <3> HIDE DEF d
    <3>3. QED
        BY <3>1, <3>2
  <2>2. \A c \in Classes : \A x : Slots(ring[c], x) \in Nat
      BY <2>0, SlotsNone
  <2>3. ring' \in [Classes -> Seq(Fetches)]
    <3> HIDE DEF d
    <3>1. QED
        BY <1>4, <1>8, <2>1
  <2>4. TypeInv'
      BY <1>1, <1>8, <2>3 DEF CacheInv, TypeInv
  <2>5. /\ ThreadInv' /\ LoadInv' /\ \A x \in Fetches \ {e} : Handling(x)' = Handling(x)
        /\ Cardinality(Handling(e)') = Cardinality(Handling(e)) - 1
        /\ Cardinality(Handling(e)) \in Nat
    <3>1. \A c \in Classes : ToSet(ring'[c]) \subseteq ToSet(ring[c]) \cup {e}
        BY <2>1
    <3>2. \A x \in Keys : entries'[x] \in {entries[x], None}
        BY <1>8
    <3>3. QED
        BY <1>6, <2>4, <3>1, <3>2
  <2>6. \A c \in Classes : Resident(c)' = Resident(c)
      BY <1>8 DEF Resident
  <2>7. RingInv'
    <3>1. ASSUME NEW c \in Classes, NEW x \in Resident(c)
          PROVE  Slots(ring'[c], x) + Cardinality(Handling(x)') = 1
      <4>1. x \in Fetches /\ ClassOf[KeyOf[x]] = c /\ Slots(ring[c], x) + Cardinality(Handling(x)) = 1
          BY <1>5
      <4>2. CASE x = e
        <5>1. c = d
            BY <4>1, <4>2
        <5>2. Slots(ring'[c], x) = Slots(ring[c], x) + 1 /\ Slots(ring[c], x) \in Nat
            BY <2>1, <2>2, <4>2, <5>1
        <5>3. Cardinality(Handling(x)') = Cardinality(Handling(x)) - 1 /\ Cardinality(Handling(x)) \in Nat
            BY <2>5, <4>2
        <5>4. QED
            BY <4>1, <5>2, <5>3
      <4>3. CASE x # e
        <5>1. Handling(x)' = Handling(x)
            BY <2>5, <4>1, <4>3
        <5>2. Slots(ring'[c], x) = Slots(ring[c], x)
          <6>1. CASE c = d
            <7>1. Slots(ring'[d], x) = Slots(ring[d], x) + 0 /\ Slots(ring[d], x) \in Nat
                BY <1>4, <2>1, <2>2, <4>3
            <7>2. QED
                BY <6>1, <7>1
          <6>2. CASE c # d
              BY <2>1, <6>2
          <6>3. QED
              BY <6>1, <6>2
        <5>3. QED
            BY <4>1, <5>1, <5>2
      <4>4. QED
          BY <4>2, <4>3
    <3>2. \A c \in Classes : \A x \in ToSet(ring'[c]) : ClassOf[KeyOf[x]] = c
      <4>1. \A c \in Classes : \A x \in ToSet(ring[c]) : ClassOf[KeyOf[x]] = c
          BY DEF CacheInv, RingInv
      <4>2. QED
          BY <2>1, <4>1
    <3>3. QED
        BY <2>6, <3>1, <3>2 DEF RingInv
  <2>8. UsedInv'
    <3>1. Charges' = Charges
        BY <1>8 DEF Charges, ChargeOf
    <3>2. QED
        BY <1>8, <2>6, <3>1 DEF UsedInv, CacheInv
  <2>9. QED
      BY <2>4, <2>5, <2>7, <2>8 DEF CacheInv
<1>9. CASE /\ entries[k] = e /\ ring' = ring
           /\ entries' = [entries EXCEPT ![k] = None]
           /\ used' = [used EXCEPT ![d] = used[d] - ChargeOf(e)]
           /\ entry' = [entry EXCEPT ![e].referenced = FALSE, ![e].charged = FALSE]
  <2>1. /\ DOMAIN entries' = Keys /\ used' \in [Classes -> Int]
        /\ \A x \in Keys : entries'[x] = IF x = k THEN None ELSE entries[x]
      BY <1>9, GoneIs DEF CacheInv
  <2>2. /\ entry' \in [Fetches -> [decoded : BOOLEAN, charged : BOOLEAN, referenced : BOOLEAN]]
        /\ \A x \in Fetches \ {e} : entry'[x].charged = entry[x].charged
      BY <1>4, <1>9
  <2>3. TypeInv'
    <3>1. \A x \in Keys : entries'[x] # None => entries'[x] \in Fetches /\ KeyOf[entries'[x]] = x
        BY <2>1 DEF CacheInv, TypeInv
    <3>2. QED
        BY <1>1, <1>9, <2>1, <2>2, <3>1 DEF CacheInv, TypeInv
  <2>4. /\ ThreadInv' /\ LoadInv' /\ \A x \in Fetches \ {e} : Handling(x)' = Handling(x)
    <3>1. \A c \in Classes : ToSet(ring'[c]) \subseteq ToSet(ring[c]) \cup {e}
        BY <1>9
    <3>2. \A x \in Keys : entries'[x] \in {entries[x], None}
        BY <2>1
    <3>3. QED
        BY <1>6, <2>3, <3>1, <3>2
  <2>5. UsedInv' /\ \A c \in Classes : Resident(c)' \subseteq Resident(c) \ {e}
      BY <1>9, <2>2, <2>3, GoneKeeps
  <2>6. RingInv'
    <3>1. ASSUME NEW c \in Classes, NEW x \in Resident(c)'
          PROVE  Slots(ring'[c], x) + Cardinality(Handling(x)') = 1
      <4>1. x \in Resident(c) /\ x \in Fetches \ {e}
          BY <1>5, <2>5
      <4>2. Handling(x)' = Handling(x) /\ ring' = ring
          BY <1>9, <2>4, <4>1
      <4>3. QED
          BY <1>5, <4>1, <4>2
    <3>2. \A c \in Classes : \A x \in ToSet(ring'[c]) : ClassOf[KeyOf[x]] = c
        BY <1>9 DEF CacheInv, RingInv
    <3>3. QED
        BY <3>1, <3>2 DEF RingInv
  <2>7. QED
      BY <2>3, <2>4, <2>5, <2>6 DEF CacheInv
<1>10. QED
    BY <1>2, <1>7, <1>8, <1>9, CheckIs

\* The threads do not move, and what is registered, resident or in a ring only goes.
LEMMA OnlyGoes ==
    ASSUME CacheInv,
           \A k \in Keys : loading'[k] \in {loading[k], None} /\ entries'[k] \in {entries[k], None},
           \A c \in Classes : ToSet(ring'[c]) \subseteq ToSet(ring[c]),
           UNCHANGED <<flight, fetch, queue, th>>
    PROVE  ThreadInv' /\ LoadInv' /\ \A x : Handling(x)' = Handling(x)
<1>1. ThreadInv'
    BY DEF CacheInv, ThreadInv, FreeThread
<1>2. \A x : Handling(x)' = Handling(x) /\ (Carried(x) => Carried(x)')
    BY DEF Handling, Carried
<1>3. \A x \in Fetches : x # None /\ KeyOf[x] \in Keys
    BY ResidentIs DEF CacheInv
<1>4. \A x \in Fetches : Unplaced(x) => Unplaced(x)'
  <2>1. ASSUME NEW x \in Fetches, Unplaced(x) PROVE Unplaced(x)'
    <3>1. /\ entries[KeyOf[x]] # x /\ Handling(x) = {}
          /\ \A d \in Classes : x \notin ToSet(ring[d])
        BY <2>1 DEF Unplaced
    <3>2. entries'[KeyOf[x]] # x /\ \A d \in Classes : x \notin ToSet(ring'[d])
        BY <1>3, <3>1
    <3>3. QED
        BY <1>2, <3>1, <3>2 DEF Unplaced
  <2>2. QED
      BY <2>1
<1>5. \A k \in Keys : loading'[k] # None => loading'[k] = loading[k] /\ entries'[k] = None
    BY DEF CacheInv, LoadInv
<1>6. \A x \in ToSet(queue') : fetch'[x].state # "idle"
    BY DEF CacheInv, LoadInv
<1>7. ASSUME NEW s \in Threads, th'[s].at \in {"ring", "complete", "completeInserted"}
      PROVE  loading'[KeyOf[th'[s].load]] # th'[s].load
  <2>1. th[s].load \in Fetches /\ loading[KeyOf[th[s].load]] # th[s].load
      BY <1>7 DEF CacheInv, ThreadInv, LoadInv
  <2>2. QED
      BY <1>3, <2>1
<1>8. LoadInv'
    BY <1>2, <1>4, <1>5, <1>6, <1>7, LoadsKeep
<1>9. QED
    BY <1>1, <1>2, <1>8

LEMMA InvalidateFileKeeps ==
    ASSUME CacheInv, NEW k \in Keys, InvalidateFile(k)
    PROVE  CacheInv'
<1>1. /\ loading' = [loading EXCEPT ![k] = None] /\ entries' = [entries EXCEPT ![k] = None]
      /\ UNCHANGED <<flight, entry, fetch, queue, th, warm>>
    BY DEF InvalidateFile
<1>2. /\ ring \in [Classes -> Seq(Fetches)] /\ used \in [Classes -> Int]
      /\ DOMAIN entries = Keys /\ DOMAIN loading = Keys
      /\ \A x \in Keys : entries[x] # None => entries[x] \in Fetches /\ KeyOf[entries[x]] = x
      /\ \A x \in Keys : loading[x] # None => loading[x] \in Fetches /\ KeyOf[loading[x]] = x
    BY DEF CacheInv, TypeInv
<1>3. /\ DOMAIN entries' = Keys /\ DOMAIN loading' = Keys
      /\ \A x \in Keys : entries'[x] \in {entries[x], None} /\ loading'[x] \in {loading[x], None}
      /\ \A x \in Keys : entries'[x] # None => entries'[x] \in Fetches /\ KeyOf[entries'[x]] = x
      /\ \A x \in Keys : loading'[x] # None => loading'[x] \in Fetches /\ KeyOf[loading'[x]] = x
  <2>1. \A x \in Keys : entries'[x] \in {entries[x], None} /\ loading'[x] \in {loading[x], None}
      BY <1>1, <1>2
  <2>2. QED
      BY <1>1, <1>2, <2>1
<1>4. ASSUME ring' \in [Classes -> Seq(Fetches)], used' \in [Classes -> Int],
             \A c \in Classes : ToSet(ring'[c]) \subseteq ToSet(ring[c])
      PROVE  TypeInv' /\ ThreadInv' /\ LoadInv' /\ \A x : Handling(x)' = Handling(x)
  <2>1. TypeInv'
      BY <1>1, <1>3, <1>4 DEF CacheInv, TypeInv
  <2>2. QED
      BY <1>1, <1>3, <1>4, <2>1, OnlyGoes
<1>5. CASE entries[k] = None
  <2>1. ring' = ring /\ used' = used
      BY <1>5 DEF InvalidateFile
  <2>2. \A x \in Keys : entries'[x] = entries[x]
      BY <1>1, <1>2, <1>5
  <2>3. TypeInv' /\ ThreadInv' /\ LoadInv' /\ \A x : Handling(x)' = Handling(x)
      BY <1>2, <1>4, <2>1
  <2>4. RingInv' /\ UsedInv'
      BY <1>1, <2>1, <2>2, <2>3, SamePlaces DEF CacheInv
  <2>5. QED
      BY <2>3, <2>4 DEF CacheInv
<1>6. CASE entries[k] # None
  <2>1. entries[k] \in Fetches
      BY <1>2, <1>6
  <2>2. PICK e \in Fetches : e = entries[k]
      BY <2>1
  <2>3. KeyOf[e] = k /\ entries[KeyOf[e]] = e
      BY <1>2, <1>6, <2>2
  <2> DEFINE dead == {x \in Fetches : entries'[KeyOf[x]] # x /\ \A t \in Threads : th[t].cand # x}
  <2>4. used' = [used EXCEPT ![ClassOf[KeyOf[e]]] = used[ClassOf[KeyOf[e]]] - ChargeOf(e)]
      BY <1>2, <1>6, <2>2, <2>3 DEF InvalidateFile
  <2>5. ring' = [c \in Classes |-> Retained(ring[c], dead)]
      BY <1>6 DEF InvalidateFile
  <2>6. \A x \in Fetches : entries'[KeyOf[x]] = x => x \notin dead
      OBVIOUS
  <2> HIDE DEF dead
  <2>7. \A c \in Classes : /\ ring'[c] \in Seq(Fetches) /\ ToSet(ring'[c]) \subseteq ToSet(ring[c])
                           /\ \A x \in Fetches \ dead : Slots(ring'[c], x) = Slots(ring[c], x)
    <3>1. ASSUME NEW c \in Classes
          PROVE  /\ ring'[c] \in Seq(Fetches) /\ ToSet(ring'[c]) \subseteq ToSet(ring[c])
                 /\ \A x \in Fetches \ dead : Slots(ring'[c], x) = Slots(ring[c], x)
      <4>1. ring'[c] = Retained(ring[c], dead) /\ ring[c] \in Seq(Fetches)
          BY <1>2, <2>5
      <4>2. QED
          BY <4>1, RetainedIs
    <3>2. QED
        BY <3>1
  <2>8. ring' \in [Classes -> Seq(Fetches)]
      BY <2>5, <2>7
  <2>9. used' \in [Classes -> Int]
      BY <1>1, <2>3, <2>4, GoneIs DEF CacheInv
  <2>10. TypeInv' /\ ThreadInv' /\ LoadInv' /\ \A x : Handling(x)' = Handling(x)
      BY <1>4, <2>7, <2>8, <2>9
  <2>11. UsedInv' /\ \A c \in Classes : Resident(c)' \subseteq Resident(c) \ {e}
      BY <1>1, <2>3, <2>4, <2>10, GoneKeeps
  <2>12. RingInv'
    <3>1. ASSUME NEW c \in Classes, NEW x \in Resident(c)'
          PROVE  Slots(ring'[c], x) + Cardinality(Handling(x)') = 1
      <4>1. x \in Resident(c) /\ x \in Fetches /\ entries'[KeyOf[x]] = x
          BY <2>10, <2>11, ResidentNext
      <4>2. Slots(ring'[c], x) = Slots(ring[c], x)
          BY <2>6, <2>7, <4>1
      <4>3. Handling(x)' = Handling(x) /\ Slots(ring[c], x) + Cardinality(Handling(x)) = 1
          BY <2>10, <4>1 DEF CacheInv, RingInv
      <4>4. QED
          BY <4>2, <4>3
    <3>2. \A c \in Classes : \A x \in ToSet(ring'[c]) : ClassOf[KeyOf[x]] = c
        BY <2>7 DEF CacheInv, RingInv
    <3>3. QED
        BY <3>1, <3>2 DEF RingInv
  <2>13. QED
      BY <2>10, <2>11, <2>12 DEF CacheInv
<1>7. QED
    BY <1>5, <1>6

\* What a decoded form changes: a mark, and the charge of the entry that its key has by now.
LEMMA DecodeIs ==
    ASSUME CacheInv, NEW f \in Fetches, Decode(f)
    PROVE  /\ th[Aux].at = "free" /\ Aux \in Threads
           /\ th' = th \/ th' = [th EXCEPT ![Aux] = [FreeThread EXCEPT !.at = "resume"]]
           /\ entry' \in [Fetches -> [decoded : BOOLEAN, charged : BOOLEAN, referenced : BOOLEAN]]
           /\ UNCHANGED <<entries, loading, flight, fetch, ring, queue, warm>>
           /\ \/ used' = used /\ \A x \in Fetches : entry'[x].charged = entry[x].charged
              \/ \E e \in Fetches :
                   /\ entries[KeyOf[e]] = e /\ ~entry[e].charged /\ entry'[e].charged
                   /\ \A x \in Fetches \ {e} : entry'[x].charged = entry[x].charged
                   /\ used' = [used EXCEPT ![ClassOf[KeyOf[e]]] = used[ClassOf[KeyOf[e]]] + Extra[KeyOf[e]]]
<1> DEFINE k == KeyOf[f]
           b == fetch[f].bytes
           decoded == [entry EXCEPT ![b].decoded = TRUE]
           Entries == [Fetches -> [decoded : BOOLEAN, charged : BOOLEAN, referenced : BOOLEAN]]
           e == entries[k]
           charges == e # None /\ decoded[e].decoded /\ ~decoded[e].charged
<1>1. /\ th[Aux].at = "free"
      /\ entry' = IF charges THEN [decoded EXCEPT ![e].charged = TRUE] ELSE decoded
      /\ used' = IF charges THEN [used EXCEPT ![ClassOf[k]] = @ + Extra[k]] ELSE used
      /\ th' = IF charges /\ Extra[k] > 0
                THEN [th EXCEPT ![Aux] = [FreeThread EXCEPT !.at = "resume"]] ELSE th
      /\ UNCHANGED <<entries, loading, flight, fetch, ring, queue, warm>>
    BY DEF Decode
<1>2. /\ entry \in Entries /\ used \in [Classes -> Int] /\ k \in Keys /\ ClassOf[k] \in Classes
      /\ e # None => e \in Fetches /\ KeyOf[e] = k
    BY ResidentIs DEF CacheInv, TypeInv
<1>3. decoded \in Entries /\ \A x \in Fetches : decoded[x].charged = entry[x].charged
  <2> DEFINE y == b
  <2>1. decoded = [entry EXCEPT ![y].decoded = TRUE]
      OBVIOUS
  <2> HIDE DEF b, y, decoded
  <2>2. CASE y \in Fetches
      BY <1>2, <2>1, <2>2
  <2>3. CASE y \notin Fetches
    <3>1. decoded = entry
        BY <1>2, <2>1, <2>3
    <3>2. QED
        BY <1>2, <3>1
  <2>4. QED
      BY <2>2, <2>3
<1>4. th' = th \/ th' = [th EXCEPT ![Aux] = [FreeThread EXCEPT !.at = "resume"]]
    BY <1>1
<1> HIDE DEF decoded
<1>5. CASE ~charges
  <2>1. used' = used /\ entry' = decoded
      BY <1>1, <1>5
  <2>2. QED
      BY <1>1, <1>3, <1>4, <2>1, ThreadsAre
<1>6. CASE charges
  <2>1. /\ used' = [used EXCEPT ![ClassOf[k]] = used[ClassOf[k]] + Extra[k]]
        /\ entry' = [decoded EXCEPT ![e].charged = TRUE]
      BY <1>1, <1>2, <1>6
  <2>2. e \in Fetches /\ KeyOf[e] = k /\ entries[KeyOf[e]] = e /\ ~decoded[e].charged
      BY <1>2, <1>6
  <2>3. PICK g \in Fetches : g = e
      BY <2>2
  <2> HIDE DEF e, charges
  <2>4. /\ entry' \in Entries /\ entry'[g].charged
        /\ \A x \in Fetches \ {g} : entry'[x].charged = entry[x].charged
      BY <1>3, <2>1, <2>3
  <2>5. ~entry[g].charged
      BY <1>3, <2>2, <2>3
  <2>6. /\ entries[KeyOf[g]] = g
        /\ used' = [used EXCEPT ![ClassOf[KeyOf[g]]] = used[ClassOf[KeyOf[g]]] + Extra[KeyOf[g]]]
      BY <2>1, <2>2, <2>3
  <2>7. QED
      BY <1>1, <1>4, <2>4, <2>5, <2>6, ThreadsAre
<1>7. QED
    BY <1>5, <1>6

LEMMA DecodeKeeps ==
    ASSUME CacheInv, NEW f \in Fetches, Decode(f)
    PROVE  CacheInv'
<1>1. /\ th[Aux].at = "free" /\ Aux \in Threads
      /\ th' = th \/ th' = [th EXCEPT ![Aux] = [FreeThread EXCEPT !.at = "resume"]]
      /\ entry' \in [Fetches -> [decoded : BOOLEAN, charged : BOOLEAN, referenced : BOOLEAN]]
      /\ UNCHANGED <<entries, loading, flight, fetch, ring, queue, warm>>
      /\ \/ used' = used /\ \A x \in Fetches : entry'[x].charged = entry[x].charged
         \/ \E e \in Fetches :
              /\ entries[KeyOf[e]] = e /\ ~entry[e].charged /\ entry'[e].charged
              /\ \A x \in Fetches \ {e} : entry'[x].charged = entry[x].charged
              /\ used' = [used EXCEPT ![ClassOf[KeyOf[e]]] = used[ClassOf[KeyOf[e]]] + Extra[KeyOf[e]]]
    BY DecodeIs
<1>2. ThreadInv' /\ (\A s \in Threads : Beside(s))
  <2>1. CASE th' = th
      BY <2>1 DEF CacheInv, ThreadInv, Beside, FreeThread
  <2>2. CASE th' = [th EXCEPT ![Aux] = [FreeThread EXCEPT !.at = "resume"]]
    <3> DEFINE new == [FreeThread EXCEPT !.at = "resume"]
    <3>1. /\ DOMAIN FreeThread \subseteq DOMAIN new /\ new.at = "resume" /\ new.load = None /\ new.fetch = None
          /\ new.cand = None /\ new.lap = 0 /\ new.visits = 0
        BY DEF FreeThread
    <3>2. th' = [th EXCEPT ![Aux] = new]
        BY <2>2
    <3> HIDE DEF new
    <3>3. ThreadInv' /\ th'[Aux] = new /\ \A s \in Threads \ {Aux} : th'[s] = th[s]
      <4>1. ThreadInv /\ Aux \in Threads
          BY <1>1 DEF CacheInv
      <4>2. /\ new.load \in Fetches \cup {None} /\ new.fetch \in Fetches \cup {None} /\ new.cand \in Fetches \cup {None}
            /\ new.at \in Ats /\ (new.cand # None <=> new.at = "check") /\ new.lap \in Nat /\ new.visits \in Nat
            /\ new.at \notin {"hand", "check", "load", "finish", "ring", "complete", "completeInserted"}
          BY <3>1 DEF Ats
      <4>3. QED
          BY <3>1, <3>2, <4>1, <4>2, ThreadSet
    <3>4. \A s \in Threads : Beside(s)
        BY <1>1, <3>1, <3>3 DEF Beside
    <3>5. QED
        BY <3>3, <3>4
  <2>3. QED
      BY <1>1, <2>1, <2>2
<1>3. used \in [Classes -> Int] /\ \A x \in Fetches : /\ KeyOf[x] \in Keys /\ ClassOf[KeyOf[x]] \in Classes
                                                      /\ Charge[KeyOf[x]] \in Nat /\ Extra[KeyOf[x]] \in Nat
  <2>1. \A x \in Fetches : KeyOf[x] \in Keys /\ ClassOf[KeyOf[x]] \in Classes
      BY ResidentIs DEF CacheInv
  <2>2. QED
      BY <2>1, CacheAssumption DEF CacheInv, TypeInv
<1>4. ASSUME used' \in [Classes -> Int]
      PROVE  TypeInv' /\ LoadInv' /\ \A x \in Fetches : Handling(x)' = Handling(x)
  <2>1. TypeInv'
      BY <1>1, <1>4 DEF CacheInv, TypeInv
  <2>2. \A x \in Fetches : Handling(x)' = Handling(x) /\ (Carried(x) => Carried(x)')
      BY <1>1, <1>2, BesideHolds DEF CacheInv
  <2>3. \A x \in Fetches : Unplaced(x) => Unplaced(x)'
      BY <1>1, <2>2 DEF Unplaced
  <2>4. \A k \in Keys : loading'[k] # None => loading'[k] = loading[k] /\ entries'[k] = None
      BY <1>1 DEF CacheInv, LoadInv
  <2>5. \A x \in ToSet(queue') : fetch'[x].state # "idle"
      BY <1>1 DEF CacheInv, LoadInv
  <2>6. \A s \in Threads : /\ th'[s].load \in {th[s].load, None}
                           /\ th'[s].at \in {"ring", "complete", "completeInserted"} => th'[s] = th[s]
      BY <1>2 DEF Beside
  <2>7. \A s \in Threads : th'[s].at \in {"ring", "complete", "completeInserted"} =>
              loading'[KeyOf[th'[s].load]] # th'[s].load
      BY <1>1, <2>6 DEF CacheInv, LoadInv
  <2>8. LoadInv'
      BY <1>1, <2>2, <2>3, <2>4, <2>5, <2>6, <2>7, LoadsKeep
  <2>9. QED
      BY <2>1, <2>2, <2>8
<1>5. CASE used' = used /\ \A x \in Fetches : entry'[x].charged = entry[x].charged
  <2>1. TypeInv' /\ LoadInv' /\ \A x \in Fetches : Handling(x)' = Handling(x)
      BY <1>3, <1>4, <1>5
  <2>2. RingInv' /\ UsedInv'
      BY <1>1, <1>5, <2>1, SamePlaces DEF CacheInv
  <2>3. QED
      BY <1>2, <2>1, <2>2 DEF CacheInv
<1>6. CASE \E e \in Fetches :
              /\ entries[KeyOf[e]] = e /\ ~entry[e].charged /\ entry'[e].charged
              /\ \A x \in Fetches \ {e} : entry'[x].charged = entry[x].charged
              /\ used' = [used EXCEPT ![ClassOf[KeyOf[e]]] = used[ClassOf[KeyOf[e]]] + Extra[KeyOf[e]]]
  <2>1. PICK e \in Fetches :
              /\ entries[KeyOf[e]] = e /\ ~entry[e].charged /\ entry'[e].charged
              /\ \A x \in Fetches \ {e} : entry'[x].charged = entry[x].charged
              /\ used' = [used EXCEPT ![ClassOf[KeyOf[e]]] = used[ClassOf[KeyOf[e]]] + Extra[KeyOf[e]]]
      BY <1>6
  <2> DEFINE d == ClassOf[KeyOf[e]]
             x == Extra[KeyOf[e]]
  <2>2. ChargeOf(e) \in Nat /\ ChargeOf(e)' = ChargeOf(e) + x
    <3>1. ChargeOf(e) = Charge[KeyOf[e]] + 0 /\ ChargeOf(e)' = Charge[KeyOf[e]] + x
        BY <2>1 DEF ChargeOf
    <3>2. Charge[KeyOf[e]] \in Nat /\ x \in Nat
        BY <1>3
    <3>3. QED
        BY <3>1, <3>2
  <2>3. d \in Classes /\ x \in Int
      BY <1>3
  <2>4. used' = [used EXCEPT ![d] = used[d] + x]
      BY <2>1
  <2>5. used' \in [Classes -> Int] /\ \A c \in Classes : used'[c] = used[c] + IF c = d THEN x ELSE 0
    <3> HIDE DEF d, x
    <3>0. used[d] \in Int
        BY <1>3, <2>3
    <3> DEFINE v == used[d] + x
    <3>1. v \in Int
        BY <2>3, <3>0
    <3>2. used' = [used EXCEPT ![d] = v]
        BY <2>4
    <3> HIDE DEF v
    <3>3. used' \in [Classes -> Int] /\ used'[d] = v /\ \A c \in Classes \ {d} : used'[c] = used[c]
        BY <1>3, <2>3, <3>1, <3>2
    <3>4. \A c \in Classes \ {d} : used'[c] = used[c] + 0
        BY <1>3, <3>3
    <3>5. QED
        BY <3>3, <3>4 DEF v
  <2>6. TypeInv' /\ LoadInv' /\ \A y \in Fetches : Handling(y)' = Handling(y)
      BY <1>4, <2>5
  <2>7. \A c \in Classes : /\ Resident(c)' = Resident(c) /\ Resident(c) \subseteq Fetches
                           /\ (e \in Resident(c) <=> c = d)
    <3>1. \A c \in Classes : Resident(c)' = Resident(c)
        BY <1>1 DEF Resident
    <3>2. QED
        BY <2>1, <3>1, ResidentIs DEF CacheInv
  <2>8. RingInv'
      BY <1>1, <2>6, <2>7 DEF CacheInv, RingInv
  <2>9. UsedInv'
    <3>1. ASSUME NEW c \in Classes PROVE used'[c] = Total(Charges', Resident(c)')
      <4> DEFINE T == Total(Charges, Resident(c))
                 V == Total(Charges', Resident(c)')
                 U == ChargeOf(e)
      <4>1. /\ T \in Int
            /\ V = T + (IF e \in Resident(c)' THEN ChargeOf(e)' ELSE 0) - (IF e \in Resident(c) THEN U ELSE 0)
          BY <2>1, <2>6, <2>7, TotalNext DEF CacheInv
      <4>2. used[c] = T
          BY DEF CacheInv, UsedInv
      <4>3. (IF e \in Resident(c)' THEN ChargeOf(e)' ELSE 0) = (IF c = d THEN U + x ELSE 0)
          BY <2>2, <2>7
      <4>4. (IF e \in Resident(c) THEN U ELSE 0) = (IF c = d THEN U ELSE 0)
          BY <2>7
      <4>5. U \in Int
          BY <2>2
      <4>6. used'[c] = T + IF c = d THEN x ELSE 0
          BY <2>5, <4>2
      <4>7. V = T + (IF c = d THEN U + x ELSE 0) - (IF c = d THEN U ELSE 0)
          BY <4>1, <4>3, <4>4
      <4> HIDE DEF T, U, V, x, d
      <4>8. used'[c] = V
          BY <2>3, <4>1, <4>5, <4>6, <4>7
      <4>9. QED
          BY <4>8 DEF V
    <3>2. QED
        BY <3>1 DEF UsedInv
  <2>10. QED
      BY <1>2, <2>6, <2>8, <2>9 DEF CacheInv
<1>7. QED
    BY <1>1, <1>5, <1>6

-----------------------------------------------------------------------------
(* Lookups, and the I/O pool. *)

\* What a lookup finds and changes.
LEMMA LookupIs ==
    ASSUME TypeInv, NEW f \in Fetches, NEW mode, NEW stored, Lookup(f, mode, stored)
    PROVE  /\ DOMAIN loading' = Keys
           /\ \A k \in Keys : loading'[k] # None => loading'[k] \in Fetches /\ KeyOf[loading'[k]] = k
           /\ DOMAIN flight' = Fetches
           /\ \A e \in Fetches : {"state", "stored", "registered"} \subseteq DOMAIN flight'[e]
           /\ entry' \in [Fetches -> [decoded : BOOLEAN, charged : BOOLEAN, referenced : BOOLEAN]]
           /\ \A e \in Fetches : entry'[e].charged = entry[e].charged
           /\ \/ /\ LookupOf(f, mode) \in {"hit", "join"} /\ loading' = loading /\ flight' = flight
              \/ /\ LookupOf(f, mode) \in {"lead", "private"} /\ entries[KeyOf[f]] = None
                 /\ flight'[f].state = "pending" /\ flight'[f].stored = stored
                 /\ \A e \in Fetches \ {f} : flight'[e] = flight[e]
                 /\ \/ loading' = loading
                    \/ loading' = [loading EXCEPT ![KeyOf[f]] = f] /\ flight'[f].registered
<1> DEFINE k == KeyOf[f]
           found == LookupOf(f, mode)
           Entries == [Fetches -> [decoded : BOOLEAN, charged : BOOLEAN, referenced : BOOLEAN]]
<1>1. /\ entry' = IF found = "hit" /\ mode = "normal"
                  THEN [entry EXCEPT ![entries[k]].referenced = TRUE] ELSE entry
      /\ loading' = IF found = "lead" THEN [loading EXCEPT ![k] = f] ELSE loading
      /\ flight' = IF found \in {"lead", "private"}
                   THEN [flight EXCEPT ![f] = [state |-> "pending", stored |-> stored, registered |-> found = "lead"]]
                   ELSE flight
    BY DEF Lookup
<1>2. /\ found \in {"hit", "join", "lead", "private"}
      /\ found = "hit" => entries[k] # None
      /\ found \in {"lead", "private"} => entries[k] = None
    BY DEF LookupOf
<1>3. /\ k \in Keys /\ DOMAIN loading = Keys /\ DOMAIN flight = Fetches /\ entry \in Entries
      /\ \A x \in Keys : loading[x] # None => loading[x] \in Fetches /\ KeyOf[loading[x]] = x
      /\ \A x \in Fetches : {"state", "stored", "registered"} \subseteq DOMAIN flight[x]
      /\ entries[k] # None => entries[k] \in Fetches
    BY ResidentIs DEF TypeInv
<1> HIDE DEF found
<1>4. entry' \in Entries /\ \A e \in Fetches : entry'[e].charged = entry[e].charged
  <2>1. CASE found = "hit" /\ mode = "normal"
    <3>1. entries[k] \in Fetches
        BY <1>2, <1>3, <2>1
    <3>2. PICK g \in Fetches : g = entries[k]
        BY <3>1
    <3>3. entry' = [entry EXCEPT ![g].referenced = TRUE]
        BY <1>1, <2>1, <3>2
    <3>4. entry'[g] \in [decoded : BOOLEAN, charged : BOOLEAN, referenced : BOOLEAN] /\ entry'[g].charged = entry[g].charged
      <4>1. entry[g] \in [decoded : BOOLEAN, charged : BOOLEAN, referenced : BOOLEAN]
          BY <1>3
      <4>2. entry'[g] = [entry[g] EXCEPT !.referenced = TRUE]
          BY <1>3, <3>3
      <4>3. QED
          BY <4>1, <4>2
    <3>5. \A e \in Fetches \ {g} : entry'[e] = entry[e]
        BY <1>3, <3>3
    <3>6. DOMAIN entry' = Fetches /\ entry' = [e \in Fetches |-> entry'[e]]
        BY <1>3, <3>3
    <3>7. \A e \in Fetches : entry'[e] \in [decoded : BOOLEAN, charged : BOOLEAN, referenced : BOOLEAN]
        BY <1>3, <3>4, <3>5
    <3>8. QED
        BY <3>4, <3>5, <3>6, <3>7
  <2>2. CASE ~(found = "hit" /\ mode = "normal")
      BY <1>1, <1>3, <2>2
  <2>3. QED
      BY <2>1, <2>2
<1>5. CASE found \in {"hit", "join"}
  <2>1. loading' = loading /\ flight' = flight
      BY <1>1, <1>5
  <2>2. QED
      BY <1>3, <1>4, <1>5, <2>1 DEF found
<1>6. CASE found \in {"lead", "private"}
  <2> DEFINE new == [state |-> "pending", stored |-> stored, registered |-> found = "lead"]
  <2>1. flight' = [flight EXCEPT ![f] = new]
      BY <1>1, <1>6
  <2>2. new.state = "pending" /\ new.stored = stored /\ (found = "lead" => new.registered)
        /\ {"state", "stored", "registered"} \subseteq DOMAIN new
      OBVIOUS
  <2> HIDE DEF new
  <2>3. /\ DOMAIN flight' = Fetches /\ flight'[f] = new /\ \A e \in Fetches \ {f} : flight'[e] = flight[e]
      BY <1>3, <2>1
  <2>4. \A e \in Fetches : {"state", "stored", "registered"} \subseteq DOMAIN flight'[e]
      BY <1>3, <2>2, <2>3
  <2>5. CASE found = "lead"
    <3>1. loading' = [loading EXCEPT ![k] = f]
        BY <1>1, <2>5
    <3>2. /\ DOMAIN loading' = Keys
          /\ \A x \in Keys : loading'[x] # None => loading'[x] \in Fetches /\ KeyOf[loading'[x]] = x
        BY <1>3, <3>1
    <3>3. QED
        BY <1>2, <1>4, <1>6, <2>2, <2>3, <2>4, <2>5, <3>1, <3>2 DEF found
  <2>6. CASE found # "lead"
    <3>1. loading' = loading
        BY <1>1, <2>6
    <3>2. QED
        BY <1>2, <1>3, <1>4, <1>6, <2>2, <2>3, <2>4, <3>1 DEF found
  <2>7. QED
      BY <2>5, <2>6
<1>7. QED
    BY <1>2, <1>5, <1>6

\* A fetch that has looked its unit up: it may have registered its load, which is carried from then on.
LEMMA LookedUp ==
    ASSUME CacheInv, TypeInv', ThreadInv', NEW f \in Fetches,
           fetch'[f].state \notin Idle, \A e \in Fetches \ {f} : fetch'[e].state = fetch[e].state,
           entries' = entries, ring' = ring, used' = used,
           \A e \in Fetches : entry'[e].charged = entry[e].charged,
           \A e \in Fetches : Handling(e)' = Handling(e),
           \A e \in Fetches : e = loading[KeyOf[e]] =>
              /\ flight'[e].registered = flight[e].registered
              /\ flight'[e].state = flight[e].state
              /\ Carried(e) => Carried(e)',
           \/ loading' = loading
           \/ /\ loading' = [loading EXCEPT ![KeyOf[f]] = f]
              /\ fetch[f].state \in Idle /\ entries[KeyOf[f]] = None
              /\ flight'[f].registered /\ flight'[f].state = "pending" /\ Carried(f)',
           ToSet(queue') \subseteq ToSet(queue) \cup {f},
           \A s \in Threads : \/ th'[s].load \in {th[s].load, None, f}
                              \/ th'[s].load = loading[KeyOf[th'[s].load]],
           \A s \in Threads : th'[s].at \in {"ring", "complete", "completeInserted"} => th'[s] = th[s]
    PROVE  CacheInv'
<1>1. RingInv' /\ UsedInv'
    BY SamePlaces DEF CacheInv
<1>2. \A e \in Fetches : Unplaced(e) => Unplaced(e)'
    BY DEF Unplaced
<1>3. \A e \in Fetches : e # None /\ KeyOf[e] \in Keys
    BY ResidentIs DEF CacheInv
<1>4. \A e \in Fetches : fetch[e].state \in Idle =>
         Unplaced(e) /\ loading[KeyOf[e]] # e /\ \A s \in Threads : th[s].load # e
    BY DEF CacheInv, LoadInv
<1>5. DOMAIN loading = Keys /\ \A k \in Keys : loading[k] # None => loading[k] \in Fetches /\ KeyOf[loading[k]] = k
    BY DEF CacheInv, TypeInv
<1>6. \A k \in Keys : loading'[k] = loading[k] \/ /\ loading'[k] = f /\ k = KeyOf[f]
                                                  /\ fetch[f].state \in Idle /\ entries[KeyOf[f]] = None
                                                  /\ flight'[f].registered /\ flight'[f].state = "pending" /\ Carried(f)'
    BY <1>5
<1>7. ASSUME NEW k \in Keys, loading'[k] # None
      PROVE  /\ entries'[k] = None
             /\ flight'[loading'[k]].registered /\ flight'[loading'[k]].state = "pending"
             /\ Carried(loading[k])' /\ Unplaced(loading[k])'
  <2>0. PICK e : e = loading'[k]
      OBVIOUS
  <2>1. e \in Fetches /\ entries'[k] = None /\ flight'[e].registered /\ flight'[e].state = "pending"
        /\ Carried(e)' /\ Unplaced(e)'
    <3>1. CASE e = loading[k]
      <4>1. e \in Fetches /\ KeyOf[e] = k /\ e # None
          BY <1>5, <1>7, <2>0, <3>1
      <4>2. entries[k] = None /\ flight[e].registered /\ flight[e].state = "pending" /\ Carried(e) /\ Unplaced(e)
        <5>1. LoadInv
            BY DEF CacheInv
        <5>2. /\ entries[k] = None /\ flight[loading[k]].registered /\ flight[loading[k]].state = "pending"
              /\ Carried(loading[k]) /\ Unplaced(loading[k])
            BY <3>1, <4>1, <5>1 DEF LoadInv
        <5>3. QED
            BY <3>1, <5>2
      <4>3. QED
          BY <1>2, <3>1, <4>1, <4>2
    <3>2. CASE e # loading[k]
      <4>1. e = f /\ k = KeyOf[f] /\ fetch[f].state \in Idle /\ entries[KeyOf[f]] = None
            /\ flight'[f].registered /\ flight'[f].state = "pending"
          BY <1>6, <2>0, <3>2
      <4>2. Carried(f)'
          BY <1>6, <2>0, <3>2
      <4>3. Unplaced(f)'
          BY <1>2, <1>4, <4>1
      <4>4. Carried(e)' /\ Unplaced(e)'
          BY <4>1, <4>2, <4>3
      <4>5. QED
          BY <4>1, <4>4
    <3>3. QED
        BY <3>1, <3>2
  <2>2. Carried(loading[k])' /\ Unplaced(loading[k])'
      BY <2>0, <2>1 DEF Carried, Unplaced, Handling
  <2>3. QED
      BY <2>0, <2>1, <2>2
<1>8. ASSUME NEW e \in Fetches, fetch'[e].state \in Idle
      PROVE  Unplaced(e)' /\ loading'[KeyOf[e]] # e /\ \A s \in Threads : th'[s].load # e
  <2>1. e # f /\ fetch[e].state \in Idle
      BY <1>8
  <2>2. Unplaced(e) /\ loading[KeyOf[e]] # e /\ \A s \in Threads : th[s].load # e
      BY <1>4, <2>1
  <2>3. loading'[KeyOf[e]] # e
      BY <1>3, <1>6, <2>1, <2>2
  <2>4. \A s \in Threads : th'[s].load # e
      BY <1>3, <2>1, <2>2
  <2>5. QED
      BY <1>2, <2>2, <2>3, <2>4
<1>9. \A e \in ToSet(queue') : fetch'[e].state # "idle"
  <2>1. \A e \in ToSet(queue) : e \in Fetches /\ fetch[e].state # "idle"
      BY ElementOfSeq DEF CacheInv, TypeInv, LoadInv, ToSet
  <2>2. fetch'[f].state # "idle"
      BY DEF Idle
  <2>3. QED
      BY <2>1, <2>2
<1>10. ASSUME NEW s \in Threads, th'[s].at \in {"ring", "complete", "completeInserted"}
       PROVE  loading'[KeyOf[th'[s].load]] # th'[s].load
  <2>1. th'[s] = th[s] /\ th[s].load \in Fetches /\ loading[KeyOf[th[s].load]] # th[s].load
      BY <1>10 DEF CacheInv, LoadInv, ThreadInv
  <2>2. QED
      BY <1>3, <1>4, <1>6, <2>1
<1>11. LoadInv'
    BY <1>7, <1>8, <1>9, <1>10 DEF LoadInv
<1>12. QED
    BY <1>1, <1>11 DEF CacheInv

LEMMA StartAsyncKeeps ==
    ASSUME CacheInv, NEW f \in Fetches, NEW mode, StartAsync(f, mode),
           UNCHANGED <<entries, ring, used, th>>, warm' \in 0..Len(Warm)
    PROVE  CacheInv'
<1> DEFINE k == KeyOf[f]
           found == LookupOf(f, mode)
<1>1. /\ fetch[f].state = "idle" /\ Lookup(f, mode, TRUE)
      /\ queue' = IF found \in {"lead", "private"} THEN Append(queue, f) ELSE queue
    BY DEF StartAsync
<1>2. /\ DOMAIN fetch' = Fetches /\ fetch'[f].state \in {"holds", "waiting"}
      /\ \A e \in Fetches \ {f} : fetch'[e] = fetch[e]
      /\ \A e \in Fetches : {"state", "mode", "bytes", "on"} \subseteq DOMAIN fetch'[e]
  <2> DEFINE new == [state |-> IF found = "hit" THEN "holds" ELSE "waiting", mode |-> None,
                     bytes |-> IF found = "hit" THEN entries[k] ELSE None,
                     on |-> CASE found = "hit" -> None [] found = "join" -> loading[k]
                              [] OTHER -> f]
  <2>1. fetch' = [fetch EXCEPT ![f] = new]
      BY DEF StartAsync
  <2>2. new.state \in {"holds", "waiting"} /\ {"state", "mode", "bytes", "on"} \subseteq DOMAIN new
      OBVIOUS
  <2> HIDE DEF new
  <2>3. QED
      BY <2>1, <2>2 DEF CacheInv, TypeInv
<1>3. /\ queue \in Seq(Fetches) /\ queue' \in Seq(Fetches)
      /\ ToSet(queue) \subseteq ToSet(queue') /\ ToSet(queue') \subseteq ToSet(queue) \cup {f}
      /\ found \in {"lead", "private"} => f \in ToSet(queue')
  <2>1. queue \in Seq(Fetches)
      BY DEF CacheInv, TypeInv
  <2>2. Append(queue, f) \in Seq(Fetches) /\ ToSet(Append(queue, f)) = ToSet(queue) \cup {f}
      BY <2>1, SlotsAppend
  <2> HIDE DEF found
  <2>3. QED
      BY <1>1, <2>1, <2>2
<1>4. /\ DOMAIN loading' = Keys
      /\ \A x \in Keys : loading'[x] # None => loading'[x] \in Fetches /\ KeyOf[loading'[x]] = x
      /\ DOMAIN flight' = Fetches
      /\ \A e \in Fetches : {"state", "stored", "registered"} \subseteq DOMAIN flight'[e]
      /\ entry' \in [Fetches -> [decoded : BOOLEAN, charged : BOOLEAN, referenced : BOOLEAN]]
      /\ \A e \in Fetches : entry'[e].charged = entry[e].charged
      /\ \/ /\ found \in {"hit", "join"} /\ loading' = loading /\ flight' = flight
         \/ /\ found \in {"lead", "private"} /\ entries[KeyOf[f]] = None
            /\ flight'[f].state = "pending" /\ flight'[f].stored = TRUE
            /\ \A e \in Fetches \ {f} : flight'[e] = flight[e]
            /\ \/ loading' = loading
               \/ loading' = [loading EXCEPT ![KeyOf[f]] = f] /\ flight'[f].registered
    BY <1>1, LookupIs DEF CacheInv
<1> HIDE DEF found
<1>5. TypeInv'
    BY <1>2, <1>3, <1>4 DEF CacheInv, TypeInv
<1>6. ThreadInv'
    BY DEF CacheInv, ThreadInv, FreeThread
<1>7. \A e \in Fetches : Handling(e)' = Handling(e)
    BY DEF Handling
<1>8. loading[KeyOf[f]] # f
    BY <1>1 DEF CacheInv, LoadInv, Idle
<1>9. ASSUME NEW e \in Fetches, e = loading[KeyOf[e]]
      PROVE  /\ flight'[e].registered = flight[e].registered
             /\ flight'[e].state = flight[e].state
             /\ Carried(e) => Carried(e)'
  <2>1. flight'[e] = flight[e]
      BY <1>4, <1>8, <1>9
  <2>2. Carried(e) => Carried(e)'
      BY <1>3, <2>1 DEF Carried
  <2>3. QED
      BY <2>1, <2>2
<1>10. \/ loading' = loading
       \/ /\ loading' = [loading EXCEPT ![KeyOf[f]] = f]
          /\ fetch[f].state \in Idle /\ entries[KeyOf[f]] = None
          /\ flight'[f].registered /\ flight'[f].state = "pending" /\ Carried(f)'
  <2>1. fetch[f].state \in Idle
      BY <1>1 DEF Idle
  <2>2. found \in {"lead", "private"} /\ flight'[f].stored = TRUE => Carried(f)'
      BY <1>3 DEF Carried
  <2>3. QED
      BY <1>4, <2>1, <2>2
<1>11. fetch'[f].state \notin Idle
    BY <1>2 DEF Idle
<1>12. /\ \A s \in Threads : th'[s].load \in {th[s].load, None, f} \/ th'[s].load = loading[KeyOf[th'[s].load]]
       /\ \A s \in Threads : th'[s].at \in {"ring", "complete", "completeInserted"} => th'[s] = th[s]
    OBVIOUS
<1>13. QED
    BY <1>2, <1>3, <1>4, <1>5, <1>6, <1>7, <1>9, <1>10, <1>11, <1>12, LookedUp

LEMMA FetchAsyncKeeps ==
    ASSUME CacheInv, NEW f \in Fetches, FetchAsync(f)
    PROVE  CacheInv'
<1>1. PICK mode : StartAsync(f, mode)
    BY DEF FetchAsync
<1>2. UNCHANGED <<entries, ring, used, th, warm>>
    BY DEF FetchAsync
<1>3. warm' \in 0..Len(Warm)
    BY <1>2 DEF CacheInv, TypeInv
<1>4. QED
    BY <1>1, <1>2, <1>3, StartAsyncKeeps

\* The items that warm-up has considered are some of its list.
LEMMA WarmIs ==
    ASSUME warm \in 0..Len(Warm), WarmUp
    PROVE  /\ warm' \in 0..Len(Warm) /\ Warm[warm + 1] \in Fetches
           /\ UNCHANGED <<entries, ring, used, th>>
           /\ \/ StartAsync(Warm[warm + 1], "normal")
              \/ UNCHANGED <<entry, loading, flight, fetch, queue>>
<1> DEFINE f == Warm[warm + 1]
           inFlight == {g \in ToSet(Warm) : fetch[g].state = "waiting"}
           pending == FoldSet(LAMBDA g, n : n + Charge[KeyOf[g]], 0, inFlight)
           fits == UsedTotal + pending + Charge[KeyOf[f]] <= WarmLimit(budget)
           class == ClassOf[KeyOf[f]]
           Run == {i \in (warm + 1)..Len(Warm) :
                     \A j \in (warm + 1)..i : ClassOf[KeyOf[Warm[j]]] = class}
           next == IF fits THEN warm + 1 ELSE Max(Run)
<1>1. /\ warm < Len(Warm)
      /\ UNCHANGED <<entries, ring, used, th>>
      /\ \/ warm' = warm + 1 /\ UNCHANGED <<entry, loading, flight, fetch, queue>>
         \/ /\ warm' = next
            /\ StartAsync(f, "normal") \/ UNCHANGED <<entry, loading, flight, fetch, queue>>
    BY DEF WarmUp
<1>2. Len(Warm) \in Nat /\ Warm \in Seq(Fetches)
    BY CacheAssumption, LenProperties
<1>8. warm \in Nat /\ warm + 1 \in 1..Len(Warm) /\ warm + 1 \in 0..Len(Warm)
  <2> DEFINE m == Len(Warm)
  <2>1. warm \in 0..m /\ m \in Nat /\ warm < m
      BY <1>1, <1>2
  <2> HIDE DEF m
  <2>2. warm \in Nat /\ warm + 1 \in 1..m /\ warm + 1 \in 0..m
      BY <2>1
  <2>3. QED
      BY <2>2 DEF m
<1>3. f \in Fetches
    BY <1>2, <1>8, ElementOfSeq
<1>4. Run \subseteq 1..Len(Warm) /\ warm + 1 \in Run
  <2>1. \A j \in (warm + 1)..(warm + 1) : j = warm + 1
      BY <1>8
  <2>2. warm + 1 \in (warm + 1)..Len(Warm)
      BY <1>2, <1>8
  <2>3. \A i \in (warm + 1)..Len(Warm) : i \in 1..Len(Warm)
      BY <1>2, <1>8
  <2>4. warm + 1 \in Run
      BY <2>1, <2>2
  <2>5. QED
      BY <2>3, <2>4
<1> HIDE DEF Run
<1>5. Max(Run) \in Run
    BY <1>2, <1>4, LastRoundIs DEF LastRound
<1> HIDE DEF fits
<1>6. next \in 0..Len(Warm) /\ warm + 1 \in 0..Len(Warm)
  <2>1. Max(Run) \in 0..Len(Warm)
    <3>1. Max(Run) \in 1..Len(Warm)
        BY <1>4, <1>5
    <3>2. \A i \in 1..Len(Warm) : i \in 0..Len(Warm)
        BY <1>2
    <3>3. QED
        BY <3>1, <3>2
  <2>2. QED
      BY <1>8, <2>1
<1> HIDE DEF next, f
<1>7. QED
    BY <1>1, <1>3, <1>6 DEF f

LEMMA WarmUpKeeps ==
    ASSUME CacheInv, WarmUp
    PROVE  CacheInv'
<1>1. /\ warm' \in 0..Len(Warm) /\ Warm[warm + 1] \in Fetches
      /\ UNCHANGED <<entries, ring, used, th>>
      /\ \/ StartAsync(Warm[warm + 1], "normal")
         \/ UNCHANGED <<entry, loading, flight, fetch, queue>>
    BY WarmIs DEF CacheInv, TypeInv
<1>2. CASE StartAsync(Warm[warm + 1], "normal")
    BY <1>1, <1>2, StartAsyncKeeps
<1>3. CASE UNCHANGED <<entry, loading, flight, fetch, queue>>
  <2>1. TypeInv'
      BY <1>1, <1>3 DEF CacheInv, TypeInv
  <2>2. ThreadInv' /\ \A s \in Threads : Beside(s)
      BY <1>1 DEF CacheInv, ThreadInv, FreeThread, Beside
  <2>3. QED
      BY <1>1, <1>3, <2>1, <2>2, FetchEndsKeeps
<1>4. QED
    BY <1>1, <1>2, <1>3

\* A free thread takes a load up, to run it, to finish it or to wait for it.
TakesUp(t, new, e) ==
    /\ th[t].at = "free" /\ th' = [th EXCEPT ![t] = new]
    /\ DOMAIN FreeThread \subseteq DOMAIN new
    /\ new.at \in {"load", "finish", "waits"} /\ new.load = e
    /\ new.fetch \in Fetches \cup {None} /\ new.cand = None /\ new.lap \in Nat /\ new.visits \in Nat

LEMMA TakesUpIs ==
    ASSUME ThreadInv, NEW t \in Threads, NEW new, NEW e \in Fetches, TakesUp(t, new, e)
    PROVE  /\ ThreadInv' /\ th'[t] = new /\ \A s \in Threads \ {t} : th'[s] = th[s]
           /\ \A x \in Fetches : Handling(x)' = Handling(x)
           /\ \A x : \A s \in Threads : th[s].load = x /\ th[s].at \in {"load", "finish"}
                                          => th'[s].load = x /\ th'[s].at \in {"load", "finish"}
           /\ \A s \in Threads : th'[s].load \in {th[s].load, e}
           /\ \A s \in Threads : th'[s].at \in {"ring", "complete", "completeInserted"} => th'[s] = th[s]
<1>1. /\ th[t].at = "free" /\ th' = [th EXCEPT ![t] = new]
      /\ DOMAIN FreeThread \subseteq DOMAIN new
      /\ new.at \in {"load", "finish", "waits"} /\ new.load = e
      /\ new.fetch \in Fetches \cup {None} /\ new.cand = None /\ new.lap \in Nat /\ new.visits \in Nat
    BY DEF TakesUp
<1>2. \A x \in Fetches : x # None
    BY CacheAssumption
<1>3. ThreadInv' /\ th'[t] = new /\ \A s \in Threads \ {t} : th'[s] = th[s]
  <2>1. /\ new.load \in Fetches \cup {None} /\ new.load # None /\ new.cand \in Fetches \cup {None}
        /\ new.at \in Ats /\ (new.cand # None <=> new.at = "check") /\ new.at \notin {"hand", "check"}
      BY <1>1, <1>2 DEF Ats
  <2>2. QED
      BY <1>1, <2>1, ThreadSet
<1>4. th[t].cand = None
    BY <1>1 DEF ThreadInv
<1>5. ASSUME NEW x \in Fetches PROVE Handling(x)' = Handling(x)
  <2>1. /\ ~(th[t].cand = x \/ (th[t].load = x /\ th[t].at = "ring"))
        /\ ~(th'[t].cand = x \/ (th'[t].load = x /\ th'[t].at = "ring"))
      BY <1>1, <1>2, <1>3, <1>4
  <2>2. QED
      BY <1>3, <2>1, HandlingBut
<1>6. ASSUME NEW x, NEW s \in Threads, th[s].load = x, th[s].at \in {"load", "finish"}
      PROVE  th'[s].load = x /\ th'[s].at \in {"load", "finish"}
  <2>1. s # t
      BY <1>1, <1>6
  <2>2. QED
      BY <1>3, <1>6, <2>1
<1>7. \A s \in Threads : /\ th'[s].load \in {th[s].load, e}
                         /\ th'[s].at \in {"ring", "complete", "completeInserted"} => th'[s] = th[s]
    BY <1>1, <1>3
<1>8. QED
    BY <1>3, <1>5, <1>6, <1>7

\* A load whose loader is taken out of its flight.
LEMMA StoredGoes ==
    ASSUME TypeInv, NEW g \in Fetches, flight' = [flight EXCEPT ![g].stored = FALSE]
    PROVE  /\ DOMAIN flight' = Fetches
           /\ \A e \in Fetches : /\ {"state", "stored", "registered"} \subseteq DOMAIN flight'[e]
                                 /\ flight'[e].registered = flight[e].registered
                                 /\ flight'[e].state = flight[e].state
           /\ \A e \in Fetches \ {g} : flight'[e] = flight[e]
<1>1. DOMAIN flight = Fetches /\ \A e \in Fetches : {"state", "stored", "registered"} \subseteq DOMAIN flight[e]
    BY DEF TypeInv
<1>2. flight'[g] = [flight[g] EXCEPT !.stored = FALSE] /\ \A e \in Fetches \ {g} : flight'[e] = flight[e]
    BY <1>1
<1>3. /\ {"state", "stored", "registered"} \subseteq DOMAIN flight'[g]
      /\ flight'[g].registered = flight[g].registered /\ flight'[g].state = flight[g].state
    BY <1>1, <1>2
<1>4. QED
    BY <1>1, <1>2, <1>3

LEMMA JobTaken ==
    ASSUME CacheInv, NEW t \in Threads, NEW f \in Fetches, f \in ToSet(queue), fetch[f].state # "queued",
           queue' \in Seq(Fetches), ToSet(queue') \subseteq ToSet(queue), ToSet(queue) \subseteq ToSet(queue') \cup {f},
           flight' = [flight EXCEPT ![f].stored = FALSE],
           \/ flight[f].stored /\ \E new : TakesUp(t, new, f) /\ new.at # "waits"
           \/ ~flight[f].stored /\ th' = th,
           UNCHANGED <<entries, loading, entry, fetch, ring, used, warm>>
    PROVE  CacheInv'
<1>1. /\ DOMAIN flight' = Fetches
      /\ \A e \in Fetches : /\ {"state", "stored", "registered"} \subseteq DOMAIN flight'[e]
                            /\ flight'[e].registered = flight[e].registered
                            /\ flight'[e].state = flight[e].state
      /\ \A e \in Fetches \ {f} : flight'[e] = flight[e]
    BY StoredGoes DEF CacheInv
<1>2. TypeInv'
    BY <1>1 DEF CacheInv, TypeInv
<1>3. /\ ThreadInv' /\ \A x \in Fetches : Handling(x)' = Handling(x)
      /\ \A x : \A s \in Threads : th[s].load = x /\ th[s].at \in {"load", "finish"}
                                     => th'[s].load = x /\ th'[s].at \in {"load", "finish"}
      /\ \A s \in Threads : th'[s].load \in {th[s].load, f}
      /\ \A s \in Threads : th'[s].at \in {"ring", "complete", "completeInserted"} => th'[s] = th[s]
      /\ flight[f].stored => th'[t].load = f /\ th'[t].at \in {"load", "finish"}
  <2>1. CASE flight[f].stored
    <3>1. PICK new : TakesUp(t, new, f) /\ new.at # "waits"
        BY <2>1
    <3>2. new.load = f /\ new.at \in {"load", "finish"}
        BY <3>1 DEF TakesUp
    <3>3. QED
        BY <3>1, <3>2, TakesUpIs DEF CacheInv
  <2>2. CASE ~flight[f].stored
    <3>1. th' = th
        BY <2>2
    <3>2. ThreadInv'
        BY <3>1 DEF CacheInv, ThreadInv, FreeThread
    <3>3. \A x \in Fetches : Handling(x)' = Handling(x)
        BY <3>1 DEF Handling
    <3>4. QED
        BY <2>2, <3>1, <3>2, <3>3
  <2>3. QED
      BY <2>1, <2>2
<1>4. ASSUME NEW e \in Fetches PROVE Carried(e) => Carried(e)'
  <2>1. CASE \E s \in Threads : th[s].load = e /\ th[s].at \in {"load", "finish"}
      BY <1>3, <2>1 DEF Carried
  <2>2. CASE flight[e].stored /\ e \in ToSet(queue)
    <3>1. CASE e = f
        BY <1>3, <2>2, <3>1 DEF Carried
    <3>2. CASE e # f
        BY <1>1, <2>2, <3>2 DEF Carried
    <3>3. QED
        BY <3>1, <3>2
  <2>3. QED
      BY <2>1, <2>2 DEF Carried
<1>5. fetch[f].state \notin Idle
    BY DEF CacheInv, LoadInv, Idle
<1>6. QED
    BY <1>1, <1>2, <1>3, <1>4, <1>5, LookedUp

\* The queue without its first, or any other, of its jobs.
LEMMA QueueLess ==
    ASSUME TypeInv
    PROVE  /\ queue # <<>> =>
                /\ Head(queue) \in Fetches /\ Head(queue) \in ToSet(queue) /\ Tail(queue) \in Seq(Fetches)
                /\ ToSet(Tail(queue)) \subseteq ToSet(queue) /\ ToSet(queue) \subseteq ToSet(Tail(queue)) \cup {Head(queue)}
           /\ \A i \in DOMAIN queue :
                /\ queue[i] \in Fetches /\ queue[i] \in ToSet(queue) /\ RemoveAt(queue, i) \in Seq(Fetches)
                /\ ToSet(RemoveAt(queue, i)) \subseteq ToSet(queue)
                /\ ToSet(queue) \subseteq ToSet(RemoveAt(queue, i)) \cup {queue[i]}
<1>1. queue \in Seq(Fetches)
    BY DEF TypeInv
<1>2. ASSUME NEW i \in DOMAIN queue
      PROVE  /\ queue[i] \in Fetches /\ queue[i] \in ToSet(queue) /\ RemoveAt(queue, i) \in Seq(Fetches)
             /\ ToSet(RemoveAt(queue, i)) \subseteq ToSet(queue)
             /\ ToSet(queue) \subseteq ToSet(RemoveAt(queue, i)) \cup {queue[i]}
  <2> DEFINE m == Len(queue)
             front == SubSeq(queue, 1, i - 1)
             back == SubSeq(queue, i + 1, m)
             r == RemoveAt(queue, i)
  <2>1. m \in Nat /\ DOMAIN queue = 1..m /\ i \in 1..m /\ \A j \in 1..m : queue[j] \in Fetches
      BY <1>1, LenProperties, ElementOfSeq
  <2>2. r = front \o back
      BY DEF RemoveAt
  <2>3. /\ front \in Seq(Fetches) /\ Len(front) = i - 1 /\ \A j \in 1..(i - 1) : front[j] = queue[j]
    <3>1. \A j \in 1..(i - 1) : queue[j] \in Fetches
        BY <2>1
    <3>2. 1 \in Int /\ i - 1 \in Int /\ (i - 1 < 1 \/ i - 1 <= m)
        BY <2>1
    <3>3. front = [j \in 1..(i - 1) |-> queue[j]]
        BY <2>1
    <3>4. i - 1 \in Nat
        BY <2>1
    <3> HIDE DEF front
    <3>5. QED
        BY <3>1, <3>3, <3>4
  <2>4. /\ back \in Seq(Fetches) /\ Len(back) = m - i /\ \A j \in 1..(m - i) : back[j] = queue[j + i]
    <3>1. back = [j \in 1..(m - i) |-> queue[j + i]]
        BY <2>1
    <3>2. \A j \in 1..(m - i) : queue[j + i] \in Fetches
        BY <2>1
    <3>3. PICK n \in Nat : n = m - i
        BY <2>1
    <3> HIDE DEF back
    <3>4. back = [j \in 1..n |-> queue[j + i]] /\ \A j \in 1..n : queue[j + i] \in Fetches
        BY <3>1, <3>2, <3>3
    <3>5. back \in Seq(Fetches) /\ Len(back) = n /\ \A j \in 1..n : back[j] = queue[j + i]
        BY <3>4
    <3>6. QED
        BY <3>3, <3>5
  <2> HIDE DEF front, back, r
  <2>5. /\ r \in Seq(Fetches) /\ Len(r) = m - 1
        /\ \A j \in 1..(m - 1) : r[j] = IF j < i THEN queue[j] ELSE queue[j + 1]
    <3>1. /\ front \o back \in Seq(Fetches) /\ Len(front \o back) = Len(front) + Len(back)
          /\ \A j \in 1..Len(front) + Len(back) :
                (front \o back)[j] = IF j <= Len(front) THEN front[j] ELSE back[j - Len(front)]
        BY <2>3, <2>4, ConcatProperties
    <3>2. i - 1 + (m - i) = m - 1
        BY <2>1
    <3>3. r \in Seq(Fetches) /\ Len(r) = m - 1
        BY <2>2, <2>3, <2>4, <3>1, <3>2
    <3>4. ASSUME NEW j \in 1..(m - 1) PROVE r[j] = IF j < i THEN queue[j] ELSE queue[j + 1]
      <4>1. r[j] = IF j <= i - 1 THEN front[j] ELSE back[j - (i - 1)]
          BY <2>2, <2>3, <2>4, <3>1, <3>2
      <4>2. CASE j < i
        <5>1. j \in 1..(i - 1) /\ j <= i - 1
            BY <2>1, <4>2
        <5>2. QED
            BY <2>3, <4>1, <4>2, <5>1
      <4>3. CASE ~(j < i)
        <5>1. j - (i - 1) \in 1..(m - i) /\ ~(j <= i - 1) /\ j - (i - 1) + i = j + 1
            BY <2>1, <4>3
        <5>2. back[j - (i - 1)] = queue[j - (i - 1) + i]
            BY <2>4, <5>1
        <5>3. QED
            BY <4>1, <4>3, <5>1, <5>2
      <4>4. QED
          BY <4>2, <4>3
    <3>5. QED
        BY <3>3, <3>4
  <2>6. /\ ToSet(queue) = {queue[j] : j \in 1..m} /\ ToSet(r) = {r[j] : j \in 1..(m - 1)}
    <3>1. DOMAIN r = 1..(m - 1)
        BY <2>5, LenProperties
    <3>2. QED
        BY <2>1, <3>1 DEF ToSet
  <2>7. ASSUME NEW j \in 1..(m - 1) PROVE r[j] \in ToSet(queue)
    <3>1. j \in 1..m /\ j + 1 \in 1..m /\ r[j] \in {queue[j], queue[j + 1]}
        BY <2>1, <2>5
    <3>2. QED
        BY <2>6, <3>1
  <2>8. ASSUME NEW j \in 1..m PROVE queue[j] \in ToSet(r) \cup {queue[i]}
    <3>1. CASE j < i
      <4>1. j \in 1..(m - 1) /\ r[j] = queue[j]
          BY <2>1, <2>5, <3>1
      <4>2. QED
          BY <2>6, <4>1
    <3>2. CASE j > i
      <4>1. j - 1 \in 1..(m - 1) /\ r[j - 1] = queue[j - 1 + 1] /\ j - 1 + 1 = j
          BY <2>1, <2>5, <3>2
      <4>2. QED
          BY <2>6, <4>1
    <3>3. CASE j = i
        BY <3>3
    <3>4. QED
        BY <2>1, <3>1, <3>2, <3>3
  <2>9. QED
      BY <2>1, <2>5, <2>6, <2>7, <2>8 DEF r
<1>3. QED
    BY <1>1, <1>2, SlotsTail

LEMMA JobDroppedKeeps ==
    ASSUME CacheInv, JobDropped
    PROVE  CacheInv'
<1>1. PICK i \in DOMAIN queue :
         /\ fetch[queue[i]].state # "queued" /\ queue' = RemoveAt(queue, i)
         /\ flight' = [flight EXCEPT ![queue[i]].stored = FALSE]
         /\ th' = IF flight[queue[i]].stored
                  THEN [th EXCEPT ![Aux] = [FreeThread EXCEPT !.at = "finish", !.load = queue[i], !.result = "failed"]]
                  ELSE th
    BY DEF JobDropped
<1>2. th[Aux].at = "free" /\ Aux \in Threads /\ UNCHANGED <<entries, loading, entry, fetch, ring, used, warm>>
    BY ThreadsAre DEF JobDropped
<1>3. /\ queue[i] \in Fetches /\ queue[i] \in ToSet(queue) /\ queue' \in Seq(Fetches)
      /\ ToSet(queue') \subseteq ToSet(queue) /\ ToSet(queue) \subseteq ToSet(queue') \cup {queue[i]}
    BY <1>1, QueueLess DEF CacheInv
<1>4. PICK f \in Fetches : f = queue[i]
    BY <1>3
<1>5. flight[f].stored => \E new : TakesUp(Aux, new, f) /\ new.at # "waits"
  <2> SUFFICES ASSUME flight[f].stored PROVE \E new : TakesUp(Aux, new, f) /\ new.at # "waits"
      OBVIOUS
  <2> DEFINE new == [FreeThread EXCEPT !.at = "finish", !.load = f, !.result = "failed"]
  <2>1. th' = [th EXCEPT ![Aux] = new]
      BY <1>1, <1>4
  <2>2. /\ DOMAIN FreeThread \subseteq DOMAIN new /\ new.at = "finish" /\ new.load = f
        /\ new.fetch = None /\ new.cand = None /\ new.lap = 0 /\ new.visits = 0
      BY DEF FreeThread
  <2> WITNESS new
  <2> HIDE DEF new
  <2>3. QED
      BY <1>2, <2>1, <2>2 DEF TakesUp
<1>6. ~flight[f].stored => th' = th
    BY <1>1, <1>4
<1>7. QED
    BY <1>1, <1>2, <1>3, <1>4, <1>5, <1>6, JobTaken

LEMMA PoolTakesKeeps ==
    ASSUME CacheInv, NEW t \in Threads, PoolTakes(t)
    PROVE  CacheInv'
<1> DEFINE k == KeyOf[Head(queue)]
           mode == fetch[Head(queue)].mode
           found == LookupOf(Head(queue), mode)
<1>1. th[t].at = "free" /\ queue # <<>> /\ queue' = Tail(queue) /\ UNCHANGED <<entries, ring, used, warm>>
    BY DEF PoolTakes
<1>2. /\ Head(queue) \in Fetches /\ Head(queue) \in ToSet(queue) /\ queue' \in Seq(Fetches)
      /\ ToSet(queue') \subseteq ToSet(queue) /\ ToSet(queue) \subseteq ToSet(queue') \cup {Head(queue)}
    BY <1>1, QueueLess DEF CacheInv
<1>3. PICK f \in Fetches : f = Head(queue)
    BY <1>2
<1>4. CASE fetch[f].state # "queued"
  <2>1. /\ UNCHANGED <<entry, loading, fetch>>
        /\ flight' = [flight EXCEPT ![f].stored = FALSE]
        /\ th' = IF flight[f].stored
                 THEN [th EXCEPT ![t] = [FreeThread EXCEPT !.at = "load", !.load = f]] ELSE th
      BY <1>3, <1>4 DEF PoolTakes
  <2>2. flight[f].stored => \E new : TakesUp(t, new, f) /\ new.at # "waits"
    <3> SUFFICES ASSUME flight[f].stored PROVE \E new : TakesUp(t, new, f) /\ new.at # "waits"
        OBVIOUS
    <3> DEFINE new == [FreeThread EXCEPT !.at = "load", !.load = f]
    <3>1. th' = [th EXCEPT ![t] = new]
        BY <2>1
    <3>2. /\ DOMAIN FreeThread \subseteq DOMAIN new /\ new.at = "load" /\ new.load = f
          /\ new.fetch = None /\ new.cand = None /\ new.lap = 0 /\ new.visits = 0
        BY DEF FreeThread
    <3> WITNESS new
    <3> HIDE DEF new
    <3>3. QED
        BY <1>1, <3>1, <3>2 DEF TakesUp
  <2>3. QED
      BY <1>1, <1>2, <1>3, <1>4, <2>1, <2>2, JobTaken
<1>5. CASE fetch[f].state = "queued"
  <2>1. /\ fetch[f].state \in Idle /\ loading[KeyOf[f]] # f /\ KeyOf[f] \in Keys
        /\ DOMAIN fetch = Fetches /\ DOMAIN flight = Fetches
        /\ \A e \in Fetches : {"state", "mode", "bytes", "on"} \subseteq DOMAIN fetch[e]
        /\ \A e \in Fetches : {"state", "stored", "registered"} \subseteq DOMAIN flight[e]
        /\ \A x \in Keys : loading[x] # None => loading[x] \in Fetches /\ KeyOf[loading[x]] = x
      BY <1>5, ResidentIs DEF CacheInv, TypeInv, LoadInv, Idle
  <2>2. \A e \in Fetches \ {f} : e \in ToSet(queue) => e \in ToSet(queue')
      BY <1>2, <1>3
  <2>3. ASSUME found = "hit" PROVE CacheInv'
    <3>1. /\ Lookup(f, mode, FALSE) /\ th' = th
          /\ \E b : fetch' = [fetch EXCEPT ![f].state = "holds", ![f].mode = None, ![f].bytes = b]
        BY <1>3, <1>5, <2>3 DEF PoolTakes
    <3>2. /\ DOMAIN fetch' = Fetches /\ fetch'[f].state = "holds" /\ \A e \in Fetches \ {f} : fetch'[e] = fetch[e]
          /\ \A e \in Fetches : {"state", "mode", "bytes", "on"} \subseteq DOMAIN fetch'[e]
        BY <2>1, <3>1
    <3> HIDE DEF mode, found
    <3>3. /\ entry' \in [Fetches -> [decoded : BOOLEAN, charged : BOOLEAN, referenced : BOOLEAN]]
          /\ \A e \in Fetches : entry'[e].charged = entry[e].charged
          /\ loading' = loading /\ flight' = flight
      <4>1. LookupOf(f, mode) = "hit"
          BY <1>3, <2>3 DEF found
      <4>2. QED
          BY <3>1, <4>1, LookupIs DEF CacheInv
    <3>4. TypeInv'
        BY <1>1, <1>2, <3>2, <3>3 DEF CacheInv, TypeInv
    <3>5. ThreadInv'
        BY <3>1 DEF CacheInv, ThreadInv, FreeThread
    <3>6. \A x \in Fetches : Handling(x)' = Handling(x)
        BY <3>1 DEF Handling
    <3>7. ASSUME NEW x \in Fetches, x = loading[KeyOf[x]] PROVE Carried(x) => Carried(x)'
      <4>1. x # f
          BY <2>1, <3>7
      <4>2. QED
          BY <2>2, <3>1, <3>3, <4>1 DEF Carried
    <3>8. fetch'[f].state \notin Idle
        BY <3>2 DEF Idle
    <3>9. ToSet(queue') \subseteq ToSet(queue) \cup {f}
        BY <1>2
    <3>10. QED
        BY <1>1, <3>1, <3>2, <3>3, <3>4, <3>5, <3>6, <3>7, <3>8, <3>9, LookedUp
  <2>4. ASSUME found = "join" PROVE CacheInv'
    <3>0. loading[KeyOf[f]] # None
        BY <1>3, <2>4 DEF LookupOf
    <3>1. PICK g \in Fetches : g = loading[KeyOf[f]] /\ KeyOf[g] = KeyOf[f]
        BY <2>1, <3>0
    <3>2. /\ JoinBlocking(t, f, g) /\ UNCHANGED <<entry, loading>>
          /\ fetch' = [fetch EXCEPT ![f].state = "waiting", ![f].mode = None, ![f].on = g]
        BY <1>3, <1>5, <2>4, <3>1 DEF PoolTakes
    <3>3. /\ DOMAIN fetch' = Fetches /\ fetch'[f].state = "waiting" /\ \A e \in Fetches \ {f} : fetch'[e] = fetch[e]
          /\ \A e \in Fetches : {"state", "mode", "bytes", "on"} \subseteq DOMAIN fetch'[e]
        BY <2>1, <3>2
    <3> DEFINE at == IF flight[g].stored THEN "load" ELSE "waits"
               new == [FreeThread EXCEPT !.at = at, !.fetch = f, !.load = g]
    <3>4. th' = [th EXCEPT ![t] = new] /\ flight' = [flight EXCEPT ![g].stored = FALSE]
        BY <3>2 DEF JoinBlocking
    <3>5. at \in {"load", "waits"} /\ (flight[g].stored => at = "load")
        OBVIOUS
    <3> HIDE DEF at, mode, found
    <3>6. /\ DOMAIN FreeThread \subseteq DOMAIN new /\ new.at = at /\ new.load = g
          /\ new.fetch = f /\ new.cand = None /\ new.lap = 0 /\ new.visits = 0
        BY DEF FreeThread
    <3> HIDE DEF new
    <3>7. TakesUp(t, new, g)
        BY <1>1, <3>4, <3>5, <3>6 DEF TakesUp
    <3>8. /\ ThreadInv' /\ th'[t] = new
          /\ \A x \in Fetches : Handling(x)' = Handling(x)
          /\ \A x : \A s \in Threads : th[s].load = x /\ th[s].at \in {"load", "finish"}
                                         => th'[s].load = x /\ th'[s].at \in {"load", "finish"}
          /\ \A s \in Threads : th'[s].load \in {th[s].load, g}
          /\ \A s \in Threads : th'[s].at \in {"ring", "complete", "completeInserted"} => th'[s] = th[s]
        BY <3>7, TakesUpIs DEF CacheInv
    <3>9. /\ DOMAIN flight' = Fetches
          /\ \A e \in Fetches : /\ {"state", "stored", "registered"} \subseteq DOMAIN flight'[e]
                                /\ flight'[e].registered = flight[e].registered
                                /\ flight'[e].state = flight[e].state
          /\ \A e \in Fetches \ {g} : flight'[e] = flight[e]
        BY <3>4, StoredGoes DEF CacheInv
    <3>10. TypeInv'
        BY <1>1, <1>2, <3>2, <3>3, <3>9 DEF CacheInv, TypeInv
    <3>11. ASSUME NEW x \in Fetches, x = loading[KeyOf[x]] PROVE Carried(x) => Carried(x)'
      <4>1. x # f
          BY <2>1, <3>11
      <4>2. CASE \E s \in Threads : th[s].load = x /\ th[s].at \in {"load", "finish"}
          BY <3>8, <4>2 DEF Carried
      <4>3. CASE flight[x].stored /\ x \in ToSet(queue)
        <5>1. CASE x = g
          <6>1. th'[t].load = x /\ th'[t].at = "load"
              BY <3>5, <3>6, <3>8, <4>3, <5>1
          <6>2. QED
              BY <6>1 DEF Carried
        <5>2. CASE x # g
            BY <2>2, <3>9, <4>1, <4>3, <5>2 DEF Carried
        <5>3. QED
            BY <5>1, <5>2
      <4>4. QED
          BY <4>2, <4>3 DEF Carried
    <3>12. fetch'[f].state \notin Idle
        BY <3>3 DEF Idle
    <3>13. /\ ToSet(queue') \subseteq ToSet(queue) \cup {f}
           /\ \A s \in Threads : th'[s].load \in {th[s].load, None, f} \/ th'[s].load = loading[KeyOf[th'[s].load]]
        BY <1>2, <3>1, <3>8
    <3>14. QED
        BY <1>1, <3>2, <3>3, <3>8, <3>9, <3>10, <3>11, <3>12, <3>13, LookedUp
  <2>5. ASSUME found \notin {"hit", "join"} PROVE CacheInv'
    <3>1. /\ Lookup(f, mode, FALSE)
          /\ fetch' = [fetch EXCEPT ![f].state = "waiting", ![f].mode = None, ![f].on = f]
          /\ th' = [th EXCEPT ![t] = [FreeThread EXCEPT !.at = "load", !.fetch = f, !.load = f]]
        BY <1>3, <1>5, <2>5 DEF PoolTakes
    <3>2. /\ DOMAIN fetch' = Fetches /\ fetch'[f].state = "waiting" /\ \A e \in Fetches \ {f} : fetch'[e] = fetch[e]
          /\ \A e \in Fetches : {"state", "mode", "bytes", "on"} \subseteq DOMAIN fetch'[e]
        BY <2>1, <3>1
    <3> DEFINE new == [FreeThread EXCEPT !.at = "load", !.fetch = f, !.load = f]
    <3>3. th' = [th EXCEPT ![t] = new]
        BY <3>1
    <3>4. /\ DOMAIN FreeThread \subseteq DOMAIN new /\ new.at = "load" /\ new.load = f
          /\ new.fetch = f /\ new.cand = None /\ new.lap = 0 /\ new.visits = 0
        BY DEF FreeThread
    <3> HIDE DEF new, mode, found
    <3>5. TakesUp(t, new, f)
        BY <1>1, <3>3, <3>4 DEF TakesUp
    <3>6. /\ ThreadInv' /\ th'[t] = new
          /\ \A x \in Fetches : Handling(x)' = Handling(x)
          /\ \A x : \A s \in Threads : th[s].load = x /\ th[s].at \in {"load", "finish"}
                                         => th'[s].load = x /\ th'[s].at \in {"load", "finish"}
          /\ \A s \in Threads : th'[s].load \in {th[s].load, f}
          /\ \A s \in Threads : th'[s].at \in {"ring", "complete", "completeInserted"} => th'[s] = th[s]
        BY <3>5, TakesUpIs DEF CacheInv
    <3>7. /\ DOMAIN loading' = Keys
          /\ \A x \in Keys : loading'[x] # None => loading'[x] \in Fetches /\ KeyOf[loading'[x]] = x
          /\ DOMAIN flight' = Fetches
          /\ \A e \in Fetches : {"state", "stored", "registered"} \subseteq DOMAIN flight'[e]
          /\ entry' \in [Fetches -> [decoded : BOOLEAN, charged : BOOLEAN, referenced : BOOLEAN]]
          /\ \A e \in Fetches : entry'[e].charged = entry[e].charged
          /\ entries[KeyOf[f]] = None /\ flight'[f].state = "pending"
          /\ \A e \in Fetches \ {f} : flight'[e] = flight[e]
          /\ loading' = loading \/ (loading' = [loading EXCEPT ![KeyOf[f]] = f] /\ flight'[f].registered)
      <4>1. LookupOf(f, mode) \notin {"hit", "join"}
          BY <1>3, <2>5 DEF found
      <4>2. QED
          BY <3>1, <4>1, LookupIs DEF CacheInv
    <3>8. TypeInv'
        BY <1>1, <1>2, <3>2, <3>7 DEF CacheInv, TypeInv
    <3>9. ASSUME NEW x \in Fetches, x = loading[KeyOf[x]]
          PROVE  flight'[x] = flight[x] /\ (Carried(x) => Carried(x)')
      <4>1. x # f
          BY <2>1, <3>9
      <4>2. flight'[x] = flight[x] /\ (x \in ToSet(queue) => x \in ToSet(queue'))
          BY <2>2, <3>7, <4>1
      <4>3. QED
          BY <3>6, <4>2 DEF Carried
    <3>10. Carried(f)'
      <4>1. th'[t].load = f /\ th'[t].at = "load"
          BY <3>4, <3>6
      <4>2. QED
          BY <4>1 DEF Carried
    <3>11. fetch'[f].state \notin Idle
        BY <3>2 DEF Idle
    <3>12. /\ ToSet(queue') \subseteq ToSet(queue) \cup {f}
           /\ \A s \in Threads : th'[s].load \in {th[s].load, None, f} \/ th'[s].load = loading[KeyOf[th'[s].load]]
        BY <1>2, <3>6
    <3>13. \/ loading' = loading
           \/ /\ loading' = [loading EXCEPT ![KeyOf[f]] = f]
              /\ fetch[f].state \in Idle /\ entries[KeyOf[f]] = None
              /\ flight'[f].registered /\ flight'[f].state = "pending" /\ Carried(f)'
        BY <2>1, <3>7, <3>10
    <3>14. QED
        BY <1>1, <3>2, <3>6, <3>7, <3>8, <3>9, <3>11, <3>12, <3>13, LookedUp
  <2>6. QED
      BY <2>3, <2>4, <2>5
<1>6. QED
    BY <1>4, <1>5

-----------------------------------------------------------------------------
(* The invariant holds. *)

LEMMA CacheStarts == Init => CacheInv
<1> SUFFICES ASSUME Init PROVE CacheInv
    OBVIOUS
<1>1. None \notin Fetches /\ \A e \in Fetches : KeyOf[e] \in Keys /\ ClassOf[KeyOf[e]] \in Classes /\ e # None
    BY CacheAssumption DEF Keys, Range
<1>2. /\ entries = [k \in Keys |-> None] /\ loading = [k \in Keys |-> None]
      /\ flight = [f \in Fetches |-> [state |-> "none", stored |-> FALSE, registered |-> FALSE]]
      /\ entry = [f \in Fetches |-> [decoded |-> FALSE, charged |-> FALSE, referenced |-> FALSE]]
      /\ fetch = [f \in Fetches |-> [state |-> "idle", mode |-> None, bytes |-> None, on |-> None]]
      /\ ring = [c \in Classes |-> <<>>] /\ used = [c \in Classes |-> 0]
      /\ queue = <<>> /\ th = [t \in Threads |-> FreeThread] /\ warm = 0
    BY DEF Init
<1>3. TypeInv
  <2>1. <<>> \in Seq(Fetches)
      OBVIOUS
  <2>2. 0 \in 0..Len(Warm)
      BY CacheAssumption, LenProperties
  <2>3. QED
      BY <1>2, <2>1, <2>2 DEF TypeInv
<1>4. ThreadInv
    BY <1>2 DEF ThreadInv, FreeThread, Ats
<1>5. \A e \in Fetches : Unplaced(e)
  <2>1. ToSet(<<>>) = {} /\ \A t \in Threads : th[t].cand = None /\ th[t].load = None
      BY <1>2 DEF ToSet, FreeThread
  <2>2. QED
      BY <1>1, <1>2, <2>1 DEF Unplaced, Handling
<1>6. LoadInv
  <2>1. ToSet(queue) = {} /\ \A t \in Threads : th[t].at = "free" /\ th[t].load = None
      BY <1>2 DEF ToSet, FreeThread
  <2>2. QED
      BY <1>1, <1>2, <1>5, <2>1 DEF LoadInv
<1>7. \A c \in Classes : Resident(c) = {}
    BY <1>2 DEF Resident
<1>8. RingInv
  <2>1. \A c \in Classes : ToSet(ring[c]) = {}
      BY <1>2 DEF ToSet
  <2>2. QED
      BY <1>7, <2>1 DEF RingInv
<1>9. UsedInv
  <2>1. IsFiniteSet({})
      BY FS_EmptySet
  <2>2. Total(Charges, {}) = 0
      BY <2>1, TotalUnroll
  <2>3. QED
      BY <1>2, <1>7, <2>2 DEF UsedInv
<1>10. QED
    BY <1>3, <1>4, <1>6, <1>8, <1>9 DEF CacheInv

LEMMA CacheStays == CacheInv /\ [Next]_vars => CacheInv'
<1> SUFFICES ASSUME CacheInv, [Next]_vars PROVE CacheInv'
    OBVIOUS
<1>1. ASSUME NEW f \in Fetches,
             \/ FetchAsync(f) \/ FetchBlocking(f) \/ Poll(f) \/ DropFetch(f) \/ Release(f) \/ Decode(f)
      PROVE  CacheInv'
    BY <1>1, FetchAsyncKeeps, FetchBlockingKeeps, FetchOnlyKeeps, DecodeKeeps
<1>2. ASSUME NEW t \in Threads, ThreadStep(t) PROVE CacheInv'
    BY <1>2, PoolTakesKeeps, LoadEndsKeeps, FinishShardKeeps, FinishRingKeeps, CompleteKeeps, ReturnKeeps,
       SweepStepsKeep, HandKeeps, CheckKeeps DEF ThreadStep
<1>3. ASSUME WarmUp \/ JobDropped \/ SetBudget \/ \E k \in Keys : InvalidateFile(k) PROVE CacheInv'
    BY <1>3, WarmUpKeeps, JobDroppedKeeps, SetBudgetKeeps, InvalidateFileKeeps
<1>4. ASSUME UNCHANGED vars PROVE CacheInv'
  <2>1. UNCHANGED <<entries, loading, flight, entry, fetch, ring, used, queue, th, warm>>
      BY <1>4 DEF vars
  <2>2. TypeInv'
      BY <2>1 DEF CacheInv, TypeInv
  <2>3. ThreadInv' /\ \A s \in Threads : Beside(s)
      BY <2>1 DEF CacheInv, ThreadInv, FreeThread, Beside
  <2>4. QED
      BY <2>1, <2>2, <2>3, FetchEndsKeeps
<1>5. QED
    BY <1>1, <1>2, <1>3, <1>4 DEF Next

\* Nothing leaks: the bytes charged to each class are those of its resident entries, each of which
\* is in its ring once or in the hands of the one thread that inserts or examines it, and each
\* registered load is pending and carried on.  finish, evict_one, invalidate_file and
\* charge_decoded of cache/mod.rs keep that between them, whatever the threads interleave.
THEOREM NoLeaks == Spec => []NothingLeaks
<1>1. Spec => Init /\ [][Next]_vars
    BY DEF Spec
<1>2. CacheInv => NothingLeaks
    BY DEF CacheInv, LoadInv, RingInv, UsedInv, Charges, NothingLeaks
<1>3. QED
    BY <1>1, <1>2, CacheStarts, CacheStays, PTL
=============================================================================
