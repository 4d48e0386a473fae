------------------------------ MODULE Folding -------------------------------
(***************************************************************************)
(* Induction over a fold.  Step, Pick and Inv are constants of the module, *)
(* which an INSTANCE replaces by the operators of one fold and by what is  *)
(* to be shown of it: FoldRule is then the induction over its data.        *)
(***************************************************************************)
EXTENDS Integers, FiniteSets, FiniteSetTheorems, WellFoundedInduction, TLAPS

CONSTANTS
    Step(_, _, _),
    Pick(_),
    Inv(_, _, _)

\* Pick chooses a member.
Picks(S) == \A s \in SUBSET S : s # {} => Pick(s) \in s

\* What the fold is of every subset, in terms of the smaller ones.
Body(env, base, S, g) ==
    [s \in SUBSET S |-> IF s = {} THEN base ELSE Step(env, Pick(s), g[s \ {Pick(s)}])]

\* The fold over a set: MapThenFoldSet of the community modules, with its operators as constants.
Fold(env, base, S) == (CHOOSE g : g = Body(env, base, S, g))[S]

\* A set of numbers that is not empty has a least element.
LEMMA LeastNumber ==
    ASSUME NEW T \in SUBSET Nat, T # {}
    PROVE  \E x \in T : \A y \in T : ~(y < x)
<1>1. IsWellFoundedOn(OpToRel(<, Nat), Nat)
    BY NatLessThanWellFounded, Zenon
<1>2. PICK x \in T : \A y \in T : ~ (<<y, x>> \in OpToRel(<, Nat))
    BY <1>1, WFMin, Zenon
<1>3. \A y \in T : ~(y < x)
    BY <1>2 DEF OpToRel
<1>4. QED
    BY <1>3, Zenon

\* Induction over the numbers, for a set instead of a predicate.
LEMMA SetInduction ==
    ASSUME NEW S, S \subseteq Nat, 0 \in S, \A n \in S : n + 1 \in S
    PROVE  S = Nat
<1>1. SUFFICES ASSUME Nat \ S # {} PROVE FALSE
    OBVIOUS
<1>2. PICK x \in Nat \ S : \A y \in Nat \ S : ~(y < x)
    BY <1>1, LeastNumber
<1>3. x # 0 /\ x - 1 \in Nat
    OBVIOUS
<1>4. x - 1 \in S
    BY <1>2, <1>3
<1>5. QED
    BY <1>3, <1>4

\* The subsets of up to n elements, and the fold as far as these.
Small(S, n) == {s \in SUBSET S : Cardinality(s) <= n}

Partial(env, base, S, n, g) ==
    g = [s \in Small(S, n) |-> IF s = {} THEN base ELSE Step(env, Pick(s), g[s \ {Pick(s)}])]

\* Without the chosen element a set is smaller.
LEMMA SmallerSet ==
    ASSUME NEW S, IsFiniteSet(S), Picks(S), NEW n \in Nat, NEW s \in Small(S, n + 1), s # {}
    PROVE  s \ {Pick(s)} \in Small(S, n)
<1>1. s \in SUBSET S /\ Cardinality(s) <= n + 1 /\ Pick(s) \in s
    BY DEF Small, Picks
<1>2. IsFiniteSet(s)
    BY <1>1, FS_Subset
<1>3. Cardinality(s \ {Pick(s)}) = Cardinality(s) - 1 /\ Cardinality(s) \in Nat
    BY <1>1, <1>2, FS_RemoveElement, FS_CardinalityType
<1>4. QED
    BY <1>1, <1>3 DEF Small

\* A function that satisfies the recursive equation exists.
LEMMA FoldDefined ==
    ASSUME NEW env, NEW base, NEW S, IsFiniteSet(S), Picks(S)
    PROVE  \E g : g = Body(env, base, S, g)
<1> DEFINE N == {n \in Nat : \E g : Partial(env, base, S, n, g)}
<1>1. 0 \in N
  <2> DEFINE g == [s \in Small(S, 0) |-> base]
  <2>1. ASSUME NEW s \in Small(S, 0) PROVE s = {}
    <3>1. IsFiniteSet(s) /\ Cardinality(s) \in Nat /\ Cardinality(s) <= 0
        BY FS_Subset, FS_CardinalityType DEF Small
    <3>2. QED
        BY <3>1, FS_EmptySet
  <2>2. Partial(env, base, S, 0, g)
      BY <2>1 DEF Partial
  <2>3. QED
      BY <2>2
<1>2. ASSUME NEW n \in N PROVE n + 1 \in N
  <2>1. PICK g : Partial(env, base, S, n, g)
      OBVIOUS
  <2> DEFINE h == [s \in Small(S, n + 1) |-> IF s = {} THEN base ELSE Step(env, Pick(s), g[s \ {Pick(s)}])]
  <2>2. \A s \in Small(S, n) : s \in Small(S, n + 1)
    <3>1. \A s \in SUBSET S : Cardinality(s) \in Nat
        BY FS_Subset, FS_CardinalityType
    <3>2. QED
        BY <3>1 DEF Small
  <2>3. \A s \in Small(S, n) : h[s] = g[s]
      BY <2>1, <2>2 DEF Partial
  <2>4. \A s \in Small(S, n + 1) : s # {} => h[s \ {Pick(s)}] = g[s \ {Pick(s)}]
      BY <2>3, SmallerSet
  <2> DEFINE k == [s \in Small(S, n + 1) |-> IF s = {} THEN base ELSE Step(env, Pick(s), h[s \ {Pick(s)}])]
  <2>5. ASSUME NEW s \in Small(S, n + 1) PROVE h[s] = k[s]
    <3>1. CASE s = {}
        BY <3>1
    <3>2. CASE s # {}
      <4>1. h[s \ {Pick(s)}] = g[s \ {Pick(s)}]
          BY <2>4, <3>2
      <4>2. Step(env, Pick(s), h[s \ {Pick(s)}]) = Step(env, Pick(s), g[s \ {Pick(s)}])
          BY <4>1
      <4>3. QED
          BY <4>2, <3>2
    <3>3. QED
        BY <3>1, <3>2
  <2>6. h = k
      BY <2>5
  <2>7. Partial(env, base, S, n + 1, h)
      BY <2>6 DEF Partial
  <2>8. QED
      BY <2>7
<1>3. N = Nat
  <2> HIDE DEF N
  <2>1. N \subseteq Nat
      BY DEF N
  <2>2. QED
      BY <1>1, <1>2, <2>1, SetInduction
<1>4. Cardinality(S) \in N
    BY <1>3, FS_CardinalityType
<1>5. PICK g : Partial(env, base, S, Cardinality(S), g)
    BY <1>4
<1>6. Small(S, Cardinality(S)) = SUBSET S
    BY FS_Subset DEF Small
<1>7. g = Body(env, base, S, g)
    BY <1>5, <1>6 DEF Partial, Body
<1>8. QED
    BY <1>7

\* The fold over a set that is not empty is one step after the fold over the rest.
LEMMA FoldUnrolls ==
    ASSUME NEW env, NEW base, NEW S, IsFiniteSet(S), Picks(S)
    PROVE  /\ S = {} => Fold(env, base, S) = base
           /\ S # {} => Fold(env, base, S) = Step(env, Pick(S), Fold(env, base, S \ {Pick(S)}))
<1> DEFINE R == S \ {Pick(S)}
           f == CHOOSE g : g = Body(env, base, S, g)
           h == CHOOSE g : g = Body(env, base, R, g)
<1>1. IsFiniteSet(R) /\ Picks(R) /\ R \in SUBSET S
  <2>1. R \in SUBSET S
      OBVIOUS
  <2>2. IsFiniteSet(R)
      BY <2>1, FS_Subset
  <2>3. Picks(R)
      BY <2>1 DEF Picks
  <2>4. QED
      BY <2>1, <2>2, <2>3
<1>2. f = Body(env, base, S, f)
    BY FoldDefined
<1>3. h = Body(env, base, R, h)
    BY <1>1, FoldDefined
<1> HIDE DEF f, h, R
<1>4. \A s \in SUBSET S : f[s] = IF s = {} THEN base ELSE Step(env, Pick(s), f[s \ {Pick(s)}])
    BY <1>2 DEF Body
<1>5. \A s \in SUBSET R : h[s] = IF s = {} THEN base ELSE Step(env, Pick(s), h[s \ {Pick(s)}])
    BY <1>3 DEF Body
<1> DEFINE N == {n \in Nat : \A s \in Small(R, n) : f[s] = h[s]}
<1>6. 0 \in N
  <2>1. ASSUME NEW s \in Small(R, 0) PROVE s = {}
    <3>1. IsFiniteSet(s) /\ Cardinality(s) \in Nat /\ Cardinality(s) <= 0
        BY <1>1, FS_Subset, FS_CardinalityType DEF Small
    <3>2. QED
        BY <3>1, FS_EmptySet
  <2>2. QED
      BY <2>1, <1>4, <1>5
<1>7. ASSUME NEW n \in N PROVE n + 1 \in N
  <2>1. ASSUME NEW s \in Small(R, n + 1) PROVE f[s] = h[s]
    <3>1. s \in SUBSET R /\ s \in SUBSET S
        BY <1>1 DEF Small
    <3>2. CASE s = {}
        BY <3>1, <3>2, <1>4, <1>5
    <3>3. CASE s # {}
      <4>1. s \ {Pick(s)} \in Small(R, n)
          BY <1>1, <3>3, SmallerSet
      <4>2. f[s \ {Pick(s)}] = h[s \ {Pick(s)}]
          BY <4>1
      <4>3. Step(env, Pick(s), f[s \ {Pick(s)}]) = Step(env, Pick(s), h[s \ {Pick(s)}])
          BY <4>2
      <4>4. f[s] = Step(env, Pick(s), f[s \ {Pick(s)}])
          BY <1>4, <3>1, <3>3
      <4>5. h[s] = Step(env, Pick(s), h[s \ {Pick(s)}])
          BY <1>5, <3>1, <3>3
      <4>6. QED
          BY <4>3, <4>4, <4>5
    <3>4. QED
        BY <3>2, <3>3
  <2>2. QED
      BY <2>1
<1>8. N = Nat
  <2> HIDE DEF N
  <2>1. N \subseteq Nat
      BY DEF N
  <2>2. QED
      BY <1>6, <1>7, <2>1, SetInduction
<1>9. Cardinality(R) \in N
    BY <1>1, <1>8, FS_CardinalityType
<1>10. R \in Small(R, Cardinality(R))
    BY <1>1, FS_CardinalityType DEF Small
<1>11. f[R] = h[R]
    BY <1>9, <1>10
<1>12. S \in SUBSET S
    OBVIOUS
<1>13. S = {} => f[S] = base
    BY <1>4, <1>12
<1>14. S # {} => f[S] = Step(env, Pick(S), h[R])
  <2>1. SUFFICES ASSUME S # {} PROVE f[S] = Step(env, Pick(S), h[R])
      OBVIOUS
  <2>2. f[S] = Step(env, Pick(S), f[R])
      BY <1>4, <1>12, <2>1 DEF R
  <2>3. Step(env, Pick(S), f[R]) = Step(env, Pick(S), h[R])
      BY <1>11
  <2>4. QED
      BY <2>2, <2>3
<1>15. QED
    BY <1>13, <1>14 DEF Fold, f, h, R

\* What holds of the base, and is preserved by each step, holds of the fold.
LEMMA FoldRule ==
    ASSUME NEW env, NEW base, NEW S, IsFiniteSet(S), Picks(S),
           Inv(env, {}, base),
           \A s \in SUBSET S : \A y :
               s # {} /\ Inv(env, s \ {Pick(s)}, y) => Inv(env, s, Step(env, Pick(s), y))
    PROVE  Inv(env, S, Fold(env, base, S))
<1> DEFINE f == CHOOSE g : g = Body(env, base, S, g)
<1>1. f = Body(env, base, S, f)
    BY FoldDefined
<1> HIDE DEF f
<1>2. f[{}] = base
    BY <1>1 DEF Body
<1>3. \A s \in SUBSET S : s # {} => f[s] = Step(env, Pick(s), f[s \ {Pick(s)}])
    BY <1>1 DEF Body
<1> DEFINE N == {n \in Nat : \A s \in Small(S, n) : Inv(env, s, f[s])}
<1>4. 0 \in N
  <2>1. ASSUME NEW s \in Small(S, 0) PROVE s = {}
    <3>1. IsFiniteSet(s) /\ Cardinality(s) \in Nat /\ Cardinality(s) <= 0
        BY FS_Subset, FS_CardinalityType DEF Small
    <3>2. QED
        BY <3>1, FS_EmptySet
  <2>2. QED
      BY <2>1, <1>2
<1>5. ASSUME NEW n \in N PROVE n + 1 \in N
  <2>1. ASSUME NEW s \in Small(S, n + 1) PROVE Inv(env, s, f[s])
    <3>1. CASE s = {}
        BY <3>1, <1>2
    <3>2. CASE s # {}
      <4>1. s \ {Pick(s)} \in Small(S, n)
          BY <3>2, SmallerSet
      <4>2. Inv(env, s \ {Pick(s)}, f[s \ {Pick(s)}])
          BY <4>1
      <4>3. s \in SUBSET S
          BY DEF Small
      <4>4. Inv(env, s, Step(env, Pick(s), f[s \ {Pick(s)}]))
          BY <3>2, <4>2, <4>3
      <4>5. QED
          BY <1>3, <3>2, <4>3, <4>4
    <3>3. QED
        BY <3>1, <3>2
  <2>2. QED
      BY <2>1
<1>6. N = Nat
  <2> HIDE DEF N
  <2>1. N \subseteq Nat
      BY DEF N
  <2>2. QED
      BY <1>4, <1>5, <2>1, SetInduction
<1>7. Cardinality(S) \in N
    BY <1>6, FS_CardinalityType
<1>8. S \in Small(S, Cardinality(S))
    BY FS_CardinalityType DEF Small
<1>9. Inv(env, S, f[S])
    BY <1>7, <1>8
<1>10. QED
    BY <1>9 DEF f, Fold
=============================================================================
