----------------------------- MODULE WalProofs -------------------------------
(***************************************************************************)
(* Theorems about Wal, for any groups, any number of attempts and faults   *)
(* and any modulus of the group counter, over the whole disk model: a      *)
(* group answered NotApplied is nowhere, the marker stops every process,   *)
(* the numbers continue after the log, and what callers were told stays on *)
(* the device; with that, the log implements DurableLog, and never loses   *)
(* an operation or takes a rejected one.                                   *)
(*                                                                         *)
(* BaseInv says what the variables hold, which files a phase has and what  *)
(* the marker means.  The other three parts of the inductive invariant     *)
(* rest on it: AppliedInv (the open group is in the active file only, past *)
(* what is synced; rejected and future ones are nowhere), NumbersInv (the  *)
(* writer's counter and the frames it numbered) and AckInv (every logged   *)
(* operation above the checkpoint is Kept in a durable file, and a writer  *)
(* only trusts cells that page cache and device agree on).  OpenInv adds   *)
(* what recovery can find of a group without an answer.                    *)
(*                                                                         *)
(* The proofs see the disk through a few facts about each operation on a   *)
(* file (SyncedIs, FailedSyncIs, AfterCrashIs and so on): which cells it   *)
(* may hold (NoMore) and which it surely keeps (Keeps).  Recovery reads    *)
(* through folds over files and frames; FlattenPlaces and AtEmbeds say     *)
(* where each frame that is read comes from, and ReplayIs what a replay    *)
(* without error hands over.                                               *)
(***************************************************************************)
EXTENDS Wal, SequenceTheorems, FiniteSetTheorems, TLAPS

(* What the disk can hold. *)
Frame ==
    {f \in [kind : {"data", "ckpt"}, group : Nat, first : Nat, last : Nat, end : BOOLEAN, op : Nat] :
       f.first <= f.last}
Cell == Frame \cup {Torn}
WalFile == [first : Nat, mem : Seq(Cell), dev : Seq(Cell), dirty : SUBSET Nat, linked : BOOLEAN]

-----------------------------------------------------------------------------
(* Sequences *)

BootStep(env, i, done) == UNION {{fs \o <<g>> : g \in AfterCrash(env[i])} : fs \in done}
LastOf(S) == Max(S)
IsBoot(env, S, done) ==
    \A n \in 0..Len(env) : S = 1..n =>
        \A fs \in done : /\ fs \in Seq(WalFile) /\ Len(fs) = n
                        /\ \A i \in 1..n : fs[i] \in AfterCrash(env[i])
Booting == INSTANCE Folding WITH Step <- BootStep, Pick <- LastOf, Inv <- IsBoot

CountStep(env, i, y) == y + env.shape[i]
IsCount(env, S, y) ==
    y \in Nat /\ \A n \in 0..Len(env.frames) : S = 1..n => y = Len(OpsOf(SubSeq(env.frames, 1, n)))
Counting == INSTANCE Folding WITH Step <- CountStep, Pick <- LastOf, Inv <- IsCount

\* The numbers up to the first that is in a set.
LEMMA LongestPrefix ==
    ASSUME NEW m \in Nat, NEW T \in SUBSET (1..m)
    PROVE  \E k \in 0..m : (\A i \in 1..k : i \notin T) /\ (k < m => k + 1 \in T)
<1>1. CASE T = {}
    BY <1>1
<1>2. CASE T # {}
  <2>1. T \in SUBSET Nat
      OBVIOUS
  <2>2. PICK x \in T : \A y \in T : ~(y < x)
      BY <1>2, <2>1, Booting!LeastNumber
  <2>3. x - 1 \in 0..m /\ (x - 1) + 1 = x /\ \A i \in 1..x - 1 : i \notin T
      BY <2>2
  <2>4. QED
      BY <2>2, <2>3
<1>3. QED
    BY <1>1, <1>2

\* A sequence that is not empty is a shorter one and a last element.
LEMMA AppendLast ==
    ASSUME NEW S, NEW q \in Seq(S), NEW n \in 0..Len(q) - 1
    PROVE  /\ SubSeq(q, 1, n) \in Seq(S) /\ q[n + 1] \in S
           /\ Len(SubSeq(q, 1, n)) = n
           /\ \A i \in 1..n : SubSeq(q, 1, n)[i] = q[i]
           /\ SubSeq(q, 1, n + 1) = Append(SubSeq(q, 1, n), q[n + 1])
<1>1. /\ SubSeq(q, 1, n) \in Seq(S) /\ q[n + 1] \in S /\ Len(SubSeq(q, 1, n)) = n
      /\ \A i \in 1..n : SubSeq(q, 1, n)[i] = q[i]
    BY SubSeqProperties
<1>2. SubSeq(q, 1, n + 1) = SubSeq(q, 1, n) \o <<q[n + 1]>>
    BY SubSeqRecursiveSecond
<1>3. QED
    BY <1>1, <1>2, AppendIsConcat

\* The concatenation of a sequence of sequences is defined.
LEMMA FlattenDefined ==
    ASSUME NEW q, NEW n \in Nat
    PROVE  \E g : g = [i \in 1..n |-> IF i = 1 THEN q[i] ELSE g[i - 1] \o q[i]]
<1> DEFINE Is(g, m) == g = [i \in 1..m |-> IF i = 1 THEN q[i] ELSE g[i - 1] \o q[i]]
           N == {m \in Nat : \E g : Is(g, m)}
<1>1. 0 \in N
  <2>1. \E g : Is(g, 0)
    <3>1. Is([i \in 1..0 |-> q[i]], 0)
        OBVIOUS
    <3> HIDE DEF Is
    <3>2. QED
        BY <3>1
  <2> HIDE DEF Is
  <2>2. QED
      BY <2>1
<1>2. ASSUME NEW m \in N PROVE m + 1 \in N
  <2>0. m \in Nat /\ \E g : Is(g, m)
    <3> HIDE DEF Is
    <3>1. QED
        OBVIOUS
  <2> HIDE DEF N
  <2>1. PICK g : Is(g, m)
      BY <2>0
  <2> DEFINE h == [i \in 1..m + 1 |-> IF i = 1 THEN q[i] ELSE g[i - 1] \o q[i]]
  <2>5. g = [i \in 1..m |-> IF i = 1 THEN q[i] ELSE g[i - 1] \o q[i]]
      BY <2>1
  <2>2. ASSUME NEW i \in 1..m PROVE h[i] = g[i]
    <3>1. i \in 1..m + 1
        BY <2>0
    <3>2. h[i] = IF i = 1 THEN q[i] ELSE g[i - 1] \o q[i]
        BY <3>1
    <3>3. g[i] = IF i = 1 THEN q[i] ELSE g[i - 1] \o q[i]
      <4> DEFINE k == [j \in 1..m |-> IF j = 1 THEN q[j] ELSE g[j - 1] \o q[j]]
      <4>1. k[i] = IF i = 1 THEN q[i] ELSE g[i - 1] \o q[i]
          OBVIOUS
      <4>2. g = k
          BY <2>5
      <4> HIDE DEF k
      <4>3. QED
          BY <4>1, <4>2
    <3> HIDE DEF h
    <3>4. QED
        BY <3>2, <3>3
  <2>3. Is(h, m + 1)
    <3>1. ASSUME NEW i \in 1..m + 1, i # 1 PROVE h[i - 1] = g[i - 1]
      <4>1. i - 1 \in 1..m
          BY <2>0, <3>1
      <4> HIDE DEF h
      <4>2. QED
          BY <2>2, <4>1
    <3>2. [i \in 1..m + 1 |-> IF i = 1 THEN q[i] ELSE g[i - 1] \o q[i]]
            = [i \in 1..m + 1 |-> IF i = 1 THEN q[i] ELSE h[i - 1] \o q[i]]
      <4> HIDE DEF h
      <4>1. QED
          BY <3>1
    <3>3. QED
        BY <3>2
  <2> HIDE DEF Is, h
  <2>4. QED
      BY <2>0, <2>3 DEF N
<1>3. N = Nat
  <2> HIDE DEF N
  <2>1. N \subseteq Nat
      BY DEF N
  <2>2. QED
      BY <1>1, <1>2, <2>1, Booting!SetInduction
<1>4. QED
    BY <1>3

LEMMA FlattenIs ==
    ASSUME NEW S, NEW q \in Seq(S), q # << >>
    PROVE  \E g : /\ g = [i \in 1..Len(q) |-> IF i = 1 THEN q[i] ELSE g[i - 1] \o q[i]]
                  /\ FlattenSeq(q) = g[Len(q)]
<1> DEFINE f == CHOOSE g : g = [i \in 1..Len(q) |-> IF i = 1 THEN q[i] ELSE g[i - 1] \o q[i]]
<1>1. Len(q) \in Nat \ {0}
    BY EmptySeq
<1>2. f = [i \in 1..Len(q) |-> IF i = 1 THEN q[i] ELSE f[i - 1] \o q[i]]
  <2>1. Len(q) \in Nat
      BY <1>1
  <2>2. QED
      BY <2>1, FlattenDefined
<1>3. FlattenSeq(q) = f[Len(q)]
    BY <1>1 DEF FlattenSeq
<1>4. QED
    BY <1>2, <1>3

\* Concatenating one sequence more.
LEMMA FlattenAppend ==
    ASSUME NEW S, NEW q \in Seq(Seq(S)), NEW t \in Seq(S)
    PROVE  /\ FlattenSeq(<< >>) = << >>
           /\ FlattenSeq(Append(q, t)) = FlattenSeq(q) \o t
<1>1. FlattenSeq(<< >>) = << >>
    BY DEF FlattenSeq
<1>2. /\ Append(q, t) \in Seq(Seq(S)) /\ Append(q, t) # << >> /\ Len(Append(q, t)) = Len(q) + 1
      /\ Append(q, t)[Len(q) + 1] = t /\ \A i \in 1..Len(q) : Append(q, t)[i] = q[i]
    BY AppendProperties
<1> DEFINE p == Append(q, t)
<1>3. PICK f : f = [i \in 1..Len(p) |-> IF i = 1 THEN p[i] ELSE f[i - 1] \o p[i]] /\ FlattenSeq(p) = f[Len(p)]
    BY <1>2, FlattenIs
<1> HIDE DEF p
<1>4. CASE q = << >>
  <2>1. Len(q) = 0 /\ FlattenSeq(p) = t
      BY <1>2, <1>3, <1>4 DEF p
  <2>2. << >> \o t = t
      BY ConcatEmptySeq
  <2>3. QED
      BY <1>1, <1>4, <2>1, <2>2 DEF p
<1>5. CASE q # << >>
  <2>1. Len(q) \in Nat \ {0}
      BY <1>5, EmptySeq
  <2>2. PICK g : g = [i \in 1..Len(q) |-> IF i = 1 THEN q[i] ELSE g[i - 1] \o q[i]] /\ FlattenSeq(q) = g[Len(q)]
      BY <1>5, FlattenIs
  <2> DEFINE N == {n \in Nat : n + 1 \in 1..Len(q) => f[n + 1] = g[n + 1]}
  <2>3. 0 \in N
      BY <1>2, <1>3, <2>1, <2>2 DEF p
  <2>4. ASSUME NEW n \in N PROVE n + 1 \in N
    <3>1. SUFFICES ASSUME n + 2 \in 1..Len(q) PROVE f[n + 2] = g[n + 2]
        OBVIOUS
    <3>2. n \in Nat /\ f[n + 1] = g[n + 1]
        BY <3>1
    <3> HIDE DEF N
    <3>3. f[n + 2] = f[n + 1] \o p[n + 2] /\ g[n + 2] = g[n + 1] \o q[n + 2]
      <4>1. n + 2 \in 1..Len(p) /\ n + 2 # 1 /\ (n + 2) - 1 = n + 1
          BY <1>2, <2>1, <3>1, <3>2 DEF p
      <4>2. f[n + 2] = f[(n + 2) - 1] \o p[n + 2]
          BY <1>3, <4>1
      <4>3. g[n + 2] = g[(n + 2) - 1] \o q[n + 2]
          BY <2>2, <3>1, <4>1
      <4>4. QED
          BY <4>1, <4>2, <4>3
    <3>4. p[n + 2] = q[n + 2]
        BY <1>2, <3>1 DEF p
    <3>5. QED
        BY <3>2, <3>3, <3>4
  <2>5. N = Nat
    <3> HIDE DEF N
    <3>1. N \subseteq Nat
        BY DEF N
    <3>2. QED
        BY <2>3, <2>4, <3>1, Booting!SetInduction
  <2>6. f[Len(q)] = g[Len(q)]
    <3>1. Len(q) - 1 \in Nat /\ (Len(q) - 1) + 1 = Len(q) /\ Len(q) \in 1..Len(q)
        BY <2>1
    <3>2. \A n \in Nat : n + 1 \in 1..Len(q) => f[n + 1] = g[n + 1]
        BY <2>5
    <3>3. QED
        BY <3>1, <3>2
  <2>7. f[Len(q) + 1] = f[Len(q)] \o t
    <3>1. Len(q) + 1 \in 1..Len(p) /\ Len(q) + 1 # 1 /\ (Len(q) + 1) - 1 = Len(q)
        BY <1>2, <2>1 DEF p
    <3>2. f[Len(q) + 1] = f[(Len(q) + 1) - 1] \o p[Len(q) + 1]
        BY <1>3, <3>1
    <3>3. QED
        BY <1>2, <3>1, <3>2 DEF p
  <2>8. QED
    <3>1. Len(p) = Len(q) + 1
        BY <1>2 DEF p
    <3>2. FlattenSeq(p) = f[Len(q)] \o t
        BY <1>3, <2>7, <3>1
    <3>3. QED
        BY <1>1, <2>2, <2>6, <3>2 DEF p
<1>6. QED
    BY <1>1, <1>4, <1>5 DEF p

\* Where the elements of a concatenation come from: those of the i-th sequence follow start[i].
Places(q, start) ==
    /\ start \in [1..Len(q) + 1 -> Nat]
    /\ start[1] = 0 /\ start[Len(q) + 1] = Len(FlattenSeq(q))
    /\ \A i \in 1..Len(q) :
         /\ start[i + 1] = start[i] + Len(q[i])
         /\ start[i + 1] <= Len(FlattenSeq(q))
         /\ \A c \in 1..Len(q[i]) : FlattenSeq(q)[start[i] + c] = q[i][c]
    /\ \A p \in 1..Len(FlattenSeq(q)) :
         \E i \in 1..Len(q) : \E c \in 1..Len(q[i]) : p = start[i] + c
    /\ \A i, j \in 1..Len(q) + 1 : i <= j => start[i] <= start[j]

LEMMA FlattenPlaces ==
    ASSUME NEW S, NEW q \in Seq(Seq(S))
    PROVE  FlattenSeq(q) \in Seq(S) /\ \E start : Places(q, start)
<1> DEFINE Fine(r) == FlattenSeq(r) \in Seq(S) /\ \E start : Places(r, start)
           N == {n \in Nat : \A r \in Seq(Seq(S)) : Len(r) = n => Fine(r)}
<1>1. 0 \in N
  <2>1. ASSUME NEW r \in Seq(Seq(S)), Len(r) = 0 PROVE Fine(r)
    <3>1. r = << >>
        BY <2>1, EmptySeq
    <3>2. FlattenSeq(r) = << >>
        BY <3>1 DEF FlattenSeq
    <3> DEFINE start == [i \in 1..1 |-> 0]
    <3>3. Places(r, start)
        BY <2>1, <3>2 DEF Places
    <3>5. FlattenSeq(r) \in Seq(S)
        BY <3>2, EmptySeq
    <3> HIDE DEF start
    <3>6. QED
        BY <3>3, <3>5
  <2> HIDE DEF Fine
  <2>2. QED
      BY <2>1
<1>2. ASSUME NEW n \in N PROVE n + 1 \in N
  <2>1. ASSUME NEW r \in Seq(Seq(S)), Len(r) = n + 1 PROVE Fine(r)
    <3>0. n \in Nat
        OBVIOUS
    <3>1. PICK s \in Seq(Seq(S)), t \in Seq(S) : r = Append(s, t)
      <4>1. r # << >>
          BY <2>1, <3>0, EmptySeq
      <4>2. QED
          BY <4>1, SequenceEmptyOrAppend
    <3>2. /\ Len(s) = n /\ r[n + 1] = t /\ \A i \in 1..n : r[i] = s[i]
      <4>1. Len(r) = Len(s) + 1 /\ r[Len(s) + 1] = t /\ \A i \in 1..Len(s) : r[i] = s[i] /\ Len(s) \in Nat
          BY <3>1, AppendProperties, LenProperties
      <4>2. Len(s) = n
          BY <2>1, <3>0, <3>1, <4>1, AppendProperties, LenProperties
      <4>3. QED
          BY <4>1, <4>2
    <3>3. Fine(s)
        BY <3>2
    <3> HIDE DEF N
    <3>15. PICK begin : Places(s, begin)
        BY <3>3
    <3>4. /\ begin \in [1..n + 1 -> Nat] /\ begin[1] = 0 /\ begin[n + 1] = Len(FlattenSeq(s))
          /\ \A i \in 1..n : /\ begin[i + 1] = begin[i] + Len(s[i]) /\ begin[i + 1] <= Len(FlattenSeq(s))
                            /\ \A c \in 1..Len(s[i]) : FlattenSeq(s)[begin[i] + c] = s[i][c]
          /\ \A p \in 1..Len(FlattenSeq(s)) : \E i \in 1..n : \E c \in 1..Len(s[i]) : p = begin[i] + c
          /\ \A i, j \in 1..n + 1 : i <= j => begin[i] <= begin[j]
        BY <3>2, <3>15 DEF Places
    <3>5. FlattenSeq(r) = FlattenSeq(s) \o t
        BY <3>1, FlattenAppend
    <3> DEFINE fs == FlattenSeq(s)
               fr == FlattenSeq(r)
               start == [i \in 1..n + 2 |-> IF i <= n + 1 THEN begin[i] ELSE begin[n + 1] + Len(t)]
    <3>20. fs \in Seq(S) /\ fr = fs \o t
        BY <3>3, <3>5
    <3> HIDE DEF fs, fr
    <3>6. fr \in Seq(S) /\ Len(fr) = Len(fs) + Len(t) /\ Len(t) \in Nat /\ Len(fs) \in Nat
        BY <3>20, ConcatProperties, LenProperties
    <3>16. \A k \in 1..Len(fs) : fr[k] = fs[k]
        BY <3>6, <3>20, ConcatProperties
    <3>17. ASSUME NEW k \in 1..Len(t) PROVE fr[Len(fs) + k] = t[k]
      <4>1. Len(fs) + k \in 1..Len(fs) + Len(t) /\ ~(Len(fs) + k <= Len(fs)) /\ (Len(fs) + k) - Len(fs) = k
          BY <3>6
      <4>2. QED
          BY <3>20, <4>1, ConcatProperties
    <3>7. start \in [1..n + 2 -> Nat]
        BY <3>0, <3>4, <3>6
    <3>8. start[n + 1] = Len(fs) /\ start[n + 2] = Len(fr) /\ start[1] = 0
        BY <3>0, <3>2, <3>4, <3>6 DEF fs
    <3>9. \A i \in 1..n + 1 : /\ start[i + 1] = start[i] + Len(r[i])
                             /\ start[i + 1] <= Len(fr)
                             /\ \A c \in 1..Len(r[i]) : fr[start[i] + c] = r[i][c]
      <4>1. ASSUME NEW i \in 1..n
            PROVE  /\ start[i + 1] = start[i] + Len(r[i])
                   /\ start[i + 1] <= Len(fr)
                   /\ \A c \in 1..Len(r[i]) : fr[start[i] + c] = r[i][c]
        <5>1. begin[i + 1] = begin[i] + Len(s[i]) /\ begin[i + 1] <= Len(fs)
            BY <3>0, <3>2, <3>4 DEF fs
        <5>6. \A c \in 1..Len(s[i]) : fs[begin[i] + c] = s[i][c]
            BY <3>0, <3>2, <3>4 DEF fs
        <5>2. start[i] = begin[i] /\ start[i + 1] = begin[i + 1] /\ r[i] = s[i] /\ begin[i] \in Nat /\ begin[i + 1] \in Nat
          <6>1. i \in 1..n + 1 /\ i + 1 \in 1..n + 1
              BY <3>0
          <6>2. begin[i] \in Nat /\ begin[i + 1] \in Nat
              BY <3>4, <6>1
          <6>3. start[i] = begin[i] /\ start[i + 1] = begin[i + 1]
              BY <3>2, <6>1
          <6>4. r[i] = s[i]
              BY <3>0, <3>2
          <6>5. QED
              BY <6>2, <6>3, <6>4
        <5>3. Len(s[i]) \in Nat
            BY <3>0, <3>2, ElementOfSeq, LenProperties
        <5> HIDE DEF start
        <5>4. ASSUME NEW c \in 1..Len(s[i]) PROVE begin[i] + c \in 1..Len(fs)
          <6>1. \A b, l, m \in Nat : b + l <= m => \A k \in 1..l : b + k \in 1..m
              OBVIOUS
          <6>2. begin[i] + Len(s[i]) <= Len(fs)
              BY <5>1
          <6>3. QED
              BY <5>2, <5>3, <3>6, <6>1, <6>2
        <5>7. ASSUME NEW c \in 1..Len(s[i]) PROVE fr[start[i] + c] = r[i][c]
          <6>1. begin[i] + c \in 1..Len(fs)
              BY <5>4
          <6>2. fr[begin[i] + c] = fs[begin[i] + c]
              BY <3>16, <6>1
          <6>3. QED
              BY <5>2, <5>6, <6>2
        <5>5. QED
            BY <5>1, <5>2, <5>7, <3>6
      <4>2. /\ start[n + 2] = start[n + 1] + Len(r[n + 1])
            /\ \A c \in 1..Len(r[n + 1]) : fr[start[n + 1] + c] = r[n + 1][c]
          BY <3>2, <3>17, <3>8, <3>6
      <4>4. start[n + 2] <= Len(fr)
          BY <3>6, <3>8
      <4> HIDE DEF start
      <4>3. ASSUME NEW i \in 1..n + 1
            PROVE  /\ start[i + 1] = start[i] + Len(r[i])
                   /\ start[i + 1] <= Len(fr)
                   /\ \A c \in 1..Len(r[i]) : fr[start[i] + c] = r[i][c]
        <5>1. CASE i \in 1..n
            BY <4>1, <5>1
        <5>2. CASE i = n + 1
          <6>1. i + 1 = n + 2
              BY <3>0, <5>2
          <6>2. QED
              BY <4>2, <4>4, <5>2, <6>1
        <5>3. QED
            BY <3>0, <5>1, <5>2
      <4>5. QED
          BY <4>3
    <3>10. \A p \in 1..Len(fr) : \E i \in 1..n + 1 : \E c \in 1..Len(r[i]) : p = start[i] + c
      <4>1. ASSUME NEW p \in 1..Len(fr) PROVE \E i \in 1..n + 1 : \E c \in 1..Len(r[i]) : p = start[i] + c
        <5>1. CASE p <= Len(fs)
          <6>1. p \in 1..Len(fs)
              BY <5>1, <3>6
          <6>2. PICK i \in 1..n : \E c \in 1..Len(s[i]) : p = begin[i] + c
              BY <3>0, <3>2, <3>4, <6>1 DEF fs
          <6>3. start[i] = begin[i] /\ r[i] = s[i]
              BY <3>0, <3>2
          <6> HIDE DEF start
          <6>5. PICK c \in 1..Len(s[i]) : p = begin[i] + c
              BY <6>2
          <6>6. i \in 1..n + 1 /\ c \in 1..Len(r[i]) /\ p = start[i] + c
              BY <3>0, <6>3, <6>5
          <6>4. QED
              BY <6>6
        <5>2. CASE p > Len(fs)
          <6> HIDE DEF start
          <6>1. p - Len(fs) \in 1..Len(r[n + 1])
              BY <5>2, <3>2, <3>6
          <6>2. p = start[n + 1] + (p - Len(fs))
              BY <3>6, <3>8
          <6>3. QED
              BY <3>0, <6>1, <6>2
        <5>3. p <= Len(fs) \/ p > Len(fs)
            BY <3>6
        <5>4. QED
            BY <5>1, <5>2, <5>3
      <4>2. QED
          BY <4>1
    <3>11. \A i, j \in 1..n + 2 : i <= j => start[i] <= start[j]
      <4>1. \A i, j \in 1..n + 1 : i <= j => begin[i] <= begin[j]
          BY <3>2, <3>4
      <4>2. \A i \in 1..n + 1 : begin[i] \in Nat /\ begin[i] <= begin[n + 1]
          BY <3>0, <3>4, <4>1
      <4>3. QED
          BY <3>0, <3>6, <4>1, <4>2
    <3>12. Len(r) + 1 = n + 2
        BY <2>1, <3>0
    <3> HIDE DEF start
    <3>13. Places(r, start)
        BY <2>1, <3>0, <3>7, <3>8, <3>9, <3>10, <3>11, <3>12 DEF fr, Places
    <3>14. QED
        BY <3>6, <3>13 DEF fr
  <2> HIDE DEF Fine
  <2>2. QED
      BY <2>1
<1>3. N = Nat
  <2> HIDE DEF N
  <2>1. N \subseteq Nat
      BY DEF N
  <2>2. QED
      BY <1>1, <1>2, <2>1, Booting!SetInduction
<1>4. Len(q) \in Nat
    BY LenProperties
<1>5. Fine(q)
    BY <1>3, <1>4
<1>6. QED
    BY <1>5

-----------------------------------------------------------------------------
(* The members of a sequence at some positions. *)

\* Nothing has no members anywhere.
LEMMA EmptyAt == \A I : At(<< >>, I) = << >>
<1> SUFFICES ASSUME NEW I PROVE At(<< >>, I) = << >>
    OBVIOUS
<1>1. [i \in DOMAIN << >> |-> IF i \in I THEN << << >>[i] >> ELSE << >>] = << >>
    OBVIOUS
<1>2. FlattenSeq(<< >>) = << >>
    BY DEF FlattenSeq
<1>3. QED
    BY <1>1, <1>2 DEF At

\* A sequence with one member more has that member at its end, if the position counts.
LEMMA AtAppend ==
    ASSUME NEW S, NEW s \in Seq(S), NEW x \in S, NEW I
    PROVE  /\ At(<< >>, I) = << >>
           /\ At(Append(s, x), I) = At(s, I) \o (IF Len(s) + 1 \in I THEN <<x>> ELSE << >>)
<1> DEFINE Piece(r, i) == IF i \in I THEN <<r[i]>> ELSE << >>
           Pieces(r) == [i \in DOMAIN r |-> Piece(r, i)]
           a == Append(s, x)
<1>1. \A r : At(r, I) = FlattenSeq(Pieces(r))
    BY DEF At
<1>2. At(<< >>, I) = << >>
  <2>1. Pieces(<< >>) = << >>
      OBVIOUS
  <2>2. FlattenSeq(<< >>) = << >>
      BY DEF FlattenSeq
  <2>3. QED
      BY <1>1, <2>1, <2>2
<1>3. /\ a \in Seq(S) /\ DOMAIN a = 1..Len(s) + 1 /\ a[Len(s) + 1] = x /\ DOMAIN s = 1..Len(s)
      /\ Len(s) \in Nat /\ \A i \in 1..Len(s) : a[i] = s[i]
    BY AppendProperties, LenProperties
<1>4. \A i \in 1..Len(s) : Piece(s, i) \in Seq(S)
  <2>1. \A i \in 1..Len(s) : s[i] \in S
      BY ElementOfSeq
  <2>2. QED
      BY <2>1
<1>5. Pieces(s) \in Seq(Seq(S))
  <2> HIDE DEF Piece
  <2>1. Pieces(s) \in [1..Len(s) -> Seq(S)]
      BY <1>3, <1>4
  <2>2. QED
      BY <1>3, <2>1, SeqDef
<1>6. Piece(a, Len(s) + 1) \in Seq(S)
    BY <1>3
<1>7. Pieces(a) = Append(Pieces(s), Piece(a, Len(s) + 1))
  <2> DEFINE p == Append(Pieces(s), Piece(a, Len(s) + 1))
  <2>1. Len(Pieces(s)) = Len(s)
      BY <1>3, <1>5, LenProperties
  <2>2. /\ p \in Seq(Seq(S)) /\ Len(p) = Len(s) + 1
        /\ \A i \in 1..Len(s) : p[i] = Pieces(s)[i]
        /\ p[Len(s) + 1] = Piece(a, Len(s) + 1)
    <3> HIDE DEF Pieces, Piece, a
    <3>1. QED
        BY <1>5, <1>6, <2>1, AppendProperties
  <2> HIDE DEF p
  <2>3. DOMAIN p = 1..Len(s) + 1 /\ p = [i \in 1..Len(s) + 1 |-> p[i]]
      BY <2>2, LenProperties
  <2>4. \A i \in 1..Len(s) : Piece(a, i) = Piece(s, i)
      BY <1>3
  <2>5. \A i \in 1..Len(s) + 1 : p[i] = Piece(a, i)
    <3>1. \A i \in 1..Len(s) : p[i] = Piece(s, i)
        BY <1>3, <2>2
    <3> HIDE DEF Piece, Pieces, a
    <3>2. ASSUME NEW i \in 1..Len(s) + 1 PROVE p[i] = Piece(a, i)
      <4>1. CASE i = Len(s) + 1
          BY <2>2, <4>1
      <4>2. CASE i \in 1..Len(s)
          BY <2>4, <3>1, <4>2
      <4>3. i = Len(s) + 1 \/ i \in 1..Len(s)
          BY <1>3, <3>2
      <4>4. QED
          BY <4>1, <4>2, <4>3
    <3>3. QED
        BY <3>2
  <2> HIDE DEF Piece, a
  <2>6. Pieces(a) = [i \in 1..Len(s) + 1 |-> Piece(a, i)]
      BY <1>3
  <2> HIDE DEF Pieces
  <2>7. [i \in 1..Len(s) + 1 |-> p[i]] = [i \in 1..Len(s) + 1 |-> Piece(a, i)]
      BY <2>5
  <2>8. Pieces(a) = p
      BY <2>3, <2>6, <2>7
  <2>9. QED
      BY <2>8 DEF p
<1>8. FlattenSeq(Pieces(a)) = FlattenSeq(Pieces(s)) \o Piece(a, Len(s) + 1)
  <2> HIDE DEF Pieces, Piece, a
  <2>1. QED
      BY <1>5, <1>6, <1>7, FlattenAppend
<1>9. Piece(a, Len(s) + 1) = IF Len(s) + 1 \in I THEN <<x>> ELSE << >>
    BY <1>3
<1> HIDE DEF Piece
<1>10. At(a, I) = At(s, I) \o Piece(a, Len(s) + 1)
    BY <1>1, <1>8
<1>11. QED
    BY <1>2, <1>9, <1>10 DEF Piece

\* Which members those are: their places ascend and are all the places that count.
Embeds(s, I, t, e) ==
    /\ e \in [1..Len(t) -> DOMAIN s]
    /\ \A k \in 1..Len(t) : e[k] \in I /\ t[k] = s[e[k]]
    /\ \A k, l \in 1..Len(t) : k < l => e[k] < e[l]
    /\ \A i \in DOMAIN s : i \in I => \E k \in 1..Len(t) : e[k] = i

LEMMA AtEmbeds ==
    ASSUME NEW S, NEW s \in Seq(S), NEW I
    PROVE  At(s, I) \in Seq(S) /\ \E e : Embeds(s, I, At(s, I), e)
<1> DEFINE Fine(r) == At(r, I) \in Seq(S) /\ \E e : Embeds(r, I, At(r, I), e)
           N == {n \in Nat : \A r \in Seq(S) : Len(r) = n => Fine(r)}
<1>1. 0 \in N
  <2>1. ASSUME NEW r \in Seq(S), Len(r) = 0 PROVE Fine(r)
    <3>1. r = << >> /\ DOMAIN r = {}
        BY <2>1, EmptySeq, LenProperties
    <3>2. At(r, I) = << >>
        BY <3>1 DEF At, FlattenSeq
    <3>3. Embeds(r, I, << >>, << >>)
        BY <3>1 DEF Embeds
    <3>4. QED
        BY <3>2, <3>3, EmptySeq
  <2> HIDE DEF Fine
  <2>2. QED
      BY <2>1
<1>2. ASSUME NEW n \in N PROVE n + 1 \in N
  <2>1. ASSUME NEW r \in Seq(S), Len(r) = n + 1 PROVE Fine(r)
    <3>0. n \in Nat
        OBVIOUS
    <3>1. PICK s0 \in Seq(S), x \in S : r = Append(s0, x)
      <4>1. r # << >>
          BY <2>1, <3>0, EmptySeq
      <4>2. QED
          BY <4>1, SequenceEmptyOrAppend
    <3>2. /\ Len(s0) = n /\ r[n + 1] = x /\ \A i \in 1..n : r[i] = s0[i]
          /\ DOMAIN r = 1..n + 1 /\ DOMAIN s0 = 1..n
      <4>1. Len(r) = Len(s0) + 1 /\ r[Len(s0) + 1] = x /\ (\A i \in 1..Len(s0) : r[i] = s0[i]) /\ Len(s0) \in Nat
          BY <3>1, AppendProperties, LenProperties
      <4>2. Len(s0) = n
          BY <2>1, <3>0, <4>1
      <4>3. QED
          BY <2>1, <4>1, <4>2, LenProperties
    <3>3. Fine(s0)
        BY <3>2
    <3> HIDE DEF N
    <3> DEFINE a == At(s0, I)
               b == At(r, I)
    <3>4. a \in Seq(S) /\ Len(a) \in Nat
        BY <3>3, LenProperties
    <3>5. PICK e : Embeds(s0, I, a, e)
        BY <3>3
    <3>6. b = a \o (IF n + 1 \in I THEN <<x>> ELSE << >>)
      <4>1. At(Append(s0, x), I) = At(s0, I) \o (IF Len(s0) + 1 \in I THEN <<x>> ELSE << >>)
          BY AtAppend
      <4>2. QED
          BY <3>1, <3>2, <4>1
    <3> HIDE DEF a, b
    <3>7. CASE n + 1 \in I
      <4>1. b = Append(a, x)
          BY <3>4, <3>6, <3>7, AppendIsConcat
      <4>2. b \in Seq(S) /\ Len(b) = Len(a) + 1 /\ b[Len(a) + 1] = x /\ \A i \in 1..Len(a) : b[i] = a[i]
          BY <3>4, <4>1, AppendProperties
      <4> DEFINE f == [k \in 1..Len(a) + 1 |-> IF k <= Len(a) THEN e[k] ELSE n + 1]
      <4>3. /\ e \in [1..Len(a) -> 1..n]
            /\ \A k \in 1..Len(a) : e[k] \in I /\ a[k] = s0[e[k]]
            /\ \A k, l \in 1..Len(a) : k < l => e[k] < e[l]
            /\ \A i \in 1..n : i \in I => \E k \in 1..Len(a) : e[k] = i
          BY <3>2, <3>5 DEF Embeds
      <4>4. f \in [1..Len(b) -> DOMAIN r]
          BY <3>0, <3>2, <3>4, <4>2, <4>3
      <4>5. ASSUME NEW k \in 1..Len(a) PROVE f[k] = e[k] /\ e[k] \in 1..n
        <5>1. k \in 1..Len(a) + 1 /\ k <= Len(a)
            BY <3>4
        <5>2. f[k] = e[k]
            BY <5>1
        <5>3. QED
            BY <4>3, <5>2
      <4>6. f[Len(a) + 1] = n + 1
          BY <3>4
      <4> HIDE DEF f
      <4>7. \A k \in 1..Len(b) : f[k] \in I /\ b[k] = r[f[k]]
        <5>1. ASSUME NEW k \in 1..Len(a) PROVE f[k] \in I /\ b[k] = r[f[k]]
            BY <3>2, <4>2, <4>3, <4>5
        <5>2. f[Len(a) + 1] \in I /\ b[Len(a) + 1] = r[f[Len(a) + 1]]
            BY <3>2, <3>7, <4>2, <4>6
        <5>3. QED
            BY <3>4, <4>2, <5>1, <5>2
      <4>8. \A k, l \in 1..Len(b) : k < l => f[k] < f[l]
        <5>1. ASSUME NEW k \in 1..Len(b), NEW l \in 1..Len(b), k < l PROVE f[k] < f[l]
          <6>1. k \in 1..Len(a)
              BY <3>4, <4>2, <5>1
          <6>2. CASE l \in 1..Len(a)
              BY <4>3, <4>5, <5>1, <6>1, <6>2
          <6>3. CASE l = Len(a) + 1
              BY <3>0, <4>5, <4>6, <6>1, <6>3
          <6>4. QED
              BY <3>4, <4>2, <6>2, <6>3
        <5>2. QED
            BY <5>1
      <4>9. \A i \in 1..n + 1 : i \in I => \E k \in 1..Len(b) : f[k] = i
        <5>1. ASSUME NEW i \in 1..n, i \in I PROVE \E k \in 1..Len(b) : f[k] = i
          <6>1. PICK k \in 1..Len(a) : e[k] = i
              BY <4>3, <5>1
          <6>2. k \in 1..Len(b) /\ f[k] = i
              BY <3>4, <4>2, <4>5, <6>1
          <6>3. QED
              BY <6>2
        <5>2. Len(a) + 1 \in 1..Len(b)
            BY <3>4, <4>2
        <5>3. QED
            BY <3>0, <4>6, <5>1, <5>2
      <4>10. Embeds(r, I, b, f)
          BY <3>2, <4>4, <4>7, <4>8, <4>9 DEF Embeds
      <4>11. QED
          BY <4>2, <4>10 DEF b
    <3>8. CASE n + 1 \notin I
      <4>1. b = a
          BY <3>4, <3>6, <3>8, ConcatEmptySeq
      <4>3. /\ e \in [1..Len(a) -> 1..n]
            /\ \A k \in 1..Len(a) : e[k] \in I /\ a[k] = s0[e[k]]
            /\ \A k, l \in 1..Len(a) : k < l => e[k] < e[l]
            /\ \A i \in 1..n : i \in I => \E k \in 1..Len(a) : e[k] = i
          BY <3>2, <3>5 DEF Embeds
      <4>2. \A i \in 1..n : i \in 1..n + 1
          BY <3>0
      <4>4. e \in [1..Len(b) -> DOMAIN r]
          BY <3>2, <4>1, <4>2, <4>3
      <4>5. \A k \in 1..Len(b) : e[k] \in I /\ b[k] = r[e[k]]
          BY <3>2, <4>1, <4>3
      <4>6. \A i \in 1..n + 1 : i \in I => i \in 1..n
          BY <3>0, <3>8
      <4>7. Embeds(r, I, b, e)
          BY <3>2, <4>1, <4>3, <4>4, <4>5, <4>6 DEF Embeds
      <4>8. QED
          BY <3>4, <4>1, <4>7 DEF b
    <3>9. QED
        BY <3>7, <3>8
  <2> HIDE DEF Fine
  <2>2. QED
      BY <2>1
<1>3. N = Nat
  <2> HIDE DEF N
  <2>1. N \subseteq Nat
      BY DEF N
  <2>2. QED
      BY <1>1, <1>2, <2>1, Booting!SetInduction
<1>4. Len(s) \in Nat
    BY LenProperties
<1>5. Fine(s)
    BY <1>3, <1>4
<1>6. QED
    BY <1>5

-----------------------------------------------------------------------------
(* Frames, cells and files *)

\* What one frame logs.
FrameOps(f) == IF IsData(f) THEN [n \in 1..(f.last - f.first + 1) |-> f.op] ELSE << >>

LEMMA CellKinds ==
    ASSUME NEW c \in Cell
    PROVE  /\ IsData(c) => IsFrame(c)
           /\ IsFrame(c) <=> c \in Frame
           /\ IsFrame(c) => /\ c.kind \in {"data", "ckpt"} /\ c.group \in Nat /\ c.first \in Nat /\ c.last \in Nat
                            /\ c.op \in Nat /\ c.first <= c.last
           /\ Torn \in Cell /\ ~IsFrame(Torn) /\ ~IsData(Torn)
BY DEF Cell, Frame, Torn, IsData, IsFrame

LEMMA FrameOpsIs ==
    ASSUME NEW f \in Cell
    PROVE  /\ FrameOps(f) \in Seq(Nat)
           /\ Len(FrameOps(f)) = IF IsData(f) THEN f.last - f.first + 1 ELSE 0
           /\ \A k \in 1..Len(FrameOps(f)) : IsData(f) /\ FrameOps(f)[k] = f.op
<1>1. CASE IsData(f)
  <2>1. f.first \in Nat /\ f.last \in Nat /\ f.op \in Nat /\ f.first <= f.last
      BY <1>1, CellKinds
  <2> DEFINE n == f.last - f.first + 1
  <2>2. n \in Nat
      BY <2>1
  <2>3. FrameOps(f) = [k \in 1..n |-> f.op]
      BY <1>1 DEF FrameOps
  <2> HIDE DEF n
  <2>4. FrameOps(f) \in Seq(Nat) /\ Len(FrameOps(f)) = n
      BY <2>1, <2>2, <2>3
  <2>5. QED
      BY <1>1, <2>2, <2>3, <2>4 DEF n
<1>2. CASE ~IsData(f)
  <2>1. FrameOps(f) = << >>
      BY <1>2 DEF FrameOps
  <2>2. QED
      BY <1>2, <2>1, EmptySeq
<1>3. QED
    BY <1>1, <1>2

\* One frame more logs its operations after the others'.
LEMMA OpsAppend ==
    ASSUME NEW frames \in Seq(Cell), NEW f \in Cell
    PROVE  /\ OpsOf(<< >>) = << >>
           /\ OpsOf(Append(frames, f)) = OpsOf(frames) \o FrameOps(f)
<1> DEFINE Pieces(r) == [i \in DOMAIN r |-> FrameOps(r[i])]
           a == Append(frames, f)
<1>1. \A r : OpsOf(r) = FlattenSeq(Pieces(r))
    BY DEF OpsOf, FrameOps
<1>2. OpsOf(<< >>) = << >>
  <2>1. Pieces(<< >>) = << >>
      OBVIOUS
  <2>2. FlattenSeq(<< >>) = << >>
      BY DEF FlattenSeq
  <2>3. QED
      BY <1>1, <2>1, <2>2
<1>3. /\ a \in Seq(Cell) /\ DOMAIN a = 1..Len(frames) + 1 /\ a[Len(frames) + 1] = f
      /\ DOMAIN frames = 1..Len(frames) /\ Len(frames) \in Nat /\ \A i \in 1..Len(frames) : a[i] = frames[i]
    BY AppendProperties, LenProperties
<1>4. \A i \in 1..Len(frames) : FrameOps(frames[i]) \in Seq(Nat)
    BY ElementOfSeq, FrameOpsIs
<1>5. Pieces(frames) \in Seq(Seq(Nat))
  <2>1. Pieces(frames) \in [1..Len(frames) -> Seq(Nat)]
      BY <1>3, <1>4
  <2>2. QED
      BY <1>3, <2>1, SeqDef
<1>6. FrameOps(f) \in Seq(Nat)
    BY FrameOpsIs
<1>7. Pieces(a) = Append(Pieces(frames), FrameOps(f))
  <2> DEFINE p == Append(Pieces(frames), FrameOps(f))
  <2>1. Len(Pieces(frames)) = Len(frames)
      BY <1>3, <1>5, LenProperties
  <2>2. /\ p \in Seq(Seq(Nat)) /\ Len(p) = Len(frames) + 1
        /\ \A i \in 1..Len(frames) : p[i] = Pieces(frames)[i]
        /\ p[Len(frames) + 1] = FrameOps(f)
    <3> HIDE DEF Pieces, a
    <3>1. QED
        BY <1>5, <1>6, <2>1, AppendProperties
  <2> HIDE DEF p
  <2>3. DOMAIN p = 1..Len(frames) + 1 /\ p = [i \in 1..Len(frames) + 1 |-> p[i]]
      BY <2>2, LenProperties
  <2>5. \A i \in 1..Len(frames) + 1 : p[i] = FrameOps(a[i])
    <3>1. \A i \in 1..Len(frames) : p[i] = FrameOps(a[i])
        BY <1>3, <2>2
    <3>2. p[Len(frames) + 1] = FrameOps(a[Len(frames) + 1])
        BY <1>3, <2>2
    <3> HIDE DEF Pieces, a
    <3>3. \A i \in 1..Len(frames) + 1 : i \in 1..Len(frames) \/ i = Len(frames) + 1
        BY <1>3
    <3>4. QED
        BY <3>1, <3>2, <3>3
  <2> HIDE DEF a
  <2>6. Pieces(a) = [i \in 1..Len(frames) + 1 |-> FrameOps(a[i])]
      BY <1>3
  <2> HIDE DEF Pieces
  <2>7. [i \in 1..Len(frames) + 1 |-> p[i]] = [i \in 1..Len(frames) + 1 |-> FrameOps(a[i])]
      BY <2>5
  <2>8. Pieces(a) = p
      BY <2>3, <2>6, <2>7
  <2>9. QED
      BY <2>8 DEF p
<1>8. FlattenSeq(Pieces(a)) = FlattenSeq(Pieces(frames)) \o FrameOps(f)
  <2> HIDE DEF Pieces, a
  <2>1. QED
      BY <1>5, <1>6, <1>7, FlattenAppend
<1>9. QED
    BY <1>1, <1>2, <1>8

\* Every operation that frames log is that of a data frame among them.
LEMMA OpsAre ==
    ASSUME NEW frames \in Seq(Cell)
    PROVE  /\ OpsOf(frames) \in Seq(Nat)
           /\ \A k \in 1..Len(OpsOf(frames)) :
                \E i \in 1..Len(frames) : IsData(frames[i]) /\ OpsOf(frames)[k] = frames[i].op
<1> DEFINE q == [i \in DOMAIN frames |-> FrameOps(frames[i])]
<1>1. OpsOf(frames) = FlattenSeq(q)
    BY DEF OpsOf, FrameOps
<1>2. DOMAIN frames = 1..Len(frames) /\ Len(frames) \in Nat
    BY LenProperties
<1>3. \A i \in 1..Len(frames) : frames[i] \in Cell /\ FrameOps(frames[i]) \in Seq(Nat)
    BY ElementOfSeq, FrameOpsIs
<1>4. q \in Seq(Seq(Nat)) /\ Len(q) = Len(frames) /\ \A i \in 1..Len(frames) : q[i] = FrameOps(frames[i])
  <2>1. q \in [1..Len(frames) -> Seq(Nat)]
      BY <1>2, <1>3
  <2>2. q \in Seq(Seq(Nat))
      BY <1>2, <2>1, SeqDef
  <2>3. DOMAIN q = 1..Len(frames)
      BY <1>2
  <2>4. \A i \in 1..Len(frames) : q[i] = FrameOps(frames[i])
      BY <1>2
  <2> HIDE DEF q
  <2>5. Len(q) = Len(frames)
      BY <1>2, <2>2, <2>3, LenProperties
  <2>6. QED
      BY <2>2, <2>4, <2>5
<1> HIDE DEF q
<1>10. PICK start : Places(q, start)
    BY <1>4, FlattenPlaces
<1>5. /\ \A i \in 1..Len(q) : \A c \in 1..Len(q[i]) : FlattenSeq(q)[start[i] + c] = q[i][c]
      /\ \A p \in 1..Len(FlattenSeq(q)) : \E i \in 1..Len(q) : \E c \in 1..Len(q[i]) : p = start[i] + c
    BY <1>10 DEF Places
<1>6. ASSUME NEW k \in 1..Len(OpsOf(frames))
      PROVE  \E i \in 1..Len(frames) : IsData(frames[i]) /\ OpsOf(frames)[k] = frames[i].op
  <2>1. PICK i \in 1..Len(q) : \E c \in 1..Len(q[i]) : k = start[i] + c
      BY <1>1, <1>5
  <2>2. PICK c \in 1..Len(q[i]) : k = start[i] + c
      BY <2>1
  <2>3. OpsOf(frames)[k] = q[i][c]
      BY <1>1, <1>5, <2>2
  <2>4. i \in 1..Len(frames) /\ q[i] = FrameOps(frames[i]) /\ frames[i] \in Cell
      BY <1>3, <1>4
  <2>5. IsData(frames[i]) /\ q[i][c] = frames[i].op
      BY <2>2, <2>4, FrameOpsIs
  <2>6. QED
      BY <2>3, <2>4, <2>5
<1>7. OpsOf(frames) \in Seq(Nat)
    BY <1>1, <1>4, FlattenPlaces
<1>8. QED
    BY <1>6, <1>7

\* No frames log no operation.
LEMMA EmptyOps == OpsOf(<< >>) = << >>
<1>1. [i \in DOMAIN << >> |->
         IF IsData(<< >>[i]) THEN [n \in 1..(<< >>[i].last - << >>[i].first + 1) |-> << >>[i].op] ELSE << >>] = << >>
    OBVIOUS
<1>2. FlattenSeq(<< >>) = << >>
    BY DEF FlattenSeq
<1>3. QED
    BY <1>1, <1>2 DEF OpsOf

\* Frames whose numbers continue each other from base log one operation per number.
LEMMA NumberedOps ==
    ASSUME NEW frames \in Seq(Cell), NEW base \in Nat,
           \A i \in 1..Len(frames) : IsData(frames[i]) =>
               frames[i].first = base + Len(OpsOf(SubSeq(frames, 1, i - 1)))
    PROVE  \A k \in 1..Len(OpsOf(frames)) :
               \E i \in 1..Len(frames) :
                   /\ IsData(frames[i]) /\ base + k - 1 \in frames[i].first..frames[i].last
                   /\ OpsOf(frames)[k] = frames[i].op
<1> DEFINE pre(n) == SubSeq(frames, 1, n)
           Good(n) == \A k \in 1..Len(OpsOf(pre(n))) :
                        \E i \in 1..n :
                           /\ IsData(frames[i]) /\ base + k - 1 \in frames[i].first..frames[i].last
                           /\ OpsOf(pre(n))[k] = frames[i].op
           N == {n \in Nat : n <= Len(frames) => Good(n)}
<1>0. Len(frames) \in Nat
    BY LenProperties
<1>1. 0 \in N
  <2>1. pre(0) = << >>
      BY SubSeqEmpty
  <2>2. OpsOf(<< >>) = << >>
      BY EmptyOps
  <2>3. Good(0)
    <3>1. OpsOf(pre(0)) = << >>
        BY <2>1, <2>2, Zenon
    <3> HIDE DEF pre
    <3>2. 1..Len(OpsOf(pre(0))) = {}
        BY <3>1
    <3>3. QED
        BY <3>2
  <2> HIDE DEF Good
  <2>4. QED
      BY <2>3
<1>2. ASSUME NEW n \in N PROVE n + 1 \in N
  <2>1. n \in Nat /\ (n <= Len(frames) => Good(n))
      OBVIOUS
  <2>2. SUFFICES ASSUME n + 1 <= Len(frames) PROVE Good(n + 1)
      BY <2>1
  <2> HIDE DEF N
  <2>3. n \in 0..Len(frames) - 1 /\ n + 1 \in 1..Len(frames)
      BY <1>0, <2>1, <2>2
  <2> DEFINE f == frames[n + 1]
             o == OpsOf(pre(n))
  <2>4. /\ pre(n) \in Seq(Cell) /\ f \in Cell /\ pre(n + 1) = Append(pre(n), f)
      BY <2>3, AppendLast
  <2>5. OpsOf(pre(n + 1)) = o \o FrameOps(f)
    <3> HIDE DEF pre, f
    <3>1. QED
        BY <2>4, OpsAppend DEF o
  <2>6. o \in Seq(Nat) /\ FrameOps(f) \in Seq(Nat) /\ Len(o) \in Nat /\ Len(FrameOps(f)) \in Nat
    <3> HIDE DEF pre, f
    <3>1. o \in Seq(Nat) /\ FrameOps(f) \in Seq(Nat)
        BY <2>4, OpsAre, FrameOpsIs DEF o
    <3>2. QED
        BY <3>1, LenProperties
  <2>7. IsData(f) => f.first = base + Len(o)
    <3>1. (n + 1) - 1 = n
        BY <2>1
    <3>2. QED
        BY <2>3, <3>1
  <2>8. Good(n)
      BY <1>0, <2>1, <2>2
  <2>9. /\ IsData(f) => f.first \in Nat /\ f.last \in Nat
        /\ Len(FrameOps(f)) = IF IsData(f) THEN f.last - f.first + 1 ELSE 0
        /\ \A k \in 1..Len(FrameOps(f)) : IsData(f) /\ FrameOps(f)[k] = f.op
    <3> HIDE DEF f
    <3>1. QED
        BY <2>4, CellKinds, FrameOpsIs
  <2> DEFINE p == OpsOf(pre(n + 1))
  <2> HIDE DEF o
  <2>10. /\ Len(p) = Len(o) + Len(FrameOps(f))
         /\ \A k \in 1..Len(o) + Len(FrameOps(f)) : p[k] = IF k <= Len(o) THEN o[k] ELSE FrameOps(f)[k - Len(o)]
    <3> HIDE DEF p, pre, f
    <3>1. p = o \o FrameOps(f)
        BY <2>5 DEF p
    <3>2. QED
        BY <2>6, <3>1, ConcatProperties
  <2>11. ASSUME NEW k \in 1..Len(p)
         PROVE  \E i \in 1..n + 1 : /\ IsData(frames[i]) /\ base + k - 1 \in frames[i].first..frames[i].last
                                    /\ p[k] = frames[i].op
    <3> HIDE DEF p
    <3>1. CASE k <= Len(o)
      <4>1. p[k] = o[k] /\ k \in 1..Len(o)
          BY <2>6, <2>10, <3>1
      <4>2. PICK i \in 1..n : /\ IsData(frames[i]) /\ base + k - 1 \in frames[i].first..frames[i].last
                              /\ o[k] = frames[i].op
          BY <2>8, <4>1 DEF o
      <4>3. i \in 1..n + 1
          BY <2>1
      <4>4. QED
          BY <4>1, <4>2, <4>3
    <3>2. CASE k > Len(o)
      <4>1. k - Len(o) \in 1..Len(FrameOps(f)) /\ p[k] = FrameOps(f)[k - Len(o)]
        <5> HIDE DEF f
        <5>1. QED
            BY <2>6, <2>10, <3>2
      <4>2. IsData(f) /\ p[k] = f.op /\ f.first = base + Len(o) /\ Len(FrameOps(f)) = f.last - f.first + 1
        <5> HIDE DEF f
        <5>1. QED
            BY <2>7, <2>9, <4>1
      <4>3. base + k - 1 \in f.first..f.last
        <5> HIDE DEF f
        <5>1. QED
            BY <2>6, <2>9, <4>1, <4>2
      <4>4. n + 1 \in 1..n + 1
          BY <2>1
      <4>5. QED
          BY <4>2, <4>3, <4>4
    <3>3. Len(o) \in Nat /\ k \in Nat
        BY <2>6, <2>10
    <3>4. QED
        BY <3>1, <3>2, <3>3
  <2>12. QED
      BY <2>11
<1>3. N = Nat
  <2> HIDE DEF N
  <2>1. N \subseteq Nat
      BY DEF N
  <2>2. QED
      BY <1>1, <1>2, <2>1, Booting!SetInduction
<1>4. Good(Len(frames))
  <2> HIDE DEF Good
  <2>1. QED
      BY <1>0, <1>3
<1>5. pre(Len(frames)) = frames
    BY SubSeqFull
<1> HIDE DEF pre
<1>6. QED
    BY <1>4, <1>5

-----------------------------------------------------------------------------
(* What the disk operations do to a file. *)

\* Page cache and device agree on cell i, which no sync will write.
Agrees(f, i) == i \notin f.dirty /\ i <= Len(f.dev) /\ f.mem[i] = f.dev[i]
\* Cell c of the file is this one, for a reader or on the device.
Holds(f, c, cell) ==
    \/ c \in 1..Len(f.mem) /\ f.mem[c] = cell
    \/ c \in 1..Len(f.dev) /\ f.dev[c] = cell
\* The file gets no other cells.
NoMore(f, g) == \A c, cell : Holds(g, c, cell) => Holds(f, c, cell) \/ cell = Torn

LEMMA FileFields ==
    ASSUME NEW f \in WalFile
    PROVE  /\ f.first \in Nat /\ f.mem \in Seq(Cell) /\ f.dev \in Seq(Cell) /\ f.dirty \in SUBSET Nat
           /\ f.linked \in BOOLEAN
           /\ Len(f.mem) \in Nat /\ Len(f.dev) \in Nat
           /\ DOMAIN f.mem = 1..Len(f.mem) /\ DOMAIN f.dev = 1..Len(f.dev)
           /\ \A c \in 1..Len(f.mem) : f.mem[c] \in Cell
           /\ \A c \in 1..Len(f.dev) : f.dev[c] \in Cell
<1>1. f.first \in Nat /\ f.mem \in Seq(Cell) /\ f.dev \in Seq(Cell) /\ f.dirty \in SUBSET Nat /\ f.linked \in BOOLEAN
    BY DEF WalFile
<1>2. QED
    BY <1>1, LenProperties, ElementOfSeq

LEMMA CleanIs ==
    ASSUME NEW f \in WalFile
    PROVE  /\ Clean(f) \in 0..Len(f.mem)
           /\ \A i \in 1..Clean(f) : Agrees(f, i)
           /\ \A n \in 0..Len(f.mem) : (\A i \in 1..n : Agrees(f, i)) => n <= Clean(f)
<1> DEFINE m == Len(f.mem)
           Is(k) == (\A i \in 1..k : Agrees(f, i)) /\ (k < m => ~Agrees(f, k + 1))
<1>1. m \in Nat /\ Len(f.dev) \in Nat
    BY FileFields
<1>2. \E k \in 0..m : Is(k)
  <2> DEFINE T == {i \in 1..m : ~Agrees(f, i)}
  <2>1. T \in SUBSET (1..m)
      OBVIOUS
  <2>2. \E k \in 0..m : (\A i \in 1..k : i \notin T) /\ (k < m => k + 1 \in T)
    <3> HIDE DEF T, m
    <3>1. QED
        BY <1>1, <2>1, LongestPrefix
  <2>3. PICK k \in 0..m : (\A i \in 1..k : i \notin T) /\ (k < m => k + 1 \in T)
      BY <2>2
  <2>4. \A i \in 1..k : i \in 1..m
      BY <1>1, <2>3
  <2>5. Is(k)
      BY <2>3, <2>4
  <2> HIDE DEF Is, m
  <2>6. QED
      BY <2>3, <2>5
<1>3. Clean(f) = CHOOSE k \in 0..m : Is(k)
  <2>1. \A k \in 0..m : Is(k) <=>
          /\ \A i \in 1..k : i \notin f.dirty /\ i <= Len(f.dev) /\ f.mem[i] = f.dev[i]
          /\ k < m => \/ k + 1 \in f.dirty
                      \/ k + 1 > Len(f.dev)
                      \/ f.mem[k + 1] # f.dev[k + 1]
      BY <1>1 DEF Agrees
  <2> HIDE DEF Is
  <2>2. QED
      BY <2>1 DEF Clean
<1>4. Clean(f) \in 0..m /\ Is(Clean(f))
  <2> HIDE DEF Is
  <2>1. QED
      BY <1>2, <1>3
<1>5. ASSUME NEW n \in 0..m, \A i \in 1..n : Agrees(f, i)
      PROVE  n <= Clean(f)
  <2>1. CASE Clean(f) < n
    <3>1. Clean(f) + 1 \in 1..n /\ Clean(f) < m
        BY <1>1, <1>4, <2>1
    <3>2. QED
        BY <1>4, <1>5, <3>1
  <2>2. QED
      BY <1>1, <1>4, <2>1
<1>6. QED
    BY <1>4, <1>5

\* What the device holds after a crash: the clean cells, and of the others what it had or should get.
LEMMA WritebackIs ==
    ASSUME NEW f \in WalFile, NEW d \in Writebacks(f)
    PROVE  /\ d \in Seq(Cell) /\ Clean(f) <= Len(d) /\ Len(d) \in Nat
           /\ \A i \in 1..Clean(f) : d[i] = f.dev[i]
           /\ \A i \in 1..Len(d) : Holds(f, i, d[i]) \/ d[i] = Torn
<1> DEFINE clean == Clean(f)
           longest == IF Len(f.mem) > Len(f.dev) THEN Len(f.mem) ELSE Len(f.dev)
           may(i) == {Torn} \cup (IF i <= Len(f.mem) THEN {f.mem[i]} ELSE {})
                            \cup (IF i <= Len(f.dev) THEN {f.dev[i]} ELSE {})
           beyond(len) == {g \in [clean+1..len -> UNION {may(i) : i \in clean+1..len}] :
                             \A i \in clean+1..len : g[i] \in may(i)}
<1>1. \E len \in clean..longest : \E g \in beyond(len) :
        d = [i \in 1..len |-> IF i <= clean THEN f.dev[i] ELSE g[i]]
    BY DEF Writebacks
<1>13. PICK len \in clean..longest : \E g \in beyond(len) :
        d = [i \in 1..len |-> IF i <= clean THEN f.dev[i] ELSE g[i]]
    BY <1>1
<1>2. PICK g \in beyond(len) : d = [i \in 1..len |-> IF i <= clean THEN f.dev[i] ELSE g[i]]
    BY <1>13
<1>3. \A i \in clean+1..len : g[i] \in may(i)
    BY <1>2
<1>4. clean \in Nat /\ clean <= Len(f.mem) /\ Len(f.mem) \in Nat /\ Len(f.dev) \in Nat /\ clean <= Len(f.dev)
  <2>1. clean \in 0..Len(f.mem) /\ \A i \in 1..clean : i <= Len(f.dev)
      BY CleanIs DEF Agrees
  <2>2. Len(f.mem) \in Nat /\ Len(f.dev) \in Nat
      BY FileFields
  <2> HIDE DEF clean
  <2>3. QED
      BY <2>1, <2>2
<1> HIDE DEF clean, beyond
<1>5. len \in Nat /\ clean <= len
    BY <1>4
<1>6. \A i \in 1..clean : d[i] = f.dev[i]
    BY <1>2, <1>4, <1>5
<1>7. ASSUME NEW i \in 1..len PROVE Holds(f, i, d[i]) \/ d[i] = Torn
  <2>1. CASE i <= clean
      BY <1>2, <1>4, <2>1 DEF Holds
  <2>2. CASE ~(i <= clean)
    <3>1. i \in clean+1..len /\ d[i] = g[i]
        BY <1>2, <1>4, <1>5, <2>2
    <3>2. d[i] \in may(i)
        BY <1>3, <3>1
    <3>3. QED
        BY <1>4, <3>2 DEF Holds
  <2>3. QED
      BY <2>1, <2>2
<1>8. \A i \in 1..len : d[i] \in Cell
    BY <1>7, FileFields, CellKinds DEF Holds, Cell
<1>9. d \in [1..len -> Cell]
    BY <1>2, <1>8
<1>10. d \in Seq(Cell)
    BY <1>5, <1>9, SeqDef
<1>11. Len(d) = len
    BY <1>2, <1>5, <1>10, LenProperties
<1>12. QED
    BY <1>5, <1>6, <1>7, <1>10, <1>11 DEF clean

LEMMA FailedSyncIs ==
    ASSUME NEW f \in WalFile, NEW g \in FailedSync(f)
    PROVE  /\ g \in WalFile /\ g.first = f.first /\ g.mem = f.mem /\ g.linked = f.linked /\ g.dirty = {}
           /\ Clean(f) <= Len(g.dev) /\ \A i \in 1..Clean(f) : g.dev[i] = f.dev[i]
           /\ NoMore(f, g)
<1>1. PICK d \in Writebacks(f) : g = [f EXCEPT !.dev = d, !.dirty = {}]
    BY DEF FailedSync
<1>2. d \in Seq(Cell)
    BY WritebackIs
<1>3. g \in WalFile /\ g.first = f.first /\ g.mem = f.mem /\ g.linked = f.linked /\ g.dirty = {} /\ g.dev = d
    BY <1>1, <1>2 DEF WalFile
<1>4. NoMore(f, g)
    BY <1>3, WritebackIs DEF NoMore, Holds
<1>5. QED
    BY <1>3, <1>4, WritebackIs

LEMMA AfterCrashIs ==
    ASSUME NEW f \in WalFile, NEW g \in AfterCrash(f)
    PROVE  /\ g \in WalFile /\ g.first = f.first /\ g.mem = g.dev /\ g.linked = TRUE /\ g.dirty = {}
           /\ Clean(f) <= Len(g.dev) /\ \A i \in 1..Clean(f) : g.dev[i] = f.dev[i]
           /\ NoMore(f, g)
<1>1. PICK d \in Writebacks(f) : g = [f EXCEPT !.dev = d, !.mem = d, !.dirty = {}, !.linked = TRUE]
    BY DEF AfterCrash
<1>2. d \in Seq(Cell)
    BY WritebackIs
<1>3. g \in WalFile /\ g.first = f.first /\ g.mem = d /\ g.linked = TRUE /\ g.dirty = {} /\ g.dev = d
    BY <1>1, <1>2 DEF WalFile
<1>4. NoMore(f, g)
    BY <1>3, WritebackIs DEF NoMore, Holds
<1>5. QED
    BY <1>3, <1>4, WritebackIs

LEMMA SyncedIs ==
    ASSUME NEW f \in WalFile
    PROVE  /\ Synced(f) \in WalFile /\ Synced(f).first = f.first /\ Synced(f).mem = f.mem
           /\ Synced(f).linked = f.linked /\ Synced(f).dirty = {} /\ Len(Synced(f).dev) = Len(f.mem)
           /\ \A i \in 1..Len(f.mem) :
                Synced(f).dev[i] = IF i \in f.dirty THEN f.mem[i] ELSE OnDevice(f, i)
           /\ NoMore(f, Synced(f))
<1> DEFINE d == [i \in DOMAIN f.mem |-> IF i \in f.dirty THEN f.mem[i] ELSE OnDevice(f, i)]
<1>1. Synced(f) = [f EXCEPT !.dev = d, !.dirty = {}]
    BY DEF Synced
<1>2. /\ Len(f.mem) \in Nat /\ DOMAIN f.mem = 1..Len(f.mem) /\ Len(f.dev) \in Nat
      /\ \A i \in 1..Len(f.mem) : f.mem[i] \in Cell
      /\ \A i \in 1..Len(f.dev) : f.dev[i] \in Cell
    BY FileFields
<1>3. \A i \in 1..Len(f.mem) : OnDevice(f, i) \in Cell /\ (OnDevice(f, i) = Torn \/ Holds(f, i, OnDevice(f, i)))
    BY <1>2, CellKinds DEF OnDevice, Holds, Cell
<1>4. d \in [1..Len(f.mem) -> Cell]
    BY <1>2, <1>3
<1>5. d \in Seq(Cell) /\ Len(d) = Len(f.mem)
  <2>1. d \in Seq(Cell) /\ DOMAIN d = 1..Len(f.mem)
      BY <1>2, <1>4, SeqDef
  <2> HIDE DEF d
  <2>2. QED
      BY <1>2, <2>1, LenProperties
<1>6. \A i \in 1..Len(f.mem) : d[i] = IF i \in f.dirty THEN f.mem[i] ELSE OnDevice(f, i)
    BY <1>2
<1> HIDE DEF d
<1>7. /\ Synced(f) \in WalFile /\ Synced(f).first = f.first /\ Synced(f).mem = f.mem
      /\ Synced(f).linked = f.linked /\ Synced(f).dirty = {} /\ Synced(f).dev = d
    BY <1>1, <1>5 DEF WalFile
<1>8. \A i \in 1..Len(f.mem) : Holds(f, i, d[i]) \/ d[i] = Torn
    BY <1>3, <1>6 DEF Holds
<1>9. NoMore(f, Synced(f))
    BY <1>5, <1>7, <1>8 DEF NoMore, Holds
<1>10. QED
    BY <1>5, <1>6, <1>7, <1>9

LEMMA SetLenIs ==
    ASSUME NEW f \in WalFile, NEW n \in 0..Len(f.mem)
    PROVE  /\ SetLen(f, n) \in WalFile /\ SetLen(f, n).first = f.first /\ SetLen(f, n).dev = f.dev
           /\ SetLen(f, n).linked = f.linked /\ SetLen(f, n).dirty = f.dirty \cap 1..n
           /\ Len(SetLen(f, n).mem) = n /\ \A i \in 1..n : SetLen(f, n).mem[i] = f.mem[i]
           /\ NoMore(f, SetLen(f, n))
<1>1. Len(f.mem) \in Nat /\ f.mem \in Seq(Cell) /\ \A i \in 1..Len(f.mem) : f.mem[i] \in Cell
    BY FileFields
<1> DEFINE m == SubSeq(f.mem, 1, n)
<1>2. m \in Seq(Cell) /\ Len(m) = n /\ \A i \in 1..n : m[i] = f.mem[i]
    BY <1>1, SubSeqProperties
<1>3. SetLen(f, n) = [f EXCEPT !.mem = m, !.dirty = f.dirty \cap 1..n]
    BY DEF SetLen, WalFile
<1> HIDE DEF m
<1>4. /\ SetLen(f, n) \in WalFile /\ SetLen(f, n).first = f.first /\ SetLen(f, n).dev = f.dev
      /\ SetLen(f, n).linked = f.linked /\ SetLen(f, n).dirty = f.dirty \cap 1..n
      /\ SetLen(f, n).mem = m
    BY <1>2, <1>3 DEF WalFile
<1>5. NoMore(f, SetLen(f, n))
    BY <1>1, <1>2, <1>4 DEF NoMore, Holds
<1>6. QED
    BY <1>2, <1>4, <1>5

LEMMA AppendedIs ==
    ASSUME NEW f \in WalFile, NEW cells \in Seq(Cell)
    PROVE  /\ Appended(f, cells) \in WalFile /\ Appended(f, cells).first = f.first
           /\ Appended(f, cells).dev = f.dev /\ Appended(f, cells).linked = f.linked
           /\ Appended(f, cells).dirty = f.dirty \cup (Len(f.mem) + 1)..(Len(f.mem) + Len(cells))
           /\ Appended(f, cells).mem = f.mem \o cells
           /\ Len(Appended(f, cells).mem) = Len(f.mem) + Len(cells) /\ Len(cells) \in Nat
           /\ \A i \in 1..Len(f.mem) : Appended(f, cells).mem[i] = f.mem[i]
           /\ \A i \in 1..Len(cells) : Appended(f, cells).mem[Len(f.mem) + i] = cells[i]
<1>1. f.mem \in Seq(Cell) /\ Len(f.mem) \in Nat /\ Len(cells) \in Nat
    BY FileFields, LenProperties
<1> DEFINE m == f.mem \o cells
<1>2. /\ m \in Seq(Cell) /\ Len(m) = Len(f.mem) + Len(cells)
      /\ \A i \in 1..Len(f.mem) + Len(cells) : m[i] = IF i <= Len(f.mem) THEN f.mem[i] ELSE cells[i - Len(f.mem)]
    BY <1>1, ConcatProperties
<1> DEFINE dirty == f.dirty \cup (Len(f.mem) + 1)..(Len(f.mem) + Len(cells))
<1>3. Appended(f, cells) = [f EXCEPT !.mem = m, !.dirty = dirty]
    BY DEF Appended, WalFile
<1>8. dirty \in SUBSET Nat
    BY <1>1, FileFields
<1> HIDE DEF m, dirty
<1>4. /\ Appended(f, cells) \in WalFile /\ Appended(f, cells).first = f.first
      /\ Appended(f, cells).dev = f.dev /\ Appended(f, cells).linked = f.linked
      /\ Appended(f, cells).dirty = dirty /\ Appended(f, cells).mem = m
    BY <1>2, <1>3, <1>8 DEF WalFile
<1>5. \A i \in 1..Len(f.mem) : m[i] = f.mem[i]
    BY <1>1, <1>2
<1>6. ASSUME NEW i \in 1..Len(cells) PROVE m[Len(f.mem) + i] = cells[i]
  <2>1. /\ Len(f.mem) + i \in 1..Len(f.mem) + Len(cells) /\ ~(Len(f.mem) + i <= Len(f.mem))
        /\ (Len(f.mem) + i) - Len(f.mem) = i
      BY <1>1
  <2>2. QED
      BY <1>2, <2>1
<1>7. QED
    BY <1>1, <1>2, <1>4, <1>5, <1>6 DEF m, dirty

LEMMA LinkedIs ==
    ASSUME NEW fs \in Seq(WalFile)
    PROVE  /\ Linked(fs) \in Seq(WalFile) /\ Len(Linked(fs)) = Len(fs)
           /\ \A i \in 1..Len(fs) :
                /\ Linked(fs)[i].first = fs[i].first /\ Linked(fs)[i].mem = fs[i].mem
                /\ Linked(fs)[i].dev = fs[i].dev /\ Linked(fs)[i].dirty = fs[i].dirty
                /\ Linked(fs)[i].linked = TRUE
                /\ NoMore(fs[i], Linked(fs)[i])
<1>1. Len(fs) \in Nat /\ DOMAIN fs = 1..Len(fs) /\ \A i \in 1..Len(fs) : fs[i] \in WalFile
    BY LenProperties, ElementOfSeq
<1> DEFINE g(i) == [fs[i] EXCEPT !.linked = TRUE]
<1>2. Linked(fs) = [i \in 1..Len(fs) |-> g(i)]
    BY <1>1 DEF Linked
<1>3. \A i \in 1..Len(fs) : /\ g(i) \in WalFile /\ g(i).first = fs[i].first /\ g(i).mem = fs[i].mem
                            /\ g(i).dev = fs[i].dev /\ g(i).dirty = fs[i].dirty /\ g(i).linked = TRUE
    BY <1>1 DEF WalFile
<1> HIDE DEF g
<1>4. Linked(fs) \in Seq(WalFile)
    BY <1>1, <1>2, <1>3, SeqDef
<1>5. Len(Linked(fs)) = Len(fs)
    BY <1>1, <1>2, <1>4, LenProperties
<1>6. QED
    BY <1>2, <1>3, <1>4, <1>5 DEF NoMore, Holds

-----------------------------------------------------------------------------
(* What a reboot leaves of the directory. *)

\* Numbers that are bounded and not none have a largest one.
LEMMA MaxOf ==
    ASSUME NEW T \in SUBSET Nat, T # {}, NEW n \in Nat, \A y \in T : y <= n
    PROVE  Max(T) \in T /\ \A y \in T : y <= Max(T)
<1> DEFINE B == {u \in Nat : \A y \in T : y <= u}
<1>1. B \in SUBSET Nat /\ B # {}
    OBVIOUS
<1>2. PICK u \in B : \A v \in B : ~(v < u)
  <2> HIDE DEF B
  <2>1. QED
      BY <1>1, Booting!LeastNumber
<1>3. u \in Nat /\ \A y \in T : y <= u
    BY <1>2
<1>4. u \in T
  <2>1. SUFFICES ASSUME u \notin T PROVE FALSE
      OBVIOUS
  <2>2. PICK y \in T : TRUE
      OBVIOUS
  <2>3. u - 1 \in Nat /\ \A z \in T : z <= u - 1
      BY <1>3, <2>1, <2>2
  <2>4. u - 1 \in B
      BY <2>3
  <2>5. ~(u - 1 < u)
      BY <1>2, <2>4
  <2>6. QED
      BY <1>3, <2>5
<1>5. \E x \in T : \A y \in T : x >= y
    BY <1>3, <1>4
<1>6. QED
    BY <1>5 DEF Max

\* After a reboot every file is one that was there, as the crash left it.
LEMMA BootIs ==
    ASSUME NEW s \in Seq(WalFile),
           NEW fs \in Crashed(s)
    PROVE  /\ fs \in Seq(WalFile) /\ Len(fs) = Len(s)
           /\ \A i \in 1..Len(s) : fs[i] \in AfterCrash(s[i])
<1>1. Crashed(s) = Booting!Fold(s, {<< >>}, DOMAIN s)
    BY DEF Crashed, FoldLeft, MapThenFoldSet, Booting!Fold, Booting!Body, BootStep, LastOf
<1>2. DOMAIN s = 1..Len(s) /\ Len(s) \in Nat /\ \A i \in 1..Len(s) : s[i] \in WalFile
    BY LenProperties, ElementOfSeq
<1>3. IsFiniteSet(DOMAIN s)
    BY <1>2, FS_Interval
<1>4. Booting!IsFiniteSet(DOMAIN s)
    BY <1>3 DEF IsFiniteSet, Booting!IsFiniteSet
<1>5. ASSUME NEW T \in SUBSET (1..Len(s)), T # {} PROVE LastOf(T) \in T /\ \A y \in T : y <= LastOf(T)
  <2>1. T \in SUBSET Nat /\ \A y \in T : y <= Len(s)
      BY <1>2
  <2>2. QED
      BY <1>2, <1>5, <2>1, MaxOf DEF LastOf
<1>6. Booting!Picks(DOMAIN s)
    BY <1>2, <1>5 DEF Booting!Picks
<1>7. IsBoot(s, {}, {<< >>})
  <2>1. ASSUME NEW n \in 0..Len(s), {} = 1..n PROVE n = 0
    <3>1. 1 \notin 1..n
        BY <2>1
    <3>2. QED
        BY <1>2, <3>1
  <2>2. << >> \in Seq(WalFile) /\ Len(<< >>) = 0
      BY EmptySeq
  <2>3. QED
      BY <2>1, <2>2 DEF IsBoot
<1>8. \A T \in SUBSET DOMAIN s : \A done :
          T # {} /\ IsBoot(s, T \ {LastOf(T)}, done) => IsBoot(s, T, BootStep(s, LastOf(T), done))
  <2>1. ASSUME NEW T \in SUBSET (1..Len(s)), NEW done, T # {}, IsBoot(s, T \ {LastOf(T)}, done)
        PROVE  IsBoot(s, T, BootStep(s, LastOf(T), done))
    <3>1. SUFFICES ASSUME NEW n \in 0..Len(s), T = 1..n, NEW r \in BootStep(s, LastOf(T), done)
                   PROVE  r \in Seq(WalFile) /\ Len(r) = n /\ \A i \in 1..n : r[i] \in AfterCrash(s[i])
        BY DEF IsBoot
    <3>2. LastOf(T) = n /\ n \in 1..Len(s) /\ T \ {n} = 1..n - 1
      <4>1. n # 0
          BY <2>1, <3>1
      <4>2. n \in 1..Len(s) /\ n \in T
          BY <1>2, <3>1, <4>1
      <4>3. LastOf(T) \in 1..n /\ n <= LastOf(T)
          BY <1>5, <2>1, <3>1, <4>2
      <4>4. LastOf(T) = n
          BY <4>2, <4>3
      <4>5. T \ {n} = 1..n - 1
          BY <3>1, <4>2
      <4>6. QED
          BY <4>2, <4>4, <4>5
    <3>3. PICK q \in done, g \in AfterCrash(s[n]) : r = q \o <<g>>
      <4>1. \E q \in done, g \in AfterCrash(s[LastOf(T)]) : r = q \o <<g>>
          BY DEF BootStep
      <4>2. QED
          BY <3>2, <4>1, Zenon
    <3>4. q \in Seq(WalFile) /\ Len(q) = n - 1 /\ \A i \in 1..n - 1 : q[i] \in AfterCrash(s[i])
      <4>1. n - 1 \in 0..Len(s)
          BY <1>2, <3>2
      <4>2. QED
          BY <2>1, <3>2, <4>1 DEF IsBoot
    <3>5. g \in WalFile
      <4>1. s[n] \in WalFile
          BY <1>2, <3>2
      <4>2. QED
          BY <3>3, <4>1, AfterCrashIs
    <3>6. r = Append(q, g)
        BY <3>3, <3>4, <3>5, AppendIsConcat
    <3>7. /\ r \in Seq(WalFile) /\ Len(r) = n /\ r[n] = g /\ \A i \in 1..n - 1 : r[i] = q[i]
      <4>1. r \in Seq(WalFile) /\ Len(r) = Len(q) + 1 /\ r[Len(q) + 1] = g /\ \A i \in 1..Len(q) : r[i] = q[i]
          BY <3>4, <3>5, <3>6, AppendProperties
      <4>2. Len(q) + 1 = n
          BY <3>2, <3>4
      <4>3. QED
          BY <3>4, <4>1, <4>2
    <3>8. ASSUME NEW i \in 1..n PROVE r[i] \in AfterCrash(s[i])
      <4>1. i = n \/ i \in 1..n - 1
          BY <3>2
      <4>2. QED
          BY <3>3, <3>4, <3>7, <4>1
    <3>9. QED
        BY <3>7, <3>8
  <2>2. QED
      BY <1>2, <2>1
<1>9. IsBoot(s, DOMAIN s, Booting!Fold(s, {<< >>}, DOMAIN s))
    BY <1>4, <1>6, <1>7, <1>8, Booting!FoldRule
<1>10. fs \in Booting!Fold(s, {<< >>}, DOMAIN s)
    BY <1>1
<1>11. Len(s) \in 0..Len(s)
    BY <1>2
<1>12. QED
    BY <1>2, <1>9, <1>10, <1>11 DEF IsBoot

\* The files of a rebooted host, by the place each had among the removed and the live ones: their
\* order is kept, and every live file with a durable entry is there.
Survives(place) ==
    LET all == gone \o files
    IN  /\ place \in [1..Len(files') -> 1..Len(all)]
        /\ \A k \in 1..Len(files') : files'[k] \in AfterCrash(all[place[k]])
        /\ \A k, l \in 1..Len(files') : k < l => place[k] < place[l]
        /\ \A i \in 1..Len(files) : files[i].linked => \E k \in 1..Len(files') : place[k] = Len(gone) + i

LEMMA RebootIs ==
    ASSUME files \in Seq(WalFile), gone \in Seq(WalFile), Reboot
    PROVE  files' \in Seq(WalFile) /\ \E place : Survives(place)
<1> DEFINE linked == {i \in DOMAIN files : files[i].linked}
           all == gone \o files
<1>0. /\ Len(files) \in Nat /\ DOMAIN files = 1..Len(files) /\ Len(gone) \in Nat
      /\ \A i \in 1..Len(files) : files[i] \in WalFile
      /\ \A i \in 1..Len(gone) : gone[i] \in WalFile
    BY LenProperties, ElementOfSeq
<1>1. PICK n \in 0..Len(gone), kept \in {files, At(files, linked)} :
        files' \in Crashed(SubSeq(gone, n + 1, Len(gone)) \o kept)
    BY DEF Reboot
<1>2. kept \in Seq(WalFile) /\ \E e : Embeds(files, linked, kept, e) \/ (kept = files /\ e = [i \in 1..Len(files) |-> i])
  <2>1. CASE kept = files
      BY <2>1
  <2>2. CASE kept = At(files, linked)
    <3> HIDE DEF linked
    <3>1. QED
        BY <2>2, AtEmbeds
  <2>3. QED
      BY <2>1, <2>2
<1>3. PICK e : Embeds(files, linked, kept, e) \/ (kept = files /\ e = [i \in 1..Len(files) |-> i])
    BY <1>2
<1>4. /\ e \in [1..Len(kept) -> 1..Len(files)]
      /\ \A k \in 1..Len(kept) : kept[k] = files[e[k]]
      /\ \A k, l \in 1..Len(kept) : k < l => e[k] < e[l]
      /\ \A i \in 1..Len(files) : files[i].linked => \E k \in 1..Len(kept) : e[k] = i
  <2>1. CASE Embeds(files, linked, kept, e)
      BY <1>0, <2>1 DEF Embeds
  <2>2. CASE kept = files /\ e = [i \in 1..Len(files) |-> i]
      BY <1>0, <2>2
  <2>3. QED
      BY <1>3, <2>1, <2>2
<1> DEFINE back == SubSeq(gone, n + 1, Len(gone))
           m == Len(gone) - n
           s == back \o kept
<1>5. n \in Nat /\ m \in Nat /\ n + m = Len(gone) /\ Len(kept) \in Nat
    BY <1>0, <1>2, LenProperties
<1>6. back \in Seq(WalFile) /\ Len(back) = m /\ \A k \in 1..m : back[k] = gone[n + k]
  <2>1. \A k \in n + 1..Len(gone) : gone[k] \in WalFile
      BY <1>0, <1>5
  <2>2. /\ back \in Seq(WalFile) /\ Len(back) = IF n + 1 <= Len(gone) THEN Len(gone) - (n + 1) + 1 ELSE 0
        /\ \A k \in 1..Len(gone) - (n + 1) + 1 : back[k] = gone[n + 1 + k - 1]
      BY <1>0, <1>5, <2>1, SubSeqProperties
  <2> HIDE DEF back
  <2>3. \A k \in 1..m : k \in 1..Len(gone) - (n + 1) + 1 /\ n + 1 + k - 1 = n + k
      BY <1>0, <1>5
  <2>4. Len(back) = m
    <3>1. \A x \in Nat : \A y \in 0..x : x - y = IF y + 1 <= x THEN x - (y + 1) + 1 ELSE 0
        OBVIOUS
    <3>2. QED
        BY <1>0, <2>2, <3>1
  <2>5. QED
      BY <2>2, <2>3, <2>4
<1> HIDE DEF back
<1>7. /\ s \in Seq(WalFile) /\ Len(s) = m + Len(kept)
      /\ \A k \in 1..m + Len(kept) : s[k] = IF k <= m THEN back[k] ELSE kept[k - m]
    BY <1>2, <1>6, ConcatProperties
<1>8. /\ all \in Seq(WalFile) /\ Len(all) = Len(gone) + Len(files)
      /\ \A k \in 1..Len(gone) + Len(files) : all[k] = IF k <= Len(gone) THEN gone[k] ELSE files[k - Len(gone)]
    BY ConcatProperties
<1>9. /\ files' \in Seq(WalFile) /\ Len(files') = Len(s)
      /\ \A k \in 1..Len(s) : files'[k] \in AfterCrash(s[k])
  <2>1. files' \in Crashed(s)
      BY <1>1 DEF back
  <2> HIDE DEF s
  <2>2. QED
      BY <1>7, <2>1, BootIs
<1> HIDE DEF s, all, linked
<1> DEFINE at(k) == IF k <= m THEN n + k ELSE Len(gone) + e[k - m]
           place == [k \in 1..Len(files') |-> at(k)]
<1>10. Len(files') = m + Len(kept) /\ \A k \in 1..Len(files') : place[k] = at(k)
    BY <1>7, <1>9
<1>11. \A k \in 1..m + Len(kept) : at(k) \in 1..Len(all) /\ s[k] = all[at(k)]
  <2>1. ASSUME NEW k \in 1..m PROVE at(k) \in 1..Len(all) /\ s[k] = all[at(k)]
    <3>1. at(k) = n + k /\ n + k \in 1..Len(gone)
        BY <1>5
    <3>2. s[k] = gone[n + k]
        BY <1>5, <1>6, <1>7
    <3>3. n + k \in 1..Len(all) /\ all[n + k] = gone[n + k]
        BY <1>0, <1>8, <3>1
    <3>4. QED
        BY <3>1, <3>2, <3>3
  <2>2. ASSUME NEW k \in m + 1..m + Len(kept) PROVE at(k) \in 1..Len(all) /\ s[k] = all[at(k)]
    <3>1. at(k) = Len(gone) + e[k - m] /\ k - m \in 1..Len(kept) /\ ~(k <= m) /\ k \in 1..m + Len(kept)
        BY <1>5
    <3>2. e[k - m] \in 1..Len(files) /\ s[k] = files[e[k - m]]
        BY <1>4, <1>7, <3>1
    <3>3. ASSUME NEW i \in 1..Len(files) PROVE Len(gone) + i \in 1..Len(all) /\ all[Len(gone) + i] = files[i]
      <4>1. Len(gone) + i \in 1..Len(gone) + Len(files) /\ ~(Len(gone) + i <= Len(gone)) /\ (Len(gone) + i) - Len(gone) = i
          BY <1>0
      <4>2. QED
          BY <1>8, <4>1
    <3> HIDE DEF at
    <3>4. QED
        BY <3>1, <3>2, <3>3
  <2>3. \A k \in 1..m + Len(kept) : k \in 1..m \/ k \in m + 1..m + Len(kept)
      BY <1>5
  <2> HIDE DEF at
  <2>4. QED
      BY <2>1, <2>2, <2>3
<1>12. \A k, l \in 1..m + Len(kept) : k < l => at(k) < at(l)
  <2>1. ASSUME NEW k \in 1..m + Len(kept), NEW l \in 1..m + Len(kept), k < l PROVE at(k) < at(l)
    <3>1. CASE l <= m
        BY <1>5, <2>1, <3>1
    <3>2. CASE k <= m /\ ~(l <= m)
      <4>1. l - m \in 1..Len(kept)
          BY <1>5, <3>2
      <4>2. e[l - m] \in 1..Len(files)
          BY <1>4, <4>1
      <4>3. PICK d : d = e[l - m]
          OBVIOUS
      <4>4. at(k) <= Len(gone) /\ at(l) > Len(gone)
          BY <1>0, <1>5, <2>1, <3>2, <4>2, <4>3
      <4>5. at(k) \in Nat /\ at(l) \in Nat /\ Len(gone) \in Nat
          BY <1>0, <1>5, <2>1, <3>2, <4>2, <4>3
      <4>6. QED
          BY <4>4, <4>5
    <3>3. CASE ~(k <= m) /\ ~(l <= m)
      <4>1. l - m \in 1..Len(kept) /\ k - m \in 1..Len(kept) /\ k - m < l - m
          BY <1>5, <2>1, <3>3
      <4>2. e[k - m] \in 1..Len(files) /\ e[l - m] \in 1..Len(files) /\ e[k - m] < e[l - m]
          BY <1>4, <4>1
      <4>3. QED
          BY <1>0, <3>3, <4>2
    <3>4. QED
        BY <1>5, <2>1, <3>1, <3>2, <3>3
  <2>2. QED
      BY <2>1
<1>13. ASSUME NEW i \in 1..Len(files), files[i].linked
       PROVE  \E k \in 1..m + Len(kept) : at(k) = Len(gone) + i
  <2>1. PICK j \in 1..Len(kept) : e[j] = i
      BY <1>4, <1>13
  <2>2. m + j \in 1..m + Len(kept) /\ ~(m + j <= m) /\ (m + j) - m = j
      BY <1>5
  <2>3. at(m + j) = Len(gone) + i
      BY <2>1, <2>2
  <2> HIDE DEF at
  <2>4. QED
      BY <2>2, <2>3
<1> HIDE DEF at
<1>14. place \in [1..Len(files') -> 1..Len(all)]
    BY <1>10, <1>11
<1> HIDE DEF place
<1>15. Survives(place)
    BY <1>7, <1>9, <1>10, <1>11, <1>12, <1>13, <1>14 DEF Survives, all
<1>16. QED
    BY <1>9, <1>15

-----------------------------------------------------------------------------
(* What recovery reads of the files. *)

\* The cells before the first damaged one.
LEMMA IntactIs ==
    ASSUME NEW cells \in Seq(Cell)
    PROVE  /\ Intact(cells) \in Seq(Cell) /\ Len(Intact(cells)) \in 0..Len(cells)
           /\ \A i \in 1..Len(Intact(cells)) : Intact(cells)[i] = cells[i] /\ IsFrame(cells[i])
           /\ \A n \in 0..Len(cells) : (\A i \in 1..n : IsFrame(cells[i])) => n <= Len(Intact(cells))
<1> DEFINE m == Len(cells)
           Is(k) == (\A i \in 1..k : IsFrame(cells[i])) /\ (k < m => ~IsFrame(cells[k + 1]))
           n == CHOOSE k \in 0..m : Is(k)
<1>1. m \in Nat /\ \A i \in 1..m : cells[i] \in Cell
    BY LenProperties, ElementOfSeq
<1>2. \E k \in 0..m : Is(k)
  <2> DEFINE T == {i \in 1..m : ~IsFrame(cells[i])}
  <2>1. T \in SUBSET (1..m)
      OBVIOUS
  <2>2. \E k \in 0..m : (\A i \in 1..k : i \notin T) /\ (k < m => k + 1 \in T)
    <3> HIDE DEF T, m
    <3>1. QED
        BY <1>1, <2>1, LongestPrefix
  <2>3. PICK k \in 0..m : (\A i \in 1..k : i \notin T) /\ (k < m => k + 1 \in T)
      BY <2>2
  <2>4. \A i \in 1..k : i \in 1..m
      BY <1>1, <2>3
  <2>5. Is(k)
      BY <2>3, <2>4
  <2> HIDE DEF Is, m
  <2>6. QED
      BY <2>3, <2>5
<1>3. n \in 0..m /\ Is(n)
  <2> HIDE DEF Is
  <2>1. QED
      BY <1>2
<1>4. Intact(cells) = SubSeq(cells, 1, n)
    BY DEF Intact
<1> HIDE DEF n
<1>5. /\ Intact(cells) \in Seq(Cell) /\ Len(Intact(cells)) = n
      /\ \A i \in 1..n : Intact(cells)[i] = cells[i]
    BY <1>1, <1>3, <1>4, SubSeqProperties
<1>6. ASSUME NEW k \in 0..m, \A i \in 1..k : IsFrame(cells[i]) PROVE k <= n
  <2>1. CASE n < k
    <3>1. n + 1 \in 1..k /\ n < m
        BY <1>1, <1>3, <2>1
    <3>2. QED
        BY <1>3, <1>6, <3>1
  <2>2. QED
      BY <1>1, <1>3, <2>1
<1>7. QED
    BY <1>3, <1>5, <1>6

\* The repaired length: no complete group among the intact frames is cut.
LEMMA CommittedEndIs ==
    ASSUME NEW cells \in Seq(Cell)
    PROVE  /\ CommittedEnd(cells) \in 0..Len(cells)
           /\ \A i \in 1..CommittedEnd(cells) : IsFrame(cells[i])
           /\ CommittedEnd(cells) > 0 => cells[CommittedEnd(cells)].end
           /\ \A n \in 1..Len(cells) : (\A i \in 1..n : IsFrame(cells[i])) /\ cells[n].end => n <= CommittedEnd(cells)
<1> DEFINE intact == Intact(cells)
           I == {i \in 1..Len(intact) : intact[i].end}
<1>1. /\ Len(intact) \in 0..Len(cells) /\ Len(cells) \in Nat
      /\ \A i \in 1..Len(intact) : intact[i] = cells[i] /\ IsFrame(cells[i])
      /\ \A n \in 0..Len(cells) : (\A i \in 1..n : IsFrame(cells[i])) => n <= Len(intact)
    BY IntactIs, LenProperties
<1>2. CommittedEnd(cells) = IF I # {} THEN Max(I) ELSE 0
    BY DEF CommittedEnd, SelectLastInSeq
<1> HIDE DEF intact
<1>3. I # {} => Max(I) \in I /\ \A y \in I : y <= Max(I)
  <2>1. I \in SUBSET Nat /\ Len(intact) \in Nat /\ \A y \in I : y <= Len(intact)
      BY <1>1
  <2> HIDE DEF I
  <2>2. QED
      BY <2>1, MaxOf
<1>4. ASSUME NEW n \in 1..Len(cells), \A i \in 1..n : IsFrame(cells[i]), cells[n].end
      PROVE  n \in I
    BY <1>1, <1>4
<1>5. CASE I = {}
    BY <1>1, <1>2, <1>4, <1>5
<1>6. CASE I # {}
  <2>1. PICK c \in I : c = Max(I) /\ \A y \in I : y <= c
      BY <1>3, <1>6
  <2>2. c \in 1..Len(intact) /\ intact[c].end
      OBVIOUS
  <2>3. CommittedEnd(cells) = c
      BY <1>2, <1>6, <2>1
  <2> HIDE DEF I
  <2>4. c \in 0..Len(cells) /\ cells[c].end /\ \A i \in 1..c : IsFrame(cells[i])
    <3>1. \A i \in 1..c : i \in 1..Len(intact)
        BY <1>1, <2>2
    <3>2. QED
        BY <1>1, <2>2, <3>1
  <2>5. QED
      BY <1>4, <2>1, <2>3, <2>4
<1>7. QED
    BY <1>5, <1>6

\* The leading files below the checkpoint are a prefix of the directory, never all of it.
LEMMA CheckpointedIs ==
    ASSUME NEW fs \in Seq(WalFile), ckpt \in Nat
    PROVE  /\ Checkpointed(fs) \in Nat
           /\ fs # << >> => Checkpointed(fs) \in 0..Len(fs) - 1
           /\ fs = << >> => Checkpointed(fs) = 0
           /\ \A j \in 1..Checkpointed(fs) : fs[j + 1].first <= ckpt + 1
<1> DEFINE m == Len(fs) - 1
           Below(i) == fs[i + 1].first - 1 <= ckpt
           I == {i \in 1..m : \A j \in 1..i : Below(j)}
<1>1. Len(fs) \in Nat /\ (fs # << >> <=> m \in Nat) /\ (fs = << >> => Len(fs) = 0)
    BY LenProperties, EmptySeq
<1>2. Checkpointed(fs) = Cardinality(I)
    BY DEF Checkpointed
<1>3. CASE fs = << >>
  <2>1. I = {}
      BY <1>1, <1>3
  <2>2. Checkpointed(fs) = 0
      BY <1>2, <2>1, FS_EmptySet
  <2>3. QED
      BY <1>3, <2>2
<1>4. CASE fs # << >>
  <2> DEFINE T == {i \in 1..m : ~Below(i)}
  <2>1. T \in SUBSET (1..m) /\ m \in Nat
      BY <1>1, <1>4
  <2>2. PICK k \in 0..m : (\A i \in 1..k : i \notin T) /\ (k < m => k + 1 \in T)
    <3> HIDE DEF T, m
    <3>1. QED
        BY <2>1, LongestPrefix
  <2>3. \A j \in 1..k : j \in 1..m /\ Below(j)
      BY <2>1, <2>2
  <2>4. k < m => ~Below(k + 1)
      BY <2>2
  <2> HIDE DEF Below, T
  <2>5. I = 1..k
    <3> HIDE DEF m
    <3>1. ASSUME NEW i \in 1..k PROVE i \in I
      <4>1. \A j \in 1..i : j \in 1..k
          BY <2>1, <2>2
      <4>2. QED
          BY <2>3, <4>1
    <3>2. ASSUME NEW i \in I PROVE i \in 1..k
      <4>1. i \in 1..m /\ \A j \in 1..i : Below(j)
          OBVIOUS
      <4> HIDE DEF I
      <4>2. CASE i > k
        <5>1. k + 1 \in 1..i /\ k < m
            BY <2>1, <2>2, <4>1, <4>2
        <5>2. QED
            BY <2>4, <4>1, <5>1
      <4>3. QED
          BY <2>1, <2>2, <4>1, <4>2
    <3>3. QED
        BY <3>1, <3>2
  <2>6. Cardinality(1..k) = k
      BY <2>1, <2>2, FS_Interval
  <2>7. Checkpointed(fs) = k /\ k \in 0..m
      BY <1>2, <2>2, <2>5, <2>6
  <2>8. \A j \in 1..k : fs[j + 1].first <= ckpt + 1
    <3>1. ASSUME NEW j \in 1..k PROVE fs[j + 1].first <= ckpt + 1
      <4>1. j + 1 \in 1..Len(fs)
          BY <1>1, <2>1, <2>3
      <4>2. fs[j + 1].first \in Nat
          BY <4>1, ElementOfSeq, FileFields
      <4>3. fs[j + 1].first - 1 <= ckpt
          BY <2>3 DEF Below
      <4>4. QED
          BY <4>2, <4>3
    <3>2. QED
        BY <3>1
  <2> HIDE DEF m
  <2>9. k \in Nat
      BY <2>1, <2>7
  <2>10. QED
      BY <1>4, <2>7, <2>8, <2>9 DEF m
<1>5. QED
    BY <1>3, <1>4

\* The data frames among some frames, by their places.
LEMMA DataIs ==
    ASSUME NEW frames \in Seq(Cell)
    PROVE  /\ Data(frames) \in Seq(Cell)
           /\ \E e : Embeds(frames, {i \in DOMAIN frames : IsData(frames[i])}, Data(frames), e)
           /\ \A k \in 1..Len(Data(frames)) :
                /\ \E i \in 1..Len(frames) : Data(frames)[k] = frames[i]
                /\ IsData(Data(frames)[k]) /\ Data(frames)[k] \in Frame
<1> DEFINE I == {i \in DOMAIN frames : IsData(frames[i])}
<1>1. Data(frames) = At(frames, I)
    BY DEF Data
<1> HIDE DEF I
<1>2. Data(frames) \in Seq(Cell) /\ \E e : Embeds(frames, I, Data(frames), e)
    BY <1>1, AtEmbeds
<1>3. PICK e : Embeds(frames, I, Data(frames), e)
    BY <1>2
<1>4. DOMAIN frames = 1..Len(frames)
    BY LenProperties
<1>5. ASSUME NEW k \in 1..Len(Data(frames))
      PROVE  /\ \E i \in 1..Len(frames) : Data(frames)[k] = frames[i]
             /\ IsData(Data(frames)[k]) /\ Data(frames)[k] \in Frame
  <2>1. e[k] \in 1..Len(frames) /\ e[k] \in I /\ Data(frames)[k] = frames[e[k]]
      BY <1>3, <1>4 DEF Embeds
  <2>2. IsData(frames[e[k]]) /\ frames[e[k]] \in Cell
      BY <2>1, ElementOfSeq DEF I
  <2>3. QED
      BY <2>1, <2>2, CellKinds
<1>6. QED
    BY <1>2, <1>5 DEF I

\* The files and frames above the checkpoint.
LEMMA ReadIs ==
    ASSUME files \in Seq(WalFile), ckpt \in Nat
    PROVE  /\ ReadFiles \in Seq(WalFile) /\ ReadFrames \in Seq(Cell)
           /\ Len(ReadFiles) = Len(files) - Checkpointed(files)
           /\ \A i \in 1..Len(ReadFiles) : ReadFiles[i] = files[Checkpointed(files) + i]
           /\ [i \in DOMAIN ReadFiles |-> ReadFiles[i].mem] \in Seq(Seq(Cell))
           /\ Len([i \in DOMAIN ReadFiles |-> ReadFiles[i].mem]) = Len(ReadFiles)
           /\ ResumeSeq \in Nat \ {0}
<1> DEFINE c == Checkpointed(files)
           q == [i \in DOMAIN ReadFiles |-> ReadFiles[i].mem]
<1>1. Len(files) \in Nat /\ \A i \in 1..Len(files) : files[i] \in WalFile
    BY LenProperties, ElementOfSeq
<1>2. c \in 0..Len(files) /\ (files # << >> => c < Len(files))
    BY <1>1, CheckpointedIs, EmptySeq
<1> HIDE DEF c
<1>3. /\ ReadFiles \in Seq(WalFile) /\ Len(ReadFiles) = Len(files) - c
      /\ \A i \in 1..Len(ReadFiles) : ReadFiles[i] = files[c + i]
  <2>1. \A i \in c + 1..Len(files) : files[i] \in WalFile
      BY <1>1, <1>2
  <2>2. ReadFiles = SubSeq(files, c + 1, Len(files))
      BY DEF ReadFiles, c
  <2>3. /\ ReadFiles \in Seq(WalFile)
        /\ Len(ReadFiles) = IF c + 1 <= Len(files) THEN Len(files) - (c + 1) + 1 ELSE 0
        /\ \A i \in 1..Len(files) - (c + 1) + 1 : ReadFiles[i] = files[c + 1 + i - 1]
      BY <1>1, <1>2, <2>1, <2>2, SubSeqProperties
  <2>4. \A x \in Nat : \A y \in 0..x : x - y = IF y + 1 <= x THEN x - (y + 1) + 1 ELSE 0
      OBVIOUS
  <2>5. Len(ReadFiles) = Len(files) - c
      BY <1>1, <1>2, <2>3, <2>4
  <2>6. \A i \in 1..Len(files) - c : i \in 1..Len(files) - (c + 1) + 1 /\ c + 1 + i - 1 = c + i
      BY <1>1, <1>2
  <2>7. QED
      BY <2>3, <2>5, <2>6
<1>4. DOMAIN ReadFiles = 1..Len(ReadFiles) /\ Len(ReadFiles) \in Nat
    BY <1>3, LenProperties
<1>5. \A i \in 1..Len(ReadFiles) : ReadFiles[i].mem \in Seq(Cell)
    BY <1>3, ElementOfSeq, FileFields
<1>6. q \in Seq(Seq(Cell))
  <2>1. q \in [1..Len(ReadFiles) -> Seq(Cell)]
      BY <1>4, <1>5
  <2>2. QED
      BY <1>4, <2>1, SeqDef
<1>7. DOMAIN q = 1..Len(ReadFiles)
    BY <1>4
<1>8. Len(q) = Len(ReadFiles)
  <2> HIDE DEF q
  <2>1. QED
      BY <1>4, <1>6, <1>7, LenProperties
<1>9. ReadFrames \in Seq(Cell)
  <2>1. ReadFrames = FlattenSeq(q)
      BY DEF ReadFrames
  <2> HIDE DEF q
  <2>2. QED
      BY <1>6, <2>1, FlattenPlaces
<1> DEFINE data == Data(ReadFrames)
<1>10. data # << >> => Last(data).last \in Nat
  <2>1. /\ data \in Seq(Cell)
        /\ \A k \in 1..Len(data) : data[k] \in Frame
      BY <1>9, DataIs
  <2> HIDE DEF data
  <2>2. SUFFICES ASSUME data # << >> PROVE Last(data).last \in Nat
      OBVIOUS
  <2>3. Len(data) \in 1..Len(data)
      BY <2>1, <2>2, EmptySeq
  <2>4. QED
      BY <2>1, <2>3 DEF Last, Frame
<1>11. ResumeSeq \in Nat \ {0}
  <2> HIDE DEF data
  <2> DEFINE last == IF data = << >> THEN 0 ELSE Last(data).last
  <2>1. last \in Nat
      BY <1>10
  <2>2. ResumeSeq = (IF last > ckpt THEN last ELSE ckpt) + 1
      BY DEF ResumeSeq, data
  <2> HIDE DEF last
  <2>3. QED
      BY <2>1, <2>2
<1>12. QED
    BY <1>3, <1>6, <1>8, <1>9, <1>11 DEF c

-----------------------------------------------------------------------------
(* The frames of a group. *)

OpsBefore(shape, i) == FoldLeft(+, 0, SubSeq(shape, 1, i - 1))

\* The count of operations before a frame, if each frame counts for what it logs.
LEMMA OpsBeforeIs ==
    ASSUME NEW shape \in Seq(Nat), NEW i \in 1..Len(shape), NEW frames \in Seq(Cell), Len(frames) <= Len(shape),
           \A j \in 1..Len(frames) : Len(FrameOps(frames[j])) = shape[j]
    PROVE  /\ OpsBefore(shape, i) \in Nat
           /\ i <= Len(frames) => OpsBefore(shape, i) = Len(OpsOf(SubSeq(frames, 1, i - 1)))
<1> DEFINE s == SubSeq(shape, 1, i - 1)
           n == i - 1
           env == [shape |-> s, frames |-> SubSeq(frames, 1, IF n <= Len(frames) THEN n ELSE 0)]
           fr == env.frames
<1>1. OpsBefore(shape, i) = Counting!Fold(env, 0, DOMAIN s)
    BY DEF OpsBefore, FoldLeft, MapThenFoldSet, Counting!Fold, Counting!Body, CountStep, LastOf
<1>2. /\ Len(shape) \in Nat /\ Len(frames) \in Nat /\ n \in Nat /\ i \in Nat
      /\ \A j \in 1..Len(shape) : shape[j] \in Nat
      /\ \A j \in 1..Len(frames) : frames[j] \in Cell
    BY LenProperties, ElementOfSeq
<1>3. s \in Seq(Nat) /\ Len(s) = n /\ DOMAIN s = 1..n /\ \A j \in 1..n : s[j] = shape[j]
  <2>1. \A j \in 1..n : shape[j] \in Nat
      BY <1>2
  <2>2. s \in Seq(Nat) /\ Len(s) = n /\ \A j \in 1..n : s[j] = shape[j]
      BY <1>2, <2>1, SubSeqProperties
  <2> HIDE DEF s, n
  <2>3. QED
      BY <2>2, LenProperties
<1>4. Booting!IsFiniteSet(DOMAIN s) /\ Counting!IsFiniteSet(DOMAIN s)
  <2>1. IsFiniteSet(DOMAIN s)
      BY <1>2, <1>3, FS_Interval
  <2>2. QED
      BY <2>1 DEF IsFiniteSet, Booting!IsFiniteSet, Counting!IsFiniteSet
<1>5. ASSUME NEW T \in SUBSET (1..n), T # {} PROVE LastOf(T) \in T /\ \A y \in T : y <= LastOf(T)
  <2>1. T \in SUBSET Nat /\ \A y \in T : y <= n
      BY <1>2
  <2>2. QED
      BY <1>2, <1>5, <2>1, MaxOf DEF LastOf
<1>6. Counting!Picks(DOMAIN s)
    BY <1>3, <1>5 DEF Counting!Picks
<1> DEFINE k == IF n <= Len(frames) THEN n ELSE 0
<1>7. fr \in Seq(Cell) /\ Len(fr) = k /\ k \in 0..n /\ \A j \in 1..k : fr[j] = frames[j] /\ j \in 1..Len(frames)
  <2>1. k \in 0..n /\ k \in 0..Len(frames)
      BY <1>2
  <2>2. fr = SubSeq(frames, 1, k)
      OBVIOUS
  <2> HIDE DEF fr, k
  <2>3. \A j \in 1..k : frames[j] \in Cell /\ j \in 1..Len(frames)
      BY <1>2, <2>1
  <2>4. QED
      BY <1>2, <2>1, <2>2, <2>3, SubSeqProperties
<1>8. env.shape = s /\ env.frames = fr
    OBVIOUS
<1>14. OpsOf(<< >>) = << >>
    BY DEF OpsOf, FlattenSeq
<1> HIDE DEF s, env, fr
<1>9. IsCount(env, {}, 0)
  <2>1. ASSUME NEW j \in 0..Len(fr), {} = 1..j PROVE 0 = Len(OpsOf(SubSeq(fr, 1, j)))
    <3>1. j = 0
      <4>1. 1 \notin 1..j
          BY <2>1
      <4>2. QED
          BY <1>7, <4>1
    <3>2. SubSeq(fr, 1, 0) = << >>
        BY SubSeqEmpty
    <3>3. OpsOf(SubSeq(fr, 1, j)) = << >>
        BY <1>14, <3>1, <3>2, Zenon
    <3>4. QED
        BY <3>3
  <2>2. QED
      BY <1>8, <2>1 DEF IsCount
<1>10. \A T \in SUBSET DOMAIN s : \A y :
          T # {} /\ IsCount(env, T \ {LastOf(T)}, y) => IsCount(env, T, CountStep(env, LastOf(T), y))
  <2>1. ASSUME NEW T \in SUBSET (1..n), NEW y, T # {}, IsCount(env, T \ {LastOf(T)}, y)
        PROVE  IsCount(env, T, CountStep(env, LastOf(T), y))
    <3>1. LastOf(T) \in 1..n /\ LastOf(T) \in T /\ \A x \in T : x <= LastOf(T)
        BY <1>5, <2>1
    <3>2. y \in Nat /\ s[LastOf(T)] \in Nat /\ CountStep(env, LastOf(T), y) = y + s[LastOf(T)]
      <4>1. y \in Nat
          BY <2>1 DEF IsCount
      <4>2. s[LastOf(T)] \in Nat
          BY <1>2, <1>3, <3>1
      <4>3. QED
          BY <1>8, <4>1, <4>2 DEF CountStep
    <3>3. ASSUME NEW j \in 0..Len(fr), T = 1..j
          PROVE  y + s[LastOf(T)] = Len(OpsOf(SubSeq(fr, 1, j)))
      <4>1. j # 0 /\ j \in 1..k
        <5>1. j # 0
            BY <2>1, <3>3
        <5> HIDE DEF k
        <5>2. QED
            BY <1>7, <5>1
      <4>2. LastOf(T) = j /\ T \ {j} = 1..j - 1
        <5> HIDE DEF k, n
        <5>1. j \in T /\ j <= LastOf(T) /\ LastOf(T) <= j
            BY <3>1, <3>3, <4>1
        <5>2. LastOf(T) \in Nat /\ j \in Nat
            BY <3>1, <3>3, <4>1
        <5>3. T \ {j} = 1..j - 1
            BY <3>3, <5>2
        <5>4. QED
            BY <5>1, <5>2, <5>3
      <4>3. y = Len(OpsOf(SubSeq(fr, 1, j - 1)))
        <5>1. j - 1 \in 0..Len(fr)
          <6> HIDE DEF k
          <6>1. QED
              BY <1>7, <4>1
        <5>2. QED
            BY <1>8, <2>1, <4>2, <5>1 DEF IsCount
      <4>4. /\ SubSeq(fr, 1, j - 1) \in Seq(Cell) /\ fr[j] \in Cell
            /\ SubSeq(fr, 1, j) = Append(SubSeq(fr, 1, j - 1), fr[j])
        <5> HIDE DEF k
        <5>1. j - 1 \in 0..Len(fr) - 1 /\ (j - 1) + 1 = j
            BY <1>7, <4>1
        <5>2. QED
            BY <1>7, <5>1, AppendLast
      <4>5. OpsOf(SubSeq(fr, 1, j)) = OpsOf(SubSeq(fr, 1, j - 1)) \o FrameOps(fr[j])
          BY <4>4, OpsAppend
      <4>6. Len(OpsOf(SubSeq(fr, 1, j))) = Len(OpsOf(SubSeq(fr, 1, j - 1))) + Len(FrameOps(fr[j]))
          BY <4>4, <4>5, OpsAre, FrameOpsIs, ConcatProperties
      <4>7. Len(FrameOps(fr[j])) = s[j]
        <5> HIDE DEF k
        <5>1. fr[j] = frames[j] /\ j \in 1..Len(frames) /\ j \in 1..n
            BY <1>2, <1>7, <4>1
        <5>2. s[j] = shape[j]
            BY <1>3, <5>1
        <5>3. QED
            BY <5>1, <5>2
      <4>8. QED
          BY <4>2, <4>3, <4>6, <4>7
    <3>4. QED
        BY <1>8, <3>2, <3>3 DEF IsCount
  <2>2. QED
      BY <1>3, <2>1
<1>11. IsCount(env, DOMAIN s, Counting!Fold(env, 0, DOMAIN s))
    BY <1>4, <1>6, <1>9, <1>10, Counting!FoldRule
<1>12. OpsBefore(shape, i) \in Nat
    BY <1>1, <1>11 DEF IsCount
<1>13. ASSUME i <= Len(frames) PROVE OpsBefore(shape, i) = Len(OpsOf(SubSeq(frames, 1, i - 1)))
  <2>1. k = n /\ n \in 0..Len(fr)
      BY <1>2, <1>7, <1>13
  <2>2. OpsBefore(shape, i) = Len(OpsOf(SubSeq(fr, 1, n)))
      BY <1>1, <1>3, <1>8, <1>11, <2>1 DEF IsCount
  <2>3. SubSeq(fr, 1, n) = fr
      BY <1>7, <2>1, SubSeqFull
  <2>4. fr = SubSeq(frames, 1, n)
      BY <2>1 DEF fr, env
  <2>5. QED
      BY <2>2, <2>3, <2>4
<1>15. QED
    BY <1>12, <1>13

-----------------------------------------------------------------------------
(* The inductive invariant. *)

Grouping == {"idle", "appended", "rolling", "truncated"}    \* the active file takes groups
Rotating == {"rotating", "emptying", "linking"}             \* the active file is not in use yet
Stopped  == {"down", "barrier", "repaired", "corrupt", "fencing", "failed", "fatal"}

\* The frames a step appended and did not sync yet.
Unsynced == SubSeq(files[Active].mem, synced + 1, Len(files[Active].mem))

TypeInv ==
    /\ files \in Seq(WalFile) /\ gone \in Seq(WalFile)
    /\ fence \in [visible : BOOLEAN, durable : BOOLEAN, thisBoot : BOOLEAN]
    /\ phase \in Grouping \cup Rotating \cup Stopped
    /\ ckpt \in Nat /\ nextSeq \in Nat \ {0} /\ nextGroup \in Nat /\ synced \in Nat /\ attempts \in Nat
    /\ log \in Seq(Nat) /\ pending \in Seq(Nat) /\ rejected \in SUBSET Nat
    /\ ckpt <= Len(log)

\* The writer has an active file, synced where it says.
PhaseInv ==
    /\ phase \in Grouping \cup Rotating => files # << >>
    /\ phase \in {"idle", "truncated"} => synced = Len(files[Active].mem)
    /\ phase \in {"appended", "rolling"} => synced <= Len(files[Active].mem)
    /\ phase \in {"rotating", "linking"} => Len(files[Active].mem) = 1

\* A marker of this boot stops every process; a writer runs only without a marker.
FenceInv ==
    /\ FenceHolds
    /\ phase \in {"failed", "fatal"} /\ fence.visible => fence.thisBoot
    /\ phase \in Grouping \cup Rotating \cup {"fencing"} => ~fence.visible

BaseInv == TypeInv /\ PhaseInv /\ FenceInv

\* No frame of a file, for a reader or on the device, is of one of these operations.
Without(f, ops) ==
    /\ \A c \in 1..Len(f.mem) : IsFrame(f.mem[c]) => f.mem[c].op \notin ops
    /\ \A c \in 1..Len(f.dev) : IsFrame(f.dev[c]) => f.dev[c].op \notin ops
WithoutUpTo(f, n, ops) ==
    /\ \A c \in 1..Len(f.mem) : c <= n /\ IsFrame(f.mem[c]) => f.mem[c].op \notin ops
    /\ \A c \in 1..Len(f.dev) : c <= n /\ IsFrame(f.dev[c]) => f.dev[c].op \notin ops

\* The operations no file may hold: the rejected ones, and those nobody submitted yet.
Never == {op \in Nat : op \in rejected \/ op > attempts}
\* The operations of the group without an answer.
Open == {op \in Nat : \E k \in 1..Len(pending) : pending[k] = op}

\* The group without an answer is in the active file only, past what is synced.
AppliedInv ==
    /\ rejected \in SUBSET (1..attempts)
    /\ \A k \in 1..Len(pending) : pending[k] \in 1..attempts
    /\ \A i \in 1..Len(files) : Without(files[i], Never)
    /\ \A i \in 1..Len(gone) : Without(gone[i], Never)
    /\ phase \in {"appended", "rolling", "truncated"} =>
         /\ \A i \in 1..Len(gone) : Without(gone[i], Open)
         /\ \A i \in 1..Len(files) - 1 : Without(files[i], Open)
         /\ WithoutUpTo(files[Active], synced, Open)

\* The writer continues after the log; an appended group is numbered from there.
NumbersInv ==
    /\ phase \in Grouping \cup Rotating => nextSeq = Len(log) + 1
    /\ phase = "appended" =>
         /\ pending = OpsOf(Unsynced)
         /\ \A i \in 1..Len(Unsynced) : IsData(Unsynced[i]) =>
              Unsynced[i].first = nextSeq + Len(OpsOf(SubSeq(Unsynced, 1, i - 1)))
    /\ phase = "repaired" /\ files # << >> => files[Checkpointed(files) + 1].first <= ckpt + 1

\* Every cell of the page cache is on the device; every clean one is.
Whole(f) == \A c \in 1..Len(f.mem) : Agrees(f, c)
Honest(f) == \A c \in 1..Len(f.mem) : c \notin f.dirty => f.mem[c] = OnDevice(f, c)

\* Where neither a rollback nor an abandoned rotation reaches.
InUse(i, n) ==
    /\ phase \in Grouping /\ i = Active => n <= synced
    /\ phase \in Rotating => i # Active
\* A group ends in cell n of a durable file, and is on the device with all that is before it.
Durable(i, n) ==
    /\ files[i].linked
    /\ n <= Len(files[i].mem) /\ files[i].mem[n].end
    /\ \A k \in 1..n : Agrees(files[i], k) /\ IsFrame(files[i].mem[k])
    /\ InUse(i, n)
\* Operation s is in cell c, at or before such an end, and no removal of files below s reaches it.
Kept(s, i, n, c) ==
    /\ Durable(i, n)
    /\ IsData(files[i].mem[c]) /\ files[i].mem[c].op = log[s]
    /\ s \in files[i].mem[c].first..files[i].mem[c].last
    /\ \A j \in i + 1..Len(files) : s < files[j].first
LogKept ==
    \A s \in ckpt + 1..Len(log) :
        \E i \in 1..Len(files) : \E n \in 1..Len(files[i].mem) : \E c \in 1..n : Kept(s, i, n, c)

\* What the writer synced is whole, and what it appended is not synced.
WriterInv ==
    /\ phase \in Grouping \cup Rotating => \A i \in 1..Len(files) - 1 : Whole(files[i])
    /\ phase \in Grouping =>
         /\ files[Active].linked
         /\ \A c \in 1..synced : Agrees(files[Active], c) /\ IsFrame(files[Active].mem[c])
    /\ phase = "appended" =>
         /\ synced < Len(files[Active].mem)
         /\ files[Active].mem[Len(files[Active].mem)].end
         /\ \A c \in synced + 1..Len(files[Active].mem) : c \in files[Active].dirty /\ IsFrame(files[Active].mem[c])
    /\ phase \in {"rotating", "linking"} => IsFrame(files[Active].mem[1])
    /\ phase = "rotating" => 1 \in files[Active].dirty
    /\ phase = "linking" => Agrees(files[Active], 1)
    /\ phase \in {"barrier", "repaired"} => \A i \in 1..Len(files) : Whole(files[i])
    /\ phase = "down" /\ ~(fence.visible /\ fence.thisBoot) => \A i \in 1..Len(files) : Honest(files[i])

AckInv == LogKept /\ WriterInv

-----------------------------------------------------------------------------
(* What the steps do to the directory. *)

LEMMA DataFrameIs ==
    ASSUME NEW g \in Nat, NEW a \in Nat, NEW b \in Nat, a <= b, NEW end \in BOOLEAN, NEW op \in Nat
    PROVE  LET f == DataFrame(g, a, b, end, op)
           IN  /\ f \in Frame /\ f \in Cell /\ IsFrame(f) /\ IsData(f)
               /\ f.first = a /\ f.last = b /\ f.end = end /\ f.op = op /\ f.group = g
BY DEF DataFrame, Frame, Cell, IsFrame, IsData

\* These are the frames of a group of an operation, numbered from here.
IsGroup(fr, op, from) ==
    /\ fr \in Seq(Cell) /\ Len(fr) \in Nat
    /\ \A i \in 1..Len(fr) : /\ IsFrame(fr[i]) /\ fr[i].op \in {0, op}
                             /\ fr[i].end <=> i = Len(fr)
    /\ \A i \in 1..Len(fr) : IsData(fr[i]) =>
         fr[i].op = op /\ fr[i].first = from + Len(OpsOf(SubSeq(fr, 1, i - 1)))

LEMMA GroupFramesIs ==
    ASSUME NEW shape \in Seq(Nat), NEW op \in Nat, nextSeq \in Nat, nextGroup \in Nat, ckpt \in Nat
    PROVE  /\ IsGroup(GroupFrames(shape, op), op, nextSeq)
           /\ Len(GroupFrames(shape, op)) = Len(shape)
<1> DEFINE fr == GroupFrames(shape, op)
           frame(i) == IF shape[i] = 0
                       THEN CheckpointFrame(nextGroup, i = Len(shape))
                       ELSE DataFrame(nextGroup, nextSeq + OpsBefore(shape, i),
                                      nextSeq + OpsBefore(shape, i) + shape[i] - 1, i = Len(shape), op)
<1>1. fr = [i \in DOMAIN shape |-> frame(i)]
    BY DEF GroupFrames, OpsBefore
<1>2. DOMAIN shape = 1..Len(shape) /\ Len(shape) \in Nat /\ \A i \in 1..Len(shape) : shape[i] \in Nat
    BY LenProperties, ElementOfSeq
<1>3. ASSUME NEW i \in 1..Len(shape) PROVE OpsBefore(shape, i) \in Nat
  <2>1. << >> \in Seq(Cell) /\ Len(<< >>) = 0
      BY EmptySeq
  <2> DEFINE none == << >>
  <2>2. Len(none) <= Len(shape) /\ \A j \in 1..Len(none) : Len(FrameOps(none[j])) = shape[j]
      BY <1>2, <2>1
  <2> HIDE DEF none
  <2>3. QED
      BY <2>1, <2>2, OpsBeforeIs DEF none
<1>4. ASSUME NEW i \in 1..Len(shape)
      PROVE  /\ frame(i) \in Frame /\ frame(i) \in Cell /\ IsFrame(frame(i)) /\ frame(i).op \in {0, op}
             /\ frame(i).end = (i = Len(shape))
             /\ IsData(frame(i)) <=> shape[i] # 0
             /\ shape[i] # 0 => frame(i).first = nextSeq + OpsBefore(shape, i) /\ frame(i).op = op
             /\ shape[i] # 0 => frame(i).last - frame(i).first + 1 = shape[i]
  <2>1. OpsBefore(shape, i) \in Nat /\ shape[i] \in Nat
      BY <1>2, <1>3
  <2>2. CASE shape[i] = 0
      BY <2>2 DEF CheckpointFrame, Frame, Cell, IsFrame, IsData
  <2>3. CASE shape[i] # 0
    <3> DEFINE a == nextSeq + OpsBefore(shape, i)
               b == nextSeq + OpsBefore(shape, i) + shape[i] - 1
    <3>1. a \in Nat /\ b \in Nat /\ a <= b /\ b - a + 1 = shape[i]
      <4>1. PICK x, y : x = OpsBefore(shape, i) /\ y = shape[i]
          OBVIOUS
      <4>2. x \in Nat /\ y \in Nat /\ y # 0 /\ nextSeq \in Nat
          BY <2>1, <2>3, <4>1
      <4>3. /\ nextSeq + x \in Nat /\ nextSeq + x + y - 1 \in Nat /\ nextSeq + x <= nextSeq + x + y - 1
            /\ (nextSeq + x + y - 1) - (nextSeq + x) + 1 = y
          BY <4>2
      <4>4. QED
          BY <4>1, <4>3
    <3>2. frame(i) = DataFrame(nextGroup, a, b, i = Len(shape), op)
        BY <2>3
    <3>3. (i = Len(shape)) \in BOOLEAN
        OBVIOUS
    <3>4. a = nextSeq + OpsBefore(shape, i)
        OBVIOUS
    <3> DEFINE end == (i = Len(shape))
    <3> HIDE DEF a, b, frame, end
    <3>5. /\ end \in BOOLEAN /\ op \in Nat /\ nextGroup \in Nat
          /\ frame(i) = DataFrame(nextGroup, a, b, end, op)
        BY <3>2, <3>3 DEF end
    <3>6. /\ frame(i) \in Frame /\ frame(i) \in Cell /\ IsFrame(frame(i)) /\ IsData(frame(i))
          /\ frame(i).first = a /\ frame(i).last = b /\ frame(i).end = end /\ frame(i).op = op
        BY <3>1, <3>5, DataFrameIs
    <3>7. frame(i).end = (i = Len(shape))
        BY <3>6 DEF end
    <3>8. QED
        BY <2>3, <3>1, <3>4, <3>6, <3>7
  <2>4. QED
      BY <2>2, <2>3
<1> HIDE DEF frame, fr
<1>5. fr \in [1..Len(shape) -> Cell]
    BY <1>1, <1>2, <1>4
<1>6. fr \in Seq(Cell) /\ DOMAIN fr = 1..Len(shape)
    BY <1>2, <1>5, SeqDef
<1>7. Len(fr) = Len(shape)
    BY <1>2, <1>6, LenProperties
<1>8. \A i \in 1..Len(fr) : fr[i] = frame(i)
    BY <1>1, <1>2, <1>7
<1>9. \A i \in 1..Len(fr) : Len(FrameOps(fr[i])) = shape[i]
  <2>1. ASSUME NEW i \in 1..Len(fr) PROVE Len(FrameOps(fr[i])) = shape[i]
    <3>1. Len(FrameOps(fr[i])) = IF IsData(fr[i]) THEN fr[i].last - fr[i].first + 1 ELSE 0
        BY <1>4, <1>7, <1>8, FrameOpsIs
    <3>2. QED
        BY <1>4, <1>7, <1>8, <3>1
  <2>2. QED
      BY <2>1
<1>10. ASSUME NEW i \in 1..Len(fr), IsData(fr[i])
       PROVE  fr[i].op = op /\ fr[i].first = nextSeq + Len(OpsOf(SubSeq(fr, 1, i - 1)))
  <2>1. shape[i] # 0 /\ fr[i].first = nextSeq + OpsBefore(shape, i) /\ fr[i].op = op
      BY <1>4, <1>7, <1>8, <1>10
  <2>2. i \in 1..Len(shape) /\ i <= Len(fr) /\ Len(fr) <= Len(shape)
      BY <1>2, <1>7
  <2>3. \A j \in 1..Len(fr) : Len(FrameOps(fr[j])) = shape[j]
      BY <1>9
  <2>4. OpsBefore(shape, i) = Len(OpsOf(SubSeq(fr, 1, i - 1)))
      BY <1>6, <2>2, <2>3, OpsBeforeIs
  <2>5. QED
      BY <2>1, <2>4
<1>11. \A i \in 1..Len(fr) : /\ IsFrame(fr[i]) /\ fr[i].op \in {0, op}
                             /\ fr[i].end <=> i = Len(fr)
    BY <1>4, <1>7, <1>8
<1>12. IsGroup(fr, op, nextSeq)
    BY <1>2, <1>6, <1>7, <1>10, <1>11 DEF IsGroup
<1>13. QED
    BY <1>7, <1>12 DEF fr

LEMMA ActiveIs ==
    ASSUME files \in Seq(WalFile)
    PROVE  /\ Len(files) \in Nat /\ DOMAIN files = 1..Len(files)
           /\ \A i \in 1..Len(files) : files[i] \in WalFile
           /\ files # << >> => Active \in 1..Len(files) /\ files[Active] \in WalFile
BY LenProperties, ElementOfSeq, EmptySeq DEF Active

\* Only the active file changes.
ActiveBecomes(g) ==
    /\ g \in WalFile /\ files' \in Seq(WalFile) /\ Len(files') = Len(files) /\ files' # << >>
    /\ files'[Len(files)] = g
    /\ \A i \in 1..Len(files) - 1 : files'[i] = files[i]

LEMMA SetActive ==
    ASSUME files \in Seq(WalFile), files # << >>, NEW g \in WalFile, files' = [files EXCEPT ![Active] = g]
    PROVE  ActiveBecomes(g)
<1>1. Len(files) \in Nat /\ DOMAIN files = 1..Len(files) /\ Active \in 1..Len(files) /\ Active = Len(files)
    BY ActiveIs DEF Active
<1>2. files' \in Seq(WalFile) /\ Len(files') = Len(files)
    BY <1>1, ExceptSeq
<1>3. files'[Len(files)] = g /\ \A i \in 1..Len(files) - 1 : files'[i] = files[i]
  <2>1. files' = [files EXCEPT ![Len(files)] = g]
      BY <1>1
  <2> DEFINE m == Len(files)
  <2>2. m \in Nat /\ DOMAIN files = 1..m /\ m \in 1..m
      BY <1>1
  <2>3. files' = [files EXCEPT ![m] = g]
      BY <2>1
  <2> HIDE DEF m
  <2>4. \A i \in 1..m - 1 : i \in 1..m /\ i # m
      BY <2>2
  <2>5. files'[m] = g /\ \A i \in 1..m - 1 : files'[i] = files[i]
      BY <2>2, <2>3, <2>4
  <2>6. QED
      BY <2>5 DEF m
<1>4. files' # << >>
    BY <1>1, <1>2, EmptySeq
<1>5. QED
    BY <1>2, <1>3, <1>4 DEF ActiveBecomes

\* The leading n files are gone.
LEMMA DropIs ==
    ASSUME NEW fs \in Seq(WalFile), NEW n \in 0..Len(fs)
    PROVE  /\ SubSeq(fs, n + 1, Len(fs)) \in Seq(WalFile)
           /\ Len(SubSeq(fs, n + 1, Len(fs))) = Len(fs) - n
           /\ \A i \in 1..Len(fs) - n : SubSeq(fs, n + 1, Len(fs))[i] = fs[n + i]
<1> DEFINE r == SubSeq(fs, n + 1, Len(fs))
<1>1. Len(fs) \in Nat /\ \A i \in 1..Len(fs) : fs[i] \in WalFile
    BY LenProperties, ElementOfSeq
<1>2. \A i \in n + 1..Len(fs) : fs[i] \in WalFile
    BY <1>1
<1>3. /\ r \in Seq(WalFile) /\ Len(r) = IF n + 1 <= Len(fs) THEN Len(fs) - (n + 1) + 1 ELSE 0
      /\ \A k \in 1..Len(fs) - (n + 1) + 1 : r[k] = fs[n + 1 + k - 1]
    BY <1>1, <1>2, SubSeqProperties
<1> HIDE DEF r
<1>4. \A k \in 1..Len(fs) - n : k \in 1..Len(fs) - (n + 1) + 1 /\ n + 1 + k - 1 = n + k
    BY <1>1
<1>5. \A x \in Nat : \A y \in 0..x : x - y = IF y + 1 <= x THEN x - (y + 1) + 1 ELSE 0
    OBVIOUS
<1>6. QED
    BY <1>1, <1>3, <1>4, <1>5 DEF r

\* Nothing is held that was not.
LEMMA HoldsLess ==
    ASSUME NEW f, NEW g, NoMore(f, g), NEW ops
    PROVE  /\ Without(f, ops) => Without(g, ops)
           /\ \A n : WithoutUpTo(f, n, ops) => WithoutUpTo(g, n, ops)
           /\ Without(f, ops) => \A n : WithoutUpTo(f, n, ops)
<1>1. \A c, cell : Holds(g, c, cell) => Holds(f, c, cell) \/ cell = Torn
    BY DEF NoMore
<1>2. ASSUME NEW c, NEW cell, Holds(g, c, cell), IsFrame(cell) PROVE Holds(f, c, cell)
    BY <1>1, <1>2 DEF Torn, IsFrame
<1>3. \A n : WithoutUpTo(f, n, ops) => WithoutUpTo(g, n, ops)
    BY <1>2 DEF WithoutUpTo, Holds
<1>4. QED
    BY <1>2, <1>3 DEF Without, WithoutUpTo, Holds

LEMMA WithoutFewer ==
    ASSUME NEW f, NEW ops, NEW fewer \in SUBSET ops
    PROVE  /\ Without(f, ops) => Without(f, fewer)
           /\ \A n : WithoutUpTo(f, n, ops) => WithoutUpTo(f, n, fewer)
BY DEF Without, WithoutUpTo

-----------------------------------------------------------------------------
(* The directory after each step, file by file. *)

ActiveFile == files[Active]

LEMMA AppendGroupDoes ==
    ASSUME TypeInv, PhaseInv, NEW shape \in Shapes, AppendGroup(shape)
    PROVE  LET frames == GroupFrames(shape, attempts + 1)
           IN  /\ IsGroup(frames, attempts + 1, nextSeq) /\ Len(frames) # 0
               /\ \E cells \in Seq(Cell) :
                    /\ ActiveBecomes(Appended(ActiveFile, cells))
                    /\ \A i \in 1..Len(cells) : IsFrame(cells[i]) /\ cells[i].op \in {0, attempts + 1}
                    /\ Len(cells) <= Len(frames) /\ \A i \in 1..Len(cells) : cells[i] = frames[i]
                    /\ phase' = "rolling" \/ (phase' = "appended" /\ cells = frames)
<1> DEFINE op == attempts + 1
           frames == GroupFrames(shape, op)
<1>1. shape \in Seq(Nat) /\ shape # << >>
    BY ShapesAssumption
<1>2. attempts + 1 \in Nat /\ nextSeq \in Nat /\ nextGroup \in Nat /\ ckpt \in Nat /\ files \in Seq(WalFile) /\ attempts \in Nat
    BY DEF TypeInv
<1>3. IsGroup(frames, op, nextSeq) /\ Len(frames) = Len(shape)
    BY <1>1, <1>2, GroupFramesIs
<1>11. /\ frames \in Seq(Cell) /\ Len(frames) \in Nat
       /\ \A i \in 1..Len(frames) : IsFrame(frames[i]) /\ frames[i].op \in {0, op}
    BY <1>3 DEF IsGroup
<1>4. Len(frames) # 0
    BY <1>1, <1>3, EmptySeq
<1>5. files # << >>
    BY DEF AppendGroup, PhaseInv, Grouping
<1>6. ActiveFile \in WalFile
    BY <1>2, <1>5, ActiveIs DEF ActiveFile
<1>7. \/ phase' = "appended" /\ files' = [files EXCEPT ![Active] = Appended(@, frames)]
      \/ \E n \in 0..Len(frames) - 1 :
           phase' = "rolling" /\ files' = [files EXCEPT ![Active] = Appended(@, SubSeq(frames, 1, n))]
    BY DEF AppendGroup
<1> HIDE DEF frames
<1>8. ASSUME NEW cells \in Seq(Cell), files' = [files EXCEPT ![Active] = Appended(@, cells)]
      PROVE  ActiveBecomes(Appended(ActiveFile, cells))
  <2>1. Appended(ActiveFile, cells) \in WalFile
      BY <1>6, AppendedIs
  <2>2. files' = [files EXCEPT ![Active] = Appended(ActiveFile, cells)]
      BY <1>8 DEF ActiveFile
  <2>3. QED
      BY <1>2, <1>5, <2>1, <2>2, SetActive
<1>9. ASSUME phase' = "appended" /\ files' = [files EXCEPT ![Active] = Appended(@, frames)]
      PROVE  \E cells \in Seq(Cell) :
                    /\ ActiveBecomes(Appended(ActiveFile, cells))
                    /\ \A i \in 1..Len(cells) : IsFrame(cells[i]) /\ cells[i].op \in {0, attempts + 1}
                    /\ Len(cells) <= Len(frames) /\ \A i \in 1..Len(cells) : cells[i] = frames[i]
                    /\ phase' = "rolling" \/ (phase' = "appended" /\ cells = frames)
  <2>1. ActiveBecomes(Appended(ActiveFile, frames))
      BY <1>8, <1>9, <1>11
  <2>2. Len(frames) <= Len(frames)
      BY <1>11
  <2>3. QED
      BY <1>9, <1>11, <2>1, <2>2
<1>10. ASSUME NEW n \in 0..Len(frames) - 1, phase' = "rolling",
              files' = [files EXCEPT ![Active] = Appended(@, SubSeq(frames, 1, n))]
       PROVE  \E cells \in Seq(Cell) :
                    /\ ActiveBecomes(Appended(ActiveFile, cells))
                    /\ \A i \in 1..Len(cells) : IsFrame(cells[i]) /\ cells[i].op \in {0, attempts + 1}
                    /\ Len(cells) <= Len(frames) /\ \A i \in 1..Len(cells) : cells[i] = frames[i]
                    /\ phase' = "rolling" \/ (phase' = "appended" /\ cells = frames)
  <2> DEFINE cells == SubSeq(frames, 1, n)
  <2>1. cells \in Seq(Cell) /\ Len(cells) = n /\ \A i \in 1..n : cells[i] = frames[i]
      BY <1>11, AppendLast
  <2>2. \A i \in 1..Len(cells) : IsFrame(cells[i]) /\ cells[i].op \in {0, attempts + 1}
      BY <1>11, <2>1
  <2>3. ActiveBecomes(Appended(ActiveFile, cells))
      BY <1>8, <1>10, <2>1
  <2>5. Len(cells) <= Len(frames) /\ \A i \in 1..Len(cells) : cells[i] = frames[i]
      BY <1>11, <2>1
  <2> HIDE DEF cells
  <2>4. QED
      BY <1>10, <2>1, <2>2, <2>3, <2>5
<1>12. QED
    BY <1>3, <1>4, <1>7, <1>9, <1>10 DEF frames

\* The steps that sync the active file, and those whose sync fails.
LEMMA SyncDoes ==
    ASSUME TypeInv, PhaseInv
    PROVE  /\ SyncGroup \/ RollBackSync \/ (RotateSync /\ phase' = "linking") => ActiveBecomes(Synced(ActiveFile))
           /\ SyncGroupFails \/ RollBackSyncFails \/ (RotateSync /\ phase' = "emptying") =>
                \E g \in FailedSync(ActiveFile) : ActiveBecomes(g)
<1>1. files \in Seq(WalFile)
    BY DEF TypeInv
<1>2. ASSUME SyncGroup \/ RollBackSync \/ (RotateSync /\ phase' = "linking")
      PROVE  ActiveBecomes(Synced(ActiveFile))
  <2>1. files # << >>
      BY <1>2 DEF SyncGroup, RollBackSync, RotateSync, PhaseInv, Grouping, Rotating
  <2>2. files' = [files EXCEPT ![Active] = Synced(ActiveFile)]
      BY <1>2 DEF SyncGroup, RollBackSync, RotateSync, ActiveFile
  <2>3. Synced(ActiveFile) \in WalFile
      BY <1>1, <2>1, ActiveIs, SyncedIs DEF ActiveFile
  <2>4. QED
      BY <1>1, <2>1, <2>2, <2>3, SetActive
<1>3. ASSUME SyncGroupFails \/ RollBackSyncFails \/ (RotateSync /\ phase' = "emptying")
      PROVE  \E g \in FailedSync(ActiveFile) : ActiveBecomes(g)
  <2>1. files # << >>
      BY <1>3 DEF SyncGroupFails, RollBackSyncFails, RotateSync, PhaseInv, Grouping, Rotating
  <2>2. PICK g \in FailedSync(ActiveFile) : files' = [files EXCEPT ![Active] = g]
      BY <1>3 DEF SyncGroupFails, RollBackSyncFails, RotateSync, ActiveFile
  <2>3. g \in WalFile
      BY <1>1, <2>1, ActiveIs, FailedSyncIs DEF ActiveFile
  <2>4. QED
      BY <1>1, <2>1, <2>2, <2>3, SetActive
<1>4. QED
    BY <1>2, <1>3

LEMMA TruncateDoes ==
    ASSUME TypeInv, PhaseInv
    PROVE  /\ RollBackTruncate => \/ phase' = "truncated" /\ ActiveBecomes(SetLen(ActiveFile, synced))
                                  \/ phase' = "fencing" /\ files' = files
           /\ RotateEmpty =>
                \/ phase' = "failed" /\ ActiveBecomes(Synced(SetLen(ActiveFile, 0)))
                \/ phase' = "fencing" /\ \E g \in {ActiveFile} \cup FailedSync(SetLen(ActiveFile, 0)) : ActiveBecomes(g)
<1>1. files \in Seq(WalFile)
    BY DEF TypeInv
<1>2. ASSUME RollBackTruncate
      PROVE  \/ phase' = "truncated" /\ ActiveBecomes(SetLen(ActiveFile, synced))
             \/ phase' = "fencing" /\ files' = files
  <2>1. files # << >> /\ synced <= Len(ActiveFile.mem) /\ synced \in Nat
      BY <1>2 DEF RollBackTruncate, PhaseInv, Grouping, TypeInv, ActiveFile
  <2>2. ActiveFile \in WalFile /\ Len(ActiveFile.mem) \in Nat
      BY <1>1, <2>1, ActiveIs, FileFields DEF ActiveFile
  <2>3. SetLen(ActiveFile, synced) \in WalFile
    <3>1. synced \in 0..Len(ActiveFile.mem)
        BY <2>1, <2>2
    <3>2. QED
        BY <2>2, <3>1, SetLenIs
  <2>4. \/ phase' = "truncated" /\ files' = [files EXCEPT ![Active] = SetLen(ActiveFile, synced)]
        \/ phase' = "fencing" /\ files' = files
      BY <1>2 DEF RollBackTruncate, ActiveFile
  <2>5. QED
      BY <1>1, <2>1, <2>3, <2>4, SetActive
<1>3. ASSUME RotateEmpty
      PROVE  \/ phase' = "failed" /\ ActiveBecomes(Synced(SetLen(ActiveFile, 0)))
             \/ phase' = "fencing" /\ \E g \in {ActiveFile} \cup FailedSync(SetLen(ActiveFile, 0)) : ActiveBecomes(g)
  <2>1. files # << >>
      BY <1>3 DEF RotateEmpty, PhaseInv, Rotating
  <2>2. ActiveFile \in WalFile /\ Len(ActiveFile.mem) \in Nat
      BY <1>1, <2>1, ActiveIs, FileFields DEF ActiveFile
  <2>3. SetLen(ActiveFile, 0) \in WalFile
    <3>1. 0 \in 0..Len(ActiveFile.mem)
        BY <2>2
    <3>2. QED
        BY <2>2, <3>1, SetLenIs
  <2>4. Synced(SetLen(ActiveFile, 0)) \in WalFile
      BY <2>3, SyncedIs
  <2>5. CASE phase' = "failed" /\ files' = [files EXCEPT ![Active] = Synced(SetLen(@, 0))]
    <3>1. files' = [files EXCEPT ![Active] = Synced(SetLen(ActiveFile, 0))]
        BY <2>5 DEF ActiveFile
    <3>2. QED
        BY <1>1, <2>1, <2>4, <2>5, <3>1, SetActive
  <2>6. CASE phase' = "fencing" /\ \E g \in {ActiveFile} \cup FailedSync(SetLen(ActiveFile, 0)) :
                                      files' = [files EXCEPT ![Active] = g]
    <3>1. PICK g \in {ActiveFile} \cup FailedSync(SetLen(ActiveFile, 0)) : files' = [files EXCEPT ![Active] = g]
        BY <2>6
    <3>2. g \in WalFile
        BY <2>2, <2>3, FailedSyncIs
    <3>3. ActiveBecomes(g)
        BY <1>1, <2>1, <3>1, <3>2, SetActive
    <3>4. QED
        BY <2>6, <3>3
  <2>7. QED
      BY <1>3, <2>5, <2>6 DEF RotateEmpty, ActiveFile
<1>4. QED
    BY <1>2, <1>3

LEMMA NewFileIs ==
    ASSUME NEW first \in Nat, NEW cells \in Seq(Cell)
    PROVE  LET f == NewFile(first, cells)
           IN  /\ f \in WalFile /\ f.first = first /\ f.mem = cells /\ f.dev = << >> /\ Len(f.dev) = 0
               /\ f.linked = FALSE /\ f.dirty = 1..Len(cells)
<1>1. DOMAIN cells = 1..Len(cells) /\ Len(cells) \in Nat
    BY LenProperties
<1>2. << >> \in Seq(Cell) /\ Len(<< >>) = 0
    BY EmptySeq
<1>3. 1..Len(cells) \in SUBSET Nat
    BY <1>1
<1>4. QED
    BY <1>1, <1>2, <1>3 DEF NewFile, WalFile

LEMMA CheckpointFrameIs ==
    ASSUME ckpt \in Nat, NEW g \in Nat, NEW end \in BOOLEAN
    PROVE  LET f == CheckpointFrame(g, end)
           IN  /\ f \in Frame /\ f \in Cell /\ IsFrame(f) /\ ~IsData(f) /\ f.op = 0 /\ f.end = end
               /\ f.group = g /\ f.last = ckpt
               /\ <<f>> \in Seq(Cell) /\ Len(<<f>>) = 1 /\ <<f>>[1] = f
BY DEF CheckpointFrame, Frame, Cell, IsFrame, IsData

LEMMA RotateDoes ==
    ASSUME TypeInv, Rotate
    PROVE  \E cells \in {<<CheckpointFrame(nextGroup, TRUE)>>, << >>} :
             /\ files' = Append(files, NewFile(nextSeq, cells)) /\ NewFile(nextSeq, cells) \in WalFile
             /\ files' \in Seq(WalFile) /\ Len(files') = Len(files) + 1 /\ files' # << >>
             /\ files'[Len(files) + 1] = NewFile(nextSeq, cells)
             /\ \A i \in 1..Len(files) : files'[i] = files[i]
             /\ \/ phase' = "rotating" /\ cells = <<CheckpointFrame(nextGroup, TRUE)>>
                \/ phase' = "emptying" /\ cells = << >>
<1>1. files \in Seq(WalFile) /\ nextSeq \in Nat /\ nextGroup \in Nat /\ ckpt \in Nat
    BY DEF TypeInv
<1>2. PICK cells \in {<<CheckpointFrame(nextGroup, TRUE)>>, << >>} :
        /\ files' = files \o <<NewFile(nextSeq, cells)>>
        /\ \/ phase' = "rotating" /\ cells = <<CheckpointFrame(nextGroup, TRUE)>>
           \/ phase' = "emptying" /\ cells = << >>
    BY DEF Rotate
<1>3. cells \in Seq(Cell)
    BY <1>1, CheckpointFrameIs, EmptySeq
<1>4. NewFile(nextSeq, cells) \in WalFile
    BY <1>1, <1>3, NewFileIs
<1>5. files' = Append(files, NewFile(nextSeq, cells))
    BY <1>1, <1>2, <1>4, AppendIsConcat
<1>6. /\ files' \in Seq(WalFile) /\ Len(files') = Len(files) + 1 /\ files' # << >>
      /\ files'[Len(files) + 1] = NewFile(nextSeq, cells)
      /\ \A i \in 1..Len(files) : files'[i] = files[i]
    BY <1>1, <1>4, <1>5, AppendProperties
<1>7. QED
    BY <1>2, <1>4, <1>5, <1>6

\* The file is what it was, if not that its entry is durable now.
LinkOnly(f, g) ==
    /\ g \in WalFile /\ g.first = f.first /\ g.mem = f.mem /\ g.dev = f.dev /\ g.dirty = f.dirty
    /\ f.linked => g.linked
    /\ NoMore(f, g)

LEMMA LinkOnlySame ==
    ASSUME NEW f \in WalFile
    PROVE  LinkOnly(f, f) /\ NoMore(f, f)
BY DEF LinkOnly, NoMore

LEMMA LinkedDoes ==
    ASSUME NEW fs \in Seq(WalFile)
    PROVE  /\ Linked(fs) \in Seq(WalFile) /\ Len(Linked(fs)) = Len(fs)
           /\ \A i \in 1..Len(fs) : LinkOnly(fs[i], Linked(fs)[i]) /\ Linked(fs)[i].linked = TRUE
<1>1. Linked(fs) \in Seq(WalFile) /\ Len(Linked(fs)) = Len(fs)
    BY LinkedIs
<1>2. ASSUME NEW i \in 1..Len(fs) PROVE LinkOnly(fs[i], Linked(fs)[i]) /\ Linked(fs)[i].linked = TRUE
  <2>1. Linked(fs)[i] \in WalFile
      BY <1>1, <1>2, ElementOfSeq
  <2>2. QED
      BY <1>2, <2>1, LinkedIs DEF LinkOnly
<1>3. QED
    BY <1>1, <1>2

LEMMA RemoveDoes ==
    ASSUME TypeInv, RemoveCheckpointed
    PROVE  \E n \in 1..Len(files) - 1 :
             /\ files' \in Seq(WalFile) /\ gone' \in Seq(WalFile) /\ Len(files') = Len(files) - n
             /\ \A i \in 1..Len(files) - n : LinkOnly(files[n + i], files'[i])
             /\ \A k \in 1..Len(gone') : (\E i \in 1..Len(gone) : gone'[k] = gone[i])
                                         \/ \E i \in 1..n : gone'[k] = files[i]
             /\ files[n + 1].first <= ckpt + 1
             /\ n <= Checkpointed(files)
<1> DEFINE m == Checkpointed(files)
<1>1. files \in Seq(WalFile) /\ gone \in Seq(WalFile) /\ ckpt \in Nat
    BY DEF TypeInv
<1>2. Len(files) \in Nat /\ Len(gone) \in Nat /\ \A i \in 1..Len(files) : files[i] \in WalFile
    BY <1>1, LenProperties, ElementOfSeq
<1>3. m > 0 /\ m \in 0..Len(files) - 1 /\ files # << >> /\ \A j \in 1..m : files[j + 1].first <= ckpt + 1
  <2>1. m > 0
      BY DEF RemoveCheckpointed
  <2>2. files # << >>
      BY <1>1, <2>1, CheckpointedIs
  <2>3. QED
      BY <1>1, <2>1, <2>2, CheckpointedIs
<1>4. \/ files' = Linked(SubSeq(files, m + 1, Len(files))) /\ gone' = << >>
      \/ \E n \in 1..m : files' = SubSeq(files, n + 1, Len(files)) /\ gone' = gone \o SubSeq(files, 1, n)
    BY DEF RemoveCheckpointed
<1> HIDE DEF m
<1>5. CASE files' = Linked(SubSeq(files, m + 1, Len(files))) /\ gone' = << >>
  <2> DEFINE r == SubSeq(files, m + 1, Len(files))
  <2>1. m \in 1..Len(files) - 1 /\ m \in 0..Len(files)
      BY <1>2, <1>3
  <2>2. r \in Seq(WalFile) /\ Len(r) = Len(files) - m /\ \A i \in 1..Len(files) - m : r[i] = files[m + i]
      BY <1>1, <2>1, DropIs
  <2>3. files' = Linked(r)
      BY <1>5
  <2> HIDE DEF r
  <2>4. /\ files' \in Seq(WalFile) /\ Len(files') = Len(files) - m
        /\ \A i \in 1..Len(files) - m : LinkOnly(files[m + i], files'[i])
      BY <2>2, <2>3, LinkedDoes
  <2>5. gone' \in Seq(WalFile) /\ Len(gone') = 0
      BY <1>5, EmptySeq
  <2>7. \A k \in 1..Len(gone') : FALSE
      BY <2>5
  <2>6. files[m + 1].first <= ckpt + 1 /\ m <= m
      BY <1>2, <1>3, <2>1
  <2>8. QED
      BY <2>1, <2>4, <2>5, <2>6, <2>7 DEF m
<1>6. ASSUME NEW n \in 1..m, files' = SubSeq(files, n + 1, Len(files)), gone' = gone \o SubSeq(files, 1, n)
      PROVE  /\ n \in 1..Len(files) - 1
             /\ files' \in Seq(WalFile) /\ gone' \in Seq(WalFile) /\ Len(files') = Len(files) - n
             /\ \A i \in 1..Len(files) - n : LinkOnly(files[n + i], files'[i])
             /\ \A k \in 1..Len(gone') : (\E i \in 1..Len(gone) : gone'[k] = gone[i])
                                         \/ \E i \in 1..n : gone'[k] = files[i]
             /\ files[n + 1].first <= ckpt + 1
             /\ n <= m
  <2>1. n \in 1..Len(files) - 1 /\ n \in 0..Len(files) /\ n \in 0..Len(files) - 1 /\ n <= m
      BY <1>2, <1>3, <1>6
  <2>2. /\ files' \in Seq(WalFile) /\ Len(files') = Len(files) - n
        /\ \A i \in 1..Len(files) - n : files'[i] = files[n + i]
      BY <1>1, <1>6, <2>1, DropIs
  <2>3. \A i \in 1..Len(files) - n : LinkOnly(files[n + i], files'[i])
    <3>1. ASSUME NEW i \in 1..Len(files) - n PROVE LinkOnly(files[n + i], files'[i])
      <4>1. files[n + i] \in WalFile
        <5>1. n + i \in 1..Len(files)
            BY <1>2, <2>1
        <5>2. QED
            BY <1>2, <5>1
      <4>2. QED
          BY <2>2, <4>1, LinkOnlySame
    <3>2. QED
        BY <3>1
  <2> DEFINE r == SubSeq(files, 1, n)
  <2>4. r \in Seq(WalFile) /\ Len(r) = n /\ \A i \in 1..n : r[i] = files[i]
      BY <1>1, <2>1, AppendLast
  <2>5. gone' = gone \o r
      BY <1>6
  <2> HIDE DEF r
  <2>6. /\ gone' \in Seq(WalFile) /\ Len(gone') = Len(gone) + n
        /\ \A k \in 1..Len(gone) + n : gone'[k] = IF k <= Len(gone) THEN gone[k] ELSE r[k - Len(gone)]
    <3>1. /\ gone \o r \in Seq(WalFile) /\ Len(gone \o r) = Len(gone) + Len(r)
          /\ \A k \in 1..Len(gone) + Len(r) :
               (gone \o r)[k] = IF k <= Len(gone) THEN gone[k] ELSE r[k - Len(gone)]
        BY <1>1, <2>4, ConcatProperties
    <3>2. QED
        BY <2>4, <2>5, <3>1
  <2>7. ASSUME NEW k \in 1..Len(gone')
        PROVE  (\E i \in 1..Len(gone) : gone'[k] = gone[i]) \/ \E i \in 1..n : gone'[k] = files[i]
    <3>1. CASE k <= Len(gone)
      <4>1. k \in 1..Len(gone) /\ gone'[k] = gone[k]
          BY <1>2, <2>1, <2>6, <3>1
      <4>2. QED
          BY <4>1
    <3>2. CASE ~(k <= Len(gone))
      <4>1. k - Len(gone) \in 1..n /\ gone'[k] = r[k - Len(gone)]
          BY <1>2, <2>1, <2>6, <3>2
      <4>2. QED
          BY <2>4, <4>1
    <3>3. QED
        BY <3>1, <3>2
  <2>8. files[n + 1].first <= ckpt + 1
      BY <1>3, <1>6
  <2>9. QED
      BY <2>1, <2>2, <2>3, <2>6, <2>7, <2>8
<1>7. QED
    BY <1>4, <1>5, <1>6 DEF m

\* The barrier syncs every file it reaches.
LEMMA BarrierDoes ==
    ASSUME TypeInv, Barrier
    PROVE  /\ files' \in Seq(WalFile) /\ Len(files') = Len(files)
           /\ \A i \in 1..Len(files) :
                /\ files'[i] \in WalFile /\ files'[i].first = files[i].first /\ files'[i].mem = files[i].mem
                /\ files[i].linked => files'[i].linked
                /\ NoMore(files[i], files'[i])
                /\ ~BarrierFaults => LinkOnly(Synced(files[i]), files'[i])
           /\ gone' = gone \/ gone' = << >>
<1>1. files \in Seq(WalFile)
    BY DEF TypeInv
<1>2. Len(files) \in Nat /\ DOMAIN files = 1..Len(files) /\ \A i \in 1..Len(files) : files[i] \in WalFile
    BY <1>1, LenProperties, ElementOfSeq
<1> DEFINE fs == [i \in DOMAIN files |-> Synced(files[i])]
<1>3. \A i \in 1..Len(files) : Synced(files[i]) \in WalFile
    BY <1>2, SyncedIs
<1>4. fs \in Seq(WalFile) /\ \A i \in 1..Len(files) : fs[i] = Synced(files[i])
  <2>1. fs \in [1..Len(files) -> WalFile]
      BY <1>2, <1>3
  <2>2. QED
      BY <1>2, <2>1, SeqDef
<1>5. Len(fs) = Len(files)
  <2>1. DOMAIN fs = 1..Len(files)
      BY <1>2
  <2> HIDE DEF fs
  <2>2. QED
      BY <1>2, <1>4, <2>1, LenProperties
<1>6. \/ files' = Linked(fs)
      \/ /\ BarrierFaults
         /\ \E i \in DOMAIN files : \E failed \in FailedSync(files[i]) :
              files' = [j \in DOMAIN files |->
                            CASE j < i -> Synced(files[j])
                              [] j = i -> failed
                              [] j > i -> files[j]]
      \/ files' = fs
    BY DEF Barrier
<1>7. gone' = gone \/ gone' = << >>
    BY DEF Barrier
<1> HIDE DEF fs
<1>8. ASSUME NEW g \in Seq(WalFile), Len(g) = Len(files), files' = g,
             \A i \in 1..Len(files) : LinkOnly(Synced(files[i]), g[i])
      PROVE  \A i \in 1..Len(files) :
                /\ files'[i] \in WalFile /\ files'[i].first = files[i].first /\ files'[i].mem = files[i].mem
                /\ files[i].linked => files'[i].linked
                /\ NoMore(files[i], files'[i])
                /\ ~BarrierFaults => LinkOnly(Synced(files[i]), files'[i])
  <2>1. ASSUME NEW i \in 1..Len(files)
        PROVE  /\ files'[i] \in WalFile /\ files'[i].first = files[i].first /\ files'[i].mem = files[i].mem
               /\ files[i].linked => files'[i].linked
               /\ NoMore(files[i], files'[i])
               /\ ~BarrierFaults => LinkOnly(Synced(files[i]), files'[i])
    <3>1. /\ Synced(files[i]).first = files[i].first /\ Synced(files[i]).mem = files[i].mem
          /\ Synced(files[i]).linked = files[i].linked /\ NoMore(files[i], Synced(files[i]))
        BY <1>2, SyncedIs
    <3>2. LinkOnly(Synced(files[i]), files'[i])
        BY <1>8
    <3>3. NoMore(files[i], files'[i])
        BY <3>1, <3>2 DEF LinkOnly, NoMore
    <3>4. QED
        BY <3>1, <3>2, <3>3 DEF LinkOnly
  <2>2. QED
      BY <2>1
<1>9. CASE files' = Linked(fs)
    BY <1>4, <1>5, <1>7, <1>8, <1>9, LinkedDoes
<1>10. CASE files' = fs
  <2>1. \A i \in 1..Len(files) : LinkOnly(Synced(files[i]), fs[i])
      BY <1>3, <1>4, LinkOnlySame
  <2>2. QED
      BY <1>4, <1>5, <1>7, <1>8, <1>10, <2>1
<1>11. ASSUME BarrierFaults, NEW i \in DOMAIN files, NEW failed \in FailedSync(files[i]),
              files' = [j \in DOMAIN files |->
                            CASE j < i -> Synced(files[j])
                              [] j = i -> failed
                              [] j > i -> files[j]]
       PROVE  /\ files' \in Seq(WalFile) /\ Len(files') = Len(files)
              /\ \A j \in 1..Len(files) :
                /\ files'[j] \in WalFile /\ files'[j].first = files[j].first /\ files'[j].mem = files[j].mem
                /\ files[j].linked => files'[j].linked
                /\ NoMore(files[j], files'[j])
  <2>1. i \in 1..Len(files) /\ i \in Nat
      BY <1>2
  <2>2. ASSUME NEW j \in 1..Len(files) PROVE files'[j] = Synced(files[j]) \/ files'[j] \in FailedSync(files[j]) \/ files'[j] = files[j]
    <3>1. j < i \/ j = i \/ j > i
        BY <2>1
    <3>2. files'[j] = CASE j < i -> Synced(files[j]) [] j = i -> failed [] j > i -> files[j]
        BY <1>2, <1>11
    <3>3. CASE j < i
        BY <2>1, <3>2, <3>3
    <3>4. CASE j = i
        BY <2>1, <3>2, <3>4, <1>11
    <3>5. CASE j > i
        BY <2>1, <3>2, <3>5
    <3>6. QED
        BY <3>1, <3>3, <3>4, <3>5
  <2>3. ASSUME NEW j \in 1..Len(files)
        PROVE  /\ files'[j] \in WalFile /\ files'[j].first = files[j].first /\ files'[j].mem = files[j].mem
               /\ files[j].linked => files'[j].linked
               /\ NoMore(files[j], files'[j])
    <3>1. files[j] \in WalFile
        BY <1>2
    <3>2. QED
        BY <2>2, <3>1, SyncedIs, FailedSyncIs, LinkOnlySame
  <2>4. files' \in [1..Len(files) -> WalFile]
      BY <1>2, <1>11, <2>3
  <2>5. files' \in Seq(WalFile) /\ DOMAIN files' = 1..Len(files)
      BY <1>2, <2>4, SeqDef
  <2>6. Len(files') = Len(files)
      BY <1>2, <2>5, LenProperties
  <2>7. QED
      BY <2>3, <2>5, <2>6
<1>12. QED
    BY <1>6, <1>7, <1>9, <1>10, <1>11

\* The tail after the last complete group is cut off.
Repaired == SetLen(ActiveFile, CommittedEnd(ActiveFile.mem))

LEMMA RepairDoes ==
    ASSUME TypeInv, RepairTail
    PROVE  \/ files' = files /\ phase' = "corrupt"
           \/ files' = files /\ phase' = "repaired" /\ files = << >>
           \/ /\ files # << >> /\ CanRepair
              /\ \/ phase' = "repaired" /\ ActiveBecomes(Synced(Repaired))
                 \/ phase' = "down" /\ \E g \in FailedSync(Repaired) : ActiveBecomes(g)
<1>1. files \in Seq(WalFile)
    BY DEF TypeInv
<1>2. ASSUME files # << >> PROVE Repaired \in WalFile
  <2>1. ActiveFile \in WalFile
      BY <1>1, <1>2, ActiveIs DEF ActiveFile
  <2>2. CommittedEnd(ActiveFile.mem) \in 0..Len(ActiveFile.mem)
      BY <2>1, FileFields, CommittedEndIs
  <2>3. QED
      BY <2>1, <2>2, SetLenIs DEF Repaired
<1>3. CASE ~CanRepair
    BY <1>3 DEF RepairTail
<1>4. CASE CanRepair /\ files = << >>
    BY <1>4 DEF RepairTail
<1>5. CASE CanRepair /\ files # << >>
  <2>1. Repaired \in WalFile
      BY <1>2, <1>5
  <2>2. \/ phase' = "repaired" /\ files' = [files EXCEPT ![Active] = Synced(Repaired)]
        \/ phase' = "down" /\ \E g \in FailedSync(Repaired) : files' = [files EXCEPT ![Active] = g]
      BY <1>5 DEF RepairTail, Repaired, ActiveFile
  <2>3. CASE phase' = "repaired" /\ files' = [files EXCEPT ![Active] = Synced(Repaired)]
    <3>1. Synced(Repaired) \in WalFile
        BY <2>1, SyncedIs
    <3>2. ActiveBecomes(Synced(Repaired))
        BY <1>1, <1>5, <2>3, <3>1, SetActive
    <3>3. QED
        BY <1>5, <2>3, <3>2
  <2>4. CASE phase' = "down" /\ \E g \in FailedSync(Repaired) : files' = [files EXCEPT ![Active] = g]
    <3>1. PICK g \in FailedSync(Repaired) : files' = [files EXCEPT ![Active] = g]
        BY <2>4
    <3>2. g \in WalFile
        BY <2>1, FailedSyncIs
    <3>3. ActiveBecomes(g)
        BY <1>1, <1>5, <3>1, <3>2, SetActive
    <3>4. QED
        BY <1>5, <2>4, <3>3
  <2>5. QED
      BY <2>2, <2>3, <2>4
<1>6. QED
    BY <1>3, <1>4, <1>5

\* The files a writer starts with, before it syncs the directory.
Taken == IF files = << >> THEN <<NewFile(ResumeSeq, << >>)>> ELSE files

LEMMA TakenIs ==
    ASSUME TypeInv
    PROVE  /\ Taken \in Seq(WalFile) /\ Len(Taken) \in Nat \ {0}
           /\ files = << >> => /\ Len(Taken) = 1 /\ Taken[1] = NewFile(ResumeSeq, << >>)
                              /\ NewFile(ResumeSeq, << >>) \in WalFile
           /\ files # << >> => Taken = files
<1>1. files \in Seq(WalFile) /\ ResumeSeq \in Nat
    BY ReadIs DEF TypeInv
<1>2. << >> \in Seq(Cell)
    BY EmptySeq
<1>3. NewFile(ResumeSeq, << >>) \in WalFile
    BY <1>1, <1>2, NewFileIs
<1> DEFINE one == <<NewFile(ResumeSeq, << >>)>>
<1>4. one \in Seq(WalFile) /\ Len(one) = 1 /\ one[1] = NewFile(ResumeSeq, << >>)
    BY <1>3
<1> HIDE DEF one
<1>5. Len(files) \in Nat /\ (files # << >> => Len(files) # 0)
    BY <1>1, LenProperties, EmptySeq
<1>6. Taken = IF files = << >> THEN one ELSE files
    BY DEF Taken, one
<1>7. QED
    BY <1>1, <1>3, <1>4, <1>5, <1>6

LEMMA IntoWriterDoes ==
    ASSUME TypeInv, IntoWriter
    PROVE  /\ nextGroup' \in Nat /\ nextSeq' = ResumeSeq /\ ResumeSeq \in Nat \ {0}
           /\ synced' = Len(Taken[Len(Taken)].mem)
           /\ files' \in Seq(WalFile) /\ Len(files') = Len(Taken) /\ files' # << >>
           /\ \A i \in 1..Len(Taken) - 1 : LinkOnly(Taken[i], files'[i])
           /\ \A i \in 1..Len(Taken) : files'[i].linked
           /\ \/ /\ phase' \in {"idle", "rolling"}
                 /\ LinkOnly(Taken[Len(Taken)], files'[Len(Taken)])
                 /\ phase' = "idle" => Taken[Len(Taken)].mem # << >>
                 /\ phase' = "rolling" => Taken[Len(Taken)].mem = << >>
              \/ /\ phase' = "appended" /\ Taken[Len(Taken)].mem = << >>
                 /\ \E f \in WalFile : /\ LinkOnly(Taken[Len(Taken)], f) /\ f.linked
                                      /\ files'[Len(Taken)] = Appended(f, <<CheckpointFrame(nextGroup', TRUE)>>)
<1> DEFINE group == IF ReadFrames = << >> THEN 0 ELSE NextGroup(Last(ReadFrames).group)
           start == CheckpointFrame(group, TRUE)
           fs == Linked(Taken)
           m == Len(Taken)
<1>1. /\ nextGroup' = group /\ nextSeq' = ResumeSeq /\ synced' = Len(fs[Len(fs)].mem)
      /\ \/ fs[Len(fs)].mem # << >> /\ phase' = "idle" /\ files' = fs
         \/ /\ fs[Len(fs)].mem = << >> /\ phase' = "appended"
            /\ files' = [fs EXCEPT ![Len(fs)] = Appended(@, <<start>>)]
         \/ fs[Len(fs)].mem = << >> /\ phase' = "rolling" /\ files' = fs
    BY DEF IntoWriter, Taken
<1>2. ReplayOK
    BY DEF IntoWriter
<1>3. ReadFrames \in Seq(Cell) /\ ResumeSeq \in Nat \ {0} /\ ckpt \in Nat
    BY ReadIs DEF TypeInv
<1>4. group \in Nat
  <2>1. CASE ReadFrames = << >>
      BY <2>1
  <2>2. CASE ReadFrames # << >>
    <3>1. Len(ReadFrames) \in 1..Len(ReadFrames) /\ DOMAIN ReadFrames = 1..Len(ReadFrames)
        BY <1>3, <2>2, EmptySeq, LenProperties
    <3>2. ReadFrames[Len(ReadFrames)] \in Cell /\ IsFrame(ReadFrames[Len(ReadFrames)])
        BY <1>2, <1>3, <3>1, ElementOfSeq DEF ReplayOK
    <3>3. Last(ReadFrames).group \in Nat
        BY <3>2, CellKinds DEF Last
    <3>4. \A g \in Nat : NextGroup(g) \in Nat
        BY BoundsAssumption DEF NextGroup
    <3>5. QED
        BY <2>2, <3>3, <3>4
  <2>3. QED
      BY <2>1, <2>2
<1>5. /\ Taken \in Seq(WalFile) /\ m \in Nat \ {0} /\ m \in 1..m
    BY TakenIs
<1> HIDE DEF group, m
<1>6. /\ fs \in Seq(WalFile) /\ Len(fs) = m
      /\ \A i \in 1..m : LinkOnly(Taken[i], fs[i]) /\ fs[i].linked = TRUE
    BY <1>5, LinkedDoes DEF m
<1>7. start \in Cell /\ <<start>> \in Seq(Cell) /\ Len(<<start>>) = 1
    BY <1>3, <1>4, CheckpointFrameIs
<1>8. start = CheckpointFrame(nextGroup', TRUE)
    BY <1>1
<1> HIDE DEF fs, start
<1>9. fs[m].mem = Taken[m].mem /\ fs[m] \in WalFile
    BY <1>5, <1>6 DEF LinkOnly
<1>10. \A i \in 1..m - 1 : i \in 1..m /\ i # m
    BY <1>5
<1>11. synced' = Len(Taken[m].mem)
    BY <1>1, <1>6, <1>9
<1>12. CASE files' = fs /\ phase' \in {"idle", "rolling"}
  <2>1. files' # << >>
      BY <1>5, <1>6, <1>12, EmptySeq
  <2>2. /\ phase' = "idle" => Taken[m].mem # << >>
        /\ phase' = "rolling" => Taken[m].mem = << >>
      BY <1>1, <1>6, <1>9, <1>12
  <2>3. /\ \A i \in 1..m - 1 : LinkOnly(Taken[i], files'[i])
        /\ \A i \in 1..m : files'[i].linked
        /\ LinkOnly(Taken[m], files'[m])
      BY <1>5, <1>6, <1>10, <1>12
  <2>4. QED
      BY <1>1, <1>3, <1>4, <1>6, <1>11, <1>12, <2>1, <2>2, <2>3 DEF m
<1>13. CASE /\ fs[Len(fs)].mem = << >> /\ phase' = "appended"
            /\ files' = [fs EXCEPT ![Len(fs)] = Appended(@, <<start>>)]
  <2>1. Appended(fs[m], <<start>>) \in WalFile /\ Appended(fs[m], <<start>>).linked = fs[m].linked
      BY <1>7, <1>9, AppendedIs
  <2> DEFINE g == Appended(fs[m], <<start>>)
  <2>2. files' = [fs EXCEPT ![m] = g] /\ g \in WalFile
      BY <1>6, <1>13, <2>1
  <2> HIDE DEF g
  <2>3. files' \in Seq(WalFile) /\ Len(files') = m
      BY <1>5, <1>6, <2>2, ExceptSeq
  <2>4. DOMAIN fs = 1..m
      BY <1>6, LenProperties
  <2>5. files'[m] = g /\ \A i \in 1..m - 1 : files'[i] = fs[i]
      BY <1>5, <1>10, <2>2, <2>4
  <2>6. files' # << >>
      BY <1>5, <2>3, EmptySeq
  <2>7. g.linked = TRUE
      BY <1>5, <1>6, <2>1 DEF g
  <2>8. \A i \in 1..m : i = m \/ i \in 1..m - 1
      BY <1>5
  <2>9. /\ \A i \in 1..m - 1 : LinkOnly(Taken[i], files'[i])
        /\ \A i \in 1..m : files'[i].linked
      BY <1>6, <1>10, <2>5, <2>7, <2>8
  <2>10. /\ LinkOnly(Taken[m], fs[m]) /\ fs[m].linked /\ fs[m] \in WalFile
         /\ files'[m] = Appended(fs[m], <<CheckpointFrame(nextGroup', TRUE)>>)
      BY <1>5, <1>6, <1>8, <1>9, <2>5 DEF g
  <2>11. Taken[m].mem = << >>
      BY <1>6, <1>9, <1>13
  <2>12. QED
      BY <1>1, <1>3, <1>4, <1>11, <1>13, <2>3, <2>6, <2>9, <2>10, <2>11 DEF m
<1>14. QED
    BY <1>1, <1>12, <1>13

LEMMA IntoWriterFailsDoes ==
    ASSUME TypeInv, IntoWriterFails
    PROVE  \/ files' = files
           \/ files = << >> /\ files' = Taken /\ phase' = "down"
BY DEF IntoWriterFails, Taken

-----------------------------------------------------------------------------
(* BaseInv is an invariant. *)

LEMMA UnsyncedIs ==
    ASSUME files \in Seq(WalFile), files # << >>, synced \in Nat, synced <= Len(ActiveFile.mem)
    PROVE  /\ Unsynced \in Seq(Cell) /\ Len(Unsynced) = Len(ActiveFile.mem) - synced
           /\ OpsOf(Unsynced) \in Seq(Nat) /\ Len(OpsOf(Unsynced)) \in Nat
           /\ \A i \in 1..Len(Unsynced) : Unsynced[i] = ActiveFile.mem[synced + i]
<1> DEFINE mem == ActiveFile.mem
<1>1. mem \in Seq(Cell) /\ Len(mem) \in Nat
    BY ActiveIs, FileFields DEF ActiveFile
<1>2. Unsynced = SubSeq(mem, synced + 1, Len(mem))
    BY DEF Unsynced, ActiveFile
<1> HIDE DEF mem
<1>3. \A i \in synced + 1..Len(mem) : mem[i] \in Cell
    BY <1>1, ElementOfSeq
<1>4. /\ Unsynced \in Seq(Cell)
      /\ Len(Unsynced) = IF synced + 1 <= Len(mem) THEN Len(mem) - (synced + 1) + 1 ELSE 0
      /\ \A i \in 1..Len(mem) - (synced + 1) + 1 : Unsynced[i] = mem[synced + 1 + i - 1]
    BY <1>1, <1>2, <1>3, SubSeqProperties
<1>5. synced <= Len(mem)
    BY DEF mem
<1>6. \A x \in Nat : \A y \in 0..x : x - y = IF y + 1 <= x THEN x - (y + 1) + 1 ELSE 0
    OBVIOUS
<1>7. \A i \in 1..Len(mem) - synced : i \in 1..Len(mem) - (synced + 1) + 1 /\ synced + 1 + i - 1 = synced + i
    BY <1>1
<1>8. Len(Unsynced) = Len(mem) - synced
    BY <1>1, <1>4, <1>5, <1>6
<1>9. OpsOf(Unsynced) \in Seq(Nat) /\ Len(OpsOf(Unsynced)) \in Nat
    BY <1>4, OpsAre, LenProperties
<1>10. QED
    BY <1>4, <1>7, <1>8, <1>9 DEF mem

LEMMA ReplayedIs ==
    ASSUME TypeInv
    PROVE  /\ Replayed \in Seq(Cell) /\ OpsOf(Replayed) \in Seq(Nat) /\ Len(OpsOf(Replayed)) \in Nat
           /\ SubSeq(log, 1, ckpt) \in Seq(Nat) /\ Len(SubSeq(log, 1, ckpt)) = ckpt
           /\ SubSeq(log, 1, ckpt) \o OpsOf(Replayed) \in Seq(Nat)
           /\ Len(SubSeq(log, 1, ckpt) \o OpsOf(Replayed)) = ckpt + Len(OpsOf(Replayed))
<1>1. ReadFrames \in Seq(Cell)
    BY ReadIs DEF TypeInv
<1>2. Replayed \in Seq(Cell)
  <2> DEFINE I == {i \in DOMAIN ReadFrames : ReadFrames[i].last > ckpt}
  <2>1. Replayed = At(ReadFrames, I)
      BY DEF Replayed
  <2> HIDE DEF I
  <2>2. QED
      BY <1>1, <2>1, AtEmbeds
<1>3. OpsOf(Replayed) \in Seq(Nat) /\ Len(OpsOf(Replayed)) \in Nat
    BY <1>2, OpsAre, LenProperties
<1>4. log \in Seq(Nat) /\ ckpt \in Nat /\ ckpt <= Len(log) /\ Len(log) \in Nat
    BY LenProperties DEF TypeInv
<1>5. \A i \in 1..ckpt : log[i] \in Nat
  <2>1. \A i \in 1..ckpt : i \in 1..Len(log)
      BY <1>4
  <2>2. QED
      BY <1>4, <2>1, ElementOfSeq
<1>6. SubSeq(log, 1, ckpt) \in Seq(Nat) /\ Len(SubSeq(log, 1, ckpt)) = ckpt
    BY <1>4, <1>5, SubSeqProperties
<1>7. QED
    BY <1>2, <1>3, <1>6, ConcatProperties

\* The writer's counters and the history keep their types in every step.
LEMMA CountersStep ==
    ASSUME TypeInv, PhaseInv, Next
    PROVE  /\ fence' \in [visible : BOOLEAN, durable : BOOLEAN, thisBoot : BOOLEAN]
           /\ phase' \in Grouping \cup Rotating \cup Stopped
           /\ ckpt' \in Nat /\ nextSeq' \in Nat \ {0} /\ nextGroup' \in Nat /\ synced' \in Nat /\ attempts' \in Nat
           /\ log' \in Seq(Nat) /\ pending' \in Seq(Nat) /\ rejected' \in SUBSET Nat
           /\ ckpt' <= Len(log')
<1> DEFINE Q == /\ fence' \in [visible : BOOLEAN, durable : BOOLEAN, thisBoot : BOOLEAN]
                /\ phase' \in Grouping \cup Rotating \cup Stopped
                /\ ckpt' \in Nat /\ nextSeq' \in Nat \ {0} /\ nextGroup' \in Nat /\ synced' \in Nat /\ attempts' \in Nat
                /\ log' \in Seq(Nat) /\ pending' \in Seq(Nat) /\ rejected' \in SUBSET Nat
                /\ ckpt' <= Len(log')
<1> SUFFICES Q
    OBVIOUS
<1> USE DEF TypeInv, writer, history, disk
<1>1. NextGroup(nextGroup) \in Nat
    BY BoundsAssumption DEF NextGroup
<1>2. << >> \in Seq(Nat) /\ Len(log) \in Nat /\ Len(pending) \in Nat
    BY EmptySeq, LenProperties
<1>3. ASSUME NEW shape \in Shapes, AppendGroup(shape) PROVE Q
  <2>1. OpsOf(GroupFrames(shape, attempts + 1)) \in Seq(Nat)
    <3>1. GroupFrames(shape, attempts + 1) \in Seq(Cell)
        BY <1>3, AppendGroupDoes DEF IsGroup
    <3>2. QED
        BY <3>1, OpsAre
  <2>2. pending' = OpsOf(GroupFrames(shape, attempts + 1)) /\ attempts' = attempts + 1 /\ phase' \in {"appended", "rolling"}
      BY <1>3 DEF AppendGroup
  <2>3. UNCHANGED <<fence, ckpt, writer, log, rejected>>
      BY <1>3 DEF AppendGroup
  <2>4. QED
      BY <2>1, <2>2, <2>3 DEF Grouping
<1>4. CASE SyncGroup
  <2>1. files # << >> /\ synced <= Len(ActiveFile.mem)
      BY <1>4 DEF SyncGroup, PhaseInv, Grouping, ActiveFile
  <2>2. Len(OpsOf(Unsynced)) \in Nat /\ Len(ActiveFile.mem) \in Nat
      BY <2>1, UnsyncedIs, ActiveIs, FileFields DEF ActiveFile
  <2>3. log \o pending \in Seq(Nat) /\ Len(log \o pending) = Len(log) + Len(pending)
      BY ConcatProperties
  <2>4. /\ phase' = "idle" /\ synced' = Len(ActiveFile.mem) /\ nextSeq' = nextSeq + Len(OpsOf(Unsynced))
        /\ nextGroup' = NextGroup(nextGroup) /\ log' = log \o pending /\ pending' = << >>
        /\ UNCHANGED <<fence, ckpt, rejected, attempts>>
      BY <1>4 DEF SyncGroup, ActiveFile, Unsynced
  <2>5. phase' \in Grouping \cup Rotating \cup Stopped /\ fence' = fence
      BY <2>4 DEF Grouping
  <2>6. /\ ckpt' \in Nat /\ nextSeq' \in Nat \ {0} /\ nextGroup' \in Nat /\ synced' \in Nat /\ attempts' \in Nat
        /\ log' \in Seq(Nat) /\ pending' \in Seq(Nat) /\ rejected' \in SUBSET Nat
        /\ ckpt' <= Len(log')
      BY <1>1, <1>2, <2>2, <2>3, <2>4
  <2>7. QED
      BY <2>5, <2>6
<1>5. CASE SyncGroupFails \/ RollBackTruncate \/ RollBackSyncFails \/ Rotate \/ RotateSync \/ RotateEmpty
  <2>1. UNCHANGED <<fence, ckpt, writer, history>>
      BY <1>5 DEF SyncGroupFails, RollBackTruncate, RollBackSyncFails, Rotate, RotateSync, RotateEmpty
  <2>2. phase' \in Grouping \cup Rotating \cup Stopped
      BY <1>5 DEF SyncGroupFails, RollBackTruncate, RollBackSyncFails, Rotate, RotateSync, RotateEmpty, Grouping, Rotating, Stopped
  <2>3. QED
      BY <2>1, <2>2
<1>6. CASE RollBackSync
  <2>1. /\ phase' \in {"down", "idle"} /\ rejected' = rejected \cup ToSet(pending) /\ pending' = << >>
        /\ UNCHANGED <<fence, ckpt, writer, log, attempts>>
      BY <1>6 DEF RollBackSync
  <2>2. ToSet(pending) \in SUBSET Nat
      BY LenProperties, ElementOfSeq DEF ToSet
  <2>3. QED
      BY <1>2, <2>1, <2>2 DEF Grouping, Stopped
<1>7. CASE Fence
  <2>1. UNCHANGED <<ckpt, writer, history>> /\ phase' \in {"failed", "fatal"}
      BY <1>7 DEF Fence
  <2>2. fence' \in [visible : BOOLEAN, durable : BOOLEAN, thisBoot : BOOLEAN]
    <3>1. \E seen, durable \in BOOLEAN : fence' = [visible |-> seen, durable |-> durable, thisBoot |-> seen]
        BY <1>7 DEF Fence
    <3>2. QED
        BY <3>1
  <2>3. QED
      BY <2>1, <2>2 DEF Stopped
<1>8. CASE RotateLink
  <2>1. /\ UNCHANGED <<fence, ckpt, history, nextSeq>> /\ phase' \in {"idle", "failed"}
        /\ synced' \in {1, synced} /\ nextGroup' \in {NextGroup(nextGroup), nextGroup}
      BY <1>8 DEF RotateLink
  <2>2. phase' \in Grouping \cup Rotating \cup Stopped
      BY <2>1 DEF Grouping, Stopped
  <2>3. synced' \in Nat /\ nextGroup' \in Nat
      BY <1>1, <2>1
  <2>4. QED
      BY <2>1, <2>2, <2>3
<1>9. CASE RemoveCheckpointed
  <2>1. UNCHANGED <<fence, phase, ckpt, writer, history>>
      BY <1>9 DEF RemoveCheckpointed
  <2>2. QED
      BY <2>1
<1>10. CASE AdvanceCheckpoint
  <2>1. UNCHANGED <<fence, phase, writer, history>> /\ ckpt' \in ckpt + 1..Len(log)
      BY <1>10 DEF AdvanceCheckpoint
  <2>2. QED
      BY <1>2, <2>1
<1>11. CASE Barrier
  <2>1. UNCHANGED <<ckpt, writer, history>> /\ phase' \in {"barrier", phase}
      BY <1>11 DEF Barrier
  <2>2. fence' \in [visible : BOOLEAN, durable : BOOLEAN, thisBoot : BOOLEAN]
      BY <1>11 DEF Barrier
  <2>3. QED
      BY <2>1, <2>2 DEF Stopped
<1>12. CASE RepairTail
  <2>1. UNCHANGED <<fence, ckpt, writer, history>> /\ phase' \in {"corrupt", "repaired", "down"}
      BY <1>12 DEF RepairTail
  <2>2. QED
      BY <2>1 DEF Stopped
<1>13. CASE IntoWriter
  <2>1. /\ log' = SubSeq(log, 1, ckpt) \o OpsOf(Replayed) /\ pending' = << >> /\ fence' = NoFence
        /\ UNCHANGED <<ckpt, rejected, attempts>>
      BY <1>13 DEF IntoWriter
  <2>2. log' \in Seq(Nat) /\ ckpt <= Len(log')
      BY <2>1, ReplayedIs
  <2>3. /\ nextGroup' \in Nat /\ nextSeq' \in Nat \ {0} /\ phase' \in {"idle", "rolling", "appended"}
        /\ synced' = Len(Taken[Len(Taken)].mem)
      BY <1>13, IntoWriterDoes
  <2>4. synced' \in Nat
      BY <2>3, TakenIs, ElementOfSeq, FileFields
  <2>5. QED
      BY <1>2, <2>1, <2>2, <2>3, <2>4 DEF NoFence, Grouping
<1>14. CASE IntoWriterFails
  <2>1. UNCHANGED <<ckpt, writer, history>> /\ phase' \in {"corrupt", "down"}
      BY <1>14 DEF IntoWriterFails
  <2>2. fence' \in [visible : BOOLEAN, durable : BOOLEAN, thisBoot : BOOLEAN]
    <3>1. \/ fence' = fence \/ fence' = NoFence
          \/ \E seen \in BOOLEAN : fence' = [fence EXCEPT !.visible = seen]
        BY <1>14 DEF IntoWriterFails
    <3>2. CASE fence' = fence
        BY <3>2
    <3>3. CASE fence' = NoFence
        BY <3>3 DEF NoFence
    <3>4. CASE \E seen \in BOOLEAN : fence' = [fence EXCEPT !.visible = seen]
        BY <3>4
    <3>5. QED
        BY <3>1, <3>2, <3>3, <3>4
  <2>3. QED
      BY <2>1, <2>2 DEF Stopped
<1>15. CASE Crash \/ OperatorReboot
  <2>1. Reboot
      BY <1>15 DEF Crash, OperatorReboot
  <2>2. UNCHANGED <<ckpt, writer, history>> /\ phase' = "down"
      BY <2>1 DEF Reboot
  <2>3. fence' \in [visible : BOOLEAN, durable : BOOLEAN, thisBoot : BOOLEAN]
      BY <2>1 DEF Reboot
  <2>4. QED
      BY <2>2, <2>3 DEF Stopped
<1>16. CASE Kill
  <2>1. UNCHANGED <<fence, ckpt, writer, history>> /\ phase' = "down"
      BY <1>16 DEF Kill
  <2>2. QED
      BY <2>1 DEF Stopped
<1>17. QED
  <2> HIDE DEF Q, TypeInv
  <2>1. QED
      BY <1>3, <1>4, <1>5, <1>6, <1>7, <1>8, <1>9, <1>10, <1>11, <1>12, <1>13, <1>14, <1>15, <1>16
      DEF Next, Writing, Recovery

LEMMA FilesStep ==
    ASSUME TypeInv, PhaseInv, Next
    PROVE  files' \in Seq(WalFile) /\ gone' \in Seq(WalFile)
<1>1. files \in Seq(WalFile) /\ gone \in Seq(WalFile) /\ << >> \in Seq(WalFile)
    BY EmptySeq DEF TypeInv
<1>2. ASSUME NEW shape \in Shapes, AppendGroup(shape) PROVE files' \in Seq(WalFile) /\ gone' \in Seq(WalFile)
    BY <1>1, <1>2, AppendGroupDoes DEF AppendGroup, ActiveBecomes
<1>3. CASE SyncGroup \/ RollBackSync \/ SyncGroupFails \/ RollBackSyncFails \/ RotateSync
  <2>1. gone' = gone
      BY <1>3 DEF SyncGroup, RollBackSync, SyncGroupFails, RollBackSyncFails, RotateSync
  <2>2. RotateSync => phase' = "linking" \/ phase' = "emptying"
      BY DEF RotateSync
  <2>3. QED
      BY <1>1, <1>3, <2>1, <2>2, SyncDoes DEF ActiveBecomes
<1>4. CASE RollBackTruncate \/ RotateEmpty
    BY <1>1, <1>4, TruncateDoes DEF RollBackTruncate, RotateEmpty, ActiveBecomes
<1>5. CASE Fence \/ RotateLink
  <2>1. \/ files' = Linked(files) /\ gone' = << >>
        \/ files' = files /\ gone' = gone
      BY <1>5 DEF Fence, RotateLink
  <2>2. QED
      BY <1>1, <2>1, LinkedDoes
<1>6. CASE Rotate
  <2>1. files' \in Seq(WalFile)
      BY <1>6, RotateDoes
  <2>2. gone' = gone
      BY <1>6 DEF Rotate
  <2>3. QED
      BY <1>1, <2>1, <2>2
<1>7. CASE RemoveCheckpointed
    BY <1>7, RemoveDoes
<1>8. CASE AdvanceCheckpoint \/ Kill
    BY <1>1, <1>8 DEF AdvanceCheckpoint, Kill, disk
<1>9. CASE Barrier
    BY <1>1, <1>9, BarrierDoes
<1>10. CASE RepairTail
    BY <1>1, <1>10, RepairDoes DEF RepairTail, ActiveBecomes
<1>11. CASE IntoWriter
  <2>1. files' \in Seq(WalFile)
      BY <1>11, IntoWriterDoes
  <2>2. gone' = gone
      BY <1>11 DEF IntoWriter
  <2>3. QED
      BY <1>1, <2>1, <2>2
<1>12. CASE IntoWriterFails
    BY <1>1, <1>12, IntoWriterFailsDoes, TakenIs DEF IntoWriterFails
<1>13. CASE Crash \/ OperatorReboot
  <2>1. Reboot
      BY <1>13 DEF Crash, OperatorReboot
  <2>2. files' \in Seq(WalFile)
      BY <1>1, <2>1, RebootIs
  <2>3. gone' = << >>
      BY <2>1 DEF Reboot
  <2>4. QED
      BY <1>1, <2>2, <2>3
<1>14. QED
    BY <1>2, <1>3, <1>4, <1>5, <1>6, <1>7, <1>8, <1>9, <1>10, <1>11, <1>12, <1>13
    DEF Next, Writing, Recovery

LEMMA TypeStep ==
    ASSUME TypeInv, PhaseInv, Next
    PROVE  TypeInv'
BY CountersStep, FilesStep DEF TypeInv

LEMMA PhaseStep ==
    ASSUME TypeInv, PhaseInv, Next
    PROVE  PhaseInv'
<1> DEFINE Busy == Grouping \cup Rotating
<1>1. /\ files \in Seq(WalFile) /\ synced \in Nat /\ Len(files) \in Nat
      /\ files # << >> => Len(files) \in 1..Len(files) /\ files[Len(files)] \in WalFile
    BY ActiveIs DEF TypeInv, Active
<1>2. ASSUME files # << >>
      PROVE  /\ ActiveFile \in WalFile /\ ActiveFile = files[Len(files)] /\ Len(ActiveFile.mem) \in Nat
             /\ Len(Synced(ActiveFile).mem) = Len(ActiveFile.mem)
             /\ synced <= Len(ActiveFile.mem) => Len(SetLen(ActiveFile, synced).mem) = synced
             /\ \A g \in FailedSync(ActiveFile) : g.mem = ActiveFile.mem
  <2>1. ActiveFile \in WalFile /\ ActiveFile = files[Len(files)] /\ Len(ActiveFile.mem) \in Nat
      BY <1>1, <1>2, FileFields DEF ActiveFile, Active
  <2>2. synced <= Len(ActiveFile.mem) => synced \in 0..Len(ActiveFile.mem)
      BY <1>1, <2>1
  <2>3. QED
      BY <2>1, <2>2, SyncedIs, SetLenIs, FailedSyncIs
<1>3. ASSUME NEW shape \in Shapes, AppendGroup(shape) PROVE PhaseInv'
  <2>1. phase = "idle" /\ synced' = synced
      BY <1>3 DEF AppendGroup, writer
  <2>2. files # << >> /\ synced = Len(ActiveFile.mem)
      BY <2>1 DEF PhaseInv, Grouping, ActiveFile
  <2>3. PICK cells \in Seq(Cell) : ActiveBecomes(Appended(ActiveFile, cells)) /\ phase' \in {"rolling", "appended"}
      BY <1>3, AppendGroupDoes
  <2>4. Len(Appended(ActiveFile, cells).mem) = Len(ActiveFile.mem) + Len(cells) /\ Len(cells) \in Nat
      BY <1>2, <2>2, AppendedIs
  <2>5. QED
      BY <1>2, <2>1, <2>2, <2>3, <2>4 DEF PhaseInv, ActiveBecomes, Active, Grouping
<1>4. CASE SyncGroup
  <2>1. files # << >> /\ ActiveBecomes(Synced(ActiveFile)) /\ phase' = "idle" /\ synced' = Len(ActiveFile.mem)
      BY <1>4, SyncDoes DEF SyncGroup, PhaseInv, Grouping, ActiveFile
  <2>2. QED
      BY <1>2, <2>1 DEF PhaseInv, ActiveBecomes, Active
<1>5. CASE SyncGroupFails
  <2>1. files # << >> /\ synced <= Len(ActiveFile.mem) /\ phase' = "rolling" /\ synced' = synced
      BY <1>5 DEF SyncGroupFails, PhaseInv, Grouping, ActiveFile, writer
  <2>2. PICK g \in FailedSync(ActiveFile) : ActiveBecomes(g)
      BY <1>5, SyncDoes
  <2>3. QED
      BY <1>2, <2>1, <2>2 DEF PhaseInv, ActiveBecomes, Active
<1>6. CASE RollBackTruncate
  <2>1. files # << >> /\ synced <= Len(ActiveFile.mem) /\ synced' = synced
      BY <1>6 DEF RollBackTruncate, PhaseInv, Grouping, ActiveFile, writer
  <2>2. CASE phase' = "truncated" /\ ActiveBecomes(SetLen(ActiveFile, synced))
      BY <1>2, <2>1, <2>2 DEF PhaseInv, ActiveBecomes, Active
  <2>3. CASE phase' = "fencing"
      BY <2>3 DEF PhaseInv, Grouping, Rotating
  <2>4. QED
      BY <1>6, <2>2, <2>3, TruncateDoes
<1>7. CASE RollBackSync
  <2>1. /\ files # << >> /\ ActiveBecomes(Synced(ActiveFile)) /\ phase' \in {"idle", "down"} /\ synced' = synced
        /\ synced = Len(ActiveFile.mem)
      BY <1>7, SyncDoes DEF RollBackSync, PhaseInv, Grouping, ActiveFile, writer
  <2>2. QED
      BY <1>2, <2>1 DEF PhaseInv, ActiveBecomes, Active
<1>8. CASE Rotate
  <2>1. PICK cells \in {<<CheckpointFrame(nextGroup, TRUE)>>, << >>} :
          /\ files' # << >> /\ Len(files') = Len(files) + 1 /\ files'[Len(files) + 1] = NewFile(nextSeq, cells)
          /\ \/ phase' = "rotating" /\ cells = <<CheckpointFrame(nextGroup, TRUE)>>
             \/ phase' = "emptying" /\ cells = << >>
      BY <1>8, RotateDoes
  <2>2. phase' = "rotating" => Len(NewFile(nextSeq, cells).mem) = 1
    <3>1. ASSUME phase' = "rotating" PROVE Len(NewFile(nextSeq, cells).mem) = 1
      <4>1. cells \in Seq(Cell) /\ Len(cells) = 1 /\ nextSeq \in Nat
        <5>1. ckpt \in Nat /\ nextGroup \in Nat /\ nextSeq \in Nat
            BY DEF TypeInv
        <5>2. PICK start : start = <<CheckpointFrame(nextGroup, TRUE)>>
            OBVIOUS
        <5>3. start \in Seq(Cell) /\ Len(start) = 1
            BY <5>1, <5>2, CheckpointFrameIs
        <5>4. cells = start
            BY <2>1, <3>1, <5>2
        <5>5. QED
            BY <5>1, <5>3, <5>4
      <4>2. NewFile(nextSeq, cells).mem = cells
          BY DEF NewFile
      <4>3. QED
          BY <4>1, <4>2
    <3>2. QED
        BY <3>1
  <2>3. QED
      BY <1>1, <2>1, <2>2 DEF PhaseInv, Active
<1>9. CASE RotateSync
  <2>1. files # << >> /\ Len(ActiveFile.mem) = 1 /\ (phase' = "linking" \/ phase' = "emptying")
      BY <1>9 DEF RotateSync, PhaseInv, Rotating, ActiveFile
  <2>2. CASE phase' = "linking"
    <3>1. ActiveBecomes(Synced(ActiveFile))
        BY <1>9, <2>2, SyncDoes
    <3>2. QED
        BY <1>2, <2>1, <2>2, <3>1 DEF PhaseInv, ActiveBecomes, Active
  <2>3. CASE phase' = "emptying"
    <3>1. files' # << >>
        BY <1>9, <2>3, SyncDoes DEF ActiveBecomes
    <3>2. QED
        BY <2>3, <3>1 DEF PhaseInv
  <2>4. QED
      BY <2>1, <2>2, <2>3
<1>10. CASE RotateLink
  <2>1. CASE phase' = "failed"
      BY <2>1 DEF PhaseInv, Grouping, Rotating
  <2>2. CASE phase' = "idle" /\ files' = Linked(files) /\ synced' = 1
    <3>1. files # << >> /\ Len(ActiveFile.mem) = 1
        BY <1>10 DEF RotateLink, PhaseInv, Rotating, ActiveFile
    <3>2. /\ Len(files') = Len(files) /\ files'[Len(files)].mem = ActiveFile.mem /\ Len(files) # 0
      <4>1. files \in Seq(WalFile) /\ Len(files) \in 1..Len(files) /\ Len(files) # 0 /\ ActiveFile = files[Len(files)]
          BY <1>1, <1>2, <3>1
      <4>2. Len(files') = Len(files) /\ LinkOnly(files[Len(files)], files'[Len(files)])
          BY <2>2, <4>1, LinkedDoes
      <4>3. QED
          BY <4>1, <4>2 DEF LinkOnly
    <3>3. files' # << >>
        BY <1>1, <2>2, <3>2, LinkedDoes, EmptySeq
    <3>4. QED
        BY <2>2, <3>1, <3>2, <3>3 DEF PhaseInv, Active
  <2>3. QED
      BY <1>10, <2>1, <2>2 DEF RotateLink
<1>11. CASE RemoveCheckpointed
  <2>1. phase = "idle" /\ phase' = phase /\ synced' = synced
      BY <1>11 DEF RemoveCheckpointed, writer
  <2>2. PICK n \in 1..Len(files) - 1 :
          /\ files' \in Seq(WalFile) /\ Len(files') = Len(files) - n
          /\ \A i \in 1..Len(files) - n : LinkOnly(files[n + i], files'[i])
      BY <1>11, RemoveDoes
  <2>3. Len(files) - n \in 1..Len(files) - n /\ n + (Len(files) - n) = Len(files)
      BY <1>1, <2>2
  <2>4. files'[Len(files)- n].mem = files[Len(files)].mem
      BY <2>2, <2>3 DEF LinkOnly
  <2>5. files' # << >>
      BY <2>2, <2>3, EmptySeq
  <2>6. QED
      BY <2>1, <2>2, <2>4, <2>5 DEF PhaseInv, Active
<1>12. CASE AdvanceCheckpoint
    BY <1>12 DEF AdvanceCheckpoint, disk, writer, PhaseInv, Active
<1>13. CASE IntoWriter
  <2>1. /\ files' # << >> /\ Len(files') = Len(Taken) /\ synced' = Len(Taken[Len(Taken)].mem)
        /\ files' \in Seq(WalFile)
        /\ \/ phase' \in {"idle", "rolling"} /\ LinkOnly(Taken[Len(Taken)], files'[Len(Taken)])
           \/ /\ phase' = "appended" /\ Taken[Len(Taken)].mem = << >>
      BY <1>13, IntoWriterDoes
  <2>2. CASE phase' \in {"idle", "rolling"} /\ LinkOnly(Taken[Len(Taken)], files'[Len(Taken)])
    <3>1. files'[Len(files')].mem = Taken[Len(Taken)].mem /\ Len(Taken[Len(Taken)].mem) \in Nat
        BY <2>1, <2>2, TakenIs, ElementOfSeq, FileFields DEF LinkOnly
    <3>2. QED
        BY <2>1, <2>2, <3>1 DEF PhaseInv, Active
  <2>3. CASE phase' = "appended" /\ Taken[Len(Taken)].mem = << >>
    <3>1. synced' = 0
        BY <2>1, <2>3
    <3>2. Len(files'[Len(files')].mem) \in Nat
        BY <2>1, ElementOfSeq, FileFields, EmptySeq, LenProperties
    <3>3. QED
        BY <2>1, <2>3, <3>1, <3>2 DEF PhaseInv, Active
  <2>4. QED
      BY <2>1, <2>2, <2>3
<1>14. CASE phase' \in Stopped
    BY <1>14 DEF PhaseInv, Stopped, Grouping, Rotating
<1>15. Fence \/ Barrier \/ RepairTail \/ IntoWriterFails \/ Crash \/ OperatorReboot \/ Kill => phase' \in Stopped
    BY DEF Fence, Barrier, RepairTail, IntoWriterFails, Crash, OperatorReboot, Reboot, Kill, Stopped
<1>16. RollBackSyncFails \/ RotateEmpty => phase' \in Stopped
    BY DEF RollBackSyncFails, RotateEmpty, Stopped
<1>17. QED
    BY <1>3, <1>4, <1>5, <1>6, <1>7, <1>8, <1>9, <1>10, <1>11, <1>12, <1>13, <1>14, <1>15, <1>16
    DEF Next, Writing, Recovery

LEMMA FenceStep ==
    ASSUME TypeInv, FenceInv, Next
    PROVE  FenceInv'
<1> DEFINE Live == Grouping \cup Rotating \cup {"fencing"}
<1>1. fence.visible \in BOOLEAN /\ fence.thisBoot \in BOOLEAN
    BY DEF TypeInv
<1>2. ASSUME fence' = fence, phase' \in Live \/ phase' = "down" \/ (phase' = "failed" /\ phase \in Live),
             phase' \in Live => phase \in Live
      PROVE  FenceInv'
    BY <1>2 DEF FenceInv, FenceHolds, Grouping, Rotating
<1>3. ASSUME NEW shape \in Shapes, AppendGroup(shape) PROVE FenceInv'
  <2>1. fence' = fence /\ phase \in Live /\ phase' \in Live
      BY <1>3 DEF AppendGroup, Grouping
  <2>2. QED
      BY <1>2, <2>1
<1>4. CASE Writing /\ ~Fence
  <2>1. fence' = fence /\ phase \in Live /\ phase' \in Live \cup {"down", "failed"}
      BY <1>4 DEF Writing, SyncGroup, SyncGroupFails, RollBackTruncate, RollBackSync, RollBackSyncFails,
                  RotateSync, RotateEmpty, RotateLink, Grouping, Rotating
  <2>2. QED
      BY <1>2, <2>1
<1>5. CASE Fence
  <2>1. \/ phase' = "failed" /\ fence'.thisBoot = TRUE
        \/ phase' = "fatal" /\ \E seen \in BOOLEAN : fence'.visible = seen /\ fence'.thisBoot = seen
      BY <1>5 DEF Fence
  <2>2. QED
      BY <2>1 DEF FenceInv, FenceHolds, Grouping, Rotating
<1>6. CASE Rotate \/ RemoveCheckpointed \/ AdvanceCheckpoint
  <2>1. fence' = fence /\ phase \in Live /\ phase' \in Live
      BY <1>6 DEF Rotate, RemoveCheckpointed, AdvanceCheckpoint, disk, Grouping, Rotating
  <2>2. QED
      BY <1>2, <2>1
<1>7. CASE Kill
  <2>1. fence' = fence /\ phase' = "down"
      BY <1>7 DEF Kill, disk
  <2>2. phase' \notin Live
      BY <2>1 DEF Grouping, Rotating
  <2>3. QED
      BY <1>2, <2>1, <2>2
<1>8. CASE Barrier
  <2>1. /\ phase = "down" /\ phase' \in {"down", "barrier"} /\ ~(fence.visible /\ fence.thisBoot)
        /\ fence'.visible = fence.visible /\ fence'.thisBoot = fence.thisBoot
      BY <1>8 DEF Barrier, TypeInv
  <2>2. QED
      BY <2>1 DEF FenceInv, FenceHolds, Grouping, Rotating
<1>9. CASE RepairTail
  <2>1. phase = "barrier" /\ phase' \in {"corrupt", "repaired", "down"} /\ fence' = fence
      BY <1>9 DEF RepairTail
  <2>2. QED
      BY <2>1 DEF FenceInv, FenceHolds, Grouping, Rotating
<1>10. CASE IntoWriter
  <2>1. fence'.visible = FALSE
      BY <1>10 DEF IntoWriter, NoFence
  <2>2. QED
      BY <2>1 DEF FenceInv, FenceHolds
<1>11. CASE IntoWriterFails
  <2>1. phase = "repaired" /\ phase' \in {"corrupt", "down"}
      BY <1>11 DEF IntoWriterFails
  <2>2. fence' = fence \/ fence'.visible = FALSE \/ phase' = "down"
      BY <1>11 DEF IntoWriterFails, NoFence
  <2>3. QED
      BY <2>1, <2>2 DEF FenceInv, FenceHolds, Grouping, Rotating
<1>12. CASE Crash \/ OperatorReboot
  <2>1. phase' = "down"
      BY <1>12 DEF Crash, OperatorReboot, Reboot
  <2>2. QED
      BY <2>1 DEF FenceInv, FenceHolds, Grouping, Rotating
<1>13. QED
    BY <1>3, <1>4, <1>5, <1>6, <1>7, <1>8, <1>9, <1>10, <1>11, <1>12 DEF Next, Recovery

LEMMA BaseStep ==
    ASSUME BaseInv, [Next]_vars
    PROVE  BaseInv'
<1>1. CASE Next
    BY <1>1, TypeStep, PhaseStep, FenceStep DEF BaseInv
<1>2. CASE UNCHANGED vars
    BY <1>2 DEF vars, disk, writer, history, BaseInv, TypeInv, PhaseInv, FenceInv, FenceHolds, Active
<1>3. QED
    BY <1>1, <1>2

LEMMA BaseInit == Init => BaseInv
<1> SUFFICES ASSUME Init PROVE BaseInv
    OBVIOUS
<1>1. << >> \in Seq(WalFile) /\ << >> \in Seq(Nat) /\ Len(<< >>) = 0
    BY EmptySeq
<1>2. TypeInv
    BY <1>1 DEF Init, TypeInv, NoFence, Stopped
<1>3. PhaseInv /\ FenceInv
    BY DEF Init, PhaseInv, FenceInv, FenceHolds, NoFence, Grouping, Rotating
<1>4. QED
    BY <1>2, <1>3 DEF BaseInv

LEMMA BaseAlways == Spec => []BaseInv
<1>1. BaseInv /\ [Next]_vars => BaseInv'
    BY BaseStep
<1>2. QED
    BY <1>1, BaseInit, PTL DEF Spec

-----------------------------------------------------------------------------
(* AppliedInv: what was answered NotApplied is nowhere. *)

LEMMA ActiveNoMore ==
    ASSUME TypeInv, files # << >>, NEW g, ActiveBecomes(g), NoMore(ActiveFile, g)
    PROVE  \A i \in 1..Len(files) : NoMore(files[i], files'[i])
<1>1. Len(files) \in Nat /\ ActiveFile = files[Len(files)] /\ \A i \in 1..Len(files) : files[i] \in WalFile
    BY ActiveIs DEF TypeInv, ActiveFile, Active
<1>2. ASSUME NEW i \in 1..Len(files) - 1 PROVE NoMore(files[i], files'[i])
  <2>1. files'[i] = files[i]
      BY <1>2 DEF ActiveBecomes
  <2>2. QED
      BY <2>1 DEF NoMore
<1>3. NoMore(files[Len(files)], files'[Len(files)])
    BY <1>1 DEF ActiveBecomes
<1>4. \A i \in 1..Len(files) : i = Len(files) \/ i \in 1..Len(files) - 1
    BY <1>1
<1>5. QED
    BY <1>2, <1>3, <1>4

\* The answers stay, and no file holds what it must not.
LEMMA StillApplied ==
    ASSUME TypeInv, AppliedInv, rejected' = rejected, attempts' = attempts,
           pending' = pending \/ pending' = << >>,
           \A i \in 1..Len(files') : Without(files'[i], Never),
           \A i \in 1..Len(gone') : Without(gone'[i], Never),
           phase' \notin {"appended", "rolling", "truncated"} \/ pending' = << >>
    PROVE  AppliedInv'
<1>1. Never' = Never
    BY DEF Never
<1>2. \A k \in 1..Len(pending') : pending'[k] \in 1..attempts'
  <2>1. CASE pending' = pending
      BY <2>1 DEF AppliedInv
  <2>2. CASE pending' = << >>
    <3>1. Len(<< >>) = 0
        BY EmptySeq
    <3>2. QED
        BY <2>2, <3>1
  <2>3. QED
      BY <2>1, <2>2
<1>3. ASSUME pending' = << >> PROVE Open' = {}
  <2>1. Len(<< >>) = 0
      BY EmptySeq
  <2>2. QED
      BY <1>3, <2>1 DEF Open
<1>4. \A f : \A n : Without(f, {}) /\ WithoutUpTo(f, n, {})
    BY DEF Without, WithoutUpTo
<1>5. rejected' \in SUBSET (1..attempts')
    BY DEF AppliedInv
<1>6. phase' \in {"appended", "rolling", "truncated"} =>
         /\ \A i \in 1..Len(gone') : Without(gone'[i], Open')
         /\ \A i \in 1..Len(files') - 1 : Without(files'[i], Open')
         /\ WithoutUpTo(files'[Active'], synced', Open')
    BY <1>3, <1>4
<1>7. QED
    BY <1>1, <1>2, <1>5, <1>6 DEF AppliedInv

\* The history stays, and every file holds at most what it did.
LEMMA SameCells ==
    ASSUME TypeInv, AppliedInv, rejected' = rejected, attempts' = attempts, pending' = pending,
           Len(files') = Len(files), \A i \in 1..Len(files) : NoMore(files[i], files'[i]),
           gone' = gone \/ gone' = << >>,
           phase' \in {"appended", "rolling", "truncated"} =>
             phase \in {"appended", "rolling", "truncated"} /\ synced' = synced /\ files # << >>
    PROVE  AppliedInv'
<1>1. Never' = Never /\ Open' = Open
    BY DEF Never, Open
<1>2. Len(files) \in Nat /\ Len(<< >>) = 0
    BY ActiveIs, EmptySeq DEF TypeInv
<1>3. \A i \in 1..Len(files) : Without(files'[i], Never)
    BY HoldsLess DEF AppliedInv
<1>4. \A i \in 1..Len(gone') : Without(gone'[i], Never)
    BY <1>2 DEF AppliedInv
<1>5. ASSUME phase' \in {"appended", "rolling", "truncated"}
      PROVE  /\ \A i \in 1..Len(gone') : Without(gone'[i], Open)
             /\ \A i \in 1..Len(files') - 1 : Without(files'[i], Open)
             /\ WithoutUpTo(files'[Active'], synced', Open)
  <2>1. Active \in 1..Len(files) /\ Active = Len(files) /\ Active' = Active
      BY <1>5, ActiveIs DEF TypeInv, Active
  <2>2. /\ \A i \in 1..Len(gone) : Without(gone[i], Open)
        /\ \A i \in 1..Len(files) - 1 : Without(files[i], Open)
        /\ WithoutUpTo(files[Active], synced, Open)
      BY <1>5 DEF AppliedInv
  <2>3. WithoutUpTo(files'[Active'], synced', Open)
      BY <1>5, <2>1, <2>2, HoldsLess
  <2>4. \A i \in 1..Len(files) - 1 : i \in 1..Len(files)
      BY <1>2
  <2>5. \A i \in 1..Len(files) - 1 : Without(files'[i], Open)
      BY <2>2, <2>4, HoldsLess
  <2>6. QED
      BY <1>2, <2>2, <2>3, <2>5
<1>6. QED
    BY <1>1, <1>3, <1>4, <1>5 DEF AppliedInv

LEMMA AppendGroupApplied ==
    ASSUME TypeInv, PhaseInv, AppliedInv, NEW shape \in Shapes, AppendGroup(shape)
    PROVE  AppliedInv'
<1> DEFINE op == attempts + 1
           frames == GroupFrames(shape, attempts + 1)
<1>1. /\ phase = "idle" /\ attempts' = op /\ pending' = OpsOf(frames) /\ gone' = gone
      /\ rejected' = rejected /\ synced' = synced
    BY DEF AppendGroup, writer
<1>2. /\ files \in Seq(WalFile) /\ Len(files) \in Nat /\ attempts \in Nat /\ rejected \in SUBSET (1..attempts)
      /\ synced \in Nat /\ pending \in Seq(Nat)
    BY ActiveIs DEF TypeInv, AppliedInv
<1>3. files # << >> /\ synced = Len(ActiveFile.mem)
    BY <1>1 DEF PhaseInv, Grouping, ActiveFile
<1>4. ActiveFile \in WalFile /\ ActiveFile = files[Len(files)] /\ Len(files) \in 1..Len(files)
    BY <1>2, <1>3, ActiveIs DEF ActiveFile, Active
<1>5. IsGroup(frames, op, nextSeq)
    BY AppendGroupDoes
<1>6. PICK cells \in Seq(Cell) :
        /\ ActiveBecomes(Appended(ActiveFile, cells))
        /\ \A i \in 1..Len(cells) : IsFrame(cells[i]) /\ cells[i].op \in {0, op}
    BY AppendGroupDoes
<1>7. /\ Never' \in SUBSET Never /\ op \in Never /\ op \notin Never' /\ 0 \notin Never'
    BY <1>1, <1>2 DEF Never
<1>8. \A k \in 1..Len(pending') : pending'[k] = op
  <2>1. frames \in Seq(Cell) /\ \A i \in 1..Len(frames) : IsData(frames[i]) => frames[i].op = op
      BY <1>5 DEF IsGroup
  <2>2. \A k \in 1..Len(OpsOf(frames)) : OpsOf(frames)[k] = op
      BY <2>1, OpsAre
  <2>3. QED
      BY <1>1, <2>2
<1>9. Open' \in SUBSET {op} /\ op \in Nat /\ op \in 1..attempts'
    BY <1>1, <1>2, <1>8 DEF Open
<1> DEFINE g == Appended(ActiveFile, cells)
<1>10. /\ g.dev = ActiveFile.dev /\ Len(g.mem) = Len(ActiveFile.mem) + Len(cells) /\ Len(cells) \in Nat
       /\ \A c \in 1..Len(ActiveFile.mem) : g.mem[c] = ActiveFile.mem[c]
       /\ \A c \in 1..Len(cells) : g.mem[Len(ActiveFile.mem) + c] = cells[c]
       /\ Len(ActiveFile.mem) \in Nat
    BY <1>4, AppendedIs, FileFields
<1> HIDE DEF op, g, frames
<1>11. \A i \in 1..Len(files) : Without(files[i], Never') /\ Without(files[i], Open')
  <2>1. \A i \in 1..Len(files) : Without(files[i], Never)
      BY DEF AppliedInv
  <2>2. Open' \in SUBSET Never
      BY <1>7, <1>9
  <2>3. QED
      BY <1>7, <2>1, <2>2, WithoutFewer
<1>12. \A i \in 1..Len(gone) : Without(gone[i], Never') /\ Without(gone[i], Open')
  <2>1. \A i \in 1..Len(gone) : Without(gone[i], Never)
      BY DEF AppliedInv
  <2>2. Open' \in SUBSET Never
      BY <1>7, <1>9
  <2>3. QED
      BY <1>7, <2>1, <2>2, WithoutFewer
<1>13. Without(g, Never') /\ WithoutUpTo(g, synced, Open')
  <2>1. Without(ActiveFile, Never') /\ Without(ActiveFile, Open')
      BY <1>4, <1>11
  <2>2. ASSUME NEW c \in 1..Len(g.mem), IsFrame(g.mem[c]) PROVE g.mem[c].op \notin Never' /\ (c <= synced => g.mem[c].op \notin Open')
    <3>1. CASE c <= Len(ActiveFile.mem)
      <4>1. c \in 1..Len(ActiveFile.mem) /\ g.mem[c] = ActiveFile.mem[c]
          BY <1>10, <3>1
      <4>2. QED
          BY <2>1, <2>2, <4>1 DEF Without
    <3>2. CASE ~(c <= Len(ActiveFile.mem))
      <4>1. c - Len(ActiveFile.mem) \in 1..Len(cells) /\ Len(ActiveFile.mem) + (c - Len(ActiveFile.mem)) = c
          BY <1>10, <3>2
      <4>2. g.mem[c] = cells[c - Len(ActiveFile.mem)]
          BY <1>10, <4>1
      <4>3. g.mem[c].op \in {0, op}
          BY <1>6, <4>1, <4>2 DEF op
      <4>4. QED
          BY <1>3, <1>7, <3>2, <4>3
    <3>3. QED
        BY <3>1, <3>2
  <2>3. QED
      BY <1>10, <2>1, <2>2 DEF Without, WithoutUpTo
<1>14. /\ Len(files') = Len(files) /\ files'[Len(files)] = g /\ \A i \in 1..Len(files) - 1 : files'[i] = files[i]
    BY <1>6 DEF ActiveBecomes, g
<1>15. \A i \in 1..Len(files) : i = Len(files) \/ i \in 1..Len(files) - 1
    BY <1>2
<1>16. \A i \in 1..Len(files') : Without(files'[i], Never')
    BY <1>11, <1>13, <1>14, <1>15
<1>17. \A i \in 1..Len(files') - 1 : Without(files'[i], Open')
  <2>1. \A i \in 1..Len(files) - 1 : i \in 1..Len(files)
      BY <1>2
  <2>2. QED
      BY <1>11, <1>14, <2>1
<1>18. WithoutUpTo(files'[Active'], synced', Open')
    BY <1>1, <1>13, <1>14 DEF Active
<1>19. rejected' \in SUBSET (1..attempts')
  <2>1. attempts' = attempts + 1
      BY <1>1 DEF op
  <2>2. QED
      BY <1>1, <1>2, <2>1
<1>20. QED
    BY <1>1, <1>8, <1>9, <1>12, <1>16, <1>17, <1>18, <1>19 DEF AppliedInv

\* A group answered NotApplied was cut off, and the cut is on the device.
LEMMA RollBackSyncApplied ==
    ASSUME TypeInv, PhaseInv, AppliedInv, RollBackSync
    PROVE  AppliedInv'
<1>1. /\ phase = "truncated" /\ phase' \in {"idle", "down"} /\ rejected' = rejected \cup ToSet(pending)
      /\ pending' = << >> /\ gone' = gone /\ attempts' = attempts
    BY DEF RollBackSync
<1>2. files # << >> /\ synced = Len(ActiveFile.mem)
    BY <1>1 DEF PhaseInv, Grouping, ActiveFile
<1>3. /\ files \in Seq(WalFile) /\ Len(files) \in Nat /\ ActiveFile \in WalFile /\ ActiveFile = files[Len(files)]
      /\ pending \in Seq(Nat) /\ Len(ActiveFile.mem) \in Nat
    BY <1>2, ActiveIs, FileFields DEF TypeInv, ActiveFile, Active
<1>4. ActiveBecomes(Synced(ActiveFile))
    BY SyncDoes
<1>5. ToSet(pending) = Open
    BY <1>3, LenProperties, ElementOfSeq DEF ToSet, Open
<1>6. Never' = Never \cup Open
    BY <1>1, <1>5 DEF Never, Open
<1>7. \A f : Without(f, Never) /\ Without(f, Open) => Without(f, Never')
    BY <1>6 DEF Without
<1>8. Without(Synced(ActiveFile), Never) /\ Without(Synced(ActiveFile), Open)
  <2> DEFINE g == Synced(ActiveFile)
  <2>1. /\ g.mem = ActiveFile.mem /\ Len(g.dev) = Len(ActiveFile.mem) /\ NoMore(ActiveFile, g)
      BY <1>3, SyncedIs
  <2> HIDE DEF g
  <2>2. Without(ActiveFile, Never) /\ WithoutUpTo(ActiveFile, synced, Open)
    <3>1. Len(files) \in 1..Len(files)
        BY <1>2, <1>3, EmptySeq
    <3>2. QED
        BY <1>1, <1>3, <3>1 DEF AppliedInv, Active
  <2>3. Without(g, Never) /\ WithoutUpTo(g, synced, Open)
      BY <2>1, <2>2, HoldsLess
  <2>4. \A c \in 1..Len(ActiveFile.mem) : c <= synced
      BY <1>2, <1>3
  <2>5. Without(g, Open)
      BY <2>1, <2>3, <2>4 DEF Without, WithoutUpTo
  <2>6. QED
      BY <2>3, <2>5 DEF g
<1>9. \A i \in 1..Len(files) - 1 : Without(files[i], Never) /\ Without(files[i], Open) /\ i \in 1..Len(files)
    BY <1>1, <1>3 DEF AppliedInv
<1>10. \A i \in 1..Len(files) : i = Len(files) \/ i \in 1..Len(files) - 1
    BY <1>3
<1>11. \A i \in 1..Len(files') : Without(files'[i], Never')
    BY <1>4, <1>7, <1>8, <1>9, <1>10 DEF ActiveBecomes
<1>12. \A i \in 1..Len(gone') : Without(gone'[i], Never')
    BY <1>1, <1>7 DEF AppliedInv
<1>13. rejected' \in SUBSET (1..attempts')
    BY <1>1, <1>5 DEF AppliedInv, Open
<1>14. \A k \in 1..Len(pending') : FALSE
    BY <1>1, EmptySeq
<1>15. QED
    BY <1>1, <1>11, <1>12, <1>13, <1>14 DEF AppliedInv

LEMMA RotateApplied ==
    ASSUME TypeInv, AppliedInv, Rotate
    PROVE  AppliedInv'
<1>1. /\ rejected' = rejected /\ attempts' = attempts /\ pending' = pending /\ gone' = gone
      /\ phase' \in {"rotating", "emptying"}
    BY DEF Rotate, history
<1>2. PICK cells \in {<<CheckpointFrame(nextGroup, TRUE)>>, << >>} :
        /\ Len(files') = Len(files) + 1 /\ files'[Len(files) + 1] = NewFile(nextSeq, cells)
        /\ \A i \in 1..Len(files) : files'[i] = files[i]
    BY RotateDoes
<1>3. ckpt \in Nat /\ nextGroup \in Nat /\ nextSeq \in Nat /\ Len(files) \in Nat /\ 0 \notin Never
    BY ActiveIs DEF TypeInv, AppliedInv, Never
<1>4. cells \in Seq(Cell) /\ Len(cells) \in {0, 1} /\ \A c \in 1..Len(cells) : cells[c].op = 0
  <2>1. CASE cells = << >>
    <3>1. cells \in Seq(Cell) /\ Len(cells) = 0
        BY <2>1, EmptySeq
    <3>2. QED
        BY <3>1
  <2>2. CASE cells = <<CheckpointFrame(nextGroup, TRUE)>>
    <3>1. cells \in Seq(Cell) /\ Len(cells) = 1 /\ cells[1].op = 0
        BY <1>3, <2>2, CheckpointFrameIs
    <3>2. \A c \in 1..Len(cells) : c = 1
        BY <3>1
    <3>3. QED
        BY <3>1, <3>2
  <2>3. QED
      BY <1>2, <2>1, <2>2
<1>5. Without(NewFile(nextSeq, cells), Never)
  <2>1. NewFile(nextSeq, cells).mem = cells /\ NewFile(nextSeq, cells).dev = << >>
      BY DEF NewFile
  <2>2. Len(<< >>) = 0
      BY EmptySeq
  <2>3. QED
      BY <1>3, <1>4, <2>1, <2>2 DEF Without
<1>6. \A i \in 1..Len(files') : i \in 1..Len(files) \/ i = Len(files) + 1
    BY <1>2, <1>3
<1>7. \A i \in 1..Len(files') : Without(files'[i], Never)
    BY <1>2, <1>5, <1>6 DEF AppliedInv
<1>8. \A i \in 1..Len(gone') : Without(gone'[i], Never)
    BY <1>1 DEF AppliedInv
<1>9. QED
    BY <1>1, <1>7, <1>8, StillApplied

LEMMA IntoWriterApplied ==
    ASSUME TypeInv, AppliedInv, IntoWriter
    PROVE  AppliedInv'
<1>1. rejected' = rejected /\ attempts' = attempts /\ pending' = << >> /\ gone' = gone
    BY DEF IntoWriter
<1> DEFINE m == Len(Taken)
           start == <<CheckpointFrame(nextGroup', TRUE)>>
<1>2. /\ nextGroup' \in Nat /\ Len(files') = m
      /\ \A i \in 1..m - 1 : LinkOnly(Taken[i], files'[i])
      /\ \/ LinkOnly(Taken[m], files'[m])
         \/ \E f \in WalFile : LinkOnly(Taken[m], f) /\ files'[m] = Appended(f, start)
    BY IntoWriterDoes
<1>3. m \in Nat \ {0} /\ ckpt \in Nat /\ 0 \notin Never
    BY TakenIs DEF TypeInv, AppliedInv, Never
<1>4. start \in Seq(Cell) /\ Len(start) = 1 /\ start[1].op = 0
    BY <1>2, <1>3, CheckpointFrameIs
<1>5. \A i \in 1..m : Without(Taken[i], Never)
  <2>1. CASE files # << >>
      BY <2>1, TakenIs DEF AppliedInv
  <2>2. CASE files = << >>
    <3>1. m = 1 /\ Taken[1] = NewFile(ResumeSeq, << >>) /\ ResumeSeq \in Nat
        BY <2>2, TakenIs, ReadIs DEF TypeInv
    <3>2. << >> \in Seq(Cell) /\ Len(<< >>) = 0
        BY EmptySeq
    <3>3. Without(NewFile(ResumeSeq, << >>), Never)
      <4>1. NewFile(ResumeSeq, << >>).mem = << >> /\ Len(NewFile(ResumeSeq, << >>).dev) = 0
        <5>1. PICK none : none = << >>
            OBVIOUS
        <5>2. /\ none \in Seq(Cell) /\ NewFile(ResumeSeq, none).mem = none
              /\ Len(NewFile(ResumeSeq, none).dev) = 0
            BY <3>1, <3>2, <5>1, NewFileIs
        <5>3. QED
            BY <5>1, <5>2
      <4>2. QED
          BY <3>2, <4>1 DEF Without
    <3>4. \A i \in 1..m : i = 1
        BY <3>1
    <3>5. QED
        BY <3>1, <3>3, <3>4
  <2>3. QED
      BY <2>1, <2>2
<1> HIDE DEF m, start
<1>6. \A f, g : LinkOnly(f, g) /\ Without(f, Never) => Without(g, Never)
    BY HoldsLess DEF LinkOnly
<1>7. ASSUME NEW f \in WalFile, Without(f, Never) PROVE Without(Appended(f, start), Never)
  <2> DEFINE g == Appended(f, start)
  <2>1. /\ g.dev = f.dev /\ Len(g.mem) = Len(f.mem) + 1 /\ Len(f.mem) \in Nat
        /\ \A c \in 1..Len(f.mem) : g.mem[c] = f.mem[c]
        /\ g.mem[Len(f.mem) + 1] = start[1]
    <3>1. /\ g.dev = f.dev /\ Len(g.mem) = Len(f.mem) + Len(start) /\ Len(f.mem) \in Nat
          /\ \A c \in 1..Len(f.mem) : g.mem[c] = f.mem[c]
          /\ \A c \in 1..Len(start) : g.mem[Len(f.mem) + c] = start[c]
        BY <1>4, AppendedIs, FileFields
    <3> HIDE DEF g
    <3>2. 1 \in 1..Len(start) /\ Len(start) = 1
        BY <1>4
    <3>3. QED
        BY <3>1, <3>2
  <2> HIDE DEF g
  <2>2. \A c \in 1..Len(g.mem) : c \in 1..Len(f.mem) \/ c = Len(f.mem) + 1
      BY <2>1
  <2>3. Without(g, Never)
      BY <1>3, <1>4, <1>7, <2>1, <2>2 DEF Without
  <2>4. QED
      BY <2>3 DEF g
<1>8. \A i \in 1..m : i = m \/ i \in 1..m - 1
    BY <1>3
<1>9. m \in 1..m /\ \A i \in 1..m - 1 : i \in 1..m
    BY <1>3
<1>10. Without(files'[m], Never)
    BY <1>2, <1>5, <1>6, <1>7, <1>9
<1>11. \A i \in 1..m - 1 : Without(files'[i], Never)
    BY <1>2, <1>5, <1>6, <1>9
<1>12. \A i \in 1..Len(files') : Without(files'[i], Never)
    BY <1>2, <1>8, <1>10, <1>11
<1>13. \A i \in 1..Len(gone') : Without(gone'[i], Never)
    BY <1>1 DEF AppliedInv
<1>14. QED
    BY <1>1, <1>12, <1>13, StillApplied

LEMMA RebootApplied ==
    ASSUME TypeInv, AppliedInv, Reboot
    PROVE  AppliedInv'
<1>1. /\ rejected' = rejected /\ attempts' = attempts /\ pending' = pending /\ gone' = << >> /\ phase' = "down"
    BY DEF Reboot, history
<1>2. PICK place : Survives(place)
    BY RebootIs DEF TypeInv
<1>3. /\ gone \in Seq(WalFile) /\ files \in Seq(WalFile) /\ Len(gone) \in Nat /\ Len(files) \in Nat
      /\ Len(<< >>) = 0
    BY LenProperties, EmptySeq DEF TypeInv
<1> DEFINE all == gone \o files
<1>4. /\ all \in Seq(WalFile) /\ Len(all) = Len(gone) + Len(files)
      /\ \A k \in 1..Len(gone) + Len(files) : all[k] = IF k <= Len(gone) THEN gone[k] ELSE files[k - Len(gone)]
    BY <1>3, ConcatProperties
<1> HIDE DEF all
<1>5. ASSUME NEW k \in 1..Len(all) PROVE Without(all[k], Never) /\ all[k] \in WalFile
  <2>1. CASE k <= Len(gone)
    <3>1. k \in 1..Len(gone) /\ all[k] = gone[k]
        BY <1>3, <1>4, <2>1
    <3>2. QED
        BY <1>3, <3>1, ElementOfSeq DEF AppliedInv
  <2>2. CASE ~(k <= Len(gone))
    <3>1. k - Len(gone) \in 1..Len(files) /\ all[k] = files[k - Len(gone)]
        BY <1>3, <1>4, <2>2
    <3>2. QED
        BY <1>3, <3>1, ElementOfSeq DEF AppliedInv
  <2>3. QED
      BY <2>1, <2>2
<1>6. ASSUME NEW k \in 1..Len(files') PROVE Without(files'[k], Never)
  <2>1. place[k] \in 1..Len(all) /\ files'[k] \in AfterCrash(all[place[k]])
      BY <1>2 DEF Survives, all
  <2>2. NoMore(all[place[k]], files'[k])
      BY <1>5, <2>1, AfterCrashIs
  <2>3. QED
      BY <1>5, <2>1, <2>2, HoldsLess
<1>7. \A i \in 1..Len(gone') : Without(gone'[i], Never)
    BY <1>1, <1>3
<1>8. QED
    BY <1>1, <1>6, <1>7, StillApplied

LEMMA AppliedStep ==
    ASSUME BaseInv, AppliedInv, [Next]_vars
    PROVE  AppliedInv'
<1>1. TypeInv /\ PhaseInv
    BY DEF BaseInv
<1>2. files \in Seq(WalFile) /\ Len(files) \in Nat /\ \A i \in 1..Len(files) : NoMore(files[i], files[i])
    BY <1>1, ActiveIs, LinkOnlySame DEF TypeInv
<1>3. ASSUME files # << >>
      PROVE  /\ ActiveFile \in WalFile /\ NoMore(ActiveFile, Synced(ActiveFile)) /\ NoMore(ActiveFile, ActiveFile)
             /\ \A g \in FailedSync(ActiveFile) : NoMore(ActiveFile, g)
  <2>1. ActiveFile \in WalFile
      BY <1>2, <1>3, ActiveIs DEF ActiveFile
  <2>2. QED
      BY <2>1, SyncedIs, FailedSyncIs, LinkOnlySame
<1>4. ASSUME files # << >>, NEW n \in 0..Len(ActiveFile.mem)
      PROVE  /\ SetLen(ActiveFile, n) \in WalFile /\ NoMore(ActiveFile, SetLen(ActiveFile, n))
             /\ NoMore(ActiveFile, Synced(SetLen(ActiveFile, n)))
             /\ \A g \in FailedSync(SetLen(ActiveFile, n)) : NoMore(ActiveFile, g)
  <2> DEFINE f == SetLen(ActiveFile, n)
  <2>1. f \in WalFile /\ NoMore(ActiveFile, f)
      BY <1>3, <1>4, SetLenIs
  <2> HIDE DEF f
  <2>2. NoMore(f, Synced(f)) /\ \A g \in FailedSync(f) : NoMore(f, g)
      BY <2>1, SyncedIs, FailedSyncIs
  <2>3. NoMore(ActiveFile, Synced(f)) /\ \A g \in FailedSync(f) : NoMore(ActiveFile, g)
      BY <2>1, <2>2 DEF NoMore
  <2>4. QED
      BY <2>1, <2>3 DEF f
<1>5. ASSUME NEW g, ActiveBecomes(g), files # << >>, NoMore(ActiveFile, g)
      PROVE  Len(files') = Len(files) /\ \A i \in 1..Len(files) : NoMore(files[i], files'[i])
    BY <1>1, <1>5, ActiveNoMore DEF ActiveBecomes
<1>6. \A i \in 1..Len(gone) : Without(gone[i], Never)
    BY DEF AppliedInv
<1>7. ASSUME Len(files') = Len(files), \A i \in 1..Len(files) : NoMore(files[i], files'[i])
      PROVE  \A i \in 1..Len(files') : Without(files'[i], Never)
    BY <1>7, HoldsLess DEF AppliedInv
<1>8. ASSUME NEW shape \in Shapes, AppendGroup(shape) PROVE AppliedInv'
    BY <1>1, <1>8, AppendGroupApplied
<1>9. CASE SyncGroup
  <2>1. /\ files # << >> /\ phase' = "idle" /\ rejected' = rejected /\ attempts' = attempts /\ pending' = << >>
        /\ gone' = gone
      BY <1>1, <1>9 DEF SyncGroup, PhaseInv, Grouping
  <2>2. ActiveBecomes(Synced(ActiveFile))
      BY <1>1, <1>9, SyncDoes
  <2>3. Len(files') = Len(files) /\ \A i \in 1..Len(files) : NoMore(files[i], files'[i])
      BY <1>3, <1>5, <2>1, <2>2
  <2>4. QED
      BY <1>1, <1>6, <1>7, <2>1, <2>3, StillApplied
<1>10. CASE SyncGroupFails
  <2>1. /\ files # << >> /\ phase = "appended" /\ phase' = "rolling" /\ gone' = gone /\ synced' = synced
        /\ rejected' = rejected /\ attempts' = attempts /\ pending' = pending
      BY <1>1, <1>10 DEF SyncGroupFails, PhaseInv, Grouping, writer, history
  <2>2. PICK g \in FailedSync(ActiveFile) : ActiveBecomes(g)
      BY <1>1, <1>10, SyncDoes
  <2>3. Len(files') = Len(files) /\ \A i \in 1..Len(files) : NoMore(files[i], files'[i])
      BY <1>3, <1>5, <2>1, <2>2
  <2>4. QED
      BY <1>1, <2>1, <2>3, SameCells
<1>11. CASE RollBackTruncate
  <2>1. /\ files # << >> /\ phase = "rolling" /\ gone' = gone /\ synced' = synced /\ synced <= Len(ActiveFile.mem)
        /\ rejected' = rejected /\ attempts' = attempts /\ pending' = pending
      BY <1>1, <1>11 DEF RollBackTruncate, PhaseInv, Grouping, writer, history, ActiveFile
  <2>2. synced \in 0..Len(ActiveFile.mem)
      BY <1>1, <1>3, <2>1, FileFields DEF TypeInv
  <2>3. Len(files') = Len(files) /\ \A i \in 1..Len(files) : NoMore(files[i], files'[i])
      BY <1>1, <1>2, <1>4, <1>5, <1>11, <2>1, <2>2, TruncateDoes
  <2>4. QED
      BY <1>1, <2>1, <2>3, SameCells
<1>12. CASE RollBackSync
    BY <1>1, <1>12, RollBackSyncApplied
<1>13. CASE RollBackSyncFails \/ RotateSync
  <2>1. /\ files # << >> /\ gone' = gone /\ phase' \in {"fencing", "linking", "emptying"}
        /\ rejected' = rejected /\ attempts' = attempts /\ pending' = pending
      BY <1>1, <1>13 DEF RollBackSyncFails, RotateSync, PhaseInv, Grouping, Rotating, history
  <2>2. \E g \in {Synced(ActiveFile)} \cup FailedSync(ActiveFile) : ActiveBecomes(g)
    <3>1. RotateSync => phase' = "linking" \/ phase' = "emptying"
        BY DEF RotateSync
    <3>2. QED
        BY <1>1, <1>13, <3>1, SyncDoes
  <2>3. PICK g \in {Synced(ActiveFile)} \cup FailedSync(ActiveFile) : ActiveBecomes(g)
      BY <2>2
  <2>4. Len(files') = Len(files) /\ \A i \in 1..Len(files) : NoMore(files[i], files'[i])
      BY <1>3, <1>5, <2>1, <2>3
  <2>5. QED
      BY <1>1, <2>1, <2>4, SameCells
<1>14. CASE Fence \/ RotateLink
  <2>1. /\ phase' \in {"failed", "fatal", "idle"} /\ rejected' = rejected /\ attempts' = attempts /\ pending' = pending
        /\ \/ files' = Linked(files) /\ gone' = << >>
           \/ files' = files /\ gone' = gone
      BY <1>14 DEF Fence, RotateLink, history
  <2>2. Len(files') = Len(files) /\ \A i \in 1..Len(files) : NoMore(files[i], files'[i])
      BY <1>2, <2>1, LinkedDoes DEF LinkOnly
  <2>3. gone' = gone \/ gone' = << >>
      BY <2>1
  <2>4. QED
      BY <1>1, <2>1, <2>2, <2>3, SameCells
<1>15. CASE RotateEmpty
  <2>1. /\ files # << >> /\ gone' = gone /\ phase' \in {"failed", "fencing"}
        /\ rejected' = rejected /\ attempts' = attempts /\ pending' = pending
      BY <1>1, <1>15 DEF RotateEmpty, PhaseInv, Rotating, history
  <2>2. 0 \in 0..Len(ActiveFile.mem)
      BY <1>3, <2>1, FileFields
  <2>3. PICK g \in {Synced(SetLen(ActiveFile, 0)), ActiveFile} \cup FailedSync(SetLen(ActiveFile, 0)) : ActiveBecomes(g)
      BY <1>1, <1>15, TruncateDoes
  <2>4. NoMore(ActiveFile, g)
      BY <1>3, <1>4, <2>1, <2>2, <2>3
  <2>5. Len(files') = Len(files) /\ \A i \in 1..Len(files) : NoMore(files[i], files'[i])
      BY <1>5, <2>1, <2>3, <2>4
  <2>6. QED
      BY <1>1, <2>1, <2>5, SameCells
<1>16. CASE Rotate
    BY <1>1, <1>16, RotateApplied
<1>17. CASE RemoveCheckpointed
  <2>1. /\ phase = "idle" /\ phase' = phase /\ rejected' = rejected /\ attempts' = attempts /\ pending' = pending
      BY <1>17 DEF RemoveCheckpointed, history
  <2>2. PICK n \in 1..Len(files) - 1 :
          /\ Len(files') = Len(files) - n
          /\ \A i \in 1..Len(files) - n : LinkOnly(files[n + i], files'[i])
          /\ \A k \in 1..Len(gone') : (\E i \in 1..Len(gone) : gone'[k] = gone[i])
                                       \/ \E i \in 1..n : gone'[k] = files[i]
      BY <1>1, <1>17, RemoveDoes
  <2>3. \A i \in 1..Len(files) - n : n + i \in 1..Len(files)
      BY <1>2
  <2>4. \A i \in 1..n : i \in 1..Len(files)
      BY <1>2
  <2>5. \A i \in 1..Len(files') : Without(files'[i], Never)
      BY <2>2, <2>3, HoldsLess DEF LinkOnly, AppliedInv
  <2>6. \A k \in 1..Len(gone') : Without(gone'[k], Never)
      BY <2>2, <2>4 DEF AppliedInv
  <2>7. QED
      BY <1>1, <2>1, <2>5, <2>6, StillApplied
<1>18. CASE AdvanceCheckpoint \/ Kill \/ UNCHANGED vars
  <2>1. /\ rejected' = rejected /\ attempts' = attempts /\ pending' = pending /\ files' = files /\ gone' = gone
        /\ synced' = synced /\ (phase' = phase \/ phase' = "down")
      BY <1>18 DEF AdvanceCheckpoint, Kill, disk, history, writer, vars
  <2>2. phase \in {"appended", "rolling", "truncated"} => files # << >>
      BY <1>1 DEF PhaseInv, Grouping
  <2>3. QED
      BY <1>1, <1>2, <2>1, <2>2, SameCells
<1>19. CASE Barrier
  <2>1. phase' \in {"barrier", "down"} /\ rejected' = rejected /\ attempts' = attempts /\ pending' = pending
      BY <1>19 DEF Barrier, history
  <2>2. /\ Len(files') = Len(files) /\ \A i \in 1..Len(files) : NoMore(files[i], files'[i])
        /\ gone' = gone \/ gone' = << >>
      BY <1>1, <1>19, BarrierDoes
  <2>3. QED
      BY <1>1, <2>1, <2>2, SameCells
<1>20. CASE RepairTail
  <2>1. /\ phase' \in {"corrupt", "repaired", "down"} /\ rejected' = rejected /\ attempts' = attempts
        /\ pending' = pending /\ gone' = gone
      BY <1>20 DEF RepairTail, history
  <2>2. CASE files' = files
      BY <1>1, <1>2, <2>1, <2>2, SameCells
  <2>3. CASE files # << >> /\ \E g \in {Synced(Repaired)} \cup FailedSync(Repaired) : ActiveBecomes(g)
    <3>1. PICK g \in {Synced(Repaired)} \cup FailedSync(Repaired) : ActiveBecomes(g)
        BY <2>3
    <3>2. CommittedEnd(ActiveFile.mem) \in 0..Len(ActiveFile.mem)
        BY <1>3, <2>3, FileFields, CommittedEndIs
    <3>3. NoMore(ActiveFile, g)
        BY <1>4, <2>3, <3>1, <3>2 DEF Repaired
    <3>4. Len(files') = Len(files) /\ \A i \in 1..Len(files) : NoMore(files[i], files'[i])
        BY <1>5, <2>3, <3>1, <3>3
    <3>5. QED
        BY <1>1, <2>1, <3>4, SameCells
  <2>4. QED
      BY <1>1, <1>20, <2>2, <2>3, RepairDoes
<1>21. CASE IntoWriter
    BY <1>1, <1>21, IntoWriterApplied
<1>22. CASE IntoWriterFails
  <2>1. /\ phase' \in {"corrupt", "down"} /\ rejected' = rejected /\ attempts' = attempts /\ pending' = pending
        /\ gone' = gone
      BY <1>22 DEF IntoWriterFails, history
  <2>2. CASE files' = files
      BY <1>1, <1>2, <2>1, <2>2, SameCells
  <2>3. CASE files = << >> /\ files' = Taken
    <3>1. Len(Taken) = 1 /\ Taken[1] = NewFile(ResumeSeq, << >>) /\ ResumeSeq \in Nat
        BY <1>1, <2>3, TakenIs, ReadIs DEF TypeInv
    <3>2. << >> \in Seq(Cell) /\ Len(<< >>) = 0
        BY EmptySeq
    <3>3. NewFile(ResumeSeq, << >>).mem = << >> /\ Len(NewFile(ResumeSeq, << >>).dev) = 0
      <4>1. NewFile(ResumeSeq, << >>).mem = << >> /\ NewFile(ResumeSeq, << >>).dev = << >>
          BY DEF NewFile
      <4>2. QED
          BY <3>2, <4>1
    <3>4. Without(NewFile(ResumeSeq, << >>), Never)
        BY <3>2, <3>3 DEF Without
    <3>5. \A i \in 1..Len(files') : i = 1
        BY <2>3, <3>1
    <3>6. \A i \in 1..Len(files') : Without(files'[i], Never)
        BY <2>3, <3>1, <3>4, <3>5
    <3>7. QED
        BY <1>1, <1>6, <2>1, <3>6, StillApplied
  <2>4. QED
      BY <1>1, <1>22, <2>2, <2>3, IntoWriterFailsDoes
<1>23. CASE Crash \/ OperatorReboot
    BY <1>1, <1>23, RebootApplied DEF Crash, OperatorReboot
<1>24. QED
    BY <1>8, <1>9, <1>10, <1>11, <1>12, <1>13, <1>14, <1>15, <1>16, <1>17, <1>18, <1>19, <1>20, <1>21, <1>22, <1>23
    DEF Next, Writing, Recovery

LEMMA AppliedInit == Init => AppliedInv
<1>1. Len(<< >>) = 0
    BY EmptySeq
<1>2. QED
    BY <1>1 DEF Init, AppliedInv

\* WriteOutcome::NotApplied (writer.rs, roll_back): no frame of a group answered so is in any file,
\* for a reader or on the device, whatever fails or crashes afterwards.
THEOREM NotAppliedIsGone == Spec => []NotAppliedGone
<1>1. BaseInv /\ AppliedInv => NotAppliedGone
  <2>1. SUFFICES ASSUME BaseInv, AppliedInv, NEW i \in DOMAIN files, NEW cells \in {files[i].mem, files[i].dev},
                        NEW c \in DOMAIN cells, IsFrame(cells[c])
                 PROVE  cells[c].op \notin rejected
      BY DEF NotAppliedGone
  <2>2. i \in 1..Len(files) /\ files[i] \in WalFile
      BY <2>1, ActiveIs DEF BaseInv, TypeInv
  <2>3. c \in 1..Len(cells)
      BY <2>2, FileFields
  <2>4. cells[c].op \notin Never
      BY <2>1, <2>2, <2>3 DEF AppliedInv, Without
  <2>5. rejected \in SUBSET Never
      BY <2>1 DEF BaseInv, TypeInv, Never
  <2>6. QED
      BY <2>4, <2>5
<1>2. QED
    BY <1>1, BaseAlways, AppliedInit, AppliedStep, PTL DEF Spec

\* The marker of the boot whose rollback failed (writer.rs, write_fence; recovery.rs, open): while it
\* can be seen in that boot, no process has the log open or gets past the check.
THEOREM FenceNeverPassed == Spec => []FenceHolds
<1>1. BaseInv => FenceHolds
    BY DEF BaseInv, FenceInv
<1>2. QED
    BY <1>1, BaseAlways, PTL

-----------------------------------------------------------------------------
(* What a replay that finds nothing wrong hands over. *)

\* The data frames that follow each other in the log continue each other's numbers.
LEMMA DataContinues ==
    ASSUME NEW frames \in Seq(Cell), FramesContinue(frames)
    PROVE  /\ \A i, j \in 1..Len(frames) :
                i < j /\ IsData(frames[i]) /\ IsData(frames[j]) /\ (\A k \in i + 1..j - 1 : ~IsData(frames[k])) =>
                  frames[j].first = frames[i].last + 1
           /\ \A j \in 1..Len(frames) : IsData(frames[j]) =>
                /\ Data(frames) # << >>
                /\ (\A k \in 1..j - 1 : ~IsData(frames[k])) => frames[j] = Data(frames)[1]
                /\ (\A k \in j + 1..Len(frames) : ~IsData(frames[k])) => frames[j] = Last(Data(frames))
           /\ Data(frames) # << >> => \E j \in 1..Len(frames) : IsData(frames[j])
<1> DEFINE I == {i \in DOMAIN frames : IsData(frames[i])}
           data == Data(frames)
<1>1. /\ data \in Seq(Cell) /\ Len(data) \in Nat /\ DOMAIN frames = 1..Len(frames) /\ Len(frames) \in Nat
      /\ data = << >> <=> Len(data) = 0
    BY DataIs, LenProperties, EmptySeq
<1>2. PICK e : Embeds(frames, I, data, e)
    BY DataIs
<1>3. \A i \in 1..Len(data) - 1 : data[i + 1].first = data[i].last + 1
    BY DEF FramesContinue
<1>4. \A i : i \in I <=> i \in 1..Len(frames) /\ IsData(frames[i])
    BY <1>1
<1> HIDE DEF I, data
<1>5. /\ \A k \in 1..Len(data) : e[k] \in 1..Len(frames) /\ e[k] \in I /\ data[k] = frames[e[k]]
      /\ \A k, l \in 1..Len(data) : k < l => e[k] < e[l]
      /\ \A i \in 1..Len(frames) : i \in I => \E k \in 1..Len(data) : e[k] = i
    BY <1>1, <1>2 DEF Embeds
<1>6. ASSUME NEW i \in 1..Len(frames), NEW j \in 1..Len(frames), i < j, i \in I, j \in I,
             \A k \in i + 1..j - 1 : k \notin I
      PROVE  frames[j].first = frames[i].last + 1
  <2>1. PICK a \in 1..Len(data) : e[a] = i
      BY <1>5, <1>6
  <2>2. PICK b \in 1..Len(data) : e[b] = j
      BY <1>5, <1>6
  <2>3. a < b
    <3>1. a # b /\ ~(b < a)
      <4>1. b < a => e[b] < e[a]
          BY <1>5
      <4>2. QED
          BY <1>1, <1>6, <2>1, <2>2, <4>1
    <3>2. QED
        BY <3>1
  <2>4. a + 1 \in 1..Len(data) /\ a \in 1..Len(data) - 1 /\ a < a + 1
      BY <1>1, <2>3
  <2>5. e[a] < e[a + 1] /\ e[a + 1] \in 1..Len(frames) /\ e[a + 1] \in I
      BY <1>5, <2>4
  <2>6. a + 1 = b
    <3>1. SUFFICES ASSUME a + 1 < b PROVE FALSE
        BY <2>3
    <3>2. e[a + 1] < e[b]
        BY <1>5, <2>4, <3>1
    <3>3. e[a + 1] \in i + 1..j - 1
        BY <2>1, <2>2, <2>5, <3>2
    <3>4. QED
        BY <1>6, <2>5, <3>3
  <2>7. QED
      BY <1>3, <1>5, <2>1, <2>2, <2>4, <2>6
<1>7. ASSUME NEW j \in 1..Len(frames), j \in I
      PROVE  /\ Len(data) # 0
             /\ (\A k \in 1..j - 1 : k \notin I) => frames[j] = data[1]
             /\ (\A k \in j + 1..Len(frames) : k \notin I) => frames[j] = data[Len(data)]
  <2>1. PICK a \in 1..Len(data) : e[a] = j
      BY <1>5, <1>7
  <2>2. 1 \in 1..Len(data) /\ Len(data) \in 1..Len(data) /\ Len(data) # 0
      BY <1>1, <2>1
  <2>3. ASSUME \A k \in 1..j - 1 : k \notin I PROVE a = 1
    <3>1. SUFFICES ASSUME 1 < a PROVE FALSE
        BY <2>1
    <3>2. e[1] < e[a] /\ e[1] \in 1..Len(frames) /\ e[1] \in I
        BY <1>5, <2>2, <3>1
    <3>3. e[1] \in 1..j - 1
        BY <2>1, <3>2
    <3>4. QED
        BY <2>3, <3>2, <3>3
  <2>4. ASSUME \A k \in j + 1..Len(frames) : k \notin I PROVE a = Len(data)
    <3>1. SUFFICES ASSUME a < Len(data) PROVE FALSE
        BY <1>1, <2>1
    <3>2. e[a] < e[Len(data)] /\ e[Len(data)] \in 1..Len(frames) /\ e[Len(data)] \in I
        BY <1>5, <2>2, <3>1
    <3>3. e[Len(data)] \in j + 1..Len(frames)
        BY <1>1, <2>1, <3>2
    <3>4. QED
        BY <2>4, <3>2, <3>3
  <2>5. QED
      BY <1>5, <2>1, <2>2, <2>3, <2>4
<1>8. ASSUME Len(data) # 0 PROVE \E j \in 1..Len(frames) : IsData(frames[j])
  <2>1. 1 \in 1..Len(data)
      BY <1>1, <1>8
  <2>2. QED
      BY <1>4, <1>5, <2>1
<1>9. Last(data) = data[Len(data)]
    BY DEF Last
<1> QED
  <2>1. \A i, j \in 1..Len(frames) :
          i < j /\ IsData(frames[i]) /\ IsData(frames[j]) /\ (\A k \in i + 1..j - 1 : ~IsData(frames[k])) =>
            frames[j].first = frames[i].last + 1
      BY <1>4, <1>6
  <2>2. ASSUME NEW j \in 1..Len(frames), IsData(frames[j])
        PROVE  /\ Len(data) # 0
               /\ (\A k \in 1..j - 1 : ~IsData(frames[k])) => frames[j] = data[1]
               /\ (\A k \in j + 1..Len(frames) : ~IsData(frames[k])) => frames[j] = data[Len(data)]
    <3>1. j \in I
        BY <1>4, <2>2
    <3>2. (\A k \in 1..j - 1 : ~IsData(frames[k])) => (\A k \in 1..j - 1 : k \notin I)
        BY <1>4
    <3>3. (\A k \in j + 1..Len(frames) : ~IsData(frames[k])) => (\A k \in j + 1..Len(frames) : k \notin I)
        BY <1>4
    <3>4. QED
        BY <1>7, <3>1, <3>2, <3>3
  <2>3. QED
      BY <1>1, <1>8, <1>9, <2>1, <2>2 DEF data

\* The last data frame among the first n, if there is one.
LEMMA LastData ==
    ASSUME NEW frames \in Seq(Cell), NEW n \in 0..Len(frames)
    PROVE  \/ \A k \in 1..n : ~IsData(frames[k])
           \/ \E j \in 1..n : IsData(frames[j]) /\ \A k \in j + 1..n : ~IsData(frames[k])
<1> DEFINE T == {k \in 1..n : IsData(frames[k])}
<1>1. n \in Nat /\ T \in SUBSET Nat /\ \A y \in T : y <= n
    BY LenProperties
<1>2. CASE T = {}
    BY <1>2
<1>3. CASE T # {}
  <2>1. Max(T) \in T /\ \A y \in T : y <= Max(T)
    <3> HIDE DEF T
    <3>1. QED
        BY <1>1, <1>3, MaxOf
  <2> DEFINE j == Max(T)
  <2>2. j \in 1..n /\ IsData(frames[j])
      BY <2>1
  <2>3. ASSUME NEW k \in j + 1..n, IsData(frames[k]) PROVE FALSE
    <3>1. k \in T /\ ~(k <= j)
        BY <1>1, <2>2, <2>3
    <3>2. QED
        BY <2>1, <3>1
  <2> HIDE DEF j
  <2>4. QED
      BY <2>2, <2>3
<1>4. QED
    BY <1>2, <1>3

\* No frame straddles c, whose successors are at the positions I, and no number after c is missing.
Unbroken(frames, c, I) ==
    /\ FramesContinue(frames)
    /\ \A i \in 1..Len(frames) : i \in I <=> frames[i].last > c
    /\ \A i \in 1..Len(frames) : i \in I => IsData(frames[i]) /\ frames[i].first > c
    /\ \A j \in 1..Len(frames) :
         IsData(frames[j]) /\ (\A k \in 1..j - 1 : ~IsData(frames[k])) => frames[j].first <= c + 1
\* These are the operations that frames log after c: one per number.
LogsFrom(frames, c, ops) ==
    /\ (\A k \in 1..Len(frames) : ~IsData(frames[k])) => Len(ops) = 0
    /\ \A j \in 1..Len(frames) :
         IsData(frames[j]) /\ (\A k \in j + 1..Len(frames) : ~IsData(frames[k])) =>
           Len(ops) = IF frames[j].last > c THEN frames[j].last - c ELSE 0
    /\ \A k \in 1..Len(ops) :
         \E i \in 1..Len(frames) : /\ IsData(frames[i]) /\ c + k \in frames[i].first..frames[i].last
                                   /\ ops[k] = frames[i].op

LEMMA AboveIs ==
    ASSUME NEW frames \in Seq(Cell), NEW c \in Nat, NEW I, Unbroken(frames, c, I)
    PROVE  LogsFrom(frames, c, OpsOf(At(frames, I)))
<1> DEFINE o(n) == OpsOf(At(SubSeq(frames, 1, n), I))
           Good(n) ==
             /\ (\A k \in 1..n : ~IsData(frames[k])) => Len(o(n)) = 0
             /\ \A j \in 1..n :
                  IsData(frames[j]) /\ (\A k \in j + 1..n : ~IsData(frames[k])) =>
                    Len(o(n)) = IF frames[j].last > c THEN frames[j].last - c ELSE 0
             /\ \A k \in 1..Len(o(n)) :
                  \E i \in 1..n : /\ IsData(frames[i]) /\ c + k \in frames[i].first..frames[i].last
                                  /\ o(n)[k] = frames[i].op
           N == {n \in Nat : n <= Len(frames) => Good(n)}
<1>0. /\ Len(frames) \in Nat /\ FramesContinue(frames)
      /\ \A i \in 1..Len(frames) : i \in I <=> frames[i].last > c
      /\ \A i \in 1..Len(frames) : i \in I => IsData(frames[i]) /\ frames[i].first > c
      /\ \A j \in 1..Len(frames) :
           IsData(frames[j]) /\ (\A k \in 1..j - 1 : ~IsData(frames[k])) => frames[j].first <= c + 1
    BY LenProperties DEF Unbroken
<1>1. 0 \in N
  <2>1. o(0) = << >>
    <3>1. SubSeq(frames, 1, 0) = << >>
        BY SubSeqEmpty
    <3>2. At(<< >>, I) = << >> /\ OpsOf(<< >>) = << >>
        BY EmptyAt, EmptyOps
    <3>3. QED
        BY <3>1, <3>2, Zenon
  <2> HIDE DEF o
  <2>2. Len(o(0)) = 0
      BY <2>1, EmptySeq
  <2>3. Good(0)
      BY <2>2
  <2> HIDE DEF Good
  <2>4. QED
      BY <2>3
<1>2. ASSUME NEW n \in N PROVE n + 1 \in N
  <2>1. n \in Nat /\ (n <= Len(frames) => Good(n))
      OBVIOUS
  <2>2. SUFFICES ASSUME n + 1 <= Len(frames) PROVE Good(n + 1)
      BY <2>1
  <2> HIDE DEF N
  <2>3. n \in 0..Len(frames) - 1 /\ n + 1 \in 1..Len(frames) /\ n \in 0..Len(frames)
      BY <1>0, <2>1, <2>2
  <2> DEFINE pre == SubSeq(frames, 1, n)
             x == frames[n + 1]
             a == At(pre, I)
  <2>4. /\ pre \in Seq(Cell) /\ x \in Cell /\ SubSeq(frames, 1, n + 1) = Append(pre, x) /\ Len(pre) = n
      BY <2>3, AppendLast
  <2>5. Good(n)
    <3> HIDE DEF Good
    <3>1. n <= Len(frames)
        BY <1>0, <2>1, <2>2
    <3>2. QED
        BY <2>1, <3>1
  <2> HIDE DEF pre, x
  <2>6. /\ a \in Seq(Cell)
        /\ At(SubSeq(frames, 1, n + 1), I) = a \o (IF n + 1 \in I THEN <<x>> ELSE << >>)
    <3>1. At(Append(pre, x), I) = a \o (IF n + 1 \in I THEN <<x>> ELSE << >>)
        BY <2>4, AtAppend
    <3>2. QED
        BY <2>4, <3>1, AtEmbeds
  <2>7. n + 1 \notin I => o(n + 1) = o(n)
    <3> HIDE DEF a
    <3>1. a \o << >> = a
        BY <2>6, ConcatEmptySeq
    <3>2. QED
        BY <2>6, <3>1 DEF a, pre
  <2>8. n + 1 \in I => o(n + 1) = o(n) \o FrameOps(x)
    <3> HIDE DEF a
    <3>1. a \o <<x>> = Append(a, x)
        BY <2>4, <2>6, AppendIsConcat
    <3>2. OpsOf(Append(a, x)) = OpsOf(a) \o FrameOps(x)
        BY <2>4, <2>6, OpsAppend
    <3>3. QED
        BY <2>6, <3>1, <3>2 DEF a, pre
  <2>9. o(n) \in Seq(Nat) /\ Len(o(n)) \in Nat
    <3>1. OpsOf(a) \in Seq(Nat)
        BY <2>6, OpsAre
    <3>2. QED
        BY <3>1, LenProperties DEF pre
  <2>10. /\ FrameOps(x) \in Seq(Nat) /\ Len(FrameOps(x)) \in Nat
         /\ IsData(x) => /\ x.first \in Nat /\ x.last \in Nat /\ x.first <= x.last
                         /\ Len(FrameOps(x)) = x.last - x.first + 1
         /\ \A k \in 1..Len(FrameOps(x)) : FrameOps(x)[k] = x.op
      BY <2>4, FrameOpsIs, CellKinds, LenProperties
  <2> DEFINE old == o(n)
             new == o(n + 1)
  <2>11. /\ (\A k \in 1..n : ~IsData(frames[k])) => Len(old) = 0
         /\ \A j \in 1..n :
              IsData(frames[j]) /\ (\A k \in j + 1..n : ~IsData(frames[k])) =>
                Len(old) = IF frames[j].last > c THEN frames[j].last - c ELSE 0
         /\ \A k \in 1..Len(old) :
              \E i \in 1..n : /\ IsData(frames[i]) /\ c + k \in frames[i].first..frames[i].last
                              /\ old[k] = frames[i].op
      BY <2>5
  <2>12. SUFFICES
           /\ (\A k \in 1..n + 1 : ~IsData(frames[k])) => Len(new) = 0
           /\ \A j \in 1..n + 1 :
                IsData(frames[j]) /\ (\A k \in j + 1..n + 1 : ~IsData(frames[k])) =>
                  Len(new) = IF frames[j].last > c THEN frames[j].last - c ELSE 0
           /\ \A k \in 1..Len(new) :
                \E i \in 1..n + 1 : /\ IsData(frames[i]) /\ c + k \in frames[i].first..frames[i].last
                                    /\ new[k] = frames[i].op
      OBVIOUS
  <2>13. /\ n + 1 \notin I => new = old
         /\ n + 1 \in I => new = old \o FrameOps(x)
         /\ old \in Seq(Nat) /\ Len(old) \in Nat
      BY <2>7, <2>8, <2>9
  <2> HIDE DEF o, Good, old, new, a
  <2>14. x = frames[n + 1]
      BY DEF x
  <2>15. \A k \in 1..n + 1 : k \in 1..n \/ k = n + 1
      BY <2>1
  <2>16. CASE ~IsData(x)
    <3>1. new = old
        BY <1>0, <2>3, <2>13, <2>14, <2>16
    <3>2. ASSUME NEW j \in 1..n + 1, IsData(frames[j]), \A k \in j + 1..n + 1 : ~IsData(frames[k])
          PROVE  Len(new) = IF frames[j].last > c THEN frames[j].last - c ELSE 0
      <4>1. j \in 1..n /\ \A k \in j + 1..n : k \in j + 1..n + 1
          BY <2>1, <2>14, <2>15, <2>16, <3>2
      <4>2. QED
          BY <2>11, <3>1, <3>2, <4>1
    <3>3. \A k \in 1..n : k \in 1..n + 1
        BY <2>1
    <3>4. QED
        BY <2>11, <3>1, <3>2, <3>3
  <2>17. CASE IsData(x)
    <3>1. \* What the frames before it log ends right before it, or at the checkpoint.
          Len(old) = IF x.first > c THEN x.first - 1 - c ELSE 0
      <4>1. CASE \A k \in 1..n : ~IsData(frames[k])
        <5>1. x.first <= c + 1
          <6>1. \A k \in 1..(n + 1) - 1 : k \in 1..n
              BY <2>1
          <6>2. QED
              BY <1>0, <2>3, <2>14, <2>17, <4>1, <6>1
        <5>2. Len(old) = 0
            BY <2>11, <4>1
        <5>3. QED
            BY <2>10, <2>17, <5>1, <5>2
      <4>2. CASE \E j \in 1..n : IsData(frames[j]) /\ \A k \in j + 1..n : ~IsData(frames[k])
        <5>1. PICK j \in 1..n : IsData(frames[j]) /\ \A k \in j + 1..n : ~IsData(frames[k])
            BY <4>2
        <5>2. j \in 1..Len(frames) /\ j < n + 1 /\ \A k \in j + 1..(n + 1) - 1 : k \in j + 1..n
            BY <1>0, <2>3, <5>1
        <5>3. x.first = frames[j].last + 1
          <6>1. \A k \in j + 1..(n + 1) - 1 : ~IsData(frames[k])
              BY <5>1, <5>2
          <6>2. IsData(frames[n + 1]) /\ n + 1 \in 1..Len(frames)
              BY <2>3, <2>14, <2>17
          <6>3. \A p, q \in 1..Len(frames) :
                  p < q /\ IsData(frames[p]) /\ IsData(frames[q]) /\ (\A k \in p + 1..q - 1 : ~IsData(frames[k])) =>
                    frames[q].first = frames[p].last + 1
              BY <1>0, DataContinues
          <6>4. QED
              BY <2>14, <5>1, <5>2, <6>1, <6>2, <6>3
        <5>4. Len(old) = IF frames[j].last > c THEN frames[j].last - c ELSE 0
            BY <2>11, <5>1
        <5>5. frames[j] \in Cell
            BY <5>2, ElementOfSeq
        <5>6. frames[j].last \in Nat
            BY <5>1, <5>5, CellKinds
        <5>7. QED
            BY <2>10, <2>17, <5>3, <5>4, <5>6
      <4>3. QED
          BY <2>3, <4>1, <4>2, LastData
    <3>2. n + 1 \in I <=> x.last > c
        BY <1>0, <2>3, <2>14
    <3>3. n + 1 \in I => x.first > c
        BY <1>0, <2>3, <2>14
    <3>4. Len(new) = IF x.last > c THEN x.last - c ELSE 0
      <4>1. CASE n + 1 \in I
        <5>1. Len(new) = Len(old) + Len(FrameOps(x))
            BY <2>10, <2>13, <4>1, ConcatProperties
        <5>2. QED
            BY <2>10, <2>13, <2>17, <3>1, <3>2, <3>3, <4>1, <5>1
      <4>2. CASE n + 1 \notin I
          BY <2>10, <2>13, <2>17, <3>1, <3>2, <4>2
      <4>3. QED
          BY <4>1, <4>2
    <3>5. ASSUME NEW j \in 1..n + 1, IsData(frames[j]), \A k \in j + 1..n + 1 : ~IsData(frames[k])
          PROVE  Len(new) = IF frames[j].last > c THEN frames[j].last - c ELSE 0
      <4>1. j = n + 1
        <5>1. j \in 1..n => n + 1 \in j + 1..n + 1
            BY <2>1
        <5>2. QED
            BY <2>14, <2>15, <2>17, <3>5, <5>1
      <4>2. QED
          BY <2>14, <3>4, <4>1
    <3>6. ASSUME NEW k \in 1..Len(new)
          PROVE  \E i \in 1..n + 1 : /\ IsData(frames[i]) /\ c + k \in frames[i].first..frames[i].last
                                     /\ new[k] = frames[i].op
      <4>1. CASE k \in 1..Len(old) /\ new[k] = old[k]
        <5>1. PICK i \in 1..n : /\ IsData(frames[i]) /\ c + k \in frames[i].first..frames[i].last
                                /\ old[k] = frames[i].op
            BY <2>11, <4>1
        <5>2. i \in 1..n + 1
            BY <2>1
        <5>3. QED
            BY <4>1, <5>1, <5>2
      <4>2. CASE n + 1 \in I /\ k \notin 1..Len(old)
        <5>1. /\ Len(new) = Len(old) + Len(FrameOps(x))
              /\ \A l \in 1..Len(new) : new[l] = IF l <= Len(old) THEN old[l] ELSE FrameOps(x)[l - Len(old)]
            BY <2>10, <2>13, <4>2, ConcatProperties
        <5>2. k - Len(old) \in 1..Len(FrameOps(x)) /\ ~(k <= Len(old))
            BY <2>10, <2>13, <4>2, <5>1
        <5>3. new[k] = FrameOps(x)[k - Len(old)]
            BY <5>1, <5>2
        <5>4. new[k] = x.op
            BY <2>10, <5>2, <5>3
        <5>5. c + k \in x.first..x.last
          <6>1. x.first > c /\ Len(old) = x.first - 1 - c /\ Len(FrameOps(x)) = x.last - x.first + 1
              BY <2>10, <2>17, <3>1, <3>3, <4>2
          <6>2. QED
            <7>1. /\ x.first \in Nat /\ x.last \in Nat /\ Len(old) \in Nat /\ Len(new) \in Nat
                BY <2>10, <2>13, <2>17, <5>1
            <7>2. k \in Nat /\ k - Len(old) \in 1..x.last - x.first + 1
                BY <5>2, <6>1, <7>1
            <7>3. PICK u, v, w : u = x.first /\ v = x.last /\ w = Len(old)
                OBVIOUS
            <7>4. u \in Nat /\ v \in Nat /\ w = u - 1 - c /\ k - w \in 1..v - u + 1 /\ k \in Nat /\ c \in Nat
                BY <6>1, <7>1, <7>2, <7>3
            <7>5. c + k \in u..v
                BY <7>4
            <7>6. QED
                BY <7>3, <7>5
        <5>6. n + 1 \in 1..n + 1
            BY <2>1
        <5>7. QED
            BY <2>14, <2>17, <5>4, <5>5, <5>6
      <4>3. n + 1 \in I /\ k \in 1..Len(old) => new[k] = old[k]
        <5>1. SUFFICES ASSUME n + 1 \in I, k \in 1..Len(old) PROVE new[k] = old[k]
            OBVIOUS
        <5>2. /\ Len(new) = Len(old) + Len(FrameOps(x))
              /\ \A l \in 1..Len(new) : new[l] = IF l <= Len(old) THEN old[l] ELSE FrameOps(x)[l - Len(old)]
            BY <2>10, <2>13, <5>1, ConcatProperties
        <5>3. QED
            BY <2>13, <5>1, <5>2
      <4>4. QED
          BY <2>13, <4>1, <4>2, <4>3
    <3>7. n + 1 \in 1..n + 1
        BY <2>1
    <3>8. QED
        BY <2>14, <2>17, <3>5, <3>6, <3>7
  <2>18. QED
      BY <2>16, <2>17
<1>3. N = Nat
  <2> HIDE DEF N
  <2>1. N \subseteq Nat
      BY DEF N
  <2>2. QED
      BY <1>1, <1>2, <2>1, Booting!SetInduction
<1>4. Good(Len(frames))
  <2> HIDE DEF Good
  <2>1. QED
      BY <1>0, <1>3
<1>5. SubSeq(frames, 1, Len(frames)) = frames
    BY SubSeqFull
<1>6. QED
    BY <1>4, <1>5 DEF LogsFrom

\* The data frames ascend.
LEMMA DataAscends ==
    ASSUME NEW frames \in Seq(Cell), FramesContinue(frames)
    PROVE  \A i, j \in 1..Len(frames) :
             i < j /\ IsData(frames[i]) /\ IsData(frames[j]) => frames[i].last < frames[j].first
<1> DEFINE Good(n) == \A i, j \in 1..n : i < j /\ IsData(frames[i]) /\ IsData(frames[j]) => frames[i].last < frames[j].first
           N == {n \in Nat : n <= Len(frames) => Good(n)}
<1>0. /\ Len(frames) \in Nat /\ \A i \in 1..Len(frames) : frames[i] \in Cell
      /\ \A i \in 1..Len(frames) : IsData(frames[i]) =>
           frames[i].first \in Nat /\ frames[i].last \in Nat /\ frames[i].first <= frames[i].last
      /\ \A p, q \in 1..Len(frames) :
           p < q /\ IsData(frames[p]) /\ IsData(frames[q]) /\ (\A k \in p + 1..q - 1 : ~IsData(frames[k])) =>
             frames[q].first = frames[p].last + 1
  <2>1. Len(frames) \in Nat /\ \A i \in 1..Len(frames) : frames[i] \in Cell
      BY LenProperties, ElementOfSeq
  <2>2. QED
      BY <2>1, CellKinds, DataContinues
<1>1. 0 \in N
    BY <1>0
<1>2. ASSUME NEW n \in N PROVE n + 1 \in N
  <2>1. n \in Nat /\ (n <= Len(frames) => Good(n))
      OBVIOUS
  <2>2. SUFFICES ASSUME n + 1 <= Len(frames) PROVE Good(n + 1)
      BY <2>1
  <2>3. \A i, j \in 1..n : i < j /\ IsData(frames[i]) /\ IsData(frames[j]) => frames[i].last < frames[j].first
      BY <1>0, <2>1, <2>2
  <2> HIDE DEF N
  <2>4. ASSUME NEW i \in 1..n + 1, NEW j \in 1..n + 1, i < j, IsData(frames[i]), IsData(frames[j])
        PROVE  frames[i].last < frames[j].first
    <3>1. CASE j \in 1..n
      <4>1. i \in 1..n
          BY <2>1, <2>4, <3>1
      <4>2. QED
          BY <2>3, <2>4, <3>1, <4>1
    <3>2. CASE j = n + 1
      <4>1. i \in 1..n /\ n \in 0..Len(frames)
          BY <1>0, <2>1, <2>2, <2>4, <3>2
      <4>2. PICK p \in 1..n : IsData(frames[p]) /\ \A k \in p + 1..n : ~IsData(frames[k])
          BY <2>4, <4>1, LastData
      <4>3. p \in 1..Len(frames) /\ j \in 1..Len(frames) /\ p < j /\ i \in 1..Len(frames)
          BY <1>0, <2>1, <2>2, <3>2, <4>1, <4>2
      <4>4. \A k \in p + 1..j - 1 : ~IsData(frames[k])
          BY <2>1, <3>2, <4>2
      <4>5. frames[j].first = frames[p].last + 1
          BY <1>0, <2>4, <4>2, <4>3, <4>4
      <4>6. i = p \/ i < p
          BY <2>1, <2>4, <4>1, <4>2
      <4>7. frames[i].last <= frames[p].last
          BY <1>0, <2>3, <2>4, <4>1, <4>2, <4>3, <4>6
      <4>8. QED
          BY <1>0, <2>4, <4>2, <4>3, <4>5, <4>7
    <3>3. QED
        BY <2>1, <3>1, <3>2
  <2>5. QED
      BY <2>4
<1>3. N = Nat
  <2> HIDE DEF N
  <2>1. N \subseteq Nat
      BY DEF N
  <2>2. QED
      BY <1>1, <1>2, <2>1, Booting!SetInduction
<1>4. Good(Len(frames))
  <2> HIDE DEF Good
  <2>1. QED
      BY <1>0, <1>3
<1>5. QED
    BY <1>4

\* Where the frames that are read come from.
InLog(start) ==
    /\ start \in [1..Len(ReadFiles) + 1 -> Nat]
    /\ start[1] = 0 /\ start[Len(ReadFiles) + 1] = Len(ReadFrames)
    /\ \A i \in 1..Len(ReadFiles) :
         /\ start[i + 1] = start[i] + Len(ReadFiles[i].mem)
         /\ start[i + 1] <= Len(ReadFrames)
         /\ \A c \in 1..Len(ReadFiles[i].mem) : ReadFrames[start[i] + c] = ReadFiles[i].mem[c]
    /\ \A p \in 1..Len(ReadFrames) :
         \E i \in 1..Len(ReadFiles) : \E c \in 1..Len(ReadFiles[i].mem) : p = start[i] + c
    /\ \A i, j \in 1..Len(ReadFiles) + 1 : i <= j => start[i] <= start[j]

LEMMA ReadPlaces ==
    ASSUME TypeInv
    PROVE  \E start : InLog(start)
<1> DEFINE q == [i \in DOMAIN ReadFiles |-> ReadFiles[i].mem]
<1>1. q \in Seq(Seq(Cell)) /\ Len(q) = Len(ReadFiles) /\ ReadFiles \in Seq(WalFile)
    BY ReadIs DEF TypeInv
<1>2. \A i \in 1..Len(ReadFiles) : q[i] = ReadFiles[i].mem
    BY <1>1, LenProperties
<1>3. ReadFrames = FlattenSeq(q)
    BY DEF ReadFrames
<1> HIDE DEF q
<1>4. PICK start : Places(q, start)
    BY <1>1, FlattenPlaces
<1>5. /\ start \in [1..Len(ReadFiles) + 1 -> Nat] /\ start[1] = 0 /\ start[Len(ReadFiles) + 1] = Len(ReadFrames)
      /\ \A i, j \in 1..Len(ReadFiles) + 1 : i <= j => start[i] <= start[j]
    BY <1>1, <1>3, <1>4 DEF Places
<1>6. ASSUME NEW i \in 1..Len(ReadFiles)
      PROVE  /\ start[i + 1] = start[i] + Len(ReadFiles[i].mem)
             /\ start[i + 1] <= Len(ReadFrames)
             /\ \A c \in 1..Len(ReadFiles[i].mem) : ReadFrames[start[i] + c] = ReadFiles[i].mem[c]
  <2>1. i \in 1..Len(q) /\ q[i] = ReadFiles[i].mem
      BY <1>1, <1>2
  <2>2. /\ start[i + 1] = start[i] + Len(q[i])
        /\ start[i + 1] <= Len(ReadFrames)
        /\ \A c \in 1..Len(q[i]) : ReadFrames[start[i] + c] = q[i][c]
      BY <1>3, <1>4, <2>1 DEF Places
  <2>3. QED
      BY <2>1, <2>2
<1>7. ASSUME NEW p \in 1..Len(ReadFrames)
      PROVE  \E i \in 1..Len(ReadFiles) : \E c \in 1..Len(ReadFiles[i].mem) : p = start[i] + c
  <2>1. PICK i \in 1..Len(q) : \E c \in 1..Len(q[i]) : p = start[i] + c
      BY <1>3, <1>4 DEF Places
  <2>2. i \in 1..Len(ReadFiles) /\ q[i] = ReadFiles[i].mem
      BY <1>1, <1>2, <2>1
  <2>3. QED
      BY <2>1, <2>2
<1>8. InLog(start)
    BY <1>5, <1>6, <1>7 DEF InLog
<1>9. QED
    BY <1>8

\* Whether there is a data frame among some frames, and which is the first.
LEMMA DataSome ==
    ASSUME NEW m \in Seq(Cell), NEW c \in 1..Len(m), IsData(m[c])
    PROVE  Data(m) # << >>
<1>1. Data(m) \in Seq(Cell) /\ DOMAIN m = 1..Len(m)
    BY DataIs, LenProperties
<1>2. PICK e : Embeds(m, {i \in DOMAIN m : IsData(m[i])}, Data(m), e)
    BY DataIs
<1>3. c \in {i \in DOMAIN m : IsData(m[i])}
    BY <1>1
<1>4. PICK k \in 1..Len(Data(m)) : e[k] = c
    BY <1>1, <1>2, <1>3 DEF Embeds
<1>5. Len(Data(m)) # 0
    BY <1>4
<1>6. QED
    BY <1>5, EmptySeq

LEMMA DataFirst ==
    ASSUME NEW m \in Seq(Cell), Data(m) # << >>
    PROVE  \E p \in 1..Len(m) : IsData(m[p]) /\ m[p] = Data(m)[1] /\ \A k \in 1..p - 1 : ~IsData(m[k])
<1> DEFINE I == {i \in DOMAIN m : IsData(m[i])}
           data == Data(m)
<1>1. /\ data \in Seq(Cell) /\ Len(data) \in Nat /\ DOMAIN m = 1..Len(m) /\ Len(m) \in Nat /\ Len(data) # 0
    BY DataIs, LenProperties, EmptySeq
<1>2. PICK e : Embeds(m, I, data, e)
    BY DataIs
<1>3. \A i : i \in I <=> i \in 1..Len(m) /\ IsData(m[i])
    BY <1>1
<1> HIDE DEF I, data
<1>4. 1 \in 1..Len(data)
    BY <1>1
<1>5. e[1] \in 1..Len(m) /\ IsData(m[e[1]]) /\ m[e[1]] = data[1]
    BY <1>1, <1>2, <1>3, <1>4 DEF Embeds
<1>6. ASSUME NEW k \in 1..e[1] - 1, IsData(m[k]) PROVE FALSE
  <2>1. k \in 1..Len(m) /\ k < e[1]
      BY <1>1, <1>5, <1>6
  <2>2. PICK l \in 1..Len(data) : e[l] = k
      BY <1>1, <1>2, <1>3, <1>6, <2>1 DEF Embeds
  <2>3. l = 1 \/ e[1] < e[l]
      BY <1>1, <1>2, <1>4, <2>2 DEF Embeds
  <2>4. QED
      BY <1>1, <1>5, <2>1, <2>2, <2>3
<1>7. QED
    BY <1>5, <1>6 DEF data

\* A replay that finds nothing wrong, of a log without a gap to the checkpoint, hands over one operation
\* per number from the checkpoint on, and the writer continues right after them.
LEMMA ReplayIs ==
    ASSUME TypeInv, ReplayOK, files # << >> => files[Checkpointed(files) + 1].first <= ckpt + 1
    PROVE  /\ ResumeSeq = ckpt + Len(OpsOf(Replayed)) + 1
           /\ \A k \in 1..Len(OpsOf(Replayed)) :
                \E i \in 1..Len(ReadFrames) : /\ IsData(ReadFrames[i])
                                              /\ ckpt + k \in ReadFrames[i].first..ReadFrames[i].last
                                              /\ OpsOf(Replayed)[k] = ReadFrames[i].op
<1> DEFINE I == {i \in DOMAIN ReadFrames : ReadFrames[i].last > ckpt}
<1>1. /\ files \in Seq(WalFile) /\ ckpt \in Nat /\ ReadFrames \in Seq(Cell) /\ ReadFiles \in Seq(WalFile)
      /\ Len(ReadFiles) \in Nat /\ Len(ReadFrames) \in Nat /\ DOMAIN ReadFrames = 1..Len(ReadFrames)
      /\ Len(ReadFiles) = Len(files) - Checkpointed(files) /\ Len(files) \in Nat
      /\ \A i \in 1..Len(ReadFiles) : ReadFiles[i] = files[Checkpointed(files) + i]
    BY ReadIs, LenProperties DEF TypeInv
<1>2. Replayed = At(ReadFrames, I)
    BY DEF Replayed
<1>3. \A i \in 1..Len(ReadFrames) : i \in I <=> ReadFrames[i].last > ckpt
    BY <1>1
<1>4. FramesContinue(ReadFrames)
    BY DEF ReplayOK
<1>5. PICK start : InLog(start)
    BY ReadPlaces
<1>6. \A i \in 1..Len(ReadFrames) : i \in I => IsData(ReadFrames[i]) /\ ReadFrames[i].first > ckpt
  <2>1. Replayed \in Seq(Cell)
      BY <1>1, <1>2, AtEmbeds
  <2>2. PICK e : Embeds(ReadFrames, I, Replayed, e)
      BY <1>1, <1>2, AtEmbeds
  <2>3. \A k \in 1..Len(Replayed) : IsData(Replayed[k]) /\ Replayed[k].first > ckpt
      BY <2>1, LenProperties DEF ReplayOK
  <2> HIDE DEF I
  <2>4. ASSUME NEW i \in 1..Len(ReadFrames), i \in I PROVE IsData(ReadFrames[i]) /\ ReadFrames[i].first > ckpt
    <3>1. i \in DOMAIN ReadFrames
        BY <1>1
    <3>2. PICK k \in 1..Len(Replayed) : e[k] = i
        BY <2>2, <2>4, <3>1 DEF Embeds
    <3>3. Replayed[k] = ReadFrames[i]
        BY <2>2, <3>2 DEF Embeds
    <3>4. QED
        BY <2>3, <3>2, <3>3
  <2>5. QED
      BY <2>4
<1>7. ASSUME NEW j \in 1..Len(ReadFrames), IsData(ReadFrames[j]), \A k \in 1..j - 1 : ~IsData(ReadFrames[k])
      PROVE  ReadFrames[j].first <= ckpt + 1
  <2>1. PICK i \in 1..Len(ReadFiles) : \E c \in 1..Len(ReadFiles[i].mem) : j = start[i] + c
      BY <1>5 DEF InLog
  <2>2. PICK c \in 1..Len(ReadFiles[i].mem) : j = start[i] + c
      BY <2>1
  <2>3. /\ \A k \in 1..Len(ReadFiles) : ReadFiles[k].mem \in Seq(Cell)
        /\ 1 \in 1..Len(ReadFiles) /\ start[1] = 0
      BY <1>1, <1>5, <2>1, ElementOfSeq, FileFields DEF InLog
  <2> DEFINE m == ReadFiles[1].mem
  <2>4. /\ m \in Seq(Cell) /\ Len(m) \in Nat /\ \A k \in 1..Len(m) : ReadFrames[k] = m[k]
    <3>1. m \in Seq(Cell) /\ Len(m) \in Nat
        BY <2>3, LenProperties
    <3>2. \A k \in 1..Len(m) : ReadFrames[start[1] + k] = m[k]
        BY <1>5, <2>3 DEF InLog
    <3>3. QED
        BY <2>3, <3>1, <3>2
  <2>5. Data(m) # << >>
    <3>1. CASE i = 1
      <4>1. IsData(m[c]) /\ c \in 1..Len(m)
          BY <1>7, <2>2, <2>3, <2>4, <3>1
      <4>2. QED
          BY <2>4, <4>1, DataSome
    <3>2. CASE i # 1
      <4>1. 1 \in 1..Len(ReadFiles) - 1
          BY <1>1, <2>1, <3>2
      <4>2. QED
          BY <4>1 DEF ReplayOK, FileEnds
    <3>3. QED
        BY <3>1, <3>2
  <2>6. PICK p \in 1..Len(m) : IsData(m[p]) /\ m[p] = Data(m)[1] /\ \A k \in 1..p - 1 : ~IsData(m[k])
      BY <2>4, <2>5, DataFirst
  <2>7. m[p].first = ReadFiles[1].first
    <3>1. FileStarts(ReadFiles[1].first, m)
      <4>1. DOMAIN ReadFiles = 1..Len(ReadFiles)
          BY <1>1, LenProperties
      <4>2. QED
          BY <2>3, <4>1 DEF ReplayOK
    <3> HIDE DEF m
    <3>2. QED
        BY <2>5, <2>6, <3>1 DEF FileStarts
  <2>8. p = j
    <3>1. p \in 1..Len(ReadFrames) /\ IsData(ReadFrames[p])
      <4>1. Len(m) <= Len(ReadFrames)
        <5>1. start[1 + 1] = start[1] + Len(m) /\ start[1 + 1] <= Len(ReadFrames)
            BY <1>5, <2>3 DEF InLog
        <5>2. QED
            BY <1>1, <2>3, <2>4, <5>1
      <4>2. QED
          BY <1>1, <2>4, <2>6, <4>1
    <3>2. ~(p < j)
        BY <1>7, <3>1
    <3>3. ~(j < p)
      <4>1. SUFFICES ASSUME j < p PROVE FALSE
          OBVIOUS
      <4>2. j \in 1..p - 1 /\ j \in 1..Len(m)
          BY <1>1, <2>4, <2>6, <4>1
      <4>3. QED
          BY <1>7, <2>4, <2>6, <4>2
    <3>4. QED
        BY <1>1, <3>1, <3>2, <3>3
  <2>9. ReadFrames[j] = m[p]
      BY <2>4, <2>6, <2>8
  <2>10. ReadFiles[1] = files[Checkpointed(files) + 1] /\ files # << >>
    <3>1. Len(files) # 0
      <4>1. Checkpointed(files) \in Nat
          BY <1>1, CheckpointedIs
      <4>2. QED
          BY <1>1, <2>3, <4>1
    <3>2. QED
        BY <1>1, <2>3, <3>1, EmptySeq
  <2>11. QED
      BY <2>7, <2>9, <2>10
<1> HIDE DEF I
<1>8. LogsFrom(ReadFrames, ckpt, OpsOf(Replayed))
  <2>1. Unbroken(ReadFrames, ckpt, I)
      BY <1>3, <1>4, <1>6, <1>7 DEF Unbroken
  <2>2. LogsFrom(ReadFrames, ckpt, OpsOf(At(ReadFrames, I)))
      BY <1>1, <2>1, AboveIs
  <2>3. QED
      BY <1>2, <2>2
<1>9. ResumeSeq = ckpt + Len(OpsOf(Replayed)) + 1
  <2>1. CASE \A k \in 1..Len(ReadFrames) : ~IsData(ReadFrames[k])
    <3>1. Data(ReadFrames) = << >>
        BY <1>1, <1>4, <2>1, DataContinues
    <3>2. ResumeSeq = ckpt + 1
        BY <1>1, <3>1 DEF ResumeSeq
    <3>3. QED
        BY <1>1, <1>8, <2>1, <3>2 DEF LogsFrom
  <2>2. CASE \E j \in 1..Len(ReadFrames) : IsData(ReadFrames[j]) /\ \A k \in j + 1..Len(ReadFrames) : ~IsData(ReadFrames[k])
    <3>1. PICK j \in 1..Len(ReadFrames) : IsData(ReadFrames[j]) /\ \A k \in j + 1..Len(ReadFrames) : ~IsData(ReadFrames[k])
        BY <2>2
    <3>2. Data(ReadFrames) # << >> /\ ReadFrames[j] = Last(Data(ReadFrames))
        BY <1>1, <1>4, <3>1, DataContinues
    <3>3. ResumeSeq = (IF ReadFrames[j].last > ckpt THEN ReadFrames[j].last ELSE ckpt) + 1
        BY <3>2 DEF ResumeSeq
    <3>4. Len(OpsOf(Replayed)) = IF ReadFrames[j].last > ckpt THEN ReadFrames[j].last - ckpt ELSE 0
        BY <1>8, <3>1 DEF LogsFrom
    <3>5. ReadFrames[j].last \in Nat
        BY <1>1, <3>1, ElementOfSeq, CellKinds
    <3>6. QED
        BY <1>1, <3>3, <3>4, <3>5
  <2>3. Len(ReadFrames) \in 0..Len(ReadFrames)
      BY <1>1
  <2>4. QED
      BY <1>1, <2>1, <2>2, <2>3, LastData
<1>10. QED
    BY <1>8, <1>9 DEF LogsFrom

-----------------------------------------------------------------------------
(* NumbersInv: the writer continues right after the log. *)

\* The files below the checkpoint are counted by their names.
LEMMA CheckpointedSame ==
    ASSUME NEW fs, NEW gs, Len(gs) = Len(fs), Len(fs) \in Nat, \A i \in 1..Len(fs) : gs[i].first = fs[i].first
    PROVE  Checkpointed(gs) = Checkpointed(fs)
<1>1. \A i \in 1..Len(fs) - 1 : \A j \in 1..i : j + 1 \in 1..Len(fs)
    OBVIOUS
<1>2. \A i \in 1..Len(fs) - 1 : (\A j \in 1..i : gs[j + 1].first - 1 <= ckpt) <=> (\A j \in 1..i : fs[j + 1].first - 1 <= ckpt)
    BY <1>1
<1>3. {i \in 1..Len(gs) - 1 : \A j \in 1..i : gs[j + 1].first - 1 <= ckpt}
      = {i \in 1..Len(fs) - 1 : \A j \in 1..i : fs[j + 1].first - 1 <= ckpt}
    BY <1>2
<1>4. QED
    BY <1>3 DEF Checkpointed

LEMMA TailIs ==
    ASSUME NEW S, NEW a \in Seq(S), NEW b \in Seq(S)
    PROVE  SubSeq(a \o b, Len(a) + 1, Len(a \o b)) = b
<1>1. /\ Len(a) \in Nat /\ Len(b) \in Nat /\ a \o b \in Seq(S) /\ Len(a \o b) = Len(a) + Len(b)
      /\ \A i \in 1..Len(a) + Len(b) : (a \o b)[i] = IF i <= Len(a) THEN a[i] ELSE b[i - Len(a)]
    BY LenProperties, ConcatProperties
<1> DEFINE ab == a \o b
           t == SubSeq(ab, Len(a) + 1, Len(ab))
<1>2. t = [i \in 1..Len(b) |-> ab[Len(a) + 1 + i - 1]]
  <2>1. 1..(Len(ab) - (Len(a) + 1)) + 1 = 1..Len(b)
      BY <1>1
  <2>2. t = [i \in 1..((Len(ab) - (Len(a) + 1)) + 1) |-> ab[Len(a) + 1 + i - 1]]
    <3> HIDE DEF ab
    <3>1. QED
        BY DEF t
  <2>3. QED
      BY <2>1, <2>2, Zenon
<1>3. \A i \in 1..Len(b) : Len(a) + 1 + i - 1 = Len(a) + i /\ Len(a) + i \in 1..Len(a) + Len(b) /\ ~(Len(a) + i <= Len(a))
                          /\ (Len(a) + i) - Len(a) = i
    BY <1>1
<1>4. \A i \in 1..Len(b) : ab[Len(a) + 1 + i - 1] = b[i]
    BY <1>1, <1>3
<1> HIDE DEF ab, t
<1>5. t = [i \in 1..Len(b) |-> b[i]]
    BY <1>2, <1>4, Zenon
<1>6. b = [i \in 1..Len(b) |-> b[i]]
    BY LenProperties
<1>7. QED
    BY <1>5, <1>6 DEF t, ab

\* Nothing that the numbers depend on changes.
LEMMA NumbersSame ==
    ASSUME NumbersInv, nextSeq' = nextSeq, log' = log, phase' \notin {"appended", "repaired"},
           phase' \in Grouping \cup Rotating => phase \in Grouping \cup Rotating
    PROVE  NumbersInv'
    BY DEF NumbersInv

LEMMA IntoWriterNumbers ==
    ASSUME TypeInv, NumbersInv, IntoWriter
    PROVE  NumbersInv'
<1>1. /\ phase = "repaired" /\ ReplayOK /\ log' = SubSeq(log, 1, ckpt) \o OpsOf(Replayed) /\ pending' = << >>
      /\ phase' \in {"idle", "appended", "rolling"}
    BY DEF IntoWriter
<1>2. ckpt \in Nat /\ Len(OpsOf(Replayed)) \in Nat /\ Len(log') = ckpt + Len(OpsOf(Replayed))
    BY <1>1, ReplayedIs DEF TypeInv
<1>3. nextSeq' = ckpt + Len(OpsOf(Replayed)) + 1
  <2>1. nextSeq' = ResumeSeq
      BY IntoWriterDoes
  <2>2. files # << >> => files[Checkpointed(files) + 1].first <= ckpt + 1
      BY <1>1 DEF NumbersInv
  <2>3. QED
      BY <1>1, <2>1, <2>2, ReplayIs
<1>4. nextSeq' = Len(log') + 1
    BY <1>2, <1>3
<1>5. ASSUME phase' = "appended"
      PROVE  OpsOf(Unsynced') = << >> /\ \A i \in 1..Len(Unsynced') : ~IsData(Unsynced'[i])
  <2> DEFINE start == CheckpointFrame(nextGroup', TRUE)
  <2>1. nextGroup' \in Nat /\ files' # << >> /\ Len(files') = Len(Taken) /\ synced' = Len(Taken[Len(Taken)].mem)
      BY IntoWriterDoes
  <2>2. PICK f \in WalFile : LinkOnly(Taken[Len(Taken)], f) /\ files'[Len(Taken)] = Appended(f, <<start>>)
      BY <1>5, IntoWriterDoes
  <2>3. start \in Cell /\ ~IsData(start) /\ <<start>> \in Seq(Cell) /\ Len(<<start>>) = 1 /\ <<start>>[1] = start
      BY <1>2, <2>1, CheckpointFrameIs
  <2> HIDE DEF start
  <2>4. files'[Active'].mem = f.mem \o <<start>> /\ f.mem \in Seq(Cell) /\ synced' = Len(f.mem)
    <3>1. Appended(f, <<start>>).mem = f.mem \o <<start>> /\ f.mem \in Seq(Cell)
        BY <2>3, AppendedIs, FileFields
    <3>2. files'[Active'] = Appended(f, <<start>>)
        BY <2>1, <2>2 DEF Active
    <3>3. QED
        BY <2>1, <2>2, <3>1, <3>2 DEF LinkOnly
  <2>5. Unsynced' = <<start>>
      BY <2>3, <2>4, TailIs DEF Unsynced
  <2>6. OpsOf(<<start>>) = << >>
    <3>1. << >> \in Seq(Cell) /\ <<start>> = Append(<< >>, start)
        BY <2>3, EmptySeq
    <3>2. FrameOps(start) = << >>
        BY <2>3 DEF FrameOps
    <3>3. OpsOf(<< >>) = << >> /\ OpsOf(Append(<< >>, start)) = OpsOf(<< >>) \o FrameOps(start)
        BY <2>3, <3>1, OpsAppend
    <3>4. << >> \o << >> = << >>
        BY <3>1, ConcatEmptySeq
    <3>5. QED
        BY <3>1, <3>2, <3>3, <3>4
  <2>7. \A i \in 1..Len(<<start>>) : i = 1
      BY <2>3
  <2>8. QED
      BY <2>3, <2>5, <2>6, <2>7
<1>6. QED
    BY <1>1, <1>4, <1>5 DEF NumbersInv

LEMMA AppendGroupNumbers ==
    ASSUME TypeInv, PhaseInv, NumbersInv, NEW shape \in Shapes, AppendGroup(shape)
    PROVE  NumbersInv'
<1> DEFINE frames == GroupFrames(shape, attempts + 1)
<1>1. /\ phase = "idle" /\ phase' \in {"appended", "rolling"} /\ pending' = OpsOf(frames) /\ nextSeq' = nextSeq
      /\ log' = log /\ synced' = synced
    BY DEF AppendGroup, writer
<1>2. nextSeq' = Len(log') + 1
    BY <1>1 DEF NumbersInv, Grouping
<1>3. ASSUME phase' = "appended"
      PROVE  /\ Unsynced' = frames
             /\ \A i \in 1..Len(frames) : IsData(frames[i]) =>
                  frames[i].first = nextSeq + Len(OpsOf(SubSeq(frames, 1, i - 1)))
  <2>1. IsGroup(frames, attempts + 1, nextSeq) /\ ActiveBecomes(Appended(ActiveFile, frames))
    <3>1. PICK cells \in Seq(Cell) :
            /\ ActiveBecomes(Appended(ActiveFile, cells))
            /\ phase' = "rolling" \/ (phase' = "appended" /\ cells = frames)
        BY AppendGroupDoes
    <3>2. IsGroup(frames, attempts + 1, nextSeq)
        BY AppendGroupDoes
    <3> HIDE DEF frames
    <3>3. QED
        BY <1>3, <3>1, <3>2
  <2> HIDE DEF frames
  <2>2. frames \in Seq(Cell)
      BY <2>1 DEF IsGroup
  <2>3. files # << >> /\ synced = Len(ActiveFile.mem)
      BY <1>1 DEF PhaseInv, Grouping, ActiveFile
  <2>4. ActiveFile \in WalFile
      BY <2>3, ActiveIs DEF TypeInv, ActiveFile
  <2>5. files'[Active'].mem = ActiveFile.mem \o frames /\ ActiveFile.mem \in Seq(Cell)
    <3>1. Appended(ActiveFile, frames).mem = ActiveFile.mem \o frames /\ ActiveFile.mem \in Seq(Cell)
        BY <2>2, <2>4, AppendedIs, FileFields
    <3>2. files'[Active'] = Appended(ActiveFile, frames)
        BY <2>1 DEF ActiveBecomes, Active
    <3>3. QED
        BY <3>1, <3>2
  <2>6. Unsynced' = frames
      BY <1>1, <2>2, <2>3, <2>5, TailIs DEF Unsynced
  <2>7. QED
      BY <2>1, <2>6 DEF IsGroup
<1> HIDE DEF frames
<1>4. QED
    BY <1>1, <1>2, <1>3 DEF NumbersInv

LEMMA RepairTailNumbers ==
    ASSUME TypeInv, NumbersInv, RepairTail
    PROVE  NumbersInv'
<1>1. phase' \in {"corrupt", "repaired", "down"} /\ ckpt' = ckpt
    BY DEF RepairTail
<1>2. ASSUME phase' = "repaired", files' # << >>
      PROVE  files'[Checkpointed(files) + 1].first <= ckpt + 1 /\ Checkpointed(files)' = Checkpointed(files)
  <2>1. files # << >> /\ CanRepair /\ ActiveBecomes(Synced(Repaired))
      BY <1>2, RepairDoes
  <2>2. files[Checkpointed(files) + 1].first <= ckpt + 1
      BY <2>1 DEF CanRepair
  <2>3. ActiveFile \in WalFile /\ ActiveFile = files[Len(files)] /\ Len(files) \in Nat
      BY <2>1, ActiveIs DEF TypeInv, ActiveFile, Active
  <2>4. Synced(Repaired).first = ActiveFile.first
    <3>1. CommittedEnd(ActiveFile.mem) \in 0..Len(ActiveFile.mem)
        BY <2>3, FileFields, CommittedEndIs
    <3>2. Repaired \in WalFile /\ Repaired.first = ActiveFile.first
        BY <2>3, <3>1, SetLenIs DEF Repaired
    <3>3. QED
        BY <3>2, SyncedIs
  <2>5. Len(files') = Len(files) /\ \A i \in 1..Len(files) : files'[i].first = files[i].first
    <3>1. \A i \in 1..Len(files) : i = Len(files) \/ i \in 1..Len(files) - 1
        BY <2>3
    <3>2. QED
        BY <2>1, <2>3, <2>4, <3>1 DEF ActiveBecomes
  <2>6. Checkpointed(files') = Checkpointed(files)
      BY <2>3, <2>5, CheckpointedSame
  <2>7. Checkpointed(files)' = Checkpointed(files')
      BY <1>1 DEF Checkpointed
  <2>8. Checkpointed(files) + 1 \in 1..Len(files)
      BY <2>1, <2>3, CheckpointedIs DEF TypeInv
  <2>9. QED
      BY <2>2, <2>5, <2>6, <2>7, <2>8
<1>3. QED
    BY <1>1, <1>2 DEF NumbersInv, Grouping, Rotating

LEMMA NumbersStep ==
    ASSUME BaseInv, NumbersInv, [Next]_vars
    PROVE  NumbersInv'
<1>1. TypeInv /\ PhaseInv
    BY DEF BaseInv
<1>2. ASSUME NEW shape \in Shapes, AppendGroup(shape) PROVE NumbersInv'
    BY <1>1, <1>2, AppendGroupNumbers
<1>3. CASE SyncGroup
  <2>1. /\ phase = "appended" /\ phase' = "idle" /\ nextSeq' = nextSeq + Len(OpsOf(Unsynced)) /\ log' = log \o pending
      BY <1>3 DEF SyncGroup, Unsynced
  <2>2. nextSeq = Len(log) + 1 /\ pending = OpsOf(Unsynced)
      BY <2>1 DEF NumbersInv, Grouping
  <2>3. log \in Seq(Nat) /\ pending \in Seq(Nat)
      BY <1>1 DEF TypeInv
  <2>4. Len(log') = Len(log) + Len(pending) /\ Len(log) \in Nat /\ Len(pending) \in Nat
      BY <2>1, <2>3, ConcatProperties, LenProperties
  <2>5. nextSeq' = Len(log') + 1
      BY <2>1, <2>2, <2>4
  <2>6. QED
      BY <2>1, <2>5 DEF NumbersInv
<1>4. CASE SyncGroupFails \/ RollBackTruncate \/ RollBackSync \/ RollBackSyncFails
  <2>1. /\ phase \in Grouping /\ nextSeq' = nextSeq /\ log' = log /\ phase' \notin {"appended", "repaired"}
      BY <1>4 DEF SyncGroupFails, RollBackTruncate, RollBackSync, RollBackSyncFails, writer, history, Grouping
  <2>2. QED
      BY <2>1, NumbersSame
<1>5. CASE Fence \/ Rotate \/ RotateSync \/ RotateEmpty
  <2>1. /\ nextSeq' = nextSeq /\ log' = log /\ phase' \notin {"appended", "repaired"}
        /\ phase' \in Grouping \cup Rotating => phase \in Grouping \cup Rotating
      BY <1>5 DEF Fence, Rotate, RotateSync, RotateEmpty, writer, history, Grouping, Rotating
  <2>2. QED
      BY <2>1, NumbersSame
<1>6. CASE RotateLink \/ RemoveCheckpointed \/ AdvanceCheckpoint
  <2>1. /\ nextSeq' = nextSeq /\ log' = log /\ phase' \notin {"appended", "repaired"}
        /\ phase \in Grouping \cup Rotating
      BY <1>6 DEF RotateLink, RemoveCheckpointed, AdvanceCheckpoint, writer, history, Grouping, Rotating
  <2>2. QED
      BY <2>1, NumbersSame
<1>7. CASE Crash \/ OperatorReboot \/ Kill \/ Barrier \/ IntoWriterFails
  <2>1. /\ phase' \in {"down", "barrier", "corrupt"} /\ nextSeq' = nextSeq /\ log' = log
    <3>1. CASE Crash \/ OperatorReboot
        BY <3>1 DEF Crash, OperatorReboot, Reboot, writer, history
    <3>2. CASE Kill \/ IntoWriterFails
        BY <3>2 DEF Kill, IntoWriterFails, writer, history
    <3>3. CASE Barrier
        BY <3>3 DEF Barrier, writer, history
    <3>4. QED
        BY <1>7, <3>1, <3>2, <3>3
  <2>2. QED
      BY <2>1, NumbersSame DEF Grouping, Rotating
<1>8. CASE RepairTail
    BY <1>1, <1>8, RepairTailNumbers
<1>9. CASE IntoWriter
    BY <1>1, <1>9, IntoWriterNumbers
<1>10. CASE UNCHANGED vars
    BY <1>10 DEF NumbersInv, vars, disk, writer, history, Unsynced, Active, Checkpointed
<1>11. QED
    BY <1>2, <1>3, <1>4, <1>5, <1>6, <1>7, <1>8, <1>9, <1>10 DEF Next, Writing, Recovery

LEMMA NumbersInit == Init => NumbersInv
    BY DEF Init, NumbersInv, Grouping, Rotating

\* The numbering of append_group (writer.rs) and into_writer (recovery.rs): a writer that is open numbers
\* its next operation right after the last one of the log (I6), after every failed group and recovery.
THEOREM NumbersNeverGap == Spec => []NumbersContinue
<1>1. NumbersInv => NumbersContinue
    BY DEF NumbersInv, NumbersContinue, Grouping
<1>2. QED
    BY <1>1, BaseAlways, NumbersInit, NumbersStep, PTL DEF Spec

-----------------------------------------------------------------------------
(* LogKept: what callers were told stays on the device. *)

\* The first n cells, which page cache and device agree on, are the same in g.
Keeps(f, g, n) ==
    /\ f.linked => g.linked
    /\ g.first = f.first
    /\ n <= Len(g.mem)
    /\ \A k \in 1..n : Agrees(g, k) /\ g.mem[k] = f.mem[k]

LEMMA KeepsAll ==
    ASSUME NEW f \in WalFile, NEW n \in 0..Len(f.mem), \A k \in 1..n : Agrees(f, k)
    PROVE  /\ \A g : LinkOnly(f, g) => Keeps(f, g, n)
           /\ Keeps(f, f, n)
           /\ Keeps(f, Synced(f), n)
           /\ \A g \in FailedSync(f) : Keeps(f, g, n)
           /\ \A g \in AfterCrash(f) : Keeps(f, g, n)
           /\ \A m \in n..Len(f.mem) : Keeps(f, SetLen(f, m), n)
           /\ \A cells \in Seq(Cell) : Keeps(f, Appended(f, cells), n)
<1>1. /\ Len(f.mem) \in Nat /\ Len(f.dev) \in Nat /\ \A k \in 1..n : k \in 1..Len(f.mem)
      /\ \A k \in 1..n : k \notin f.dirty /\ k <= Len(f.dev) /\ f.mem[k] = f.dev[k]
    BY FileFields DEF Agrees
<1>2. \A g : LinkOnly(f, g) => Keeps(f, g, n)
    BY <1>1 DEF LinkOnly, Keeps, Agrees
<1>3. Keeps(f, f, n)
    BY <1>1 DEF Keeps, Agrees
<1>4. Keeps(f, Synced(f), n)
  <2> DEFINE g == Synced(f)
  <2>1. /\ g.first = f.first /\ g.mem = f.mem /\ g.linked = f.linked /\ g.dirty = {} /\ Len(g.dev) = Len(f.mem)
        /\ \A k \in 1..Len(f.mem) : g.dev[k] = IF k \in f.dirty THEN f.mem[k] ELSE OnDevice(f, k)
      BY SyncedIs
  <2> HIDE DEF g
  <2>2. \A k \in 1..n : g.dev[k] = f.dev[k]
      BY <1>1, <2>1 DEF OnDevice
  <2>3. Keeps(f, g, n)
      BY <1>1, <2>1, <2>2 DEF Keeps, Agrees
  <2>4. QED
      BY <2>3 DEF g
<1>5. n <= Clean(f) /\ \A k \in 1..n : k \in 1..Clean(f)
    BY CleanIs, <1>1
<1>6. ASSUME NEW g \in FailedSync(f) PROVE Keeps(f, g, n)
  <2>1. /\ g.first = f.first /\ g.mem = f.mem /\ g.linked = f.linked /\ g.dirty = {} /\ g \in WalFile
        /\ Clean(f) <= Len(g.dev) /\ \A k \in 1..Clean(f) : g.dev[k] = f.dev[k]
      BY FailedSyncIs
  <2>2. Len(g.dev) \in Nat /\ Clean(f) \in Nat
      BY <1>1, <2>1, FileFields, CleanIs
  <2>3. QED
      BY <1>1, <1>5, <2>1, <2>2 DEF Keeps, Agrees
<1>7. ASSUME NEW g \in AfterCrash(f) PROVE Keeps(f, g, n)
  <2>1. /\ g.first = f.first /\ g.mem = g.dev /\ g.linked = TRUE /\ g.dirty = {} /\ g \in WalFile
        /\ Clean(f) <= Len(g.dev) /\ \A k \in 1..Clean(f) : g.dev[k] = f.dev[k]
      BY AfterCrashIs
  <2>2. Len(g.dev) \in Nat /\ Clean(f) \in Nat
      BY <1>1, <2>1, FileFields, CleanIs
  <2>3. QED
      BY <1>1, <1>5, <2>1, <2>2 DEF Keeps, Agrees
<1>8. ASSUME NEW m \in n..Len(f.mem) PROVE Keeps(f, SetLen(f, m), n)
  <2> DEFINE g == SetLen(f, m)
  <2>1. m \in 0..Len(f.mem)
      BY <1>1
  <2>2. /\ g.first = f.first /\ g.dev = f.dev /\ g.linked = f.linked /\ g.dirty = f.dirty \cap 1..m
        /\ Len(g.mem) = m /\ \A k \in 1..m : g.mem[k] = f.mem[k]
      BY <2>1, SetLenIs
  <2> HIDE DEF g
  <2>3. Keeps(f, g, n)
      BY <1>1, <2>1, <2>2 DEF Keeps, Agrees
  <2>4. QED
      BY <2>3 DEF g
<1>9. ASSUME NEW cells \in Seq(Cell) PROVE Keeps(f, Appended(f, cells), n)
  <2> DEFINE g == Appended(f, cells)
  <2>1. /\ g.first = f.first /\ g.dev = f.dev /\ g.linked = f.linked
        /\ g.dirty = f.dirty \cup (Len(f.mem) + 1)..(Len(f.mem) + Len(cells))
        /\ Len(g.mem) = Len(f.mem) + Len(cells) /\ Len(cells) \in Nat
        /\ \A k \in 1..Len(f.mem) : g.mem[k] = f.mem[k]
      BY AppendedIs
  <2> HIDE DEF g
  <2>2. \A k \in 1..n : k \notin (Len(f.mem) + 1)..(Len(f.mem) + Len(cells))
      BY <1>1, <2>1
  <2>3. \A k \in 1..n : Agrees(g, k) /\ g.mem[k] = f.mem[k]
    <3>1. \A k \in 1..n : k \in 1..Len(f.mem) /\ Agrees(f, k)
        BY <1>1
    <3>2. \A k \in 1..n : g.mem[k] = f.mem[k] /\ k \notin g.dirty
        BY <2>1, <2>2, <3>1 DEF Agrees
    <3>3. QED
        BY <2>1, <3>1, <3>2 DEF Agrees
  <2>4. n <= Len(g.mem)
      BY <1>1, <2>1
  <2>5. QED
      BY <2>1, <2>3, <2>4 DEF Keeps, g
<1>10. QED
    BY <1>2, <1>3, <1>4, <1>6, <1>7, <1>8, <1>9

LEMMA KeepsThrough ==
    ASSUME NEW f, NEW g, NEW h, NEW n \in Nat, Keeps(f, g, n), Keeps(g, h, n)
    PROVE  Keeps(f, h, n)
BY DEF Keeps

\* A whole file keeps every cell.
LEMMA WholeKept ==
    ASSUME NEW f \in WalFile, NEW g, Keeps(f, g, Len(f.mem)), Len(g.mem) = Len(f.mem)
    PROVE  Whole(g)
BY DEF Keeps, Whole

LEMMA WholeIsHonest ==
    ASSUME NEW f, Whole(f)
    PROVE  Honest(f)
BY DEF Whole, Honest, Agrees, OnDevice

\* The synced copy of an honest file is whole.
LEMMA HonestSynced ==
    ASSUME NEW f \in WalFile, Honest(f)
    PROVE  Whole(Synced(f))
<1> DEFINE g == Synced(f)
<1>1. /\ g.mem = f.mem /\ g.dirty = {} /\ Len(g.dev) = Len(f.mem)
      /\ \A k \in 1..Len(f.mem) : g.dev[k] = IF k \in f.dirty THEN f.mem[k] ELSE OnDevice(f, k)
    BY SyncedIs
<1> HIDE DEF g
<1>2. Len(f.mem) \in Nat
    BY FileFields
<1>3. Whole(g)
    BY <1>1, <1>2 DEF Whole, Honest, Agrees
<1>4. QED
    BY <1>3 DEF g

\* An operation that is kept stays so in a file that keeps the cells up to the end of its group.
LEMMA StaysKept ==
    ASSUME NEW s, NEW i, NEW n \in Nat, NEW c \in 1..n, NEW j, Kept(s, i, n, c), Keeps(files[i], files'[j], n),
           n # 0, log'[s] = log[s], InUse(j, n)',
           \A k \in j + 1..Len(files') : s < files'[k].first
    PROVE  Kept(s, j, n, c)'
<1>1. Durable(j, n)'
  <2>1. n \in 1..n
      OBVIOUS
  <2>2. QED
      BY <2>1 DEF Kept, Durable, Keeps
<1>2. files'[j].mem[c] = files[i].mem[c]
    BY DEF Keeps
<1>3. QED
    BY <1>1, <1>2 DEF Kept

LEMMA BecomesKept ==
    ASSUME NEW s, NEW i, NEW n \in Nat, NEW c, NEW g, g = files'[i], g.linked, n \in 1..Len(g.mem), g.mem[n].end,
           \A k \in 1..n : Agrees(g, k) /\ IsFrame(g.mem[k]), InUse(i, n)',
           IsData(g.mem[c]), g.mem[c].op = log'[s], s \in g.mem[c].first..g.mem[c].last,
           \A j \in i + 1..Len(files') : s < files'[j].first
    PROVE  Kept(s, i, n, c)'
<1>1. Durable(i, n)'
    BY DEF Durable
<1>2. QED
    BY <1>1 DEF Kept

LEMMA LaterStart ==
    ASSUME NEW a \in Nat, NEW b \in Nat, a <= b, NEW l \in Nat, NEW s \in b + 1..l
    PROVE  s \in a + 1..l
OBVIOUS

\* The log is kept if each file that keeps part of it does.
LEMMA LogKeptSame ==
    ASSUME TypeInv, LogKept, log' = log, ckpt' \in Nat, ckpt <= ckpt',
           Len(files') = Len(files), files' \in Seq(WalFile),
           \A i \in 1..Len(files) : files'[i].first = files[i].first,
           \A i \in 1..Len(files) : \A n \in 1..Len(files[i].mem) :
             Durable(i, n) => Keeps(files[i], files'[i], n) /\ InUse(i, n)'
    PROVE  LogKept'
<1>1. SUFFICES ASSUME NEW s \in ckpt' + 1..Len(log')
               PROVE  \E i \in 1..Len(files') : \E n \in 1..Len(files'[i].mem) : \E c \in 1..n : Kept(s, i, n, c)'
    BY DEF LogKept
<1>2. s \in ckpt + 1..Len(log)
  <2>1. ckpt \in Nat /\ Len(log) \in Nat
      BY LenProperties DEF TypeInv
  <2>2. s \in ckpt' + 1..Len(log)
      BY Zenon
  <2>3. QED
      BY <2>1, <2>2, LaterStart
<1>3. PICK i \in 1..Len(files) : \E n \in 1..Len(files[i].mem) : \E c \in 1..n : Kept(s, i, n, c)
    BY <1>2 DEF LogKept
<1>4. PICK n \in 1..Len(files[i].mem) : \E c \in 1..n : Kept(s, i, n, c)
    BY <1>3
<1>5. PICK c \in 1..n : Kept(s, i, n, c)
    BY <1>4
<1>6. Keeps(files[i], files'[i], n) /\ InUse(i, n)'
    BY <1>5 DEF Kept
<1>7. \A k \in i + 1..Len(files') : s < files'[k].first
  <2>1. Len(files) \in Nat
      BY ActiveIs DEF TypeInv
  <2>2. \A k \in i + 1..Len(files) : k \in 1..Len(files)
      BY <1>3, <2>1
  <2>3. QED
      BY <1>5, <2>2 DEF Kept
<1>8. Kept(s, i, n, c)'
  <2>1. Len(files[i].mem) \in Nat
      BY <1>3, ActiveIs, FileFields DEF TypeInv
  <2>2. n \in Nat /\ n # 0
      BY <1>4, <2>1
  <2>3. log'[s] = log[s]
      OBVIOUS
  <2>4. QED
      BY <1>5, <1>6, <1>7, <2>2, <2>3, StaysKept
<1>9. n \in 1..Len(files'[i].mem) /\ i \in 1..Len(files')
  <2>1. Len(files'[i].mem) \in Nat
      BY <1>3, ElementOfSeq, FileFields
  <2>2. QED
      BY <1>6, <2>1 DEF Keeps
<1>10. QED
    BY <1>5, <1>8, <1>9

-----------------------------------------------------------------------------
(* AckInv, action by action. *)

LEMMA InUseStays ==
    ASSUME Len(files') = Len(files), synced \in Nat,
           phase' \in Grouping => phase \in Grouping /\ synced' \in Nat /\ synced <= synced',
           phase' \in Rotating => phase \in Rotating,
           NEW i, NEW n \in Nat, InUse(i, n)
    PROVE  InUse(i, n)'
<1>1. Active' = Active
    BY DEF Active
<1>2. QED
    BY <1>1 DEF InUse

LEMMA StoppedWriter ==
    ASSUME phase' \in {"corrupt", "fencing", "failed", "fatal"}
    PROVE  WriterInv' /\ \A i, n : InUse(i, n)'
BY DEF WriterInv, InUse, Grouping, Rotating

LEMMA DownWriter ==
    ASSUME phase' = "down", (~(fence.visible /\ fence.thisBoot))' => \A i \in 1..Len(files') : Honest(files'[i])
    PROVE  WriterInv' /\ \A i, n : InUse(i, n)'
BY DEF WriterInv, InUse, Grouping, Rotating

\* Only the active file changes, and keeps what it held of the log.
LEMMA ActiveKept ==
    ASSUME TypeInv, LogKept, log' = log, ckpt' = ckpt, files # << >>, NEW g, ActiveBecomes(g),
           g.first = ActiveFile.first,
           \A n \in 1..Len(ActiveFile.mem) : Durable(Len(files), n) => Keeps(ActiveFile, g, n),
           \A i \in 1..Len(files) : \A n \in 1..Len(files[i].mem) : Durable(i, n) => InUse(i, n)'
    PROVE  LogKept'
<1>1. /\ files \in Seq(WalFile) /\ Len(files) \in Nat \ {0} /\ ckpt \in Nat /\ ActiveFile = files[Len(files)]
      /\ \A i \in 1..Len(files) : files[i] \in WalFile
    BY ActiveIs, EmptySeq DEF TypeInv, ActiveFile, Active
<1>2. \A i \in 1..Len(files) : i = Len(files) \/ i \in 1..Len(files) - 1
    BY <1>1
<1>3. \A i \in 1..Len(files) : files'[i].first = files[i].first
    BY <1>1, <1>2 DEF ActiveBecomes
<1>4. ASSUME NEW i \in 1..Len(files), NEW n \in 1..Len(files[i].mem), Durable(i, n)
      PROVE  Keeps(files[i], files'[i], n)
  <2>1. CASE i = Len(files)
      BY <1>1, <1>4, <2>1 DEF ActiveBecomes
  <2>2. CASE i \in 1..Len(files) - 1
    <3>1. files'[i] = files[i] /\ files[i] \in WalFile
        BY <1>1, <1>4, <2>2 DEF ActiveBecomes
    <3>2. n \in 0..Len(files[i].mem) /\ \A k \in 1..n : Agrees(files[i], k)
        BY <1>4 DEF Durable
    <3>3. QED
        BY <3>1, <3>2, KeepsAll
  <2>3. QED
      BY <1>2, <2>1, <2>2
<1>5. ckpt' \in Nat /\ ckpt <= ckpt'
    BY <1>1
<1>6. QED
    BY <1>3, <1>4, <1>5, LogKeptSame DEF ActiveBecomes

\* What Durable says of the active file of a writer that takes groups.
LEMMA ActiveDurable ==
    ASSUME TypeInv, files # << >>, NEW n \in 1..Len(ActiveFile.mem), Durable(Len(files), n)
    PROVE  /\ n \in 0..Len(ActiveFile.mem) /\ \A k \in 1..n : Agrees(ActiveFile, k)
           /\ ActiveFile \in WalFile
           /\ phase \in Grouping => n <= synced
           /\ phase \notin Rotating
<1>1. ActiveFile = files[Len(files)] /\ ActiveFile \in WalFile /\ Active = Len(files)
    BY ActiveIs DEF TypeInv, ActiveFile, Active
<1>2. Len(ActiveFile.mem) \in Nat
    BY <1>1, FileFields
<1>3. QED
    BY <1>1, <1>2 DEF Durable, InUse

\* The writer's active file keeps what is synced.
LEMMA GroupWriter ==
    ASSUME TypeInv, PhaseInv, WriterInv, phase \in Grouping, phase' \in {"idle", "rolling", "truncated"},
           synced' = synced, NEW g, ActiveBecomes(g), Keeps(ActiveFile, g, synced)
    PROVE  WriterInv'
<1>1. files # << >> /\ synced \in Nat
    BY DEF PhaseInv, TypeInv
<1>2. /\ Len(files) \in Nat /\ ActiveFile = files[Len(files)] /\ Active = Len(files) /\ Active' = Len(files)
      /\ files'[Len(files)] = g /\ Len(files') = Len(files)
    BY <1>1, ActiveIs DEF TypeInv, ActiveFile, Active, ActiveBecomes
<1>3. \A i \in 1..Len(files') - 1 : Whole(files'[i])
    BY <1>2 DEF WriterInv, ActiveBecomes
<1>4. files[Active].linked /\ \A c \in 1..synced : Agrees(files[Active], c) /\ IsFrame(files[Active].mem[c])
    BY DEF WriterInv
<1>5. g.linked /\ \A c \in 1..synced : Agrees(g, c) /\ IsFrame(g.mem[c])
    BY <1>2, <1>4 DEF Keeps
<1>6. QED
    BY <1>2, <1>3, <1>5 DEF WriterInv, Grouping, Rotating

\* The synced cells of the active file agree.
LEMMA SyncedAgree ==
    ASSUME TypeInv, PhaseInv, WriterInv, phase \in Grouping
    PROVE  /\ files # << >> /\ ActiveFile \in WalFile /\ ActiveFile.linked /\ synced \in 0..Len(ActiveFile.mem)
           /\ \A k \in 1..synced : Agrees(ActiveFile, k) /\ IsFrame(ActiveFile.mem[k])
           /\ phase \in {"idle", "truncated"} => synced = Len(ActiveFile.mem) /\ Whole(ActiveFile)
<1>1. files # << >> /\ ActiveFile \in WalFile /\ synced \in Nat
    BY ActiveIs DEF TypeInv, PhaseInv, ActiveFile
<1>2. Len(ActiveFile.mem) \in Nat
    BY <1>1, FileFields
<1>3. synced <= Len(ActiveFile.mem) /\ (phase \in {"idle", "truncated"} => synced = Len(ActiveFile.mem))
    BY <1>2 DEF PhaseInv, Grouping, ActiveFile
<1>4. ActiveFile.linked /\ \A k \in 1..synced : Agrees(ActiveFile, k) /\ IsFrame(ActiveFile.mem[k])
    BY DEF WriterInv, ActiveFile
<1>5. QED
    BY <1>1, <1>2, <1>3, <1>4 DEF Whole

LEMMA AppendGroupAck ==
    ASSUME TypeInv, PhaseInv, AckInv, NEW shape \in Shapes, AppendGroup(shape)
    PROVE  AckInv'
<1> DEFINE frames == GroupFrames(shape, attempts + 1)
<1>1. /\ phase = "idle" /\ phase' \in {"appended", "rolling"} /\ log' = log /\ ckpt' = ckpt /\ synced' = synced
    BY DEF AppendGroup, writer
<1>2. LogKept /\ WriterInv /\ phase \in Grouping /\ phase' \in Grouping
    BY <1>1 DEF AckInv, Grouping
<1>3. /\ files # << >> /\ ActiveFile \in WalFile /\ ActiveFile.linked /\ synced \in Nat
      /\ synced = Len(ActiveFile.mem) /\ synced \in 0..Len(ActiveFile.mem)
      /\ \A k \in 1..synced : Agrees(ActiveFile, k) /\ IsFrame(ActiveFile.mem[k])
    BY <1>1, <1>2, SyncedAgree DEF TypeInv
<1>4. PICK cells \in Seq(Cell) :
        /\ ActiveBecomes(Appended(ActiveFile, cells))
        /\ phase' = "rolling" \/ (phase' = "appended" /\ cells = frames)
    BY AppendGroupDoes
<1>5. IsGroup(frames, attempts + 1, nextSeq) /\ Len(frames) # 0
    BY AppendGroupDoes
<1> DEFINE g == Appended(ActiveFile, cells)
<1>6. /\ g.first = ActiveFile.first /\ Len(g.mem) = Len(ActiveFile.mem) + Len(cells) /\ Len(cells) \in Nat
      /\ g.dirty = ActiveFile.dirty \cup (Len(ActiveFile.mem) + 1)..(Len(ActiveFile.mem) + Len(cells))
      /\ \A c \in 1..Len(cells) : g.mem[Len(ActiveFile.mem) + c] = cells[c]
      /\ Keeps(ActiveFile, g, synced)
    BY <1>3, AppendedIs, KeepsAll
<1>7. \A n \in 1..Len(ActiveFile.mem) : Durable(Len(files), n) => Keeps(ActiveFile, g, n)
    BY <1>3, ActiveDurable, KeepsAll
<1> HIDE DEF frames, g
<1>8. ActiveBecomes(g) /\ Len(files') = Len(files)
    BY <1>4 DEF g, ActiveBecomes
<1>9. \A i \in 1..Len(files) : \A n \in 1..Len(files[i].mem) : Durable(i, n) => InUse(i, n)'
  <2>1. phase' \notin Rotating
      BY <1>1 DEF Rotating
  <2>2. synced' \in Nat /\ synced <= synced'
      BY <1>1, <1>3
  <2>3. QED
      BY <1>2, <1>3, <1>8, <2>1, <2>2, InUseStays DEF Durable
<1>10. LogKept'
    BY <1>1, <1>2, <1>3, <1>6, <1>7, <1>8, <1>9, ActiveKept
<1>11. WriterInv'
  <2>1. CASE phase' = "rolling"
      BY <1>1, <1>2, <1>6, <1>8, <2>1, GroupWriter
  <2>2. CASE phase' = "appended"
    <3>1. cells = frames /\ Len(cells) # 0 /\ frames \in Seq(Cell)
        BY <1>4, <1>5, <2>2 DEF IsGroup
    <3>2. /\ Len(files) \in Nat /\ ActiveFile = files[Len(files)] /\ Active = Len(files) /\ Active' = Len(files)
          /\ files'[Len(files)] = g /\ Len(files') = Len(files)
        BY <1>3, <1>8, ActiveIs DEF TypeInv, ActiveFile, Active, ActiveBecomes
    <3>3. \A i \in 1..Len(files') - 1 : Whole(files'[i])
        BY <1>2, <1>8, <3>2 DEF WriterInv, ActiveBecomes
    <3>4. g.linked /\ \A c \in 1..synced : Agrees(g, c) /\ IsFrame(g.mem[c])
        BY <1>3, <1>6 DEF Keeps
    <3>5. synced < Len(g.mem) /\ g.mem[Len(g.mem)].end
      <4>1. Len(frames) \in 1..Len(frames) /\ frames[Len(frames)].end
          BY <1>5, <1>6, <3>1 DEF IsGroup
      <4>2. QED
          BY <1>3, <1>6, <3>1, <4>1
    <3>6. ASSUME NEW c \in synced + 1..Len(g.mem) PROVE c \in g.dirty /\ IsFrame(g.mem[c])
      <4>1. c - synced \in 1..Len(cells) /\ c = Len(ActiveFile.mem) + (c - synced)
            /\ c \in (Len(ActiveFile.mem) + 1)..(Len(ActiveFile.mem) + Len(cells))
          BY <1>3, <1>6, <3>6
      <4>2. g.mem[c] = cells[c - synced]
          BY <1>6, <4>1
      <4>3. IsFrame(cells[c - synced])
          BY <1>5, <3>1, <4>1 DEF IsGroup
      <4>4. QED
          BY <1>6, <4>1, <4>2, <4>3
    <3>7. synced' = synced
        BY <1>1
    <3>8. QED
        BY <2>2, <3>2, <3>3, <3>4, <3>5, <3>6, <3>7 DEF WriterInv, Grouping, Rotating
  <2>3. QED
      BY <1>1, <2>1, <2>2
<1>12. QED
    BY <1>10, <1>11 DEF AckInv

\* A synced group is on the device, and the caller is told so only now.
LEMMA SyncGroupAck ==
    ASSUME TypeInv, PhaseInv, NumbersInv, AckInv, SyncGroup
    PROVE  AckInv'
<1>1. /\ phase = "appended" /\ phase' = "idle" /\ log' = log \o pending /\ ckpt' = ckpt
      /\ synced' = Len(ActiveFile.mem)
    BY DEF SyncGroup, ActiveFile
<1>2. LogKept /\ WriterInv /\ phase \in Grouping
    BY <1>1 DEF AckInv, Grouping
<1>3. /\ files # << >> /\ ActiveFile \in WalFile /\ ActiveFile.linked /\ synced \in 0..Len(ActiveFile.mem)
      /\ \A k \in 1..synced : Agrees(ActiveFile, k) /\ IsFrame(ActiveFile.mem[k])
    BY <1>2, SyncedAgree
<1>4. /\ Len(files) \in Nat \ {0} /\ ActiveFile = files[Len(files)] /\ Active = Len(files) /\ files \in Seq(WalFile)
      /\ \A i \in 1..Len(files) : files[i] \in WalFile
    BY <1>3, ActiveIs, EmptySeq DEF TypeInv, ActiveFile, Active
<1> DEFINE g == Synced(ActiveFile)
           l == Len(ActiveFile.mem)
<1>5. ActiveBecomes(g)
    BY SyncDoes
<1>6. /\ g.first = ActiveFile.first /\ g.mem = ActiveFile.mem /\ g.linked = ActiveFile.linked /\ g.dirty = {}
      /\ Len(g.dev) = l
      /\ \A k \in 1..l : g.dev[k] = IF k \in ActiveFile.dirty THEN ActiveFile.mem[k] ELSE OnDevice(ActiveFile, k)
    BY <1>3, SyncedIs
<1>7. l \in Nat /\ synced \in Nat /\ synced < l /\ ActiveFile.mem[l].end
      /\ \A k \in synced + 1..l : k \in ActiveFile.dirty /\ IsFrame(ActiveFile.mem[k])
    BY <1>1, <1>2, <1>3, <1>4, FileFields DEF WriterInv
<1>8. \A n \in 0..l : (\A k \in 1..n : Agrees(ActiveFile, k)) => Keeps(ActiveFile, g, n)
    BY <1>3, KeepsAll
<1> HIDE DEF g, l
<1>9. ASSUME NEW k \in 1..l PROVE Agrees(g, k) /\ IsFrame(g.mem[k])
  <2>1. CASE k \in 1..synced
    <3>1. Keeps(ActiveFile, g, synced)
        BY <1>3, <1>7, <1>8
    <3>2. QED
        BY <1>3, <2>1, <3>1 DEF Keeps
  <2>2. CASE k \in synced + 1..l
      BY <1>6, <1>7, <2>2 DEF Agrees
  <2>3. QED
      BY <1>7, <2>1, <2>2
<1>10. /\ Len(files') = Len(files) /\ files'[Len(files)] = g /\ Active' = Len(files) /\ files' \in Seq(WalFile)
       /\ \A i \in 1..Len(files) - 1 : files'[i] = files[i]
    BY <1>5 DEF ActiveBecomes, Active
<1>11. log \in Seq(Nat) /\ pending \in Seq(Nat) /\ Len(log) \in Nat /\ Len(pending) \in Nat /\ ckpt \in Nat /\ ckpt <= Len(log)
    BY LenProperties DEF TypeInv
<1>12. /\ Len(log') = Len(log) + Len(pending)
       /\ \A s \in 1..Len(log) + Len(pending) : log'[s] = IF s <= Len(log) THEN log[s] ELSE pending[s - Len(log)]
    BY <1>1, <1>11, ConcatProperties
<1>13. ASSUME NEW s \in ckpt' + 1..Len(log'), s <= Len(log)
       PROVE  \E i \in 1..Len(files') : \E n \in 1..Len(files'[i].mem) : \E c \in 1..n : Kept(s, i, n, c)'
  <2>1. s \in ckpt + 1..Len(log) /\ log'[s] = log[s]
      BY <1>1, <1>11, <1>12, <1>13
  <2>2. PICK i \in 1..Len(files) : \E n \in 1..Len(files[i].mem) : \E c \in 1..n : Kept(s, i, n, c)
      BY <1>2, <2>1 DEF LogKept
  <2>3. PICK n \in 1..Len(files[i].mem) : \E c \in 1..n : Kept(s, i, n, c)
      BY <2>2
  <2>4. PICK c \in 1..n : Kept(s, i, n, c)
      BY <2>3
  <2>5. Durable(i, n) /\ \A k \in i + 1..Len(files) : s < files[k].first
      BY <2>4 DEF Kept
  <2>6. n \in 0..Len(files[i].mem) /\ (\A k \in 1..n : Agrees(files[i], k)) /\ files[i] \in WalFile /\ n \in Nat
      BY <1>4, <2>5, FileFields DEF Durable
  <2>7. Keeps(files[i], files'[i], n)
    <3>1. CASE i = Len(files)
        BY <1>4, <1>8, <1>10, <2>6, <3>1 DEF l
    <3>2. CASE i \in 1..Len(files) - 1
        BY <1>10, <2>6, <3>2, KeepsAll
    <3>3. QED
        BY <1>4, <3>1, <3>2
  <2>8. InUse(i, n)'
    <3>1. i = Len(files) => n <= synced
        BY <1>2, <1>4, <2>5 DEF Durable, InUse
    <3>2. QED
        BY <1>1, <1>7, <1>10, <2>6, <3>1 DEF InUse, Rotating, l
  <2>9. \A k \in i + 1..Len(files') : s < files'[k].first
    <3>1. \A k \in i + 1..Len(files) : k \in 1..Len(files) - 1 \/ k = Len(files)
        BY <1>4, <2>2
    <3>2. QED
        BY <1>4, <1>6, <1>10, <2>5, <3>1
  <2>10. Kept(s, i, n, c)'
    <3>1. n \in Nat /\ n # 0
        BY <2>3, <2>6
    <3>2. log'[s] = log[s]
        BY <2>1
    <3>3. QED
        BY <2>4, <2>7, <2>8, <2>9, <3>1, <3>2, StaysKept
  <2>11. n \in 1..Len(files'[i].mem) /\ i \in 1..Len(files')
    <3>1. i \in 1..Len(files')
        BY <1>10
    <3>2. Len(files'[i].mem) \in Nat
        BY <1>10, <3>1, ElementOfSeq, FileFields
    <3>3. QED
        BY <2>7, <3>1, <3>2 DEF Keeps
  <2>12. QED
      BY <2>4, <2>10, <2>11
<1>14. ASSUME NEW s \in ckpt' + 1..Len(log'), ~(s <= Len(log))
       PROVE  \E i \in 1..Len(files') : \E n \in 1..Len(files'[i].mem) : \E c \in 1..n : Kept(s, i, n, c)'
  <2>1. s - Len(log) \in 1..Len(pending) /\ log'[s] = pending[s - Len(log)]
      BY <1>1, <1>11, <1>12, <1>14
  <2>2. pending = OpsOf(Unsynced) /\ nextSeq = Len(log) + 1 /\ nextSeq \in Nat
        /\ \A i \in 1..Len(Unsynced) : IsData(Unsynced[i]) =>
             Unsynced[i].first = nextSeq + Len(OpsOf(SubSeq(Unsynced, 1, i - 1)))
      BY <1>1, <1>2 DEF NumbersInv, TypeInv
  <2>3. /\ Unsynced \in Seq(Cell) /\ Len(Unsynced) = l - synced
        /\ \A i \in 1..Len(Unsynced) : Unsynced[i] = ActiveFile.mem[synced + i]
      BY <1>3, <1>4, <1>7, UnsyncedIs DEF l
  <2>4. PICK u \in 1..Len(Unsynced) :
          /\ IsData(Unsynced[u]) /\ nextSeq + (s - Len(log)) - 1 \in Unsynced[u].first..Unsynced[u].last
          /\ OpsOf(Unsynced)[s - Len(log)] = Unsynced[u].op
      BY <2>1, <2>2, <2>3, NumberedOps
  <2>5. nextSeq + (s - Len(log)) - 1 = s
      BY <1>11, <1>12, <2>2
  <2>6. PICK i, n, c : i = Len(files) /\ n = l /\ c = synced + u
      OBVIOUS
  <2>7. /\ n \in Nat /\ c \in 1..n /\ n \in 1..Len(g.mem) /\ i \in 1..Len(files') /\ g.mem[c] = Unsynced[u]
        /\ g = files'[i]
    <3>1. synced + u \in 1..l /\ l \in 1..l
        BY <1>7, <2>3, <2>4
    <3>2. g.mem[synced + u] = Unsynced[u] /\ Len(g.mem) = l
        BY <1>6, <2>3, <2>4 DEF l
    <3>3. i \in 1..Len(files') /\ g = files'[i]
        BY <1>4, <1>10, <2>6
    <3>4. QED
        BY <1>7, <2>6, <3>1, <3>2, <3>3
  <2>8. g.linked /\ g.mem[n].end /\ \A k \in 1..n : Agrees(g, k) /\ IsFrame(g.mem[k])
      BY <1>3, <1>6, <1>7, <1>9, <2>6 DEF l
  <2>9. InUse(i, n)'
    <3>1. n <= synced' /\ phase' \notin Rotating
        BY <1>1, <1>7, <2>6 DEF Rotating, l
    <3>2. QED
        BY <3>1 DEF InUse
  <2>10. IsData(g.mem[c]) /\ g.mem[c].op = log'[s] /\ s \in g.mem[c].first..g.mem[c].last
      BY <2>1, <2>2, <2>4, <2>5, <2>7
  <2>11. \A j \in i + 1..Len(files') : FALSE
      BY <1>4, <1>10, <2>6
  <2>12. Kept(s, i, n, c)'
      BY <2>7, <2>8, <2>9, <2>10, <2>11, BecomesKept
  <2>13. QED
      BY <2>7, <2>12
<1>15. LogKept'
  <2>1. \A s \in ckpt' + 1..Len(log') : s <= Len(log) \/ ~(s <= Len(log))
      OBVIOUS
  <2>2. QED
      BY <1>13, <1>14 DEF LogKept
<1>16. WriterInv'
  <2>1. \A i \in 1..Len(files') - 1 : Whole(files'[i])
      BY <1>2, <1>10 DEF WriterInv
  <2>2. g.linked /\ \A c \in 1..synced' : Agrees(g, c) /\ IsFrame(g.mem[c])
      BY <1>1, <1>3, <1>6, <1>9 DEF l
  <2>3. QED
      BY <1>1, <1>10, <2>1, <2>2 DEF WriterInv, Grouping, Rotating
<1>17. QED
    BY <1>15, <1>16 DEF AckInv

\* A failed group: the writer cuts it off and syncs the cut, or leaves it to a fence.
LEMMA RollBackAck ==
    ASSUME TypeInv, PhaseInv, AckInv, SyncGroupFails \/ RollBackTruncate \/ RollBackSync \/ RollBackSyncFails
    PROVE  AckInv'
<1>1. /\ phase \in {"appended", "rolling", "truncated"} /\ log' = log /\ ckpt' = ckpt /\ synced' = synced
      /\ phase' \in {"rolling", "truncated", "fencing", "idle", "down"}
      /\ phase' \in {"idle", "down"} => phase = "truncated"
    BY DEF SyncGroupFails, RollBackTruncate, RollBackSync, RollBackSyncFails, writer, history
<1>2. LogKept /\ WriterInv /\ phase \in Grouping
    BY <1>1 DEF AckInv, Grouping
<1>3. /\ files # << >> /\ ActiveFile \in WalFile /\ ActiveFile.linked /\ synced \in 0..Len(ActiveFile.mem)
      /\ \A k \in 1..synced : Agrees(ActiveFile, k) /\ IsFrame(ActiveFile.mem[k])
      /\ phase \in {"idle", "truncated"} => synced = Len(ActiveFile.mem) /\ Whole(ActiveFile)
    BY <1>2, SyncedAgree
<1>4. /\ files \in Seq(WalFile) /\ Len(files) \in Nat /\ ActiveFile = files[Len(files)] /\ synced \in Nat
      /\ \A i \in 1..Len(files) : files[i] \in WalFile
    BY ActiveIs DEF TypeInv, ActiveFile, Active
<1>5. \E g : /\ ActiveBecomes(g)
             /\ g \in FailedSync(ActiveFile) \/ g \in {SetLen(ActiveFile, synced), Synced(ActiveFile), ActiveFile}
             /\ RollBackSync => g = Synced(ActiveFile)
  <2>1. CASE SyncGroupFails \/ RollBackSyncFails
    <3>1. PICK g \in FailedSync(ActiveFile) : ActiveBecomes(g)
        BY <2>1, SyncDoes
    <3>2. ~RollBackSync
      <4>1. RollBackSync => phase = "truncated" /\ phase' \in {"idle", "down"}
          BY DEF RollBackSync
      <4>2. SyncGroupFails => phase = "appended"
          BY DEF SyncGroupFails
      <4>3. RollBackSyncFails => phase' = "fencing"
          BY DEF RollBackSyncFails
      <4>4. QED
          BY <2>1, <4>1, <4>2, <4>3
    <3>3. QED
        BY <3>1, <3>2
  <2>2. CASE RollBackTruncate
    <3>1. ~RollBackSync
        BY <2>2 DEF RollBackTruncate, RollBackSync
    <3>2. CASE ActiveBecomes(SetLen(ActiveFile, synced))
        BY <3>1, <3>2
    <3>3. CASE files' = files
      <4>1. ActiveBecomes(ActiveFile)
          BY <1>3, <1>4, <3>3 DEF ActiveBecomes
      <4>2. QED
          BY <3>1, <4>1
    <3>4. QED
        BY <2>2, <3>2, <3>3, TruncateDoes
  <2>3. CASE RollBackSync
      BY <2>3, SyncDoes
  <2>4. QED
      BY <2>1, <2>2, <2>3
<1>6. PICK g : /\ ActiveBecomes(g)
               /\ g \in FailedSync(ActiveFile) \/ g \in {SetLen(ActiveFile, synced), Synced(ActiveFile), ActiveFile}
               /\ RollBackSync => g = Synced(ActiveFile)
    BY <1>5
<1>7. Len(ActiveFile.mem) \in Nat
    BY <1>3, FileFields
<1>8. ASSUME NEW n \in 0..synced, \A k \in 1..n : Agrees(ActiveFile, k) PROVE Keeps(ActiveFile, g, n)
  <2>1. n \in 0..Len(ActiveFile.mem) /\ synced \in n..Len(ActiveFile.mem)
      BY <1>3, <1>7, <1>8
  <2>2. /\ Keeps(ActiveFile, ActiveFile, n) /\ Keeps(ActiveFile, Synced(ActiveFile), n)
        /\ Keeps(ActiveFile, SetLen(ActiveFile, synced), n)
        /\ \A h \in FailedSync(ActiveFile) : Keeps(ActiveFile, h, n)
      BY <1>3, <1>8, <2>1, KeepsAll
  <2>3. QED
      BY <1>6, <2>2
<1>9. Keeps(ActiveFile, g, synced) /\ g.first = ActiveFile.first
  <2>1. synced \in 0..synced /\ 0 \in 0..synced
      BY <1>4
  <2>2. Keeps(ActiveFile, g, synced)
      BY <1>3, <1>8, <2>1
  <2>3. QED
      BY <2>2 DEF Keeps
<1>10. \A n \in 1..Len(ActiveFile.mem) : Durable(Len(files), n) => Keeps(ActiveFile, g, n)
  <2>1. ASSUME NEW n \in 1..Len(ActiveFile.mem), Durable(Len(files), n) PROVE Keeps(ActiveFile, g, n)
    <3>1. n <= synced /\ \A k \in 1..n : Agrees(ActiveFile, k)
        BY <1>2, <1>3, <2>1, ActiveDurable
    <3>2. n \in 0..synced
        BY <1>4, <1>7, <3>1
    <3>3. QED
        BY <1>8, <3>1, <3>2
  <2>2. QED
      BY <2>1
<1>11. LogKept'
  <2>1. phase' \in Grouping => phase \in Grouping /\ synced' \in Nat /\ synced <= synced'
      BY <1>1, <1>2, <1>4
  <2>2. phase' \notin Rotating
      BY <1>1 DEF Rotating
  <2>3. \A i \in 1..Len(files) : \A n \in 1..Len(files[i].mem) : Durable(i, n) => InUse(i, n)'
      BY <1>4, <1>6, <2>1, <2>2, InUseStays DEF Durable, ActiveBecomes
  <2>4. QED
      BY <1>1, <1>2, <1>3, <1>6, <1>9, <1>10, <2>3, ActiveKept
<1>12. WriterInv'
  <2>1. CASE phase' = "fencing"
      BY <2>1, StoppedWriter
  <2>2. CASE phase' \in {"idle", "rolling", "truncated"}
      BY <1>1, <1>2, <1>6, <1>9, <2>2, GroupWriter
  <2>3. CASE phase' = "down"
    <3>1. RollBackSync /\ phase = "truncated"
      <4>1. (SyncGroupFails \/ RollBackTruncate \/ RollBackSyncFails) => phase' # "down"
          BY DEF SyncGroupFails, RollBackTruncate, RollBackSyncFails
      <4>2. QED
          BY <1>1, <2>3, <4>1
    <3>2. Whole(ActiveFile)
        BY <1>3, <3>1
    <3>3. Whole(g)
        BY <1>3, <1>6, <3>1, <3>2, HonestSynced, WholeIsHonest
    <3>4. \A i \in 1..Len(files) - 1 : Whole(files[i])
        BY <1>2 DEF WriterInv
    <3>5. \A i \in 1..Len(files') : i = Len(files) \/ i \in 1..Len(files) - 1
        BY <1>4, <1>6 DEF ActiveBecomes
    <3>6. \A i \in 1..Len(files') : Whole(files'[i])
        BY <1>6, <3>3, <3>4, <3>5 DEF ActiveBecomes
    <3>7. \A i \in 1..Len(files') : Honest(files'[i])
        BY <3>6, WholeIsHonest
    <3>8. QED
        BY <2>3, <3>7, DownWriter
  <2>4. QED
      BY <1>1, <2>1, <2>2, <2>3
<1>13. QED
    BY <1>11, <1>12 DEF AckInv

\* Every file is what it was, if not that its entry is durable now.
LEMMA LinkedKept ==
    ASSUME TypeInv, LogKept, log' = log, ckpt' = ckpt, files' \in Seq(WalFile), Len(files') = Len(files),
           \A i \in 1..Len(files) : LinkOnly(files[i], files'[i]),
           \A i \in 1..Len(files) : \A n \in 1..Len(files[i].mem) : Durable(i, n) => InUse(i, n)'
    PROVE  LogKept'
<1>1. Len(files) \in Nat /\ ckpt \in Nat /\ \A i \in 1..Len(files) : files[i] \in WalFile
    BY ActiveIs DEF TypeInv
<1>2. \A i \in 1..Len(files) : files'[i].first = files[i].first
    BY DEF LinkOnly
<1>3. ASSUME NEW i \in 1..Len(files), NEW n \in 1..Len(files[i].mem), Durable(i, n)
      PROVE  Keeps(files[i], files'[i], n)
  <2>1. n \in 0..Len(files[i].mem) /\ files[i] \in WalFile /\ \A k \in 1..n : Agrees(files[i], k)
      BY <1>1, <1>3 DEF Durable
  <2>2. LinkOnly(files[i], files'[i])
      BY <1>3
  <2>3. QED
      BY <2>1, <2>2, KeepsAll
<1>4. ckpt' \in Nat /\ ckpt <= ckpt'
    BY <1>1
<1>5. QED
    BY <1>2, <1>3, <1>4, LogKeptSame

LEMMA LinkOnlyWhole ==
    ASSUME NEW f, NEW g, LinkOnly(f, g)
    PROVE  (Whole(f) => Whole(g)) /\ (Honest(f) => Honest(g))
BY DEF LinkOnly, Whole, Honest, Agrees, OnDevice

LEMMA FenceAck ==
    ASSUME TypeInv, AckInv, Fence
    PROVE  AckInv'
<1>1. phase' \in {"failed", "fatal"} /\ log' = log /\ ckpt' = ckpt /\ (files' = Linked(files) \/ files' = files)
    BY DEF Fence, history
<1>2. WriterInv' /\ \A i, n : InUse(i, n)'
    BY <1>1, StoppedWriter
<1>3. /\ files' \in Seq(WalFile) /\ Len(files') = Len(files)
      /\ \A i \in 1..Len(files) : LinkOnly(files[i], files'[i])
  <2>1. files \in Seq(WalFile) /\ \A i \in 1..Len(files) : LinkOnly(files[i], files[i])
      BY ActiveIs, LinkOnlySame DEF TypeInv
  <2>2. QED
      BY <1>1, <2>1, LinkedDoes
<1>4. LogKept'
    BY <1>1, <1>2, <1>3, LinkedKept DEF AckInv
<1>5. QED
    BY <1>2, <1>4 DEF AckInv

\* A rotation leaves the files before the new one alone, and the log has no operation of a number from
\* its name on.
LEMMA RotateAck ==
    ASSUME TypeInv, PhaseInv, NumbersInv, AckInv, Rotate
    PROVE  AckInv'
<1>1. /\ phase = "idle" /\ phase' \in {"rotating", "emptying"} /\ log' = log /\ ckpt' = ckpt
    BY DEF Rotate, history
<1>2. LogKept /\ WriterInv /\ phase \in Grouping /\ nextSeq = Len(log) + 1
    BY <1>1 DEF AckInv, Grouping, NumbersInv
<1>3. /\ files # << >> /\ ActiveFile \in WalFile /\ Whole(ActiveFile)
    BY <1>1, <1>2, SyncedAgree
<1>4. /\ files \in Seq(WalFile) /\ Len(files) \in Nat /\ ActiveFile = files[Len(files)] /\ ckpt \in Nat
      /\ Len(log) \in Nat /\ nextSeq \in Nat /\ nextGroup \in Nat
      /\ \A i \in 1..Len(files) : files[i] \in WalFile
    BY ActiveIs, LenProperties DEF TypeInv, ActiveFile, Active
<1>5. PICK cells \in {<<CheckpointFrame(nextGroup, TRUE)>>, << >>} :
        /\ files' \in Seq(WalFile) /\ Len(files') = Len(files) + 1
        /\ files'[Len(files) + 1] = NewFile(nextSeq, cells)
        /\ \A i \in 1..Len(files) : files'[i] = files[i]
        /\ \/ phase' = "rotating" /\ cells = <<CheckpointFrame(nextGroup, TRUE)>>
           \/ phase' = "emptying" /\ cells = << >>
    BY RotateDoes
<1>6. NewFile(nextSeq, cells).first = nextSeq
    BY DEF NewFile
<1>7. ASSUME NEW s \in ckpt' + 1..Len(log')
      PROVE  \E i \in 1..Len(files') : \E n \in 1..Len(files'[i].mem) : \E c \in 1..n : Kept(s, i, n, c)'
  <2>1. s \in ckpt + 1..Len(log) /\ log'[s] = log[s] /\ s < nextSeq
      BY <1>1, <1>2, <1>4
  <2>2. PICK i \in 1..Len(files) : \E n \in 1..Len(files[i].mem) : \E c \in 1..n : Kept(s, i, n, c)
      BY <1>2, <2>1 DEF LogKept
  <2>3. PICK n \in 1..Len(files[i].mem) : \E c \in 1..n : Kept(s, i, n, c)
      BY <2>2
  <2>4. PICK c \in 1..n : Kept(s, i, n, c)
      BY <2>3
  <2>5. Durable(i, n) /\ \A k \in i + 1..Len(files) : s < files[k].first
      BY <2>4 DEF Kept
  <2>6. n \in 0..Len(files[i].mem) /\ (\A k \in 1..n : Agrees(files[i], k)) /\ files[i] \in WalFile
      BY <1>4, <2>5 DEF Durable
  <2>7. Keeps(files[i], files'[i], n)
      BY <1>5, <2>6, KeepsAll
  <2>8. InUse(i, n)'
    <3>1. Active' = Len(files) + 1 /\ i # Len(files) + 1
        BY <1>4, <1>5 DEF Active
    <3>2. QED
        BY <1>1, <3>1 DEF InUse, Grouping
  <2>9. \A k \in i + 1..Len(files') : s < files'[k].first
    <3>1. \A k \in i + 1..Len(files') : k \in i + 1..Len(files) \/ k = Len(files) + 1
        BY <1>4, <1>5
    <3>2. \A k \in i + 1..Len(files) : k \in 1..Len(files)
        BY <1>4, <2>2
    <3>3. QED
        BY <1>5, <1>6, <2>1, <2>5, <3>1, <3>2
  <2>10. n \in Nat /\ n # 0
      BY <1>4, <2>3, FileFields
  <2>11. log'[s] = log[s]
      BY <2>1
  <2>12. Kept(s, i, n, c)'
      BY <2>4, <2>7, <2>8, <2>9, <2>10, <2>11, StaysKept
  <2>13. i \in 1..Len(files') /\ files'[i] = files[i]
      BY <1>4, <1>5
  <2>14. QED
      BY <2>3, <2>4, <2>12, <2>13
<1>8. LogKept'
    BY <1>7 DEF LogKept
<1>9. WriterInv'
  <2>1. \A i \in 1..Len(files') - 1 : Whole(files'[i])
    <3>1. \A i \in 1..Len(files') - 1 : i \in 1..Len(files) /\ (i = Len(files) \/ i \in 1..Len(files) - 1)
        BY <1>4, <1>5
    <3>2. \A i \in 1..Len(files) - 1 : Whole(files[i])
        BY <1>2 DEF WriterInv
    <3>3. QED
        BY <1>3, <1>4, <1>5, <3>1, <3>2
  <2>2. CASE phase' = "emptying"
      BY <2>1, <2>2 DEF WriterInv, Grouping, Rotating
  <2>3. CASE phase' = "rotating"
    <3>1. cells = <<CheckpointFrame(nextGroup, TRUE)>>
        BY <1>5, <2>3
    <3>2. Len(cells) = 1 /\ IsFrame(cells[1]) /\ cells \in Seq(Cell)
        BY <1>4, <3>1, CheckpointFrameIs
    <3> DEFINE g == NewFile(nextSeq, cells)
    <3>3. g.mem = cells /\ g.dirty = 1..Len(cells)
      <4>1. g.mem = cells /\ g.dirty = DOMAIN cells
          BY DEF NewFile
      <4>2. DOMAIN cells = 1..Len(cells)
          BY <3>2, LenProperties
      <4>3. QED
          BY <4>1, <4>2
    <3>4. IsFrame(g.mem[1]) /\ 1 \in g.dirty
      <4> HIDE DEF g
      <4>1. QED
          BY <3>2, <3>3
    <3> HIDE DEF g
    <3>5. files'[Active'] = g
        BY <1>5 DEF Active, g
    <3>6. QED
        BY <2>1, <2>3, <3>4, <3>5 DEF WriterInv, Grouping, Rotating
  <2>4. QED
      BY <1>1, <2>2, <2>3
<1>10. QED
    BY <1>8, <1>9 DEF AckInv

LEMMA RotatingKept ==
    ASSUME TypeInv, PhaseInv, AckInv, phase \in Rotating, log' = log, ckpt' = ckpt,
           NEW g, ActiveBecomes(g), g.first = ActiveFile.first, phase' \notin Grouping
    PROVE  LogKept'
<1>1. files # << >> /\ Active = Len(files) /\ synced \in Nat
    BY DEF PhaseInv, Active, TypeInv
<1>2. \A n : ~Durable(Len(files), n)
    BY <1>1 DEF Durable, InUse
<1>3. phase' \in Rotating => phase \in Rotating
    OBVIOUS
<1>4. \A i \in 1..Len(files) : \A n \in 1..Len(files[i].mem) : Durable(i, n) => InUse(i, n)'
    BY <1>1, <1>3, InUseStays DEF Durable, ActiveBecomes
<1>5. QED
    BY <1>1, <1>2, <1>4, ActiveKept DEF AckInv

LEMMA RotateSyncAck ==
    ASSUME TypeInv, PhaseInv, AckInv, RotateSync
    PROVE  AckInv'
<1>1. /\ phase = "rotating" /\ phase' \in {"linking", "emptying"} /\ log' = log /\ ckpt' = ckpt /\ phase \in Rotating
      /\ phase' \notin Grouping
    BY DEF RotateSync, history, Rotating, Grouping
<1>2. /\ files # << >> /\ ActiveFile \in WalFile /\ Len(ActiveFile.mem) = 1 /\ ActiveFile = files[Len(files)]
      /\ Active = Len(files) /\ Len(files) \in Nat
    BY <1>1, ActiveIs DEF PhaseInv, TypeInv, ActiveFile, Active
<1>3. \E g \in {Synced(ActiveFile)} \cup FailedSync(ActiveFile) :
        /\ ActiveBecomes(g)
        /\ phase' = "linking" => g = Synced(ActiveFile)
  <2>1. CASE phase' = "linking"
      BY <2>1, SyncDoes
  <2>2. CASE phase' = "emptying"
      BY <2>2, SyncDoes
  <2>3. QED
      BY <1>1, <2>1, <2>2
<1>4. PICK g \in {Synced(ActiveFile)} \cup FailedSync(ActiveFile) :
        /\ ActiveBecomes(g)
        /\ phase' = "linking" => g = Synced(ActiveFile)
    BY <1>3
<1>5. g.first = ActiveFile.first
    BY <1>2, SyncedIs, FailedSyncIs
<1>6. LogKept'
    BY <1>1, <1>4, <1>5, RotatingKept
<1>7. WriterInv'
  <2>1. /\ \A i \in 1..Len(files) - 1 : Whole(files[i])
        /\ IsFrame(ActiveFile.mem[1]) /\ 1 \in ActiveFile.dirty
      BY <1>1 DEF AckInv, WriterInv, ActiveFile
  <2>2. \A i \in 1..Len(files') - 1 : Whole(files'[i])
      BY <1>4, <2>1 DEF ActiveBecomes
  <2>3. phase' = "linking" => IsFrame(g.mem[1]) /\ Agrees(g, 1)
    <3>1. SUFFICES ASSUME phase' = "linking" PROVE IsFrame(g.mem[1]) /\ Agrees(g, 1)
        OBVIOUS
    <3>2. /\ g.mem = ActiveFile.mem /\ g.dirty = {} /\ Len(g.dev) = Len(ActiveFile.mem)
          /\ \A k \in 1..Len(ActiveFile.mem) :
               g.dev[k] = IF k \in ActiveFile.dirty THEN ActiveFile.mem[k] ELSE OnDevice(ActiveFile, k)
        BY <1>2, <1>4, <3>1, SyncedIs
    <3>3. 1 \in 1..Len(ActiveFile.mem)
        BY <1>2
    <3>4. QED
        BY <1>2, <2>1, <3>2, <3>3 DEF Agrees
  <2>4. files'[Active'] = g
      BY <1>4 DEF ActiveBecomes, Active
  <2>5. QED
      BY <1>1, <2>2, <2>3, <2>4 DEF WriterInv, Grouping, Rotating
<1>8. QED
    BY <1>6, <1>7 DEF AckInv

LEMMA RotateEmptyAck ==
    ASSUME TypeInv, PhaseInv, AckInv, RotateEmpty
    PROVE  AckInv'
<1>1. /\ phase \in Rotating /\ phase' \in {"failed", "fencing"} /\ log' = log /\ ckpt' = ckpt /\ phase' \notin Grouping
    BY DEF RotateEmpty, history, Rotating, Grouping
<1>2. /\ files # << >> /\ ActiveFile \in WalFile
    BY <1>1, ActiveIs DEF PhaseInv, TypeInv, ActiveFile
<1>3. PICK g \in {Synced(SetLen(ActiveFile, 0)), ActiveFile} \cup FailedSync(SetLen(ActiveFile, 0)) : ActiveBecomes(g)
    BY TruncateDoes
<1>4. g.first = ActiveFile.first
  <2>1. 0 \in 0..Len(ActiveFile.mem)
      BY <1>2, FileFields
  <2>2. SetLen(ActiveFile, 0) \in WalFile /\ SetLen(ActiveFile, 0).first = ActiveFile.first
      BY <1>2, <2>1, SetLenIs
  <2> DEFINE f == SetLen(ActiveFile, 0)
  <2> HIDE DEF f
  <2>3. f \in WalFile /\ f.first = ActiveFile.first /\ (g = Synced(f) \/ g = ActiveFile \/ g \in FailedSync(f))
      BY <1>3, <2>2 DEF f
  <2>4. QED
      BY <2>3, SyncedIs, FailedSyncIs
<1>5. LogKept'
    BY <1>1, <1>3, <1>4, RotatingKept
<1>6. QED
    BY <1>1, <1>5, StoppedWriter DEF AckInv

\* The new file is in use once its entry is durable.
LEMMA RotateLinkAck ==
    ASSUME TypeInv, PhaseInv, AckInv, RotateLink
    PROVE  AckInv'
<1>1. /\ phase = "linking" /\ log' = log /\ ckpt' = ckpt /\ phase \in Rotating
      /\ \/ phase' = "idle" /\ files' = Linked(files) /\ synced' = 1
         \/ phase' = "failed" /\ files' = files
    BY DEF RotateLink, history, Rotating
<1>2. /\ files # << >> /\ files \in Seq(WalFile) /\ Active = Len(files) /\ Len(files) \in 1..Len(files) /\ Len(files) \in Nat
    BY <1>1, ActiveIs DEF PhaseInv, TypeInv, Active
<1>3. /\ files' \in Seq(WalFile) /\ Len(files') = Len(files) /\ Active' = Len(files)
      /\ \A i \in 1..Len(files) : LinkOnly(files[i], files'[i])
      /\ phase' = "idle" => \A i \in 1..Len(files) : files'[i].linked
  <2>1. \A i \in 1..Len(files) : LinkOnly(files[i], files[i])
      BY ActiveIs, LinkOnlySame DEF TypeInv
  <2>2. QED
      BY <1>1, <1>2, <2>1, LinkedDoes DEF Active
<1>4. \A i \in 1..Len(files) : \A n \in 1..Len(files[i].mem) : Durable(i, n) => InUse(i, n)'
  <2>1. \A n : ~Durable(Len(files), n)
      BY <1>1, <1>2 DEF Durable, InUse
  <2>2. \A i, n : i # Len(files) => InUse(i, n)'
      BY <1>3 DEF InUse
  <2>3. QED
      BY <2>1, <2>2
<1>5. LogKept'
    BY <1>1, <1>3, <1>4, LinkedKept DEF AckInv
<1>6. WriterInv'
  <2>1. CASE phase' = "failed"
      BY <2>1, StoppedWriter
  <2>2. CASE phase' = "idle"
    <3>1. /\ \A i \in 1..Len(files) - 1 : Whole(files[i])
          /\ IsFrame(files[Len(files)].mem[1]) /\ Agrees(files[Len(files)], 1)
        BY <1>1, <1>2 DEF AckInv, WriterInv
    <3>2. \A i \in 1..Len(files') - 1 : Whole(files'[i])
      <4>1. \A i \in 1..Len(files) - 1 : i \in 1..Len(files)
          BY <1>2
      <4>2. QED
          BY <1>3, <3>1, <4>1, LinkOnlyWhole
    <3>3. IsFrame(files'[Len(files)].mem[1]) /\ Agrees(files'[Len(files)], 1) /\ files'[Len(files)].linked
        BY <1>2, <1>3, <2>2, <3>1 DEF LinkOnly, Agrees
    <3>4. synced' = 1 /\ \A c \in 1..1 : c = 1
        BY <1>1, <2>2
    <3>5. QED
        BY <1>3, <2>2, <3>2, <3>3, <3>4 DEF WriterInv, Grouping, Rotating
  <2>3. QED
      BY <1>1, <2>1, <2>2
<1>7. QED
    BY <1>5, <1>6 DEF AckInv

\* A file goes only if the log keeps no operation above the checkpoint in it.
LEMMA RemoveAck ==
    ASSUME TypeInv, PhaseInv, AckInv, RemoveCheckpointed
    PROVE  AckInv'
<1>1. /\ phase = "idle" /\ phase' = phase /\ log' = log /\ ckpt' = ckpt /\ synced' = synced
    BY DEF RemoveCheckpointed, history, writer
<1>2. LogKept /\ WriterInv /\ phase \in Grouping /\ phase \notin Rotating
    BY <1>1 DEF AckInv, Grouping, Rotating
<1>3. files # << >> /\ synced \in 0..Len(ActiveFile.mem)
    BY <1>2, SyncedAgree
<1>4. /\ files \in Seq(WalFile) /\ Len(files) \in Nat /\ Active = Len(files) /\ ckpt \in Nat /\ Len(log) \in Nat
      /\ \A i \in 1..Len(files) : files[i] \in WalFile
    BY ActiveIs, LenProperties DEF TypeInv, Active
<1>5. PICK m \in 1..Len(files) - 1 :
        /\ files' \in Seq(WalFile) /\ Len(files') = Len(files) - m
        /\ \A i \in 1..Len(files) - m : LinkOnly(files[m + i], files'[i])
        /\ files[m + 1].first <= ckpt + 1
    BY RemoveDoes
<1>6. Active' = Len(files) - m /\ m \in Nat /\ m + 1 \in 1..Len(files)
    BY <1>4, <1>5 DEF Active
<1>7. files[m + 1].first \in Nat
    BY <1>4, <1>6, FileFields
<1>8. ASSUME NEW s \in ckpt' + 1..Len(log')
      PROVE  \E i \in 1..Len(files') : \E n \in 1..Len(files'[i].mem) : \E c \in 1..n : Kept(s, i, n, c)'
  <2>1. s \in ckpt + 1..Len(log) /\ log'[s] = log[s]
      BY <1>1, <1>4
  <2>2. PICK i \in 1..Len(files) : \E n \in 1..Len(files[i].mem) : \E c \in 1..n : Kept(s, i, n, c)
      BY <1>2, <2>1 DEF LogKept
  <2>3. PICK n \in 1..Len(files[i].mem) : \E c \in 1..n : Kept(s, i, n, c)
      BY <2>2
  <2>4. PICK c \in 1..n : Kept(s, i, n, c)
      BY <2>3
  <2>5. Durable(i, n) /\ \A k \in i + 1..Len(files) : s < files[k].first
      BY <2>4 DEF Kept
  <2>6. i > m
    <3>1. SUFFICES ASSUME i <= m PROVE FALSE
        BY <1>6, <2>2
    <3>2. m + 1 \in i + 1..Len(files)
        BY <1>4, <1>6, <2>2, <3>1
    <3>3. s < files[m + 1].first
        BY <2>5, <3>2
    <3>4. QED
        BY <1>4, <1>5, <1>7, <2>1, <3>3
  <2>7. PICK j : j = i - m
      OBVIOUS
  <2>8. j \in 1..Len(files) - m /\ m + j = i /\ j \in 1..Len(files')
      BY <1>4, <1>5, <1>6, <2>2, <2>6, <2>7
  <2>9. n \in 0..Len(files[i].mem) /\ (\A k \in 1..n : Agrees(files[i], k)) /\ files[i] \in WalFile /\ n \in Nat /\ n # 0
    <3>1. files[i] \in WalFile
        BY <1>4, <2>2
    <3>2. Len(files[i].mem) \in Nat
        BY <3>1, FileFields
    <3>3. \A k \in 1..n : Agrees(files[i], k)
        BY <2>5 DEF Durable
    <3>4. n \in 0..Len(files[i].mem) /\ n \in Nat /\ n # 0
        BY <2>3, <3>2
    <3>5. QED
        BY <3>1, <3>3, <3>4
  <2>10. LinkOnly(files[i], files'[j])
      BY <1>5, <2>8
  <2>11. Keeps(files[i], files'[j], n)
      BY <2>9, <2>10, KeepsAll
  <2>12. InUse(j, n)'
    <3>1. j = Len(files) - m => i = Len(files)
        BY <1>4, <1>6, <2>2, <2>7
    <3>2. QED
        BY <1>1, <1>2, <1>4, <1>6, <2>5, <3>1 DEF InUse, Durable
  <2>13. \A k \in j + 1..Len(files') : s < files'[k].first
    <3>1. ASSUME NEW k \in j + 1..Len(files') PROVE m + k \in i + 1..Len(files) /\ k \in 1..Len(files) - m
      <4>1. j \in Nat /\ j >= 1 /\ m + j = i /\ k \in j + 1..Len(files) - m
          BY <1>4, <1>5, <1>6, <2>8, <3>1
      <4>2. QED
          BY <1>4, <1>6, <4>1
    <3>2. QED
        BY <1>5, <2>5, <3>1 DEF LinkOnly
  <2>14. log'[s] = log[s]
      BY <2>1
  <2>15. Kept(s, j, n, c)'
      BY <2>4, <2>9, <2>11, <2>12, <2>13, <2>14, StaysKept
  <2>16. n \in 1..Len(files'[j].mem)
      BY <2>3, <2>10 DEF LinkOnly
  <2>17. QED
      BY <2>4, <2>8, <2>15, <2>16
<1>9. LogKept'
    BY <1>8 DEF LogKept
<1>10. WriterInv'
  <2>1. \A i \in 1..Len(files) - 1 : Whole(files[i])
      BY <1>2 DEF WriterInv
  <2>2. \A i \in 1..Len(files') - 1 : m + i \in 1..Len(files) - 1 /\ i \in 1..Len(files) - m
      BY <1>4, <1>5, <1>6
  <2>3. \A i \in 1..Len(files') - 1 : Whole(files'[i])
      BY <1>5, <2>1, <2>2, LinkOnlyWhole
  <2>4. files[Len(files)].linked /\ \A c \in 1..synced : Agrees(files[Len(files)], c) /\ IsFrame(files[Len(files)].mem[c])
      BY <1>2, <1>4 DEF WriterInv
  <2>5. LinkOnly(files[Len(files)], files'[Len(files) - m])
    <3>1. Len(files) - m \in 1..Len(files) - m /\ m + (Len(files) - m) = Len(files)
        BY <1>4, <1>5, <1>6
    <3>2. QED
        BY <1>5, <3>1
  <2>6. /\ files'[Active'].linked
        /\ \A c \in 1..synced' : Agrees(files'[Active'], c) /\ IsFrame(files'[Active'].mem[c])
      BY <1>1, <1>6, <2>4, <2>5 DEF LinkOnly, Agrees
  <2>7. QED
      BY <1>1, <2>3, <2>6 DEF WriterInv, Grouping, Rotating
<1>11. QED
    BY <1>9, <1>10 DEF AckInv

LEMMA SameFilesAck ==
    ASSUME TypeInv, AckInv, AdvanceCheckpoint \/ UNCHANGED vars
    PROVE  AckInv'
<1>1. /\ phase' = phase /\ log' = log /\ files' = files /\ synced' = synced /\ fence' = fence
      /\ ckpt' \in Nat /\ ckpt <= ckpt' /\ ckpt \in Nat /\ files \in Seq(WalFile)
  <2>1. ckpt \in Nat /\ Len(log) \in Nat /\ files \in Seq(WalFile)
      BY LenProperties DEF TypeInv
  <2>2. CASE AdvanceCheckpoint
    <3>1. PICK k \in ckpt + 1..Len(log) : ckpt' = k
        BY <2>2 DEF AdvanceCheckpoint
    <3>2. QED
        BY <2>1, <2>2, <3>1 DEF AdvanceCheckpoint, disk, writer, history
  <2>3. CASE UNCHANGED vars
      BY <2>1, <2>3 DEF vars, disk, writer, history
  <2>4. QED
      BY <2>2, <2>3
<1>2. WriterInv'
    BY <1>1 DEF AckInv, WriterInv, Active
<1>3. \A i \in 1..Len(files) : \A n \in 1..Len(files[i].mem) :
        Durable(i, n) => Keeps(files[i], files'[i], n) /\ InUse(i, n)'
  <2>1. \A i, n : InUse(i, n)' <=> InUse(i, n)
      BY <1>1 DEF InUse, Active
  <2>2. ASSUME NEW i \in 1..Len(files), NEW n \in 1..Len(files[i].mem), Durable(i, n)
        PROVE  Keeps(files[i], files'[i], n)
    <3>1. files[i] \in WalFile /\ n \in 0..Len(files[i].mem) /\ \A k \in 1..n : Agrees(files[i], k)
        BY <1>1, <2>2, ActiveIs DEF Durable
    <3>2. QED
        BY <1>1, <3>1, KeepsAll
  <2>3. QED
      BY <2>1, <2>2 DEF Durable
<1>4. LogKept'
    BY <1>1, <1>3, LogKeptSame DEF AckInv
<1>5. QED
    BY <1>2, <1>4 DEF AckInv

\* A process dies only where the page cache shows nothing the device lacks, or before a marker.
LEMMA KillAck ==
    ASSUME TypeInv, FenceInv, AckInv, Kill
    PROVE  AckInv'
<1>1. /\ phase \notin {"down", "corrupt"} /\ phase' = "down" /\ files' = files /\ log' = log /\ ckpt' = ckpt
      /\ fence' = fence /\ (CacheLies => fence.visible)
    BY DEF Kill, disk, history
<1>2. /\ files \in Seq(WalFile) /\ ckpt \in Nat /\ DOMAIN files = 1..Len(files)
      /\ \A i \in 1..Len(files) : files[i] \in WalFile
    BY ActiveIs DEF TypeInv
<1>3. ASSUME ~(fence.visible /\ fence.thisBoot) PROVE \A i \in 1..Len(files) : Honest(files[i])
  <2>1. CASE ~CacheLies
    <3>1. \A i \in 1..Len(files) : DOMAIN files[i].mem = 1..Len(files[i].mem)
        BY <1>2, FileFields
    <3>2. QED
        BY <1>2, <2>1, <3>1 DEF CacheLies, Honest
  <2>2. CASE CacheLies
    <3>1. phase \notin {"failed", "fatal"} /\ phase \notin Grouping \cup Rotating \cup {"fencing"}
        BY <1>1, <1>3, <2>2 DEF FenceInv
    <3>2. phase \in {"barrier", "repaired"}
        BY <1>1, <3>1 DEF TypeInv, Stopped
    <3>3. QED
        BY <3>2, WholeIsHonest DEF AckInv, WriterInv
  <2>3. QED
      BY <2>1, <2>2
<1>4. WriterInv' /\ \A i, n : InUse(i, n)'
    BY <1>1, <1>3, DownWriter
<1>5. \A i \in 1..Len(files) : LinkOnly(files[i], files[i])
    BY <1>2, LinkOnlySame
<1>6. LogKept'
    BY <1>1, <1>2, <1>4, <1>5, LinkedKept DEF AckInv
<1>7. QED
    BY <1>4, <1>6 DEF AckInv

\* Whatever a crash leaves of the files has what was durable.
LEMMA RebootAck ==
    ASSUME TypeInv, AckInv, Reboot
    PROVE  AckInv'
<1>1. phase' = "down" /\ log' = log /\ ckpt' = ckpt
    BY DEF Reboot, history
<1>2. files' \in Seq(WalFile)
    BY RebootIs DEF TypeInv
<1>3. PICK place : Survives(place)
    BY RebootIs DEF TypeInv
<1>4. /\ files \in Seq(WalFile) /\ gone \in Seq(WalFile) /\ Len(files) \in Nat /\ Len(gone) \in Nat
      /\ ckpt \in Nat /\ Len(log) \in Nat /\ \A i \in 1..Len(files) : files[i] \in WalFile
    BY ActiveIs, LenProperties DEF TypeInv
<1> DEFINE all == gone \o files
<1>5. /\ all \in Seq(WalFile) /\ Len(all) = Len(gone) + Len(files)
      /\ \A k \in 1..Len(gone) + Len(files) : all[k] = IF k <= Len(gone) THEN gone[k] ELSE files[k - Len(gone)]
    BY <1>4, ConcatProperties
<1>6. /\ place \in [1..Len(files') -> 1..Len(all)]
      /\ \A k \in 1..Len(files') : files'[k] \in AfterCrash(all[place[k]])
      /\ \A k, l \in 1..Len(files') : k < l => place[k] < place[l]
      /\ \A i \in 1..Len(files) : files[i].linked => \E k \in 1..Len(files') : place[k] = Len(gone) + i
    BY <1>3 DEF Survives
<1> HIDE DEF all
<1>7. \A i \in 1..Len(files) : all[Len(gone) + i] = files[i] /\ Len(gone) + i \in 1..Len(all)
  <2>1. ASSUME NEW i \in 1..Len(files) PROVE all[Len(gone) + i] = files[i] /\ Len(gone) + i \in 1..Len(all)
    <3>1. Len(gone) + i \in 1..Len(gone) + Len(files) /\ ~(Len(gone) + i <= Len(gone)) /\ (Len(gone) + i) - Len(gone) = i
        BY <1>4, <2>1
    <3>2. QED
        BY <1>5, <3>1
  <2>2. QED
      BY <2>1
<1>8. \A k \in 1..Len(files') : all[place[k]] \in WalFile
  <2>1. \A k \in 1..Len(files') : place[k] \in 1..Len(all)
      BY <1>6
  <2>2. QED
      BY <1>5, <2>1, ElementOfSeq
<1>9. Len(files') \in Nat
    BY <1>2, LenProperties
<1>10. \A i \in 1..Len(files') : Honest(files'[i])
  <2>1. ASSUME NEW i \in 1..Len(files') PROVE Honest(files'[i])
    <3>1. files'[i] \in WalFile /\ files'[i].mem = files'[i].dev
        BY <1>6, <1>8, <2>1, AfterCrashIs
    <3>2. QED
        BY <3>1 DEF Honest, OnDevice
  <2>2. QED
      BY <2>1
<1>11. WriterInv' /\ \A i, n : InUse(i, n)'
    BY <1>1, <1>10, DownWriter
<1>12. ASSUME NEW s \in ckpt' + 1..Len(log')
       PROVE  \E i \in 1..Len(files') : \E n \in 1..Len(files'[i].mem) : \E c \in 1..n : Kept(s, i, n, c)'
  <2>1. s \in ckpt + 1..Len(log) /\ log'[s] = log[s]
      BY <1>1, <1>4
  <2>2. PICK i \in 1..Len(files) : \E n \in 1..Len(files[i].mem) : \E c \in 1..n : Kept(s, i, n, c)
      BY <2>1 DEF AckInv, LogKept
  <2>3. PICK n \in 1..Len(files[i].mem) : \E c \in 1..n : Kept(s, i, n, c)
      BY <2>2
  <2>4. PICK c \in 1..n : Kept(s, i, n, c)
      BY <2>3
  <2>5. Durable(i, n) /\ \A k \in i + 1..Len(files) : s < files[k].first
      BY <2>4 DEF Kept
  <2>6. n \in 0..Len(files[i].mem) /\ (\A k \in 1..n : Agrees(files[i], k)) /\ files[i] \in WalFile /\ n \in Nat /\ n # 0
        /\ files[i].linked
      BY <1>4, <2>2, <2>3, <2>5, FileFields DEF Durable
  <2>7. PICK j \in 1..Len(files') : place[j] = Len(gone) + i
      BY <1>6, <2>2, <2>6
  <2>8. files'[j] \in AfterCrash(files[i])
      BY <1>6, <1>7, <2>2, <2>7
  <2>9. Keeps(files[i], files'[j], n)
      BY <2>6, <2>8, KeepsAll
  <2>10. ASSUME NEW k \in j + 1..Len(files') PROVE s < files'[k].first
    <3>1. k \in 1..Len(files') /\ j < k
        BY <1>9, <2>7, <2>10
    <3>2. place[j] < place[k] /\ place[k] \in 1..Len(all)
        BY <1>6, <2>7, <3>1
    <3>3. PICK x : x = place[k] - Len(gone)
        OBVIOUS
    <3>4. x \in i + 1..Len(files) /\ place[k] = Len(gone) + x
      <4>1. place[k] \in 1..Len(gone) + Len(files) /\ Len(gone) + i < place[k] /\ i \in Nat
          BY <1>5, <2>2, <2>7, <3>2
      <4>2. PICK y : y = place[k]
          OBVIOUS
      <4>3. y \in 1..Len(gone) + Len(files) /\ Len(gone) + i < y /\ x = y - Len(gone)
          BY <3>3, <4>1, <4>2
      <4>4. x \in i + 1..Len(files) /\ y = Len(gone) + x
          BY <1>4, <4>1, <4>3
      <4>5. QED
          BY <4>2, <4>4
    <3>5. x \in 1..Len(files)
        BY <1>4, <2>2, <3>4
    <3>6. all[place[k]] = files[x]
        BY <1>7, <3>4, <3>5
    <3>7. files'[k] \in AfterCrash(files[x]) /\ files[x] \in WalFile
        BY <1>4, <1>6, <3>1, <3>5, <3>6
    <3>8. files'[k].first = files[x].first
        BY <3>7, AfterCrashIs
    <3>9. QED
        BY <2>5, <3>4, <3>8
  <2>11. log'[s] = log[s]
      BY <2>1
  <2>12. InUse(j, n)'
      BY <1>11
  <2>13. Kept(s, j, n, c)'
      BY <2>4, <2>6, <2>9, <2>10, <2>11, <2>12, StaysKept
  <2>14. n \in 1..Len(files'[j].mem)
    <3>1. files'[j] \in WalFile
        BY <1>2, ElementOfSeq
    <3>2. Len(files'[j].mem) \in Nat
        BY <3>1, FileFields
    <3>3. QED
        BY <2>6, <2>9, <3>2 DEF Keeps
  <2>15. QED
      BY <2>4, <2>7, <2>13, <2>14
<1>13. LogKept'
    BY <1>12 DEF LogKept
<1>14. QED
    BY <1>11, <1>13 DEF AckInv

\* The barrier: it runs only where every clean cell is on the device, and makes every cell so.
LEMMA BarrierAck ==
    ASSUME TypeInv, AckInv, ~BarrierFaults, Barrier
    PROVE  AckInv'
<1>1. /\ phase = "down" /\ phase' \in {"barrier", "down"} /\ log' = log /\ ckpt' = ckpt
      /\ ~(fence.visible /\ fence.thisBoot)
    BY DEF Barrier, history
<1>2. /\ files \in Seq(WalFile) /\ ckpt \in Nat /\ \A i \in 1..Len(files) : files[i] \in WalFile
    BY ActiveIs DEF TypeInv
<1>3. /\ files' \in Seq(WalFile) /\ Len(files') = Len(files)
      /\ \A i \in 1..Len(files) : LinkOnly(Synced(files[i]), files'[i])
    BY BarrierDoes
<1>4. \A i \in 1..Len(files) : files'[i].first = files[i].first
    BY BarrierDoes
<1>5. ASSUME NEW i \in 1..Len(files) PROVE Whole(files'[i])
  <2>1. Honest(files[i])
      BY <1>1 DEF AckInv, WriterInv
  <2>2. Whole(Synced(files[i]))
      BY <1>2, <2>1, HonestSynced
  <2>3. QED
      BY <1>3, <2>2, LinkOnlyWhole
<1>6. WriterInv'
  <2>1. CASE phase' = "barrier"
      BY <1>3, <1>5, <2>1 DEF WriterInv, Grouping, Rotating
  <2>2. CASE phase' = "down"
    <3>1. \A i \in 1..Len(files') : Honest(files'[i])
        BY <1>3, <1>5, WholeIsHonest
    <3>2. QED
        BY <2>2, <3>1, DownWriter
  <2>3. QED
      BY <1>1, <2>1, <2>2
<1>7. \A i, n : InUse(i, n)'
    BY <1>1 DEF InUse, Grouping, Rotating
<1>8. ASSUME NEW i \in 1..Len(files), NEW n \in 1..Len(files[i].mem), Durable(i, n)
      PROVE  Keeps(files[i], files'[i], n)
  <2>1. files[i] \in WalFile /\ (\A k \in 1..n : Agrees(files[i], k)) /\ Len(files[i].mem) \in Nat
      BY <1>2, <1>8, FileFields DEF Durable
  <2>2. n \in Nat /\ n \in 0..Len(files[i].mem)
      BY <2>1
  <2>3. Keeps(files[i], Synced(files[i]), n)
      BY <2>1, <2>2, KeepsAll
  <2>4. Synced(files[i]) \in WalFile /\ Synced(files[i]).mem = files[i].mem
      BY <2>1, SyncedIs
  <2>5. \A k \in 1..n : Agrees(Synced(files[i]), k)
      BY <2>3 DEF Keeps
  <2>6. Keeps(Synced(files[i]), files'[i], n)
      BY <1>3, <2>2, <2>4, <2>5, KeepsAll
  <2>7. QED
      BY <2>2, <2>3, <2>6, KeepsThrough
<1>9. LogKept'
    BY <1>1, <1>2, <1>3, <1>4, <1>7, <1>8, LogKeptSame DEF AckInv
<1>10. QED
    BY <1>6, <1>9 DEF AckInv

\* The repair cuts no group off that is complete.
LEMMA RepairedIs ==
    ASSUME TypeInv, files # << >>
    PROVE  /\ Repaired \in WalFile /\ Repaired.first = ActiveFile.first
           /\ \A n \in 1..Len(ActiveFile.mem) : Durable(Len(files), n) => Keeps(ActiveFile, Repaired, n)
           /\ \A n \in 1..Len(ActiveFile.mem) : Durable(Len(files), n) => n \in 0..Len(Repaired.mem)
           /\ Whole(ActiveFile) => Whole(Repaired)
<1>1. ActiveFile \in WalFile /\ ActiveFile = files[Len(files)]
    BY ActiveIs DEF TypeInv, ActiveFile, Active
<1>2. ActiveFile.mem \in Seq(Cell) /\ Len(ActiveFile.mem) \in Nat
    BY <1>1, FileFields
<1>3. PICK m : m = CommittedEnd(ActiveFile.mem)
    OBVIOUS
<1>4. m \in 0..Len(ActiveFile.mem) /\ Repaired = SetLen(ActiveFile, m)
    BY <1>2, <1>3, CommittedEndIs DEF Repaired
<1>5. Repaired \in WalFile /\ Repaired.first = ActiveFile.first /\ Len(Repaired.mem) = m
    BY <1>1, <1>4, SetLenIs
<1>6. ASSUME NEW n \in 1..Len(ActiveFile.mem), Durable(Len(files), n)
      PROVE  Keeps(ActiveFile, Repaired, n) /\ n \in 0..Len(Repaired.mem)
  <2>1. (\A k \in 1..n : Agrees(ActiveFile, k) /\ IsFrame(ActiveFile.mem[k])) /\ ActiveFile.mem[n].end
      BY <1>1, <1>6 DEF Durable
  <2>2. n <= m
      BY <1>2, <1>3, <2>1, CommittedEndIs
  <2>3. n \in 0..Len(ActiveFile.mem) /\ m \in n..Len(ActiveFile.mem) /\ n \in 0..m
      BY <1>2, <1>4, <2>2
  <2>4. Keeps(ActiveFile, SetLen(ActiveFile, m), n)
      BY <1>1, <2>1, <2>3, KeepsAll
  <2>5. QED
      BY <1>4, <1>5, <2>3, <2>4
<1>7. ASSUME Whole(ActiveFile) PROVE Whole(Repaired)
  <2>1. \A k \in 1..m : Agrees(ActiveFile, k)
      BY <1>2, <1>4, <1>7 DEF Whole
  <2>2. m \in m..Len(ActiveFile.mem)
      BY <1>2, <1>4
  <2>3. Keeps(ActiveFile, SetLen(ActiveFile, m), m)
      BY <1>1, <1>4, <2>1, <2>2, KeepsAll
  <2>4. QED
      BY <1>4, <1>5, <2>3 DEF Keeps, Whole
<1>8. QED
    BY <1>5, <1>6, <1>7

\* The repair of the tail, and its sync that fails.
LEMMA RepairTailAck ==
    ASSUME TypeInv, AckInv, RepairTail
    PROVE  AckInv'
<1>1. phase = "barrier" /\ log' = log /\ ckpt' = ckpt /\ fence' = fence
    BY DEF RepairTail, history
<1>2. /\ files \in Seq(WalFile) /\ ckpt \in Nat /\ \A i \in 1..Len(files) : files[i] \in WalFile
    BY ActiveIs DEF TypeInv
<1>3. \A i \in 1..Len(files) : Whole(files[i])
    BY <1>1 DEF AckInv, WriterInv
<1>4. CASE files' = files /\ (phase' = "corrupt" \/ (phase' = "repaired" /\ files = << >>))
  <2>1. \A i, n : InUse(i, n)'
      BY <1>4 DEF InUse, Grouping, Rotating
  <2>2. \A i \in 1..Len(files) : LinkOnly(files[i], files'[i])
      BY <1>2, <1>4, LinkOnlySame
  <2>3. LogKept'
      BY <1>1, <1>2, <1>4, <2>1, <2>2, LinkedKept DEF AckInv
  <2>4. WriterInv'
      BY <1>3, <1>4 DEF WriterInv, Grouping, Rotating
  <2>5. QED
      BY <2>3, <2>4 DEF AckInv
<1>5. ASSUME files # << >>, phase' \in {"repaired", "down"},
             NEW g, ActiveBecomes(g), g \in {Synced(Repaired)} \cup FailedSync(Repaired),
             phase' = "repaired" => g = Synced(Repaired)
      PROVE  AckInv'
  <2>1. /\ Repaired \in WalFile /\ Repaired.first = ActiveFile.first
        /\ \A n \in 1..Len(ActiveFile.mem) : Durable(Len(files), n) => Keeps(ActiveFile, Repaired, n)
        /\ \A n \in 1..Len(ActiveFile.mem) : Durable(Len(files), n) => n \in 0..Len(Repaired.mem)
      BY <1>5, RepairedIs
  <2>2. ActiveFile = files[Len(files)] /\ Len(files) \in 1..Len(files) /\ Len(files) \in Nat
      BY <1>2, <1>5, ActiveIs DEF ActiveFile, Active
  <2>3. Whole(Repaired)
      BY <1>3, <1>5, <2>2, RepairedIs
  <2>4. g.first = ActiveFile.first /\ g.mem = Repaired.mem
      BY <1>5, <2>1, SyncedIs, FailedSyncIs
  <2>5. ASSUME NEW n \in 1..Len(ActiveFile.mem), Durable(Len(files), n) PROVE Keeps(ActiveFile, g, n)
    <3>1. Keeps(ActiveFile, Repaired, n) /\ n \in 0..Len(Repaired.mem) /\ n \in Nat
        BY <2>1, <2>5
    <3>2. \A k \in 1..n : Agrees(Repaired, k)
        BY <3>1 DEF Keeps
    <3>3. Keeps(Repaired, g, n)
        BY <1>5, <2>1, <3>1, <3>2, KeepsAll
    <3>4. QED
        BY <3>1, <3>3, KeepsThrough
  <2>6. \A i, n : InUse(i, n)'
      BY <1>5 DEF InUse, Grouping, Rotating
  <2>7. LogKept'
      BY <1>1, <1>5, <2>4, <2>5, <2>6, ActiveKept DEF AckInv
  <2>8. Whole(g)
    <3>1. Len(Repaired.mem) \in Nat
        BY <2>1, FileFields
    <3>2. Len(Repaired.mem) \in 0..Len(Repaired.mem) /\ \A k \in 1..Len(Repaired.mem) : Agrees(Repaired, k)
        BY <2>3, <3>1 DEF Whole
    <3>3. Keeps(Repaired, g, Len(Repaired.mem))
        BY <1>5, <2>1, <3>2, KeepsAll
    <3>4. QED
        BY <2>1, <2>4, <3>3, WholeKept
  <2>9. \A i \in 1..Len(files') : Whole(files'[i])
    <3>1. \A i \in 1..Len(files') : i \in 1..Len(files) - 1 \/ i = Len(files)
        BY <1>5, <2>2 DEF ActiveBecomes
    <3>2. \A i \in 1..Len(files) - 1 : Whole(files'[i])
        BY <1>3, <1>5, <2>2 DEF ActiveBecomes
    <3>3. Whole(files'[Len(files)])
        BY <1>5, <2>8 DEF ActiveBecomes
    <3>4. QED
        BY <3>1, <3>2, <3>3
  <2>10. WriterInv'
    <3>1. CASE phase' = "repaired"
        BY <2>9, <3>1 DEF WriterInv, Grouping, Rotating
    <3>2. CASE phase' = "down"
        BY <2>9, <3>2, DownWriter, WholeIsHonest
    <3>3. QED
        BY <1>5, <3>1, <3>2
  <2>11. QED
      BY <2>7, <2>10 DEF AckInv
<1>6. QED
    BY <1>4, <1>5, RepairDoes

-----------------------------------------------------------------------------
(* What recovery hands over to a writer is what the device has. *)

\* A file that is read without error is whole frames, and ends with the end of a group.
LEMMA ReadFileIs ==
    ASSUME TypeInv, ReplayOK, NEW start, InLog(start), NEW i \in 1..Len(ReadFiles)
    PROVE  /\ Checkpointed(files) + i \in 1..Len(files)
           /\ ReadFiles[i] = files[Checkpointed(files) + i] /\ ReadFiles[i] \in WalFile
           /\ Len(ReadFiles[i].mem) \in Nat
           /\ \A c \in 1..Len(ReadFiles[i].mem) :
                /\ start[i] + c \in 1..Len(ReadFrames) /\ ReadFrames[start[i] + c] = ReadFiles[i].mem[c]
                /\ IsFrame(ReadFiles[i].mem[c])
           /\ Len(ReadFiles[i].mem) # 0 => ReadFiles[i].mem[Len(ReadFiles[i].mem)].end
<1>1. /\ ReadFiles \in Seq(WalFile) /\ ReadFrames \in Seq(Cell) /\ Len(ReadFiles) = Len(files) - Checkpointed(files)
      /\ ReadFiles[i] = files[Checkpointed(files) + i] /\ files \in Seq(WalFile)
    BY ReadIs DEF TypeInv
<1>2. Len(files) \in Nat /\ Checkpointed(files) \in Nat /\ Len(ReadFrames) \in Nat
    BY <1>1, LenProperties, CheckpointedIs DEF TypeInv
<1>3. ReadFiles[i] \in WalFile
    BY <1>1, ElementOfSeq
<1>4. ReadFiles[i].mem \in Seq(Cell) /\ Len(ReadFiles[i].mem) \in Nat
    BY <1>3, FileFields
<1>5. /\ i \in 1..Len(ReadFiles) + 1 /\ i + 1 \in 1..Len(ReadFiles) + 1 /\ Len(ReadFiles) \in Nat
      /\ Checkpointed(files) + i \in 1..Len(files)
    BY <1>1, <1>2
<1>6. /\ start[i] \in Nat /\ start[i + 1] = start[i] + Len(ReadFiles[i].mem) /\ start[i + 1] <= Len(ReadFrames)
      /\ \A c \in 1..Len(ReadFiles[i].mem) : ReadFrames[start[i] + c] = ReadFiles[i].mem[c]
    BY <1>5 DEF InLog
<1>7. ASSUME NEW c \in 1..Len(ReadFiles[i].mem)
      PROVE  start[i] + c \in 1..Len(ReadFrames) /\ IsFrame(ReadFiles[i].mem[c])
  <2>1. start[i] + c \in 1..Len(ReadFrames)
      BY <1>2, <1>4, <1>6, <1>7
  <2>2. DOMAIN ReadFrames = 1..Len(ReadFrames)
      BY <1>1, LenProperties
  <2>3. IsFrame(ReadFrames[start[i] + c])
      BY <2>1, <2>2 DEF ReplayOK
  <2>4. QED
      BY <1>6, <1>7, <2>1, <2>3
<1>8. ASSUME Len(ReadFiles[i].mem) # 0 PROVE ReadFiles[i].mem[Len(ReadFiles[i].mem)].end
  <2>1. CASE i \in 1..Len(ReadFiles) - 1
      BY <2>1 DEF ReplayOK, FileEnds, Last
  <2>2. CASE i = Len(ReadFiles)
    <3>1. start[i] + Len(ReadFiles[i].mem) = Len(ReadFrames)
        BY <1>6, <2>2 DEF InLog
    <3>2. ReadFrames # << >> /\ Len(ReadFiles[i].mem) \in 1..Len(ReadFiles[i].mem)
        BY <1>2, <1>4, <1>6, <1>8, <3>1
    <3>3. ReadFrames[Len(ReadFrames)].end
        BY <3>2 DEF ReplayOK, Last
    <3>4. QED
        BY <1>6, <3>1, <3>2, <3>3
  <2>3. QED
      BY <1>5, <2>1, <2>2
<1>9. QED
    BY <1>1, <1>3, <1>4, <1>5, <1>6, <1>7, <1>8

\* Each cell of such a file is read.
LEMMA ReadCellIs ==
    ASSUME TypeInv, ReplayOK, NEW start, InLog(start), NEW i \in 1..Len(ReadFiles)
    PROVE  \A d \in 1..Len(ReadFiles[i].mem) :
             start[i] + d \in 1..Len(ReadFrames) /\ ReadFrames[start[i] + d] = ReadFiles[i].mem[d]
    BY ReadFileIs

\* The files after an operation's are named for later ones.
LEMMA LaterFile ==
    ASSUME TypeInv, ReplayOK, NEW start, InLog(start), NEW s \in Nat, s < ResumeSeq,
           NEW i \in 1..Len(ReadFiles), NEW c \in 1..Len(ReadFiles[i].mem),
           IsData(ReadFiles[i].mem[c]), s <= ReadFiles[i].mem[c].last,
           NEW y \in i + 1..Len(ReadFiles)
    PROVE  s < ReadFiles[y].first
<1>1. /\ ReadFiles \in Seq(WalFile) /\ ReadFrames \in Seq(Cell) /\ Len(ReadFiles) = Len(files) - Checkpointed(files)
      /\ files \in Seq(WalFile) /\ Len(ReadFiles) \in Nat /\ DOMAIN ReadFiles = 1..Len(ReadFiles)
    BY ReadIs, LenProperties DEF TypeInv
<1>2. y \in 1..Len(ReadFiles) /\ i + 1 \in 1..Len(ReadFiles) + 1 /\ i + 1 <= y /\ y \in 1..Len(ReadFiles) + 1 /\ i \in 1..Len(ReadFiles) + 1
    BY <1>1
<1>3. start[i] + Len(ReadFiles[i].mem) <= start[y] /\ start[i] \in Nat /\ start[y] \in Nat
    BY <1>2 DEF InLog
<1>4. /\ Len(ReadFiles[i].mem) \in Nat
      /\ start[i] + c \in 1..Len(ReadFrames) /\ ReadFrames[start[i] + c] = ReadFiles[i].mem[c]
      /\ IsFrame(ReadFiles[i].mem[c])
    BY ReadFileIs
<1>5. ReadFiles[y] = files[Checkpointed(files) + y] /\ ReadFiles[y] \in WalFile
    BY <1>2, ReadFileIs
<1>6. ReadFiles[y].first \in Nat /\ ReadFiles[y].mem \in Seq(Cell)
    BY <1>5, FileFields
<1>7. CASE Data(ReadFiles[y].mem) # << >>
  <2>1. PICK q \in 1..Len(ReadFiles[y].mem) : IsData(ReadFiles[y].mem[q]) /\ ReadFiles[y].mem[q] = Data(ReadFiles[y].mem)[1]
      BY <1>6, <1>7, DataFirst
  <2>2. ReadFiles[y].mem[q].first = ReadFiles[y].first
      BY <1>1, <1>2, <1>7, <2>1 DEF ReplayOK, FileStarts
  <2>3. start[y] + q \in 1..Len(ReadFrames) /\ ReadFrames[start[y] + q] = ReadFiles[y].mem[q]
    <3>1. PICK z \in 1..Len(ReadFiles) : z = y
        BY <1>2
    <3>2. \A d \in 1..Len(ReadFiles[z].mem) :
            start[z] + d \in 1..Len(ReadFrames) /\ ReadFrames[start[z] + d] = ReadFiles[z].mem[d]
        BY ReadCellIs
    <3>3. QED
        BY <3>1, <3>2
  <2>4. Len(ReadFiles[y].mem) \in Nat
      BY <1>6, LenProperties
  <2>5. start[i] + c < start[y] + q
    <3>1. c \in Nat /\ c <= Len(ReadFiles[i].mem)
        BY <1>4
    <3>2. q \in Nat /\ 1 <= q
        BY <2>1, <2>4
    <3>3. start[i] + c <= start[y]
        BY <1>3, <1>4, <3>1
    <3>4. QED
        BY <1>3, <3>1, <3>2, <3>3
  <2>6. FramesContinue(ReadFrames)
      BY DEF ReplayOK
  <2>7. ReadFrames[start[i] + c].last < ReadFrames[start[y] + q].first
      BY <1>1, <1>4, <2>1, <2>3, <2>5, <2>6, DataAscends
  <2>8. ReadFiles[i].mem[c].last < ReadFiles[y].first
      BY <1>4, <2>2, <2>3, <2>7
  <2>9. ReadFiles[i].mem[c].last \in Nat
    <3>1. ReadFrames[start[i] + c] \in Cell
        BY <1>1, <1>4, ElementOfSeq
    <3>2. QED
        BY <1>4, <3>1, CellKinds
  <2>10. QED
      BY <1>6, <2>8, <2>9
<1>8. CASE Data(ReadFiles[y].mem) = << >>
  <2>1. y \notin 1..Len(ReadFiles) - 1
      BY <1>8 DEF ReplayOK, FileEnds
  <2>2. y = Len(ReadFiles)
      BY <1>1, <1>2, <2>1
  <2>3. Checkpointed(files) \in Nat /\ Len(files) \in Nat
      BY <1>1, CheckpointedIs, LenProperties DEF TypeInv
  <2>4. Checkpointed(files) + y = Len(files) /\ files # << >>
      BY <1>1, <1>2, <2>2, <2>3
  <2>5. ReadFiles[y].first = ResumeSeq
      BY <1>5, <1>8, <2>4 DEF ReplayOK, Active
  <2>6. QED
      BY <2>5
<1>9. QED
    BY <1>7, <1>8

\* The file that the writer takes over keeps its name, and so do the others.
LEMMA IntoWriterFirst ==
    ASSUME TypeInv, IntoWriter, Taken = files, files # << >>
    PROVE  files'[Len(files)].first = files[Len(files)].first
<1>1. CASE LinkOnly(Taken[Len(Taken)], files'[Len(Taken)])
    BY <1>1 DEF LinkOnly
<1>2. ASSUME NEW f \in WalFile, LinkOnly(Taken[Len(Taken)], f), 
             files'[Len(Taken)] = Appended(f, <<CheckpointFrame(nextGroup', TRUE)>>)
      PROVE  files'[Len(files)].first = files[Len(files)].first
  <2>1. nextGroup' \in Nat /\ ckpt \in Nat
      BY IntoWriterDoes DEF TypeInv
  <2>2. PICK cells : cells = <<CheckpointFrame(nextGroup', TRUE)>>
      OBVIOUS
  <2>3. files'[Len(Taken)].first = f.first
    <3>1. cells \in Seq(Cell)
        BY <2>1, <2>2, CheckpointFrameIs
    <3>2. Appended(f, cells).first = f.first
        BY <1>2, <3>1, AppendedIs
    <3>3. QED
        BY <1>2, <2>2, <3>2
  <2>4. QED
      BY <1>2, <2>3 DEF LinkOnly
<1>3. QED
    BY <1>1, <1>2, IntoWriterDoes

\* The writer that takes over has nothing unsynced but its first group.
LEMMA IntoWriterWriter ==
    ASSUME TypeInv, WriterInv, IntoWriter
    PROVE  WriterInv'
<1>1. phase = "repaired" /\ ReplayOK /\ phase' \in {"idle", "rolling", "appended"}
    BY DEF IntoWriter
<1>2. /\ files \in Seq(WalFile) /\ ckpt \in Nat /\ Len(files) \in Nat /\ \A i \in 1..Len(files) : files[i] \in WalFile
    BY ActiveIs DEF TypeInv
<1>3. \A i \in 1..Len(files) : Whole(files[i])
    BY <1>1 DEF WriterInv
<1>4. /\ synced' = Len(Taken[Len(Taken)].mem) /\ nextGroup' \in Nat
      /\ files' \in Seq(WalFile) /\ Len(files') = Len(Taken)
      /\ \A i \in 1..Len(Taken) - 1 : LinkOnly(Taken[i], files'[i])
      /\ \A i \in 1..Len(Taken) : files'[i].linked
      /\ phase' = "idle" => LinkOnly(Taken[Len(Taken)], files'[Len(Taken)]) /\ Taken[Len(Taken)].mem # << >>
      /\ phase' # "idle" => Taken[Len(Taken)].mem = << >>
      /\ phase' = "appended" =>
           \E f \in WalFile : /\ LinkOnly(Taken[Len(Taken)], f)
                              /\ files'[Len(Taken)] = Appended(f, <<CheckpointFrame(nextGroup', TRUE)>>)
    BY <1>1, IntoWriterDoes
<1>5. /\ Taken \in Seq(WalFile) /\ Len(Taken) \in Nat \ {0}
      /\ files = << >> => Len(Taken) = 1 /\ Taken[1] = NewFile(ResumeSeq, << >>)
      /\ files # << >> => Taken = files
    BY TakenIs
<1>6. Active' = Len(Taken) /\ Active' \in 1..Len(Taken)
    BY <1>4, <1>5 DEF Active
<1>7. \A i \in 1..Len(files') - 1 : Whole(files'[i])
  <2>1. CASE files = << >>
      BY <1>4, <1>5, <2>1
  <2>2. CASE files # << >>
      BY <1>2, <1>3, <1>4, <1>5, <2>2, LinkOnlyWhole
  <2>3. QED
      BY <2>1, <2>2
<1>8. files'[Active'].linked
    BY <1>4, <1>6
<1>9. CASE phase' = "idle"
  <2>1. files # << >> /\ Taken = files
    <3>1. ASSUME files = << >> PROVE FALSE
      <4>1. Taken[Len(Taken)].mem = << >>
        <5>1. NewFile(ResumeSeq, << >>).mem = << >>
            BY DEF NewFile
        <5>2. QED
            BY <1>5, <3>1, <5>1
      <4>2. QED
          BY <1>4, <1>9, <4>1
    <3>2. QED
        BY <1>5, <3>1
  <2>2. PICK start : InLog(start)
      BY ReadPlaces
  <2>3. PICK i : i = Len(ReadFiles)
      OBVIOUS
  <2>4. i \in 1..Len(ReadFiles) /\ Checkpointed(files) + i = Len(files)
    <3>1. /\ Len(ReadFiles) = Len(files) - Checkpointed(files) /\ Checkpointed(files) \in 0..Len(files) - 1
        BY <1>2, <2>1, ReadIs, CheckpointedIs
    <3>2. QED
        BY <1>2, <2>1, <2>3, <3>1
  <2>5. ReadFiles[i] = files[Len(files)] /\ \A c \in 1..Len(ReadFiles[i].mem) : IsFrame(ReadFiles[i].mem[c])
      BY <1>1, <2>2, <2>4, ReadFileIs
  <2>6. LinkOnly(files[Len(files)], files'[Len(files)]) /\ Whole(files[Len(files)]) /\ synced' = Len(files[Len(files)].mem)
      BY <1>3, <1>4, <1>5, <1>9, <2>1
  <2>7. files'[Len(files)].mem = files[Len(files)].mem
      BY <2>6 DEF LinkOnly
  <2>8. Whole(files'[Len(files)])
      BY <2>6, LinkOnlyWhole
  <2>9. \A c \in 1..synced' : Agrees(files'[Active'], c) /\ IsFrame(files'[Active'].mem[c])
      BY <1>6, <2>1, <2>5, <2>6, <2>7, <2>8 DEF Whole
  <2>10. QED
      BY <1>7, <1>8, <1>9, <2>9 DEF WriterInv, Rotating
<1>10. CASE phase' # "idle"
  <2>1. synced' = 0
      BY <1>4, <1>10
  <2>2. \A c \in 1..synced' : Agrees(files'[Active'], c) /\ IsFrame(files'[Active'].mem[c])
      BY <2>1
  <2>3. CASE phase' = "rolling"
      BY <1>7, <1>8, <2>2, <2>3 DEF WriterInv, Rotating
  <2>4. CASE phase' = "appended"
    <3>1. PICK f \in WalFile : /\ LinkOnly(Taken[Len(Taken)], f)
                               /\ files'[Len(Taken)] = Appended(f, <<CheckpointFrame(nextGroup', TRUE)>>)
        BY <1>4, <2>4
    <3>2. PICK start : start = CheckpointFrame(nextGroup', TRUE)
        OBVIOUS
    <3>3. IsFrame(start) /\ start.end = TRUE /\ <<start>> \in Seq(Cell) /\ Len(<<start>>) = 1 /\ <<start>>[1] = start
        BY <1>2, <1>4, <3>2, CheckpointFrameIs
    <3>4. f.mem = << >> /\ Len(f.mem) = 0
        BY <1>4, <2>4, <3>1 DEF LinkOnly
    <3>5. PICK g : g = files'[Active']
        OBVIOUS
    <3>6. g = Appended(f, <<start>>)
        BY <1>6, <3>1, <3>2, <3>5
    <3>7. Len(g.mem) = 1 /\ g.mem[1] = start /\ 1 \in g.dirty
      <4>1. /\ Len(Appended(f, <<start>>).mem) = Len(f.mem) + 1
            /\ Appended(f, <<start>>).mem[Len(f.mem) + 1] = start
            /\ Appended(f, <<start>>).dirty = f.dirty \cup (Len(f.mem) + 1)..(Len(f.mem) + 1)
        <5>1. PICK cells : cells = <<start>>
            OBVIOUS
        <5>2. cells \in Seq(Cell) /\ Len(cells) = 1 /\ cells[1] = start /\ 1 \in 1..Len(cells)
            BY <3>3, <5>1
        <5>3. /\ Len(Appended(f, cells).mem) = Len(f.mem) + Len(cells)
              /\ Appended(f, cells).mem[Len(f.mem) + 1] = cells[1]
              /\ Appended(f, cells).dirty = f.dirty \cup (Len(f.mem) + 1)..(Len(f.mem) + Len(cells))
            BY <3>1, <5>2, AppendedIs
        <5>4. QED
            BY <5>1, <5>2, <5>3
      <4>2. QED
          BY <3>4, <3>6, <4>1
    <3>8. /\ synced' < Len(g.mem) /\ g.mem[Len(g.mem)].end
          /\ \A c \in synced' + 1..Len(g.mem) : c \in g.dirty /\ IsFrame(g.mem[c])
        BY <2>1, <3>3, <3>7
    <3>9. QED
        BY <1>7, <1>8, <2>2, <2>4, <3>5, <3>8 DEF WriterInv, Rotating
  <2>5. QED
      BY <1>1, <1>10, <2>3, <2>4
<1>11. QED
    BY <1>9, <1>10

\* Every operation of the log that the manifest does not cover is in a file that is taken over.
LEMMA IntoWriterAck ==
    ASSUME TypeInv, NumbersInv, AckInv, IntoWriter
    PROVE  AckInv'
<1>1. /\ phase = "repaired" /\ ReplayOK /\ ckpt' = ckpt /\ log' = SubSeq(log, 1, ckpt) \o OpsOf(Replayed)
      /\ phase' \in {"idle", "rolling", "appended"}
    BY DEF IntoWriter
<1>2. /\ files \in Seq(WalFile) /\ ckpt \in Nat /\ Len(files) \in Nat /\ \A i \in 1..Len(files) : files[i] \in WalFile
    BY ActiveIs DEF TypeInv
<1>3. \A i \in 1..Len(files) : Whole(files[i])
    BY <1>1 DEF AckInv, WriterInv
<1>4. /\ synced' = Len(Taken[Len(Taken)].mem)
      /\ files' \in Seq(WalFile) /\ Len(files') = Len(Taken)
      /\ \A i \in 1..Len(Taken) - 1 : LinkOnly(Taken[i], files'[i])
      /\ \A i \in 1..Len(Taken) : files'[i].linked
      /\ phase' \in {"idle", "rolling"} => LinkOnly(Taken[Len(Taken)], files'[Len(Taken)])
      /\ phase' # "idle" => Taken[Len(Taken)].mem = << >>
    BY <1>1, IntoWriterDoes
<1>5. /\ Len(Taken) \in Nat \ {0}
      /\ files = << >> => Len(Taken) = 1 /\ Taken[1] = NewFile(ResumeSeq, << >>)
      /\ files # << >> => Taken = files
    BY TakenIs
<1>6. PICK start : InLog(start)
    BY ReadPlaces
<1>7. /\ ResumeSeq = ckpt + Len(OpsOf(Replayed)) + 1
      /\ \A k \in 1..Len(OpsOf(Replayed)) :
           \E i \in 1..Len(ReadFrames) : /\ IsData(ReadFrames[i])
                                         /\ ckpt + k \in ReadFrames[i].first..ReadFrames[i].last
                                         /\ OpsOf(Replayed)[k] = ReadFrames[i].op
    BY <1>1, ReplayIs DEF NumbersInv
<1>8. /\ OpsOf(Replayed) \in Seq(Nat) /\ Len(OpsOf(Replayed)) \in Nat /\ Len(log') = ckpt + Len(OpsOf(Replayed))
      /\ \A k \in 1..Len(OpsOf(Replayed)) : log'[ckpt + k] = OpsOf(Replayed)[k]
  <2>1. /\ OpsOf(Replayed) \in Seq(Nat) /\ Len(OpsOf(Replayed)) \in Nat
        /\ SubSeq(log, 1, ckpt) \in Seq(Nat) /\ Len(SubSeq(log, 1, ckpt)) = ckpt
    <3>1. log \in Seq(Nat) /\ ckpt <= Len(log) /\ Len(log) \in Nat
        BY LenProperties DEF TypeInv
    <3>2. SubSeq(log, 1, ckpt) \in Seq(Nat)
        BY <1>2, <3>1, SubSeqProperties
    <3>3. QED
        BY <3>2, ReplayedIs
  <2>2. PICK a, b : a = SubSeq(log, 1, ckpt) /\ b = OpsOf(Replayed)
      OBVIOUS
  <2>3. a \in Seq(Nat) /\ b \in Seq(Nat) /\ Len(a) = ckpt /\ Len(b) \in Nat /\ log' = a \o b
      BY <1>1, <2>1, <2>2
  <2>4. Len(a \o b) = ckpt + Len(b) /\ \A k \in 1..ckpt + Len(b) : (a \o b)[k] = IF k <= ckpt THEN a[k] ELSE b[k - ckpt]
      BY <2>3, ConcatProperties
  <2>5. \A k \in 1..Len(b) : ckpt + k \in 1..ckpt + Len(b) /\ ~(ckpt + k <= ckpt) /\ (ckpt + k) - ckpt = k
      BY <1>2, <2>3
  <2>6. QED
      BY <2>1, <2>2, <2>3, <2>4, <2>5
<1>9. /\ Len(ReadFiles) = Len(files) - Checkpointed(files) /\ Checkpointed(files) \in Nat /\ Len(ReadFiles) \in Nat
  <2>1. ReadFiles \in Seq(WalFile) /\ Len(ReadFiles) = Len(files) - Checkpointed(files)
      BY <1>2, ReadIs
  <2>2. QED
      BY <1>2, <2>1, CheckpointedIs, LenProperties
<1>10. ASSUME NEW s \in ckpt' + 1..Len(log')
       PROVE  \E i \in 1..Len(files') : \E n \in 1..Len(files'[i].mem) : \E c \in 1..n : Kept(s, i, n, c)'
  <2>1. PICK k : k = s - ckpt
      OBVIOUS
  <2>2. k \in 1..Len(OpsOf(Replayed)) /\ s = ckpt + k /\ s \in Nat
      BY <1>1, <1>2, <1>8, <2>1
  <2>3. s < ResumeSeq
      BY <1>2, <1>7, <1>8, <2>2
  <2>4. PICK p \in 1..Len(ReadFrames) : /\ IsData(ReadFrames[p])
                                        /\ s \in ReadFrames[p].first..ReadFrames[p].last
                                        /\ log'[s] = ReadFrames[p].op
      BY <1>7, <1>8, <2>2
  <2>5. PICK i \in 1..Len(ReadFiles) : \E c \in 1..Len(ReadFiles[i].mem) : p = start[i] + c
      BY <1>6, <2>4 DEF InLog
  <2>6. PICK c \in 1..Len(ReadFiles[i].mem) : p = start[i] + c
      BY <2>5
  <2>7. PICK x : x = Checkpointed(files) + i
      OBVIOUS
  <2>8. /\ x \in 1..Len(files) /\ ReadFiles[i] = files[x] /\ Len(files[x].mem) \in Nat
        /\ ReadFrames[p] = files[x].mem[c]
        /\ \A d \in 1..Len(files[x].mem) : IsFrame(files[x].mem[d])
        /\ Len(files[x].mem) # 0 => files[x].mem[Len(files[x].mem)].end
    <3>1. /\ Checkpointed(files) + i \in 1..Len(files)
          /\ ReadFiles[i] = files[Checkpointed(files) + i]
          /\ Len(ReadFiles[i].mem) \in Nat
          /\ \A d \in 1..Len(ReadFiles[i].mem) : IsFrame(ReadFiles[i].mem[d])
          /\ Len(ReadFiles[i].mem) # 0 => ReadFiles[i].mem[Len(ReadFiles[i].mem)].end
        BY <1>1, <1>6, ReadFileIs
    <3>2. ReadFrames[start[i] + c] = ReadFiles[i].mem[c]
        BY <1>1, <1>6, ReadFileIs
    <3>3. QED
        BY <2>6, <2>7, <3>1, <3>2
  <2>9. Taken = files /\ files # << >>
      BY <1>2, <1>5, <2>8
  <2>10. PICK n : n = Len(files[x].mem)
      OBVIOUS
  <2>11. n \in Nat /\ c \in 1..n /\ n # 0 /\ n \in 1..n
      BY <2>6, <2>8, <2>10
  <2>12. LinkOnly(files[x], files'[x])
    <3>1. x \in 1..Len(files) - 1 \/ x = Len(files)
        BY <1>2, <2>8
    <3>2. x = Len(files) => phase' = "idle"
        BY <1>4, <2>9, <2>10, <2>11
    <3>3. QED
        BY <1>4, <2>9, <3>1, <3>2
  <2>13. \A d \in 1..n : Agrees(files[x], d)
      BY <1>3, <2>8, <2>10 DEF Whole
  <2>14. PICK g : g = files'[x]
      OBVIOUS
  <2>15. /\ g.linked /\ n \in 1..Len(g.mem) /\ g.mem[n].end
         /\ \A d \in 1..n : Agrees(g, d) /\ IsFrame(g.mem[d])
    <3>1. g.mem = files[x].mem /\ g.dev = files[x].dev /\ g.dirty = files[x].dirty
        BY <2>12, <2>14 DEF LinkOnly
    <3>2. g.linked
        BY <1>4, <2>8, <2>9, <2>14
    <3>3. \A d \in 1..n : Agrees(g, d)
        BY <2>13, <3>1 DEF Agrees
    <3>4. QED
        BY <2>8, <2>10, <2>11, <3>1, <3>2, <3>3
  <2>16. IsData(g.mem[c]) /\ g.mem[c].op = log'[s] /\ s \in g.mem[c].first..g.mem[c].last
    <3>1. g.mem[c] = ReadFrames[p]
        BY <2>8, <2>12, <2>14 DEF LinkOnly
    <3>2. QED
        BY <2>4, <3>1
  <2>17. ASSUME NEW j \in x + 1..Len(files') PROVE s < files'[j].first
    <3>1. PICK y : y = j - Checkpointed(files)
        OBVIOUS
    <3>2. y \in i + 1..Len(ReadFiles) /\ y \in 1..Len(ReadFiles) /\ j = Checkpointed(files) + y /\ j \in 1..Len(files)
      <4>1. j \in x + 1..Len(files) /\ i \in Nat /\ 1 <= i
          BY <1>4, <1>9, <2>9, <2>17
      <4>2. PICK h, l : h = Checkpointed(files) /\ l = Len(files)
          OBVIOUS
      <4>3. h \in Nat /\ l \in Nat /\ x = h + i /\ y = j - h /\ j \in x + 1..l
          BY <1>2, <1>9, <2>7, <3>1, <4>1, <4>2
      <4>4. y \in i + 1..l - h /\ y \in 1..l - h /\ j = h + y /\ j \in 1..l
          BY <4>1, <4>3
      <4>5. QED
          BY <1>9, <4>2, <4>4
    <3>3. ReadFiles[y] = files[j]
        BY <1>1, <1>6, <3>2, ReadFileIs
    <3>4. s <= ReadFiles[i].mem[c].last
      <4>1. ReadFiles[i].mem[c] = ReadFrames[p]
          BY <2>8
      <4>2. QED
          BY <2>4, <4>1
    <3>5. IsData(ReadFiles[i].mem[c])
        BY <2>4, <2>8
    <3>6. s < files[j].first
        BY <1>1, <1>6, <2>2, <2>3, <2>5, <2>6, <3>2, <3>3, <3>4, <3>5, LaterFile
    <3>7. files'[j].first = files[j].first
      <4>1. CASE j \in 1..Len(files) - 1
          BY <1>4, <2>9, <4>1 DEF LinkOnly
      <4>2. CASE j = Len(files)
          BY <2>9, <4>2, IntoWriterFirst
      <4>3. QED
          BY <1>2, <3>2, <4>1, <4>2
    <3>8. QED
        BY <3>6, <3>7
  <2>18. InUse(x, n)'
    <3>1. x = Active' => n <= synced'
        BY <1>4, <2>9, <2>10, <2>11 DEF Active
    <3>2. QED
        BY <1>1, <3>1 DEF InUse, Grouping, Rotating
  <2>19. Kept(s, x, n, c)'
      BY <2>11, <2>14, <2>15, <2>16, <2>17, <2>18, BecomesKept
  <2>20. x \in 1..Len(files') /\ n \in 1..Len(files'[x].mem)
      BY <1>4, <2>8, <2>9, <2>14, <2>15
  <2>21. QED
      BY <2>11, <2>19, <2>20
<1>11. LogKept'
    BY <1>10 DEF LogKept
<1>12. WriterInv'
    BY IntoWriterWriter DEF AckInv
<1>13. QED
    BY <1>11, <1>12 DEF AckInv

\* A recovery that ends without a writer.
LEMMA IntoWriterFailsAck ==
    ASSUME TypeInv, AckInv, IntoWriterFails
    PROVE  AckInv'
<1>1. phase = "repaired" /\ phase' \in {"corrupt", "down"} /\ log' = log /\ ckpt' = ckpt
    BY DEF IntoWriterFails, history
<1>2. /\ files \in Seq(WalFile) /\ ckpt \in Nat /\ \A i \in 1..Len(files) : files[i] \in WalFile
    BY ActiveIs DEF TypeInv
<1>3. \A i \in 1..Len(files) : Whole(files[i])
    BY <1>1 DEF AckInv, WriterInv
<1>4. \A i, n : InUse(i, n)'
    BY <1>1 DEF InUse, Grouping, Rotating
<1>5. CASE files' = files
  <2>1. \A i \in 1..Len(files) : LinkOnly(files[i], files'[i])
      BY <1>2, <1>5, LinkOnlySame
  <2>2. LogKept'
      BY <1>1, <1>2, <1>4, <1>5, <2>1, LinkedKept DEF AckInv
  <2>3. WriterInv'
    <3>1. CASE phase' = "corrupt"
        BY <3>1, StoppedWriter
    <3>2. CASE phase' = "down"
      <4>1. \A i \in 1..Len(files') : Honest(files'[i])
          BY <1>3, <1>5, WholeIsHonest
      <4>2. QED
          BY <3>2, <4>1, DownWriter
    <3>3. QED
        BY <1>1, <3>1, <3>2
  <2>4. QED
      BY <2>2, <2>3 DEF AckInv
<1>6. CASE files = << >> /\ files' = Taken /\ phase' = "down"
  <2>1. Len(Taken) = 1 /\ Taken[1] = NewFile(ResumeSeq, << >>)
      BY <1>6, TakenIs
  <2>2. NewFile(ResumeSeq, << >>).mem = << >>
      BY DEF NewFile
  <2>3. \A i \in 1..Len(files') : Len(files'[i].mem) = 0
      BY <1>6, <2>1, <2>2
  <2>4. \A i \in 1..Len(files') : Honest(files'[i])
      BY <2>3 DEF Honest
  <2>5. WriterInv'
      BY <1>6, <2>4, DownWriter
  <2>6. ckpt + 1..Len(log) = {}
    <3>1. SUFFICES ASSUME NEW s \in ckpt + 1..Len(log) PROVE FALSE
        OBVIOUS
    <3>2. PICK i \in 1..Len(files) : TRUE
        BY <3>1 DEF AckInv, LogKept
    <3>3. QED
        BY <1>6, <3>2
  <2>7. LogKept'
      BY <1>1, <2>6 DEF LogKept
  <2>8. QED
      BY <2>5, <2>7 DEF AckInv
<1>7. QED
    BY <1>5, <1>6, IntoWriterFailsDoes

LEMMA AckStep ==
    ASSUME ~BarrierFaults, BaseInv, NumbersInv, AckInv, [Next]_vars
    PROVE  AckInv'
<1>1. TypeInv /\ PhaseInv /\ FenceInv
    BY DEF BaseInv
<1>2. CASE UNCHANGED vars
    BY <1>1, <1>2, SameFilesAck
<1>3. CASE \E shape \in Shapes : AppendGroup(shape)
    BY <1>1, <1>3, AppendGroupAck
<1>4. CASE SyncGroup
    BY <1>1, <1>4, SyncGroupAck
<1>5. CASE SyncGroupFails \/ RollBackTruncate \/ RollBackSync \/ RollBackSyncFails
    BY <1>1, <1>5, RollBackAck
<1>6. CASE Fence
    BY <1>1, <1>6, FenceAck
<1>7. CASE Rotate
    BY <1>1, <1>7, RotateAck
<1>8. CASE RotateSync
    BY <1>1, <1>8, RotateSyncAck
<1>9. CASE RotateEmpty
    BY <1>1, <1>9, RotateEmptyAck
<1>10. CASE RotateLink
    BY <1>1, <1>10, RotateLinkAck
<1>11. CASE RemoveCheckpointed
    BY <1>1, <1>11, RemoveAck
<1>12. CASE AdvanceCheckpoint
    BY <1>1, <1>12, SameFilesAck
<1>13. CASE Barrier
    BY <1>1, <1>13, BarrierAck
<1>14. CASE RepairTail
    BY <1>1, <1>14, RepairTailAck
<1>15. CASE IntoWriter
    BY <1>1, <1>15, IntoWriterAck
<1>16. CASE IntoWriterFails
    BY <1>1, <1>16, IntoWriterFailsAck
<1>17. CASE Crash \/ OperatorReboot
    BY <1>1, <1>17, RebootAck DEF Crash, OperatorReboot
<1>18. CASE Kill
    BY <1>1, <1>18, KillAck
<1>19. QED
    BY <1>2, <1>3, <1>4, <1>5, <1>6, <1>7, <1>8, <1>9, <1>10, <1>11, <1>12, <1>13, <1>14, <1>15, <1>16, <1>17, <1>18
       DEF Next, Writing, Recovery

LEMMA AckInit == Init => AckInv
<1>1. SUFFICES ASSUME Init PROVE AckInv
    OBVIOUS
<1>2. files = << >> /\ log = << >> /\ ckpt = 0 /\ phase = "down"
    BY <1>1 DEF Init
<1>3. Len(files) = 0 /\ Len(log) = 0
    BY <1>2
<1>4. LogKept
    BY <1>2, <1>3 DEF LogKept
<1>5. WriterInv
    BY <1>2, <1>3 DEF WriterInv, Grouping, Rotating
<1>6. QED
    BY <1>4, <1>5 DEF AckInv

\* The operation that is kept is on the device, in a file whose entry is durable.
LEMMA KeptIsOnDevice ==
    ASSUME TypeInv, LogKept
    PROVE  AckedOnDevice
<1>1. SUFFICES ASSUME NEW s \in ckpt + 1..Len(log)
               PROVE  \E i \in DOMAIN files :
                        /\ files[i].linked
                        /\ \E c \in DOMAIN files[i].dev :
                             /\ IsData(files[i].dev[c])
                             /\ s \in files[i].dev[c].first..files[i].dev[c].last
                             /\ files[i].dev[c].op = log[s]
    BY DEF AckedOnDevice
<1>2. PICK i \in 1..Len(files) : \E n \in 1..Len(files[i].mem) : \E c \in 1..n : Kept(s, i, n, c)
    BY DEF LogKept
<1>3. PICK n \in 1..Len(files[i].mem) : \E c \in 1..n : Kept(s, i, n, c)
    BY <1>2
<1>4. PICK c \in 1..n : Kept(s, i, n, c)
    BY <1>3
<1>5. files[i] \in WalFile /\ i \in DOMAIN files
    BY ActiveIs DEF TypeInv
<1>6. DOMAIN files[i].dev = 1..Len(files[i].dev) /\ Len(files[i].dev) \in Nat
    BY <1>5, FileFields
<1>7. files[i].linked /\ Agrees(files[i], c)
    BY <1>4 DEF Kept, Durable
<1>8. c \in DOMAIN files[i].dev /\ files[i].mem[c] = files[i].dev[c]
    BY <1>6, <1>7 DEF Agrees
<1>9. QED
    BY <1>4, <1>5, <1>7, <1>8 DEF Kept

\* Durable visibility (I14; writer.rs, append_group, roll_back, rotate, remove_checkpointed; recovery.rs):
\* what a caller was told the log holds, and the manifest does not cover, is on the device under a durable
\* name in every state, as long as the barrier's syncs do not fail: the barrier syncs again what a failed
\* sync has marked clean, and a run shows what happens then.
THEOREM AckedStaysOnDevice ==
    ASSUME ~BarrierFaults
    PROVE  Spec => []AckedOnDevice
<1>1. BaseInv /\ NumbersInv /\ AckInv /\ [Next]_vars => (BaseInv /\ NumbersInv /\ AckInv)'
    BY BaseStep, NumbersStep, AckStep
<1>2. Init => BaseInv /\ NumbersInv /\ AckInv
    BY BaseInit, NumbersInit, AckInit
<1>3. BaseInv /\ AckInv => AckedOnDevice
    BY KeptIsOnDevice DEF BaseInv, AckInv
<1>4. QED
    BY <1>1, <1>2, <1>3, PTL DEF Spec

-----------------------------------------------------------------------------
(* What the log promises its callers has consequences of its own, for whatever keeps the promise. *)

\* An unanswered group is new: none of it is in the log or was rejected.
PendingIsNew == Promise!Ops(pending) \cap (Promise!Ops(log) \cup rejected) = {}

PromiseInv == Promise!TypeOK /\ Promise!NotAppliedStaysOut /\ PendingIsNew

\* The operations of a concatenation are those of its parts.
LEMMA OpsConcat ==
    ASSUME NEW S, NEW s \in Seq(S), NEW t \in Seq(S)
    PROVE  Promise!Ops(s \o t) = Promise!Ops(s) \cup Promise!Ops(t)
<1>1. /\ DOMAIN s = 1..Len(s) /\ DOMAIN t = 1..Len(t) /\ DOMAIN (s \o t) = 1..Len(s) + Len(t)
      /\ Len(s) \in Nat /\ Len(t) \in Nat
      /\ \A i \in 1..Len(s) + Len(t) : (s \o t)[i] = IF i <= Len(s) THEN s[i] ELSE t[i - Len(s)]
    BY ConcatProperties, LenProperties
<1>2. ASSUME NEW i \in DOMAIN s PROVE s[i] \in Promise!Ops(s \o t)
  <2>1. i \in DOMAIN (s \o t) /\ (s \o t)[i] = s[i]
      BY <1>1
  <2>2. QED
      BY <2>1 DEF Promise!Ops
<1>3. ASSUME NEW i \in DOMAIN t PROVE t[i] \in Promise!Ops(s \o t)
  <2>1. i + Len(s) \in DOMAIN (s \o t) /\ (s \o t)[i + Len(s)] = t[i]
      BY <1>1
  <2>2. QED
      BY <2>1 DEF Promise!Ops
<1>4. ASSUME NEW i \in DOMAIN (s \o t) PROVE (s \o t)[i] \in Promise!Ops(s) \cup Promise!Ops(t)
  <2>1. CASE i <= Len(s)
    <3>1. i \in DOMAIN s /\ (s \o t)[i] = s[i]
        BY <1>1, <2>1
    <3>2. QED
        BY <3>1 DEF Promise!Ops
  <2>2. CASE i > Len(s)
    <3>1. i - Len(s) \in DOMAIN t /\ (s \o t)[i] = t[i - Len(s)]
        BY <1>1, <2>2
    <3>2. QED
        BY <3>1 DEF Promise!Ops
  <2>3. QED
      BY <1>1, <2>1, <2>2
<1>5. QED
    BY <1>2, <1>3, <1>4 DEF Promise!Ops

LEMMA PromiseInit == Promise!Init => PromiseInv
<1>1. SUFFICES ASSUME Promise!Init PROVE PromiseInv
    OBVIOUS
<1>2. log = << >> /\ pending = << >> /\ rejected = {}
    BY <1>1 DEF Promise!Init
<1>3. Promise!Ops(<< >>) = {}
    BY DEF Promise!Ops
<1>4. Promise!TypeOK
    BY <1>2 DEF Promise!TypeOK
<1>5. QED
    BY <1>2, <1>3, <1>4 DEF PromiseInv, Promise!NotAppliedStaysOut, PendingIsNew

LEMMA PromiseStep == PromiseInv /\ [Promise!Next]_(Promise!vars) => PromiseInv'
<1>1. SUFFICES ASSUME PromiseInv, [Promise!Next]_(Promise!vars) PROVE PromiseInv'
    OBVIOUS
<1>2. /\ log \in Seq(1..MaxAttempts) /\ pending \in Seq(1..MaxAttempts) /\ rejected \in SUBSET (1..MaxAttempts)
      /\ Promise!Ops(log) \cap rejected = {} /\ Promise!Ops(pending) \cap (Promise!Ops(log) \cup rejected) = {}
    BY <1>1 DEF PromiseInv, Promise!TypeOK, Promise!NotAppliedStaysOut, PendingIsNew
<1>3. log \o pending \in Seq(1..MaxAttempts) /\ Promise!Ops(log \o pending) = Promise!Ops(log) \cup Promise!Ops(pending)
    BY <1>2, OpsConcat, ConcatProperties
<1>4. Promise!Ops(<< >>) = {} /\ << >> \in Seq(1..MaxAttempts)
    BY DEF Promise!Ops
<1>5. Promise!Ops(pending) \in SUBSET (1..MaxAttempts)
  <2>1. \A i \in DOMAIN pending : pending[i] \in 1..MaxAttempts
    <3>1. PICK S : S = 1..MaxAttempts
        OBVIOUS
    <3>2. pending \in Seq(S)
        BY <1>2, <3>1
    <3>3. \A i \in DOMAIN pending : pending[i] \in S
        BY <3>2
    <3>4. QED
        BY <3>1, <3>3
  <2>2. QED
      BY <2>1 DEF Promise!Ops
<1>6. /\ log' \in Seq(1..MaxAttempts) /\ pending' \in Seq(1..MaxAttempts) /\ rejected' \in SUBSET (1..MaxAttempts)
      /\ Promise!Ops(log') \cap rejected' = {} /\ Promise!Ops(pending') \cap (Promise!Ops(log') \cup rejected') = {}
  <2>1. CASE Promise!Propose
      BY <1>2, <2>1 DEF Promise!Propose
  <2>2. CASE Promise!Commit
      BY <1>2, <1>3, <1>4, <2>2 DEF Promise!Commit
  <2>3. CASE Promise!Reject
      BY <1>2, <1>4, <1>5, <2>3 DEF Promise!Reject
  <2>4. CASE Promise!Stop \/ UNCHANGED Promise!vars
      BY <1>2, <2>4 DEF Promise!Stop, Promise!vars
  <2>5. CASE Promise!Recover
      BY <1>2, <1>3, <1>4, <2>5 DEF Promise!Recover
  <2>6. QED
      BY <1>1, <2>1, <2>2, <2>3, <2>4, <2>5 DEF Promise!Next
<1>7. Promise!TypeOK'
    BY <1>6 DEF Promise!TypeOK
<1>8. Promise!NotAppliedStaysOut' /\ PendingIsNew'
    BY <1>6 DEF Promise!NotAppliedStaysOut, PendingIsNew
<1>9. QED
    BY <1>7, <1>8 DEF PromiseInv

LEMMA PromiseAlways == Promise!Spec => []PromiseInv
    BY PromiseInit, PromiseStep, PTL DEF Promise!Spec

\* The contract of WriteOutcome::NotApplied (error.rs, WriteOutcome), of any log that keeps the promise: an
\* operation answered so is not in the log, through any number of crashes and recoveries.
LEMMA RejectedIsNeverLogged == Promise!Spec => []Promise!NotAppliedStaysOut
<1>1. PromiseInv => Promise!NotAppliedStaysOut
    BY DEF PromiseInv
<1>2. QED
    BY <1>1, PromiseAlways, PTL

\* No step of such a log, a recovery (recovery.rs) included, removes or overwrites a logged operation.
LEMMA LogOnlyExtends == Promise!Spec => Promise!OnlyExtends
<1>1. PromiseInv /\ [Promise!Next]_(Promise!vars)
          => [/\ Len(log) <= Len(log')
              /\ \A i \in 1..Len(log) : log'[i] = log[i]]_log
  <2>1. SUFFICES ASSUME PromiseInv, [Promise!Next]_(Promise!vars)
                 PROVE  Len(log) <= Len(log') /\ \A i \in 1..Len(log) : log'[i] = log[i]
      OBVIOUS
  <2>2. log' \in {log, log \o pending}
    <3>1. CASE Promise!Commit \/ Promise!Recover
        BY <3>1 DEF Promise!Commit, Promise!Recover
    <3>2. CASE ~(Promise!Commit \/ Promise!Recover)
        BY <2>1, <3>2 DEF Promise!Next, Promise!Propose, Promise!Reject, Promise!Stop, Promise!vars
    <3>3. QED
        BY <3>1, <3>2
  <2>3. log \in Seq(1..MaxAttempts) /\ pending \in Seq(1..MaxAttempts)
      BY <2>1 DEF PromiseInv, Promise!TypeOK
  <2>4. QED
      BY <2>2, <2>3, ConcatProperties, LenProperties
<1>2. QED
    BY <1>1, PromiseAlways, PTL DEF Promise!Spec, Promise!OnlyExtends

-----------------------------------------------------------------------------
(* The log keeps that promise.  What no answer was given for is in the active file only, as frames of one *)
(* group that starts after the log; so recovery finds the group whole, or nothing past the log.          *)

\* The file has no operation of a number past n.
LogsUpTo(f, n) == \A c, cell : Holds(f, c, cell) /\ IsData(cell) => cell.last <= n
\* Past cell b the file has frames of the group only, each in its place; before, no operation past n.
PartOf(f, n, b, fr) ==
    \A c, cell : Holds(f, c, cell) /\ cell # Torn =>
        IF c <= b THEN IsData(cell) => cell.last <= n
        ELSE c - b \in 1..Len(fr) /\ cell = fr[c - b]

InFlight == {"appended", "rolling", "truncated"}

\* The frames of the group without an answer.
OpenGroup(fr) == \E op \in Nat : IsGroup(fr, op, Len(log) + 1) /\ pending = OpsOf(fr)
Unanswered ==
    \E fr : \E b \in Nat : /\ OpenGroup(fr) /\ PartOf(ActiveFile, Len(log), b, fr)
                           /\ phase \in InFlight => b = synced

PastInv ==
    /\ \A i \in 1..Len(gone) : LogsUpTo(gone[i], Len(log))
    /\ \A i \in 1..Len(files) - 1 : LogsUpTo(files[i], Len(log))
    /\ files # << >> => LogsUpTo(ActiveFile, Len(log)) \/ Unanswered
\* Where the writer appends next, the device has nothing.
EndInv == phase \in {"idle", "linking", "repaired"} /\ files # << >> => Len(ActiveFile.dev) <= Len(ActiveFile.mem)
HistInv ==
    /\ phase \in {"idle"} \cup Rotating => pending = << >>
    /\ attempts <= MaxAttempts
    /\ \A s \in 1..Len(log) : log[s] \in 1..attempts

OpenInv == PastInv /\ EndInv /\ HistInv

\* A group has the operations of one proposal, as many as numbers, and none beyond them.
LEMMA GroupOps ==
    ASSUME NEW fr, NEW op \in Nat, NEW from \in Nat, IsGroup(fr, op, from)
    PROVE  /\ OpsOf(fr) \in Seq(Nat) /\ Len(OpsOf(fr)) \in Nat
           /\ \A k \in 1..Len(OpsOf(fr)) : OpsOf(fr)[k] = op
           /\ \A i \in 1..Len(fr) : IsData(fr[i]) => fr[i].last + 1 <= from + Len(OpsOf(fr))
           /\ Len(OpsOf(fr)) # 0 =>
                \E i \in 1..Len(fr) : IsData(fr[i]) /\ fr[i].last + 1 >= from + Len(OpsOf(fr))
<1> DEFINE pre(n) == SubSeq(fr, 1, n)
           m(n) == Len(OpsOf(pre(n)))
           Good(n) == m(n) \in Nat /\ \A i \in 0..n : m(i) <= m(n)
           N == {n \in Nat : n <= Len(fr) => Good(n)}
<1>1. /\ fr \in Seq(Cell) /\ Len(fr) \in Nat
      /\ \A i \in 1..Len(fr) : IsData(fr[i]) =>
           fr[i].op = op /\ fr[i].first = from + Len(OpsOf(SubSeq(fr, 1, i - 1)))
    BY DEF IsGroup
<1>2. ASSUME NEW n \in 0..Len(fr) - 1
      PROVE  /\ m(n) \in Nat /\ m(n + 1) \in Nat
             /\ m(n + 1) = m(n) + (IF IsData(fr[n + 1]) THEN fr[n + 1].last - fr[n + 1].first + 1 ELSE 0)
             /\ fr[n + 1] \in Cell
  <2>1. PICK p, q, x : p = pre(n) /\ q = pre(n + 1) /\ x = fr[n + 1]
      OBVIOUS
  <2>2. p \in Seq(Cell) /\ x \in Cell /\ q = Append(p, x)
      BY <1>1, <2>1, AppendLast
  <2>3. OpsOf(q) = OpsOf(p) \o FrameOps(x) /\ OpsOf(p) \in Seq(Nat) /\ FrameOps(x) \in Seq(Nat)
      BY <2>2, OpsAppend, OpsAre, FrameOpsIs
  <2>4. Len(OpsOf(q)) = Len(OpsOf(p)) + Len(FrameOps(x)) /\ Len(OpsOf(p)) \in Nat /\ Len(FrameOps(x)) \in Nat
      BY <2>3, ConcatProperties, LenProperties
  <2>5. Len(FrameOps(x)) = IF IsData(x) THEN x.last - x.first + 1 ELSE 0
      BY <2>2, FrameOpsIs
  <2> HIDE DEF pre
  <2>6. QED
      BY <2>1, <2>2, <2>4, <2>5
<1>3. ASSUME NEW n \in 0..Len(fr) - 1 PROVE m(n) <= m(n + 1)
  <2>1. IsData(fr[n + 1]) => fr[n + 1].first <= fr[n + 1].last /\ fr[n + 1].first \in Nat /\ fr[n + 1].last \in Nat
      BY <1>2, CellKinds
  <2> HIDE DEF m
  <2>2. QED
      BY <1>2, <2>1
<1>4. N = Nat
  <2>1. 0 \in N
    <3>1. m(0) = 0
      <4>1. pre(0) = << >>
          BY SubSeqEmpty
      <4> HIDE DEF pre
      <4>2. Len(OpsOf(pre(0))) = Len(<< >>)
          BY <4>1, EmptyOps, Zenon
      <4>3. QED
          BY <4>2, EmptySeq
    <3> HIDE DEF m
    <3>2. \A i \in 0..0 : i = 0
        OBVIOUS
    <3>3. QED
        BY <3>1, <3>2
  <2>2. ASSUME NEW n \in N PROVE n + 1 \in N
    <3>1. SUFFICES ASSUME n + 1 <= Len(fr) PROVE Good(n + 1)
        OBVIOUS
    <3>2. n \in 0..Len(fr) - 1
        BY <1>1, <3>1
    <3>3. m(n) \in Nat /\ m(n + 1) \in Nat /\ m(n) <= m(n + 1)
        BY <1>2, <1>3, <3>2
    <3>4. Good(n)
        BY <1>1, <3>2
    <3> HIDE DEF m
    <3>5. ASSUME NEW i \in 0..n + 1 PROVE m(i) <= m(n + 1)
      <4>1. CASE i \in 0..n
        <5>1. m(i) <= m(n)
            BY <3>4, <4>1
        <5>2. m(i) \in Nat
          <6>1. CASE i = n
              BY <3>3, <6>1
          <6>2. CASE i # n
            <7>1. i \in 0..Len(fr) - 1
                BY <1>1, <3>2, <4>1
            <7>2. QED
                BY <1>2, <7>1 DEF m
          <6>3. QED
              BY <6>1, <6>2
        <5>3. QED
            BY <3>3, <5>1, <5>2
      <4>2. CASE i = n + 1
          BY <3>3, <4>2
      <4>3. QED
          BY <3>2, <4>1, <4>2
    <3>6. QED
        BY <3>3, <3>5
  <2> HIDE DEF N
  <2>3. N \subseteq Nat
      BY DEF N
  <2>4. QED
      BY <2>1, <2>2, <2>3, Booting!SetInduction
<1>5. Good(Len(fr)) /\ pre(Len(fr)) = fr
    BY <1>1, <1>4, SubSeqFull
<1>6. ASSUME NEW i \in 1..Len(fr), IsData(fr[i]) PROVE fr[i].last + 1 <= from + Len(OpsOf(fr))
  <2>1. PICK n : n = i - 1
      OBVIOUS
  <2>2. n \in 0..Len(fr) - 1 /\ i = n + 1 /\ i \in 0..Len(fr)
      BY <1>1, <2>1
  <2>3. /\ m(n) \in Nat /\ m(i) = m(n) + (fr[i].last - fr[i].first + 1) /\ fr[i] \in Cell
      BY <1>2, <1>6, <2>2
  <2>4. fr[i].first = from + m(n)
      BY <1>1, <1>6, <2>1
  <2>5. m(i) <= m(Len(fr)) /\ m(Len(fr)) = Len(OpsOf(fr)) /\ m(Len(fr)) \in Nat
    <3>1. m(Len(fr)) = Len(OpsOf(fr))
      <4> HIDE DEF pre
      <4>1. QED
          BY <1>5
    <3> HIDE DEF m
    <3>2. QED
        BY <1>5, <2>2, <3>1
  <2>6. fr[i].first \in Nat /\ fr[i].last \in Nat
      BY <1>6, <2>3, CellKinds
  <2>7. PICK a, b, k : a = fr[i].first /\ b = fr[i].last /\ k = m(n)
      OBVIOUS
  <2> HIDE DEF m
  <2>8. a \in Nat /\ b \in Nat /\ k \in Nat /\ a = from + k /\ m(i) = k + (b - a + 1)
      BY <2>3, <2>4, <2>6, <2>7
  <2>9. b + 1 = from + m(i) /\ m(i) \in Int
      BY <2>8
  <2>10. b + 1 <= from + Len(OpsOf(fr))
      BY <2>5, <2>9
  <2>11. QED
      BY <2>7, <2>10
<1>7. /\ OpsOf(fr) \in Seq(Nat) /\ Len(OpsOf(fr)) \in Nat
      /\ \A k \in 1..Len(OpsOf(fr)) : OpsOf(fr)[k] = op
    BY <1>1, OpsAre, LenProperties
<1>8. ASSUME Len(OpsOf(fr)) # 0
      PROVE  \E i \in 1..Len(fr) : IsData(fr[i]) /\ fr[i].last + 1 >= from + Len(OpsOf(fr))
  <2>1. PICK k : k = Len(OpsOf(fr))
      OBVIOUS
  <2>2. k \in Nat /\ k \in 1..Len(OpsOf(fr))
      BY <1>7, <1>8, <2>1
  <2>7. \A l \in 1..Len(OpsOf(fr)) :
          \E i \in 1..Len(fr) : /\ IsData(fr[i]) /\ from + l - 1 \in fr[i].first..fr[i].last
                               /\ OpsOf(fr)[l] = fr[i].op
    <3>1. \A i \in 1..Len(fr) : IsData(fr[i]) => fr[i].first = from + Len(OpsOf(SubSeq(fr, 1, i - 1)))
        BY <1>1
    <3>2. fr \in Seq(Cell)
        BY <1>1
    <3>3. QED
        BY <3>1, <3>2, NumberedOps
  <2>3. PICK i \in 1..Len(fr) : IsData(fr[i]) /\ from + k - 1 \in fr[i].first..fr[i].last
      BY <2>2, <2>7
  <2>4. fr[i].last \in Nat
      BY <1>1, <2>3, ElementOfSeq, CellKinds
  <2>5. fr[i].last + 1 >= from + k
      BY <2>2, <2>3, <2>4
  <2>6. QED
      BY <2>1, <2>3, <2>5
<1>9. QED
    BY <1>6, <1>7, <1>8

\* Every operation that a replay reads has a number below the one the writer continues with.
LEMMA ReadBelow ==
    ASSUME TypeInv, ReplayOK, NEW i \in 1..Len(ReadFrames), IsData(ReadFrames[i])
    PROVE  ReadFrames[i].last < ResumeSeq
<1>1. /\ ReadFrames \in Seq(Cell) /\ Len(ReadFrames) \in Nat /\ ckpt \in Nat
      /\ \A k \in 1..Len(ReadFrames) : ReadFrames[k] \in Cell
    BY ReadIs, LenProperties, ElementOfSeq DEF TypeInv
<1>2. FramesContinue(ReadFrames)
    BY DEF ReplayOK
<1>3. PICK j \in 1..Len(ReadFrames) : IsData(ReadFrames[j]) /\ \A k \in j + 1..Len(ReadFrames) : ~IsData(ReadFrames[k])
  <2>1. Len(ReadFrames) \in 0..Len(ReadFrames)
      BY <1>1
  <2>2. QED
      BY <1>1, <2>1, LastData
<1>4. ResumeSeq = (IF ReadFrames[j].last > ckpt THEN ReadFrames[j].last ELSE ckpt) + 1
  <2>1. Data(ReadFrames) # << >> /\ ReadFrames[j] = Last(Data(ReadFrames))
      BY <1>1, <1>2, <1>3, DataContinues
  <2>2. QED
      BY <2>1 DEF ResumeSeq
<1>5. /\ ReadFrames[i].first \in Nat /\ ReadFrames[i].last \in Nat
      /\ ReadFrames[j].first \in Nat /\ ReadFrames[j].last \in Nat /\ ReadFrames[j].first <= ReadFrames[j].last
    BY <1>1, <1>3, CellKinds
<1>6. ReadFrames[i].last <= ReadFrames[j].last
  <2>1. CASE i = j
      BY <1>5, <2>1
  <2>2. CASE i < j
    <3>1. ReadFrames[i].last < ReadFrames[j].first
        BY <1>1, <1>2, <1>3, <2>2, DataAscends
    <3>2. QED
        BY <1>5, <3>1
  <2>3. CASE j < i
    <3>1. i \in j + 1..Len(ReadFrames)
        BY <1>1, <2>3
    <3>2. QED
        BY <1>3, <3>1
  <2>4. QED
      BY <1>1, <2>1, <2>2, <2>3
<1>7. QED
    BY <1>1, <1>4, <1>5, <1>6

\* A replay reads every cell of the files above the checkpoint, and nothing else.
LEMMA ReadsCells ==
    ASSUME TypeInv, ReplayOK
    PROVE  /\ \A x \in 1..Len(files) : x > Checkpointed(files) =>
                \A c \in 1..Len(files[x].mem) :
                  \E p \in 1..Len(ReadFrames) : ReadFrames[p] = files[x].mem[c] /\ IsFrame(files[x].mem[c])
           /\ \A p \in 1..Len(ReadFrames) :
                \E x \in 1..Len(files) : \E c \in 1..Len(files[x].mem) : ReadFrames[p] = files[x].mem[c]
           /\ files # << >> /\ Len(ActiveFile.mem) # 0 => ActiveFile.mem[Len(ActiveFile.mem)].end
           /\ files # << >> => Len(files) > Checkpointed(files)
<1>1. /\ files \in Seq(WalFile) /\ Len(files) \in Nat /\ ckpt \in Nat /\ Checkpointed(files) \in Nat
      /\ files # << >> => Checkpointed(files) \in 0..Len(files) - 1
    BY CheckpointedIs, LenProperties DEF TypeInv
<1>2. Len(ReadFiles) = Len(files) - Checkpointed(files)
    BY <1>1, ReadIs
<1>3. PICK start : InLog(start)
    BY ReadPlaces
<1>4. ASSUME NEW x \in 1..Len(files), x > Checkpointed(files)
      PROVE  /\ x - Checkpointed(files) \in 1..Len(ReadFiles)
             /\ ReadFiles[x - Checkpointed(files)] = files[x]
  <2>1. PICK h, l : h = Checkpointed(files) /\ l = Len(files)
      OBVIOUS
  <2>2. PICK i : i = x - h
      OBVIOUS
  <2>3. i \in 1..l - h /\ x = h + i
      BY <1>1, <1>4, <2>1, <2>2
  <2>4. i \in 1..Len(ReadFiles) /\ x = Checkpointed(files) + i
      BY <1>2, <2>1, <2>3
  <2>5. ReadFiles[i] = files[x]
      BY <1>3, <2>4, ReadFileIs
  <2>6. QED
      BY <2>1, <2>2, <2>4, <2>5
<1>5. ASSUME NEW x \in 1..Len(files), x > Checkpointed(files), NEW c \in 1..Len(files[x].mem)
      PROVE  \E p \in 1..Len(ReadFrames) : ReadFrames[p] = files[x].mem[c] /\ IsFrame(files[x].mem[c])
  <2>1. PICK i : i = x - Checkpointed(files)
      OBVIOUS
  <2>2. i \in 1..Len(ReadFiles) /\ ReadFiles[i] = files[x]
      BY <1>4, <1>5, <2>1
  <2>3. \A d \in 1..Len(ReadFiles[i].mem) :
          /\ start[i] + d \in 1..Len(ReadFrames) /\ ReadFrames[start[i] + d] = ReadFiles[i].mem[d]
          /\ IsFrame(ReadFiles[i].mem[d])
      BY <1>3, <2>2, ReadFileIs
  <2>4. /\ start[i] + c \in 1..Len(ReadFrames) /\ ReadFrames[start[i] + c] = files[x].mem[c]
        /\ IsFrame(files[x].mem[c])
      BY <2>2, <2>3
  <2>5. QED
      BY <2>4
<1>6. ASSUME NEW p \in 1..Len(ReadFrames)
      PROVE  \E x \in 1..Len(files) : \E c \in 1..Len(files[x].mem) : ReadFrames[p] = files[x].mem[c]
  <2>1. PICK i \in 1..Len(ReadFiles) : \E c \in 1..Len(ReadFiles[i].mem) : p = start[i] + c
      BY <1>3 DEF InLog
  <2>2. PICK c \in 1..Len(ReadFiles[i].mem) : p = start[i] + c
      BY <2>1
  <2>3. Checkpointed(files) + i \in 1..Len(files) /\ ReadFiles[i] = files[Checkpointed(files) + i]
      BY <1>3, ReadFileIs
  <2>4. ReadFrames[start[i] + c] = ReadFiles[i].mem[c]
      BY <1>3, ReadFileIs
  <2>5. PICK x : x = Checkpointed(files) + i
      OBVIOUS
  <2>6. x \in 1..Len(files) /\ c \in 1..Len(files[x].mem) /\ ReadFrames[p] = files[x].mem[c]
      BY <2>2, <2>3, <2>4, <2>5
  <2>7. QED
      BY <2>6
<1>7. ASSUME files # << >> PROVE Len(files) > Checkpointed(files) /\ Len(files) \in 1..Len(files)
    BY <1>1, <1>7
<1>8. ASSUME files # << >>, Len(ActiveFile.mem) # 0 PROVE ActiveFile.mem[Len(ActiveFile.mem)].end
  <2>1. PICK i : i = Len(files) - Checkpointed(files)
      OBVIOUS
  <2>2. i \in 1..Len(ReadFiles) /\ ReadFiles[i] = files[Len(files)]
      BY <1>4, <1>7, <1>8, <2>1
  <2>3. Len(ReadFiles[i].mem) # 0 => ReadFiles[i].mem[Len(ReadFiles[i].mem)].end
      BY <1>3, <2>2, ReadFileIs
  <2>4. ReadFiles[i] = ActiveFile
      BY <2>2 DEF ActiveFile, Active
  <2>5. QED
      BY <1>8, <2>3, <2>4
<1>9. QED
    BY <1>5, <1>6, <1>7, <1>8

\* The log that recovery rebuilds, number by number.
LEMMA RebuiltIs ==
    ASSUME TypeInv, NumbersInv, IntoWriter
    PROVE  /\ log' \in Seq(Nat) /\ Len(log') \in Nat /\ ckpt <= Len(log') /\ ResumeSeq = Len(log') + 1
           /\ \A s \in 1..ckpt : log'[s] = log[s]
           /\ \A s \in ckpt + 1..Len(log') :
                /\ \E p \in 1..Len(ReadFrames) : IsData(ReadFrames[p]) /\ s \in ReadFrames[p].first..ReadFrames[p].last
                /\ \A p \in 1..Len(ReadFrames) :
                     IsData(ReadFrames[p]) /\ s \in ReadFrames[p].first..ReadFrames[p].last =>
                       log'[s] = ReadFrames[p].op
<1>1. /\ phase = "repaired" /\ ReplayOK /\ log' = SubSeq(log, 1, ckpt) \o OpsOf(Replayed)
    BY DEF IntoWriter
<1>2. PICK a, b : a = SubSeq(log, 1, ckpt) /\ b = OpsOf(Replayed)
    OBVIOUS
<1>3. /\ a \in Seq(Nat) /\ b \in Seq(Nat) /\ Len(a) = ckpt /\ Len(b) \in Nat /\ log' = a \o b /\ ckpt \in Nat
      /\ log \in Seq(Nat) /\ Len(log) \in Nat /\ ckpt <= Len(log)
    BY <1>1, <1>2, ReplayedIs, LenProperties DEF TypeInv
<1>4. /\ a \o b \in Seq(Nat) /\ Len(a \o b) = ckpt + Len(b)
      /\ \A k \in 1..ckpt + Len(b) : (a \o b)[k] = IF k <= ckpt THEN a[k] ELSE b[k - ckpt]
    BY <1>3, ConcatProperties
<1>5. /\ ResumeSeq = ckpt + Len(b) + 1
      /\ \A k \in 1..Len(b) :
           \E p \in 1..Len(ReadFrames) : /\ IsData(ReadFrames[p])
                                         /\ ckpt + k \in ReadFrames[p].first..ReadFrames[p].last
                                         /\ b[k] = ReadFrames[p].op
  <2>1. files # << >> => files[Checkpointed(files) + 1].first <= ckpt + 1
      BY <1>1 DEF NumbersInv
  <2>2. QED
      BY <1>1, <1>2, <2>1, ReplayIs
<1>6. /\ log' \in Seq(Nat) /\ Len(log') \in Nat /\ ckpt <= Len(log') /\ ResumeSeq = Len(log') + 1
    BY <1>3, <1>4, <1>5
<1>7. ASSUME NEW s \in 1..ckpt PROVE log'[s] = log[s]
  <2>1. s \in 1..ckpt + Len(b) /\ s <= ckpt /\ s \in 1..Len(log)
      BY <1>3
  <2>2. log'[s] = a[s]
      BY <1>3, <1>4, <2>1
  <2>3. a[s] = log[s]
    <3>1. \A i \in 1..ckpt : SubSeq(log, 1, ckpt)[i] = log[1 + i - 1]
        BY <1>3, SubSeqProperties
    <3>2. 1 + s - 1 = s
        BY <1>3
    <3>3. QED
        BY <1>2, <3>1, <3>2
  <2>4. QED
      BY <2>2, <2>3
<1>8. ASSUME NEW s \in ckpt + 1..Len(log')
      PROVE  \E p \in 1..Len(ReadFrames) : /\ IsData(ReadFrames[p]) /\ s \in ReadFrames[p].first..ReadFrames[p].last
                                           /\ log'[s] = ReadFrames[p].op
  <2>1. PICK k : k = s - ckpt
      OBVIOUS
  <2>2. k \in 1..Len(b) /\ s = ckpt + k /\ s \in 1..ckpt + Len(b) /\ ~(s <= ckpt)
      BY <1>3, <1>4, <2>1
  <2>3. log'[s] = b[k]
      BY <1>3, <1>4, <2>1, <2>2
  <2>4. QED
      BY <1>5, <2>2, <2>3
<1>9. ASSUME NEW s \in Nat, NEW p \in 1..Len(ReadFrames), NEW q \in 1..Len(ReadFrames),
             IsData(ReadFrames[p]), s \in ReadFrames[p].first..ReadFrames[p].last,
             IsData(ReadFrames[q]), s \in ReadFrames[q].first..ReadFrames[q].last
      PROVE  p = q
  <2>1. /\ ReadFrames \in Seq(Cell) /\ Len(ReadFrames) \in Nat
        /\ \A k \in 1..Len(ReadFrames) : ReadFrames[k] \in Cell
      BY ReadIs, LenProperties, ElementOfSeq DEF TypeInv
  <2>2. FramesContinue(ReadFrames)
      BY <1>1 DEF ReplayOK
  <2>3. /\ ReadFrames[p].first \in Nat /\ ReadFrames[p].last \in Nat
        /\ ReadFrames[q].first \in Nat /\ ReadFrames[q].last \in Nat
      BY <1>9, <2>1, CellKinds
  <2>4. ~(p < q)
    <3>1. p < q => ReadFrames[p].last < ReadFrames[q].first
        BY <1>9, <2>1, <2>2, DataAscends
    <3>2. QED
        BY <1>9, <2>3, <3>1
  <2>5. ~(q < p)
    <3>1. q < p => ReadFrames[q].last < ReadFrames[p].first
        BY <1>9, <2>1, <2>2, DataAscends
    <3>2. QED
        BY <1>9, <2>3, <3>1
  <2>6. QED
      BY <2>1, <2>4, <2>5
<1>10. ASSUME NEW s \in ckpt + 1..Len(log')
       PROVE  /\ \E p \in 1..Len(ReadFrames) : IsData(ReadFrames[p]) /\ s \in ReadFrames[p].first..ReadFrames[p].last
              /\ \A p \in 1..Len(ReadFrames) :
                     IsData(ReadFrames[p]) /\ s \in ReadFrames[p].first..ReadFrames[p].last =>
                       log'[s] = ReadFrames[p].op
  <2>1. s \in Nat
      BY <1>3, <1>6
  <2>2. PICK q \in 1..Len(ReadFrames) : /\ IsData(ReadFrames[q]) /\ s \in ReadFrames[q].first..ReadFrames[q].last
                                        /\ log'[s] = ReadFrames[q].op
      BY <1>8
  <2>3. QED
      BY <1>9, <2>1, <2>2
<1>11. QED
    BY <1>6, <1>7, <1>10

\* Recovery finds every operation of the log.
LEMMA ReplayKeepsLog ==
    ASSUME TypeInv, NumbersInv, AckInv, IntoWriter
    PROVE  Len(log) <= Len(log') /\ \A s \in 1..Len(log) : log'[s] = log[s]
<1>1. phase = "repaired" /\ ReplayOK
    BY DEF IntoWriter
<1>2. /\ files \in Seq(WalFile) /\ Len(files) \in Nat /\ ckpt \in Nat /\ Checkpointed(files) \in Nat
      /\ \A j \in 1..Checkpointed(files) : files[j + 1].first <= ckpt + 1
      /\ files # << >> => Checkpointed(files) \in 0..Len(files) - 1
      /\ log \in Seq(Nat) /\ Len(log) \in Nat /\ ckpt <= Len(log)
      /\ \A i \in 1..Len(files) : files[i] \in WalFile /\ files[i].first \in Nat
    BY CheckpointedIs, LenProperties, ElementOfSeq, FileFields DEF TypeInv
<1>3. /\ Len(log') \in Nat /\ ckpt <= Len(log') /\ ResumeSeq = Len(log') + 1
      /\ \A s \in 1..ckpt : log'[s] = log[s]
      /\ \A s \in ckpt + 1..Len(log') : \A p \in 1..Len(ReadFrames) :
           IsData(ReadFrames[p]) /\ s \in ReadFrames[p].first..ReadFrames[p].last => log'[s] = ReadFrames[p].op
    BY RebuiltIs
<1>4. ASSUME NEW s \in ckpt + 1..Len(log) PROVE s <= Len(log') /\ log'[s] = log[s]
  <2>1. PICK i \in 1..Len(files) : \E n \in 1..Len(files[i].mem) : \E c \in 1..n : Kept(s, i, n, c)
      BY DEF AckInv, LogKept
  <2>2. PICK n \in 1..Len(files[i].mem) : \E c \in 1..n : Kept(s, i, n, c)
      BY <2>1
  <2>3. PICK c \in 1..n : Kept(s, i, n, c)
      BY <2>2
  <2>4. c \in 1..Len(files[i].mem)
    <3>1. Len(files[i].mem) \in Nat
        BY <1>2, FileFields
    <3>2. QED
        BY <3>1
  <2>5. i > Checkpointed(files)
    <3>1. SUFFICES ASSUME i <= Checkpointed(files) PROVE FALSE
        BY <1>2
    <3>2. i \in 1..Checkpointed(files) /\ i + 1 \in i + 1..Len(files) /\ i + 1 \in 1..Len(files)
      <4>1. files # << >>
          BY <2>1, EmptySeq
      <4>2. QED
          BY <1>2, <3>1, <4>1
    <3>3. files[i + 1].first <= ckpt + 1 /\ s < files[i + 1].first /\ files[i + 1].first \in Nat
        BY <1>2, <2>3, <3>2 DEF Kept
    <3>4. PICK x : x = files[i + 1].first
        OBVIOUS
    <3>5. x \in Nat /\ x <= ckpt + 1 /\ s < x /\ s \in ckpt + 1..Len(log)
        BY <3>3, <3>4
    <3>6. QED
        BY <1>2, <3>5
  <2>6. PICK p \in 1..Len(ReadFrames) : ReadFrames[p] = files[i].mem[c]
      BY <1>1, <2>4, <2>5, ReadsCells
  <2>7. /\ IsData(ReadFrames[p]) /\ ReadFrames[p].op = log[s]
        /\ s \in ReadFrames[p].first..ReadFrames[p].last
      BY <2>3, <2>6 DEF Kept
  <2>8. ReadFrames[p].last \in Nat /\ ReadFrames[p].first \in Nat
    <3>1. ReadFrames \in Seq(Cell)
        BY ReadIs DEF TypeInv
    <3>2. QED
        BY <2>7, <3>1, ElementOfSeq, CellKinds
  <2>9. ReadFrames[p].last < ResumeSeq
      BY <1>1, <2>7, ReadBelow
  <2>10. s <= Len(log')
      BY <1>2, <1>3, <2>7, <2>8, <2>9
  <2>11. s \in ckpt + 1..Len(log')
      BY <1>2, <1>3, <2>10
  <2>12. QED
      BY <1>3, <2>7, <2>10, <2>11
<1>5. Len(log) <= Len(log')
  <2>1. CASE ckpt = Len(log)
      BY <1>3, <2>1
  <2>2. CASE ckpt < Len(log)
    <3>1. Len(log) \in ckpt + 1..Len(log)
        BY <1>2, <2>2
    <3>2. QED
        BY <1>4, <3>1
  <2>3. QED
      BY <1>2, <2>1, <2>2
<1>6. \A s \in 1..Len(log) : s \in 1..ckpt \/ s \in ckpt + 1..Len(log)
    BY <1>2
<1>7. QED
    BY <1>3, <1>4, <1>5, <1>6

\* Recovery decides the group without an answer: the log it rebuilds has all of it, or ends where it did.
LEMMA ReplayDecides ==
    ASSUME TypeInv, NumbersInv, AckInv, OpenInv, IntoWriter
    PROVE  log' \in {log, log \o pending}
<1>1. phase = "repaired" /\ ReplayOK
    BY DEF IntoWriter
<1>2. /\ files \in Seq(WalFile) /\ Len(files) \in Nat /\ ckpt \in Nat /\ log \in Seq(Nat) /\ Len(log) \in Nat
      /\ ckpt <= Len(log) /\ pending \in Seq(Nat) /\ Len(pending) \in Nat
      /\ \A i \in 1..Len(files) : /\ files[i] \in WalFile /\ Len(files[i].mem) \in Nat
                                  /\ \A c \in 1..Len(files[i].mem) : files[i].mem[c] \in Cell
    BY LenProperties, ElementOfSeq, FileFields DEF TypeInv
<1>3. /\ log' \in Seq(Nat) /\ Len(log') \in Nat /\ ckpt <= Len(log') /\ ResumeSeq = Len(log') + 1
      /\ \A s \in ckpt + 1..Len(log') :
           /\ \E p \in 1..Len(ReadFrames) : IsData(ReadFrames[p]) /\ s \in ReadFrames[p].first..ReadFrames[p].last
           /\ \A p \in 1..Len(ReadFrames) :
                IsData(ReadFrames[p]) /\ s \in ReadFrames[p].first..ReadFrames[p].last => log'[s] = ReadFrames[p].op
    BY RebuiltIs
<1>4. Len(log) <= Len(log') /\ \A s \in 1..Len(log) : log'[s] = log[s]
    BY ReplayKeepsLog
<1>5. \A p \in 1..Len(ReadFrames) : ReadFrames[p] \in Cell
  <2>1. ReadFrames \in Seq(Cell)
      BY <1>2, ReadIs
  <2>2. QED
      BY <2>1, ElementOfSeq
<1>6. \A p \in 1..Len(ReadFrames) :
        \E x \in 1..Len(files) : \E c \in 1..Len(files[x].mem) : ReadFrames[p] = files[x].mem[c]
    BY <1>1, ReadsCells
<1>7. CASE \A p \in 1..Len(ReadFrames) : IsData(ReadFrames[p]) => ReadFrames[p].last <= Len(log)
  <2>1. Len(log') <= Len(log)
    <3>1. SUFFICES ASSUME Len(log') > Len(log) PROVE FALSE
        BY <1>2, <1>3
    <3>2. PICK s : s = Len(log')
        OBVIOUS
    <3>3. s \in ckpt + 1..Len(log') /\ s > Len(log) /\ s \in Nat
        BY <1>2, <1>3, <3>1, <3>2
    <3>4. PICK p \in 1..Len(ReadFrames) : IsData(ReadFrames[p]) /\ s \in ReadFrames[p].first..ReadFrames[p].last
        BY <1>3, <3>3
    <3>5. ReadFrames[p].last \in Nat /\ ReadFrames[p].last <= Len(log)
        BY <1>5, <1>7, <3>4, CellKinds
    <3>6. QED
        BY <1>2, <3>3, <3>4, <3>5
  <2>2. Len(log') = Len(log)
      BY <1>2, <1>3, <1>4, <2>1
  <2>3. log' = log
      BY <1>2, <1>3, <1>4, <2>2, SeqEqual
  <2>4. QED
      BY <2>3
<1>8. CASE \E p \in 1..Len(ReadFrames) : IsData(ReadFrames[p]) /\ ~(ReadFrames[p].last <= Len(log))
  <2>1. ASSUME NEW p \in 1..Len(ReadFrames), IsData(ReadFrames[p]), ~(ReadFrames[p].last <= Len(log))
        PROVE  /\ files # << >>
               /\ \E c \in 1..Len(ActiveFile.mem) : ReadFrames[p] = ActiveFile.mem[c]
    <3>1. PICK x \in 1..Len(files) : \E c \in 1..Len(files[x].mem) : ReadFrames[p] = files[x].mem[c]
        BY <1>6
    <3>2. PICK c \in 1..Len(files[x].mem) : ReadFrames[p] = files[x].mem[c]
        BY <3>1
    <3>3. ~LogsUpTo(files[x], Len(log))
      <4>1. Holds(files[x], c, ReadFrames[p])
          BY <3>2 DEF Holds
      <4>2. QED
          BY <2>1, <4>1 DEF LogsUpTo
    <3>4. x \notin 1..Len(files) - 1
        BY <3>3 DEF OpenInv, PastInv
    <3>5. x = Len(files)
        BY <1>2, <3>4
    <3>6. files # << >>
        BY <1>2, <3>5, EmptySeq
    <3>7. files[x] = ActiveFile
        BY <3>5 DEF ActiveFile, Active
    <3>8. QED
        BY <3>2, <3>6, <3>7
  <2>2. PICK q \in 1..Len(ReadFrames) : IsData(ReadFrames[q]) /\ ~(ReadFrames[q].last <= Len(log))
      BY <1>8
  <2>3. PICK c \in 1..Len(ActiveFile.mem) : ReadFrames[q] = ActiveFile.mem[c]
      BY <2>1, <2>2
  <2>4. /\ files # << >> /\ ActiveFile \in WalFile /\ ActiveFile = files[Len(files)] /\ Len(files) \in 1..Len(files)
        /\ Len(ActiveFile.mem) \in Nat
      BY <1>2, <2>1, <2>2, ActiveIs, FileFields DEF ActiveFile, Active
  <2>5. \A d \in 1..Len(ActiveFile.mem) : Holds(ActiveFile, d, ActiveFile.mem[d])
      BY DEF Holds
  <2>6. ~LogsUpTo(ActiveFile, Len(log))
      BY <2>2, <2>3, <2>5 DEF LogsUpTo
  <2>7. PICK fr : \E b \in Nat : OpenGroup(fr) /\ PartOf(ActiveFile, Len(log), b, fr)
      BY <2>4, <2>6 DEF OpenInv, PastInv, Unanswered
  <2>8. PICK b \in Nat : OpenGroup(fr) /\ PartOf(ActiveFile, Len(log), b, fr)
      BY <2>7
  <2>9. PICK op \in Nat : IsGroup(fr, op, Len(log) + 1) /\ pending = OpsOf(fr)
      BY <2>8 DEF OpenGroup
  <2>10. /\ \A k \in 1..Len(pending) : pending[k] = op
         /\ \A i \in 1..Len(fr) : IsData(fr[i]) => fr[i].last + 1 <= Len(log) + 1 + Len(pending)
         /\ Len(pending) # 0 => \E i \in 1..Len(fr) : IsData(fr[i]) /\ fr[i].last + 1 >= Len(log) + 1 + Len(pending)
    <3>1. Len(log) + 1 \in Nat
        BY <1>2
    <3>2. QED
        BY <2>9, <3>1, GroupOps
  <2>11. /\ Len(fr) \in Nat /\ \A i \in 1..Len(fr) : fr[i] \in Cell
         /\ \A i \in 1..Len(fr) : fr[i].end <=> i = Len(fr)
         /\ \A i \in 1..Len(fr) : IsData(fr[i]) => fr[i].op = op
      BY <2>9, ElementOfSeq DEF IsGroup
  <2>12. \A d \in 1..Len(ActiveFile.mem) : ActiveFile.mem[d] # Torn
    <3>1. \A d \in 1..Len(ActiveFile.mem) : IsFrame(ActiveFile.mem[d])
        BY <1>1, <2>4, ReadsCells
    <3>2. ~IsFrame(Torn)
        BY <2>11, <1>5, <2>2, CellKinds
    <3>3. QED
        BY <3>1, <3>2
  <2>13. \A d \in 1..Len(ActiveFile.mem) :
           IF d <= b THEN IsData(ActiveFile.mem[d]) => ActiveFile.mem[d].last <= Len(log)
           ELSE d - b \in 1..Len(fr) /\ ActiveFile.mem[d] = fr[d - b]
      BY <2>5, <2>8, <2>12 DEF PartOf
  <2>14. ASSUME NEW p \in 1..Len(ReadFrames), IsData(ReadFrames[p]), ~(ReadFrames[p].last <= Len(log))
         PROVE  \E i \in 1..Len(fr) : ReadFrames[p] = fr[i] /\ IsData(fr[i])
    <3>1. PICK d \in 1..Len(ActiveFile.mem) : ReadFrames[p] = ActiveFile.mem[d]
        BY <2>1, <2>14
    <3>2. d - b \in 1..Len(fr) /\ ReadFrames[p] = fr[d - b]
        BY <2>13, <2>14, <3>1
    <3>3. QED
        BY <2>14, <3>2
  <2>15. c > b
      BY <2>2, <2>3, <2>4, <2>8, <2>13
  <2>16. PICK m : m = Len(ActiveFile.mem)
      OBVIOUS
  <2>17. m \in Nat /\ c \in 1..m /\ m \in 1..m /\ m > b /\ ~(m <= b)
      BY <2>4, <2>8, <2>15, <2>16
  <2>18. m - b = Len(fr)
    <3>1. m - b \in 1..Len(fr) /\ ActiveFile.mem[m] = fr[m - b]
        BY <2>13, <2>16, <2>17
    <3>2. ActiveFile.mem[m].end
      <4>1. Len(ActiveFile.mem) # 0
          BY <2>16, <2>17
      <4>2. QED
          BY <1>1, <2>4, <2>16, <4>1, ReadsCells
    <3>3. QED
        BY <2>11, <3>1, <3>2
  <2>19. \A i \in 1..Len(fr) : b + i \in 1..m /\ ActiveFile.mem[b + i] = fr[i]
    <3>1. ASSUME NEW i \in 1..Len(fr) PROVE b + i \in 1..m /\ ~(b + i <= b) /\ (b + i) - b = i
        BY <2>8, <2>11, <2>17, <2>18
    <3>2. QED
        BY <2>13, <2>16, <3>1
  <2>20. Len(pending) # 0
    <3>1. PICK i \in 1..Len(fr) : ReadFrames[q] = fr[i] /\ IsData(fr[i])
        BY <2>2, <2>14
    <3>2. fr[i].last \in Nat /\ fr[i].last + 1 <= Len(log) + 1 + Len(pending) /\ ~(fr[i].last <= Len(log))
        BY <2>2, <2>10, <2>11, <3>1, CellKinds
    <3>3. QED
        BY <1>2, <3>2
  <2>21. Len(log) + Len(pending) <= Len(log')
    <3>1. PICK i \in 1..Len(fr) : IsData(fr[i]) /\ fr[i].last + 1 >= Len(log) + 1 + Len(pending)
        BY <2>10, <2>20
    <3>2. b + i \in 1..Len(ActiveFile.mem) /\ ActiveFile.mem[b + i] = fr[i]
        BY <2>16, <2>19
    <3>3. PICK p \in 1..Len(ReadFrames) : ReadFrames[p] = fr[i]
      <4>1. Len(files) > Checkpointed(files)
          BY <1>1, <2>4, ReadsCells
      <4>2. \A c2 \in 1..Len(files[Len(files)].mem) :
              \E p \in 1..Len(ReadFrames) : ReadFrames[p] = files[Len(files)].mem[c2]
          BY <1>1, <2>4, <4>1, ReadsCells
      <4>3. QED
          BY <2>4, <3>2, <4>2
    <3>4. fr[i].last < ResumeSeq
        BY <1>1, <3>1, <3>3, ReadBelow
    <3>5. fr[i].last \in Nat
        BY <2>11, <3>1, CellKinds
    <3>6. PICK x, l : x = fr[i].last /\ l = Len(log')
        OBVIOUS
    <3>7. x \in Nat /\ l \in Nat /\ x + 1 >= Len(log) + 1 + Len(pending) /\ x < l + 1
        BY <1>3, <3>1, <3>4, <3>5, <3>6
    <3>8. Len(log) + Len(pending) <= l
        BY <1>2, <3>7
    <3>9. QED
        BY <3>6, <3>8
  <2>22. Len(log') <= Len(log) + Len(pending)
    <3>1. SUFFICES ASSUME Len(log') > Len(log) + Len(pending) PROVE FALSE
        BY <1>2, <1>3
    <3>2. PICK s : s = Len(log')
        OBVIOUS
    <3>3. s \in ckpt + 1..Len(log') /\ s > Len(log) + Len(pending) /\ s > Len(log) /\ s \in Nat
        BY <1>2, <1>3, <3>1, <3>2
    <3>4. PICK p \in 1..Len(ReadFrames) : IsData(ReadFrames[p]) /\ s \in ReadFrames[p].first..ReadFrames[p].last
        BY <1>3, <3>3
    <3>5. ReadFrames[p].last \in Nat /\ s <= ReadFrames[p].last
      <4>1. ReadFrames[p].last \in Nat /\ ReadFrames[p].first \in Nat
          BY <1>5, <3>4, CellKinds
      <4>2. QED
          BY <3>4, <4>1
    <3>6. PICK i \in 1..Len(fr) : ReadFrames[p] = fr[i] /\ IsData(fr[i])
      <4>1. ~(ReadFrames[p].last <= Len(log))
          BY <1>2, <3>3, <3>5
      <4>2. QED
          BY <2>14, <3>4, <4>1
    <3>7. ReadFrames[p].last + 1 <= Len(log) + 1 + Len(pending)
        BY <2>10, <3>6
    <3>8. PICK x : x = ReadFrames[p].last
        OBVIOUS
    <3>9. x \in Nat /\ s <= x /\ x + 1 <= Len(log) + 1 + Len(pending)
        BY <3>5, <3>7, <3>8
    <3>10. s \in Nat /\ s > Len(log) + Len(pending)
        BY <3>3
    <3>11. QED
        BY <1>2, <3>9, <3>10
  <2>23. Len(log') = Len(log) + Len(pending)
      BY <1>2, <1>3, <2>21, <2>22
  <2>24. ASSUME NEW k \in 1..Len(pending) PROVE log'[Len(log) + k] = pending[k]
    <3>1. PICK s : s = Len(log) + k
        OBVIOUS
    <3>2. s \in ckpt + 1..Len(log') /\ s > Len(log) /\ s \in Nat
        BY <1>2, <2>23, <3>1
    <3>3. PICK p \in 1..Len(ReadFrames) : IsData(ReadFrames[p]) /\ s \in ReadFrames[p].first..ReadFrames[p].last
        BY <1>3, <3>2
    <3>4. log'[s] = ReadFrames[p].op
        BY <1>3, <3>2, <3>3
    <3>5. ~(ReadFrames[p].last <= Len(log))
      <4>1. ReadFrames[p].last \in Nat /\ ReadFrames[p].first \in Nat
          BY <1>5, <3>3, CellKinds
      <4>2. QED
          BY <1>2, <3>2, <3>3, <4>1
    <3>6. PICK i \in 1..Len(fr) : ReadFrames[p] = fr[i] /\ IsData(fr[i])
        BY <2>14, <3>3, <3>5
    <3>7. QED
        BY <2>10, <2>11, <3>1, <3>4, <3>6
  <2> DEFINE both == log \o pending
  <2>25. /\ both \in Seq(Nat) /\ Len(both) = Len(log) + Len(pending)
         /\ \A s \in 1..Len(log) + Len(pending) : both[s] = IF s <= Len(log) THEN log[s] ELSE pending[s - Len(log)]
      BY <1>2, ConcatProperties
  <2> HIDE DEF both
  <2>26. ASSUME NEW s \in 1..Len(log') PROVE log'[s] = both[s]
    <3>1. CASE s <= Len(log)
      <4>1. s \in 1..Len(log) /\ s \in 1..Len(log) + Len(pending)
          BY <1>2, <2>23, <3>1
      <4>2. QED
          BY <1>4, <2>25, <3>1, <4>1
    <3>2. CASE ~(s <= Len(log))
      <4>1. PICK k : k = s - Len(log)
          OBVIOUS
      <4>2. k \in 1..Len(pending) /\ s = Len(log) + k /\ s \in 1..Len(log) + Len(pending)
          BY <1>2, <2>23, <3>2, <4>1
      <4>3. both[s] = pending[k]
          BY <2>25, <3>2, <4>1, <4>2
      <4>4. QED
          BY <2>24, <4>2, <4>3
    <3>3. QED
        BY <3>1, <3>2
  <2>27. log' = both
      BY <1>3, <2>23, <2>25, <2>26, SeqEqual
  <2>28. QED
      BY <2>27 DEF both
<1>9. QED
    BY <1>7, <1>8

\* A file that gets no other cells stays as far within the log.
LEMMA UpToLess ==
    ASSUME NEW f, NEW g, NoMore(f, g), NEW n
    PROVE  /\ LogsUpTo(f, n) => LogsUpTo(g, n)
           /\ \A b, fr : PartOf(f, n, b, fr) => PartOf(g, n, b, fr)
<1>1. ~IsData(Torn)
    BY DEF IsData, Torn
<1>2. ASSUME LogsUpTo(f, n) PROVE LogsUpTo(g, n)
    BY <1>1, <1>2 DEF LogsUpTo, NoMore
<1>3. ASSUME NEW b, NEW fr, PartOf(f, n, b, fr) PROVE PartOf(g, n, b, fr)
    BY <1>3 DEF PartOf, NoMore
<1>4. QED
    BY <1>2, <1>3

\* The cells of a file are cells.
LEMMA HoldsCell ==
    ASSUME NEW f \in WalFile, NEW c, NEW cell, Holds(f, c, cell)
    PROVE  cell \in Cell /\ c \in Nat
    BY FileFields DEF Holds

LEMMA UpToMore ==
    ASSUME NEW f \in WalFile, NEW n \in Nat, NEW m \in Nat, n <= m, LogsUpTo(f, n)
    PROVE  LogsUpTo(f, m)
<1>1. ASSUME NEW c, NEW cell, Holds(f, c, cell), IsData(cell) PROVE cell.last <= m
  <2>1. cell \in Cell
      BY <1>1, HoldsCell
  <2>2. cell.last \in Nat
      BY <1>1, <2>1, CellKinds
  <2>3. cell.last <= n
      BY <1>1 DEF LogsUpTo
  <2>4. QED
      BY <2>2, <2>3
<1>2. QED
    BY <1>1 DEF LogsUpTo

\* A file without a data frame.
LEMMA NoData ==
    ASSUME NEW f, \A c \in 1..Len(f.mem) : ~IsData(f.mem[c]), \A c \in 1..Len(f.dev) : ~IsData(f.dev[c]), NEW n
    PROVE  LogsUpTo(f, n)
    BY DEF LogsUpTo, Holds

\* Counting the group without an answer, no file has a number past the log; without such a group, all is logged.
LEMMA AllUpTo ==
    ASSUME TypeInv, OpenInv
    PROVE  /\ \A i \in 1..Len(gone) : gone[i] \in WalFile /\ LogsUpTo(gone[i], Len(log))
           /\ \A i \in 1..Len(files) : files[i] \in WalFile /\ LogsUpTo(files[i], Len(log) + Len(pending))
           /\ pending = << >> => \A i \in 1..Len(files) : LogsUpTo(files[i], Len(log))
           /\ Len(log) \in Nat /\ Len(pending) \in Nat
<1>1. /\ files \in Seq(WalFile) /\ gone \in Seq(WalFile) /\ Len(files) \in Nat
      /\ Len(log) \in Nat /\ Len(pending) \in Nat /\ Len(log) + Len(pending) \in Nat /\ Len(log) <= Len(log) + Len(pending)
      /\ \A i \in 1..Len(files) : files[i] \in WalFile
    BY LenProperties, ElementOfSeq DEF TypeInv
<1>2. \A i \in 1..Len(gone) : gone[i] \in WalFile /\ LogsUpTo(gone[i], Len(log))
    BY <1>1, ElementOfSeq DEF OpenInv, PastInv
<1>3. ASSUME files # << >> PROVE LogsUpTo(ActiveFile, Len(log) + Len(pending))
  <2>1. ActiveFile \in WalFile
      BY <1>1, <1>3, ActiveIs DEF ActiveFile
  <2>2. CASE LogsUpTo(ActiveFile, Len(log))
      BY <1>1, <2>1, <2>2, UpToMore
  <2>3. CASE Unanswered
    <3>1. PICK fr : \E b \in Nat : OpenGroup(fr) /\ PartOf(ActiveFile, Len(log), b, fr)
        BY <2>3 DEF Unanswered
    <3>2. PICK b \in Nat : OpenGroup(fr) /\ PartOf(ActiveFile, Len(log), b, fr)
        BY <3>1
    <3>3. PICK op \in Nat : IsGroup(fr, op, Len(log) + 1) /\ pending = OpsOf(fr)
        BY <3>2 DEF OpenGroup
    <3>4. \A i \in 1..Len(fr) : IsData(fr[i]) => fr[i].last + 1 <= Len(log) + 1 + Len(pending)
      <4>1. Len(log) + 1 \in Nat
          BY <1>1
      <4>2. QED
          BY <3>3, <4>1, GroupOps
    <3>5. ASSUME NEW c, NEW cell, Holds(ActiveFile, c, cell), IsData(cell)
          PROVE  cell.last <= Len(log) + Len(pending)
      <4>1. cell \in Cell /\ cell # Torn /\ cell.last \in Nat
          BY <2>1, <3>5, HoldsCell, CellKinds
      <4>2. IF c <= b THEN cell.last <= Len(log) ELSE c - b \in 1..Len(fr) /\ cell = fr[c - b]
          BY <3>2, <3>5, <4>1 DEF PartOf
      <4>3. cell.last <= Len(log) \/ cell.last + 1 <= Len(log) + 1 + Len(pending)
          BY <3>4, <3>5, <4>2
      <4>4. QED
          BY <1>1, <4>1, <4>3
    <3>6. QED
        BY <3>5 DEF LogsUpTo
  <2>4. QED
      BY <1>3, <2>2, <2>3 DEF OpenInv, PastInv
<1>4. ASSUME NEW i \in 1..Len(files) PROVE LogsUpTo(files[i], Len(log) + Len(pending))
  <2>1. CASE i \in 1..Len(files) - 1
    <3>1. LogsUpTo(files[i], Len(log))
        BY <2>1 DEF OpenInv, PastInv
    <3>2. QED
        BY <1>1, <3>1, UpToMore
  <2>2. CASE i = Len(files)
    <3>1. files # << >> /\ files[i] = ActiveFile
        BY <1>1, <2>2, EmptySeq DEF ActiveFile, Active
    <3>2. QED
        BY <1>3, <3>1
  <2>3. QED
      BY <1>1, <2>1, <2>2
<1>5. ASSUME pending = << >> PROVE \A i \in 1..Len(files) : LogsUpTo(files[i], Len(log))
  <2>1. Len(pending) = 0
      BY <1>5, EmptySeq
  <2>2. Len(log) + Len(pending) = Len(log)
      BY <1>1, <2>1
  <2>3. QED
      BY <1>4, <2>2
<1>6. QED
    BY <1>1, <1>2, <1>4, <1>5

LEMMA HistSame ==
    ASSUME HistInv, log' = log, attempts' = attempts,
           pending' = << >> \/ (pending' = pending /\ (phase' \in {"idle"} \cup Rotating => phase \in {"idle"} \cup Rotating))
    PROVE  HistInv'
    BY DEF HistInv

\* The history stays, and every file holds at most what it did.
LEMMA OpenSame ==
    ASSUME TypeInv, OpenInv, log' = log, attempts' = attempts, pending' = pending,
           Len(files') = Len(files), \A i \in 1..Len(files) : NoMore(files[i], files'[i]),
           gone' = gone \/ gone' = << >>,
           phase' \in InFlight => phase \in InFlight /\ synced' = synced,
           phase' \in {"idle"} \cup Rotating => phase \in {"idle"} \cup Rotating,
           EndInv'
    PROVE  OpenInv'
<1>1. Len(files) \in Nat /\ Len(<< >>) = 0
    BY ActiveIs, EmptySeq DEF TypeInv
<1>2. \A i \in 1..Len(gone') : LogsUpTo(gone'[i], Len(log'))
    BY <1>1 DEF OpenInv, PastInv
<1>3. \A i \in 1..Len(files') - 1 : LogsUpTo(files'[i], Len(log'))
  <2>1. \A i \in 1..Len(files) - 1 : i \in 1..Len(files) /\ LogsUpTo(files[i], Len(log))
      BY <1>1 DEF OpenInv, PastInv
  <2>2. QED
      BY <2>1, UpToLess
<1>4. ASSUME files' # << >> PROVE LogsUpTo(ActiveFile', Len(log')) \/ Unanswered'
  <2>1. files # << >> /\ Len(files) \in 1..Len(files)
    <3>1. CASE files = << >>
      <4>1. Len(files') = 0
          BY <1>1, <3>1
      <4>2. QED
          BY <1>4, <4>1, EmptySeq
    <3>2. CASE files # << >>
        BY <3>2, ActiveIs DEF TypeInv, Active
    <3>3. QED
        BY <3>1, <3>2
  <2>2. NoMore(ActiveFile, ActiveFile')
      BY <2>1 DEF ActiveFile, Active
  <2>3. CASE LogsUpTo(ActiveFile, Len(log))
      BY <2>2, <2>3, UpToLess
  <2>4. CASE Unanswered
    <3>1. PICK fr : \E b \in Nat : /\ OpenGroup(fr) /\ PartOf(ActiveFile, Len(log), b, fr)
                                   /\ phase \in InFlight => b = synced
        BY <2>4 DEF Unanswered
    <3>2. PICK b \in Nat : /\ OpenGroup(fr) /\ PartOf(ActiveFile, Len(log), b, fr)
                           /\ phase \in InFlight => b = synced
        BY <3>1
    <3>3. PartOf(ActiveFile', Len(log), b, fr)
        BY <2>2, <3>2, UpToLess
    <3>4. OpenGroup(fr)'
        BY <3>2 DEF OpenGroup
    <3>5. phase' \in InFlight => b = synced'
        BY <3>2
    <3>6. PartOf(ActiveFile, Len(log), b, fr)'
        BY <3>3 DEF PartOf
    <3>7. Unanswered'
        BY <3>4, <3>5, <3>6 DEF Unanswered
    <3>8. QED
        BY <3>7
  <2>5. QED
      BY <2>1, <2>3, <2>4 DEF OpenInv, PastInv
<1>5. PastInv'
    BY <1>2, <1>3, <1>4 DEF PastInv
<1>6. HistInv'
    BY HistSame DEF OpenInv
<1>7. QED
    BY <1>5, <1>6 DEF OpenInv

\* No file has a number past the log.
LEMMA OpenAll ==
    ASSUME files' \in Seq(WalFile), EndInv', HistInv',
           \A i \in 1..Len(files') : LogsUpTo(files'[i], Len(log')),
           \A i \in 1..Len(gone') : LogsUpTo(gone'[i], Len(log'))
    PROVE  OpenInv'
<1>1. Len(files') \in Nat
    BY LenProperties
<1>2. \A i \in 1..Len(files') - 1 : LogsUpTo(files'[i], Len(log'))
    BY <1>1
<1>3. ASSUME files' # << >> PROVE LogsUpTo(ActiveFile', Len(log'))
  <2>1. Len(files') \in 1..Len(files')
      BY <1>1, <1>3, EmptySeq
  <2>2. ActiveFile' = files'[Len(files')]
      BY DEF ActiveFile, Active
  <2>3. QED
      BY <2>1, <2>2
<1>4. PastInv'
    BY <1>2, <1>3 DEF PastInv
<1>5. QED
    BY <1>4 DEF OpenInv

-----------------------------------------------------------------------------
(* OpenInv, action by action. *)

\* A group goes after the last cell that anyone can see, and its numbers after the log.
LEMMA AppendGroupOpen ==
    ASSUME TypeInv, PhaseInv, NumbersInv, OpenInv, NEW shape \in Shapes, AppendGroup(shape)
    PROVE  OpenInv'
<1>1. /\ phase = "idle" /\ attempts' = attempts + 1 /\ attempts < MaxAttempts
      /\ pending' = OpsOf(GroupFrames(shape, attempts + 1))
      /\ gone' = gone /\ log' = log /\ synced' = synced /\ phase' \in {"appended", "rolling"}
    BY DEF AppendGroup, writer
<1>2. /\ files \in Seq(WalFile) /\ Len(files) \in Nat /\ attempts \in Nat /\ synced \in Nat /\ Len(log) \in Nat
      /\ MaxAttempts \in Nat /\ nextSeq = Len(log) + 1 /\ pending = << >>
    BY <1>1, ActiveIs, LenProperties, BoundsAssumption DEF TypeInv, NumbersInv, Grouping, OpenInv, HistInv
<1>3. files # << >> /\ synced = Len(ActiveFile.mem) /\ Len(ActiveFile.dev) <= synced
    BY <1>1 DEF PhaseInv, Grouping, ActiveFile, OpenInv, EndInv
<1>4. ActiveFile \in WalFile /\ ActiveFile = files[Len(files)] /\ Len(files) \in 1..Len(files)
    BY <1>2, <1>3, ActiveIs DEF ActiveFile, Active
<1>5. PICK fr : fr = GroupFrames(shape, attempts + 1)
    OBVIOUS
<1>6. IsGroup(fr, attempts + 1, nextSeq)
    BY <1>5, AppendGroupDoes
<1>7. PICK cells \in Seq(Cell) :
        /\ ActiveBecomes(Appended(ActiveFile, cells))
        /\ Len(cells) <= Len(fr) /\ \A i \in 1..Len(cells) : cells[i] = fr[i]
    BY <1>5, AppendGroupDoes
<1>8. PICK g : g = Appended(ActiveFile, cells)
    OBVIOUS
<1>9. /\ g.dev = ActiveFile.dev /\ Len(g.mem) = synced + Len(cells) /\ Len(cells) \in Nat
      /\ \A c \in 1..synced : g.mem[c] = ActiveFile.mem[c]
      /\ \A c \in 1..Len(cells) : g.mem[synced + c] = cells[c]
      /\ Len(ActiveFile.dev) \in Nat
  <2>1. /\ Appended(ActiveFile, cells).dev = ActiveFile.dev
        /\ Len(Appended(ActiveFile, cells).mem) = Len(ActiveFile.mem) + Len(cells) /\ Len(cells) \in Nat
        /\ \A c \in 1..Len(ActiveFile.mem) : Appended(ActiveFile, cells).mem[c] = ActiveFile.mem[c]
        /\ \A c \in 1..Len(cells) : Appended(ActiveFile, cells).mem[Len(ActiveFile.mem) + c] = cells[c]
      BY <1>4, AppendedIs
  <2>2. Len(ActiveFile.dev) \in Nat
      BY <1>4, FileFields
  <2>3. QED
      BY <1>3, <1>8, <2>1, <2>2
<1>10. LogsUpTo(ActiveFile, Len(log)) /\ \A i \in 1..Len(files) : LogsUpTo(files[i], Len(log))
    BY <1>2, <1>4, AllUpTo
<1>11. Len(fr) \in Nat
    BY <1>6 DEF IsGroup
<1>12. PartOf(g, Len(log), synced, fr)
  <2>1. ASSUME NEW c, NEW cell, Holds(g, c, cell), cell # Torn
        PROVE  IF c <= synced THEN IsData(cell) => cell.last <= Len(log)
               ELSE c - synced \in 1..Len(fr) /\ cell = fr[c - synced]
    <3>1. CASE c \in 1..Len(g.dev) /\ g.dev[c] = cell
      <4>1. c <= synced /\ Holds(ActiveFile, c, cell)
          BY <1>2, <1>3, <1>9, <3>1 DEF Holds
      <4>2. QED
          BY <1>10, <4>1 DEF LogsUpTo
    <3>2. CASE c \in 1..Len(g.mem) /\ g.mem[c] = cell /\ c <= synced
      <4>1. c \in 1..Len(ActiveFile.mem) /\ ActiveFile.mem[c] = cell
          BY <1>2, <1>3, <1>9, <3>2
      <4>2. Holds(ActiveFile, c, cell)
          BY <4>1 DEF Holds
      <4>3. QED
          BY <1>10, <3>2, <4>2 DEF LogsUpTo
    <3>3. CASE c \in 1..Len(g.mem) /\ g.mem[c] = cell /\ ~(c <= synced)
      <4>1. PICK k : k = c - synced
          OBVIOUS
      <4>2. k \in 1..Len(cells) /\ k \in 1..Len(fr) /\ synced + k = c
          BY <1>2, <1>7, <1>9, <1>11, <3>3, <4>1
      <4>3. cell = fr[k]
          BY <1>7, <1>9, <3>3, <4>2
      <4>4. QED
          BY <3>3, <4>1, <4>2, <4>3
    <3>4. QED
        BY <2>1, <3>1, <3>2, <3>3 DEF Holds
  <2>2. QED
      BY <2>1 DEF PartOf
<1>13. files' # << >> /\ Len(files') = Len(files) /\ ActiveFile' = g /\ \A i \in 1..Len(files) - 1 : files'[i] = files[i]
    BY <1>7, <1>8 DEF ActiveBecomes, ActiveFile, Active
<1>14. OpenGroup(fr)'
  <2>1. PICK op : op = attempts + 1
      OBVIOUS
  <2>2. op \in Nat /\ IsGroup(fr, op, Len(log') + 1) /\ pending' = OpsOf(fr)
      BY <1>1, <1>2, <1>5, <1>6, <2>1
  <2>3. QED
      BY <2>2 DEF OpenGroup
<1>15. Unanswered'
  <2>1. PICK b : b = synced
      OBVIOUS
  <2>2. b \in Nat /\ PartOf(ActiveFile', Len(log'), b, fr) /\ b = synced'
      BY <1>1, <1>2, <1>12, <1>13, <2>1
  <2>3. QED
      BY <1>14, <2>2 DEF Unanswered, PartOf
<1>16. PastInv'
  <2>1. \A i \in 1..Len(gone') : LogsUpTo(gone'[i], Len(log'))
      BY <1>1 DEF OpenInv, PastInv
  <2>2. \A i \in 1..Len(files') - 1 : LogsUpTo(files'[i], Len(log'))
      BY <1>1, <1>13 DEF OpenInv, PastInv
  <2>3. QED
      BY <1>15, <2>1, <2>2 DEF PastInv
<1>17. HistInv'
  <2>1. \A s \in 1..Len(log) : log[s] \in 1..attempts
      BY DEF OpenInv, HistInv
  <2>2. \A x \in 1..attempts : x \in 1..attempts + 1
      BY <1>2
  <2>3. attempts + 1 <= MaxAttempts
      BY <1>1, <1>2
  <2>4. QED
      BY <1>1, <2>1, <2>2, <2>3 DEF HistInv, Rotating
<1>18. QED
    BY <1>1, <1>16, <1>17 DEF OpenInv, EndInv

\* Of the files a reboot leaves, only the last can have been the active one.
LEMMA RebootOpen ==
    ASSUME TypeInv, OpenInv, Reboot
    PROVE  OpenInv'
<1>1. /\ attempts' = attempts /\ pending' = pending /\ log' = log /\ gone' = << >> /\ phase' = "down"
    BY DEF Reboot, history
<1>2. PICK place : Survives(place)
    BY RebootIs DEF TypeInv
<1>3. /\ gone \in Seq(WalFile) /\ files \in Seq(WalFile) /\ Len(gone) \in Nat /\ Len(files) \in Nat
      /\ Len(<< >>) = 0
    BY LenProperties, EmptySeq DEF TypeInv
<1> DEFINE all == gone \o files
           m == Len(files')
<1>4. /\ all \in Seq(WalFile) /\ Len(all) = Len(gone) + Len(files)
      /\ \A k \in 1..Len(gone) + Len(files) : all[k] = IF k <= Len(gone) THEN gone[k] ELSE files[k - Len(gone)]
    BY <1>3, ConcatProperties
<1>5. m \in Nat /\ place \in [1..m -> 1..Len(all)] /\ \A k, l \in 1..m : k < l => place[k] < place[l]
  <2>1. files' \in Seq(WalFile)
      BY RebootIs DEF TypeInv
  <2>2. QED
      BY <1>2, <2>1, LenProperties DEF Survives
<1>6. ASSUME NEW k \in 1..m
      PROVE  /\ place[k] \in 1..Len(all) /\ all[place[k]] \in WalFile
             /\ NoMore(all[place[k]], files'[k])
  <2>1. place[k] \in 1..Len(all) /\ files'[k] \in AfterCrash(all[place[k]])
      BY <1>2, <1>5 DEF Survives
  <2>2. all[place[k]] \in WalFile
      BY <1>4, <2>1, ElementOfSeq
  <2>3. QED
      BY <2>1, <2>2, AfterCrashIs
<1> HIDE DEF all, m
<1>7. ASSUME NEW x \in 1..Len(all)
      PROVE  LogsUpTo(all[x], Len(log)) \/ (x = Len(all) /\ files # << >> /\ all[x] = ActiveFile)
  <2>1. CASE x <= Len(gone)
    <3>1. x \in 1..Len(gone) /\ all[x] = gone[x]
        BY <1>3, <1>4, <2>1
    <3>2. QED
        BY <3>1 DEF OpenInv, PastInv
  <2>2. CASE ~(x <= Len(gone)) /\ x < Len(all)
    <3>1. x - Len(gone) \in 1..Len(files) - 1 /\ all[x] = files[x - Len(gone)]
        BY <1>3, <1>4, <2>2
    <3>2. QED
        BY <3>1 DEF OpenInv, PastInv
  <2>3. CASE ~(x <= Len(gone)) /\ x = Len(all)
    <3>1. x - Len(gone) = Len(files) /\ Len(files) # 0 /\ all[x] = files[x - Len(gone)]
        BY <1>3, <1>4, <2>3
    <3>2. QED
        BY <1>3, <2>3, <3>1 DEF ActiveFile, Active
  <2>4. QED
      BY <1>3, <1>4, <2>1, <2>2, <2>3
<1>8. \A i \in 1..Len(gone') : LogsUpTo(gone'[i], Len(log'))
    BY <1>1, <1>3
<1>9. ASSUME NEW i \in 1..m - 1 PROVE LogsUpTo(files'[i], Len(log'))
  <2>1. i \in 1..m /\ m \in 1..m /\ i < m
      BY <1>5
  <2>2. place[i] \in 1..Len(all) /\ place[m] \in 1..Len(all) /\ place[i] < place[m]
      BY <1>5, <2>1
  <2>3. place[i] # Len(all)
      BY <1>3, <1>4, <2>2
  <2>4. LogsUpTo(all[place[i]], Len(log))
      BY <1>7, <2>2, <2>3
  <2>5. QED
      BY <1>1, <1>6, <2>1, <2>4, UpToLess
<1>10. ASSUME files' # << >> PROVE LogsUpTo(ActiveFile', Len(log')) \/ Unanswered'
  <2>1. m \in 1..m /\ ActiveFile' = files'[m]
    <3>1. files' \in Seq(WalFile)
        BY RebootIs DEF TypeInv
    <3>2. m # 0
        BY <1>10, <3>1, EmptySeq DEF m
    <3>3. ActiveFile' = files'[m]
        BY DEF ActiveFile, Active, m
    <3>4. QED
        BY <1>5, <3>2, <3>3
  <2>2. place[m] \in 1..Len(all) /\ NoMore(all[place[m]], ActiveFile')
      BY <1>6, <2>1
  <2>3. CASE LogsUpTo(all[place[m]], Len(log))
      BY <1>1, <2>2, <2>3, UpToLess
  <2>4. CASE files # << >> /\ all[place[m]] = ActiveFile
    <3>1. CASE LogsUpTo(ActiveFile, Len(log))
        BY <1>1, <2>2, <2>4, <3>1, UpToLess
    <3>2. CASE Unanswered
      <4>1. PICK fr : \E b \in Nat : OpenGroup(fr) /\ PartOf(ActiveFile, Len(log), b, fr)
          BY <3>2 DEF Unanswered
      <4>2. PICK b \in Nat : OpenGroup(fr) /\ PartOf(ActiveFile, Len(log), b, fr)
          BY <4>1
      <4>3. PartOf(ActiveFile', Len(log), b, fr)
          BY <2>2, <2>4, <4>2, UpToLess
      <4>4. OpenGroup(fr)'
          BY <1>1, <4>2 DEF OpenGroup
      <4>5. PartOf(ActiveFile, Len(log), b, fr)'
          BY <1>1, <4>3 DEF PartOf
      <4>6. QED
          BY <1>1, <4>4, <4>5 DEF Unanswered, InFlight
    <3>3. QED
        BY <2>4, <3>1, <3>2 DEF OpenInv, PastInv
  <2>5. QED
      BY <1>7, <2>2, <2>3, <2>4
<1>11. PastInv'
    BY <1>8, <1>9, <1>10 DEF PastInv, m
<1>12. HistInv'
    BY <1>1, HistSame DEF OpenInv, Rotating
<1>13. QED
    BY <1>1, <1>11, <1>12 DEF OpenInv, EndInv

\* The synced active file holds nothing past its last cell.
LEMMA SyncedEnd ==
    ASSUME TypeInv, files # << >>, ActiveBecomes(Synced(ActiveFile))
    PROVE  /\ ActiveFile \in WalFile /\ ActiveFile' = Synced(ActiveFile) /\ files' # << >>
           /\ Len(files') = Len(files) /\ \A i \in 1..Len(files) : NoMore(files[i], files'[i])
           /\ \A i \in 1..Len(files) - 1 : files'[i] = files[i]
           /\ EndInv'
           /\ \A c, cell : Holds(Synced(ActiveFile), c, cell) => c \in 1..Len(ActiveFile.mem)
<1>1. ActiveFile \in WalFile
    BY ActiveIs DEF TypeInv, ActiveFile
<1>2. PICK g : g = Synced(ActiveFile)
    OBVIOUS
<1>3. Len(g.dev) = Len(ActiveFile.mem) /\ g.mem = ActiveFile.mem /\ Len(ActiveFile.mem) \in Nat /\ NoMore(ActiveFile, g)
    BY <1>1, <1>2, SyncedIs, FileFields
<1>4. /\ ActiveFile' = g /\ files' # << >> /\ Len(files') = Len(files)
      /\ \A i \in 1..Len(files) - 1 : files'[i] = files[i]
    BY <1>2 DEF ActiveBecomes, ActiveFile, Active
<1>5. \A i \in 1..Len(files) : NoMore(files[i], files'[i])
    BY <1>2, <1>3, ActiveNoMore
<1>6. EndInv'
    BY <1>3, <1>4 DEF EndInv
<1>7. \A c, cell : Holds(g, c, cell) => c \in 1..Len(ActiveFile.mem)
    BY <1>3 DEF Holds
<1>8. QED
    BY <1>1, <1>2, <1>4, <1>5, <1>6, <1>7

\* The group is in the log now, and so is every number that a file holds.
LEMMA SyncGroupOpen ==
    ASSUME BaseInv, AppliedInv, OpenInv, SyncGroup
    PROVE  OpenInv'
<1>1. TypeInv /\ PhaseInv /\ files' \in Seq(WalFile)
    BY BaseStep DEF BaseInv, TypeInv, Next, Writing
<1>2. /\ files # << >> /\ phase' = "idle" /\ log' = log \o pending /\ pending' = << >> /\ gone' = gone
      /\ attempts' = attempts
    BY <1>1 DEF SyncGroup, PhaseInv, Grouping
<1>3. ActiveBecomes(Synced(ActiveFile))
    BY <1>1, SyncDoes
<1>4. /\ Len(files') = Len(files) /\ \A i \in 1..Len(files) : NoMore(files[i], files'[i])
      /\ EndInv'
    BY <1>1, <1>2, <1>3, SyncedEnd
<1>5. /\ Len(log) \in Nat /\ Len(pending) \in Nat /\ attempts \in Nat
      /\ Len(log') = Len(log) + Len(pending)
      /\ \A s \in 1..Len(log) + Len(pending) : log'[s] = IF s <= Len(log) THEN log[s] ELSE pending[s - Len(log)]
    BY <1>1, <1>2, ConcatProperties, LenProperties DEF TypeInv
<1>6. \A i \in 1..Len(files') : LogsUpTo(files'[i], Len(log'))
  <2>1. \A i \in 1..Len(files) : LogsUpTo(files[i], Len(log'))
      BY <1>1, <1>5, AllUpTo
  <2>2. QED
      BY <1>4, <2>1, UpToLess
<1>7. \A i \in 1..Len(gone') : LogsUpTo(gone'[i], Len(log'))
  <2>1. \A i \in 1..Len(gone) : gone[i] \in WalFile /\ LogsUpTo(gone[i], Len(log))
      BY <1>1, AllUpTo
  <2>2. Len(log') \in Nat /\ Len(log) <= Len(log')
      BY <1>5
  <2>3. QED
      BY <1>2, <1>5, <2>1, <2>2, UpToMore
<1>8. HistInv'
  <2>1. ASSUME NEW s \in 1..Len(log') PROVE log'[s] \in 1..attempts
    <3>1. CASE s <= Len(log)
      <4>1. s \in 1..Len(log) /\ log'[s] = log[s]
          BY <1>5, <2>1, <3>1
      <4>2. QED
          BY <4>1 DEF OpenInv, HistInv
    <3>2. CASE ~(s <= Len(log))
      <4>1. s - Len(log) \in 1..Len(pending) /\ log'[s] = pending[s - Len(log)]
          BY <1>5, <2>1, <3>2
      <4>2. QED
          BY <4>1 DEF AppliedInv
    <3>3. QED
        BY <3>1, <3>2
  <2>2. QED
      BY <1>2, <2>1 DEF OpenInv, HistInv
<1>9. QED
    BY <1>1, <1>4, <1>6, <1>7, <1>8, OpenAll

\* The group is cut off, and the cut is on the device.
LEMMA RollBackSyncOpen ==
    ASSUME BaseInv, OpenInv, RollBackSync
    PROVE  OpenInv'
<1>1. TypeInv /\ PhaseInv /\ files' \in Seq(WalFile)
    BY BaseStep DEF BaseInv, TypeInv, Next, Writing
<1>2. /\ files # << >> /\ phase = "truncated" /\ log' = log /\ pending' = << >> /\ gone' = gone
      /\ attempts' = attempts /\ synced = Len(ActiveFile.mem) /\ synced \in Nat
    BY <1>1 DEF RollBackSync, PhaseInv, Grouping, ActiveFile, TypeInv
<1>3. ActiveBecomes(Synced(ActiveFile))
    BY <1>1, SyncDoes
<1>4. PICK g : g = Synced(ActiveFile)
    OBVIOUS
<1>5. /\ Len(files') = Len(files) /\ ActiveFile' = g /\ NoMore(ActiveFile, g) /\ EndInv' /\ Len(files) \in Nat
      /\ \A i \in 1..Len(files) - 1 : files'[i] = files[i]
      /\ \A c, cell : Holds(g, c, cell) => c \in 1..synced
  <2>1. ActiveFile \in WalFile
      BY <1>1, <1>2, <1>3, SyncedEnd
  <2>2. NoMore(ActiveFile, g) /\ Len(files) \in Nat
      BY <1>1, <1>4, <2>1, SyncedIs, ActiveIs DEF TypeInv
  <2>3. QED
      BY <1>1, <1>2, <1>3, <1>4, <2>2, SyncedEnd
<1>6. LogsUpTo(g, Len(log))
  <2>1. CASE LogsUpTo(ActiveFile, Len(log))
      BY <1>5, <2>1, UpToLess
  <2>2. CASE Unanswered
    <3>1. PICK fr : \E b \in Nat : PartOf(ActiveFile, Len(log), b, fr) /\ b = synced
        BY <1>2, <2>2 DEF Unanswered, InFlight
    <3>2. PartOf(g, Len(log), synced, fr)
      <4>1. PartOf(ActiveFile, Len(log), synced, fr) /\ NoMore(ActiveFile, g)
          BY <1>5, <3>1
      <4>2. QED
          BY <4>1, UpToLess
    <3>3. ASSUME NEW c, NEW cell, Holds(g, c, cell), IsData(cell) PROVE cell.last <= Len(log)
      <4>1. c <= synced /\ cell # Torn
          BY <1>2, <1>5, <3>3 DEF IsData, Torn
      <4>2. QED
          BY <3>2, <3>3, <4>1 DEF PartOf
    <3>4. QED
        BY <3>3 DEF LogsUpTo
  <2>3. QED
      BY <1>2, <2>1, <2>2 DEF OpenInv, PastInv
<1>7. \A i \in 1..Len(files') : LogsUpTo(files'[i], Len(log'))
  <2>1. ASSUME NEW i \in 1..Len(files) PROVE LogsUpTo(files'[i], Len(log))
    <3>1. CASE i \in 1..Len(files) - 1
        BY <1>5, <3>1 DEF OpenInv, PastInv
    <3>2. CASE i = Len(files)
        BY <1>5, <1>6, <3>2 DEF ActiveFile, Active
    <3>3. QED
        BY <1>5, <3>1, <3>2
  <2>2. QED
      BY <1>2, <1>5, <2>1
<1>8. \A i \in 1..Len(gone') : LogsUpTo(gone'[i], Len(log'))
    BY <1>2 DEF OpenInv, PastInv
<1>9. HistInv'
    BY <1>2, HistSame DEF OpenInv
<1>10. QED
    BY <1>1, <1>5, <1>7, <1>8, <1>9, OpenAll

LEMMA RotateOpen ==
    ASSUME BaseInv, OpenInv, Rotate
    PROVE  OpenInv'
<1>1. TypeInv /\ files' \in Seq(WalFile)
    BY BaseStep DEF BaseInv, TypeInv, Next
<1>2. /\ phase = "idle" /\ log' = log /\ pending' = pending /\ gone' = gone /\ attempts' = attempts
      /\ phase' \in {"rotating", "emptying"} /\ pending = << >> /\ Len(files) \in Nat
    BY <1>1, ActiveIs DEF Rotate, history, OpenInv, HistInv, TypeInv
<1>3. PICK cells \in {<<CheckpointFrame(nextGroup, TRUE)>>, << >>} :
        /\ Len(files') = Len(files) + 1 /\ files'[Len(files) + 1] = NewFile(nextSeq, cells)
        /\ \A i \in 1..Len(files) : files'[i] = files[i]
    BY <1>1, RotateDoes
<1>4. cells \in Seq(Cell) /\ \A c \in 1..Len(cells) : ~IsData(cells[c])
  <2>1. PICK frame : frame = CheckpointFrame(nextGroup, TRUE)
      OBVIOUS
  <2>2. ckpt \in Nat /\ nextGroup \in Nat /\ nextSeq \in Nat
      BY <1>1 DEF TypeInv
  <2>3. <<frame>> \in Seq(Cell) /\ Len(<<frame>>) = 1 /\ <<frame>>[1] = frame /\ ~IsData(frame)
      BY <2>1, <2>2, CheckpointFrameIs
  <2>4. << >> \in Seq(Cell) /\ Len(<< >>) = 0
      BY EmptySeq
  <2>5. CASE cells = <<frame>>
    <3>1. cells \in Seq(Cell) /\ Len(cells) = 1 /\ cells[1] = frame
        BY <2>3, <2>5, Zenon
    <3>2. QED
        BY <2>3, <3>1
  <2>6. CASE cells = << >>
      BY <2>4, <2>6
  <2>7. QED
      BY <1>3, <2>1, <2>5, <2>6
<1>5. LogsUpTo(NewFile(nextSeq, cells), Len(log))
  <2>1. PICK f : f = NewFile(nextSeq, cells)
      OBVIOUS
  <2>2. f.mem = cells /\ Len(f.dev) = 0
    <3>1. f.mem = cells /\ f.dev = << >>
        BY <2>1 DEF NewFile
    <3>2. QED
        BY <3>1, EmptySeq
  <2>3. LogsUpTo(f, Len(log))
      BY <1>4, <2>2, NoData
  <2>4. QED
      BY <2>1, <2>3
<1>6. \A i \in 1..Len(files) : LogsUpTo(files[i], Len(log))
    BY <1>1, <1>2, AllUpTo
<1>7. \A i \in 1..Len(files') : LogsUpTo(files'[i], Len(log'))
  <2>1. \A i \in 1..Len(files') : i \in 1..Len(files) \/ i = Len(files) + 1
      BY <1>2, <1>3
  <2>2. QED
      BY <1>2, <1>3, <1>5, <1>6, <2>1
<1>8. \A i \in 1..Len(gone') : LogsUpTo(gone'[i], Len(log'))
    BY <1>2 DEF OpenInv, PastInv
<1>9. HistInv'
    BY <1>2, HistSame DEF OpenInv
<1>10. EndInv'
    BY <1>2 DEF EndInv
<1>11. QED
    BY <1>1, <1>7, <1>8, <1>9, <1>10, OpenAll

LEMMA RemoveOpen ==
    ASSUME BaseInv, OpenInv, RemoveCheckpointed
    PROVE  OpenInv'
<1>1. TypeInv /\ files' \in Seq(WalFile)
    BY BaseStep DEF BaseInv, TypeInv, Next
<1>2. /\ phase = "idle" /\ log' = log /\ pending' = pending /\ attempts' = attempts
      /\ phase' = phase /\ pending = << >> /\ Len(files) \in Nat
    BY <1>1, ActiveIs DEF RemoveCheckpointed, history, OpenInv, HistInv, TypeInv
<1>3. PICK n \in 1..Len(files) - 1 :
        /\ Len(files') = Len(files) - n
        /\ \A i \in 1..Len(files) - n : LinkOnly(files[n + i], files'[i])
        /\ \A k \in 1..Len(gone') : (\E i \in 1..Len(gone) : gone'[k] = gone[i])
                                     \/ \E i \in 1..n : gone'[k] = files[i]
    BY <1>1, RemoveDoes
<1>4. /\ \A i \in 1..Len(files) : LogsUpTo(files[i], Len(log))
      /\ \A i \in 1..Len(gone) : LogsUpTo(gone[i], Len(log))
    BY <1>1, <1>2, AllUpTo
<1>5. \A i \in 1..Len(files') : LogsUpTo(files'[i], Len(log'))
  <2>1. ASSUME NEW i \in 1..Len(files') PROVE LogsUpTo(files'[i], Len(log))
    <3>1. n + i \in 1..Len(files) /\ i \in 1..Len(files) - n
        BY <1>2, <1>3
    <3>2. NoMore(files[n + i], files'[i])
        BY <1>3, <3>1 DEF LinkOnly
    <3>3. QED
        BY <1>4, <3>1, <3>2, UpToLess
  <2>2. QED
      BY <1>2, <2>1
<1>6. \A k \in 1..Len(gone') : LogsUpTo(gone'[k], Len(log'))
  <2>1. \A i \in 1..n : i \in 1..Len(files)
      BY <1>2
  <2>2. QED
      BY <1>2, <1>3, <1>4, <2>1
<1>7. EndInv'
  <2>1. PICK m : m = Len(files) - n
      OBVIOUS
  <2>2. m \in 1..Len(files) - n /\ n + m = Len(files) /\ Len(files) # 0
      BY <1>2, <2>1
  <2>3. LinkOnly(files[n + m], files'[m])
      BY <1>3, <2>2
  <2>4. files[n + m] = ActiveFile /\ files'[m] = ActiveFile'
      BY <1>3, <2>1, <2>2 DEF ActiveFile, Active
  <2>5. ActiveFile'.mem = ActiveFile.mem /\ ActiveFile'.dev = ActiveFile.dev
      BY <2>3, <2>4 DEF LinkOnly
  <2>6. Len(ActiveFile.dev) <= Len(ActiveFile.mem)
    <3>1. files # << >>
        BY <2>2, EmptySeq
    <3>2. QED
        BY <1>2, <3>1 DEF OpenInv, EndInv
  <2>7. QED
      BY <2>5, <2>6 DEF EndInv
<1>8. HistInv'
    BY <1>2, HistSame DEF OpenInv
<1>9. QED
    BY <1>1, <1>5, <1>6, <1>7, <1>8, OpenAll

\* What recovery hands over ends with the log: it read every cell that there is.
LEMMA IntoWriterOpen ==
    ASSUME BaseInv, AppliedInv, NumbersInv, AckInv, OpenInv, IntoWriter
    PROVE  OpenInv'
<1>1. TypeInv /\ files' \in Seq(WalFile)
    BY BaseStep DEF BaseInv, TypeInv, Next, Recovery
<1>2. /\ phase = "repaired" /\ ReplayOK /\ gone' = gone /\ attempts' = attempts /\ pending' = << >>
    BY DEF IntoWriter
<1>3. /\ log' \in Seq(Nat) /\ Len(log') \in Nat /\ ResumeSeq = Len(log') + 1
      /\ Len(log) <= Len(log') /\ Len(log) \in Nat /\ Len(pending) \in Nat /\ attempts \in Nat
      /\ log \in Seq(Nat) /\ pending \in Seq(Nat)
  <2>1. log \in Seq(Nat) /\ pending \in Seq(Nat) /\ attempts \in Nat
      BY <1>1 DEF TypeInv
  <2>2. QED
      BY <1>1, <2>1, RebuiltIs, ReplayKeepsLog, LenProperties
<1>4. \A i \in 1..Len(gone') : LogsUpTo(gone'[i], Len(log'))
  <2>1. \A i \in 1..Len(gone) : gone[i] \in WalFile /\ LogsUpTo(gone[i], Len(log))
      BY <1>1, AllUpTo
  <2>2. QED
      BY <1>2, <1>3, <2>1, UpToMore
<1>5. ASSUME files = << >>
      PROVE  Len(Taken) = 1 /\ LogsUpTo(Taken[1], Len(log')) /\ Len(Taken[1].dev) = 0 /\ Len(Taken[1].mem) = 0
  <2>1. Len(Taken) = 1 /\ Taken[1] = NewFile(ResumeSeq, << >>) /\ ResumeSeq \in Nat
      BY <1>1, <1>3, <1>5, TakenIs
  <2>2. PICK none : none = << >>
      OBVIOUS
  <2>3. none \in Seq(Cell) /\ Len(none) = 0
      BY <2>2, EmptySeq
  <2>4. Taken[1].mem = none /\ Len(Taken[1].dev) = 0
    <3>1. Taken[1].mem = << >> /\ Taken[1].dev = << >>
        BY <2>1 DEF NewFile
    <3>2. QED
        BY <2>2, <2>3, <3>1
  <2>5. LogsUpTo(Taken[1], Len(log'))
      BY <2>3, <2>4, NoData
  <2>6. QED
      BY <2>1, <2>3, <2>4, <2>5
<1>6. ASSUME files # << >>
      PROVE  /\ \A i \in 1..Len(files) : LogsUpTo(files[i], Len(log'))
             /\ Len(ActiveFile.dev) <= Len(ActiveFile.mem)
  <2>1. /\ ActiveFile \in WalFile /\ ActiveFile = files[Len(files)] /\ Len(files) \in 1..Len(files) /\ Len(files) \in Nat
        /\ \A i \in 1..Len(files) : files[i] \in WalFile
      BY <1>1, <1>6, ActiveIs DEF ActiveFile, Active, TypeInv
  <2>2. Len(ActiveFile.dev) <= Len(ActiveFile.mem)
      BY <1>2, <1>6 DEF OpenInv, EndInv
  <2>3. \A c \in 1..Len(ActiveFile.mem) : c <= Len(ActiveFile.dev) /\ ActiveFile.mem[c] = ActiveFile.dev[c]
    <3>1. \A i \in 1..Len(files) : Whole(files[i])
        BY <1>2 DEF AckInv, WriterInv
    <3>2. Whole(ActiveFile)
        BY <2>1, <3>1
    <3>3. QED
        BY <3>2 DEF Whole, Agrees
  <2>4. ASSUME NEW c, NEW cell, Holds(ActiveFile, c, cell), IsData(cell) PROVE cell.last <= Len(log')
    <3>1. c \in 1..Len(ActiveFile.mem) /\ ActiveFile.mem[c] = cell
      <4>1. Len(ActiveFile.dev) \in Nat /\ Len(ActiveFile.mem) \in Nat
          BY <2>1, FileFields
      <4>2. \A k \in 1..Len(ActiveFile.dev) : k \in 1..Len(ActiveFile.mem)
          BY <2>2, <4>1
      <4>3. QED
          BY <2>3, <2>4, <4>2 DEF Holds
    <3>2. Len(files) > Checkpointed(files)
        BY <1>1, <1>2, <1>6, ReadsCells
    <3>3. PICK p \in 1..Len(ReadFrames) : ReadFrames[p] = cell
      <4>1. \A k \in 1..Len(files[Len(files)].mem) :
              \E p \in 1..Len(ReadFrames) : ReadFrames[p] = files[Len(files)].mem[k]
          BY <1>1, <1>2, <2>1, <3>2, ReadsCells
      <4>2. QED
          BY <2>1, <3>1, <4>1
    <3>4. cell.last < ResumeSeq
        BY <1>1, <1>2, <2>4, <3>3, ReadBelow
    <3>5. cell.last \in Nat
        BY <2>1, <2>4, HoldsCell, CellKinds
    <3>6. QED
        BY <1>3, <3>4, <3>5
  <2>5. LogsUpTo(ActiveFile, Len(log'))
      BY <2>4 DEF LogsUpTo
  <2>6. ASSUME NEW i \in 1..Len(files) PROVE LogsUpTo(files[i], Len(log'))
    <3>1. CASE i \in 1..Len(files) - 1
      <4>1. LogsUpTo(files[i], Len(log))
          BY <3>1 DEF OpenInv, PastInv
      <4>2. QED
          BY <1>3, <2>1, <4>1, UpToMore
    <3>2. CASE i = Len(files)
        BY <2>1, <2>5, <3>2
    <3>3. QED
        BY <2>1, <3>1, <3>2
  <2>7. QED
      BY <2>2, <2>6
<1> DEFINE m == Len(Taken)
<1>7. /\ m \in Nat \ {0} /\ m \in 1..m
      /\ \A i \in 1..m : LogsUpTo(Taken[i], Len(log'))
      /\ Len(Taken[m].dev) <= Len(Taken[m].mem)
  <2>1. CASE files = << >>
    <3>1. m = 1 /\ LogsUpTo(Taken[1], Len(log')) /\ Len(Taken[1].dev) = 0 /\ Len(Taken[1].mem) = 0
        BY <1>5, <2>1
    <3> HIDE DEF m
    <3>2. \A i \in 1..m : i = 1
        BY <3>1
    <3>3. QED
        BY <3>1, <3>2
  <2>2. CASE files # << >>
    <3>1. Taken = files /\ Len(files) \in Nat \ {0} /\ Taken[Len(files)] = ActiveFile
        BY <1>1, <2>2, TakenIs DEF ActiveFile, Active
    <3>2. QED
        BY <1>6, <2>2, <3>1
  <2>3. QED
      BY <2>1, <2>2
<1>8. /\ nextGroup' \in Nat /\ Len(files') = m /\ files' # << >>
      /\ \A i \in 1..m - 1 : LinkOnly(Taken[i], files'[i])
      /\ \/ phase' \in {"idle", "rolling"} /\ LinkOnly(Taken[m], files'[m])
         \/ /\ phase' = "appended"
            /\ \E f \in WalFile : LinkOnly(Taken[m], f) /\ files'[m] = Appended(f, <<CheckpointFrame(nextGroup', TRUE)>>)
    BY <1>1, IntoWriterDoes
<1>9. ActiveFile' = files'[m]
    BY <1>8 DEF ActiveFile, Active
<1> HIDE DEF m
<1>10. \A f, g : LinkOnly(f, g) /\ LogsUpTo(f, Len(log')) => LogsUpTo(g, Len(log'))
    BY UpToLess DEF LinkOnly
<1>11. ASSUME NEW f \in WalFile, LogsUpTo(f, Len(log'))
       PROVE  LogsUpTo(Appended(f, <<CheckpointFrame(nextGroup', TRUE)>>), Len(log'))
  <2>1. PICK frame : frame = CheckpointFrame(nextGroup', TRUE)
      OBVIOUS
  <2>2. ckpt \in Nat
      BY <1>1 DEF TypeInv
  <2>3. PICK start : start = <<frame>>
      OBVIOUS
  <2>4. start \in Seq(Cell) /\ Len(start) = 1 /\ start[1] = frame /\ ~IsData(frame)
      BY <1>8, <2>1, <2>2, <2>3, CheckpointFrameIs
  <2>5. PICK g : g = Appended(f, start)
      OBVIOUS
  <2>6. /\ g.dev = f.dev /\ Len(g.mem) = Len(f.mem) + Len(start) /\ Len(f.mem) \in Nat
        /\ \A c \in 1..Len(f.mem) : g.mem[c] = f.mem[c]
        /\ \A c \in 1..Len(start) : g.mem[Len(f.mem) + c] = start[c]
      BY <2>4, <2>5, AppendedIs, FileFields
  <2>7. 1 \in 1..Len(start)
      BY <2>4
  <2>8. g.mem[Len(f.mem) + 1] = frame /\ Len(g.mem) = Len(f.mem) + 1
      BY <2>4, <2>6, <2>7
  <2>9. \A c \in 1..Len(g.mem) : c \in 1..Len(f.mem) \/ c = Len(f.mem) + 1
      BY <2>6, <2>8
  <2>10. LogsUpTo(g, Len(log'))
      BY <1>11, <2>4, <2>6, <2>8, <2>9 DEF LogsUpTo, Holds
  <2>11. QED
      BY <2>1, <2>3, <2>5, <2>10
<1>12. \A i \in 1..Len(files') : LogsUpTo(files'[i], Len(log'))
  <2>1. \A i \in 1..m - 1 : i \in 1..m /\ LogsUpTo(files'[i], Len(log'))
    <3>1. \A i \in 1..m - 1 : i \in 1..m
        BY <1>7
    <3>2. QED
        BY <1>7, <1>8, <1>10, <3>1
  <2>2. LogsUpTo(files'[m], Len(log'))
      BY <1>7, <1>8, <1>10, <1>11
  <2>3. \A i \in 1..m : i \in 1..m - 1 \/ i = m
      BY <1>7
  <2>4. QED
      BY <1>8, <2>1, <2>2, <2>3
<1>13. EndInv'
  <2>1. CASE LinkOnly(Taken[m], files'[m])
      BY <1>7, <1>9, <2>1 DEF LinkOnly, EndInv
  <2>2. CASE phase' = "appended"
      BY <2>2 DEF EndInv
  <2>3. QED
      BY <1>8, <2>1, <2>2
<1>14. HistInv'
  <2>1. log' \in {log, log \o pending}
      BY <1>1, ReplayDecides
  <2>2. /\ \A s \in 1..Len(log) : log[s] \in 1..attempts
        /\ \A k \in 1..Len(pending) : pending[k] \in 1..attempts
      BY DEF OpenInv, HistInv, AppliedInv
  <2>3. ASSUME NEW s \in 1..Len(log') PROVE log'[s] \in 1..attempts
    <3>1. CASE log' = log
        BY <2>2, <2>3, <3>1
    <3>2. CASE log' = log \o pending
      <4>1. /\ Len(log') = Len(log) + Len(pending)
            /\ log'[s] = IF s <= Len(log) THEN log[s] ELSE pending[s - Len(log)]
        <5>1. /\ Len(log') = Len(log) + Len(pending)
              /\ \A k \in 1..Len(log) + Len(pending) : log'[k] = IF k <= Len(log) THEN log[k] ELSE pending[k - Len(log)]
            BY <1>3, <3>2, ConcatProperties
        <5>2. QED
            BY <2>3, <5>1
      <4>2. CASE s <= Len(log)
        <5>1. s \in 1..Len(log)
            BY <1>3, <2>3, <4>1, <4>2
        <5>2. QED
            BY <2>2, <4>1, <4>2, <5>1
      <4>3. CASE ~(s <= Len(log))
        <5>1. s - Len(log) \in 1..Len(pending)
            BY <1>3, <2>3, <4>1, <4>3
        <5>2. QED
            BY <2>2, <4>1, <4>3, <5>1
      <4>4. QED
          BY <4>2, <4>3
    <3>3. QED
        BY <2>1, <3>1, <3>2
  <2>4. QED
      BY <1>2, <2>3 DEF OpenInv, HistInv
<1>15. QED
    BY <1>1, <1>4, <1>12, <1>13, <1>14, OpenAll

\* A recovery that fails leaves the files, or a new one without a cell.
LEMMA IntoWriterFailsOpen ==
    ASSUME BaseInv, OpenInv, IntoWriterFails
    PROVE  OpenInv'
<1>1. TypeInv /\ files' \in Seq(WalFile)
    BY BaseStep DEF BaseInv, TypeInv, Next, Recovery
<1>2. /\ log' = log /\ pending' = pending /\ gone' = gone /\ attempts' = attempts /\ phase' \in {"corrupt", "down"}
    BY DEF IntoWriterFails, history
<1>3. EndInv' /\ HistInv'
    BY <1>2, HistSame DEF EndInv, OpenInv, Rotating
<1>4. CASE files' = files
  <2>1. Len(files') = Len(files) /\ \A i \in 1..Len(files) : NoMore(files[i], files'[i])
      BY <1>1, <1>4, ActiveIs, LinkOnlySame DEF TypeInv
  <2>2. QED
      BY <1>1, <1>2, <1>3, <2>1, OpenSame DEF InFlight, Rotating
<1>5. CASE files = << >> /\ files' = Taken
  <2>1. Len(Taken) = 1 /\ Taken[1] = NewFile(ResumeSeq, << >>)
      BY <1>1, <1>5, TakenIs
  <2>2. Taken[1].mem = << >> /\ Taken[1].dev = << >>
      BY <2>1 DEF NewFile
  <2>3. LogsUpTo(Taken[1], Len(log))
      BY <2>2, EmptySeq, NoData
  <2>4. \A i \in 1..Len(files') : i = 1
      BY <1>5, <2>1
  <2>5. \A i \in 1..Len(files') : LogsUpTo(files'[i], Len(log'))
      BY <1>2, <1>5, <2>3, <2>4
  <2>6. \A i \in 1..Len(gone') : LogsUpTo(gone'[i], Len(log'))
      BY <1>2 DEF OpenInv, PastInv
  <2>7. QED
      BY <1>1, <1>3, <2>5, <2>6, OpenAll
<1>6. QED
    BY <1>1, <1>4, <1>5, IntoWriterFailsDoes

\* The steps of a writer that fails, which let no file hold more.
LEMMA FailingOpen ==
    ASSUME BaseInv, OpenInv, SyncGroupFails \/ RollBackTruncate \/ RollBackSyncFails \/ RotateEmpty
    PROVE  OpenInv'
<1>1. TypeInv /\ PhaseInv
    BY DEF BaseInv
<1>2. /\ files # << >> /\ log' = log /\ pending' = pending /\ gone' = gone /\ attempts' = attempts
      /\ phase' \in {"rolling", "truncated", "fencing", "failed"}
      /\ phase' \in InFlight => phase \in InFlight /\ synced' = synced
    BY <1>1 DEF SyncGroupFails, RollBackTruncate, RollBackSyncFails, RotateEmpty, PhaseInv, Grouping, Rotating,
                writer, history, InFlight
<1>3. ActiveFile \in WalFile /\ files \in Seq(WalFile)
    BY <1>1, <1>2, ActiveIs DEF ActiveFile, TypeInv
<1>4. ASSUME NEW n \in 0..Len(ActiveFile.mem)
      PROVE  /\ NoMore(ActiveFile, SetLen(ActiveFile, n))
             /\ NoMore(ActiveFile, Synced(SetLen(ActiveFile, n)))
             /\ \A g \in FailedSync(SetLen(ActiveFile, n)) : NoMore(ActiveFile, g)
  <2>1. PICK f : f = SetLen(ActiveFile, n)
      OBVIOUS
  <2>2. f \in WalFile /\ NoMore(ActiveFile, f)
      BY <1>3, <2>1, SetLenIs
  <2>3. NoMore(f, Synced(f)) /\ \A g \in FailedSync(f) : NoMore(f, g)
      BY <2>2, SyncedIs, FailedSyncIs
  <2>4. NoMore(ActiveFile, Synced(f)) /\ \A g \in FailedSync(f) : NoMore(ActiveFile, g)
      BY <2>2, <2>3 DEF NoMore
  <2>5. QED
      BY <2>1, <2>2, <2>4
<1>5. \/ files' = files
      \/ \E g : ActiveBecomes(g) /\ NoMore(ActiveFile, g)
  <2>1. CASE SyncGroupFails \/ RollBackSyncFails
    <3>1. PICK g \in FailedSync(ActiveFile) : ActiveBecomes(g)
        BY <1>1, <2>1, SyncDoes
    <3>2. NoMore(ActiveFile, g)
        BY <1>3, FailedSyncIs
    <3>3. QED
        BY <3>1, <3>2
  <2>2. CASE RollBackTruncate
    <3>1. synced \in 0..Len(ActiveFile.mem)
      <4>1. phase = "rolling" /\ synced \in Nat /\ Len(ActiveFile.mem) \in Nat
          BY <1>1, <1>3, <2>2, FileFields DEF RollBackTruncate, TypeInv
      <4>2. QED
          BY <1>1, <4>1 DEF PhaseInv, ActiveFile
    <3>2. NoMore(ActiveFile, SetLen(ActiveFile, synced))
        BY <1>4, <3>1
    <3>3. files' = files \/ ActiveBecomes(SetLen(ActiveFile, synced))
        BY <1>1, <2>2, TruncateDoes
    <3>4. QED
        BY <3>2, <3>3
  <2>3. CASE RotateEmpty
    <3>1. 0 \in 0..Len(ActiveFile.mem)
        BY <1>3, FileFields
    <3>2. PICK g \in {Synced(SetLen(ActiveFile, 0)), ActiveFile} \cup FailedSync(SetLen(ActiveFile, 0)) : ActiveBecomes(g)
        BY <1>1, <2>3, TruncateDoes
    <3>3. NoMore(ActiveFile, ActiveFile)
        BY <1>3, LinkOnlySame
    <3>4. NoMore(ActiveFile, g)
        BY <1>4, <3>1, <3>2, <3>3
    <3>5. QED
        BY <3>2, <3>4
  <2>4. QED
      BY <2>1, <2>2, <2>3
<1>6. Len(files') = Len(files) /\ \A i \in 1..Len(files) : NoMore(files[i], files'[i])
  <2>1. CASE files' = files
      BY <1>3, <2>1, ActiveIs, LinkOnlySame
  <2>2. ASSUME NEW g, ActiveBecomes(g), NoMore(ActiveFile, g)
        PROVE  Len(files') = Len(files) /\ \A i \in 1..Len(files) : NoMore(files[i], files'[i])
      BY <1>1, <1>2, <2>2, ActiveNoMore DEF ActiveBecomes
  <2>3. QED
      BY <1>5, <2>1, <2>2
<1>7. EndInv'
    BY <1>2 DEF EndInv
<1>8. phase' \notin {"idle"} \cup Rotating
    BY <1>2 DEF Rotating
<1>9. QED
    BY <1>1, <1>2, <1>6, <1>7, <1>8, OpenSame

\* A rotation that goes on: the new file is synced, or it fails.
LEMMA RotateSyncOpen ==
    ASSUME BaseInv, OpenInv, RotateSync
    PROVE  OpenInv'
<1>1. TypeInv /\ PhaseInv
    BY DEF BaseInv
<1>2. /\ files # << >> /\ phase = "rotating" /\ log' = log /\ pending' = pending /\ gone' = gone
      /\ attempts' = attempts /\ phase' \in {"linking", "emptying"}
    BY <1>1 DEF RotateSync, PhaseInv, Rotating, history
<1>3. Len(files') = Len(files) /\ (\A i \in 1..Len(files) : NoMore(files[i], files'[i])) /\ EndInv'
  <2>1. CASE phase' = "linking"
    <3>1. ActiveBecomes(Synced(ActiveFile))
        BY <1>1, <2>1, SyncDoes
    <3>2. QED
        BY <1>1, <1>2, <3>1, SyncedEnd
  <2>2. CASE phase' = "emptying"
    <3>1. PICK g \in FailedSync(ActiveFile) : ActiveBecomes(g)
        BY <1>1, <2>2, SyncDoes
    <3>2. ActiveFile \in WalFile
        BY <1>1, <1>2, ActiveIs DEF ActiveFile, TypeInv
    <3>3. NoMore(ActiveFile, g)
        BY <3>2, FailedSyncIs
    <3>4. EndInv'
        BY <2>2 DEF EndInv
    <3>5. QED
        BY <1>1, <1>2, <3>1, <3>3, <3>4, ActiveNoMore DEF ActiveBecomes
  <2>3. QED
      BY <1>2, <2>1, <2>2
<1>4. phase' \notin InFlight /\ phase \in Rotating
    BY <1>2 DEF InFlight, Rotating
<1>5. QED
    BY <1>1, <1>2, <1>3, <1>4, OpenSame

\* The directory's entries become durable, or the writer gives up before that.
LEMMA LinkOpen ==
    ASSUME BaseInv, OpenInv, Fence \/ RotateLink
    PROVE  OpenInv'
<1>1. TypeInv /\ files \in Seq(WalFile) /\ Len(files) \in Nat
    BY ActiveIs DEF BaseInv, TypeInv
<1>2. /\ log' = log /\ pending' = pending /\ attempts' = attempts
      /\ phase' \in {"failed", "fatal"} \/ (phase = "linking" /\ phase' = "idle")
      /\ (files' = Linked(files) /\ gone' = << >>) \/ (files' = files /\ gone' = gone)
    BY DEF Fence, RotateLink, history
<1>3. Len(files') = Len(files) /\ \A i \in 1..Len(files) : LinkOnly(files[i], files'[i]) /\ NoMore(files[i], files'[i])
  <2>1. CASE files' = files
      BY <1>1, <2>1, ActiveIs, LinkOnlySame
  <2>2. CASE files' = Linked(files)
      BY <1>1, <2>2, LinkedDoes DEF LinkOnly
  <2>3. QED
      BY <1>2, <2>1, <2>2
<1>4. EndInv'
  <2>1. CASE phase = "linking" /\ phase' = "idle" /\ files' # << >>
    <3>1. files # << >> /\ Len(files) \in 1..Len(files)
      <4>1. files # << >>
          BY <2>1 DEF BaseInv, PhaseInv, Rotating
      <4>2. QED
          BY <1>1, <4>1, EmptySeq
    <3>2. LinkOnly(ActiveFile, ActiveFile')
        BY <1>3, <3>1 DEF ActiveFile, Active
    <3>3. Len(ActiveFile.dev) <= Len(ActiveFile.mem)
        BY <2>1, <3>1 DEF OpenInv, EndInv
    <3>4. QED
        BY <3>2, <3>3 DEF EndInv, LinkOnly
  <2>2. CASE phase' \in {"failed", "fatal"} \/ files' = << >>
      BY <2>2 DEF EndInv
  <2>3. QED
      BY <1>2, <2>1, <2>2
<1>5. /\ gone' = gone \/ gone' = << >>
      /\ phase' \notin InFlight
      /\ phase' \in {"idle"} \cup Rotating => phase \in {"idle"} \cup Rotating
    BY <1>2 DEF InFlight, Rotating
<1>6. QED
    BY <1>1, <1>2, <1>3, <1>4, <1>5, OpenSame

\* Recovery before its replay: the barrier and the repair of the tail.
LEMMA OpeningOpen ==
    ASSUME BaseInv, OpenInv, Barrier \/ RepairTail
    PROVE  OpenInv'
<1>1. TypeInv /\ files \in Seq(WalFile) /\ Len(files) \in Nat
    BY ActiveIs DEF BaseInv, TypeInv
<1>2. /\ log' = log /\ pending' = pending /\ attempts' = attempts
      /\ phase' \in {"barrier", "down", "corrupt", "repaired"}
      /\ phase' = "repaired" => RepairTail
    BY DEF Barrier, RepairTail, history
<1>3. CASE Barrier
  <2>1. /\ Len(files') = Len(files) /\ \A i \in 1..Len(files) : NoMore(files[i], files'[i])
        /\ gone' = gone \/ gone' = << >>
      BY <1>1, <1>3, BarrierDoes
  <2>2. EndInv'
      BY <1>3 DEF Barrier, EndInv
  <2>3. QED
      BY <1>1, <1>2, <2>1, <2>2, OpenSame DEF InFlight, Rotating
<1>4. CASE RepairTail
  <2>1. gone' = gone
      BY <1>4 DEF RepairTail
  <2>2. CASE files' = files /\ (phase' = "corrupt" \/ files = << >>)
    <3>1. EndInv'
        BY <2>2 DEF EndInv
    <3>2. \A i \in 1..Len(files) : NoMore(files[i], files'[i])
        BY <1>1, <2>2, ActiveIs, LinkOnlySame
    <3>3. QED
        BY <1>1, <1>2, <2>1, <2>2, <3>1, <3>2, OpenSame DEF InFlight, Rotating
  <2>3. CASE files # << >> /\ \/ phase' = "repaired" /\ ActiveBecomes(Synced(Repaired))
                              \/ phase' = "down" /\ \E g \in FailedSync(Repaired) : ActiveBecomes(g)
    <3>1. PICK f : f = Repaired
        OBVIOUS
    <3>2. ActiveFile \in WalFile /\ f \in WalFile /\ NoMore(ActiveFile, f)
      <4>1. ActiveFile \in WalFile
          BY <1>1, <2>3, ActiveIs DEF ActiveFile
      <4>2. CommittedEnd(ActiveFile.mem) \in 0..Len(ActiveFile.mem)
          BY <4>1, FileFields, CommittedEndIs
      <4>3. QED
          BY <3>1, <4>1, <4>2, SetLenIs DEF Repaired
    <3>3. /\ NoMore(f, Synced(f)) /\ Len(Synced(f).dev) = Len(f.mem) /\ Synced(f).mem = f.mem /\ Len(f.mem) \in Nat
          /\ \A g \in FailedSync(f) : NoMore(f, g)
        BY <3>2, SyncedIs, FailedSyncIs, FileFields
    <3>4. PICK g : /\ ActiveBecomes(g) /\ NoMore(f, g)
                   /\ phase' = "down" \/ Len(g.dev) <= Len(g.mem)
        BY <2>3, <3>1, <3>3
    <3>5. NoMore(ActiveFile, g)
        BY <3>2, <3>4 DEF NoMore
    <3>6. Len(files') = Len(files) /\ ActiveFile' = g
        BY <3>4 DEF ActiveBecomes, ActiveFile, Active
    <3>7. \A i \in 1..Len(files) : NoMore(files[i], files'[i])
        BY <1>1, <2>3, <3>4, <3>5, ActiveNoMore
    <3>8. EndInv'
        BY <3>4, <3>6 DEF EndInv
    <3>9. QED
        BY <1>1, <1>2, <2>1, <3>6, <3>7, <3>8, OpenSame DEF InFlight, Rotating
  <2>4. QED
      BY <1>1, <1>4, <2>2, <2>3, RepairDoes
<1>5. QED
    BY <1>3, <1>4

\* The files stay as they are.
LEMMA SameFilesOpen ==
    ASSUME BaseInv, OpenInv, AdvanceCheckpoint \/ Kill \/ UNCHANGED vars
    PROVE  OpenInv'
<1>1. TypeInv /\ \A i \in 1..Len(files) : NoMore(files[i], files[i])
    BY ActiveIs, LinkOnlySame DEF BaseInv, TypeInv
<1>2. /\ log' = log /\ pending' = pending /\ attempts' = attempts /\ files' = files /\ gone' = gone /\ synced' = synced
      /\ phase' = phase \/ phase' = "down"
    BY DEF AdvanceCheckpoint, Kill, disk, history, writer, vars
<1>3. EndInv'
    BY <1>2 DEF OpenInv, EndInv, ActiveFile, Active
<1>4. QED
    BY <1>1, <1>2, <1>3, OpenSame DEF InFlight, Rotating

LEMMA OpenStep ==
    ASSUME BaseInv, AppliedInv, NumbersInv, AckInv, OpenInv, [Next]_vars
    PROVE  OpenInv'
<1>1. TypeInv /\ PhaseInv
    BY DEF BaseInv
<1>2. ASSUME NEW shape \in Shapes, AppendGroup(shape) PROVE OpenInv'
    BY <1>1, <1>2, AppendGroupOpen
<1>3. CASE SyncGroup \/ RollBackSync
    BY <1>3, SyncGroupOpen, RollBackSyncOpen
<1>4. CASE SyncGroupFails \/ RollBackTruncate \/ RollBackSyncFails \/ RotateEmpty
    BY <1>4, FailingOpen
<1>5. CASE Rotate \/ RotateSync \/ RemoveCheckpointed
    BY <1>5, RotateOpen, RotateSyncOpen, RemoveOpen
<1>6. CASE Fence \/ RotateLink
    BY <1>6, LinkOpen
<1>7. CASE Barrier \/ RepairTail
    BY <1>7, OpeningOpen
<1>8. CASE IntoWriter \/ IntoWriterFails
    BY <1>8, IntoWriterOpen, IntoWriterFailsOpen
<1>9. CASE Crash \/ OperatorReboot
    BY <1>1, <1>9, RebootOpen DEF Crash, OperatorReboot
<1>10. CASE AdvanceCheckpoint \/ Kill \/ UNCHANGED vars
    BY <1>10, SameFilesOpen
<1>11. QED
    BY <1>2, <1>3, <1>4, <1>5, <1>6, <1>7, <1>8, <1>9, <1>10 DEF Next, Writing, Recovery

LEMMA OpenInit == Init => OpenInv
<1>1. SUFFICES ASSUME Init PROVE OpenInv
    OBVIOUS
<1>2. /\ files = << >> /\ gone = << >> /\ phase = "down" /\ log = << >> /\ pending = << >> /\ attempts = 0
      /\ Len(<< >>) = 0 /\ MaxAttempts \in Nat
    BY <1>1, EmptySeq, BoundsAssumption DEF Init
<1>3. HistInv
    BY <1>2 DEF HistInv
<1>4. PastInv
    BY <1>2 DEF PastInv
<1>5. QED
    BY <1>2, <1>3, <1>4 DEF OpenInv, EndInv

-----------------------------------------------------------------------------
(* Each step is one that DurableLog allows, or none that a caller can tell. *)

Running == {"idle", "appended", "rolling", "truncated", "fencing", "rotating", "linking", "emptying"}

\* The answers stay: the process stops, or nothing happens.
LEMMA QuietStep ==
    ASSUME log' = log, pending' = pending, rejected' = rejected, phase' \in Running => phase \in Running
    PROVE  [Promise!Next]_(Promise!vars)
<1>1. CASE phase' \in Running \/ phase \notin Running
  <2>1. (phase' \in Running) = (phase \in Running)
      BY <1>1
  <2>2. UNCHANGED Promise!vars
      BY <2>1 DEF Promise!vars, Running
  <2>3. QED
      BY <2>2
<1>2. CASE phase' \notin Running /\ phase \in Running
  <2>1. Promise!Stop
      BY <1>2 DEF Promise!Stop, Running
  <2>2. QED
      BY <2>1 DEF Promise!Next
<1>3. QED
    BY <1>1, <1>2

\* A sequence of members of a set.
LEMMA SeqOfMembers ==
    ASSUME NEW s \in Seq(Nat), NEW S, \A k \in 1..Len(s) : s[k] \in S
    PROVE  s \in Seq(S)
<1>1. Len(s) \in Nat /\ s \in [1..Len(s) -> Nat]
    BY LenProperties
<1>2. s \in [1..Len(s) -> S]
    BY <1>1
<1>3. QED
    BY <1>1, <1>2, SeqDef

\* A group is of an operation that nobody submitted before.
LEMMA AppendGroupProposes ==
    ASSUME BaseInv, AppliedInv, OpenInv, NEW shape \in Shapes, AppendGroup(shape)
    PROVE  Promise!Propose
<1>1. /\ phase = "idle" /\ phase' \in {"appended", "rolling"} /\ attempts < MaxAttempts
      /\ pending' = OpsOf(GroupFrames(shape, attempts + 1))
      /\ log' = log /\ rejected' = rejected
    BY DEF AppendGroup
<1>2. /\ pending = << >> /\ attempts \in Nat /\ MaxAttempts \in Nat /\ nextSeq \in Nat
      /\ rejected \in SUBSET (1..attempts) /\ log \in Seq(Nat)
      /\ \A s \in 1..Len(log) : log[s] \in 1..attempts
    BY <1>1, BoundsAssumption DEF OpenInv, HistInv, AppliedInv, BaseInv, TypeInv
<1>3. PICK fr, op : fr = GroupFrames(shape, attempts + 1) /\ op = attempts + 1
    OBVIOUS
<1>4. IsGroup(fr, op, nextSeq)
    BY <1>3, AppendGroupDoes DEF BaseInv
<1>5. op \in Nat /\ op \in 1..MaxAttempts /\ op \notin 1..attempts
    BY <1>1, <1>2, <1>3
<1>6. pending' \in Seq(Nat) /\ \A k \in 1..Len(pending') : pending'[k] = op
  <2>1. OpsOf(fr) \in Seq(Nat) /\ \A k \in 1..Len(OpsOf(fr)) : OpsOf(fr)[k] = op
      BY <1>2, <1>4, <1>5, GroupOps
  <2>2. QED
      BY <1>1, <1>3, <2>1
<1>7. pending' \in Seq(1..MaxAttempts)
  <2>1. PICK S : S = 1..MaxAttempts
      OBVIOUS
  <2>2. \A k \in 1..Len(pending') : pending'[k] \in S
      BY <1>5, <1>6, <2>1
  <2>3. pending' \in Seq(S)
      BY <1>6, <2>2, SeqOfMembers
  <2>4. QED
      BY <2>1, <2>3
<1>8. Promise!Ops(pending') \cap (Promise!Ops(log) \cup rejected) = {}
  <2>1. \A x \in Promise!Ops(pending') : x = op
      BY <1>6, LenProperties DEF Promise!Ops
  <2>2. \A x \in Promise!Ops(log) : x \in 1..attempts
      BY <1>2, LenProperties DEF Promise!Ops
  <2>3. QED
      BY <1>2, <1>5, <2>1, <2>2
<1>9. QED
    BY <1>1, <1>2, <1>7, <1>8 DEF Promise!Propose

LEMMA KeepsPromise ==
    ASSUME BaseInv, AppliedInv, NumbersInv, AckInv, OpenInv, [Next]_vars
    PROVE  [Promise!Next]_(Promise!vars)
<1>1. ASSUME NEW shape \in Shapes, AppendGroup(shape) PROVE [Promise!Next]_(Promise!vars)
    BY <1>1, AppendGroupProposes DEF Promise!Next
<1>2. CASE SyncGroup
  <2>1. Promise!Commit
      BY <1>2 DEF SyncGroup, Promise!Commit
  <2>2. QED
      BY <2>1 DEF Promise!Next
<1>3. CASE RollBackSync
  <2>1. ToSet(pending) = Promise!Ops(pending)
      BY DEF ToSet, Promise!Ops
  <2>2. Promise!Reject
      BY <1>3, <2>1 DEF RollBackSync, Promise!Reject
  <2>3. QED
      BY <2>2 DEF Promise!Next
<1>4. CASE IntoWriter
  <2>1. log' \in {log, log \o pending}
      BY <1>4, ReplayDecides DEF BaseInv
  <2>2. Promise!Recover
      BY <1>4, <2>1 DEF IntoWriter, Promise!Recover
  <2>3. QED
      BY <2>2 DEF Promise!Next
<1>5. CASE SyncGroupFails \/ RollBackTruncate \/ RollBackSyncFails \/ RotateEmpty \/ Rotate \/ RotateSync
           \/ RemoveCheckpointed \/ Fence \/ RotateLink
  <2>1. log' = log /\ pending' = pending /\ rejected' = rejected /\ phase \in Running
      BY <1>5 DEF SyncGroupFails, RollBackTruncate, RollBackSyncFails, RotateEmpty, Rotate, RotateSync,
                  RemoveCheckpointed, Fence, RotateLink, history, Running
  <2>2. QED
      BY <2>1, QuietStep
<1>6. CASE Barrier \/ RepairTail \/ IntoWriterFails \/ Crash \/ OperatorReboot \/ Kill
  <2>1. log' = log /\ pending' = pending /\ rejected' = rejected /\ phase' \notin Running
      BY <1>6 DEF Barrier, RepairTail, IntoWriterFails, Crash, OperatorReboot, Reboot, Kill, history, Running
  <2>2. QED
      BY <2>1, QuietStep
<1>7. CASE AdvanceCheckpoint \/ UNCHANGED vars
  <2>1. log' = log /\ pending' = pending /\ rejected' = rejected /\ phase' = phase
      BY <1>7 DEF AdvanceCheckpoint, vars, history
  <2>2. QED
      BY <2>1, QuietStep
<1>8. QED
    BY <1>1, <1>2, <1>3, <1>4, <1>5, <1>6, <1>7 DEF Next, Writing, Recovery

LEMMA StartsPromise == Init => Promise!Init
    BY DEF Init, Promise!Init

\* The write-ahead log implements DurableLog (writer.rs, append_group, roll_back, rotate; recovery.rs, open,
\* into_writer): a committed group stays, one answered NotApplied never comes back, and a group without an
\* answer is recovered whole or not at all, through every crash, torn write and failed system call, as long
\* as the barrier's syncs do not fail.
THEOREM ImplementsPromise ==
    ASSUME ~BarrierFaults
    PROVE  Spec => Implements
<1> DEFINE I == BaseInv /\ AppliedInv /\ NumbersInv /\ AckInv /\ OpenInv
<1>1. I /\ [Next]_vars => I'
    BY BaseStep, AppliedStep, NumbersStep, AckStep, OpenStep
<1>2. Init => I
    BY BaseInit, AppliedInit, NumbersInit, AckInit, OpenInit
<1>3. I /\ [Next]_vars => [Promise!Next]_(Promise!vars)
    BY KeepsPromise
<1> HIDE DEF I
<1>4. QED
    BY <1>1, <1>2, <1>3, StartsPromise, PTL DEF Spec, Implements, Promise!Spec

\* So no recovery or rollback removes, overwrites or revives an operation: what a caller was told is
\* logged keeps its number (I2, I6), and what was answered NotApplied stays out.
THEOREM LogLosesNothing ==
    ASSUME ~BarrierFaults
    PROVE  Spec => []Promise!NotAppliedStaysOut /\ Promise!OnlyExtends
BY ImplementsPromise, RejectedIsNeverLogged, LogOnlyExtends DEF Implements
=============================================================================
