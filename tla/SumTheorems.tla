---------------------------- MODULE SumTheorems -----------------------------
(* Sums over finite sets, as MapThenSumSet of the community modules folds   *)
(* them: the size of a file is such a sum over its entries, and what an     *)
(* account was charged one over its events.  A proof needs the sum of the   *)
(* empty set, of one element more, and on which numbers it depends.         *)
EXTENDS Naturals, FiniteSetsExt, FiniteSetTheorems, NaturalsInduction,
        WellFoundedInduction, TLAPS

Sum(f, S) == MapThenSumSet(LAMBDA e : f[e], S)
Pick(s) == CHOOSE e \in s : TRUE

\* g is the fold's own function on the subsets of S.
IsFold(f, g, S) ==
    g = [s \in SUBSET S |-> IF s = {} THEN 0 ELSE f[Pick(s)] + g[s \ {Pick(s)}]]

LEMMA SumIsFold == ASSUME NEW f, NEW S PROVE Sum(f, S) = (CHOOSE g : IsFold(f, g, S))[S]
BY DEF Sum, MapThenSumSet, MapThenFoldSet, IsFold, Pick

LEMMA PickIn == \A s : s # {} => Pick(s) \in s
BY DEF Pick

LEMMA Smallest == ASSUME NEW T \in SUBSET Nat, T # {} PROVE \E m \in T : \A k \in T : m <= k
<1> DEFINE R == OpToRel(<, Nat)
<1>1. IsWellFoundedOn(R, Nat)
  BY NatLessThanWellFounded
<1>2. \A a, b \in Nat : <<a, b>> \in R <=> a < b
  BY DEF OpToRel
<1> HIDE DEF R
<1>3. PICK m \in T : \A k \in T : ~(<<k, m>> \in R)
  BY <1>1, WFMin
<1>4. ASSUME NEW k \in T PROVE m <= k
  <2>1. ~(k < m)
    BY <1>2, <1>3
  <2> QED BY <2>1
<1> QED BY <1>4

\* Induction over the subsets of a finite set: whatever holds of a set when it
\* holds of its proper subsets holds of all.
LEMMA InductSets ==
    ASSUME NEW B, IsFiniteSet(B), NEW X,
           \A s \in SUBSET B : (\A t \in SUBSET s : t # s => t \in X) => s \in X
    PROVE  \A s \in SUBSET B : s \in X
<1> DEFINE Y == {s \in SUBSET B : s \notin X}
           N == {Cardinality(s) : s \in Y}
<1> SUFFICES ASSUME Y # {} PROVE FALSE
  OBVIOUS
<1>1. \A s \in SUBSET B : IsFiniteSet(s) /\ Cardinality(s) \in Nat
  BY FS_Subset, FS_CardinalityType
<1>2. N \in SUBSET Nat /\ N # {}
  BY <1>1
<1>3. PICK s \in Y : \A t \in Y : Cardinality(s) <= Cardinality(t)
  <2>1. PICK m \in N : \A k \in N : m <= k
    <3> HIDE DEF N
    <3> QED BY <1>2, Smallest
  <2> QED BY <2>1
<1>4. ASSUME NEW t \in SUBSET s, t # s PROVE t \in X
  <2>1. IsFiniteSet(s) /\ Cardinality(s) \in Nat /\ Cardinality(t) \in Nat
    BY <1>1
  <2>2. Cardinality(t) < Cardinality(s)
    BY <2>1, <1>4, FS_Subset
  <2> QED BY <1>3, <2>1, <2>2
<1> QED BY <1>4

\* The fold's function exists and is the only one.
LEMMA FoldUnique ==
    ASSUME NEW S, IsFiniteSet(S), NEW f, NEW T \in SUBSET S,
           NEW g, NEW h, IsFold(f, g, S), IsFold(f, h, T)
    PROVE  \A s \in SUBSET T : g[s] = h[s]
<1> DEFINE X == {s \in SUBSET T : g[s] = h[s]}
<1>1. IsFiniteSet(T)
  BY FS_Subset
<1>2. ASSUME NEW s \in SUBSET T, \A t \in SUBSET s : t # s => t \in X PROVE s \in X
  <2>0. /\ g[s] = IF s = {} THEN 0 ELSE f[Pick(s)] + g[s \ {Pick(s)}]
        /\ h[s] = IF s = {} THEN 0 ELSE f[Pick(s)] + h[s \ {Pick(s)}]
    <3>1. s \in SUBSET S
      OBVIOUS
    <3> QED BY <3>1 DEF IsFold
  <2>1. CASE s = {}
    BY <2>0, <2>1
  <2>2. CASE s # {}
    <3>1. s \ {Pick(s)} \in SUBSET s /\ s \ {Pick(s)} # s
      BY <2>2, PickIn
    <3>2. s \ {Pick(s)} \in X
      BY <1>2, <3>1
    <3> QED BY <2>0, <2>2, <3>2
  <2> QED BY <2>1, <2>2
<1> HIDE DEF X
<1>3. \A s \in SUBSET T : s \in X
  BY <1>1, <1>2, InductSets
<1> QED BY <1>3 DEF X

LEMMA FoldExists ==
    ASSUME NEW B, IsFiniteSet(B), NEW f
    PROVE  \A S \in SUBSET B : IsFold(f, CHOOSE g : IsFold(f, g, S), S)
<1> DEFINE X == {S \in SUBSET B : \E g : IsFold(f, g, S)}
<1>1. ASSUME NEW S \in SUBSET B, \A T \in SUBSET S : T # S => T \in X PROVE S \in X
  <2> DEFINE G == [s \in SUBSET S |-> IF s = {} THEN 0 ELSE f[Pick(s)] + Sum(f, s \ {Pick(s)})]
  <2>1. ASSUME NEW T \in SUBSET S, T # S PROVE G[T] = Sum(f, T)
    <3> DEFINE c == CHOOSE g : IsFold(f, g, T)
    <3>1. IsFold(f, c, T) /\ Sum(f, T) = c[T]
      BY <1>1, <2>1, SumIsFold
    <3> HIDE DEF c
    <3>2. c[T] = IF T = {} THEN 0 ELSE f[Pick(T)] + c[T \ {Pick(T)}]
      BY <3>1 DEF IsFold
    <3>3. CASE T = {}
      BY <3>1, <3>2, <3>3
    <3>4. CASE T # {}
      <4> DEFINE U == T \ {Pick(T)}
                 d == CHOOSE g : IsFold(f, g, U)
      <4>1. U \in SUBSET T /\ U # S
        BY <2>1, <3>4, PickIn
      <4>2. IsFold(f, d, U) /\ Sum(f, U) = d[U]
        BY <1>1, <4>1, SumIsFold
      <4> HIDE DEF d
      <4>3. IsFiniteSet(T)
        BY FS_Subset
      <4>4. c[U] = d[U]
        BY <3>1, <4>1, <4>2, <4>3, FoldUnique
      <4> QED BY <3>1, <3>2, <3>4, <4>2, <4>4
    <3> QED BY <3>3, <3>4
  <2>2. ASSUME NEW s \in SUBSET S, s # {} PROVE Sum(f, s \ {Pick(s)}) = G[s \ {Pick(s)}]
    <3>1. s \ {Pick(s)} \in SUBSET S /\ s \ {Pick(s)} # S
      BY <2>2, PickIn
    <3> QED BY <2>1, <3>1
  <2>3. IsFold(f, G, S)
    BY <2>2 DEF IsFold
  <2> QED BY <2>3
<1> HIDE DEF X
<1>2. \A S \in SUBSET B : S \in X
  BY <1>1, InductSets
<1> QED BY <1>2 DEF X

LEMMA SumStep ==
    ASSUME NEW S, IsFiniteSet(S), NEW f
    PROVE  Sum(f, S) = IF S = {} THEN 0 ELSE f[Pick(S)] + Sum(f, S \ {Pick(S)})
<1> DEFINE c == CHOOSE g : IsFold(f, g, S)
           U == S \ {Pick(S)}
           d == CHOOSE g : IsFold(f, g, U)
<1>1. IsFold(f, c, S) /\ Sum(f, S) = c[S]
  BY FoldExists, SumIsFold
<1>2. IsFold(f, d, U) /\ Sum(f, U) = d[U]
  BY FoldExists, SumIsFold
<1> HIDE DEF c, d
<1>3. c[U] = d[U]
  BY <1>1, <1>2, FoldUnique
<1>4. c[S] = IF S = {} THEN 0 ELSE f[Pick(S)] + c[U]
  BY <1>1 DEF IsFold
<1> QED BY <1>1, <1>2, <1>3, <1>4

LEMMA SumType ==
    ASSUME NEW B, IsFiniteSet(B), NEW f, \A e \in B : f[e] \in Nat
    PROVE  \A S \in SUBSET B : Sum(f, S) \in Nat
<1> DEFINE X == {S \in SUBSET B : Sum(f, S) \in Nat}
<1>1. ASSUME NEW S \in SUBSET B, \A T \in SUBSET S : T # S => T \in X PROVE S \in X
  <2>1. Sum(f, S) = IF S = {} THEN 0 ELSE f[Pick(S)] + Sum(f, S \ {Pick(S)})
    BY SumStep, FS_Subset
  <2>2. CASE S = {}
    BY <2>1, <2>2
  <2>3. CASE S # {}
    <3>1. Pick(S) \in S
      BY <2>3, PickIn
    <3>2. S \ {Pick(S)} \in X
      BY <1>1, <3>1
    <3> QED BY <2>1, <2>3, <3>1, <3>2
  <2> QED BY <2>2, <2>3
<1> HIDE DEF X
<1>2. \A S \in SUBSET B : S \in X
  BY <1>1, InductSets
<1> QED BY <1>2 DEF X

\* Any element can be counted first.
LEMMA SumTake ==
    ASSUME NEW B, IsFiniteSet(B), NEW f, \A e \in B : f[e] \in Nat
    PROVE  \A S \in SUBSET B : \A e \in S : Sum(f, S) = f[e] + Sum(f, S \ {e})
<1> DEFINE X == {S \in SUBSET B : \A e \in S : Sum(f, S) = f[e] + Sum(f, S \ {e})}
<1>1. ASSUME NEW S \in SUBSET B, \A T \in SUBSET S : T # S => T \in X PROVE S \in X
  <2> SUFFICES ASSUME NEW e \in S PROVE Sum(f, S) = f[e] + Sum(f, S \ {e})
    OBVIOUS
  <2> DEFINE p == Pick(S)
             q == Pick(S \ {e})
             R == (S \ {p}) \ {e}
  <2>1. p \in S /\ IsFiniteSet(S) /\ Sum(f, S) = f[p] + Sum(f, S \ {p})
    BY SumStep, FS_Subset, PickIn
  <2> HIDE DEF p
  <2>2. CASE p = e
    BY <2>1, <2>2
  <2>3. CASE p # e
    <3>1. S \ {p} \in X /\ S \ {e} \in X /\ e \in S \ {p} /\ p \in S \ {e}
      BY <1>1, <2>1, <2>3
    <3>2. Sum(f, S \ {p}) = f[e] + Sum(f, R)
      BY <3>1
    <3>3. Sum(f, S \ {e}) = f[p] + Sum(f, (S \ {e}) \ {p})
      BY <3>1
    <3>4. (S \ {e}) \ {p} = R
      OBVIOUS
    <3>5. f[p] \in Nat /\ f[e] \in Nat /\ Sum(f, R) \in Nat
      BY <2>1, SumType
    <3> QED BY <2>1, <3>2, <3>3, <3>4, <3>5
  <2> QED BY <2>2, <2>3
<1> HIDE DEF X
<1>2. \A S \in SUBSET B : S \in X
  BY <1>1, InductSets
<1> QED BY <1>2 DEF X

\* The sum depends on the numbers of its elements only.
LEMMA SumSame ==
    ASSUME NEW B, IsFiniteSet(B), NEW f, NEW g, \A e \in B : f[e] = g[e]
    PROVE  \A S \in SUBSET B : Sum(f, S) = Sum(g, S)
<1> DEFINE X == {S \in SUBSET B : Sum(f, S) = Sum(g, S)}
<1>1. ASSUME NEW S \in SUBSET B, \A T \in SUBSET S : T # S => T \in X PROVE S \in X
  <2>1. /\ Sum(f, S) = IF S = {} THEN 0 ELSE f[Pick(S)] + Sum(f, S \ {Pick(S)})
        /\ Sum(g, S) = IF S = {} THEN 0 ELSE g[Pick(S)] + Sum(g, S \ {Pick(S)})
    BY SumStep, FS_Subset
  <2>2. CASE S = {}
    BY <2>1, <2>2
  <2>3. CASE S # {}
    <3>1. Pick(S) \in S
      BY <2>3, PickIn
    <3>2. S \ {Pick(S)} \in X
      BY <1>1, <3>1
    <3> QED BY <2>1, <2>3, <3>1, <3>2
  <2> QED BY <2>2, <2>3
<1> HIDE DEF X
<1>2. \A S \in SUBSET B : S \in X
  BY <1>1, InductSets
<1> QED BY <1>2 DEF X

\* One element more, whose number alone may be new.
LEMMA SumMore ==
    ASSUME NEW S, IsFiniteSet(S), NEW n, n \notin S, NEW f, NEW g,
           \A e \in S : f[e] \in Nat /\ g[e] = f[e], g[n] \in Nat
    PROVE  Sum(g, S \cup {n}) = Sum(f, S) + g[n]
<1> DEFINE T == S \cup {n}
<1>1. Sum(f, S) \in Nat
  BY SumType
<1>2. Sum(g, S) = Sum(f, S)
  BY SumSame
<1>3. /\ IsFiniteSet(T) /\ T \in SUBSET T /\ n \in T /\ T \ {n} = S
      /\ \A e \in T : g[e] \in Nat
  BY FS_AddElement
<1> HIDE DEF T
<1>4. Sum(g, T) = g[n] + Sum(g, T \ {n})
  BY <1>3, SumTake
<1>5. Sum(g, T) = g[n] + Sum(f, S)
  BY <1>2, <1>3, <1>4
<1>6. Sum(g, T) = Sum(f, S) + g[n]
  BY ONLY <1>1, <1>5, g[n] \in Nat
<1> QED BY <1>6 DEF T

\* Induction over the naturals, for a set in place of a predicate.
LEMMA InductNat ==
    ASSUME NEW X, 0 \in X, \A n \in Nat : n \in X => n + 1 \in X
    PROVE  \A n \in Nat : n \in X
<1> DEFINE Y == {n \in Nat : n \notin X}
<1> SUFFICES ASSUME Y # {} PROVE FALSE
  OBVIOUS
<1>1. PICK m \in Y : \A k \in Y : m <= k
  <2>1. Y \in SUBSET Nat
    OBVIOUS
  <2> HIDE DEF Y
  <2> QED BY <2>1, Smallest
<1>2. m \in Nat /\ m # 0
  BY <1>1
<1>3. m - 1 \in Nat /\ m - 1 \notin Y
  BY <1>1, <1>2
<1>4. (m - 1) + 1 \in X
  BY <1>3
<1> QED BY <1>1, <1>2, <1>4
=============================================================================
