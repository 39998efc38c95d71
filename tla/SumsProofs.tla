----------------------------- MODULE SumsProofs -----------------------------
(***************************************************************************)
(* What a sum over a finite set is, whatever order the fold takes it in.   *)
(***************************************************************************)
EXTENDS Sums, FiniteSets, FiniteSetTheorems, WellFoundedInduction, TLAPS

Some(s) == CHOOSE x \in s : TRUE
Rest(s) == s \ {Some(s)}

\* The fold's own recursion, up to sets of n elements.
FoldsUp(g, f, S, n) ==
    \A s \in SUBSET S : Cardinality(s) <= n =>
        g[s] = IF s = {} THEN 0 ELSE f[Some(s)] + g[Rest(s)]

LEMMA LeastOf ==
  ASSUME NEW S \in SUBSET Nat, S # {}
  PROVE  \E x \in S : \A y \in S : x <= y
  <1> DEFINE R == OpToRel(<, Nat)
  <1>1. IsWellFoundedOn(R, Nat) BY NatLessThanWellFounded
  <1>2. \A x, y \in Nat : <<x, y>> \in R <=> x < y BY DEF OpToRel
  <1> HIDE DEF R
  <1>3. \E x \in S : \A y \in S : ~ (<<y, x>> \in R) BY <1>1, WFMin
  <1>4. PICK x \in S : \A y \in S : ~ (<<y, x>> \in R) BY <1>3
  <1>5. ASSUME NEW y \in S PROVE x <= y
    <2>1. x \in Nat /\ y \in Nat /\ ~ (y < x) BY <1>2, <1>4
    <2>2. QED BY <2>1
  <1>6. QED BY <1>5

\* Among the first n numbers a nonempty set has a largest and a smallest.
LEMMA MaxMinOf ==
  ASSUME NEW n \in Nat, NEW S \in SUBSET (1..n), S # {}
  PROVE  /\ Max(S) \in S /\ \A y \in S : y =< Max(S)
         /\ Min(S) \in S /\ \A y \in S : Min(S) =< y
  <1>1. \E x \in S : \A y \in S : x =< y
    <2>1. S \in SUBSET Nat OBVIOUS
    <2>2. QED BY <2>1, LeastOf
  <1>2. \E x \in S : \A y \in S : x >= y
    <2> DEFINE T == {n - y : y \in S}
    <2>1. \A y \in S : n - y \in Nat
      <3>1. TAKE y \in S
      <3>2. y \in 1..n OBVIOUS
      <3>3. QED BY <3>2
    <2>2. T \in SUBSET Nat /\ T # {} BY <2>1, Zenon
    <2>3. PICK z \in T : \A y \in T : z <= y BY <2>2, LeastOf
    <2>4. PICK x \in S : z = n - x OBVIOUS
    <2>5. \A y \in S : n - x <= n - y
      <3>1. \A y \in S : n - y \in T OBVIOUS
      <3> HIDE DEF T
      <3>2. QED BY <2>3, <2>4, <3>1
    <2>6. \A y \in S : x >= y
      <3>1. TAKE y \in S
      <3>2. x \in Nat /\ y \in Nat /\ n - x <= n - y BY <2>5
      <3>3. QED BY <3>2
    <2>7. QED BY <2>6
  <1>3. Max(S) \in S /\ \A y \in S : Max(S) >= y BY <1>2 DEF Max
  <1>4. Min(S) \in S /\ \A y \in S : Min(S) =< y BY <1>1 DEF Min
  <1>5. QED
    <2>1. \A y \in S : y =< Max(S)
      <3>1. TAKE y \in S
      <3>1a. S \subseteq Nat OBVIOUS
      <3>1b. Max(S) \in S /\ Max(S) >= y BY <1>3
      <3>1c. y \in Nat /\ Max(S) \in Nat BY <3>1a, <3>1b
      <3> DEFINE m == Max(S)
      <3>2. y \in Nat /\ m \in Nat /\ m >= y BY <3>1b, <3>1c
      <3> HIDE DEF m
      <3>3. y =< m BY <3>2
      <3>4. QED BY <3>3 DEF m
    <2>2. QED BY <1>3, <1>4, <2>1

LEMMA OneLess ==
  ASSUME NEW S, IsFiniteSet(S), NEW s \in SUBSET S, NEW x \in s
  PROVE  /\ IsFiniteSet(s) /\ Cardinality(s) \in Nat /\ s \ {x} \in SUBSET S
         /\ IsFiniteSet(s \ {x}) /\ Cardinality(s \ {x}) = Cardinality(s) - 1
         /\ Cardinality(s \ {x}) \in Nat
  <1>1. IsFiniteSet(s) BY FS_Subset
  <1>2. QED BY <1>1, FS_CardinalityType, FS_RemoveElement

LEMMA EmptyHasNone ==
  ASSUME NEW S, IsFiniteSet(S)
  PROVE  Cardinality(S) \in Nat /\ (Cardinality(S) = 0 <=> S = {})
  BY FS_CardinalityType, FS_EmptySet

LEMMA SomeIsIn ==
  ASSUME NEW s, s # {}
  PROVE  Some(s) \in s
  BY DEF Some

\* The recursion has a solution, sets of one size after those of the size below.
LEMMA FoldExists ==
  ASSUME NEW S, IsFiniteSet(S), NEW f, \A x \in S : f[x] \in Int, NEW n \in Nat
  PROVE  \E g \in [SUBSET S -> Int] : FoldsUp(g, f, S, n)
  <1> DEFINE Failed == {k \in Nat : ~ \E g \in [SUBSET S -> Int] : FoldsUp(g, f, S, k)}
  <1>1. SUFFICES ASSUME Failed # {} PROVE FALSE
    OBVIOUS
  <1>2. PICK k \in Failed : \A j \in Failed : k <= j
    <2>1. Failed \in SUBSET Nat OBVIOUS
    <2> HIDE DEF Failed
    <2>2. QED BY <1>1, <2>1, LeastOf
  <1>3. \A s \in SUBSET S : Cardinality(s) \in Nat /\ (Cardinality(s) = 0 <=> s = {})
    BY FS_Subset, EmptyHasNone
  <1>4. CASE k = 0
    <2> DEFINE g == [s \in SUBSET S |-> 0]
    <2>1. g \in [SUBSET S -> Int] OBVIOUS
    <2>2. FoldsUp(g, f, S, 0) BY <1>3 DEF FoldsUp
    <2>3. QED BY <1>4, <2>1, <2>2
  <1>5. CASE k # 0
    <2>1. k \in Nat /\ k - 1 \in Nat /\ k - 1 \notin Failed
      <3>1. k \in Nat OBVIOUS
      <3>2. k - 1 \in Nat BY <1>5, <3>1
      <3> HIDE DEF Failed
      <3>3. k - 1 \in Failed => k <= k - 1 BY <1>2
      <3>4. QED BY <3>1, <3>2, <3>3
    <2>2. PICK g \in [SUBSET S -> Int] : FoldsUp(g, f, S, k - 1) BY <2>1
    <2> DEFINE h == [s \in SUBSET S |-> IF Cardinality(s) <= k - 1 THEN g[s]
                                        ELSE f[Some(s)] + g[Rest(s)]]
    <2>3. ASSUME NEW s \in SUBSET S, s # {}
          PROVE  /\ Some(s) \in S /\ f[Some(s)] \in Int /\ Rest(s) \in SUBSET S
                 /\ Cardinality(Rest(s)) = Cardinality(s) - 1 /\ g[Rest(s)] \in Int
      <3>1. Some(s) \in s BY <2>3, SomeIsIn
      <3>2. Rest(s) \in SUBSET S /\ Cardinality(Rest(s)) = Cardinality(s) - 1
        BY <3>1, OneLess DEF Rest
      <3>3. QED BY <3>1, <3>2
    <2>4. h \in [SUBSET S -> Int]
      <3>1. \A s \in SUBSET S : ~ (Cardinality(s) <= k - 1) => s # {}
        BY <1>3, <2>1
      <3>2. QED BY <2>3, <3>1
    <2>5. FoldsUp(h, f, S, k)
      <3> SUFFICES ASSUME NEW s \in SUBSET S, Cardinality(s) <= k
                   PROVE  h[s] = IF s = {} THEN 0 ELSE f[Some(s)] + h[Rest(s)]
        BY DEF FoldsUp
      <3>1. CASE s = {}
        <4>1. Cardinality(s) <= k - 1 BY <1>3, <2>1, <3>1
        <4>2. QED BY <2>2, <3>1, <4>1 DEF FoldsUp
      <3>2. CASE s # {}
        <4>1. Rest(s) \in SUBSET S /\ Cardinality(Rest(s)) <= k - 1
          BY <1>3, <2>1, <2>3, <3>2
        <4>2. h[Rest(s)] = g[Rest(s)] BY <4>1
        <4>3. h[s] = f[Some(s)] + g[Rest(s)]
          <5>1. Cardinality(s) <= k - 1 => g[s] = f[Some(s)] + g[Rest(s)] BY <2>2, <3>2 DEF FoldsUp
          <5>2. QED BY <5>1
        <4> HIDE DEF h
        <4>4. QED BY <3>2, <4>2, <4>3
      <3>3. QED BY <3>1, <3>2
    <2> HIDE DEF h
    <2>6. QED BY <2>1, <2>4, <2>5
  <1>6. QED BY <1>4, <1>5

\* Nor more than one, and subsets do not ask what they are subsets of.
LEMMA FoldIsOne ==
  ASSUME NEW S, IsFiniteSet(S), NEW T, IsFiniteSet(T), NEW f, NEW e,
         \A x \in S \cap T : f[x] = e[x],
         NEW g, FoldsUp(g, f, S, Cardinality(S)), NEW h, FoldsUp(h, e, T, Cardinality(T)),
         NEW s \in SUBSET (S \cap T)
  PROVE  g[s] = h[s]
  <1> DEFINE Differ == {Cardinality(r) : r \in {r \in SUBSET (S \cap T) : g[r] # h[r]}}
  <1>1. SUFFICES ASSUME Differ # {} PROVE FALSE
    OBVIOUS
  <1>2. \A r \in SUBSET (S \cap T) : r \in SUBSET S /\ r \in SUBSET T OBVIOUS
  <1>3. \A r \in SUBSET (S \cap T) : /\ Cardinality(r) \in Nat
                                     /\ Cardinality(r) <= Cardinality(S) /\ Cardinality(r) <= Cardinality(T)
    BY FS_Subset, FS_CardinalityType
  <1>4. PICK k \in Differ : \A j \in Differ : k <= j
    <2>1. Differ \in SUBSET Nat BY <1>3
    <2> HIDE DEF Differ
    <2>2. QED BY <1>1, <2>1, LeastOf
  <1>5. PICK r \in SUBSET (S \cap T) : g[r] # h[r] /\ Cardinality(r) = k OBVIOUS
  <1>6. /\ g[r] = IF r = {} THEN 0 ELSE f[Some(r)] + g[Rest(r)]
        /\ h[r] = IF r = {} THEN 0 ELSE e[Some(r)] + h[Rest(r)]
    BY <1>2, <1>3 DEF FoldsUp
  <1>7. r # {} BY <1>5, <1>6
  <1>8. Some(r) \in r BY <1>7, SomeIsIn
  <1>9. Rest(r) \in SUBSET (S \cap T) /\ Cardinality(Rest(r)) = Cardinality(r) - 1
    <2>1. IsFiniteSet(S \cap T) BY FS_Intersection
    <2>2. QED BY <1>8, <2>1, OneLess DEF Rest
  <1>10. g[Rest(r)] # h[Rest(r)] BY <1>5, <1>6, <1>7, <1>8
  <1>11. k - 1 \in Differ BY <1>5, <1>9, <1>10
  <1>12. k \in Nat BY <1>3, <1>5
  <1> HIDE DEF Differ
  <1>13. QED BY <1>4, <1>11, <1>12

\* So the library's fold is the recursion.
LEMMA SumIsFold ==
  ASSUME NEW S, IsFiniteSet(S), NEW f, \A x \in S : f[x] \in Int
  PROVE  \E g \in [SUBSET S -> Int] : FoldsUp(g, f, S, Cardinality(S)) /\ SumOf(f, S) = g[S]
  <1> DEFINE Iter(g) == g = [s \in SUBSET S |-> IF s = {} THEN 0 ELSE f[Some(s)] + g[Rest(s)]]
             it == CHOOSE g : Iter(g)
  <1>1. SumOf(f, S) = it[S] BY DEF SumOf, MapThenSumSet, MapThenFoldSet, Some, Rest
  <1>2. Cardinality(S) \in Nat BY FS_CardinalityType
  <1>3. PICK g \in [SUBSET S -> Int] : FoldsUp(g, f, S, Cardinality(S)) BY <1>2, FoldExists
  <1>4. \A s \in SUBSET S : Cardinality(s) <= Cardinality(S) BY FS_Subset
  <1>5. \A s \in SUBSET S : g[s] = IF s = {} THEN 0 ELSE f[Some(s)] + g[Rest(s)]
    BY <1>3, <1>4 DEF FoldsUp
  <1>6. Iter(g) BY <1>5
  <1>7. Iter(it) BY <1>6
  <1> HIDE DEF it
  <1>8. \A s \in SUBSET S : it[s] = IF s = {} THEN 0 ELSE f[Some(s)] + it[Rest(s)] BY <1>7
  <1>9. FoldsUp(it, f, S, Cardinality(S)) BY <1>8 DEF FoldsUp
  <1>10. \A s \in SUBSET S : it[s] = g[s] BY <1>3, <1>9, FoldIsOne
  <1>11. it[S] = g[S] BY <1>10
  <1>12. QED BY <1>1, <1>3, <1>11

LEMMA SumOfNone ==
  ASSUME NEW f
  PROVE  SumOf(f, {}) = 0
  <1>1. IsFiniteSet({}) /\ Cardinality({}) = 0 BY FS_EmptySet
  <1>2. PICK g \in [SUBSET {} -> Int] : FoldsUp(g, f, {}, 0) /\ SumOf(f, {}) = g[{}]
    BY <1>1, SumIsFold
  <1>3. QED BY <1>1, <1>2 DEF FoldsUp

LEMMA SumType ==
  ASSUME NEW S, IsFiniteSet(S), NEW f, \A x \in S : f[x] \in Int
  PROVE  SumOf(f, S) \in Int
  <1>1. PICK g \in [SUBSET S -> Int] : SumOf(f, S) = g[S] BY SumIsFold
  <1>2. QED BY <1>1

\* Only the values on the set count.
LEMMA SumSame ==
  ASSUME NEW S, IsFiniteSet(S), NEW f, NEW e, \A x \in S : f[x] \in Int /\ e[x] = f[x]
  PROVE  SumOf(e, S) = SumOf(f, S)
  <1>1. PICK g \in [SUBSET S -> Int] : FoldsUp(g, f, S, Cardinality(S)) /\ SumOf(f, S) = g[S]
    BY SumIsFold
  <1>2. PICK h \in [SUBSET S -> Int] : FoldsUp(h, e, S, Cardinality(S)) /\ SumOf(e, S) = h[S]
    BY SumIsFold
  <1>3. \A s \in SUBSET (S \cap S) : h[s] = g[s] BY <1>1, <1>2, FoldIsOne
  <1>4. QED BY <1>1, <1>2, <1>3

LEMMA SumSplits ==
  ASSUME NEW S, IsFiniteSet(S), NEW f, \A x \in S : f[x] \in Int, S # {}
  PROVE  SumOf(f, S) = f[Some(S)] + SumOf(f, Rest(S))
  <1>1. Some(S) \in S BY SomeIsIn
  <1>2. IsFiniteSet(Rest(S)) /\ Rest(S) \in SUBSET S BY <1>1, OneLess DEF Rest
  <1>3. PICK g \in [SUBSET S -> Int] : FoldsUp(g, f, S, Cardinality(S)) /\ SumOf(f, S) = g[S]
    BY SumIsFold
  <1>4. PICK h \in [SUBSET Rest(S) -> Int] :
          FoldsUp(h, f, Rest(S), Cardinality(Rest(S))) /\ SumOf(f, Rest(S)) = h[Rest(S)]
    BY <1>2, SumIsFold
  <1>5. g[Rest(S)] = h[Rest(S)]
    <2>1. Rest(S) \in SUBSET (S \cap Rest(S)) BY <1>2
    <2>2. QED BY <1>2, <1>3, <1>4, <2>1, FoldIsOne
  <1>6. Cardinality(S) <= Cardinality(S) BY FS_CardinalityType
  <1>7. g[S] = f[Some(S)] + g[Rest(S)] BY <1>3, <1>6 DEF FoldsUp
  <1>8. QED BY <1>3, <1>4, <1>5, <1>7

\* Any one element may be taken out first.
LEMMA SumTakesOut ==
  ASSUME NEW T, IsFiniteSet(T), NEW f, \A x \in T : f[x] \in Int, NEW x \in T
  PROVE  SumOf(f, T) = f[x] + SumOf(f, T \ {x})
  <1> DEFINE Wrong == {S \in SUBSET T : \E y \in S : SumOf(f, S) # f[y] + SumOf(f, S \ {y})}
             Sizes == {Cardinality(S) : S \in Wrong}
  <1>1. SUFFICES ASSUME Sizes # {} PROVE FALSE
    OBVIOUS
  <1>2. \A S \in SUBSET T : IsFiniteSet(S) /\ Cardinality(S) \in Nat /\ SumOf(f, S) \in Int
    BY FS_Subset, FS_CardinalityType, SumType
  <1>3. PICK k \in Sizes : \A j \in Sizes : k <= j
    <2>1. Sizes \in SUBSET Nat BY <1>2
    <2> HIDE DEF Sizes
    <2>2. QED BY <1>1, <2>1, LeastOf
  <1>4. PICK S \in Wrong : Cardinality(S) = k OBVIOUS
  <1>5. PICK y \in S : SumOf(f, S) # f[y] + SumOf(f, S \ {y}) OBVIOUS
  <1>6. S \in SUBSET T /\ S # {} OBVIOUS
  <1>7. Some(S) \in S /\ f[Some(S)] \in Int /\ f[y] \in Int BY <1>5, <1>6, SomeIsIn
  <1>8. SumOf(f, S) = f[Some(S)] + SumOf(f, Rest(S)) BY <1>2, <1>6, SumSplits
  <1>9. Some(S) # y BY <1>5, <1>8 DEF Rest
  <1>10. Rest(S) \in SUBSET T /\ Cardinality(Rest(S)) = k - 1 /\ y \in Rest(S)
         /\ S \ {y} \in SUBSET T /\ Cardinality(S \ {y}) = k - 1 /\ Some(S) \in S \ {y}
         /\ Rest(S) \ {y} \in SUBSET T
    BY <1>4, <1>6, <1>7, <1>9, OneLess DEF Rest
  <1>11. k \in Nat BY <1>2, <1>4, <1>6
  <1>12. \A R \in SUBSET T : Cardinality(R) = k - 1 => R \notin Wrong
    <2>1. \A R \in Wrong : Cardinality(R) \in Sizes OBVIOUS
    <2> HIDE DEF Sizes, Wrong
    <2>2. QED BY <1>3, <1>11, <2>1
  <1>13. SumOf(f, Rest(S)) = f[y] + SumOf(f, Rest(S) \ {y}) BY <1>10, <1>12
  <1>14. SumOf(f, S \ {y}) = f[Some(S)] + SumOf(f, (S \ {y}) \ {Some(S)}) BY <1>10, <1>12
  <1>15. (S \ {y}) \ {Some(S)} = Rest(S) \ {y} BY DEF Rest
  <1>16. SumOf(f, Rest(S) \ {y}) \in Int BY <1>2, <1>10
  <1> HIDE DEF Wrong, Sizes
  <1>17. SumOf(f, S) = f[Some(S)] + (f[y] + SumOf(f, Rest(S) \ {y})) BY <1>8, <1>13
  <1>18. SumOf(f, S \ {y}) = f[Some(S)] + SumOf(f, Rest(S) \ {y}) BY <1>14, <1>15
  <1>19. SumOf(f, S) = f[y] + SumOf(f, S \ {y}) BY <1>7, <1>16, <1>17, <1>18
  <1>20. QED BY <1>5, <1>19

\* One value changes.
LEMMA SumChanges ==
  ASSUME NEW S, IsFiniteSet(S), NEW f, NEW e, NEW x \in S,
         \A y \in S : f[y] \in Int /\ e[y] \in Int, \A y \in S \ {x} : e[y] = f[y]
  PROVE  SumOf(e, S) = SumOf(f, S) + (e[x] - f[x])
  <1>1. IsFiniteSet(S \ {x}) BY FS_Subset
  <1>2. SumOf(e, S \ {x}) = SumOf(f, S \ {x}) BY <1>1, SumSame
  <1>3. SumOf(f, S \ {x}) \in Int BY <1>1, SumType
  <1>4. SumOf(f, S) = f[x] + SumOf(f, S \ {x}) BY SumTakesOut
  <1>5. SumOf(e, S) = e[x] + SumOf(e, S \ {x}) BY SumTakesOut
  <1>6. f[x] \in Int /\ e[x] \in Int OBVIOUS
  <1>7. QED BY <1>2, <1>3, <1>4, <1>5, <1>6

LEMMA SumGrows ==
  ASSUME NEW S, IsFiniteSet(S), NEW x, x \notin S, NEW f, \A y \in S \cup {x} : f[y] \in Int
  PROVE  SumOf(f, S \cup {x}) = f[x] + SumOf(f, S)
  <1>1. IsFiniteSet(S \cup {x}) BY FS_AddElement
  <1>2. (S \cup {x}) \ {x} = S OBVIOUS
  <1>3. SumOf(f, S \cup {x}) = f[x] + SumOf(f, (S \cup {x}) \ {x}) BY <1>1, SumTakesOut
  <1>4. QED BY <1>2, <1>3

\* No smaller value, no smaller sum.
LEMMA SumRises ==
  ASSUME NEW T, IsFiniteSet(T), NEW f, NEW e,
         \A y \in T : f[y] \in Int /\ e[y] \in Int /\ f[y] <= e[y]
  PROVE  SumOf(f, T) <= SumOf(e, T)
  <1> DEFINE Wrong == {S \in SUBSET T : ~ (SumOf(f, S) <= SumOf(e, S))}
             Sizes == {Cardinality(S) : S \in Wrong}
  <1>1. SUFFICES ASSUME Sizes # {} PROVE FALSE
    OBVIOUS
  <1>2. \A S \in SUBSET T : /\ IsFiniteSet(S) /\ Cardinality(S) \in Nat
                            /\ SumOf(f, S) \in Int /\ SumOf(e, S) \in Int
    BY FS_Subset, FS_CardinalityType, SumType
  <1>3. PICK k \in Sizes : \A j \in Sizes : k <= j
    <2>1. Sizes \in SUBSET Nat BY <1>2
    <2> HIDE DEF Sizes
    <2>2. QED BY <1>1, <2>1, LeastOf
  <1>4. PICK S \in Wrong : Cardinality(S) = k OBVIOUS
  <1>5. S \in SUBSET T /\ ~ (SumOf(f, S) <= SumOf(e, S)) OBVIOUS
  <1>6. S # {} BY <1>5, SumOfNone
  <1>7. PICK x \in S : TRUE BY <1>6
  <1>8. S \ {x} \in SUBSET T /\ Cardinality(S \ {x}) = k - 1 BY <1>4, <1>5, <1>7, OneLess
  <1>9. k \in Nat BY <1>2, <1>4, <1>5
  <1>10. SumOf(f, S \ {x}) <= SumOf(e, S \ {x})
    <2>1. \A R \in SUBSET T : R \notin Wrong => SumOf(f, R) <= SumOf(e, R) OBVIOUS
    <2>2. \A R \in Wrong : Cardinality(R) \in Sizes OBVIOUS
    <2> HIDE DEF Sizes, Wrong
    <2>3. S \ {x} \notin Wrong BY <1>3, <1>8, <1>9, <2>2
    <2>4. QED BY <1>8, <2>1, <2>3
  <1>11. SumOf(f, S) = f[x] + SumOf(f, S \ {x}) /\ SumOf(e, S) = e[x] + SumOf(e, S \ {x})
    BY <1>2, <1>5, <1>7, SumTakesOut
  <1>12. f[x] \in Int /\ e[x] \in Int /\ f[x] <= e[x] BY <1>5, <1>7
  <1>13. SumOf(f, S \ {x}) \in Int /\ SumOf(e, S \ {x}) \in Int BY <1>2, <1>8
  <1> HIDE DEF Wrong, Sizes
  <1>14. QED BY <1>5, <1>10, <1>11, <1>12, <1>13

LEMMA SumOfZeros ==
  ASSUME NEW S, IsFiniteSet(S), NEW f, \A x \in S : f[x] = 0
  PROVE  SumOf(f, S) = 0
  <1>0. \A x \in S : f[x] \in Int OBVIOUS
  <1>1. PICK g \in [SUBSET S -> Int] : FoldsUp(g, f, S, Cardinality(S)) /\ SumOf(f, S) = g[S]
    BY <1>0, SumIsFold
  <1> DEFINE h == [s \in SUBSET S |-> 0]
  <1>2. \A s \in SUBSET S : s # {} => f[Some(s)] = 0 /\ Rest(s) \in SUBSET S
    BY SomeIsIn DEF Rest
  <1>3. FoldsUp(h, f, S, Cardinality(S)) BY <1>2 DEF FoldsUp
  <1> HIDE DEF h
  <1>4. g[S] = h[S] BY <1>1, <1>3, FoldIsOne
  <1>5. QED BY <1>1, <1>4 DEF h

LEMMA SumOfNaturals ==
  ASSUME NEW S, IsFiniteSet(S), NEW f, \A x \in S : f[x] \in Nat
  PROVE  SumOf(f, S) \in Nat
  <1> DEFINE zero == [x \in S |-> 0]
  <1>1. \A x \in S : zero[x] = 0 /\ zero[x] \in Int /\ f[x] \in Int /\ zero[x] <= f[x] OBVIOUS
  <1> HIDE DEF zero
  <1>2. SumOf(zero, S) = 0 BY <1>1, SumOfZeros
  <1>3. SumOf(zero, S) <= SumOf(f, S) BY <1>1, SumRises
  <1>4. SumOf(f, S) \in Int BY <1>1, SumType
  <1>5. QED BY <1>2, <1>3, <1>4

\* Two parts add up to the whole.
LEMMA SumOfBoth ==
  ASSUME NEW A, IsFiniteSet(A), NEW T, IsFiniteSet(T), A \cap T = {}, NEW f,
         \A y \in A \cup T : f[y] \in Int
  PROVE  SumOf(f, A \cup T) = SumOf(f, A) + SumOf(f, T)
  <1> DEFINE Wrong == {S \in SUBSET T : SumOf(f, A \cup S) # SumOf(f, A) + SumOf(f, S)}
             Sizes == {Cardinality(S) : S \in Wrong}
  <1>1. SUFFICES ASSUME Sizes # {} PROVE FALSE
    OBVIOUS
  <1>2. \A S \in SUBSET T : /\ IsFiniteSet(S) /\ Cardinality(S) \in Nat /\ SumOf(f, S) \in Int
                            /\ IsFiniteSet(A \cup S) /\ SumOf(f, A \cup S) \in Int
    <2>1. TAKE S \in SUBSET T
    <2>2. IsFiniteSet(S) /\ Cardinality(S) \in Nat BY FS_Subset, FS_CardinalityType
    <2>3. IsFiniteSet(A \cup S) BY <2>2, FS_Union
    <2>4. \A y \in S : f[y] \in Int OBVIOUS
    <2>5. \A y \in A \cup S : f[y] \in Int OBVIOUS
    <2>6. QED BY <2>2, <2>3, <2>4, <2>5, SumType
  <1>3. SumOf(f, A) \in Int BY SumType
  <1>4. PICK k \in Sizes : \A j \in Sizes : k <= j
    <2>1. Sizes \in SUBSET Nat BY <1>2
    <2> HIDE DEF Sizes
    <2>2. QED BY <1>1, <2>1, LeastOf
  <1>5. PICK S \in Wrong : Cardinality(S) = k OBVIOUS
  <1>6. S \in SUBSET T /\ SumOf(f, A \cup S) # SumOf(f, A) + SumOf(f, S) OBVIOUS
  <1>7. S # {}
    <2>1. A \cup {} = A OBVIOUS
    <2>2. SumOf(f, {}) = 0 BY SumOfNone
    <2>3. SumOf(f, A) = SumOf(f, A) + 0 BY <1>3
    <2>4. QED BY <1>6, <2>1, <2>2, <2>3
  <1>8. PICK x \in S : TRUE BY <1>7
  <1>9. S \ {x} \in SUBSET T /\ Cardinality(S \ {x}) = k - 1 BY <1>5, <1>6, <1>8, OneLess
  <1>10. k \in Nat BY <1>2, <1>5, <1>6
  <1>11. SumOf(f, A \cup (S \ {x})) = SumOf(f, A) + SumOf(f, S \ {x})
    <2>1. \A R \in SUBSET T : R \notin Wrong => SumOf(f, A \cup R) = SumOf(f, A) + SumOf(f, R)
      OBVIOUS
    <2>2. \A R \in Wrong : Cardinality(R) \in Sizes OBVIOUS
    <2> HIDE DEF Sizes, Wrong
    <2>3. S \ {x} \notin Wrong BY <1>4, <1>9, <1>10, <2>2
    <2>4. QED BY <1>9, <2>1, <2>3
  <1>12. SumOf(f, S) = f[x] + SumOf(f, S \ {x}) BY <1>2, <1>6, <1>8, SumTakesOut
  <1>13. SumOf(f, A \cup S) = f[x] + SumOf(f, A \cup (S \ {x}))
    <2>1. (A \cup S) \ {x} = A \cup (S \ {x}) BY <1>6, <1>8
    <2>2. IsFiniteSet(A \cup S) /\ x \in A \cup S BY <1>2, <1>6, <1>8
    <2>3. \A y \in A \cup S : f[y] \in Int BY <1>6
    <2>4. SumOf(f, A \cup S) = f[x] + SumOf(f, (A \cup S) \ {x}) BY <2>2, <2>3, SumTakesOut
    <2>5. QED BY <2>1, <2>4
  <1>14. f[x] \in Int /\ SumOf(f, S \ {x}) \in Int BY <1>2, <1>6, <1>8, <1>9
  <1> HIDE DEF Wrong, Sizes
  <1>15. QED BY <1>3, <1>6, <1>11, <1>12, <1>13, <1>14
=============================================================================
