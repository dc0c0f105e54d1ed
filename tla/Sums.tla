--------------------------------- MODULE Sums ---------------------------------
(***************************************************************************)
(* Sums over finite sets.  SumFunctionOnSet(f, D) folds f over D in an      *)
(* order that CHOOSE determines; the lemmas say that the order does not    *)
(* matter, and what a change of f or of D does to the sum.                 *)
(***************************************************************************)
EXTENDS Integers, FiniteSets, Functions, FiniteSetTheorems, NaturalsInduction,
        WellFoundedInduction, TLAPS

-----------------------------------------------------------------------------
\* A set of natural numbers has a least element.
LEMMA Least ==
  ASSUME NEW S \in SUBSET Nat, S # {}
  PROVE  \E m \in S : \A x \in S : m <= x
  <1> DEFINE Less == OpToRel(<, Nat)
  <1>1. PICK m \in S : \A x \in S : ~ (<<x, m>> \in Less)
    <2>1. IsWellFoundedOn(Less, Nat)
      BY NatLessThanWellFounded, Zenon
    <2> HIDE DEF Less
    <2> QED BY <2>1, WFMin
  <1>2. ASSUME NEW x \in S  PROVE  m <= x
    <2>1. m \in Nat /\ x \in Nat
      OBVIOUS
    <2>2. ~ (x < m)
      BY <1>1, <2>1 DEF OpToRel
    <2> QED BY <2>1, <2>2
  <1> QED BY <1>2

\* What holds of a set as soon as it holds of all smaller ones holds of S.
LEMMA BySize ==
  ASSUME NEW S, IsFiniteSet(S), NEW P,
         \A T \in SUBSET S : (\A U \in SUBSET T : U # T => U \in P) => T \in P
  PROVE  S \in P
  <1> DEFINE Bad == (SUBSET S) \ P
             Sizes == {Cardinality(T) : T \in Bad}
  <1>1. ASSUME Bad # {}  PROVE  FALSE
    <2>1. Sizes \in SUBSET Nat /\ Sizes # {}
      <3>1. ASSUME NEW T \in SUBSET S  PROVE  Cardinality(T) \in Nat
        BY FS_Subset, FS_CardinalityType
      <3> QED BY <1>1, <3>1
    <2>2. PICK n \in Sizes : \A m \in Sizes : n <= m
      <3> HIDE DEF Sizes
      <3> QED BY <2>1, Least
    <2>3. PICK T \in Bad : n = Cardinality(T)
      OBVIOUS
    <2>4. IsFiniteSet(T)
      BY FS_Subset
    <2>5. ASSUME NEW U \in SUBSET T, U # T  PROVE  U \in P
      <3>1. SUFFICES ASSUME U \notin P  PROVE  FALSE
        OBVIOUS
      <3>2. Cardinality(U) \in Sizes /\ Cardinality(T) \in Sizes
        BY <3>1
      <3>3. /\ Cardinality(U) <= Cardinality(T)
            /\ Cardinality(U) = Cardinality(T) => U = T
        BY <2>4, FS_Subset
      <3>4. Cardinality(U) \in Nat /\ Cardinality(T) \in Nat
        BY <3>2, <2>1
      <3>5. Cardinality(T) <= Cardinality(U)
        BY <2>2, <2>3, <3>2
      <3> QED BY <2>5, <3>3, <3>4, <3>5
    <2> QED BY <2>5
  <1> QED BY <1>1

-----------------------------------------------------------------------------
(***************************************************************************)
(* The fold                                                                *)
(***************************************************************************)
\* h is the function a fold of f over D defines.
First(s) == CHOOSE x \in s : TRUE
Folded(h, f, D) ==
  h = [s \in SUBSET D |-> IF s = {} THEN 0 ELSE f[First(s)] + h[s \ {First(s)}]]
Fold(f, D) == CHOOSE h : Folded(h, f, D)

LEMMA SumIsFold ==
  ASSUME NEW f, NEW D
  PROVE  SumFunctionOnSet(f, D) = Fold(f, D)[D]
  BY DEF SumFunctionOnSet, FoldFunctionOnSet, MapThenFoldSet, Fold, Folded, First

LEMMA FirstIn ==
  ASSUME NEW s, s # {}
  PROVE  First(s) \in s
  BY DEF First

LEMMA FoldedSame ==
  ASSUME NEW S, IsFiniteSet(S), NEW D, NEW E, S \subseteq D, S \subseteq E,
         NEW f, NEW e, \A x \in S : f[x] = e[x],
         NEW h, Folded(h, f, D), NEW g, Folded(g, e, E)
  PROVE  h[S] = g[S]
  <1> DEFINE P == {T \in SUBSET S : h[T] = g[T]}
  <1>1. ASSUME NEW T \in SUBSET S, \A U \in SUBSET T : U # T => U \in P
        PROVE  T \in P
    <2>1. CASE T = {}
      <3>1. h[{}] = 0 /\ g[{}] = 0
        BY DEF Folded
      <3> QED BY <2>1, <3>1
    <2>2. CASE T # {}
      <3> DEFINE c == First(T)
      <3>1. c \in T
        BY <2>2, FirstIn
      <3>2. h[T] = f[c] + h[T \ {c}] /\ g[T] = e[c] + g[T \ {c}]
        BY <2>2 DEF Folded
      <3>3. T \ {c} \in P
        BY <1>1, <3>1
      <3> QED BY <3>1, <3>2, <3>3
    <2> QED BY <2>1, <2>2
  <1>2. S \in P
    <2> HIDE DEF P
    <2> QED BY <1>1, BySize
  <1> QED BY <1>2

LEMMA FoldExists ==
  ASSUME NEW D, IsFiniteSet(D), NEW f
  PROVE  Folded(Fold(f, D), f, D)
  <1> DEFINE P == {T \in SUBSET D : \E h : Folded(h, f, T)}
  <1>1. ASSUME NEW T \in SUBSET D, \A U \in SUBSET T : U # T => U \in P
        PROVE  T \in P
    <2> DEFINE G(s) == Fold(f, s)[s]
               Val(s) == IF s = {} THEN 0 ELSE f[First(s)] + G(s \ {First(s)})
               h == [s \in SUBSET T |-> Val(s)]
    <2>1. ASSUME NEW s \in SUBSET T, s # T  PROVE  Val(s) = G(s)
      <3>1. Folded(Fold(f, s), f, s)
        BY <1>1, <2>1 DEF Fold
      <3>2. CASE s = {}
        BY <3>1, <3>2 DEF Folded
      <3>3. CASE s # {}
        <4> DEFINE c == First(s)
        <4>1. c \in s
          BY <3>3, FirstIn
        <4>2. s \ {c} \in SUBSET T /\ s \ {c} # T
          BY <4>1
        <4>3. Folded(Fold(f, s \ {c}), f, s \ {c})
          BY <1>1, <4>2 DEF Fold
        <4>4. IsFiniteSet(s \ {c})
          BY FS_Subset
        <4>5. Fold(f, s)[s \ {c}] = Fold(f, s \ {c})[s \ {c}]
          BY <3>1, <4>3, <4>4, FoldedSame
        <4>6. Fold(f, s)[s] = f[c] + Fold(f, s)[s \ {c}]
          BY <3>1, <3>3 DEF Folded
        <4> QED BY <3>3, <4>5, <4>6
      <3> QED BY <3>2, <3>3
    <2>2. ASSUME NEW s \in SUBSET T, s # {}
          PROVE  h[s \ {First(s)}] = G(s \ {First(s)})
      <3>1. First(s) \in s
        BY <2>2, FirstIn
      <3>2. s \ {First(s)} \in SUBSET T /\ s \ {First(s)} # T
        BY <3>1
      <3> QED BY <2>1, <3>2
    <2>3. h = [s \in SUBSET T |-> IF s = {} THEN 0 ELSE f[First(s)] + h[s \ {First(s)}]]
      <3>1. ASSUME NEW s \in SUBSET T
            PROVE  Val(s) = IF s = {} THEN 0 ELSE f[First(s)] + h[s \ {First(s)}]
        BY <2>2
      <3> QED BY <3>1
    <2>4. Folded(h, f, T)
      BY <2>3 DEF Folded
    <2> HIDE DEF h
    <2> QED BY <2>4
  <1>2. D \in P
    <2> HIDE DEF P
    <2> QED BY <1>1, BySize
  <1> QED BY <1>2 DEF Fold

-----------------------------------------------------------------------------
(***************************************************************************)
(* Sums                                                                    *)
(***************************************************************************)
LEMMA SumSame ==
  ASSUME NEW D, IsFiniteSet(D), NEW f, NEW g, \A x \in D : f[x] = g[x]
  PROVE  SumFunctionOnSet(f, D) = SumFunctionOnSet(g, D)
  BY SumIsFold, FoldExists, FoldedSame

LEMMA SumOfNone ==
  ASSUME NEW f
  PROVE  SumFunctionOnSet(f, {}) = 0
  <1>1. Folded(Fold(f, {}), f, {})
    BY FoldExists, FS_EmptySet
  <1> QED BY <1>1, SumIsFold DEF Folded

LEMMA SumOfFirst ==
  ASSUME NEW D, IsFiniteSet(D), D # {}, NEW f
  PROVE  SumFunctionOnSet(f, D) = f[First(D)] + SumFunctionOnSet(f, D \ {First(D)})
  <1> DEFINE c == First(D)
             E == D \ {c}
  <1>1. IsFiniteSet(E) /\ E \subseteq D
    BY FS_Subset
  <1>2. Folded(Fold(f, D), f, D) /\ Folded(Fold(f, E), f, E)
    BY <1>1, FoldExists
  <1>3. Fold(f, D)[E] = Fold(f, E)[E]
    BY <1>1, <1>2, FoldedSame
  <1>4. Fold(f, D)[D] = f[c] + Fold(f, D)[E]
    BY <1>2 DEF Folded
  <1> QED BY <1>3, <1>4, SumIsFold

LEMMA SumType ==
  ASSUME NEW D, IsFiniteSet(D), NEW f, \A x \in D : f[x] \in Int
  PROVE  SumFunctionOnSet(f, D) \in Int
  <1> DEFINE P == {T \in SUBSET D : SumFunctionOnSet(f, T) \in Int}
  <1>1. ASSUME NEW T \in SUBSET D, \A U \in SUBSET T : U # T => U \in P
        PROVE  T \in P
    <2>1. CASE T = {}
      BY <2>1, SumOfNone
    <2>2. CASE T # {}
      <3>1. First(T) \in T /\ IsFiniteSet(T)
        BY <2>2, FirstIn, FS_Subset
      <3>2. T \ {First(T)} \in P
        BY <1>1, <3>1
      <3> QED BY <2>2, <3>1, <3>2, SumOfFirst
    <2> QED BY <2>1, <2>2
  <1>2. D \in P
    <2> HIDE DEF P
    <2> QED BY <1>1, BySize
  <1> QED BY <1>2

\* Any element may be added last.
LEMMA SumSplit ==
  ASSUME NEW D, IsFiniteSet(D), NEW f, \A y \in D : f[y] \in Int, NEW x \in D
  PROVE  SumFunctionOnSet(f, D) = f[x] + SumFunctionOnSet(f, D \ {x})
  <1> DEFINE Sum(T) == SumFunctionOnSet(f, T)
             P == {T \in SUBSET D : \A y \in T : Sum(T) = f[y] + Sum(T \ {y})}
  <1>1. ASSUME NEW T \in SUBSET D, \A U \in SUBSET T : U # T => U \in P, NEW y \in T
        PROVE  Sum(T) = f[y] + Sum(T \ {y})
    <2> DEFINE c == First(T)
    <2>1. c \in T /\ IsFiniteSet(T) /\ T # {}
      BY <1>1, FirstIn, FS_Subset
    <2>2. Sum(T) = f[c] + Sum(T \ {c})
      BY <2>1, SumOfFirst
    <2>3. ASSUME c # y  PROVE  Sum(T) = f[y] + Sum(T \ {y})
      <3>1. T \ {c} \in P /\ y \in T \ {c}
        BY <1>1, <2>1, <2>3
      <3>2. Sum(T \ {c}) = f[y] + Sum((T \ {c}) \ {y})
        BY <3>1
      <3>3. T \ {y} \in P /\ c \in T \ {y}
        BY <1>1, <2>1, <2>3
      <3>4. Sum(T \ {y}) = f[c] + Sum((T \ {y}) \ {c})
        BY <3>3
      <3>5. PICK R : R = (T \ {c}) \ {y}
        OBVIOUS
      <3>6. R = (T \ {y}) \ {c} /\ R \subseteq D
        BY <3>5
      <3>7. IsFiniteSet(R) /\ \A z \in R : f[z] \in Int
        BY <3>6, FS_Subset
      <3>8. Sum(R) \in Int /\ f[c] \in Int /\ f[y] \in Int
        BY <1>1, <2>1, <3>7, SumType
      <3>9. Sum(T) = f[c] + (f[y] + Sum(R)) /\ Sum(T \ {y}) = f[c] + Sum(R)
        BY <2>2, <3>2, <3>4, <3>5, <3>6
      <3> HIDE DEF Sum, c
      <3> QED BY <3>8, <3>9
    <2> QED BY <2>2, <2>3
  <1>2. \A T \in SUBSET D : (\A U \in SUBSET T : U # T => U \in P) => T \in P
    <2> SUFFICES ASSUME NEW T \in SUBSET D, \A U \in SUBSET T : U # T => U \in P
                 PROVE  T \in P
      OBVIOUS
    <2>1. \A y \in T : Sum(T) = f[y] + Sum(T \ {y})
      BY <1>1
    <2> QED BY <2>1
  <1>3. D \in P
    <2> HIDE DEF P
    <2> QED BY <1>2, BySize
  <1> QED BY <1>3

\* One term changes.
LEMMA SumChanges ==
  ASSUME NEW D, IsFiniteSet(D), NEW f, NEW g, \A y \in D : f[y] \in Int, NEW x \in D,
         g[x] \in Int, \A y \in D : y # x => g[y] = f[y]
  PROVE  SumFunctionOnSet(g, D) = SumFunctionOnSet(f, D) - f[x] + g[x]
  <1> DEFINE E == D \ {x}
  <1>1. IsFiniteSet(E) /\ \A y \in E : f[y] \in Int /\ g[y] = f[y]
    BY FS_Subset
  <1>2. \A y \in D : g[y] \in Int
    OBVIOUS
  <1>3. PICK r : r = SumFunctionOnSet(f, E)
    OBVIOUS
  <1>4. r \in Int /\ SumFunctionOnSet(g, E) = r
    BY <1>1, <1>3, SumType, SumSame
  <1>5. SumFunctionOnSet(f, D) = f[x] + r /\ SumFunctionOnSet(g, D) = g[x] + r
    BY <1>2, <1>3, <1>4, SumSplit
  <1> QED BY <1>4, <1>5

\* A term is added for an element the set did not have.
LEMMA SumGrows ==
  ASSUME NEW D, IsFiniteSet(D), NEW f, NEW g, NEW x, x \notin D,
         \A y \in D : f[y] \in Int /\ g[y] = f[y], g[x] \in Int
  PROVE  SumFunctionOnSet(g, D \cup {x}) = SumFunctionOnSet(f, D) + g[x]
  <1> DEFINE E == D \cup {x}
  <1>1. IsFiniteSet(E) /\ x \in E /\ E \ {x} = D /\ \A y \in E : g[y] \in Int
    BY FS_AddElement
  <1>2. SumFunctionOnSet(g, E) = g[x] + SumFunctionOnSet(g, D)
    <2> HIDE DEF E
    <2> QED BY <1>1, SumSplit
  <1>3. SumFunctionOnSet(g, D) = SumFunctionOnSet(f, D)
    BY SumSame
  <1>4. PICK r : r = SumFunctionOnSet(f, D)
    OBVIOUS
  <1>5. r \in Int
    BY <1>4, SumType
  <1> QED BY <1>2, <1>3, <1>4, <1>5

\* All terms are the same.
LEMMA SumOfEqual ==
  ASSUME NEW D, IsFiniteSet(D), NEW f, NEW n \in Int, \A x \in D : f[x] = n
  PROVE  SumFunctionOnSet(f, D) = n * Cardinality(D)
  <1> DEFINE P == {T \in SUBSET D : SumFunctionOnSet(f, T) = n * Cardinality(T)}
  <1>1. ASSUME NEW T \in SUBSET D, \A U \in SUBSET T : U # T => U \in P
        PROVE  T \in P
    <2>1. CASE T = {}
      BY <2>1, SumOfNone, FS_EmptySet
    <2>2. CASE T # {}
      <3> DEFINE c == First(T)
      <3>1. c \in T /\ IsFiniteSet(T)
        BY <2>2, FirstIn, FS_Subset
      <3>2. SumFunctionOnSet(f, T) = n + SumFunctionOnSet(f, T \ {c})
        BY <2>2, <3>1, SumOfFirst
      <3>3. T \ {c} \in P
        BY <1>1, <3>1
      <3>4. SumFunctionOnSet(f, T \ {c}) = n * Cardinality(T \ {c})
        BY <3>3
      <3>5. Cardinality(T \ {c}) = Cardinality(T) - 1 /\ Cardinality(T) \in Nat
        BY <3>1, FS_RemoveElement, FS_CardinalityType
      <3>6. PICK m \in Nat : m = Cardinality(T)
        BY <3>5
      <3>7. n + n * (m - 1) = n * m
        OBVIOUS
      <3> QED BY <3>2, <3>4, <3>5, <3>6, <3>7
    <2> QED BY <2>1, <2>2
  <1>2. D \in P
    <2> HIDE DEF P
    <2> QED BY <1>1, BySize
  <1> QED BY <1>2

\* No term grows.
LEMMA SumLess ==
  ASSUME NEW D, IsFiniteSet(D), NEW f, NEW g,
         \A x \in D : f[x] \in Int /\ g[x] \in Int /\ g[x] <= f[x]
  PROVE  SumFunctionOnSet(g, D) <= SumFunctionOnSet(f, D)
  <1> DEFINE P == {T \in SUBSET D : SumFunctionOnSet(g, T) <= SumFunctionOnSet(f, T)}
  <1>1. ASSUME NEW T \in SUBSET D, \A U \in SUBSET T : U # T => U \in P
        PROVE  T \in P
    <2>1. CASE T = {}
      BY <2>1, SumOfNone
    <2>2. CASE T # {}
      <3>1. PICK c \in T : c = First(T)
        BY <2>2, FirstIn
      <3>2. IsFiniteSet(T) /\ IsFiniteSet(T \ {c}) /\ T \ {c} \in P
        BY <1>1, <3>1, FS_Subset
      <3>3. /\ SumFunctionOnSet(f, T) = f[c] + SumFunctionOnSet(f, T \ {c})
            /\ SumFunctionOnSet(g, T) = g[c] + SumFunctionOnSet(g, T \ {c})
        BY <2>2, <3>1, <3>2, SumOfFirst
      <3>4. PICK r, q : r = SumFunctionOnSet(f, T \ {c}) /\ q = SumFunctionOnSet(g, T \ {c})
        OBVIOUS
      <3>5. r \in Int /\ q \in Int
        BY <3>2, <3>4, SumType
      <3>6. q <= r
        BY <3>2, <3>4
      <3>7. g[c] + q <= f[c] + r
        BY <3>5, <3>6
      <3> QED BY <3>3, <3>4, <3>7
    <2> QED BY <2>1, <2>2
  <1>2. D \in P
    <2> HIDE DEF P
    <2> QED BY <1>1, BySize
  <1> QED BY <1>2
=============================================================================
