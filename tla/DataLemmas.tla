----------------------------- MODULE DataLemmas -----------------------------
(***************************************************************************)
(* Lemmas on numbers, recursive functions and sums over finite sets, for   *)
(* the proofs about what a recursive definition computes.  Induction       *)
(* follows from the fact that strict inclusion of finite sets is           *)
(* well-founded: the library's induction theorems take a predicate, these  *)
(* take a set.                                                             *)
(***************************************************************************)
EXTENDS Integers, Sequences, FiniteSetsExt, FiniteSetTheorems, TLAPS

LEMMA LeastElement ==
  ASSUME NEW T \in SUBSET Nat, T # {}
  PROVE  \E x \in T : \A y \in T : x <= y
  <1> DEFINE Segments == {1..x : x \in T}
  <1>1. Segments # {} /\ Segments \subseteq FiniteSubsetsOf(Nat)
    <2>1. ASSUME NEW x \in T PROVE 1..x \in FiniteSubsetsOf(Nat)
      <3>1. IsFiniteSet(1..x) /\ 1..x \in SUBSET Nat
        BY FS_Interval
      <3>2. QED
        BY <3>1 DEF FiniteSubsetsOf
    <2>2. QED
      BY <2>1
  <1>2. IsWellFoundedOn(StrictSubsetOrdering(Nat), FiniteSubsetsOf(Nat))
    BY FS_StrictSubsetOrderingWellFounded
  <1> HIDE DEF Segments
  <1>3. PICK s \in Segments : \A t \in Segments : <<t, s>> \notin StrictSubsetOrdering(Nat)
    BY <1>1, <1>2, WFMin
  <1>4. PICK x \in T : s = 1..x
    BY <1>3 DEF Segments
  <1>5. ASSUME NEW y \in T, y < x PROVE FALSE
    <2>1. 1..y \in Segments
      BY DEF Segments
    <2>2. x \in 1..x /\ x \notin 1..y /\ 1..y \subseteq 1..x
      BY <1>5
    <2>3. <<1..y, 1..x>> \in StrictSubsetOrdering(Nat)
      BY <2>2 DEF StrictSubsetOrdering
    <2>4. QED
      BY <1>3, <1>4, <2>1, <2>3
  <1>6. QED
    BY <1>4, <1>5

(* Induction over a set of numbers in the place of a predicate.            *)
LEMMA Induction ==
  ASSUME NEW S, 0 \in S, \A n \in Nat : n \in S => n + 1 \in S
  PROVE  Nat \subseteq S
  <1> SUFFICES ASSUME NEW a \in Nat, a \notin S
               PROVE  FALSE
    OBVIOUS
  <1> DEFINE T == Nat \ S
  <1>1. T # {} /\ T \in SUBSET Nat
    OBVIOUS
  <1> HIDE DEF T
  <1>2. PICK x \in T : \A y \in T : x <= y
    BY <1>1, LeastElement
  <1>3. x \in Nat /\ x \notin S /\ x # 0
    BY <1>2 DEF T
  <1>4. x - 1 \in Nat /\ x - 1 \notin T /\ x - 1 + 1 = x
    BY <1>2, <1>3
  <1>5. x - 1 \in S
    BY <1>4 DEF T
  <1>6. QED
    BY <1>3, <1>4, <1>5

LEMMA GreatestElement ==
  ASSUME NEW T \in SUBSET Nat, T # {}, IsFiniteSet(T)
  PROVE  \E x \in T : \A y \in T : y <= x
  <1> DEFINE P == {n \in Nat : \A R \in SUBSET Nat :
                     IsFiniteSet(R) /\ Cardinality(R) = n + 1 => \E x \in R : \A y \in R : y <= x}
  <1>1. 0 \in P
    <2>1. ASSUME NEW R \in SUBSET Nat, IsFiniteSet(R), Cardinality(R) = 1
          PROVE  \E x \in R : \A y \in R : y <= x
      <3>1. PICK x : R = {x}
        BY <2>1, FS_Singleton
      <3>2. QED
        BY <3>1
    <2>2. QED
      BY <2>1
  <1>2. ASSUME NEW n \in Nat, n \in P PROVE n + 1 \in P
    <2>1. ASSUME NEW R \in SUBSET Nat, IsFiniteSet(R), Cardinality(R) = n + 2
          PROVE  \E x \in R : \A y \in R : y <= x
      <3>1. PICK z : z \in R
        BY <2>1, FS_EmptySet
      <3>2. IsFiniteSet(R \ {z}) /\ Cardinality(R \ {z}) = n + 1 /\ R \ {z} \in SUBSET Nat
        BY <2>1, <3>1, FS_RemoveElement
      <3>3. PICK x \in R \ {z} : \A y \in R \ {z} : y <= x
        BY <1>2, <3>2
      <3>4. z \in Nat /\ x \in Nat /\ R \subseteq Nat
        BY <3>1, <3>3
      <3>5. CASE z <= x
        BY <3>3, <3>5
      <3>6. CASE ~(z <= x)
        <4>1. \A y \in R : y <= z
          BY <3>3, <3>4, <3>6
        <4>2. QED
          BY <3>1, <4>1
      <3>7. QED
        BY <3>5, <3>6
    <2>2. QED
      BY <2>1
  <1> HIDE DEF P
  <1>3. Nat \subseteq P
    BY <1>1, <1>2, Induction
  <1>4. Cardinality(T) \in Nat /\ Cardinality(T) # 0
    BY FS_CardinalityType, FS_EmptySet
  <1>5. Cardinality(T) - 1 \in P /\ Cardinality(T) - 1 + 1 = Cardinality(T)
    BY <1>3, <1>4
  <1>6. QED
    BY <1>5 DEF P

LEMMA MaxMember == ASSUME NEW T \in SUBSET Nat, T # {}, IsFiniteSet(T) PROVE Max(T) \in T
  <1>1. \E x \in T : \A y \in T : x >= y
    BY GreatestElement
  <1>2. QED
    BY <1>1 DEF Max

LEMMA MinMember ==
  ASSUME NEW T \in SUBSET Nat, T # {}
  PROVE  Min(T) \in T /\ \A y \in T : Min(T) <= y
  <1>1. \E x \in T : \A y \in T : x =< y
    BY LeastElement
  <1>2. QED
    BY <1>1 DEF Min

(* A function of which each value is given by values of lower rank exists. *)
IsRecursion(D, N, rank, V, F) ==
  /\ N \in Nat /\ rank \in [D -> 0..N] /\ V # {} /\ F \in [D -> [[D -> V] -> V]]
  /\ \A d \in D : \A g, h \in [D -> V] :
       (\A e \in D : rank[e] < rank[d] => g[e] = h[e]) => F[d][g] = F[d][h]

Solves(f, D, V, F) == f \in [D -> V] /\ \A d \in D : f[d] = F[d][f]

LEMMA Recursion ==
  ASSUME NEW D, NEW N, NEW rank, NEW V, NEW F, IsRecursion(D, N, rank, V, F)
  PROVE  \E f : Solves(f, D, V, F)
  <1> USE DEF IsRecursion
  <1> DEFINE P == {n \in Nat : \E f \in [D -> V] : \A d \in D : rank[d] < n => f[d] = F[d][f]}
  <1>1. 0 \in P
    <2>1. PICK v : v \in V
      OBVIOUS
    <2>2. [d \in D |-> v] \in [D -> V] /\ \A d \in D : ~(rank[d] < 0)
      BY <2>1
    <2>3. QED
      BY <2>2
  <1>2. ASSUME NEW n \in Nat, n \in P PROVE n + 1 \in P
    <2>1. PICK f \in [D -> V] : \A d \in D : rank[d] < n => f[d] = F[d][f]
      BY <1>2
    <2> DEFINE h == [d \in D |-> F[d][f]]
    <2>2. h \in [D -> V]
      OBVIOUS
    <2>3. ASSUME NEW d \in D, rank[d] < n + 1 PROVE h[d] = F[d][h]
      <3>1. \A e \in D : rank[e] < rank[d] => f[e] = h[e]
        BY <2>1, <2>3
      <3> HIDE DEF h
      <3>2. F[d][f] = F[d][h]
        BY <2>2, <3>1
      <3>3. QED
        BY <3>2 DEF h
    <2> HIDE DEF h
    <2>4. QED
      BY <2>2, <2>3
  <1> HIDE DEF P
  <1>3. N + 1 \in P
    BY <1>1, <1>2, Induction
  <1>4. PICK f \in [D -> V] : \A d \in D : rank[d] < N + 1 => f[d] = F[d][f]
    BY <1>3 DEF P
  <1>5. QED
    BY <1>4 DEF Solves

(* Induction over the rank.                                                *)
LEMMA RankInduction ==
  ASSUME NEW D, NEW rank \in [D -> Nat], NEW P,
         \A d \in D : (\A e \in D : rank[e] < rank[d] => e \in P) => d \in P
  PROVE  D \subseteq P
  <1> DEFINE Q == {n \in Nat : \A d \in D : rank[d] < n => d \in P}
  <1>1. 0 \in Q
    OBVIOUS
  <1>2. ASSUME NEW n \in Nat, n \in Q PROVE n + 1 \in Q
    <2>1. ASSUME NEW d \in D, rank[d] < n + 1 PROVE d \in P
      <3>1. \A e \in D : rank[e] < rank[d] => rank[e] < n
        BY <2>1
      <3>2. QED
        BY <1>2, <3>1
    <2>2. QED
      BY <2>1
  <1> HIDE DEF Q
  <1>3. Nat \subseteq Q
    BY <1>1, <1>2, Induction
  <1>4. ASSUME NEW d \in D PROVE d \in P
    <2>1. rank[d] + 1 \in Q /\ rank[d] < rank[d] + 1
      BY <1>3
    <2>2. QED
      BY <2>1 DEF Q
  <1>5. QED
    BY <1>4

(* The function behind SumFunctionOnSet.                                   *)
Picked(s) == CHOOSE x \in s : TRUE
IsSum(f, w, S) ==
  /\ f \in [SUBSET S -> Nat]
  /\ \A s \in SUBSET S : f[s] = IF s = {} THEN 0 ELSE w[Picked(s)] + f[s \ {Picked(s)}]

LEMMA SumDefined ==
  ASSUME NEW D, NEW w \in [D -> Nat], NEW S \in SUBSET D, IsFiniteSet(S)
  PROVE  \E f : IsSum(f, w, S) /\ SumFunctionOnSet(w, S) = f[S]
  <1> DEFINE F == [s \in SUBSET S |-> [g \in [SUBSET S -> Nat] |->
                    IF s = {} THEN 0 ELSE w[Picked(s)] + g[s \ {Picked(s)}]]]
             rank == [s \in SUBSET S |-> Cardinality(s)]
  <1>1. \A s \in SUBSET S : s # {} => Picked(s) \in s
    BY DEF Picked
  <1>2. \A s \in SUBSET S : IsFiniteSet(s) /\ Cardinality(s) \in 0..Cardinality(S)
    BY FS_Subset, FS_CardinalityType
  <1>3. rank \in [SUBSET S -> 0..Cardinality(S)] /\ Cardinality(S) \in Nat
    BY <1>2, FS_CardinalityType
  <1>4. F \in [SUBSET S -> [[SUBSET S -> Nat] -> Nat]]
    <2>1. ASSUME NEW s \in SUBSET S, NEW g \in [SUBSET S -> Nat], s # {}
          PROVE  w[Picked(s)] + g[s \ {Picked(s)}] \in Nat
      <3>1. w[Picked(s)] \in Nat /\ g[s \ {Picked(s)}] \in Nat
        BY <1>1, <2>1
      <3>2. QED
        BY <3>1
    <2>2. QED
      BY <2>1
  <1>5. ASSUME NEW s \in SUBSET S, NEW g \in [SUBSET S -> Nat], NEW h \in [SUBSET S -> Nat],
               \A t \in SUBSET S : rank[t] < rank[s] => g[t] = h[t]
        PROVE  F[s][g] = F[s][h]
    <2>1. CASE s = {}
      BY <2>1
    <2>2. CASE s # {}
      <3>1. Picked(s) \in s /\ IsFiniteSet(s)
        BY <1>1, <1>2, <2>2
      <3>2. Cardinality(s \ {Picked(s)}) = Cardinality(s) - 1 /\ Cardinality(s) \in Nat
        BY <3>1, FS_RemoveElement, FS_CardinalityType
      <3>3. rank[s \ {Picked(s)}] < rank[s]
        BY <3>2
      <3>4. g[s \ {Picked(s)}] = h[s \ {Picked(s)}]
        BY <1>5, <3>3
      <3>5. QED
        BY <2>2, <3>4
    <2>3. QED
      BY <2>1, <2>2
  <1> HIDE DEF F, rank
  <1>6. PICK f \in [SUBSET S -> Nat] : \A s \in SUBSET S : f[s] = F[s][f]
    <2>1. \A d \in SUBSET S : \A g, h \in [SUBSET S -> Nat] :
            (\A e \in SUBSET S : rank[e] < rank[d] => g[e] = h[e]) => F[d][g] = F[d][h]
      BY <1>5
    <2>2. IsRecursion(SUBSET S, Cardinality(S), rank, Nat, F)
      BY <1>3, <1>4, <2>1 DEF IsRecursion
    <2>3. \E f : Solves(f, SUBSET S, Nat, F)
      BY <2>2, Recursion
    <2>4. QED
      BY <2>3 DEF Solves
  <1> DEFINE Equation(it) ==
               it = [s \in SUBSET S |-> IF s = {} THEN 0 ELSE w[Picked(s)] + it[s \ {Picked(s)}]]
             sum == CHOOSE it : Equation(it)
  <1>7. Equation(f)
    BY <1>6 DEF F
  <1>8. Equation(sum)
    BY <1>7
  <1>9. SumFunctionOnSet(w, S) = sum[S]
    BY DEF SumFunctionOnSet, FoldFunctionOnSet, MapThenFoldSet, Picked
  <1>10. sum = f
    <2> DEFINE P == {s \in SUBSET S : sum[s] = f[s]}
    <2> HIDE DEF sum
    <2>1. ASSUME NEW s \in SUBSET S, \A t \in SUBSET S : rank[t] < rank[s] => t \in P
          PROVE  s \in P
      <3>1. CASE s = {}
        BY <1>7, <1>8, <3>1
      <3>2. CASE s # {}
        <4>1. Picked(s) \in s /\ IsFiniteSet(s)
          BY <1>1, <1>2, <3>2
        <4>2. Cardinality(s \ {Picked(s)}) = Cardinality(s) - 1 /\ Cardinality(s) \in Nat
          BY <4>1, FS_RemoveElement, FS_CardinalityType
        <4>3. s \ {Picked(s)} \in P
          <5>1. rank[s \ {Picked(s)}] < rank[s]
            BY <4>2 DEF rank
          <5>2. QED
            BY <2>1, <5>1
        <4>4. QED
          BY <1>7, <1>8, <3>2, <4>3
      <3>3. QED
        BY <3>1, <3>2
    <2> HIDE DEF P
    <2>2. rank \in [SUBSET S -> Nat]
      BY <1>3
    <2>3. SUBSET S \subseteq P
      BY <2>1, <2>2, RankInduction
    <2>4. QED
      BY <1>7, <1>8, <2>3 DEF P
  <1>11. QED
    BY <1>7, <1>8, <1>9, <1>10 DEF IsSum

(* What the function gives a set does not depend on the set it is for.     *)
LEMMA SumUnique ==
  ASSUME NEW w, NEW A, NEW B, NEW f, NEW g, IsFiniteSet(A), IsSum(f, w, A), IsSum(g, w, B)
  PROVE  \A T \in SUBSET (A \cap B) : f[T] = g[T]
  <1> DEFINE D == SUBSET (A \cap B)
             P == {T \in D : f[T] = g[T]}
             rank == [T \in D |-> Cardinality(T)]
  <1>1. ASSUME NEW T \in D, \A R \in D : rank[R] < rank[T] => R \in P
        PROVE  T \in P
    <2>1. CASE T = {}
      BY <2>1 DEF IsSum
    <2>2. CASE T # {}
      <3>1. Picked(T) \in T /\ IsFiniteSet(T)
        BY <2>2, FS_Subset DEF Picked
      <3>2. Cardinality(T \ {Picked(T)}) = Cardinality(T) - 1 /\ Cardinality(T) \in Nat
        BY <3>1, FS_RemoveElement, FS_CardinalityType
      <3>3. rank[T \ {Picked(T)}] < rank[T]
        BY <3>2
      <3>4. T \ {Picked(T)} \in P
        BY <1>1, <3>3
      <3>5. QED
        BY <2>2, <3>4 DEF IsSum
    <2>3. QED
      BY <2>1, <2>2
  <1>2. rank \in [D -> Nat]
    BY FS_Subset, FS_CardinalityType
  <1> HIDE DEF D, P, rank
  <1>3. D \subseteq P
    BY <1>1, <1>2, RankInduction
  <1>4. QED
    BY <1>3 DEF D, P

(* Any element may be taken first.                                         *)
AnyFirst(f, w, S) == \A T \in SUBSET S : \A x \in T : f[T] = w[x] + f[T \ {x}]

LEMMA SumAnyFirst ==
  ASSUME NEW D, NEW w \in [D -> Nat], NEW S \in SUBSET D, IsFiniteSet(S), NEW f, IsSum(f, w, S)
  PROVE  AnyFirst(f, w, S)
  <1> DEFINE P == {T \in SUBSET S : \A x \in T : f[T] = w[x] + f[T \ {x}]}
             rank == [T \in SUBSET S |-> Cardinality(T)]
  <1>1. ASSUME NEW T \in SUBSET S, \A R \in SUBSET S : rank[R] < rank[T] => R \in P
        PROVE  T \in P
    <2>1. ASSUME NEW x \in T PROVE f[T] = w[x] + f[T \ {x}]
      <3> DEFINE c == Picked(T)
      <3>1. c \in T /\ IsFiniteSet(T)
        BY FS_Subset DEF Picked
      <3> HIDE DEF c
      <3>2. \A y \in T : Cardinality(T \ {y}) = Cardinality(T) - 1 /\ Cardinality(T) \in Nat
        BY <3>1, FS_RemoveElement, FS_CardinalityType
      <3>3. \A y \in T : rank[T \ {y}] < rank[T]
        BY <3>2
      <3>4. T \ {c} \in P /\ T \ {x} \in P
        BY <1>1, <3>1, <3>3
      <3>5. f[T] = w[c] + f[T \ {c}]
        BY <3>1 DEF IsSum, c
      <3>6. CASE x = c
        BY <3>5, <3>6
      <3>7. CASE x # c
        <4>1. f[T \ {c}] = w[x] + f[(T \ {c}) \ {x}] /\ f[T \ {x}] = w[c] + f[(T \ {x}) \ {c}]
          BY <3>1, <3>4, <3>7
        <4>2. (T \ {c}) \ {x} = (T \ {x}) \ {c}
          OBVIOUS
        <4>3. w[x] \in Nat /\ w[c] \in Nat /\ f[(T \ {x}) \ {c}] \in Nat
          BY <3>1 DEF IsSum
        <4>4. QED
          BY <3>5, <4>1, <4>2, <4>3
      <3>8. QED
        BY <3>6, <3>7
    <2>2. QED
      BY <2>1
  <1>2. rank \in [SUBSET S -> Nat]
    BY FS_Subset, FS_CardinalityType
  <1> HIDE DEF P, rank
  <1>3. SUBSET S \subseteq P
    BY <1>1, <1>2, RankInduction
  <1>4. QED
    BY <1>3 DEF P, AnyFirst

LEMMA SumType ==
  ASSUME NEW D, NEW w \in [D -> Nat], NEW S \in SUBSET D, IsFiniteSet(S)
  PROVE  SumFunctionOnSet(w, S) \in Nat /\ (S = {} => SumFunctionOnSet(w, S) = 0)
  <1>1. PICK f : IsSum(f, w, S) /\ SumFunctionOnSet(w, S) = f[S]
    BY SumDefined
  <1>2. S \in SUBSET S /\ f[S] \in Nat /\ (S = {} => f[S] = 0)
    BY <1>1 DEF IsSum
  <1>3. QED
    BY <1>1, <1>2

LEMMA SumAdd ==
  ASSUME NEW D, NEW w \in [D -> Nat], NEW S \in SUBSET D, IsFiniteSet(S), NEW x \in D \ S
  PROVE  SumFunctionOnSet(w, S \cup {x}) = SumFunctionOnSet(w, S) + w[x]
  <1> DEFINE T == S \cup {x}
  <1>1. IsFiniteSet(T) /\ T \in SUBSET D /\ x \in T /\ T \ {x} = S /\ S \in SUBSET (T \cap S) /\ T \in SUBSET T
    BY FS_AddElement
  <1> HIDE DEF T
  <1>2. PICK f : IsSum(f, w, T) /\ SumFunctionOnSet(w, T) = f[T]
    BY <1>1, SumDefined
  <1>3. PICK g : IsSum(g, w, S) /\ SumFunctionOnSet(w, S) = g[S]
    BY SumDefined
  <1>4. AnyFirst(f, w, T)
    BY <1>1, <1>2, SumAnyFirst
  <1>5. f[T] = w[x] + f[S]
    BY <1>1, <1>4 DEF AnyFirst
  <1>6. f[S] = g[S]
    BY <1>1, <1>2, <1>3, SumUnique
  <1>7. w[x] \in Nat /\ g[S] \in Nat
    BY <1>3 DEF IsSum
  <1>8. SumFunctionOnSet(w, T) = SumFunctionOnSet(w, S) + w[x]
    BY <1>2, <1>3, <1>5, <1>6, <1>7
  <1>9. QED
    BY <1>8 DEF T

LEMMA SumSingle ==
  ASSUME NEW D, NEW w \in [D -> Nat], NEW x \in D
  PROVE  SumFunctionOnSet(w, {x}) = w[x]
  <1>1. IsFiniteSet({}) /\ {} \in SUBSET D /\ {} \cup {x} = {x} /\ w[x] \in Nat
    BY FS_EmptySet
  <1>2. SumFunctionOnSet(w, {}) = 0
    BY <1>1, SumType
  <1>3. SumFunctionOnSet(w, {} \cup {x}) = SumFunctionOnSet(w, {}) + w[x]
    BY <1>1, SumAdd
  <1>4. QED
    BY <1>1, <1>2, <1>3

(* A sum of addends each at most larger by k than another.                 *)
LEMMA SumBound ==
  ASSUME NEW D, NEW w \in [D -> Nat], NEW u \in [D -> Nat], NEW k \in Nat,
         \A d \in D : u[d] <= w[d] + k,
         NEW S \in SUBSET D, IsFiniteSet(S)
  PROVE  SumFunctionOnSet(u, S) <= SumFunctionOnSet(w, S) + k * Cardinality(S)
  <1> DEFINE P == {T \in SUBSET S : SumFunctionOnSet(u, T) <= SumFunctionOnSet(w, T) + k * Cardinality(T)}
             rank == [T \in SUBSET S |-> Cardinality(T)]
  <1>1. ASSUME NEW T \in SUBSET S, \A R \in SUBSET S : rank[R] < rank[T] => R \in P
        PROVE  T \in P
    <2>0. IsFiniteSet(T) /\ T \in SUBSET D
      BY FS_Subset
    <2>1. CASE T = {}
      <3>1. SumFunctionOnSet(u, T) = 0 /\ SumFunctionOnSet(w, T) = 0 /\ Cardinality(T) = 0
        BY <2>0, <2>1, SumType, FS_EmptySet
      <3>2. QED
        BY <3>1
    <2>2. CASE T # {}
      <3>1. PICK x : x \in T
        BY <2>2
      <3> DEFINE R == T \ {x}
      <3>2. R \in SUBSET D /\ R \in SUBSET S /\ IsFiniteSet(R) /\ x \in D \ R /\ T = R \cup {x}
        BY <2>0, <3>1, FS_Subset
      <3>3. Cardinality(T) = Cardinality(R) + 1 /\ Cardinality(R) \in Nat
        <4>1. Cardinality(T \ {x}) = Cardinality(T) - 1 /\ Cardinality(T) \in Nat /\ Cardinality(R) \in Nat
          BY <2>0, <3>1, <3>2, FS_RemoveElement, FS_CardinalityType
        <4>2. QED
          BY <4>1
      <3> HIDE DEF R
      <3>4. R \in P
        <4>1. rank[R] < rank[T]
          BY <3>2, <3>3
        <4>2. QED
          BY <1>1, <3>2, <4>1
      <3>5. /\ SumFunctionOnSet(u, T) = SumFunctionOnSet(u, R) + u[x]
            /\ SumFunctionOnSet(w, T) = SumFunctionOnSet(w, R) + w[x]
        BY <3>2, SumAdd
      <3>6. /\ SumFunctionOnSet(u, R) \in Nat /\ SumFunctionOnSet(w, R) \in Nat
            /\ u[x] \in Nat /\ w[x] \in Nat /\ u[x] <= w[x] + k
        BY <3>2, SumType
      <3>7. k * (Cardinality(R) + 1) = k * Cardinality(R) + k /\ k * Cardinality(R) \in Nat
        BY <3>3
      <3>8. SumFunctionOnSet(u, R) <= SumFunctionOnSet(w, R) + k * Cardinality(R)
        BY <3>4
      <3>9. QED
        BY <3>3, <3>5, <3>6, <3>7, <3>8
    <2>3. QED
      BY <2>1, <2>2
  <1>2. rank \in [SUBSET S -> Nat]
    BY FS_Subset, FS_CardinalityType
  <1> HIDE DEF P, rank
  <1>3. SUBSET S \subseteq P
    BY <1>1, <1>2, RankInduction
  <1>4. QED
    BY <1>3 DEF P

LEMMA SumMember ==
  ASSUME NEW D, NEW w \in [D -> Nat], NEW S \in SUBSET D, IsFiniteSet(S), NEW x \in S
  PROVE  w[x] <= SumFunctionOnSet(w, S)
  <1> DEFINE R == S \ {x}
  <1>1. R \in SUBSET D /\ IsFiniteSet(R) /\ x \in D \ R /\ S = R \cup {x}
    BY FS_Subset
  <1> HIDE DEF R
  <1>2. SumFunctionOnSet(w, S) = SumFunctionOnSet(w, R) + w[x]
    BY <1>1, SumAdd
  <1>3. SumFunctionOnSet(w, R) \in Nat /\ w[x] \in Nat
    BY <1>1, SumType
  <1>4. QED
    BY <1>2, <1>3

-----------------------------------------------------------------------------
(* Numbers                                                                 *)

(* The quotient of a division, rounded up.                                 *)
LEMMA RoundedUp ==
  ASSUME NEW n \in Nat, NEW d \in Nat \ {0}
  PROVE  /\ (n + d - 1) \div d \in Nat
         /\ n <= d * ((n + d - 1) \div d)
         /\ d * ((n + d - 1) \div d) < n + d
<1> DEFINE m == n + d - 1
           q == m \div d
           r == m % d
<1>1. m \in Nat
  OBVIOUS
<1>2. m = d * q + r /\ r \in 0..(d - 1) /\ q \in Int
  BY <1>1
<1>3. q \in Nat
  BY <1>1
<1> HIDE DEF q, r
<1>4. d * q \in Nat
  BY <1>3
<1>5. n <= d * q /\ d * q < n + d
  BY <1>2, <1>4
<1> QED BY <1>3, <1>5 DEF q

LEMMA TimesMonotonic ==
  ASSUME NEW a \in Nat, NEW b \in Nat, NEW k \in Nat, a <= b
  PROVE  k * a <= k * b
<1>1. PICK d \in Nat : b = a + d
  <2>1. b - a \in Nat /\ b = a + (b - a)
    OBVIOUS
  <2>2. QED
    BY <2>1
<1>2. k * (a + d) = k * a + k * d /\ k * a \in Nat /\ k * d \in Nat
  OBVIOUS
<1>3. QED
  BY <1>1, <1>2
=============================================================================
