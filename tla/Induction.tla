----------------------------- MODULE Induction -----------------------------
(***************************************************************************)
(* Induction with sets in the place of predicates, and what follows from   *)
(* it: finite sets of natural numbers have a least and a greatest element, *)
(* and the recursion behind the folds over finite sets has a solution.     *)
(***************************************************************************)
EXTENDS FiniteSetTheorems, TLAPS

\* A set of natural numbers that is not empty has a least element.
LEMMA LeastNatural ==
  ASSUME NEW S \in SUBSET Nat, S # {}
  PROVE  \E m \in S : \A n \in S : m <= n
<1>1. PICK m \in S : \A n \in S : <<n, m>> \notin OpToRel(<, Nat)
  BY NatLessThanWellFounded, WFMin
<1>2. ASSUME NEW n \in S PROVE m <= n
  <2>1. m \in Nat /\ n \in Nat
    OBVIOUS
  <2>2. ~ (n < m)
    BY <1>1, <2>1 DEF OpToRel
  <2> QED
    BY <2>1, <2>2
<1> QED
  BY <1>2

\* Induction over the natural numbers up to N.
LEMMA UpTo ==
  ASSUME NEW N \in Nat, NEW S, 0 \in S,
         \A n \in 0..(N - 1) : n \in S => n + 1 \in S
  PROVE  0..N \subseteq S
<1> SUFFICES ASSUME (0..N) \ S # {} PROVE FALSE
  OBVIOUS
<1> DEFINE T == (0..N) \ S
<1>1. T \in SUBSET Nat /\ T # {}
  OBVIOUS
<1>2. PICK m \in T : \A n \in T : m <= n
  BY <1>1, LeastNatural
<1>3. m \in 1..N
  BY <1>2
<1>4. m - 1 \in 0..(N - 1) /\ m - 1 \notin T
  BY <1>2, <1>3
<1>5. m - 1 \in S
  BY <1>4
<1>6. m \in S
  BY <1>3, <1>4, <1>5
<1> QED
  BY <1>2, <1>6

\* A finite set of natural numbers has an upper bound.
LEMMA FiniteIsBounded ==
  ASSUME NEW S \in SUBSET Nat, IsFiniteSet(S)
  PROVE  \E b \in Nat : \A n \in S : n <= b
<1>1. PICK k \in Nat : ExistsSurjection(1..k, S)
  BY FS_NatSurjection
<1>2. PICK f \in [1..k -> S] : \A s \in S : \E i \in 1..k : f[i] = s
  BY <1>1 DEF ExistsSurjection, Surjection
<1> DEFINE B == {i \in 0..k : \E b \in Nat : \A j \in 1..i : f[j] <= b}
<1>3. 0 \in B
  <2>1. \A j \in 1..0 : f[j] <= 0
    OBVIOUS
  <2> QED
    BY <2>1
<1>4. ASSUME NEW n \in 0..(k - 1), n \in B PROVE n + 1 \in B
  <2>1. PICK b \in Nat : \A j \in 1..n : f[j] <= b
    BY <1>4
  <2>2. f[n + 1] \in Nat
    <3>1. n + 1 \in 1..k
      OBVIOUS
    <3> QED
      BY <1>2, <3>1
  <2>3. CASE f[n + 1] <= b
    <3>1. \A j \in 1..(n + 1) : f[j] <= b
      BY <2>1, <2>3
    <3> QED
      BY <3>1
  <2>4. CASE f[n + 1] > b
    <3>1. \A j \in 1..(n + 1) : f[j] <= f[n + 1]
      <4> TAKE j \in 1..(n + 1)
      <4>1. j \in 1..k /\ f[j] \in Nat
        <5>1. j \in 1..k
          OBVIOUS
        <5> QED
          BY <1>2, <5>1
      <4>2. CASE j = n + 1
        BY <4>1, <4>2
      <4>3. CASE j # n + 1
        BY <2>1, <2>2, <2>4, <4>1, <4>3
      <4> QED
        BY <4>2, <4>3
    <3> QED
      BY <2>2, <3>1
  <2> QED
    BY <2>2, <2>3, <2>4
<1>5. 0..k \subseteq B
  <2> HIDE DEF B
  <2> QED
    BY <1>3, <1>4, UpTo
<1>6. PICK b \in Nat : \A j \in 1..k : f[j] <= b
  <2>1. k \in B
    <3> HIDE DEF B
    <3> QED
      BY <1>5
  <2> QED
    BY <2>1
<1> QED
  BY <1>2, <1>6

\* A finite set of natural numbers that is not empty has a greatest element.
LEMMA GreatestNatural ==
  ASSUME NEW S \in SUBSET Nat, IsFiniteSet(S), S # {}
  PROVE  \E m \in S : \A n \in S : n <= m
<1>1. PICK b \in Nat : \A n \in S : n <= b
  BY FiniteIsBounded
<1> DEFINE D == {b - n : n \in S}
<1>2. D \in SUBSET Nat /\ D # {}
  <2>1. \A n \in S : b - n \in Nat
    BY <1>1
  <2> QED
    BY <2>1
<1>3. PICK d \in D : \A e \in D : d <= e
  <2> HIDE DEF D
  <2> QED
    BY <1>2, LeastNatural
<1>4. PICK m \in S : d = b - m
  BY <1>3
<1>5. ASSUME NEW n \in S PROVE n <= m
  <2>1. b - n \in D
    OBVIOUS
  <2>2. b - m <= b - n
    BY <1>3, <1>4, <2>1
  <2> QED
    BY <1>4, <2>2
<1> QED
  BY <1>5

\* Induction over the subsets of a finite set.
LEMMA SubsetInduction ==
  ASSUME NEW S, IsFiniteSet(S), NEW G, {} \in G,
         \A T \in (SUBSET S) \ {{}} : (\A x \in T : T \ {x} \in G) => T \in G
  PROVE  SUBSET S \subseteq G
<1> DEFINE N == Cardinality(S)
           B == {n \in 0..N : \A T \in SUBSET S : Cardinality(T) = n => T \in G}
<1>1. N \in Nat /\ \A T \in SUBSET S : IsFiniteSet(T) /\ Cardinality(T) \in 0..N
  <2>1. N \in Nat
    BY FS_CardinalityType
  <2>2. ASSUME NEW T \in SUBSET S
        PROVE  IsFiniteSet(T) /\ Cardinality(T) \in 0..N
    BY <2>1, FS_Subset, FS_CardinalityType
  <2> QED
    BY <2>1, <2>2
<1> HIDE DEF N
<1>2. 0 \in B
  <2>1. \A T \in SUBSET S : Cardinality(T) = 0 => T = {}
    BY <1>1, FS_EmptySet
  <2>2. 0 \in 0..N
    BY <1>1
  <2> QED
    BY <2>1, <2>2
<1>3. ASSUME NEW n \in 0..(N - 1), n \in B PROVE n + 1 \in B
  <2>1. ASSUME NEW T \in SUBSET S, Cardinality(T) = n + 1
        PROVE  T \in G
    <3>1. T # {}
      BY <1>1, <2>1, FS_EmptySet
    <3>2. ASSUME NEW x \in T
          PROVE  T \ {x} \in G
      <4>1. Cardinality(T \ {x}) = n
        <5>1. IsFiniteSet(T) /\ x \in T
          BY <1>1
        <5>2. Cardinality(T \ {x}) = Cardinality(T) - 1
          BY <5>1, FS_RemoveElement
        <5> QED
          BY <1>1, <2>1, <5>2
      <4> QED
        BY <1>3, <4>1
    <3> QED
      BY <3>1, <3>2
  <2> QED
    BY <1>1, <2>1
<1>4. 0..N \subseteq B
  <2> HIDE DEF B, N
  <2> QED
    BY <1>1, <1>2, <1>3, UpTo
<1>5. ASSUME NEW T \in SUBSET S
      PROVE  T \in G
  <2>1. Cardinality(T) \in B
    <3> HIDE DEF B, N
    <3> QED
      BY <1>1, <1>4
  <2> QED
    BY <2>1
<1> QED
  BY <1>5

\* g is the recursion over the subsets of S that takes out one chosen element
\* after the other.
IsFold(g, S, base, op, choose) ==
  g = [T \in SUBSET S |-> IF T = {} THEN base ELSE op[<<choose[T], g[T \ {choose[T]}]>>]]

\* Over a finite set the recursion has a solution.
LEMMA FoldExists ==
  ASSUME NEW S, IsFiniteSet(S), NEW R, NEW base \in R, NEW op \in [S \X R -> R],
         NEW choose, \A T \in (SUBSET S) \ {{}} : choose[T] \in T
  PROVE  \E g \in [SUBSET S -> R] : IsFold(g, S, base, op, choose)
<1> DEFINE N == Cardinality(S)
           D(n) == {T \in SUBSET S : Cardinality(T) <= n}
           Solves(g, n) == g = [T \in D(n) |-> IF T = {} THEN base
                                               ELSE op[<<choose[T], g[T \ {choose[T]}]>>]]
           B == {n \in 0..N : \E g \in [D(n) -> R] : Solves(g, n)}
<1>1. N \in Nat /\ \A T \in SUBSET S : IsFiniteSet(T) /\ Cardinality(T) \in 0..N
  <2>1. N \in Nat
    BY FS_CardinalityType
  <2>2. ASSUME NEW T \in SUBSET S
        PROVE  IsFiniteSet(T) /\ Cardinality(T) \in 0..N
    BY <2>1, FS_Subset, FS_CardinalityType
  <2> QED
    BY <2>1, <2>2
<1>2. ASSUME NEW T \in (SUBSET S) \ {{}}
      PROVE  /\ choose[T] \in T /\ choose[T] \in S
             /\ T \ {choose[T]} \in SUBSET S
             /\ Cardinality(T \ {choose[T]}) = Cardinality(T) - 1
  BY <1>1, FS_RemoveElement
<1> HIDE DEF N
<1>3. 0 \in B
  <2>1. D(0) = {{}}
    BY <1>1, FS_EmptySet
  <2>2. [T \in D(0) |-> base] \in [D(0) -> R] /\ Solves([T \in D(0) |-> base], 0)
    BY <2>1
  <2>3. 0 \in 0..N
    BY <1>1
  <2>4. \E g \in [D(0) -> R] : Solves(g, 0)
    <3> HIDE DEF D, Solves
    <3> QED
      BY <2>2
  <2> QED
    BY <2>3, <2>4
<1>4. ASSUME NEW n \in 0..(N - 1), n \in B PROVE n + 1 \in B
  <2>1. PICK g \in [D(n) -> R] : Solves(g, n)
    BY <1>4
  <2> DEFINE h == [T \in D(n + 1) |-> IF T = {} THEN base
                                      ELSE op[<<choose[T], g[T \ {choose[T]}]>>]]
  <2>2. \A T \in D(n + 1) \ {{}} : T \ {choose[T]} \in D(n)
    BY <1>1, <1>2
  <2>3. h \in [D(n + 1) -> R]
    <3>1. ASSUME NEW T \in D(n + 1) \ {{}}
          PROVE  op[<<choose[T], g[T \ {choose[T]}]>>] \in R
      BY <1>2, <2>1, <2>2
    <3> QED
      BY <3>1
  <2>4. \A T \in D(n) : h[T] = g[T]
    <3>1. ASSUME NEW T \in D(n)
          PROVE  h[T] = g[T]
      <4>1. T \in D(n + 1)
        BY <1>1
      <4>2. g[T] = IF T = {} THEN base ELSE op[<<choose[T], g[T \ {choose[T]}]>>]
        BY <2>1
      <4> QED
        BY <4>1, <4>2
    <3> QED
      BY <3>1
  <2>5. Solves(h, n + 1)
    BY <2>2, <2>4
  <2> QED
    <3>1. n + 1 \in 0..N
      BY <1>1
    <3> HIDE DEF h
    <3> QED
      BY <2>3, <2>5, <3>1
<1>5. N \in B
  <2> HIDE DEF B, N
  <2>1. 0..N \subseteq B
    BY <1>1, <1>3, <1>4, UpTo
  <2> QED
    BY <1>1, <2>1
<1>6. D(N) = SUBSET S
  BY <1>1
<1>7. PICK g \in [D(N) -> R] : Solves(g, N)
  BY <1>5
<1> QED
  <2>1. g \in [SUBSET S -> R]
    BY <1>6
  <2>2. g = [T \in SUBSET S |-> IF T = {} THEN base ELSE op[<<choose[T], g[T \ {choose[T]}]>>]]
    BY <1>6, <1>7
  <2> QED
    BY <2>1, <2>2 DEF IsFold
=============================================================================
