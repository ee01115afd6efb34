------------------------- MODULE RecursionTheorems -------------------------
(***************************************************************************)
(* Induction and recursion over the natural numbers, stated about sets and *)
(* functions: what the modules add up (the amounts paid for an order, what *)
(* orders took from the shelf) is a function defined by recursion, and     *)
(* these lemmas say that it exists and is the only one.                    *)
(***************************************************************************)
EXTENDS Integers, FiniteSets, FiniteSetTheorems, WellFoundedInduction, TLAPS

\* Every set of natural numbers but the empty one has a smallest element.
LEMMA SmallestElement ==
    ASSUME NEW S \in SUBSET Nat, S # {}
    PROVE  \E m \in S : \A n \in S : m <= n
  <1> DEFINE R == OpToRel(<, Nat)
  <1>1. IsWellFoundedOn(R, Nat)
    BY NatLessThanWellFounded
  <1>2. \A m, n \in Nat : m < n => <<m, n>> \in R
    BY DEF OpToRel
  <1> HIDE DEF R
  <1>3. PICK m \in S : \A n \in S : ~(<<n, m>> \in R)
    BY <1>1, WFMin
  <1>4. ASSUME NEW n \in S PROVE m <= n
    <2>1. m \in Nat /\ n \in Nat /\ ~(n < m)
      BY <1>2, <1>3
    <2> QED  BY <2>1
  <1> QED  BY <1>4

\* A set that has 0, and with every natural number the next, has them all.
LEMMA Induction ==
    ASSUME NEW S, 0 \in S, \A n \in Nat : n \in S => n + 1 \in S
    PROVE  \A n \in Nat : n \in S
  <1> SUFFICES ASSUME Nat \ S # {} PROVE FALSE
    OBVIOUS
  <1>1. PICK m \in Nat \ S : \A n \in Nat \ S : m <= n
    BY SmallestElement
  <1>2. m # 0 /\ m - 1 \in Nat /\ m - 1 \notin Nat \ S
    BY <1>1
  <1>3. m - 1 + 1 \in S /\ m = m - 1 + 1
    BY <1>2
  <1> QED  BY <1>1, <1>3

-----------------------------------------------------------------------------
(* Sums along a chain.  Each element x of D but those of rank 0 has a      *)
(* weight and a next element of lower rank; the sum at x is its weight and *)
(* the sum at the next.                                                    *)

\* A way down through D.
Descends(D, rank, next) ==
    /\ rank \in [D -> Nat]
    /\ next \in [D -> D]
    /\ \A x \in D : rank[x] # 0 => rank[next[x]] < rank[x]

AddsUp(sum, weight, rank, next, x) ==
    sum[x] = IF rank[x] = 0 THEN 0 ELSE weight[x] + sum[next[x]]

IsSum(sum, D, weight, rank, next) ==
    \A x \in D : AddsUp(sum, weight, rank, next, x)

\* There is such a sum if no rank is above n.
LEMMA SumExists ==
    ASSUME NEW D, NEW rank, NEW next, Descends(D, rank, next),
           NEW weight \in [D -> Int],
           NEW n \in Nat, \A x \in D : rank[x] <= n
    PROVE  \E sum \in [D -> Int] : IsSum(sum, D, weight, rank, next)
  <1> DEFINE Good == {k \in Nat : \E sum \in [D -> Int] : \A x \in D :
                         rank[x] <= k => AddsUp(sum, weight, rank, next, x)}
  <1>1. 0 \in Good
    <2>1. [x \in D |-> 0] \in [D -> Int]
      OBVIOUS
    <2>2. ASSUME NEW x \in D, rank[x] <= 0
          PROVE  AddsUp([y \in D |-> 0], weight, rank, next, x)
      BY <2>2 DEF AddsUp, Descends
    <2> QED  BY <2>1, <2>2
  <1>2. ASSUME NEW k \in Nat, k \in Good PROVE k + 1 \in Good
    <2>1. PICK sum \in [D -> Int] : \A x \in D :
              rank[x] <= k => AddsUp(sum, weight, rank, next, x)
      BY <1>2
    <2> DEFINE more == [x \in D |-> IF rank[x] <= k THEN sum[x]
                                    ELSE weight[x] + sum[next[x]]]
    <2>2. more \in [D -> Int]
      BY DEF Descends
    <2>3. ASSUME NEW x \in D, rank[x] <= k + 1
          PROVE  AddsUp(more, weight, rank, next, x)
      <3>1. CASE rank[x] = 0
        BY <2>1, <3>1 DEF AddsUp
      <3>2. CASE rank[x] # 0
        <4>1. next[x] \in D /\ rank[next[x]] <= k
          BY <2>3, <3>2 DEF Descends
        <4>2. more[next[x]] = sum[next[x]]
          BY <4>1
        <4> QED  BY <2>1, <3>2, <4>2 DEF AddsUp
      <3> QED  BY <3>1, <3>2
    <2> HIDE DEF more
    <2> QED  BY <2>2, <2>3
  <1> HIDE DEF Good
  <1>3. n \in Good
    BY <1>1, <1>2, Induction
  <1> QED  BY <1>3 DEF Good, IsSum

\* There is only one: two sums that agree in what they add are equal.
LEMMA SumUnique ==
    ASSUME NEW D, NEW rank, NEW next, Descends(D, rank, next),
           NEW weight, NEW f, NEW g,
           IsSum(f, D, weight, rank, next), IsSum(g, D, weight, rank, next),
           NEW x \in D
    PROVE  f[x] = g[x]
  <1> DEFINE Good == {k \in Nat : \A y \in D : rank[y] <= k => f[y] = g[y]}
  <1>1. 0 \in Good
    BY DEF IsSum, AddsUp, Descends
  <1>2. ASSUME NEW k \in Nat, k \in Good PROVE k + 1 \in Good
    <2>1. ASSUME NEW y \in D, rank[y] <= k + 1 PROVE f[y] = g[y]
      <3>1. CASE rank[y] = 0
        BY <3>1 DEF IsSum, AddsUp
      <3>2. CASE rank[y] # 0
        <4>1. next[y] \in D /\ rank[next[y]] <= k
          BY <2>1, <3>2 DEF Descends
        <4> QED  BY <1>2, <3>2, <4>1 DEF IsSum, AddsUp
      <3> QED  BY <3>1, <3>2
    <2> QED  BY <2>1
  <1> HIDE DEF Good
  <1>3. rank[x] \in Nat /\ rank[x] \in Good
    BY <1>1, <1>2, Induction DEF Descends
  <1> QED  BY <1>3 DEF Good, Descends

-----------------------------------------------------------------------------
(* Sums over a finite set, in the form in which MapThenSumSet computes     *)
(* them: an element is taken out after the other, each time the one that   *)
(* CHOOSE picks.                                                           *)

Picked(S) == CHOOSE x \in S : TRUE

\* sum[T] is the sum of the weights of the subset T of S.
IsSetSum(sum, weight, S) ==
    sum = [T \in SUBSET S |->
              IF T = {} THEN 0 ELSE weight[Picked(T)] + sum[T \ {Picked(T)}]]

\* It is a sum along the chain of smaller and smaller subsets.
SizeOf(S) == [T \in SUBSET S |-> Cardinality(T)]
Fewer(S) == [T \in SUBSET S |-> IF T = {} THEN {} ELSE T \ {Picked(T)}]
PickedWeight(weight, S) ==
    [T \in SUBSET S |-> IF T = {} THEN 0 ELSE weight[Picked(T)]]

LEMMA PickedIsElement ==
    ASSUME NEW S, S # {}
    PROVE  Picked(S) \in S
  BY DEF Picked

LEMMA SubsetsAreFinite ==
    ASSUME NEW S, IsFiniteSet(S), NEW T \in SUBSET S
    PROVE  /\ IsFiniteSet(T)
           /\ Cardinality(T) \in Nat /\ Cardinality(T) <= Cardinality(S)
           /\ Cardinality(T) = 0 <=> T = {}
           /\ \A x \in T : Cardinality(T \ {x}) = Cardinality(T) - 1
  <1>1. IsFiniteSet(T) /\ Cardinality(T) <= Cardinality(S)
    BY FS_Subset
  <1>2. Cardinality(T) \in Nat /\ (Cardinality(T) = 0 <=> T = {})
    BY <1>1, FS_CardinalityType, FS_EmptySet
  <1>3. \A x \in T : Cardinality(T \ {x}) = Cardinality(T) - 1
    BY <1>1, FS_RemoveElement
  <1> QED  BY <1>1, <1>2, <1>3

LEMMA SubsetsDescend ==
    ASSUME NEW S, IsFiniteSet(S)
    PROVE  Descends(SUBSET S, SizeOf(S), Fewer(S))
  <1>1. SizeOf(S) \in [SUBSET S -> Nat]
    BY SubsetsAreFinite DEF SizeOf
  <1>2. Fewer(S) \in [SUBSET S -> SUBSET S]
    BY DEF Fewer
  <1>3. ASSUME NEW T \in SUBSET S, SizeOf(S)[T] # 0
        PROVE  SizeOf(S)[Fewer(S)[T]] < SizeOf(S)[T]
    <2>1. T # {} /\ Cardinality(T) \in Nat
      BY <1>3, SubsetsAreFinite DEF SizeOf
    <2>2. Picked(T) \in T
      BY <2>1, PickedIsElement
    <2>3. Cardinality(T \ {Picked(T)}) = Cardinality(T) - 1
      BY <2>2, SubsetsAreFinite
    <2>4. Fewer(S)[T] = T \ {Picked(T)} /\ T \ {Picked(T)} \in SUBSET S
      BY <2>1 DEF Fewer
    <2> QED  BY <2>1, <2>3, <2>4 DEF SizeOf
  <1> QED  BY <1>1, <1>2, <1>3 DEF Descends

LEMMA SetSumIsSum ==
    ASSUME NEW S, IsFiniteSet(S), NEW weight, NEW sum, IsSetSum(sum, weight, S)
    PROVE  IsSum(sum, SUBSET S, PickedWeight(weight, S), SizeOf(S), Fewer(S))
  <1>1. ASSUME NEW T \in SUBSET S
        PROVE  AddsUp(sum, PickedWeight(weight, S), SizeOf(S), Fewer(S), T)
    <2>1. sum[T] = IF T = {} THEN 0 ELSE weight[Picked(T)] + sum[T \ {Picked(T)}]
      BY DEF IsSetSum
    <2>2. SizeOf(S)[T] = 0 <=> T = {}
      BY SubsetsAreFinite DEF SizeOf
    <2> QED  BY <2>1, <2>2 DEF AddsUp, PickedWeight, Fewer
  <1> QED  BY <1>1 DEF IsSum

LEMMA SetSumUnique ==
    ASSUME NEW S, IsFiniteSet(S), NEW weight, NEW f, NEW g,
           IsSum(f, SUBSET S, PickedWeight(weight, S), SizeOf(S), Fewer(S)),
           IsSum(g, SUBSET S, PickedWeight(weight, S), SizeOf(S), Fewer(S)),
           NEW T \in SUBSET S
    PROVE  f[T] = g[T]
  <1> DEFINE D == SUBSET S
             picked == PickedWeight(weight, S)
             size == SizeOf(S)
             fewer == Fewer(S)
  <1>1. Descends(D, size, fewer) /\ T \in D
    BY SubsetsDescend
  <1>2. IsSum(f, D, picked, size, fewer) /\ IsSum(g, D, picked, size, fewer)
    OBVIOUS
  <1> HIDE DEF D, picked, size, fewer
  <1> QED  BY <1>1, <1>2, SumUnique

LEMMA SetSumExists ==
    ASSUME NEW S, IsFiniteSet(S), NEW weight \in [S -> Int]
    PROVE  \E sum \in [SUBSET S -> Int] : IsSetSum(sum, weight, S)
  <1>1. PickedWeight(weight, S) \in [SUBSET S -> Int]
    <2>1. ASSUME NEW T \in SUBSET S, T # {} PROVE weight[Picked(T)] \in Int
      BY <2>1, PickedIsElement
    <2> QED  BY <2>1 DEF PickedWeight
  <1>2. /\ Cardinality(S) \in Nat
        /\ \A T \in SUBSET S : SizeOf(S)[T] <= Cardinality(S)
    BY FS_CardinalityType, SubsetsAreFinite DEF SizeOf
  <1>3. PICK sum \in [SUBSET S -> Int] :
            IsSum(sum, SUBSET S, PickedWeight(weight, S), SizeOf(S), Fewer(S))
    BY <1>1, <1>2, SubsetsDescend, SumExists
  <1>4. ASSUME NEW T \in SUBSET S
        PROVE  sum[T] = IF T = {} THEN 0
                        ELSE weight[Picked(T)] + sum[T \ {Picked(T)}]
    <2>1. AddsUp(sum, PickedWeight(weight, S), SizeOf(S), Fewer(S), T)
      BY <1>3 DEF IsSum
    <2>2. SizeOf(S)[T] = 0 <=> T = {}
      BY SubsetsAreFinite DEF SizeOf
    <2> QED  BY <2>1, <2>2 DEF AddsUp, PickedWeight, Fewer
  <1>5. sum = [T \in SUBSET S |-> sum[T]]
    OBVIOUS
  <1>6. IsSetSum(sum, weight, S)
    BY <1>4, <1>5 DEF IsSetSum
  <1> QED  BY <1>6

\* The sum is of integers, and there is only one.
LEMMA SetSumIsInteger ==
    ASSUME NEW S, IsFiniteSet(S), NEW weight \in [S -> Int],
           NEW sum, IsSetSum(sum, weight, S)
    PROVE  sum \in [SUBSET S -> Int]
  <1>1. PICK f \in [SUBSET S -> Int] : IsSetSum(f, weight, S)
    BY SetSumExists
  <1>2. /\ IsSum(f, SUBSET S, PickedWeight(weight, S), SizeOf(S), Fewer(S))
        /\ IsSum(sum, SUBSET S, PickedWeight(weight, S), SizeOf(S), Fewer(S))
    BY <1>1, SetSumIsSum
  <1>3. \A T \in SUBSET S : sum[T] = f[T]
    BY <1>2, SetSumUnique
  <1> QED  BY <1>1, <1>3 DEF IsSetSum

\* The element taken out may be any.
LEMMA TakeOut ==
    ASSUME NEW S, IsFiniteSet(S), NEW weight \in [S -> Int],
           NEW sum, IsSetSum(sum, weight, S),
           NEW T \in SUBSET S, NEW x \in T
    PROVE  sum[T] = weight[x] + sum[T \ {x}]
  <1> DEFINE Good ==
          {n \in Nat : \A U \in SUBSET S : \A y \in U :
               Cardinality(U) <= n => sum[U] = weight[y] + sum[U \ {y}]}
  <1>0. sum \in [SUBSET S -> Int]
    BY SetSumIsInteger
  <1>1. 0 \in Good
    <2>1. ASSUME NEW U \in SUBSET S, NEW y \in U, Cardinality(U) <= 0
          PROVE  FALSE
      BY <2>1, SubsetsAreFinite
    <2> QED  BY <2>1
  <1>2. ASSUME NEW n \in Nat, n \in Good PROVE n + 1 \in Good
    <2>1. ASSUME NEW U \in SUBSET S, NEW y \in U, Cardinality(U) <= n + 1
          PROVE  sum[U] = weight[y] + sum[U \ {y}]
      <3> DEFINE z == Picked(U)
      <3>1. z \in U /\ sum[U] = weight[z] + sum[U \ {z}]
        BY PickedIsElement DEF IsSetSum
      <3> HIDE DEF z
      <3>2. CASE y = z
        BY <3>1, <3>2
      <3>3. CASE y # z
        <4> DEFINE R == (U \ {y}) \ {z}
        <4>1. /\ Cardinality(U \ {z}) <= n /\ Cardinality(U \ {y}) <= n
          BY <2>1, <3>1, SubsetsAreFinite
        <4>2. y \in U \ {z} /\ z \in U \ {y} /\ (U \ {z}) \ {y} = R
          BY <3>1, <3>3
        <4>3. sum[U \ {z}] = weight[y] + sum[R]
          BY <1>2, <4>1, <4>2
        <4>4. sum[U \ {y}] = weight[z] + sum[R]
          BY <1>2, <4>1, <4>2
        <4>5. weight[y] \in Int /\ weight[z] \in Int /\ sum[R] \in Int
          BY <1>0, <3>1
        <4> QED  BY <3>1, <4>3, <4>4, <4>5
      <3> QED  BY <3>2, <3>3
    <2> QED  BY <2>1
  <1> HIDE DEF Good
  <1>3. Cardinality(T) \in Nat /\ Cardinality(T) \in Good
    BY <1>1, <1>2, Induction, SubsetsAreFinite
  <1> QED  BY <1>3 DEF Good

\* Sums over two sets agree where the weights do.
LEMMA SameSum ==
    ASSUME NEW S, NEW T, IsFiniteSet(S), IsFiniteSet(T), S \subseteq T,
           NEW v, NEW w, \A x \in S : v[x] = w[x],
           NEW f, IsSetSum(f, v, S), NEW g, IsSetSum(g, w, T)
    PROVE  f[S] = g[S]
  <1>1. IsSum(f, SUBSET S, PickedWeight(v, S), SizeOf(S), Fewer(S))
    BY SetSumIsSum
  <1>2. ASSUME NEW U \in SUBSET S
        PROVE  AddsUp(g, PickedWeight(v, S), SizeOf(S), Fewer(S), U)
    <2>1. g[U] = IF U = {} THEN 0 ELSE w[Picked(U)] + g[U \ {Picked(U)}]
      BY DEF IsSetSum
    <2>2. U # {} => v[Picked(U)] = w[Picked(U)]
      BY PickedIsElement
    <2>3. SizeOf(S)[U] = 0 <=> U = {}
      BY SubsetsAreFinite DEF SizeOf
    <2> QED  BY <2>1, <2>2, <2>3 DEF AddsUp, PickedWeight, Fewer
  <1>3. IsSum(g, SUBSET S, PickedWeight(v, S), SizeOf(S), Fewer(S))
    BY <1>2 DEF IsSum
  <1>4. S \in SUBSET S
    OBVIOUS
  <1> QED  BY <1>1, <1>3, <1>4, SetSumUnique
=============================================================================
