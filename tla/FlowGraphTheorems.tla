-------------------------- MODULE FlowGraphTheorems --------------------------
(***************************************************************************)
(* What holds of every flow graph: reachability and dominance, what a      *)
(* depth-first search says of them, and how natural loops are nested.      *)
(* Before that, what they rest on and other proofs use too: induction on   *)
(* the naturals, iteration, and what an iteration that only adds to a      *)
(* finite set comes to, the least set that is closed under it.             *)
(***************************************************************************)
EXTENDS FlowGraph, FiniteSetTheorems, WellFoundedInduction, TLAPS

-----------------------------------------------------------------------------
(* Least and greatest elements.                                            *)

\* A non-empty set of naturals has a least element, and Min returns it.
LEMMA MinOfNaturals ==
    ASSUME NEW S \in SUBSET Nat, S # {}
    PROVE  Min(S) \in S /\ \A x \in S : Min(S) <= x
<1> DEFINE Less == {ss \in Nat \X Nat : ss[1] < ss[2]}
<1>1. IsWellFoundedOn(Less, Nat)
  BY NatLessThanWellFounded DEF OpToRel
<1> HIDE DEF Less
<1>2. PICK m \in S : \A y \in S : ~(<<y, m>> \in Less)
  BY <1>1, WFMin
<1>3. \A y \in S : m <= y
  <2>1. ASSUME NEW y \in Nat, NEW n \in Nat, y < n PROVE <<y, n>> \in Less
    <3>1. <<y, n>> \in Nat \X Nat /\ <<y, n>>[1] = y /\ <<y, n>>[2] = n
      OBVIOUS
    <3> QED  BY <2>1, <3>1 DEF Less
  <2>2. \A y \in S : ~(y < m)
    BY <1>2, <2>1
  <2> QED  BY <2>2
<1> QED  BY <1>3 DEF Min

\* A non-empty finite set of naturals has a greatest element, and Max returns it.
LEMMA MaxOfNaturals ==
    ASSUME NEW S \in SUBSET Nat, S # {}, NEW n \in Nat, \A x \in S : x <= n
    PROVE  Max(S) \in S /\ \A x \in S : x <= Max(S)
<1> DEFINE Bounds == {k \in Nat : \A x \in S : x <= k}
<1>1. Min(Bounds) \in Bounds /\ \A k \in Bounds : Min(Bounds) <= k
  <2>1. Bounds \in SUBSET Nat /\ Bounds # {}
    OBVIOUS
  <2> QED  BY <2>1, MinOfNaturals
<1> DEFINE m == Min(Bounds)
<1>2. m \in S
  <2>1. SUFFICES ASSUME m \notin S PROVE FALSE
    OBVIOUS
  <2>2. PICK x \in S : TRUE
    OBVIOUS
  <2>3. m - 1 \in Bounds
    BY <1>1, <2>1, <2>2
  <2> QED  BY <1>1, <2>3
<1>3. \A x \in S : m >= x
  BY <1>1
<1> HIDE DEF m
<1> QED  BY <1>2, <1>3 DEF Max

\* Some element of a non-empty set has the least value.
LEMMA LeastByValue ==
    ASSUME NEW D, NEW S \in SUBSET D, S # {}, NEW value \in [D -> Nat]
    PROVE  \E x \in S : \A y \in S : value[x] <= value[y]
<1> DEFINE values == {value[y] : y \in S}
<1>1. values \in SUBSET Nat /\ values # {}
  OBVIOUS
<1>2. Min(values) \in values /\ \A k \in values : Min(values) <= k
  <2> HIDE DEF values
  <2> QED  BY <1>1, MinOfNaturals
<1>3. PICK x \in S : value[x] = Min(values)
  BY <1>2
<1>4. \A y \in S : value[x] <= value[y]
  BY <1>2, <1>3
<1> QED  BY <1>4

\* The same, where the number decides between equal values.
LEMMA LeastByValueAndNumber ==
    ASSUME NEW D \in SUBSET Nat, NEW S \in SUBSET D, S # {}, NEW value \in [D -> Nat]
    PROVE  \E x \in S : \A y \in S : value[x] < value[y] \/ (value[x] = value[y] /\ x <= y)
<1> DEFINE L == {x \in S : \A y \in S : value[x] <= value[y]}
           self == [x \in D |-> x]
<1>1. L # {}
  BY LeastByValue
<1>2. PICK x \in L : \A y \in L : self[x] <= self[y]
  <2>1. L \in SUBSET D /\ self \in [D -> Nat]
    OBVIOUS
  <2> HIDE DEF L, self
  <2> QED  BY <1>1, <2>1, LeastByValue
<1>3. ASSUME NEW y \in S PROVE value[x] < value[y] \/ (value[x] = value[y] /\ x <= y)
  <2>1. /\ value[x] \in Nat /\ value[y] \in Nat /\ value[x] <= value[y]
        /\ \A z \in S : value[x] <= value[z]
    BY <1>2
  <2>2. CASE value[x] = value[y]
    <3>1. y \in L
      BY <2>1, <2>2
    <3> QED  BY <1>2, <2>2, <3>1
  <2> QED  BY <2>1, <2>2
<1> QED  BY <1>2, <1>3

\* The values of a function on a finite set are finitely many.
LEMMA FiniteImage ==
    ASSUME NEW S, IsFiniteSet(S), NEW f
    PROVE  IsFiniteSet({f[x] : x \in S})
<1>1. [x \in S |-> f[x]] \in Surjection(S, {f[x] : x \in S})
  BY DEF Surjection
<1> QED  BY <1>1, FS_Surjection

-----------------------------------------------------------------------------
(* Induction and iteration.                                                *)

\* Induction on the naturals, for sets.
LEMMA NaturalsByInduction ==
    ASSUME NEW S \in SUBSET Nat, 0 \in S, \A n \in S : n + 1 \in S
    PROVE  S = Nat
<1>1. SUFFICES ASSUME Nat \ S # {} PROVE FALSE
  OBVIOUS
<1> DEFINE m == Min(Nat \ S)
<1>2. m \in Nat \ S /\ \A k \in Nat \ S : m <= k
  <2>1. Nat \ S \in SUBSET Nat
    OBVIOUS
  <2> QED  BY <1>1, <2>1, MinOfNaturals
<1> HIDE DEF m
<1>3. m - 1 \in Nat /\ m - 1 \notin Nat \ S
  BY <1>2
<1> QED  BY <1>2, <1>3

\* A finite set of naturals has a bound.
LEMMA FiniteIsBounded ==
    ASSUME NEW S \in SUBSET Nat, IsFiniteSet(S)
    PROVE  \E b \in Nat : \A x \in S : x <= b
<1>1. PICK n \in Nat : ExistsSurjection(1 .. n, S)
  BY FS_NatSurjection
<1>2. PICK f \in [1 .. n -> S] : \A x \in S : \E i \in 1 .. n : f[i] = x
  BY <1>1 DEF ExistsSurjection, Surjection
<1> DEFINE K == {k \in Nat : \E b \in Nat : \A i \in 1 .. n : i <= k => f[i] <= b}
<1>3. 0 \in K
  OBVIOUS
<1>4. ASSUME NEW k \in K PROVE k + 1 \in K
  <2>1. PICK b \in Nat : \A i \in 1 .. n : i <= k => f[i] <= b
    OBVIOUS
  <2>2. CASE k + 1 \in 1 .. n
    <3>1. f[k + 1] \in Nat /\ \A i \in 1 .. n : f[i] \in Nat
      BY <1>2, <2>2
    <3>2. b + f[k + 1] \in Nat
      BY <3>1
    <3>3. \A i \in 1 .. n : i <= k + 1 => f[i] <= b + f[k + 1]
      BY <2>1, <3>1
    <3>4. k + 1 \in Nat
      OBVIOUS
    <3> QED  BY <3>2, <3>3, <3>4
  <2>3. CASE k + 1 \notin 1 .. n
    <3>1. \A i \in 1 .. n : i <= k + 1 => i <= k
      BY <2>3
    <3>2. k + 1 \in Nat
      OBVIOUS
    <3> QED  BY <2>1, <3>1, <3>2
  <2> QED  BY <2>2, <2>3
<1>5. n \in K
  <2>1. K \in SUBSET Nat
    OBVIOUS
  <2> HIDE DEF K
  <2> QED  BY <1>3, <1>4, <2>1, NaturalsByInduction
<1>6. PICK b \in Nat : \A i \in 1 .. n : i <= n => f[i] <= b
  BY <1>5
<1>7. \A x \in S : x <= b
  <2>1. ASSUME NEW i \in 1 .. n PROVE f[i] <= b
    BY <1>6
  <2> QED  BY <1>2, <2>1
<1> QED  BY <1>7

\* A non-empty finite set of naturals has a greatest element, and Max returns it.
LEMMA MaxOfFinite ==
    ASSUME NEW S \in SUBSET Nat, IsFiniteSet(S), S # {}
    PROVE  Max(S) \in S /\ \A x \in S : x <= Max(S)
BY FiniteIsBounded, MaxOfNaturals

\* So has one of integers.
LEMMA MaxOfFiniteIntegers ==
    ASSUME NEW S \in SUBSET Int, IsFiniteSet(S), S # {}
    PROVE  Max(S) \in S /\ \A x \in S : x <= Max(S)
<1> DEFINE Above(x) == {y \in S : x < y}
           count == [x \in S |-> Cardinality(Above(x))]
<1>1. \A x \in S : IsFiniteSet(Above(x)) /\ Cardinality(Above(x)) \in Nat
  <2>1. \A x \in S : Above(x) \in SUBSET S
    OBVIOUS
  <2> QED  BY <2>1, FS_Subset, FS_CardinalityType
<1>2. PICK x \in S : \A y \in S : Cardinality(Above(x)) <= Cardinality(Above(y))
  <2>1. count \in [S -> Nat] /\ \A y \in S : count[y] = Cardinality(Above(y))
    BY <1>1
  <2>2. S \in SUBSET S /\ S # {}
    OBVIOUS
  <2> HIDE DEF count, Above
  <2>3. \E x \in S : \A y \in S : count[x] <= count[y]
    BY <2>1, <2>2, LeastByValue
  <2> QED  BY <2>1, <2>3
<1>3. ASSUME NEW y \in S, x < y PROVE FALSE
  <2>1. Above(y) \in SUBSET Above(x) /\ y \in Above(x) /\ y \notin Above(y)
    <3>1. x \in Int /\ y \in Int /\ \A z \in S : z \in Int
      OBVIOUS
    <3>2. \A z \in S : y < z => x < z
      BY <1>3, <3>1
    <3>3. ~(y < y)
      BY <3>1
    <3> QED  BY <1>3, <3>2, <3>3
  <2>2. Cardinality(Above(y)) <= Cardinality(Above(x)) /\ Cardinality(Above(x)) # Cardinality(Above(y))
    <3> HIDE DEF Above
    <3> QED  BY <1>1, <2>1, FS_Subset
  <2> HIDE DEF Above
  <2> QED  BY <1>1, <1>2, <2>2
<1>4. \E z \in S : \A y \in S : z >= y
  BY <1>2, <1>3
<1> QED  BY <1>4 DEF Max

IsMap(step, V) == step \in [V -> V]

\* What becomes of s when step is applied again and again.
IsIteration(g, s, step, V) ==
    /\ g \in [Nat -> V]
    /\ g[0] = s
    /\ \A n \in Nat : g[n + 1] = step[g[n]]

\* Any function of a set to itself can be iterated.
LEMMA IterationExists ==
    ASSUME NEW V, NEW s \in V, NEW step, IsMap(step, V)
    PROVE  \E g : IsIteration(g, s, step, V)
<1>0. step \in [V -> V]
  BY DEF IsMap
<1> DEFINE IsRun(h, n) ==
      h \in [0 .. n -> V] /\ h[0] = s /\ \A k \in 0 .. n - 1 : h[k + 1] = step[h[k]]
<1>1. \A n \in Nat : \E h : IsRun(h, n)
  <2> DEFINE S == {n \in Nat : \E h : IsRun(h, n)}
  <2>1. 0 \in S
    <3>1. IsRun([k \in 0 .. 0 |-> s], 0)
      OBVIOUS
    <3> QED  BY <3>1
  <2>2. ASSUME NEW n \in S PROVE n + 1 \in S
    <3>1. PICK h : IsRun(h, n)
      OBVIOUS
    <3> DEFINE longer == [k \in 0 .. n + 1 |-> IF k = n + 1 THEN step[h[n]] ELSE h[k]]
    <3>2. IsRun(longer, n + 1)
      <4>1. longer \in [0 .. n + 1 -> V] /\ longer[0] = s
        BY <1>0, <3>1
      <4>2. ASSUME NEW k \in 0 .. n PROVE longer[k + 1] = step[longer[k]]
        <5>1. CASE k = n
          BY <3>1, <5>1
        <5>2. CASE k \in 0 .. n - 1
          BY <3>1, <5>2
        <5> QED  BY <5>1, <5>2
      <4> HIDE DEF longer
      <4>3. (n + 1) - 1 = n
        OBVIOUS
      <4> QED  BY <4>1, <4>2, <4>3
    <3> HIDE DEF IsRun, longer
    <3> QED  BY <3>2
  <2>3. S = Nat
    <3> HIDE DEF IsRun
    <3>1. S \in SUBSET Nat
      OBVIOUS
    <3> HIDE DEF S
    <3> QED  BY <2>1, <2>2, <3>1, NaturalsByInduction
  <2> QED  BY <2>3
<1>2. ASSUME NEW n \in Nat, NEW h, NEW k, IsRun(h, n), IsRun(k, n + 1) PROVE h[n] = k[n]
  <2> DEFINE S == {i \in Nat : i <= n => h[i] = k[i]}
  <2>1. 0 \in S
    BY <1>2
  <2>2. ASSUME NEW i \in S PROVE i + 1 \in S
    <3>1. SUFFICES ASSUME i + 1 <= n PROVE h[i + 1] = k[i + 1]
      OBVIOUS
    <3>2. i \in 0 .. n - 1 /\ i \in 0 .. (n + 1) - 1 /\ h[i] = k[i]
      BY <3>1
    <3> QED  BY <1>2, <3>2
  <2>3. S = Nat
    <3>1. S \in SUBSET Nat
      OBVIOUS
    <3> HIDE DEF S
    <3> QED  BY <2>1, <2>2, <3>1, NaturalsByInduction
  <2> QED  BY <2>3
<1> DEFINE run(n) == CHOOSE h : IsRun(h, n)
           g == [n \in Nat |-> run(n)[n]]
<1>3. \A n \in Nat : IsRun(run(n), n)
  <2> HIDE DEF IsRun
  <2> QED  BY <1>1
<1> HIDE DEF run
<1>4. g \in [Nat -> V] /\ g[0] = s
  BY <1>3
<1>5. ASSUME NEW n \in Nat PROVE g[n + 1] = step[g[n]]
  <2>1. run(n + 1)[n + 1] = step[run(n + 1)[n]]
    BY <1>3
  <2>2. run(n)[n] = run(n + 1)[n]
    <3> HIDE DEF IsRun
    <3>1. IsRun(run(n), n) /\ IsRun(run(n + 1), n + 1)
      BY <1>3
    <3> QED  BY <3>1, <1>2
  <2> QED  BY <2>1, <2>2
<1> HIDE DEF g
<1>6. IsIteration(g, s, step, V)
  BY <1>4, <1>5 DEF IsIteration
<1> QED  BY <1>6

\* A step may also depend on how many steps came before.
IsCountedMap(step, V) == step \in [Nat \X V -> V]

IsRecursion(g, s, step, V) ==
    /\ g \in [Nat -> V]
    /\ g[0] = s
    /\ \A n \in Nat : g[n + 1] = step[<<n, g[n]>>]

\* A function defined by recursion on the naturals exists and obeys its equations.
LEMMA RecursionExists ==
    ASSUME NEW V, NEW s \in V, NEW step, IsCountedMap(step, V)
    PROVE  \E g : IsRecursion(g, s, step, V)
<1> DEFINE W     == Nat \X V
           count == [p \in W |-> <<p[1] + 1, step[p]>>]
<1>1. <<0, s>> \in W /\ IsMap(count, W)
  <2>1. ASSUME NEW p \in W PROVE count[p] \in W
    BY <2>1 DEF IsCountedMap
  <2> HIDE DEF W
  <2>2. count \in [W -> W]
    BY <2>1
  <2>3. <<0, s>> \in W
    BY DEF W
  <2> QED  BY <2>2, <2>3 DEF IsMap
<1>2. PICK h : IsIteration(h, <<0, s>>, count, W)
  <2> HIDE DEF W, count
  <2> QED  BY <1>1, IterationExists
<1>3. h \in [Nat -> W] /\ h[0] = <<0, s>> /\ \A n \in Nat : h[n + 1] = count[h[n]]
  BY <1>2 DEF IsIteration
<1>4. \A n \in Nat : h[n] \in W /\ h[n + 1] = <<h[n][1] + 1, step[h[n]]>>
  BY <1>3
<1>5. \A n \in Nat : h[n][1] = n
  <2> DEFINE S == {n \in Nat : h[n][1] = n}
  <2>1. 0 \in S
    BY <1>3
  <2>2. ASSUME NEW n \in S PROVE n + 1 \in S
    <3>1. n \in Nat /\ n + 1 \in Nat /\ h[n + 1][1] = h[n][1] + 1 /\ h[n][1] = n
      BY <1>4
    <3> QED  BY <3>1
  <2>3. S = Nat
    <3>1. S \in SUBSET Nat
      OBVIOUS
    <3> HIDE DEF S
    <3> QED  BY <2>1, <2>2, <3>1, NaturalsByInduction
  <2> QED  BY <2>3
<1> DEFINE g == [n \in Nat |-> h[n][2]]
<1>6. g \in [Nat -> V] /\ g[0] = s
  BY <1>3, <1>4
<1>7. ASSUME NEW n \in Nat PROVE g[n + 1] = step[<<n, g[n]>>]
  <2>1. h[n] \in Nat \X V /\ h[n] = <<h[n][1], h[n][2]>> /\ h[n][1] = n
    BY <1>4, <1>5
  <2>2. h[n] = <<n, g[n]>>
    BY <2>1
  <2>3. n + 1 \in Nat /\ h[n + 1][2] = step[h[n]]
    BY <1>4
  <2> QED  BY <2>2, <2>3
<1> HIDE DEF g
<1> QED  BY <1>6, <1>7 DEF IsRecursion

\* The step for n asks only for the values at nodes of lower rank.
IsRanked(N, V, rank, step) ==
    /\ rank \in [N -> Nat]
    /\ step \in [N \X [N -> V] -> V]
    /\ \A n \in N : \A g, h \in [N -> V] :
          (\A m \in N : rank[m] < rank[n] => g[m] = h[m]) => step[<<n, g>>] = step[<<n, h>>]

IsRankedRecursion(f, N, V, step) == f \in [N -> V] /\ \A n \in N : f[n] = step[<<n, f>>]

\* So a function can be defined by recursion on a tree.
LEMMA RankedRecursion ==
    ASSUME NEW N, NEW V, V # {}, NEW rank, NEW step, IsRanked(N, V, rank, step)
    PROVE  \E f : IsRankedRecursion(f, N, V, step)
<1> DEFINE W   == [N -> V]
           all == [g \in W |-> [n \in N |-> step[<<n, g>>]]]
<1>1. /\ rank \in [N -> Nat] /\ step \in [N \X W -> V]
      /\ \A n \in N : \A g, h \in W :
            (\A m \in N : rank[m] < rank[n] => g[m] = h[m]) => step[<<n, g>>] = step[<<n, h>>]
  BY DEF IsRanked
<1>2. PICK v \in V : TRUE
  OBVIOUS
<1>3. [n \in N |-> v] \in W /\ IsMap(all, W)
  <2>1. ASSUME NEW g \in W PROVE [n \in N |-> step[<<n, g>>]] \in W
    BY <1>1
  <2>2. all \in [W -> W]
    BY <2>1
  <2> QED  BY <1>2, <2>2 DEF IsMap
<1>4. PICK h : IsIteration(h, [n \in N |-> v], all, W)
  <2> HIDE DEF W, all
  <2> QED  BY <1>3, IterationExists
<1>5. /\ \A k \in Nat : h[k] \in W
      /\ \A k \in Nat : \A n \in N : h[k + 1][n] = step[<<n, h[k]>>]
  <2>1. h \in [Nat -> W] /\ \A k \in Nat : h[k + 1] = all[h[k]]
    BY <1>4 DEF IsIteration
  <2>2. \A g \in W : \A n \in N : all[g][n] = step[<<n, g>>]
    <3> HIDE DEF W
    <3> QED  OBVIOUS
  <2> HIDE DEF W, all
  <2>3. \A k \in Nat : h[k] \in W
    BY <2>1
  <2> QED  BY <2>1, <2>2, <2>3
<1> HIDE DEF W, all
<1>6. \A k \in Nat : \A n \in N : rank[n] < k => h[k + 1][n] = h[k][n]
  <2> DEFINE S == {k \in Nat : \A n \in N : rank[n] < k => h[k + 1][n] = h[k][n]}
  <2>1. 0 \in S
    BY <1>1
  <2>2. ASSUME NEW k \in S PROVE k + 1 \in S
    <3>1. SUFFICES ASSUME NEW n \in N, rank[n] < k + 1 PROVE h[(k + 1) + 1][n] = h[k + 1][n]
      OBVIOUS
    <3>2. k \in Nat /\ k + 1 \in Nat /\ \A m \in N : rank[m] < k => h[k + 1][m] = h[k][m]
      OBVIOUS
    <3>3. \A m \in N : rank[m] < rank[n] => h[k + 1][m] = h[k][m]
      BY <1>1, <3>1, <3>2
    <3>4. step[<<n, h[k + 1]>>] = step[<<n, h[k]>>]
      BY <1>1, <1>5, <3>2, <3>3
    <3> QED  BY <1>5, <3>2, <3>4
  <2>3. S = Nat
    <3>1. S \in SUBSET Nat
      OBVIOUS
    <3> HIDE DEF S
    <3> QED  BY <2>1, <2>2, <3>1, NaturalsByInduction
  <2> QED  BY <2>3
<1>7. \A j \in Nat : \A n \in N : h[rank[n] + 1 + j][n] = h[rank[n] + 1][n]
  <2> DEFINE S == {j \in Nat : \A n \in N : h[rank[n] + 1 + j][n] = h[rank[n] + 1][n]}
  <2>1. 0 \in S
    BY <1>1
  <2>2. ASSUME NEW j \in S PROVE j + 1 \in S
    <3>1. SUFFICES ASSUME NEW n \in N PROVE h[rank[n] + 1 + (j + 1)][n] = h[rank[n] + 1][n]
      OBVIOUS
    <3>2. /\ rank[n] \in Nat /\ j \in Nat
          /\ rank[n] + 1 + j \in Nat /\ rank[n] < rank[n] + 1 + j
          /\ rank[n] + 1 + (j + 1) = (rank[n] + 1 + j) + 1
      BY <1>1
    <3>3. h[(rank[n] + 1 + j) + 1][n] = h[rank[n] + 1 + j][n]
      BY <1>6, <3>2
    <3> QED  BY <3>2, <3>3
  <2>3. S = Nat
    <3>1. S \in SUBSET Nat
      OBVIOUS
    <3> HIDE DEF S
    <3> QED  BY <2>1, <2>2, <3>1, NaturalsByInduction
  <2> QED  BY <2>3
<1> DEFINE f == [n \in N |-> h[rank[n] + 1][n]]
<1>8. f \in W
  <2>1. \A n \in N : h[rank[n] + 1] \in W
    BY <1>1, <1>5
  <2> QED  BY <2>1 DEF W
<1>9. ASSUME NEW n \in N PROVE f[n] = step[<<n, f>>]
  <2>1. rank[n] \in Nat /\ f[n] = step[<<n, h[rank[n]]>>]
    BY <1>1, <1>5
  <2>2. ASSUME NEW m \in N, rank[m] < rank[n] PROVE h[rank[n]][m] = f[m]
    <3>1. /\ rank[m] \in Nat /\ rank[n] - (rank[m] + 1) \in Nat
          /\ rank[m] + 1 + (rank[n] - (rank[m] + 1)) = rank[n]
      BY <1>1, <2>1, <2>2
    <3> QED  BY <1>7, <3>1
  <2>3. h[rank[n]] \in W
    BY <1>5, <2>1
  <2> HIDE DEF f
  <2> QED  BY <1>1, <1>8, <2>1, <2>2, <2>3
<1> HIDE DEF f
<1> QED  BY <1>8, <1>9 DEF W, IsRankedRecursion

\* Induction from the greatest elements of a finite set down.
LEMMA InductionDown ==
    ASSUME NEW N \in SUBSET Nat, IsFiniteSet(N), NEW G \in SUBSET N,
           \A n \in N : (\A m \in N : m > n => m \in G) => n \in G
    PROVE  G = N
<1>1. SUFFICES ASSUME N \ G # {} PROVE FALSE
  OBVIOUS
<1>2. /\ N \ G \in SUBSET Nat /\ IsFiniteSet(N \ G)
  BY FS_Subset
<1>3. PICK x \in N \ G : \A y \in N \ G : y <= x
  BY <1>1, <1>2, MaxOfFinite
<1>4. ASSUME NEW m \in N, m > x PROVE m \in G
  <2>1. m \in Nat /\ x \in Nat
    OBVIOUS
  <2> QED  BY <1>3, <1>4, <2>1
<1> QED  BY <1>3, <1>4

-----------------------------------------------------------------------------
(* Recursion over the subsets of a finite set.                             *)

LEMMA SetInduction ==
    ASSUME NEW U, IsFiniteSet(U), NEW G,
           \A S \in SUBSET U : (\A x \in S : S \ {x} \in G) => S \in G
    PROVE  \A S \in SUBSET U : S \in G
<1> DEFINE D == SUBSET U
           B == D \ G
           size == [S \in D |-> Cardinality(S)]
<1>1. \A S \in D : IsFiniteSet(S) /\ Cardinality(S) \in Nat
  BY FS_Subset, FS_CardinalityType
<1>2. size \in [D -> Nat]
  BY <1>1
<1>3. SUFFICES ASSUME B # {} PROVE FALSE
  OBVIOUS
<1>4. PICK S \in B : \A T \in B : size[S] <= size[T]
  <2>1. B \in SUBSET D
    OBVIOUS
  <2> HIDE DEF B, D, size
  <2> QED  BY <1>2, <1>3, <2>1, LeastByValue
<1>5. PICK x \in S : S \ {x} \notin G
  OBVIOUS
<1>6. S \ {x} \in B
  BY <1>5
<1>7. Cardinality(S \ {x}) = Cardinality(S) - 1 /\ Cardinality(S) \in Nat
  BY <1>1, FS_RemoveElement
<1>8. Cardinality(S) <= Cardinality(S \ {x})
  BY <1>4, <1>6
<1> QED  BY <1>7, <1>8

\* A step that gives the value of a set from those of the sets with one element less.
IsSetStep(U, V, step) ==
    /\ step \in [(SUBSET U) \X [SUBSET U -> V] -> V]
    /\ \A S \in SUBSET U : \A f, h \in [SUBSET U -> V] :
          (\A x \in S : f[S \ {x}] = h[S \ {x}]) => step[<<S, f>>] = step[<<S, h>>]

LEMMA SetRecursion ==
    ASSUME NEW U, IsFiniteSet(U), NEW V, V # {}, NEW step, IsSetStep(U, V, step)
    PROVE  \E f : IsRankedRecursion(f, SUBSET U, V, step)
<1> DEFINE N == SUBSET U
           rank == [S \in N |-> Cardinality(S)]
<1>1. \A S \in N : IsFiniteSet(S) /\ Cardinality(S) \in Nat
  BY FS_Subset, FS_CardinalityType
<1>2. rank \in [N -> Nat]
  BY <1>1
<1>3. ASSUME NEW S \in N, NEW f \in [N -> V], NEW h \in [N -> V],
             \A T \in N : rank[T] < rank[S] => f[T] = h[T]
      PROVE  step[<<S, f>>] = step[<<S, h>>]
  <2>1. ASSUME NEW x \in S PROVE f[S \ {x}] = h[S \ {x}]
    <3>1. Cardinality(S \ {x}) = Cardinality(S) - 1 /\ Cardinality(S) \in Nat
      BY <1>1, FS_RemoveElement
    <3>2. S \ {x} \in N
      OBVIOUS
    <3>3. rank[S \ {x}] < rank[S]
      BY <3>1, <3>2
    <3> QED  BY <1>3, <3>2, <3>3
  <2> QED  BY <2>1 DEF IsSetStep
<1>4. step \in [N \X [N -> V] -> V]
  BY DEF IsSetStep
<1>5. \E f : IsRankedRecursion(f, N, V, step)
  <2> HIDE DEF N, rank
  <2>1. IsRanked(N, V, rank, step)
    BY <1>2, <1>3, <1>4 DEF IsRanked
  <2> QED  BY <2>1, RankedRecursion
<1> QED  BY <1>5

\* A fold over the elements of a set, in an order that is given by which one is last.
IsSetFold(f, U, start, last, step) ==
    f = [S \in SUBSET U |-> IF S = {} THEN start ELSE step[<<f[S \ {last[S]}], last[S]>>]]

LEMMA SetFold ==
    ASSUME NEW U, IsFiniteSet(U), NEW V, NEW start \in V, NEW last, NEW step \in [V \X U -> V],
           \A S \in SUBSET U : S # {} => last[S] \in S
    PROVE  \E f \in [SUBSET U -> V] : IsSetFold(f, U, start, last, step)
<1> DEFINE N == SUBSET U
           E(f, S) == IF S = {} THEN start ELSE step[<<f[S \ {last[S]}], last[S]>>]
           all == [p \in N \X [N -> V] |-> E(p[2], p[1])]
<1>1. ASSUME NEW S \in N, NEW f \in [N -> V] PROVE E(f, S) \in V
  <2>1. CASE S # {}
    <3>1. last[S] \in S /\ last[S] \in U /\ S \ {last[S]} \in N
      BY <2>1
    <3>2. f[S \ {last[S]}] \in V
      BY <3>1
    <3> QED  BY <2>1, <3>1, <3>2
  <2> QED  BY <2>1
<1>2. ASSUME NEW S \in N, NEW f \in [N -> V], NEW h \in [N -> V], \A x \in S : f[S \ {x}] = h[S \ {x}]
      PROVE  E(f, S) = E(h, S)
  BY <1>2
<1> HIDE DEF E
<1>3. IsSetStep(U, V, all)
  BY <1>1, <1>2 DEF IsSetStep
<1>4. PICK f : IsRankedRecursion(f, N, V, all)
  <2> HIDE DEF all
  <2> QED  BY <1>3, SetRecursion
<1>5. f \in [N -> V] /\ \A S \in N : f[S] = E(f, S)
  BY <1>4 DEF IsRankedRecursion
<1> QED  BY <1>5 DEF E, IsSetFold

\* The same in any order, with all that can come out of it.
IsSetFoldAll(f, U, start, step) ==
    f = [S \in SUBSET U |-> IF S = {} THEN start
                           ELSE UNION {{step[<<w, n>>] : w \in f[S \ {n}]} : n \in S}]

LEMMA SetFoldAll ==
    ASSUME NEW U, IsFiniteSet(U), NEW W, NEW start \in SUBSET W, NEW step \in [W \X U -> W]
    PROVE  \E f \in [SUBSET U -> SUBSET W] : IsSetFoldAll(f, U, start, step)
<1> DEFINE N == SUBSET U
           V == SUBSET W
           One(f, S, n) == {step[<<w, n>>] : w \in f[S \ {n}]}
           All(f, S) == UNION {One(f, S, n) : n \in S}
           E(f, S) == IF S = {} THEN start ELSE All(f, S)
           all == [p \in N \X [N -> V] |-> E(p[2], p[1])]
<1>1. ASSUME NEW S \in N, NEW f \in [N -> V] PROVE E(f, S) \in V
  <2>1. ASSUME NEW n \in S PROVE One(f, S, n) \subseteq W
    <3>1. f[S \ {n}] \subseteq W /\ n \in U
      BY DEF V, N
    <3> QED  BY <3>1
  <2>2. All(f, S) \subseteq W
    <3> HIDE DEF One
    <3> QED  BY <2>1
  <2> HIDE DEF All
  <2> QED  BY <2>2
<1>2. ASSUME NEW S \in N, NEW f \in [N -> V], NEW h \in [N -> V], \A x \in S : f[S \ {x}] = h[S \ {x}]
      PROVE  E(f, S) = E(h, S)
  <2>1. \A n \in S : One(f, S, n) = One(h, S, n)
    BY <1>2
  <2>2. All(f, S) = All(h, S)
    <3> HIDE DEF One
    <3> QED  BY <2>1
  <2> HIDE DEF All
  <2> QED  BY <2>2
<1> HIDE DEF E
<1>3. IsSetStep(U, V, all)
  BY <1>1, <1>2 DEF IsSetStep
<1>4. PICK f : IsRankedRecursion(f, N, V, all)
  <2>1. V # {}
    OBVIOUS
  <2> HIDE DEF all, V
  <2> QED  BY <1>3, <2>1, SetRecursion
<1>5. f \in [N -> V] /\ \A S \in N : f[S] = E(f, S)
  BY <1>4 DEF IsRankedRecursion
<1> QED  BY <1>5 DEF E, IsSetFoldAll

-----------------------------------------------------------------------------
(* Closures.                                                               *)

\* A step that only adds to subsets of U.
OnlyAdds(step, U) == IsMap(step, SUBSET U) /\ \A S \in SUBSET U : S \subseteq step[S]

\* C is the least subset of U around s that step adds nothing to.
IsClosure(C, s, step, U) ==
    /\ C \in SUBSET U
    /\ s \subseteq C
    /\ step[C] = C
    /\ \A T \in SUBSET U : s \subseteq T /\ (\A S \in SUBSET T : step[S] \subseteq T) => C \subseteq T

\* A step that only adds to subsets of a finite set has come to an end after as many
\* iterations as there are elements, with the least closed set around the start.
LEMMA IterationCloses ==
    ASSUME NEW U, IsFiniteSet(U), NEW step, OnlyAdds(step, U),
           NEW s, NEW g, IsIteration(g, s, step, SUBSET U),
           NEW N \in Nat, Cardinality(U) <= N
    PROVE  IsClosure(g[N], s, step, U)
<1>0. /\ step \in [SUBSET U -> SUBSET U] /\ \A S \in SUBSET U : S \subseteq step[S]
      /\ g \in [Nat -> SUBSET U] /\ g[0] = s /\ \A n \in Nat : g[n + 1] = step[g[n]]
  BY DEF OnlyAdds, IsMap, IsIteration
<1>1. \A n \in Nat : step[g[n]] = g[n] \/ Cardinality(g[n]) >= n
  <2> DEFINE S == {n \in Nat : step[g[n]] = g[n] \/ Cardinality(g[n]) >= n}
  <2>0. \A n \in Nat : g[n] \in SUBSET U /\ IsFiniteSet(g[n]) /\ Cardinality(g[n]) \in Nat
    BY <1>0, FS_Subset, FS_CardinalityType
  <2>1. 0 \in S
    BY <2>0
  <2>2. ASSUME NEW n \in S PROVE n + 1 \in S
    <3>1. n \in Nat /\ g[n] \in SUBSET U /\ g[n + 1] = step[g[n]] /\ g[n] \subseteq g[n + 1]
      BY <1>0
    <3>2. CASE step[g[n]] = g[n]
      BY <3>1, <3>2
    <3>3. CASE step[g[n]] # g[n] /\ Cardinality(g[n]) >= n
      <4>1. Cardinality(g[n]) <= Cardinality(g[n + 1]) /\ Cardinality(g[n]) # Cardinality(g[n + 1])
        BY <2>0, <3>1, <3>3, FS_Subset
      <4>2. /\ Cardinality(g[n]) \in Nat /\ Cardinality(g[n + 1]) \in Nat
            /\ Cardinality(g[n]) >= n
        BY <2>0, <3>1, <3>3
      <4>3. Cardinality(g[n + 1]) >= n + 1
        <5>1. \A x, y, z \in Nat : x <= y /\ x # y /\ x >= z => y >= z + 1
          OBVIOUS
        <5> QED  BY <3>1, <4>1, <4>2, <5>1
      <4> QED  BY <3>1, <4>3
    <3> QED  BY <3>2, <3>3
  <2>3. S = Nat
    <3>1. S \in SUBSET Nat
      OBVIOUS
    <3> HIDE DEF S
    <3> QED  BY <2>1, <2>2, <3>1, NaturalsByInduction
  <2> QED  BY <2>3
<1>2. step[g[N]] = g[N]
  <2>1. SUFFICES ASSUME Cardinality(g[N]) >= N PROVE step[g[N]] = g[N]
    BY <1>1
  <2>2. g[N] \in SUBSET U /\ Cardinality(U) \in Nat /\ Cardinality(g[N]) \in Nat
    BY <1>0, FS_Subset, FS_CardinalityType
  <2>3. g[N] = U
    BY <2>1, <2>2, FS_Subset
  <2>4. U \subseteq step[U] /\ step[U] \subseteq U
    BY <1>0
  <2> QED  BY <2>3, <2>4
<1>3. g[0] \subseteq g[N]
  <2> DEFINE S == {n \in Nat : g[0] \subseteq g[n]}
  <2>1. 0 \in S
    OBVIOUS
  <2>2. ASSUME NEW n \in S PROVE n + 1 \in S
    BY <1>0
  <2>3. S = Nat
    <3>1. S \in SUBSET Nat
      OBVIOUS
    <3> HIDE DEF S
    <3> QED  BY <2>1, <2>2, <3>1, NaturalsByInduction
  <2> QED  BY <2>3
<1>4. ASSUME NEW T \in SUBSET U, g[0] \subseteq T, \A S \in SUBSET T : step[S] \subseteq T
      PROVE  g[N] \subseteq T
  <2> DEFINE S == {n \in Nat : g[n] \subseteq T}
  <2>1. 0 \in S
    BY <1>0, <1>4
  <2>2. ASSUME NEW n \in S PROVE n + 1 \in S
    BY <1>0, <1>4
  <2>3. S = Nat
    <3>1. S \in SUBSET Nat
      OBVIOUS
    <3> HIDE DEF S
    <3> QED  BY <2>1, <2>2, <3>1, NaturalsByInduction
  <2> QED  BY <2>3
<1> QED  BY <1>0, <1>2, <1>3, <1>4 DEF IsClosure

-----------------------------------------------------------------------------
(* Reachability.                                                           *)

\* X goes along the edges of g into T.
GoesOn(g, X, T) == \A e \in g.edge : e[1] \in X /\ e[2] \in T => e[2] \in X

\* What ReachedFrom computes by bounded iteration is the least set around S \cap T that
\* goes along the edges into T.
LEMMA ReachedFromFacts ==
    ASSUME NEW g, IsFiniteSet(g.node), NEW S, NEW T \in SUBSET g.node
    PROVE  LET R == ReachedFrom(g, S, T)
           IN  /\ S \cap T \subseteq R /\ R \subseteq T /\ GoesOn(g, R, T)
               /\ \A X : S \cap T \subseteq X /\ GoesOn(g, X, T) => R \subseteq X
<1> DEFINE Grown(less) == less \cup ({e[2] : e \in {d \in g.edge : d[1] \in less}} \cap T)
           add   == [less \in SUBSET T |-> Grown(less)]
           within[n \in Nat] ==
              IF n = 0 THEN S \cap T
              ELSE LET less == within[n - 1]
                   IN  less \cup ({e[2] : e \in {d \in g.edge : d[1] \in less}} \cap T)
           count == Cardinality(g.node)
           R     == ReachedFrom(g, S, T)
<1>1. R = within[count]
  BY DEF ReachedFrom
<1>2. S \cap T \in SUBSET T /\ IsFiniteSet(T) /\ count \in Nat /\ Cardinality(T) <= count
  BY FS_Subset, FS_CardinalityType
<1>3. OnlyAdds(add, T)
  BY DEF OnlyAdds, IsMap
<1>4. PICK h : IsIteration(h, S \cap T, add, SUBSET T)
  <2>1. S \cap T \in SUBSET T /\ IsMap(add, SUBSET T)
    BY <1>3 DEF OnlyAdds
  <2> HIDE DEF add, within
  <2> QED  BY <2>1, IterationExists
<1> DEFINE Is(f) == [n \in Nat |->
              IF n = 0 THEN S \cap T
              ELSE LET less == f[n - 1]
                   IN  less \cup ({e[2] : e \in {d \in g.edge : d[1] \in less}} \cap T)]
<1>5. h = Is(h)
  <2>1. ASSUME NEW n \in Nat \ {0} PROVE h[n] = Grown(h[n - 1])
    <3>1. n - 1 \in Nat /\ (n - 1) + 1 = n
      OBVIOUS
    <3>2. h[n] = add[h[n - 1]] /\ h[n - 1] \in SUBSET T
      BY <1>4, <3>1 DEF IsIteration
    <3> QED  BY <3>2
  <2> QED  BY <1>4, <2>1 DEF IsIteration
<1>6. within = Is(within)
  BY <1>5
<1> HIDE DEF within
<1>7. within[0] = S \cap T /\ \A n \in Nat : within[n + 1] = Grown(within[n])
  <2>1. within[0] = S \cap T
    BY <1>6
  <2>2. ASSUME NEW n \in Nat PROVE within[n + 1] = Grown(within[n])
    <3>1. n + 1 \in Nat /\ n + 1 # 0 /\ (n + 1) - 1 = n
      OBVIOUS
    <3>2. within[n + 1] = Is(within)[n + 1]
      BY <1>6
    <3>3. Is(within)[n + 1] = Grown(within[n])
      BY <3>1
    <3> HIDE DEF Is
    <3> QED  BY <3>2, <3>3
  <2> QED  BY <2>1, <2>2
<1>8. \A n \in Nat : within[n] \in SUBSET T
  <2> DEFINE N == {n \in Nat : within[n] \in SUBSET T}
  <2>1. 0 \in N
    BY <1>7
  <2>2. ASSUME NEW n \in N PROVE n + 1 \in N
    BY <1>7
  <2>3. N \in SUBSET Nat
    OBVIOUS
  <2> HIDE DEF N
  <2>4. N = Nat
    BY <2>1, <2>2, <2>3, NaturalsByInduction
  <2> QED  BY <2>4 DEF N
<1>9. IsIteration(within, S \cap T, add, SUBSET T)
  <2>1. within \in [Nat -> SUBSET T]
    BY <1>6, <1>8
  <2>2. \A n \in Nat : within[n + 1] = add[within[n]]
    BY <1>7, <1>8
  <2> QED  BY <1>7, <2>1, <2>2 DEF IsIteration
<1>10. IsClosure(within[count], S \cap T, add, T)
  <2>1. IsFiniteSet(T) /\ count \in Nat /\ Cardinality(T) <= count
    BY <1>2
  <2> HIDE DEF add, count
  <2> QED  BY <1>3, <1>9, <2>1, IterationCloses
<1> HIDE DEF R
<1>11. S \cap T \subseteq R /\ R \subseteq T /\ Grown(R) = R
  BY <1>1, <1>10 DEF IsClosure
<1>12. GoesOn(g, R, T)
  <2>1. ASSUME NEW e \in g.edge, e[1] \in R, e[2] \in T PROVE e[2] \in Grown(R)
    BY <2>1
  <2> HIDE DEF Grown
  <2> QED  BY <1>11, <2>1 DEF GoesOn
<1>13. ASSUME NEW X, S \cap T \subseteq X, GoesOn(g, X, T) PROVE R \subseteq X
  <2>1. X \cap T \in SUBSET T /\ S \cap T \subseteq X \cap T
    BY <1>13
  <2>2. ASSUME NEW less \in SUBSET (X \cap T) PROVE add[less] \subseteq X \cap T
    <3>1. add[less] = Grown(less) /\ add[less] \subseteq T
      BY <1>3 DEF OnlyAdds, IsMap
    <3>2. ASSUME NEW x \in Grown(less) PROVE x \in X
      <4>1. CASE x \in less
        BY <4>1
      <4>2. CASE x \notin less
        <5>1. PICK e \in g.edge : e[1] \in less /\ x = e[2] /\ x \in T
          BY <4>2
        <5> QED  BY <1>13, <5>1 DEF GoesOn
      <4> QED  BY <4>1, <4>2
    <3> QED  BY <3>1, <3>2
  <2>3. within[count] \subseteq X \cap T
    BY <1>10, <2>1, <2>2 DEF IsClosure
  <2> QED  BY <1>1, <2>3
<1> QED  BY <1>11, <1>12, <1>13 DEF R

\* Dominance is a matter of graphs with an entry, whether edges lead to it or not.
IsRooted(g) ==
    /\ IsFiniteSet(g.node)
    /\ g.edge \subseteq g.node \X g.node
    /\ g.entry \in g.node

LEMMA FlowGraphIsRooted ==
    ASSUME NEW g, IsFlowGraph(g)
    PROVE  IsRooted(g)
BY DEF IsFlowGraph, IsRooted

\* The two sets of a path around a: what is reached without a goes along all edges to
\* other nodes.
LEMMA AvoidingFacts ==
    ASSUME NEW g, IsRooted(g), NEW a \in g.node, a # g.entry
    PROVE  LET R == ReachedFrom(g, {g.entry}, g.node \ {a})
           IN  /\ g.entry \in R /\ R \subseteq g.node \ {a}
               /\ \A e \in g.edge : e[1] \in R /\ e[2] # a => e[2] \in R
               /\ \A X : g.entry \in X /\ GoesOn(g, X, g.node \ {a}) => R \subseteq X
<1> DEFINE T == g.node \ {a}
           R == ReachedFrom(g, {g.entry}, T)
<1>1. IsFiniteSet(g.node) /\ T \in SUBSET g.node /\ g.entry \in T /\ g.edge \subseteq g.node \X g.node
  BY DEF IsRooted
<1>2. /\ {g.entry} \cap T \subseteq R /\ R \subseteq T /\ GoesOn(g, R, T)
      /\ \A X : {g.entry} \cap T \subseteq X /\ GoesOn(g, X, T) => R \subseteq X
  <2> HIDE DEF T
  <2> QED  BY <1>1, ReachedFromFacts
<1> HIDE DEF R
<1>3. \A e \in g.edge : e[1] \in R /\ e[2] # a => e[2] \in R
  BY <1>1, <1>2 DEF GoesOn
<1> QED  BY <1>1, <1>2, <1>3 DEF R

\* Every node dominates itself.
LEMMA DominatesSelf ==
    ASSUME NEW g, IsRooted(g), NEW a \in g.node
    PROVE  Dominates(g, a, a)
<1>1. IsFiniteSet(g.node) /\ g.node \ {a} \in SUBSET g.node
  BY DEF IsRooted
<1>2. ReachedFrom(g, {g.entry}, g.node \ {a}) \subseteq g.node \ {a}
  BY <1>1, ReachedFromFacts
<1> QED  BY <1>2 DEF Dominates

\* The entry dominates every node.
LEMMA EntryDominates ==
    ASSUME NEW g, IsRooted(g), NEW b
    PROVE  Dominates(g, g.entry, b)
<1> DEFINE T == g.node \ {g.entry}
           R == ReachedFrom(g, {g.entry}, T)
<1>1. IsFiniteSet(g.node) /\ T \in SUBSET g.node /\ {g.entry} \cap T \subseteq {}
  BY DEF IsRooted
<1>2. GoesOn(g, {}, T)
  BY DEF GoesOn
<1>3. R \subseteq {}
  <2> HIDE DEF T
  <2> QED  BY <1>1, <1>2, ReachedFromFacts
<1> QED  BY <1>3 DEF Dominates

\* What leads to a node that h dominates is dominated by h too, unless the node is h.
LEMMA DominatesPreds ==
    ASSUME NEW g, IsRooted(g), NEW h \in g.node, NEW e \in g.edge,
           Dominates(g, h, e[2]), e[2] # h
    PROVE  Dominates(g, h, e[1])
<1>1. CASE h = g.entry
  BY <1>1, EntryDominates
<1>2. CASE h # g.entry
  BY <1>2, AvoidingFacts DEF Dominates
<1> QED  BY <1>1, <1>2

\* A set of nodes that can only be entered at h is dominated by h.
LEMMA SingleEntryDominates ==
    ASSUME NEW g, IsRooted(g), NEW h \in g.node, NEW S \in SUBSET g.node, g.entry \notin S \ {h},
           \A e \in g.edge : e[2] \in S /\ e[2] # h => e[1] \in S
    PROVE  \A n \in S : Dominates(g, h, n)
<1>1. CASE h = g.entry
  BY <1>1, EntryDominates
<1>2. CASE h # g.entry
  <2>1. g.edge \subseteq g.node \X g.node /\ g.entry \in g.node \ S
    BY <1>2 DEF IsRooted
  <2>2. GoesOn(g, g.node \ S, g.node \ {h})
    BY <2>1 DEF GoesOn
  <2>3. ReachedFrom(g, {g.entry}, g.node \ {h}) \subseteq g.node \ S
    BY <1>2, <2>1, <2>2, AvoidingFacts
  <2> QED  BY <2>3 DEF Dominates
<1> QED  BY <1>1, <1>2

\* What is reached is the least set around the entry that goes along all edges.
LEMMA ReachableFacts ==
    ASSUME NEW g, IsRooted(g)
    PROVE  LET R == ReachableNodes(g)
           IN  /\ g.entry \in R /\ R \subseteq g.node
               /\ \A e \in g.edge : e[1] \in R => e[2] \in R
               /\ \A X : g.entry \in X /\ (\A e \in g.edge : e[1] \in X => e[2] \in X)
                           => R \subseteq X
<1> DEFINE R == ReachableNodes(g)
<1>1. /\ IsFiniteSet(g.node) /\ g.node \in SUBSET g.node /\ {g.entry} \cap g.node = {g.entry}
      /\ \A e \in g.edge : e[2] \in g.node
  BY DEF IsRooted
<1>2. /\ {g.entry} \cap g.node \subseteq R /\ R \subseteq g.node /\ GoesOn(g, R, g.node)
      /\ \A X : {g.entry} \cap g.node \subseteq X /\ GoesOn(g, X, g.node) => R \subseteq X
  BY <1>1, ReachedFromFacts DEF ReachableNodes
<1> HIDE DEF R
<1>3. \A X : (\A e \in g.edge : e[1] \in X => e[2] \in X) => GoesOn(g, X, g.node)
  BY DEF GoesOn
<1>4. \A e \in g.edge : e[1] \in R => e[2] \in R
  BY <1>1, <1>2 DEF GoesOn
<1> QED  BY <1>1, <1>2, <1>3, <1>4 DEF R

\* Dominance is transitive.
LEMMA DominanceTransitive ==
    ASSUME NEW g, IsRooted(g), NEW a \in g.node, NEW b \in g.node, NEW c,
           Dominates(g, a, b), Dominates(g, b, c)
    PROVE  Dominates(g, a, c)
<1>1. SUFFICES ASSUME a # g.entry, b # g.entry PROVE Dominates(g, a, c)
  <2>1. CASE a = g.entry
    BY <2>1, EntryDominates
  <2>2. CASE a # g.entry /\ b = g.entry
    BY <2>2, AvoidingFacts DEF Dominates
  <2> QED  BY <1>1, <2>1, <2>2
<1> DEFINE A == ReachedFrom(g, {g.entry}, g.node \ {a})
           B == ReachedFrom(g, {g.entry}, g.node \ {b})
<1>2. /\ g.entry \in A
      /\ \A e \in g.edge : e[1] \in A /\ e[2] # a => e[2] \in A
      /\ \A X : g.entry \in X /\ GoesOn(g, X, g.node \ {a}) => A \subseteq X
  BY <1>1, AvoidingFacts
<1>3. /\ g.entry \in B
      /\ \A e \in g.edge : e[1] \in B /\ e[2] # b => e[2] \in B
  BY <1>1, AvoidingFacts
<1>4. b \notin A /\ c \notin B
  BY DEF Dominates
<1> HIDE DEF A, B
<1>5. GoesOn(g, A \cap B, g.node \ {a})
  BY <1>2, <1>3, <1>4 DEF GoesOn
<1>6. c \notin A
  BY <1>2, <1>3, <1>4, <1>5
<1> QED  BY <1>6 DEF A, Dominates

\* Of two nodes that dominate a third, one dominates the other.
LEMMA DominatorsAreAChain ==
    ASSUME NEW g, IsRooted(g), ReachableNodes(g) = g.node,
           NEW a \in g.node, NEW b \in g.node, NEW n \in g.node,
           Dominates(g, a, n), Dominates(g, b, n)
    PROVE  Dominates(g, a, b) \/ Dominates(g, b, a)
<1>1. SUFFICES ASSUME ~Dominates(g, a, b), ~Dominates(g, b, a) PROVE FALSE
  OBVIOUS
<1>2. a # g.entry /\ b # g.entry
  BY <1>1, EntryDominates
<1> DEFINE A == ReachedFrom(g, {g.entry}, g.node \ {a})
           B == ReachedFrom(g, {g.entry}, g.node \ {b})
<1>3. g.entry \in A /\ \A e \in g.edge : e[1] \in A /\ e[2] # a => e[2] \in A
  BY <1>2, AvoidingFacts
<1>4. \A e \in g.edge : e[1] \in B /\ e[2] # b => e[2] \in B
  BY <1>2, AvoidingFacts
<1>5. b \in A /\ a \in B /\ n \notin A /\ n \notin B
  BY <1>1 DEF Dominates
<1> HIDE DEF A, B
<1>6. \A e \in g.edge : e[1] \in A \cup B => e[2] \in A \cup B
  BY <1>3, <1>4, <1>5
<1>7. g.node \subseteq A \cup B
  BY <1>3, <1>6, ReachableFacts
<1> QED  BY <1>5, <1>7

\* Of two different nodes, at most one dominates the other.
LEMMA DominanceAntisymmetric ==
    ASSUME NEW g, IsRooted(g), ReachableNodes(g) = g.node,
           NEW a \in g.node, NEW b \in g.node, Dominates(g, a, b), Dominates(g, b, a)
    PROVE  a = b
<1>1. SUFFICES ASSUME a # b PROVE FALSE
  OBVIOUS
<1> DEFINE A == ReachedFrom(g, {g.entry}, g.node \ {a})
           B == ReachedFrom(g, {g.entry}, g.node \ {b})
<1>2. b \notin A /\ a \notin B
  BY DEF Dominates
<1>3. a # g.entry /\ b # g.entry
  <2>1. ASSUME NEW x \in g.node, x # g.entry PROVE g.entry \in ReachedFrom(g, {g.entry}, g.node \ {x})
    BY <2>1, AvoidingFacts
  <2> QED  BY <1>1, <1>2, <2>1
<1>4. /\ g.entry \in A /\ A \subseteq g.node \ {a}
      /\ \A e \in g.edge : e[1] \in A /\ e[2] # a => e[2] \in A
  BY <1>3, AvoidingFacts
<1>5. /\ g.entry \in B /\ \A e \in g.edge : e[1] \in B /\ e[2] # b => e[2] \in B
  BY <1>3, AvoidingFacts
<1> HIDE DEF A, B
<1> DEFINE X == A \cap B
<1>6. g.entry \in X /\ \A e \in g.edge : e[1] \in X => e[2] \in X
  BY <1>1, <1>2, <1>4, <1>5
<1> HIDE DEF X
<1>7. g.node \subseteq X
  BY <1>6, ReachableFacts
<1> QED  BY <1>4, <1>7 DEF X

\* Dominators have fewer dominators.
LEMMA DepthOfDominators ==
    ASSUME NEW g, IsRooted(g), ReachableNodes(g) = g.node
    PROVE  /\ \A n \in g.node : Cardinality(Dominators(g, n)) \in Nat
           /\ \A a, b \in g.node : Dominates(g, a, b) /\ a # b =>
                 Cardinality(Dominators(g, a)) < Cardinality(Dominators(g, b))
<1>1. ASSUME NEW n \in g.node
      PROVE  IsFiniteSet(Dominators(g, n)) /\ Cardinality(Dominators(g, n)) \in Nat
  <2>1. Dominators(g, n) \subseteq g.node
    BY DEF Dominators
  <2> QED  BY <2>1, FS_Subset, FS_CardinalityType DEF IsRooted
<1>2. ASSUME NEW a \in g.node, NEW b \in g.node, Dominates(g, a, b), a # b
      PROVE  Cardinality(Dominators(g, a)) < Cardinality(Dominators(g, b))
  <2>1. Dominators(g, a) \subseteq Dominators(g, b) /\ b \in Dominators(g, b) /\ b \notin Dominators(g, a)
    BY <1>2, DominatesSelf, DominanceTransitive, DominanceAntisymmetric DEF Dominators
  <2>2. /\ Cardinality(Dominators(g, a)) <= Cardinality(Dominators(g, b))
        /\ Cardinality(Dominators(g, a)) # Cardinality(Dominators(g, b))
    BY <1>1, <2>1, FS_Subset
  <2> QED  BY <1>1, <2>2
<1> QED  BY <1>1, <1>2

\* If control can only go on from n to s, and n dominates another node, it does so by way
\* of s: n dominates s, and s the other node.
LEMMA OnlySuccessorDominates ==
    ASSUME NEW g, IsRooted(g), ReachableNodes(g) = g.node,
           NEW n \in g.node, NEW s, Succs(g, n) = {s},
           NEW c \in g.node \ {n}, Dominates(g, n, c)
    PROVE  s \in g.node \ {n} /\ Dominates(g, n, s) /\ Dominates(g, s, c)
<1> DEFINE N == ReachedFrom(g, {g.entry}, g.node \ {n})
<1>1. s \in g.node /\ \A e \in g.edge : e[1] = n => e[2] = s
  BY DEF Succs, IsRooted
<1>2. g.entry \in N \cup {n} /\ \A e \in g.edge : e[1] \in N => e[2] \in N \cup {n}
  <2>1. CASE n = g.entry
    <3>1. g.node \ {n} \in SUBSET g.node /\ IsFiniteSet(g.node)
      BY DEF IsRooted
    <3>2. GoesOn(g, {}, g.node \ {n})
      BY DEF GoesOn
    <3>3. {g.entry} \cap (g.node \ {n}) \subseteq {}
      BY <2>1
    <3>4. N \subseteq {}
      <4> DEFINE T == g.node \ {n}
      <4> HIDE DEF T
      <4> QED  BY <3>1, <3>2, <3>3, ReachedFromFacts DEF T
    <3> QED  BY <2>1, <3>4
  <2>2. CASE n # g.entry
    <3>1. g.entry \in N /\ \A e \in g.edge : e[1] \in N /\ e[2] # n => e[2] \in N
      BY <2>2, AvoidingFacts
    <3> HIDE DEF N
    <3> QED  BY <3>1
  <2> QED  BY <2>1, <2>2
<1>3. c \notin N
  BY DEF Dominates
<1> HIDE DEF N
<1>4. s \notin N \cup {n}
  <2>1. SUFFICES ASSUME s \in N \cup {n} PROVE FALSE
    OBVIOUS
  <2>2. \A e \in g.edge : e[1] \in N \cup {n} => e[2] \in N \cup {n}
    BY <1>1, <1>2, <2>1
  <2>3. g.node \subseteq N \cup {n}
    <3> DEFINE X == N \cup {n}
    <3>1. g.entry \in X /\ \A e \in g.edge : e[1] \in X => e[2] \in X
      BY <1>2, <2>2
    <3> HIDE DEF X
    <3>2. ReachableNodes(g) \subseteq X
      BY <3>1, ReachableFacts
    <3> QED  BY <3>2 DEF X
  <2> QED  BY <1>3, <2>3
<1>5. Dominates(g, n, s)
  BY <1>4 DEF N, Dominates
<1>6. Dominates(g, s, c)
  <2>1. CASE s = g.entry
    BY <2>1, EntryDominates
  <2>2. CASE s # g.entry
    <3>1. GoesOn(g, N \cup {n}, g.node \ {s})
      BY <1>1, <1>2 DEF GoesOn
    <3>2. ReachedFrom(g, {g.entry}, g.node \ {s}) \subseteq N \cup {n}
      BY <1>1, <1>2, <2>2, <3>1, AvoidingFacts
    <3> QED  BY <1>3, <3>2 DEF Dominates
  <2> QED  BY <2>1, <2>2
<1> QED  BY <1>1, <1>4, <1>5, <1>6

-----------------------------------------------------------------------------
(* A depth-first search gives every node a number, in the order of its     *)
(* visits, and the number of its last descendant.                          *)

\* By the numbers, m is an ancestor of n.
Spans(num, end, m, n) == num[m] <= num[n] /\ num[n] <= end[m]

\* The search has come to n from m.
IsParent(g, num, end, m, n) ==
    /\ <<m, n>> \in g.edge
    /\ num[m] < num[n] /\ Spans(num, end, m, n)
    /\ \A a \in g.node : Spans(num, end, a, n) /\ a # n => Spans(num, end, a, m)

IsSearch(g, num, end) ==
    /\ num \in [g.node -> Nat] /\ end \in [g.node -> Nat]
    /\ \A m, n \in g.node : num[m] = num[n] => m = n
    /\ \A n \in g.node : num[n] <= end[n] /\ Spans(num, end, g.entry, n)
    /\ \A m, n \in g.node : Spans(num, end, m, n) => end[n] <= end[m]
    /\ \A e \in g.edge : num[e[2]] <= end[e[1]]
    /\ \A n \in g.node \ {g.entry} : \E m \in g.node : IsParent(g, num, end, m, n)

\* Ancestry is an order, in which the ancestors of a node are a chain.
LEMMA SpansFacts ==
    ASSUME NEW g, NEW num, NEW end, IsSearch(g, num, end)
    PROVE  /\ \A n \in g.node : Spans(num, end, n, n)
           /\ \A l, m, n \in g.node :
                /\ Spans(num, end, l, m) /\ Spans(num, end, m, n) => Spans(num, end, l, n)
                /\ Spans(num, end, m, n) /\ Spans(num, end, n, m) => m = n
                /\ Spans(num, end, l, n) /\ Spans(num, end, m, n) /\ num[l] <= num[m]
                     => Spans(num, end, l, m)
<1>1. /\ num \in [g.node -> Nat] /\ end \in [g.node -> Nat]
      /\ \A m, n \in g.node : num[m] = num[n] => m = n
      /\ \A n \in g.node : num[n] <= end[n]
      /\ \A m, n \in g.node : Spans(num, end, m, n) => end[n] <= end[m]
  BY DEF IsSearch
<1>2. \A n \in g.node : num[n] \in Nat /\ end[n] \in Nat
  BY <1>1
<1>3. ASSUME NEW l \in g.node, NEW m \in g.node, NEW n \in g.node,
             Spans(num, end, l, m), Spans(num, end, m, n)
      PROVE  Spans(num, end, l, n)
  BY <1>1, <1>2, <1>3 DEF Spans
<1>4. ASSUME NEW m \in g.node, NEW n \in g.node, Spans(num, end, n, m), Spans(num, end, m, n)
      PROVE  m = n
  <2>1. num[m] = num[n]
    BY <1>2, <1>4 DEF Spans
  <2> QED  BY <1>1, <2>1
<1>5. ASSUME NEW l \in g.node, NEW m \in g.node, NEW n \in g.node, num[l] <= num[m],
             Spans(num, end, l, n), Spans(num, end, m, n)
      PROVE  Spans(num, end, l, m)
  BY <1>2, <1>5 DEF Spans
<1>6. \A n \in g.node : Spans(num, end, n, n)
  BY <1>1, <1>2 DEF Spans
<1> QED  BY <1>3, <1>4, <1>5, <1>6

\* What holds of a node if it holds of its parent holds of all nodes, provided it holds of
\* the entry.
LEMMA ByParents ==
    ASSUME NEW g, NEW num, NEW end, IsSearch(g, num, end), NEW X,
           \A n \in g.node : /\ n = g.entry \/ \E m \in g.node : IsParent(g, num, end, m, n)
                             /\ \A m \in g.node : IsParent(g, num, end, m, n) => m \in X
                             => n \in X
    PROVE  g.node \subseteq X
<1>1. /\ num \in [g.node -> Nat]
      /\ \A n \in g.node \ {g.entry} : \E m \in g.node : IsParent(g, num, end, m, n)
  BY DEF IsSearch
<1>2. SUFFICES ASSUME g.node \ X # {} PROVE FALSE
  OBVIOUS
<1>3. PICK n \in g.node \ X : \A m \in g.node \ X : num[n] <= num[m]
  <2> DEFINE Left == g.node \ X
  <2>1. Left \in SUBSET g.node /\ Left # {}
    BY <1>2
  <2>2. \E x \in Left : \A y \in Left : num[x] <= num[y]
    <3> HIDE DEF Left
    <3> QED  BY <1>1, <2>1, LeastByValue
  <2> QED  BY <2>2
<1>4. \A m \in g.node : IsParent(g, num, end, m, n) => m \in X
  <2>1. \A m \in g.node : num[m] \in Nat
    BY <1>1
  <2>2. \A m \in g.node : IsParent(g, num, end, m, n) => num[m] < num[n]
    BY DEF IsParent
  <2> QED  BY <1>3, <2>1, <2>2
<1> QED  BY <1>1, <1>3, <1>4

\* Whatever the order of the search, a dominator is an ancestor.
LEMMA DominatorsAreAncestors ==
    ASSUME NEW g, IsFlowGraph(g), NEW num, NEW end, IsSearch(g, num, end),
           NEW a \in g.node, NEW b \in g.node, Dominates(g, a, b)
    PROVE  Spans(num, end, a, b)
<1>1. SUFFICES ASSUME a # g.entry PROVE Spans(num, end, a, b)
  BY DEF IsSearch
<1> DEFINE R == ReachedFrom(g, {g.entry}, g.node \ {a})
           X == {n \in g.node : Spans(num, end, a, n) \/ n \in R}
<1>2. g.entry \in R /\ \A e \in g.edge : e[1] \in R /\ e[2] # a => e[2] \in R
  BY <1>1, AvoidingFacts, FlowGraphIsRooted
<1>3. g.entry \in X
  BY <1>2 DEF IsFlowGraph
<1>4. ASSUME NEW m \in X, NEW n \in g.node, IsParent(g, num, end, m, n) PROVE n \in X
  <2>1. <<m, n>> \in g.edge /\ Spans(num, end, m, n) /\ Spans(num, end, a, a)
    BY <1>4, SpansFacts DEF IsParent
  <2>2. CASE Spans(num, end, a, m)
    BY <2>1, <2>2, SpansFacts
  <2>3. CASE m \in R
    <3>1. n = a \/ n \in R
      <4> DEFINE e == <<m, n>>
      <4>1. e \in g.edge /\ e[1] \in R /\ e[2] = n
        BY <2>1, <2>3
      <4> HIDE DEF e, R
      <4> QED  BY <1>2, <4>1
    <3> QED  BY <2>1, <3>1
  <2> QED  BY <2>2, <2>3
<1>5. g.node \subseteq X
  <2> HIDE DEF X
  <2> QED  BY <1>3, <1>4, ByParents
<1> QED  BY <1>5 DEF Dominates

\* The edges to an ancestor.
UpEdges(g, num, end) == {e \in g.edge : Spans(num, end, e[2], e[1])}

\* Dropping edges leaves the rest of the graph.
LEMMA WithoutFacts ==
    ASSUME NEW g, IsFlowGraph(g), NEW E
    PROVE  LET d == [g EXCEPT !.edge = @ \ E]
           IN  d.node = g.node /\ d.edge = g.edge \ E /\ d.entry = g.entry
BY DEF IsFlowGraph

\* The order the search leaves the nodes in.
IsBelow(num, end, m, n) == end[m] < end[n] \/ (end[m] = end[n] /\ num[m] > num[n])

\* All other edges lead to a node that has been left before.
LEMMA OtherEdgesLeadDown ==
    ASSUME NEW g, IsFlowGraph(g), NEW num, NEW end, IsSearch(g, num, end),
           NEW e \in g.edge \ UpEdges(g, num, end)
    PROVE  IsBelow(num, end, e[2], e[1])
<1>1. e \in g.edge /\ e[1] \in g.node /\ e[2] \in g.node /\ ~Spans(num, end, e[2], e[1])
  BY DEF UpEdges, IsFlowGraph
<1>2. \A n \in g.node : num[n] \in Nat /\ end[n] \in Nat /\ num[n] <= end[n]
  BY DEF IsSearch
<1>3. num[e[2]] <= end[e[1]] /\ (Spans(num, end, e[1], e[2]) => end[e[2]] <= end[e[1]])
  BY <1>1 DEF IsSearch
<1>4. num[e[1]] < num[e[2]] \/ end[e[2]] < num[e[1]]
  BY <1>1, <1>2 DEF Spans
<1>5. CASE num[e[1]] < num[e[2]]
  <2>1. Spans(num, end, e[1], e[2])
    BY <1>1, <1>2, <1>3, <1>5 DEF Spans
  <2>2. end[e[2]] <= end[e[1]]
    BY <1>3, <2>1
  <2> QED  BY <1>1, <1>2, <1>5, <2>2 DEF IsBelow
<1>6. CASE end[e[2]] < num[e[1]]
  BY <1>1, <1>2, <1>6 DEF IsBelow
<1> QED  BY <1>4, <1>5, <1>6

\* A graph is acyclic if all edges lead down, by what the nodes stand for.
LEMMA AcyclicIfDown ==
    ASSUME NEW g, IsFiniteSet(g.node), g.edge \subseteq g.node \X g.node,
           NEW N, NEW num \in [N -> Nat], NEW end \in [N -> Nat], NEW rep \in [g.node -> N],
           \A e \in g.edge : IsBelow(num, end, rep[e[2]], rep[e[1]])
    PROVE  Acyclic(g)
<1> DEFINE Before(m, n) == IsBelow(num, end, rep[m], rep[n])
<1>1. \A m, n, k \in g.node : ~Before(n, n) /\ (Before(m, n) /\ Before(k, m) => Before(k, n))
  <2>1. \A n \in g.node : num[rep[n]] \in Nat /\ end[rep[n]] \in Nat
    OBVIOUS
  <2> QED  BY <2>1 DEF IsBelow
<1>2. \A e \in g.edge : e[1] \in g.node /\ e[2] \in g.node /\ Before(e[2], e[1])
  OBVIOUS
<1> HIDE DEF Before
<1>3. ASSUME NEW n \in g.node PROVE n \notin ReachedFrom(g, Succs(g, n), g.node)
  <2> DEFINE X == {m \in g.node : Before(m, n)}
  <2>1. Succs(g, n) \cap g.node \subseteq X
    BY <1>2 DEF Succs
  <2>2. GoesOn(g, X, g.node)
    BY <1>1, <1>2 DEF GoesOn
  <2>3. n \notin X
    BY <1>1
  <2> HIDE DEF X
  <2>4. ReachedFrom(g, Succs(g, n), g.node) \subseteq X
    BY <2>1, <2>2, ReachedFromFacts
  <2> QED  BY <2>3, <2>4
<1> QED  BY <1>3 DEF Acyclic

\* Without the edges to an ancestor the graph is acyclic.
LEMMA AcyclicWithoutUpEdges ==
    ASSUME NEW g, IsFlowGraph(g), NEW num, NEW end, IsSearch(g, num, end)
    PROVE  Acyclic([g EXCEPT !.edge = @ \ UpEdges(g, num, end)])
<1> DEFINE d == [g EXCEPT !.edge = @ \ UpEdges(g, num, end)]
           rep == [n \in g.node |-> n]
<1>1. d.node = g.node /\ d.edge = g.edge \ UpEdges(g, num, end)
  BY WithoutFacts
<1>2. IsFiniteSet(g.node) /\ g.edge \subseteq g.node \X g.node
  BY DEF IsFlowGraph
<1>3. num \in [g.node -> Nat] /\ end \in [g.node -> Nat]
  BY DEF IsSearch
<1>4. rep \in [g.node -> g.node] /\ \A n \in g.node : rep[n] = n
  OBVIOUS
<1> HIDE DEF d, rep
<1>5. \A e \in d.edge : IsBelow(num, end, rep[e[2]], rep[e[1]])
  BY <1>1, <1>2, <1>4, OtherEdgesLeadDown
<1>6. d.edge \subseteq d.node \X d.node
  BY <1>1, <1>2
<1>7. Acyclic(d)
  BY <1>1, <1>2, <1>3, <1>4, <1>5, <1>6, AcyclicIfDown
<1> QED  BY <1>7 DEF d

\* All back edges lead to an ancestor.
LEMMA BackEdgesLeadUp ==
    ASSUME NEW g, IsFlowGraph(g), NEW num, NEW end, IsSearch(g, num, end)
    PROVE  BackEdges(g) \subseteq UpEdges(g, num, end)
<1>1. \A e \in g.edge : e[1] \in g.node /\ e[2] \in g.node
  BY DEF IsFlowGraph
<1> QED  BY <1>1, DominatorsAreAncestors DEF BackEdges, UpEdges

\* If all edges to an ancestor are back edges the graph is reducible.
LEMMA ReducibleIfUpEdgesAreBackEdges ==
    ASSUME NEW g, IsFlowGraph(g), NEW num, NEW end, IsSearch(g, num, end),
           UpEdges(g, num, end) \subseteq BackEdges(g)
    PROVE  Reducible(g)
<1>1. UpEdges(g, num, end) = BackEdges(g)
  BY BackEdgesLeadUp
<1>2. Acyclic([g EXCEPT !.edge = @ \ UpEdges(g, num, end)])
  BY AcyclicWithoutUpEdges
<1> QED  BY <1>1, <1>2 DEF Reducible

\* In a reducible graph all edges to an ancestor are back edges: with the way the search
\* has gone down, such an edge closes a cycle.
LEMMA UpEdgesIfReducible ==
    ASSUME NEW g, IsFlowGraph(g), NEW num, NEW end, IsSearch(g, num, end), Reducible(g)
    PROVE  UpEdges(g, num, end) = BackEdges(g)
<1> DEFINE d == [g EXCEPT !.edge = @ \ BackEdges(g)]
<1>1. d.node = g.node /\ d.edge = g.edge \ BackEdges(g)
  BY WithoutFacts
<1>2. \A n \in g.node : n \notin ReachedFrom(d, Succs(d, n), d.node)
  BY <1>1 DEF Reducible, Acyclic
<1> HIDE DEF d
<1>3. \A e \in g.edge : e[1] \in g.node /\ e[2] \in g.node
  BY DEF IsFlowGraph
<1>4. SUFFICES ASSUME NEW e \in UpEdges(g, num, end), e \notin BackEdges(g) PROVE FALSE
  BY BackEdgesLeadUp
<1> DEFINE h == e[2]
           t == e[1]
           R == ReachedFrom(d, Succs(d, h), d.node)
<1>5. e \in d.edge /\ h \in g.node /\ t \in g.node /\ Spans(num, end, h, t) /\ h # t
  <2>1. e \in g.edge /\ Spans(num, end, h, t) /\ ~Dominates(g, h, t) /\ h \in g.node
    BY <1>3, <1>4 DEF UpEdges, BackEdges
  <2>2. Dominates(g, h, h)
    BY <2>1, DominatesSelf, FlowGraphIsRooted
  <2> QED  BY <1>1, <1>3, <1>4, <2>1, <2>2
<1>6. Succs(d, h) \cap g.node \subseteq R /\ GoesOn(d, R, g.node)
  <2>1. IsFiniteSet(d.node)
    BY <1>1 DEF IsFlowGraph
  <2> QED  BY <1>1, <2>1, ReachedFromFacts
<1> HIDE DEF R
<1> DEFINE X == {n \in g.node : Spans(num, end, h, n) /\ n # h => n \in R}
<1>7. ASSUME NEW m \in X, NEW n \in g.node, IsParent(g, num, end, m, n) PROVE n \in X
  <2>1. SUFFICES ASSUME Spans(num, end, h, n), n # h PROVE n \in R
    OBVIOUS
  <2> DEFINE c == <<m, n>>
  <2>2. c \in g.edge /\ Spans(num, end, h, m) /\ ~Spans(num, end, n, m)
    <3>1. \A i, j \in g.node : num[i] \in Nat /\ num[j] \in Nat
      BY DEF IsSearch
    <3>2. c \in g.edge /\ num[m] < num[n] /\ Spans(num, end, h, m)
      BY <1>5, <1>7, <2>1 DEF IsParent
    <3> QED  BY <3>1, <3>2 DEF Spans
  <2>3. c \notin BackEdges(g)
    BY <2>2, BackEdgesLeadUp DEF UpEdges
  <2>4. c \in d.edge /\ c[1] = m /\ c[2] = n
    BY <1>1, <2>2, <2>3
  <2> HIDE DEF c
  <2>5. CASE m = h
    <3>1. n \in Succs(d, h)
      BY <2>4, <2>5 DEF Succs
    <3> QED  BY <1>6, <3>1
  <2>6. CASE m # h
    <3>1. m \in R
      BY <2>2, <2>6
    <3> QED  BY <1>6, <2>4, <3>1 DEF GoesOn
  <2> QED  BY <2>5, <2>6
<1>8. g.node \subseteq X
  <2>1. g.entry \in X
    <3>1. g.entry \in g.node /\ Spans(num, end, g.entry, h)
      BY <1>5 DEF IsSearch, IsFlowGraph
    <3>2. Spans(num, end, h, g.entry) => h = g.entry
      BY <1>5, <3>1, SpansFacts
    <3> QED  BY <3>1, <3>2
  <2> HIDE DEF X
  <2> QED  BY <1>7, <2>1, ByParents
<1>9. t \in R
  BY <1>5, <1>8
<1>10. h \in R
  BY <1>5, <1>6, <1>9 DEF GoesOn
<1> QED  BY <1>2, <1>5, <1>10 DEF R

-----------------------------------------------------------------------------
(* Natural loops.                                                          *)

HeadsOf(g) == {e[2] : e \in BackEdges(g)}

TailsOf(g, h) == {e[1] : e \in {d \in BackEdges(g) : d[2] = h}}

LoopOf(g, h) == {h} \cup ReachedFrom(Transposed(g), TailsOf(g, h), g.node \ {h})

\* The natural loops are those of the heads.
LEMMA NaturalLoopsAreLoops ==
    ASSUME NEW g
    PROVE  NaturalLoops(g) =
               {[head |-> h, tails |-> TailsOf(g, h), nodes |-> LoopOf(g, h)] : h \in HeadsOf(g)}
BY DEF NaturalLoops, TailsOf, LoopOf, HeadsOf

\* A loop is the least set around its head and its tails that holds what leads to its other
\* nodes.
LEMMA LoopFacts ==
    ASSUME NEW g, IsFlowGraph(g), NEW h \in g.node
    PROVE  /\ h \in LoopOf(g, h) /\ TailsOf(g, h) \subseteq LoopOf(g, h)
           /\ LoopOf(g, h) \subseteq g.node
           /\ \A e \in g.edge : e[2] \in LoopOf(g, h) \ {h} => e[1] \in LoopOf(g, h)
           /\ \A X : /\ TailsOf(g, h) \ {h} \subseteq X
                     /\ \A e \in g.edge : e[2] \in X \ {h} /\ e[1] # h => e[1] \in X
                     => LoopOf(g, h) \ {h} \subseteq X
<1> DEFINE rev == Transposed(g)
           T   == g.node \ {h}
           R   == ReachedFrom(rev, TailsOf(g, h), T)
<1>1. rev.node = g.node /\ rev.edge = {<<e[2], e[1]>> : e \in g.edge}
  BY DEF Transposed, IsFlowGraph
<1>2. /\ IsFiniteSet(g.node) /\ T \in SUBSET rev.node /\ IsFiniteSet(rev.node)
      /\ g.edge \subseteq g.node \X g.node /\ TailsOf(g, h) \subseteq g.node
  BY <1>1 DEF IsFlowGraph, TailsOf, BackEdges
<1> HIDE DEF rev
<1>3. /\ TailsOf(g, h) \cap T \subseteq R /\ R \subseteq T /\ GoesOn(rev, R, T)
      /\ \A X : TailsOf(g, h) \cap T \subseteq X /\ GoesOn(rev, X, T) => R \subseteq X
  <2> HIDE DEF T
  <2> QED  BY <1>2, ReachedFromFacts
<1>4. \A X : GoesOn(rev, X, T) <=>
          \A e \in g.edge : e[2] \in X /\ e[1] # h => e[1] \in X
  <2>1. ASSUME NEW X, GoesOn(rev, X, T), NEW e \in g.edge, e[2] \in X, e[1] # h
        PROVE  e[1] \in X
    <3> DEFINE r == <<e[2], e[1]>>
    <3>1. r \in rev.edge /\ r[1] = e[2] /\ r[2] = e[1] /\ e[1] \in g.node
      BY <1>1, <1>2
    <3> HIDE DEF r
    <3> QED  BY <2>1, <3>1 DEF GoesOn
  <2>2. ASSUME NEW X, \A e \in g.edge : e[2] \in X /\ e[1] # h => e[1] \in X
        PROVE  GoesOn(rev, X, T)
    BY <1>1, <2>2 DEF GoesOn
  <2> QED  BY <2>1, <2>2
<1>5. LoopOf(g, h) = {h} \cup R
  BY DEF LoopOf, rev
<1> HIDE DEF R
<1>6. ASSUME NEW e \in g.edge, e[2] \in LoopOf(g, h) \ {h} PROVE e[1] \in LoopOf(g, h)
  BY <1>3, <1>4, <1>5, <1>6
<1>7. ASSUME NEW X, TailsOf(g, h) \ {h} \subseteq X,
             \A e \in g.edge : e[2] \in X \ {h} /\ e[1] # h => e[1] \in X
      PROVE  LoopOf(g, h) \ {h} \subseteq X
  <2> DEFINE Y == X \ {h}
  <2>1. \A e \in g.edge : e[2] \in Y /\ e[1] # h => e[1] \in Y
    BY <1>7
  <2>2. TailsOf(g, h) \cap T \subseteq Y
    BY <1>7
  <2> HIDE DEF Y
  <2>3. R \subseteq Y
    BY <1>3, <1>4, <2>1, <2>2
  <2> QED  BY <1>5, <2>3 DEF Y
<1> QED  BY <1>2, <1>3, <1>5, <1>6, <1>7

\* The head of a loop dominates all of it.
LEMMA HeadDominatesLoop ==
    ASSUME NEW g, IsFlowGraph(g), NEW h \in g.node, NEW n \in LoopOf(g, h)
    PROVE  Dominates(g, h, n)
<1> DEFINE X == {m \in g.node : Dominates(g, h, m)}
<1>1. TailsOf(g, h) \ {h} \subseteq X
  BY DEF TailsOf, BackEdges, IsFlowGraph
<1>2. \A e \in g.edge : e[2] \in X \ {h} /\ e[1] # h => e[1] \in X
  <2>1. \A e \in g.edge : e[1] \in g.node
    BY DEF IsFlowGraph
  <2> QED  BY <2>1, DominatesPreds, FlowGraphIsRooted
<1>3. LoopOf(g, h) \ {h} \subseteq X
  <2> HIDE DEF X
  <2> QED  BY <1>1, <1>2, LoopFacts
<1> QED  BY <1>3, DominatesSelf, FlowGraphIsRooted

\* Below the head of a loop, its nodes hang together.
LEMMA LoopHoldsAncestors ==
    ASSUME NEW g, IsFlowGraph(g), NEW num, NEW end, IsSearch(g, num, end),
           NEW h \in g.node, NEW n \in LoopOf(g, h) \ {h},
           NEW b \in g.node, Spans(num, end, b, n), num[h] < num[b]
    PROVE  b \in LoopOf(g, h) \ {h}
<1> DEFINE L == LoopOf(g, h)
           X == {m \in g.node : m \in L \ {h} /\ Spans(num, end, b, m) => b \in L \ {h}}
<1>0. \A m \in g.node : num[m] \in Nat
  BY DEF IsSearch
<1>1. g.entry \in X
  <2>1. g.entry \in g.node /\ Spans(num, end, g.entry, b)
    BY DEF IsFlowGraph, IsSearch
  <2>2. Spans(num, end, b, g.entry) => b = g.entry
    BY <2>1, SpansFacts
  <2> QED  BY <2>1, <2>2
<1>2. ASSUME NEW m \in X, NEW k \in g.node, IsParent(g, num, end, m, k) PROVE k \in X
  <2>1. SUFFICES ASSUME k \in L \ {h}, Spans(num, end, b, k), b # k PROVE b \in L \ {h}
    OBVIOUS
  <2>2. Spans(num, end, b, m) /\ m \in g.node
    BY <1>2, <2>1 DEF IsParent
  <2>3. m # h
    BY <1>0, <2>2 DEF Spans
  <2>4. m \in L
    <3> DEFINE e == <<m, k>>
    <3>1. e \in g.edge /\ e[1] = m /\ e[2] = k
      BY <1>2 DEF IsParent
    <3> HIDE DEF e
    <3> QED  BY <2>1, <3>1, LoopFacts
  <2> QED  BY <2>2, <2>3, <2>4
<1>3. g.node \subseteq X
  <2> HIDE DEF X
  <2> QED  BY <1>1, <1>2, ByParents
<1> QED  BY <1>3, LoopFacts

\* By the numbers, all nodes of a loop are descendants of its head.
LEMMA LoopWithinHead ==
    ASSUME NEW g, IsFlowGraph(g), NEW num, NEW end, IsSearch(g, num, end),
           NEW h \in g.node, NEW n \in LoopOf(g, h)
    PROVE  Spans(num, end, h, n) /\ n \in g.node
BY LoopFacts, HeadDominatesLoop, DominatorsAreAncestors

\* The loop of a node within another loop lies within it, without that loop's head.
LEMMA LoopsNest ==
    ASSUME NEW g, IsFlowGraph(g), NEW num, NEW end, IsSearch(g, num, end),
           NEW h \in g.node, NEW b \in LoopOf(g, h) \ {h}
    PROVE  LoopOf(g, b) \subseteq LoopOf(g, h) \ {h}
<1> DEFINE X == LoopOf(g, b) \cap (LoopOf(g, h) \ {h})
<1>0. b \in g.node
  BY LoopFacts
<1>1. h \notin LoopOf(g, b)
  <2>1. SUFFICES ASSUME h \in LoopOf(g, b) PROVE b = h
    OBVIOUS
  <2>2. Spans(num, end, b, h) /\ Spans(num, end, h, b)
    BY <1>0, <2>1, LoopWithinHead
  <2> QED  BY <1>0, <2>2, SpansFacts
<1>2. TailsOf(g, b) \ {b} \subseteq X
  <2>1. ASSUME NEW t \in TailsOf(g, b) PROVE t \in LoopOf(g, h)
    <3>1. PICK e \in g.edge : e[1] = t /\ e[2] = b
      BY DEF TailsOf, BackEdges
    <3> QED  BY <3>1, LoopFacts
  <2>2. TailsOf(g, b) \subseteq LoopOf(g, b)
    BY <1>0, LoopFacts
  <2> QED  BY <1>1, <2>1, <2>2
<1>3. ASSUME NEW e \in g.edge, e[2] \in X \ {b}, e[1] # b PROVE e[1] \in X
  <2>1. e[1] \in LoopOf(g, b) /\ e[1] \in LoopOf(g, h)
    BY <1>0, <1>3, LoopFacts
  <2> QED  BY <1>1, <2>1
<1>4. LoopOf(g, b) \ {b} \subseteq X
  <2> HIDE DEF X
  <2> QED  BY <1>0, <1>2, <1>3, LoopFacts
<1> QED  BY <1>4

\* If two loops share a node, the one whose head has the higher number lies within the
\* other.
LEMMA LoopsNestOrAreDisjoint ==
    ASSUME NEW g, IsFlowGraph(g), NEW num, NEW end, IsSearch(g, num, end),
           NEW h \in g.node, NEW b \in g.node, num[h] < num[b],
           NEW n \in LoopOf(g, h), n \in LoopOf(g, b)
    PROVE  b \in LoopOf(g, h) \ {h} /\ LoopOf(g, b) \subseteq LoopOf(g, h) \ {h}
<1>1. Spans(num, end, b, n) /\ n \in g.node
  BY LoopWithinHead
<1>2. \A m \in g.node : num[m] \in Nat
  BY DEF IsSearch
<1>3. n # h
  BY <1>1, <1>2 DEF Spans
<1>4. b \in LoopOf(g, h) \ {h}
  BY <1>1, <1>3, LoopHoldsAncestors
<1> QED  BY <1>4, LoopsNest

-----------------------------------------------------------------------------
(* Pruning.                                                                *)

\* In what pruning leaves of a flow graph, every node is reached.
LEMMA PrunedIsReached ==
    ASSUME NEW g, IsFlowGraph(g)
    PROVE  LET d == Subgraph(g, ReachableNodes(g))
           IN  IsFlowGraph(d) /\ d.entry = g.entry /\ ReachableNodes(d) = d.node
<1> DEFINE R == ReachableNodes(g)
           d == Subgraph(g, R)
<1>1. /\ g.entry \in R /\ R \subseteq g.node
      /\ \A e \in g.edge : e[1] \in R => e[2] \in R
      /\ \A X : g.entry \in X /\ (\A e \in g.edge : e[1] \in X => e[2] \in X) => R \subseteq X
  BY ReachableFacts, FlowGraphIsRooted
<1> HIDE DEF R
<1>2. /\ {"node", "edge", "entry"} \subseteq DOMAIN d
      /\ d.node = R /\ d.edge = g.edge \cap (R \X R) /\ d.entry = g.entry
  BY <1>1 DEF Subgraph, IsFlowGraph
<1> HIDE DEF d
<1>3. IsFlowGraph(d)
  <2>1. IsFiniteSet(R)
    BY <1>1, FS_Subset DEF IsFlowGraph
  <2> QED  BY <1>1, <1>2, <2>1 DEF IsFlowGraph
<1>4. ReachableNodes(d) = d.node
  <2> DEFINE Q == ReachableNodes(d)
  <2>1. /\ g.entry \in Q /\ Q \subseteq R
        /\ \A e \in d.edge : e[1] \in Q => e[2] \in Q
    BY <1>2, <1>3, ReachableFacts, FlowGraphIsRooted
  <2> HIDE DEF Q
  <2>2. ASSUME NEW e \in g.edge, e[1] \in Q PROVE e[2] \in Q
    <3>1. e \in R \X R
      <4>1. e = <<e[1], e[2]>>
        BY DEF IsFlowGraph
      <4> QED  BY <1>1, <2>1, <2>2, <4>1
    <3> QED  BY <1>2, <2>1, <2>2, <3>1
  <2>3. R \subseteq Q
    BY <1>1, <2>1, <2>2
  <2> QED  BY <1>2, <2>1, <2>3 DEF Q
<1> QED  BY <1>2, <1>3, <1>4 DEF d, R
=============================================================================
