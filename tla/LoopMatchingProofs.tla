-------------------------- MODULE LoopMatchingProofs --------------------------
(***************************************************************************)
(* LoopMatching takes care of each binary loop once, for any two loop      *)
(* trees, whatever debug information and annotations say; and where debug  *)
(* information is good it matches every loop with its own.                 *)
(***************************************************************************)
EXTENDS LoopMatching, FlowGraphTheorems

-----------------------------------------------------------------------------
(* Loop trees.                                                             *)

\* The assumption on PairsOfTrees, conjunct by conjunct.
LEMMA PairFacts ==
    ASSUME pair \in PairsOfTrees
    PROVE  /\ Root = 0 /\ NoLoop \notin Nat
           /\ IsFiniteSet(SrcLoops) /\ SrcLoops \subseteq Nat
           /\ IsFiniteSet(BinLoops) /\ BinLoops \subseteq Nat
           /\ \A s \in SrcLoops : pair.src.head[s] \in Nat \X Nat /\ pair.src.rest[s] \subseteq Nat
           /\ \A b \in BinLoops : pair.bin.head[b] \cup pair.bin.rest[b] \subseteq DOMAIN pair.line
BY PairsArePairs DEF IsPair, IsForest, SrcLoops, BinLoops

\* In both trees a loop has a greater number than the loop around it.
LEMMA TreeFacts ==
    ASSUME pair \in PairsOfTrees, NEW t \in {pair.src, pair.bin}
    PROVE  /\ Root = 0 /\ Root \notin DOMAIN t.parent
           /\ DOMAIN t.parent \subseteq Nat /\ IsFiniteSet(DOMAIN t.parent)
           /\ \A n \in DOMAIN t.parent : t.parent[n] \in DOMAIN t.parent \cup {Root} /\ t.parent[n] < n
           /\ \A n : Children(t, n) \subseteq DOMAIN t.parent
           /\ \A n \in DOMAIN t.parent \cup {Root} : \A c \in Children(t, n) : n < c
<1>1. Root = 0 /\ IsForest(t)
  BY PairsArePairs DEF IsPair
<1>2. /\ DOMAIN t.parent \subseteq Nat /\ IsFiniteSet(DOMAIN t.parent)
      /\ \A n \in DOMAIN t.parent : t.parent[n] \in DOMAIN t.parent \cup {Root} /\ t.parent[n] < n
  BY <1>1 DEF IsForest
<1>3. \A n : Children(t, n) \subseteq DOMAIN t.parent
  BY DEF Children
<1>4. \A n \in DOMAIN t.parent \cup {Root} : \A c \in Children(t, n) : n < c
  BY <1>2 DEF Children
<1>5. Root \notin DOMAIN t.parent
  <2>1. SUFFICES ASSUME Root \in DOMAIN t.parent PROVE FALSE
    OBVIOUS
  <2>2. t.parent[Root] \in Nat /\ t.parent[Root] < Root
    BY <1>1, <1>2, <2>1
  <2> QED  BY <1>1, <2>2
<1> QED  BY <1>1, <1>2, <1>3, <1>4, <1>5

\* Loops are ranked by how many numbers are left above them.
LEMMA RanksDown ==
    ASSUME NEW N \in SUBSET Nat, IsFiniteSet(N)
    PROVE  \E rank \in [N -> Nat] : \A n, m \in N : n < m => rank[m] < rank[n]
<1>1. PICK b \in Nat : \A n \in N : n <= b
  BY FiniteIsBounded
<1> DEFINE rank == [n \in N |-> b - n]
<1>2. rank \in [N -> Nat] /\ \A n, m \in N : n < m => rank[m] < rank[n]
  BY <1>1
<1> HIDE DEF rank
<1> QED  BY <1>2

\* A loop is one deeper than the loop around it.
LEMMA DepthFacts ==
    ASSUME pair \in PairsOfTrees, NEW t \in {pair.src, pair.bin}
    PROVE  /\ \A n \in DOMAIN t.parent \cup {Root} : Depth(t, n) \in Nat
           /\ \A n \in DOMAIN t.parent : Depth(t, n) = Depth(t, t.parent[n]) + 1
<1> DEFINE N == DOMAIN t.parent \cup {Root}
           E(f, m) == IF m = Root THEN 1 ELSE f[t.parent[m]] + 1
           step == [p \in N \X [N -> Nat] |-> E(p[2], p[1])]
           rank == [n \in N |-> n]
           Is(f) == f = [m \in N |-> E(f, m)]
           depth == CHOOSE f : Is(f)
<1>1. /\ N \subseteq Nat /\ Root \in N /\ Root \notin DOMAIN t.parent
      /\ \A n \in N : n # Root => t.parent[n] \in N /\ t.parent[n] < n
  BY TreeFacts
<1>2. \A n : Depth(t, n) = depth[n]
  BY DEF Depth
<1>3. IsRanked(N, Nat, rank, step)
  <2>1. rank \in [N -> Nat]
    BY <1>1
  <2>2. ASSUME NEW n \in N, NEW g \in [N -> Nat] PROVE E(g, n) \in Nat /\ step[<<n, g>>] = E(g, n)
    BY <1>1
  <2>3. step \in [N \X [N -> Nat] -> Nat]
    <3>1. ASSUME NEW p \in N \X [N -> Nat] PROVE E(p[2], p[1]) \in Nat
      BY <2>2
    <3> HIDE DEF E, N
    <3> QED  BY <3>1
  <2>4. ASSUME NEW n \in N, NEW g \in [N -> Nat], NEW h \in [N -> Nat],
               \A m \in N : rank[m] < rank[n] => g[m] = h[m]
        PROVE  E(g, n) = E(h, n)
    BY <1>1, <2>4
  <2> HIDE DEF N, E, rank, step
  <2>5. \A n \in N : \A g, h \in [N -> Nat] :
           (\A m \in N : rank[m] < rank[n] => g[m] = h[m]) => step[<<n, g>>] = step[<<n, h>>]
    <3>1. SUFFICES ASSUME NEW n \in N, NEW g \in [N -> Nat], NEW h \in [N -> Nat],
                          \A m \in N : rank[m] < rank[n] => g[m] = h[m]
                   PROVE  step[<<n, g>>] = step[<<n, h>>]
      OBVIOUS
    <3>2. step[<<n, g>>] = E(g, n) /\ step[<<n, h>>] = E(h, n)
      BY <2>2
    <3>3. E(g, n) = E(h, n)
      BY <3>1, <2>4
    <3> QED  BY <3>2, <3>3
  <2> QED  BY <2>1, <2>3, <2>5 DEF IsRanked
<1>4. PICK f : IsRankedRecursion(f, N, Nat, step)
  <2>1. Nat # {}
    OBVIOUS
  <2> HIDE DEF N, rank, step
  <2> QED  BY <1>3, <2>1, RankedRecursion
<1>5. Is(f)
  <2>1. f \in [N -> Nat] /\ \A n \in N : f[n] = step[<<n, f>>]
    <3> HIDE DEF N, step
    <3> QED  BY <1>4 DEF IsRankedRecursion
  <2>2. \A n \in N : f[n] = E(f, n)
    <3> HIDE DEF N, E
    <3> QED  BY <2>1
  <2> HIDE DEF E, N
  <2> QED  BY <2>1, <2>2
<1>6. Is(depth)
  <2> HIDE DEF Is
  <2> QED  BY <1>5
<1> HIDE DEF depth
<1>7. \A n \in N : depth[n] = E(depth, n)
  <2> HIDE DEF E, N
  <2> QED  BY <1>6
<1>8. \A n \in DOMAIN t.parent : depth[n] = depth[t.parent[n]] + 1
  BY <1>1, <1>7
<1>9. depth[Root] = 1
  BY <1>1, <1>7
<1> DEFINE S == {k \in Nat : \A n \in N : n <= k => depth[n] \in Nat}
<1>10. 0 \in S
  BY <1>1, <1>9, TreeFacts
<1>11. ASSUME NEW k \in S PROVE k + 1 \in S
  <2>1. SUFFICES ASSUME NEW n \in N, n <= k + 1, n # Root PROVE depth[n] \in Nat
    BY <1>9
  <2>2. t.parent[n] \in N /\ t.parent[n] < n /\ n \in Nat /\ k \in Nat /\ t.parent[n] \in Nat
    BY <1>1, <2>1
  <2>3. depth[t.parent[n]] \in Nat
    BY <2>1, <2>2
  <2> QED  BY <1>8, <2>1, <2>3
<1>12. S = Nat
  <2>1. S \in SUBSET Nat
    OBVIOUS
  <2> HIDE DEF S
  <2> QED  BY <1>10, <1>11, <2>1, NaturalsByInduction
<1>13. \A n \in N : depth[n] \in Nat
  BY <1>1, <1>12
<1> QED  BY <1>2, <1>8, <1>13

\* What a loop holds: itself and what the loops directly in it hold.
LEMMA WithinIs ==
    ASSUME pair \in PairsOfTrees, NEW s \in SrcLoops
    PROVE  /\ Within(s) = {s} \cup UNION {Within(c) : c \in Children(pair.src, s)}
           /\ Within(s) \in SUBSET SrcLoops
<1> DEFINE N == SrcLoops
           V == SUBSET N
           E(f, m) == {m} \cup UNION {f[c] : c \in Children(pair.src, m)}
           step == [p \in N \X [N -> V] |-> E(p[2], p[1])]
           Is(f) == f = [m \in N |-> E(f, m)]
           inside == CHOOSE f : Is(f)
<1>1. /\ N \in SUBSET Nat /\ IsFiniteSet(N)
      /\ \A n \in N : Children(pair.src, n) \subseteq N /\ \A c \in Children(pair.src, n) : n < c
  BY TreeFacts DEF SrcLoops
<1>2. \A n : Within(n) = inside[n]
  BY DEF Within
<1>3. PICK rank \in [N -> Nat] : \A n, m \in N : n < m => rank[m] < rank[n]
  BY <1>1, RanksDown
<1>4. IsRanked(N, V, rank, step)
  <2>1. ASSUME NEW n \in N, NEW g \in [N -> V] PROVE E(g, n) \in V /\ step[<<n, g>>] = E(g, n)
    BY <1>1
  <2>2. step \in [N \X [N -> V] -> V]
    <3>1. ASSUME NEW p \in N \X [N -> V] PROVE E(p[2], p[1]) \in V
      BY <2>1
    <3> HIDE DEF E, N, V
    <3> QED  BY <3>1
  <2>3. ASSUME NEW n \in N, NEW g \in [N -> V], NEW h \in [N -> V],
               \A m \in N : rank[m] < rank[n] => g[m] = h[m]
        PROVE  E(g, n) = E(h, n)
    <3>1. \A c \in Children(pair.src, n) : g[c] = h[c]
      BY <1>1, <1>3, <2>3
    <3> QED  BY <3>1
  <2> HIDE DEF N, V, E, step
  <2>5. \A n \in N : \A g, h \in [N -> V] :
           (\A m \in N : rank[m] < rank[n] => g[m] = h[m]) => step[<<n, g>>] = step[<<n, h>>]
    <3>1. SUFFICES ASSUME NEW n \in N, NEW g \in [N -> V], NEW h \in [N -> V],
                          \A m \in N : rank[m] < rank[n] => g[m] = h[m]
                   PROVE  step[<<n, g>>] = step[<<n, h>>]
      OBVIOUS
    <3>2. step[<<n, g>>] = E(g, n) /\ step[<<n, h>>] = E(h, n)
      BY <2>1
    <3>3. E(g, n) = E(h, n)
      BY <3>1, <2>3
    <3> QED  BY <3>2, <3>3
  <2> QED  BY <1>3, <2>2, <2>5 DEF IsRanked
<1>5. PICK f : IsRankedRecursion(f, N, V, step)
  <2>1. V # {}
    OBVIOUS
  <2> HIDE DEF N, V, step
  <2> QED  BY <1>4, <2>1, RankedRecursion
<1>6. Is(f)
  <2>1. f \in [N -> V] /\ \A n \in N : f[n] = step[<<n, f>>]
    <3> HIDE DEF N, V, step
    <3> QED  BY <1>5 DEF IsRankedRecursion
  <2>2. \A n \in N : f[n] = E(f, n)
    <3> HIDE DEF N, V, E
    <3> QED  BY <2>1
  <2> HIDE DEF E, N, V
  <2> QED  BY <2>1, <2>2
<1>7. Is(inside)
  <2> HIDE DEF Is
  <2> QED  BY <1>6
<1> HIDE DEF inside
<1>8. \A n \in N : inside[n] = E(inside, n)
  <2> HIDE DEF E, N
  <2> QED  BY <1>7
<1> DEFINE G == {n \in N : inside[n] \in SUBSET N}
<1>9. ASSUME NEW n \in N, \A m \in N : m > n => m \in G PROVE n \in G
  <2>1. \A c \in Children(pair.src, n) : c \in N /\ c > n
    BY <1>1
  <2>2. \A c \in Children(pair.src, n) : inside[c] \in SUBSET N
    BY <1>9, <2>1
  <2> QED  BY <1>8, <2>2
<1>10. G = N
  <2>1. G \in SUBSET N
    OBVIOUS
  <2> HIDE DEF G, N
  <2> QED  BY <1>1, <1>9, <2>1, InductionDown
<1>11. inside[s] = {s} \cup UNION {inside[c] : c \in Children(pair.src, s)}
  BY <1>8
<1> QED  BY <1>2, <1>10, <1>11

\* Loops hold those in them, in the loops directly in them, and so on.
LEMMA WithinFacts ==
    ASSUME pair \in PairsOfTrees
    PROVE  /\ \A s \in SrcLoops : s \in Within(s) /\ Within(s) \subseteq SrcLoops
           /\ \A s \in SrcLoops, c \in SrcLoops : c \in Children(pair.src, s) => Within(c) \subseteq Within(s)
           /\ \A s \in SrcLoops : \A t \in Within(s) : t # s =>
                 \E c \in Children(pair.src, s) : t \in Within(c)
           /\ \A s \in SrcLoops : \A t \in Within(s) : Within(t) \subseteq Within(s)
           /\ \A s \in SrcLoops : \A t \in Within(s) : t # s => t > s /\ pair.src.parent[t] \in Within(s)
<1>1. \A s \in SrcLoops : /\ Within(s) = {s} \cup UNION {Within(c) : c \in Children(pair.src, s)}
                          /\ Within(s) \in SUBSET SrcLoops
  BY WithinIs
<1>2. /\ SrcLoops \in SUBSET Nat /\ IsFiniteSet(SrcLoops)
      /\ \A n \in SrcLoops : \A c \in Children(pair.src, n) :
            c \in SrcLoops /\ n < c /\ pair.src.parent[c] = n
  BY TreeFacts DEF SrcLoops, Children
<1>3. \A s \in SrcLoops : \A t \in Within(s) : t # s => \E c \in Children(pair.src, s) : t \in Within(c)
  BY <1>1
<1>4. \A s \in SrcLoops, c \in SrcLoops : c \in Children(pair.src, s) => Within(c) \subseteq Within(s)
  BY <1>1
<1> DEFINE Good(s) == \A t \in Within(s) : /\ Within(t) \subseteq Within(s)
                                           /\ t # s => t > s /\ pair.src.parent[t] \in Within(s)
           G == {s \in SrcLoops : Good(s)}
<1>5. ASSUME NEW s \in SrcLoops, \A m \in SrcLoops : m > s => m \in G PROVE s \in G
  <2>1. SUFFICES ASSUME NEW t \in Within(s), t # s
                 PROVE  Within(t) \subseteq Within(s) /\ t > s /\ pair.src.parent[t] \in Within(s)
    BY <1>1
  <2>2. PICK c \in Children(pair.src, s) : t \in Within(c)
    BY <1>3, <2>1
  <2>3. c \in SrcLoops /\ c > s /\ pair.src.parent[c] = s /\ Within(c) \subseteq Within(s) /\ c \in G
    BY <1>2, <1>4, <1>5
  <2>4. t = c \/ t > c
    BY <2>2, <2>3
  <2>a. t \in SrcLoops
    BY <1>1, <2>1
  <2>5. t \in Nat /\ c \in Nat /\ s \in Nat /\ s \in Within(s)
    BY <1>1, <1>2, <2>3, <2>a
  <2>6. Within(t) \subseteq Within(s)
    BY <2>2, <2>3
  <2>7. pair.src.parent[t] \in Within(s)
    BY <2>2, <2>3, <2>5
  <2> QED  BY <2>3, <2>4, <2>5, <2>6, <2>7
<1>6. G = SrcLoops
  <2>1. G \in SUBSET SrcLoops
    OBVIOUS
  <2> HIDE DEF G
  <2> QED  BY <1>2, <1>5, <2>1, InductionDown
<1>7. \A s \in SrcLoops : Good(s)
  BY <1>6
<1> QED  BY <1>1, <1>3, <1>4, <1>7

\* A loop is deeper than the loops around it.
LEMMA DepthGrows ==
    ASSUME pair \in PairsOfTrees, pair.bin.parent = pair.src.parent
    PROVE  /\ BinLoops = SrcLoops
           /\ \A n : Children(pair.bin, n) = Children(pair.src, n)
           /\ \A b \in BinLoops : Depth(pair.bin, b) \in Nat
           /\ \A b \in BinLoops : \A c \in Children(pair.bin, b) : Depth(pair.bin, c) > Depth(pair.bin, b)
           /\ \A c \in BinLoops : \A b \in Within(c) : b # c => Depth(pair.bin, b) > Depth(pair.bin, c)
<1> DEFINE D(n) == Depth(pair.bin, n)
           up == pair.bin.parent
<1>1. BinLoops = SrcLoops /\ \A n : Children(pair.bin, n) = Children(pair.src, n)
  BY DEF BinLoops, SrcLoops, Children
<1>2. /\ \A n \in BinLoops \cup {Root} : D(n) \in Nat
      /\ \A n \in BinLoops : D(n) = D(up[n]) + 1
  BY DepthFacts DEF BinLoops
<1>3. /\ BinLoops \in SUBSET Nat /\ \A n \in BinLoops : up[n] \in BinLoops \cup {Root} /\ up[n] < n
      /\ \A n : \A c \in Children(pair.bin, n) : c \in BinLoops /\ up[c] = n
  BY TreeFacts DEF BinLoops, Children
<1> HIDE DEF D
<1>4. \A b \in BinLoops : \A c \in Children(pair.bin, b) : D(c) > D(b)
  <2>1. SUFFICES ASSUME NEW b \in BinLoops, NEW c \in Children(pair.bin, b) PROVE D(c) > D(b)
    OBVIOUS
  <2>2. c \in BinLoops /\ up[c] = b
    BY <1>3
  <2>3. D(c) = D(b) + 1 /\ D(b) \in Nat
    <3> HIDE DEF up
    <3> QED  BY <1>2, <2>2
  <2> QED  BY <2>3
<1> DEFINE Good(b) == \A c \in BinLoops : b \in Within(c) /\ b # c => D(b) > D(c)
           S == {k \in Nat : \A b \in BinLoops : b <= k => Good(b)}
<1>5. \A c \in BinLoops : \A b \in Within(c) :
          b \in BinLoops /\ (b # c => b > c /\ up[b] \in Within(c))
  BY <1>1, WithinFacts
<1>6. 0 \in S
  <2>1. ASSUME NEW b \in BinLoops, b <= 0 PROVE FALSE
    <3>1. up[b] \in Nat /\ up[b] < b /\ b \in Nat
      <4>1. Root \in Nat
        BY TreeFacts
      <4>2. up[b] \in BinLoops \cup {Root} /\ up[b] < b /\ b \in Nat
        BY <1>3, <2>1
      <4> HIDE DEF up
      <4> QED  BY <1>3, <4>1, <4>2
    <3> QED  BY <2>1, <3>1
  <2> QED  BY <2>1
<1>7. ASSUME NEW k \in S PROVE k + 1 \in S
  <2>1. SUFFICES ASSUME NEW b \in BinLoops, b <= k + 1, NEW c \in BinLoops, b \in Within(c), b # c
                 PROVE  D(b) > D(c)
    OBVIOUS
  <2>2. up[b] \in Within(c) /\ up[b] \in BinLoops /\ up[b] < b
    BY <1>3, <1>5, <2>1
  <2>3. k \in Nat /\ b \in Nat /\ up[b] \in Nat
    BY <1>3, <2>1, <2>2
  <2>4. Good(up[b])
    BY <2>1, <2>2, <2>3
  <2>5. D(b) = D(up[b]) + 1 /\ D(up[b]) \in Nat /\ D(c) \in Nat
    BY <1>2, <2>1, <2>2
  <2>6. up[b] = c \/ D(up[b]) > D(c)
    BY <2>1, <2>2, <2>4
  <2> QED  BY <2>5, <2>6
<1>8. S = Nat
  <2>1. S \in SUBSET Nat
    OBVIOUS
  <2> HIDE DEF S
  <2> QED  BY <1>6, <1>7, <2>1, NaturalsByInduction
<1>9. \A b \in BinLoops : Good(b)
  BY <1>3, <1>8
<1>10. \A c \in BinLoops : \A b \in Within(c) : b # c => D(b) > D(c)
  BY <1>5, <1>9
<1> HIDE DEF up
<1> QED  BY <1>1, <1>2, <1>4, <1>10 DEF D

-----------------------------------------------------------------------------
(* The lines of the source loops.                                          *)

\* Two things are finitely many.
LEMMA FinitePair ==
    ASSUME NEW a, NEW b
    PROVE  IsFiniteSet({a, b})
<1>1. {a, b} = {a} \cup {b}
  OBVIOUS
<1>2. IsFiniteSet({a})
  BY FS_Singleton
<1>3. IsFiniteSet({a} \cup {b})
  BY <1>2, FS_AddElement
<1> QED  BY <1>1, <1>3

\* The least number from a to b is a.
LEMMA MinOfInterval ==
    ASSUME NEW a \in Nat, NEW b \in Nat, a <= b
    PROVE  Min(a .. b) = a
<1> DEFINE S == a .. b
<1>1. S \in SUBSET Nat /\ a \in S /\ \A x \in S : a <= x
  OBVIOUS
<1> HIDE DEF S
<1>2. Min(S) \in S /\ \A x \in S : Min(S) <= x
  BY <1>1, MinOfNaturals
<1>3. Min(S) \in Nat /\ Min(S) <= a /\ a <= Min(S)
  BY <1>1, <1>2
<1>4. Min(S) = a
  <2> DEFINE m == Min(S)
  <2>1. m \in Nat /\ m <= a /\ a <= m
    BY <1>3
  <2> HIDE DEF m
  <2>2. m = a
    BY <2>1
  <2> QED  BY <2>2 DEF m
<1> QED  BY <1>4 DEF S

\* Lines are numbers, and of a loop there are finitely many and at least one.
LEMMA LinesOfFacts ==
    ASSUME pair \in PairsOfTrees, NEW s \in SrcLoops
    PROVE  /\ LinesOf(s) \in SUBSET Nat /\ IsFiniteSet(LinesOf(s)) /\ LinesOf(s) # {}
           /\ Range(pair.src.head[s]) = {pair.src.head[s][1], pair.src.head[s][2]}
           /\ pair.src.head[s][1] \in Nat /\ pair.src.head[s][2] \in Nat
           /\ pair.src.head[s][1] <= pair.src.head[s][2]
           /\ pair.src.rest[s] \in SUBSET Nat /\ IsFiniteSet(pair.src.rest[s])
<1>1. ASSUME NEW h \in Nat \X Nat
      PROVE  Range(h) = {h[1], h[2]} /\ h[1] \in Nat /\ h[2] \in Nat
  BY DEF Range
<1>2. \A c \in SrcLoops : /\ pair.src.head[c] \in Nat \X Nat /\ pair.src.head[c][1] <= pair.src.head[c][2]
                          /\ pair.src.rest[c] \in SUBSET Nat /\ IsFiniteSet(pair.src.rest[c])
  BY PairsArePairs DEF IsPair, SrcLoops
<1>3. \A c \in SrcLoops : /\ Range(pair.src.head[c]) \in SUBSET Nat
                          /\ IsFiniteSet(Range(pair.src.head[c]))
  <2>1. SUFFICES ASSUME NEW c \in SrcLoops
                 PROVE  /\ Range(pair.src.head[c]) \in SUBSET Nat
                        /\ IsFiniteSet(Range(pair.src.head[c]))
    OBVIOUS
  <2> DEFINE h == pair.src.head[c]
  <2>2. h \in Nat \X Nat
    BY <1>2
  <2> HIDE DEF h
  <2>3. Range(h) = {h[1], h[2]} /\ h[1] \in Nat /\ h[2] \in Nat
    BY <1>1, <2>2
  <2>4. IsFiniteSet({h[1], h[2]})
    BY FinitePair
  <2>5. IsFiniteSet(Range(h)) /\ Range(h) \in SUBSET Nat
    BY <2>3, <2>4
  <2> QED  BY <2>5 DEF h
<1> DEFINE C == Children(pair.src, s)
           U == UNION {Range(pair.src.head[c]) : c \in C}
<1>4. C \subseteq SrcLoops /\ IsFiniteSet(C)
  <2>1. C \subseteq SrcLoops /\ IsFiniteSet(SrcLoops)
    BY TreeFacts DEF SrcLoops
  <2> QED  BY <2>1, FS_Subset
<1>5. U \in SUBSET Nat /\ IsFiniteSet(U)
  <2> DEFINE H == {Range(pair.src.head[c]) : c \in C}
  <2>1. IsFiniteSet(H)
    <3> DEFINE f == [c \in C |-> Range(pair.src.head[c])]
    <3>1. H = {f[c] : c \in C}
      OBVIOUS
    <3> HIDE DEF C, f, H
    <3> QED  BY <1>4, <3>1, FiniteImage
  <2>2. \A T \in H : IsFiniteSet(T) /\ T \in SUBSET Nat
    BY <1>3, <1>4
  <2> HIDE DEF H
  <2>3. IsFiniteSet(UNION H) /\ UNION H \in SUBSET Nat
    BY <2>1, <2>2, FS_UNION
  <2> QED  BY <2>3 DEF H
<1>6. LinesOf(s) = ({pair.src.head[s][1]} \cup pair.src.rest[s]) \cup U
  BY DEF LinesOf
<1>7. IsFiniteSet({pair.src.head[s][1]} \cup pair.src.rest[s])
  BY <1>2, FS_Singleton, FS_Union
<1> HIDE DEF U
<1>8. IsFiniteSet(LinesOf(s))
  BY <1>5, <1>6, <1>7, FS_Union
<1> QED  BY <1>1, <1>2, <1>5, <1>6, <1>8

\* The first line of a source loop is the least of its own.
LEMMA LineMinIs ==
    ASSUME pair \in PairsOfTrees, NEW s \in SrcLoops
    PROVE  LineMin(s) \in Nat /\ LineMin(s) \in LinesOf(s) /\ \A x \in LinesOf(s) : LineMin(s) <= x
<1>1. LinesOf(s) \in SUBSET Nat /\ LinesOf(s) # {}
  BY LinesOfFacts
<1> QED  BY <1>1, MinOfNaturals DEF LineMin

\* The last line of a loop is the last of its own or of a loop directly in it.
LEMMA LineMaxIs ==
    ASSUME pair \in PairsOfTrees, NEW s \in SrcLoops
    PROVE  /\ LineMax(s) \in Nat
           /\ LineMax(s) \in LinesOf(s) \cup {LineMax(c) : c \in Children(pair.src, s)}
           /\ \A x \in LinesOf(s) : x <= LineMax(s)
           /\ \A c \in Children(pair.src, s) : LineMax(c) <= LineMax(s)
<1> DEFINE N == SrcLoops
           A(f, m) == LinesOf(m) \cup {f[c] : c \in Children(pair.src, m)}
           E(f, m) == Max(A(f, m))
           step == [p \in N \X [N -> Nat] |-> E(p[2], p[1])]
           Is(f) == f = [m \in N |-> E(f, m)]
           end == CHOOSE f : Is(f)
<1>1. /\ N \in SUBSET Nat /\ IsFiniteSet(N)
      /\ \A n \in N : Children(pair.src, n) \subseteq N /\ \A c \in Children(pair.src, n) : n < c
  BY TreeFacts DEF SrcLoops
<1>2. \A n : LineMax(n) = end[n]
  BY DEF LineMax
<1>3. PICK rank \in [N -> Nat] : \A n, m \in N : n < m => rank[m] < rank[n]
  BY <1>1, RanksDown
<1>a. ASSUME NEW n \in N, NEW g \in [N -> Nat]
      PROVE  /\ E(g, n) \in Nat /\ E(g, n) \in A(g, n) /\ \A x \in A(g, n) : x <= E(g, n)
  <2> DEFINE C == Children(pair.src, n)
  <2>1. LinesOf(n) \in SUBSET Nat /\ IsFiniteSet(LinesOf(n)) /\ LinesOf(n) # {}
    BY LinesOfFacts
  <2>2. C \in SUBSET N /\ IsFiniteSet(C)
    BY <1>1, FS_Subset
  <2> HIDE DEF C
  <2>3. IsFiniteSet({g[c] : c \in C}) /\ {g[c] : c \in C} \in SUBSET Nat
    <3>1. {g[c] : c \in C} \in SUBSET Nat
      BY <2>2
    <3> QED  BY <2>2, <3>1, FiniteImage
  <2>4. A(g, n) \in SUBSET Nat /\ IsFiniteSet(A(g, n)) /\ A(g, n) # {}
    BY <2>1, <2>3, FS_Union DEF C
  <2> HIDE DEF A, N
  <2> QED  BY <2>4, MaxOfFinite
<1>4. IsRanked(N, Nat, rank, step)
  <2>1. ASSUME NEW n \in N, NEW g \in [N -> Nat] PROVE E(g, n) \in Nat /\ step[<<n, g>>] = E(g, n)
    BY <1>a
  <2>2. step \in [N \X [N -> Nat] -> Nat]
    <3>1. ASSUME NEW p \in N \X [N -> Nat] PROVE E(p[2], p[1]) \in Nat
      BY <2>1
    <3> HIDE DEF E, N
    <3> QED  BY <3>1
  <2>3. ASSUME NEW n \in N, NEW g \in [N -> Nat], NEW h \in [N -> Nat],
               \A m \in N : rank[m] < rank[n] => g[m] = h[m]
        PROVE  E(g, n) = E(h, n)
    <3>1. \A c \in Children(pair.src, n) : g[c] = h[c]
      BY <1>1, <1>3, <2>3
    <3>2. {g[c] : c \in Children(pair.src, n)} = {h[c] : c \in Children(pair.src, n)}
      BY <3>1
    <3> QED  BY <3>2
  <2> HIDE DEF N, E, step
  <2>5. \A n \in N : \A g, h \in [N -> Nat] :
           (\A m \in N : rank[m] < rank[n] => g[m] = h[m]) => step[<<n, g>>] = step[<<n, h>>]
    <3>1. SUFFICES ASSUME NEW n \in N, NEW g \in [N -> Nat], NEW h \in [N -> Nat],
                          \A m \in N : rank[m] < rank[n] => g[m] = h[m]
                   PROVE  step[<<n, g>>] = step[<<n, h>>]
      OBVIOUS
    <3>2. step[<<n, g>>] = E(g, n) /\ step[<<n, h>>] = E(h, n)
      BY <2>1
    <3>3. E(g, n) = E(h, n)
      BY <3>1, <2>3
    <3> QED  BY <3>2, <3>3
  <2> QED  BY <1>3, <2>2, <2>5 DEF IsRanked
<1>5. PICK f : IsRankedRecursion(f, N, Nat, step)
  <2>1. Nat # {}
    OBVIOUS
  <2> HIDE DEF N, step
  <2> QED  BY <1>4, <2>1, RankedRecursion
<1>6. Is(f)
  <2>1. f \in [N -> Nat] /\ \A n \in N : f[n] = step[<<n, f>>]
    <3> HIDE DEF N, step
    <3> QED  BY <1>5 DEF IsRankedRecursion
  <2>2. \A n \in N : f[n] = E(f, n)
    <3> HIDE DEF N, E
    <3> QED  BY <2>1
  <2> HIDE DEF E, N
  <2> QED  BY <2>1, <2>2
<1>7. Is(end)
  <2> HIDE DEF Is
  <2> QED  BY <1>6
<1> HIDE DEF end
<1>8. \A n \in N : end[n] = E(end, n)
  <2> HIDE DEF E, N
  <2> QED  BY <1>7
<1> DEFINE G == {n \in N : end[n] \in Nat}
<1>9. ASSUME NEW n \in N, \A m \in N : m > n => m \in G PROVE n \in G
  <2> DEFINE g == [m \in N |-> IF end[m] \in Nat THEN end[m] ELSE 0]
  <2>1. \A c \in Children(pair.src, n) : g[c] = end[c]
    BY <1>1, <1>9
  <2>2. {g[c] : c \in Children(pair.src, n)} = {end[c] : c \in Children(pair.src, n)}
    BY <2>1
  <2>3. E(g, n) = E(end, n)
    BY <2>2
  <2>4. g \in [N -> Nat]
    OBVIOUS
  <2>5. E(g, n) \in Nat
    <3> HIDE DEF E, g, N
    <3> QED  BY <1>a, <2>4
  <2> HIDE DEF E, g
  <2> QED  BY <1>8, <2>3, <2>5
<1>10. G = N
  <2>1. G \in SUBSET N
    OBVIOUS
  <2> HIDE DEF G, N
  <2> QED  BY <1>1, <1>9, <2>1, InductionDown
<1>11. end \in [N -> Nat]
  <2>1. end = [n \in N |-> end[n]]
    <3> HIDE DEF E
    <3> QED  BY <1>7
  <2> HIDE DEF N
  <2> QED  BY <1>10, <2>1
<1>12. end[s] \in Nat /\ end[s] \in A(end, s) /\ \A x \in A(end, s) : x <= end[s]
  <2> HIDE DEF E, A
  <2> QED  BY <1>a, <1>8, <1>11
<1> QED  BY <1>2, <1>12

\* The lines of a loop and of all that it holds.
Spread(s) == UNION {Range(pair.src.head[n]) \cup pair.src.rest[n] : n \in Within(s)}

\* They are its own lines and those of the loops directly in it.
LEMMA SpreadFacts ==
    ASSUME pair \in PairsOfTrees, NEW s \in SrcLoops
    PROVE  /\ Spread(s) \in SUBSET Nat /\ IsFiniteSet(Spread(s)) /\ Spread(s) # {}
           /\ LinesOf(s) \subseteq Spread(s)
           /\ pair.src.head[s][1] \in Spread(s) /\ pair.src.head[s][2] \in Spread(s)
           /\ \A n \in Within(s) : Spread(n) \subseteq Spread(s)
           /\ \A x \in Spread(s) : \/ x \in {pair.src.head[s][1], pair.src.head[s][2]} \cup pair.src.rest[s]
                                   \/ \E c \in Children(pair.src, s) : x \in Spread(c)
<1> DEFINE W == Within(s)
           Own(n) == Range(pair.src.head[n]) \cup pair.src.rest[n]
<1>1. /\ s \in W /\ W \subseteq SrcLoops
      /\ \A n \in W : Within(n) \subseteq W
      /\ \A n \in W : n # s => \E c \in Children(pair.src, s) : n \in Within(c)
      /\ IsFiniteSet(W)
  <2>1. IsFiniteSet(SrcLoops) /\ s \in W /\ W \in SUBSET SrcLoops
    BY PairFacts, WithinFacts
  <2>2. IsFiniteSet(W)
    BY <2>1, FS_Subset
  <2> QED  BY <2>1, <2>2, WithinFacts
<1>2. \A n \in SrcLoops : Own(n) \in SUBSET Nat /\ IsFiniteSet(Own(n)) /\ Range(pair.src.head[n]) = {pair.src.head[n][1], pair.src.head[n][2]}
  <2>1. SUFFICES ASSUME NEW n \in SrcLoops
                 PROVE  Own(n) \in SUBSET Nat /\ IsFiniteSet(Own(n))
                        /\ Range(pair.src.head[n]) = {pair.src.head[n][1], pair.src.head[n][2]}
    OBVIOUS
  <2> DEFINE R == Range(pair.src.head[n])
             Q == pair.src.rest[n]
  <2>2. R = {pair.src.head[n][1], pair.src.head[n][2]} /\ R \in SUBSET Nat /\ Q \in SUBSET Nat /\ IsFiniteSet(Q)
    BY LinesOfFacts
  <2>3. IsFiniteSet(R)
    <3>1. IsFiniteSet({pair.src.head[n][1], pair.src.head[n][2]})
      BY FinitePair
    <3> HIDE DEF R
    <3> QED  BY <2>2, <3>1
  <2> HIDE DEF R, Q
  <2>4. IsFiniteSet(R \cup Q)
    BY <2>2, <2>3, FS_Union
  <2> QED  BY <2>2, <2>4 DEF R, Q
<1>3. \A n, x : x \in Spread(n) <=> \E m \in Within(n) : x \in Own(m)
  BY DEF Spread
<1>4. IsFiniteSet(Spread(s))
  <2> DEFINE f == [n \in W |-> Own(n)]
             H == {f[n] : n \in W}
  <2>1. \A T \in H : IsFiniteSet(T)
    <3>1. \A n \in W : f[n] = Own(n) /\ IsFiniteSet(Own(n))
      BY <1>1, <1>2
    <3> HIDE DEF f, Own, W
    <3> QED  BY <3>1
  <2>2. Spread(s) = UNION H
    BY DEF Spread
  <2> HIDE DEF f, W
  <2>3. IsFiniteSet(H)
    BY <1>1, FiniteImage
  <2> HIDE DEF H
  <2> QED  BY <2>1, <2>2, <2>3, FS_UNION
<1>5. Spread(s) \in SUBSET Nat
  <2> HIDE DEF Own
  <2> QED  BY <1>1, <1>2, <1>3
<1>6. Own(s) \subseteq Spread(s)
  <2> HIDE DEF Own
  <2> QED  BY <1>1, <1>3
<1>7. pair.src.head[s][1] \in Spread(s) /\ pair.src.head[s][2] \in Spread(s) /\ pair.src.rest[s] \subseteq Spread(s)
  BY <1>2, <1>6
<1>8. \A n \in Within(s) : Spread(n) \subseteq Spread(s)
  <2> HIDE DEF Own
  <2> QED  BY <1>1, <1>3
<1>9. \A c \in Children(pair.src, s) : c \in Within(s) /\ c \in SrcLoops
  <2>1. \A c \in Children(pair.src, s) : c \in SrcLoops /\ c \in Within(c)
    BY WithinFacts DEF Children, SrcLoops
  <2> QED  BY <2>1, WithinFacts
<1>10. \A c \in Children(pair.src, s) : Range(pair.src.head[c]) \subseteq Spread(s)
  <2>1. SUFFICES ASSUME NEW c \in Children(pair.src, s) PROVE Own(c) \subseteq Spread(s)
    OBVIOUS
  <2> HIDE DEF Own
  <2> QED  BY <1>3, <1>9
<1>11. LinesOf(s) \subseteq Spread(s)
  BY <1>7, <1>10 DEF LinesOf
<1>12. \A x \in Spread(s) : \/ x \in Own(s)
                            \/ \E c \in Children(pair.src, s) : x \in Spread(c)
  <2> HIDE DEF Own
  <2> QED  BY <1>1, <1>3
<1>13. Own(s) = {pair.src.head[s][1], pair.src.head[s][2]} \cup pair.src.rest[s]
  BY <1>2
<1> HIDE DEF Own
<1> QED  BY <1>4, <1>5, <1>7, <1>8, <1>11, <1>12, <1>13

\* What get_loop_min_max computes of a well formatted function.
IsLaidOut ==
    /\ \A s \in SrcLoops :
        /\ LineMin(s) \in Nat /\ LineMax(s) \in Nat /\ LineMin(s) <= LineMax(s)
        /\ Extent(s) = LineMin(s) .. LineMax(s)
        /\ pair.src.head[s][1] = LineMin(s) /\ pair.src.head[s][2] = LineMin(s)
        /\ \A t \in Within(s) : t # s => LineMin(s) < LineMin(t) /\ LineMax(t) <= LineMax(s)
    /\ \A s, t \in SrcLoops :
          s \in Within(t) \/ t \in Within(s) \/ Extent(s) \cap Extent(t) = {}

\* The first line of a loop is that of its header, the last is that of its extent.
LEMMA LaidOut ==
    ASSUME pair \in PairsOfTrees, WellFormatted
    PROVE  IsLaidOut
<1> DEFINE lo(s) == Min(Spread(s))
           hi(s) == Max(Spread(s))
<1>1. ASSUME NEW s \in SrcLoops
      PROVE  /\ lo(s) \in Spread(s) /\ hi(s) \in Spread(s) /\ lo(s) \in Nat /\ hi(s) \in Nat
             /\ \A x \in Spread(s) : x \in Nat /\ lo(s) <= x /\ x <= hi(s)
             /\ Extent(s) = lo(s) .. hi(s) /\ Min(Extent(s)) = lo(s) /\ lo(s) <= hi(s)
  <2>1. Spread(s) \in SUBSET Nat /\ IsFiniteSet(Spread(s)) /\ Spread(s) # {}
    BY SpreadFacts
  <2>2. lo(s) \in Spread(s) /\ \A x \in Spread(s) : lo(s) <= x
    BY <2>1, MinOfNaturals
  <2>3. hi(s) \in Spread(s) /\ \A x \in Spread(s) : x <= hi(s)
    BY <2>1, MaxOfFinite
  <2>4. Extent(s) = lo(s) .. hi(s)
    BY DEF Extent, Spread
  <2> HIDE DEF lo, hi
  <2>5. lo(s) \in Nat /\ hi(s) \in Nat /\ lo(s) <= hi(s)
    BY <2>1, <2>2, <2>3
  <2>6. Min(Extent(s)) = lo(s)
    BY <2>4, <2>5, MinOfInterval
  <2> QED  BY <2>1, <2>2, <2>3, <2>4, <2>5, <2>6
<1> HIDE DEF lo, hi
<1>2. ASSUME NEW s \in SrcLoops
      PROVE  pair.src.head[s][1] = lo(s) /\ pair.src.head[s][2] = lo(s) /\ LineMin(s) = lo(s)
  <2>1. pair.src.head[s][2] = lo(s)
    BY <1>1 DEF WellFormatted
  <2>2. /\ pair.src.head[s][1] \in Nat /\ pair.src.head[s][1] <= pair.src.head[s][2]
        /\ pair.src.head[s][1] \in Spread(s) /\ LinesOf(s) \subseteq Spread(s)
    BY LinesOfFacts, SpreadFacts
  <2>3. lo(s) <= pair.src.head[s][1] /\ lo(s) \in Nat
    BY <1>1, <2>2
  <2>4. pair.src.head[s][1] = lo(s)
    BY <2>1, <2>2, <2>3
  <2>5. pair.src.head[s][1] \in LinesOf(s)
    BY DEF LinesOf
  <2>6. LineMin(s) \in Nat /\ LineMin(s) \in LinesOf(s) /\ LineMin(s) <= pair.src.head[s][1]
    BY <2>5, LineMinIs
  <2>7. lo(s) <= LineMin(s)
    BY <1>1, <2>2, <2>6
  <2> QED  BY <2>1, <2>3, <2>4, <2>6, <2>7
<1>3. \A s \in SrcLoops : LineMax(s) = hi(s)
  <2> DEFINE G == {s \in SrcLoops : LineMax(s) = hi(s)}
  <2>1. ASSUME NEW s \in SrcLoops, \A m \in SrcLoops : m > s => m \in G PROVE s \in G
    <3>1. /\ LineMax(s) \in Nat
          /\ LineMax(s) \in LinesOf(s) \cup {LineMax(c) : c \in Children(pair.src, s)}
          /\ \A x \in LinesOf(s) : x <= LineMax(s)
          /\ \A c \in Children(pair.src, s) : LineMax(c) <= LineMax(s)
      BY LineMaxIs
    <3>2. \A c \in Children(pair.src, s) : c \in SrcLoops /\ c > s
      BY TreeFacts DEF SrcLoops
    <3>3. \A c \in Children(pair.src, s) : c \in SrcLoops /\ LineMax(c) = hi(c) /\ c \in Within(s)
      <4>1. \A c \in Children(pair.src, s) : c \in SrcLoops /\ c \in Within(s)
        BY <3>2, WithinFacts
      <4> QED  BY <2>1, <3>2, <4>1
    <3>4. LineMax(s) \in Spread(s)
      <4>1. LinesOf(s) \subseteq Spread(s)
        BY SpreadFacts
      <4>2. \A c \in Children(pair.src, s) : hi(c) \in Spread(c) /\ Spread(c) \subseteq Spread(s)
        BY <1>1, <3>3, SpreadFacts
      <4> QED  BY <3>1, <3>3, <4>1, <4>2
    <3>5. \A x \in Spread(s) : x <= LineMax(s)
      <4>1. SUFFICES ASSUME NEW x \in Spread(s) PROVE x <= LineMax(s)
        OBVIOUS
      <4>2. CASE x \in {pair.src.head[s][1], pair.src.head[s][2]} \cup pair.src.rest[s]
        <5>1. pair.src.head[s][1] = pair.src.head[s][2]
          BY <1>2
        <5>2. x \in LinesOf(s)
          BY <4>2, <5>1 DEF LinesOf
        <5> QED  BY <3>1, <5>2
      <4>3. ASSUME NEW c \in Children(pair.src, s), x \in Spread(c) PROVE x <= LineMax(s)
        <5>1. x \in Nat /\ x <= hi(c) /\ hi(c) \in Nat
          BY <1>1, <3>3, <4>3
        <5>2. hi(c) <= LineMax(s)
          BY <3>1, <3>3
        <5> QED  BY <3>1, <5>1, <5>2
      <4> QED  BY <4>2, <4>3, SpreadFacts
    <3>6. LineMax(s) <= hi(s) /\ hi(s) <= LineMax(s) /\ hi(s) \in Nat
      BY <1>1, <3>4, <3>5
    <3> QED  BY <3>1, <3>6
  <2>2. G = SrcLoops
    <3>1. G \in SUBSET SrcLoops /\ SrcLoops \in SUBSET Nat /\ IsFiniteSet(SrcLoops)
      BY PairFacts
    <3> HIDE DEF G
    <3> QED  BY <2>1, <3>1, InductionDown
  <2> QED  BY <2>2
<1>4. ASSUME NEW s \in SrcLoops, NEW t \in Within(s), t # s
      PROVE  LineMin(s) < LineMin(t) /\ LineMax(t) <= LineMax(s)
  <2>1. t \in SrcLoops /\ s \notin Within(t)
    <3>1. t \in SrcLoops /\ t > s /\ s \in Nat /\ t \in Nat
      BY <1>4, WithinFacts, PairFacts
    <3>2. ~(s > t)
      BY <3>1
    <3> QED  BY <1>4, <3>1, <3>2, WithinFacts
  <2>2. Spread(t) \subseteq Spread(s)
    BY SpreadFacts
  <2>3. hi(t) \in Spread(s) /\ hi(t) <= hi(s) /\ lo(t) \in Nat /\ hi(t) \in Nat /\ lo(t) <= hi(t) /\ hi(s) \in Nat /\ lo(s) \in Nat
        /\ lo(s) <= hi(t)
    BY <1>1, <2>1, <2>2
  <2>4. hi(t) \in Extent(s) /\ hi(t) \in Extent(t)
    BY <1>1, <2>1, <2>3
  <2>5. Min(Extent(s)) < Min(Extent(t))
    BY <1>4, <2>1, <2>4 DEF WellFormatted
  <2> QED  BY <1>1, <1>2, <1>3, <2>1, <2>3, <2>5
<1>5. \A s, t \in SrcLoops :
          s \in Within(t) \/ t \in Within(s) \/ Extent(s) \cap Extent(t) = {}
  <2>1. \A s \in SrcLoops : s \in Within(s)
    BY WithinFacts
  <2> QED  BY <2>1 DEF WellFormatted
<1> QED  BY <1>1, <1>2, <1>3, <1>4, <1>5 DEF IsLaidOut

\* No source loop with a loop in it is on one line.
LEMMA NotOnOneLine ==
    ASSUME pair \in PairsOfTrees, IsLaidOut, NEW s \in SrcLoops
    PROVE  ~OnOneLine(s)
<1>1. SUFFICES ASSUME NEW c \in Children(pair.src, s), Cardinality(LinesOf(s)) = 1 PROVE FALSE
  BY DEF OnOneLine
<1>2. c \in SrcLoops /\ c > s /\ s \in Nat /\ c \in Nat
  BY TreeFacts DEF SrcLoops
<1>3. c \in Within(s) /\ c # s
  BY <1>2, WithinFacts
<1>4. LineMin(s) < LineMin(c) /\ LineMin(s) \in Nat /\ LineMin(c) \in Nat
  BY <1>2, <1>3 DEF IsLaidOut
<1>5. LineMin(s) \in LinesOf(s)
  BY DEF LinesOf, IsLaidOut
<1>6. LineMin(c) \in LinesOf(s)
  <2>1. pair.src.head[c][1] \in Range(pair.src.head[c]) /\ pair.src.head[c][1] = LineMin(c)
    BY <1>2, LinesOfFacts DEF IsLaidOut
  <2> QED  BY <2>1 DEF LinesOf
<1>7. IsFiniteSet(LinesOf(s))
  BY LinesOfFacts
<1>8. PICK x : LinesOf(s) = {x}
  BY <1>1, <1>7, FS_Singleton
<1>9. LineMin(s) = LineMin(c)
  BY <1>5, <1>6, <1>8
<1> QED  BY <1>4, <1>9

-----------------------------------------------------------------------------
(* What the look-up of a line returns.                                     *)

\* The source loops that a line is in, by their first and last lines.
Holding(line) == {n \in SrcLoops : line \in LineMin(n) .. LineMax(n)}

\* The search starts with an outermost loop and goes inwards as long as it can.
IsWalk(found, line) ==
    /\ found[0] \in Children(pair.src, Root) \cap Holding(line)
    /\ \A k \in Nat :
          /\ found[k] \in Holding(line)
          /\ LET inner == Children(pair.src, found[k]) \cap Holding(line)
             IN  IF inner = {} THEN found[k + 1] = found[k] ELSE found[k + 1] \in inner

\* The search for a line starts if an outermost loop has it, and is a walk.
LEMMA SourceLoopWalks ==
    ASSUME pair \in PairsOfTrees, NEW line
    PROVE  \/ Children(pair.src, Root) \cap Holding(line) = {} /\ SourceLoop(line) = NoLoop
           \/ \E found : IsWalk(found, line) /\ SourceLoop(line) = found[Cardinality(SrcLoops)]
<1> DEFINE holding  == {n \in SrcLoops : line \in LineMin(n) .. LineMax(n)}
           outer    == Children(pair.src, Root) \cap holding
           earliest == {n \in outer : \A m \in outer : LineMin(n) <= LineMin(m)}
           Inner(n) == Children(pair.src, n) \cap holding
           step     == [n \in holding |-> IF Inner(n) = {} THEN n ELSE Min(Inner(n))]
           Is(f)    == f = [k \in Nat |->
                              IF k = 0 THEN Min(earliest)
                              ELSE LET around == f[k - 1]
                                       inner  == Children(pair.src, around) \cap holding
                                   IN  IF inner = {} THEN around ELSE Min(inner)]
           found    == CHOOSE f : Is(f)
<1>1. SourceLoop(line) = IF outer = {} THEN NoLoop ELSE found[Cardinality(SrcLoops)]
  BY DEF SourceLoop
<1>2. Holding(line) = holding
  BY DEF Holding
<1>3. SUFFICES ASSUME outer # {} PROVE IsWalk(found, line)
  BY <1>1, <1>2
<1>4. Min(earliest) \in outer
  <2>1. outer \in SUBSET SrcLoops
    OBVIOUS
  <2>2. [n \in SrcLoops |-> LineMin(n)] \in [SrcLoops -> Nat]
    BY LineMinIs
  <2>3. PICK x \in outer : \A y \in outer : LineMin(x) <= LineMin(y)
    <3> HIDE DEF outer
    <3>1. PICK x \in outer : \A y \in outer :
              [n \in SrcLoops |-> LineMin(n)][x] <= [n \in SrcLoops |-> LineMin(n)][y]
      BY <1>3, <2>1, <2>2, LeastByValue
    <3> QED  BY <2>1, <3>1
  <2>4. earliest \in SUBSET Nat /\ earliest # {} /\ earliest \in SUBSET outer
    BY <2>3, PairFacts
  <2> HIDE DEF earliest
  <2> QED  BY <2>4, MinOfNaturals
<1>5. \A n \in holding : IF Inner(n) = {} THEN step[n] = n ELSE step[n] = Min(Inner(n)) /\ Min(Inner(n)) \in Inner(n)
  <2>1. ASSUME NEW n \in holding, Inner(n) # {} PROVE Min(Inner(n)) \in Inner(n)
    <3>1. Inner(n) \in SUBSET Nat
      BY PairFacts
    <3> HIDE DEF Inner
    <3> QED  BY <2>1, <3>1, MinOfNaturals
  <2>2. \A n \in holding : step[n] = IF Inner(n) = {} THEN n ELSE Min(Inner(n))
    <3> HIDE DEF Inner, holding
    <3> QED  OBVIOUS
  <2> HIDE DEF Inner, step, holding
  <2> QED  BY <2>1, <2>2
<1>6. IsMap(step, holding)
  <2>1. \A n : Inner(n) \subseteq holding
    OBVIOUS
  <2>2. \A n \in holding : step[n] \in holding
    <3> HIDE DEF Inner, step, holding
    <3> QED  BY <1>5, <2>1
  <2> HIDE DEF Inner, holding
  <2> QED  BY <2>2 DEF IsMap
<1> HIDE DEF earliest
<1>7. \E f : Is(f)
  <2>1. PICK g : IsIteration(g, Min(earliest), step, holding)
    <3>1. Min(earliest) \in holding
      BY <1>4
    <3> HIDE DEF step, holding
    <3> QED  BY <1>6, <3>1, IterationExists
  <2>2. ASSUME NEW k \in Nat, k # 0
        PROVE  g[k] = IF Inner(g[k - 1]) = {} THEN g[k - 1] ELSE Min(Inner(g[k - 1]))
    <3>1. k - 1 \in Nat /\ (k - 1) + 1 = k
      BY <2>2
    <3>2. g[(k - 1) + 1] = step[g[k - 1]] /\ g[k - 1] \in holding
      BY <2>1, <3>1 DEF IsIteration
    <3> HIDE DEF Inner, holding, step
    <3> QED  BY <1>5, <3>1, <3>2
  <2>3. g = [k \in Nat |-> g[k]] /\ g[0] = Min(earliest)
    BY <2>1 DEF IsIteration
  <2>4. Is(g)
    BY <2>2, <2>3
  <2> QED  BY <2>4
<1>8. Is(found)
  <2> HIDE DEF Is
  <2> QED  BY <1>7
<1> HIDE DEF found
<1>9. found[0] = Min(earliest)
  BY <1>8
<1>10. ASSUME NEW n \in Nat
       PROVE  found[n + 1] = IF Inner(found[n]) = {} THEN found[n] ELSE Min(Inner(found[n]))
  <2>1. n + 1 \in Nat /\ n + 1 # 0 /\ (n + 1) - 1 = n
    OBVIOUS
  <2> QED  BY <1>8, <2>1
<1> DEFINE S == {n \in Nat : found[n] \in holding}
<1>11. 0 \in S
  BY <1>4, <1>9
<1>12. ASSUME NEW n \in S PROVE n + 1 \in S
  <2>1. n \in Nat /\ n + 1 \in Nat /\ found[n] \in holding
    OBVIOUS
  <2>2. Inner(found[n]) \subseteq holding
    OBVIOUS
  <2>3. found[n + 1] \in holding
    <3> HIDE DEF Inner, step, holding
    <3> QED  BY <1>5, <1>10, <2>1, <2>2
  <2> QED  BY <2>1, <2>3
<1>13. S = Nat
  <2>1. S \in SUBSET Nat
    OBVIOUS
  <2> HIDE DEF S
  <2> QED  BY <1>11, <1>12, <2>1, NaturalsByInduction
<1>14. \A k \in Nat : /\ found[k] \in holding
                      /\ IF Inner(found[k]) = {} THEN found[k + 1] = found[k]
                         ELSE found[k + 1] \in Inner(found[k])
  <2>1. \A k \in Nat : found[k] \in holding
    <3> HIDE DEF holding
    <3> QED  BY <1>13
  <2> HIDE DEF Inner, step, holding
  <2> QED  BY <1>5, <1>10, <2>1
<1>15. found[0] \in outer
  BY <1>4, <1>9
<1> HIDE DEF Is, S, step
<1> QED  BY <1>2, <1>14, <1>15 DEF IsWalk

\* Whatever the line, the search ends with a source loop or none.
LEMMA SourceLoopType ==
    ASSUME pair \in PairsOfTrees, NEW line
    PROVE  SourceLoop(line) \in SrcLoops \cup {NoLoop}
<1>1. Cardinality(SrcLoops) \in Nat
  BY PairFacts, FS_CardinalityType
<1> QED  BY <1>1, SourceLoopWalks DEF IsWalk, Holding

\* A line of no loop is not found.
LEMMA OutsideIsNoLoop ==
    ASSUME pair \in PairsOfTrees, IsLaidOut, NEW line,
           \A s \in SrcLoops : line \notin Extent(s)
    PROVE  SourceLoop(line) = NoLoop
<1>1. Holding(line) = {}
  BY DEF Holding, IsLaidOut
<1> QED  BY <1>1, SourceLoopWalks DEF IsWalk

\* The loops that hold a line of b are those around b.
LEMMA HoldingIsChain ==
    ASSUME pair \in PairsOfTrees, IsLaidOut, NEW b \in SrcLoops, NEW line, At(line, b)
    PROVE  \A n \in SrcLoops : n \in Holding(line) <=> b \in Within(n)
<1>1. SUFFICES ASSUME NEW n \in SrcLoops PROVE n \in Holding(line) <=> b \in Within(n)
  OBVIOUS
<1>2. line \in Extent(b) /\ \A c \in Children(pair.src, b) : line \notin Extent(c)
  BY DEF At
<1>3. /\ LineMin(n) \in Nat /\ LineMax(n) \in Nat /\ Extent(n) = LineMin(n) .. LineMax(n)
      /\ LineMin(b) \in Nat /\ LineMax(b) \in Nat /\ Extent(b) = LineMin(b) .. LineMax(b)
  BY DEF IsLaidOut
<1>4. n \in Holding(line) <=> line \in Extent(n)
  BY <1>3 DEF Holding
<1>5. ASSUME b \in Within(n) PROVE line \in Extent(n)
  <2>1. CASE b = n
    BY <1>2, <2>1
  <2>2. CASE b # n
    <3>1. LineMin(n) < LineMin(b) /\ LineMax(b) <= LineMax(n)
      BY <1>5, <2>2 DEF IsLaidOut
    <3> QED  BY <1>2, <1>3, <3>1
  <2> QED  BY <2>1, <2>2
<1>6. ASSUME line \in Extent(n), b \notin Within(n) PROVE FALSE
  <2>1. n \in Within(b)
    BY <1>2, <1>6 DEF IsLaidOut
  <2>2. n # b
    BY <1>6, WithinFacts
  <2>3. PICK c \in Children(pair.src, b) : n \in Within(c)
    BY <2>1, <2>2, WithinFacts
  <2>4. c \in SrcLoops
    BY DEF Children, SrcLoops
  <2>5. /\ LineMin(c) \in Nat /\ LineMax(c) \in Nat /\ Extent(c) = LineMin(c) .. LineMax(c)
        /\ LineMin(c) <= LineMin(n) /\ LineMax(n) <= LineMax(c)
    BY <1>3, <2>3, <2>4 DEF IsLaidOut
  <2>6. line \in Extent(c)
    BY <1>3, <1>6, <2>5
  <2> QED  BY <1>2, <2>6
<1> QED  BY <1>4, <1>5, <1>6

\* A line of b is found in b.
LEMMA AtIsFound ==
    ASSUME pair \in PairsOfTrees, IsLaidOut, NEW b \in SrcLoops, NEW line, At(line, b)
    PROVE  SourceLoop(line) = b
<1>1. \A n \in SrcLoops : n \in Holding(line) <=> b \in Within(n)
  BY HoldingIsChain
<1>2. SrcLoops \in SUBSET Nat /\ IsFiniteSet(SrcLoops) /\ Root \notin SrcLoops
  BY TreeFacts DEF SrcLoops
<1>3. Children(pair.src, Root) \cap Holding(line) # {}
  <2> DEFINE H == Holding(line)
             m == Min(H)
  <2>1. H \in SUBSET Nat /\ H # {} /\ H \subseteq SrcLoops
    BY <1>1, <1>2, WithinFacts DEF Holding
  <2>2. m \in H /\ \A x \in H : m <= x
    BY <2>1, MinOfNaturals
  <2> HIDE DEF m, H
  <2>3. m \in SrcLoops /\ pair.src.parent[m] \in SrcLoops \cup {Root} /\ pair.src.parent[m] < m
    BY <2>1, <2>2, TreeFacts DEF SrcLoops
  <2>4. ASSUME pair.src.parent[m] \in SrcLoops PROVE FALSE
    <3> DEFINE u == pair.src.parent[m]
    <3>1. m \in Children(pair.src, u)
      BY <2>3 DEF Children, SrcLoops
    <3>2. Within(m) \subseteq Within(u)
      BY <2>3, <2>4, <3>1, WithinFacts
    <3>3. b \in Within(u)
      BY <1>1, <2>2, <2>3, <3>2 DEF H
    <3>4. u \in H
      BY <1>1, <2>4, <3>3 DEF H
    <3>5. m <= u /\ u < m /\ m \in Nat /\ u \in Nat
      BY <1>2, <2>2, <2>3, <2>4, <3>4
    <3> QED  BY <3>5
  <2>5. m \in Children(pair.src, Root)
    BY <2>3, <2>4 DEF Children, SrcLoops
  <2> QED  BY <2>2, <2>5 DEF H
<1>4. PICK found : IsWalk(found, line) /\ SourceLoop(line) = found[Cardinality(SrcLoops)]
  BY <1>3, SourceLoopWalks
<1>5. ASSUME NEW k \in Nat
      PROVE  /\ found[k] \in SrcLoops /\ b \in Within(found[k])
             /\ IF found[k] = b THEN found[k + 1] = b ELSE found[k + 1] > found[k]
  <2> DEFINE inner == Children(pair.src, found[k]) \cap Holding(line)
  <2>1. found[k] \in Holding(line) /\ IF inner = {} THEN found[k + 1] = found[k] ELSE found[k + 1] \in inner
    BY <1>4 DEF IsWalk
  <2>2. found[k] \in SrcLoops /\ b \in Within(found[k])
    <3>1. found[k] \in SrcLoops
      BY <2>1 DEF Holding
    <3> QED  BY <1>1, <2>1, <3>1
  <2>3. \A c \in Children(pair.src, found[k]) : c \in SrcLoops /\ c > found[k]
    BY <2>2, TreeFacts DEF SrcLoops
  <2>4. ASSUME found[k] = b, NEW c \in inner PROVE FALSE
    <3>1. b \in Within(c) /\ c \in SrcLoops /\ c > b
      BY <1>1, <2>3, <2>4
    <3>2. b \in Nat /\ c \in Nat /\ (b = c \/ b > c)
      BY <1>2, <3>1, WithinFacts
    <3> QED  BY <3>1, <3>2
  <2>5. ASSUME found[k] # b PROVE inner # {}
    <3>1. PICK c \in Children(pair.src, found[k]) : b \in Within(c)
      BY <2>2, <2>5, WithinFacts
    <3> QED  BY <1>1, <2>3, <3>1
  <2> QED  BY <2>1, <2>2, <2>3, <2>4, <2>5
<1> DEFINE Left(x) == {n \in SrcLoops : n > x}
           K == Cardinality(SrcLoops)
           Close(k) == found[k] = b \/ Cardinality(Left(found[k])) + k < K
           S == {k \in Nat : Close(k)}
<1>6. \A x : IsFiniteSet(Left(x)) /\ Cardinality(Left(x)) \in Nat
  <2>1. \A x : Left(x) \in SUBSET SrcLoops
    OBVIOUS
  <2> HIDE DEF Left
  <2> QED  BY <1>2, <2>1, FS_Subset, FS_CardinalityType
<1>7. K \in Nat
  BY <1>2, FS_CardinalityType
<1>8. ASSUME NEW T, IsFiniteSet(T), NEW U \in SUBSET T, NEW x \in T, x \notin U
      PROVE  Cardinality(U) < Cardinality(T)
  <2>1. IsFiniteSet(U) /\ Cardinality(U) <= Cardinality(T) /\ (Cardinality(T) = Cardinality(U) => T = U)
    BY <1>8, FS_Subset
  <2>2. Cardinality(U) \in Nat /\ Cardinality(T) \in Nat
    BY <1>8, <2>1, FS_CardinalityType
  <2>3. T # U
    BY <1>8
  <2> QED  BY <2>1, <2>2, <2>3
<1>9. 0 \in S
  <2> DEFINE x == found[0]
  <2>1. x \in SrcLoops /\ x \in Nat
    BY <1>2, <1>5
  <2>2. Left(x) \in SUBSET SrcLoops /\ x \notin Left(x)
    BY <2>1
  <2> HIDE DEF Left, x
  <2>3. Cardinality(Left(x)) < K
    BY <1>2, <1>8, <2>1, <2>2
  <2>4. Cardinality(Left(x)) + 0 < K
    BY <1>6, <1>7, <2>3
  <2> QED  BY <2>4 DEF x
<1>10. ASSUME NEW k \in S PROVE k + 1 \in S
  <2>1. k \in Nat /\ k + 1 \in Nat /\ Close(k)
    OBVIOUS
  <2>2. SUFFICES ASSUME found[k + 1] # b PROVE Cardinality(Left(found[k + 1])) + (k + 1) < K
    BY <2>1
  <2> DEFINE x == found[k]
             y == found[k + 1]
  <2>3. x # b /\ y > x /\ x \in SrcLoops /\ y \in SrcLoops
    BY <1>5, <2>1, <2>2
  <2>4. Left(y) \in SUBSET Left(x) /\ y \in Left(x) /\ y \notin Left(y)
    <3> HIDE DEF x, y
    <3>1. x \in Nat /\ y \in Nat /\ ~(y > y)
      BY <1>2, <2>3
    <3>2. \A n \in SrcLoops : n > y => n > x
      BY <1>2, <2>3, <3>1
    <3> QED  BY <2>3, <3>1, <3>2
  <2>5. Cardinality(Left(x)) + k < K
    BY <2>1, <2>3
  <2> HIDE DEF Left, x, y
  <2>6. Cardinality(Left(y)) < Cardinality(Left(x))
    BY <1>6, <1>8, <2>4
  <2>7. Cardinality(Left(y)) \in Nat /\ Cardinality(Left(x)) \in Nat
    BY <1>6
  <2>8. Cardinality(Left(y)) + (k + 1) < K
    BY <1>7, <2>1, <2>5, <2>6, <2>7
  <2> QED  BY <2>8 DEF y
<1>11. S = Nat
  <2>1. S \in SUBSET Nat
    OBVIOUS
  <2> HIDE DEF S
  <2> QED  BY <1>9, <1>10, <2>1, NaturalsByInduction
<1>12. Close(K)
  BY <1>7, <1>11
<1>13. found[K] = b
  <2> HIDE DEF Left
  <2>1. Cardinality(Left(found[K])) \in Nat
    BY <1>6
  <2> QED  BY <1>7, <1>12, <2>1
<1> QED  BY <1>4, <1>13

\* The look-up of a set of keys returns a source loop or none.
LEMMA LoopAtType ==
    ASSUME pair \in PairsOfTrees, NEW keys
    PROVE  LoopAt(keys) \in SrcLoops \cup {NoLoop}
<1>1. \A line : SourceLoop(line) \in SrcLoops \cup {NoLoop}
  BY SourceLoopType
<1> QED  BY <1>1 DEF LoopAt

\* Keys at lines of a loop lead to it.
LEMMA LoopAtIsOwn ==
    ASSUME pair \in PairsOfTrees, IsLaidOut, NEW b \in SrcLoops, NEW keys, keys # {},
           \A k \in keys : At(pair.line[k], b)
    PROVE  LoopAt(keys) = b
<1> DEFINE lines == {pair.line[k] : k \in keys}
<1>1. /\ LineMin(b) \in Nat /\ LineMax(b) \in Nat /\ Extent(b) = LineMin(b) .. LineMax(b)
  BY DEF IsLaidOut
<1>2. lines # {} /\ \A x \in lines : At(x, b) /\ x \in Extent(b)
  BY DEF At
<1>3. lines \in SUBSET (LineMin(b) .. LineMax(b))
  BY <1>1, <1>2
<1>4. LoopAt(keys) = LET min_sn == SourceLoop(Min(lines))
                         max_sn == SourceLoop(Max(lines))
                     IN  IF Depth(pair.src, min_sn) < Depth(pair.src, max_sn) THEN min_sn ELSE max_sn
  BY DEF LoopAt
<1> HIDE DEF lines
<1>5. lines \in SUBSET Nat /\ IsFiniteSet(lines)
  <2>1. IsFiniteSet(LineMin(b) .. LineMax(b)) /\ (LineMin(b) .. LineMax(b)) \in SUBSET Nat
    BY <1>1, FS_Interval
  <2> QED  BY <1>3, <2>1, FS_Subset
<1>6. Min(lines) \in lines /\ Max(lines) \in lines
  BY <1>2, <1>5, MinOfNaturals, MaxOfFinite
<1>7. SourceLoop(Min(lines)) = b /\ SourceLoop(Max(lines)) = b
  BY <1>2, <1>6, AtIsFound
<1> QED  BY <1>4, <1>7

-----------------------------------------------------------------------------
(* The steps: each loop is taken care of once.                             *)

InductiveInvariant == pair \in PairsOfTrees /\ EachLoopOnce

\* The invariant holds at the start.
LEMMA InitHolds == Init => InductiveInvariant
BY DEF Init, InductiveInvariant, EachLoopOnce, TypeOK, Range

\* Taking keys touches neither matches nor skips.
LEMMA TakeKeysKeeps ==
    ASSUME InductiveInvariant, TakeKeys
    PROVE  InductiveInvariant'
<1>1. /\ stage = "keys" /\ pair \in PairsOfTrees /\ TypeOK
      /\ UNCHANGED <<pair, stage, map_loop_binary, loops_to_match, skipped_b_loops>>
  BY DEF TakeKeys, InductiveInvariant, EachLoopOnce
<1>2. PICK b \in BinLoops :
          dwUnqMap' = Assign(dwUnqMap, b, OwnKeys(b) \ UNION Range(dwUnqMap))
  BY DEF TakeKeys, DeepestOf
<1>3. OwnKeys(b) \subseteq DOMAIN pair.line
  <2>1. Children(pair.bin, b) \subseteq BinLoops
    BY DEF Children, BinLoops
  <2> QED  BY <1>1, <2>1, PairFacts DEF OwnKeys
<1>4. TypeOK'
  BY <1>1, <1>2, <1>3 DEF TypeOK, Assign, BinLoops, SrcLoops
<1> QED  BY <1>1, <1>4 DEF InductiveInvariant, EachLoopOnce

\* Nor does the check of the source loops.
LEMMA CheckSourceLoopsKeeps ==
    ASSUME InductiveInvariant, CheckSourceLoops
    PROVE  InductiveInvariant'
<1>1. /\ stage' \in {"refused", "match"} /\ pair \in PairsOfTrees /\ TypeOK
      /\ UNCHANGED <<pair, dwUnqMap, map_loop_binary, loops_to_match, skipped_b_loops>>
  BY DEF CheckSourceLoops, InductiveInvariant, EachLoopOnce
<1>2. TypeOK'
  BY <1>1 DEF TypeOK, BinLoops, SrcLoops
<1> QED  BY <1>1, <1>2 DEF InductiveInvariant, EachLoopOnce

\* A loop is matched for the first time.
LEMMA MatchLoopKeeps ==
    ASSUME InductiveInvariant, MatchLoop
    PROVE  InductiveInvariant'
<1>1. /\ stage = "match" /\ pair \in PairsOfTrees /\ TypeOK
      /\ UNCHANGED <<pair, dwUnqMap, loops_to_match, skipped_b_loops>>
  BY DEF MatchLoop, InductiveInvariant, EachLoopOnce
<1>2. \/ stage' = "refused" /\ UNCHANGED map_loop_binary
      \/ /\ stage' = stage
         /\ \E b \in BinLoops, s \in SrcLoops \cup {NoLoop} :
               map_loop_binary' = Assign(map_loop_binary, b, s)
  <2>1. PICK b \in BinLoops :
            \/ stage' = "refused" /\ UNCHANGED map_loop_binary
            \/ /\ stage' = stage
               /\ map_loop_binary' = Assign(map_loop_binary, b,
                      IF b \in pair.skip \/ Telling(b) = {} THEN NoLoop
                      ELSE LoopAt(Telling(b)))
    BY DEF MatchLoop
  <2>2. LoopAt(Telling(b)) \in SrcLoops \cup {NoLoop}
    BY <1>1, LoopAtType
  <2> QED  BY <2>1, <2>2
<1>3. /\ DOMAIN map_loop_binary' \subseteq BinLoops
      /\ Range(map_loop_binary') \subseteq SrcLoops \cup {NoLoop}
  <2>1. /\ DOMAIN map_loop_binary \subseteq BinLoops
        /\ \A b \in DOMAIN map_loop_binary : map_loop_binary[b] \in SrcLoops \cup {NoLoop}
    BY <1>1 DEF TypeOK, Range
  <2>2. CASE UNCHANGED map_loop_binary
    BY <1>1, <2>2 DEF TypeOK
  <2>3. ASSUME NEW b \in BinLoops, NEW s \in SrcLoops \cup {NoLoop},
               map_loop_binary' = Assign(map_loop_binary, b, s)
        PROVE  /\ DOMAIN map_loop_binary' \subseteq BinLoops
               /\ \A n \in DOMAIN map_loop_binary' :
                     map_loop_binary'[n] \in SrcLoops \cup {NoLoop}
    BY <2>1, <2>3 DEF Assign
  <2>4. \/ UNCHANGED map_loop_binary
        \/ /\ DOMAIN map_loop_binary' \subseteq BinLoops
           /\ \A n \in DOMAIN map_loop_binary' :
                 map_loop_binary'[n] \in SrcLoops \cup {NoLoop}
    BY <1>2, <2>3
  <2> QED  BY <2>2, <2>4 DEF Range
<1>4. stage' \in {"match", "refused"}
  BY <1>1, <1>2
<1>5. TypeOK'
  BY <1>1, <1>3, <1>4 DEF TypeOK, BinLoops, SrcLoops, Range
<1> QED  BY <1>1, <1>4, <1>5 DEF InductiveInvariant, EachLoopOnce

\* What is left of the binary loops beside one for each source loop that has any.
LEMMA EachIsOne ==
    ASSUME pair \in PairsOfTrees, TypeOK, DOMAIN map_loop_binary = BinLoops,
           NEW main, main = [s \in SrcLoops |-> Main(s)],
           NEW matched, matched = {s \in SrcLoops : main[s] # {}},
           \A s \in matched : Cardinality(main[s]) = 1,
           NEW found, found = [s \in matched |-> CHOOSE b \in main[s] : TRUE]
    PROVE  /\ IsInjective(found)
           /\ Range(found) \cap ToSkip(main) = {}
           /\ Range(found) \cup ToSkip(main) = BinLoops
           /\ Cardinality(matched) + Cardinality(ToSkip(main)) = Cardinality(BinLoops)
<1>1. \A s \in SrcLoops : main[s] \subseteq MappedTo(s) /\ DOMAIN main = SrcLoops
  BY DEF Main
<1>2. \A b \in BinLoops : map_loop_binary[b] \in SrcLoops \cup {NoLoop}
  BY DEF TypeOK, Range
<1>3. NoLoop \notin SrcLoops /\ IsFiniteSet(SrcLoops) /\ IsFiniteSet(BinLoops)
  BY PairFacts
<1>4. \A s \in matched : main[s] = {found[s]}
  <2> SUFFICES ASSUME NEW s \in matched PROVE main[s] = {found[s]}
    OBVIOUS
  <2>1. main[s] \subseteq BinLoops
    BY <1>1 DEF MappedTo
  <2>2. IsFiniteSet(main[s]) /\ Cardinality(main[s]) = 1
    BY <1>3, <2>1, FS_Subset
  <2>3. PICK x : main[s] = {x}
    BY <2>2, FS_Singleton
  <2>4. found[s] = CHOOSE b \in main[s] : TRUE
    OBVIOUS
  <2>5. found[s] \in main[s]
    BY <2>3, <2>4
  <2> QED  BY <2>3, <2>5
<1>5. \A s \in matched : found[s] \in BinLoops /\ map_loop_binary[found[s]] = s /\ s \in SrcLoops
  BY <1>1, <1>4 DEF MappedTo
<1>6. /\ DOMAIN found = matched /\ IsInjective(found)
      /\ \A b : b \in Range(found) <=> \E s \in matched : b = found[s]
  <2>1. DOMAIN found = matched
    OBVIOUS
  <2>2. IsInjective(found)
    <3>1. ASSUME NEW a \in matched, NEW b \in matched, found[a] = found[b] PROVE a = b
      <4>1. map_loop_binary[found[a]] = a /\ map_loop_binary[found[b]] = b
        BY <1>5
      <4> QED  BY <3>1, <4>1
    <3> QED  BY <2>1, <3>1 DEF IsInjective
  <2> QED  BY <2>1, <2>2 DEF Range
<1>7. \A b \in BinLoops : b \in ToSkip(main) <=>
          \/ map_loop_binary[b] = NoLoop
          \/ \E s \in SrcLoops : map_loop_binary[b] = s /\ b \notin main[s]
  BY <1>1 DEF ToSkip, MappedTo
<1>8. ToSkip(main) \subseteq BinLoops
  BY <1>1 DEF ToSkip, MappedTo
<1>9. Range(found) \cap ToSkip(main) = {}
  <2>1. ASSUME NEW s \in matched PROVE found[s] \notin ToSkip(main)
    <3>1. /\ found[s] \in BinLoops /\ map_loop_binary[found[s]] = s /\ s \in SrcLoops
          /\ found[s] \in main[s]
      BY <1>4, <1>5
    <3> QED  BY <1>3, <1>7, <3>1
  <2>2. ASSUME NEW b \in Range(found) PROVE b \notin ToSkip(main)
    <3>1. PICK s \in matched : b = found[s]
      BY <1>6
    <3> QED  BY <2>1, <3>1
  <2> QED  BY <2>2
<1>10. Range(found) \cup ToSkip(main) = BinLoops
  <2>1. ASSUME NEW b \in BinLoops, b \notin ToSkip(main) PROVE b \in Range(found)
    <3>1. map_loop_binary[b] \in SrcLoops /\ b \in main[map_loop_binary[b]]
      BY <1>2, <1>7, <2>1
    <3>2. map_loop_binary[b] \in matched /\ b = found[map_loop_binary[b]]
      BY <1>4, <3>1
    <3> QED  BY <1>6, <3>2
  <2>2. Range(found) \subseteq BinLoops
    <3>1. ASSUME NEW b \in Range(found) PROVE b \in BinLoops
      <4>1. PICK s \in matched : b = found[s]
        BY <1>6
      <4> QED  BY <1>5, <4>1
    <3> QED  BY <3>1
  <2> QED  BY <1>8, <2>1, <2>2
<1>11. Cardinality(Range(found)) = Cardinality(matched)
  <2>1. found \in Bijection(matched, Range(found))
    <3>1. found \in [matched -> Range(found)]
      BY <1>6 DEF Range
    <3>2. \A t \in Range(found) : \E s \in matched : found[s] = t
      BY <1>6 DEF Range
    <3> QED  BY <1>6, <3>1, <3>2 DEF Bijection, Injection, Surjection, IsInjective
  <2>2. IsFiniteSet(matched)
    BY <1>3, FS_Subset
  <2> QED  BY <2>1, <2>2, FS_Bijection DEF ExistsBijection
<1>12. Cardinality(BinLoops) = Cardinality(Range(found)) + Cardinality(ToSkip(main))
  <2> DEFINE A == Range(found)
             B == ToSkip(main)
  <2>1. IsFiniteSet(A) /\ IsFiniteSet(B) /\ A \cap B = {} /\ A \cup B = BinLoops
    BY <1>3, <1>8, <1>9, <1>10, FS_Subset
  <2> HIDE DEF A, B
  <2>2. /\ Cardinality(A) \in Nat /\ Cardinality(B) \in Nat /\ Cardinality(A \cap B) = 0
        /\ Cardinality(BinLoops) = Cardinality(A) + Cardinality(B) - Cardinality(A \cap B)
    BY <2>1, FS_Union, FS_EmptySet, FS_CardinalityType
  <2>3. Cardinality(BinLoops) = Cardinality(A) + Cardinality(B)
    BY <2>2
  <2> QED  BY <2>3 DEF A, B
<1> QED  BY <1>6, <1>9, <1>10, <1>11, <1>12

\* The filter skips what it takes out of the matches.
LEMMA FilterLoopsKeeps ==
    ASSUME InductiveInvariant, FilterLoops
    PROVE  InductiveInvariant'
<1> DEFINE main    == [s \in SrcLoops |-> Main(s)]
           matched == {s \in SrcLoops : main[s] # {}}
           found   == [s \in matched |-> CHOOSE b \in main[s] : TRUE]
<1>1. /\ stage = "match" /\ pair \in PairsOfTrees /\ TypeOK
      /\ DOMAIN map_loop_binary = BinLoops
      /\ UNCHANGED <<pair, dwUnqMap, map_loop_binary>>
  BY DEF FilterLoops, InductiveInvariant, EachLoopOnce
<1>2. CASE ~\A s \in matched : Cardinality(main[s]) = 1
  <2>1. stage' = "refused" /\ UNCHANGED <<loops_to_match, skipped_b_loops>>
    BY <1>2 DEF FilterLoops
  <2>2. TypeOK'
    BY <1>1, <2>1 DEF TypeOK, BinLoops, SrcLoops
  <2> QED  BY <1>1, <2>1, <2>2 DEF InductiveInvariant, EachLoopOnce
<1>3. CASE \A s \in matched : Cardinality(main[s]) = 1
  <2>1. /\ IsInjective(found) /\ Range(found) \cap ToSkip(main) = {}
        /\ Range(found) \cup ToSkip(main) = BinLoops
        /\ Cardinality(matched) + Cardinality(ToSkip(main)) = Cardinality(BinLoops)
    <3> HIDE DEF main, matched, found
    <3> QED  BY <1>1, <1>3, EachIsOne DEF main, matched, found
  <2>2. /\ loops_to_match' = found /\ skipped_b_loops' = ToSkip(main)
        /\ stage' = IF Cardinality(matched) + Cardinality(skipped_b_loops')
                          = Cardinality(BinLoops)
                    THEN "done" ELSE "miscounted"
    BY <1>3 DEF FilterLoops
  <2>3. stage' = "done" /\ BinLoops' = BinLoops
    BY <1>1, <2>1, <2>2 DEF BinLoops
  <2>4. DOMAIN loops_to_match' \subseteq SrcLoops
    BY <2>2
  <2>5. TypeOK'
    BY <1>1, <2>3, <2>4 DEF TypeOK, BinLoops, SrcLoops
  <2> HIDE DEF main, matched, found
  <2> QED  BY <1>1, <2>1, <2>2, <2>3, <2>5 DEF InductiveInvariant, EachLoopOnce
<1> QED  BY <1>2, <1>3

\* A step that changes nothing keeps the invariant.
LEMMA Unchanged ==
    ASSUME InductiveInvariant, UNCHANGED vars
    PROVE  InductiveInvariant'
BY DEF InductiveInvariant, EachLoopOnce, TypeOK, BinLoops, SrcLoops, vars

\* The assertion "Not all binary loops were processed" (loop_matcher.py:431) holds: each
\* binary loop is matched with one source loop or skipped, and never both.
THEOREM EachLoopIsProcessedOnce == Spec => []EachLoopOnce
<1>1. InductiveInvariant /\ [Next]_vars => InductiveInvariant'
  BY TakeKeysKeeps, CheckSourceLoopsKeeps, MatchLoopKeeps, FilterLoopsKeeps, Unchanged
  DEF Next, Ended
<1>2. InductiveInvariant => EachLoopOnce
  BY DEF InductiveInvariant
<1> QED  BY <1>1, <1>2, InitHolds, PTL DEF Spec

-----------------------------------------------------------------------------
(* Where debug information is good, each loop is matched with its own.     *)

\* Where debug information is good and nothing is skipped.
WellTold == WellFormatted /\ Traceable /\ pair.skip = {}

\* What taking the keys of the deepest loops first comes to.  Keys of a loop that only the
\* loops around it share are still free when it is its turn; keys that it shares with a
\* loop directly in it are not.
KeysKeptIn(map) ==
    \A b \in DOMAIN map :
        /\ b \in BinLoops
        /\ map[b] \subseteq OwnKeys(b)
        /\ OwnKeys(b) \subseteq UNION Range(map)
        /\ \A c \in BinLoops : Depth(pair.bin, c) > Depth(pair.bin, b) => c \in DOMAIN map
        /\ \A c \in Children(pair.bin, b) : map[b] \cap OwnKeys(c) = {}
        /\ \A k \in OwnKeys(b) :
              (\A c \in BinLoops : k \in OwnKeys(c) => b \in Within(c)) => k \in map[b]

\* It stays so when the next loop takes its keys.
LEMMA KeysAreKept ==
    ASSUME pair \in PairsOfTrees, pair.bin.parent = pair.src.parent,
           NEW map, KeysKeptIn(map), NEW b \in DeepestOf(BinLoops \ DOMAIN map),
           NEW next, next = Assign(map, b, OwnKeys(b) \ UNION Range(map))
    PROVE  KeysKeptIn(next)
<1> DEFINE taken == UNION Range(map)
           free == OwnKeys(b) \ taken
<1>1. /\ b \in BinLoops /\ b \notin DOMAIN map
      /\ \A c \in BinLoops \ DOMAIN map : Depth(pair.bin, b) >= Depth(pair.bin, c)
  BY DEF DeepestOf
<1>2. /\ DOMAIN next = DOMAIN map \cup {b} /\ next[b] = free
      /\ \A n \in DOMAIN map : next[n] = map[n]
  BY <1>1 DEF Assign
<1>3. \A k : k \in taken <=> \E n \in DOMAIN map : k \in map[n]
  BY DEF Range
<1>4. \A k : k \in UNION Range(next) <=> \E n \in DOMAIN next : k \in next[n]
  BY DEF Range
<1> HIDE DEF taken
<1>5. \A k : k \in taken \/ k \in OwnKeys(b) => k \in UNION Range(next)
  <2>1. \A k \in taken : k \in UNION Range(next)
    BY <1>2, <1>3, <1>4
  <2>2. \A k \in free : k \in UNION Range(next)
    <3> HIDE DEF free
    <3> QED  BY <1>2, <1>4
  <2> QED  BY <2>1, <2>2
<1>6. /\ \A n \in BinLoops : Depth(pair.bin, n) \in Nat
      /\ \A c \in Children(pair.bin, b) : c \in BinLoops /\ Depth(pair.bin, c) > Depth(pair.bin, b)
      /\ \A c \in BinLoops : b \in Within(c) /\ b # c => Depth(pair.bin, b) > Depth(pair.bin, c)
  <2>1. \A c \in Children(pair.bin, b) : c \in BinLoops
    BY DEF Children, BinLoops
  <2> QED  BY <1>1, <2>1, DepthGrows
<1>7. \A c \in BinLoops : Depth(pair.bin, c) > Depth(pair.bin, b) => c \in DOMAIN map
  <2>1. SUFFICES ASSUME NEW c \in BinLoops, Depth(pair.bin, c) > Depth(pair.bin, b), c \notin DOMAIN map
                 PROVE  FALSE
    OBVIOUS
  <2>2. Depth(pair.bin, b) >= Depth(pair.bin, c) /\ Depth(pair.bin, b) \in Nat /\ Depth(pair.bin, c) \in Nat
    BY <1>1, <1>6, <2>1
  <2> QED  BY <2>1, <2>2
<1>8. \A n \in DOMAIN map :
        /\ n \in BinLoops /\ map[n] \subseteq OwnKeys(n) /\ OwnKeys(n) \subseteq taken
        /\ \A c \in BinLoops : Depth(pair.bin, c) > Depth(pair.bin, n) => c \in DOMAIN map
        /\ \A c \in Children(pair.bin, n) : map[n] \cap OwnKeys(c) = {}
        /\ \A k \in OwnKeys(n) :
              (\A c \in BinLoops : k \in OwnKeys(c) => n \in Within(c)) => k \in map[n]
  BY DEF KeysKeptIn, taken
<1>9. ASSUME NEW c \in Children(pair.bin, b) PROVE free \cap OwnKeys(c) = {}
  <2>1. c \in DOMAIN map
    BY <1>6, <1>7
  <2> QED  BY <1>8, <2>1
<1>10. ASSUME NEW k \in OwnKeys(b), \A c \in BinLoops : k \in OwnKeys(c) => b \in Within(c)
       PROVE  k \in free
  <2>1. SUFFICES ASSUME k \in taken PROVE FALSE
    OBVIOUS
  <2>2. PICK n \in DOMAIN map : k \in map[n]
    BY <1>3, <2>1
  <2>3. n \in BinLoops /\ k \in OwnKeys(n) /\ n # b
    BY <1>1, <1>8, <2>2
  <2>4. Depth(pair.bin, b) > Depth(pair.bin, n)
    BY <1>6, <1>10, <2>3
  <2>5. b \in DOMAIN map
    BY <1>1, <1>8, <2>4
  <2> QED  BY <1>1, <2>5
<1>11. free \subseteq OwnKeys(b)
  OBVIOUS
<1> HIDE DEF free
<1> DEFINE Good(n) ==
              /\ n \in BinLoops /\ next[n] \subseteq OwnKeys(n) /\ OwnKeys(n) \subseteq UNION Range(next)
              /\ \A c \in BinLoops : Depth(pair.bin, c) > Depth(pair.bin, n) => c \in DOMAIN next
              /\ \A c \in Children(pair.bin, n) : next[n] \cap OwnKeys(c) = {}
              /\ \A k \in OwnKeys(n) :
                    (\A c \in BinLoops : k \in OwnKeys(c) => n \in Within(c)) => k \in next[n]
<1>12. Good(b)
  BY <1>1, <1>2, <1>5, <1>7, <1>9, <1>10, <1>11
<1>13. ASSUME NEW n \in DOMAIN map PROVE Good(n)
  <2>1. OwnKeys(n) \subseteq UNION Range(next)
    BY <1>5, <1>8
  <2>2. next[n] = map[n] /\ DOMAIN map \subseteq DOMAIN next
    BY <1>2
  <2> QED  BY <1>8, <2>1, <2>2
<1>14. \A n \in DOMAIN next : Good(n)
  <2> HIDE DEF Good
  <2> QED  BY <1>2, <1>12, <1>13
<1> QED  BY <1>14 DEF KeysKeptIn

\* The keys by which a loop is matched are those at lines of its own, and it has one.
LEMMA TellingIsOwn ==
    ASSUME pair \in PairsOfTrees, WellTold, KeysKeptIn(dwUnqMap), NEW b \in DOMAIN dwUnqMap,
           pair.bin.parent[b] \in BinLoops =>
               map_loop_binary[pair.bin.parent[b]] = pair.bin.parent[b]
    PROVE  /\ dwUnqMap[b] # {} /\ Telling(b) # {}
           /\ \A k \in Telling(b) : At(pair.line[k], b)
<1> DEFINE up == pair.bin.parent[b]
           keys == dwUnqMap[b]
           At_(k, s) == At(pair.line[k], s)
           loop(k) == SourceLoop(pair.line[k])
<1>1. IsLaidOut /\ Traceable /\ pair.bin.parent = pair.src.parent
  BY LaidOut DEF WellTold, Traceable
<1>2. b \in BinLoops /\ b \in SrcLoops /\ SrcLoops = BinLoops /\ up \in BinLoops \cup {Root} /\ up # b
      /\ SrcLoops \subseteq Nat /\ NoLoop \notin Nat
  <2>1. b \in BinLoops /\ SrcLoops = BinLoops /\ BinLoops \subseteq Nat /\ NoLoop \notin Nat
    BY <1>1, DepthGrows, PairFacts DEF KeysKeptIn
  <2>2. up \in BinLoops \cup {Root} /\ up < b /\ up \in Nat /\ b \in Nat
    BY <2>1, TreeFacts DEF BinLoops
  <2> QED  BY <2>1, <2>2
<1>3. PICK mine \in OwnKeys(b) : At_(mine, b) /\ \A c \in BinLoops : mine \in OwnKeys(c) => b \in Within(c)
  BY <1>1, <1>2 DEF Traceable
<1>4. mine \in keys
  BY <1>2, <1>3 DEF KeysKeptIn
<1>5. \A k \in keys : \/ At_(k, b) /\ loop(k) = b
                      \/ up \in BinLoops /\ loop(k) = up
                      \/ loop(k) = NoLoop
  <2>1. SUFFICES ASSUME NEW k \in keys
                 PROVE  \/ At_(k, b) /\ loop(k) = b
                        \/ up \in BinLoops /\ loop(k) = up
                        \/ loop(k) = NoLoop
    OBVIOUS
  <2>2. k \in OwnKeys(b) /\ \A c \in Children(pair.bin, b) : k \notin OwnKeys(c)
    BY <2>1 DEF KeysKeptIn
  <2>3. \/ At_(k, b)
        \/ up # Root /\ At_(k, up)
        \/ \A s \in SrcLoops : pair.line[k] \notin Extent(s)
    BY <1>1, <1>2, <2>2 DEF Traceable
  <2>4. At_(k, b) => loop(k) = b
    BY <1>1, <1>2, AtIsFound
  <2>5. up # Root /\ At_(k, up) => up \in BinLoops /\ loop(k) = up
    BY <1>1, <1>2, AtIsFound
  <2>6. (\A s \in SrcLoops : pair.line[k] \notin Extent(s)) => loop(k) = NoLoop
    BY <1>1, OutsideIsNoLoop
  <2> HIDE DEF loop, up, At_
  <2> QED  BY <2>3, <2>4, <2>5, <2>6
<1>6. loop(mine) = b
  BY <1>1, <1>2, <1>3, AtIsFound
<1>7. \A k : k \in Telling(b) <=>
          /\ k \in keys /\ loop(k) # NoLoop
          /\ up # Root /\ Cardinality(keys) > 1 => loop(k) # map_loop_binary[up]
  BY DEF Telling
<1>8. up # Root => map_loop_binary[up] = up
  BY <1>2
<1>9. IsFiniteSet(keys)
  <2>1. \A c \in BinLoops : pair.bin.head[c] \cup pair.bin.rest[c] \subseteq DOMAIN pair.line
    BY PairFacts
  <2>2. Children(pair.bin, b) \subseteq BinLoops
    BY DEF Children, BinLoops
  <2>3. OwnKeys(b) \in SUBSET DOMAIN pair.line
    BY <1>2, <2>1, <2>2 DEF OwnKeys
  <2>4. keys \in SUBSET DOMAIN pair.line
    BY <2>3 DEF KeysKeptIn
  <2>5. IsFiniteSet(DOMAIN pair.line)
    BY PairsArePairs DEF IsPair
  <2> HIDE DEF keys
  <2> QED  BY <2>4, <2>5, FS_Subset
<1>10. \A k \in keys : k # mine => Cardinality(keys) > 1
  <2>1. SUFFICES ASSUME NEW k \in keys, k # mine PROVE Cardinality(keys) > 1
    OBVIOUS
  <2> HIDE DEF keys
  <2>2. Cardinality(keys) \in Nat /\ Cardinality(keys) # 0
    BY <1>4, <1>9, FS_CardinalityType, FS_EmptySet
  <2>3. Cardinality(keys) # 1
    BY <1>4, <1>9, <2>1, FS_Singleton
  <2> QED  BY <2>2, <2>3
<1> HIDE DEF keys, loop, up, At_
<1>11. mine \in Telling(b)
  BY <1>2, <1>4, <1>6, <1>7, <1>8
<1>12. ASSUME NEW k \in Telling(b) PROVE At_(k, b)
  <2>1. k \in keys /\ loop(k) # NoLoop
    BY <1>7
  <2>2. ASSUME up \in BinLoops, loop(k) = up PROVE FALSE
    <3>1. k # mine /\ up # Root
      <4>1. Root \notin BinLoops
        BY TreeFacts DEF BinLoops
      <4> QED  BY <1>2, <1>6, <2>2, <4>1
    <3>2. Cardinality(keys) > 1
      BY <1>10, <2>1, <3>1
    <3> QED  BY <1>7, <1>8, <2>2, <3>1, <3>2
  <2> QED  BY <1>5, <2>1, <2>2
<1> QED  BY <1>4, <1>11, <1>12 DEF keys, At_

\* Each loop that has been matched is matched with its own.
LoopsTraced ==
    /\ stage # "refused"
    /\ stage \in {"match", "done"} => DOMAIN dwUnqMap = BinLoops
    /\ \A b \in DOMAIN map_loop_binary : map_loop_binary[b] = b
    /\ stage = "done" => loops_to_match = [s \in SrcLoops |-> s]

\* What is kept by each step.
TraceInvariant ==
    /\ pair \in PairsOfTrees
    /\ WellTold => KeysKeptIn(dwUnqMap) /\ LoopsTraced

\* What is said of the pair alone is so after each step.
LEMMA PairStays ==
    ASSUME UNCHANGED pair
    PROVE  /\ WellTold' <=> WellTold
           /\ BinLoops' = BinLoops /\ SrcLoops' = SrcLoops
           /\ KeysKeptIn(dwUnqMap)' <=> KeysKeptIn(dwUnqMap')
<1>1. BinLoops' = BinLoops /\ SrcLoops' = SrcLoops
  BY DEF BinLoops, SrcLoops
<1>2. \A n : Within(n)' = Within(n)
  BY DEF Within, SrcLoops, Children
<1>3. WellTold' <=> WellTold
  BY <1>1 DEF WellTold, WellFormatted, Traceable, Extent, Within, At, OwnKeys, BinLoops, SrcLoops, Children
<1>4. KeysKeptIn(dwUnqMap)' <=> KeysKeptIn(dwUnqMap')
  BY DEF KeysKeptIn, OwnKeys, BinLoops, SrcLoops, Children, Depth, Within
<1> QED  BY <1>1, <1>3, <1>4

\* No loop has keys or a match at the start.
LEMMA TraceInit == Init => TraceInvariant
BY DEF Init, TraceInvariant, KeysKeptIn, LoopsTraced

\* A loop takes its keys.
LEMMA TakeKeysTraces ==
    ASSUME TraceInvariant, TakeKeys
    PROVE  TraceInvariant'
<1>1. /\ stage = "keys" /\ pair \in PairsOfTrees
      /\ UNCHANGED <<pair, stage, map_loop_binary, loops_to_match>>
  BY DEF TakeKeys, TraceInvariant
<1>2. SUFFICES ASSUME WellTold PROVE KeysKeptIn(dwUnqMap') /\ LoopsTraced'
  BY <1>1, PairStays DEF TraceInvariant
<1>3. KeysKeptIn(dwUnqMap) /\ LoopsTraced
  BY <1>2 DEF TraceInvariant
<1>4. PICK b \in DeepestOf(BinLoops \ DOMAIN dwUnqMap) :
          dwUnqMap' = Assign(dwUnqMap, b, OwnKeys(b) \ UNION Range(dwUnqMap))
  BY DEF TakeKeys
<1>5. pair.bin.parent = pair.src.parent
  BY <1>2 DEF WellTold, Traceable
<1>6. KeysKeptIn(dwUnqMap')
  BY <1>1, <1>3, <1>4, <1>5, KeysAreKept
<1>7. LoopsTraced'
  BY <1>1, <1>3 DEF LoopsTraced
<1> QED  BY <1>6, <1>7

\* No loop is refused for being on one line.
LEMMA CheckSourceLoopsTraces ==
    ASSUME TraceInvariant, CheckSourceLoops
    PROVE  TraceInvariant'
<1>1. /\ stage = "keys" /\ pair \in PairsOfTrees /\ DOMAIN dwUnqMap = BinLoops
      /\ stage' = IF \E s \in SrcLoops : OnOneLine(s) THEN "refused" ELSE "match"
      /\ UNCHANGED <<pair, dwUnqMap, map_loop_binary, loops_to_match>>
  BY DEF CheckSourceLoops, TraceInvariant
<1>2. SUFFICES ASSUME WellTold PROVE KeysKeptIn(dwUnqMap') /\ LoopsTraced'
  BY <1>1, PairStays DEF TraceInvariant
<1>3. KeysKeptIn(dwUnqMap) /\ LoopsTraced
  BY <1>2 DEF TraceInvariant
<1>4. \A s \in SrcLoops : ~OnOneLine(s)
  BY <1>1, <1>2, LaidOut, NotOnOneLine DEF WellTold
<1>5. stage' = "match"
  BY <1>1, <1>4
<1>6. LoopsTraced'
  BY <1>1, <1>3, <1>5, PairStays DEF LoopsTraced
<1> QED  BY <1>1, <1>3, <1>6

\* A loop has keys, and these lead to itself.
LEMMA MatchLoopTraces ==
    ASSUME TraceInvariant, MatchLoop
    PROVE  TraceInvariant'
<1>1. /\ stage = "match" /\ pair \in PairsOfTrees
      /\ UNCHANGED <<pair, dwUnqMap, loops_to_match>>
  BY DEF MatchLoop, TraceInvariant
<1>2. SUFFICES ASSUME WellTold PROVE KeysKeptIn(dwUnqMap') /\ LoopsTraced'
  BY <1>1, PairStays DEF TraceInvariant
<1>3. KeysKeptIn(dwUnqMap) /\ LoopsTraced
  BY <1>2 DEF TraceInvariant
<1>4. DOMAIN dwUnqMap = BinLoops /\ \A b \in DOMAIN map_loop_binary : map_loop_binary[b] = b
  BY <1>1, <1>3 DEF LoopsTraced
<1>5. PICK b \in BinLoops \ DOMAIN map_loop_binary :
        /\ pair.bin.parent[b] \in DOMAIN map_loop_binary \cup {Root}
        /\ IF dwUnqMap[b] = {}
           THEN stage' = "refused" /\ UNCHANGED map_loop_binary
           ELSE /\ map_loop_binary' = Assign(map_loop_binary, b,
                      IF b \in pair.skip \/ Telling(b) = {} THEN NoLoop
                      ELSE LoopAt(Telling(b)))
                /\ UNCHANGED stage
  BY DEF MatchLoop
<1>6. b \in SrcLoops /\ b \in DOMAIN dwUnqMap /\ b \notin pair.skip
  BY <1>1, <1>2, <1>4, <1>5, DepthGrows DEF WellTold, Traceable
<1>7. pair.bin.parent[b] \in BinLoops => map_loop_binary[pair.bin.parent[b]] = pair.bin.parent[b]
  <2>1. Root \notin BinLoops
    BY <1>1, TreeFacts DEF BinLoops
  <2> QED  BY <1>4, <1>5, <2>1
<1>8. /\ dwUnqMap[b] # {} /\ Telling(b) # {}
      /\ \A k \in Telling(b) : At(pair.line[k], b)
  BY <1>1, <1>2, <1>3, <1>6, <1>7, TellingIsOwn
<1>9. LoopAt(Telling(b)) = b
  <2>1. IsLaidOut
    BY <1>1, <1>2, LaidOut DEF WellTold
  <2> QED  BY <1>1, <1>6, <1>8, <2>1, LoopAtIsOwn
<1>10. stage' = stage /\ map_loop_binary' = Assign(map_loop_binary, b, b)
  BY <1>5, <1>6, <1>8, <1>9
<1>11. \A n \in DOMAIN map_loop_binary' : map_loop_binary'[n] = n
  BY <1>4, <1>10 DEF Assign
<1>12. LoopsTraced'
  BY <1>1, <1>3, <1>10, <1>11, PairStays DEF LoopsTraced
<1> QED  BY <1>1, <1>3, <1>12

\* With one binary loop for each source loop nothing is filtered out.
LEMMA FilterLoopsTraces ==
    ASSUME TraceInvariant, FilterLoops
    PROVE  TraceInvariant'
<1> DEFINE main    == [s \in SrcLoops |-> Main(s)]
           matched == {s \in SrcLoops : main[s] # {}}
<1>1. /\ stage = "match" /\ pair \in PairsOfTrees /\ DOMAIN map_loop_binary = BinLoops
      /\ UNCHANGED <<pair, dwUnqMap, map_loop_binary>>
  BY DEF FilterLoops, TraceInvariant
<1>2. SUFFICES ASSUME WellTold PROVE KeysKeptIn(dwUnqMap') /\ LoopsTraced'
  BY <1>1, PairStays DEF TraceInvariant
<1>3. KeysKeptIn(dwUnqMap) /\ LoopsTraced
  BY <1>2 DEF TraceInvariant
<1>4. BinLoops = SrcLoops /\ \A b \in BinLoops : map_loop_binary[b] = b
  BY <1>1, <1>2, <1>3, DepthGrows DEF LoopsTraced, WellTold, Traceable
<1>5. \A s \in SrcLoops : Main(s) = {s}
  <2>1. SUFFICES ASSUME NEW s \in SrcLoops PROVE Main(s) = {s}
    OBVIOUS
  <2>2. MappedTo(s) = {s}
    BY <1>1, <1>4 DEF MappedTo
  <2>3. Cardinality({s}) = 1
    BY FS_Singleton
  <2> QED  BY <2>2, <2>3 DEF Main
<1>6. /\ matched = SrcLoops /\ \A s \in SrcLoops : main[s] = {s}
      /\ \A s \in matched : Cardinality(main[s]) = 1
  <2>1. \A s : Cardinality({s}) = 1
    BY FS_Singleton
  <2> QED  BY <1>5, <2>1
<1>7. /\ loops_to_match' = [s \in matched |-> CHOOSE b \in main[s] : TRUE]
      /\ stage' \in {"done", "miscounted"}
  BY <1>6 DEF FilterLoops
<1> HIDE DEF main
<1>8. \A s \in SrcLoops : (CHOOSE b \in main[s] : TRUE) = s
  BY <1>6
<1>9. loops_to_match' = [s \in SrcLoops |-> s]
  <2>1. loops_to_match' = [s \in SrcLoops |-> CHOOSE b \in main[s] : TRUE]
    BY <1>6, <1>7
  <2> QED  BY <1>8, <2>1
<1>10. LoopsTraced'
  BY <1>1, <1>3, <1>7, <1>9, PairStays DEF LoopsTraced
<1> QED  BY <1>1, <1>3, <1>10

\* A step that changes nothing keeps the invariant.
LEMMA UnchangedTraces ==
    ASSUME TraceInvariant, UNCHANGED vars
    PROVE  TraceInvariant'
<1>1. UNCHANGED <<pair, stage, dwUnqMap, map_loop_binary, loops_to_match>>
  BY DEF vars
<1>2. LoopsTraced' <=> LoopsTraced
  BY <1>1, PairStays DEF LoopsTraced
<1> QED  BY <1>1, <1>2, PairStays DEF TraceInvariant

\* Where debug information is that good, loop_matcher.py matches every loop with its own,
\* whatever order find_unq_dw and the matching take the loops of one depth in, and does not
\* refuse the function.
THEOREM TraceableLoopsAreMatched == Spec => []TraceableIsMatched
<1>1. TraceInvariant /\ [Next]_vars => TraceInvariant'
  BY TakeKeysTraces, CheckSourceLoopsTraces, MatchLoopTraces, FilterLoopsTraces, UnchangedTraces
  DEF Next, Ended
<1>2. TraceInvariant => TraceableIsMatched
  BY DEF TraceInvariant, TraceableIsMatched, WellTold, LoopsTraced
<1> QED  BY <1>1, <1>2, TraceInit, PTL DEF Spec
===============================================================================
