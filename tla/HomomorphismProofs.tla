------------------------- MODULE HomomorphismProofs -------------------------
(***************************************************************************)
(* HomomorphismMapper keeps dominance and makes progress, for any pair of  *)
(* trees, any references and fixed points, and any order of the tests.     *)
(***************************************************************************)
EXTENDS HomomorphismMapper, FlowGraphTheorems, SequenceTheorems

(* Dominance itself does not matter: all that is used of Fails is that it  *)
(* treats both nodes alike and looks at their images only.                 *)
LEMMA FailsBothWays ==
    ASSUME NEW map, NEW b, NEW b_, Fails(map, b, b_)
    PROVE  Fails(map, b_, b)
BY DEF Fails

\* Whether a pair fails depends on the images of its two nodes only.
LEMMA FailsByImages ==
    ASSUME NEW map, NEW other, NEW b, NEW b_, map[b] = other[b], map[b_] = other[b_],
           Fails(map, b, b_)
    PROVE  Fails(other, b, b_)
BY DEF Fails

\* A map in which no pair fails keeps dominance.
LEMMA HomomorphismIfNoneFails ==
    ASSUME NEW map
    PROVE  IsHomomorphism(map) <=> \A b, b_ \in Mapped(map) : b # b_ => ~Fails(map, b, b_)
<1>1. \A b, b_ : Fails(map, b, b_) <=>
          ~(/\ BinDominates(b, b_) <=> SrcDominates(map[b], map[b_])
            /\ BinDominates(b_, b) <=> SrcDominates(map[b_], map[b]))
  BY DEF Fails, BinDominates, SrcDominates
<1> QED  BY <1>1 DEF IsHomomorphism

-----------------------------------------------------------------------------
(* A round.  A pair is settled when it cannot be rejected any more.        *)

FixedNodes == DOMAIN input.fixed

Settled(map, b, b_) == b = b_ \/ ~({b, b_} \subseteq Mapped(map)) \/ ~Fails(map, b, b_)

\* What the tests of a round that begins with map can come to.
Found(map) ==
    [map   : [DOMAIN map -> Range(map) \cup {NoNode}],
     confl : SUBSET ((DOMAIN map) \X Range(map) \X (DOMAIN map) \X Range(map)),
     back  : SUBSET DOMAIN map]

\* Only nodes that are not fixed lose their images; each conflict found is one of map,
\* and known for both of its nodes; nothing happens without a conflict.
Narrowed(map, found) ==
    /\ \A n \in DOMAIN map :
          found.map[n] = map[n] \/ (found.map[n] = NoNode /\ n \notin FixedNodes)
    /\ found.back \cap FixedNodes = {}
    /\ \A c \in found.confl : \E b, b_ \in Mapped(map) :
          /\ b # b_ /\ Fails(map, b, b_)
          /\ c \in Conflict(map, b, b_) /\ Conflict(map, b, b_) \subseteq found.confl
    /\ found.confl = {} => found.map = map /\ found.back = {}

Outcomes(map) == {found \in Found(map) : Narrowed(map, found)}

\* What a series of rejections comes to: the map, with nodes mapped to none.
LEMMA OutcomeFacts ==
    ASSUME NEW map, NEW found \in Outcomes(map)
    PROVE  /\ DOMAIN found.map = DOMAIN map
           /\ Mapped(found.map) \subseteq Mapped(map)
           /\ \A n \in Mapped(found.map) : found.map[n] = map[n]
<1>1. found.map \in [DOMAIN map -> Range(map) \cup {NoNode}] /\ Narrowed(map, found)
  BY DEF Outcomes, Found
<1>2. \A n \in Mapped(found.map) : n \in DOMAIN map /\ found.map[n] = map[n] /\ map[n] # NoNode
  BY <1>1 DEF Mapped, Narrowed
<1> QED  BY <1>1, <1>2 DEF Mapped

\* A test of two nodes leads from outcome to outcome.
LEMMA RejectNarrows ==
    ASSUME NEW map, NEW found \in Outcomes(map), NEW b, NEW b_
    PROVE  Reject(found, b, b_) \in Outcomes(map)
<1>1. SUFFICES ASSUME ~Settled(found.map, b, b_) PROVE Reject(found, b, b_) \in Outcomes(map)
  BY DEF Reject, Settled
<1> DEFINE back == {b, b_} \ FixedNodes
           less == [n \in DOMAIN found.map |-> IF n \in back THEN NoNode ELSE found.map[n]]
           next == [map |-> less, confl |-> found.confl \cup Conflict(found.map, b, b_),
                    back |-> found.back \cup back]
<1>2. Reject(found, b, b_) = next
  BY <1>1 DEF Reject, Settled, FixedNodes
<1>3. /\ found \in Found(map) /\ Narrowed(map, found)
      /\ found.map \in [DOMAIN map -> Range(map) \cup {NoNode}]
      /\ found.confl \subseteq (DOMAIN map) \X Range(map) \X (DOMAIN map) \X Range(map)
      /\ found.back \subseteq DOMAIN map
  BY DEF Outcomes, Found
<1>4. /\ b # b_ /\ b \in Mapped(map) /\ b_ \in Mapped(map) /\ Fails(map, b, b_)
      /\ found.map[b] = map[b] /\ found.map[b_] = map[b_]
      /\ Conflict(found.map, b, b_) = Conflict(map, b, b_)
  <2>1. b # b_ /\ b \in Mapped(found.map) /\ b_ \in Mapped(found.map) /\ Fails(found.map, b, b_)
    BY <1>1 DEF Settled
  <2>2. /\ b \in Mapped(map) /\ b_ \in Mapped(map)
        /\ found.map[b] = map[b] /\ found.map[b_] = map[b_]
    BY <2>1, OutcomeFacts
  <2>3. Fails(map, b, b_)
    BY <2>1, <2>2, FailsByImages
  <2> QED  BY <2>1, <2>2, <2>3 DEF Conflict
<1>5. next \in Found(map)
  <2>1. less \in [DOMAIN map -> Range(map) \cup {NoNode}]
    BY <1>3
  <2>2. /\ b \in DOMAIN map /\ b_ \in DOMAIN map /\ map[b] \in Range(map) /\ map[b_] \in Range(map)
    BY <1>4 DEF Mapped, Range
  <2>3. Conflict(map, b, b_) \subseteq (DOMAIN map) \X Range(map) \X (DOMAIN map) \X Range(map)
    <3>1. /\ <<b, map[b], b_, map[b_]>> \in (DOMAIN map) \X Range(map) \X (DOMAIN map) \X Range(map)
          /\ <<b_, map[b_], b, map[b]>> \in (DOMAIN map) \X Range(map) \X (DOMAIN map) \X Range(map)
      BY <2>2
    <3> QED  BY <3>1 DEF Conflict
  <2> HIDE DEF less
  <2> QED  BY <1>3, <1>4, <2>1, <2>2, <2>3 DEF Found
<1>6. Narrowed(map, next)
  <2>1. ASSUME NEW n \in DOMAIN map
        PROVE  less[n] = map[n] \/ (less[n] = NoNode /\ n \notin FixedNodes)
    BY <1>3 DEF Narrowed
  <2>2. (found.back \cup back) \cap FixedNodes = {}
    BY <1>3 DEF Narrowed
  <2>3. ASSUME NEW c \in next.confl
        PROVE  \E x, y \in Mapped(map) :
                  /\ x # y /\ Fails(map, x, y)
                  /\ c \in Conflict(map, x, y) /\ Conflict(map, x, y) \subseteq next.confl
    <3>1. CASE c \in found.confl
      <4>1. PICK x, y \in Mapped(map) :
                /\ x # y /\ Fails(map, x, y)
                /\ c \in Conflict(map, x, y) /\ Conflict(map, x, y) \subseteq found.confl
        BY <1>3, <3>1 DEF Narrowed
      <4> QED  BY <4>1
    <3>2. CASE c \in Conflict(map, b, b_)
      BY <1>4, <3>2
    <3> QED  BY <1>4, <2>3, <3>1, <3>2
  <2>4. next.confl # {}
    BY DEF Conflict
  <2> HIDE DEF less
  <2> QED  BY <2>1, <2>2, <2>3, <2>4 DEF Narrowed
<1> QED  BY <1>2, <1>5, <1>6 DEF Outcomes

\* No two fixed nodes are in conflict.
FixedAgree(map) == \A b, b_ \in FixedNodes : b # b_ => ~Fails(map, b, b_)

\* A test settles its pair and unsettles none.
LEMMA RejectSettles ==
    ASSUME NEW map, FixedAgree(map), NEW found \in Outcomes(map), NEW b, NEW b_
    PROVE  /\ Settled(Reject(found, b, b_).map, b, b_)
           /\ \A x, y : Settled(found.map, x, y) => Settled(Reject(found, b, b_).map, x, y)
<1>1. CASE Settled(found.map, b, b_)
  BY <1>1 DEF Reject, Settled
<1>2. CASE ~Settled(found.map, b, b_)
  <2> DEFINE back == {b, b_} \ FixedNodes
             less == Reject(found, b, b_).map
  <2>1. less = [n \in DOMAIN found.map |-> IF n \in back THEN NoNode ELSE found.map[n]]
    BY <1>2 DEF Reject, Settled, FixedNodes
  <2>2. b # b_ /\ b \in Mapped(found.map) /\ b_ \in Mapped(found.map) /\ Fails(found.map, b, b_)
    BY <1>2 DEF Settled
  <2>3. Fails(map, b, b_)
    BY <2>2, OutcomeFacts, FailsByImages
  <2>4. back # {}
    BY <2>2, <2>3 DEF FixedAgree
  <2>5. Settled(less, b, b_)
    BY <2>1, <2>4 DEF Settled, Mapped
  <2>6. ASSUME NEW x, NEW y, Settled(found.map, x, y), ~Settled(less, x, y) PROVE FALSE
    <3>1. x # y /\ x \in Mapped(less) /\ y \in Mapped(less) /\ Fails(less, x, y)
      BY <2>6 DEF Settled
    <3> HIDE DEF less
    <3>2. /\ x \in Mapped(found.map) /\ y \in Mapped(found.map)
          /\ less[x] = found.map[x] /\ less[y] = found.map[y]
      BY <2>1, <3>1 DEF Mapped
    <3>3. Fails(found.map, x, y)
      BY <3>1, <3>2, FailsByImages
    <3> QED  BY <2>6, <3>1, <3>2, <3>3 DEF Settled
  <2> QED  BY <2>5, <2>6
<1> QED  BY <1>1, <1>2
\* The inner loop settles what it tests b with.
LEMMA RowSettled ==
    ASSUME NEW map, FixedAgree(map), NEW found \in Outcomes(map), NEW b,
           NEW order, Len(order) \in Nat
    PROVE  /\ RejectedFor(found, order, b) \in Outcomes(map)
           /\ \A x, y : Settled(found.map, x, y) =>
                            Settled(RejectedFor(found, order, b).map, x, y)
           /\ \A j \in 1 .. Len(order) : Settled(RejectedFor(found, order, b).map, b, order[j])
<1> DEFINE V     == Outcomes(map)
           step  == [p \in Nat \X V |-> Reject(p[2], b, order[p[1] + 1])]
           Is(f) == f = [j \in Nat |-> IF j = 0 THEN found ELSE Reject(f[j - 1], b, order[j])]
           after == CHOOSE f : Is(f)
<1>1. \E f : Is(f)
  <2>1. ASSUME NEW p \in Nat \X V PROVE step[p] \in V
    BY <2>1, RejectNarrows
  <2>2. IsCountedMap(step, V)
    <3> HIDE DEF V
    <3> QED  BY <2>1 DEF IsCountedMap
  <2>3. PICK g : IsRecursion(g, found, step, V)
    <3> HIDE DEF V, step
    <3>1. found \in V
      BY DEF V
    <3> QED  BY <2>2, <3>1, RecursionExists
  <2>4. ASSUME NEW j \in Nat, j # 0 PROVE g[j] = Reject(g[j - 1], b, order[j])
    <3>1. j - 1 \in Nat /\ (j - 1) + 1 = j
      BY <2>4
    <3>2. g[(j - 1) + 1] = step[<<j - 1, g[j - 1]>>] /\ <<j - 1, g[j - 1]>> \in Nat \X V
      BY <2>3, <3>1 DEF IsRecursion
    <3> QED  BY <3>1, <3>2
  <2>5. Is(g)
    <3> HIDE DEF step, V
    <3> QED  BY <2>3, <2>4 DEF IsRecursion
  <2> QED  BY <2>5
<1>2. Is(after)
  <2> HIDE DEF Is
  <2> QED  BY <1>1
<1> HIDE DEF after
<1>3. /\ after[0] = found
      /\ \A n \in Nat : after[n + 1] = Reject(after[n], b, order[n + 1])
  <2>1. ASSUME NEW n \in Nat PROVE after[n + 1] = Reject(after[n], b, order[n + 1])
    <3>1. n + 1 \in Nat /\ n + 1 # 0 /\ (n + 1) - 1 = n
      OBVIOUS
    <3> QED  BY <1>2, <3>1
  <2> QED  BY <1>2, <2>1
<1>4. ASSUME NEW n \in Nat
      PROVE  /\ after[n] \in Outcomes(map)
             /\ \A x, y : Settled(found.map, x, y) => Settled(after[n].map, x, y)
             /\ \A j \in 1 .. n : Settled(after[n].map, b, order[j])
  <2> DEFINE S == {k \in Nat : /\ after[k] \in Outcomes(map)
                               /\ \A x, y : Settled(found.map, x, y) => Settled(after[k].map, x, y)
                               /\ \A j \in 1 .. k : Settled(after[k].map, b, order[j])}
  <2>1. 0 \in S
    BY <1>3
  <2>2. ASSUME NEW k \in S PROVE k + 1 \in S
    <3>1. /\ k \in Nat /\ after[k] \in Outcomes(map)
          /\ after[k + 1] = Reject(after[k], b, order[k + 1])
      BY <1>3
    <3>2. after[k + 1] \in Outcomes(map)
      BY <3>1, RejectNarrows
    <3>3. /\ Settled(after[k + 1].map, b, order[k + 1])
          /\ \A x, y : Settled(after[k].map, x, y) => Settled(after[k + 1].map, x, y)
      BY <3>1, RejectSettles
    <3>4. ASSUME NEW j \in 1 .. k + 1 PROVE Settled(after[k + 1].map, b, order[j])
      <4>1. CASE j = k + 1
        BY <3>3, <4>1
      <4>2. CASE j # k + 1
        <5>1. j \in 1 .. k
          BY <3>1, <4>2
        <5> QED  BY <3>3, <5>1
      <4> QED  BY <4>1, <4>2
    <3> QED  BY <3>1, <3>2, <3>3, <3>4
  <2>3. S = Nat
    <3>1. S \in SUBSET Nat
      OBVIOUS
    <3> HIDE DEF S
    <3> QED  BY <2>1, <2>2, <3>1, NaturalsByInduction
  <2> QED  BY <2>3
<1>5. RejectedFor(found, order, b) = after[Len(order)]
  BY DEF RejectedFor, after
<1> QED  BY <1>4, <1>5

\* Both loops together settle all pairs of the nodes they go through.
LEMMA LoopsSettle ==
    ASSUME NEW D, NEW R, NEW map \in [D -> R], FixedAgree(map), NEW order, Len(order) \in Nat
    PROVE  /\ RejectedAlong(map, order) \in Outcomes(map)
           /\ \A i, j \in 1 .. Len(order) :
                  Settled(RejectedAlong(map, order).map, order[i], order[j])
<1> DEFINE V     == Outcomes(map)
           first == [map |-> map, confl |-> {}, back |-> {}]
           step  == [p \in Nat \X V |-> RejectedFor(p[2], order, order[p[1] + 1])]
           Is(f) == f = [i \in Nat |-> IF i = 0 THEN first
                                       ELSE RejectedFor(f[i - 1], order, order[i])]
           after == CHOOSE f : Is(f)
<1>0. first \in V
  <2>1. map \in [DOMAIN map -> Range(map) \cup {NoNode}]
    BY DEF Range
  <2>2. first \in Found(map)
    BY <2>1 DEF Found
  <2>3. Narrowed(map, first)
    <3>1. first.map = map /\ first.confl = {} /\ first.back = {}
      OBVIOUS
    <3> HIDE DEF first
    <3> QED  BY <3>1 DEF Narrowed
  <2> QED  BY <2>2, <2>3 DEF Outcomes
<1>1. \E f : Is(f)
  <2>1. ASSUME NEW p \in Nat \X V PROVE step[p] \in V
    BY <2>1, RowSettled
  <2>2. IsCountedMap(step, V)
    <3> HIDE DEF V
    <3> QED  BY <2>1 DEF IsCountedMap
  <2>3. PICK g : IsRecursion(g, first, step, V)
    <3> HIDE DEF V, step, first
    <3> QED  BY <1>0, <2>2, RecursionExists
  <2>4. ASSUME NEW i \in Nat, i # 0 PROVE g[i] = RejectedFor(g[i - 1], order, order[i])
    <3>1. i - 1 \in Nat /\ (i - 1) + 1 = i
      BY <2>4
    <3>2. g[(i - 1) + 1] = step[<<i - 1, g[i - 1]>>] /\ <<i - 1, g[i - 1]>> \in Nat \X V
      BY <2>3, <3>1 DEF IsRecursion
    <3> QED  BY <3>1, <3>2
  <2>5. Is(g)
    <3> HIDE DEF step, V, first
    <3> QED  BY <2>3, <2>4 DEF IsRecursion
  <2> QED  BY <2>5
<1>2. Is(after)
  <2> HIDE DEF Is
  <2> QED  BY <1>1
<1> HIDE DEF after, first
<1>3. /\ after[0] = first
      /\ \A n \in Nat : after[n + 1] = RejectedFor(after[n], order, order[n + 1])
  <2>1. ASSUME NEW n \in Nat PROVE after[n + 1] = RejectedFor(after[n], order, order[n + 1])
    <3>1. n + 1 \in Nat /\ n + 1 # 0 /\ (n + 1) - 1 = n
      OBVIOUS
    <3> QED  BY <1>2, <3>1
  <2> QED  BY <1>2, <2>1
<1>4. ASSUME NEW n \in Nat
      PROVE  /\ after[n] \in Outcomes(map)
             /\ \A i \in 1 .. n, j \in 1 .. Len(order) : Settled(after[n].map, order[i], order[j])
  <2> DEFINE S == {k \in Nat : /\ after[k] \in Outcomes(map)
                               /\ \A i \in 1 .. k : \A j \in 1 .. Len(order) :
                                      Settled(after[k].map, order[i], order[j])}
  <2>1. 0 \in S
    BY <1>0, <1>3
  <2>2. ASSUME NEW k \in S PROVE k + 1 \in S
    <3>1. /\ k \in Nat /\ after[k] \in Outcomes(map)
          /\ after[k + 1] = RejectedFor(after[k], order, order[k + 1])
      BY <1>3
    <3>2. /\ after[k + 1] \in Outcomes(map)
          /\ \A x, y : Settled(after[k].map, x, y) => Settled(after[k + 1].map, x, y)
          /\ \A j \in 1 .. Len(order) : Settled(after[k + 1].map, order[k + 1], order[j])
      BY <3>1, RowSettled
    <3>3. ASSUME NEW i \in 1 .. k + 1, NEW j \in 1 .. Len(order)
          PROVE  Settled(after[k + 1].map, order[i], order[j])
      <4>1. CASE i = k + 1
        BY <3>2, <4>1
      <4>2. CASE i # k + 1
        <5>1. i \in 1 .. k
          BY <3>1, <4>2
        <5> QED  BY <3>2, <5>1
      <4> QED  BY <4>1, <4>2
    <3> QED  BY <3>1, <3>2, <3>3
  <2>3. S = Nat
    <3>1. S \in SUBSET Nat
      OBVIOUS
    <3> HIDE DEF S
    <3> QED  BY <2>1, <2>2, <3>1, NaturalsByInduction
  <2> QED  BY <2>3
<1>5. RejectedAlong(map, order) = after[Len(order)]
  BY DEF RejectedAlong, after, first
<1> QED  BY <1>4, <1>5
-----------------------------------------------------------------------------
(* What the selections of a round return.                                  *)

\* SetToSeqs lists all of a finite set.
LEMMA ListsAll ==
    ASSUME NEW S, IsFiniteSet(S), NEW order \in SetToSeqs(S)
    PROVE  /\ Len(order) \in Nat
           /\ \A i \in 1 .. Len(order) : order[i] \in S
           /\ \A x \in S : \E i \in 1 .. Len(order) : order[i] = x
<1> DEFINE n == Cardinality(S)
<1>1. n \in Nat
  BY FS_CardinalityType
<1>2. order \in [1 .. n -> S] /\ \A i, j \in 1 .. n : i # j => order[i] # order[j]
  BY DEF SetToSeqs
<1>3. Len(order) = n
  <2> HIDE DEF n
  <2>1. order \in Seq(S)
    BY <1>1, <1>2, SeqDef
  <2>2. DOMAIN order = 1 .. Len(order) /\ Len(order) \in Nat
    BY <2>1, LenProperties
  <2>3. 1 .. n = 1 .. Len(order)
    BY <1>2, <2>2
  <2>4. \A k \in Nat : k \in 1 .. n <=> k \in 1 .. Len(order)
    BY <2>3
  <2>5. ~(n < Len(order)) /\ ~(Len(order) < n)
    BY <1>1, <2>2, <2>4
  <2>6. \A k, m \in Nat : ~(k < m) /\ ~(m < k) => m = k
    OBVIOUS
  <2>7. n \in Nat /\ Len(order) \in Nat
    BY <1>1, <2>2
  <2> QED  BY <2>5, <2>6, <2>7
<1>4. order \in Surjection(1 .. n, S)
  <2>1. order \in Injection(1 .. n, S)
    BY <1>2 DEF Injection, IsInjective
  <2>2. IsFiniteSet(1 .. n) /\ Cardinality(1 .. n) = n
    BY <1>1, FS_Interval
  <2> QED  BY <2>1, <2>2, FS_Injection
<1>5. \A x \in S : \E i \in 1 .. n : order[i] = x
  BY <1>4 DEF Surjection
<1> QED  BY <1>1, <1>2, <1>3, <1>5

\* First returns an element that no other comes before.
LEMMA FirstIsFirst ==
    ASSUME NEW D, NEW S \in SUBSET D, S # {}, NEW order \in [D -> Nat]
    PROVE  First(S, order) \in S /\ \A y \in S : order[First(S, order)] <= order[y]
BY LeastByValue DEF First

-----------------------------------------------------------------------------
(* The invariant.                                                          *)

\* Beside what HomomorphismKept says, fixed nodes do not leave the map during the
\* rounds, and every image is a source node.
InductiveInvariant ==
    /\ input \in Inputs
    /\ HomomorphismKept
    /\ f_map \in [DOMAIN f_map -> input.src.node \cup {NoNode}]
    /\ stage = "start" => f_map = input.fixed
    /\ stage = "rounds" => FixedNodes \subseteq DOMAIN f_map

\* The assumption on Inputs, conjunct by conjunct.
LEMMA InputFacts ==
    ASSUME input \in Inputs
    PROVE  /\ IsFiniteSet(input.bin.node) /\ NoNode \notin input.src.node
           /\ input.nodes \subseteq input.bin.node
           /\ input.refs \in [input.nodes -> SUBSET input.src.node]
           /\ FixedNodes \subseteq input.bin.node
           /\ input.fixed \in [FixedNodes -> input.src.node]
           /\ input.order \in [input.bin.node -> Nat]
           /\ input.srcOrder \in [input.src.node -> Nat]
BY InputsAreInputs DEF IsInput, IsTree, FixedNodes

\* Whatever fails is rejected, wherever the test of it comes.
LEMMA RejectionsKeep ==
    ASSUME NEW D, NEW R, NEW map \in [D -> R], IsFiniteSet(D), FixedAgree(map),
           NEW found \in Rejections(map)
    PROVE  found \in Outcomes(map) /\ IsHomomorphism(found.map)
<1> DEFINE failing == {b \in Mapped(map) : \E b_ \in Mapped(map) \ {b} : Fails(map, b, b_)}
<1>1. PICK order \in SetToSeqs(failing) : found = RejectedAlong(map, order)
  BY DEF Rejections
<1>2. IsFiniteSet(failing)
  <2>1. failing \subseteq D
    BY DEF Mapped
  <2> QED  BY <2>1, FS_Subset
<1>3. /\ Len(order) \in Nat
      /\ \A x \in failing : \E i \in 1 .. Len(order) : order[i] = x
  <2> HIDE DEF failing
  <2> QED  BY <1>1, <1>2, ListsAll
<1>4. /\ found \in Outcomes(map)
      /\ \A i, j \in 1 .. Len(order) : Settled(found.map, order[i], order[j])
  BY <1>1, <1>3, LoopsSettle
<1>5. ASSUME NEW x \in Mapped(found.map), NEW y \in Mapped(found.map), x # y,
             Fails(found.map, x, y)
      PROVE  FALSE
  <2>1. /\ x \in Mapped(map) /\ y \in Mapped(map)
        /\ found.map[x] = map[x] /\ found.map[y] = map[y]
    BY <1>4, <1>5, OutcomeFacts
  <2>2. Fails(map, x, y) /\ Fails(map, y, x)
    BY <1>5, <2>1, FailsByImages, FailsBothWays
  <2>3. x \in failing /\ y \in failing
    BY <1>5, <2>1, <2>2
  <2>4. PICK i \in 1 .. Len(order) : order[i] = x
    BY <1>3, <2>3
  <2>5. PICK j \in 1 .. Len(order) : order[j] = y
    BY <1>3, <2>3
  <2>6. Settled(found.map, x, y)
    BY <1>4, <2>4, <2>5
  <2> QED  BY <1>5, <2>6 DEF Settled
<1> QED  BY <1>4, <1>5, HomomorphismIfNoneFails

\* In a round a node may get an image that does not conflict with what is known; then
\* failing pairs are rejected.
Gets(map, b, a) ==
    /\ b \in worklist /\ b \notin FixedNodes /\ a \in Selectable(b)
    /\ DOMAIN map = DOMAIN f_map \cup {b} /\ map[b] = a
    /\ \A n \in DOMAIN f_map \ {b} : map[n] = f_map[n]

IsRound(map, found) ==
    /\ found \in Outcomes(map) /\ IsHomomorphism(found.map)
    /\ map \in [DOMAIN map -> input.src.node \cup {NoNode}]
    /\ f_map' = found.map /\ f_confl' = f_confl \cup found.confl
    /\ \/ map = f_map /\ worklist' = found.back
       \/ \E b, a : /\ Gets(map, b, a)
                    /\ \E rest \in SUBSET (worklist \ {b}) : worklist' = rest \cup found.back

\* What a round maps, and what is left of it.
LEMMA RoundFacts ==
    ASSUME InductiveInvariant, Round
    PROVE  /\ stage = "rounds" /\ worklist # {} /\ UNCHANGED <<input, stage>>
           /\ \E map, found : IsRound(map, found)
<1> DEFINE able == {b \in worklist \ FixedNodes : Selectable(b) # {}}
           b    == First(able, input.order)
           a    == First(Selectable(b), input.srcOrder)
           map  == IF able = {} THEN f_map ELSE Assign(f_map, b, a)
           rest == IF able = {} THEN {}
                   ELSE {n \in worklist : input.order[n] > input.order[b]}
<1>1. /\ stage = "rounds" /\ worklist # {} /\ UNCHANGED <<input, stage>>
      /\ \E found \in Rejections(map) :
            /\ f_map' = found.map /\ f_confl' = f_confl \cup found.confl
            /\ worklist' = rest \cup found.back
  BY DEF Round, FixedNodes
<1>2. /\ input \in Inputs /\ IsHomomorphism(f_map)
      /\ worklist \subseteq input.nodes /\ DOMAIN f_map \subseteq input.bin.node
      /\ f_map \in [DOMAIN f_map -> input.src.node \cup {NoNode}]
      /\ FixedNodes \subseteq DOMAIN f_map
      /\ \A x \in FixedNodes : f_map[x] = input.fixed[x]
  BY <1>1, InputFacts DEF InductiveInvariant, HomomorphismKept, TypeOK, FixedNodes
<1>3. ASSUME able # {} PROVE Gets(map, b, a) /\ rest \in SUBSET (worklist \ {b})
  <2>1. able \in SUBSET input.bin.node
    BY <1>2, InputFacts
  <2>2. b \in able
    <3> HIDE DEF able
    <3> QED  BY <1>2, <1>3, <2>1, InputFacts, FirstIsFirst
  <2> HIDE DEF b
  <2>3. Selectable(b) \in SUBSET input.src.node /\ Selectable(b) # {}
    BY <1>2, <2>2, InputFacts DEF Selectable
  <2>4. a \in Selectable(b)
    BY <1>2, <2>3, InputFacts, FirstIsFirst
  <2> HIDE DEF a
  <2>5. map = Assign(f_map, b, a)
    BY <1>3
  <2>6. /\ DOMAIN map = DOMAIN f_map \cup {b} /\ map[b] = a
        /\ \A n \in DOMAIN f_map \ {b} : map[n] = f_map[n]
    BY <2>5 DEF Assign
  <2>7. rest \in SUBSET (worklist \ {b})
    <3>1. ~(input.order[b] > input.order[b])
      BY <1>2, <2>1, <2>2, InputFacts
    <3> QED  BY <1>3, <3>1
  <2> HIDE DEF map, rest
  <2> QED  BY <2>2, <2>4, <2>6, <2>7 DEF Gets
<1>4. /\ map \in [DOMAIN map -> input.src.node \cup {NoNode}]
      /\ DOMAIN map \subseteq input.bin.node
      /\ \A x \in FixedNodes : x \in DOMAIN map /\ map[x] = f_map[x]
  <2>1. CASE able = {}
    BY <1>2, <2>1
  <2>2. CASE able # {}
    <3>1. /\ b \in worklist /\ b \notin FixedNodes /\ a \in Selectable(b)
          /\ DOMAIN map = DOMAIN f_map \cup {b} /\ map[b] = a
          /\ \A n \in DOMAIN f_map \ {b} : map[n] = f_map[n]
      BY <1>3, <2>2 DEF Gets
    <3>2. map = [n \in DOMAIN map |-> map[n]]
      BY <2>2 DEF Assign
    <3> HIDE DEF map, a, b
    <3>3. a \in input.src.node /\ b \in input.bin.node
      BY <1>2, <3>1, InputFacts DEF Selectable
    <3>4. \A n \in DOMAIN map : map[n] \in input.src.node \cup {NoNode}
      BY <1>2, <3>1, <3>3
    <3> QED  BY <1>2, <3>1, <3>2, <3>3, <3>4
  <2> QED  BY <2>1, <2>2
<1> HIDE DEF map, rest
<1>5. FixedAgree(map)
  <2>1. ASSUME NEW x \in FixedNodes, NEW y \in FixedNodes, x # y, Fails(map, x, y) PROVE FALSE
    <3>1. Fails(f_map, x, y)
      BY <1>4, <2>1, FailsByImages
    <3>2. x \in Mapped(f_map) /\ y \in Mapped(f_map)
      BY <1>2, InputFacts DEF Mapped
    <3> QED  BY <1>2, <2>1, <3>1, <3>2, HomomorphismIfNoneFails
  <2> QED  BY <2>1 DEF FixedAgree
<1>6. IsFiniteSet(DOMAIN map)
  BY <1>2, <1>4, InputFacts, FS_Subset
<1>7. PICK found \in Rejections(map) :
            /\ f_map' = found.map /\ f_confl' = f_confl \cup found.confl
            /\ worklist' = rest \cup found.back
  BY <1>1
<1>8. found \in Outcomes(map) /\ IsHomomorphism(found.map)
  BY <1>4, <1>5, <1>6, RejectionsKeep
<1>9. \/ map = f_map /\ worklist' = found.back
      \/ \E x, y : /\ Gets(map, x, y)
                   /\ \E r \in SUBSET (worklist \ {x}) : worklist' = r \cup found.back
  <2>1. CASE able = {}
    <3>1. map = f_map /\ rest = {}
      BY <2>1 DEF map, rest
    <3> QED  BY <1>7, <3>1
  <2>2. CASE able # {}
    BY <1>3, <1>7, <2>2
  <2> QED  BY <2>1, <2>2
<1>10. IsRound(map, found)
  BY <1>4, <1>7, <1>8, <1>9 DEF IsRound
<1> QED  BY <1>1, <1>10
-----------------------------------------------------------------------------
(* The steps.                                                              *)

\* The invariant holds at the start.
LEMMA InitHolds == Init => InductiveInvariant
<1> SUFFICES ASSUME Init PROVE InductiveInvariant
  OBVIOUS
<1>1. /\ input \in Inputs /\ stage = "start" /\ worklist = input.nodes
      /\ f_map = input.fixed /\ f_confl = {}
  BY DEF Init
<1>2. f_map \in [FixedNodes -> input.src.node] /\ DOMAIN f_map = DOMAIN input.fixed
  BY <1>1, InputFacts DEF FixedNodes
<1>3. TypeOK
  BY <1>1, <1>2 DEF TypeOK, Mapped
<1> QED  BY <1>1, <1>2, <1>3 DEF InductiveInvariant, HomomorphismKept, FixedNodes

\* The test of the fixed points keeps it.
LEMMA TestFixedPointsKeeps ==
    ASSUME InductiveInvariant, TestFixedPoints
    PROVE  InductiveInvariant'
<1>1. /\ stage = "start" /\ stage' \in {"rounds", "aborted"} /\ f_map = input.fixed
      /\ UNCHANGED <<input, worklist, f_map, f_confl>>
      /\ stage' = "rounds" => \A b, b_ \in DOMAIN f_map : b # b_ => ~Fails(f_map, b, b_)
  BY DEF TestFixedPoints, InductiveInvariant
<1>2. /\ input \in Inputs /\ TypeOK
      /\ f_map \in [DOMAIN f_map -> input.src.node \cup {NoNode}]
  BY DEF InductiveInvariant, HomomorphismKept
<1>3. TypeOK'
  BY <1>1, <1>2 DEF TypeOK, Mapped
<1>4. stage' = "rounds" => IsHomomorphism(f_map)
  BY <1>1, HomomorphismIfNoneFails DEF Mapped
<1>5. stage' = "rounds" => IsHomomorphism(f_map)'
  BY <1>1, <1>4 DEF IsHomomorphism, Mapped, BinDominates, SrcDominates
<1> QED  BY <1>1, <1>2, <1>3, <1>5 DEF InductiveInvariant, HomomorphismKept, FixedNodes

\* A round keeps it.
LEMMA RoundKeeps ==
    ASSUME InductiveInvariant, Round
    PROVE  InductiveInvariant'
<1>1. stage = "rounds" /\ UNCHANGED <<input, stage>>
  BY RoundFacts
<1>2. PICK map, found : IsRound(map, found)
  BY RoundFacts
<1>3. /\ input \in Inputs /\ TypeOK
      /\ FixedNodes \subseteq DOMAIN f_map
      /\ \A x \in DOMAIN input.fixed : f_map[x] = input.fixed[x]
  BY <1>1 DEF InductiveInvariant, HomomorphismKept
<1>4. /\ worklist \subseteq input.nodes
      /\ DOMAIN f_map \subseteq input.nodes \cup FixedNodes
      /\ \A x \in Mapped(f_map) \ FixedNodes : f_map[x] \in input.refs[x]
      /\ f_confl \subseteq input.bin.node \X input.src.node \X input.bin.node \X input.src.node
  BY <1>3 DEF TypeOK, FixedNodes
<1>5. /\ found \in Outcomes(map) /\ IsHomomorphism(found.map)
      /\ map \in [DOMAIN map -> input.src.node \cup {NoNode}]
      /\ f_map' = found.map /\ f_confl' = f_confl \cup found.confl
  BY <1>2 DEF IsRound
<1>6. /\ found.map \in [DOMAIN map -> Range(map) \cup {NoNode}]
      /\ found.back \subseteq DOMAIN map /\ found.back \cap FixedNodes = {}
      /\ Narrowed(map, found)
  BY <1>5 DEF Outcomes, Found, Narrowed
<1>7. /\ DOMAIN map \subseteq input.nodes \cup FixedNodes
      /\ FixedNodes \subseteq DOMAIN map
      /\ \A x \in FixedNodes : map[x] = f_map[x]
      /\ \A x \in Mapped(map) \ FixedNodes : map[x] \in input.refs[x]
      /\ worklist' \subseteq worklist \cup found.back
  <2>1. CASE map = f_map /\ worklist' = found.back
    BY <1>3, <1>4, <2>1
  <2>2. ASSUME NEW b, NEW a, Gets(map, b, a),
               NEW rest \in SUBSET (worklist \ {b}), worklist' = rest \cup found.back
        PROVE  /\ DOMAIN map \subseteq input.nodes \cup FixedNodes
               /\ FixedNodes \subseteq DOMAIN map
               /\ \A x \in FixedNodes : map[x] = f_map[x]
               /\ \A x \in Mapped(map) \ FixedNodes : map[x] \in input.refs[x]
               /\ worklist' \subseteq worklist \cup found.back
    <3>1. b \in input.nodes /\ b \notin FixedNodes /\ a \in input.refs[b]
      BY <1>4, <2>2 DEF Gets, Selectable
    <3> QED  BY <1>3, <1>4, <2>2, <3>1 DEF Gets, Mapped
  <2> QED  BY <1>2, <2>1, <2>2 DEF IsRound
<1>8. /\ DOMAIN found.map = DOMAIN map
      /\ Mapped(found.map) \subseteq Mapped(map)
      /\ \A n \in Mapped(found.map) : found.map[n] = map[n]
  BY <1>5, OutcomeFacts
<1>9. found.confl \subseteq input.bin.node \X input.src.node \X input.bin.node \X input.src.node
  <2> SUFFICES ASSUME NEW c \in found.confl
               PROVE  c \in input.bin.node \X input.src.node \X input.bin.node \X input.src.node
    OBVIOUS
  <2>1. PICK x, y \in Mapped(map) : c \in Conflict(map, x, y)
    BY <1>6 DEF Narrowed
  <2>2. /\ x \in input.bin.node /\ y \in input.bin.node
        /\ map[x] \in input.src.node /\ map[y] \in input.src.node
    BY <1>3, <1>5, <1>7, InputFacts DEF Mapped
  <2> QED  BY <2>1, <2>2 DEF Conflict
<1>10. f_map' \in [DOMAIN f_map' -> input.src.node \cup {NoNode}]
  <2>1. \A n \in DOMAIN map : found.map[n] = map[n] \/ found.map[n] = NoNode
    BY <1>6 DEF Narrowed
  <2> QED  BY <1>5, <1>6, <2>1
<1>11. \A x \in FixedNodes : x \in DOMAIN f_map' /\ f_map'[x] = input.fixed[x]
  <2>1. \A n \in FixedNodes : found.map[n] = map[n]
    BY <1>6, <1>7 DEF Narrowed
  <2> QED  BY <1>3, <1>5, <1>7, <1>8, <2>1 DEF FixedNodes
<1>12. TypeOK'
  <2>1. worklist' \subseteq input.nodes
    BY <1>4, <1>6, <1>7
  <2>2. DOMAIN f_map' \subseteq input.nodes \cup DOMAIN input.fixed
    BY <1>5, <1>7, <1>8 DEF FixedNodes
  <2>3. \A b \in Mapped(f_map') \ DOMAIN input.fixed : f_map'[b] \in input.refs[b]
    BY <1>5, <1>7, <1>8 DEF FixedNodes
  <2>4. f_confl' \subseteq input.bin.node \X input.src.node \X input.bin.node \X input.src.node
    BY <1>4, <1>5, <1>9
  <2>5. stage' \in {"start", "rounds", "done", "aborted"}
    BY <1>1
  <2>6. Mapped(f_map)' = Mapped(f_map')
    BY DEF Mapped
  <2> QED  BY <1>1, <2>1, <2>2, <2>3, <2>4, <2>5, <2>6 DEF TypeOK
<1>13. IsHomomorphism(f_map)'
  BY <1>1, <1>5 DEF IsHomomorphism, Mapped, BinDominates, SrcDominates
<1> QED  BY <1>1, <1>3, <1>10, <1>11, <1>12, <1>13
         DEF InductiveInvariant, HomomorphismKept, FixedNodes

\* Removing entries keeps it.
LEMMA RemoveAmbiguousKeeps ==
    ASSUME InductiveInvariant, RemoveAmbiguous
    PROVE  InductiveInvariant'
<1>1. /\ stage = "rounds" /\ stage' = "done"
      /\ UNCHANGED <<input, worklist, f_confl>>
      /\ f_map' = Restrict(f_map, DOMAIN f_map \ Ambiguous)
  BY DEF RemoveAmbiguous
<1>2. /\ input \in Inputs /\ TypeOK /\ IsHomomorphism(f_map)
      /\ f_map \in [DOMAIN f_map -> input.src.node \cup {NoNode}]
  BY <1>1 DEF InductiveInvariant, HomomorphismKept
<1>3. /\ DOMAIN f_map' \subseteq DOMAIN f_map
      /\ \A n \in DOMAIN f_map' : f_map'[n] = f_map[n]
      /\ f_map' = [n \in DOMAIN f_map' |-> f_map'[n]]
  BY <1>1 DEF Restrict
<1>4. Mapped(f_map') \subseteq Mapped(f_map) /\ Mapped(f_map)' = Mapped(f_map')
  BY <1>3 DEF Mapped
<1>5. f_map' \in [DOMAIN f_map' -> input.src.node \cup {NoNode}]
  BY <1>2, <1>3
<1>6. TypeOK'
  BY <1>1, <1>2, <1>3, <1>4 DEF TypeOK, Mapped
<1>7. IsHomomorphism(f_map)'
  <2>1. \A n \in Mapped(f_map') : n \in Mapped(f_map) /\ f_map'[n] = f_map[n]
    BY <1>3, <1>4 DEF Mapped
  <2> QED  BY <1>1, <1>2, <1>4, <2>1 DEF IsHomomorphism, BinDominates, SrcDominates
<1> QED  BY <1>1, <1>2, <1>5, <1>6, <1>7 DEF InductiveInvariant, HomomorphismKept

\* So does a step that changes nothing.
LEMMA Unchanged ==
    ASSUME InductiveInvariant, UNCHANGED vars
    PROVE  InductiveInvariant'
BY DEF InductiveInvariant, HomomorphismKept, TypeOK, IsHomomorphism, Mapped,
       BinDominates, SrcDominates, FixedNodes, vars

\* The invariant holds in every state.
LEMMA InvariantHolds == Spec => []InductiveInvariant
<1>1. InductiveInvariant /\ [Next]_vars => InductiveInvariant'
  BY TestFixedPointsKeeps, RoundKeeps, RemoveAmbiguousKeeps, Unchanged DEF Next, Ended
<1> QED  BY <1>1, InitHolds, PTL DEF Spec

-----------------------------------------------------------------------------
(* The theorems.                                                           *)

\* After every round the map keeps dominance both ways, agrees with the fixed points and
\* maps every other node to one of its references (_map_subgraph).
THEOREM MapIsHomomorphism == Spec => []HomomorphismKept
<1>1. InductiveInvariant => HomomorphismKept
  BY DEF InductiveInvariant
<1> QED  BY <1>1, InvariantHolds, PTL

\* A conflict that a round finds is one of the node it has mapped, and no conflict that
\* was known, for with that the node would not have got the image.
LEMMA RoundProgress ==
    ASSUME InductiveInvariant, Round
    PROVE  \/ f_confl' = f_confl /\ worklist' \subseteq worklist /\ worklist' # worklist
           \/ f_confl \subseteq f_confl' /\ f_confl' # f_confl
<1>1. stage = "rounds" /\ worklist # {}
  BY RoundFacts
<1>2. PICK map, found : IsRound(map, found)
  BY RoundFacts
<1>3. /\ found \in Outcomes(map) /\ f_confl' = f_confl \cup found.confl
      /\ found.confl = {} => found.back = {}
  BY <1>2 DEF IsRound, Outcomes, Narrowed
<1>4. IsHomomorphism(f_map)
  BY <1>1 DEF InductiveInvariant, HomomorphismKept
<1>5. CASE found.confl = {}
  <2>1. f_confl' = f_confl
    BY <1>3, <1>5
  <2>2. worklist' \subseteq worklist /\ worklist' # worklist
    BY <1>1, <1>2, <1>3, <1>5 DEF IsRound, Gets
  <2> QED  BY <2>1, <2>2
<1>6. CASE found.confl # {}
  <2>1. PICK x, y \in Mapped(map) :
            x # y /\ Fails(map, x, y) /\ Conflict(map, x, y) \subseteq found.confl
    BY <1>3, <1>6 DEF Outcomes, Narrowed
  <2>2. /\ <<x, map[x], y, map[y]>> \in found.confl
        /\ <<y, map[y], x, map[x]>> \in found.confl
    BY <2>1 DEF Conflict
  <2>3. map # f_map
    BY <1>4, <2>1, HomomorphismIfNoneFails
  <2>4. PICK b, a : Gets(map, b, a)
    BY <1>2, <2>3 DEF IsRound
  <2>5. /\ a \in Selectable(b) /\ DOMAIN map = DOMAIN f_map \cup {b} /\ map[b] = a
        /\ \A n \in DOMAIN f_map \ {b} : map[n] = f_map[n]
    BY <2>4 DEF Gets
  <2>6. x = b \/ y = b
    <3> SUFFICES ASSUME x # b, y # b PROVE FALSE
      OBVIOUS
    <3>1. /\ x \in Mapped(f_map) /\ y \in Mapped(f_map)
          /\ map[x] = f_map[x] /\ map[y] = f_map[y]
      BY <2>1, <2>5 DEF Mapped
    <3>2. Fails(f_map, x, y)
      BY <2>1, <3>1, FailsByImages
    <3> QED  BY <1>4, <2>1, <3>1, <3>2, HomomorphismIfNoneFails
  <2>7. ASSUME NEW n \in Mapped(map), n # b
        PROVE  <<b, a, n, map[n]>> \notin f_confl
    <3> DEFINE c == <<b, a, n, map[n]>>
    <3>1. n \in DOMAIN f_map /\ f_map[n] = map[n]
      BY <2>5, <2>7 DEF Mapped
    <3>2. c[1] = b /\ c[2] = a /\ c[3] = n /\ c[4] = map[n]
      OBVIOUS
    <3> HIDE DEF c
    <3>3. ~Conflicting(b, a)
      BY <2>5 DEF Selectable
    <3> QED  BY <3>1, <3>2, <3>3 DEF Conflicting, c
  <2>8. \E c \in found.confl : c \notin f_confl
    BY <2>1, <2>2, <2>5, <2>6, <2>7
  <2> QED  BY <1>3, <2>8
<1> QED  BY <1>5, <1>6

\* A round takes a node off the worklist for good or learns a conflict, whatever the order
\* in which the pairs are tested: with finitely many of both, the rounds end.
THEOREM EveryRoundProgresses == Spec => RoundsProgress
<1> DEFINE Progress ==
        stage = "rounds" /\ stage' = "rounds" =>
            \/ f_confl' = f_confl /\ worklist' \subseteq worklist /\ worklist' # worklist
            \/ f_confl \subseteq f_confl' /\ f_confl' # f_confl
<1>1. InductiveInvariant /\ [Next]_vars => [Progress]_vars
  <2> SUFFICES ASSUME InductiveInvariant, Next PROVE Progress \/ UNCHANGED vars
    OBVIOUS
  <2>1. CASE Round
    BY <2>1, RoundProgress
  <2>2. CASE TestFixedPoints
    BY <2>2 DEF TestFixedPoints
  <2>3. CASE RemoveAmbiguous
    BY <2>3 DEF RemoveAmbiguous
  <2>4. CASE Ended
    BY <2>4 DEF Ended
  <2> QED  BY <2>1, <2>2, <2>3, <2>4 DEF Next
<1>2. Spec => [][Progress]_vars
  BY <1>1, InvariantHolds, PTL DEF Spec
<1> QED  BY <1>2 DEF RoundsProgress
=============================================================================
