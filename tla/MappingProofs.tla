---------------------------- MODULE MappingProofs ----------------------------
(***************************************************************************)
(* Theorems of Mapping: the levels of a hierarchy are a tree and cover the *)
(* nodes of the flow once, DominatorLumping completes each map, what       *)
(* passes check_hierarchy becomes a map that respects the nest of loops,   *)
(* and nodes with the same plain conditions run equally often.             *)
(***************************************************************************)
EXTENDS MappingInvariants, FlowGraphTheorems

-----------------------------------------------------------------------------
(* The nest of the loops of a flow.                                        *)

\* A flow graph of which all nodes are reached.
IsReached(g) == IsFlowGraph(g) /\ ReachableNodes(g) = g.node

\* The loop of a node of another loop lies within that, without its head.
LEMMA LoopWithinLoop ==
    ASSUME NEW g, IsReached(g), NEW h \in g.node, NEW b \in LoopOf(g, h) \ {h}
    PROVE  b \in g.node /\ LoopOf(g, b) \subseteq LoopOf(g, h) \ {h}
<1>0. IsFlowGraph(g) /\ IsRooted(g) /\ ReachableNodes(g) = g.node
  BY FlowGraphIsRooted DEF IsReached
<1>1. b \in g.node /\ Dominates(g, h, b)
  BY <1>0, LoopFacts, HeadDominatesLoop
<1>2. ~Dominates(g, b, h)
  BY <1>0, <1>1, DominanceAntisymmetric
<1> DEFINE X == {m \in LoopOf(g, h) \ {h} : Dominates(g, b, m)}
<1>3. TailsOf(g, b) \ {b} \subseteq X
  <2>1. SUFFICES ASSUME NEW t \in TailsOf(g, b) PROVE t \in X
    OBVIOUS
  <2>2. <<t, b>> \in g.edge /\ Dominates(g, b, t)
    BY <1>0 DEF TailsOf, BackEdges, IsFlowGraph
  <2> QED  BY <1>0, <1>2, <2>2, LoopFacts
<1>4. ASSUME NEW e \in g.edge, e[2] \in X \ {b}, e[1] # b PROVE e[1] \in X
  <2>1. Dominates(g, b, e[1])
    BY <1>0, <1>1, <1>4, DominatesPreds
  <2> QED  BY <1>0, <1>2, <1>4, <2>1, LoopFacts
<1>5. LoopOf(g, b) \ {b} \subseteq X
  <2> HIDE DEF X
  <2> QED  BY <1>0, <1>1, <1>3, <1>4, LoopFacts
<1> QED  BY <1>1, <1>5

\* If two loops share a node, one of them lies within the other.
LEMMA LoopsAreNested ==
    ASSUME NEW g, IsReached(g), NEW h \in g.node, NEW b \in g.node,
           NEW n \in LoopOf(g, h), n \in LoopOf(g, b)
    PROVE  h = b \/ b \in LoopOf(g, h) \ {h} \/ h \in LoopOf(g, b) \ {b}
<1>0. IsFlowGraph(g) /\ IsRooted(g) /\ ReachableNodes(g) = g.node
  BY FlowGraphIsRooted DEF IsReached
<1>1. ASSUME NEW a \in g.node, NEW c \in g.node, a # c, Dominates(g, a, c),
             n \in LoopOf(g, a), n \in LoopOf(g, c)
      PROVE  c \in LoopOf(g, a)
  <2>1. SUFFICES ASSUME c \notin LoopOf(g, a) PROVE FALSE
    OBVIOUS
  <2>2. ~Dominates(g, c, a)
    BY <1>0, <1>1, DominanceAntisymmetric
  <2> DEFINE Z == {m \in LoopOf(g, a) \ {a} : Dominates(g, c, m)}
             X == g.node \ Z
  <2>3. n \in Z
    BY <1>0, <1>1, <2>2, HeadDominatesLoop
  <2>4. g.entry \in X
    <3>1. ASSUME g.entry \in Z PROVE FALSE
      <4>1. c = g.entry
        BY <1>0, <1>1, <3>1, EntryDominates, DominanceAntisymmetric DEF IsRooted
      <4> QED  BY <2>1, <3>1, <4>1
    <3> QED  BY <1>0, <3>1 DEF IsRooted
  <2>5. ASSUME NEW e \in g.edge, e[1] \in X PROVE e[2] \in X
    <3>1. ASSUME e[2] \in Z PROVE FALSE
      <4>1. e[1] \in LoopOf(g, a) /\ e[2] # c
        BY <1>0, <1>1, <2>1, <3>1, LoopFacts
      <4>2. Dominates(g, c, e[1])
        BY <1>0, <1>1, <3>1, <4>1, DominatesPreds
      <4> QED  BY <2>2, <2>5, <4>1, <4>2
    <3> QED  BY <1>0, <3>1 DEF IsRooted
  <2>6. g.node \subseteq X
    <3> HIDE DEF X
    <3> QED  BY <1>0, <2>4, <2>5, ReachableFacts
  <2> QED  BY <1>0, <1>1, <2>3, <2>6, LoopFacts
<1>2. n \in g.node /\ Dominates(g, h, n) /\ Dominates(g, b, n)
  BY <1>0, LoopFacts, HeadDominatesLoop
<1>3. Dominates(g, h, b) \/ Dominates(g, b, h)
  BY <1>0, <1>2, DominatorsAreAChain
<1> QED  BY <1>1, <1>3

-----------------------------------------------------------------------------
(* The levels of a flow.                                                   *)

\* The nodes of a level, and the one node that control enters it at.
Zone(g, id) == IF id = Top THEN g.node ELSE LoopOf(g, id)

HeaderNode(g, id) == IF id = Top THEN g.entry ELSE id

Ids(g) == {Top} \cup HeadsOf(g)

\* The heads of the loops directly inside a level.
Inner(g, id) ==
    {c \in HeadsOf(g) \ {id} :
        /\ c \in Zone(g, id)
        /\ ~\E m \in HeadsOf(g) \ {id, c} : m \in Zone(g, id) /\ c \in Zone(g, m)}

\* A flow has a level of its own, besides the loops.
IsLeveled(g) == IsReached(g) /\ g.node \subseteq Nat \ {Top}

LEMMA ZoneFacts ==
    ASSUME NEW g, IsLeveled(g)
    PROVE  /\ HeadsOf(g) \subseteq g.node \ {g.entry} /\ Top \notin g.node
           /\ \A id \in Ids(g) : /\ HeaderNode(g, id) \in Zone(g, id) /\ Zone(g, id) \subseteq g.node
                                 /\ HeaderNode(g, id) \in g.node
           /\ \A id \in Ids(g), c \in HeadsOf(g) :
                c \in Zone(g, id) /\ c # id =>
                    Zone(g, c) \subseteq Zone(g, id) /\ HeaderNode(g, id) \notin Zone(g, c)
           /\ \A b, c \in HeadsOf(g) : \A n \in Zone(g, b) :
                n \in Zone(g, c) => b = c \/ c \in Zone(g, b) \/ b \in Zone(g, c)
<1>0. IsReached(g) /\ IsFlowGraph(g) /\ IsRooted(g) /\ Top \notin g.node /\ g.entry \in g.node
  BY FlowGraphIsRooted DEF IsLeveled, IsReached, IsRooted
<1>1. HeadsOf(g) \subseteq g.node \ {g.entry}
  BY <1>0 DEF HeadsOf, BackEdges, IsFlowGraph
<1>2. \A c \in HeadsOf(g) : Zone(g, c) = LoopOf(g, c)
  BY <1>0, <1>1 DEF Zone
<1>3. \A c \in HeadsOf(g) : c \in LoopOf(g, c) /\ LoopOf(g, c) \subseteq g.node
  BY <1>0, <1>1, LoopFacts
<1>4. \A id \in Ids(g) : /\ HeaderNode(g, id) \in Zone(g, id) /\ Zone(g, id) \subseteq g.node
                         /\ HeaderNode(g, id) \in g.node
  BY <1>0, <1>1, <1>3 DEF Ids, Zone, HeaderNode
<1>5. ASSUME NEW c \in HeadsOf(g) PROVE g.entry \notin LoopOf(g, c)
  <2>1. SUFFICES ASSUME g.entry \in LoopOf(g, c) PROVE FALSE
    OBVIOUS
  <2>2. Dominates(g, c, g.entry) /\ Dominates(g, g.entry, c)
    BY <1>0, <1>1, <2>1, HeadDominatesLoop, EntryDominates
  <2> QED  BY <1>0, <1>1, <2>2, DominanceAntisymmetric DEF IsReached
<1>6. ASSUME NEW id \in Ids(g), NEW c \in HeadsOf(g), c \in Zone(g, id), c # id
      PROVE  Zone(g, c) \subseteq Zone(g, id) /\ HeaderNode(g, id) \notin Zone(g, c)
  <2>1. CASE id = Top
    BY <1>2, <1>3, <1>5, <2>1 DEF Zone, HeaderNode
  <2>2. CASE id # Top
    <3>1. id \in HeadsOf(g) /\ c \in LoopOf(g, id) \ {id}
      BY <1>6, <2>2 DEF Ids, Zone
    <3>2. LoopOf(g, c) \subseteq LoopOf(g, id) \ {id}
      BY <1>0, <1>1, <3>1, LoopWithinLoop
    <3> QED  BY <1>2, <2>2, <3>1, <3>2 DEF HeaderNode
  <2> QED  BY <2>1, <2>2
<1>7. ASSUME NEW b \in HeadsOf(g), NEW c \in HeadsOf(g), NEW n \in Zone(g, b), n \in Zone(g, c)
      PROVE  b = c \/ c \in Zone(g, b) \/ b \in Zone(g, c)
  BY <1>0, <1>1, <1>2, <1>7, LoopsAreNested
<1> QED  BY <1>0, <1>1, <1>4, <1>6, <1>7

\* A smaller level has fewer nodes.
LEMMA ZoneSizes ==
    ASSUME NEW g, IsLeveled(g)
    PROVE  \E size \in [Ids(g) -> Nat] :
               /\ \A id \in Ids(g), c \in HeadsOf(g) :
                     c \in Zone(g, id) /\ c # id => size[c] < size[id]
               /\ \A id \in Ids(g) : size[id] <= size[Top]
<1> DEFINE size == [id \in Ids(g) |-> Cardinality(Zone(g, id))]
<1>1. IsFiniteSet(g.node)
  BY DEF IsLeveled, IsReached, IsFlowGraph
<1>2. ASSUME NEW id \in Ids(g) PROVE IsFiniteSet(Zone(g, id)) /\ size[id] \in Nat /\ size[id] <= size[Top]
  <2>1. Zone(g, id) \subseteq g.node /\ Zone(g, Top) = g.node /\ Top \in Ids(g)
    BY ZoneFacts DEF Zone, Ids
  <2> QED  BY <1>1, <2>1, FS_Subset, FS_CardinalityType
<1>3. ASSUME NEW id \in Ids(g), NEW c \in HeadsOf(g), c \in Zone(g, id), c # id
      PROVE  size[c] < size[id]
  <2>1. c \in Ids(g)
    BY DEF Ids
  <2>2. Zone(g, c) \subseteq Zone(g, id) /\ Zone(g, c) # Zone(g, id)
    BY <1>3, ZoneFacts
  <2>3. /\ Cardinality(Zone(g, c)) <= Cardinality(Zone(g, id))
        /\ Cardinality(Zone(g, c)) # Cardinality(Zone(g, id))
    BY <1>2, <2>2, FS_Subset
  <2>4. size[c] \in Nat /\ size[id] \in Nat
    BY <1>2, <2>1
  <2>5. size[c] = Cardinality(Zone(g, c)) /\ size[id] = Cardinality(Zone(g, id))
    BY <2>1
  <2> HIDE DEF size
  <2> QED  BY <2>3, <2>4, <2>5
<1>4. size \in [Ids(g) -> Nat]
  BY <1>2
<1> QED  BY <1>2, <1>3, <1>4

\* The levels are a tree, and levels side by side have no node in common.
LEMMA InnerFacts ==
    ASSUME NEW g, IsLeveled(g)
    PROVE  /\ \A id \in Ids(g) : \A c \in Inner(g, id) :
                /\ c \in HeadsOf(g) /\ Zone(g, c) \subseteq Zone(g, id)
                /\ HeaderNode(g, id) \notin Zone(g, c) /\ c # id
           /\ \A id \in Ids(g) : \A b, c \in Inner(g, id) :
                b # c => Zone(g, b) \cap Zone(g, c) = {}
           /\ \A c \in HeadsOf(g) : \E id \in Ids(g) : c \in Inner(g, id)
           /\ \A c \in HeadsOf(g) : \A a, b \in Ids(g) :
                c \in Inner(g, a) /\ c \in Inner(g, b) => a = b
<1>1. ASSUME NEW id \in Ids(g), NEW c \in Inner(g, id)
      PROVE  /\ c \in HeadsOf(g) /\ Zone(g, c) \subseteq Zone(g, id)
             /\ HeaderNode(g, id) \notin Zone(g, c) /\ c # id
  BY ZoneFacts DEF Inner
<1>2. ASSUME NEW id \in Ids(g), NEW b \in Inner(g, id), NEW c \in Inner(g, id), b # c
      PROVE  Zone(g, b) \cap Zone(g, c) = {}
  <2>1. b \notin Zone(g, c) /\ c \notin Zone(g, b)
    BY <1>2 DEF Inner
  <2>2. ASSUME NEW n \in Zone(g, b), n \in Zone(g, c) PROVE FALSE
    BY <1>1, <1>2, <2>1, <2>2, ZoneFacts
  <2> QED  BY <2>2
<1>3. ASSUME NEW c \in HeadsOf(g) PROVE \E id \in Ids(g) : c \in Inner(g, id)
  <2>1. PICK size \in [Ids(g) -> Nat] : \A id \in Ids(g), d \in HeadsOf(g) :
            d \in Zone(g, id) /\ d # id => size[d] < size[id]
    BY ZoneSizes
  <2> DEFINE A == {id \in Ids(g) \ {c} : c \in Zone(g, id)}
  <2>2. Top \in A
    BY ZoneFacts DEF Ids, Zone
  <2>3. PICK id \in A : \A d \in A : size[id] <= size[d]
    <3>1. A \in SUBSET Ids(g) /\ A # {}
      BY <2>2
    <3> HIDE DEF A
    <3> QED  BY <3>1, LeastByValue
  <2>4. ASSUME NEW m \in HeadsOf(g) \ {id, c}, m \in Zone(g, id), c \in Zone(g, m) PROVE FALSE
    <3>1. m \in A /\ m \in Ids(g) /\ id \in Ids(g)
      BY <2>4 DEF Ids
    <3>2. size[m] < size[id] /\ size[id] <= size[m]
      BY <2>1, <2>3, <2>4, <3>1
    <3>3. size[m] \in Nat /\ size[id] \in Nat
      BY <3>1
    <3> QED  BY <3>2, <3>3
  <2> QED  BY <2>3, <2>4 DEF Inner
<1>4. ASSUME NEW c \in HeadsOf(g), NEW a \in Ids(g), NEW b \in Ids(g),
             c \in Inner(g, a), c \in Inner(g, b), a # b
      PROVE  FALSE
  <2>1. \/ a \in HeadsOf(g) /\ a \in Zone(g, b)
        \/ b \in HeadsOf(g) /\ b \in Zone(g, a)
    <3>1. CASE a = Top
      BY <1>4, <3>1, ZoneFacts DEF Ids, Zone
    <3>2. CASE b = Top
      BY <1>4, <3>2, ZoneFacts DEF Ids, Zone
    <3>3. CASE a # Top /\ b # Top
      <4>1. a \in HeadsOf(g) /\ b \in HeadsOf(g) /\ c \in Zone(g, a) /\ c \in Zone(g, b)
        BY <1>4, <3>3 DEF Ids, Inner
      <4> QED  BY <1>4, <4>1, ZoneFacts
    <3> QED  BY <3>1, <3>2, <3>3
  <2> QED  BY <1>4, <2>1 DEF Inner
<1> QED  BY <1>1, <1>2, <1>3, <1>4

\* Who has Top and with each level the levels inside it has all.
LEMMA AllFromTop ==
    ASSUME NEW g, IsLeveled(g), NEW X, Top \in X,
           \A id \in Ids(g) \cap X : Inner(g, id) \subseteq X
    PROVE  Ids(g) \subseteq X
<1>1. PICK size \in [Ids(g) -> Nat] :
         /\ \A id \in Ids(g), d \in HeadsOf(g) : d \in Zone(g, id) /\ d # id => size[d] < size[id]
         /\ \A id \in Ids(g) : size[id] <= size[Top]
  BY ZoneSizes
<1> DEFINE value == [id \in Ids(g) |-> size[Top] - size[id]]
           S == Ids(g) \ X
<1>2. SUFFICES ASSUME S # {} PROVE FALSE
  OBVIOUS
<1>3. value \in [Ids(g) -> Nat]
  <2>1. Top \in Ids(g)
    BY DEF Ids
  <2> QED  BY <1>1, <2>1
<1>4. PICK c \in S : \A d \in S : value[c] <= value[d]
  <2>1. S \in SUBSET Ids(g)
    OBVIOUS
  <2> HIDE DEF S, value
  <2> QED  BY <1>2, <1>3, <2>1, LeastByValue
<1>5. c \in HeadsOf(g) /\ c \in Ids(g)
  BY DEF Ids
<1>6. PICK id \in Ids(g) : c \in Inner(g, id)
  BY <1>5, InnerFacts
<1>7. id \in S
  BY <1>4, <1>6
<1>8. size[c] < size[id]
  BY <1>1, <1>5, <1>6 DEF Inner
<1>9. value[c] <= value[id] /\ size[Top] \in Nat /\ size[c] \in Nat /\ size[id] \in Nat
  BY <1>4, <1>5, <1>7 DEF Ids
<1>10. value[c] = size[Top] - size[c] /\ value[id] = size[Top] - size[id]
  BY <1>5
<1> HIDE DEF value
<1> QED  BY <1>8, <1>9, <1>10

-----------------------------------------------------------------------------
(* What Hierarchy makes of them.                                           *)

LoopNamed(g, id) ==
    IF id = Top THEN WholeFlow(g)
    ELSE [head |-> id, tails |-> TailsOf(g, id), nodes |-> LoopOf(g, id)]

LEMMA LoopNamedFacts ==
    ASSUME NEW g, NEW id
    PROVE  LoopNamed(g, id).head = id /\ LoopNamed(g, id).nodes = Zone(g, id)
BY DEF LoopNamed, Zone, WholeFlow

LEMMA NestIs ==
    ASSUME NEW g, IsLeveled(g)
    PROVE  /\ NaturalLoops(g) = {LoopNamed(g, c) : c \in HeadsOf(g)}
           /\ NaturalLoops(g) \cup {WholeFlow(g)} = {LoopNamed(g, id) : id \in Ids(g)}
<1>1. \A c \in HeadsOf(g) : c # Top
  BY ZoneFacts
<1>2. NaturalLoops(g) = {LoopNamed(g, c) : c \in HeadsOf(g)}
  BY <1>1, NaturalLoopsAreLoops DEF LoopNamed
<1>3. LoopNamed(g, Top) = WholeFlow(g)
  BY DEF LoopNamed
<1> QED  BY <1>2, <1>3 DEF Ids

LEMMA SubloopsAre ==
    ASSUME NEW g, IsLeveled(g), NEW id \in Ids(g)
    PROVE  Subloops(NaturalLoops(g), LoopNamed(g, id)) = {LoopNamed(g, c) : c \in Inner(g, id)}
<1> DEFINE nest == NaturalLoops(g)
           inside == {l \in nest \ {LoopNamed(g, id)} : l.nodes \subseteq LoopNamed(g, id).nodes}
           D == {c \in HeadsOf(g) \ {id} : c \in Zone(g, id)}
<1>1. \A a, b : LoopNamed(g, a) = LoopNamed(g, b) => a = b
  <2>1. SUFFICES ASSUME NEW a, NEW b, LoopNamed(g, a) = LoopNamed(g, b) PROVE a = b
    OBVIOUS
  <2>2. LoopNamed(g, a).head = a /\ LoopNamed(g, b).head = b
    BY LoopNamedFacts
  <2> QED  BY <2>1, <2>2
<1>2. ASSUME NEW c \in HeadsOf(g) \ {id}
      PROVE  LoopNamed(g, c).nodes \subseteq LoopNamed(g, id).nodes <=> c \in Zone(g, id)
  <2>1. LoopNamed(g, c).nodes = Zone(g, c) /\ LoopNamed(g, id).nodes = Zone(g, id)
    BY LoopNamedFacts
  <2>2. c \in Zone(g, c)
    <3>1. c \in Ids(g) /\ c # Top
      BY ZoneFacts DEF Ids
    <3>2. HeaderNode(g, c) \in Zone(g, c)
      BY <3>1, ZoneFacts
    <3> QED  BY <3>1, <3>2 DEF HeaderNode
  <2> QED  BY <2>1, <2>2, ZoneFacts
<1>3. inside = {LoopNamed(g, c) : c \in D}
  <2>1. nest = {LoopNamed(g, c) : c \in HeadsOf(g)}
    BY NestIs
  <2>2. ASSUME NEW l \in inside PROVE l \in {LoopNamed(g, c) : c \in D}
    <3>1. PICK c \in HeadsOf(g) : l = LoopNamed(g, c)
      BY <2>1
    <3>2. c \in HeadsOf(g) \ {id} /\ LoopNamed(g, c).nodes \subseteq LoopNamed(g, id).nodes
      BY <3>1
    <3> QED  BY <1>2, <3>1, <3>2
  <2>3. ASSUME NEW c \in D PROVE LoopNamed(g, c) \in inside
    <3>1. LoopNamed(g, c) \in nest /\ LoopNamed(g, c) # LoopNamed(g, id)
      BY <1>1, <2>1
    <3>2. LoopNamed(g, c).nodes \subseteq LoopNamed(g, id).nodes
      BY <1>2
    <3> QED  BY <3>1, <3>2
  <2> QED  BY <2>2, <2>3
<1>4. Subloops(nest, LoopNamed(g, id)) =
          {l \in inside : \A m \in inside \ {l} : ~(l.nodes \subseteq m.nodes)}
  BY DEF Subloops
<1> HIDE DEF inside
<1>5. ASSUME NEW c \in D
      PROVE  (\A m \in inside \ {LoopNamed(g, c)} : ~(LoopNamed(g, c).nodes \subseteq m.nodes))
                <=> c \in Inner(g, id)
  <2>1. \A d \in HeadsOf(g) : d \in Zone(g, d)
    <3>1. \A d \in HeadsOf(g) : d \in Ids(g) /\ d # Top
      BY ZoneFacts DEF Ids
    <3>2. \A d \in HeadsOf(g) : HeaderNode(g, d) \in Zone(g, d)
      BY <3>1, ZoneFacts
    <3> QED  BY <3>1, <3>2 DEF HeaderNode
  <2>2. ASSUME NEW m \in D, m # c
        PROVE  LoopNamed(g, c).nodes \subseteq LoopNamed(g, m).nodes <=> c \in Zone(g, m)
    <3>1. LoopNamed(g, c).nodes = Zone(g, c) /\ LoopNamed(g, m).nodes = Zone(g, m)
      BY LoopNamedFacts
    <3>2. m \in Ids(g)
      BY DEF Ids
    <3> QED  BY <2>1, <2>2, <3>1, <3>2, ZoneFacts
  <2>3. (\A m \in inside \ {LoopNamed(g, c)} : ~(LoopNamed(g, c).nodes \subseteq m.nodes))
            <=> \A m \in D \ {c} : c \notin Zone(g, m)
    <3>1. ASSUME \A m \in inside \ {LoopNamed(g, c)} : ~(LoopNamed(g, c).nodes \subseteq m.nodes),
                 NEW m \in D \ {c}
          PROVE  c \notin Zone(g, m)
      <4>1. LoopNamed(g, m) \in inside \ {LoopNamed(g, c)}
        BY <1>1, <1>3
      <4> QED  BY <2>2, <3>1, <4>1
    <3>2. ASSUME \A m \in D \ {c} : c \notin Zone(g, m), NEW l \in inside \ {LoopNamed(g, c)}
          PROVE  ~(LoopNamed(g, c).nodes \subseteq l.nodes)
      <4>1. PICK m \in D : l = LoopNamed(g, m)
        BY <1>3
      <4>2. m # c
        BY <4>1
      <4> QED  BY <2>2, <3>2, <4>1, <4>2
    <3> QED  BY <3>1, <3>2
  <2> QED  BY <2>3 DEF Inner
<1>6. Inner(g, id) \subseteq D
  BY DEF Inner
<1> HIDE DEF D
<1> QED  BY <1>3, <1>4, <1>5, <1>6

\* Where a level keeps a node of its zone: itself, or the surrogate of a loop inside.
Spot(g, id, n) ==
    IF \E c \in Inner(g, id) : n \in Zone(g, c)
    THEN Surrogate(g, CHOOSE c \in Inner(g, id) : n \in Zone(g, c))
    ELSE n

LEMMA InnermostIs ==
    ASSUME NEW g, IsLeveled(g), NEW id \in Ids(g), NEW n
    PROVE  LET around == Around(Subloops(NaturalLoops(g), LoopNamed(g, id)), n)
           IN  /\ around = {} <=> ~\E c \in Inner(g, id) : n \in Zone(g, c)
               /\ \A c \in Inner(g, id) : n \in Zone(g, c) => InnermostHead(around, n) = c
<1> DEFINE around == Around(Subloops(NaturalLoops(g), LoopNamed(g, id)), n)
<1>1. around = {l \in {LoopNamed(g, c) : c \in Inner(g, id)} : n \in l.nodes}
  BY SubloopsAre DEF Around
<1>2. \A c : LoopNamed(g, c).nodes = Zone(g, c) /\ LoopNamed(g, c).head = c
  BY LoopNamedFacts
<1>3. ASSUME NEW c \in Inner(g, id), n \in Zone(g, c) PROVE around = {LoopNamed(g, c)}
  <2>1. LoopNamed(g, c) \in around
    BY <1>1, <1>2, <1>3
  <2>2. ASSUME NEW l \in around PROVE l = LoopNamed(g, c)
    <3>1. PICK d \in Inner(g, id) : l = LoopNamed(g, d) /\ n \in Zone(g, d)
      BY <1>1, <1>2
    <3>2. d = c
      BY <1>3, <3>1, InnerFacts
    <3> QED  BY <3>1, <3>2
  <2> QED  BY <2>1, <2>2
<1>4. around = {} <=> ~\E c \in Inner(g, id) : n \in Zone(g, c)
  BY <1>1, <1>2
<1> HIDE DEF around
<1>5. ASSUME NEW c \in Inner(g, id), n \in Zone(g, c) PROVE InnermostHead(around, n) = c
  <2>1. around = {LoopNamed(g, c)}
    BY <1>3, <1>5
  <2>2. \E l \in around : \A other \in around : l.nodes \subseteq other.nodes
    BY <2>1
  <2>3. (CHOOSE l \in around : \A other \in around : l.nodes \subseteq other.nodes) = LoopNamed(g, c)
    BY <2>1, <2>2
  <2> QED  BY <1>2, <2>1, <2>3 DEF InnermostHead
<1> QED  BY <1>4, <1>5 DEF around

\* A level: its graph, and what is inside.
LEMMA HierarchyIs ==
    ASSUME NEW g, IsLeveled(g)
    PROVE  /\ DOMAIN Hierarchy(g) = Ids(g)
           /\ \A id \in Ids(g) :
                LET level == Hierarchy(g)[id]
                IN  /\ level.subflows = Inner(g, id)
                    /\ level.nodes = Zone(g, id)
                    /\ level.graph.node = {Spot(g, id, n) : n \in Zone(g, id)}
                    /\ level.graph.edge =
                         {<<Spot(g, id, e[1]), Spot(g, id, e[2])>> :
                            e \in g.edge \cap (Zone(g, id) \X Zone(g, id))}
                         \ {<<n, n>> : n \in level.graph.node \ g.node}
                    /\ level.graph.entry = HeaderNode(g, id)
<1> DEFINE nest == NaturalLoops(g)
           all  == nest \cup {WholeFlow(g)}
           At(id) == CHOOSE loop \in all : loop.head = id
<1>1. all = {LoopNamed(g, id) : id \in Ids(g)} /\ \A id : LoopNamed(g, id).head = id
  BY NestIs, LoopNamedFacts
<1>2. {loop.head : loop \in all} = Ids(g)
  BY <1>1
<1>3. ASSUME NEW id \in Ids(g) PROVE At(id) = LoopNamed(g, id)
  <2>1. \E loop \in all : loop.head = id
    BY <1>1
  <2>2. At(id) \in all /\ At(id).head = id
    BY <2>1
  <2>3. PICK d \in Ids(g) : At(id) = LoopNamed(g, d)
    BY <1>1, <2>2
  <2> QED  BY <1>1, <2>2, <2>3
<1>4. Hierarchy(g) = [id \in {loop.head : loop \in all} |->
            [graph    |-> LevelGraph(g, nest, At(id)),
             subflows |-> {loop.head : loop \in Subloops(nest, At(id))},
             nodes    |-> At(id).nodes]]
  BY DEF Hierarchy
<1> HIDE DEF all, At
<1>5. DOMAIN Hierarchy(g) = Ids(g)
  BY <1>2, <1>4
<1>6. ASSUME NEW id \in Ids(g)
      PROVE  LET level == Hierarchy(g)[id]
             IN  /\ level.subflows = Inner(g, id)
                 /\ level.nodes = Zone(g, id)
                 /\ level.graph.node = {Spot(g, id, n) : n \in Zone(g, id)}
                 /\ level.graph.edge =
                      {<<Spot(g, id, e[1]), Spot(g, id, e[2])>> :
                         e \in g.edge \cap (Zone(g, id) \X Zone(g, id))}
                      \ {<<n, n>> : n \in level.graph.node \ g.node}
                 /\ level.graph.entry = HeaderNode(g, id)
  <2> DEFINE loop == LoopNamed(g, id)
             subs == Subloops(nest, loop)
             image == [n \in loop.nodes |->
                         IF Around(subs, n) = {} THEN n
                         ELSE Surrogate(g, InnermostHead(Around(subs, n), n))]
             nodes == {image[n] : n \in loop.nodes}
             edges == {<<image[e[1]], image[e[2]]>> : e \in g.edge \cap (loop.nodes \X loop.nodes)}
  <2>1. Hierarchy(g)[id] = [graph    |-> LevelGraph(g, nest, loop),
                            subflows |-> {l.head : l \in subs},
                            nodes    |-> loop.nodes]
    BY <1>2, <1>3, <1>4
  <2>2. loop.head = id /\ loop.nodes = Zone(g, id)
    BY LoopNamedFacts
  <2>3. LevelGraph(g, nest, loop) =
          [node |-> nodes, edge |-> edges \ {<<n, n>> : n \in nodes \ g.node},
           entry |-> IF loop.head = Top THEN g.entry ELSE loop.head]
    BY DEF LevelGraph
  <2>4. {l.head : l \in subs} = Inner(g, id)
    <3>1. subs = {LoopNamed(g, c) : c \in Inner(g, id)}
      BY SubloopsAre
    <3> HIDE DEF subs
    <3> QED  BY <1>1, <3>1
  <2>5. ASSUME NEW n \in Zone(g, id) PROVE image[n] = Spot(g, id, n)
    <3>1. image[n] = IF Around(subs, n) = {} THEN n
                     ELSE Surrogate(g, InnermostHead(Around(subs, n), n))
      BY <2>2
    <3>2. CASE \E c \in Inner(g, id) : n \in Zone(g, c)
      <4> DEFINE c == CHOOSE c \in Inner(g, id) : n \in Zone(g, c)
      <4>1. c \in Inner(g, id) /\ n \in Zone(g, c)
        BY <3>2
      <4>2. Spot(g, id, n) = Surrogate(g, c)
        BY <3>2 DEF Spot
      <4> HIDE DEF c, image
      <4>3. Around(subs, n) # {} /\ InnermostHead(Around(subs, n), n) = c
        BY <4>1, InnermostIs
      <4> QED  BY <3>1, <4>2, <4>3
    <3>3. CASE ~\E c \in Inner(g, id) : n \in Zone(g, c)
      <4>1. Around(subs, n) = {}
        BY <3>3, InnermostIs
      <4> QED  BY <3>1, <3>3, <4>1 DEF Spot
    <3> QED  BY <3>2, <3>3
  <2> HIDE DEF image, subs, loop
  <2>6. nodes = {Spot(g, id, n) : n \in Zone(g, id)}
    BY <2>2, <2>5
  <2>7. edges = {<<Spot(g, id, e[1]), Spot(g, id, e[2])>> :
                    e \in g.edge \cap (Zone(g, id) \X Zone(g, id))}
    <3>1. \A e \in g.edge \cap (Zone(g, id) \X Zone(g, id)) :
             image[e[1]] = Spot(g, id, e[1]) /\ image[e[2]] = Spot(g, id, e[2])
      BY <2>5
    <3> QED  BY <2>2, <3>1
  <2> HIDE DEF nodes, edges
  <2> QED  BY <2>1, <2>2, <2>3, <2>4, <2>6, <2>7 DEF HeaderNode
<1> QED  BY <1>5, <1>6

\* The nodes of a level that are in no loop inside.
Own(g, id) == {n \in Zone(g, id) : \A c \in Inner(g, id) : n \notin Zone(g, c)}

Surrogates(g, C) == {Surrogate(g, c) : c \in C}

LEMMA SurrogateFacts ==
    ASSUME NEW g, IsLeveled(g)
    PROVE  \A c \in Nat : /\ Surrogate(g, c) \in Nat \ g.node
                          /\ IsVirtual(g, Surrogate(g, c)) /\ HeaderOf(g, Surrogate(g, c)) = c
                          /\ \A n \in g.node : ~IsVirtual(g, n)
<1>1. g.node \in SUBSET Nat /\ IsFiniteSet(g.node) /\ g.node # {}
  BY DEF IsLeveled, IsReached, IsFlowGraph
<1>2. Max(g.node) \in g.node /\ \A n \in g.node : n <= Max(g.node)
  BY <1>1, MaxOfFinite
<1> DEFINE m == Max(g.node)
<1>3. m \in Nat /\ \A n \in g.node : n \in Nat /\ n <= m
  BY <1>1, <1>2
<1> HIDE DEF m
<1>4. ASSUME NEW c \in Nat
      PROVE  m + 1 + c \in Nat /\ m + 1 + c > m /\ (m + 1 + c) - m - 1 = c
  BY <1>3
<1>5. ASSUME NEW n \in g.node PROVE ~(n > m)
  BY <1>3
<1> QED  BY <1>4, <1>5 DEF Surrogate, IsVirtual, HeaderOf, m

\* Heads and other nodes of a level are natural numbers.
LEMMA IdsAreNaturals ==
    ASSUME NEW g, IsLeveled(g)
    PROVE  Ids(g) \subseteq Nat /\ HeadsOf(g) \subseteq Nat /\ g.node \subseteq Nat
BY ZoneFacts DEF Ids, Top, IsLeveled

LEMMA SpotFacts ==
    ASSUME NEW g, IsLeveled(g), NEW id \in Ids(g), NEW n \in Zone(g, id)
    PROVE  \/ n \in Own(g, id) /\ Spot(g, id, n) = n
           \/ \E c \in Inner(g, id) : n \in Zone(g, c) /\ Spot(g, id, n) = Surrogate(g, c)
<1>1. CASE \E c \in Inner(g, id) : n \in Zone(g, c)
  <2> DEFINE c == CHOOSE c \in Inner(g, id) : n \in Zone(g, c)
  <2>1. c \in Inner(g, id) /\ n \in Zone(g, c)
    BY <1>1
  <2>2. Spot(g, id, n) = Surrogate(g, c)
    BY <1>1 DEF Spot
  <2> HIDE DEF c
  <2> QED  BY <2>1, <2>2
<1>2. CASE ~\E c \in Inner(g, id) : n \in Zone(g, c)
  BY <1>2 DEF Spot, Own
<1> QED  BY <1>1, <1>2

LEMMA LevelNodes ==
    ASSUME NEW g, IsLeveled(g), NEW id \in Ids(g)
    PROVE  /\ {Spot(g, id, n) : n \in Zone(g, id)} = Own(g, id) \cup Surrogates(g, Inner(g, id))
           /\ HeaderNode(g, id) \in Own(g, id)
           /\ Own(g, id) \subseteq g.node
           /\ Inner(g, id) \subseteq HeadsOf(g)
           /\ IsFiniteSet(Own(g, id) \cup Surrogates(g, Inner(g, id)))
           /\ Own(g, id) \cup Surrogates(g, Inner(g, id)) \subseteq Nat
<1>1. \A n \in Own(g, id) : n \in Zone(g, id) /\ Spot(g, id, n) = n
  BY DEF Own, Spot
<1>2. \A c \in Inner(g, id) : c \in HeadsOf(g) /\ Zone(g, c) \subseteq Zone(g, id)
                              /\ c \in Ids(g) /\ c # Top
  BY InnerFacts, ZoneFacts DEF Ids
<1>3. ASSUME NEW c \in Inner(g, id) PROVE c \in Zone(g, id) /\ Spot(g, id, c) = Surrogate(g, c)
  <2>1. c \in Zone(g, c)
    BY <1>2, ZoneFacts DEF HeaderNode
  <2>2. c \in Zone(g, id) /\ c \notin Own(g, id)
    BY <1>2, <2>1 DEF Own
  <2>3. PICK d \in Inner(g, id) : c \in Zone(g, d) /\ Spot(g, id, c) = Surrogate(g, d)
    BY <2>2, SpotFacts
  <2>4. d = c
    BY <2>1, <2>3, InnerFacts
  <2> QED  BY <2>2, <2>3, <2>4
<1>4. {Spot(g, id, n) : n \in Zone(g, id)} = Own(g, id) \cup Surrogates(g, Inner(g, id))
  <2>1. ASSUME NEW n \in Zone(g, id) PROVE Spot(g, id, n) \in Own(g, id) \cup Surrogates(g, Inner(g, id))
    BY SpotFacts DEF Surrogates
  <2>2. ASSUME NEW x \in Own(g, id) \cup Surrogates(g, Inner(g, id))
        PROVE  x \in {Spot(g, id, n) : n \in Zone(g, id)}
    BY <1>1, <1>3 DEF Surrogates
  <2> QED  BY <2>1, <2>2
<1>5. HeaderNode(g, id) \in Own(g, id)
  BY ZoneFacts, InnerFacts DEF Own
<1>6. Zone(g, id) \subseteq g.node /\ Own(g, id) \subseteq g.node
  BY ZoneFacts DEF Own
<1>7. IsFiniteSet({Spot(g, id, n) : n \in Zone(g, id)})
  <2>1. IsFiniteSet(Zone(g, id))
    BY <1>6, FS_Subset DEF IsLeveled, IsReached, IsFlowGraph
  <2> DEFINE f == [n \in Zone(g, id) |-> Spot(g, id, n)]
  <2>2. IsFiniteSet({f[n] : n \in Zone(g, id)})
    <3> HIDE DEF f
    <3> QED  BY <2>1, FiniteImage
  <2>3. {f[n] : n \in Zone(g, id)} = {Spot(g, id, n) : n \in Zone(g, id)}
    OBVIOUS
  <2> QED  BY <2>2, <2>3
<1>8. Surrogates(g, Inner(g, id)) \subseteq Nat
  BY <1>2, SurrogateFacts, IdsAreNaturals DEF Surrogates
<1>9. g.node \subseteq Nat
  BY IdsAreNaturals
<1> QED  BY <1>2, <1>4, <1>5, <1>6, <1>7, <1>8, <1>9

\* A loop is only entered at its head.
LEMMA EnteredAtHeader ==
    ASSUME NEW g, IsLeveled(g), NEW id \in Ids(g), NEW e \in g.edge,
           e[2] \in Zone(g, id), e[2] # HeaderNode(g, id)
    PROVE  e[1] \in Zone(g, id)
<1>1. IsFlowGraph(g) /\ e[1] \in g.node
  BY DEF IsLeveled, IsReached, IsFlowGraph
<1>2. CASE id = Top
  BY <1>1, <1>2 DEF Zone
<1>3. CASE id # Top
  <2>1. id \in g.node
    BY <1>3, ZoneFacts DEF Ids
  <2> QED  BY <1>1, <1>3, <2>1, LoopFacts DEF Zone, HeaderNode
<1> QED  BY <1>2, <1>3

\* All nodes of a level are reached from its header.
LEMMA LevelIsReached ==
    ASSUME NEW g, IsLeveled(g), NEW id \in Ids(g), NEW h, h = Hierarchy(g)[id].graph
    PROVE  IsRooted(h) /\ ReachableNodes(h) = h.node /\ h.node \subseteq Nat
<1> DEFINE Z == Zone(g, id)
           At(n) == Spot(g, id, n)
<1>1. /\ h.node = {At(n) : n \in Z}
      /\ h.edge = {<<At(e[1]), At(e[2])>> : e \in g.edge \cap (Z \X Z)}
                  \ {<<n, n>> : n \in h.node \ g.node}
      /\ h.entry = HeaderNode(g, id)
  BY HierarchyIs
<1>2. h.entry \in Own(g, id) /\ At(h.entry) = h.entry /\ h.entry \in Z
  <2>1. HeaderNode(g, id) \in Own(g, id)
    BY LevelNodes
  <2> QED  BY <1>1, <2>1 DEF Own, Spot
<1>3. IsFiniteSet(h.node) /\ h.node \subseteq Nat
  <2>1. h.node = Own(g, id) \cup Surrogates(g, Inner(g, id))
    BY <1>1, LevelNodes
  <2> QED  BY <2>1, LevelNodes
<1>4. IsRooted(h)
  <2>1. h.edge \subseteq h.node \X h.node
    BY <1>1
  <2>2. h.entry \in h.node
    BY <1>1, <1>2
  <2> QED  BY <1>3, <2>1, <2>2 DEF IsRooted
<1> DEFINE R == ReachableNodes(h)
<1>5. h.entry \in R /\ R \subseteq h.node /\ \A e \in h.edge : e[1] \in R => e[2] \in R
  BY <1>4, ReachableFacts
<1> DEFINE X == {n \in g.node : n \in Z => At(n) \in R}
<1>6. IsRooted(g) /\ ReachableNodes(g) = g.node /\ g.edge \subseteq g.node \X g.node /\ g.entry \in g.node
  BY FlowGraphIsRooted DEF IsLeveled, IsReached, IsFlowGraph
<1> HIDE DEF R, Z, At
<1>7. ASSUME NEW e \in g.edge, e[1] \in X PROVE e[2] \in X
  <2>1. SUFFICES ASSUME e[2] \in Z PROVE At(e[2]) \in R
    BY <1>6
  <2>2. CASE e[2] = HeaderNode(g, id)
    BY <1>1, <1>2, <1>5, <2>2
  <2>3. CASE e[2] # HeaderNode(g, id)
    <3>1. e[1] \in Z
      BY <2>1, <2>3, EnteredAtHeader DEF Z
    <3>2. At(e[1]) \in R
      BY <1>7, <3>1
    <3>3. CASE At(e[1]) = At(e[2])
      BY <3>2, <3>3
    <3>4. CASE At(e[1]) # At(e[2])
      <4>1. e \in g.edge \cap (Z \X Z)
        BY <1>6, <2>1, <3>1
      <4>2. <<At(e[1]), At(e[2])>> \in h.edge
        BY <1>1, <3>4, <4>1
      <4> QED  BY <1>5, <3>2, <4>2
    <3> QED  BY <3>3, <3>4
  <2> QED  BY <2>2, <2>3
<1>8. g.entry \in X
  <2>1. CASE g.entry \in Z /\ id # Top
    <3>1. g.entry = HeaderNode(g, id)
      <4>1. id \in HeadsOf(g) /\ g.entry \in Zone(g, id)
        BY <2>1 DEF Ids, Z
      <4>2. Top \in Ids(g) /\ HeaderNode(g, Top) = g.entry /\ id \in Zone(g, Top)
        BY <4>1, ZoneFacts DEF Ids, HeaderNode, Zone
      <4>3. HeaderNode(g, Top) \notin Zone(g, id)
        BY <2>1, <4>1, <4>2, ZoneFacts
      <4> QED  BY <4>1, <4>2, <4>3
    <3> QED  BY <1>1, <1>2, <1>5, <1>6, <3>1
  <2>2. CASE id = Top
    BY <1>1, <1>2, <1>5, <1>6, <2>2 DEF HeaderNode
  <2>3. CASE g.entry \notin Z
    BY <1>6, <2>3
  <2> QED  BY <2>1, <2>2, <2>3
<1>9. g.node \subseteq X
  <2> HIDE DEF X
  <2> QED  BY <1>6, <1>7, <1>8, ReachableFacts
<1>10. h.node \subseteq R
  <2>1. Z \subseteq g.node
    BY ZoneFacts DEF Z
  <2> QED  BY <1>1, <1>9, <2>1
<1> QED  BY <1>3, <1>4, <1>5, <1>10 DEF R

-----------------------------------------------------------------------------
(* What the proofs below use of a hierarchical flow.                       *)

\* A loop within a level is one of the loops directly inside it, or within one of them.
LEMMA LoopToward ==
    ASSUME NEW g, IsLeveled(g), NEW id \in Ids(g), NEW b \in HeadsOf(g) \ {id}, b \in Zone(g, id)
    PROVE  \E c \in Inner(g, id) : b \in Zone(g, c)
<1>1. PICK size \in [Ids(g) -> Nat] :
         /\ \A a \in Ids(g), d \in HeadsOf(g) : d \in Zone(g, a) /\ d # a => size[d] < size[a]
         /\ \A a \in Ids(g) : size[a] <= size[Top]
  BY ZoneSizes
<1> DEFINE value == [a \in Ids(g) |-> size[Top] - size[a]]
           S == {m \in HeadsOf(g) \ {id} : m \in Zone(g, id) /\ b \in Zone(g, m)}
<1>2. value \in [Ids(g) -> Nat]
  <2>1. Top \in Ids(g)
    BY DEF Ids
  <2> QED  BY <1>1, <2>1
<1>3. \A m \in HeadsOf(g) : m \in Ids(g) /\ m \in Zone(g, m)
  <2>1. \A m \in HeadsOf(g) : m \in Ids(g) /\ m # Top
    BY ZoneFacts DEF Ids
  <2>2. \A m \in HeadsOf(g) : HeaderNode(g, m) \in Zone(g, m)
    BY <2>1, ZoneFacts
  <2> QED  BY <2>1, <2>2 DEF HeaderNode
<1>4. PICK c \in S : \A d \in S : value[c] <= value[d]
  <2>1. S \in SUBSET Ids(g) /\ b \in S
    BY <1>3
  <2> HIDE DEF S, value
  <2> QED  BY <1>2, <2>1, LeastByValue
<1>5. ASSUME NEW m \in HeadsOf(g) \ {id, c}, m \in Zone(g, id), c \in Zone(g, m) PROVE FALSE
  <2>1. Zone(g, c) \subseteq Zone(g, m)
    BY <1>3, <1>5, ZoneFacts
  <2>2. m \in S
    BY <1>4, <1>5, <2>1
  <2>3. size[c] < size[m] /\ value[c] <= value[m]
    BY <1>1, <1>3, <1>4, <1>5, <2>2
  <2>4. size[Top] \in Nat /\ size[c] \in Nat /\ size[m] \in Nat
    BY <1>3, <1>4, <1>5 DEF Ids
  <2>5. value[c] = size[Top] - size[c] /\ value[m] = size[Top] - size[m]
    BY <1>3, <1>4, <1>5
  <2> HIDE DEF value
  <2> QED  BY <2>3, <2>4, <2>5
<1> QED  BY <1>4, <1>5 DEF Inner

\* No node is in two levels, and every node is in one.
LEMMA OwnFacts ==
    ASSUME NEW g, IsLeveled(g)
    PROVE  /\ \A a, b \in Ids(g) : a # b => Own(g, a) \cap Own(g, b) = {}
           /\ \A n \in g.node : \E id \in Ids(g) : n \in Own(g, id)
<1>1. ASSUME NEW a \in Ids(g), NEW b \in HeadsOf(g) \ {a}, b \in Zone(g, a)
      PROVE  Own(g, a) \cap Zone(g, b) = {}
  <2>1. PICK c \in Inner(g, a) : b \in Zone(g, c)
    BY <1>1, LoopToward
  <2>2. c \in HeadsOf(g) /\ c \in Ids(g)
    BY InnerFacts DEF Ids
  <2>3. Zone(g, b) \subseteq Zone(g, c)
    BY <2>1, <2>2, ZoneFacts
  <2> QED  BY <2>3 DEF Own
<1>2. ASSUME NEW a \in Ids(g), NEW b \in Ids(g), a # b, NEW n \in Own(g, a), n \in Own(g, b) PROVE FALSE
  <2>1. n \in Zone(g, a) /\ n \in Zone(g, b)
    BY <1>2 DEF Own
  <2>2. \/ b \in HeadsOf(g) /\ b \in Zone(g, a)
        \/ a \in HeadsOf(g) /\ a \in Zone(g, b)
    <3>1. CASE a = Top
      BY <1>2, <3>1, ZoneFacts DEF Ids, Zone
    <3>2. CASE b = Top
      BY <1>2, <3>2, ZoneFacts DEF Ids, Zone
    <3>3. CASE a # Top /\ b # Top
      <4>1. a \in HeadsOf(g) /\ b \in HeadsOf(g)
        BY <3>3 DEF Ids
      <4> QED  BY <1>2, <2>1, <4>1, ZoneFacts
    <3> QED  BY <3>1, <3>2, <3>3
  <2> QED  BY <1>1, <1>2, <2>1, <2>2
<1>3. ASSUME NEW n \in g.node PROVE \E id \in Ids(g) : n \in Own(g, id)
  <2>1. SUFFICES ASSUME \A id \in Ids(g) : n \notin Own(g, id) PROVE FALSE
    OBVIOUS
  <2> DEFINE S == {id \in Ids(g) : n \in Zone(g, id)}
  <2>2. PICK size \in [Ids(g) -> Nat] :
           \A a \in Ids(g), d \in HeadsOf(g) : d \in Zone(g, a) /\ d # a => size[d] < size[a]
    BY ZoneSizes
  <2>3. Top \in S
    BY DEF Ids, Zone
  <2>4. PICK id \in S : \A d \in S : size[id] <= size[d]
    <3>1. S \in SUBSET Ids(g)
      OBVIOUS
    <3> HIDE DEF S
    <3> QED  BY <2>3, <3>1, LeastByValue
  <2>5. PICK c \in Inner(g, id) : n \in Zone(g, c)
    BY <2>1, <2>4 DEF Own
  <2>6. c \in HeadsOf(g) /\ c \in Zone(g, id) /\ c # id /\ c \in S
    BY <2>5 DEF Inner, Ids
  <2>7. size[c] < size[id] /\ size[id] <= size[c]
    BY <2>2, <2>4, <2>6
  <2>8. size[c] \in Nat /\ size[id] \in Nat
    BY <2>6
  <2> QED  BY <2>7, <2>8
<1> QED  BY <1>2, <1>3

AreaOf(g, hf, b) ==
    hf[b].nodes \cup {Surrogate(g, d) : d \in (Heads(g) \cap hf[b].nodes) \ {b}}

\* The loops and levels are a tree.
IsTree(g, hf) ==
    /\ DOMAIN hf = {Top} \cup Heads(g) /\ Heads(g) \subseteq g.node /\ Top \notin Heads(g)
    /\ hf[Top].nodes = g.node /\ \A b \in DOMAIN hf : hf[b].nodes \subseteq g.node
    /\ \A b \in DOMAIN hf : \A c \in hf[b].subflows :
          /\ c \in Heads(g) /\ c # b
          /\ hf[c].nodes \subseteq hf[b].nodes /\ ~(hf[b].nodes \subseteq hf[c].nodes)
    /\ \A c \in Heads(g) : \E b \in DOMAIN hf : c \in hf[b].subflows
    /\ \A a, b \in DOMAIN hf : \A c \in hf[a].subflows : c \in hf[b].subflows => a = b
    /\ \A X : (Top \in X /\ \A b \in X \cap DOMAIN hf : hf[b].subflows \subseteq X) => DOMAIN hf \subseteq X

\* Each node is in one level.
AreLevels(g, hf) ==
    /\ \A b \in DOMAIN hf :
        /\ HeaderNode(g, b) \in hf[b].graph.node \cap g.node
        /\ HeaderNode(g, b) \in hf[b].nodes
        /\ \A c \in hf[b].subflows : HeaderNode(g, b) \notin hf[c].nodes
        /\ \A n \in g.node : n \in hf[b].graph.node
               <=> n \in hf[b].nodes /\ \A c \in hf[b].subflows : n \notin hf[c].nodes
        /\ hf[b].graph.node \ g.node = {Surrogate(g, c) : c \in hf[b].subflows}
    /\ \A a, b \in DOMAIN hf : a # b => hf[a].graph.node \cap hf[b].graph.node = {}
    /\ \A n \in g.node : \E b \in DOMAIN hf : n \in hf[b].graph.node
    /\ \A c \in Heads(g) : /\ Surrogate(g, c) \notin g.node
                           /\ IsVirtual(g, Surrogate(g, c)) /\ HeaderOf(g, Surrogate(g, c)) = c
    /\ \A n \in g.node : ~IsVirtual(g, n)

\* Levels side by side have nothing in common.
AreasAreApart(g, hf) ==
    \A b \in DOMAIN hf :
        /\ hf[b].graph.node \subseteq AreaOf(g, hf, b)
        /\ \A c \in hf[b].subflows :
            /\ AreaOf(g, hf, c) \subseteq AreaOf(g, hf, b)
            /\ hf[b].graph.node \cap g.node \cap AreaOf(g, hf, c) = {}
            /\ \A d \in hf[b].subflows \ {c} :
                  /\ AreaOf(g, hf, c) \cap AreaOf(g, hf, d) = {}
                  /\ hf[c].nodes \cap hf[d].nodes = {}

LEMMA HeadsAre ==
    ASSUME NEW g
    PROVE  Heads(g) = HeadsOf(g)
<1> DEFINE Named(h) == [head |-> h, tails |-> TailsOf(g, h), nodes |-> LoopOf(g, h)]
<1>1. NaturalLoops(g) = {Named(h) : h \in HeadsOf(g)}
  BY NaturalLoopsAreLoops
<1>2. \A h : Named(h).head = h
  OBVIOUS
<1> HIDE DEF Named
<1> QED  BY <1>1, <1>2 DEF Heads

LEMMA HierarchyIsTree ==
    ASSUME NEW g, IsLeveled(g)
    PROVE  IsTree(g, Hierarchy(g))
<1> DEFINE hf == Hierarchy(g)
<1>0. Heads(g) = HeadsOf(g)
  BY HeadsAre
<1>1. /\ DOMAIN hf = Ids(g)
      /\ \A id \in Ids(g) : hf[id].subflows = Inner(g, id) /\ hf[id].nodes = Zone(g, id)
  BY HierarchyIs
<1> HIDE DEF hf
<1>2. /\ HeadsOf(g) \subseteq g.node /\ Top \notin HeadsOf(g) /\ Top \in Ids(g)
      /\ Ids(g) = {Top} \cup HeadsOf(g) /\ Zone(g, Top) = g.node
  BY ZoneFacts DEF Ids, Zone
<1>3. \A id \in Ids(g) : Zone(g, id) \subseteq g.node /\ HeaderNode(g, id) \in Zone(g, id)
  BY ZoneFacts
<1>4. \A id \in Ids(g) : \A c \in Inner(g, id) :
         /\ c \in HeadsOf(g) /\ Zone(g, c) \subseteq Zone(g, id)
         /\ ~(Zone(g, id) \subseteq Zone(g, c)) /\ c # id
  BY <1>3, InnerFacts
<1>5. ASSUME NEW X, Top \in X, \A b \in X \cap DOMAIN hf : hf[b].subflows \subseteq X
      PROVE  DOMAIN hf \subseteq X
  BY <1>1, <1>5, AllFromTop
<1>6. /\ \A c \in HeadsOf(g) : \E b \in DOMAIN hf : c \in hf[b].subflows
      /\ \A a, b \in DOMAIN hf : \A c \in hf[a].subflows : c \in hf[b].subflows => a = b
  BY <1>1, <1>4, InnerFacts
<1>7. IsTree(g, hf)
  BY <1>0, <1>1, <1>2, <1>3, <1>4, <1>5, <1>6 DEF IsTree
<1> QED  BY <1>7 DEF hf

LEMMA HierarchyHasLevels ==
    ASSUME NEW g, IsLeveled(g)
    PROVE  AreLevels(g, Hierarchy(g))
<1> DEFINE hf == Hierarchy(g)
<1>0. Heads(g) = HeadsOf(g)
  BY HeadsAre
<1>1. /\ DOMAIN hf = Ids(g)
      /\ \A id \in Ids(g) : /\ hf[id].subflows = Inner(g, id) /\ hf[id].nodes = Zone(g, id)
                            /\ hf[id].graph.node = {Spot(g, id, n) : n \in Zone(g, id)}
  BY HierarchyIs
<1> HIDE DEF hf
<1>2. \A id \in Ids(g) : /\ hf[id].graph.node = Own(g, id) \cup Surrogates(g, Inner(g, id))
                         /\ HeaderNode(g, id) \in Own(g, id) /\ Own(g, id) \subseteq g.node
                         /\ Inner(g, id) \subseteq HeadsOf(g)
  BY <1>1, LevelNodes
<1>3. \A c \in HeadsOf(g) : /\ Surrogate(g, c) \notin g.node /\ IsVirtual(g, Surrogate(g, c))
                            /\ HeaderOf(g, Surrogate(g, c)) = c
  BY SurrogateFacts, IdsAreNaturals
<1>4. ASSUME NEW id \in Ids(g) PROVE Surrogates(g, Inner(g, id)) \cap g.node = {}
  BY <1>2, <1>3 DEF Surrogates
<1>5. ASSUME NEW b \in DOMAIN hf
      PROVE  /\ HeaderNode(g, b) \in hf[b].graph.node \cap g.node
             /\ HeaderNode(g, b) \in hf[b].nodes
             /\ \A c \in hf[b].subflows : HeaderNode(g, b) \notin hf[c].nodes
             /\ \A n \in g.node : n \in hf[b].graph.node
                    <=> n \in hf[b].nodes /\ \A c \in hf[b].subflows : n \notin hf[c].nodes
             /\ hf[b].graph.node \ g.node = {Surrogate(g, c) : c \in hf[b].subflows}
  <2>1. \A c \in hf[b].subflows : c \in Ids(g) /\ hf[c].nodes = Zone(g, c)
    BY <1>1, <1>2 DEF Ids
  <2>2. hf[b].subflows = Inner(g, b) /\ hf[b].nodes = Zone(g, b)
    BY <1>1
  <2>3. \A n : n \in Own(g, b) <=> n \in hf[b].nodes /\ \A c \in hf[b].subflows : n \notin hf[c].nodes
    BY <2>1, <2>2 DEF Own
  <2>4. \A n \in g.node : n \in hf[b].graph.node <=> n \in Own(g, b)
    BY <1>1, <1>2, <1>4
  <2>5. hf[b].graph.node \ g.node = {Surrogate(g, c) : c \in hf[b].subflows}
    BY <1>1, <1>2, <1>4, <2>2 DEF Surrogates
  <2>6. HeaderNode(g, b) \in Own(g, b) /\ HeaderNode(g, b) \in g.node
    BY <1>1, <1>2
  <2> QED  BY <2>3, <2>4, <2>5, <2>6
<1>6. ASSUME NEW a \in DOMAIN hf, NEW b \in DOMAIN hf, a # b
      PROVE  hf[a].graph.node \cap hf[b].graph.node = {}
  <2>1. ASSUME NEW n \in hf[a].graph.node, n \in hf[b].graph.node PROVE FALSE
    <3>1. CASE n \in g.node
      <4>1. n \in Own(g, a) /\ n \in Own(g, b)
        BY <1>1, <1>2, <1>4, <2>1, <3>1
      <4> QED  BY <1>1, <1>6, <4>1, OwnFacts
    <3>2. CASE n \notin g.node
      <4>1. n \in Surrogates(g, Inner(g, a)) /\ n \in Surrogates(g, Inner(g, b))
        BY <1>1, <1>2, <2>1, <3>2
      <4>2. PICK c \in Inner(g, a), d \in Inner(g, b) : n = Surrogate(g, c) /\ n = Surrogate(g, d)
        BY <4>1 DEF Surrogates
      <4>3. c = d /\ c \in HeadsOf(g)
        BY <1>1, <1>2, <1>3, <4>2
      <4> QED  BY <1>1, <1>6, <4>2, <4>3, InnerFacts
    <3> QED  BY <3>1, <3>2
  <2> QED  BY <2>1
<1>7. \A n \in g.node : \E b \in DOMAIN hf : n \in hf[b].graph.node
  BY <1>1, <1>2, OwnFacts
<1>8. \A n \in g.node : ~IsVirtual(g, n)
  <2>1. 0 \in Nat
    OBVIOUS
  <2> QED  BY <2>1, SurrogateFacts
<1>9. AreLevels(g, hf)
  BY <1>0, <1>3, <1>5, <1>6, <1>7, <1>8 DEF AreLevels
<1> QED  BY <1>9 DEF hf

LEMMA HierarchyAreasAreApart ==
    ASSUME NEW g, IsLeveled(g)
    PROVE  AreasAreApart(g, Hierarchy(g))
<1> DEFINE hf == Hierarchy(g)
<1>0. Heads(g) = HeadsOf(g)
  BY HeadsAre
<1>1. /\ DOMAIN hf = Ids(g)
      /\ \A id \in Ids(g) : hf[id].subflows = Inner(g, id) /\ hf[id].nodes = Zone(g, id)
  BY HierarchyIs
<1>2. AreLevels(g, hf)
  BY HierarchyHasLevels
<1> HIDE DEF hf
<1>3. \A id \in Ids(g) : AreaOf(g, hf, id) =
         Zone(g, id) \cup {Surrogate(g, d) : d \in (HeadsOf(g) \cap Zone(g, id)) \ {id}}
  BY <1>0, <1>1 DEF AreaOf
<1>4. \A c \in HeadsOf(g) : c \in Ids(g) /\ Surrogate(g, c) \notin g.node /\ HeaderOf(g, Surrogate(g, c)) = c
  BY <1>0, <1>2 DEF AreLevels, Ids
<1>5. \A id \in Ids(g) : Zone(g, id) \subseteq g.node
  BY ZoneFacts
<1>6. ASSUME NEW b \in Ids(g) PROVE hf[b].graph.node \subseteq AreaOf(g, hf, b)
  <2>1. ASSUME NEW n \in hf[b].graph.node PROVE n \in AreaOf(g, hf, b)
    <3>1. CASE n \in g.node
      BY <1>1, <1>2, <1>3, <2>1, <3>1 DEF AreLevels
    <3>2. CASE n \notin g.node
      <4>1. PICK c \in Inner(g, b) : n = Surrogate(g, c)
        BY <1>1, <1>2, <2>1, <3>2 DEF AreLevels
      <4>2. c \in (HeadsOf(g) \cap Zone(g, b)) \ {b}
        BY DEF Inner
      <4> QED  BY <1>3, <4>1, <4>2
    <3> QED  BY <3>1, <3>2
  <2> QED  BY <2>1
<1>7. ASSUME NEW b \in Ids(g), NEW c \in Inner(g, b)
      PROVE  /\ AreaOf(g, hf, c) \subseteq AreaOf(g, hf, b)
             /\ hf[b].graph.node \cap g.node \cap AreaOf(g, hf, c) = {}
  <2>1. /\ c \in HeadsOf(g) /\ c \in Ids(g) /\ Zone(g, c) \subseteq Zone(g, b)
        /\ HeaderNode(g, b) \notin Zone(g, c)
    BY <1>4, InnerFacts
  <2>2. b \in HeadsOf(g) => b \notin Zone(g, c)
    BY <2>1, ZoneFacts DEF HeaderNode
  <2>3. (HeadsOf(g) \cap Zone(g, c)) \ {c} \subseteq (HeadsOf(g) \cap Zone(g, b)) \ {b}
    BY <2>1, <2>2
  <2>4. AreaOf(g, hf, c) \subseteq AreaOf(g, hf, b)
    BY <1>3, <2>1, <2>3
  <2>5. \A n \in hf[b].graph.node \cap g.node : n \notin Zone(g, c)
    BY <1>1, <1>2, <2>1 DEF AreLevels
  <2>6. \A n \in g.node : n \in AreaOf(g, hf, c) => n \in Zone(g, c)
    BY <1>3, <1>4, <2>1
  <2> QED  BY <2>4, <2>5, <2>6
<1>8. ASSUME NEW b \in Ids(g), NEW c \in Inner(g, b), NEW d \in Inner(g, b), c # d
      PROVE  AreaOf(g, hf, c) \cap AreaOf(g, hf, d) = {} /\ Zone(g, c) \cap Zone(g, d) = {}
  <2>1. Zone(g, c) \cap Zone(g, d) = {} /\ c \in Ids(g) /\ d \in Ids(g)
    BY <1>4, <1>8, InnerFacts
  <2>2. ASSUME NEW n \in AreaOf(g, hf, c), n \in AreaOf(g, hf, d) PROVE FALSE
    <3>1. CASE n \in g.node
      <4>1. n \in Zone(g, c) /\ n \in Zone(g, d)
        BY <1>3, <1>4, <2>1, <2>2, <3>1
      <4> QED  BY <2>1, <4>1
    <3>2. CASE n \notin g.node
      <4>1. PICK x \in HeadsOf(g) \cap Zone(g, c) : n = Surrogate(g, x)
        BY <1>3, <1>5, <2>1, <2>2, <3>2
      <4>2. PICK y \in HeadsOf(g) \cap Zone(g, d) : n = Surrogate(g, y)
        BY <1>3, <1>5, <2>1, <2>2, <3>2
      <4>3. x = y
        BY <1>4, <4>1, <4>2
      <4> QED  BY <2>1, <4>1, <4>2, <4>3
    <3> QED  BY <3>1, <3>2
  <2> QED  BY <2>1, <2>2
<1>9. \A b \in Ids(g) : \A c \in Inner(g, b) : c \in Ids(g)
  BY <1>4, InnerFacts
<1>10. AreasAreApart(g, hf)
  BY <1>1, <1>6, <1>7, <1>8, <1>9 DEF AreasAreApart
<1> QED  BY <1>10 DEF hf

-----------------------------------------------------------------------------
(* The completion of a map.                                                *)

\* The graph of a level with the nodes that are mapped, among them its entry.
IsTask(g, mapped) ==
    /\ IsRooted(g) /\ ReachableNodes(g) = g.node /\ g.node \subseteq Nat
    /\ mapped \subseteq g.node /\ g.entry \in mapped

LEMMA OrderFacts ==
    ASSUME NEW g, IsRooted(g), ReachableNodes(g) = g.node
    PROVE  /\ \A a \in g.node : Dominates(g, a, a)
           /\ \A a, b, c \in g.node : Dominates(g, a, b) /\ Dominates(g, b, c) => Dominates(g, a, c)
           /\ \A a, b \in g.node : Dominates(g, a, b) /\ Dominates(g, b, a) => a = b
           /\ \A a, b, n \in g.node : Dominates(g, a, n) /\ Dominates(g, b, n)
                                        => Dominates(g, a, b) \/ Dominates(g, b, a)
BY DominatesSelf, DominanceTransitive, DominanceAntisymmetric, DominatorsAreAChain

IsUp(g, up) ==
    /\ DOMAIN up = g.node \ {g.entry}
    /\ \A n \in g.node \ {g.entry} : up[n] \in g.node \ {n} /\ Dominates(g, up[n], n)

LEMMA ImmediateDominatorsAreUp ==
    ASSUME NEW g, IsRooted(g), ReachableNodes(g) = g.node
    PROVE  IsUp(g, ImmediateDominators(g))
<1> DEFINE above == {p \in g.node \X g.node : p[1] # p[2] /\ Dominates(g, p[1], p[2])}
           Nearest(n, a) == /\ <<a, n>> \in above
                            /\ \A d \in g.node \ {a} : <<d, n>> \in above => <<d, a>> \in above
           up_ == ImmediateDominators(g)
<1>1. \A a, b \in g.node : <<a, b>> \in above <=> a # b /\ Dominates(g, a, b)
  OBVIOUS
<1>2. up_ = [n \in g.node \ {g.entry} |-> CHOOSE a \in g.node : Nearest(n, a)]
  BY DEF ImmediateDominators
<1> HIDE DEF above, up_
<1>3. ASSUME NEW n \in g.node \ {g.entry} PROVE \E a \in g.node : Nearest(n, a)
  <2> DEFINE D == {d \in g.node \ {n} : Dominates(g, d, n)}
             bound == Cardinality(Dominators(g, n))
             value == [d \in D |-> bound - Cardinality(Dominators(g, d))]
  <2>1. g.entry \in D
    BY EntryDominates DEF IsRooted
  <2>2. \A d \in D : Cardinality(Dominators(g, d)) \in Nat /\ bound \in Nat
                     /\ Cardinality(Dominators(g, d)) < bound
    BY DepthOfDominators
  <2>3. value \in [D -> Nat]
    <3> HIDE DEF D, bound
    <3> QED  BY <2>2
  <2>4. PICK a \in D : \A d \in D : value[a] <= value[d]
    <3> HIDE DEF D, value
    <3> QED  BY <2>1, <2>3, LeastByValue
  <2>5. ASSUME NEW d \in D PROVE ~(Cardinality(Dominators(g, a)) < Cardinality(Dominators(g, d)))
    <3>1. value[a] <= value[d]
      BY <2>4
    <3>2. value[a] = bound - Cardinality(Dominators(g, a)) /\ value[d] = bound - Cardinality(Dominators(g, d))
      OBVIOUS
    <3>3. /\ Cardinality(Dominators(g, a)) \in Nat /\ Cardinality(Dominators(g, d)) \in Nat
          /\ bound \in Nat
      BY <2>2
    <3> HIDE DEF value, bound
    <3> QED  BY <3>1, <3>2, <3>3
  <2>6. ASSUME NEW d \in g.node \ {a}, <<d, n>> \in above PROVE <<d, a>> \in above
    <3>1. d \in D
      BY <1>1, <2>6
    <3>2. Dominates(g, d, a) \/ Dominates(g, a, d)
      BY <3>1, OrderFacts
    <3>3. ~Dominates(g, a, d)
      BY <2>5, <2>6, <3>1, DepthOfDominators
    <3> QED  BY <1>1, <3>1, <3>2, <3>3
  <2>7. <<a, n>> \in above
    BY <1>1
  <2> QED  BY <2>6, <2>7
<1>4. ASSUME NEW n \in g.node \ {g.entry}
      PROVE  up_[n] \in g.node \ {n} /\ Dominates(g, up_[n], n)
  <2>1. up_[n] \in g.node /\ Nearest(n, up_[n])
    BY <1>2, <1>3
  <2> QED  BY <1>1, <2>1
<1> QED  BY <1>2, <1>4 DEF IsUp, up_

\* Sets are emptied as a whole; what is not in the set of a mapped node is in that of a
\* node above it.
Tidy(g, mapped, set) ==
    /\ set \in [g.node -> g.node]
    /\ \A m \in g.node : set[set[m]] = set[m]
    /\ \A m \in mapped : set[m] = m
    /\ \A m \in g.node : set[m] \in mapped \/ Dominates(g, set[m], m)

\* Emptying the set of one node leaves less of them.
Emptier(g, set, after) == \A m \in g.node : after[m] = m => set[m] = m

LEMMA UnionIsTidy ==
    ASSUME NEW g, NEW mapped, IsTask(g, mapped), NEW set, Tidy(g, mapped, set),
           NEW n \in g.node \ mapped, NEW t \in g.node \ {n}, set[t] = t,
           t \in mapped \/ Dominates(g, t, n)
    PROVE  /\ Tidy(g, mapped, Union(set, n, t)) /\ Emptier(g, set, Union(set, n, t))
           /\ Union(set, n, t)[n] # n
           /\ \A m \in g.node \ {n} : set[m] = m => Union(set, n, t)[m] = m
<1> DEFINE after == Union(set, n, t)
<1>1. set \in [g.node -> g.node]
  BY DEF Tidy
<1>2. after \in [g.node -> g.node] /\ \A m \in g.node : after[m] = IF set[m] = n THEN t ELSE set[m]
  BY <1>1 DEF Union
<1> HIDE DEF after
<1>3. ASSUME NEW m \in g.node PROVE after[after[m]] = after[m]
  <2>1. set[m] \in g.node /\ set[set[m]] = set[m]
    BY <1>1 DEF Tidy
  <2>2. after[t] = t
    BY <1>2
  <2> QED  BY <1>2, <2>1, <2>2
<1>4. \A m \in mapped : after[m] = m
  BY <1>2 DEF Tidy, IsTask
<1>5. ASSUME NEW m \in g.node PROVE after[m] \in mapped \/ Dominates(g, after[m], m)
  <2>1. CASE set[m] # n
    BY <1>2, <2>1 DEF Tidy
  <2>2. CASE set[m] = n
    <3>1. Dominates(g, n, m) /\ after[m] = t
      BY <1>2, <2>2 DEF Tidy
    <3> QED  BY <3>1, OrderFacts DEF IsTask
  <2> QED  BY <2>1, <2>2
<1>6. Tidy(g, mapped, after)
  BY <1>2, <1>3, <1>4, <1>5 DEF Tidy
<1>7. Emptier(g, set, after)
  BY <1>2 DEF Emptier
<1>8. after[n] # n
  BY <1>2
<1>9. \A m \in g.node \ {n} : set[m] = m => after[m] = m
  BY <1>2
<1> QED  BY <1>6, <1>7, <1>8, <1>9 DEF after

LEMMA SimpleStep ==
    ASSUME NEW g, NEW mapped, IsTask(g, mapped), NEW up, IsUp(g, up),
           NEW set \in [g.node -> g.node], NEW n \in g.node \ mapped
    PROVE  LET after == LumpSimplePath(g, up, mapped, set, n)
           IN  /\ after \in [g.node -> g.node]
               /\ Tidy(g, mapped, set) /\ set[up[n]] = up[n] =>
                    /\ Tidy(g, mapped, after)
                    /\ \A m \in g.node \ {n} : set[m] = m => after[m] = m
<1> DEFINE below == {set[c] : c \in Children(up, n)} \cap mapped
           t == SimpleTarget(up, mapped, set, n)
           after == LumpSimplePath(g, up, mapped, set, n)
<1>1. up[n] \in g.node \ {n} /\ Dominates(g, up[n], n)
  BY DEF IsTask, IsUp
<1>2. t = up[n] \/ t \in mapped
  <2>1. CASE below = {}
    BY <2>1 DEF SimpleTarget
  <2>2. CASE below # {}
    <3>1. TheOne(below) \in below
      BY <2>2 DEF TheOne
    <3> QED  BY <2>2, <3>1 DEF SimpleTarget
  <2> QED  BY <2>1, <2>2
<1>3. after = set \/ after = Union(set, n, t)
  BY DEF LumpSimplePath
<1> HIDE DEF t, after
<1>4. t \in g.node \ {n}
  BY <1>1, <1>2 DEF IsTask
<1>5. after \in [g.node -> g.node]
  BY <1>3, <1>4 DEF Union
<1>6. ASSUME Tidy(g, mapped, set), set[up[n]] = up[n]
      PROVE  Tidy(g, mapped, after) /\ \A m \in g.node \ {n} : set[m] = m => after[m] = m
  <2>1. set[t] = t /\ (t \in mapped \/ Dominates(g, t, n))
    BY <1>1, <1>2, <1>6 DEF Tidy
  <2> QED  BY <1>3, <1>4, <1>6, <2>1, UnionIsTidy
<1> QED  BY <1>5, <1>6 DEF after

LEMMA HeadStep ==
    ASSUME NEW g, NEW mapped, IsTask(g, mapped), NEW up,
           NEW set \in [g.node -> g.node], NEW n \in g.node \ mapped
    PROVE  LET after == LumpHead(g, up, mapped, set, n)
           IN  /\ after \in [g.node -> g.node]
               /\ Tidy(g, mapped, set) => Tidy(g, mapped, after)
<1> DEFINE down == {set[s] : s \in Succs(g, n)} \cap mapped
           t == TheOne(down)
           after == LumpHead(g, up, mapped, set, n)
<1>1. after = set \/ (after = Union(set, n, t) /\ t \in mapped)
  <2>1. CASE down = {}
    BY <2>1 DEF LumpHead
  <2>2. CASE down # {}
    <3>1. t \in down
      BY <2>2 DEF TheOne
    <3> QED  BY <3>1 DEF LumpHead
  <2> QED  BY <2>1, <2>2
<1> HIDE DEF t, after
<1>2. t \in mapped => t \in g.node \ {n}
  BY DEF IsTask
<1>3. after \in [g.node -> g.node]
  BY <1>1, <1>2 DEF Union
<1>4. ASSUME Tidy(g, mapped, set) PROVE Tidy(g, mapped, after)
  <2>1. CASE t \in mapped
    <3>1. set[t] = t
      BY <1>4, <2>1 DEF Tidy
    <3> QED  BY <1>1, <1>2, <1>4, <2>1, <3>1, UnionIsTidy
  <2>2. CASE t \notin mapped
    BY <1>1, <1>4, <2>2
  <2> QED  BY <2>1, <2>2
<1> QED  BY <1>3, <1>4 DEF after

LEMMA UpStep ==
    ASSUME NEW g, NEW mapped, IsTask(g, mapped), NEW up, IsUp(g, up),
           NEW set \in [g.node -> g.node], NEW n \in g.node \ mapped
    PROVE  LET after == LumpUp(up, set, n)
           IN  /\ after \in [g.node -> g.node]
               /\ Tidy(g, mapped, set) =>
                    /\ Tidy(g, mapped, after) /\ Emptier(g, set, after) /\ after[n] # n
<1> DEFINE t == set[up[n]]
           after == LumpUp(up, set, n)
<1>1. up[n] \in g.node \ {n} /\ Dominates(g, up[n], n) /\ t \in g.node
  BY DEF IsTask, IsUp
<1>2. after = Union(set, n, t)
  BY DEF LumpUp
<1> HIDE DEF t, after
<1>3. after \in [g.node -> g.node]
  BY <1>1, <1>2 DEF Union
<1>4. ASSUME Tidy(g, mapped, set)
      PROVE  Tidy(g, mapped, after) /\ Emptier(g, set, after) /\ after[n] # n
  <2>1. set[t] = t
    BY <1>1, <1>4 DEF Tidy, t
  <2>2. t \in mapped \/ Dominates(g, t, up[n])
    BY <1>1, <1>4 DEF Tidy, t
  <2>3. t # n /\ (t \in mapped \/ Dominates(g, t, n))
    BY <1>1, <2>2, OrderFacts DEF IsTask
  <2> QED  BY <1>1, <1>2, <1>4, <2>1, <2>3, UnionIsTidy
<1> QED  BY <1>3, <1>4 DEF after

\* The order of the passes.
LEMMA TopmostFacts ==
    ASSUME NEW g, NEW mapped, IsTask(g, mapped), NEW up, IsUp(g, up),
           NEW S \in SUBSET (g.node \ mapped), S # {}
    PROVE  Topmost(Depth(g), S) \in S /\ up[Topmost(Depth(g), S)] \notin S
<1> DEFINE depth == Depth(g)
           n == Topmost(depth, S)
<1>1. S \in SUBSET g.node /\ depth \in [g.node -> Nat] /\ g.node \in SUBSET Nat
  BY DepthOfDominators DEF IsTask, Depth
<1>2. \E x \in S : \A m \in S : depth[x] < depth[m] \/ (depth[x] = depth[m] /\ x <= m)
  <2> HIDE DEF depth
  <2> QED  BY <1>1, LeastByValueAndNumber
<1>3. n \in S /\ \A m \in S : depth[n] < depth[m] \/ (depth[n] = depth[m] /\ n <= m)
  <2> HIDE DEF depth
  <2> QED  BY <1>2 DEF Topmost
<1> HIDE DEF n
<1>4. up[n] \in g.node \ {n} /\ Dominates(g, up[n], n)
  BY <1>3 DEF IsTask, IsUp
<1>5. depth[up[n]] < depth[n]
  BY <1>1, <1>3, <1>4, DepthOfDominators DEF IsTask, Depth
<1>6. depth[up[n]] \in Nat /\ depth[n] \in Nat
  BY <1>1, <1>3, <1>4
<1>7. up[n] \notin S
  BY <1>3, <1>5, <1>6
<1> QED  BY <1>3, <1>7 DEF n

LEMMA SimplePassFacts ==
    ASSUME NEW g, NEW mapped, IsTask(g, mapped), NEW up, IsUp(g, up)
    PROVE  Tidy(g, mapped, SimplePass(g, up, Depth(g), mapped)[g.node \ mapped])
<1> DEFINE U == g.node \ mapped
           V == [g.node -> g.node]
           step == [p \in V \X U |-> LumpSimplePath(g, up, mapped, p[1], p[2])]
           last == [S \in SUBSET U |-> Topmost(Depth(g), S)]
           Is(f) == f = [S \in SUBSET U |->
                            IF S = {} THEN Unlumped(g)
                            ELSE LumpSimplePath(g, up, mapped, f[S \ {Topmost(Depth(g), S)}],
                                                Topmost(Depth(g), S))]
           pass == CHOOSE f : Is(f)
<1>1. IsFiniteSet(U)
  BY FS_Subset DEF IsTask, IsRooted
<1>2. Unlumped(g) \in V /\ Tidy(g, mapped, Unlumped(g)) /\ \A m \in g.node : Unlumped(g)[m] = m
  <2>1. \A m \in g.node : Dominates(g, m, m)
    BY OrderFacts DEF IsTask
  <2> QED  BY <2>1 DEF Unlumped, Tidy, IsTask
<1>3. ASSUME NEW S \in SUBSET U, S # {}
      PROVE  Topmost(Depth(g), S) \in S /\ up[Topmost(Depth(g), S)] \notin S
  BY <1>3, TopmostFacts
<1>4. step \in [V \X U -> V]
  BY SimpleStep
<1>5. \E f \in [SUBSET U -> V] : Is(f)
  <2>1. PICK f \in [SUBSET U -> V] : IsSetFold(f, U, Unlumped(g), last, step)
    <3>1. \A S \in SUBSET U : S # {} => last[S] \in S
      BY <1>3
    <3> HIDE DEF V, U, step, last
    <3> QED  BY <1>1, <1>2, <1>4, <3>1, SetFold
  <2>2. ASSUME NEW S \in SUBSET U, S # {}
        PROVE  step[<<f[S \ {last[S]}], last[S]>>]
                 = LumpSimplePath(g, up, mapped, f[S \ {Topmost(Depth(g), S)}], Topmost(Depth(g), S))
    <3>1. last[S] = Topmost(Depth(g), S) /\ last[S] \in U
      BY <1>3, <2>2
    <3>2. f[S \ {last[S]}] \in V
      OBVIOUS
    <3> HIDE DEF V, U, last
    <3> QED  BY <3>1, <3>2
  <2> HIDE DEF step, last
  <2> QED  BY <2>1, <2>2 DEF IsSetFold
<1>6. Is(pass)
  <2> HIDE DEF Is
  <2> QED  BY <1>5
<1>7. SimplePass(g, up, Depth(g), mapped) = pass
  BY DEF SimplePass
<1> HIDE DEF pass, step, last
<1> DEFINE G == {S \in SUBSET U : /\ Tidy(g, mapped, pass[S])
                                 /\ \A m \in g.node \ S : pass[S][m] = m}
<1>11. ASSUME NEW S \in SUBSET U, \A x \in S : S \ {x} \in G PROVE S \in G
  <2>1. CASE S = {}
    BY <1>2, <1>6, <2>1
  <2>2. CASE S # {}
    <3> DEFINE n == Topmost(Depth(g), S)
               set == pass[S \ {n}]
    <3>1. n \in S /\ n \in g.node \ mapped /\ up[n] \notin S
      BY <1>3, <2>2
    <3>2. Tidy(g, mapped, set) /\ \A m \in g.node \ (S \ {n}) : set[m] = m
      BY <1>11, <3>1
    <3>3. pass[S] = LumpSimplePath(g, up, mapped, set, n)
      BY <1>6, <2>2
    <3> HIDE DEF n, set
    <3>4. set \in V /\ up[n] \in g.node
      BY <3>1, <3>2 DEF Tidy, IsUp, IsTask
    <3>5. set[up[n]] = up[n]
      BY <3>1, <3>2, <3>4
    <3>6. /\ Tidy(g, mapped, pass[S])
          /\ \A m \in g.node \ {n} : set[m] = m => pass[S][m] = m
      BY <3>1, <3>2, <3>3, <3>4, <3>5, SimpleStep
    <3> QED  BY <3>1, <3>2, <3>6
  <2> QED  BY <2>1, <2>2
<1>12. U \in G
  <2>1. \A S \in SUBSET U : S \in G
    <3> HIDE DEF G
    <3> QED  BY <1>1, <1>11, SetInduction
  <2> QED  BY <2>1
<1> QED  BY <1>7, <1>12

LEMMA HeadPassFacts ==
    ASSUME NEW g, NEW mapped, IsTask(g, mapped), NEW up, NEW start, Tidy(g, mapped, start),
           NEW tops \in SUBSET (g.node \ mapped)
    PROVE  \A lookup \in HeadPass(g, up, mapped, start, tops)[tops] : Tidy(g, mapped, lookup)
<1> DEFINE W == {l \in [g.node -> g.node] : Tidy(g, mapped, l)}
           step == [p \in W \X tops |-> LumpHead(g, up, mapped, p[1], p[2])]
           One(f, S, n) == {LumpHead(g, up, mapped, l, n) : l \in f[S \ {n}]}
           All(f, S) == UNION {One(f, S, n) : n \in S}
           Is(f) == f = [S \in SUBSET tops |-> IF S = {} THEN {start} ELSE All(f, S)]
           pass == CHOOSE f : Is(f)
<1>1. IsFiniteSet(tops)
  <2>1. tops \in SUBSET g.node
    OBVIOUS
  <2> QED  BY <2>1, FS_Subset DEF IsTask, IsRooted
<1>2. step \in [W \X tops -> W]
  BY HeadStep
<1>3. {start} \in SUBSET W
  BY DEF Tidy
<1>4. \E f \in [SUBSET tops -> SUBSET W] : Is(f)
  <2> DEFINE One2(f, S, n) == {step[<<l, n>>] : l \in f[S \ {n}]}
             All2(f, S) == UNION {One2(f, S, n) : n \in S}
  <2>1. PICK f \in [SUBSET tops -> SUBSET W] : IsSetFoldAll(f, tops, {start}, step)
    <3> HIDE DEF W, step
    <3> QED  BY <1>1, <1>2, <1>3, SetFoldAll
  <2>2. ASSUME NEW S \in SUBSET tops PROVE All2(f, S) = All(f, S)
    <3>1. ASSUME NEW n \in S PROVE One2(f, S, n) = One(f, S, n)
      <4>1. f[S \ {n}] \subseteq W /\ n \in tops
        <5> HIDE DEF W
        <5> QED  OBVIOUS
      <4>2. \A l \in f[S \ {n}] : step[<<l, n>>] = LumpHead(g, up, mapped, l, n)
        <5> HIDE DEF W
        <5> QED  BY <4>1
      <4> HIDE DEF step
      <4> QED  BY <4>2
    <3> HIDE DEF One, One2
    <3> QED  BY <3>1
  <2>3. f = [S \in SUBSET tops |-> IF S = {} THEN {start} ELSE All2(f, S)]
    <3> HIDE DEF W, step
    <3> QED  BY <2>1 DEF IsSetFoldAll
  <2> HIDE DEF All, All2, W
  <2> QED  BY <2>1, <2>2, <2>3
<1>5. Is(pass)
  <2> HIDE DEF Is
  <2> QED  BY <1>4
<1>6. HeadPass(g, up, mapped, start, tops) = pass
  BY DEF HeadPass
<1>7. \A S \in SUBSET tops : pass[S] = IF S = {} THEN {start} ELSE All(pass, S)
  <2> HIDE DEF pass, All
  <2> QED  BY <1>5
<1> HIDE DEF pass
<1> DEFINE G == {S \in SUBSET tops : \A l \in pass[S] : l \in W}
<1>8. ASSUME NEW S \in SUBSET tops, \A x \in S : S \ {x} \in G PROVE S \in G
  <2>1. CASE S = {}
    <3>1. pass[S] = {start}
      BY <1>7, <2>1
    <3> QED  BY <1>3, <3>1
  <2>2. CASE S # {}
    <3>1. SUFFICES ASSUME NEW l \in pass[S] PROVE l \in W
      OBVIOUS
    <3>2. PICK n \in S : l \in One(pass, S, n)
      <4>1. l \in All(pass, S)
        BY <1>7, <2>2
      <4> HIDE DEF One
      <4> QED  BY <4>1
    <3>3. PICK k \in pass[S \ {n}] : l = LumpHead(g, up, mapped, k, n)
      BY <3>2
    <3>4. k \in W
      BY <1>8, <3>3
    <3> QED  BY <3>3, <3>4, HeadStep
  <2> QED  BY <2>1, <2>2
<1>9. tops \in G
  <2>1. \A S \in SUBSET tops : S \in G
    <3> HIDE DEF G
    <3> QED  BY <1>1, <1>8, SetInduction
  <2> QED  BY <2>1
<1> QED  BY <1>6, <1>9

LEMMA LastPassFacts ==
    ASSUME NEW g, NEW mapped, IsTask(g, mapped), NEW up, IsUp(g, up),
           NEW lookup, Tidy(g, mapped, lookup),
           NEW left \in SUBSET (g.node \ mapped),
           \A n \in g.node \ mapped : lookup[n] = n => n \in left
    PROVE  LastPass(up, Depth(g), lookup, left)[left] \in [g.node -> mapped]
<1> DEFINE V == [g.node -> g.node]
           step == [p \in V \X left |-> LumpUp(up, p[1], p[2])]
           last == [S \in SUBSET left |-> Topmost(Depth(g), S)]
           Is(f) == f = [S \in SUBSET left |->
                            IF S = {} THEN lookup
                            ELSE LumpUp(up, f[S \ {Topmost(Depth(g), S)}], Topmost(Depth(g), S))]
           pass == CHOOSE f : Is(f)
<1>1. IsFiniteSet(left) /\ left \subseteq g.node \ mapped
  <2>1. left \in SUBSET g.node
    OBVIOUS
  <2> QED  BY <2>1, FS_Subset DEF IsTask, IsRooted
<1>2. lookup \in V
  BY DEF Tidy
<1>3. ASSUME NEW S \in SUBSET left, S # {} PROVE Topmost(Depth(g), S) \in S
  BY <1>1, <1>3, TopmostFacts
<1>4. step \in [V \X left -> V]
  BY <1>1, UpStep
<1>5. \E f \in [SUBSET left -> V] : Is(f)
  <2>1. PICK f \in [SUBSET left -> V] : IsSetFold(f, left, lookup, last, step)
    <3>1. \A S \in SUBSET left : S # {} => last[S] \in S
      BY <1>3
    <3> HIDE DEF V, step, last
    <3> QED  BY <1>1, <1>2, <1>4, <3>1, SetFold
  <2>2. ASSUME NEW S \in SUBSET left, S # {}
        PROVE  step[<<f[S \ {last[S]}], last[S]>>]
                 = LumpUp(up, f[S \ {Topmost(Depth(g), S)}], Topmost(Depth(g), S))
    <3>1. last[S] = Topmost(Depth(g), S) /\ last[S] \in left
      BY <1>3, <2>2
    <3>2. f[S \ {last[S]}] \in V
      OBVIOUS
    <3> HIDE DEF V, last
    <3> QED  BY <3>1, <3>2
  <2> HIDE DEF step, last
  <2> QED  BY <2>1, <2>2 DEF IsSetFold
<1>6. Is(pass)
  <2> HIDE DEF Is
  <2> QED  BY <1>5
<1>7. LastPass(up, Depth(g), lookup, left) = pass
  BY DEF LastPass
<1> HIDE DEF pass, step, last
<1> DEFINE G == {S \in SUBSET left : /\ Tidy(g, mapped, pass[S]) /\ Emptier(g, lookup, pass[S])
                                   /\ \A m \in S : pass[S][m] # m}
<1>11. ASSUME NEW S \in SUBSET left, \A x \in S : S \ {x} \in G PROVE S \in G
  <2>1. CASE S = {}
    BY <1>6, <2>1 DEF Emptier
  <2>2. CASE S # {}
    <3> DEFINE n == Topmost(Depth(g), S)
               set == pass[S \ {n}]
    <3>1. n \in S /\ n \in g.node \ mapped
      BY <1>1, <1>3, <2>2
    <3>2. Tidy(g, mapped, set) /\ Emptier(g, lookup, set) /\ \A m \in S \ {n} : set[m] # m
      BY <1>11, <3>1
    <3>3. pass[S] = LumpUp(up, set, n)
      BY <1>6, <2>2
    <3> HIDE DEF n, set
    <3>4. set \in V
      BY <3>2 DEF Tidy
    <3>5. /\ Tidy(g, mapped, pass[S]) /\ Emptier(g, set, pass[S]) /\ pass[S][n] # n
      BY <3>1, <3>2, <3>3, <3>4, UpStep
    <3>6. \A m \in S : m \in g.node
      BY <1>1
    <3>7. \A m \in S : pass[S][m] # m
      BY <3>2, <3>5, <3>6 DEF Emptier
    <3> QED  BY <3>2, <3>5, <3>7 DEF Emptier
  <2> QED  BY <2>1, <2>2
<1>12. left \in G
  <2>1. \A S \in SUBSET left : S \in G
    <3> HIDE DEF G
    <3> QED  BY <1>1, <1>11, SetInduction
  <2> QED  BY <2>1
<1> DEFINE end == pass[left]
<1>13. /\ Tidy(g, mapped, end) /\ Emptier(g, lookup, end) /\ \A m \in left : end[m] # m
  BY <1>12
<1> HIDE DEF end, pass
<1>14. ASSUME NEW m \in g.node PROVE end[m] \in mapped
  <2>1. end[m] \in g.node /\ end[end[m]] = end[m]
    BY <1>13 DEF Tidy
  <2>2. lookup[end[m]] = end[m] /\ end[m] \notin left
    BY <1>13, <2>1 DEF Emptier
  <2> QED  BY <2>1, <2>2
<1>15. end \in [g.node -> mapped]
  BY <1>13, <1>14 DEF Tidy
<1> QED  BY <1>7, <1>15 DEF end

\* Whatever is mapped already, all nodes of a level end up with one of those.
LEMMA CompletionsComplete ==
    ASSUME NEW g, NEW mapped, IsTask(g, mapped), NEW lookup \in Completions(g, mapped)
    PROVE  lookup \in [g.node -> mapped]
<1> DEFINE up == ImmediateDominators(g)
           unmapped == g.node \ mapped
           simple == SimplePass(g, up, Depth(g), mapped)[unmapped]
           tops == {n \in unmapped : simple[n] = n /\ IsHead(g, up, n)}
           Left(l) == {n \in unmapped : l[n] = n}
<1>1. Completions(g, mapped) =
          {LastPass(up, Depth(g), l, Left(l))[Left(l)] : l \in HeadPass(g, up, mapped, simple, tops)[tops]}
  BY DEF Completions
<1>2. IsUp(g, up)
  BY ImmediateDominatorsAreUp DEF IsTask
<1> HIDE DEF up
<1>3. Tidy(g, mapped, simple)
  BY <1>2, SimplePassFacts
<1> HIDE DEF simple
<1>4. PICK l \in HeadPass(g, up, mapped, simple, tops)[tops] :
          lookup = LastPass(up, Depth(g), l, Left(l))[Left(l)]
  BY <1>1
<1>5. Tidy(g, mapped, l)
  <2>1. tops \in SUBSET (g.node \ mapped)
    OBVIOUS
  <2> HIDE DEF tops
  <2> QED  BY <1>3, <1>4, <2>1, HeadPassFacts
<1> HIDE DEF tops
<1> QED  BY <1>2, <1>4, <1>5, LastPassFacts

-----------------------------------------------------------------------------
(* The two flows of a job.                                                 *)

\* Where a flow ends is in no loop.
LEMMA ExitIsOutside ==
    ASSUME NEW f, IsLeveled(f), NEW exit \in f.node, Succs(f, exit) = {}
    PROVE  exit \in Hierarchy(f)[Top].graph.node
<1>0. IsFlowGraph(f) /\ IsRooted(f) /\ ReachableNodes(f) = f.node
  BY FlowGraphIsRooted DEF IsLeveled, IsReached
<1>1. \A e \in f.edge : e[1] # exit /\ e[1] \in f.node /\ e[2] \in f.node /\ e[2] # f.entry
  BY <1>0 DEF Succs, IsFlowGraph
<1>2. ASSUME NEW c \in HeadsOf(f) PROVE exit \notin LoopOf(f, c)
  <2>0. PICK e \in f.edge : e[2] = c /\ Dominates(f, c, e[1])
    BY DEF HeadsOf, BackEdges
  <2>1. c \in f.node /\ c # f.entry
    BY <1>1, <2>0
  <2>2. CASE exit = c
    <3> DEFINE A == ReachedFrom(f, {f.entry}, f.node \ {c})
    <3>1. f.entry \in A /\ \A d \in f.edge : d[1] \in A /\ d[2] # c => d[2] \in A
      BY <1>0, <2>1, AvoidingFacts
    <3>2. e[1] \notin A
      BY <2>0 DEF Dominates
    <3> DEFINE X == A \cup {c}
    <3>3. f.entry \in X /\ \A d \in f.edge : d[1] \in X => d[2] \in X
      BY <1>1, <2>2, <3>1
    <3> HIDE DEF X
    <3>4. f.node \subseteq X
      BY <1>0, <3>3, ReachableFacts
    <3> QED  BY <1>1, <2>2, <3>2, <3>4 DEF X
  <2>3. CASE exit # c
    <3> DEFINE L == LoopOf(f, c)
               X == L \ {exit}
    <3>1. /\ TailsOf(f, c) \subseteq L /\ \A d \in f.edge : d[2] \in L \ {c} => d[1] \in L
          /\ \A Y : /\ TailsOf(f, c) \ {c} \subseteq Y
                    /\ \A d \in f.edge : d[2] \in Y \ {c} /\ d[1] # c => d[1] \in Y
                    => L \ {c} \subseteq Y
      BY <1>0, <2>1, LoopFacts
    <3>2. exit \notin TailsOf(f, c)
      BY <1>1 DEF TailsOf, BackEdges
    <3> HIDE DEF L
    <3>3. TailsOf(f, c) \ {c} \subseteq X
      BY <3>1, <3>2
    <3>4. \A d \in f.edge : d[2] \in X \ {c} /\ d[1] # c => d[1] \in X
      BY <1>1, <3>1
    <3> HIDE DEF X
    <3>5. L \ {c} \subseteq X
      BY <3>1, <3>3, <3>4
    <3> QED  BY <2>3, <3>5 DEF X, L
  <2> QED  BY <2>2, <2>3
<1>3. Top \in Ids(f) /\ Zone(f, Top) = f.node
  BY DEF Ids, Zone
<1>4. Hierarchy(f)[Top].graph.node = Own(f, Top) \cup Surrogates(f, Inner(f, Top))
  <2>1. Hierarchy(f)[Top].graph.node = {Spot(f, Top, n) : n \in Zone(f, Top)}
    BY <1>3, HierarchyIs
  <2> QED  BY <1>3, <2>1, LevelNodes
<1>5. \A c \in Inner(f, Top) : c \in HeadsOf(f) /\ Zone(f, c) = LoopOf(f, c)
  <2>1. Inner(f, Top) \subseteq HeadsOf(f) /\ Top \notin HeadsOf(f)
    BY <1>3, LevelNodes, ZoneFacts
  <2> QED  BY <2>1 DEF Zone
<1>6. exit \in Own(f, Top)
  BY <1>2, <1>3, <1>5 DEF Own
<1> QED  BY <1>4, <1>6

\* What the hierarchy of a flow with an exit is.
IsNested(f, hf) ==
    /\ IsTree(f, hf) /\ AreLevels(f, hf) /\ AreasAreApart(f, hf)
    /\ f.entry \in f.node /\ f.exit \in hf[Top].graph.node /\ f.exit \in f.node
    /\ \A b \in DOMAIN hf : /\ IsRooted(hf[b].graph) /\ ReachableNodes(hf[b].graph) = hf[b].graph.node
                            /\ hf[b].graph.node \subseteq Nat
                            /\ hf[b].graph.entry = HeaderNode(f, b)
                            /\ IsFiniteSet(hf[b].subflows)

LEMMA FlowIsNested ==
    ASSUME NEW f, IsFlow(f)
    PROVE  IsNested(f, Hierarchy(f))
<1>1. IsLeveled(f) /\ IsFiniteSet(f.node) /\ f.entry \in f.node
  BY DEF IsFlow, IsLeveled, IsReached, IsFlowGraph
<1> DEFINE hf == Hierarchy(f)
<1>2. IsTree(f, hf) /\ AreLevels(f, hf) /\ AreasAreApart(f, hf)
  BY <1>1, HierarchyIsTree, HierarchyHasLevels, HierarchyAreasAreApart
<1>3. f.exit \in f.node
  <2>1. f.exit \in ReachedFrom(f, {f.entry}, f.node)
    BY <1>1 DEF IsFlow
  <2>2. f.node \in SUBSET f.node
    OBVIOUS
  <2> QED  BY <1>1, <2>1, <2>2, ReachedFromFacts
<1>4. f.exit \in hf[Top].graph.node
  <2>1. Succs(f, f.exit) = {}
    BY DEF IsFlow
  <2> QED  BY <1>1, <1>3, <2>1, ExitIsOutside
<1>5. DOMAIN hf = Ids(f) /\ \A id \in Ids(f) : hf[id].graph.entry = HeaderNode(f, id)
  BY <1>1, HierarchyIs
<1>6. \A b \in DOMAIN hf : IsRooted(hf[b].graph) /\ ReachableNodes(hf[b].graph) = hf[b].graph.node
                           /\ hf[b].graph.node \subseteq Nat
  BY <1>1, <1>5, LevelIsReached
<1>7. \A b \in DOMAIN hf : IsFiniteSet(hf[b].subflows)
  <2>1. \A b \in DOMAIN hf : hf[b].subflows \subseteq f.node
    BY <1>2 DEF IsTree
  <2> HIDE DEF hf
  <2> QED  BY <1>1, <2>1, FS_Subset
<1> HIDE DEF hf
<1>8. IsNested(f, hf)
  BY <1>1, <1>2, <1>3, <1>4, <1>5, <1>6, <1>7 DEF IsNested
<1> QED  BY <1>8 DEF hf

LEMMA JobFacts ==
    ASSUME NEW j \in Jobs
    PROVE  /\ IsNested(j.bin, Hierarchy(j.bin)) /\ IsNested(j.src, Hierarchy(j.src)) /\ IsJob(j)
BY JobsAreJobs, FlowIsNested

-----------------------------------------------------------------------------
(* The levels that are paired and those that are skipped.                  *)

Setting ==
    IsNested(job.bin, bhFlow) /\ IsNested(job.src, shFlow) /\ IsJob(job)

LEMMA JobsHaveSetting ==
    ASSUME job \in Jobs, bhFlow = Hierarchy(job.bin), shFlow = Hierarchy(job.src)
    PROVE  Setting
BY JobFacts DEF Setting

LEMMA SkippedFacts ==
    ASSUME Setting
    PROVE  /\ Skipped \subseteq Heads(job.bin) /\ Heads(job.bin) \subseteq DOMAIN bhFlow
           /\ Top \notin Skipped
           /\ \A c, d \in Skipped : bhFlow[c].nodes \subseteq bhFlow[d].nodes => c = d
<1>1. job.annotated \subseteq Heads(job.bin)
  BY DEF Setting, IsJob
<1>2. Heads(job.bin) \subseteq DOMAIN bhFlow /\ Top \notin Heads(job.bin)
  BY DEF Setting, IsNested, IsTree
<1> QED  BY <1>1, <1>2 DEF Skipped

LEMMA PairedFacts ==
    ASSUME Setting, PartnersFit
    PROVE  /\ Paired \ {Top} \subseteq Heads(job.bin)
           /\ \A b \in Paired : /\ partner[b] \in DOMAIN shFlow
                                /\ b # Top => partner[b] # Top
           /\ \A b \in DOMAIN bhFlow : \A c \in Subflows(b) \cap Paired :
                 b \in Paired /\ partner[c] \in SrcSubflows(partner[b])
           /\ \A b, c \in Paired : partner[b] = partner[c] => b = c
<1>1. /\ DOMAIN job.matches \subseteq Heads(job.src) /\ Range(job.matches) \subseteq Heads(job.bin)
      /\ Top \notin Heads(job.src) /\ Top \notin Heads(job.bin)
      /\ DOMAIN shFlow = {Top} \cup Heads(job.src)
  BY DEF Setting, IsJob, IsNested, IsTree
<1>2. /\ Paired \subseteq DOMAIN bhFlow /\ partner[Top] = Top
      /\ \A b \in Paired \ {Top} :
            /\ partner[b] \in DOMAIN job.matches /\ job.matches[partner[b]] = b
            /\ \E a \in Paired : b \in Subflows(a) /\ partner[b] \in SrcSubflows(partner[a])
  BY DEF PartnersFit
<1>3. \A b \in Paired \ {Top} : b \in Range(job.matches)
  BY <1>2 DEF Range
<1>4. ASSUME NEW b \in DOMAIN bhFlow, NEW c \in Subflows(b) \cap Paired
      PROVE  b \in Paired /\ partner[c] \in SrcSubflows(partner[b])
  <2>1. c # Top /\ \A a \in DOMAIN bhFlow : c \in Subflows(a) => a = b
    BY <1>1 DEF Setting, IsNested, IsTree, Subflows
  <2> QED  BY <1>2, <2>1
<1> QED  BY <1>1, <1>2, <1>3, <1>4

\* What check_hierarchy makes sure of: all loops that are not skipped have partners.
LEMMA MatchFacts ==
    ASSUME Setting, PartnersFit, HierarchiesMatch,
           \A b \in Paired : \A s \in SrcSubflows(partner[b]) : HasPartner(b, s)
    PROVE  /\ Paired \cap Skipped = {}
           /\ \A b \in Paired : Subflows(b) \subseteq Paired \cup Skipped
           /\ \A s \in DOMAIN shFlow : \E b \in Paired : partner[b] = s
           /\ \A c \in Skipped : \E b \in Paired : c \in Subflows(b)
           /\ \A b \in DOMAIN bhFlow : \A c \in Subflows(b) \cap (Paired \cup Skipped) : b \in Paired
<1>1. Paired \cap Skipped = {}
  BY DEF HierarchiesMatch
<1>2. Paired \subseteq DOMAIN bhFlow /\ Top \in Paired /\ partner[Top] = Top
  BY DEF PartnersFit
<1>3. ASSUME NEW b \in Paired PROVE Subflows(b) \subseteq Paired \cup Skipped
  <2> DEFINE S == SrcSubflows(partner[b])
             f == [s \in S |-> job.matches[s]]
             M == {f[s] : s \in S}
             D == Subflows(b) \ Skipped
  <2>1. IsFiniteSet(Subflows(b)) /\ IsFiniteSet(S)
    BY <1>2, PairedFacts DEF Setting, IsNested, Subflows, SrcSubflows
  <2>2. Cardinality(D) = Cardinality(S)
    BY DEF HierarchiesMatch
  <2>3. \A s \in S : s \in DOMAIN job.matches /\ job.matches[s] \in Subflows(b) \cap Paired
    BY DEF HasPartner
  <2>4. \A s, t \in S : f[s] = f[t] => s = t
    BY <2>3 DEF Setting, IsJob, IsInjective
  <2>5. M \subseteq D /\ M \subseteq Paired /\ IsFiniteSet(D)
    <3>1. IsFiniteSet(D)
      BY <2>1, FS_Subset
    <3> QED  BY <1>1, <2>3, <3>1
  <2>6. Cardinality(M) = Cardinality(S)
    <3>1. f \in Surjection(S, M)
      BY DEF Surjection
    <3>2. f \in Injection(S, M)
      BY <2>4 DEF Injection, IsInjective
    <3>3. f \in Bijection(S, M)
      BY <3>1, <3>2 DEF Bijection
    <3> HIDE DEF f, M, S
    <3> QED  BY <2>1, <3>3, FS_Bijection DEF ExistsBijection
  <2>7. M = D
    <3> HIDE DEF M, D, S
    <3> QED  BY <2>2, <2>5, <2>6, FS_Subset
  <2> QED  BY <2>5, <2>7
<1>4. ASSUME NEW s \in DOMAIN shFlow PROVE \E b \in Paired : partner[b] = s
  <2> DEFINE X == {t \in DOMAIN shFlow : \E b \in Paired : partner[b] = t}
  <2>1. Top \in X
    BY <1>2, PairedFacts
  <2>2. ASSUME NEW t \in X \cap DOMAIN shFlow, NEW r \in shFlow[t].subflows PROVE r \in X
    <3>1. PICK b \in Paired : partner[b] = t
      OBVIOUS
    <3>2. HasPartner(b, r)
      BY <3>1 DEF SrcSubflows
    <3>3. job.matches[r] \in Paired /\ partner[job.matches[r]] = r
      BY <3>2 DEF HasPartner
    <3> QED  BY <3>3, PairedFacts
  <2> HIDE DEF X
  <2>3. DOMAIN shFlow \subseteq X
    BY <2>1, <2>2 DEF Setting, IsNested, IsTree
  <2> QED  BY <2>3 DEF X
<1>5. ASSUME NEW c \in Skipped PROVE \E b \in Paired : c \in Subflows(b)
  <2> DEFINE X == Paired \cup {x \in DOMAIN bhFlow : \E d \in Skipped : bhFlow[x].nodes \subseteq bhFlow[d].nodes}
  <2>1. ASSUME NEW b \in X \cap DOMAIN bhFlow, NEW x \in bhFlow[b].subflows PROVE x \in X
    <3>1. x \in DOMAIN bhFlow /\ bhFlow[x].nodes \subseteq bhFlow[b].nodes
      BY DEF Setting, IsNested, IsTree
    <3>2. CASE b \in Paired
      <4>1. x \in Paired \/ x \in Skipped
        BY <1>3, <3>2 DEF Subflows
      <4> QED  BY <3>1, <4>1
    <3>3. CASE b \notin Paired
      <4>1. PICK d \in Skipped : bhFlow[b].nodes \subseteq bhFlow[d].nodes
        BY <3>3
      <4> QED  BY <3>1, <4>1
    <3> QED  BY <3>2, <3>3
  <2>2. DOMAIN bhFlow \subseteq X
    <3>1. Top \in X
      BY <1>2
    <3> HIDE DEF X
    <3> QED  BY <2>1, <3>1 DEF Setting, IsNested, IsTree
  <2>3. PICK b \in DOMAIN bhFlow : c \in bhFlow[b].subflows
    BY SkippedFacts DEF Setting, IsNested, IsTree
  <2>4. bhFlow[c].nodes \subseteq bhFlow[b].nodes /\ ~(bhFlow[b].nodes \subseteq bhFlow[c].nodes)
    BY <2>3 DEF Setting, IsNested, IsTree
  <2>5. b \in Paired
    <3>1. SUFFICES ASSUME NEW d \in Skipped, bhFlow[b].nodes \subseteq bhFlow[d].nodes PROVE FALSE
      BY <2>2
    <3>2. bhFlow[c].nodes \subseteq bhFlow[d].nodes
      BY <2>4, <3>1
    <3>3. c = d
      BY <3>2, SkippedFacts
    <3> QED  BY <2>4, <3>1, <3>3
  <2> QED  BY <2>3, <2>5 DEF Subflows
<1>6. ASSUME NEW b \in DOMAIN bhFlow, NEW c \in Subflows(b) \cap (Paired \cup Skipped) PROVE b \in Paired
  <2>1. CASE c \in Paired
    BY <2>1, PairedFacts
  <2>2. CASE c \in Skipped
    <3>1. PICK a \in Paired : c \in Subflows(a)
      BY <1>5, <2>2
    <3>2. a = b
      BY <1>2, <3>1 DEF Setting, IsNested, IsTree, Subflows
    <3> QED  BY <3>2
  <2> QED  BY <2>1, <2>2
<1> QED  BY <1>1, <1>3, <1>4, <1>5, <1>6

-----------------------------------------------------------------------------
(* The invariant.                                                          *)


LEMMA InitIsFine == Init => MappingInvariant
<1> SUFFICES ASSUME Init PROVE MappingInvariant
  OBVIOUS
<1>1. job \in Jobs /\ bhFlow = Hierarchy(job.bin) /\ shFlow = Hierarchy(job.src)
  BY DEF Init
<1>2. Setting
  BY <1>1, JobsHaveSetting
<1>3. Top \in DOMAIN bhFlow
  BY <1>2 DEF Setting, IsNested, IsTree
<1>4. DOMAIN partner = {Top} /\ partner[Top] = Top
  BY DEF Init, Just
<1>5. stage = "pair" /\ DOMAIN precise = {}
  BY DEF Init
<1>6. PartnersFit
  BY <1>3, <1>4 DEF PartnersFit, Paired
<1>7. WhilePairing
  BY <1>4, <1>5 DEF Init, WhilePairing, Paired
<1>8. AllPaired /\ PreciseFits /\ WhileLumping /\ WhileSkipping /\ WhileFlattening /\ Ending
  BY <1>5 DEF AllPaired, PreciseFits, WhileLumping, WhileSkipping, WhileFlattening, Ending
<1> QED  BY <1>1, <1>6, <1>7, <1>8 DEF MappingInvariant

LEMMA PairSubflowIsFine == MappingInvariant /\ PairSubflow => MappingInvariant'
<1> SUFFICES ASSUME MappingInvariant, PairSubflow PROVE MappingInvariant'
  OBVIOUS
<1>1. /\ job \in Jobs /\ bhFlow = Hierarchy(job.bin) /\ shFlow = Hierarchy(job.src)
      /\ PartnersFit /\ WhilePairing /\ PreciseFits
  BY DEF MappingInvariant
<1>2. Setting
  BY <1>1, JobsHaveSetting
<1>3. job' = job /\ bhFlow' = bhFlow /\ shFlow' = shFlow /\ precise' = precise
  BY DEF PairSubflow, inputs
<1>4. stage = "pair" /\ DOMAIN precise = {}
  BY <1>1 DEF PairSubflow, WhilePairing
<1>5. PICK p \in todo :
        \/ /\ p[2] \notin DOMAIN job.matches
           /\ stage' = "crashed" /\ UNCHANGED <<partner, todo>>
        \/ /\ p[2] \in DOMAIN job.matches /\ LoopBelow(p[1], p[2]) = {}
           /\ stage' = "refused" /\ UNCHANGED <<partner, todo>>
        \/ /\ p[2] \in DOMAIN job.matches
           /\ \E c \in LoopBelow(p[1], p[2]) :
                /\ partner' = Over(partner, Just(c, p[2]))
                /\ todo' = (todo \ {p}) \cup {<<c, t>> : t \in SrcSubflows(p[2])}
           /\ UNCHANGED stage
  BY DEF PairSubflow
<1> DEFINE b == p[1]
           s == p[2]
<1>6. p = <<b, s>> /\ b \in Paired /\ s \in SrcSubflows(partner[b])
  BY <1>1, <1>4 DEF WhilePairing
<1> HIDE DEF b, s
<1>7. b \in DOMAIN bhFlow /\ partner[b] \in DOMAIN shFlow
  BY <1>1, <1>2, <1>6, PairedFacts DEF PartnersFit
<1>8. CASE UNCHANGED <<partner, todo>> /\ stage' \in {"crashed", "refused"}
  <2>1. PartnersFit'
    BY <1>1, <1>3, <1>8 DEF PartnersFit, Paired, Subflows, SrcSubflows
  <2>2. PreciseFits'
    BY <1>3, <1>4, <1>8 DEF PreciseFits
  <2>3. s \in Heads(job.src)
    BY <1>2, <1>6, <1>7 DEF Setting, IsNested, IsTree, SrcSubflows
  <2>4. stage' = "crashed" => s \notin DOMAIN job.matches
    BY <1>4, <1>5 DEF s
  <2>5. Ending'
    BY <1>3, <1>8, <2>3, <2>4 DEF Ending
  <2>6. (WhilePairing /\ AllPaired /\ WhileLumping /\ WhileSkipping /\ WhileFlattening)'
    BY <1>8 DEF WhilePairing, AllPaired, WhileLumping, WhileSkipping, WhileFlattening
  <2> QED  BY <1>1, <1>3, <2>1, <2>2, <2>5, <2>6 DEF MappingInvariant
<1>9. CASE ~(UNCHANGED <<partner, todo>> /\ stage' \in {"crashed", "refused"})
  <2>1. /\ s \in DOMAIN job.matches /\ stage' = stage
        /\ \E c \in LoopBelow(b, s) :
             /\ partner' = Over(partner, Just(c, s))
             /\ todo' = (todo \ {p}) \cup {<<c, t>> : t \in SrcSubflows(s)}
    BY <1>5, <1>9 DEF b, s
  <2>2. PICK c \in LoopBelow(b, s) :
             /\ partner' = Over(partner, Just(c, s))
             /\ todo' = (todo \ {p}) \cup {<<c, t>> : t \in SrcSubflows(s)}
    BY <2>1
  <2>3. c \in Subflows(b) /\ c = job.matches[s] /\ c \in DOMAIN bhFlow /\ c # Top
    BY <1>2, <1>7 DEF LoopBelow, Subflows, Setting, IsNested, IsTree
  <2>0. /\ DOMAIN partner' = DOMAIN partner \cup {c}
        /\ \A x \in DOMAIN partner : partner'[x] = partner[x]
        /\ c \notin DOMAIN partner => partner'[c] = s
    BY <2>2 DEF Over, Just
  <2>4. Paired' = Paired \cup {c} /\ \A x \in Paired : partner'[x] = partner[x]
    BY <2>0 DEF Paired
  <2>5. partner'[c] = s
    <3>1. CASE c \notin Paired
      BY <2>0, <3>1 DEF Paired
    <3>2. CASE c \in Paired
      <4>1. partner[c] \in DOMAIN job.matches /\ job.matches[partner[c]] = c
        BY <1>1, <2>3, <3>2 DEF PartnersFit
      <4>2. partner[c] = s
        BY <1>2, <2>1, <2>3, <4>1 DEF Setting, IsJob, IsInjective
      <4> QED  BY <2>4, <3>2, <4>2
    <3> QED  BY <3>1, <3>2
  <2>6. /\ Paired \subseteq DOMAIN bhFlow /\ Top \in Paired /\ partner[Top] = Top
        /\ \A x \in Paired \ {Top} :
             /\ partner[x] \in DOMAIN job.matches /\ job.matches[partner[x]] = x
             /\ \E a \in Paired : x \in Subflows(a) /\ partner[x] \in SrcSubflows(partner[a])
    BY <1>1 DEF PartnersFit
  <2>7. \A x : Subflows(x)' = Subflows(x) /\ SrcSubflows(x)' = SrcSubflows(x)
    BY <1>3 DEF Subflows, SrcSubflows
  <2>8. ASSUME NEW x \in Paired' \ {Top}
        PROVE  /\ partner'[x] \in DOMAIN job.matches /\ job.matches[partner'[x]] = x
               /\ \E a \in Paired' : x \in Subflows(a) /\ partner'[x] \in SrcSubflows(partner'[a])
    <3>1. CASE x = c
      BY <1>6, <2>1, <2>3, <2>4, <2>5, <3>1
    <3>2. CASE x # c
      BY <2>4, <2>6, <3>2
    <3> QED  BY <3>1, <3>2
  <2>9. PartnersFit'
    BY <1>3, <2>3, <2>4, <2>6, <2>7, <2>8 DEF PartnersFit
  <2>10. ASSUME NEW q \in todo'
         PROVE  q = <<q[1], q[2]>> /\ q[1] \in Paired' /\ q[2] \in SrcSubflows(partner'[q[1]])
    <3>1. CASE q \in todo
      BY <1>1, <1>4, <2>4, <3>1 DEF WhilePairing
    <3>2. CASE q \notin todo
      BY <2>2, <2>4, <2>5, <3>2
    <3> QED  BY <3>1, <3>2
  <2>11. ASSUME NEW x \in Paired', NEW t \in SrcSubflows(partner'[x])
         PROVE  <<x, t>> \in todo' \/ (/\ t \in DOMAIN job.matches
                                       /\ job.matches[t] \in Subflows(x) \cap Paired'
                                       /\ partner'[job.matches[t]] = t)
    <3>1. CASE x = c
      BY <2>2, <2>5, <2>11, <3>1
    <3>2. CASE x # c
      <4>1. x \in Paired /\ t \in SrcSubflows(partner[x])
        BY <2>4, <2>11, <3>2
      <4>2. CASE <<x, t>> = p
        <5>1. x = b /\ t = s
          BY <1>6, <4>2
        <5> QED  BY <2>1, <2>3, <2>4, <2>5, <5>1
      <4>3. CASE <<x, t>> # p /\ <<x, t>> \in todo
        BY <2>2, <4>3
      <4>4. CASE HasPartner(x, t)
        BY <2>4, <4>4 DEF HasPartner
      <4> QED  BY <1>1, <1>4, <4>1, <4>2, <4>3, <4>4 DEF WhilePairing
    <3> QED  BY <3>1, <3>2
  <2>12. WhilePairing'
    BY <1>3, <1>4, <2>7, <2>10, <2>11 DEF WhilePairing, HasPartner
  <2>13. stage' = "pair" /\ DOMAIN precise' = {}
    BY <1>3, <1>4, <2>1
  <2>14. (AllPaired /\ PreciseFits /\ WhileLumping /\ WhileSkipping /\ WhileFlattening /\ Ending)'
    BY <2>13 DEF AllPaired, PreciseFits, WhileLumping, WhileSkipping, WhileFlattening, Ending
  <2> QED  BY <1>1, <1>3, <2>9, <2>12, <2>14 DEF MappingInvariant
<1> QED  BY <1>8, <1>9

\* What stays as it is once all levels are paired.
LEMMA LevelsStay ==
    ASSUME UNCHANGED <<inputs, partner>>
    PROVE  /\ job' = job /\ bhFlow' = bhFlow /\ shFlow' = shFlow /\ partner' = partner
           /\ Paired' = Paired /\ Skipped' = Skipped
           /\ \A x : /\ Subflows(x)' = Subflows(x) /\ SrcSubflows(x)' = SrcSubflows(x)
                     /\ Level(x)' = Level(x) /\ SrcLevel(x)' = SrcLevel(x)
                     /\ Header(x)' = Header(x) /\ Area(x)' = Area(x)
           /\ PartnersFit => PartnersFit'
           /\ HierarchiesMatch => HierarchiesMatch'
           /\ \A b, s : HasPartner(b, s) => HasPartner(b, s)'
           /\ \A b, m : MapsLevel(b, m) <=> MapsLevel(b, m)'
           /\ \A x, image : RightPlace(x, image) <=> RightPlace(x, image)'
<1>1. job' = job /\ bhFlow' = bhFlow /\ shFlow' = shFlow /\ partner' = partner
  BY DEF inputs
<1>2. Paired' = Paired /\ Skipped' = Skipped
  BY <1>1 DEF Paired, Skipped
<1>3. \A x : /\ Subflows(x)' = Subflows(x) /\ SrcSubflows(x)' = SrcSubflows(x)
             /\ Level(x)' = Level(x) /\ SrcLevel(x)' = SrcLevel(x)
             /\ Header(x)' = Header(x) /\ Area(x)' = Area(x)
  BY <1>1 DEF Subflows, SrcSubflows, Level, SrcLevel, Header, Area
<1>4. PartnersFit => PartnersFit'
  BY <1>1, <1>2, <1>3 DEF PartnersFit
<1>5. HierarchiesMatch => HierarchiesMatch'
  BY <1>1, <1>2, <1>3 DEF HierarchiesMatch
<1>6. \A b, s : HasPartner(b, s) => HasPartner(b, s)'
  BY <1>1, <1>2, <1>3 DEF HasPartner
<1>7. \A b, m : MapsLevel(b, m) <=> MapsLevel(b, m)'
  BY <1>1, <1>2, <1>3 DEF MapsLevel
<1>8. \A x, image : RightPlace(x, image) <=> RightPlace(x, image)'
  BY <1>1, <1>2, <1>3 DEF RightPlace
<1> QED  BY <1>1, <1>2, <1>3, <1>4, <1>5, <1>6, <1>7, <1>8

LEMMA CheckHierarchyIsFine == MappingInvariant /\ CheckHierarchy => MappingInvariant'
<1> SUFFICES ASSUME MappingInvariant, CheckHierarchy PROVE MappingInvariant'
  OBVIOUS
<1>1. /\ job \in Jobs /\ bhFlow = Hierarchy(job.bin) /\ shFlow = Hierarchy(job.src)
      /\ PartnersFit /\ WhilePairing
  BY DEF MappingInvariant
<1>2. UNCHANGED <<inputs, partner>> /\ precise' = precise
  BY DEF CheckHierarchy
<1>3. /\ job' = job /\ bhFlow' = bhFlow /\ shFlow' = shFlow /\ partner' = partner
      /\ Paired' = Paired /\ PartnersFit'
      /\ \A x : SrcSubflows(x)' = SrcSubflows(x)
      /\ HierarchiesMatch => HierarchiesMatch'
      /\ \A b, s : HasPartner(b, s) => HasPartner(b, s)'
  BY <1>1, <1>2, LevelsStay
<1>4. /\ stage = "pair" /\ todo = {} /\ DOMAIN precise = {} /\ DOMAIN precise' = {}
      /\ \/ stage' = "refused"
         \/ stage' = "precise" /\ HierarchiesMatch /\ todo' = Paired
  BY <1>1, <1>2 DEF CheckHierarchy, WhilePairing
<1>5. AllPaired'
  <2>1. CASE stage' = "refused"
    BY <2>1 DEF AllPaired
  <2>2. CASE HierarchiesMatch
    <3>1. \A b \in Paired : \A s \in SrcSubflows(partner[b]) : HasPartner(b, s)
      BY <1>1, <1>4 DEF WhilePairing
    <3>2. \A b \in Paired' : \A s \in SrcSubflows(partner[b])' : HasPartner(b, s)'
      BY <1>3, <3>1
    <3> QED  BY <1>3, <2>2, <3>2 DEF AllPaired
  <2> QED  BY <1>4, <2>1, <2>2
<1>6. PreciseFits'
  BY <1>3, <1>4 DEF PreciseFits
<1>7. (WhilePairing /\ WhileLumping /\ WhileSkipping /\ WhileFlattening /\ Ending)'
  BY <1>4 DEF WhilePairing, WhileLumping, WhileSkipping, WhileFlattening, Ending
<1> QED  BY <1>1, <1>3, <1>5, <1>6, <1>7 DEF MappingInvariant

\* What the precise map of a level has besides the nodes with known conditions.
LEMMA FixedPointsFit ==
    ASSUME Setting, PartnersFit, NEW b \in Paired
    PROVE  /\ Header(b) \in DOMAIN FixedPoints(b) /\ DOMAIN FixedPoints(b) \subseteq Level(b)
           /\ \A c \in Subflows(b) \cap Paired : Surrogate(job.bin, c) \in DOMAIN FixedPoints(b)
           /\ \A n \in DOMAIN FixedPoints(b) : FixedPoints(b)[n] \in SrcLevel(partner[b])
<1> DEFINE C == {Surrogate(job.bin, c) : c \in Subflows(b) \cap Paired}
           loops == [n \in C |-> Surrogate(job.src, partner[HeaderOf(job.bin, n)])]
           ends == IF b = Top
                   THEN Over(Just(job.bin.entry, job.src.entry), Just(job.bin.exit, job.src.exit))
                   ELSE Just(b, partner[b])
<1>1. b \in DOMAIN bhFlow /\ partner[b] \in DOMAIN shFlow /\ partner[Top] = Top
      /\ (b # Top => partner[b] # Top)
  BY PairedFacts DEF PartnersFit
<1>2. FixedPoints(b) = Over(loops, ends)
  BY DEF FixedPoints
<1>3. ASSUME NEW c \in Subflows(b) \cap Paired
      PROVE  /\ Surrogate(job.bin, c) \in Level(b) /\ HeaderOf(job.bin, Surrogate(job.bin, c)) = c
             /\ Surrogate(job.src, partner[c]) \in SrcLevel(partner[b])
  <2>1. c \in Heads(job.bin)
    BY <1>1 DEF Setting, IsNested, IsTree, Subflows
  <2>2. partner[c] \in SrcSubflows(partner[b])
    BY <1>1, PairedFacts
  <2>3. bhFlow[b].graph.node \ job.bin.node = {Surrogate(job.bin, d) : d \in bhFlow[b].subflows}
    BY <1>1 DEF Setting, IsNested, AreLevels
  <2>4. shFlow[partner[b]].graph.node \ job.src.node
            = {Surrogate(job.src, d) : d \in shFlow[partner[b]].subflows}
    BY <1>1 DEF Setting, IsNested, AreLevels
  <2>5. HeaderOf(job.bin, Surrogate(job.bin, c)) = c
    BY <2>1 DEF Setting, IsNested, AreLevels
  <2>6. Surrogate(job.bin, c) \in Level(b)
    BY <2>3 DEF Level, Subflows
  <2>7. Surrogate(job.src, partner[c]) \in SrcLevel(partner[b])
    BY <2>2, <2>4 DEF SrcLevel, SrcSubflows
  <2> QED  BY <2>5, <2>6, <2>7
<1>4. DOMAIN loops \subseteq Level(b) /\ \A n \in DOMAIN loops : loops[n] \in SrcLevel(partner[b])
  BY <1>3
<1>5. /\ DOMAIN ends \subseteq Level(b) /\ Header(b) \in DOMAIN ends
      /\ \A n \in DOMAIN ends : ends[n] \in SrcLevel(partner[b])
  <2>1. HeaderNode(job.bin, b) \in Level(b) /\ HeaderNode(job.src, partner[b]) \in SrcLevel(partner[b])
    BY <1>1 DEF Setting, IsNested, AreLevels, Level, SrcLevel
  <2>2. CASE b = Top
    <3>1. job.bin.exit \in Level(b) /\ job.src.exit \in SrcLevel(partner[b])
      BY <1>1, <2>2 DEF Setting, IsNested, Level, SrcLevel
    <3>2. job.bin.entry \in Level(b) /\ job.src.entry \in SrcLevel(partner[b])
      BY <1>1, <2>1, <2>2 DEF HeaderNode
    <3>3. Header(b) = job.bin.entry
      BY <2>2 DEF Header
    <3>4. ends = Over(Just(job.bin.entry, job.src.entry), Just(job.bin.exit, job.src.exit))
      BY <2>2
    <3> HIDE DEF ends
    <3> QED  BY <3>1, <3>2, <3>3, <3>4 DEF Just, Over
  <2>3. CASE b # Top
    <3>1. Header(b) = b /\ b \in Level(b) /\ partner[b] \in SrcLevel(partner[b])
      BY <1>1, <2>1, <2>3 DEF Header, HeaderNode
    <3>2. ends = Just(b, partner[b])
      BY <2>3
    <3> HIDE DEF ends
    <3> QED  BY <3>1, <3>2 DEF Just
  <2> QED  BY <2>2, <2>3
<1> HIDE DEF ends
<1>6. DOMAIN loops = C
  OBVIOUS
<1> HIDE DEF loops
<1>7. DOMAIN Over(loops, ends) = DOMAIN loops \cup DOMAIN ends
      /\ \A n \in DOMAIN Over(loops, ends) :
            \/ n \in DOMAIN loops /\ Over(loops, ends)[n] = loops[n]
            \/ n \in DOMAIN ends /\ Over(loops, ends)[n] = ends[n]
  BY DEF Over
<1>8. \A c \in Subflows(b) \cap Paired : Surrogate(job.bin, c) \in DOMAIN loops
  BY <1>6
<1> QED  BY <1>2, <1>4, <1>5, <1>7, <1>8

LEMMA PreciseLevelIsFine == MappingInvariant /\ PreciseLevel => MappingInvariant'
<1> SUFFICES ASSUME MappingInvariant, PreciseLevel PROVE MappingInvariant'
  OBVIOUS
<1>1. /\ job \in Jobs /\ bhFlow = Hierarchy(job.bin) /\ shFlow = Hierarchy(job.src)
      /\ PartnersFit /\ AllPaired /\ PreciseFits
  BY DEF MappingInvariant
<1>2. UNCHANGED <<inputs, partner>> /\ stage = "precise"
  BY DEF PreciseLevel
<1>3. Setting
  BY <1>1, JobsHaveSetting
<1>4. /\ job' = job /\ bhFlow' = bhFlow /\ shFlow' = shFlow /\ partner' = partner
      /\ Paired' = Paired /\ PartnersFit'
      /\ \A x : SrcSubflows(x)' = SrcSubflows(x)
      /\ HierarchiesMatch => HierarchiesMatch'
      /\ \A b, s : HasPartner(b, s) => HasPartner(b, s)'
      /\ \A b, m : MapsLevel(b, m) <=> MapsLevel(b, m)'
  BY <1>1, <1>2, LevelsStay
<1>5. HierarchiesMatch /\ \A b \in Paired : \A s \in SrcSubflows(partner[b]) : HasPartner(b, s)
  BY <1>1, <1>2 DEF AllPaired
<1>6. /\ todo \subseteq Paired /\ DOMAIN precise = Paired \ todo
      /\ \A b \in DOMAIN precise : MapsLevel(b, precise[b])
  BY <1>1, <1>2 DEF PreciseFits
<1> DEFINE BCond(b) == Conditions(job.bin, "bin", bhFlow[b].graph, b)
           SCond(b) == Conditions(job.src, "src", shFlow[partner[b]].graph, partner[b])
           Conds(b) == (Range(BCond(b)) \cap Range(SCond(b))) \ {{}}
           Known(b, found, pick) ==
               [n \in {m \in DOMAIN BCond(b) : BCond(b)[m] \in found} |-> pick[BCond(b)[n]]]
<1>7. PICK b \in todo :
        /\ \E found \in {S \in SUBSET Conds(b) : \A c \in Conds(b) \ S : MayLackLine(SCond(b), c)} :
           \E pick \in {p \in [found -> DOMAIN SCond(b)] : \A c \in found : SCond(b)[p[c]] = c} :
              precise' = Over(precise, Just(b, Over(Known(b, found, pick), FixedPoints(b))))
        /\ todo' = todo \ {b}
        /\ stage' = IF \A c \in Subflows(b) \ Skipped :
                          Surrogate(job.bin, c) \in DOMAIN precise'[b]
                    THEN stage ELSE "crashed"
  BY DEF PreciseLevel
<1>8. PICK found \in SUBSET Conds(b) : \E pick \in [found -> DOMAIN SCond(b)] :
        precise' = Over(precise, Just(b, Over(Known(b, found, pick), FixedPoints(b))))
  <2> HIDE DEF BCond, SCond, Conds, Known
  <2>1. PICK found \in {S \in SUBSET Conds(b) : \A c \in Conds(b) \ S : MayLackLine(SCond(b), c)} :
           \E pick \in {p \in [found -> DOMAIN SCond(b)] : \A c \in found : SCond(b)[p[c]] = c} :
              precise' = Over(precise, Just(b, Over(Known(b, found, pick), FixedPoints(b))))
    BY <1>7
  <2>2. PICK pick \in {p \in [found -> DOMAIN SCond(b)] : \A c \in found : SCond(b)[p[c]] = c} :
           precise' = Over(precise, Just(b, Over(Known(b, found, pick), FixedPoints(b))))
    BY <2>1
  <2>3. found \in SUBSET Conds(b) /\ pick \in [found -> DOMAIN SCond(b)]
    BY <2>1, <2>2
  <2> QED  BY <2>2, <2>3
<1>9. PICK pick \in [found -> DOMAIN SCond(b)] :
        precise' = Over(precise, Just(b, Over(Known(b, found, pick), FixedPoints(b))))
  BY <1>8
<1>10. DOMAIN BCond(b) \subseteq Level(b) /\ DOMAIN SCond(b) \subseteq SrcLevel(partner[b])
  BY DEF Conditions, Level, SrcLevel
<1> HIDE DEF BCond, SCond
<1> DEFINE known == Known(b, found, pick)
           fixed == FixedPoints(b)
           map == Over(known, fixed)
<1>11. DOMAIN known \subseteq Level(b) /\ \A n \in DOMAIN known : known[n] \in SrcLevel(partner[b])
  BY <1>10
<1>12. /\ Header(b) \in DOMAIN fixed /\ DOMAIN fixed \subseteq Level(b)
       /\ \A c \in Subflows(b) \cap Paired : Surrogate(job.bin, c) \in DOMAIN fixed
       /\ \A n \in DOMAIN fixed : fixed[n] \in SrcLevel(partner[b])
  BY <1>1, <1>3, <1>6, FixedPointsFit
<1> HIDE DEF known, fixed, Known
<1>13. /\ DOMAIN map = DOMAIN known \cup DOMAIN fixed
       /\ \A n \in DOMAIN map : \/ n \in DOMAIN known /\ map[n] = known[n]
                                \/ n \in DOMAIN fixed /\ map[n] = fixed[n]
  BY DEF Over
<1>14. precise' = Over(precise, Just(b, map))
  BY <1>9 DEF known, fixed
<1> HIDE DEF map
<1>15. MapsLevel(b, map)
  BY <1>11, <1>12, <1>13 DEF MapsLevel
<1>16. /\ DOMAIN precise' = DOMAIN precise \cup {b} /\ precise'[b] = map
       /\ \A x \in DOMAIN precise : precise'[x] = precise[x]
  <2>1. b \notin DOMAIN precise
    BY <1>6
  <2> QED  BY <1>14, <2>1 DEF Over, Just
<1>17. stage' = stage
  <2>1. Subflows(b) \subseteq Paired \cup Skipped
    BY <1>1, <1>3, <1>5, <1>6, MatchFacts
  <2> QED  BY <1>7, <1>12, <1>13, <1>16, <2>1
<1>18. PreciseFits'
  <2>1. \A x \in DOMAIN precise' : MapsLevel(x, precise'[x])
    BY <1>6, <1>15, <1>16
  <2>2. \A x \in DOMAIN precise' : MapsLevel(x, precise[x])'
    BY <1>4, <2>1
  <2> QED  BY <1>4, <1>6, <1>7, <1>16, <2>2 DEF PreciseFits
<1>19. AllPaired'
  <2>1. \A x \in Paired' : \A s \in SrcSubflows(partner[x])' : HasPartner(x, s)'
    BY <1>4, <1>5
  <2> QED  BY <1>4, <1>5, <2>1 DEF AllPaired
<1>20. (WhilePairing /\ WhileLumping /\ WhileSkipping /\ WhileFlattening /\ Ending)'
  BY <1>2, <1>17 DEF WhilePairing, WhileLumping, WhileSkipping, WhileFlattening, Ending
<1> QED  BY <1>1, <1>4, <1>18, <1>19, <1>20 DEF MappingInvariant

\* What all later steps keep: the pairs and the precise maps.
LEMMA PairsStay ==
    ASSUME MappingInvariant, UNCHANGED <<inputs, partner, precise>>,
           stage \in {"precise", "lump", "skip", "flatten", "mapped"},
           stage' # "precise", stage' # "pair"
    PROVE  /\ Setting /\ PartnersFit /\ HierarchiesMatch
           /\ \A b \in Paired : \A s \in SrcSubflows(partner[b]) : HasPartner(b, s)
           /\ job' \in Jobs /\ bhFlow' = Hierarchy(job'.bin) /\ shFlow' = Hierarchy(job'.src)
           /\ PartnersFit' /\ WhilePairing' /\ AllPaired' /\ PreciseFits'
<1>1. /\ job \in Jobs /\ bhFlow = Hierarchy(job.bin) /\ shFlow = Hierarchy(job.src)
      /\ PartnersFit /\ AllPaired /\ PreciseFits
  BY DEF MappingInvariant
<1>2. Setting
  BY <1>1, JobsHaveSetting
<1>3. /\ job' = job /\ bhFlow' = bhFlow /\ shFlow' = shFlow /\ partner' = partner
      /\ Paired' = Paired /\ PartnersFit' /\ precise' = precise
      /\ \A x : SrcSubflows(x)' = SrcSubflows(x)
      /\ HierarchiesMatch => HierarchiesMatch'
      /\ \A b, s : HasPartner(b, s) => HasPartner(b, s)'
      /\ \A b, m : MapsLevel(b, m) <=> MapsLevel(b, m)'
  BY <1>1, LevelsStay
<1>4. HierarchiesMatch /\ \A b \in Paired : \A s \in SrcSubflows(partner[b]) : HasPartner(b, s)
  BY <1>1 DEF AllPaired
<1>5. AllPaired'
  <2>1. \A x \in Paired' : \A s \in SrcSubflows(partner[x])' : HasPartner(x, s)'
    BY <1>3, <1>4
  <2> QED  BY <1>3, <1>4, <2>1 DEF AllPaired
<1>6. PreciseFits'
  BY <1>1, <1>3 DEF PreciseFits
<1>7. WhilePairing'
  BY DEF WhilePairing
<1> QED  BY <1>1, <1>2, <1>3, <1>4, <1>5, <1>6, <1>7

LEMMA CopyMapsIsFine == MappingInvariant /\ CopyMaps => MappingInvariant'
<1> SUFFICES ASSUME MappingInvariant, CopyMaps PROVE MappingInvariant'
  OBVIOUS
<1>1. /\ UNCHANGED <<inputs, partner, precise>> /\ stage = "precise" /\ todo = {}
      /\ hmap' = precise /\ stage' = "lump" /\ todo' = Paired
  BY DEF CopyMaps
<1>2. /\ job' \in Jobs /\ bhFlow' = Hierarchy(job'.bin) /\ shFlow' = Hierarchy(job'.src)
      /\ PartnersFit' /\ WhilePairing' /\ AllPaired' /\ PreciseFits'
  BY <1>1, PairsStay
<1>3. Paired' = Paired /\ \A b, m : MapsLevel(b, m) <=> MapsLevel(b, m)'
  BY <1>1, LevelsStay
<1>4. PreciseFits
  BY DEF MappingInvariant
<1>5. WhileLumping'
  BY <1>1, <1>3, <1>4 DEF PreciseFits, WhileLumping
<1>6. (WhileSkipping /\ WhileFlattening /\ Ending)'
  BY <1>1 DEF WhileSkipping, WhileFlattening, Ending
<1> QED  BY <1>2, <1>5, <1>6 DEF MappingInvariant

LEMMA LumpLevelIsFine == MappingInvariant /\ LumpLevel => MappingInvariant'
<1> SUFFICES ASSUME MappingInvariant, LumpLevel PROVE MappingInvariant'
  OBVIOUS
<1>1. UNCHANGED <<inputs, partner, precise>> /\ stage = "lump" /\ stage' = stage
  BY DEF LumpLevel
<1>2. /\ job' \in Jobs /\ bhFlow' = Hierarchy(job'.bin) /\ shFlow' = Hierarchy(job'.src)
      /\ PartnersFit' /\ WhilePairing' /\ AllPaired' /\ PreciseFits'
      /\ Setting /\ PartnersFit
  BY <1>1, PairsStay
<1>3. /\ Paired' = Paired /\ \A b, m : MapsLevel(b, m) <=> MapsLevel(b, m)'
      /\ \A x : Level(x)' = Level(x)
  BY <1>1, LevelsStay
<1>4. /\ todo \subseteq Paired /\ DOMAIN hmap = Paired
      /\ \A b \in Paired : MapsLevel(b, hmap[b])
      /\ \A b \in Paired \ todo : DOMAIN hmap[b] = Level(b)
  BY <1>1 DEF MappingInvariant, WhileLumping
<1>5. PICK b \in todo : \E lookup \in Completions(bhFlow[b].graph, DOMAIN hmap[b]) :
              /\ hmap' = [hmap EXCEPT ![b] = [n \in DOMAIN lookup |-> @[lookup[n]]]]
              /\ todo' = todo \ {b}
  BY DEF LumpLevel
<1>6. PICK lookup \in Completions(bhFlow[b].graph, DOMAIN hmap[b]) :
              /\ hmap' = [hmap EXCEPT ![b] = [n \in DOMAIN lookup |-> @[lookup[n]]]]
              /\ todo' = todo \ {b}
  BY <1>5
<1> DEFINE g == bhFlow[b].graph
<1>7. lookup \in [Level(b) -> DOMAIN hmap[b]]
  <2>1. b \in DOMAIN bhFlow
    BY <1>2, <1>4 DEF PartnersFit
  <2>2. /\ IsRooted(g) /\ ReachableNodes(g) = g.node /\ g.node \subseteq Nat
        /\ g.entry = HeaderNode(job.bin, b)
    BY <1>2, <2>1 DEF Setting, IsNested
  <2>3. Header(b) \in DOMAIN hmap[b] /\ DOMAIN hmap[b] \subseteq Level(b)
    BY <1>4 DEF MapsLevel
  <2>4. IsTask(g, DOMAIN hmap[b])
    BY <2>2, <2>3 DEF IsTask, Level, Header, HeaderNode
  <2>5. lookup \in [g.node -> DOMAIN hmap[b]]
    <3> HIDE DEF g
    <3>1. lookup \in Completions(g, DOMAIN hmap[b])
      BY DEF g
    <3> QED  BY <2>4, <3>1, CompletionsComplete
  <2> QED  BY <2>5 DEF Level
<1>8. /\ DOMAIN hmap' = Paired /\ hmap'[b] = [n \in Level(b) |-> hmap[b][lookup[n]]]
      /\ \A x \in Paired \ {b} : hmap'[x] = hmap[x]
  BY <1>4, <1>6, <1>7
<1>9. MapsLevel(b, hmap'[b])
  <2>1. MapsLevel(b, hmap[b])
    BY <1>4
  <2> QED  BY <1>7, <1>8, <2>1 DEF MapsLevel
<1>10. WhileLumping'
  <2>1. \A x \in Paired' : MapsLevel(x, hmap[x])'
    BY <1>3, <1>4, <1>8, <1>9
  <2>2. \A x \in Paired' \ todo' : DOMAIN hmap'[x] = Level(x)'
    BY <1>3, <1>4, <1>6, <1>8
  <2> QED  BY <1>3, <1>4, <1>6, <1>8, <2>1, <2>2 DEF WhileLumping
<1>11. (WhileSkipping /\ WhileFlattening /\ Ending)'
  BY <1>1 DEF WhileSkipping, WhileFlattening, Ending
<1> QED  BY <1>2, <1>10, <1>11 DEF MappingInvariant

LEMMA FinishLumpingIsFine == MappingInvariant /\ FinishLumping => MappingInvariant'
<1> SUFFICES ASSUME MappingInvariant, FinishLumping PROVE MappingInvariant'
  OBVIOUS
<1>1. /\ UNCHANGED <<inputs, partner, precise>> /\ stage = "lump" /\ stage' = "skip" /\ hmap' = hmap
      /\ todo = {} /\ todo' = {p \in Paired \X Skipped : p[2] \in Subflows(p[1])}
  BY DEF FinishLumping
<1>2. /\ job' \in Jobs /\ bhFlow' = Hierarchy(job'.bin) /\ shFlow' = Hierarchy(job'.src)
      /\ PartnersFit' /\ WhilePairing' /\ AllPaired' /\ PreciseFits' /\ HierarchiesMatch
  BY <1>1, PairsStay
<1>3. /\ Paired' = Paired /\ Skipped' = Skipped
      /\ \A b, m : MapsLevel(b, m) <=> MapsLevel(b, m)'
      /\ \A x : Level(x)' = Level(x) /\ Subflows(x)' = Subflows(x)
  BY <1>1, LevelsStay
<1>4. /\ DOMAIN hmap = Paired /\ Paired \cap Skipped = {}
      /\ \A b \in Paired : MapsLevel(b, hmap[b]) /\ DOMAIN hmap[b] = Level(b)
  BY <1>1, <1>2 DEF MappingInvariant, WhileLumping, HierarchiesMatch
<1>5. WhileSkipping'
  <2>1. \A p \in todo' : p = <<p[1], p[2]>> /\ p[1] \in Paired' /\ p[2] \in Skipped' \cap Subflows(p[1])'
    BY <1>1, <1>3
  <2>2. \A b \in Paired' : MapsLevel(b, hmap[b])' /\ DOMAIN hmap'[b] = Level(b)'
    BY <1>1, <1>3, <1>4
  <2>3. \A b \in Paired' : \A c \in Skipped' \cap Subflows(b)' : <<b, c>> \in todo'
    BY <1>1, <1>3
  <2>4. Skipped' \cap DOMAIN hmap' = {} /\ DOMAIN hmap' = Paired'
    BY <1>1, <1>3, <1>4
  <2> QED  BY <2>1, <2>2, <2>3, <2>4 DEF WhileSkipping
<1>6. (WhileLumping /\ WhileFlattening /\ Ending)'
  BY <1>1 DEF WhileLumping, WhileFlattening, Ending
<1> QED  BY <1>2, <1>5, <1>6 DEF MappingInvariant

LEMMA SkipFlowIsFine == MappingInvariant /\ SkipFlow => MappingInvariant'
<1> SUFFICES ASSUME MappingInvariant, SkipFlow PROVE MappingInvariant'
  OBVIOUS
<1>1. UNCHANGED <<inputs, partner, precise>> /\ stage = "skip" /\ stage' \in {"skip", "crashed"}
  BY DEF SkipFlow
<1>2. /\ job' \in Jobs /\ bhFlow' = Hierarchy(job'.bin) /\ shFlow' = Hierarchy(job'.src)
      /\ PartnersFit' /\ WhilePairing' /\ AllPaired' /\ PreciseFits'
      /\ Setting /\ PartnersFit /\ HierarchiesMatch
  BY <1>1, PairsStay
<1>3. /\ job' = job /\ partner' = partner /\ Paired' = Paired /\ Skipped' = Skipped
      /\ \A b, m : MapsLevel(b, m) <=> MapsLevel(b, m)'
      /\ \A x : /\ Level(x)' = Level(x) /\ Subflows(x)' = Subflows(x)
                /\ SrcLevel(x)' = SrcLevel(x)
  BY <1>1, LevelsStay
<1>4. /\ \A p \in todo : /\ p = <<p[1], p[2]>> /\ p[1] \in Paired
                         /\ p[2] \in Skipped \cap Subflows(p[1])
      /\ Paired \subseteq DOMAIN hmap /\ DOMAIN hmap \subseteq Paired \cup Skipped
      /\ \A b \in Paired : MapsLevel(b, hmap[b]) /\ DOMAIN hmap[b] = Level(b)
      /\ \A b \in Paired : \A c \in Skipped \cap Subflows(b) :
            <<b, c>> \in todo \/ c \in DOMAIN hmap
      /\ \A c \in Skipped \cap DOMAIN hmap : IsSkipped(c)
  BY <1>1 DEF MappingInvariant, WhileSkipping
<1>5. Paired \cap Skipped = {}
  BY <1>2 DEF HierarchiesMatch
<1> DEFINE surro(p) == Surrogate(job.bin, p[2])
           mapped(p) == surro(p) \in DOMAIN hmap[p[1]]
<1>6. PICK p \in todo :
        IF mapped(p) /\ p[2] \in job.mistaken
        THEN stage' = "crashed" /\ UNCHANGED <<hmap, todo>>
        ELSE /\ hmap' = Over(hmap, Just(p[2],
                           [n \in IF mapped(p) THEN NodesToSkip(p[2]) ELSE {} |->
                               hmap[p[1]][surro(p)]]))
             /\ todo' = todo \ {p}
             /\ UNCHANGED stage
  BY DEF SkipFlow
<1> DEFINE b == p[1]
           c == p[2]
<1>7. p = <<b, c>> /\ b \in Paired /\ c \in Skipped \cap Subflows(b) /\ c \notin Paired
  BY <1>4, <1>5
<1>8. surro(p) \in Level(b) /\ mapped(p)
  <2>1. b \in DOMAIN bhFlow
    BY <1>2, <1>7 DEF PartnersFit
  <2>2. bhFlow[b].graph.node \ job.bin.node = {Surrogate(job.bin, d) : d \in bhFlow[b].subflows}
    BY <1>2, <2>1 DEF Setting, IsNested, AreLevels
  <2>3. surro(p) \in Level(b)
    BY <1>7, <2>2 DEF Level, Subflows
  <2> QED  BY <1>4, <1>7, <2>3
<1> DEFINE place == hmap[b][surro(p)]
<1>9. place \in SrcLevel(partner[b])
  BY <1>4, <1>7, <1>8 DEF MapsLevel
<1>10. CASE stage' = "crashed"
  <2>1. c \in Skipped \cap job.mistaken
    BY <1>1, <1>6, <1>7, <1>10
  <2>2. Ending'
    BY <1>3, <1>10, <2>1 DEF Ending
  <2>3. (WhileLumping /\ WhileSkipping /\ WhileFlattening)'
    BY <1>10 DEF WhileLumping, WhileSkipping, WhileFlattening
  <2> QED  BY <1>2, <2>2, <2>3 DEF MappingInvariant
<1>11. CASE stage' # "crashed"
  <2>1. /\ c \notin job.mistaken /\ stage' = "skip" /\ todo' = todo \ {p}
        /\ hmap' = Over(hmap, Just(c, [n \in Level(c) |-> place]))
    BY <1>1, <1>6, <1>8, <1>11 DEF NodesToSkip, Level
  <2> DEFINE map == [n \in Level(c) |-> place]
  <2>2. DOMAIN map = Level(c) /\ \A n \in Level(c) : map[n] \in SrcLevel(partner[b])
    BY <1>9
  <2> HIDE DEF map, place, mapped, surro
  <2>3. /\ DOMAIN hmap' = DOMAIN hmap \cup {c} /\ \A x \in DOMAIN hmap : hmap'[x] = hmap[x]
        /\ c \notin DOMAIN hmap => hmap'[c] = map
    BY <2>1 DEF Over, Just, map
  <2>4. ASSUME NEW x \in Skipped \cap DOMAIN hmap'
        PROVE  /\ x \notin job.mistaken
               /\ DOMAIN hmap'[x] = Level(x)
               /\ \E a \in Paired : /\ x \in Subflows(a)
                                    /\ \A n \in Level(x) : hmap'[x][n] \in SrcLevel(partner[a])
    <3>1. CASE x \in DOMAIN hmap
      BY <1>4, <2>3, <3>1 DEF IsSkipped
    <3>2. CASE x \notin DOMAIN hmap
      <4>1. x = c /\ hmap'[x] = map
        BY <2>3, <3>2
      <4> QED  BY <1>7, <2>1, <2>2, <4>1
    <3> QED  BY <3>1, <3>2
  <2>5. \A x \in Skipped' \cap DOMAIN hmap' : IsSkipped(x)'
    BY <1>3, <2>4 DEF IsSkipped
  <2>6. \A x \in Paired' : MapsLevel(x, hmap[x])' /\ DOMAIN hmap'[x] = Level(x)'
    BY <1>3, <1>4, <2>3
  <2>7. \A x \in Paired' : \A y \in Skipped' \cap Subflows(x)' :
            <<x, y>> \in todo' \/ y \in DOMAIN hmap'
    <3>1. SUFFICES ASSUME NEW x \in Paired, NEW y \in Skipped \cap Subflows(x), <<x, y>> \notin todo'
                   PROVE  y \in DOMAIN hmap'
      BY <1>3
    <3>2. CASE <<x, y>> \in todo
      <4>1. <<x, y>> = <<b, c>>
        BY <1>7, <2>1, <3>1, <3>2
      <4>2. y = c
        BY <4>1
      <4> QED  BY <2>3, <4>2
    <3>3. CASE <<x, y>> \notin todo
      <4>1. y \in DOMAIN hmap
        BY <1>4, <3>3
      <4> QED  BY <2>3, <4>1
    <3> QED  BY <3>2, <3>3
  <2>8. Paired' \subseteq DOMAIN hmap' /\ DOMAIN hmap' \subseteq Paired' \cup Skipped'
    BY <1>3, <1>4, <1>7, <2>3
  <2>9. \A q \in todo' : q = <<q[1], q[2]>> /\ q[1] \in Paired' /\ q[2] \in Skipped' \cap Subflows(q[1])'
    BY <1>3, <1>4, <2>1
  <2>10. WhileSkipping'
    BY <2>5, <2>6, <2>7, <2>8, <2>9 DEF WhileSkipping
  <2>11. (WhileLumping /\ WhileFlattening /\ Ending)'
    BY <2>1 DEF WhileLumping, WhileFlattening, Ending
  <2> QED  BY <1>2, <2>10, <2>11 DEF MappingInvariant
<1> QED  BY <1>10, <1>11

\* A node of a source level stands for a node of that loop.
LEMMA RealImageFacts ==
    ASSUME Setting, NEW s \in DOMAIN shFlow, NEW n \in SrcLevel(s)
    PROVE  /\ RealImage(n) \in shFlow[s].nodes
           /\ n \in job.src.node => n \in shFlow[s].nodes
<1>1. CASE n \in job.src.node
  <2>1. n \in shFlow[s].nodes
    BY <1>1 DEF Setting, IsNested, AreLevels, SrcLevel
  <2>2. ~IsVirtual(job.src, n)
    BY <1>1 DEF Setting, IsNested, AreLevels
  <2> QED  BY <2>1, <2>2 DEF RealImage
<1>2. CASE n \notin job.src.node
  <2>1. shFlow[s].graph.node \ job.src.node = {Surrogate(job.src, d) : d \in shFlow[s].subflows}
    BY DEF Setting, IsNested, AreLevels
  <2>2. PICK d \in shFlow[s].subflows : n = Surrogate(job.src, d)
    BY <1>2, <2>1 DEF SrcLevel
  <2>3. d \in Heads(job.src) /\ d \in DOMAIN shFlow /\ shFlow[d].nodes \subseteq shFlow[s].nodes /\ d # Top
    BY DEF Setting, IsNested, IsTree
  <2>4. IsVirtual(job.src, n) /\ HeaderOf(job.src, n) = d
    BY <2>2, <2>3 DEF Setting, IsNested, AreLevels
  <2>5. HeaderNode(job.src, d) \in shFlow[d].nodes
    BY <2>3 DEF Setting, IsNested, AreLevels
  <2> QED  BY <1>2, <2>3, <2>4, <2>5 DEF RealImage, HeaderNode
<1> QED  BY <1>1, <1>2

\* Levels and areas of binary loops.
LEMMA LevelFacts ==
    ASSUME Setting
    PROVE  /\ \A b \in DOMAIN bhFlow :
                /\ Header(b) \in Level(b) \cap job.bin.node
                /\ Level(b) \subseteq Area(b)
                /\ \A n \in job.bin.node : n \in Level(b)
                      <=> n \in bhFlow[b].nodes /\ \A c \in Subflows(b) : n \notin bhFlow[c].nodes
                /\ \A c \in Subflows(b) :
                      /\ c \in DOMAIN bhFlow /\ c # b /\ c # Top
                      /\ Area(c) \subseteq Area(b)
                      /\ bhFlow[c].nodes \subseteq bhFlow[b].nodes
                      /\ Level(b) \cap job.bin.node \cap Area(c) = {}
                      /\ Surrogate(job.bin, c) \in Level(b) \ job.bin.node
                      /\ \A d \in Subflows(b) \ {c} :
                            Area(c) \cap Area(d) = {} /\ bhFlow[c].nodes \cap bhFlow[d].nodes = {}
           /\ \A a, b \in DOMAIN bhFlow : a # b => Level(a) \cap Level(b) = {}
           /\ \A n \in job.bin.node : \E b \in DOMAIN bhFlow : n \in Level(b)
<1>1. IsTree(job.bin, bhFlow) /\ AreLevels(job.bin, bhFlow) /\ AreasAreApart(job.bin, bhFlow)
  BY DEF Setting, IsNested
<1>2. \A x : Area(x) = AreaOf(job.bin, bhFlow, x)
  BY DEF Area, AreaOf
<1>3. /\ \A a, b \in DOMAIN bhFlow : a # b => Level(a) \cap Level(b) = {}
      /\ \A n \in job.bin.node : \E b \in DOMAIN bhFlow : n \in Level(b)
  BY <1>1 DEF AreLevels, Level
<1>4. ASSUME NEW b \in DOMAIN bhFlow
      PROVE  /\ Header(b) \in Level(b) \cap job.bin.node
             /\ Level(b) \subseteq Area(b)
             /\ \A n \in job.bin.node : n \in Level(b)
                   <=> n \in bhFlow[b].nodes /\ \A c \in Subflows(b) : n \notin bhFlow[c].nodes
  BY <1>1, <1>2 DEF AreLevels, AreasAreApart, Level, Subflows, Header, HeaderNode
<1>5. ASSUME NEW b \in DOMAIN bhFlow, NEW c \in Subflows(b)
      PROVE  /\ c \in DOMAIN bhFlow /\ c # b /\ c # Top
             /\ bhFlow[c].nodes \subseteq bhFlow[b].nodes
             /\ Surrogate(job.bin, c) \in Level(b) \ job.bin.node
  <2>1. c \in DOMAIN bhFlow /\ c # b /\ c # Top /\ bhFlow[c].nodes \subseteq bhFlow[b].nodes
    BY <1>1 DEF IsTree, Subflows
  <2>2. bhFlow[b].graph.node \ job.bin.node = {Surrogate(job.bin, d) : d \in bhFlow[b].subflows}
    BY <1>1 DEF AreLevels
  <2> QED  BY <2>1, <2>2 DEF Level, Subflows
<1>6. ASSUME NEW b \in DOMAIN bhFlow, NEW c \in Subflows(b)
      PROVE  /\ Area(c) \subseteq Area(b)
             /\ Level(b) \cap job.bin.node \cap Area(c) = {}
             /\ \A d \in Subflows(b) \ {c} :
                   Area(c) \cap Area(d) = {} /\ bhFlow[c].nodes \cap bhFlow[d].nodes = {}
  BY <1>1, <1>2 DEF AreasAreApart, Level, Subflows
<1> QED  BY <1>3, <1>4, <1>5, <1>6

LEMMA StartFlatteningIsFine == MappingInvariant /\ StartFlattening => MappingInvariant'
<1> SUFFICES ASSUME MappingInvariant, StartFlattening PROVE MappingInvariant'
  OBVIOUS
<1>1. /\ UNCHANGED <<inputs, partner, precise>> /\ stage = "skip" /\ stage' = "flatten"
      /\ todo = {} /\ todo' = {p \in Paired \X DOMAIN hmap : p[2] \in Subflows(p[1])}
      /\ flat' = [b \in DOMAIN hmap |->
                   IF b \in Paired
                   THEN [n \in DOMAIN hmap[b] \cap job.bin.node |-> RealImage(hmap[b][n])]
                   ELSE hmap[b]]
  BY DEF StartFlattening
<1>2. /\ job' \in Jobs /\ bhFlow' = Hierarchy(job'.bin) /\ shFlow' = Hierarchy(job'.src)
      /\ PartnersFit' /\ WhilePairing' /\ AllPaired' /\ PreciseFits'
      /\ Setting /\ PartnersFit /\ HierarchiesMatch
      /\ \A b \in Paired : \A s \in SrcSubflows(partner[b]) : HasPartner(b, s)
  BY <1>1, PairsStay
<1>3. /\ job' = job /\ partner' = partner /\ Paired' = Paired /\ Skipped' = Skipped
      /\ \A x : /\ Level(x)' = Level(x) /\ Subflows(x)' = Subflows(x) /\ Area(x)' = Area(x)
      /\ \A x, image : RightPlace(x, image) <=> RightPlace(x, image)'
  BY <1>1, LevelsStay
<1>4. /\ Paired \subseteq DOMAIN hmap /\ DOMAIN hmap \subseteq Paired \cup Skipped
      /\ \A b \in Paired : MapsLevel(b, hmap[b]) /\ DOMAIN hmap[b] = Level(b)
      /\ \A b \in Paired : \A c \in Skipped \cap Subflows(b) : c \in DOMAIN hmap
      /\ \A c \in Skipped \cap DOMAIN hmap : IsSkipped(c)
  BY <1>1 DEF MappingInvariant, WhileSkipping
<1>5. /\ Paired \cap Skipped = {}
      /\ \A c \in Skipped : \E b \in Paired : c \in Subflows(b)
  BY <1>2, MatchFacts
<1>6. DOMAIN hmap = Paired \cup Skipped
  BY <1>4, <1>5
<1>7. Paired \subseteq DOMAIN bhFlow /\ Skipped \subseteq DOMAIN bhFlow
  BY <1>2, SkippedFacts DEF PartnersFit
<1>8. /\ DOMAIN flat' = Paired \cup Skipped
      /\ \A b \in Paired : /\ DOMAIN flat'[b] = Level(b) \cap job.bin.node
                           /\ \A n \in DOMAIN flat'[b] : flat'[b][n] = RealImage(hmap[b][n])
      /\ \A c \in Skipped : flat'[c] = hmap[c]
  BY <1>1, <1>4, <1>5, <1>6
<1>9. \A c \in Skipped : /\ DOMAIN flat'[c] = Level(c) /\ c \notin job.mistaken
                         /\ \E b \in Paired : /\ c \in Subflows(b)
                                              /\ \A n \in Level(c) : flat'[c][n] \in SrcLevel(partner[b])
  BY <1>4, <1>6, <1>8 DEF IsSkipped
<1>10. ASSUME NEW p \in todo'
       PROVE  /\ p = <<p[1], p[2]>> /\ p[1] \in Paired /\ p[2] \in (Paired \cup Skipped) \cap Subflows(p[1])
              /\ DOMAIN flat'[p[1]] \cap Area(p[2]) = {}
  <2>1. p = <<p[1], p[2]>> /\ p[1] \in Paired /\ p[2] \in (Paired \cup Skipped) \cap Subflows(p[1])
    BY <1>1, <1>6
  <2>2. Level(p[1]) \cap job.bin.node \cap Area(p[2]) = {}
    BY <1>2, <1>7, <2>1, LevelFacts
  <2> QED  BY <1>8, <2>1, <2>2
<1>11. ASSUME NEW b \in Paired \cup Skipped
       PROVE  /\ DOMAIN flat'[b] \subseteq Level(b) /\ DOMAIN flat'[b] \subseteq Area(b)
              /\ \A n \in DOMAIN flat'[b] : RightPlace(b, flat'[b][n])
  <2>1. DOMAIN flat'[b] \subseteq Level(b)
    BY <1>8, <1>9
  <2>2. Level(b) \subseteq Area(b)
    BY <1>2, <1>7, LevelFacts
  <2>3. ASSUME NEW n \in DOMAIN flat'[b] PROVE RightPlace(b, flat'[b][n])
    <3>1. CASE b \in Paired
      <4>1. hmap[b][n] \in SrcLevel(partner[b]) /\ partner[b] \in DOMAIN shFlow
        BY <1>2, <1>4, <1>8, <2>3, <3>1, PairedFacts DEF MapsLevel
      <4>2. flat'[b][n] \in shFlow[partner[b]].nodes
        BY <1>2, <1>8, <2>3, <3>1, <4>1, RealImageFacts
      <4> QED  BY <3>1, <4>2 DEF RightPlace
    <3>2. CASE b \in Skipped
      BY <1>9, <2>1, <2>3, <3>2 DEF RightPlace
    <3> QED  BY <3>1, <3>2
  <2> QED  BY <2>1, <2>2, <2>3
<1>12. ASSUME NEW b \in Paired \cup Skipped, NEW n \in DOMAIN flat'[b], NEW x \in Paired \cup Skipped,
              n \in Level(x)
       PROVE  RightPlace(x, flat'[b][n])
  <2>1. x = b
    BY <1>2, <1>7, <1>11, <1>12, LevelFacts
  <2> QED  BY <1>11, <2>1
<1>13. \A b \in Paired : \A c \in (Paired \cup Skipped) \cap Subflows(b) : <<b, c>> \in todo'
  BY <1>1, <1>6
<1>14. WhileFlattening'
  <2>1. DOMAIN flat' = Paired' \cup Skipped' /\ Skipped' \cap job'.mistaken = {}
    BY <1>3, <1>8, <1>9
  <2>2. \A p \in todo' : /\ p = <<p[1], p[2]>> /\ p[1] \in Paired'
                         /\ p[2] \in DOMAIN flat' \cap Subflows(p[1])'
                         /\ DOMAIN flat'[p[1]] \cap Area(p[2])' = {}
    BY <1>3, <1>8, <1>10
  <2>3. /\ \A b \in Paired' : Level(b)' \cap job'.bin.node \subseteq DOMAIN flat'[b]
        /\ \A c \in Skipped' : DOMAIN flat'[c] = Level(c)'
    BY <1>3, <1>8, <1>9
  <2>4. \A b \in DOMAIN flat' :
              /\ DOMAIN flat'[b] \subseteq Area(b)'
              /\ \A n \in DOMAIN flat'[b] : \A x \in DOMAIN flat' :
                    n \in Level(x)' => RightPlace(x, flat'[b][n])
    BY <1>3, <1>8, <1>11, <1>12
  <2>5. \A b \in DOMAIN flat' : \A n \in DOMAIN flat'[b] : \A x \in DOMAIN flat' :
                    n \in Level(x)' => RightPlace(x, flat[b][n])'
    BY <1>3, <2>4
  <2>6. \A b \in Paired' : \A c \in DOMAIN flat' \cap Subflows(b)' : <<b, c>> \in todo'
    BY <1>3, <1>8, <1>13
  <2> QED  BY <2>1, <2>2, <2>3, <2>4, <2>5, <2>6 DEF WhileFlattening
<1>15. (WhileLumping /\ WhileSkipping /\ Ending)'
  BY <1>1 DEF WhileLumping, WhileSkipping, Ending
<1> QED  BY <1>2, <1>14, <1>15 DEF MappingInvariant

LEMMA AddChildIsFine == MappingInvariant /\ AddChild => MappingInvariant'
<1> SUFFICES ASSUME MappingInvariant, AddChild PROVE MappingInvariant'
  OBVIOUS
<1>1. UNCHANGED <<inputs, partner, precise>> /\ stage = "flatten" /\ stage' \in {"flatten", "refused"}
  BY DEF AddChild
<1>2. /\ job' \in Jobs /\ bhFlow' = Hierarchy(job'.bin) /\ shFlow' = Hierarchy(job'.src)
      /\ PartnersFit' /\ WhilePairing' /\ AllPaired' /\ PreciseFits'
      /\ Setting /\ PartnersFit /\ HierarchiesMatch
  BY <1>1, PairsStay
<1>3. /\ job' = job /\ partner' = partner /\ Paired' = Paired /\ Skipped' = Skipped
      /\ \A x : /\ Level(x)' = Level(x) /\ Subflows(x)' = Subflows(x) /\ Area(x)' = Area(x)
      /\ \A x, image : RightPlace(x, image) <=> RightPlace(x, image)'
  BY <1>1, LevelsStay
<1>4. /\ DOMAIN flat = Paired \cup Skipped /\ Skipped \cap job.mistaken = {}
      /\ \A p \in todo : /\ p = <<p[1], p[2]>> /\ p[1] \in Paired
                         /\ p[2] \in DOMAIN flat \cap Subflows(p[1])
                         /\ DOMAIN flat[p[1]] \cap Area(p[2]) = {}
      /\ \A b \in Paired : Level(b) \cap job.bin.node \subseteq DOMAIN flat[b]
      /\ \A c \in Skipped : DOMAIN flat[c] = Level(c)
      /\ \A b \in DOMAIN flat :
            /\ DOMAIN flat[b] \subseteq Area(b)
            /\ \A n \in DOMAIN flat[b] : \A x \in DOMAIN flat :
                  n \in Level(x) => RightPlace(x, flat[b][n])
      /\ \A b \in Paired : \A c \in DOMAIN flat \cap Subflows(b) :
            \/ <<b, c>> \in todo
            \/ /\ DOMAIN flat[c] \subseteq DOMAIN flat[b]
               /\ \A q \in todo : q[1] # c
  BY <1>1 DEF MappingInvariant, WhileFlattening
<1>5. Paired \cap Skipped = {} /\ Paired \subseteq DOMAIN bhFlow
  BY <1>2 DEF HierarchiesMatch, PartnersFit
<1>6. (WhileLumping /\ WhileSkipping /\ Ending)'
  BY <1>1 DEF WhileLumping, WhileSkipping, Ending
<1>7. CASE stage' = "refused"
  <2>1. WhileFlattening'
    BY <1>7 DEF WhileFlattening
  <2> QED  BY <1>2, <1>6, <2>1 DEF MappingInvariant
<1>8. CASE stage' # "refused"
  <2>1. PICK p \in todo :
          /\ \A q \in todo : q[1] # p[2]
          /\ flat' = [flat EXCEPT ![p[1]] = Over(flat[p[2]], @)]
          /\ todo' = todo \ {p}
    BY <1>8 DEF AddChild
  <2> DEFINE b == p[1]
             c == p[2]
  <2>2. /\ p = <<b, c>> /\ b \in Paired /\ c \in DOMAIN flat /\ c \in Subflows(b)
        /\ b \in DOMAIN flat /\ b \in DOMAIN bhFlow /\ \A q \in todo : q[1] # c
    BY <1>4, <1>5, <2>1
  <2>3. /\ c # b /\ Area(c) \subseteq Area(b)
        /\ \A d \in Subflows(b) \ {c} : Area(c) \cap Area(d) = {}
    BY <1>2, <2>2, LevelFacts
  <2> HIDE DEF b, c
  <2>4. /\ DOMAIN flat' = DOMAIN flat
        /\ \A x \in DOMAIN flat \ {b} : flat'[x] = flat[x]
        /\ flat'[b] = Over(flat[c], flat[b])
    BY <2>1, <2>2 DEF b, c
  <2>5. /\ DOMAIN flat'[b] = DOMAIN flat[c] \cup DOMAIN flat[b]
        /\ \A n \in DOMAIN flat'[b] : \/ n \in DOMAIN flat[c] /\ flat'[b][n] = flat[c][n]
                                      \/ n \in DOMAIN flat[b] /\ flat'[b][n] = flat[b][n]
    BY <2>4 DEF Over
  <2>6. ASSUME NEW q \in todo'
        PROVE  /\ q = <<q[1], q[2]>> /\ q[1] \in Paired /\ q[2] \in DOMAIN flat \cap Subflows(q[1])
               /\ DOMAIN flat'[q[1]] \cap Area(q[2]) = {}
    <3>1. /\ q \in todo /\ q # p /\ q = <<q[1], q[2]>> /\ q[1] \in Paired
          /\ q[2] \in DOMAIN flat \cap Subflows(q[1]) /\ DOMAIN flat[q[1]] \cap Area(q[2]) = {}
      BY <1>4, <2>1
    <3>2. CASE q[1] = b
      <4>1. q[2] # c
        BY <2>2, <3>1, <3>2
      <4>2. Area(c) \cap Area(q[2]) = {} /\ DOMAIN flat[c] \subseteq Area(c)
        BY <1>4, <2>2, <2>3, <3>1, <3>2, <4>1
      <4> QED  BY <2>5, <3>1, <3>2, <4>2
    <3>3. CASE q[1] # b
      <4>1. flat'[q[1]] = flat[q[1]]
        BY <1>4, <2>4, <3>1, <3>3
      <4> QED  BY <3>1, <4>1
    <3> QED  BY <3>2, <3>3
  <2>7. \A x \in DOMAIN flat : DOMAIN flat[x] \subseteq DOMAIN flat'[x]
    BY <2>4, <2>5
  <2>8. \A x \in Paired : Level(x) \cap job.bin.node \subseteq DOMAIN flat'[x]
    BY <1>4, <2>7
  <2>9. \A x \in Skipped : DOMAIN flat'[x] = Level(x)
    BY <1>4, <1>5, <2>2, <2>4
  <2>10. ASSUME NEW y \in DOMAIN flat
         PROVE  /\ DOMAIN flat'[y] \subseteq Area(y)
                /\ \A n \in DOMAIN flat'[y] : \A x \in DOMAIN flat :
                      n \in Level(x) => RightPlace(x, flat'[y][n])
    <3>1. CASE y = b
      BY <1>4, <2>2, <2>3, <2>5, <3>1
    <3>2. CASE y # b
      BY <1>4, <2>4, <3>2
    <3> QED  BY <3>1, <3>2
  <2>11. ASSUME NEW x \in Paired, NEW y \in DOMAIN flat \cap Subflows(x)
         PROVE  \/ <<x, y>> \in todo'
                \/ /\ DOMAIN flat'[y] \subseteq DOMAIN flat'[x]
                   /\ \A q \in todo' : q[1] # y
    <3>1. CASE <<x, y>> = p
      <4>1. x = b /\ y = c
        BY <2>2, <3>1
      <4>2. DOMAIN flat'[y] = DOMAIN flat[c]
        BY <2>2, <2>3, <2>4, <4>1
      <4> QED  BY <2>1, <2>2, <2>5, <4>1, <4>2
    <3>2. CASE <<x, y>> # p /\ <<x, y>> \in todo
      BY <2>1, <3>2
    <3>3. CASE <<x, y>> \notin todo
      <4>1. DOMAIN flat[y] \subseteq DOMAIN flat[x] /\ \A q \in todo : q[1] # y
        BY <1>4, <3>3
      <4>2. y # b
        BY <2>1, <4>1 DEF b
      <4>3. flat'[y] = flat[y] /\ x \in DOMAIN flat
        BY <1>4, <2>4, <4>2
      <4> QED  BY <2>1, <2>7, <4>1, <4>3
    <3> QED  BY <3>1, <3>2, <3>3
  <2>12. WhileFlattening'
    <3>1. DOMAIN flat' = Paired' \cup Skipped' /\ Skipped' \cap job'.mistaken = {}
      BY <1>3, <1>4, <2>4
    <3>2. \A q \in todo' : /\ q = <<q[1], q[2]>> /\ q[1] \in Paired'
                           /\ q[2] \in DOMAIN flat' \cap Subflows(q[1])'
                           /\ DOMAIN flat'[q[1]] \cap Area(q[2])' = {}
      BY <1>3, <2>4, <2>6
    <3>3. /\ \A x \in Paired' : Level(x)' \cap job'.bin.node \subseteq DOMAIN flat'[x]
          /\ \A x \in Skipped' : DOMAIN flat'[x] = Level(x)'
      BY <1>3, <2>8, <2>9
    <3>4. \A y \in DOMAIN flat' : DOMAIN flat'[y] \subseteq Area(y)'
      BY <1>3, <2>4, <2>10
    <3>5. \A y \in DOMAIN flat' : \A n \in DOMAIN flat'[y] : \A x \in DOMAIN flat' :
                      n \in Level(x)' => RightPlace(x, flat[y][n])'
      BY <1>3, <2>4, <2>10
    <3>6. \A x \in Paired' : \A y \in DOMAIN flat' \cap Subflows(x)' :
                \/ <<x, y>> \in todo'
                \/ /\ DOMAIN flat'[y] \subseteq DOMAIN flat'[x]
                   /\ \A q \in todo' : q[1] # y
      BY <1>3, <2>4, <2>11
    <3> QED  BY <3>1, <3>2, <3>3, <3>4, <3>5, <3>6 DEF WhileFlattening
  <2> QED  BY <1>2, <1>6, <2>12 DEF MappingInvariant
<1> QED  BY <1>7, <1>8

LEMMA SafetyCheckIsFine == MappingInvariant /\ SafetyCheck => MappingInvariant'
<1> SUFFICES ASSUME MappingInvariant, SafetyCheck PROVE MappingInvariant'
  OBVIOUS
<1>1. /\ UNCHANGED <<inputs, partner, precise>> /\ stage = "flatten" /\ stage' \in {"mapped", "refused"}
      /\ flat' = flat /\ todo' = todo /\ todo = {} /\ (stage' = "mapped" => Accepted)
  BY DEF SafetyCheck
<1>2. /\ job' \in Jobs /\ bhFlow' = Hierarchy(job'.bin) /\ shFlow' = Hierarchy(job'.src)
      /\ PartnersFit' /\ WhilePairing' /\ AllPaired' /\ PreciseFits'
  BY <1>1, PairsStay
<1>3. /\ job' = job /\ bhFlow' = bhFlow /\ Paired' = Paired /\ Skipped' = Skipped
      /\ \A x : /\ Level(x)' = Level(x) /\ Subflows(x)' = Subflows(x) /\ Area(x)' = Area(x)
      /\ \A x, image : RightPlace(x, image) <=> RightPlace(x, image)'
  BY <1>1, LevelsStay
<1>4. WhileFlattening'
  <2>1. WhileFlattening
    BY DEF MappingInvariant
  <2>2. \A b \in DOMAIN flat : \A n \in DOMAIN flat[b] : \A x \in DOMAIN flat :
           n \in Level(x) => RightPlace(x, flat[b][n])
    BY <1>1, <2>1 DEF WhileFlattening
  <2>3. \A b \in DOMAIN flat' : \A n \in DOMAIN flat'[b] : \A x \in DOMAIN flat' :
           n \in Level(x)' => RightPlace(x, flat[b][n])'
    BY <1>1, <1>3, <2>2
  <2> QED  BY <1>1, <1>3, <2>1, <2>3 DEF WhileFlattening
<1>5. Ending'
  <2>1. Accepted => Accepted'
    BY <1>1, <1>3 DEF Accepted, Unmapped, FlatMap, NodesToSkip
  <2> QED  BY <1>1, <2>1 DEF Ending
<1>6. (WhileLumping /\ WhileSkipping)'
  BY <1>1 DEF WhileLumping, WhileSkipping
<1> QED  BY <1>2, <1>4, <1>5, <1>6 DEF MappingInvariant

LEMMA EndedIsFine == MappingInvariant /\ UNCHANGED vars => MappingInvariant'
<1> SUFFICES ASSUME MappingInvariant, UNCHANGED vars PROVE MappingInvariant'
  OBVIOUS
<1>1. /\ UNCHANGED <<inputs, partner>> /\ job' = job /\ bhFlow' = bhFlow /\ shFlow' = shFlow
      /\ stage' = stage /\ partner' = partner /\ todo' = todo /\ precise' = precise
      /\ hmap' = hmap /\ flat' = flat
  BY DEF vars, inputs
<1>2. /\ PartnersFit /\ WhilePairing /\ AllPaired /\ PreciseFits /\ WhileLumping
      /\ WhileSkipping /\ WhileFlattening /\ Ending
  BY DEF MappingInvariant
<1>3. /\ Paired' = Paired /\ Skipped' = Skipped
      /\ \A x : /\ Level(x)' = Level(x) /\ Subflows(x)' = Subflows(x) /\ Area(x)' = Area(x)
                /\ SrcSubflows(x)' = SrcSubflows(x) /\ SrcLevel(x)' = SrcLevel(x)
                /\ Header(x)' = Header(x)
      /\ PartnersFit' /\ (HierarchiesMatch => HierarchiesMatch')
  BY <1>1, <1>2, LevelsStay
<1>4. WhilePairing' /\ AllPaired'
  BY <1>1, <1>2, <1>3 DEF WhilePairing, AllPaired, HasPartner
<1>5. PreciseFits' /\ WhileLumping' /\ WhileSkipping'
  BY <1>1, <1>2, <1>3 DEF PreciseFits, WhileLumping, WhileSkipping, MapsLevel, IsSkipped
<1>6. WhileFlattening'
  BY <1>1, <1>2, <1>3 DEF WhileFlattening, RightPlace
<1>7. Ending'
  BY <1>1, <1>2, <1>3 DEF Ending, Accepted, Unmapped, FlatMap, NodesToSkip
<1> QED  BY <1>1, <1>3, <1>4, <1>5, <1>6, <1>7 DEF MappingInvariant

\* Each step leaves what the next one relies on (map_flows and do_mapping).
THEOREM MappingInvariantHolds == Spec => []MappingInvariant
<1>1. MappingInvariant /\ [Next]_vars => MappingInvariant'
  <2> SUFFICES ASSUME MappingInvariant, [Next]_vars PROVE MappingInvariant'
    OBVIOUS
  <2>1. CASE UNCHANGED vars
    BY <2>1, EndedIsFine
  <2>2. CASE Next
    <3>1. CASE PairSubflow
      BY <3>1, PairSubflowIsFine
    <3>2. CASE CheckHierarchy
      BY <3>2, CheckHierarchyIsFine
    <3>3. CASE PreciseLevel
      BY <3>3, PreciseLevelIsFine
    <3>4. CASE CopyMaps
      BY <3>4, CopyMapsIsFine
    <3>5. CASE LumpLevel
      BY <3>5, LumpLevelIsFine
    <3>6. CASE FinishLumping
      BY <3>6, FinishLumpingIsFine
    <3>7. CASE SkipFlow
      BY <3>7, SkipFlowIsFine
    <3>8. CASE StartFlattening
      BY <3>8, StartFlatteningIsFine
    <3>9. CASE AddChild
      BY <3>9, AddChildIsFine
    <3>10. CASE SafetyCheck
      BY <3>10, SafetyCheckIsFine
    <3>11. CASE Ended
      BY <3>11, EndedIsFine DEF Ended
    <3> QED  BY <2>2, <3>1, <3>2, <3>3, <3>4, <3>5, <3>6, <3>7, <3>8, <3>9, <3>10, <3>11 DEF Next
  <2> QED  BY <2>1, <2>2
<1> QED  BY InitIsFine, <1>1, PTL DEF Spec

-----------------------------------------------------------------------------
(* What an accepted map is.                                                *)

LEMMA AcceptedFacts ==
    ASSUME MappingInvariant, stage = "mapped"
    PROVE  /\ Setting /\ PartnersFit /\ Paired \cap Skipped = {} /\ Skipped \cap job.mistaken = {}
           /\ \A b \in Paired : \A s \in SrcSubflows(partner[b]) : HasPartner(b, s)
           /\ \A s \in DOMAIN shFlow : \E b \in Paired : partner[b] = s
           /\ \A c \in Skipped : \E b \in Paired : c \in Subflows(b)
           /\ DOMAIN bhFlow = Paired \cup Skipped
           /\ \A c \in Skipped : Subflows(c) = {}
           /\ DOMAIN FlatMap = job.bin.node
           /\ \A n \in job.bin.node : FlatMap[n] \in job.src.node
           /\ \A n \in job.bin.node : \A x \in DOMAIN bhFlow :
                 n \in Level(x) => RightPlace(x, FlatMap[n])
<1>1. /\ job \in Jobs /\ bhFlow = Hierarchy(job.bin) /\ shFlow = Hierarchy(job.src)
      /\ PartnersFit /\ HierarchiesMatch
      /\ \A b \in Paired : \A s \in SrcSubflows(partner[b]) : HasPartner(b, s)
  BY DEF MappingInvariant, AllPaired
<1>2. Setting
  BY <1>1, JobsHaveSetting
<1>3. /\ Paired \cap Skipped = {}
      /\ \A b \in Paired : Subflows(b) \subseteq Paired \cup Skipped
      /\ \A s \in DOMAIN shFlow : \E b \in Paired : partner[b] = s
      /\ \A c \in Skipped : \E b \in Paired : c \in Subflows(b)
      /\ \A b \in DOMAIN bhFlow : \A c \in Subflows(b) \cap (Paired \cup Skipped) : b \in Paired
  BY <1>1, <1>2, MatchFacts
<1>4. Paired \subseteq DOMAIN bhFlow /\ Skipped \subseteq DOMAIN bhFlow /\ Top \in Paired
  BY <1>1, <1>2, SkippedFacts DEF PartnersFit
<1>5. /\ DOMAIN flat = Paired \cup Skipped /\ Skipped \cap job.mistaken = {} /\ todo = {}
      /\ \A b \in Paired : Level(b) \cap job.bin.node \subseteq DOMAIN flat[b]
      /\ \A c \in Skipped : DOMAIN flat[c] = Level(c)
      /\ \A b \in DOMAIN flat : \A n \in DOMAIN flat[b] : \A x \in DOMAIN flat :
            n \in Level(x) => RightPlace(x, flat[b][n])
      /\ \A b \in Paired : \A c \in DOMAIN flat \cap Subflows(b) :
            DOMAIN flat[c] \subseteq DOMAIN flat[b]
  BY DEF MappingInvariant, WhileFlattening, Ending
<1>6. DOMAIN FlatMap \subseteq job.bin.node /\ Range(FlatMap) \subseteq job.src.node
  BY DEF MappingInvariant, Ending, Accepted
<1>7. ASSUME NEW X, Top \in X, \A b \in X \cap DOMAIN bhFlow : Subflows(b) \subseteq X
      PROVE  DOMAIN bhFlow \subseteq X
  BY <1>2, <1>7 DEF Setting, IsNested, IsTree, Subflows
<1>8. \A b \in Paired \cup Skipped : DOMAIN flat[b] \subseteq DOMAIN FlatMap
  <2> DEFINE X == {b \in DOMAIN bhFlow : b \in DOMAIN flat => DOMAIN flat[b] \subseteq DOMAIN FlatMap}
  <2>1. Top \in X
    BY <1>4 DEF FlatMap
  <2>2. ASSUME NEW b \in X \cap DOMAIN bhFlow, NEW c \in Subflows(b) PROVE c \in X
    <3>1. c \in DOMAIN bhFlow
      BY <1>2, LevelFacts
    <3>2. SUFFICES ASSUME c \in DOMAIN flat PROVE DOMAIN flat[c] \subseteq DOMAIN FlatMap
      BY <3>1
    <3>3. b \in Paired
      BY <1>3, <1>5, <3>2
    <3> QED  BY <1>5, <3>2, <3>3
  <2> HIDE DEF X
  <2>3. DOMAIN bhFlow \subseteq X
    BY <1>7, <2>1, <2>2
  <2> QED  BY <1>4, <1>5, <2>3 DEF X
<1>9. ASSUME NEW c \in Skipped PROVE Subflows(c) = {}
  <2>1. Level(c) \subseteq job.bin.node
    BY <1>5, <1>6, <1>8
  <2>2. \A d \in Subflows(c) : Surrogate(job.bin, d) \in Level(c) \ job.bin.node
    BY <1>2, <1>4, LevelFacts
  <2> QED  BY <2>1, <2>2
<1>10. DOMAIN bhFlow = Paired \cup Skipped
  <2> DEFINE X == Paired \cup Skipped
  <2>1. Top \in X /\ \A b \in X \cap DOMAIN bhFlow : Subflows(b) \subseteq X
    BY <1>3, <1>4, <1>9
  <2> HIDE DEF X
  <2>2. DOMAIN bhFlow \subseteq X
    BY <1>7, <2>1
  <2> QED  BY <1>4, <2>2 DEF X
<1>11. DOMAIN FlatMap = job.bin.node
  <2>1. ASSUME NEW n \in job.bin.node PROVE n \in DOMAIN FlatMap
    <3>1. PICK b \in DOMAIN bhFlow : n \in Level(b)
      BY <1>2, LevelFacts
    <3>2. n \in DOMAIN flat[b]
      BY <1>5, <1>10, <3>1
    <3> QED  BY <1>8, <1>10, <3>2
  <2> QED  BY <1>6, <2>1
<1>12. \A n \in job.bin.node : FlatMap[n] \in job.src.node
  BY <1>6, <1>11 DEF Range
<1>13. \A n \in job.bin.node : \A x \in DOMAIN bhFlow :
          n \in Level(x) => RightPlace(x, FlatMap[n])
  BY <1>4, <1>5, <1>10, <1>11 DEF FlatMap
<1> QED  BY <1>1, <1>2, <1>3, <1>5, <1>9, <1>10, <1>11, <1>12, <1>13

\* Each block has a level that maps it, and that is the one it is in or, if that is
\* skipped, the one around it.
LEMMA PairedLevelFacts ==
    ASSUME MappingInvariant, stage = "mapped", NEW n \in job.bin.node
    PROVE  LET b == PairedLevel(n)
           IN  /\ b \in Paired
               /\ n \in Level(b) \/ \E c \in Skipped \cap Subflows(b) : n \in Level(c)
<1>1. /\ Setting /\ PartnersFit /\ Paired \cap Skipped = {} /\ DOMAIN bhFlow = Paired \cup Skipped
      /\ \A c \in Skipped : \E b \in Paired : c \in Subflows(b)
      /\ \A c \in Skipped : Subflows(c) = {}
  BY AcceptedFacts
<1> DEFINE Fits(b) == /\ n \in bhFlow[b].nodes
                      /\ \A c \in Subflows(b) \cap Paired : n \notin bhFlow[c].nodes
           b == CHOOSE b \in Paired : Fits(b)
<1>2. PairedLevel(n) = b
  BY DEF PairedLevel
<1>3. \A x \in DOMAIN bhFlow :
        /\ n \in Level(x) <=> n \in bhFlow[x].nodes /\ \A c \in Subflows(x) : n \notin bhFlow[c].nodes
        /\ \A c \in Subflows(x) :
              /\ c \in DOMAIN bhFlow /\ bhFlow[c].nodes \subseteq bhFlow[x].nodes
              /\ \A d \in Subflows(x) \ {c} : bhFlow[c].nodes \cap bhFlow[d].nodes = {}
  BY <1>1, LevelFacts
<1>4. PICK x \in DOMAIN bhFlow : n \in Level(x)
  BY <1>1, LevelFacts
<1>5. \E y \in Paired : Fits(y)
  <2>1. CASE x \in Paired
    BY <1>3, <1>4, <2>1
  <2>2. CASE x \in Skipped
    <3>1. PICK y \in Paired : x \in Subflows(y)
      BY <1>1, <2>2
    <3>2. n \in bhFlow[x].nodes /\ n \in bhFlow[y].nodes
      BY <1>1, <1>3, <1>4, <3>1
    <3>3. \A d \in Subflows(y) \cap Paired : d # x /\ n \notin bhFlow[d].nodes
      BY <1>1, <1>3, <2>2, <3>1, <3>2
    <3> QED  BY <3>2, <3>3
  <2> QED  BY <1>1, <2>1, <2>2
<1>6. b \in Paired /\ Fits(b)
  BY <1>5
<1> HIDE DEF b
<1>7. n \in Level(b) \/ \E c \in Skipped \cap Subflows(b) : n \in Level(c)
  <2>1. SUFFICES ASSUME n \notin Level(b) PROVE \E c \in Skipped \cap Subflows(b) : n \in Level(c)
    OBVIOUS
  <2>2. PICK c \in Subflows(b) : n \in bhFlow[c].nodes
    BY <1>1, <1>3, <1>6, <2>1
  <2>3. c \in Skipped
    BY <1>1, <1>3, <1>6, <2>2
  <2> QED  BY <1>1, <1>3, <2>2, <2>3
<1> QED  BY <1>2, <1>6, <1>7

\* Every block is mapped into the source loop that is the partner of its own, and maps
\* that flatten adds to each other never overlap.
THEOREM NestIsRespected == Spec => []NestRespected
<1>1. MappingInvariant => NestRespected
  <2> SUFFICES ASSUME MappingInvariant PROVE NestRespected
    OBVIOUS
  <2>1. PartnersFit /\ PreciseFits /\ WhileFlattening /\ Ending /\ Setting
    BY JobsHaveSetting DEF MappingInvariant
  <2>2. TypeOK
    <3>1. Paired \subseteq DOMAIN bhFlow /\ Range(partner) \subseteq DOMAIN shFlow
      BY <2>1, PairedFacts DEF PartnersFit, Paired, Range
    <3>2. \A b \in DOMAIN precise :
            /\ DOMAIN precise[b] \subseteq bhFlow[b].graph.node
            /\ Range(precise[b]) \subseteq shFlow[partner[b]].graph.node
      BY <2>1 DEF PreciseFits, MapsLevel, Level, SrcLevel, Range
    <3> QED  BY <2>1, <3>1, <3>2 DEF TypeOK, Ending
  <2>3. ASSUME stage = "mapped", NEW n \in job.bin.node
        PROVE  FlatMap[n] \in shFlow[partner[PairedLevel(n)]].nodes
    <3> DEFINE b == PairedLevel(n)
               image == FlatMap[n]
    <3>1. b \in Paired /\ (n \in Level(b) \/ \E c \in Skipped \cap Subflows(b) : n \in Level(c))
      BY <2>3, PairedLevelFacts
    <3>2. /\ Paired \cap Skipped = {} /\ DOMAIN bhFlow = Paired \cup Skipped
          /\ image \in job.src.node
          /\ \A x \in DOMAIN bhFlow : n \in Level(x) => RightPlace(x, image)
      BY <2>3, AcceptedFacts
    <3> HIDE DEF b, image
    <3> SUFFICES image \in shFlow[partner[b]].nodes
      BY DEF b, image
    <3>3. CASE n \in Level(b)
      BY <3>1, <3>2, <3>3 DEF RightPlace
    <3>4. CASE \E c \in Skipped \cap Subflows(b) : n \in Level(c)
      <4>1. PICK c \in Skipped \cap Subflows(b) : n \in Level(c)
        BY <3>4
      <4>2. RightPlace(c, image) /\ c \notin Paired
        BY <3>2, <4>1
      <4>3. PICK a \in Paired : c \in Subflows(a) /\ image \in SrcLevel(partner[a])
        BY <4>2 DEF RightPlace
      <4>4. a = b
        BY <2>1, <3>1, <3>2, <4>1, <4>3 DEF Setting, IsNested, IsTree, Subflows
      <4>5. partner[b] \in DOMAIN shFlow
        BY <2>1, <3>1, PairedFacts
      <4> QED  BY <2>1, <3>2, <4>3, <4>4, <4>5, RealImageFacts
    <3> QED  BY <3>1, <3>3, <3>4
  <2>4. stage = "mapped" => DOMAIN FlatMap = job.bin.node
    BY AcceptedFacts
  <2>5. ASSUME stage = "flatten", NEW b \in DOMAIN flat, NEW c \in DOMAIN flat, <<b, c>> \in todo
        PROVE  DOMAIN flat[b] \cap DOMAIN flat[c] = {}
    <3>1. DOMAIN flat[b] \cap Area(c) = {} /\ DOMAIN flat[c] \subseteq Area(c)
      BY <2>1, <2>5 DEF WhileFlattening
    <3> QED  BY <3>1
  <2> QED  BY <2>2, <2>3, <2>4, <2>5 DEF NestRespected
<1> QED  BY <1>1, MappingInvariantHolds, PTL

\* The loops of an accepted map are matched by an isomorphism of the nests.
THEOREM NestsAreIsomorphic == Spec => []OnlyIsomorphicNests
<1>1. MappingInvariant => OnlyIsomorphicNests
  <2> SUFFICES ASSUME MappingInvariant, stage = "mapped" PROVE OnlyIsomorphicNests
    BY DEF OnlyIsomorphicNests
  <2>1. /\ Setting /\ PartnersFit /\ Paired \cap Skipped = {} /\ Skipped \cap job.mistaken = {}
        /\ \A b \in Paired : \A s \in SrcSubflows(partner[b]) : HasPartner(b, s)
        /\ \A s \in DOMAIN shFlow : \E b \in Paired : partner[b] = s
        /\ DOMAIN bhFlow = Paired \cup Skipped
    BY AcceptedFacts
  <2>2. /\ DOMAIN shFlow = {Top} \cup Heads(job.src) /\ Top \notin Heads(job.src)
        /\ DOMAIN bhFlow = {Top} \cup Heads(job.bin) /\ Top \notin Heads(job.bin)
        /\ DOMAIN job.matches \subseteq Heads(job.src)
        /\ \A t \in DOMAIN shFlow : SrcSubflows(t) \subseteq Heads(job.src)
    BY <2>1 DEF Setting, IsNested, IsTree, IsJob, SrcSubflows
  <2>3. /\ partner[Top] = Top /\ Top \in Paired
        /\ \A b \in Paired \ {Top} : partner[b] \in DOMAIN job.matches /\ job.matches[partner[b]] = b
    BY <2>1 DEF PartnersFit
  <2>4. \A b \in Paired : b # Top => partner[b] # Top
    BY <2>2, <2>3
  <2>5. \A b \in Paired : Image(partner[b]) = b
    BY <2>3, <2>4 DEF Image
  <2>6. DOMAIN job.matches = Heads(job.src)
    BY <2>1, <2>2, <2>3, <2>4
  <2>7. ASSUME NEW s \in Heads(job.src), NEW t \in DOMAIN shFlow
        PROVE  s \in SrcSubflows(t) <=> Image(s) \in Subflows(Image(t))
    <3>1. PICK b \in Paired, c \in Paired : partner[b] = t /\ partner[c] = s
      BY <2>1, <2>2
    <3>2. Image(t) = b /\ Image(s) = c
      BY <2>5, <3>1
    <3>3. ASSUME s \in SrcSubflows(t) PROVE c \in Subflows(b)
      <4>1. HasPartner(b, s) /\ s # Top
        BY <2>1, <2>2, <3>1, <3>3
      <4> QED  BY <3>2, <4>1 DEF HasPartner, Image
    <3>4. ASSUME c \in Subflows(b) PROVE s \in SrcSubflows(t)
      BY <2>1, <3>1, <3>4, PairedFacts
    <3> QED  BY <3>2, <3>3, <3>4
  <2>8. Range(job.matches) = Paired \ {Top}
    <3>1. ASSUME NEW s \in DOMAIN job.matches PROVE job.matches[s] \in Paired \ {Top}
      <4>1. s \in DOMAIN shFlow /\ s # Top
        BY <2>2
      <4>2. PICK b \in Paired : partner[b] = s
        BY <2>1, <4>1
      <4> QED  BY <2>3, <4>1, <4>2
    <3>2. ASSUME NEW b \in Paired \ {Top} PROVE b \in Range(job.matches)
      BY <2>3 DEF Range
    <3> QED  BY <3>1, <3>2 DEF Range
  <2>9. Heads(job.bin) \ Range(job.matches) = Skipped \ job.mistaken
    <3>1. Top \notin Skipped
      BY <2>1, <2>3
    <3> QED  BY <2>1, <2>2, <2>8, <3>1
  <2> QED  BY <2>6, <2>7, <2>9 DEF OnlyIsomorphicNests
<1> QED  BY <1>1, MappingInvariantHolds, PTL

\* Only a loop without match or a mistaken annotation ends the program with an error.
THEOREM CrashesAreExplained == Spec => []CrashesOnlyIf
<1>1. MappingInvariant => CrashesOnlyIf
  <2> SUFFICES ASSUME MappingInvariant PROVE CrashesOnlyIf
    OBVIOUS
  <2>1. PartnersFit /\ WhileFlattening /\ Ending /\ Setting
    BY JobsHaveSetting DEF MappingInvariant
  <2>2. ASSUME stage = "flatten", NEW p \in todo PROVE DOMAIN flat[p[1]] # DOMAIN flat[p[2]]
    <3>1. /\ p[1] \in Paired /\ p[2] \in DOMAIN flat
          /\ DOMAIN flat[p[1]] \cap Area(p[2]) = {} /\ DOMAIN flat[p[2]] \subseteq Area(p[2])
          /\ Level(p[1]) \cap job.bin.node \subseteq DOMAIN flat[p[1]]
      BY <2>1, <2>2 DEF WhileFlattening
    <3>2. Header(p[1]) \in Level(p[1]) \cap job.bin.node
      BY <2>1, <3>1, LevelFacts DEF PartnersFit
    <3> QED  BY <3>1, <3>2
  <2>3. stage = "crashed" => \/ Heads(job.src) # DOMAIN job.matches
                             \/ Skipped \cap job.mistaken # {}
    BY <2>1 DEF Ending
  <2> QED  BY <2>2, <2>3 DEF CrashesOnlyIf
<1> QED  BY <1>1, MappingInvariantHolds, PTL

-----------------------------------------------------------------------------
(* Post-dominance is dominance in the reversed flow.                       *)

Reversed(f) == [Transposed(f) EXCEPT !.entry = f.exit]

LEMMA ReversedFacts ==
    ASSUME NEW f, IsFlow(f)
    PROVE  /\ IsRooted(Reversed(f)) /\ ReachableNodes(Reversed(f)) = Reversed(f).node
           /\ Reversed(f).node = f.node /\ Reversed(f).entry = f.exit /\ f.exit \in f.node
           /\ \A e \in f.edge : <<e[2], e[1]>> \in Reversed(f).edge
<1> DEFINE r == Reversed(f)
           R == ReachableNodes(r)
<1>1. IsFiniteSet(f.node) /\ f.edge \subseteq f.node \X f.node /\ f.entry \in f.node
  BY DEF IsFlow, IsFlowGraph
<1>2. r.node = f.node /\ r.edge = {<<e[2], e[1]>> : e \in f.edge} /\ r.entry = f.exit
  BY DEF Reversed, Transposed, IsFlow, IsFlowGraph
<1>3. \A n \in f.node : f.exit \in ReachedFrom(f, {n}, f.node)
  BY DEF IsFlow
<1>4. f.node \in SUBSET f.node
  OBVIOUS
<1>5. f.exit \in f.node
  BY <1>1, <1>3, <1>4, ReachedFromFacts
<1> HIDE DEF r
<1>6. IsRooted(r)
  BY <1>1, <1>2, <1>5 DEF IsRooted
<1>7. f.exit \in R /\ R \subseteq f.node /\ \A e \in r.edge : e[1] \in R => e[2] \in R
  BY <1>2, <1>6, ReachableFacts
<1> HIDE DEF R
<1>8. ASSUME NEW n \in f.node \ R PROVE FALSE
  <2> DEFINE X == f.node \ R
  <2>1. ASSUME NEW e \in f.edge, e[1] \in X, e[2] \in f.node PROVE e[2] \in X
    <3> DEFINE d == <<e[2], e[1]>>
    <3>1. d \in r.edge /\ d[1] = e[2] /\ d[2] = e[1]
      BY <1>2
    <3> HIDE DEF d
    <3> QED  BY <1>7, <2>1, <3>1
  <2>2. GoesOn(f, X, f.node) /\ {n} \cap f.node \subseteq X
    BY <2>1 DEF GoesOn
  <2>3. ReachedFrom(f, {n}, f.node) \subseteq X
    <3> HIDE DEF X
    <3> QED  BY <1>1, <1>4, <2>2, ReachedFromFacts
  <2> QED  BY <1>3, <1>7, <2>3
<1> QED  BY <1>2, <1>5, <1>6, <1>7, <1>8 DEF R, r

LEMMA PostDominanceFacts ==
    ASSUME NEW f, IsFlow(f)
    PROVE  /\ \A a \in f.node : PostDominates(f, a, a) /\ PostDominates(f, f.exit, a)
           /\ \A a, b, n \in f.node :
                /\ PostDominates(f, a, b) /\ PostDominates(f, b, n) => PostDominates(f, a, n)
                /\ PostDominates(f, a, n) /\ PostDominates(f, b, n)
                      => PostDominates(f, a, b) \/ PostDominates(f, b, a)
           /\ \A a, b \in f.node : PostDominates(f, a, b) /\ PostDominates(f, b, a) => a = b
           /\ \A a \in f.node : \A e \in f.edge :
                PostDominates(f, a, e[1]) /\ e[1] # a => PostDominates(f, a, e[2])
<1> DEFINE r == Reversed(f)
<1>1. /\ IsRooted(r) /\ ReachableNodes(r) = r.node /\ r.node = f.node /\ r.entry = f.exit
      /\ \A e \in f.edge : <<e[2], e[1]>> \in r.edge
  BY ReversedFacts
<1>2. \A a, b : PostDominates(f, a, b) <=> Dominates(r, a, b)
  BY DEF PostDominates, Reversed
<1> HIDE DEF r
<1>3. \A a \in f.node : Dominates(r, a, a) /\ Dominates(r, f.exit, a)
  BY <1>1, DominatesSelf, EntryDominates
<1>4. \A a, b, n \in f.node : Dominates(r, a, b) /\ Dominates(r, b, n) => Dominates(r, a, n)
  BY <1>1, DominanceTransitive
<1>5. \A a, b, n \in f.node :
         Dominates(r, a, n) /\ Dominates(r, b, n) => Dominates(r, a, b) \/ Dominates(r, b, a)
  BY <1>1, DominatorsAreAChain
<1>6. \A a, b \in f.node : Dominates(r, a, b) /\ Dominates(r, b, a) => a = b
  BY <1>1, DominanceAntisymmetric
<1>7. ASSUME NEW a \in f.node, NEW e \in f.edge, Dominates(r, a, e[1]), e[1] # a
      PROVE  Dominates(r, a, e[2])
  <2> DEFINE d == <<e[2], e[1]>>
  <2>1. d \in r.edge /\ d[1] = e[2] /\ d[2] = e[1]
    BY <1>1
  <2> HIDE DEF d
  <2> QED  BY <1>1, <1>7, <2>1, DominatesPreds
<1> QED  BY <1>2, <1>3, <1>4, <1>5, <1>6, <1>7

-----------------------------------------------------------------------------
(* Nodes with the same conditions.                                         *)

\* The decisions that control a node, wherever they are in the hierarchy.
Controlling(f, w) == {e \in Decisions(f) : Controls(f, e, w)}

\* No decision that controls the node is only reached by way of it, and it is no loop head.
IsPlain(f, w) ==
    /\ w \in f.node \ HeadsOf(f)
    /\ \A e \in Controlling(f, w) : ~Dominates(f, w, e[1])

LEMMA PlainFacts ==
    ASSUME NEW f, IsFlow(f), NEW w, IsPlain(f, w)
    PROVE  /\ \A e \in Controlling(f, w) :
                /\ e \in f.edge /\ PostDominates(f, w, e[2]) /\ ~PostDominates(f, w, e[1])
           /\ \A e \in f.edge : PostDominates(f, w, e[2]) /\ ~PostDominates(f, w, e[1])
                => e \in Controlling(f, w)
           /\ \A e \in f.edge : e[1] = w => ~PostDominates(f, w, e[2])
<1>0. f.edge \subseteq f.node \X f.node /\ IsRooted(f)
  BY FlowGraphIsRooted DEF IsFlow, IsFlowGraph
<1>1. w \in f.node /\ w \notin HeadsOf(f) /\ Dominates(f, w, w)
  BY <1>0, DominatesSelf DEF IsPlain
<1>2. ASSUME NEW e \in Controlling(f, w)
      PROVE  e \in f.edge /\ PostDominates(f, w, e[2]) /\ ~PostDominates(f, w, e[1])
  <2>1. e \in f.edge /\ Controls(f, e, w) /\ ~Dominates(f, w, e[1])
    BY DEF Controlling, Decisions, IsPlain
  <2> QED  BY <1>1, <2>1 DEF Controls
<1>3. ASSUME NEW e \in f.edge, PostDominates(f, w, e[2]), ~PostDominates(f, w, e[1])
      PROVE  e \in Controlling(f, w)
  <2>1. ~PostDominates(f, e[2], e[1])
    BY <1>0, <1>1, <1>3, PostDominanceFacts
  <2> QED  BY <1>3, <2>1 DEF Controlling, Decisions, Controls
<1>4. ASSUME NEW e \in f.edge, e[1] = w, PostDominates(f, w, e[2]) PROVE FALSE
  <2>1. e[2] # w
    <3>1. SUFFICES ASSUME e[2] = w PROVE e \in BackEdges(f)
      BY <1>1 DEF HeadsOf
    <3> QED  BY <1>1, <1>4, <3>1 DEF BackEdges
  <2>2. ~PostDominates(f, e[2], e[1])
    BY <1>0, <1>1, <1>4, <2>1, PostDominanceFacts
  <2>3. e \in Controlling(f, w)
    BY <1>4, <2>2 DEF Controlling, Decisions, Controls
  <2> QED  BY <1>1, <1>4, <2>3 DEF IsPlain
<1> QED  BY <1>2, <1>3, <1>4

\* Every run through x comes by y afterwards, and through y by x before, in turns.
InTurns(f, x, y) ==
    /\ Dominates(f, x, y) /\ PostDominates(f, y, x)
    /\ x \notin ReachedFrom(f, Succs(f, x), f.node \ {y})
    /\ y \notin ReachedFrom(f, Succs(f, y), f.node \ {x})

\* A way to b leads by a: it can only get to where b is certain by a decision, which controls
\* a as well, or by a.  From a it cannot get back before b for the same reason.
LEMMA SameControlInTurns ==
    ASSUME NEW f, IsFlow(f), NEW a, NEW b, IsPlain(f, a), IsPlain(f, b), a # b,
           Controlling(f, a) = Controlling(f, b), Controlling(f, a) # {},
           PostDominates(f, b, a)
    PROVE  InTurns(f, a, b)
<1>0. /\ f.edge \subseteq f.node \X f.node /\ IsRooted(f) /\ IsFiniteSet(f.node)
      /\ f.entry \in f.node /\ a \in f.node /\ b \in f.node
  BY FlowGraphIsRooted DEF IsFlow, IsFlowGraph, IsPlain
<1>1. ~PostDominates(f, a, b) /\ PostDominates(f, a, a) /\ PostDominates(f, b, b)
  BY <1>0, PostDominanceFacts
<1>2. \A e \in f.edge : /\ PostDominates(f, a, e[1]) /\ e[1] # a => PostDominates(f, a, e[2])
                        /\ PostDominates(f, b, e[1]) /\ e[1] # b => PostDominates(f, b, e[2])
                        /\ e[2] \in f.node
  BY <1>0, PostDominanceFacts
\* What decides about one decides about the other.
<1>3. \A e \in f.edge :
         /\ PostDominates(f, a, e[2]) /\ ~PostDominates(f, a, e[1])
               => PostDominates(f, b, e[2]) /\ ~PostDominates(f, b, e[1])
         /\ PostDominates(f, b, e[2]) /\ ~PostDominates(f, b, e[1])
               => PostDominates(f, a, e[2]) /\ ~PostDominates(f, a, e[1])
  BY PlainFacts
<1>4. ~PostDominates(f, b, f.entry)
  <2>1. SUFFICES ASSUME PostDominates(f, b, f.entry) PROVE FALSE
    OBVIOUS
  <2>2. PICK e \in Controlling(f, b) : TRUE
    OBVIOUS
  <2>3. ~PostDominates(f, b, e[1]) /\ ~Dominates(f, b, e[1])
    BY <2>2, PlainFacts DEF IsPlain
  <2>4. b # f.entry
    BY <1>0, <2>3, EntryDominates
  <2> DEFINE X == {n \in f.node : PostDominates(f, b, n)}
             R == ReachedFrom(f, {f.entry}, f.node \ {b})
  <2>5. R \subseteq f.node \ {b} /\ \A Y : f.entry \in Y /\ GoesOn(f, Y, f.node \ {b}) => R \subseteq Y
    BY <1>0, <2>4, AvoidingFacts
  <2> DEFINE Y == X \ {b}
  <2>6. f.entry \in Y /\ GoesOn(f, Y, f.node \ {b})
    BY <1>0, <1>2, <2>1, <2>4 DEF GoesOn
  <2>7. R \subseteq Y
    <3> HIDE DEF R, Y
    <3> QED  BY <2>5, <2>6
  <2> QED  BY <2>3, <2>7 DEF Dominates
\* Where b is certain only if a has been passed or is certain, too.
<1> DEFINE W == {n \in f.node : ~PostDominates(f, b, n) \/ PostDominates(f, a, n)}
           T == f.node \ {a}
<1>5. GoesOn(f, W \ {a}, T) /\ b \notin W
  BY <1>1, <1>2, <1>3 DEF GoesOn
<1>6. Dominates(f, a, b)
  <2>1. T \in SUBSET f.node /\ {f.entry} \cap T \subseteq W \ {a}
    BY <1>0, <1>4
  <2> HIDE DEF W, T
  <2>2. ReachedFrom(f, {f.entry}, T) \subseteq W \ {a}
    BY <1>0, <1>5, <2>1, ReachedFromFacts
  <2> QED  BY <1>5, <2>2 DEF Dominates, T
<1>7. b \notin ReachedFrom(f, Succs(f, b), T)
  <2>1. ASSUME NEW s \in Succs(f, b) PROVE ~PostDominates(f, b, s)
    <3>1. PICK e \in f.edge : e[1] = b /\ e[2] = s
      BY DEF Succs
    <3> QED  BY <3>1, PlainFacts
  <2>2. T \in SUBSET f.node /\ Succs(f, b) \cap T \subseteq W \ {a}
    BY <2>1
  <2> HIDE DEF W, T
  <2>3. ReachedFrom(f, Succs(f, b), T) \subseteq W \ {a}
    BY <1>0, <1>5, <2>2, ReachedFromFacts
  <2> QED  BY <1>5, <2>3
<1>8. a \notin ReachedFrom(f, Succs(f, a), f.node \ {b})
  <2> DEFINE V == {n \in f.node \ {b} : PostDominates(f, b, n) /\ ~PostDominates(f, a, n)}
             U == f.node \ {b}
  <2>1. ASSUME NEW s \in Succs(f, a), s \in U PROVE s \in V
    <3>1. PICK e \in f.edge : e[1] = a /\ e[2] = s
      BY DEF Succs
    <3>2. ~PostDominates(f, a, e[2])
      BY <3>1, PlainFacts
    <3>3. PostDominates(f, b, e[2])
      BY <1>2, <3>1
    <3> QED  BY <2>1, <3>1, <3>2, <3>3
  <2>2. U \in SUBSET f.node /\ Succs(f, a) \cap U \subseteq V /\ a \notin V
    BY <1>1, <2>1
  <2>3. GoesOn(f, V, U)
    BY <1>2, <1>3 DEF GoesOn
  <2> HIDE DEF V, U
  <2>4. ReachedFrom(f, Succs(f, a), U) \subseteq V
    BY <1>0, <2>2, <2>3, ReachedFromFacts
  <2> QED  BY <2>2, <2>4 DEF U
<1> QED  BY <1>6, <1>7, <1>8 DEF InTurns, T

LEMMA SameControlIsAlike ==
    ASSUME NEW f, IsFlow(f), NEW a, NEW b, IsPlain(f, a), IsPlain(f, b),
           Controlling(f, a) = Controlling(f, b), Controlling(f, a) # {}
    PROVE  Alike(f, a, b)
<1>1. SUFFICES ASSUME a # b PROVE InTurns(f, a, b) \/ InTurns(f, b, a)
  BY DEF Alike, InTurns
<1>2. a \in f.node /\ b \in f.node /\ f.edge \subseteq f.node \X f.node
  BY DEF IsPlain, IsFlow, IsFlowGraph
<1>3. PICK e \in Controlling(f, a) : TRUE
  OBVIOUS
<1>4. e \in f.edge /\ PostDominates(f, a, e[2]) /\ PostDominates(f, b, e[2])
  BY <1>3, PlainFacts
<1>5. e[2] \in f.node
  BY <1>2, <1>4
<1>6. PostDominates(f, a, b) \/ PostDominates(f, b, a)
  BY <1>2, <1>4, <1>5, PostDominanceFacts
<1> QED  BY <1>1, <1>6, SameControlInTurns

-----------------------------------------------------------------------------
(* Plain decisions of a level are all that control its nodes.              *)

\* Along its edges, every node of a loop leads to every other.
LEMMA LoopIsConnected ==
    ASSUME NEW g, IsLeveled(g), NEW h \in HeadsOf(g), NEW X \in SUBSET Zone(g, h), X # {},
           \A e \in g.edge : e[1] \in X /\ e[2] \in Zone(g, h) => e[2] \in X
    PROVE  X = Zone(g, h)
<1> DEFINE L == Zone(g, h)
<1>0. /\ IsFlowGraph(g) /\ IsRooted(g) /\ ReachableNodes(g) = g.node /\ h \in Ids(g)
      /\ h \in g.node /\ h # Top /\ g.edge \subseteq g.node \X g.node
  BY FlowGraphIsRooted, ZoneFacts DEF IsLeveled, IsReached, Ids, IsFlowGraph
<1>1. L = LoopOf(g, h)
  BY <1>0 DEF Zone
<1>2. /\ h \in L /\ TailsOf(g, h) \subseteq L
      /\ \A e \in g.edge : e[2] \in L \ {h} => e[1] \in L
      /\ \A Y : /\ TailsOf(g, h) \ {h} \subseteq Y
                /\ \A e \in g.edge : e[2] \in Y \ {h} /\ e[1] # h => e[1] \in Y
                => L \ {h} \subseteq Y
  BY <1>0, <1>1, LoopFacts
<1>3. \A t \in TailsOf(g, h) : \E e \in g.edge : e[1] = t /\ e[2] = h
  BY DEF TailsOf, BackEdges
<1>4. g.entry \notin L
  <2>1. Top \in Ids(g) /\ h \in Zone(g, Top)
    BY <1>0 DEF Ids, Zone
  <2>2. HeaderNode(g, Top) \notin Zone(g, h)
    BY <1>0, <2>1, ZoneFacts
  <2> QED  BY <2>2 DEF HeaderNode
<1> HIDE DEF L
<1>5. X \subseteq L /\ X # {} /\ \A e \in g.edge : e[1] \in X /\ e[2] \in L => e[2] \in X
  BY DEF L
<1>6. h \in X
  <2>1. SUFFICES ASSUME h \notin X PROVE FALSE
    OBVIOUS
  <2> DEFINE Y == L \ X
  <2>2. TailsOf(g, h) \ {h} \subseteq Y
    BY <1>2, <1>3, <1>5, <2>1
  <2>3. \A e \in g.edge : e[2] \in Y \ {h} /\ e[1] # h => e[1] \in Y
    BY <1>2, <1>5
  <2>4. L \ {h} \subseteq Y
    <3> HIDE DEF Y
    <3> QED  BY <1>2, <2>2, <2>3
  <2> QED  BY <1>5, <2>1, <2>4
<1>7. L \subseteq X
  <2> DEFINE Z == (g.node \ L) \cup X
  <2>1. g.entry \in Z /\ \A e \in g.edge : e[1] \in Z => e[2] \in Z
    BY <1>0, <1>2, <1>4, <1>5, <1>6 DEF IsRooted
  <2>2. g.node \subseteq Z
    <3> HIDE DEF Z
    <3> QED  BY <1>0, <2>1, ReachableFacts
  <2>3. L \subseteq g.node
    BY <1>0, ZoneFacts DEF L
  <2> QED  BY <2>2, <2>3
<1> QED  BY <1>5, <1>7 DEF L

\* A node outside a loop that is certain from one node of the loop is so from all.
LEMMA CertainInLoop ==
    ASSUME NEW f, IsFlow(f), IsLeveled(f), NEW h \in HeadsOf(f), NEW n \in f.node \ Zone(f, h),
           NEW w \in Zone(f, h), PostDominates(f, n, w)
    PROVE  \A u \in Zone(f, h) : PostDominates(f, n, u)
<1> DEFINE X == {u \in Zone(f, h) : PostDominates(f, n, u)}
<1>1. \A e \in f.edge : e[1] \in X /\ e[2] \in Zone(f, h) => e[2] \in X
  BY PostDominanceFacts
<1>2. X \in SUBSET Zone(f, h) /\ X # {}
  OBVIOUS
<1>3. X = Zone(f, h)
  <2> HIDE DEF X
  <2> QED  BY <1>1, <1>2, LoopIsConnected
<1> QED  BY <1>3

\* A node of a loop that is certain from outside is certain from the head.
LEMMA CertainFromHead ==
    ASSUME NEW f, IsFlow(f), IsLeveled(f), NEW h \in HeadsOf(f), NEW n \in Zone(f, h),
           NEW w \in f.node \ Zone(f, h), PostDominates(f, n, w)
    PROVE  PostDominates(f, n, h)
<1>0. /\ f.edge \subseteq f.node \X f.node /\ IsFiniteSet(f.node) /\ h \in Ids(f) /\ h # Top
      /\ n \in f.node
  BY ZoneFacts DEF IsFlow, IsFlowGraph, Ids
<1>1. SUFFICES ASSUME ~PostDominates(f, n, h) PROVE FALSE
  OBVIOUS
<1> DEFINE V == {x \in f.node \ Zone(f, h) : PostDominates(f, n, x)}
<1>2. ASSUME NEW e \in f.edge, e[1] \in V PROVE e[2] \in V
  <2>1. PostDominates(f, n, e[2])
    BY <1>0, <1>2, PostDominanceFacts
  <2>2. e[2] \in Zone(f, h) => e[2] = h
    BY <1>0, <1>2, EnteredAtHeader DEF HeaderNode
  <2> QED  BY <1>0, <1>1, <2>1, <2>2
<1>3. GoesOn(f, V, f.node) /\ {w} \cap f.node \subseteq V /\ f.node \in SUBSET f.node
  BY <1>2 DEF GoesOn
<1>4. f.exit \in ReachedFrom(f, {w}, f.node)
  BY DEF IsFlow
<1>5. f.exit \in V
  <2> HIDE DEF V
  <2> QED  BY <1>0, <1>3, <1>4, ReachedFromFacts
<1>6. n = f.exit
  BY <1>0, <1>5, PostDominanceFacts
<1> QED  BY <1>5, <1>6

\* What decides in a level about one of its nodes.
Deciding(f, level, n) == {e \in Decisions(f) \cap level.edge : Controls(f, e, n)}

LEMMA OwnIsNoHead ==
    ASSUME NEW f, IsLeveled(f), NEW b \in Ids(f), NEW n \in Own(f, b) \ {b}
    PROVE  n \notin HeadsOf(f)
<1>1. SUFFICES ASSUME n \in HeadsOf(f) PROVE FALSE
  OBVIOUS
<1>2. n \in Zone(f, b)
  BY DEF Own
<1>3. PICK c \in Inner(f, b) : n \in Zone(f, c)
  BY <1>1, <1>2, LoopToward
<1> QED  BY <1>3 DEF Own

LEMMA LevelEdges ==
    ASSUME NEW f, IsLeveled(f), NEW id \in Ids(f), NEW e \in f.edge,
           e \in Hierarchy(f)[id].graph.edge
    PROVE  e[1] \in Own(f, id) /\ e[2] \in Own(f, id)
<1>1. e[1] \in f.node /\ e[2] \in f.node
  BY DEF IsLeveled, IsReached, IsFlowGraph
<1>2. PICK d \in f.edge \cap (Zone(f, id) \X Zone(f, id)) : e = <<Spot(f, id, d[1]), Spot(f, id, d[2])>>
  BY HierarchyIs
<1>3. e[1] = Spot(f, id, d[1]) /\ e[2] = Spot(f, id, d[2]) /\ d[1] \in Zone(f, id) /\ d[2] \in Zone(f, id)
  BY <1>2
<1>4. \A c \in Inner(f, id) : Surrogate(f, c) \notin f.node
  <2>1. \A c \in Inner(f, id) : c \in Nat
    BY LevelNodes, IdsAreNaturals
  <2> QED  BY <2>1, SurrogateFacts
<1>5. \A x \in Zone(f, id) : Spot(f, id, x) \in f.node => Spot(f, id, x) \in Own(f, id)
  BY <1>4, SpotFacts
<1> QED  BY <1>1, <1>3, <1>5

\* A decision elsewhere could only decide about a node of the level if what it leads to is in a
\* loop, and then so is what it does not decide about; or the level is a loop, and then it does
\* not matter inside how the loop has been entered.
LEMMA LevelDecides ==
    ASSUME NEW f, IsFlow(f), DecidedPlainly(f, Hierarchy(f)),
           NEW b \in Ids(f), NEW n \in Own(f, b) \ {b}, Deciding(f, Hierarchy(f)[b].graph, n) # {}
    PROVE  IsPlain(f, n) /\ Controlling(f, n) = Deciding(f, Hierarchy(f)[b].graph, n)
<1> DEFINE hf == Hierarchy(f)
           level == hf[b].graph
<1>0. /\ IsLeveled(f) /\ f.edge \subseteq f.node \X f.node /\ IsRooted(f) /\ IsFiniteSet(f.node)
      /\ f.entry \in f.node
  BY FlowGraphIsRooted DEF IsFlow, IsLeveled, IsReached, IsFlowGraph
<1>1. DOMAIN hf = Ids(f) /\ Top \notin f.node
  BY <1>0, HierarchyIs, ZoneFacts
<1>2. /\ \A e \in Decisions(f) : \E id \in Ids(f) : e \in hf[id].graph.edge
      /\ \A e \in Decisions(f) : \A w \in f.node \ Ids(f) : Controls(f, e, w) => ~Dominates(f, w, e[1])
  BY <1>1 DEF DecidedPlainly
<1> HIDE DEF hf
<1>3. n \in f.node /\ n \in Zone(f, b) /\ n \notin HeadsOf(f) /\ n \notin Ids(f)
  <2>1. n \in Zone(f, b) /\ n \in f.node
    BY <1>0, LevelNodes DEF Own
  <2>2. n \notin HeadsOf(f)
    BY <1>0, OwnIsNoHead
  <2> QED  BY <1>1, <2>1, <2>2 DEF Ids
<1>4. IsPlain(f, n)
  BY <1>2, <1>3 DEF IsPlain, Controlling
<1>5. \A e \in Controlling(f, n) :
         /\ e \in Decisions(f) /\ e \in f.edge /\ e[1] \in f.node /\ e[2] \in f.node /\ Controls(f, e, n)
         /\ PostDominates(f, n, e[2]) /\ ~PostDominates(f, n, e[1]) /\ ~Dominates(f, n, e[1])
  <2>1. \A e \in Controlling(f, n) : PostDominates(f, n, e[2]) /\ ~PostDominates(f, n, e[1])
    BY <1>4, PlainFacts
  <2> QED  BY <1>0, <1>4, <2>1 DEF Controlling, Decisions, IsPlain
<1>6. ASSUME NEW id \in Ids(f), NEW e \in f.edge, e \in hf[id].graph.edge
      PROVE  e[1] \in Own(f, id) /\ e[2] \in Own(f, id) /\ e[1] \in Zone(f, id) /\ e[2] \in Zone(f, id)
  BY <1>0, <1>6, LevelEdges DEF hf, Own
<1>7. ASSUME NEW e \in Controlling(f, n) PROVE e \in level.edge
  <2>1. PICK id \in Ids(f) : e \in hf[id].graph.edge
    BY <1>2, <1>5
  <2>2. e[1] \in Own(f, id) /\ e[2] \in Own(f, id) /\ e[1] \in Zone(f, id) /\ e[2] \in Zone(f, id)
    BY <1>5, <1>6, <2>1
  <2>3. SUFFICES ASSUME id # b PROVE FALSE
    BY <2>1
  <2>4. CASE e[2] \in Zone(f, b)
    <3>1. id \in HeadsOf(f) /\ n \notin Zone(f, id)
      <4>1. ASSUME b \in HeadsOf(f), b \in Zone(f, id) PROVE FALSE
        <5>1. PICK c \in Inner(f, id) : b \in Zone(f, c)
          BY <1>0, <2>3, <4>1, LoopToward
        <5>2. c \in HeadsOf(f) /\ c \in Ids(f)
          BY <1>0, InnerFacts DEF Ids
        <5>3. Zone(f, b) \subseteq Zone(f, c)
          BY <1>0, <4>1, <5>1, <5>2, ZoneFacts
        <5> QED  BY <2>2, <2>4, <5>1, <5>3 DEF Own
      <4>2. id \in HeadsOf(f) /\ id \in Zone(f, b)
        <5>1. CASE id = Top
          <6>1. b \in HeadsOf(f) /\ b \in Zone(f, id)
            BY <1>0, <2>3, <5>1, ZoneFacts DEF Ids, Zone
          <6> QED  BY <4>1, <6>1
        <5>2. CASE b = Top
          <6>1. id \in HeadsOf(f) /\ HeadsOf(f) \subseteq f.node
            BY <1>0, <2>3, <5>2, ZoneFacts DEF Ids
          <6> QED  BY <5>2, <6>1 DEF Zone
        <5>3. CASE id # Top /\ b # Top
          <6>1. id \in HeadsOf(f) /\ b \in HeadsOf(f)
            BY <5>3 DEF Ids
          <6>2. b \in Zone(f, id) \/ id \in Zone(f, b)
            BY <1>0, <2>2, <2>3, <2>4, <6>1, ZoneFacts
          <6> QED  BY <4>1, <6>1, <6>2
        <5> QED  BY <5>1, <5>2, <5>3
      <4>3. PICK c \in Inner(f, b) : id \in Zone(f, c)
        BY <1>0, <2>3, <4>2, LoopToward
      <4>4. c \in HeadsOf(f) /\ c \in Ids(f)
        BY <1>0, InnerFacts DEF Ids
      <4>5. Zone(f, id) \subseteq Zone(f, c)
        BY <1>0, <4>2, <4>3, <4>4, ZoneFacts
      <4> QED  BY <4>2, <4>3, <4>5 DEF Own
    <3> QED  BY <1>0, <1>3, <1>5, <2>2, <3>1, CertainInLoop
  <2>5. CASE e[2] \notin Zone(f, b)
    <3>1. b \in HeadsOf(f)
      BY <1>5, <2>5 DEF Zone, Ids
    <3>2. PostDominates(f, n, b)
      BY <1>0, <1>3, <1>5, <2>5, <3>1, CertainFromHead
    <3>3. PICK d \in Deciding(f, level, n) : TRUE
      BY DEF hf
    <3>4. d \in f.edge /\ d \in level.edge /\ d \in Controlling(f, n)
      BY <3>3 DEF Deciding, Controlling, Decisions
    <3>5. d[1] \in Zone(f, b) /\ d[1] \in f.node /\ ~PostDominates(f, n, d[1]) /\ ~Dominates(f, n, d[1])
      BY <1>5, <1>6, <3>4
    <3> DEFINE T == f.node \ {n}
               X == {x \in T : x \in Zone(f, b) => PostDominates(f, n, x)}
    <3>6. f.entry \notin Zone(f, b)
      <4>1. Top \in Ids(f) /\ b \in Zone(f, Top) /\ b # Top
        BY <1>0, <1>1, <3>1, ZoneFacts DEF Ids, Zone
      <4>2. HeaderNode(f, Top) \notin Zone(f, b)
        BY <1>0, <3>1, <4>1, ZoneFacts
      <4> QED  BY <4>2 DEF HeaderNode
    <3>7. ASSUME NEW x \in f.edge, x[1] \in X, x[2] \in T PROVE x[2] \in X
      <4>1. SUFFICES ASSUME x[2] \in Zone(f, b), x[2] # b PROVE PostDominates(f, n, x[2])
        BY <3>2, <3>7
      <4>2. HeaderNode(f, b) = b
        BY <1>0, <1>1, <3>1, ZoneFacts DEF HeaderNode
      <4>3. x[1] \in Zone(f, b)
        BY <1>0, <4>1, <4>2, EnteredAtHeader
      <4> QED  BY <1>3, <3>7, <4>3, PostDominanceFacts
    <3>8. GoesOn(f, X, T) /\ T \in SUBSET f.node /\ {f.entry} \cap T \subseteq X
      BY <3>6, <3>7 DEF GoesOn
    <3>9. ReachedFrom(f, {f.entry}, T) \subseteq X
      <4> HIDE DEF X, T
      <4> QED  BY <1>0, <3>8, ReachedFromFacts
    <3> QED  BY <3>5, <3>9 DEF Dominates
  <2> QED  BY <2>4, <2>5
<1>8. Deciding(f, level, n) \subseteq Controlling(f, n)
  BY DEF Deciding, Controlling
<1>9. Controlling(f, n) \subseteq Deciding(f, level, n)
  BY <1>5, <1>7 DEF Deciding
<1> QED  BY <1>4, <1>8, <1>9 DEF hf

-----------------------------------------------------------------------------
(* The same program on both sides.                                         *)

\* All debug information is there, and no two nodes have the same.
IsTraced(f) ==
    /\ \A n, m \in f.node : n # m => f.place[n] # f.place[m]
    /\ \A n \in f.node : f.place[n] # NoPlace

LEMMA LabelsDiffer ==
    ASSUME NEW f, IsTraced(f), NEW e \in f.node \X f.node, NEW d \in f.node \X f.node,
           Label(f, "bin", e) = Label(f, "src", d)
    PROVE  e = d
<1>1. ASSUME NEW side, NEW c \in f.node \X f.node
      PROVE  Label(f, side, c) = <<f.place[c[1]], f.place[c[2]]>>
  <2> DEFINE where == <<f.place[c[1]], f.place[c[2]]>>
  <2>1. DOMAIN where = {1, 2} /\ where[1] = f.place[c[1]] /\ where[2] = f.place[c[2]]
    OBVIOUS
  <2>2. where[1] # NoPlace /\ where[2] # NoPlace
    BY <2>1 DEF IsTraced
  <2>3. Label(f, side, c) = IF NoPlace \in Range(where) THEN <<side>> \o c ELSE where
    BY DEF Label
  <2> HIDE DEF where
  <2>4. NoPlace \notin Range(where)
    BY <2>1, <2>2 DEF Range
  <2> QED  BY <2>3, <2>4 DEF where
<1>2. <<f.place[e[1]], f.place[e[2]]>> = <<f.place[d[1]], f.place[d[2]]>>
  BY <1>1
<1>3. f.place[e[1]] = f.place[d[1]] /\ f.place[e[2]] = f.place[d[2]]
  BY <1>2
<1> QED  BY <1>3 DEF IsTraced

\* So nodes of a level with the same labels have the same decisions.
LEMMA KnownIsAlike ==
    ASSUME NEW f, IsFlow(f), IsTraced(f), DecidedPlainly(f, Hierarchy(f)), NEW b \in Ids(f),
           NEW bcond, bcond = Conditions(f, "bin", Hierarchy(f)[b].graph, b),
           NEW scond, scond = Conditions(f, "src", Hierarchy(f)[b].graph, b),
           NEW n \in DOMAIN bcond, NEW v \in DOMAIN scond, bcond[n] = scond[v], bcond[n] # {}
    PROVE  Alike(f, n, v)
<1> DEFINE level == Hierarchy(f)[b].graph
           E == Deciding(f, level, n)
           D == Deciding(f, level, v)
<1>0. IsLeveled(f) /\ f.edge \subseteq f.node \X f.node
  BY DEF IsFlow, IsLeveled, IsReached, IsFlowGraph
<1>1. /\ n \in (f.node \cap level.node) \ {b} /\ bcond[n] = {Label(f, "bin", e) : e \in E}
      /\ v \in (f.node \cap level.node) \ {b} /\ scond[v] = {Label(f, "src", e) : e \in D}
  BY DEF Conditions, Deciding
<1>2. f.node \cap level.node \subseteq Own(f, b)
  <2>1. level.node = Own(f, b) \cup Surrogates(f, Inner(f, b))
    BY <1>0, HierarchyIs, LevelNodes
  <2>2. Surrogates(f, Inner(f, b)) \cap f.node = {}
    <3>1. Inner(f, b) \subseteq Nat
      BY <1>0, LevelNodes, IdsAreNaturals
    <3> QED  BY <1>0, <3>1, SurrogateFacts DEF Surrogates
  <2> HIDE DEF level
  <2> QED  BY <2>1, <2>2
<1>3. E \subseteq f.node \X f.node /\ D \subseteq f.node \X f.node
  BY <1>0 DEF Deciding, Decisions
<1> HIDE DEF E, D
<1>4. E = D
  <2>1. ASSUME NEW e \in E PROVE e \in D
    <3>1. PICK d \in D : Label(f, "bin", e) = Label(f, "src", d)
      BY <1>1
    <3> QED  BY <1>3, <3>1, LabelsDiffer
  <2>2. ASSUME NEW d \in D PROVE d \in E
    <3>1. PICK e \in E : Label(f, "bin", e) = Label(f, "src", d)
      BY <1>1
    <3> QED  BY <1>3, <3>1, LabelsDiffer
  <2> QED  BY <2>1, <2>2
<1>5. E # {}
  BY <1>1
<1>6. IsPlain(f, n) /\ Controlling(f, n) = E /\ IsPlain(f, v) /\ Controlling(f, v) = D
  BY <1>1, <1>2, <1>4, <1>5, LevelDecides DEF E, D
<1> QED  BY <1>4, <1>5, <1>6, SameControlIsAlike

\* Entry, exit and headers are mapped to themselves.
LEMMA FixedIsAlike ==
    ASSUME Setting, PartnersFit, Identical, NEW b \in Paired,
           NEW n \in DOMAIN FixedPoints(b) \cap job.bin.node
    PROVE  FixedPoints(b)[n] = n
<1> DEFINE C == {Surrogate(job.bin, c) : c \in Subflows(b) \cap Paired}
           loops == [m \in C |-> Surrogate(job.src, partner[HeaderOf(job.bin, m)])]
           ends == IF b = Top
                   THEN Over(Just(job.bin.entry, job.src.entry), Just(job.bin.exit, job.src.exit))
                   ELSE Just(b, partner[b])
<1>1. FixedPoints(b) = Over(loops, ends)
  BY DEF FixedPoints
<1>2. b \in DOMAIN bhFlow /\ Subflows(b) \subseteq Heads(job.bin)
  BY DEF PartnersFit, Setting, IsNested, IsTree, Subflows
<1>3. C \cap job.bin.node = {}
  <2>1. bhFlow[b].graph.node \ job.bin.node = {Surrogate(job.bin, d) : d \in bhFlow[b].subflows}
    BY <1>2 DEF Setting, IsNested, AreLevels
  <2> QED  BY <2>1 DEF Subflows
<1>4. DOMAIN loops = C
  OBVIOUS
<1>5. \A m \in DOMAIN ends : ends[m] = m
  <2>1. job.bin = job.src
    BY DEF Identical
  <2>2. CASE b = Top
    <3>1. ends = Over(Just(job.bin.entry, job.bin.entry), Just(job.bin.exit, job.bin.exit))
      BY <2>1, <2>2
    <3> HIDE DEF ends
    <3> QED  BY <3>1 DEF Over, Just
  <2>3. CASE b # Top
    <3>1. partner[b] = b
      BY <2>3 DEF PartnersFit, Identical
    <3>2. ends = Just(b, b)
      BY <2>3, <3>1
    <3> HIDE DEF ends
    <3> QED  BY <3>2 DEF Just
  <2> QED  BY <2>2, <2>3
<1> HIDE DEF loops, ends, C
<1>6. n \notin DOMAIN loops
  BY <1>3, <1>4
<1> QED  BY <1>1, <1>5, <1>6 DEF Over

LEMMA PreciseLevelIsAlike == MappingInvariant /\ PreciseIsAlike /\ PreciseLevel => PreciseIsAlike'
<1> SUFFICES ASSUME MappingInvariant, PreciseIsAlike, PreciseLevel,
                    Identical', DecidedPlainly(job.bin, bhFlow)'
             PROVE  AllAlike'
  BY DEF PreciseIsAlike
<1>1. /\ job \in Jobs /\ bhFlow = Hierarchy(job.bin) /\ shFlow = Hierarchy(job.src)
      /\ PartnersFit /\ PreciseFits /\ Setting
  BY JobsHaveSetting DEF MappingInvariant
<1>2. job' = job /\ bhFlow' = bhFlow /\ stage = "precise"
  BY DEF PreciseLevel, inputs
<1>3. Identical /\ DecidedPlainly(job.bin, Hierarchy(job.bin))
  BY <1>1, <1>2 DEF Identical
<1>4. AllAlike
  BY <1>1, <1>3 DEF PreciseIsAlike
<1> DEFINE f == job.bin
           BCond(b) == Conditions(job.bin, "bin", bhFlow[b].graph, b)
           SCond(b) == Conditions(job.src, "src", shFlow[partner[b]].graph, partner[b])
           Conds(b) == (Range(BCond(b)) \cap Range(SCond(b))) \ {{}}
           Known(b, found, pick) ==
               [n \in {m \in DOMAIN BCond(b) : BCond(b)[m] \in found} |-> pick[BCond(b)[n]]]
<1>5. PICK b \in todo :
        \E found \in {S \in SUBSET Conds(b) : \A c \in Conds(b) \ S : MayLackLine(SCond(b), c)} :
        \E pick \in {p \in [found -> DOMAIN SCond(b)] : \A c \in found : SCond(b)[p[c]] = c} :
            precise' = Over(precise, Just(b, Over(Known(b, found, pick), FixedPoints(b))))
  BY DEF PreciseLevel
<1>6. b \in Paired /\ b \notin DOMAIN precise
  BY <1>1, <1>2 DEF PreciseFits
<1>7. f = job.src /\ partner[b] = b /\ shFlow = bhFlow
  BY <1>1, <1>3, <1>6 DEF Identical, PartnersFit
<1>8. IsFlow(f) /\ IsTraced(f)
  BY <1>1, <1>3, JobsAreJobs DEF Identical, IsTraced
<1>9. b \in Ids(f)
  <2>1. IsLeveled(f)
    BY <1>8 DEF IsFlow, IsLeveled, IsReached
  <2> QED  BY <1>1, <1>6, <2>1, HierarchyIs DEF PartnersFit
<1>10. PICK found \in SUBSET Conds(b) : \E pick \in [found -> DOMAIN SCond(b)] :
         /\ \A c \in found : SCond(b)[pick[c]] = c
         /\ precise' = Over(precise, Just(b, Over(Known(b, found, pick), FixedPoints(b))))
  <2> HIDE DEF BCond, SCond, Conds, Known
  <2>1. PICK found \in {S \in SUBSET Conds(b) : \A c \in Conds(b) \ S : MayLackLine(SCond(b), c)} :
           \E pick \in {p \in [found -> DOMAIN SCond(b)] : \A c \in found : SCond(b)[p[c]] = c} :
              precise' = Over(precise, Just(b, Over(Known(b, found, pick), FixedPoints(b))))
    BY <1>5
  <2>2. PICK pick \in {p \in [found -> DOMAIN SCond(b)] : \A c \in found : SCond(b)[p[c]] = c} :
           precise' = Over(precise, Just(b, Over(Known(b, found, pick), FixedPoints(b))))
    BY <2>1
  <2>3. found \in SUBSET Conds(b) /\ pick \in [found -> DOMAIN SCond(b)]
    BY <2>1, <2>2
  <2> QED  BY <2>2, <2>3
<1>11. PICK pick \in [found -> DOMAIN SCond(b)] :
         /\ \A c \in found : SCond(b)[pick[c]] = c
         /\ precise' = Over(precise, Just(b, Over(Known(b, found, pick), FixedPoints(b))))
  BY <1>10
<1> DEFINE known == Known(b, found, pick)
           fixed == FixedPoints(b)
           map == Over(known, fixed)
<1>12. ASSUME NEW n \in DOMAIN known PROVE Alike(f, n, known[n])
  <2> DEFINE bcond == BCond(b)
             scond == SCond(b)
             conds == (Range(bcond) \cap Range(scond)) \ {{}}
             v == pick[bcond[n]]
  <2>1. bcond = Conditions(f, "bin", Hierarchy(f)[b].graph, b)
    BY <1>1
  <2>2. scond = Conditions(f, "src", Hierarchy(f)[b].graph, b)
    BY <1>1, <1>7
  <2>3. n \in DOMAIN bcond /\ bcond[n] \in found /\ known[n] = v
    OBVIOUS
  <2>4. v \in DOMAIN scond /\ scond[v] = bcond[n]
    BY <1>11, <2>3
  <2> HIDE DEF bcond, scond, v
  <2>5. bcond[n] # {}
    BY <2>3
  <2>6. Alike(f, n, v)
    BY <1>3, <1>8, <1>9, <2>1, <2>2, <2>3, <2>4, <2>5, KnownIsAlike
  <2> HIDE DEF known
  <2> QED  BY <2>3, <2>6
<1>13. \A n \in DOMAIN fixed \cap f.node : fixed[n] = n
  BY <1>1, <1>3, <1>6, FixedIsAlike
<1>14. precise' = Over(precise, Just(b, map))
  BY <1>11
<1> HIDE DEF known, fixed, BCond, SCond, Conds, Known
<1>15. /\ DOMAIN map = DOMAIN known \cup DOMAIN fixed
       /\ \A n \in DOMAIN map : \/ n \in DOMAIN known /\ map[n] = known[n]
                                \/ n \in DOMAIN fixed /\ map[n] = fixed[n]
  BY DEF Over
<1> HIDE DEF map
<1>16. /\ DOMAIN precise' = DOMAIN precise \cup {b} /\ precise'[b] = map
       /\ \A x \in DOMAIN precise : precise'[x] = precise[x]
  BY <1>6, <1>14 DEF Over, Just
<1>17. \A n \in DOMAIN map \cap f.node : Alike(f, n, map[n])
  BY <1>12, <1>13, <1>15 DEF Alike
<1>18. \A x \in DOMAIN precise : \A n \in DOMAIN precise[x] \cap f.node : Alike(f, n, precise[x][n])
  BY <1>4, <1>7 DEF AllAlike
<1> QED  BY <1>2, <1>7, <1>16, <1>17, <1>18 DEF AllAlike

\* Between identical programs, with plain decisions, the precise map takes each block to one
\* that runs as often (CtrlDependencyMapper, "we can annotate to any of them").
THEOREM PreciseMapsAreAlike == Spec => []PreciseIsAlike
<1>1. Init => PreciseIsAlike
  BY DEF Init, PreciseIsAlike, AllAlike
<1>2. MappingInvariant /\ PreciseIsAlike /\ [Next]_vars => PreciseIsAlike'
  <2> SUFFICES ASSUME MappingInvariant, PreciseIsAlike, [Next]_vars PROVE PreciseIsAlike'
    OBVIOUS
  <2>1. CASE PreciseLevel
    BY <2>1, PreciseLevelIsAlike
  <2>2. CASE UNCHANGED <<job, bhFlow, precise>>
    BY <2>2 DEF PreciseIsAlike, Identical, AllAlike
  <2>3. PreciseLevel \/ UNCHANGED <<job, bhFlow, precise>>
    BY DEF Next, vars, inputs, PairSubflow, CheckHierarchy, CopyMaps, LumpLevel, FinishLumping,
           SkipFlow, StartFlattening, AddChild, SafetyCheck, Ended
  <2> QED  BY <2>1, <2>2, <2>3
<1> QED  BY <1>1, <1>2, MappingInvariantHolds, PTL DEF Spec

=============================================================================
