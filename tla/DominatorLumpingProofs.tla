------------------------ MODULE DominatorLumpingProofs ------------------------
(***************************************************************************)
(* What holds of DominatorLumping for all levels, whatever is mapped       *)
(* already: nodes are lumped soundly, no assertion fails, and in the end   *)
(* every node has gone to a mapped one.                                    *)
(*                                                                         *)
(* A node moves up to a node that dominates all that has been moved into   *)
(* its set, or down to the image of its only successor.  The second may    *)
(* only happen to a node that is alone in its set; that it is follows from *)
(* the order of the passes, and is what Convex and DownIsLast are for.     *)
(***************************************************************************)
EXTENDS DominatorLumping, FlowGraphTheorems

-----------------------------------------------------------------------------
(* The inductive invariant, for any graph and tree.                        *)

\* Nothing has gone astray: mapped nodes stay, and so do unmapped nodes the passes have
\* not moved yet; nothing is left in a set that was moved, and what has not arrived at a
\* mapped node went up.
Orderly(g, set, gone) ==
    /\ set \in [g.node -> g.node]
    /\ gone \subseteq g.node \ g.mapped
    /\ \A m \in g.node \ gone : set[m] = m
    /\ \A m \in g.node : set[m] \notin gone
    /\ \A m \in g.node : set[m] \notin g.mapped => Dominates(g, set[m], m)

Sound(g, set) ==
    \A m \in g.node : Dominates(g, set[m], m) \/ set[m] \in StraightOn(g, m)

\* A node is moved down only if the nodes below it have arrived already.
DownIsLast(g, tree, set) ==
    \A m \in g.node : ~Dominates(g, set[m], m) =>
        \A c \in Children(tree, m) : set[c] \in g.mapped

\* What moves up takes the nodes on its way along.
Convex(g, set) ==
    \A m \in g.node : set[m] # m /\ set[m] \notin g.mapped =>
        \A y \in g.node \ {set[m]} :
            Dominates(g, set[m], y) /\ Dominates(g, y, m) => set[y] = set[m]

-----------------------------------------------------------------------------
(* Levels and their dominator trees.                                       *)

\* What is used of the numbers: a dominator has a lower one.
IsNumbered(g) ==
    /\ IsRooted(g) /\ ReachableNodes(g) = g.node
    /\ g.node \subseteq Nat
    /\ \A a, b \in g.node : Dominates(g, a, b) => a <= b

LEMMA LevelFacts ==
    ASSUME NEW g, IsLevel(g)
    PROVE  IsNumbered(g) /\ g.entry \in g.mapped /\ g.mapped \subseteq g.node
<1>1. IsRooted(g) /\ ReachableNodes(g) = g.node /\ g.node \subseteq Nat
  BY DEF IsLevel, IsRooted
<1>2. ASSUME NEW a \in g.node, NEW b \in g.node, Dominates(g, a, b) PROVE a <= b
  <2>1. b \in Below(g, a)
    BY <1>2 DEF Below, Dominates
  <2>2. Below(g, a) = {m \in g.node : a <= m /\ m <= Max(Below(g, a))}
    BY DEF IsLevel, NumberedInPreorder
  <2> QED  BY <2>1, <2>2
<1> QED  BY <1>1, <1>2 DEF IsNumbered, IsLevel

\* up takes each node but the entry to the nearest of its dominators.
IsDominatorTree(g, tree) ==
    /\ DOMAIN tree = g.node \ {g.entry}
    /\ \A n \in g.node \ {g.entry} :
        /\ tree[n] \in g.node \ {n} /\ Dominates(g, tree[n], n)
        /\ \A d \in g.node \ {n} : Dominates(g, d, n) => Dominates(g, d, tree[n])

LEMMA TreeFacts ==
    ASSUME NEW g, IsNumbered(g)
    PROVE  IsDominatorTree(g, ImmediateDominators(g))
<1> DEFINE above == {p \in g.node \X g.node : p[1] # p[2] /\ Dominates(g, p[1], p[2])}
           Nearest(n, a) == /\ <<a, n>> \in above
                            /\ \A d \in g.node \ {a} : <<d, n>> \in above => <<d, a>> \in above
           up_ == ImmediateDominators(g)
<1>1. \A a, b \in g.node : <<a, b>> \in above <=> a # b /\ Dominates(g, a, b)
  OBVIOUS
<1>2. up_ = [n \in g.node \ {g.entry} |-> CHOOSE a \in g.node : Nearest(n, a)]
  BY DEF ImmediateDominators
<1> HIDE DEF above, up_
<1>3. ASSUME NEW n \in g.node \ {g.entry} PROVE \E a \in g.node : Nearest(n, a)
  <2> DEFINE D == {d \in g.node \ {n} : Dominates(g, d, n)}
             value == [d \in D |-> n - d]
  <2>1. g.entry \in D
    BY EntryDominates DEF IsNumbered, IsRooted
  <2>2. value \in [D -> Nat]
    BY DEF IsNumbered
  <2>3. \E x \in D : \A y \in D : value[x] <= value[y]
    <3> HIDE DEF D, value
    <3> QED  BY <2>1, <2>2, LeastByValue
  <2>4. PICK a \in D : \A d \in D : value[a] <= value[d]
    BY <2>3
  <2>5. \A d \in D : d <= a
    <3>1. D \subseteq Nat /\ n \in Nat
      BY DEF IsNumbered
    <3>2. ASSUME NEW d \in D PROVE d <= a
      <4>1. n - a <= n - d
        BY <2>4
      <4>2. a \in Nat /\ d \in Nat
        BY <3>1
      <4> QED  BY <3>1, <4>1, <4>2
    <3> QED  BY <3>2
  <2>6. ASSUME NEW d \in g.node \ {a}, <<d, n>> \in above PROVE <<d, a>> \in above
    <3>1. d \in D
      BY <1>1, <2>6
    <3>2. Dominates(g, d, a) \/ Dominates(g, a, d)
      BY <3>1, DominatorsAreAChain DEF IsNumbered
    <3>3. ~Dominates(g, a, d)
      <4>1. ~(a <= d)
        BY <2>5, <3>1 DEF IsNumbered
      <4> QED  BY <3>1, <4>1 DEF IsNumbered
    <3> QED  BY <1>1, <3>1, <3>2, <3>3
  <2>7. <<a, n>> \in above
    BY <1>1
  <2> QED  BY <2>6, <2>7
<1>4. ASSUME NEW n \in g.node \ {g.entry}
      PROVE  /\ up_[n] \in g.node \ {n} /\ Dominates(g, up_[n], n)
             /\ \A d \in g.node \ {n} : Dominates(g, d, n) => Dominates(g, d, up_[n])
  <2>1. up_[n] \in g.node /\ Nearest(n, up_[n])
    BY <1>2, <1>3
  <2>2. Dominates(g, up_[n], up_[n])
    BY <2>1, DominatesSelf DEF IsNumbered
  <2> QED  BY <1>1, <2>1, <2>2
<1> QED  BY <1>2, <1>4 DEF IsDominatorTree, up_

\* A level and its dominator tree.
IsTask(g, tree) ==
    /\ IsNumbered(g) /\ IsDominatorTree(g, tree)
    /\ g.entry \in g.mapped /\ g.mapped \subseteq g.node

\* What is used of the tree.
LEMMA TaskFacts ==
    ASSUME NEW g, NEW tree, IsTask(g, tree), NEW n \in g.node \ g.mapped
    PROVE  /\ n # g.entry
           /\ tree[n] \in g.node \ {n} /\ Dominates(g, tree[n], n) /\ tree[n] < n
           /\ n \in Children(tree, tree[n])
           /\ \A d \in g.node \ {n} : Dominates(g, d, n) => Dominates(g, d, tree[n])
<1>1. /\ n # g.entry
      /\ tree[n] \in g.node \ {n} /\ Dominates(g, tree[n], n)
      /\ \A d \in g.node \ {n} : Dominates(g, d, n) => Dominates(g, d, tree[n])
  BY DEF IsTask, IsDominatorTree
<1>2. n \in Children(tree, tree[n])
  BY <1>1 DEF Children, IsTask, IsDominatorTree
<1>3. tree[n] < n
  <2>1. tree[n] \in Nat /\ n \in Nat /\ tree[n] <= n
    BY <1>1 DEF IsTask, IsNumbered
  <2> QED  BY <1>1, <2>1
<1> QED  BY <1>1, <1>2, <1>3

\* Dominance is an order of the nodes of a level.
LEMMA OrderFacts ==
    ASSUME NEW g, IsNumbered(g)
    PROVE  /\ \A a \in g.node : Dominates(g, a, a)
           /\ \A a, b, c \in g.node : Dominates(g, a, b) /\ Dominates(g, b, c) => Dominates(g, a, c)
           /\ \A a, b \in g.node : Dominates(g, a, b) /\ Dominates(g, b, a) => a = b
           /\ \A a, b, n \in g.node : Dominates(g, a, n) /\ Dominates(g, b, n)
                                        => Dominates(g, a, b) \/ Dominates(g, b, a)
<1>1. IsRooted(g) /\ ReachableNodes(g) = g.node
  BY DEF IsNumbered
<1>2. \A a \in g.node : Dominates(g, a, a)
  BY <1>1, DominatesSelf
<1>3. \A a, b, c \in g.node : Dominates(g, a, b) /\ Dominates(g, b, c) => Dominates(g, a, c)
  BY <1>1, DominanceTransitive
<1>4. ASSUME NEW a \in g.node, NEW b \in g.node, Dominates(g, a, b), Dominates(g, b, a)
      PROVE  a = b
  BY <1>4 DEF IsNumbered
<1>5. \A a, b, n \in g.node : Dominates(g, a, n) /\ Dominates(g, b, n)
                                => Dominates(g, a, b) \/ Dominates(g, b, a)
  BY <1>1, DominatorsAreAChain
<1> QED  BY <1>2, <1>3, <1>4, <1>5

\* Sets of one node.
LEMMA OneFacts ==
    ASSUME NEW S, IsFiniteSet(S), IsOne(S)
    PROVE  S = {TheOne(S)}
<1>1. PICK x : S = {x}
  BY FS_Singleton DEF IsOne
<1> QED  BY <1>1 DEF TheOne

LEMMA SuccsAreFinite ==
    ASSUME NEW g, IsRooted(g), NEW n
    PROVE  Succs(g, n) \subseteq g.node /\ IsFiniteSet(Succs(g, n))
<1>1. Succs(g, n) \in SUBSET g.node
  BY DEF Succs, IsRooted
<1> QED  BY <1>1, FS_Subset DEF IsRooted

-----------------------------------------------------------------------------
(* What control runs through.                                              *)

LEMMA StraightOnFacts ==
    ASSUME NEW g, IsRooted(g), NEW n \in g.node, NEW s, Succs(g, n) = {s}, s \in g.node
    PROVE  s \in StraightOn(g, n) /\ StraightOn(g, s) \subseteq StraightOn(g, n)
<1> DEFINE h == [node |-> g.node, edge |-> {e \in g.edge : IsOne(Succs(g, e[1]))}]
           From(x) == ReachedFrom(h, {x}, g.node)
<1>1. ASSUME NEW x \in g.node
      PROVE  /\ x \in From(x) /\ GoesOn(h, From(x), g.node)
             /\ \A X : x \in X /\ GoesOn(h, X, g.node) => From(x) \subseteq X
  <2>1. h.node = g.node /\ IsFiniteSet(h.node)
    BY DEF IsRooted
  <2>2. {x} \cap g.node = {x}
    OBVIOUS
  <2> HIDE DEF h
  <2> QED  BY <2>1, <2>2, ReachedFromFacts
<1>2. \E e \in h.edge : e[1] = n /\ e[2] = s
  <2>1. PICK e \in g.edge : e[1] = n /\ e[2] = s
    BY DEF Succs
  <2>2. IsOne(Succs(g, n))
    BY FS_Singleton DEF IsOne
  <2> QED  BY <2>1, <2>2
<1>3. \A x : StraightOn(g, x) = From(x)
  BY DEF StraightOn
<1> HIDE DEF h, From
<1>4. s \in From(n)
  BY <1>1, <1>2 DEF GoesOn
<1>5. From(s) \subseteq From(n)
  BY <1>1, <1>4
<1> QED  BY <1>3, <1>4, <1>5

\* A node t is sound for m: it has run whenever m runs, or control goes straight on to it.
IsSoundFor(g, t, m) == Dominates(g, t, m) \/ t \in StraightOn(g, m)

\* What is sound for the only successor of a node is sound for the node.
LEMMA SoundBackwards ==
    ASSUME NEW g, IsRooted(g), NEW n \in g.node, NEW s \in g.node, Succs(g, n) = {s},
           NEW t \in g.node, IsSoundFor(g, t, s)
    PROVE  IsSoundFor(g, t, n)
<1>1. CASE t \in StraightOn(g, s)
  BY <1>1, StraightOnFacts DEF IsSoundFor
<1>2. CASE t = s
  BY <1>2, StraightOnFacts DEF IsSoundFor
<1>3. CASE t # s /\ Dominates(g, t, s)
  <2>1. PICK e \in g.edge : e[1] = n /\ e[2] = s
    BY DEF Succs
  <2> QED  BY <1>3, <2>1, DominatesPreds DEF IsSoundFor
<1> QED  BY <1>1, <1>2, <1>3 DEF IsSoundFor

-----------------------------------------------------------------------------
(* Moves.                                                                  *)

LEMMA UnionFacts ==
    ASSUME NEW D, NEW set \in [D -> D], NEW n, NEW t \in D
    PROVE  /\ Union(set, n, t) \in [D -> D]
           /\ \A m \in D : Union(set, n, t)[m] = IF set[m] = n THEN t ELSE set[m]
BY DEF Union

\* The parts of the invariant that hold in every pass.
Goes(g, tree, set, gone) ==
    Orderly(g, set, gone) /\ Sound(g, set) /\ DownIsLast(g, tree, set)

\* Moving a set up, to a node that dominates it.
LEMMA MoveUp ==
    ASSUME NEW g, NEW tree, IsTask(g, tree), NEW set, NEW gone, Goes(g, tree, set, gone),
           NEW n \in g.node \ (g.mapped \cup gone),
           NEW t \in g.node \ (gone \cup {n}), Dominates(g, t, n)
    PROVE  Goes(g, tree, Union(set, n, t), gone \cup {n})
<1> DEFINE after == Union(set, n, t)
<1>1. /\ after \in [g.node -> g.node]
      /\ \A m \in g.node : after[m] = IF set[m] = n THEN t ELSE set[m]
  BY UnionFacts DEF Goes, Orderly
<1>2. \A m \in g.node : set[m] = n => Dominates(g, t, m)
  <2>1. ASSUME NEW m \in g.node, set[m] = n PROVE Dominates(g, t, m)
    <3>1. Dominates(g, n, m)
      BY <2>1 DEF Goes, Orderly
    <3> QED  BY <3>1, OrderFacts DEF IsTask
  <2> QED  BY <2>1
<1> HIDE DEF after
<1>3. Orderly(g, after, gone \cup {n})
  <2>1. gone \cup {n} \subseteq g.node \ g.mapped
    BY DEF Goes, Orderly
  <2>2. \A m \in g.node \ (gone \cup {n}) : after[m] = m
    BY <1>1 DEF Goes, Orderly
  <2>3. \A m \in g.node : after[m] \notin gone \cup {n}
    BY <1>1 DEF Goes, Orderly
  <2>4. \A m \in g.node : after[m] \notin g.mapped => Dominates(g, after[m], m)
    BY <1>1, <1>2 DEF Goes, Orderly
  <2> QED  BY <1>1, <2>1, <2>2, <2>3, <2>4 DEF Orderly
<1>4. Sound(g, after)
  BY <1>1, <1>2 DEF Goes, Sound
<1>5. DownIsLast(g, tree, after)
  <2>1. ASSUME NEW m \in g.node, ~Dominates(g, after[m], m), NEW c \in Children(tree, m)
        PROVE  after[c] \in g.mapped
    <3>1. c \in g.node
      BY DEF Children, IsTask, IsDominatorTree
    <3>2. set[c] \in g.mapped
      BY <1>1, <1>2, <2>1 DEF Goes, DownIsLast
    <3> QED  BY <1>1, <3>1, <3>2
  <2> QED  BY <2>1 DEF DownIsLast
<1> QED  BY <1>3, <1>4, <1>5 DEF Goes, after

\* A node whose only successor has arrived is alone in its set.
LEMMA AloneIfDown ==
    ASSUME NEW g, NEW tree, IsTask(g, tree), NEW set, NEW gone, Orderly(g, set, gone),
           Convex(g, set), NEW n \in g.node \ g.mapped,
           NEW s, Succs(g, n) = {s}, set[s] \in g.mapped, NEW m \in g.node \ {n}
    PROVE  set[m] # n
<1>1. SUFFICES ASSUME set[m] = n PROVE FALSE
  OBVIOUS
<1>2. Dominates(g, n, m)
  BY <1>1 DEF Orderly
<1>3. s \in g.node \ {n} /\ Dominates(g, n, s) /\ Dominates(g, s, m)
  BY <1>2, OnlySuccessorDominates DEF IsTask, IsNumbered
<1>4. set[s] = n
  BY <1>1, <1>3 DEF Convex
<1> QED  BY <1>4

\* Below a node with one successor in the dominator tree, there can only be the successor.
LEMMA OnlyChild ==
    ASSUME NEW g, NEW tree, IsTask(g, tree), NEW n \in g.node, NEW s, Succs(g, n) = {s}
    PROVE  Children(tree, n) \subseteq {s}
<1>1. SUFFICES ASSUME NEW c \in Children(tree, n) PROVE c = s
  OBVIOUS
<1>2. c \in g.node \ {n} /\ Dominates(g, n, c)
       /\ \A d \in g.node \ {c} : Dominates(g, d, c) => Dominates(g, d, n)
  BY DEF Children, IsTask, IsDominatorTree
<1>3. s \in g.node \ {n} /\ Dominates(g, n, s) /\ Dominates(g, s, c)
  BY <1>2, OnlySuccessorDominates DEF IsTask, IsNumbered
<1>4. ~Dominates(g, s, n)
  BY <1>3, OrderFacts DEF IsTask
<1> QED  BY <1>2, <1>3, <1>4

\* Moving a node down, to where its only successor has gone.
LEMMA MoveDown ==
    ASSUME NEW g, NEW tree, IsTask(g, tree), NEW set, NEW gone, Goes(g, tree, set, gone),
           Convex(g, set), NEW n \in g.node \ (g.mapped \cup gone),
           NEW s, Succs(g, n) = {s}, set[s] \in g.mapped
    PROVE  /\ Goes(g, tree, Union(set, n, set[s]), gone \cup {n})
           /\ Convex(g, Union(set, n, set[s]))
<1> DEFINE after == Union(set, n, set[s])
<1>1. s \in g.node /\ set[s] \in g.node /\ n \notin g.mapped
  <2>1. s \in g.node
    BY SuccsAreFinite DEF IsTask, IsNumbered
  <2> QED  BY <2>1 DEF Goes, Orderly
<1>2. /\ after \in [g.node -> g.node]
      /\ \A m \in g.node : after[m] = IF set[m] = n THEN set[s] ELSE set[m]
  BY <1>1, UnionFacts DEF Goes, Orderly
<1>3. set[n] = n /\ \A m \in g.node : set[m] = n => m = n
  BY AloneIfDown DEF Goes, Orderly
<1>4. \A m \in g.node : after[m] = IF m = n THEN set[s] ELSE set[m]
  BY <1>2, <1>3
<1> HIDE DEF after
<1>5. Orderly(g, after, gone \cup {n})
  <2>1. gone \cup {n} \subseteq g.node \ g.mapped
    BY DEF Goes, Orderly
  <2>2. \A m \in g.node \ (gone \cup {n}) : after[m] = m
    BY <1>4 DEF Goes, Orderly
  <2>3. \A m \in g.node : after[m] \notin gone \cup {n}
    BY <1>1, <1>3, <1>4 DEF Goes, Orderly
  <2>4. \A m \in g.node : after[m] \notin g.mapped => Dominates(g, after[m], m)
    BY <1>4 DEF Goes, Orderly
  <2> QED  BY <1>2, <2>1, <2>2, <2>3, <2>4 DEF Orderly
<1>6. Sound(g, after)
  <2>1. IsSoundFor(g, set[s], s)
    BY <1>1 DEF Goes, Sound, IsSoundFor
  <2>2. IsSoundFor(g, set[s], n)
    BY <1>1, <2>1, SoundBackwards DEF IsTask, IsNumbered
  <2> QED  BY <1>4, <2>2 DEF Goes, Sound, IsSoundFor
<1>7. DownIsLast(g, tree, after)
  <2>1. ASSUME NEW m \in g.node, ~Dominates(g, after[m], m), NEW c \in Children(tree, m)
        PROVE  after[c] \in g.mapped
    <3>1. c \in g.node
      BY DEF Children, IsTask, IsDominatorTree
    <3>2. CASE m = n
      <4>1. c = s
        BY <3>2, OnlyChild
      <4> QED  BY <1>1, <1>4, <4>1
    <3>3. CASE m # n
      <4>1. set[c] \in g.mapped
        BY <1>4, <2>1, <3>3 DEF Goes, DownIsLast
      <4> QED  BY <1>2, <3>1, <4>1
    <3> QED  BY <3>2, <3>3
  <2> QED  BY <2>1 DEF DownIsLast
<1>8. Convex(g, after)
  <2>1. ASSUME NEW m \in g.node, after[m] # m, after[m] \notin g.mapped,
               NEW y \in g.node \ {after[m]}, Dominates(g, after[m], y), Dominates(g, y, m)
        PROVE  after[y] = after[m]
    <3>1. m # n /\ after[m] = set[m]
      BY <1>4, <2>1
    <3>2. set[y] = set[m]
      BY <2>1, <3>1 DEF Convex
    <3>3. y # n
      BY <1>3, <2>1, <3>1, <3>2
    <3> QED  BY <1>4, <3>1, <3>2, <3>3
  <2> QED  BY <2>1 DEF Convex
<1> QED  BY <1>5, <1>6, <1>7, <1>8 DEF Goes, after

\* Moving a set to the dominator of its node keeps the way convex.
LEMMA MoveUpConvex ==
    ASSUME NEW g, NEW tree, IsTask(g, tree), NEW set, NEW gone, Orderly(g, set, gone),
           Convex(g, set), NEW n \in g.node \ (g.mapped \cup gone)
    PROVE  Convex(g, Union(set, n, tree[n]))
<1> DEFINE after == Union(set, n, tree[n])
<1>1. /\ tree[n] \in g.node \ {n} /\ Dominates(g, tree[n], n)
      /\ \A d \in g.node \ {n} : Dominates(g, d, n) => Dominates(g, d, tree[n])
  BY TaskFacts
<1>2. \A m \in g.node : after[m] = IF set[m] = n THEN tree[n] ELSE set[m]
  BY <1>1, UnionFacts DEF Orderly
<1> HIDE DEF after
<1>3. ASSUME NEW m \in g.node, after[m] # m, after[m] \notin g.mapped,
             NEW y \in g.node \ {after[m]}, Dominates(g, after[m], y), Dominates(g, y, m)
      PROVE  after[y] = after[m]
  <2>1. CASE set[m] # n
    <3>1. set[y] = set[m]
      BY <1>2, <1>3, <2>1 DEF Convex
    <3> QED  BY <1>2, <2>1, <3>1
  <2>2. CASE set[m] = n
    <3>1. after[m] = tree[n] /\ Dominates(g, n, m)
      BY <1>2, <2>2 DEF Orderly
    <3>2. Dominates(g, n, y) \/ Dominates(g, y, n)
      BY <1>3, <3>1, OrderFacts DEF IsTask
    <3>3. Dominates(g, n, y)
      <4>1. SUFFICES ASSUME y # n, Dominates(g, y, n) PROVE FALSE
        BY <3>2, OrderFacts DEF IsTask
      <4>2. Dominates(g, y, tree[n])
        BY <1>1, <4>1
      <4> QED  BY <1>1, <1>3, <3>1, <4>2, OrderFacts DEF IsTask
    <3>4. set[y] = n
      <4>1. CASE y = n
        BY <4>1 DEF Orderly
      <4>2. CASE y # n /\ m = n
        BY <1>3, <3>3, <4>2, OrderFacts DEF IsTask
      <4>3. CASE y # n /\ m # n
        BY <1>3, <2>2, <3>3, <4>3 DEF Convex
      <4> QED  BY <4>1, <4>2, <4>3
    <3> QED  BY <1>2, <3>1, <3>4
  <2> QED  BY <2>1, <2>2
<1> QED  BY <1>3 DEF Convex, after

-----------------------------------------------------------------------------
(* What the passes do to a node.                                           *)

\* On a simple path, a node has at most one node below it; it goes to the node above, or
\* to where its only successor has gone.
LEMMA SimplePathMoves ==
    ASSUME NEW g, NEW tree, IsTask(g, tree), NEW set, NEW n \in g.node, OnSimplePath(g, n)
    PROVE  /\ Cardinality(Children(tree, n)) <= 1
           /\ \/ LumpSimplePath(g, tree, g.mapped, set, n) = Union(set, n, tree[n])
              \/ \E s : /\ Succs(g, n) = {s} /\ set[s] \in g.mapped
                        /\ LumpSimplePath(g, tree, g.mapped, set, n) = Union(set, n, set[s])
<1>1. PICK s : Succs(g, n) = {s}
  BY OneFacts, SuccsAreFinite DEF OnSimplePath, IsTask, IsNumbered
<1>2. Children(tree, n) \subseteq {s}
  BY <1>1, OnlyChild
<1>3. Cardinality(Children(tree, n)) <= 1
  <2>1. IsFiniteSet({s}) /\ Cardinality({s}) = 1
    BY FS_Singleton
  <2> QED  BY <1>2, <2>1, FS_Subset
<1> DEFINE below == {set[c] : c \in Children(tree, n)} \cap g.mapped
<1>4. CASE below = {}
  BY <1>3, <1>4 DEF LumpSimplePath, SimpleTarget
<1>5. CASE below # {}
  <2>1. below = {set[s]} /\ set[s] \in g.mapped
    BY <1>2, <1>5
  <2>2. TheOne(below) = set[s]
    <3> HIDE DEF below
    <3> QED  BY <2>1 DEF TheOne
  <2> QED  BY <1>1, <1>3, <1>5, <2>1, <2>2 DEF LumpSimplePath, SimpleTarget
<1> QED  BY <1>4, <1>5

\* A head goes to where its only successor has gone, if that is mapped.
LEMMA HeadMoves ==
    ASSUME NEW g, NEW tree, IsTask(g, tree), NEW set, NEW n \in g.node
    PROVE  \/ LumpHead(g, tree, g.mapped, set, n) = set
           \/ \E s : /\ Succs(g, n) = {s} /\ set[s] \in g.mapped
                     /\ LumpHead(g, tree, g.mapped, set, n) = Union(set, n, set[s])
<1> DEFINE down == {set[s] : s \in Succs(g, n)}
<1>1. SUFFICES ASSUME IsHead(g, tree, n), down \cap g.mapped # {}
               PROVE  \E s : /\ Succs(g, n) = {s} /\ set[s] \in g.mapped
                             /\ LumpHead(g, tree, g.mapped, set, n) = Union(set, n, set[s])
  BY DEF LumpHead
<1>2. PICK s : Succs(g, n) = {s}
  BY <1>1, OneFacts, SuccsAreFinite DEF IsHead, IsTask, IsNumbered
<1>3. down \cap g.mapped = {set[s]} /\ set[s] \in g.mapped
  BY <1>1, <1>2
<1>4. TheOne(down \cap g.mapped) = set[s]
  <2> DEFINE S == down \cap g.mapped
  <2> HIDE DEF S
  <2> QED  BY <1>3 DEF TheOne, S
<1>5. LumpHead(g, tree, g.mapped, set, n) = Union(set, n, TheOne(down \cap g.mapped))
  BY <1>1 DEF LumpHead
<1> QED  BY <1>2, <1>3, <1>4, <1>5

\* What is left goes to where the node above has gone, which is above, too.
LEMMA RestMoves ==
    ASSUME NEW g, NEW tree, IsTask(g, tree), NEW set, NEW gone, Goes(g, tree, set, gone),
           NEW n \in g.node \ (g.mapped \cup gone)
    PROVE  set[tree[n]] \in g.node \ (gone \cup {n}) /\ Dominates(g, set[tree[n]], n)
<1> DEFINE a == tree[n]
           t == set[a]
<1>1. a \in g.node \ {n} /\ Dominates(g, a, n) /\ a < n /\ n \in Children(tree, a)
  BY TaskFacts
<1>2. set[n] = n /\ t \in g.node \ gone
  BY <1>1 DEF Goes, Orderly
<1>3. Dominates(g, t, a)
  BY <1>1, <1>2 DEF Goes, DownIsLast
<1>4. Dominates(g, t, n)
  BY <1>1, <1>2, <1>3, OrderFacts DEF IsTask
<1>5. t # n
  BY <1>1, <1>2, <1>3, OrderFacts DEF IsTask
<1> QED  BY <1>2, <1>4, <1>5

-----------------------------------------------------------------------------
(* What the passes come to does not depend on the order of the nodes, as   *)
(* long as a node comes after those it dominates.                          *)

\* The simple paths, as far as the nodes of S go: those in down follow the node below, the
\* others the node above.
SimpleSoFar(g, tree, S, down, set) ==
    /\ set \in [g.node -> g.node] /\ down \subseteq S
    /\ \A n \in S : n \in down <=> /\ OnSimplePath(g, n)
                                   /\ Children(tree, n) \cap (g.mapped \cup down) # {}
    /\ \A n \in g.node : n \notin S \/ ~OnSimplePath(g, n) => set[n] = n
    /\ \A n \in down : \A c \in Children(tree, n) : set[n] = set[c]
    /\ \A n \in S \ down : OnSimplePath(g, n) => set[n] = set[tree[n]]
    /\ \A n \in g.mapped \cup down : set[n] \in g.mapped

LEMMA SimpleStarts ==
    ASSUME NEW g, NEW tree, IsTask(g, tree)
    PROVE  SimpleSoFar(g, tree, {}, {}, Unlumped(g))
BY DEF SimpleSoFar, Unlumped, IsTask

\* The node n comes next.
IsNext(g, tree, S, n) ==
    /\ S \subseteq g.node \ g.mapped /\ n \in g.node \ (g.mapped \cup S)
    /\ Children(tree, n) \ g.mapped \subseteq S
    /\ tree[n] \notin S

LEMMA SimpleGoesOn ==
    ASSUME NEW g, NEW tree, IsTask(g, tree), NEW S, NEW n, IsNext(g, tree, S, n),
           NEW down, NEW set, SimpleSoFar(g, tree, S, down, set)
    PROVE  \E also : SimpleSoFar(g, tree, S \cup {n}, also,
                                 LumpSimplePath(g, tree, g.mapped, set, n))
<1> DEFINE after == LumpSimplePath(g, tree, g.mapped, set, n)
           below == {set[c] : c \in Children(tree, n)} \cap g.mapped
<1>0. /\ S \subseteq g.node /\ n \in g.node \ (g.mapped \cup S)
      /\ tree[n] \in g.node \ {n} /\ tree[n] \notin S /\ g.mapped \subseteq g.node
      /\ Children(tree, n) \subseteq g.node /\ n \notin Children(tree, n)
      /\ Children(tree, n) \ g.mapped \subseteq S
  BY TaskFacts DEF IsNext, IsTask, Children, IsDominatorTree
<1>1. \A m \in S : n \notin Children(tree, m)
  BY <1>0 DEF Children
<1>2. /\ set \in [g.node -> g.node] /\ down \subseteq S
      /\ \A m \in S : m \in down <=> /\ OnSimplePath(g, m)
                                     /\ Children(tree, m) \cap (g.mapped \cup down) # {}
      /\ \A m \in g.node : m \notin S \/ ~OnSimplePath(g, m) => set[m] = m
      /\ \A m \in down : \A c \in Children(tree, m) : set[m] = set[c]
      /\ \A m \in S \ down : OnSimplePath(g, m) => set[m] = set[tree[m]]
      /\ \A m \in g.mapped \cup down : set[m] \in g.mapped
  BY DEF SimpleSoFar
<1>3. \A m \in S : /\ tree[m] \in g.node
                   /\ Children(tree, m) \subseteq g.node
  <2>1. \A m \in S : m \in g.node \ g.mapped
    BY DEF IsNext
  <2> QED  BY <2>1, TaskFacts DEF IsTask, Children, IsDominatorTree
<1>4. CASE ~OnSimplePath(g, n)
  <2>1. after = set
    BY <1>4 DEF LumpSimplePath
  <2>2. SimpleSoFar(g, tree, S \cup {n}, down, set)
    BY <1>0, <1>2, <1>4 DEF SimpleSoFar
  <2> QED  BY <2>1, <2>2
<1>5. CASE OnSimplePath(g, n) /\ Children(tree, n) \cap (g.mapped \cup down) # {}
  <2>1. PICK c : Children(tree, n) = {c} /\ c \in g.mapped \cup down
    <3>1. PICK s : Succs(g, n) = {s}
      BY <1>0, <1>5, OneFacts, SuccsAreFinite DEF OnSimplePath, IsTask, IsNumbered
    <3>2. Children(tree, n) \subseteq {s}
      BY <1>0, <3>1, OnlyChild
    <3> QED  BY <1>5, <3>2
  <2>2. c \in g.node \ {n} /\ set[c] \in g.mapped
    BY <1>0, <1>2, <2>1
  <2>3. below = {set[c]}
    BY <2>1, <2>2
  <2>4. TheOne(below) = set[c] /\ below # {}
    <3> HIDE DEF below
    <3> QED  BY <2>3 DEF TheOne
  <2>5. after = Union(set, n, set[c])
    BY <1>5, <2>4 DEF LumpSimplePath, SimpleTarget
  <2>6. /\ after \in [g.node -> g.node]
        /\ \A m \in g.node : after[m] = IF set[m] = n THEN set[c] ELSE set[m]
    <3>1. set[c] \in g.node
      BY <1>0, <2>2
    <3> HIDE DEF after
    <3> QED  BY <1>2, <2>5, <3>1, UnionFacts
  <2> HIDE DEF after, below
  <2> DEFINE also == down \cup {n}
             T == S \cup {n}
  <2>7. \A m \in T : m \in also <=> /\ OnSimplePath(g, m)
                                    /\ Children(tree, m) \cap (g.mapped \cup also) # {}
    <3>1. ASSUME NEW m \in S
          PROVE  /\ m \in also <=> m \in down
                 /\ Children(tree, m) \cap (g.mapped \cup also)
                      = Children(tree, m) \cap (g.mapped \cup down)
      BY <1>0, <1>1
    <3>2. n \in also /\ Children(tree, n) \cap (g.mapped \cup also) # {}
      BY <1>5
    <3> HIDE DEF also
    <3> QED  BY <1>2, <1>5, <3>1, <3>2
  <2>8. \A m \in g.node : m \notin T \/ ~OnSimplePath(g, m) => after[m] = m
    BY <1>2, <1>5, <2>6
  <2>9. \A m \in also : \A d \in Children(tree, m) : after[m] = after[d]
    <3>1. ASSUME NEW m \in down, NEW d \in Children(tree, m) PROVE after[m] = after[d]
      <4>1. m \in g.node /\ d \in g.node
        BY <1>0, <1>2, <1>3
      <4>2. set[m] = set[d]
        BY <1>2
      <4> QED  BY <2>6, <4>1, <4>2
    <3>2. after[n] = after[c]
      <4>1. set[n] = n /\ set[c] # n
        BY <1>0, <1>2, <2>2
      <4> QED  BY <1>0, <2>2, <2>6, <4>1
    <3> QED  BY <2>1, <3>1, <3>2
  <2>10. \A m \in T \ also : OnSimplePath(g, m) => after[m] = after[tree[m]]
    <3>1. ASSUME NEW m \in S \ down, OnSimplePath(g, m) PROVE after[m] = after[tree[m]]
      <4>1. m \in g.node /\ tree[m] \in g.node
        BY <1>0, <1>3
      <4>2. set[m] = set[tree[m]]
        BY <1>2, <3>1
      <4> QED  BY <2>6, <4>1, <4>2
    <3> QED  BY <3>1
  <2>11. \A m \in g.mapped \cup also : after[m] \in g.mapped
    <3>1. ASSUME NEW m \in g.mapped \cup down PROVE after[m] \in g.mapped
      <4>1. m \in g.node /\ set[m] \in g.mapped
        BY <1>0, <1>2
      <4> QED  BY <1>0, <2>2, <2>6, <4>1
    <3>2. after[n] \in g.mapped
      BY <1>0, <1>2, <2>2, <2>6
    <3> QED  BY <3>1, <3>2
  <2>12. SimpleSoFar(g, tree, T, also, after)
    <3>1. also \subseteq T
      BY <1>2
    <3> HIDE DEF also, T
    <3> QED  BY <2>6, <2>7, <2>8, <2>9, <2>10, <2>11, <3>1 DEF SimpleSoFar
  <2> QED  BY <2>12 DEF after
<1>6. CASE OnSimplePath(g, n) /\ Children(tree, n) \cap (g.mapped \cup down) = {}
  <2>1. ASSUME NEW c \in Children(tree, n) PROVE set[c] \notin g.mapped
    <3>1. c \in S \ down /\ tree[c] = n /\ c \in g.node
      BY <1>0, <1>6 DEF Children
    <3>2. set[n] = n
      BY <1>0, <1>2
    <3> QED  BY <1>0, <1>2, <1>6, <3>1, <3>2
  <2>2. below = {}
    BY <2>1
  <2>3. after = Union(set, n, tree[n])
    BY <1>6, <2>2 DEF LumpSimplePath, SimpleTarget
  <2>4. /\ after \in [g.node -> g.node]
        /\ \A m \in g.node : after[m] = IF set[m] = n THEN tree[n] ELSE set[m]
    <3> HIDE DEF after
    <3> QED  BY <1>0, <1>2, <2>3, UnionFacts
  <2> HIDE DEF after, below
  <2> DEFINE T == S \cup {n}
  <2>5. \A m \in T : m \in down <=> /\ OnSimplePath(g, m)
                                    /\ Children(tree, m) \cap (g.mapped \cup down) # {}
    BY <1>0, <1>2, <1>6
  <2>6. \A m \in g.node : m \notin T \/ ~OnSimplePath(g, m) => after[m] = m
    BY <1>2, <1>6, <2>4
  <2>7. ASSUME NEW m \in down, NEW d \in Children(tree, m) PROVE after[m] = after[d]
    <3>1. m \in g.node /\ d \in g.node
      BY <1>0, <1>2, <1>3
    <3>2. set[m] = set[d]
      BY <1>2
    <3> QED  BY <2>4, <3>1, <3>2
  <2>8. \A m \in T \ down : OnSimplePath(g, m) => after[m] = after[tree[m]]
    <3>1. ASSUME NEW m \in S \ down, OnSimplePath(g, m) PROVE after[m] = after[tree[m]]
      <4>1. m \in g.node /\ tree[m] \in g.node
        BY <1>0, <1>3
      <4>2. set[m] = set[tree[m]]
        BY <1>2, <3>1
      <4> QED  BY <2>4, <4>1, <4>2
    <3>2. after[n] = after[tree[n]]
      <4>1. set[n] = n /\ set[tree[n]] = tree[n]
        BY <1>0, <1>2
      <4> QED  BY <1>0, <2>4, <4>1
    <3> QED  BY <3>1, <3>2
  <2>9. \A m \in g.mapped \cup down : after[m] \in g.mapped
    <3>1. ASSUME NEW m \in g.mapped \cup down PROVE after[m] \in g.mapped
      <4>1. m \in g.node /\ set[m] \in g.mapped
        BY <1>0, <1>2
      <4> QED  BY <1>0, <2>4, <4>1
    <3> QED  BY <3>1
  <2>10. SimpleSoFar(g, tree, T, down, after)
    <3>1. down \subseteq T
      BY <1>2
    <3> HIDE DEF T
    <3> QED  BY <2>4, <2>5, <2>6, <2>7, <2>8, <2>9, <3>1 DEF SimpleSoFar
  <2> QED  BY <2>10 DEF after
<1> QED  BY <1>4, <1>5, <1>6

\* Children have higher numbers.
LEMMA NumbersOfChildren ==
    ASSUME NEW g, NEW tree, IsTask(g, tree), NEW n \in g.node, NEW c \in Children(tree, n)
    PROVE  c \in g.node /\ n \in Nat /\ c \in Nat /\ n < c
<1>1. c \in g.node \ {g.entry} /\ tree[c] = n /\ n # c /\ Dominates(g, n, c)
  BY DEF Children, IsTask, IsDominatorTree
<1>2. n <= c /\ n \in Nat /\ c \in Nat
  BY <1>1 DEF IsTask, IsNumbered
<1> QED  BY <1>1, <1>2

\* Functions that agree wherever they agree on all lower numbers.
LEMMA AgreeFromBelow ==
    ASSUME NEW N \in SUBSET Nat, NEW f, NEW h,
           \A n \in N : (\A m \in N : m < n => f[m] = h[m]) => f[n] = h[n]
    PROVE  \A n \in N : f[n] = h[n]
<1> DEFINE B == {n \in N : f[n] # h[n]}
           self == [n \in N |-> n]
<1>1. SUFFICES ASSUME B # {} PROVE FALSE
  OBVIOUS
<1>2. PICK x \in B : \A y \in B : self[x] <= self[y]
  <2>1. B \in SUBSET N /\ self \in [N -> Nat]
    OBVIOUS
  <2> HIDE DEF B, self
  <2> QED  BY <1>1, <2>1, LeastByValue
<1>3. ASSUME NEW m \in N, m < x PROVE f[m] = h[m]
  <2>1. SUFFICES ASSUME m \in B PROVE FALSE
    OBVIOUS
  <2>2. x <= m /\ x \in Nat /\ m \in Nat
    BY <1>2, <2>1
  <2> QED  BY <1>3, <2>2
<1> QED  BY <1>3

\* When all nodes have been taken, there is one outcome.
LEMMA SimpleIsUnique ==
    ASSUME NEW g, NEW tree, IsTask(g, tree),
           NEW d1, NEW f1, SimpleSoFar(g, tree, g.node \ g.mapped, d1, f1),
           NEW d2, NEW f2, SimpleSoFar(g, tree, g.node \ g.mapped, d2, f2)
    PROVE  f1 = f2
<1> DEFINE S == g.node \ g.mapped
<1>0. /\ g.node \in SUBSET Nat /\ IsFiniteSet(g.node) /\ g.mapped \subseteq g.node
      /\ f1 \in [g.node -> g.node] /\ f2 \in [g.node -> g.node] /\ d1 \subseteq S /\ d2 \subseteq S
  BY DEF SimpleSoFar, IsTask, IsNumbered, IsRooted
<1>1. d1 = d2
  <2> DEFINE G == {n \in g.node : n \in d1 <=> n \in d2}
  <2>1. ASSUME NEW n \in g.node, \A m \in g.node : m > n => m \in G PROVE n \in G
    <3>1. ASSUME NEW c \in Children(tree, n) PROVE c \in d1 <=> c \in d2
      BY <2>1, NumbersOfChildren
    <3>2. Children(tree, n) \cap (g.mapped \cup d1) = Children(tree, n) \cap (g.mapped \cup d2)
      BY <3>1
    <3>3. CASE n \in S
      BY <3>2, <3>3 DEF SimpleSoFar
    <3>4. CASE n \notin S
      BY <1>0, <3>4
    <3> QED  BY <3>3, <3>4
  <2>2. G = g.node
    <3>1. G \in SUBSET g.node
      OBVIOUS
    <3> HIDE DEF G
    <3> QED  BY <1>0, <2>1, <3>1, InductionDown
  <2> QED  BY <1>0, <2>2
<1>2. \A n \in g.mapped \cup d1 : f1[n] = f2[n]
  <2> DEFINE G == {n \in g.node : n \in g.mapped \cup d1 => f1[n] = f2[n]}
  <2>1. ASSUME NEW n \in g.node, \A m \in g.node : m > n => m \in G PROVE n \in G
    <3>1. CASE n \in g.mapped
      BY <3>1 DEF SimpleSoFar
    <3>2. CASE n \in d1
      <4>1. n \in S /\ n \in d2
        BY <1>0, <1>1, <3>2
      <4>2. PICK c \in Children(tree, n) : c \in g.mapped \cup d1
        BY <3>2, <4>1 DEF SimpleSoFar
      <4>3. f1[n] = f1[c] /\ f2[n] = f2[c]
        BY <3>2, <4>1 DEF SimpleSoFar
      <4>4. f1[c] = f2[c]
        BY <2>1, <4>2, NumbersOfChildren
      <4> QED  BY <4>3, <4>4
    <3> QED  BY <3>1, <3>2
  <2>2. G = g.node
    <3>1. G \in SUBSET g.node
      OBVIOUS
    <3> HIDE DEF G
    <3> QED  BY <1>0, <2>1, <3>1, InductionDown
  <2> QED  BY <1>0, <2>2
<1>3. ASSUME NEW n \in S \ d1, \A m \in g.node : m < n => f1[m] = f2[m] PROVE f1[n] = f2[n]
  <2>1. n \in S \ d2
    BY <1>1
  <2>2. tree[n] \in g.node /\ tree[n] < n
    BY TaskFacts
  <2>3. CASE ~OnSimplePath(g, n)
    BY <2>3 DEF SimpleSoFar
  <2>4. CASE OnSimplePath(g, n)
    <3>1. f1[n] = f1[tree[n]] /\ f2[n] = f2[tree[n]]
      BY <2>1, <2>4 DEF SimpleSoFar
    <3> QED  BY <1>3, <2>2, <3>1
  <2> QED  BY <2>3, <2>4
<1>4. \A n \in g.node : f1[n] = f2[n]
  <2>1. \A n \in g.node : (\A m \in g.node : m < n => f1[m] = f2[m]) => f1[n] = f2[n]
    BY <1>2, <1>3
  <2> QED  BY <1>0, <2>1, AgreeFromBelow
<1> QED  BY <1>0, <1>4

\* What heads and simple paths leave, as far as the nodes of S go: those follow the node
\* above, wherever it has gone, and take along what is in their sets.
RestSoFar(g, tree, start, rest, S, set) ==
    /\ set \in [g.node -> g.node]
    /\ \A n \in g.mapped \cup (rest \ S) : set[n] = n
    /\ \A n \in g.node : set[n] = set[start[n]]
    /\ \A n \in S : set[n] = set[tree[n]]

\* What they leave.
IsRest(g, start, rest) ==
    /\ start \in [g.node -> g.node] /\ rest \subseteq g.node \ g.mapped
    /\ \A n \in g.mapped \cup rest : start[n] = n
    /\ \A n \in g.node : \/ start[n] \in g.mapped
                         \/ start[n] \in rest /\ Dominates(g, start[n], n)

LEMMA RestStarts ==
    ASSUME NEW g, NEW tree, IsTask(g, tree), NEW start, NEW rest, IsRest(g, start, rest)
    PROVE  RestSoFar(g, tree, start, rest, {}, start)
<1>1. \A n \in g.node : start[n] \in g.mapped \cup rest
  BY DEF IsRest
<1> QED  BY <1>1 DEF RestSoFar, IsRest

LEMMA RestGoesOn ==
    ASSUME NEW g, NEW tree, IsTask(g, tree), NEW start, NEW rest, IsRest(g, start, rest),
           NEW S \in SUBSET rest, NEW n \in rest \ S, \A d \in S : ~Dominates(g, d, n),
           NEW set, RestSoFar(g, tree, start, rest, S, set)
    PROVE  RestSoFar(g, tree, start, rest, S \cup {n}, LumpUp(tree, set, n))
<1> DEFINE t == set[tree[n]]
           x == start[tree[n]]
           after == LumpUp(tree, set, n)
<1>1. /\ n \in g.node \ g.mapped /\ rest \subseteq g.node /\ g.mapped \subseteq g.node
      /\ set \in [g.node -> g.node] /\ start \in [g.node -> g.node]
  BY DEF IsRest, RestSoFar, IsTask
<1>2. tree[n] \in g.node \ {n} /\ Dominates(g, tree[n], n)
  BY <1>1, TaskFacts
<1>3. set[n] = n
  BY DEF RestSoFar
<1>4. t = x /\ x # n
  <2>1. t = set[x]
    BY <1>2 DEF RestSoFar
  <2>2. CASE x \in g.mapped
    BY <1>1, <2>1, <2>2 DEF RestSoFar
  <2>3. CASE x \in rest /\ Dominates(g, x, tree[n])
    <3>1. Dominates(g, x, n) /\ x # n /\ x \in g.node
      BY <1>1, <1>2, <2>3, OrderFacts DEF IsTask
    <3>2. x \in rest \ S
      BY <2>3, <3>1
    <3>3. set[x] = x
      BY <3>2 DEF RestSoFar
    <3> QED  BY <2>1, <3>1, <3>3
  <2> QED  BY <1>2, <2>2, <2>3 DEF IsRest
<1>5. /\ after \in [g.node -> g.node]
      /\ \A m \in g.node : after[m] = IF set[m] = n THEN t ELSE set[m]
  <2>1. after = Union(set, n, t) /\ t \in g.node
    BY <1>1, <1>2 DEF LumpUp
  <2> HIDE DEF after, t
  <2> QED  BY <1>1, <2>1, UnionFacts
<1>6. after[n] = t /\ after[tree[n]] = t
  BY <1>1, <1>2, <1>3, <1>4, <1>5
<1> HIDE DEF after, t, x
<1>7. ASSUME NEW m \in g.mapped \cup (rest \ (S \cup {n})) PROVE after[m] = m
  <2>1. m \in g.node \ {n} /\ set[m] = m
    BY <1>1 DEF RestSoFar
  <2> QED  BY <1>5, <2>1
<1>8. ASSUME NEW m \in g.node PROVE after[m] = after[start[m]]
  <2>1. set[m] = set[start[m]] /\ start[m] \in g.node
    BY <1>1 DEF RestSoFar
  <2> QED  BY <1>5, <2>1
<1>9. ASSUME NEW m \in S PROVE after[m] = after[tree[m]]
  <2>1. m \in g.node \ g.mapped
    BY DEF IsRest
  <2>2. set[m] = set[tree[m]] /\ tree[m] \in g.node
    BY <2>1, TaskFacts DEF RestSoFar
  <2> QED  BY <1>5, <2>1, <2>2
<1>10. RestSoFar(g, tree, start, rest, S \cup {n}, after)
  BY <1>5, <1>6, <1>7, <1>8, <1>9 DEF RestSoFar
<1> QED  BY <1>10 DEF after

\* Again, there is one outcome.
LEMMA RestIsUnique ==
    ASSUME NEW g, NEW tree, IsTask(g, tree), NEW start, NEW rest, IsRest(g, start, rest),
           NEW f1, RestSoFar(g, tree, start, rest, rest, f1),
           NEW f2, RestSoFar(g, tree, start, rest, rest, f2)
    PROVE  f1 = f2
<1>0. /\ g.node \in SUBSET Nat /\ rest \subseteq g.node \ g.mapped
      /\ f1 \in [g.node -> g.node] /\ f2 \in [g.node -> g.node]
  BY DEF RestSoFar, IsRest, IsTask, IsNumbered
<1>1. ASSUME NEW n \in g.node, \A m \in g.node : m < n => f1[m] = f2[m] PROVE f1[n] = f2[n]
  <2>1. CASE n \in g.mapped
    BY <2>1 DEF RestSoFar
  <2>2. CASE n \in rest
    <3>1. f1[n] = f1[tree[n]] /\ f2[n] = f2[tree[n]]
      BY <2>2 DEF RestSoFar
    <3>2. tree[n] \in g.node /\ tree[n] < n
      BY <1>0, <2>2, TaskFacts
    <3> QED  BY <1>1, <3>1, <3>2
  <2>3. CASE n \notin g.mapped \cup rest
    <3>1. f1[n] = f1[start[n]] /\ f2[n] = f2[start[n]]
      BY DEF RestSoFar
    <3>2. CASE start[n] \in g.mapped
      BY <3>1, <3>2 DEF RestSoFar
    <3>3. CASE start[n] \in rest /\ Dominates(g, start[n], n)
      <4>1. start[n] \in g.node /\ start[n] # n
        BY <1>0, <2>3, <3>3
      <4>2. start[n] <= n /\ start[n] \in Nat /\ n \in Nat
        BY <1>0, <3>3, <4>1 DEF IsTask, IsNumbered
      <4>3. start[n] < n
        BY <4>1, <4>2
      <4> QED  BY <1>1, <3>1, <4>1, <4>3
    <3> QED  BY <3>2, <3>3 DEF IsRest
  <2> QED  BY <2>1, <2>2, <2>3
<1>2. \A n \in g.node : f1[n] = f2[n]
  BY <1>0, <1>1, AgreeFromBelow
<1> QED  BY <1>0, <1>2

-----------------------------------------------------------------------------
(* The passes of Completions.                                              *)

\* A node comes after all it dominates in depth, too.
LEMMA TopmostFacts ==
    ASSUME NEW g, NEW tree, IsTask(g, tree), NEW S \in SUBSET (g.node \ g.mapped), S # {}
    PROVE  /\ Topmost(Depth(g), S) \in S
           /\ \A d \in S \ {Topmost(Depth(g), S)} : ~Dominates(g, d, Topmost(Depth(g), S))
<1> DEFINE depth == Depth(g)
           n == Topmost(depth, S)
<1>0. IsRooted(g) /\ ReachableNodes(g) = g.node
  BY DEF IsTask, IsNumbered
<1>1. S \in SUBSET g.node /\ depth \in [g.node -> Nat] /\ g.node \in SUBSET Nat
  BY <1>0, DepthOfDominators DEF IsTask, IsNumbered, Depth
<1>2. \E x \in S : \A m \in S : depth[x] < depth[m] \/ (depth[x] = depth[m] /\ x <= m)
  <2> HIDE DEF depth
  <2> QED  BY <1>1, LeastByValueAndNumber
<1>3. n \in S /\ \A m \in S : depth[n] < depth[m] \/ (depth[n] = depth[m] /\ n <= m)
  <2> HIDE DEF depth
  <2> QED  BY <1>2 DEF Topmost
<1> HIDE DEF n
<1>4. ASSUME NEW d \in S \ {n}, Dominates(g, d, n) PROVE FALSE
  <2>1. depth[d] < depth[n]
    BY <1>0, <1>1, <1>3, <1>4, DepthOfDominators DEF Depth
  <2>2. depth[d] \in Nat /\ depth[n] \in Nat
    BY <1>1, <1>3
  <2> QED  BY <1>3, <2>1, <2>2
<1> QED  BY <1>3, <1>4 DEF n

LEMMA SimplePassFacts ==
    ASSUME NEW g, NEW tree, IsTask(g, tree)
    PROVE  \E down : SimpleSoFar(g, tree, g.node \ g.mapped, down,
                                 SimplePass(g, tree, Depth(g), g.mapped)[g.node \ g.mapped])
<1> DEFINE U == g.node \ g.mapped
           V == [g.node -> g.node]
           step == [p \in V \X U |-> LumpSimplePath(g, tree, g.mapped, p[1], p[2])]
           last == [S \in SUBSET U |-> Topmost(Depth(g), S)]
           Is(f) == f = [S \in SUBSET U |->
                            IF S = {} THEN Unlumped(g)
                            ELSE LumpSimplePath(g, tree, g.mapped, f[S \ {Topmost(Depth(g), S)}],
                                                Topmost(Depth(g), S))]
           pass_ == CHOOSE f : Is(f)
<1>1. IsFiniteSet(U) /\ g.mapped \subseteq g.node
  BY FS_Subset DEF IsTask, IsNumbered, IsRooted
<1>2. Unlumped(g) \in V
  BY DEF Unlumped
<1>3. ASSUME NEW S \in SUBSET U, S # {}
      PROVE  /\ Topmost(Depth(g), S) \in S
             /\ \A d \in S \ {Topmost(Depth(g), S)} : ~Dominates(g, d, Topmost(Depth(g), S))
  BY <1>3, TopmostFacts
<1>4. step \in [V \X U -> V]
  <2>1. ASSUME NEW set \in V, NEW n \in U PROVE LumpSimplePath(g, tree, g.mapped, set, n) \in V
    <3>1. tree[n] \in g.node
      BY TaskFacts
    <3>2. \A t \in g.node : Union(set, n, t) \in V
      BY UnionFacts
    <3>3. CASE ~OnSimplePath(g, n)
      BY <3>3 DEF LumpSimplePath
    <3>4. CASE OnSimplePath(g, n)
      BY <1>1, <3>1, <3>2, <3>4, SimplePathMoves
    <3> QED  BY <3>3, <3>4
  <2> QED  BY <2>1
<1>5. \E f \in [SUBSET U -> V] : Is(f)
  <2>1. PICK f \in [SUBSET U -> V] : IsSetFold(f, U, Unlumped(g), last, step)
    <3>1. \A S \in SUBSET U : S # {} => last[S] \in S
      BY <1>3
    <3> HIDE DEF V, U, step, last
    <3> QED  BY <1>1, <1>2, <1>4, <3>1, SetFold
  <2>2. ASSUME NEW S \in SUBSET U, S # {}
        PROVE  step[<<f[S \ {last[S]}], last[S]>>]
                 = LumpSimplePath(g, tree, g.mapped, f[S \ {Topmost(Depth(g), S)}], Topmost(Depth(g), S))
    <3>1. last[S] = Topmost(Depth(g), S) /\ last[S] \in U
      BY <1>3, <2>2
    <3>2. f[S \ {last[S]}] \in V
      OBVIOUS
    <3> HIDE DEF V, U, last
    <3> QED  BY <3>1, <3>2
  <2> HIDE DEF step, last
  <2> QED  BY <2>1, <2>2 DEF IsSetFold
<1>6. Is(pass_)
  <2> HIDE DEF Is
  <2> QED  BY <1>5
<1>7. SimplePass(g, tree, Depth(g), g.mapped) = pass_
  BY DEF SimplePass
<1> HIDE DEF pass_, step, last
<1> DEFINE Closed(S) == \A m \in S : Children(tree, m) \ g.mapped \subseteq S
           G == {S \in SUBSET U :
                    Closed(S) => \E down : SimpleSoFar(g, tree, S, down, pass_[S])}
<1>8. ASSUME NEW S \in SUBSET U, \A x \in S : S \ {x} \in G, Closed(S)
      PROVE  \E down : SimpleSoFar(g, tree, S, down, pass_[S])
  <2>1. CASE S = {}
    <3>1. pass_[S] = Unlumped(g)
      BY <1>6, <2>1
    <3> QED  BY <2>1, <3>1, SimpleStarts
  <2>2. CASE S # {}
    <3> DEFINE n == Topmost(Depth(g), S)
               T == S \ {n}
    <3>1. n \in S /\ \A d \in T : ~Dominates(g, d, n)
      BY <1>3, <2>2
    <3>2. pass_[S] = LumpSimplePath(g, tree, g.mapped, pass_[T], n)
      BY <1>6, <2>2
    <3> HIDE DEF n
    <3>3. n \in U /\ tree[n] \in g.node \ {n} /\ Dominates(g, tree[n], n)
      BY <3>1, TaskFacts
    <3>4. Children(tree, n) \ g.mapped \subseteq T
      BY <1>8, <3>1, <3>3 DEF Children
    <3>5. IsNext(g, tree, T, n)
      BY <3>1, <3>3, <3>4 DEF IsNext
    <3>6. Closed(T)
      <4>1. ASSUME NEW m \in T, NEW c \in Children(tree, m) \ g.mapped PROVE c \in T
        <5>1. c \in S
          BY <1>8
        <5>2. c # n
          BY <3>1, <3>3 DEF Children
        <5> QED  BY <5>1, <5>2
      <4> QED  BY <4>1
    <3>7. PICK down : SimpleSoFar(g, tree, T, down, pass_[T])
      BY <1>8, <3>1, <3>6
    <3>8. \E also : SimpleSoFar(g, tree, T \cup {n}, also,
                                LumpSimplePath(g, tree, g.mapped, pass_[T], n))
      <4> HIDE DEF T
      <4> QED  BY <3>5, <3>7, SimpleGoesOn
    <3>9. T \cup {n} = S
      BY <3>1
    <3> QED  BY <3>2, <3>8, <3>9
  <2> QED  BY <2>1, <2>2
<1>9. \A S \in SUBSET U : S \in G
  <2>1. \A S \in SUBSET U : (\A x \in S : S \ {x} \in G) => S \in G
    <3>1. \A S \in SUBSET U : S \in G <=>
              (Closed(S) => \E down : SimpleSoFar(g, tree, S, down, pass_[S]))
      OBVIOUS
    <3> HIDE DEF G, Closed
    <3> QED  BY <1>8, <3>1
  <2> HIDE DEF G
  <2> QED  BY <1>1, <2>1, SetInduction
<1>10. Closed(U)
  BY DEF IsTask, IsDominatorTree, Children
<1>11. \E down : SimpleSoFar(g, tree, U, down, pass_[U])
  BY <1>9, <1>10
<1> QED  BY <1>7, <1>11

LEMMA HeadStays ==
    ASSUME NEW g, NEW tree, IsTask(g, tree), NEW set \in [g.node -> g.node], NEW n \in g.node
    PROVE  LumpHead(g, tree, g.mapped, set, n) \in [g.node -> g.node]
<1> DEFINE T == {set[s] : s \in Succs(g, n)} \cap g.mapped
<1>1. LumpHead(g, tree, g.mapped, set, n)
        = IF IsHead(g, tree, n) /\ T # {} THEN Union(set, n, TheOne(T)) ELSE set
  BY DEF LumpHead
<1>2. T \subseteq g.node
  BY DEF IsTask
<1> HIDE DEF T
<1>3. T # {} => TheOne(T) \in g.node
  BY <1>2 DEF TheOne
<1>4. T # {} => Union(set, n, TheOne(T)) \in [g.node -> g.node]
  BY <1>3, UnionFacts
<1> QED  BY <1>1, <1>4

\* heads takes the heads that have been looked at to all that may have become of start.
IsHeadPass(g, tree, start, tops, heads) ==
    /\ heads[{}] = {start}
    /\ \A S \in SUBSET tops : \A n \in S : \A set \in heads[S \ {n}] :
          LumpHead(g, tree, g.mapped, set, n) \in heads[S]

LEMMA HeadPassFacts ==
    ASSUME NEW g, NEW tree, IsTask(g, tree), NEW start \in [g.node -> g.node],
           NEW tops \in SUBSET (g.node \ g.mapped)
    PROVE  IsHeadPass(g, tree, start, tops, HeadPass(g, tree, g.mapped, start, tops))
<1> DEFINE W == [g.node -> g.node]
           step == [p \in W \X tops |-> LumpHead(g, tree, g.mapped, p[1], p[2])]
           One(f, S, n) == {LumpHead(g, tree, g.mapped, l, n) : l \in f[S \ {n}]}
           All(f, S) == UNION {One(f, S, n) : n \in S}
           Is(f) == f = [S \in SUBSET tops |-> IF S = {} THEN {start} ELSE All(f, S)]
           heads == CHOOSE f : Is(f)
<1>1. IsFiniteSet(tops) /\ tops \subseteq g.node /\ g.mapped \subseteq g.node
  <2>1. tops \in SUBSET g.node
    OBVIOUS
  <2> QED  BY <2>1, FS_Subset DEF IsTask, IsNumbered, IsRooted
<1>2. step \in [W \X tops -> W]
  <2>1. ASSUME NEW set \in W, NEW n \in tops PROVE LumpHead(g, tree, g.mapped, set, n) \in W
    BY <1>1, HeadStays
  <2> QED  BY <2>1
<1>3. {start} \in SUBSET W
  OBVIOUS
<1>4. \E f \in [SUBSET tops -> SUBSET W] : Is(f)
  <2> DEFINE One2(f, S, n) == {step[<<l, n>>] : l \in f[S \ {n}]}
             All2(f, S) == UNION {One2(f, S, n) : n \in S}
  <2>1. PICK f \in [SUBSET tops -> SUBSET W] : IsSetFoldAll(f, tops, {start}, step)
    <3> HIDE DEF W, step
    <3> QED  BY <1>1, <1>2, <1>3, SetFoldAll
  <2>2. ASSUME NEW S \in SUBSET tops PROVE All2(f, S) = All(f, S)
    <3>1. ASSUME NEW n \in S PROVE One2(f, S, n) = One(f, S, n)
      <4>1. f[S \ {n}] \subseteq W /\ n \in tops
        <5> HIDE DEF W
        <5> QED  OBVIOUS
      <4>2. \A l \in f[S \ {n}] : step[<<l, n>>] = LumpHead(g, tree, g.mapped, l, n)
        <5> HIDE DEF W
        <5> QED  BY <4>1
      <4> HIDE DEF step
      <4> QED  BY <4>2
    <3> HIDE DEF One, One2
    <3> QED  BY <3>1
  <2>3. f = [S \in SUBSET tops |-> IF S = {} THEN {start} ELSE All2(f, S)]
    <3> HIDE DEF W, step
    <3> QED  BY <2>1 DEF IsSetFoldAll
  <2>4. Is(f)
    <3> HIDE DEF All, All2, W
    <3> QED  BY <2>2, <2>3
  <2> HIDE DEF Is
  <2> QED  BY <2>4
<1>5. Is(heads)
  <2> HIDE DEF Is
  <2> QED  BY <1>4
<1>6. HeadPass(g, tree, g.mapped, start, tops) = heads
  BY DEF HeadPass
<1>7. \A S \in SUBSET tops : heads[S] = IF S = {} THEN {start} ELSE All(heads, S)
  <2> HIDE DEF heads, All
  <2> QED  BY <1>5
<1> HIDE DEF heads
<1>8. heads[{}] = {start}
  BY <1>7
<1>9. ASSUME NEW S \in SUBSET tops, NEW n \in S, NEW set \in heads[S \ {n}]
      PROVE  LumpHead(g, tree, g.mapped, set, n) \in heads[S]
  <2>1. LumpHead(g, tree, g.mapped, set, n) \in One(heads, S, n)
    OBVIOUS
  <2>2. heads[S] = All(heads, S)
    BY <1>7
  <2> HIDE DEF One
  <2> QED  BY <2>1, <2>2
<1> QED  BY <1>6, <1>8, <1>9 DEF IsHeadPass

LEMMA LastPassFacts ==
    ASSUME NEW g, NEW tree, IsTask(g, tree), NEW start, NEW rest, IsRest(g, start, rest)
    PROVE  RestSoFar(g, tree, start, rest, rest, LastPass(tree, Depth(g), start, rest)[rest])
<1> DEFINE V == [g.node -> g.node]
           step == [p \in V \X rest |-> LumpUp(tree, p[1], p[2])]
           last == [S \in SUBSET rest |-> Topmost(Depth(g), S)]
           Is(f) == f = [S \in SUBSET rest |->
                            IF S = {} THEN start
                            ELSE LumpUp(tree, f[S \ {Topmost(Depth(g), S)}], Topmost(Depth(g), S))]
           pass_ == CHOOSE f : Is(f)
<1>1. /\ IsFiniteSet(rest) /\ rest \subseteq g.node \ g.mapped /\ start \in V
  <2>1. rest \in SUBSET g.node /\ rest \subseteq g.node \ g.mapped /\ start \in V
    BY DEF IsRest
  <2> QED  BY <2>1, FS_Subset DEF IsTask, IsNumbered, IsRooted
<1>2. ASSUME NEW S \in SUBSET rest, S # {}
      PROVE  /\ Topmost(Depth(g), S) \in S
             /\ \A d \in S \ {Topmost(Depth(g), S)} : ~Dominates(g, d, Topmost(Depth(g), S))
  BY <1>1, <1>2, TopmostFacts
<1>3. step \in [V \X rest -> V]
  <2>1. ASSUME NEW set \in V, NEW n \in rest PROVE LumpUp(tree, set, n) \in V
    <3>1. set[tree[n]] \in g.node
      BY <1>1, TaskFacts
    <3> QED  BY <3>1, UnionFacts DEF LumpUp
  <2> QED  BY <2>1
<1>4. \E f \in [SUBSET rest -> V] : Is(f)
  <2>1. PICK f \in [SUBSET rest -> V] : IsSetFold(f, rest, start, last, step)
    <3>1. \A S \in SUBSET rest : S # {} => last[S] \in S
      BY <1>2
    <3> HIDE DEF V, step, last
    <3> QED  BY <1>1, <1>3, <3>1, SetFold
  <2>2. ASSUME NEW S \in SUBSET rest, S # {}
        PROVE  step[<<f[S \ {last[S]}], last[S]>>]
                 = LumpUp(tree, f[S \ {Topmost(Depth(g), S)}], Topmost(Depth(g), S))
    <3>1. last[S] = Topmost(Depth(g), S) /\ last[S] \in rest
      BY <1>2, <2>2
    <3>2. f[S \ {last[S]}] \in V
      OBVIOUS
    <3> HIDE DEF V, last
    <3> QED  BY <3>1, <3>2
  <2> HIDE DEF step, last
  <2> QED  BY <2>1, <2>2 DEF IsSetFold
<1>5. Is(pass_)
  <2> HIDE DEF Is
  <2> QED  BY <1>4
<1>6. LastPass(tree, Depth(g), start, rest) = pass_
  BY DEF LastPass
<1> HIDE DEF pass_, step, last
<1> DEFINE G == {S \in SUBSET rest : RestSoFar(g, tree, start, rest, S, pass_[S])}
<1>7. ASSUME NEW S \in SUBSET rest, \A x \in S : S \ {x} \in G PROVE S \in G
  <2>1. CASE S = {}
    <3>1. pass_[S] = start
      BY <1>5, <2>1
    <3> QED  BY <2>1, <3>1, RestStarts
  <2>2. CASE S # {}
    <3> DEFINE n == Topmost(Depth(g), S)
               T == S \ {n}
    <3>1. n \in S /\ \A d \in T : ~Dominates(g, d, n)
      BY <1>2, <2>2
    <3>2. pass_[S] = LumpUp(tree, pass_[T], n)
      BY <1>5, <2>2
    <3> HIDE DEF n
    <3>3. RestSoFar(g, tree, start, rest, T, pass_[T])
      BY <1>7, <3>1
    <3>4. T \in SUBSET rest /\ n \in rest \ T /\ T \cup {n} = S
      BY <3>1
    <3>5. RestSoFar(g, tree, start, rest, T \cup {n}, pass_[S])
      <4> HIDE DEF T
      <4> QED  BY <3>1, <3>2, <3>3, <3>4, RestGoesOn
    <3> QED  BY <3>4, <3>5
  <2> QED  BY <2>1, <2>2
<1>8. rest \in G
  <2>1. \A S \in SUBSET rest : S \in G
    <3> HIDE DEF G
    <3> QED  BY <1>1, <1>7, SetInduction
  <2> QED  BY <2>1
<1> QED  BY <1>6, <1>8

-----------------------------------------------------------------------------
(* The invariant of the passes.                                            *)

LumpingInvariant ==
    /\ level \in Levels /\ up = ImmediateDominators(level)
    /\ pass \in {"simple", "heads", "contract", "done"}
    /\ left \subseteq Unmapped \ merged
    /\ Goes(level, up, lookup, merged)
    /\ pass \in {"simple", "heads"} => Convex(level, lookup)
    /\ pass = "simple" => \A n \in left, m \in merged : n < m
    /\ pass = "contract" => \A m \in level.node : lookup[m] \in level.mapped \cup left
    /\ pass = "done" => \A m \in level.node : lookup[m] \in level.mapped

LEMMA TaskHere ==
    ASSUME level \in Levels, up = ImmediateDominators(level)
    PROVE  IsTask(level, up)
BY LevelsAreLevels, LevelFacts, TreeFacts DEF IsTask

\* The node a pass takes next is the last of those that are left.
LEMMA BottomFacts ==
    ASSUME LumpingInvariant, left # {}
    PROVE  Bottom(left) \in left /\ \A m \in left \ {Bottom(left)} : m < Bottom(left)
<1>1. left \in SUBSET level.node /\ level.node \subseteq Nat /\ IsFiniteSet(level.node)
  BY TaskHere DEF LumpingInvariant, Unmapped, IsTask, IsNumbered, IsRooted
<1>2. left \in SUBSET Nat /\ IsFiniteSet(left)
  BY <1>1, FS_Subset
<1>3. Bottom(left) \in left /\ \A x \in left : x <= Bottom(left)
  BY <1>2, MaxOfFinite DEF Bottom
<1> DEFINE n == Bottom(left)
<1> HIDE DEF n
<1>4. \A m \in left \ {n} : m < n
  <2>1. n \in Nat /\ \A x \in left : x \in Nat /\ x <= n
    BY <1>2, <1>3 DEF n
  <2> QED  BY <2>1
<1> QED  BY <1>3, <1>4 DEF n

LEMMA InitInvariant ==
    Init => LumpingInvariant
<1> SUFFICES ASSUME Init PROVE LumpingInvariant
  OBVIOUS
<1>1. IsTask(level, up)
  BY TaskHere DEF Init
<1>2. lookup \in [level.node -> level.node] /\ \A m \in level.node : lookup[m] = m
  BY DEF Init, Unlumped
<1>3. \A m \in level.node : Dominates(level, lookup[m], m)
  BY <1>1, <1>2, OrderFacts DEF IsTask
<1>4. Orderly(level, lookup, merged)
  BY <1>2, <1>3 DEF Init, Orderly
<1>5. Sound(level, lookup) /\ DownIsLast(level, up, lookup) /\ Convex(level, lookup)
  BY <1>2, <1>3 DEF Sound, DownIsLast, Convex
<1> QED  BY <1>4, <1>5 DEF Init, LumpingInvariant, Goes

\* A node of a simple path goes up or down, and everything else stays.
LEMMA SimplePathInvariant ==
    LumpingInvariant /\ MergeSimplePath => LumpingInvariant'
<1> SUFFICES ASSUME LumpingInvariant, MergeSimplePath PROVE LumpingInvariant'
  OBVIOUS
<1> DEFINE n == Bottom(left)
<1>1. /\ IsTask(level, up) /\ Goes(level, up, lookup, merged) /\ Convex(level, lookup)
      /\ \A m \in left, k \in merged : m < k
      /\ left \subseteq level.node \ (level.mapped \cup merged)
      /\ level \in Levels /\ up = ImmediateDominators(level)
  BY TaskHere DEF LumpingInvariant, MergeSimplePath, Unmapped
<1>2. n \in left /\ \A m \in left \ {n} : m < n
  BY BottomFacts DEF MergeSimplePath
<1>3. n \in level.node \ (level.mapped \cup merged)
  BY <1>1, <1>2
<1> HIDE DEF n
<1>4. /\ pass' = "simple" /\ left' = left \ {n} /\ level' = level /\ up' = up
      /\ merged' = IF OnSimplePath(level, n) THEN merged \cup {n} ELSE merged
      /\ lookup' = LumpSimplePath(level, up, level.mapped, lookup, n)
  <2>1. ~(OnSimplePath(level, n) /\ Cardinality(Children(up, n)) > 1)
    <3>1. SUFFICES ASSUME OnSimplePath(level, n) PROVE ~(Cardinality(Children(up, n)) > 1)
      OBVIOUS
    <3>2. Cardinality(Children(up, n)) <= 1 /\ IsFiniteSet(Children(up, n))
      <4>1. Cardinality(Children(up, n)) <= 1
        BY <1>1, <1>3, <3>1, SimplePathMoves
      <4>2. Children(up, n) \in SUBSET level.node
        BY <1>1 DEF Children, IsTask, IsDominatorTree
      <4>3. IsFiniteSet(level.node)
        BY <1>1 DEF IsTask, IsNumbered, IsRooted
      <4> QED  BY <4>1, <4>2, <4>3, FS_Subset
    <3>3. Cardinality(Children(up, n)) \in Nat
      BY <3>2, FS_CardinalityType
    <3> QED  BY <3>2, <3>3
  <2> QED  BY <2>1 DEF MergeSimplePath, n
<1>5. Goes(level, up, lookup', merged') /\ Convex(level, lookup')
  <2>1. CASE ~OnSimplePath(level, n)
    BY <1>1, <1>4, <2>1 DEF LumpSimplePath
  <2>2. CASE OnSimplePath(level, n) /\ lookup' = Union(lookup, n, up[n])
    <3>1. up[n] \in level.node \ (merged \cup {n}) /\ Dominates(level, up[n], n)
      <4>1. up[n] \in level.node \ {n} /\ Dominates(level, up[n], n) /\ up[n] < n
        BY <1>1, <1>3, TaskFacts
      <4>2. up[n] \notin merged
        <5>1. SUFFICES ASSUME up[n] \in merged PROVE FALSE
          OBVIOUS
        <5>2. n < up[n] /\ n \in Nat /\ up[n] \in Nat
          BY <1>1, <1>2, <1>3, <4>1, <5>1 DEF IsTask, IsNumbered
        <5> QED  BY <4>1, <5>2
      <4> QED  BY <4>1, <4>2
    <3>2. Goes(level, up, Union(lookup, n, up[n]), merged \cup {n})
      BY <1>1, <1>3, <3>1, MoveUp
    <3>3. Convex(level, Union(lookup, n, up[n]))
      BY <1>1, <1>3, MoveUpConvex DEF Goes
    <3> QED  BY <1>4, <2>2, <3>2, <3>3
  <2>3. CASE /\ OnSimplePath(level, n)
             /\ \E s : /\ Succs(level, n) = {s} /\ lookup[s] \in level.mapped
                       /\ lookup' = Union(lookup, n, lookup[s])
    <3>1. PICK s : /\ Succs(level, n) = {s} /\ lookup[s] \in level.mapped
                   /\ lookup' = Union(lookup, n, lookup[s])
      BY <2>3
    <3>2. /\ Goes(level, up, Union(lookup, n, lookup[s]), merged \cup {n})
          /\ Convex(level, Union(lookup, n, lookup[s]))
      BY <1>1, <1>3, <3>1, MoveDown
    <3> QED  BY <1>4, <2>3, <3>1, <3>2
  <2>4. OnSimplePath(level, n) =>
           \/ lookup' = Union(lookup, n, up[n])
           \/ \E s : /\ Succs(level, n) = {s} /\ lookup[s] \in level.mapped
                     /\ lookup' = Union(lookup, n, lookup[s])
    BY <1>1, <1>3, <1>4, SimplePathMoves
  <2> QED  BY <2>1, <2>2, <2>3, <2>4
<1>6. merged \subseteq merged' /\ merged' \subseteq merged \cup {n}
  BY <1>4
<1>7. left' \subseteq level.node \ (level.mapped \cup merged')
  BY <1>1, <1>4, <1>6
<1>8. \A m \in left', k \in merged' : m < k
  BY <1>1, <1>2, <1>4, <1>6
<1> QED  BY <1>1, <1>4, <1>5, <1>7, <1>8 DEF LumpingInvariant, Unmapped

\* No set of a moved node has kept or got anything.
LEMMA FinishSimplePathsInvariant ==
    LumpingInvariant /\ FinishSimplePaths => LumpingInvariant'
<1> SUFFICES ASSUME LumpingInvariant, FinishSimplePaths PROVE LumpingInvariant'
  OBVIOUS
<1>1. Emptied(merged)
  BY DEF LumpingInvariant, FinishSimplePaths, Goes, Orderly, Emptied
<1>2. /\ pass' = "heads" /\ left' = Unmapped \ merged
      /\ UNCHANGED <<level, up, merged, lookup>>
  BY <1>1 DEF FinishSimplePaths
<1> QED  BY <1>2 DEF LumpingInvariant, FinishSimplePaths, Unmapped

\* A head goes down or stays.
LEMMA HeadInvariant ==
    LumpingInvariant /\ MergeHead => LumpingInvariant'
<1> SUFFICES ASSUME LumpingInvariant, MergeHead PROVE LumpingInvariant'
  OBVIOUS
<1>1. /\ IsTask(level, up) /\ Goes(level, up, lookup, merged) /\ Convex(level, lookup)
      /\ left \subseteq level.node \ (level.mapped \cup merged)
      /\ level \in Levels /\ up = ImmediateDominators(level)
      /\ pass' = "heads" /\ level' = level /\ up' = up
  BY TaskHere DEF LumpingInvariant, MergeHead, Unmapped
<1>2. PICK n \in left : /\ lookup' = LumpHead(level, up, level.mapped, lookup, n)
                        /\ merged' = IF lookup'[n] # lookup[n] THEN merged \cup {n} ELSE merged
                        /\ left' = left \ {n}
  BY DEF MergeHead
<1>3. n \in level.node \ (level.mapped \cup merged)
  BY <1>1
<1>4. Goes(level, up, lookup', merged') /\ Convex(level, lookup')
  <2>1. CASE lookup' = lookup
    BY <1>1, <1>2, <2>1
  <2>2. CASE \E s : /\ Succs(level, n) = {s} /\ lookup[s] \in level.mapped
                    /\ lookup' = Union(lookup, n, lookup[s])
    <3>1. PICK s : /\ Succs(level, n) = {s} /\ lookup[s] \in level.mapped
                   /\ lookup' = Union(lookup, n, lookup[s])
      BY <2>2
    <3>2. Goes(level, up, lookup', merged \cup {n}) /\ Convex(level, lookup')
      BY <1>1, <1>3, <3>1, MoveDown
    <3>3. lookup'[n] # lookup[n]
      <4>1. lookup[n] = n /\ lookup \in [level.node -> level.node]
        BY <1>1, <1>3 DEF Goes, Orderly
      <4>2. lookup'[n] = lookup[s]
        <5>1. lookup[s] \in level.node
          BY <1>1, <3>1 DEF IsTask
        <5> QED  BY <1>3, <3>1, <4>1, <5>1, UnionFacts
      <4> QED  BY <1>3, <3>1, <4>1, <4>2
    <3> QED  BY <1>2, <3>2, <3>3
  <2> QED  BY <1>1, <1>2, <1>3, <2>1, <2>2, HeadMoves
<1>5. merged' \subseteq merged \cup {n}
  BY <1>2
<1>6. left' \subseteq level.node \ (level.mapped \cup merged')
  BY <1>1, <1>2, <1>5
<1> QED  BY <1>1, <1>4, <1>6 DEF LumpingInvariant, Unmapped

LEMMA FinishHeadsInvariant ==
    LumpingInvariant /\ FinishHeads => LumpingInvariant'
<1> SUFFICES ASSUME LumpingInvariant, FinishHeads PROVE LumpingInvariant'
  OBVIOUS
<1>1. /\ pass' = "contract" /\ left' = Unmapped \ merged
      /\ UNCHANGED <<level, up, merged, lookup>>
  BY DEF FinishHeads
<1>2. \A m \in level.node : lookup[m] \in level.mapped \cup left'
  BY <1>1 DEF LumpingInvariant, Goes, Orderly, Unmapped
<1> QED  BY <1>1, <1>2 DEF LumpingInvariant, Unmapped

\* The rest goes up, and there is always less of it.
LEMMA ContractInvariant ==
    LumpingInvariant /\ Contract => LumpingInvariant'
<1> SUFFICES ASSUME LumpingInvariant, Contract PROVE LumpingInvariant'
  OBVIOUS
<1> DEFINE n == Bottom(left)
           t == lookup[up[n]]
<1>1. /\ IsTask(level, up) /\ Goes(level, up, lookup, merged)
      /\ left \subseteq level.node \ (level.mapped \cup merged)
      /\ level \in Levels /\ up = ImmediateDominators(level)
      /\ \A m \in level.node : lookup[m] \in level.mapped \cup left
      /\ pass' = "contract" /\ level' = level /\ up' = up
  BY TaskHere DEF LumpingInvariant, Contract, Unmapped
<1>2. n \in left
  BY BottomFacts DEF Contract
<1>3. lookup' = Union(lookup, n, t) /\ merged' = merged \cup {n} /\ left' = left \ {n}
  BY DEF Contract, LumpUp
<1> HIDE DEF n
<1>4. n \in level.node \ (level.mapped \cup merged)
  BY <1>1, <1>2
<1>5. t \in level.node \ (merged \cup {n}) /\ Dominates(level, t, n)
  BY <1>1, <1>4, RestMoves
<1>6. up[n] \in level.node
  BY <1>1, <1>4, TaskFacts
<1>7. Goes(level, up, lookup', merged')
  <2> HIDE DEF t
  <2> QED  BY <1>1, <1>3, <1>4, <1>5, MoveUp
<1>8. \A m \in level.node : lookup'[m] \in level.mapped \cup left'
  <2>1. \A m \in level.node : lookup'[m] = IF lookup[m] = n THEN t ELSE lookup[m]
    <3>1. lookup \in [level.node -> level.node]
      BY <1>1 DEF Goes, Orderly
    <3> HIDE DEF t
    <3> QED  BY <1>3, <1>5, <3>1, UnionFacts
  <2>2. t \in level.mapped \cup left
    BY <1>1, <1>6
  <2> HIDE DEF t
  <2> QED  BY <1>1, <1>3, <1>5, <2>1, <2>2
<1>9. left' \subseteq level.node \ (level.mapped \cup merged')
  BY <1>1, <1>3
<1> QED  BY <1>1, <1>7, <1>8, <1>9 DEF LumpingInvariant, Unmapped

LEMMA FinishInvariant ==
    LumpingInvariant /\ Finish => LumpingInvariant'
<1> SUFFICES ASSUME LumpingInvariant, Finish PROVE LumpingInvariant'
  OBVIOUS
<1>1. \A m \in level.node : lookup[m] \in level.mapped
  BY DEF LumpingInvariant, Finish
<1>2. pass' = "done" /\ UNCHANGED <<level, up, left, merged, lookup>>
  BY <1>1 DEF Finish
<1> QED  BY <1>1, <1>2 DEF LumpingInvariant, Unmapped

LEMMA StepInvariant ==
    LumpingInvariant /\ [Next]_vars => LumpingInvariant'
<1> SUFFICES ASSUME LumpingInvariant, [Next]_vars PROVE LumpingInvariant'
  OBVIOUS
<1>1. CASE UNCHANGED vars
  BY <1>1 DEF vars, LumpingInvariant, Unmapped
<1>2. CASE Ended
  BY <1>1, <1>2 DEF Ended
<1> QED  BY <1>1, <1>2, SimplePathInvariant, FinishSimplePathsInvariant, HeadInvariant,
            FinishHeadsInvariant, ContractInvariant, FinishInvariant DEF Next

\* The invariant holds for all levels, whatever is mapped already.
THEOREM LumpingInvariantHolds == Spec => []LumpingInvariant
BY InitInvariant, StepInvariant, PTL DEF Spec

-----------------------------------------------------------------------------
(* The passes give what Completions says.                                  *)

SimpleOutcome == SimplePass(level, up, Depth(level), level.mapped)[Unmapped]

Tops == {n \in Unmapped : SimpleOutcome[n] = n /\ IsHead(level, up, n)}

HeadOutcomes == HeadPass(level, up, level.mapped, SimpleOutcome, Tops)

Rest(start) == {n \in Unmapped : start[n] = n}

\* How far the passes have come with it.
InOneGo ==
    /\ pass = "simple" =>
        /\ \E down : SimpleSoFar(level, up, Unmapped \ left, down, lookup)
        /\ \A m \in Unmapped \ left, k \in left : k < m
    /\ pass = "heads" =>
        /\ lookup \in HeadOutcomes[Tops \ left]
        /\ \A n \in left : SimpleOutcome[n] = n
    /\ pass = "contract" =>
        \E start \in HeadOutcomes[Tops] :
            /\ IsRest(level, start, Rest(start)) /\ left \subseteq Rest(start)
            /\ RestSoFar(level, up, start, Rest(start), Rest(start) \ left, lookup)
            /\ \A m \in Rest(start) \ left, k \in left : k < m
    /\ pass = "done" => lookup \in Completions(level, level.mapped)

LEMMA OneGoStarts ==
    Init => InOneGo
<1> SUFFICES ASSUME Init PROVE InOneGo
  OBVIOUS
<1>1. IsTask(level, up)
  BY TaskHere DEF Init
<1>2. SimpleSoFar(level, up, {}, {}, lookup)
  BY <1>1, SimpleStarts DEF Init
<1>3. Unmapped \ left = {} /\ pass = "simple"
  BY DEF Init
<1>4. SimpleSoFar(level, up, Unmapped \ left, {}, lookup)
  BY <1>2, <1>3
<1> QED  BY <1>3, <1>4 DEF InOneGo

LEMMA OneGoSimplePath ==
    LumpingInvariant /\ InOneGo /\ MergeSimplePath => InOneGo'
<1> SUFFICES ASSUME LumpingInvariant, InOneGo, MergeSimplePath PROVE InOneGo'
  OBVIOUS
<1> DEFINE n == Bottom(left)
           S == Unmapped \ left
<1>1. /\ IsTask(level, up) /\ left \subseteq Unmapped /\ Unmapped = level.node \ level.mapped
      /\ \A m \in S, k \in left : k < m
  BY TaskHere DEF LumpingInvariant, InOneGo, MergeSimplePath, Unmapped
<1>2. n \in left /\ \A m \in left \ {n} : m < n
  BY BottomFacts DEF MergeSimplePath
<1>3. PICK down : SimpleSoFar(level, up, S, down, lookup)
  BY DEF InOneGo, MergeSimplePath
<1>4. /\ pass' = "simple" /\ left' = left \ {n} /\ level' = level /\ up' = up
      /\ lookup' = LumpSimplePath(level, up, level.mapped, lookup, n)
  <2>1. pass' # "aborted"
    BY SimplePathInvariant DEF LumpingInvariant
  <2> QED  BY <2>1 DEF MergeSimplePath
<1>5. Unmapped' = Unmapped /\ Unmapped' \ left' = S \cup {n}
  BY <1>1, <1>2, <1>4 DEF Unmapped
<1> HIDE DEF n
<1>6. IsNext(level, up, S, n)
  <2>1. n \in level.node \ level.mapped /\ n \notin S /\ S \subseteq level.node \ level.mapped
    BY <1>1, <1>2
  <2>2. up[n] < n /\ up[n] \in Nat /\ n \in Nat
    BY <1>1, <2>1, TaskFacts DEF IsTask, IsNumbered
  <2>3. up[n] \notin S
    <3>1. SUFFICES ASSUME up[n] \in S PROVE FALSE
      OBVIOUS
    <3>2. n < up[n]
      BY <1>1, <1>2, <3>1
    <3> QED  BY <2>2, <3>2
  <2>4. ASSUME NEW c \in Children(up, n) \ level.mapped PROVE c \in S
    <3>1. c \in level.node /\ c \in Nat /\ n < c
      BY <1>1, <2>1, NumbersOfChildren
    <3>2. c \notin left
      BY <1>2, <2>2, <3>1
    <3> QED  BY <1>1, <3>1, <3>2
  <2> QED  BY <2>1, <2>3, <2>4 DEF IsNext
<1>7. PICK also : SimpleSoFar(level, up, S \cup {n}, also, lookup')
  <2> HIDE DEF S
  <2> QED  BY <1>1, <1>3, <1>4, <1>6, SimpleGoesOn
<1>8. \A m \in Unmapped' \ left', k \in left' : k < m
  BY <1>1, <1>2, <1>4, <1>5
<1>9. \E d : SimpleSoFar(level', up', Unmapped' \ left', d, lookup')
  BY <1>4, <1>5, <1>7
<1> QED  BY <1>4, <1>8, <1>9 DEF InOneGo

LEMMA OneGoFinishSimplePaths ==
    LumpingInvariant /\ InOneGo /\ FinishSimplePaths => InOneGo'
<1> SUFFICES ASSUME LumpingInvariant, InOneGo, FinishSimplePaths PROVE InOneGo'
  OBVIOUS
<1>1. /\ IsTask(level, up) /\ Orderly(level, lookup, merged) /\ left = {}
      /\ Unmapped = level.node \ level.mapped
  BY TaskHere DEF LumpingInvariant, FinishSimplePaths, Unmapped, Goes
<1>2. pass' = "heads" /\ left' = Unmapped \ merged /\ UNCHANGED <<level, up, merged, lookup>>
  <2>1. pass' # "aborted"
    BY FinishSimplePathsInvariant DEF LumpingInvariant
  <2> QED  BY <2>1 DEF FinishSimplePaths
<1>3. lookup = SimpleOutcome
  <2>1. \E down : SimpleSoFar(level, up, Unmapped, down, lookup)
    BY <1>1 DEF InOneGo, FinishSimplePaths
  <2>2. \E down : SimpleSoFar(level, up, Unmapped, down, SimpleOutcome)
    BY <1>1, SimplePassFacts DEF SimpleOutcome
  <2> QED  BY <1>1, <2>1, <2>2, SimpleIsUnique
<1>4. \A n \in left' : SimpleOutcome[n] = n
  BY <1>1, <1>2, <1>3 DEF Orderly
<1>5. Tops \ left' = {}
  <2>1. ASSUME NEW n \in Tops PROVE n \in left'
    <3>1. n \in Unmapped /\ lookup[n] = n
      BY <1>3 DEF Tops
    <3> QED  BY <1>1, <1>2, <3>1 DEF Orderly
  <2> QED  BY <2>1
<1>6. lookup \in HeadOutcomes[{}]
  <2>1. SimpleOutcome \in [level.node -> level.node] /\ Tops \in SUBSET (level.node \ level.mapped)
    BY <1>1, <1>3 DEF Orderly, Tops
  <2>2. IsHeadPass(level, up, SimpleOutcome, Tops, HeadOutcomes)
    BY <1>1, <2>1, HeadPassFacts DEF HeadOutcomes
  <2> QED  BY <1>3, <2>2 DEF IsHeadPass
<1>7. SimpleOutcome' = SimpleOutcome /\ Tops' = Tops /\ HeadOutcomes' = HeadOutcomes
  BY <1>2 DEF SimpleOutcome, Tops, HeadOutcomes, Unmapped
<1>8. lookup' \in HeadOutcomes'[Tops' \ left'] /\ \A n \in left' : SimpleOutcome'[n] = n
  BY <1>2, <1>4, <1>5, <1>6, <1>7
<1> QED  BY <1>2, <1>8 DEF InOneGo

LEMMA OneGoHead ==
    LumpingInvariant /\ InOneGo /\ MergeHead => InOneGo'
<1> SUFFICES ASSUME LumpingInvariant, InOneGo, MergeHead PROVE InOneGo'
  OBVIOUS
<1>1. /\ IsTask(level, up) /\ left \subseteq Unmapped /\ Unmapped = level.node \ level.mapped
      /\ lookup \in HeadOutcomes[Tops \ left] /\ \A n \in left : SimpleOutcome[n] = n
      /\ pass' = "heads" /\ level' = level /\ up' = up
  BY TaskHere DEF LumpingInvariant, InOneGo, MergeHead, Unmapped
<1>2. PICK n \in left : /\ lookup' = LumpHead(level, up, level.mapped, lookup, n)
                        /\ left' = left \ {n}
  BY DEF MergeHead
<1>3. lookup' \in HeadOutcomes[Tops \ left']
  <2>1. CASE IsHead(level, up, n)
    <3> DEFINE S == Tops \ left'
    <3>1. n \in Tops
      BY <1>1, <2>1 DEF Tops
    <3>2. S \in SUBSET Tops /\ n \in S /\ S \ {n} = Tops \ left
      BY <1>2, <3>1
    <3>3. Tops \in SUBSET (level.node \ level.mapped)
      BY <1>1 DEF Tops
    <3>4. SimpleOutcome \in [level.node -> level.node]
      BY <1>1, SimplePassFacts DEF SimpleOutcome, SimpleSoFar
    <3>5. IsHeadPass(level, up, SimpleOutcome, Tops, HeadOutcomes)
      BY <1>1, <3>3, <3>4, HeadPassFacts DEF HeadOutcomes
    <3> HIDE DEF S
    <3>6. LumpHead(level, up, level.mapped, lookup, n) \in HeadOutcomes[S]
      BY <1>1, <3>2, <3>5 DEF IsHeadPass
    <3> QED  BY <1>2, <3>6 DEF S
  <2>2. CASE ~IsHead(level, up, n)
    <3>1. lookup' = lookup
      BY <1>2, <2>2 DEF LumpHead
    <3>2. Tops \ left' = Tops \ left
      BY <1>2, <2>2 DEF Tops
    <3> QED  BY <1>1, <3>1, <3>2
  <2> QED  BY <2>1, <2>2
<1>4. SimpleOutcome' = SimpleOutcome /\ Tops' = Tops /\ HeadOutcomes' = HeadOutcomes
  BY <1>1 DEF SimpleOutcome, Tops, HeadOutcomes, Unmapped
<1>5. lookup' \in HeadOutcomes'[Tops' \ left'] /\ \A m \in left' : SimpleOutcome'[m] = m
  BY <1>1, <1>2, <1>3, <1>4
<1> QED  BY <1>1, <1>5 DEF InOneGo

LEMMA OneGoFinishHeads ==
    LumpingInvariant /\ InOneGo /\ FinishHeads => InOneGo'
<1> SUFFICES ASSUME LumpingInvariant, InOneGo, FinishHeads PROVE InOneGo'
  OBVIOUS
<1>1. /\ IsTask(level, up) /\ Orderly(level, lookup, merged)
      /\ lookup \in HeadOutcomes[Tops \ left] /\ left = {}
      /\ Unmapped = level.node \ level.mapped
      /\ pass' = "contract" /\ left' = Unmapped \ merged /\ UNCHANGED <<level, up, lookup>>
  BY TaskHere DEF LumpingInvariant, InOneGo, FinishHeads, Unmapped, Goes
<1>2. Rest(lookup) = Unmapped \ merged
  BY <1>1 DEF Rest, Orderly
<1>3. IsRest(level, lookup, Rest(lookup))
  <2>1. Rest(lookup) \subseteq level.node \ level.mapped /\ level.mapped \subseteq level.node
    BY <1>1 DEF Rest, IsTask
  <2>2. \A m \in level.mapped \cup Rest(lookup) : lookup[m] = m
    BY <1>1, <1>2, <2>1 DEF Orderly
  <2>3. \A m \in level.node : \/ lookup[m] \in level.mapped
                              \/ lookup[m] \in Rest(lookup) /\ Dominates(level, lookup[m], m)
    BY <1>1, <1>2 DEF Orderly
  <2> QED  BY <1>1, <2>1, <2>2, <2>3 DEF IsRest, Orderly
<1>4. RestSoFar(level, up, lookup, Rest(lookup), {}, lookup)
  BY <1>1, <1>3, RestStarts
<1>5. Rest(lookup) \ left' = {} /\ left' \subseteq Rest(lookup)
  BY <1>1, <1>2
<1>6. Tops \ left = Tops
  BY <1>1
<1>7. PICK start : start = lookup
  OBVIOUS
<1>8. Tops' = Tops /\ HeadOutcomes' = HeadOutcomes /\ Rest(start)' = Rest(start)
  BY <1>1 DEF SimpleOutcome, Tops, HeadOutcomes, Unmapped, Rest
<1>9. /\ start \in HeadOutcomes[Tops]
      /\ IsRest(level', start, Rest(start)') /\ left' \subseteq Rest(start)'
      /\ RestSoFar(level', up', start, Rest(start)', Rest(start)' \ left', lookup')
      /\ \A m \in Rest(start)' \ left', k \in left' : k < m
  BY <1>1, <1>3, <1>4, <1>5, <1>6, <1>7, <1>8
<1> QED  BY <1>1, <1>8, <1>9 DEF InOneGo

LEMMA OneGoContract ==
    LumpingInvariant /\ InOneGo /\ Contract => InOneGo'
<1> SUFFICES ASSUME LumpingInvariant, InOneGo, Contract PROVE InOneGo'
  OBVIOUS
<1> DEFINE n == Bottom(left)
<1>1. IsTask(level, up) /\ left \subseteq level.node
  BY TaskHere DEF LumpingInvariant, Unmapped
<1>2. n \in left /\ \A m \in left \ {n} : m < n
  BY BottomFacts DEF Contract
<1>3. PICK start \in HeadOutcomes[Tops] :
          /\ IsRest(level, start, Rest(start)) /\ left \subseteq Rest(start)
          /\ RestSoFar(level, up, start, Rest(start), Rest(start) \ left, lookup)
          /\ \A m \in Rest(start) \ left, k \in left : k < m
  BY DEF InOneGo, Contract
<1>4. /\ pass' = "contract" /\ left' = left \ {n} /\ level' = level /\ up' = up
      /\ lookup' = LumpUp(up, lookup, n)
  BY DEF Contract
<1> HIDE DEF n
<1> DEFINE rest == Rest(start)
           S == rest \ left
<1>5. \A d \in S : ~Dominates(level, d, n)
  <2>1. SUFFICES ASSUME NEW d \in S, Dominates(level, d, n) PROVE FALSE
    OBVIOUS
  <2>2. d \in level.node /\ n \in level.node
    BY <1>1, <1>2 DEF Rest, Unmapped
  <2>3. d <= n /\ n < d /\ d \in Nat /\ n \in Nat
    BY <1>1, <1>2, <1>3, <2>1, <2>2 DEF IsTask, IsNumbered
  <2> QED  BY <2>3
<1>6. S \in SUBSET rest /\ n \in rest \ S /\ S \cup {n} = rest \ left'
  BY <1>2, <1>3, <1>4
<1>7. \A m \in rest \ left', k \in left' : k < m
  BY <1>2, <1>3, <1>4
<1>8. IsRest(level, start, rest) /\ left' \subseteq rest /\ RestSoFar(level, up, start, rest, S, lookup)
  BY <1>3, <1>4
<1>9. Tops' = Tops /\ HeadOutcomes' = HeadOutcomes /\ \A f : Rest(f)' = Rest(f)
  BY <1>4 DEF SimpleOutcome, Tops, HeadOutcomes, Unmapped, Rest
<1> HIDE DEF rest, S
<1>10. RestSoFar(level, up, start, rest, S \cup {n}, lookup')
  BY <1>1, <1>4, <1>5, <1>6, <1>8, RestGoesOn
<1>11. RestSoFar(level, up, start, rest, rest \ left', lookup')
  BY <1>6, <1>10
<1>12. Rest(start)' = rest
  BY <1>4 DEF rest, Rest, Unmapped
<1> QED  BY <1>3, <1>4, <1>7, <1>8, <1>9, <1>11, <1>12 DEF InOneGo, rest, Rest, Unmapped

LEMMA OneGoFinish ==
    LumpingInvariant /\ InOneGo /\ Finish => InOneGo'
<1> SUFFICES ASSUME LumpingInvariant, InOneGo, Finish PROVE InOneGo'
  OBVIOUS
<1>1. IsTask(level, up) /\ left = {} /\ up = ImmediateDominators(level)
  BY TaskHere DEF LumpingInvariant, Finish
<1>2. PICK start \in HeadOutcomes[Tops] :
          /\ IsRest(level, start, Rest(start))
          /\ RestSoFar(level, up, start, Rest(start), Rest(start) \ left, lookup)
  BY DEF InOneGo, Finish
<1> DEFINE rest == Rest(start)
<1>3. rest \ left = rest
  BY <1>1
<1>4. RestSoFar(level, up, start, rest, rest, lookup)
  BY <1>2, <1>3
<1>5. RestSoFar(level, up, start, rest, rest, LastPass(up, Depth(level), start, rest)[rest])
  BY <1>1, <1>2, LastPassFacts
<1>6. lookup = LastPass(up, Depth(level), start, rest)[rest]
  BY <1>1, <1>2, <1>4, <1>5, RestIsUnique
<1>7. lookup \in Completions(level, level.mapped)
  <2>1. Completions(level, level.mapped)
          = {LastPass(up, Depth(level), f, Rest(f))[Rest(f)] : f \in HeadOutcomes[Tops]}
    BY <1>1 DEF Completions, HeadOutcomes, Tops, SimpleOutcome, Rest, Unmapped
  <2> QED  BY <1>2, <1>6, <2>1
<1>8. pass' \in {"done", "aborted"} /\ level' = level /\ lookup' = lookup
  BY DEF Finish
<1> QED  BY <1>7, <1>8 DEF InOneGo

LEMMA OneGoStep ==
    LumpingInvariant /\ InOneGo /\ [Next]_vars => InOneGo'
<1> SUFFICES ASSUME LumpingInvariant, InOneGo, [Next]_vars PROVE InOneGo'
  OBVIOUS
<1>1. CASE UNCHANGED vars
  <2>1. /\ level' = level /\ up' = up /\ pass' = pass /\ left' = left /\ lookup' = lookup
        /\ Unmapped' = Unmapped
    BY <1>1 DEF vars, Unmapped
  <2>2. SimpleOutcome' = SimpleOutcome /\ Tops' = Tops /\ HeadOutcomes' = HeadOutcomes
    BY <2>1 DEF SimpleOutcome, Tops, HeadOutcomes
  <2> QED  BY <2>1, <2>2 DEF InOneGo, Rest
<1>2. CASE Ended
  BY <1>1, <1>2 DEF Ended
<1> QED  BY <1>1, <1>2, OneGoSimplePath, OneGoFinishSimplePaths, OneGoHead, OneGoFinishHeads,
            OneGoContract, OneGoFinish DEF Next

LEMMA OneGoHolds == Spec => []InOneGo
<1>1. LumpingInvariant /\ InOneGo /\ [Next]_vars => InOneGo'
  BY OneGoStep
<1> QED  BY <1>1, OneGoStarts, LumpingInvariantHolds, PTL DEF Spec

-----------------------------------------------------------------------------
(* What follows.                                                           *)

\* All instructions are accounted for where they are sure to be: with a node that has run
\* whenever they run, or one that control goes straight on to, in every pass of
\* _map_subgraph.
THEOREM LumpingIsSound == Spec => []LumpedSoundly
<1>1. LumpingInvariant => LumpedSoundly
  BY DEF LumpingInvariant, Goes, Sound, LumpedSoundly
<1> QED  BY <1>1, LumpingInvariantHolds, PTL

\* No assertion of _map_subgraph fails ("Invalid dominator tree.", "Algorithm failed, must
\* fix.", "Not all unmapped nodes were assigned to mapped points."); mapped nodes keep
\* their image, and in the end every node has one.
THEOREM LumpingNeverFails == Spec => [](TypeOK /\ pass # "aborted" /\ EveryNodeMapped)
<1>1. ASSUME LumpingInvariant PROVE TypeOK /\ pass # "aborted" /\ EveryNodeMapped
  <2>1. IsTask(level, up)
    BY <1>1, TaskHere DEF LumpingInvariant
  <2>2. \A n \in level.mapped : lookup[n] = n
    BY <1>1, <2>1 DEF LumpingInvariant, Goes, Orderly, IsTask
  <2> QED  BY <1>1, <2>2 DEF LumpingInvariant, Goes, Orderly, TypeOK, EveryNodeMapped, Unmapped
<1> QED  BY <1>1, LumpingInvariantHolds, PTL

\* All the passes have been for is what they give in one go: once _map_subgraph is done, the
\* map is one of the completions that merging the simple paths, the heads and the rest from
\* the leaves of the dominator tree to its root gives, whatever the numbers of the nodes;
\* only the order of the heads is left open.
THEOREM LumpingIsComplete == Spec => []LumpingComplete
<1>1. TypeOK /\ pass # "aborted" /\ EveryNodeMapped /\ InOneGo => LumpingComplete
  BY DEF InOneGo, LumpingComplete
<1> QED  BY <1>1, LumpingNeverFails, OneGoHolds, PTL
=============================================================================
